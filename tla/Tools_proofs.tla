----------------------------- MODULE Tools_proofs -----------------------------
(***************************************************************************)
(* What the tools promise for any home, catalog, risk map and reflex       *)
(* configuration: a call is aimed at entities of the tool's own domain,    *)
(* none reaches an entity, known when the tools were made, that is riskier *)
(* than the tool; index and manifest are current, what is offered works,   *)
(* and the tools and their fields are the catalog's.                       *)
(***************************************************************************)
EXTENDS Tools, FiniteSetTheorems, SequenceTheorems, WellFoundedInduction, TLAPS

-----------------------------------------------------------------------------
(* Resolution                                                              *)

\* A target is only ever resolved to entities of the domain asked for.
LEMMA ResolveInDomain ==
  ASSUME NEW d, NEW target, NEW i
  PROVE  Resolve(d, target, i) \subseteq EntitiesForDomain(d, i)
BY DEF Resolve, ById, ByArea, ByName

\* What a tool of a domain sends is aimed at nothing, unless it is targeted, or
\* at what its target resolves to, which is never nothing.
LEMMA ExecuteAims ==
  ASSUME NEW spec, NEW asked, NEW target, NEW params, NEW i, spec # EscapeHatch,
         Execute(spec, asked, target, params, i).kind = "call"
  PROVE  LET call == Execute(spec, asked, target, params, i)
         IN /\ call.entities \subseteq EntitiesForDomain(spec.domain, i)
            /\ spec.targeted => call.entities # {}
<1> DEFINE call  == Execute(spec, asked, target, params, i)
           aim   == Aim(spec, target, i)
           found == Resolve(spec.domain, target, i)
<1>1. CASE ~spec.targeted
  BY <1>1 DEF Execute, Call
<1>2. CASE spec.targeted
  <2>1. aim # None
    <3>1. aim = None => call = Refused("target")
      BY <1>2 DEF Execute
    <3>2. Refused("target").kind # "call"
      BY DEF Refused
    <3>3. QED
      BY <3>1, <3>2
  <2>2. aim = found /\ found # {}
    BY <2>1 DEF Aim
  <2>3. call.entities = aim
    BY <1>2, <2>1 DEF Execute, Call
  <2>4. QED
    BY <2>2, <2>3, ResolveInDomain
<1>3. QED
  BY <1>1, <1>2

\* Whatever a targeted tool is called with, its call is aimed at entities of the
\* tool's domain that the index has, never at none.
THEOREM AlwaysWellAimed == Spec => []WellAimed
<1>1. WellAimed
  BY ExecuteAims DEF WellAimed
<1>2. QED
  BY <1>1, PTL

-----------------------------------------------------------------------------
(* Risk                                                                    *)

\* A risk is one of three.
LEMMA RiskForType ==
  ASSUME NEW d, NEW class
  PROVE  RiskFor(d, class) \in {"benign", "elevated", "critical"}
BY DEF RiskFor

\* The risk of a domain's tools is that of the riskiest of its entities.
LEMMA DomainRiskCovers ==
  ASSUME NEW d, NEW i, NEW e \in EntitiesForDomain(d, i)
  PROVE  Rank[RiskFor(d, i[e].class)] <= Rank[DomainToolRisk(d, i)]
<1> DEFINE R == Risks(d, i)
           Greatest(r) == \A q \in R : Rank[q] <= Rank[r]
<1>1. RiskFor(d, i[e].class) \in R
  BY DEF Risks
<1>2. R \subseteq {"benign", "elevated", "critical"}
  BY RiskForType DEF Risks
<1>3. Rank["benign"] = 0 /\ Rank["elevated"] = 1 /\ Rank["critical"] = 2
  BY DEF Rank
<1>4. \E r \in R : Greatest(r)
  <2>1. CASE "critical" \in R
    <3>1. Greatest("critical")
      BY <1>2, <1>3
    <3>2. QED
      BY <2>1, <3>1
  <2>2. CASE "critical" \notin R /\ "elevated" \in R
    <3>1. Greatest("elevated")
      BY <1>2, <1>3, <2>2
    <3>2. QED
      BY <2>2, <3>1
  <2>3. CASE "critical" \notin R /\ "elevated" \notin R
    <3>1. "benign" \in R
      BY <1>1, <1>2, <2>3
    <3>2. Greatest("benign")
      BY <1>2, <1>3, <2>3
    <3>3. QED
      BY <3>1, <3>2
  <2>4. QED
    BY <2>1, <2>2, <2>3
<1>5. DomainToolRisk(d, i) = CHOOSE r \in R : Greatest(r)
  BY DEF DomainToolRisk
<1>6. Greatest(DomainToolRisk(d, i))
  <2> HIDE DEF R, Greatest
  <2>1. QED
    BY <1>4, <1>5
<1>7. QED
  BY <1>1, <1>6

\* A tool made for a domain carries that domain and the domain's risk.
LEMMA DomainSpecsCarry ==
  ASSUME NEW d, NEW services, NEW risk, NEW spec \in DomainSpecs(d, services, risk)
  PROVE  spec.domain = d /\ spec.risk = risk
<1>1. spec \in ReflexSpecs(d, services, risk) \cup ConsciousSpecs(d, services, risk)
  BY DEF DomainSpecs
<1>2. ASSUME spec \in ReflexSpecs(d, services, risk)
      PROVE  \E s, fields : spec = Spec4(d, s, "reflex", risk, fields, TRUE)
  BY <1>2 DEF ReflexSpecs
<1>3. ASSUME spec \in ConsciousSpecs(d, services, risk)
      PROVE  \E s, fields, t : spec = Spec4(d, s, "conscious", risk, fields, t)
  BY <1>3 DEF ConsciousSpecs
<1>4. QED
  BY <1>1, <1>2, <1>3 DEF Spec4

\* The tools there are were generated from the catalog and the first index.
SpecsInv == Ready => specs = Generate(made, first)

\* A step keeps the tools, or generates them from the index of that moment.
LEMMA SpecsInvNext == SpecsInv /\ [Next]_vars => SpecsInv'
<1> SUFFICES ASSUME SpecsInv, [Next]_vars PROVE SpecsInv'
  OBVIOUS
<1>1. CASE OnConnectEnds
  BY <1>1 DEF OnConnectEnds, SpecsInv, Ready
<1>2. CASE UNCHANGED <<specs, first, made>>
  BY <1>2 DEF SpecsInv, Ready
<1>3. QED
  BY <1>1, <1>2 DEF Next, vars, toolVars, refreshFrame, Subscribed, SetupFetches, SetupInstalls,
     OnConnect, Drop, RefreshBegins, RefreshFetches, RefreshFails, RefreshRebuilds,
     RefreshRegisters, RegistryChange, StateChange

\* A call that reaches an entity known when the tools were made is made with a
\* tool at least as risky as the entity.
THEOREM RiskIsCovered == Spec => []RiskCoversKnown
<1>1. Init => SpecsInv
  BY DEF Init, SpecsInv, Ready
<1>2. SpecsInv => RiskCoversKnown
  <2>1. SUFFICES ASSUME SpecsInv, Ready, NEW spec \in specs, NEW target \in Texts \ {None},
                        Execute(spec, <<None, None>>, target, {}, index).kind = "call",
                        NEW e \in Execute(spec, <<None, None>>, target, {}, index).entities
                                  \cap DOMAIN first
                 PROVE  Rank[RiskFor(DomainOf[e], first[e].class)] <= Rank[spec.risk]
    BY DEF RiskCoversKnown
  <2>2. CASE spec = EscapeHatch
    <3>1. spec.risk = "critical"
      BY <2>2 DEF EscapeHatch, Spec4
    <3>2. RiskFor(DomainOf[e], first[e].class) \in {"benign", "elevated", "critical"}
      BY RiskForType
    <3>3. QED
      BY <3>1, <3>2 DEF Rank
  <2>3. CASE spec # EscapeHatch
    <3>1. PICK d : /\ spec \in DomainSpecs(d, made[d], DomainToolRisk(d, first))
      BY <2>1, <2>3 DEF SpecsInv, Generate
    <3>2. spec.domain = d /\ spec.risk = DomainToolRisk(d, first)
      BY <3>1, DomainSpecsCarry
    <3>3. DomainOf[e] = d /\ e \in DOMAIN first
      BY <2>1, <2>3, <3>2, ExecuteAims DEF EntitiesForDomain
    <3>4. e \in EntitiesForDomain(d, first)
      BY <3>3 DEF EntitiesForDomain
    <3>5. QED
      BY <3>2, <3>3, <3>4, DomainRiskCovers
  <2>4. QED
    BY <2>2, <2>3
<1>3. QED
  BY <1>1, <1>2, SpecsInvNext, PTL DEF Spec

-----------------------------------------------------------------------------
(* Types                                                                   *)

\* The lists, and what is left to fetch behind each.
LEMMA ListsFacts ==
  /\ Lists = {"entities", "devices", "areas"}
  /\ YetToFetch("entities") = Lists
  /\ YetToFetch("devices") = {"devices", "areas"}
  /\ YetToFetch("areas") = {"areas"}
  /\ \A task : task \notin Lists => YetToFetch(task) = {}
  /\ After["entities"] = "devices" /\ After["devices"] = "areas" /\ After["areas"] = "states"
<1>1. Lists = {"entities", "devices", "areas"}
  BY DEF Lists, After
<1>2. QED
  BY <1>1 DEF YetToFetch, Rest, After

\* The first value given is one of the values, and is given when the last one is.
LEMMA FirstOfIn ==
  ASSUME NEW a, NEW b, NEW c, NEW d
  PROVE  /\ FirstOf(<<a, b>>) \in {a, b, None}
         /\ d # None => FirstOf(<<a, b, c, d>>) \in {a, b, c, d} \ {None}
<1>1. FirstOf(<<a, b>>) \in {a, b, None}
  <2> DEFINE given == {i \in 1..2 : <<a, b>>[i] # None}
             i == CHOOSE i \in given : \A j \in given : i <= j
  <2>1. FirstOf(<<a, b>>) = IF given = {} THEN None ELSE <<a, b>>[i]
    BY DEF FirstOf
  <2>2. given # {} => i \in given
    <3>1. given # {} => \E k \in given : \A j \in given : k <= j
      OBVIOUS
    <3>2. QED
      BY <3>1
  <2>3. QED
    BY <2>1, <2>2
<1>2. ASSUME d # None
      PROVE  FirstOf(<<a, b, c, d>>) \in {a, b, c, d} \ {None}
  <2> DEFINE values == <<a, b, c, d>>
             given  == {i \in 1..4 : values[i] # None}
             i      == CHOOSE i \in given : \A j \in given : i <= j
  <2>1. FirstOf(values) = IF given = {} THEN None ELSE values[i]
    BY DEF FirstOf
  <2>2. \E k \in given : \A j \in given : k <= j
    <3>1. 4 \in given
      BY <1>2
    <3>2. QED
      BY <3>1
  <2>3. i \in given
    BY <2>2
  <2>4. QED
    BY <2>1, <2>2, <2>3
<1>3. QED
  BY <1>1, <1>2

\* What the registries and the states say of an entity.
LEMMA DescribeType ==
  ASSUME NEW ls, Maps(ls.entities, Entities, RegValues), Maps(ls.areas, DOMAIN ls.areas, NamesGiven),
         NEW ss, Maps(ss, Entities, StateGiven), NEW e \in Entities
  PROVE  Describe(ls, ss, e) \in EntryType
<1> DEFINE reg   == Registered(ls, e)
           state == IF e \in DOMAIN ss THEN ss[e] ELSE NoState
<1>1. AreaOf(ls, e) \in NamesGiven \cup {None}
  BY DEF AreaOf, Lookup, Maps
<1>2. state.class \in {a.class : a \in StateGiven} \cup {None}
  BY DEF Maps, NoState
<1>3. Text(ObjectOf[e]) # None
  BY TextsAssumption
<1>4. {state.friendly, reg.name, reg.original, Text(ObjectOf[e])} \ {None} \subseteq Friendly
  BY DEF Friendly, Maps, NoState, Registered, NoEntry
<1>5. FirstOf(<<state.friendly, reg.name, reg.original, Text(ObjectOf[e])>>) \in Friendly
  <2> HIDE DEF reg, state
  <2>1. QED
    BY <1>3, <1>4, FirstOfIn
<1>6. QED
  BY <1>1, <1>2, <1>5 DEF Describe, EntryType

\* A rebuilt index says of each entity what an index can say.
LEMMA RebuildType ==
  ASSUME NEW ls, Maps(ls.entities, Entities, RegValues), Maps(ls.areas, DOMAIN ls.areas, NamesGiven),
         NEW ss, Maps(ss, Entities, StateGiven)
  PROVE  Maps(Rebuild(ls, ss), Entities, EntryType)
<1>1. Indexed(ls, ss) \subseteq Entities
  BY DEF Indexed, Maps
<1>2. QED
  BY <1>1, DescribeType DEF Rebuild, Maps

\* An edit of a registry leaves ids and values of the registry's kinds.
LEMMA EditsType ==
  ASSUME NEW f, NEW ids, NEW values, Maps(f, ids, values), NEW x \in ids,
         NEW some \in SUBSET values, NEW g \in Edits(f, x, some)
  PROVE  Maps(g, ids, values)
<1>1. CASE g = Restrict(f, DOMAIN f \ {x})
  BY <1>1 DEF Restrict, Maps
<1>2. ASSUME NEW v \in some, g = Put(f, x, v)
      PROVE  Maps(g, ids, values)
  BY <1>2 DEF Maps, Put
<1>3. QED
  BY <1>1, <1>2 DEF Edits

\* Nothing of the program's has a value yet.
LEMMA InitTypeOK == Init => TypeOK
<1> SUFFICES ASSUME Init PROVE TypeOK
  OBVIOUS
<1>1. Shapes
  BY ToolsAssumption, ListsFacts DEF Init, Shapes, NoLists
<1>2. /\ Maps(ha.entities, Entities, RegValues)
      /\ Maps(ha.areas, DOMAIN ha.areas, NamesGiven)
      /\ Maps(ha.states, Entities, StateGiven)
  BY ToolsAssumption DEF Init, Maps, RegValues, NamesGiven, StateGiven, Range
<1>3. \A ids, values : Maps(<<>>, ids, values)
  BY DEF Maps
<1>4. \A h \in {ha, lists} : /\ Maps(h.entities, Entities, RegValues)
                             /\ Maps(h.areas, DOMAIN h.areas, NamesGiven)
  BY <1>2, <1>3 DEF Init, NoLists
<1>5. /\ \A s \in {ha.states, states} : Maps(s, Entities, StateGiven)
      /\ Maps(index, Entities, EntryType)
  BY <1>2, <1>3 DEF Init
<1>6. changes \in 0..MaxChanges /\ drops \in 0..MaxDrops
  BY ToolsAssumption DEF Init
<1>7. QED
  BY <1>1, <1>4, <1>5, <1>6 DEF Init, TypeOK

\* A fetch copies a list, of Home Assistant's kind.
LEMMA FetchType ==
  ASSUME TypeOK, NEW list \in Lists, Fetch(list), ha' = ha
  PROVE  /\ DOMAIN lists' = Lists
         /\ Maps(lists'.entities, Entities, RegValues)
         /\ Maps(lists'.areas, DOMAIN lists'.areas, NamesGiven)
<1>1. \A l \in Lists : lists'[l] = IF l = list THEN ha[l] ELSE lists[l]
  BY DEF TypeOK, Shapes, Fetch
<1>2. /\ lists'.entities \in {ha.entities, lists.entities}
      /\ lists'.areas \in {ha.areas, lists.areas}
  BY <1>1, ListsFacts
<1>3. DOMAIN lists' = Lists
  BY DEF TypeOK, Shapes, Fetch
<1>4. QED
  BY <1>2, <1>3 DEF TypeOK

\* A change in Home Assistant keeps its kind.
LEMMA HomeType ==
  ASSUME TypeOK, RegistryChange \/ StateChange
  PROVE  /\ DOMAIN ha' = DOMAIN ha
         /\ Maps(ha'.entities, Entities, RegValues)
         /\ Maps(ha'.areas, DOMAIN ha'.areas, NamesGiven)
         /\ \A s \in {ha'.states, states'} : Maps(s, Entities, StateGiven)
<1>1. /\ Shapes
      /\ Maps(ha.entities, Entities, RegValues)
      /\ Maps(ha.areas, DOMAIN ha.areas, NamesGiven)
      /\ Maps(ha.states, Entities, StateGiven) /\ Maps(states, Entities, StateGiven)
  BY DEF TypeOK
<1>2. ASSUME NEW e \in Entities, NEW f \in Edits(ha.entities, e, RegEntries),
             ha' = [ha EXCEPT !.entities = f], states' = states
      PROVE  /\ Maps(ha'.entities, Entities, RegValues)
             /\ ha'.areas = ha.areas /\ ha'.states = ha.states
  <2>1. RegEntries \subseteq RegValues
    BY DEF RegValues
  <2>2. Maps(f, Entities, RegValues)
    BY <1>1, <1>2, <2>1, EditsType
  <2>3. QED
    BY <1>1, <1>2, <2>2 DEF Shapes
<1>3. ASSUME NEW f, ha' = [ha EXCEPT !.devices = f]
      PROVE  ha'.entities = ha.entities /\ ha'.areas = ha.areas /\ ha'.states = ha.states
  BY <1>1, <1>3 DEF Shapes
<1>4. ASSUME NEW a \in Areas, NEW f \in Edits(ha.areas, a, AreaNames),
             ha' = [ha EXCEPT !.areas = f]
      PROVE  /\ Maps(ha'.areas, DOMAIN ha'.areas, NamesGiven)
             /\ ha'.entities = ha.entities /\ ha'.states = ha.states
  <2>1. AreaNames \subseteq NamesGiven
    BY DEF NamesGiven
  <2>2. Maps(ha.areas, DOMAIN ha.areas \cup {a}, NamesGiven)
    BY <1>1 DEF Maps
  <2>3. Maps(f, DOMAIN ha.areas \cup {a}, NamesGiven)
    BY <1>4, <2>1, <2>2, EditsType
  <2>4. QED
    BY <1>1, <1>4, <2>3 DEF Shapes, Maps
<1>5. CASE RegistryChange
  <2>1. states' = states /\ DOMAIN ha' = DOMAIN ha
    BY <1>5 DEF RegistryChange
  <2>2. CASE \E e \in Entities : \E f \in Edits(ha.entities, e, RegEntries) :
                 ha' = [ha EXCEPT !.entities = f]
    BY <1>1, <1>2, <2>1, <2>2
  <2>3. CASE \E f : ha' = [ha EXCEPT !.devices = f]
    BY <1>1, <1>3, <2>1, <2>3
  <2>4. CASE \E a \in Areas : \E f \in Edits(ha.areas, a, AreaNames) :
                 ha' = [ha EXCEPT !.areas = f]
    BY <1>1, <1>4, <2>1, <2>4
  <2>5. QED
    BY <1>5, <2>2, <2>3, <2>4 DEF RegistryChange
<1>6. CASE StateChange
  <2>1. PICK e \in Entities, v \in StateAttrs \cup {None} :
           LET Edited(f) == IF v = None THEN Restrict(f, DOMAIN f \ {e}) ELSE Put(f, e, v)
           IN /\ ha' = [ha EXCEPT !.states = Edited(@)]
              /\ states' = IF setup = "off" THEN states ELSE Edited(states)
    BY <1>6 DEF StateChange
  <2> DEFINE Edited(f) == IF v = None THEN Restrict(f, DOMAIN f \ {e}) ELSE Put(f, e, v)
  <2>2. ASSUME NEW f, Maps(f, Entities, StateGiven)
        PROVE  Maps(Edited(f), Entities, StateGiven)
    <3>1. StateAttrs \subseteq StateGiven
      BY DEF StateGiven
    <3>2. Edited(f) \in Edits(f, e, StateAttrs)
      BY DEF Edits
    <3>3. QED
      BY <2>2, <3>1, <3>2, EditsType
  <2>3. ha'.states = Edited(ha.states)
    BY <1>1, <2>1 DEF Shapes
  <2>4. Maps(ha'.states, Entities, StateGiven)
    BY <1>1, <2>2, <2>3
  <2>5. Maps(states', Entities, StateGiven)
    BY <1>1, <2>1, <2>2
  <2>6. ha'.entities = ha.entities /\ ha'.areas = ha.areas /\ DOMAIN ha' = DOMAIN ha
    BY <1>1, <2>1 DEF Shapes
  <2>7. QED
    BY <1>1, <2>4, <2>5, <2>6
<1>7. QED
  BY <1>5, <1>6

\* Every step leaves a value of its kind in every variable.
LEMMA NextTypeOK == TypeOK /\ [Next]_vars => TypeOK'
<1> SUFFICES ASSUME TypeOK, [Next]_vars PROVE TypeOK'
  OBVIOUS
<1> DEFINE HomeOK == /\ Shapes
                     /\ \A h \in {ha, lists} : /\ Maps(h.entities, Entities, RegValues)
                                              /\ Maps(h.areas, DOMAIN h.areas, NamesGiven)
           StatesOK == \A s \in {ha.states, states} : Maps(s, Entities, StateGiven)
           TasksOK == /\ setup \in Lists \cup {"off", "states", "services", "publishing", "done"}
                      /\ refresh \in Lists \cup {"off", "failed", "head", "registering"}
                      /\ dirty \in BOOLEAN
                      /\ made \in Catalogs \cup {NoCatalog}
                      /\ changes \in 0..MaxChanges
                      /\ drops \in 0..MaxDrops
           IndexOK == Maps(index, Entities, EntryType)
<1>1. HomeOK /\ StatesOK /\ TasksOK /\ IndexOK
  BY DEF TypeOK
<1>2. CASE UNCHANGED vars
  BY <1>2 DEF vars, fetchVars, toolVars, TypeOK, Shapes
<1>3. CASE \/ Subscribed \/ SetupInstalls \/ OnConnectEnds \/ Drop
           \/ RefreshBegins \/ RefreshFails \/ RefreshRegisters
  <2>1. UNCHANGED <<ha, lists, index>> /\ states' \in {states, ha.states}
    BY <1>3 DEF Subscribed, SetupInstalls, OnConnectEnds, Drop, RefreshBegins, RefreshFails,
       RefreshRegisters, refreshFrame
  <2>2. TasksOK'
    <3>1. changes' = changes /\ drops' \in 0..MaxDrops
      <4>1. MaxDrops \in Nat /\ drops \in 0..MaxDrops
        BY <1>1, ToolsAssumption
      <4>2. /\ changes' = changes
            /\ drops' = drops \/ (drops < MaxDrops /\ drops' = drops + 1)
        BY <1>3 DEF Subscribed, SetupInstalls, OnConnectEnds, Drop, RefreshBegins, RefreshFails,
           RefreshRegisters, refreshFrame
      <4>3. QED
        BY <4>1, <4>2
    <3>2. /\ setup' \in {setup, "entities", "services", "done", "off"}
          /\ refresh' \in {refresh, "off", "failed", "entities", "head"}
          /\ dirty' \in {dirty, FALSE}
          /\ made' \in {made} \cup Catalogs
      BY <1>3 DEF Subscribed, SetupInstalls, OnConnectEnds, Drop, RefreshBegins, RefreshFails,
         RefreshRegisters, refreshFrame, toolVars
    <3>3. QED
      BY <1>1, <3>1, <3>2, ListsFacts
  <2>3. QED
    BY <1>1, <2>1, <2>2 DEF TypeOK, Shapes
<1>4. CASE SetupFetches \/ RefreshFetches \/ RefreshRebuilds
  <2>1. PICK list \in Lists : Fetch(list)
    BY <1>4, ListsFacts DEF SetupFetches, RefreshFetches, RefreshRebuilds
  <2>2. ha' = ha /\ states' = states
    BY <1>4 DEF SetupFetches, RefreshFetches, RefreshRebuilds, refreshFrame
  <2>3. HomeOK'
    BY <1>1, <2>1, <2>2, FetchType DEF Shapes
  <2>4. TasksOK'
    BY <1>1, <1>4, ListsFacts DEF SetupFetches, RefreshFetches, RefreshRebuilds, refreshFrame,
       toolVars
  <2>5. IndexOK'
    <3>1. CASE index' = index
      BY <1>1, <3>1
    <3>2. CASE index' = Rebuild(lists', states)
      <4>1. Maps(Rebuild(lists', states), Entities, EntryType)
        BY <1>1, <2>3, RebuildType
      <4>2. QED
        BY <3>2, <4>1
    <3>3. QED
      BY <1>4, <3>1, <3>2 DEF SetupFetches, RefreshFetches, RefreshRebuilds
  <2>6. StatesOK'
    BY <1>1, <2>2
  <2>7. QED
    BY <2>3, <2>4, <2>5, <2>6 DEF TypeOK
<1>5. CASE OnConnect
  <2>1. /\ UNCHANGED <<ha, lists, states, dirty, refresh, made, changes, drops>>
        /\ setup' = "publishing"
    BY <1>5 DEF OnConnect, toolVars
  <2>2. Maps(Rebuild(lists, states), Entities, EntryType)
    BY <1>1, RebuildType
  <2>3. IndexOK'
    BY <1>5, <2>2 DEF OnConnect
  <2>4. QED
    BY <1>1, <2>1, <2>3 DEF TypeOK, Shapes
<1>6. CASE RegistryChange \/ StateChange
  <2>1. UNCHANGED <<lists, index, setup, made, drops>>
    BY <1>6 DEF RegistryChange, StateChange, fetchVars, toolVars
  <2>2. TasksOK'
    <3>1. changes' \in 0..MaxChanges
      <4>1. MaxChanges \in Nat /\ changes \in 0..MaxChanges
        BY <1>1, ToolsAssumption
      <4>2. changes < MaxChanges /\ changes' = changes + 1
        BY <1>6 DEF RegistryChange, StateChange
      <4>3. QED
        BY <4>1, <4>2
    <3>2. dirty' \in {dirty, TRUE} /\ refresh' \in {refresh, "head"}
      BY <1>6 DEF RegistryChange, StateChange, fetchVars
    <3>3. QED
      BY <1>1, <2>1, <3>1, <3>2
  <2>3. HomeOK' /\ StatesOK'
    BY <1>1, <1>6, <2>1, HomeType DEF Shapes
  <2>4. QED
    BY <1>1, <2>1, <2>2, <2>3 DEF TypeOK
<1>7. QED
  BY <1>2, <1>3, <1>4, <1>5, <1>6 DEF Next

\* Every variable keeps a value of its kind.
THEOREM TypeCorrect == Spec => []TypeOK
BY InitTypeOK, NextTypeOK, PTL DEF Spec

-----------------------------------------------------------------------------
(* The index                                                               *)

\* A rebuilt index matches the lists it was rebuilt from.
LEMMA RebuildMatches ==
  ASSUME NEW ss
  PROVE  Matches(Rebuild(lists, ss))
<1> SUFFICES ASSUME NEW e \in DOMAIN lists.entities
             PROVE  /\ e \in DOMAIN Rebuild(lists, ss) <=> ~lists.entities[e].disabled
                    /\ e \in DOMAIN Rebuild(lists, ss) =>
                          Rebuild(lists, ss)[e].area = AreaOf(lists, e)
  BY DEF Matches
<1>1. e \in DOMAIN Rebuild(lists, ss) <=> ~lists.entities[e].disabled
  BY DEF Rebuild, Indexed, Registered
<1>2. e \in DOMAIN Rebuild(lists, ss) => Rebuild(lists, ss)[e].area = AreaOf(lists, e)
  BY DEF Rebuild, Describe
<1>3. QED
  BY <1>1, <1>2

\* A fetch brings one list up to date and leaves the others.
LEMMA FetchFacts ==
  ASSUME Shapes, NEW list \in Lists, Fetch(list)
  PROVE  /\ DOMAIN lists' = Lists
         /\ lists'[list] = ha[list]
         /\ \A l \in Lists \ {list} : lists'[l] = lists[l]
BY DEF Shapes, Fetch

IndexKept == Shapes /\ ListsInv /\ IndexInv

\* Nothing has been fetched, and no connection is set up.
LEMMA InitIndex == Init => IndexKept
<1> SUFFICES ASSUME Init PROVE IndexKept
  OBVIOUS
<1>1. Shapes
  BY ToolsAssumption, ListsFacts DEF Init, Shapes, NoLists
<1>2. ListsInv /\ IndexInv
  BY DEF Init, ListsInv, IndexInv
<1>3. QED
  BY <1>1, <1>2 DEF IndexKept

\* The setup task's fetches, and the index it ends with.
LEMMA SetupKeeps ==
  ASSUME IndexKept, Subscribed \/ SetupFetches \/ SetupInstalls \/ OnConnect \/ OnConnectEnds \/ Drop
  PROVE  IndexKept'
<1>1. Shapes /\ ListsInv /\ IndexInv
  BY DEF IndexKept
<1>2. CASE Subscribed \/ SetupInstalls \/ Drop
  <2>1. /\ UNCHANGED <<ha, lists, index, dirty>>
        /\ setup' \notin {"publishing", "done"}
        /\ \/ refresh' = refresh
           \/ refresh \in Lists /\ refresh' = "off" /\ setup' = "off"
           \/ refresh = "failed" /\ refresh' = "off" /\ setup = "off" /\ setup' = "entities"
        /\ \/ setup' = "off"
           \/ setup = "off" /\ setup' = "entities"
           \/ setup = "states" /\ setup' = "services"
    BY <1>2 DEF Subscribed, SetupInstalls, Drop
  <2>2. QED
    BY <1>1, <2>1, ListsFacts DEF IndexKept, Shapes, ListsInv, IndexInv, Again, Matches
<1>3. CASE SetupFetches
  <2>1. /\ setup \in Lists /\ setup' = After[setup] /\ Fetch(setup)
        /\ UNCHANGED <<ha, index, dirty, refresh>>
    BY <1>3 DEF SetupFetches
  <2>2. /\ DOMAIN lists' = Lists
        /\ lists'[setup] = ha[setup]
        /\ \A l \in Lists \ {setup} : lists'[l] = lists[l]
    BY <1>1, <2>1, FetchFacts
  <2>3. setup' \notin {"off", "publishing", "done"} /\ YetToFetch(setup) = YetToFetch(setup') \cup {setup}
    BY <2>1, ListsFacts
  <2>4. Shapes' /\ IndexInv'
    BY <1>1, <2>1, <2>2, <2>3 DEF Shapes, IndexInv
  <2>5. ListsInv'
    BY <1>1, <2>1, <2>2, <2>3, ListsFacts DEF ListsInv, Again
  <2>6. QED
    BY <2>4, <2>5 DEF IndexKept
<1>4. CASE OnConnect \/ OnConnectEnds
  <2>1. /\ UNCHANGED <<ha, lists, dirty, refresh>>
        /\ setup \in {"services", "publishing"} /\ setup' \in {"publishing", "done"}
        /\ index' = Rebuild(lists, states) \/ (index' = index /\ setup = "publishing")
    BY <1>4 DEF OnConnect, OnConnectEnds
  <2>2. Shapes' /\ ListsInv'
    BY <1>1, <2>1, ListsFacts DEF Shapes, ListsInv, Again
  <2>3. IndexInv'
    <3>1. CASE index' = Rebuild(lists, states)
      BY <2>1, <3>1, RebuildMatches DEF IndexInv, Matches
    <3>2. CASE index' = index /\ setup = "publishing"
      BY <1>1, <2>1, <3>2 DEF IndexInv, Matches, Again
    <3>3. QED
      BY <2>1, <3>1, <3>2
  <2>4. QED
    BY <2>2, <2>3 DEF IndexKept
<1>5. QED
  BY <1>2, <1>3, <1>4

\* The refresh: a round that begins because of a change fetches every list.
LEMMA RefreshKeeps ==
  ASSUME IndexKept,
         RefreshBegins \/ RefreshFetches \/ RefreshFails \/ RefreshRebuilds \/ RefreshRegisters
  PROVE  IndexKept'
<1>1. Shapes /\ ListsInv /\ IndexInv
  BY DEF IndexKept
<1>2. CASE RefreshBegins
  <2>1. /\ UNCHANGED <<ha, lists, index, setup>> /\ refresh = "head" /\ dirty' = FALSE
        /\ refresh' = "entities" \/ (refresh' = "off" /\ (~dirty \/ setup = "off"))
    BY <1>2 DEF RefreshBegins, refreshFrame
  <2>2. QED
    BY <1>1, <2>1, ListsFacts DEF IndexKept, Shapes, ListsInv, IndexInv, Again, Matches
<1>3. CASE RefreshFetches
  <2>1. /\ refresh \in {"entities", "devices"} /\ refresh' = After[refresh] /\ Fetch(refresh)
        /\ UNCHANGED <<ha, index, dirty, setup>>
    BY <1>3 DEF RefreshFetches, refreshFrame
  <2>2. /\ DOMAIN lists' = Lists
        /\ lists'[refresh] = ha[refresh]
        /\ \A l \in Lists \ {refresh} : lists'[l] = lists[l]
    BY <1>1, <2>1, FetchFacts, ListsFacts
  <2>3. refresh' \in Lists /\ YetToFetch(refresh) = YetToFetch(refresh') \cup {refresh}
    BY <2>1, ListsFacts
  <2>4. Shapes' /\ IndexInv'
    BY <1>1, <2>1, <2>2, <2>3 DEF Shapes, IndexInv
  <2>5. ListsInv'
    BY <1>1, <2>1, <2>2, <2>3, ListsFacts DEF ListsInv, Again
  <2>6. QED
    BY <2>4, <2>5 DEF IndexKept
<1>4. CASE RefreshRebuilds
  <2>1. /\ refresh = "areas" /\ refresh' = "registering" /\ Fetch("areas")
        /\ index' = Rebuild(lists', states)
        /\ UNCHANGED <<ha, dirty, setup>>
    BY <1>4 DEF RefreshRebuilds, refreshFrame
  <2>2. /\ DOMAIN lists' = Lists
        /\ lists'["areas"] = ha["areas"]
        /\ \A l \in Lists \ {"areas"} : lists'[l] = lists[l]
    BY <1>1, <2>1, FetchFacts, ListsFacts
  <2>3. Shapes' /\ ListsInv'
    BY <1>1, <2>1, <2>2, ListsFacts DEF Shapes, ListsInv, Again
  <2>4. ASSUME NEW e \in DOMAIN lists'.entities
        PROVE  /\ e \in DOMAIN index' <=> ~lists'.entities[e].disabled
               /\ e \in DOMAIN index' => index'[e].area = AreaOf(lists', e)
    BY <2>1 DEF Rebuild, Indexed, Registered, Describe
  <2>5. IndexInv'
    BY <2>4 DEF IndexInv, Matches
  <2>6. QED
    BY <2>3, <2>5 DEF IndexKept
<1>5. CASE RefreshRegisters
  <2>1. UNCHANGED <<ha, lists, index, dirty, setup>> /\ refresh = "registering" /\ refresh' = "head"
    BY <1>5 DEF RefreshRegisters, refreshFrame
  <2>2. QED
    BY <1>1, <2>1, ListsFacts DEF IndexKept, Shapes, ListsInv, IndexInv, Again, Matches
<1>6. CASE RefreshFails
  <2>1. UNCHANGED <<ha, lists, index, setup>> /\ refresh' = "failed"
    BY <1>6 DEF RefreshFails, refreshFrame
  <2>2. QED
    BY <1>1, <2>1 DEF IndexKept, Shapes, ListsInv, IndexInv
<1>7. QED
  BY <1>2, <1>3, <1>4, <1>5, <1>6

\* A change is marked for a round of the refresh, unless a setup is still to come.
LEMMA HomeKeeps ==
  ASSUME IndexKept, RegistryChange \/ StateChange
  PROVE  IndexKept'
<1>1. Shapes /\ ListsInv /\ IndexInv
  BY DEF IndexKept
<1>2. UNCHANGED <<lists, index, setup>> /\ DOMAIN ha' = DOMAIN ha
  BY DEF RegistryChange, StateChange, fetchVars
<1>3. CASE RegistryChange
  <2>1. IF setup = "off" THEN UNCHANGED <<dirty, refresh>>
        ELSE dirty' = TRUE /\ refresh' = IF refresh \in {"off", "failed"} THEN "head" ELSE refresh
    BY <1>3 DEF RegistryChange
  <2>2. QED
    BY <1>1, <1>2, <2>1, ListsFacts DEF IndexKept, Shapes, ListsInv, IndexInv, Again, Matches
<1>4. CASE StateChange
  <2>1. UNCHANGED <<dirty, refresh>>
    BY <1>4 DEF StateChange, fetchVars
  <2>2. \A l \in Lists : ha'[l] = ha[l]
    BY <1>1, <1>4, ListsFacts DEF StateChange, Shapes
  <2>3. QED
    BY <1>1, <1>2, <2>1, <2>2, ListsFacts DEF IndexKept, Shapes, ListsInv, IndexInv, Again,
       Matches
<1>5. QED
  BY <1>3, <1>4

\* Every step keeps the inductive invariant.
LEMMA NextIndex == IndexKept /\ [Next]_vars => IndexKept'
<1> SUFFICES ASSUME IndexKept, [Next]_vars PROVE IndexKept'
  OBVIOUS
<1>1. CASE UNCHANGED vars
  BY <1>1 DEF vars, fetchVars, IndexKept, Shapes, ListsInv, IndexInv, Again, Matches
<1>2. CASE Next
  BY <1>2, SetupKeeps, RefreshKeeps, HomeKeeps DEF Next
<1>3. QED
  BY <1>1, <1>2

\* With the three lists Home Assistant's, the index is too.
LEMMA QuietIsCurrent == IndexKept => IndexCurrent
<1> SUFFICES ASSUME IndexKept, Quiet, refresh # "failed", NEW e \in DOMAIN ha.entities
             PROVE  /\ e \in DOMAIN index <=> ~ha.entities[e].disabled
                    /\ e \in DOMAIN index => index[e].area = AreaOf(ha, e)
  BY DEF IndexCurrent
<1>1. \A l \in Lists : lists[l] = ha[l]
  BY ListsFacts DEF IndexKept, ListsInv, Quiet, Again
<1>2. lists.entities = ha.entities /\ lists.devices = ha.devices /\ lists.areas = ha.areas
  BY <1>1, ListsFacts
<1>3. Matches(index)
  BY ListsFacts DEF IndexKept, IndexInv, Quiet, Again
<1>4. AreaOf(lists, e) = AreaOf(ha, e)
  BY <1>2 DEF AreaOf, Registered
<1>5. QED
  BY <1>2, <1>3, <1>4 DEF Matches

\* Lists fetched one by one, by two tasks, while they change, and a connection
\* lost at any moment, do not leave the index torn or behind, except while the
\* last refresh is one that failed: the next one, or a reconnect, makes up for it.
THEOREM IndexStaysCurrent == Spec => []IndexCurrent
BY InitIndex, NextIndex, QuietIsCurrent, PTL DEF Spec

-----------------------------------------------------------------------------
(* What Alfred is told                                                     *)

\* Nobody is told of a tool, and no setup is done.
LEMMA InitManifest == Init => ManifestInv
BY DEF Init, ManifestInv, Ready

\* Only the end of a setup makes tools, and only the two listeners change the
\* index, each with a registration ahead of it.
LEMMA NextManifest == ManifestInv /\ [Next]_vars => ManifestInv'
<1> SUFFICES ASSUME ManifestInv, [Next]_vars PROVE ManifestInv'
  OBVIOUS
<1>1. (Ready => specs = Generate(made, first))'
  BY SpecsInvNext DEF ManifestInv, SpecsInv
<1>2. CASE OnConnectEnds
  <2>1. /\ (Ready /\ specs' = specs) \/ specs' = Generate(made', index)
        /\ manifest' = Manifest(specs', index) /\ index' = index
    BY <1>2 DEF OnConnectEnds
  <2>2. EscapeHatch \in Generate(made', index)
    BY DEF Generate
  <2>3. Ready'
    BY <2>1, <2>2 DEF Ready
  <2>4. manifest' = Manifest(specs', index')
    BY <2>1
  <2>5. QED
    BY <1>1, <2>3, <2>4 DEF ManifestInv, Manifest
<1>3. CASE UNCHANGED <<specs, index>> /\ (manifest' = Manifest(specs, index) \/ UNCHANGED manifest)
           /\ (setup' = "done" => setup = "done")
           /\ (refresh = "registering" => refresh' = "registering" \/ manifest' = Manifest(specs, index))
  <2>1. Ready' = Ready
    BY <1>3 DEF Ready
  <2>2. Manifest(specs, index)' = Manifest(specs, index)
    BY <1>3 DEF Manifest
  <2>3. QED
    BY <1>1, <1>3, <2>1, <2>2 DEF ManifestInv
<1>4. CASE OnConnect \/ RefreshRebuilds
  <2>1. UNCHANGED specs /\ (setup' = "done" => setup = "done" /\ refresh' = "registering")
    BY <1>4 DEF OnConnect, RefreshRebuilds, refreshFrame, toolVars
  <2>2. QED
    BY <1>1, <2>1 DEF ManifestInv, Ready
<1>5. CASE UNCHANGED vars \/ Subscribed \/ SetupFetches \/ SetupInstalls
  BY <1>3, <1>5, ListsFacts DEF vars, fetchVars, toolVars, Subscribed, SetupFetches, SetupInstalls
<1>6. CASE Drop \/ RegistryChange \/ StateChange
  <2>1. /\ UNCHANGED <<specs, index, manifest>>
        /\ setup' = "done" => setup = "done"
    BY <1>6 DEF toolVars, fetchVars, Drop, RegistryChange, StateChange
  <2>2. refresh = "registering" => refresh' = "registering"
    BY <1>6, ListsFacts DEF fetchVars, Drop, RegistryChange, StateChange
  <2>3. QED
    BY <1>3, <2>1, <2>2
<1>7. CASE RefreshBegins \/ RefreshFetches \/ RefreshFails \/ RefreshRegisters
  BY <1>3, <1>7, ListsFacts DEF RefreshBegins, RefreshFetches, RefreshFails, RefreshRegisters,
     refreshFrame
<1>8. QED
  BY <1>2, <1>4, <1>5, <1>6, <1>7 DEF Next

\* Once the setup is done and no refresh runs, what Alfred was last told of the
\* tools is what the index says.
THEOREM ManifestStaysCurrent == Spec => []ManifestCurrent
<1>1. ManifestInv => ManifestCurrent
  BY DEF ManifestInv, ManifestCurrent, Quiet
<1>2. QED
  BY <1>1, InitManifest, NextManifest, PTL DEF Spec

-----------------------------------------------------------------------------
(* What the descriptions offer                                             *)

\* A finite set has a subset of any smaller number of elements.
LEMMA SubsetOfSize ==
  ASSUME NEW S, IsFiniteSet(S), NEW k \in Nat, k < Cardinality(S)
  PROVE  \E T \in SUBSET S : Cardinality(T) = k
<1> DEFINE n == Cardinality(S)
<1>1. n \in Nat /\ ExistsBijection(1..n, S)
  BY FS_CardinalityType
<1>2. PICK f \in Bijection(1..n, S) : TRUE
  BY <1>1 DEF ExistsBijection
<1> DEFINE T == {f[j] : j \in 1..k}
           g == [j \in 1..k |-> f[j]]
<1>3. 1..k \subseteq 1..n
  BY <1>1
<1>4. /\ \A j \in 1..n : f[j] \in S
      /\ \A j1, j2 \in 1..n : f[j1] = f[j2] => j1 = j2
  BY <1>2 DEF Bijection, Injection, IsInjective
<1>5. g \in Bijection(1..k, T)
  BY <1>3, <1>4 DEF Bijection, Injection, Surjection, IsInjective
<1>6. Cardinality(T) = k
  BY <1>5, FS_CountingElements DEF ExistsBijection
<1>7. T \in SUBSET S
  BY <1>3, <1>4
<1>8. QED
  BY <1>6, <1>7

\* The names a tool offers are those of its domain's entities.
LEMMA OfferedNamesGiven ==
  ASSUME Maps(index, Entities, EntryType), NEW d
  PROVE  OfferedNames(d, index) \subseteq {index[e].friendly : e \in EntitiesForDomain(d, index)}
<1> DEFINE D     == EntitiesForDomain(d, index)
           names == {index[e].friendly : e \in D}
           f     == [e \in D |-> index[e].friendly]
<1>1. IsFiniteSet(D)
  <2>1. D \in SUBSET Entities /\ IsFiniteSet(Entities)
    BY ToolsAssumption DEF EntitiesForDomain, Maps
  <2>2. QED
    BY <2>1, FS_Subset
<1>2. f \in Surjection(D, names)
  BY DEF Surjection
<1>3. IsFiniteSet(names)
  BY <1>1, <1>2, FS_Surjection
<1>4. Cardinality(names) \in Nat /\ MaxListed \in Nat
  BY <1>3, FS_CardinalityType, ToolsAssumption
<1>5. ASSUME ~(Cardinality(names) <= MaxListed)
      PROVE  (CHOOSE some \in kSubset(MaxListed, names) : TRUE) \in SUBSET names
  <2>1. \E T \in SUBSET names : Cardinality(T) = MaxListed
    BY <1>3, <1>4, <1>5, SubsetOfSize
  <2>2. \E T : T \in kSubset(MaxListed, names)
    BY <2>1 DEF kSubset
  <2>3. QED
    BY <2>2 DEF kSubset
<1>6. QED
  BY <1>5 DEF OfferedNames

\* A text that is not padded is found under what it folds to.
LEMMA FoldsToItself ==
  ASSUME NEW t, IsText(t), ~t.padded
  PROVE  Wanted(t) = Fold(t)
<1>1. t = [word |-> t.word, cased |-> t.cased, padded |-> FALSE]
  BY DEF IsText
<1>2. Strip(t) = t
  BY <1>1 DEF Strip
<1>3. QED
  BY <1>2 DEF Wanted

\* A name that Alfred is offered is a text, and so is an area.
LEMMA OfferedAreTexts ==
  ASSUME Maps(index, Entities, EntryType), NEW e \in DOMAIN index
  PROVE  /\ IsText(index[e].friendly)
         /\ index[e].area # None => IsText(index[e].area)
<1>1. index[e].friendly \in Friendly /\ index[e].area \in NamesGiven \cup {None}
  BY DEF Maps, EntryType
<1>2. \A t \in Friendly : IsText(t)
  <2>1. \A o \in Entities : IsText(Text(ObjectOf[o]))
    BY DEF IsText, Text
  <2>2. QED
    BY <2>1, TextsAssumption DEF Friendly
<1>3. QED
  BY <1>1, <1>2, TextsAssumption

\* A tool's areas and names lead to entities of its domain.
LEMMA ManifestOffersWork ==
  ASSUME Maps(index, Entities, EntryType), manifest = Manifest(specs, index)
  PROVE  OffersWork
<1> SUFFICES ASSUME NEW m \in manifest
             PROVE  /\ \A a \in m.areas : ~a.padded =>
                          LET there == {e \in EntitiesForDomain(m.domain, index) : index[e].area = a}
                              found == Resolve(m.domain, a, index)
                          IN /\ there # {} /\ found # {}
                             /\ ById(m.domain, a, index) = {} => there \subseteq found
                    /\ \A n \in m.names : ~n.padded => Resolve(m.domain, n, index) # {}
  BY DEF OffersWork
<1> DEFINE d == m.domain
           D == EntitiesForDomain(d, index)
<1>1. PICK spec \in specs : m = ToolMeta(spec, index)
  BY DEF Manifest
<1>2. /\ d = spec.domain
      /\ m.areas \subseteq OfferedAreas(d, index)
      /\ m.names \subseteq OfferedNames(d, index)
  BY <1>1 DEF ToolMeta
<1>3. D \subseteq DOMAIN index
  BY DEF EntitiesForDomain
<1> HIDE DEF d
<1>4. ASSUME NEW a \in m.areas, ~a.padded
      PROVE  LET there == {e \in D : index[e].area = a}
                 found == Resolve(d, a, index)
             IN /\ there # {} /\ found # {}
                /\ ById(d, a, index) = {} => there \subseteq found
  <2> DEFINE there == {e \in D : index[e].area = a}
  <2>1. PICK e \in D : index[e].area = a /\ a # None
    BY <1>2, <1>4 DEF OfferedAreas
  <2>2. Wanted(a) = Fold(a)
    BY <1>3, <1>4, <2>1, OfferedAreTexts, FoldsToItself
  <2>3. there \subseteq ByArea(d, a, index)
    BY <2>1, <2>2 DEF ByArea
  <2>4. there # {}
    BY <2>1
  <2>5. QED
    BY <2>3, <2>4 DEF Resolve
<1>5. ASSUME NEW n \in m.names, ~n.padded
      PROVE  Resolve(d, n, index) # {}
  <2>1. PICK e \in D : index[e].friendly = n
    BY <1>2, <1>5, OfferedNamesGiven
  <2>2. Wanted(n) = Fold(n)
    BY <1>3, <1>5, <2>1, OfferedAreTexts, FoldsToItself
  <2>3. e \in ByName(d, n, index)
    BY <2>1, <2>2 DEF ByName
  <2>4. QED
    BY <2>3 DEF Resolve
<1>6. QED
  BY <1>4, <1>5 DEF d

\* Once the setup is done and no refresh runs, every area and name Alfred is
\* offered for a tool leads to entities of the tool's domain, and an area, unless
\* it reads like an entity's id, to all that are in it.
THEOREM OffersAlwaysWork == Spec => []OffersWork
<1>1. TypeOK /\ ManifestInv => OffersWork
  <2>1. SUFFICES ASSUME TypeOK, ManifestInv, Quiet PROVE OffersWork
    BY DEF OffersWork
  <2>2. manifest = Manifest(specs, index)
    BY <2>1 DEF ManifestInv, Quiet
  <2>3. Maps(index, Entities, EntryType)
    BY <2>1 DEF TypeOK
  <2>4. QED
    BY <2>2, <2>3, ManifestOffersWork
<1>2. QED
  BY <1>1, InitTypeOK, NextTypeOK, InitManifest, NextManifest, PTL DEF Spec

-----------------------------------------------------------------------------
(* One tool for each service                                               *)

\* What two names have in common in front can be dropped.
LEMMA ConcatCancels ==
  ASSUME NEW S, NEW a \in Seq(S), NEW b \in Seq(S), NEW c \in Seq(S), a \o b = a \o c
  PROVE  b = c
<1>1. Len(b) = Len(c)
  <2>1. Len(a \o b) = Len(a) + Len(b) /\ Len(a \o c) = Len(a) + Len(c)
    OBVIOUS
  <2>2. QED
    BY <2>1
<1>2. ASSUME NEW i \in 1..Len(b) PROVE b[i] = c[i]
  <2>1. (a \o b)[Len(a) + i] = b[i] /\ (a \o c)[Len(a) + i] = c[i]
    BY <1>1
  <2>2. QED
    BY <2>1
<1>3. QED
  BY <1>1, <1>2, SeqEqual

\* Two services of the domain have tools of different names.
NamesDiffer(d, services) ==
    \A s, t \in DOMAIN services : ToolName(d, s) = ToolName(d, t) => s = t

LEMMA NamesDifferInCatalogs ==
  ASSUME NEW c \in Catalogs, NEW d \in DOMAIN c
  PROVE  NamesDiffer(d, c[d])
<1> SUFFICES ASSUME NEW s \in DOMAIN c[d], NEW t \in DOMAIN c[d],
                    WordsOf[d] \o WordsOf[s] = WordsOf[d] \o WordsOf[t]
             PROVE  s = t
  BY DEF NamesDiffer, ToolName
<1>1. WordsOf[d] \in Seq(STRING) /\ WordsOf[s] \in Seq(STRING) /\ WordsOf[t] \in Seq(STRING)
  BY NamesAssumption
<1>2. WordsOf[s] = WordsOf[t]
  BY <1>1, ConcatCancels
<1>3. QED
  BY <1>2, NamesAssumption

\* The conscious specs of one service.
ConsciousOf(d, services, risk, s) ==
    {spec \in ConsciousSpecs(d, services, risk) : Tool(spec) = ToolName(d, s)}

\* What the specs of a domain are, one service at a time.
LEMMA SpecsOfService ==
  ASSUME NEW d, d # None, NEW services, NamesDiffer(d, services), NEW risk
  PROVE  \A s \in DOMAIN services : \E spec : ConsciousOf(d, services, risk, s) = {spec}
<1> DEFINE One(t) == Spec4(d, t, "conscious", risk, ServiceFields(services[t]), services[t].target)
<1>1. ConsciousSpecs(d, services, risk) = {One(t) : t \in DOMAIN services}
  BY DEF ConsciousSpecs
<1>2. \A t : Tool(One(t)) = ToolName(d, t)
  BY DEF Tool, Spec4
<1> HIDE DEF One
<1>3. ASSUME NEW s \in DOMAIN services PROVE ConsciousOf(d, services, risk, s) = {One(s)}
  BY <1>1, <1>2 DEF NamesDiffer, ConsciousOf
<1>4. QED
  BY <1>3

\* A domain's reflex tools, one service at a time.
LEMMA ReflexOfService ==
  ASSUME NEW d, d # None, NEW services, NamesDiffer(d, services), NEW risk,
         NEW s \in DOMAIN services
  PROVE  LET there == {spec \in ReflexSpecs(d, services, risk) : Tool(spec) = ToolName(d, s)}
         IN IF d \in DOMAIN ReflexConfig /\ s \in DOMAIN ReflexConfig[d]
            THEN \E spec : there = {spec}
            ELSE there = {}
<1> DEFINE Given(t) == [f \in ReflexConfig[d][t] \cap DOMAIN ServiceFields(services[t]) |->
                           ServiceFields(services[t])[f]]
           One(t)   == Spec4(d, t, "reflex", risk, Given(t), TRUE)
           S == IF d \in DOMAIN ReflexConfig THEN DOMAIN ReflexConfig[d] \cap DOMAIN services ELSE {}
           there == {spec \in ReflexSpecs(d, services, risk) : Tool(spec) = ToolName(d, s)}
<1>1. ReflexSpecs(d, services, risk) = {One(t) : t \in S}
  BY DEF ReflexSpecs
<1>2. \A t : Tool(One(t)) = ToolName(d, t)
  BY DEF Tool, Spec4
<1>3. there = IF s \in S THEN {One(s)} ELSE {}
  <2>1. S \subseteq DOMAIN services
    OBVIOUS
  <2> HIDE DEF S, One
  <2>2. QED
    BY <1>1, <1>2, <2>1 DEF NamesDiffer
<1>4. d \in DOMAIN ReflexConfig /\ s \in DOMAIN ReflexConfig[d] <=> s \in S
  OBVIOUS
<1>5. s \in S => \E spec : there = {spec}
  <2> HIDE DEF S, One, there
  <2>1. QED
    BY <1>3
<1>6. s \notin S => there = {}
  <2> HIDE DEF S, One, there
  <2>1. QED
    BY <1>3
<1>7. QED
  BY <1>4, <1>5, <1>6

\* The tools made for one service, and whether the service is due one.
ToolsOf(d, services, risk, s) ==
    {spec \in DomainSpecs(d, services, risk) : Tool(spec) = ToolName(d, s)}

Wanting(d, risk, s) ==
    d \notin ReflexDomains \/ risk # "benign" \/ (d \in DOMAIN ReflexConfig /\ s \in DOMAIN ReflexConfig[d])

\* Of a domain that is generated, each service has one tool, or none where the
\* domain is reflex and benign and does not list it.
LEMMA DomainToolsOnce ==
  ASSUME NEW d, d # None, NEW services, NamesDiffer(d, services), NEW risk,
         NEW s \in DOMAIN services
  PROVE  /\ Wanting(d, risk, s) => \E spec : ToolsOf(d, services, risk, s) = {spec}
         /\ ~Wanting(d, risk, s) => ToolsOf(d, services, risk, s) = {}
<1> DEFINE C == ConsciousOf(d, services, risk, s)
           R == {spec \in ReflexSpecs(d, services, risk) : Tool(spec) = ToolName(d, s)}
           there == ToolsOf(d, services, risk, s)
           Listed == d \in DOMAIN ReflexConfig /\ s \in DOMAIN ReflexConfig[d]
<1>1. \E spec : C = {spec}
  <2> HIDE DEF C, R, there, Listed
  <2>1. \A t \in DOMAIN services : \E spec : ConsciousOf(d, services, risk, t) = {spec}
    BY SpecsOfService
  <2>2. C = ConsciousOf(d, services, risk, s)
    BY DEF C
  <2>3. QED
    BY <2>1, <2>2
<1>2. IF Listed THEN \E spec : R = {spec} ELSE R = {}
  BY ReflexOfService
<1>3. d \notin ReflexDomains => there = C
  BY DEF ToolsOf, DomainSpecs, ConsciousOf
<1>4. d \in ReflexDomains => there = R \cup IF risk = "benign" \/ R # {} THEN {} ELSE C
  BY DEF ToolsOf, DomainSpecs, ConsciousOf
<1>5. d \notin ReflexDomains \/ risk # "benign" \/ Listed => \E spec : there = {spec}
  <2> HIDE DEF C, R, there, Listed
  <2>1. QED
    BY <1>1, <1>2, <1>3, <1>4
<1>6. ~(d \notin ReflexDomains \/ risk # "benign" \/ Listed) => there = {}
  <2> HIDE DEF C, R, there, Listed
  <2>1. QED
    BY <1>1, <1>2, <1>3, <1>4
<1>7. QED
  BY <1>5, <1>6 DEF Wanting

\* Over the process's life there is one tool for every service the first catalog
\* has of a domain with entities when the tools were made, and for a benign reflex
\* domain one for every configured service; no other.
THEOREM OneToolPerService == Spec => []OneToolEach
<1>1. TypeOK /\ ManifestInv => OneToolEach
  <2>1. SUFFICES ASSUME TypeOK, ManifestInv, Ready, NEW d \in DOMAIN made, NEW s \in DOMAIN made[d]
                 PROVE  Cardinality({spec \in specs : /\ spec.domain = d
                                                      /\ Tool(spec) = ToolName(d, s)}) =
                          IF /\ d \in Domains(first)
                             /\ \/ d \notin ReflexDomains
                                \/ DomainToolRisk(d, first) # "benign"
                                \/ d \in DOMAIN ReflexConfig /\ s \in DOMAIN ReflexConfig[d]
                          THEN 1 ELSE 0
    BY DEF OneToolEach
  <2> DEFINE risk   == DomainToolRisk(d, first)
             there  == {spec \in specs : spec.domain = d /\ Tool(spec) = ToolName(d, s)}
             of(dd) == DomainSpecs(dd, made[dd], DomainToolRisk(dd, first))
             here   == ToolsOf(d, made[d], risk, s)
  <2>2. specs = {EscapeHatch} \cup UNION {of(dd) : dd \in DOMAIN made \cap Domains(first)}
    BY <2>1 DEF ManifestInv, Generate
  <2>3. made \in Catalogs
    BY <2>1 DEF TypeOK, NoCatalog
  <2>4. d # None /\ NamesDiffer(d, made[d])
    BY <2>1, <2>3, ToolsAssumption, NamesDifferInCatalogs
  <2>5. EscapeHatch.domain # d /\ \A dd : \A spec \in of(dd) : spec.domain = dd
    BY <2>4, DomainSpecsCarry DEF EscapeHatch, Spec4
  <2>6. there = IF d \in Domains(first) THEN here ELSE {}
    <3>1. here = {spec \in of(d) : Tool(spec) = ToolName(d, s)}
      BY DEF ToolsOf
    <3> HIDE DEF of, here
    <3>2. QED
      BY <2>1, <2>2, <2>5, <3>1
  <2>7. /\ Wanting(d, risk, s) => \E spec : here = {spec}
        /\ ~Wanting(d, risk, s) => here = {}
    BY <2>1, <2>4, DomainToolsOnce
  <2>8. Cardinality({}) = 0 /\ \A x : Cardinality({x}) = 1
    BY FS_EmptySet, FS_Singleton
  <2>9. QED
    <3> HIDE DEF here, there, risk
    <3>1. Cardinality(there) = IF d \in Domains(first) /\ Wanting(d, risk, s) THEN 1 ELSE 0
      BY <2>6, <2>7, <2>8
    <3>2. QED
      BY <3>1 DEF there, risk, Wanting
<1>2. QED
  BY <1>1, InitTypeOK, NextTypeOK, InitManifest, NextManifest, PTL DEF Spec

-----------------------------------------------------------------------------
(* The fields of a tool: a loop over the entries, by least counterexample  *)

\* A set of numbers that is not empty has a least one.
LEMMA Least ==
  ASSUME NEW T \in SUBSET Nat, T # {}
  PROVE  \E x \in T : \A y \in T : x <= y
<1>1. IsWellFoundedOn(OpToRel(<, Nat), Nat)
  BY NatLessThanWellFounded
<1>2. PICK x \in T : \A y \in T : ~(<<y, x>> \in OpToRel(<, Nat))
  BY <1>1, WFMin
<1>3. \A y \in T : ~(y < x)
  BY <1>2 DEF OpToRel
<1>4. QED
  BY <1>3

\* The n-th turn of the loop over the entries, and n turns of it from the first.
LoopStep(top, entries, g, n) ==
    IF n = 0 THEN top
    ELSE IF Section(entries[n]) THEN SetDefaults(g[n - 1], entries[n].fields) ELSE g[n - 1]

Unfolds(top, entries, g, n) == g = [k \in 0..n |-> LoopStep(top, entries, g, k)]

\* The loop can be run over any number of entries.
LEMMA UnfoldsUpTo ==
  ASSUME NEW top, NEW entries, NEW N \in Nat
  PROVE  \E g : Unfolds(top, entries, g, N)
<1> DEFINE T == {n \in Nat : ~\E g : Unfolds(top, entries, g, n)}
<1>1. SUFFICES ASSUME T # {} PROVE FALSE
  OBVIOUS
<1>2. PICK n \in T : \A m \in T : n <= m
  BY <1>1, Least
<1>3. \E g : Unfolds(top, entries, g, n)
  <2>1. CASE n = 0
    <3>1. Unfolds(top, entries, [k \in 0..0 |-> top], 0)
      BY DEF Unfolds, LoopStep
    <3>2. QED
      BY <2>1, <3>1
  <2>2. CASE n # 0
    <3>1. n - 1 \in Nat /\ n - 1 \notin T
      BY <1>2, <2>2
    <3>2. PICK f : Unfolds(top, entries, f, n - 1)
      BY <3>1
    <3> DEFINE g == [k \in 0..n |-> IF k = n THEN LoopStep(top, entries, f, n) ELSE f[k]]
    <3>3. ASSUME NEW k \in 0..n
          PROVE  g[k] = LoopStep(top, entries, g, k)
      <4>1. n \in Nat
        OBVIOUS
      <4>2. CASE k = 0
        <5>1. f[0] = top
          BY <2>2, <3>2, <4>1 DEF Unfolds, LoopStep
        <5>2. QED
          BY <2>2, <4>2, <5>1 DEF LoopStep
      <4>3. CASE k # 0
        <5>1. k - 1 \in 0..n /\ k - 1 # n
          BY <4>1, <4>3
        <5>2. g[k - 1] = f[k - 1]
          BY <5>1
        <5>3. LoopStep(top, entries, g, k) = LoopStep(top, entries, f, k)
          BY <4>3, <5>2 DEF LoopStep
        <5>4. k # n => f[k] = LoopStep(top, entries, f, k)
          BY <3>2, <4>1 DEF Unfolds
        <5>5. QED
          BY <5>3, <5>4
      <4>4. QED
        BY <4>2, <4>3
    <3>4. Unfolds(top, entries, g, n)
      BY <3>3 DEF Unfolds
    <3>5. QED
      BY <3>4
  <2>3. QED
    BY <2>1, <2>2
<1>4. QED
  BY <1>2, <1>3

\* The fields are what the loop has after the last entry.
LEMMA FlattenUnfolds ==
  ASSUME NEW top, NEW entries, Len(entries) \in Nat
  PROVE  \E g : Unfolds(top, entries, g, Len(entries)) /\ Flatten(top, entries) = g[Len(entries)]
<1> DEFINE N == Len(entries)
           g == CHOOSE h : Unfolds(top, entries, h, N)
<1>1. Unfolds(top, entries, g, N)
  BY UnfoldsUpTo
<1>2. Flatten(top, entries) = g[N]
  BY DEF Flatten, Unfolds, LoopStep
<1>3. QED
  BY <1>1, <1>2

\* A section that has the field.
Has(entries, i, x) == Section(entries[i]) /\ x \in DOMAIN entries[i].fields

\* What setdefault has made of the top-level fields and of the first n entries.
Merged(top, entries, fields, n) ==
    /\ \A x \in DOMAIN top : x \in DOMAIN fields /\ fields[x] = top[x]
    /\ \A i \in 1..n : \A x : Has(entries, i, x) => x \in DOMAIN fields
    /\ \A x \in DOMAIN fields \ DOMAIN top : \E i \in 1..n :
          /\ Has(entries, i, x) /\ fields[x] = entries[i].fields[x]
          /\ \A j \in 1..n : Has(entries, j, x) => i <= j

\* One more entry.
LEMMA MergesOne ==
  ASSUME NEW top, NEW entries, NEW f, NEW n \in Nat \ {0}, Merged(top, entries, f, n - 1)
  PROVE  Merged(top, entries, IF Section(entries[n]) THEN SetDefaults(f, entries[n].fields) ELSE f, n)
<1>1. \A i \in 1..n : i \in 1..(n - 1) \/ i = n
  OBVIOUS
<1>2. \A i \in 1..(n - 1) : i \in 1..n /\ i <= n
  OBVIOUS
<1>3. CASE ~Section(entries[n])
  <2>1. \A x : ~Has(entries, n, x)
    BY <1>3 DEF Has
  <2>2. QED
    BY <1>1, <1>2, <1>3, <2>1 DEF Merged
<1>4. CASE Section(entries[n])
  <2> DEFINE g == SetDefaults(f, entries[n].fields)
  <2>1. /\ DOMAIN g = DOMAIN f \cup DOMAIN entries[n].fields
        /\ \A x \in DOMAIN f : g[x] = f[x]
        /\ \A x \in DOMAIN g \ DOMAIN f : g[x] = entries[n].fields[x]
    BY DEF SetDefaults
  <2>2. \A x : Has(entries, n, x) <=> x \in DOMAIN entries[n].fields
    BY <1>4 DEF Has
  <2> HIDE DEF g
  <2>3. \A x \in DOMAIN top : x \in DOMAIN g /\ g[x] = top[x]
    BY <2>1 DEF Merged
  <2>4. \A i \in 1..n : \A x : Has(entries, i, x) => x \in DOMAIN g
    BY <1>1, <2>1, <2>2 DEF Merged
  <2>5. ASSUME NEW x \in DOMAIN g \ DOMAIN top
        PROVE  \E i \in 1..n : /\ Has(entries, i, x) /\ g[x] = entries[i].fields[x]
                              /\ \A j \in 1..n : Has(entries, j, x) => i <= j
    <3>1. CASE x \in DOMAIN f
      <4>1. PICK i \in 1..(n - 1) : /\ Has(entries, i, x) /\ f[x] = entries[i].fields[x]
                                   /\ \A j \in 1..(n - 1) : Has(entries, j, x) => i <= j
        BY <2>5, <3>1 DEF Merged
      <4>2. g[x] = f[x]
        BY <2>1, <3>1
      <4>3. QED
        BY <1>1, <1>2, <4>1, <4>2
    <3>2. CASE x \notin DOMAIN f
      <4>1. Has(entries, n, x) /\ g[x] = entries[n].fields[x]
        BY <2>1, <2>2, <3>2
      <4>2. \A j \in 1..(n - 1) : ~Has(entries, j, x)
        BY <3>2 DEF Merged
      <4>3. \A j \in 1..n : Has(entries, j, x) => n <= j
        BY <1>1, <4>2
      <4>4. QED
        BY <4>1, <4>3
    <3>3. QED
      BY <3>1, <3>2
  <2>6. Merged(top, entries, g, n)
    BY <2>3, <2>4, <2>5 DEF Merged
  <2>7. QED
    BY <1>4, <2>6 DEF g
<1>5. QED
  BY <1>3, <1>4

\* Every entry: a top-level field keeps its name, then the first section does.
LEMMA FlattenMerges ==
  ASSUME NEW top, NEW entries, Len(entries) \in Nat
  PROVE  Merged(top, entries, Flatten(top, entries), Len(entries))
<1> DEFINE N == Len(entries)
<1>1. PICK g : Unfolds(top, entries, g, N) /\ Flatten(top, entries) = g[N]
  BY FlattenUnfolds
<1>2. \A n \in 0..N : g[n] = LoopStep(top, entries, g, n)
  BY <1>1 DEF Unfolds
<1> DEFINE T == {n \in Nat : n <= N /\ ~Merged(top, entries, g[n], n)}
<1>3. SUFFICES ASSUME T # {} PROVE FALSE
  BY <1>1
<1>4. PICK n \in T : \A m \in T : n <= m
  BY <1>3, Least
<1>5. CASE n = 0
  <2>1. g[0] = top
    BY <1>2, <1>4, <1>5 DEF LoopStep
  <2>2. Merged(top, entries, top, 0)
    BY DEF Merged
  <2>3. QED
    BY <1>4, <1>5, <2>1, <2>2
<1>6. CASE n # 0
  <2>1. n - 1 \in Nat /\ n - 1 \notin T /\ n \in 0..N
    BY <1>4, <1>6
  <2>2. Merged(top, entries, g[n - 1], n - 1)
    BY <1>4, <2>1
  <2>3. g[n] = IF Section(entries[n]) THEN SetDefaults(g[n - 1], entries[n].fields) ELSE g[n - 1]
    BY <1>2, <1>6, <2>1 DEF LoopStep
  <2>4. Merged(top, entries, g[n], n)
    BY <1>4, <1>6, <2>2, <2>3, MergesOne
  <2>5. QED
    BY <1>4, <2>4
<1>7. QED
  BY <1>5, <1>6

\* A field is the top-level one of its name, else that of the first section that
\* has it.
FlatIn(entries, fields) ==
    \A f \in DOMAIN fields :
        LET top      == {i \in DOMAIN entries : ~entries[i].section /\ entries[i].name = f}
            sections == {i \in DOMAIN entries : entries[i].section /\ f \in DOMAIN entries[i].fields}
        IN IF top # {} THEN \E i \in top : fields[f] = entries[i].def
           ELSE fields[f] = entries[Min(sections)].fields[f]

\* The fields of a service are the catalog's, flat.
LEMMA ServiceFieldsFlat ==
  ASSUME NEW svc, Len(svc.entries) \in Nat, DOMAIN svc.entries = 1..Len(svc.entries)
  PROVE  FlatIn(svc.entries, ServiceFields(svc))
<1> DEFINE entries == svc.entries
           N == Len(entries)
           outer == {i \in DOMAIN entries : ~Section(entries[i])}
           top == [n \in {entries[i].name : i \in outer} |->
                      LET i == CHOOSE i \in outer : entries[i].name = n IN entries[i].def]
           fields == ServiceFields(svc)
<1>1. fields = Flatten(top, entries)
  BY DEF ServiceFields
<1>2. Merged(top, entries, fields, N)
  BY <1>1, FlattenMerges
<1> SUFFICES ASSUME NEW f \in DOMAIN fields
             PROVE  LET tops     == {i \in DOMAIN entries : ~entries[i].section /\ entries[i].name = f}
                        sections == {i \in DOMAIN entries :
                                        entries[i].section /\ f \in DOMAIN entries[i].fields}
                    IN IF tops # {} THEN \E i \in tops : fields[f] = entries[i].def
                       ELSE fields[f] = entries[Min(sections)].fields[f]
  BY DEF FlatIn
<1> DEFINE tops == {i \in DOMAIN entries : ~entries[i].section /\ entries[i].name = f}
           sections == {i \in DOMAIN entries : entries[i].section /\ f \in DOMAIN entries[i].fields}
<1>3. tops = {i \in outer : entries[i].name = f}
  BY DEF Section
<1>4. f \in DOMAIN top <=> tops # {}
  BY <1>3
<1>5. CASE tops # {}
  <2> DEFINE i == CHOOSE i \in outer : entries[i].name = f
  <2>1. i \in outer /\ entries[i].name = f
    BY <1>3, <1>5
  <2>2. top[f] = entries[i].def
    BY <1>4, <1>5
  <2>3. fields[f] = top[f]
    BY <1>2, <1>4, <1>5 DEF Merged
  <2>4. i \in tops
    BY <1>3, <2>1
  <2>5. QED
    BY <1>5, <2>2, <2>3, <2>4
<1>6. CASE tops = {}
  <2>1. f \in DOMAIN fields \ DOMAIN top
    BY <1>4, <1>6
  <2>2. PICK i \in 1..N : /\ Has(entries, i, f) /\ fields[f] = entries[i].fields[f]
                         /\ \A j \in 1..N : Has(entries, j, f) => i <= j
    BY <1>2, <2>1 DEF Merged
  <2>3. sections = {j \in 1..N : Has(entries, j, f)}
    BY DEF Has, Section
  <2>4. sections \subseteq Nat /\ i \in sections /\ \A j \in sections : i <= j
    BY <2>2, <2>3
  <2>5. Min(sections) = i
    <3> HIDE DEF sections
    <3>1. Min(sections) \in sections /\ \A j \in sections : Min(sections) <= j
      BY <2>4 DEF Min
    <3>2. Min(sections) \in Nat /\ i \in Nat
      BY <2>4, <3>1
    <3>3. Min(sections) <= i /\ i <= Min(sections)
      BY <2>4, <3>1
    <3>4. QED
      BY <3>2, <3>3
  <2>6. QED
    BY <1>6, <2>2, <2>5
<1>7. QED
  BY <1>5, <1>6

\* A tool's fields are its service's, or some of them.
LEMMA DomainSpecsFields ==
  ASSUME NEW d, NEW services, NEW risk, NEW spec \in DomainSpecs(d, services, risk)
  PROVE  \E s \in DOMAIN services :
            /\ spec.domain = d /\ spec.service = s
            /\ DOMAIN spec.fields \subseteq DOMAIN ServiceFields(services[s])
            /\ \A f \in DOMAIN spec.fields : spec.fields[f] = ServiceFields(services[s])[f]
<1>1. spec \in ReflexSpecs(d, services, risk) \cup ConsciousSpecs(d, services, risk)
  BY DEF DomainSpecs
<1>2. ASSUME spec \in ReflexSpecs(d, services, risk)
      PROVE  \E s \in DOMAIN services : LET all == ServiceFields(services[s]) IN
                spec = Spec4(d, s, "reflex", risk,
                             [f \in ReflexConfig[d][s] \cap DOMAIN all |-> all[f]], TRUE)
  BY <1>2 DEF ReflexSpecs
<1>3. ASSUME spec \in ConsciousSpecs(d, services, risk)
      PROVE  \E s \in DOMAIN services :
                spec = Spec4(d, s, "conscious", risk, ServiceFields(services[s]), services[s].target)
  BY <1>3 DEF ConsciousSpecs
<1>4. CASE spec \in ReflexSpecs(d, services, risk)
  <2>1. PICK s \in DOMAIN services : LET all == ServiceFields(services[s]) IN
           spec = Spec4(d, s, "reflex", risk,
                        [f \in ReflexConfig[d][s] \cap DOMAIN all |-> all[f]], TRUE)
    BY <1>2, <1>4
  <2> DEFINE all   == ServiceFields(services[s])
             given == [f \in ReflexConfig[d][s] \cap DOMAIN all |-> all[f]]
  <2>2. DOMAIN given \subseteq DOMAIN all /\ \A f \in DOMAIN given : given[f] = all[f]
    OBVIOUS
  <2>3. spec.domain = d /\ spec.service = s /\ spec.fields = given
    BY <2>1 DEF Spec4
  <2> HIDE DEF given, all
  <2>4. DOMAIN spec.fields \subseteq DOMAIN all /\ \A f \in DOMAIN spec.fields : spec.fields[f] = all[f]
    BY <2>2, <2>3
  <2>5. QED
    BY <2>3, <2>4 DEF all
<1>5. CASE spec \in ConsciousSpecs(d, services, risk)
  BY <1>3, <1>5 DEF Spec4
<1>6. QED
  BY <1>1, <1>4, <1>5

\* The tools are the services of the first connect's catalog for as long as the
\* process lives: one for each that is due one, and every field as it has it.
THEOREM ToolsAreTheCatalogs == Spec => []ToolsFollowCatalog
<1>1. TypeOK /\ ManifestInv => FieldsFlat
  <2>1. SUFFICES ASSUME TypeOK, ManifestInv, Ready, NEW spec \in specs \ {EscapeHatch}
                 PROVE  FlatIn(made[spec.domain][spec.service].entries, spec.fields)
    BY DEF FieldsFlat, FlatIn
  <2>2. PICK d \in DOMAIN made \cap Domains(first) :
           spec \in DomainSpecs(d, made[d], DomainToolRisk(d, first))
    BY <2>1 DEF ManifestInv, Generate
  <2>3. PICK s \in DOMAIN made[d] :
           LET all == ServiceFields(made[d][s])
           IN /\ spec.domain = d /\ spec.service = s
              /\ DOMAIN spec.fields \subseteq DOMAIN all
              /\ \A f \in DOMAIN spec.fields : spec.fields[f] = all[f]
    BY <2>2, DomainSpecsFields
  <2>4. FlatIn(made[d][s].entries, ServiceFields(made[d][s]))
    <3>1. made \in Catalogs
      BY <2>1, <2>2 DEF TypeOK, NoCatalog
    <3>2. QED
      BY <2>2, <3>1, ToolsAssumption, ServiceFieldsFlat
  <2>5. FlatIn(made[d][s].entries, spec.fields)
    <3> DEFINE all     == ServiceFields(made[d][s])
               entries == made[d][s].entries
               fields  == spec.fields
    <3>1. DOMAIN fields \subseteq DOMAIN all /\ \A f \in DOMAIN fields : fields[f] = all[f]
      BY <2>3
    <3>2. FlatIn(entries, all)
      BY <2>4
    <3> HIDE DEF all, entries, fields
    <3>3. FlatIn(entries, fields)
      BY <3>1, <3>2 DEF FlatIn
    <3>4. QED
      BY <3>3 DEF entries, fields
  <2>6. QED
    BY <2>3, <2>5
<1>2. Spec => []FieldsFlat
  BY <1>1, InitTypeOK, NextTypeOK, InitManifest, NextManifest, PTL DEF Spec
<1>3. OneToolEach /\ FieldsFlat <=> ToolsFollowCatalog
  BY DEF ToolsFollowCatalog
<1>4. QED
  BY <1>2, <1>3, OneToolPerService, PTL

=============================================================================
