-------------------------------- MODULE Tools --------------------------------
(***************************************************************************)
(* The tool surface over time: Home Assistant's registries change while    *)
(* the setup of a connection and the registry refresh fetch them list by   *)
(* list, the index is rebuilt from what was fetched (src/app/server.py,    *)
(* src/app/ha_connection.py), the tools are generated once, and each       *)
(* registration tells Alfred what they offer.                              *)
(*                                                                         *)
(* A fetch reads Home Assistant and installs the reply in one step: the    *)
(* replies of a list come in the order they were asked for.  Registrations *)
(* land at once (Registrar has the ones that do not).                      *)
(***************************************************************************)
EXTENDS CapabilityGenerator

CONSTANTS Homes,        \* what Home Assistant may hold at first
          RegEntries,   \* the entries its entity registry may give an entity
          Devices, Areas,
          AreaNames,
          StateAttrs,   \* the attributes an entity may have
          Catalogs,     \* the service catalogs it may answer with
          MaxChanges,   \* bound: changes in Home Assistant
          MaxDrops      \* bound: connections lost

ASSUME ToolsAssumption ==
    /\ {MaxChanges, MaxDrops, MaxListed} \subseteq Nat
    /\ IsFiniteSet(Entities)
    /\ \A c \in Catalogs :
        /\ None \notin DOMAIN c
        /\ \A d \in DOMAIN c : \A s \in DOMAIN c[d] :
               LET entries == c[d][s].entries
               IN Len(entries) \in Nat /\ DOMAIN entries = 1..Len(entries)
    /\ \A h \in Homes : /\ DOMAIN h = {"entities", "devices", "areas", "states"}
                        /\ DOMAIN h.entities \subseteq Entities
                        /\ DOMAIN h.states \subseteq Entities

\* Names are what their words join to: two services of a domain have different ones.
ASSUME NamesAssumption ==
    \A c \in Catalogs : \A d \in DOMAIN c :
        /\ WordsOf[d] \in Seq(STRING)
        /\ \A s \in DOMAIN c[d] :
            /\ WordsOf[s] \in Seq(STRING)
            /\ \A t \in DOMAIN c[d] : WordsOf[s] = WordsOf[t] => s = t

\* All that an entity, a state and an area may ever say.
RegValues  == RegEntries \cup UNION {Range(h.entities) : h \in Homes}
StateGiven == StateAttrs \cup UNION {Range(h.states) : h \in Homes}
NamesGiven == AreaNames \cup UNION {Range(h.areas) : h \in Homes}

IsText(t) == t \in [word : {t.word}, cased : BOOLEAN, padded : BOOLEAN]

ASSUME TextsAssumption ==
    /\ \A e \in Entities : Text(ObjectOf[e]) # None
    /\ \A t \in NamesGiven : t # None /\ IsText(t)
    /\ \A a \in StateGiven : a.friendly = None \/ IsText(a.friendly)
    /\ \A r \in RegValues : /\ r.name = None \/ IsText(r.name)
                            /\ r.original = None \/ IsText(r.original)

VARIABLES
    ha,        \* Home Assistant's registries and states
    lists,     \* entity_registry, device_registry, area_registry
    states,    \* conn.states
    setup,     \* the setup task: "off", what it fetches next, "publishing" or "done"
    refresh,   \* the refresh task: "head", what it fetches next, "registering", or no
               \* task: "off", or "failed" from a fetch that failed to the next one
    dirty,     \* _registry_dirty
    index,     \* the entity index
    specs,     \* the feature's specs; none before capabilities_ready
    first,     \* the index they were generated from
    made,      \* the catalog they were generated from
    manifest,  \* the tools Alfred was last told of
    changes,   \* how many of MaxChanges have happened
    drops      \* how many of MaxDrops have happened

fetchVars == <<lists, setup, refresh, dirty>>
toolVars  == <<specs, first, made, manifest>>
vars == <<ha, fetchVars, states, index, toolVars, changes, drops>>

NoCatalog == <<>>

NoLists == [entities |-> <<>>, devices |-> <<>>, areas |-> <<>>]

Init ==
    /\ ha \in Homes
    /\ lists = NoLists
    /\ states = <<>>
    /\ setup = "off"
    /\ refresh = "off"
    /\ dirty = FALSE
    /\ index = <<>>
    /\ specs = {}
    /\ first = <<>>
    /\ made = NoCatalog
    /\ manifest = {}
    /\ changes = 0
    /\ drops = 0

\* The lists are fetched in this order.
After == [entities |-> "devices", devices |-> "areas", areas |-> "states"]

Lists == DOMAIN After

Fetch(list) == lists' = [lists EXCEPT ![list] = ha[list]]

\* Slip: the descriptions are those of the moment the tools were generated.
Manifest_Frozen(ss, i) == {ToolMeta(spec, first) : spec \in ss}

\* get_tools, at every registration.
Manifest(ss, i) == {ToolMeta(spec, i) : spec \in ss}

-----------------------------------------------------------------------------
(* The setup task, and on_connect                                          *)

\* Authenticated and subscribed: all the lists are about to be fetched.
Subscribed ==
    /\ setup = "off"
    /\ setup' = "entities"
    /\ refresh' = IF refresh = "failed" THEN "off" ELSE refresh
    /\ UNCHANGED <<ha, lists, dirty, states, index, toolVars, changes, drops>>

SetupFetches ==
    /\ setup \in Lists
    /\ Fetch(setup)
    /\ setup' = After[setup]
    /\ UNCHANGED <<ha, refresh, dirty, states, index, toolVars, changes, drops>>

\* get_states.
SetupInstalls ==
    /\ setup = "states"
    /\ states' = ha.states
    /\ setup' = "services"
    /\ UNCHANGED <<ha, lists, refresh, dirty, index, toolVars, changes, drops>>

\* get_services, and on_connect up to its first await: the index.
OnConnect ==
    /\ setup = "services"
    /\ index' = Rebuild(lists, states)
    /\ setup' = "publishing"
    /\ UNCHANGED <<ha, lists, refresh, dirty, states, toolVars, changes, drops>>

\* capabilities_ready: there is an escape hatch at least.
Ready == specs # {}

\* Slip: every connect generates the tools anew.
OnConnectEnds_Again ==
    /\ setup = "publishing"
    /\ made' \in IF Ready THEN {made} ELSE Catalogs
    /\ first' = IF Ready THEN first ELSE index
    /\ \E c \in IF Ready THEN Catalogs ELSE {made'} : specs' = Generate(c, index)
    /\ manifest' = Manifest(specs', index)
    /\ setup' = "done"
    /\ UNCHANGED <<ha, lists, refresh, dirty, states, index, changes, drops>>

\* The rest of on_connect: the tools, unless they are there, from the catalog this
\* connect fetched, and a registration.
OnConnectEnds ==
    /\ setup = "publishing"
    /\ \/ Ready /\ UNCHANGED <<specs, first, made>>
       \/ /\ ~Ready
          /\ made' \in Catalogs
          /\ first' = index
          /\ specs' = Generate(made', index)
    /\ manifest' = Manifest(specs', index)
    /\ setup' = "done"
    /\ UNCHANGED <<ha, lists, refresh, dirty, states, index, changes, drops>>

\* The connection is lost: the setup is cancelled, a fetch under way fails.
Drop ==
    /\ setup # "off"
    /\ drops < MaxDrops
    /\ drops' = drops + 1
    /\ setup' = "off"
    /\ refresh' = IF refresh \in Lists THEN "off" ELSE refresh
    /\ UNCHANGED <<ha, lists, dirty, states, index, toolVars, changes>>

-----------------------------------------------------------------------------
(* The registry refresh, and on_registries_updated                         *)

refreshFrame == <<ha, setup, states, specs, first, made, changes, drops>>

\* Before the setup there may be a WebSocket, or none to ask on.
RefreshBegins ==
    /\ refresh = "head"
    /\ \/ dirty /\ refresh' = "entities"
       \/ (~dirty \/ setup = "off") /\ refresh' = "off"
    /\ dirty' = FALSE
    /\ UNCHANGED <<refreshFrame, lists, index, manifest>>

RefreshFetches ==
    /\ refresh \in {"entities", "devices"}
    /\ Fetch(refresh)
    /\ refresh' = After[refresh]
    /\ UNCHANGED <<refreshFrame, dirty, index, manifest>>

\* Home Assistant answers with an error, or not in time, on a connection that
\* stays: the task ends with the lists it has, and the flag as it is.
RefreshFails ==
    /\ refresh \in Lists
    /\ refresh' = "failed"
    /\ UNCHANGED <<refreshFrame, lists, dirty, index, manifest>>

\* The last list is in, and the listener rebuilds the index without a pause.
RefreshRebuilds ==
    /\ refresh = "areas"
    /\ Fetch("areas")
    /\ index' = Rebuild(lists', states)
    /\ refresh' = "registering"
    /\ UNCHANGED <<refreshFrame, dirty, manifest>>

\* Slip: the dirty flag is cleared once the change is registered.
RefreshRegisters_ClearsDirty ==
    /\ refresh = "registering"
    /\ manifest' = Manifest(specs, index)
    /\ refresh' = "head"
    /\ dirty' = FALSE
    /\ UNCHANGED <<refreshFrame, lists, index>>

RefreshRegisters ==
    /\ refresh = "registering"
    /\ manifest' = Manifest(specs, index)
    /\ refresh' = "head"
    /\ UNCHANGED <<refreshFrame, lists, index, dirty>>

-----------------------------------------------------------------------------
(* Home Assistant                                                          *)

Put(f, x, v) == [y \in DOMAIN f \cup {x} |-> IF y = x THEN v ELSE f[y]]

Edits(f, x, values) == {Put(f, x, v) : v \in values} \cup {Restrict(f, DOMAIN f \ {x})}

\* A registry entry is written or removed, a device or an area changes; a
\* subscribed connection schedules a refresh.
RegistryChange ==
    /\ changes < MaxChanges
    /\ changes' = changes + 1
    /\ \/ \E e \in Entities : \E f \in Edits(ha.entities, e, RegEntries) :
              ha' = [ha EXCEPT !.entities = f]
       \/ \E d \in Devices : \E f \in Edits(ha.devices, d, Areas \cup {None}) :
              ha' = [ha EXCEPT !.devices = f]
       \/ \E a \in Areas : \E f \in Edits(ha.areas, a, AreaNames) :
              ha' = [ha EXCEPT !.areas = f]
    /\ IF setup = "off" THEN UNCHANGED <<dirty, refresh>>
       ELSE /\ dirty' = TRUE
            /\ refresh' = IF refresh \in {"off", "failed"} THEN "head" ELSE refresh
    /\ UNCHANGED <<lists, setup, states, index, toolVars, drops>>

\* An entity appears, changes its attributes or is deleted; nothing rebuilds
\* the index.
StateChange ==
    /\ changes < MaxChanges
    /\ changes' = changes + 1
    /\ \E e \in Entities, v \in StateAttrs \cup {None} :
        LET Edited(f) == IF v = None THEN Restrict(f, DOMAIN f \ {e}) ELSE Put(f, e, v)
        IN /\ ha' = [ha EXCEPT !.states = Edited(@)]
           /\ states' = IF setup = "off" THEN states ELSE Edited(states)
    /\ UNCHANGED <<fetchVars, index, toolVars, drops>>

-----------------------------------------------------------------------------

Next ==
    \/ Subscribed \/ SetupFetches \/ SetupInstalls \/ OnConnect \/ OnConnectEnds
    \/ Drop
    \/ RefreshBegins \/ RefreshFetches \/ RefreshFails \/ RefreshRebuilds \/ RefreshRegisters
    \/ RegistryChange \/ StateChange

Spec == Init /\ [][Next]_vars

-----------------------------------------------------------------------------
(* Properties                                                              *)

Quiet == setup = "done" /\ refresh \in {"off", "failed"}

\* The index knows every enabled entity of the registry, no disabled one, and
\* the area of each, as Home Assistant holds them once no refresh runs: lists
\* fetched one by one while they change, by two tasks, do not leave it torn.  A
\* refresh that failed is the exception, as it gives up its change: the index may
\* be behind until the next change or reconnect, and is current again after it.
IndexCurrent ==
    Quiet /\ refresh # "failed" => \A e \in DOMAIN ha.entities :
                /\ e \in DOMAIN index <=> ~ha.entities[e].disabled
                /\ e \in DOMAIN index => index[e].area = AreaOf(ha, e)

\* What Alfred was last told of the tools is what the index says now, after a
\* refresh that failed too.
ManifestCurrent == Quiet => manifest = Manifest(specs, index)

\* The services with a tool of their own: all of a domain that is not reflex or is
\* above benign, the configured ones of a benign reflex domain.
OneToolEach ==
    Ready => \A d \in DOMAIN made : \A s \in DOMAIN made[d] :
        Cardinality({spec \in specs : spec.domain = d /\ Tool(spec) = ToolName(d, s)}) =
            IF /\ d \in Domains(first)
               /\ \/ d \notin ReflexDomains
                  \/ DomainToolRisk(d, first) # "benign"
                  \/ d \in DOMAIN ReflexConfig /\ s \in DOMAIN ReflexConfig[d]
            THEN 1 ELSE 0

\* Each field of a tool is the catalog's: the top-level one of that name, else
\* that of the first section that has it.
FieldsFlat ==
    Ready => \A spec \in specs \ {EscapeHatch} : \A f \in DOMAIN spec.fields :
        LET entries  == made[spec.domain][spec.service].entries
            top      == {i \in DOMAIN entries : ~entries[i].section /\ entries[i].name = f}
            sections == {i \in DOMAIN entries : entries[i].section /\ f \in DOMAIN entries[i].fields}
        IN IF top # {} THEN \E i \in top : spec.fields[f] = entries[i].def
           ELSE spec.fields[f] = entries[Min(sections)].fields[f]

\* The tools are the services of the first connect, for as long as the process
\* lives and whatever later connects fetch.  A service that is due a tool has one,
\* and no second one of its domain takes its name; only the escape hatch reaches
\* the others: the unconfigured ones of a benign reflex domain, and those of a
\* domain that had no entities then.  A field means what that catalog says,
\* whatever section it is displayed in.  Tools of two domains may still share a
\* name, of which the one bound last is called.
ToolsFollowCatalog == OneToolEach /\ FieldsFlat

\* call_service lets a call through.
Connected == setup \in {"publishing", "done"}

Friendly == ({Text(ObjectOf[e]) : e \in Entities} \cup {a.friendly : a \in StateGiven}
             \cup {r.name : r \in RegValues} \cup {r.original : r \in RegValues}) \ {None}

Texts == NamesGiven \cup {Text(e) : e \in Entities} \cup Friendly \cup {None}

\* Whatever a tool is called with, its call to Home Assistant is aimed: at
\* entities of the tool's own domain that exist now, never at nothing, which
\* would drop the target from the call.
WellAimed ==
    Ready /\ Connected => \A spec \in specs \ {EscapeHatch}, target \in Texts :
        LET call == Execute(spec, None, target, {}, index)
        IN spec.targeted /\ call.kind = "call" =>
            call.entities # {} /\ call.entities \subseteq EntitiesForDomain(spec.domain, index)

\* Every area and name a tool offers in its description can be used as its
\* target, and an area, unless it reads like the id of an entity, reaches all of
\* the domain's entities in it.  Left out are areas and names with white space
\* around them: they are offered as they are, and resolve strips only what it is
\* given, so they reach nothing.
OffersWork ==
    Quiet => \A m \in manifest :
        /\ \A a \in m.areas : ~a.padded =>
            LET there == {e \in EntitiesForDomain(m.domain, index) : index[e].area = a}
                found == Resolve(m.domain, a, index)
            IN /\ there # {} /\ found # {}
               /\ ById(m.domain, a, index) = {} => there \subseteq found
        /\ \A n \in m.names : ~n.padded => Resolve(m.domain, n, index) # {}

\* A call that reaches an entity known when the tools were generated is made
\* with a tool at least as risky as that entity was then.
RiskCoversKnown ==
    Ready /\ Connected => \A spec \in specs, target \in Texts \ {None} :
        LET call == Execute(spec, <<None, None>>, target, {}, index)
        IN call.kind = "call" => \A e \in call.entities \cap DOMAIN first :
               Rank[RiskFor(DomainOf[e], first[e].class)] <= Rank[spec.risk]

EntryType == [friendly : Friendly, class : {a.class : a \in StateGiven} \cup {None},
              area : NamesGiven \cup {None}]

Maps(f, ids, values) == DOMAIN f \subseteq ids /\ \A x \in DOMAIN f : f[x] \in values

Shapes == DOMAIN ha = {"entities", "devices", "areas", "states"} /\ DOMAIN lists = Lists

\* Every variable holds a value of its kind.
TypeOK ==
    /\ Shapes
    /\ \A h \in {ha, lists} : /\ Maps(h.entities, Entities, RegValues)
                             /\ Maps(h.areas, DOMAIN h.areas, NamesGiven)
    /\ \A s \in {ha.states, states} : Maps(s, Entities, StateGiven)
    /\ setup \in Lists \cup {"off", "states", "services", "publishing", "done"}
    /\ refresh \in Lists \cup {"off", "failed", "head", "registering"}
    /\ dirty \in BOOLEAN
    /\ made \in Catalogs \cup {NoCatalog}
    /\ Maps(index, Entities, EntryType)
    /\ changes \in 0..MaxChanges
    /\ drops \in 0..MaxDrops

-----------------------------------------------------------------------------
(* The inductive invariant behind IndexCurrent and ManifestCurrent         *)

\* The lists a task that is about to fetch this one has yet to fetch.
Rest == [entities |-> Lists, devices |-> {"devices", "areas"}, areas |-> {"areas"}]

YetToFetch(task) == IF task \in Lists THEN Rest[task] ELSE {}

\* Another round of the refresh is certain.
Again == dirty /\ refresh \notin {"off", "failed"}

\* A list that is behind Home Assistant's is still to be fetched, unless a refresh
\* failed.
ListsInv ==
    \A list \in Lists : lists[list] # ha[list] =>
        setup = "off" \/ refresh = "failed" \/ Again \/ list \in YetToFetch(setup) \cup YetToFetch(refresh)

Matches(i) ==
    \A e \in DOMAIN lists.entities :
        /\ e \in DOMAIN i <=> ~lists.entities[e].disabled
        /\ e \in DOMAIN i => i[e].area = AreaOf(lists, e)

\* An index that does not match the lists is still to be rebuilt, unless a refresh
\* failed.
IndexInv ==
    \/ Matches(index)
    \/ setup \notin {"publishing", "done"} \/ Again \/ refresh \in Lists \cup {"failed"}

\* The tools are generated once, and Alfred is told of them by each setup and by
\* each rebuild.
ManifestInv ==
    /\ Ready => specs = Generate(made, first)
    /\ setup = "done" => Ready
    /\ setup = "done" /\ refresh # "registering" => manifest = Manifest(specs, index)

Inductive == TypeOK /\ ListsInv /\ IndexInv /\ ManifestInv
=============================================================================
