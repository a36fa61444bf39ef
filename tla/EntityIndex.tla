----------------------------- MODULE EntityIndex -----------------------------
(***************************************************************************)
(* What the service knows of Home Assistant's entities, and how a tool     *)
(* call's target is resolved (src/app/entity_index.py).                    *)
(*                                                                         *)
(* A text is a word, with what resolution tells apart of its writing: its  *)
(* case, and white space around it.  Registries and states are functions   *)
(* from the ids they list.                                                 *)
(***************************************************************************)
EXTENDS Naturals, Sequences, FiniteSets

CONSTANTS Entities,   \* entity ids
          DomainOf,   \* the domain an entity id starts with
          ObjectOf,   \* the word its other half reads as
          None        \* an absent value

Text(w) == [word |-> w, cased |-> FALSE, padded |-> FALSE]

\* str.casefold and str.strip.
Fold(t)  == [t EXCEPT !.cased = FALSE]
Strip(t) == [t EXCEPT !.padded = FALSE]

\* Python's "or" over values that may be missing.
FirstOf(values) ==
    LET given == {i \in DOMAIN values : values[i] # None}
    IN IF given = {} THEN None ELSE values[CHOOSE i \in given : \A j \in given : i <= j]

Lookup(f, x) == IF x \in DOMAIN f THEN f[x] ELSE None

-----------------------------------------------------------------------------
(* rebuild()                                                               *)

NoEntry == [disabled |-> FALSE, name |-> None, original |-> None, area |-> None,
            device |-> None]

Registered(lists, e) == IF e \in DOMAIN lists.entities THEN lists.entities[e] ELSE NoEntry

\* Slip: an area the registry does not list is shown by its id.
AreaOf_Id(lists, e) ==
    LET reg == Registered(lists, e)
        id  == FirstOf(<<reg.area, Lookup(lists.devices, reg.device)>>)
    IN FirstOf(<<Lookup(lists.areas, id), id>>)

\* An entity's own area, else its device's; an unknown area is none.
AreaOf(lists, e) ==
    LET reg == Registered(lists, e)
    IN Lookup(lists.areas, FirstOf(<<reg.area, Lookup(lists.devices, reg.device)>>))

NoState == [friendly |-> None, class |-> None]

Describe(lists, states, e) ==
    LET reg   == Registered(lists, e)
        state == IF e \in DOMAIN states THEN states[e] ELSE NoState
    IN [friendly |-> FirstOf(<<state.friendly, reg.name, reg.original, Text(ObjectOf[e])>>),
        class    |-> state.class,
        area     |-> AreaOf(lists, e)]

Indexed(lists, states) ==
    {e \in DOMAIN states \cup DOMAIN lists.entities : ~Registered(lists, e).disabled}

Rebuild(lists, states) == [e \in Indexed(lists, states) |-> Describe(lists, states, e)]

-----------------------------------------------------------------------------
(* Lookups                                                                 *)

Domains(index) == {DomainOf[e] : e \in DOMAIN index}

EntitiesForDomain(d, index) == {e \in DOMAIN index : DomainOf[e] = d}

\* The entities of the domain that the target names as an id, as an area, and
\* by friendly name.
Wanted(target) == Fold(Strip(target))

ById(d, target, index) == {e \in EntitiesForDomain(d, index) : Text(e) = Wanted(target)}

ByArea(d, target, index) ==
    {e \in EntitiesForDomain(d, index) :
        index[e].area # None /\ Fold(index[e].area) = Wanted(target)}

ByName(d, target, index) ==
    {e \in EntitiesForDomain(d, index) : Fold(index[e].friendly) = Wanted(target)}

\* Slip: an area is looked for in the whole index, not among the domain's own.
Resolve_AnyDomain(d, target, index) ==
    IF ById(d, target, index) # {} THEN ById(d, target, index)
    ELSE LET there == {e \in DOMAIN index : /\ index[e].area # None
                                            /\ Fold(index[e].area) = Wanted(target)}
         IN IF there # {} THEN there ELSE ByName(d, target, index)

\* Ids first, then areas, then names; the empty set is the LookupError.
Resolve(d, target, index) ==
    LET ids   == ById(d, target, index)
        there == ByArea(d, target, index)
    IN IF ids # {} THEN ids ELSE IF there # {} THEN there ELSE ByName(d, target, index)
=============================================================================
