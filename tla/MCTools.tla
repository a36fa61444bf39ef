------------------------------- MODULE MCTools -------------------------------
(***************************************************************************)
(* Tools for TLC: a lamp, a blind, a garage door and a script, which is    *)
(* disabled at first, in a home with two areas and a device.               *)
(***************************************************************************)
EXTENDS Tools

CONSTANTS lamp, blind, garage, script,               \* entities
          kitchen, hall, door, routine, lampword,    \* words
          a1, a2, d1

HomeDomainOf == lamp :> "light" @@ blind :> "cover" @@ garage :> "cover" @@ script :> "script"
HomeObjectOf == lamp :> lampword @@ blind :> kitchen @@ garage :> door @@ script :> routine

Config == [light |-> [turn_on |-> {"brightness"}, turn_off |-> {}], script |-> [turn_on |-> {}]]

Field(n, d)     == [section |-> FALSE, name |-> n, def |-> d]
Group(fields)   == [section |-> TRUE, fields |-> fields]
Service(t, es)  == [target |-> t, entries |-> es]

NoGroups == Service(TRUE, <<Field("brightness", 3)>>)

HomeWords ==
    [light |-> <<"light">>, cover |-> <<"cover">>, script |-> <<"script">>, lock |-> <<"lock">>,
     turn_on |-> <<"turn", "on">>, turn_off |-> <<"turn", "off">>, toggle |-> <<"toggle">>,
     open |-> <<"open">>, reload |-> <<"reload">>, unlock |-> <<"unlock">>]

HomeCatalog ==
    [light  |-> [turn_on |-> Service(TRUE, <<Group([flash |-> 1, brightness |-> 2]),
                                             Field("brightness", 3), Group([flash |-> 4])>>),
                 toggle  |-> Service(TRUE, <<>>)],
     cover  |-> [open    |-> Service(TRUE, <<Group([speed |-> 1]), Group([speed |-> 2, tilt |-> 3])>>)],
     script |-> [turn_on |-> Service(TRUE, <<>>), reload |-> Service(FALSE, <<>>)],
     lock   |-> [unlock  |-> Service(TRUE, <<>>)]]

Entry(area, device, disabled) ==
    [NoEntry EXCEPT !.area = area, !.device = device, !.disabled = disabled]

\* The catalog of another Home Assistant release.
OtherCatalog ==
    [light  |-> [turn_on |-> NoGroups, turn_off |-> NoGroups],
     script |-> [turn_on |-> Service(TRUE, <<>>)]]

HomeCatalogs == {HomeCatalog, OtherCatalog}

HomeEntries == {Entry(a2, None, FALSE)}

Shouted(w) == [Text(w) EXCEPT !.cased = TRUE]
Padded(w)  == [Text(w) EXCEPT !.padded = TRUE]

HomeAttrs == {[friendly |-> Shouted(hall), class |-> "garage"]}

HomeNames == {Text(hall)}

Everything == {lamp, blind, garage, script}
TheHomes ==
    {[entities |-> [e \in Everything |-> IF e = garage THEN Entry(a1, None, FALSE)
                                         ELSE Entry(None, d1, e = script)],
      devices  |-> d1 :> a1,
      areas    |-> a1 :> Shouted(kitchen),
      states   |-> blind  :> [friendly |-> Padded(hall), class |-> "blind"]
                @@ garage :> [friendly |-> Shouted(hall), class |-> "garage"]]}
=============================================================================
