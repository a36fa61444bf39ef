----------------------------- MODULE MCLiveState -----------------------------
(***************************************************************************)
(* LiveState for TLC.  Entities are interchangeable, and so are rooms.     *)
(***************************************************************************)
EXTENDS LiveState, TLC

Interchangeable == Permutations(Entities) \cup Permutations(Rooms)
=============================================================================
