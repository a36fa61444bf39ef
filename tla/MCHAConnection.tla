--------------------------- MODULE MCHAConnection ---------------------------
(***************************************************************************)
(* HAConnection for TLC: callers are interchangeable.                      *)
(***************************************************************************)
EXTENDS HAConnection, TLC

CallerSymmetry == Permutations(Callers)
=============================================================================
