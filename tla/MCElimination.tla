---------------------------- MODULE MCElimination ---------------------------
(***************************************************************************)
(* Small tables for TLC.                                                   *)
(***************************************************************************)
EXTENDS Elimination, TLC

CONSTANTS citizen, mafia    \* the members of Roles

OverlappingSelections ==
    {sel \in [Roles -> 0..PlayerCount] : sel[citizen] > 0}

TableSymmetry == Permutations(Users) \cup Permutations(Sessions)

=============================================================================
