------------------------------ MODULE MCAutoDeal ----------------------------
(***************************************************************************)
(* Small tables for TLC.  Every selection contains the plain citizen, as   *)
(* in MCLobby's OverlappingSelections.                                     *)
(***************************************************************************)
EXTENDS AutoDeal, TLC

CONSTANTS citizen, mafia    \* the members of Roles

OverlappingSelections ==
    {sel \in [Roles -> 0..PlayerCount] : sel[citizen] > 0}

TableSymmetry == Permutations(Users) \cup Permutations(Sessions)

=============================================================================
