---------------------------- MODULE MCSingleDevice --------------------------
(***************************************************************************)
(* Small tables for TLC: the first PlayerCount users are the synthetic     *)
(* players of the seats, the others are remote.                            *)
(***************************************************************************)
EXTENDS SingleDevice, TLC

CONSTANTS citizen, mafia, seat1, seat2, seat3

SeatUsers == <<seat1, seat2, seat3>>

OverlappingSelections ==
    {sel \in [Roles -> 0..PlayerCount] : sel[citizen] > 0}

TableSymmetry == Permutations(Remote) \cup Permutations(Sessions)

=============================================================================
