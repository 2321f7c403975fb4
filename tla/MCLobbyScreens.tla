--------------------------- MODULE MCLobbyScreens ---------------------------
(***************************************************************************)
(* TLC instance of LobbyScreens: a table of two, one of whose roles is a   *)
(* custom role.  The players are interchangeable, and no property is about *)
(* liveness.                                                               *)
(***************************************************************************)
EXTENDS LobbyScreens, TLC

CONSTANTS u1, u2, citizen, custom

MCUsers == {u1, u2}
Symmetry == Permutations(MCUsers)

=============================================================================
