------------------------------- MODULE MCLobby ------------------------------
(***************************************************************************)
(* Small tables for TLC.  OverlappingSelections are the selections in      *)
(* which the plain citizen appears (two confirm taps that both pass the    *)
(* check then collide on UNIQUE(game_id, role_id)).  Totals other than     *)
(* PlayerCount are included, for configure_roles to refuse.                *)
(***************************************************************************)
EXTENDS Lobby, TLC

CONSTANTS citizen, mafia    \* the members of Roles

OverlappingSelections ==
    {sel \in [Roles -> 0..PlayerCount] : sel[citizen] > 0}

UserSymmetry == Permutations(Users)
SessionSymmetry == Permutations(Sessions)
TableSymmetry == UserSymmetry \cup SessionSymmetry

=============================================================================
