---------------------------- MODULE MCComposition ----------------------------
(***************************************************************************)
(* TLC instance of Composition: the real catalogs and player bounds, and a *)
(* creator with a custom role of the team the fill never adds to.          *)
(***************************************************************************)
EXTENDS Composition

CONSTANT jester

MCOwnRoles == {jester}
MCOwnTeam == [r \in MCOwnRoles |-> "independent"]

=============================================================================
