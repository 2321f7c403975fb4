----------------------------- MODULE MCLiveSync -----------------------------
(***************************************************************************)
(* TLC instance of LiveSync: one screen, two writers and the clock; one    *)
(* document written, one elimination, one connection lost (or one restart  *)
(* of the server), and a page that may enter the table twice.  Screens     *)
(* share nothing but the order in which the hub sends to them.             *)
(***************************************************************************)
EXTENDS LiveSync

CONSTANTS v1, w1, w2

=============================================================================
