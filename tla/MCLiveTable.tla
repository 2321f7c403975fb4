----------------------------- MODULE MCLiveTable ----------------------------
(***************************************************************************)
(* Small tables for TLC: amounts of added and removed time.                *)
(***************************************************************************)
EXTENDS LiveTable

OneSecond == {-1, 1}

=============================================================================
