----------------------------- MODULE MCLiveClock ----------------------------
(***************************************************************************)
(* A small table for TLC, with the clock's history variable.  The seats    *)
(* are interchangeable, as are the requests in flight.                     *)
(***************************************************************************)
EXTENDS LiveClock, TLC

ClockSymmetry == Permutations(Seats) \cup Permutations(Clients)

=============================================================================
