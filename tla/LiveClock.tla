------------------------------ MODULE LiveClock ------------------------------
(***************************************************************************)
(* Who counts a running timer down?  The process's hot_games says which    *)
(* tables the loop watches, the document in Redis says whether a timer     *)
(* runs, and nothing keeps the two together.  unwatched is a history       *)
(* variable on top of LiveTable: has something happened, since the table   *)
(* was last marked hot, for which a timer may run without being watched?   *)
(***************************************************************************)
EXTENDS LiveTable

VARIABLE unwatched

\* The loop drops the table because of the document it read, while a request is
\* under way or the timer has been started since; or a tick fails.  The process
\* restarts.  A request fails after its SET, so the table is not marked.
Reason ==
    \/ hot /\ ~hot' /\ (live.running \/ \E c \in Clients : req[c] # Idle)
    \/ \E c \in Clients :
          req[c].pc = "saved" /\ req[c].marksHot /\ req'[c] = Idle /\ ~hot'

ClockInit == Init /\ unwatched = FALSE

ClockNext ==
    /\ Next
    /\ unwatched' = (Reason \/ (unwatched /\ ~(hot' /\ ~hot)))

ClockSpec == ClockInit /\ [][ClockNext]_<<vars, unwatched>>

\* "Games with a running speaking timer, watched by the server tick loop"
\* (realtime.py): at rest, a running timer is watched, unless the loop, a failure
\* or a restart dropped it.  A lost update is no such reason: whichever document
\* is stored last, the table of a running one is hot.
TimersStopOnlyForAReason ==
    (\A c \in Clients : req[c] = Idle) /\ loop = Sleeping
        => (live.running => hot \/ unwatched)

=============================================================================
