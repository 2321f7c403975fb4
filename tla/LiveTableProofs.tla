--------------------------- MODULE LiveTableProofs --------------------------
(***************************************************************************)
(* Proofs about the live table, for any number of seats and of requests    *)
(* in flight, any clock and any bound on versions, with and without        *)
(* failures: every document, stored or in flight, is one moment of the     *)
(* game.  The lemmas are about the pure functions; the induction only has  *)
(* to follow documents from one place to another.  And, at the end, that a *)
(* running timer is watched (LiveClock).                                   *)
(***************************************************************************)
EXTENDS LiveClock, TLAPS

\* What every document satisfies
DocumentOK(t) == t \in Tables /\ FloorOK(t) /\ ChallengeOK(t)

-----------------------------------------------------------------------------
(* The pure functions.                                                     *)

\* The document of a table that was never touched.
LEMMA FreshTableOK == DocumentOK(FreshTable)
  BY NoSeatIsNotASeat, SpeakingSecondsPositive, MaxVersionNat
  DEF DocumentOK, FreshTable, Tables, Phases, NoChallenge, NoVotes, FloorOK,
      ChallengeOK

\* The values the functions write are of the fields' types.
LEMMA FieldValues ==
    /\ SpeakingSeconds \in 0..MaxSeconds
    /\ 0 \in 0..MaxSeconds
    /\ NoChallenge \in [challenger : Seats \cup {NoSeat},
                        target : Seats \cup {NoSeat}]
    /\ NoVotes \in [Seats -> Seats \cup {NoSeat}]
  BY SpeakingSecondsPositive DEF NoChallenge, NoVotes

\* A phase change keeps the floor, or empties it, and closes the challenge.
LEMMA PhaseSetOK ==
    ASSUME NEW t, DocumentOK(t), NEW phase \in Phases
    PROVE  DocumentOK(PhaseSet(t, phase))
  <1>2. CASE phase = "voting"
    <2>1. PhaseSet(t, phase) \in Tables
      BY <1>2, FieldValues DEF DocumentOK, PhaseSet, Tables
    <2>2. /\ PhaseSet(t, phase).muted = TRUE
          /\ PhaseSet(t, phase).speaker = NoSeat
          /\ PhaseSet(t, phase).challenge = NoChallenge
      BY <1>2 DEF DocumentOK, PhaseSet, Tables
    <2>3. QED
      BY <2>1, <2>2 DEF DocumentOK, FloorOK, ChallengeOK
  <1>3. CASE phase # "voting"
    <2>1. PhaseSet(t, phase) \in Tables
      <3>1. CASE phase \in {"day", "defense"}
        BY <1>3, <3>1, FieldValues DEF DocumentOK, PhaseSet, Tables
      <3>2. CASE phase \notin {"day", "defense"}
        BY <1>3, <3>2, FieldValues DEF DocumentOK, PhaseSet, Tables
      <3>3. QED
        BY <3>1, <3>2
    <2>2. /\ PhaseSet(t, phase).muted = t.muted
          /\ PhaseSet(t, phase).speaker = t.speaker
          /\ PhaseSet(t, phase).turn = t.turn
          /\ PhaseSet(t, phase).challenge = NoChallenge
      BY <1>3 DEF DocumentOK, PhaseSet, Tables
    <2>3. QED
      BY <2>1, <2>2 DEF DocumentOK, FloorOK, ChallengeOK
  <1>4. QED
    BY <1>2, <1>3

\* A new turn has a speaker and no challenge.
LEMMA TurnStartedOK ==
    ASSUME NEW t, DocumentOK(t), NEW n \in Seats
    PROVE  DocumentOK(TurnStarted(t, n))
  <1>1. TurnStarted(t, n) \in Tables
    BY FieldValues DEF DocumentOK, TurnStarted, Tables
  <1>2. /\ TurnStarted(t, n).muted = FALSE
        /\ TurnStarted(t, n).speaker = n
        /\ TurnStarted(t, n).turn = n
        /\ TurnStarted(t, n).challenge = NoChallenge
    BY DEF DocumentOK, TurnStarted, Tables
  <1>3. QED
    BY <1>1, <1>2, NoSeatIsNotASeat DEF DocumentOK, FloorOK, ChallengeOK

\* Pausing, resuming and adjusting the clock touch neither floor nor challenge.
LEMMA TimerSetOK ==
    ASSUME NEW t, DocumentOK(t), NEW running \in BOOLEAN
    PROVE  DocumentOK([t EXCEPT !.running = running])
  BY DEF DocumentOK, Tables, FloorOK, ChallengeOK, NoChallenge

LEMMA TimeAdjustedOK ==
    ASSUME NEW t, DocumentOK(t), NEW delta \in Int,
           t.seconds + delta <= MaxSeconds
    PROVE  DocumentOK(TimeAdjusted(t, delta))
  BY SpeakingSecondsPositive
  DEF DocumentOK, TimeAdjusted, Tables, FloorOK, ChallengeOK, NoChallenge

\* Muting everyone takes the floor from the speaker; the challenge stays.
LEMMA AllMutedOK ==
    ASSUME NEW t, DocumentOK(t)
    PROVE  DocumentOK(AllMuted(t))
  BY DEF DocumentOK, AllMuted, Tables, FloorOK, ChallengeOK, NoChallenge

\* The challenger has the floor, hence the turn.
LEMMA ChallengedOK ==
    ASSUME NEW t, DocumentOK(t), NEW n \in Seats, NEW target \in Seats,
           t.speaker = n
    PROVE  DocumentOK([t EXCEPT !.challenge =
                           [challenger |-> n, target |-> target]])
  BY NoSeatIsNotASeat
  DEF DocumentOK, Tables, FloorOK, ChallengeOK, NoChallenge

LEMMA VotedOK ==
    ASSUME NEW t, DocumentOK(t), NEW n \in Seats, NEW target \in Seats
    PROVE  DocumentOK([t EXCEPT !.votes[n] = target])
  <1>1. t \in Tables
    BY DEF DocumentOK
  <1>2. [t.votes EXCEPT ![n] = target] \in [Seats -> Seats \cup {NoSeat}]
    BY <1>1 DEF Tables
  <1>3. [t EXCEPT !.votes = [t.votes EXCEPT ![n] = target]] \in Tables
    BY <1>1, <1>2 DEF Tables
  <1>4. QED
    BY <1>1, <1>3 DEF DocumentOK, FloorOK, ChallengeOK, Tables

\* A tick keeps the floor until the last second, which empties it.
LEMMA TickedOK ==
    ASSUME NEW t, DocumentOK(t)
    PROVE  DocumentOK(Ticked(t))
  <1>1. t \in Tables /\ t.seconds \in 0..MaxSeconds /\ MaxSeconds \in Nat
    BY SpeakingSecondsPositive DEF DocumentOK, Tables
  <1>2. CASE Expires(t)
    <2>1. Ticked(t) \in Tables
      BY <1>1, <1>2, FieldValues DEF Ticked, Tables
    <2>2. /\ Ticked(t).muted = TRUE
          /\ Ticked(t).speaker = NoSeat
          /\ Ticked(t).turn = t.turn
          /\ Ticked(t).challenge = t.challenge
      BY <1>1, <1>2 DEF Ticked, Tables
    <2>3. QED
      BY <2>1, <2>2 DEF DocumentOK, FloorOK, ChallengeOK
  <1>3. CASE ~Expires(t) /\ t.running /\ t.seconds > 0
    <2>1. t.seconds - 1 \in 0..MaxSeconds
      BY <1>1, <1>3
    <2>2. Ticked(t) = [t EXCEPT !.seconds = t.seconds - 1]
      BY <1>3 DEF Ticked
    <2>3. QED
      BY <1>1, <2>1, <2>2 DEF DocumentOK, FloorOK, ChallengeOK, Tables
  <1>4. CASE ~Expires(t) /\ ~(t.running /\ t.seconds > 0)
    BY <1>4 DEF Ticked
  <1>5. QED
    BY <1>2, <1>3, <1>4

\* Storing a document changes its version only.
LEMMA StoredOK ==
    ASSUME NEW t, DocumentOK(t)
    PROVE  DocumentOK(Stored(t))
  BY MaxVersionNat
  DEF DocumentOK, Stored, Tables, FloorOK, ChallengeOK, NoChallenge

-----------------------------------------------------------------------------
(* The induction follows the documents.                                    *)

\* Control state is of its type, and every document is a moment of the game.
Inv ==
    /\ hot \in BOOLEAN
    /\ DocumentOK(live)
    /\ req \in [Clients -> [pc : {"idle", "save", "saved"},
                            table : Tables, marksHot : BOOLEAN]]
    /\ \A c \in Clients : DocumentOK(req[c].table)
    /\ loop \in [pc : {"sleep", "ticked", "saved"}, table : Tables,
                 saves : BOOLEAN, keeps : BOOLEAN]
    /\ DocumentOK(loop.table)

\* Inv is the invariant of LiveTable, document by document.
LEMMA InvImplies == Inv <=> LiveInv
  BY DEF Inv, LiveInv, TypeOK, FloorIsConsistent, ChallengeOfThisTurn,
         Documents, DocumentOK

\* Initially every document is the fresh one.
LEMMA InitInv == Init => Inv
  <1>1. FreshTable \in Tables
    BY FreshTableOK DEF DocumentOK
  <1>2. ASSUME Init PROVE loop = Sleeping /\ loop.table = FreshTable
    BY <1>2 DEF Init, Sleeping
  <1>3. ASSUME Init, NEW c \in Clients PROVE req[c].table = FreshTable
    BY <1>3 DEF Init, Idle
  <1>4. Sleeping \in [pc : {"sleep", "ticked", "saved"}, table : Tables,
                      saves : BOOLEAN, keeps : BOOLEAN]
    BY <1>1 DEF Sleeping
  <1>5. Idle \in [pc : {"idle", "save", "saved"}, table : Tables,
                  marksHot : BOOLEAN]
    BY <1>1 DEF Idle
  <1>6. QED
    BY <1>2, <1>3, <1>4, <1>5, FreshTableOK DEF Init, Inv

\* An endpoint that computes a good document keeps the invariant.
LEMMA ComputesInv ==
    ASSUME Inv, NEW c \in Clients, NEW next, NEW marksHot \in BOOLEAN,
           DocumentOK(next), Computes(c, next, marksHot)
    PROVE  Inv'
  <1>1. req' \in [Clients -> [pc : {"idle", "save", "saved"},
                              table : Tables, marksHot : BOOLEAN]]
    BY DEF Inv, Computes, DocumentOK
  <1>2. ASSUME NEW d \in Clients PROVE DocumentOK(req'[d].table)
    <2>1. CASE d = c
      BY <2>1 DEF Inv, Computes
    <2>2. CASE d # c
      BY <2>2 DEF Inv, Computes
    <2>3. QED
      BY <2>1, <2>2
  <1>3. QED
    BY <1>1, <1>2 DEF Inv, Computes

\* Every endpoint computes a good document from a good one.
LEMMA RequestInv ==
    ASSUME Inv, NEW c \in Clients, Request(c)
    PROVE  Inv'
  <1> USE DEF Inv
  <1>1. ASSUME NEW phase \in Moves, SetPhase(c, phase) PROVE Inv'
    <2>1. DocumentOK(PhaseSet(live, phase))
      BY PhaseSetOK, MovesArePhases
    <2>2. QED
      BY <1>1, <2>1, ComputesInv DEF SetPhase
  <1>2. ASSUME NEW n \in Seats, StartTurn(c, n) PROVE Inv'
    BY <1>2, TurnStartedOK, ComputesInv DEF StartTurn
  <1>3. ASSUME NEW running \in BOOLEAN, SetTimer(c, running) PROVE Inv'
    BY <1>3, TimerSetOK, ComputesInv DEF SetTimer
  <1>4. ASSUME NEW delta \in Deltas, AdjustTime(c, delta) PROVE Inv'
    <2>1. DocumentOK(TimeAdjusted(live, delta))
      BY <1>4, TimeAdjustedOK, DeltasAreIntegers DEF AdjustTime
    <2>2. QED
      BY <1>4, <2>1, ComputesInv DEF AdjustTime
  <1>5. ASSUME MuteAll(c) PROVE Inv'
    BY <1>5, AllMutedOK, ComputesInv DEF MuteAll
  <1>6. ASSUME NEW n \in Seats, NEW target \in Targets,
               DeclareChallenge(c, n, target)
        PROVE  Inv'
    <2>1. DocumentOK([live EXCEPT !.challenge =
                         [challenger |-> n, target |-> target]])
      BY <1>6, ChallengedOK, TargetsAreSeats DEF DeclareChallenge
    <2>2. QED
      BY <1>6, <2>1, ComputesInv DEF DeclareChallenge
  <1>7. ASSUME NEW n \in Seats, NEW target \in Targets, CastVote(c, n, target)
        PROVE  Inv'
    <2>1. DocumentOK([live EXCEPT !.votes[n] = target])
      BY VotedOK, TargetsAreSeats
    <2>2. QED
      BY <1>7, <2>1, ComputesInv DEF CastVote
  <1>8. QED
    BY <1>1, <1>2, <1>3, <1>4, <1>5, <1>6, <1>7 DEF Request

\* A request stores its document, answers, or fails.
LEMMA FinishInv ==
    ASSUME Inv, NEW c \in Clients, Save(c) \/ Answer(c) \/ RequestFails(c)
    PROVE  Inv'
  <1>1. Idle \in [pc : {"idle", "save", "saved"}, table : Tables,
                  marksHot : BOOLEAN]
    BY FreshTableOK DEF Idle, DocumentOK
  <1>2. FreshTable \in Tables
    BY FreshTableOK DEF DocumentOK
  <1>3. CASE Save(c)
    <2>1. DocumentOK(live')
      BY <1>3, StoredOK DEF Save, Inv
    <2>2. req' = [req EXCEPT ![c] = [req[c] EXCEPT !.pc = "saved",
                                                   !.table = FreshTable]]
      BY <1>3 DEF Save, Inv
    <2>3. req' \in [Clients -> [pc : {"idle", "save", "saved"},
                                table : Tables, marksHot : BOOLEAN]]
      BY <2>2, <1>2 DEF Inv
    <2>4. ASSUME NEW d \in Clients PROVE DocumentOK(req'[d].table)
      <3>1. req'[d].table = IF d = c THEN FreshTable ELSE req[d].table
        BY <2>2 DEF Inv
      <3>2. QED
        BY <3>1, FreshTableOK DEF Inv
    <2>5. QED
      BY <1>3, <2>1, <2>3, <2>4 DEF Inv, Save
  <1>4. CASE Answer(c) \/ RequestFails(c)
    <2>1. req' = [req EXCEPT ![c] = Idle]
      BY <1>4 DEF Answer, RequestFails
    <2>2. req' \in [Clients -> [pc : {"idle", "save", "saved"},
                                table : Tables, marksHot : BOOLEAN]]
      BY <2>1, <1>1 DEF Inv
    <2>3. ASSUME NEW d \in Clients PROVE DocumentOK(req'[d].table)
      <3>1. req'[d].table = IF d = c THEN FreshTable ELSE req[d].table
        BY <2>1 DEF Inv, Idle
      <3>2. QED
        BY <3>1, FreshTableOK DEF Inv
    <2>4. hot' \in BOOLEAN
      BY <1>4 DEF Answer, RequestFails, Inv
    <2>5. QED
      BY <1>4, <2>2, <2>3, <2>4 DEF Inv, Answer, RequestFails
  <1>5. QED
    BY <1>3, <1>4

\* The clock computes a good document and stores it.
LEMMA TickInv ==
    ASSUME Inv, Tick
    PROVE  Inv'
  <1>1. CASE TickRead
    <2>1. DocumentOK(Ticked(live))
      BY TickedOK DEF Inv
    <2>2. TickSaves(live) \in BOOLEAN /\ StaysHot(Ticked(live)) \in BOOLEAN
      BY <2>1 DEF TickSaves, Expires, StaysHot, DocumentOK, Tables
    <2>3. QED
      BY <1>1, <2>1, <2>2 DEF TickRead, Inv, DocumentOK
  <1>2. CASE TickSave
    <2>1. DocumentOK(live')
      BY <1>2, StoredOK DEF TickSave, Inv
    <2>2. QED
      BY <1>2, <2>1, FreshTableOK DEF TickSave, Inv, DocumentOK
  <1>3. CASE TickEnd
    BY <1>3, FreshTableOK DEF TickEnd, Inv, Sleeping, DocumentOK
  <1>4. QED
    BY <1>1, <1>2, <1>3 DEF Tick

\* What fails or evaporates leaves only fresh documents behind.
LEMMA LossInv ==
    ASSUME Inv, TickFails \/ Restart \/ Evaporate
    PROVE  Inv'
  <1>1. FreshTable \in Tables
    BY FreshTableOK DEF DocumentOK
  <1>2. CASE TickFails
    BY <1>1, <1>2, FreshTableOK DEF TickFails, Inv, Sleeping
  <1>3. CASE Restart
    BY <1>1, <1>3, FreshTableOK DEF Restart, Inv, Idle, Sleeping
  <1>4. CASE Evaporate
    <2>1. DocumentOK(live')
      BY <1>4, FreshTableOK DEF Evaporate
    <2>2. QED
      BY <1>4, <2>1 DEF Evaporate, Inv
  <1>5. QED
    BY <1>2, <1>3, <1>4

LEMMA StepInv ==
    ASSUME Inv, [Next]_vars
    PROVE  Inv'
  <1>1. CASE \E c \in Clients :
                Request(c) \/ Save(c) \/ Answer(c) \/ RequestFails(c)
    BY <1>1, RequestInv, FinishInv
  <1>2. CASE Tick
    BY <1>2, TickInv
  <1>3. CASE TickFails \/ Restart \/ Evaporate
    BY <1>3, LossInv
  <1>4. CASE UNCHANGED vars
    BY <1>4 DEF vars, Inv
  <1>5. QED
    BY <1>1, <1>2, <1>3, <1>4 DEF Next

\* The microphone, the floor and the challenge of a document agree, in Redis
\* and in flight, however requests, clock, failures and expiry interleave.
THEOREM LiveTableInvariant == Spec => []LiveInv
  <1>1. QED
    BY StepInv, InitInv, InvImplies, PTL DEF Spec

\* Somebody may speak exactly when a seat has the floor, and it is the seat in
\* turn (set_phase, start_turn, mute_all, tick).
THEOREM FloorAlwaysConsistent == Spec => []FloorIsConsistent
  <1>1. LiveInv => FloorIsConsistent
    BY DEF LiveInv
  <1>2. QED
    BY <1>1, LiveTableInvariant, PTL

\* An open challenge is one of the player in turn (declare_challenge against
\* start_turn).
THEOREM ChallengeAlwaysOfThisTurn == Spec => []ChallengeOfThisTurn
  <1>1. LiveInv => ChallengeOfThisTurn
    BY DEF LiveInv
  <1>2. QED
    BY <1>1, LiveTableInvariant, PTL

\* Redis and the requests in flight only ever hold documents of the schema
\* (LiveState), with the clock at zero or above.
THEOREM DocumentsAreTyped == Spec => []TypeOK
  <1>1. LiveInv => TypeOK
    BY DEF LiveInv
  <1>2. QED
    BY <1>1, LiveTableInvariant, PTL

-----------------------------------------------------------------------------
(* The watch over running timers (LiveClock).                              *)

\* The loop watches the table, a request is about to make it, or there is an
\* excuse.
Watched ==
    \/ hot = TRUE
    \/ unwatched = TRUE
    \/ \E d \in Clients : req[d].pc = "saved" /\ req[d].marksHot = TRUE

\* A running document is watched, wherever it is; one that a request is about to
\* store may also be watched by that request.
WatchInv ==
    /\ unwatched \in BOOLEAN
    /\ live.running = TRUE => Watched
    /\ \A c \in Clients :
          req[c].pc = "save" /\ req[c].table.running = TRUE
              => Watched \/ req[c].marksHot = TRUE
    /\ loop.pc # "sleep" => hot = TRUE

\* An endpoint computes a running document only from a running one, or marks the
\* table hot.
LEMMA RequestStartsHot ==
    ASSUME Inv, NEW c \in Clients, Request(c)
    PROVE  \E next \in Tables, marksHot \in BOOLEAN :
              /\ Computes(c, next, marksHot)
              /\ next.running = TRUE => live.running = TRUE \/ marksHot = TRUE
  <1>0. DocumentOK(live) /\ live \in Tables
    BY DEF Inv, DocumentOK
  <1>1. ASSUME NEW phase \in Moves, SetPhase(c, phase)
        PROVE  /\ PhaseSet(live, phase) \in Tables
               /\ PhaseSet(live, phase).running = TRUE => live.running = TRUE
    <2>1. PhaseSet(live, phase) \in Tables
      BY <1>0, PhaseSetOK, MovesArePhases DEF DocumentOK
    <2>2. PhaseSet(live, phase).running \in {live.running, FALSE}
      BY <1>0 DEF PhaseSet, Tables
    <2>3. QED
      BY <2>1, <2>2
  <1>2. ASSUME NEW n \in Seats
        PROVE  TurnStarted(live, n) \in Tables
    BY <1>0, TurnStartedOK DEF DocumentOK
  <1>3. ASSUME NEW running \in BOOLEAN
        PROVE  /\ [live EXCEPT !.running = running] \in Tables
               /\ [live EXCEPT !.running = running].running = running
    BY <1>0 DEF Tables
  <1>4. ASSUME NEW delta \in Deltas, AdjustTime(c, delta)
        PROVE  /\ TimeAdjusted(live, delta) \in Tables
               /\ TimeAdjusted(live, delta).running = live.running
    <2>1. TimeAdjusted(live, delta) \in Tables
      BY <1>0, <1>4, TimeAdjustedOK, DeltasAreIntegers DEF AdjustTime, DocumentOK
    <2>2. QED
      BY <1>0, <2>1 DEF TimeAdjusted, Tables
  <1>5. AllMuted(live) \in Tables /\ AllMuted(live).running = FALSE
    <2>1. AllMuted(live) \in Tables
      BY <1>0, AllMutedOK DEF DocumentOK
    <2>2. QED
      BY <1>0, <2>1 DEF AllMuted, Tables
  <1>6. ASSUME NEW n \in Seats, NEW target \in Targets, live.speaker = n
        PROVE  /\ [live EXCEPT !.challenge = [challenger |-> n, target |-> target]]
                     \in Tables
               /\ [live EXCEPT !.challenge = [challenger |-> n, target |-> target]].running
                     = live.running
    BY <1>0, <1>6, TargetsAreSeats DEF Tables
  <1>7. ASSUME NEW n \in Seats, NEW target \in Targets
        PROVE  /\ [live EXCEPT !.votes[n] = target] \in Tables
               /\ [live EXCEPT !.votes[n] = target].running = live.running
    <2>1. [live EXCEPT !.votes[n] = target] \in Tables
      BY <1>0, VotedOK, TargetsAreSeats DEF DocumentOK
    <2>2. QED
      BY <1>0, <2>1 DEF Tables
  <1>8. CASE \E phase \in Moves : SetPhase(c, phase)
    BY <1>8, <1>1 DEF SetPhase
  <1>9. CASE \E n \in Seats : StartTurn(c, n)
    BY <1>9, <1>2 DEF StartTurn
  <1>10. CASE \E running \in BOOLEAN : SetTimer(c, running)
    BY <1>10, <1>3 DEF SetTimer
  <1>11. CASE \E delta \in Deltas : AdjustTime(c, delta)
    BY <1>11, <1>4 DEF AdjustTime
  <1>12. CASE MuteAll(c)
    BY <1>12, <1>5 DEF MuteAll
  <1>13. CASE \E n \in Seats, target \in Targets : DeclareChallenge(c, n, target)
    BY <1>13, <1>6 DEF DeclareChallenge
  <1>14. CASE \E n \in Seats, target \in Targets : CastVote(c, n, target)
    BY <1>14, <1>7 DEF CastVote
  <1>15. QED
    BY <1>8, <1>9, <1>10, <1>11, <1>12, <1>13, <1>14 DEF Request

\* The history variable: set by a reason, kept until the table is marked hot.
LEMMA UnwatchedStep ==
    ASSUME hot \in BOOLEAN, hot' \in BOOLEAN, unwatched \in BOOLEAN, ClockNext
    PROVE  /\ unwatched' \in BOOLEAN
           /\ Reason => unwatched' = TRUE
           /\ unwatched = TRUE => unwatched' = TRUE \/ hot' = TRUE
  <1>1. unwatched' = (Reason \/ (unwatched /\ ~(hot' /\ ~hot)))
    BY DEF ClockNext
  <1>2. QED
    BY <1>1

\* If hot stays, or is set, and no request that would mark the table is lost,
\* whatever was watched is.
LEMMA WatchKept ==
    ASSUME hot = TRUE => hot' = TRUE,
           unwatched = TRUE => unwatched' = TRUE \/ hot' = TRUE,
           \A d \in Clients : req[d].pc = "saved" /\ req[d].marksHot = TRUE =>
              \/ req'[d].pc = "saved" /\ req'[d].marksHot = TRUE
              \/ hot' = TRUE \/ unwatched' = TRUE
    PROVE  Watched => Watched'
  BY DEF Watched

LEMMA WatchRequest ==
    ASSUME Inv, Inv', WatchInv, ClockNext, NEW c \in Clients, Request(c)
    PROVE  WatchInv'
  <1>1. PICK next \in Tables, marksHot \in BOOLEAN :
              /\ Computes(c, next, marksHot)
              /\ next.running = TRUE => live.running = TRUE \/ marksHot = TRUE
    BY RequestStartsHot
  <1>2. /\ UNCHANGED <<live, loop, hot>>
        /\ req[c].pc = "idle"
        /\ req'[c].pc = "save" /\ req'[c].table = next /\ req'[c].marksHot = marksHot
        /\ \A d \in Clients \ {c} : req'[d] = req[d]
    BY <1>1 DEF Computes, Inv, Idle
  <1>3. unwatched' \in BOOLEAN /\ (unwatched = TRUE => unwatched' = TRUE \/ hot' = TRUE)
    BY <1>2, UnwatchedStep DEF Inv, WatchInv
  <1>4. Watched => Watched'
    BY <1>2, <1>3, WatchKept
  <1>5. QED
    BY <1>1, <1>2, <1>3, <1>4 DEF WatchInv

LEMMA WatchFinish ==
    ASSUME Inv, Inv', WatchInv, ClockNext, NEW c \in Clients,
           Save(c) \/ Answer(c) \/ RequestFails(c)
    PROVE  WatchInv'
  <1>0. /\ unwatched' \in BOOLEAN
        /\ Reason => unwatched' = TRUE
        /\ unwatched = TRUE => unwatched' = TRUE \/ hot' = TRUE
    BY UnwatchedStep DEF Inv, WatchInv
  <1>1. hot \in BOOLEAN /\ req[c].marksHot \in BOOLEAN /\ UNCHANGED loop
    BY DEF Inv, Save, Answer, RequestFails
  <1>2. CASE Save(c)
    <2>1. /\ live' = Stored(req[c].table) /\ req[c].pc = "save" /\ hot' = hot
          /\ req'[c].pc = "saved" /\ req'[c].marksHot = req[c].marksHot
          /\ \A d \in Clients \ {c} : req'[d] = req[d]
      BY <1>2 DEF Save, Inv
    <2>2. live'.running = req[c].table.running
      <3>1. req[c].table \in Tables
        BY DEF Inv
      <3>2. QED
        BY <2>1, <3>1 DEF Stored, Tables
    <2>3. Watched => Watched'
      BY <1>0, <2>1, WatchKept
    <2>4. req'[c].marksHot = TRUE => Watched'
      BY <2>1 DEF Watched
    <2>5. QED
      BY <1>0, <1>1, <2>1, <2>2, <2>3, <2>4 DEF WatchInv
  <1>3. CASE Answer(c) \/ RequestFails(c)
    <2>1. /\ UNCHANGED live
          /\ req'[c] = Idle /\ req'[c].pc = "idle"
          /\ \A d \in Clients \ {c} : req'[d] = req[d]
      BY <1>3 DEF Answer, RequestFails, Inv, Idle
    <2>2. hot = TRUE => hot' = TRUE
      BY <1>1, <1>3 DEF Answer, RequestFails
    <2>3. req[c].pc = "saved" /\ req[c].marksHot = TRUE =>
             hot' = TRUE \/ unwatched' = TRUE
      <3>1. SUFFICES ASSUME req[c].pc = "saved", req[c].marksHot = TRUE, hot' # TRUE
                     PROVE  unwatched' = TRUE
        OBVIOUS
      <3>2. hot' = FALSE
        BY <3>1 DEF Inv
      <3>3. Reason
        BY <2>1, <3>1, <3>2 DEF Reason
      <3>4. QED
        BY <1>0, <3>3
    <2>4. Watched => Watched'
      BY <1>0, <2>1, <2>2, <2>3, WatchKept
    <2>5. QED
      BY <1>0, <1>1, <2>1, <2>2, <2>4 DEF WatchInv
  <1>4. QED
    BY <1>2, <1>3

\* The loop reads, stores, and lets go only of a table at rest, or with a reason.
LEMMA WatchTick ==
    ASSUME Inv, Inv', WatchInv, ClockNext, Tick \/ TickFails
    PROVE  WatchInv'
  <1>0. /\ unwatched' \in BOOLEAN
        /\ Reason => unwatched' = TRUE
        /\ unwatched = TRUE => unwatched' = TRUE \/ hot' = TRUE
    BY UnwatchedStep DEF Inv, WatchInv
  <1>1. UNCHANGED req /\ hot \in BOOLEAN /\ hot' \in BOOLEAN
    BY DEF Inv, Tick, TickRead, TickSave, TickEnd, TickFails
  <1>2. CASE TickRead \/ TickSave
    <2>1. hot = TRUE /\ hot' = TRUE
      BY <1>1, <1>2 DEF TickRead, TickSave, WatchInv
    <2>2. QED
      BY <1>0, <2>1 DEF WatchInv, Watched
  <1>3. CASE TickEnd \/ TickFails
    <2>1. UNCHANGED live /\ loop'.pc = "sleep"
      BY <1>3 DEF TickEnd, TickFails, Sleeping
    <2>2. CASE hot' = hot
      <3>1. Watched => Watched'
        BY <1>0, <1>1, <2>2, WatchKept
      <3>2. QED
        BY <1>0, <1>1, <2>1, <2>2, <3>1 DEF WatchInv
    <2>3. CASE hot' # hot
      <3>1. hot = TRUE /\ hot' = FALSE
        BY <1>1, <1>3, <2>3 DEF TickEnd, TickFails
      <3>2. CASE Reason
        BY <1>0, <2>1, <3>2 DEF WatchInv, Watched
      <3>3. CASE ~Reason
        <4>1. live.running # TRUE /\ \A c \in Clients : req[c] = Idle
          BY <3>1, <3>3 DEF Reason
        <4>2. \A c \in Clients : req'[c].pc # "save"
          BY <1>1, <4>1 DEF Idle
        <4>3. QED
          BY <1>0, <2>1, <4>1, <4>2 DEF WatchInv
      <3>4. QED
        BY <3>2, <3>3
    <2>4. QED
      BY <2>2, <2>3
  <1>4. QED
    BY <1>2, <1>3 DEF Tick

LEMMA WatchLoss ==
    ASSUME Inv, Inv', WatchInv, ClockNext, Restart \/ Evaporate
    PROVE  WatchInv'
  <1>0. /\ unwatched' \in BOOLEAN
        /\ Reason => unwatched' = TRUE
        /\ unwatched = TRUE => unwatched' = TRUE \/ hot' = TRUE
    BY UnwatchedStep DEF Inv, WatchInv
  <1>1. \A c \in Clients : req'[c] = Idle /\ req'[c].pc = "idle"
    <2>1. req' = [c \in Clients |-> Idle]
      BY DEF Restart, Evaporate
    <2>2. Idle.pc = "idle"
      BY DEF Idle
    <2>3. QED
      BY <2>1, <2>2
  <1>2. loop'.pc = "sleep"
    BY DEF Restart, Evaporate, Sleeping
  <1>3. CASE Evaporate
    <2>1. live'.running = FALSE
      BY <1>3 DEF Evaporate, FreshTable
    <2>2. QED
      BY <1>0, <1>1, <1>2, <2>1 DEF WatchInv
  <1>4. CASE Restart
    <2>1. UNCHANGED live /\ hot' = FALSE
      BY <1>4 DEF Restart
    <2>2. live.running = TRUE => unwatched' = TRUE
      <3>1. SUFFICES ASSUME live.running = TRUE
                     PROVE  unwatched' = TRUE
        OBVIOUS
      <3>2. Watched
        BY <3>1 DEF WatchInv
      <3>3. CASE hot = TRUE
        BY <1>0, <2>1, <3>1, <3>3 DEF Reason
      <3>4. CASE unwatched = TRUE
        BY <1>0, <2>1, <3>4
      <3>5. CASE \E d \in Clients : req[d].pc = "saved" /\ req[d].marksHot = TRUE
        BY <1>0, <1>1, <2>1, <3>5 DEF Reason
      <3>6. QED
        BY <3>2, <3>3, <3>4, <3>5 DEF Watched
    <2>3. QED
      BY <1>0, <1>1, <1>2, <2>1, <2>2 DEF WatchInv, Watched
  <1>5. QED
    BY <1>3, <1>4

\* At rest a running timer is watched, unless the loop, a failure or a restart
\* dropped its table (realtime.py's hot_games against the document in Redis), for
\* any number of requests that overlap.
THEOREM RunningTimersAreWatched == ClockSpec => []TimersStopOnlyForAReason
  <1>1. ClockInit => Inv /\ WatchInv
    <2>1. ClockInit => Inv
      BY InitInv DEF ClockInit
    <2>2. ASSUME ClockInit
          PROVE  WatchInv
      <3>1. live.running = FALSE /\ loop.pc = "sleep" /\ unwatched = FALSE
        BY <2>2 DEF ClockInit, Init, FreshTable, Sleeping
      <3>2. \A c \in Clients : req[c].pc = "idle"
        BY <2>2 DEF ClockInit, Init, Idle
      <3>3. QED
        BY <3>1, <3>2 DEF WatchInv
    <2>3. QED
      BY <2>1, <2>2
  <1>2. ASSUME Inv, WatchInv, [ClockNext]_<<vars, unwatched>>
        PROVE  Inv' /\ WatchInv'
    <2>1. Inv'
      BY <1>2, StepInv DEF ClockNext
    <2>2. CASE ClockNext
      <3>1. Next
        BY <2>2 DEF ClockNext
      <3>2. QED
        BY <1>2, <2>1, <2>2, <3>1, WatchRequest, WatchFinish, WatchTick, WatchLoss
        DEF Next
    <2>3. CASE UNCHANGED <<vars, unwatched>>
      <3>1. UNCHANGED <<live, req, loop, hot, unwatched>>
        BY <2>3 DEF vars
      <3>2. Watched' = Watched
        BY <3>1 DEF Watched
      <3>3. QED
        BY <1>2, <2>1, <3>1, <3>2 DEF WatchInv
    <2>4. QED
      BY <1>2, <2>1, <2>2, <2>3
  <1>3. Inv /\ WatchInv => TimersStopOnlyForAReason
    <2> SUFFICES ASSUME Inv, WatchInv, \A c \in Clients : req[c] = Idle, live.running
                 PROVE  hot \/ unwatched
      BY DEF TimersStopOnlyForAReason
    <2>1. live.running = TRUE
      BY DEF Inv, DocumentOK, Tables
    <2>2. ~ \E d \in Clients : req[d].pc = "saved"
      BY DEF Idle
    <2>3. QED
      BY <2>1, <2>2 DEF WatchInv, Watched
  <1>4. QED
    BY <1>1, <1>2, <1>3, PTL DEF ClockSpec

=============================================================================
