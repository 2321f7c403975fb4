------------------------------ MODULE LiveTable -----------------------------
(***************************************************************************)
(* The live state of one online table: the Mini App's MiniAppService,      *)
(* LiveStateStore, routes and timer loop.                                  *)
(*                                                                         *)
(* The live state is one JSON document in Redis.  Every endpoint, and the  *)
(* clock, GETs the document, computes a new one and SETs the whole of it,  *)
(* with nothing to stop another request in between: the GET (with the pure *)
(* computation on what it returned) and the SET are two actions.  What     *)
(* follows the SET's reply (marking the table hot, publishing              *)
(* "invalidate", answering) is a third, in which only the hot flag is      *)
(* state of this module.                                                   *)
(*                                                                         *)
(* The clock is one task of the one server process; hot is the table's     *)
(* membership of that process's hot_games.  The table's numbered players   *)
(* (Seats) are the same throughout: elimination is not in this module.     *)
(***************************************************************************)
EXTENDS Integers

CONSTANTS
    Seats,            \* seat numbers of the table's players
    NoSeat,           \* "no seat" (None)
    Clients,          \* HTTP requests in flight at the same time
    Moves,            \* the phases the creator moves the table to
    Targets,          \* the seats players name in challenges and votes
    Deltas,           \* the seconds the creator adds or removes
    SpeakingSeconds,  \* speaking_seconds of the configuration
    MaxSeconds,       \* bound on the clock, whatever the creator adds
    MaxVersion,       \* versions are counted up to here (0: left out)
    MayFail           \* does a Redis call fail, or the process restart?

Phases == {"lobby", "day", "night", "voting", "defense", "results", "finished"}

ASSUME NoSeatIsNotASeat == NoSeat \notin Seats
ASSUME TargetsAreSeats == Targets \subseteq Seats
ASSUME MovesArePhases == Moves \subseteq Phases
ASSUME DeltasAreIntegers == Deltas \subseteq Int
ASSUME SpeakingSecondsPositive ==
    MaxSeconds \in Nat /\ SpeakingSeconds \in 1..MaxSeconds
ASSUME MaxVersionNat == MaxVersion \in Nat
ASSUME MayFailBoolean == MayFail \in BOOLEAN

VARIABLES
    live,     \* the document in Redis (FreshTable when the key is absent)
    req,      \* per client, its request between the GET and the answer
    loop,     \* the timer loop's tick of this table
    hot       \* is the table in hub.hot_games?

vars == <<live, req, loop, hot>>

-----------------------------------------------------------------------------
(* The document and the pure functions of MiniAppService on it.            *)

NoChallenge == [challenger |-> NoSeat, target |-> NoSeat]
NoVotes == [n \in Seats |-> NoSeat]

Tables ==
    [phase : Phases,
     turn : Seats \cup {NoSeat},
     speaker : Seats \cup {NoSeat},
     muted : BOOLEAN,
     seconds : 0..MaxSeconds,
     running : BOOLEAN,
     challenge : [challenger : Seats \cup {NoSeat}, target : Seats \cup {NoSeat}],
     votes : [Seats -> Seats \cup {NoSeat}],
     version : 0..MaxVersion]

FreshTable ==
    [phase |-> "lobby", turn |-> NoSeat, speaker |-> NoSeat, muted |-> TRUE,
     seconds |-> 0, running |-> FALSE, challenge |-> NoChallenge,
     votes |-> NoVotes, version |-> 0]

PhaseSet(t, phase) ==
    IF phase = "voting"
    THEN [t EXCEPT !.phase = phase, !.challenge = NoChallenge, !.votes = NoVotes,
                   !.muted = TRUE, !.speaker = NoSeat, !.running = FALSE]
    ELSE [t EXCEPT !.phase = phase, !.challenge = NoChallenge,
                   !.seconds = IF phase \in {"day", "defense"}
                               THEN SpeakingSeconds ELSE @]

\* Mutant: the challenge of the turn before stays open.
TurnStarted_KeepsChallenge(t, n) ==
    [t EXCEPT !.speaker = n, !.turn = n, !.seconds = SpeakingSeconds,
              !.running = TRUE, !.muted = FALSE]

TurnStarted(t, n) ==
    [t EXCEPT !.speaker = n, !.turn = n, !.seconds = SpeakingSeconds,
              !.running = TRUE, !.muted = FALSE, !.challenge = NoChallenge]

\* Mutant: removing more time than is left.
TimeAdjusted_Unclamped(t, delta) == [t EXCEPT !.seconds = @ + delta]

TimeAdjusted(t, delta) ==
    [t EXCEPT !.seconds = IF @ + delta > 0 THEN @ + delta ELSE 0]

\* Mutant: everyone is muted, but the speaker is still on record.
AllMuted_SpeakerKept(t) == [t EXCEPT !.muted = TRUE, !.running = FALSE]

AllMuted(t) ==
    [t EXCEPT !.muted = TRUE, !.speaker = NoSeat, !.running = FALSE]

\* tick: a running timer that is not at zero goes down by one second, and
\* the turn ends when it gets there.
Expires(t) == t.running /\ t.seconds = 1

Ticked(t) ==
    IF Expires(t)
    THEN [t EXCEPT !.seconds = 0, !.running = FALSE,
                   !.muted = TRUE, !.speaker = NoSeat]
    ELSE IF t.running /\ t.seconds > 0
         THEN [t EXCEPT !.seconds = @ - 1]
         ELSE t

\* LiveStateStore.save bumps the version of the document it was given.
Stored(t) ==
    [t EXCEPT !.version = IF @ < MaxVersion THEN @ + 1 ELSE @]

-----------------------------------------------------------------------------

Idle == [pc |-> "idle", table |-> FreshTable, marksHot |-> FALSE]
Sleeping == [pc |-> "sleep", table |-> FreshTable, saves |-> FALSE, keeps |-> FALSE]

TypeOK ==
    /\ live \in Tables
    /\ req \in [Clients -> [pc : {"idle", "save", "saved"},
                            table : Tables, marksHot : BOOLEAN]]
    /\ loop \in [pc : {"sleep", "ticked", "saved"}, table : Tables,
                 saves : BOOLEAN, keeps : BOOLEAN]
    /\ hot \in BOOLEAN

Init ==
    /\ live = FreshTable
    /\ req = [c \in Clients |-> Idle]
    /\ loop = Sleeping
    /\ hot = FALSE

-----------------------------------------------------------------------------
(* The endpoints, up to the answer of their GET.                           *)

Computes(c, next, marksHot) ==
    /\ req[c] = Idle
    /\ req' = [req EXCEPT ![c] =
                  [pc |-> "save", table |-> next, marksHot |-> marksHot]]
    /\ UNCHANGED <<live, loop, hot>>

SetPhase(c, phase) == Computes(c, PhaseSet(live, phase), FALSE)

StartTurn(c, n) == Computes(c, TurnStarted(live, n), TRUE)

\* Mutant: a resumed timer does not mark the table hot.
SetTimer_Cold(c, running) ==
    Computes(c, [live EXCEPT !.running = running], FALSE)

SetTimer(c, running) ==
    Computes(c, [live EXCEPT !.running = running], running)

AdjustTime(c, delta) ==
    /\ live.seconds + delta <= MaxSeconds
    /\ Computes(c, TimeAdjusted(live, delta), FALSE)

MuteAll(c) == Computes(c, AllMuted(live), FALSE)

\* declare_challenge: the speaker only, once per turn.
DeclareChallenge(c, n, target) ==
    /\ live.speaker = n
    /\ live.challenge = NoChallenge
    /\ Computes(c, [live EXCEPT !.challenge =
                       [challenger |-> n, target |-> target]], FALSE)

CastVote(c, n, target) ==
    /\ live.phase = "voting"
    /\ Computes(c, [live EXCEPT !.votes[n] = target], FALSE)

(* The rest of the request: the SET, then what follows its reply. *)
Save(c) ==
    /\ req[c].pc = "save"
    /\ live' = Stored(req[c].table)
    /\ req' = [req EXCEPT ![c].pc = "saved", ![c].table = FreshTable]
    /\ UNCHANGED <<loop, hot>>

Answer(c) ==
    /\ req[c].pc = "saved"
    /\ hot' = (hot \/ req[c].marksHot)
    /\ req' = [req EXCEPT ![c] = Idle]
    /\ UNCHANGED <<live, loop>>

-----------------------------------------------------------------------------
(* The timer loop: once per second, for a hot table.                       *)

\* Mutant: only the last tick is saved.
TickSaves_OnlyExpiry(t) == Expires(t)

\* Saved if the timer is running afterwards or has just expired.
TickSaves(t) == Ticked(t).running \/ Expires(t)

\* The table stays hot while its timer runs.
StaysHot(t) == t.running

TickRead ==
    /\ loop = Sleeping
    /\ hot
    /\ loop' = [pc |-> "ticked", table |-> Ticked(live),
                saves |-> TickSaves(live), keeps |-> StaysHot(Ticked(live))]
    /\ UNCHANGED <<live, req, hot>>

TickSave ==
    /\ loop.pc = "ticked"
    /\ loop.saves
    /\ live' = Stored(loop.table)
    /\ loop' = [loop EXCEPT !.pc = "saved", !.table = FreshTable]
    /\ UNCHANGED <<req, hot>>

\* A table whose timer is not running (as of the GET) is dropped.
TickEnd ==
    /\ loop.pc = "saved" \/ (loop.pc = "ticked" /\ ~loop.saves)
    /\ hot' = (hot /\ loop.keeps)
    /\ loop' = Sleeping
    /\ UNCHANGED <<live, req>>

-----------------------------------------------------------------------------
(* What goes wrong, and what goes away.                                    *)

\* A Redis call of the loop fails: the exception handler drops the table.
TickFails ==
    /\ MayFail
    /\ hot \/ loop # Sleeping
    /\ hot' = FALSE
    /\ loop' = Sleeping
    /\ UNCHANGED <<live, req>>

\* A Redis call of a request fails: the client gets an error.
RequestFails(c) ==
    /\ MayFail
    /\ req[c] # Idle
    /\ req' = [req EXCEPT ![c] = Idle]
    /\ UNCHANGED <<live, loop, hot>>

\* The process restarts: only Redis survives.
Restart ==
    /\ MayFail
    /\ req' = [c \in Clients |-> Idle]
    /\ loop' = Sleeping
    /\ hot' = FALSE
    /\ UNCHANGED live

\* Nothing was written for twelve hours, so no request and no tick is left:
\* Redis drops the key.
Evaporate ==
    /\ req = [c \in Clients |-> Idle]
    /\ loop = Sleeping
    /\ ~hot
    /\ live # FreshTable
    /\ live' = FreshTable
    /\ UNCHANGED <<req, loop, hot>>

Request(c) ==
    \/ \E phase \in Moves : SetPhase(c, phase)
    \/ \E n \in Seats : StartTurn(c, n)
    \/ \E running \in BOOLEAN : SetTimer(c, running)
    \/ \E delta \in Deltas : AdjustTime(c, delta)
    \/ MuteAll(c)
    \/ \E n \in Seats, target \in Targets :
          DeclareChallenge(c, n, target) \/ CastVote(c, n, target)

Tick == TickRead \/ TickSave \/ TickEnd

Next ==
    \/ \E c \in Clients : Request(c) \/ Save(c) \/ Answer(c) \/ RequestFails(c)
    \/ Tick
    \/ TickFails
    \/ Restart
    \/ Evaporate

Spec == Init /\ [][Next]_vars

\* The event loop runs the timer task every second and finishes the requests
\* it has begun; Redis expires the keys that nobody writes.
Fairness ==
    /\ WF_vars(Tick)
    /\ \A c \in Clients : WF_vars(Save(c)) /\ WF_vars(Answer(c))
    /\ WF_vars(Evaporate)

FairSpec == Spec /\ Fairness

-----------------------------------------------------------------------------
(* Safety.                                                                 *)

\* The microphone and the floor agree in one document: somebody may speak
\* exactly when a seat has the floor, and that seat is the one in turn.
FloorOK(t) ==
    /\ t.muted <=> t.speaker = NoSeat
    /\ t.speaker \in {NoSeat, t.turn}

\* A challenge is the challenge of the player in turn, never of an earlier one.
ChallengeOK(t) ==
    t.challenge # NoChallenge =>
        t.turn # NoSeat /\ t.challenge.challenger = t.turn

\* The stored document and those on their way to Redis (a request that has
\* none of its own holds a fresh one).
Documents == {live, loop.table} \cup {req[c].table : c \in Clients}

\* However the clock's and the players' read-modify-write cycles overlap, no
\* document mixes two moments of the game: each overwrites the whole of it.
FloorIsConsistent == \A t \in Documents : FloorOK(t)

\* Likewise of the open challenge: a challenge that raced the end of its turn
\* is never found open in another player's turn.
ChallengeOfThisTurn == \A t \in Documents : ChallengeOK(t)

\* Inductive (LiveTableProofs)
LiveInv == TypeOK /\ FloorIsConsistent /\ ChallengeOfThisTurn

-----------------------------------------------------------------------------
(* Progress.                                                               *)

Quiet == \A c \in Clients : req[c] = Idle

\* "keyed per game, with a TTL so abandoned tables self-clean" (live_state.py):
\* once the players put their phones down, the loop stops watching the table and
\* Redis is rid of it, whatever fails in between, unless its timer was left
\* running at zero: the loop saves such a document every second for ever.
LeftRunningAtZero == hot /\ live.running /\ live.seconds = 0

AbandonedTablesEvaporate ==
    (<>[]Quiet) => <>[]((live = FreshTable /\ ~hot) \/ LeftRunningAtZero)

-----------------------------------------------------------------------------
(* What the documentation says.                                            *)

\* "Monotonic version so clients can detect/skip stale updates" (live_state.py):
\* two different documents never carry the same version, and none goes back.  Two
\* writers that read the same document break it, and with it the effect of the
\* first: a vote is gone, a second challenge of the turn accepted, a phase undone
\* by the clock.
VersionIsMonotonic ==
    [][live' \notin {live, FreshTable} => live'.version > live.version]_vars

=============================================================================
