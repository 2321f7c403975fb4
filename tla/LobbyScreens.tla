----------------------------- MODULE LobbyScreens ----------------------------
(***************************************************************************)
(* What the players of a MANUAL lobby see: the handlers of join_game.py,   *)
(* LiveGameSyncService and the live broadcaster, over the rows of the      *)
(* lobby.  LobbyService's operations take the game row's lock first and    *)
(* the middleware commits after the handler has returned, so the handler   *)
(* that holds the lock (turn) edits everybody's messages while its own     *)
(* changes are still its own: next is the table as it sees it, db the      *)
(* committed one.  The refresh button (peek) takes no lock.                *)
(*                                                                         *)
(* A message shows one screen; the row's lobby_message_id (live) names the *)
(* message a broadcast edits.  excused and undone are history variables:   *)
(* has u's live screen been overtaken, or an edit of it failed, since it   *)
(* was last right; has u been shown something that the rows never said (a  *)
(* handler failed after showing its effect), or been refused a screen by a *)
(* refresh that came before the commit of the join?                        *)
(***************************************************************************)
EXTENDS Integers, FiniteSets

CONSTANTS
    Users,          \* users who may join
    Roles,          \* roles in the pool, one slot each
    CustomRoles,    \* those of them that are custom roles
    NoRole,         \* no role_assignments row
    NoUser,         \* nobody
    PlayerCount,    \* games.player_count
    MaxJoinOrder,   \* bound on the join orders handed out
    MaxMessages,    \* bound on the messages sent to one player
    MaxPeeks,       \* bound on the refreshes
    MaxFailures     \* bound on the edits, answers and commits that fail

ASSUME UsersFinite == IsFiniteSet(Users)
ASSUME CustomRolesAreRoles == CustomRoles \subseteq Roles
ASSUME NobodyIsNoUser == NoUser \notin Users /\ NoRole \notin Roles
ASSUME PlayerCountPositive == PlayerCount \in Nat \ {0}
ASSUME BoundsAreNat ==
    {PlayerCount, MaxJoinOrder, MaxMessages, MaxPeeks, MaxFailures} \subseteq Nat

VARIABLES
    db,        \* the committed rows
    live,      \* game_players.lobby_message_id, 0 if NULL
    screen,    \* per user and message: what it shows
    turn,      \* the handler that holds the game's lock
    peek,      \* per user: a refresh between its queries and its commit
    excused,   \* per user: see above
    undone,    \* per user: see above
    peeks,     \* refreshes so far
    failures   \* calls that have failed so far

vars == <<db, live, screen, turn, peek, excused, undone, peeks, failures>>

-----------------------------------------------------------------------------
(* The rows.                                                               *)

Seats == 1..PlayerCount
Messages == 1..MaxMessages
Stages == {"NONE", "JOINED", "NUMBERED", "ASSIGNED", "LEFT"}

Tables ==
    [stage : [Users -> Stages], number : [Users -> 0..PlayerCount],
     order : [Users -> 0..MaxJoinOrder], role : [Users -> Roles \cup {NoRole}]]

EmptyTable ==
    [stage |-> [u \in Users |-> "NONE"], number |-> [u \in Users |-> 0],
     order |-> [u \in Users |-> 0], role |-> [u \in Users |-> NoRole]]

ActiveIn(t) == {u \in Users : t.stage[u] \in {"JOINED", "NUMBERED", "ASSIGNED"}}
AwaitingIn(t) == {u \in Users : t.stage[u] \in {"JOINED", "NUMBERED"}}
DealtIn(t) == {u \in Users : t.stage[u] = "ASSIGNED"}
FreeIn(t) == Seats \ {t.number[u] : u \in ActiveIn(t)}
PoolIn(t) == Roles \ {t.role[u] : u \in Users}

\* is_complete
Complete(t) == Cardinality(ActiveIn(t)) >= PlayerCount

\* current_turn_player: whoever has waited longest.
FirstInTurn(t) ==
    IF AwaitingIn(t) # {}
    THEN CHOOSE u \in AwaitingIn(t) :
            \A v \in AwaitingIn(t) : t.order[u] <= t.order[v]
    ELSE NoUser

\* get_turn_state: the player in turn, if the lobby is complete.
CurrentTurn(t) == IF Complete(t) THEN FirstInTurn(t) ELSE NoUser

\* The game's status: READY exactly when everybody is dealt (Lobby).
IsReady(t) == Cardinality(DealtIn(t)) = PlayerCount

Joined(t, u, k) ==
    [t EXCEPT !.stage[u] = "JOINED", !.number[u] = 0, !.order[u] = k]

Numbered(t, u, n) == [t EXCEPT !.stage[u] = "NUMBERED", !.number[u] = n]
Drawn(t, u, r) == [t EXCEPT !.stage[u] = "ASSIGNED", !.role[u] = r]
Departed(t, u) ==
    [t EXCEPT !.stage[u] = "LEFT", !.number[u] = 0, !.order[u] = 0, !.role[u] = NoRole]

-----------------------------------------------------------------------------
(* Screens: a kind, and the numbers or the role on it.                     *)

Kinds == {"unsent", "checking", "lobby", "notturn", "ping", "numbers",
          "getrole", "role", "left", "absent"}
Screens == [kind : Kinds, of : SUBSET (Nat \cup Roles \cup {NoRole})]
Screen(kind, of) == [kind |-> kind, of |-> of]
Unsent == Screen("unsent", {})

\* Mutant: the turn is looked at before the role.
ScreenFor_TurnFirst(t, u) ==
    IF t.stage[u] = "NONE" THEN Screen("absent", {})
    ELSE IF ~Complete(t) THEN Screen("lobby", {Cardinality(ActiveIn(t))})
    ELSE IF CurrentTurn(t) # u THEN Screen("notturn", {})
    ELSE IF t.number[u] = 0 THEN Screen("numbers", FreeIn(t))
    ELSE IF t.stage[u] = "NUMBERED" THEN Screen("getrole", {t.number[u]})
    ELSE Screen("role", {t.role[u]})

\* _render_turn_screen and _screen_for_player make the same decisions; one who
\* left is a player whose turn it is not, one without a row gets no buttons.
ScreenFor(t, u) ==
    IF t.stage[u] = "NONE" THEN Screen("absent", {})
    ELSE IF t.stage[u] = "ASSIGNED" THEN Screen("role", {t.role[u]})
    ELSE IF ~Complete(t) THEN Screen("lobby", {Cardinality(ActiveIn(t))})
    ELSE IF CurrentTurn(t) # u THEN Screen("notturn", {})
    ELSE IF t.number[u] = 0 THEN Screen("numbers", FreeIn(t))
    ELSE Screen("getrole", {t.number[u]})

\* Mutant: one who is told to wait for the others has nothing to refresh.
HasRefresh_NotWaiting(s) == s.kind \in {"lobby", "ping"}

\* The buttons under a screen.
HasRefresh(s) == s.kind \in {"lobby", "notturn", "ping"}
HasAssign(s) == s.kind = "getrole"
HasLeave(s) == s.kind \in {"lobby", "notturn", "ping", "getrole", "role"}
HasNumber(s, n) == s.kind = "numbers" /\ n \in s.of

-----------------------------------------------------------------------------

NoTurn == [pc |-> "free", op |-> "none", user |-> NoUser, message |-> 1,
           table |-> EmptyTable, edits |-> {}]
NoPeek == [pc |-> "none", message |-> 1, number |-> 0, shows |-> Unsent]

\* Where a refresh is between its statements, and what it has read so far.
PeekStates ==
    [pc : {"none", "role", "count", "turn", "numbers", "show", "commit"},
     message : Nat, number : 0..PlayerCount, shows : Screens]

\* The table as the lock's holder sees it, or else as it is.
next == IF turn.pc = "free" THEN db ELSE turn.table

\* The message a send_message to u makes.
NewMessage(u) ==
    CHOOSE m \in Messages :
        /\ screen[u][m] = Unsent
        /\ \A k \in Messages : screen[u][k] = Unsent => m <= k

CanSend(u) == \E m \in Messages : screen[u][m] = Unsent

TypeOK ==
    /\ db \in Tables
    /\ live \in [Users -> 0..MaxMessages]
    /\ screen \in [Users -> [Messages -> Screens]]
    /\ turn \in [pc : {"free", "act", "tell", "edit"},
                 op : {"none", "join", "pick", "refused", "assign", "leave"},
                 user : Users \cup {NoUser}, message : Nat,
                 table : Tables, edits : SUBSET (Users \X Messages)]
    /\ peek \in [Users -> PeekStates]
    /\ excused \in [Users -> BOOLEAN] /\ undone \in [Users -> BOOLEAN]
    /\ peeks \in 0..MaxPeeks /\ failures \in 0..MaxFailures

Init ==
    /\ db = EmptyTable
    /\ live = [u \in Users |-> 0]
    /\ screen = [u \in Users |-> [m \in Messages |-> Unsent]]
    /\ turn = NoTurn
    /\ peek = [u \in Users |-> NoPeek]
    /\ excused = [u \in Users |-> FALSE]
    /\ undone = [u \in Users |-> FALSE]
    /\ peeks = 0 /\ failures = 0

Shows(u, m, s) == screen' = [screen EXCEPT ![u][m] = s]

-----------------------------------------------------------------------------
(* The handler that holds the lock, call by call.                          *)

\* Has u's refresh a message to record that is not the recorded one?
Records(u) ==
    peek[u].shows.kind \notin {"role", "absent"} /\ peek[u].message # live[u]

\* It has written u's row, and not committed yet.
HoldsRow(u) ==
    \/ peek[u].pc = "commit"
    \/ peek[u].pc = "show" /\ peek[u].shows.kind = "numbers" /\ Records(u)

\* The service call: the rows change for this handler only.  A refresh of u's
\* that holds u's row is waited for.
Begins(op, u, m, t) ==
    /\ turn.pc = "free"
    /\ ~HoldsRow(u)
    /\ turn' = [pc |-> "act", op |-> op, user |-> u, message |-> m,
                table |-> t, edits |-> {}]
    /\ UNCHANGED <<db, live, peek, excused, undone, peeks, failures>>

\* on_code_entered: the lobby screen goes into a message of its own.
Join(u) ==
    /\ u \notin ActiveIn(db) /\ ~Complete(db) /\ CanSend(u)
    /\ \E k \in 1..MaxJoinOrder :
          /\ \A v \in Users : db.order[v] < k
          /\ k = 1 \/ \E v \in Users : db.order[v] = k - 1
          /\ Begins("join", u, NewMessage(u), Joined(db, u, k))
    /\ Shows(u, NewMessage(u), Screen("checking", {}))

\* Mutant: ensure_players_turn is not called.
MayPick_AnyTurn(u, n) ==
    /\ u \in AwaitingIn(db) /\ Complete(db)
    /\ db.number[u] = 0
    /\ n \in FreeIn(db)

MayPick(u, n) ==
    /\ CurrentTurn(db) = u
    /\ db.number[u] = 0
    /\ n \in FreeIn(db)

\* on_number_pick, with a number some message still offers: claimed, or refused.
PickNumber(u, m, n) ==
    /\ HasNumber(screen[u][m], n)
    /\ IF MayPick(u, n) THEN Begins("pick", u, m, Numbered(db, u, n))
                        ELSE db.role[u] \notin CustomRoles /\ Begins("refused", u, m, db)
    /\ UNCHANGED screen

\* on_assign_role; a refusal is an alert that changes nothing.
GetRole(u, m, r) ==
    /\ HasAssign(screen[u][m])
    /\ CurrentTurn(db) = u /\ db.number[u] # 0
    /\ r \in PoolIn(db)
    /\ Begins("assign", u, m, Drawn(db, u, r))
    /\ UNCHANGED screen

\* on_leave; the code in the FSM data is taken to be this game's.
Leave(u, m) ==
    /\ HasLeave(screen[u][m])
    /\ u \in ActiveIn(db)
    /\ Begins("leave", u, m, Departed(db, u))
    /\ UNCHANGED screen

\* The player's own message.
Act ==
    /\ turn.pc = "act"
    /\ Shows(turn.user, turn.message,
             IF turn.op = "leave" THEN Screen("left", {})
                                  ELSE ScreenFor(turn.table, turn.user))
    /\ turn' = [turn EXCEPT !.pc = "tell"]
    /\ undone' = [undone EXCEPT ![turn.user] = FALSE]
    /\ UNCHANGED <<db, live, peek, excused, peeks, failures>>

\* Mutant: only the players who have no seat yet are kept up to date.
Eligible_Unseated(t) == {u \in AwaitingIn(t) : t.number[u] = 0 /\ live[u] # 0}

\* list_awaiting_turn
Eligible(t) == {u \in AwaitingIn(t) : live[u] # 0}

\* _notify_next_player, after a draw or a departure (one it cannot reach is left
\* alone), and compute_sync_screens, which decides whose messages to edit.
Tell ==
    /\ turn.pc = "tell"
    /\ LET v == CurrentTurn(turn.table) IN
       IF turn.op \in {"assign", "leave"} /\ v # NoUser /\ CanSend(v)
       THEN Shows(v, NewMessage(v), Screen("ping", {}))
       ELSE UNCHANGED screen
    /\ turn' = [turn EXCEPT !.pc = "edit",
           !.edits = {<<v, live[v]>> : v \in Eligible(turn.table) \ {turn.user}}]
    /\ UNCHANGED <<db, live, peek, excused, undone, peeks, failures>>

\* broadcast_lobby_sync edits one message after the other ...
Edit(v, m) ==
    /\ turn.pc = "edit"
    /\ <<v, m>> \in turn.edits
    /\ Shows(v, m, ScreenFor(turn.table, v))
    /\ turn' = [turn EXCEPT !.edits = @ \ {<<v, m>>}]
    /\ excused' = [excused EXCEPT ![v] = @ /\ m # live[v]]
    /\ undone' = [undone EXCEPT ![v] = @ /\ m # live[v]]
    /\ UNCHANGED <<db, live, peek, peeks, failures>>

\* ... and passes over one that fails.
EditFails(v, m) ==
    /\ failures < MaxFailures /\ failures' = failures + 1
    /\ turn.pc = "edit"
    /\ <<v, m>> \in turn.edits
    /\ turn' = [turn EXCEPT !.edits = @ \ {<<v, m>>}]
    /\ excused' = [excused EXCEPT ![v] = TRUE]
    /\ UNCHANGED <<db, live, screen, peek, undone, peeks>>

\* record_lobby_message, clear_lobby_message; a player who turns out to have a
\* role keeps the message that was there.
Remembered ==
    [live EXCEPT ![turn.user] =
        IF turn.op \in {"assign", "leave"} THEN 0
        ELSE IF turn.table.stage[turn.user] = "ASSIGNED" THEN @
        ELSE turn.message]

Commit ==
    /\ turn.pc = "edit" /\ turn.edits = {}
    /\ db' = turn.table
    /\ live' = Remembered
    /\ excused' = [excused EXCEPT ![turn.user] =
                      screen[turn.user][turn.message] #
                          ScreenFor(turn.table, turn.user)]
    /\ turn' = NoTurn
    /\ UNCHANGED <<screen, peek, undone, peeks, failures>>

\* A call that is not guarded, or the commit, fails: everything is rolled back
\* but what Telegram shows.
Fail ==
    /\ failures < MaxFailures /\ failures' = failures + 1
    /\ turn.pc # "free"
    /\ excused' = [u \in Users |->
           \/ excused[u]
           \/ live[u] # 0 /\ screen[u][live[u]] # ScreenFor(db, u)]
    /\ undone' = [undone EXCEPT ![turn.user] = @ \/ turn.pc # "act"]
    /\ turn' = NoTurn
    /\ UNCHANGED <<db, live, screen, peek, peeks>>

-----------------------------------------------------------------------------
(* The refresh button.                                                     *)

\* on_check_turn makes its queries one after the other, each of the rows as they
\* are by then.  First the player's own row, whose number is kept ...
Peek(u, m) ==
    /\ peek[u] = NoPeek
    /\ peeks < MaxPeeks /\ peeks' = peeks + 1
    /\ HasRefresh(screen[u][m])
    /\ peek' = [peek EXCEPT ![u] =
           [pc |-> CASE db.stage[u] = "NONE" -> "show"
                     [] db.stage[u] = "ASSIGNED" -> "role"
                     [] OTHER -> "count",
            message |-> m, number |-> db.number[u],
            shows |-> IF db.stage[u] = "NONE" THEN Screen("absent", {}) ELSE Unsent]]
    /\ UNCHANGED <<db, live, screen, turn, excused, undone, failures>>

Reads(u) == UNCHANGED <<db, live, screen, turn, excused, undone, peeks, failures>>

WillShow(u, s) == peek' = [peek EXCEPT ![u].pc = "show", ![u].shows = s]

\* ... the role of one who was dealt: whoever lost it meanwhile is taken on as
\* one who waits, and with a custom role, which the catalog has not, it fails ...
PeekRole(u) ==
    /\ peek[u].pc = "role"
    /\ \/ db.role[u] \in CustomRoles /\ peek' = [peek EXCEPT ![u] = NoPeek]
       \/ db.role[u] = NoRole /\ peek' = [peek EXCEPT ![u].pc = "count"]
       \/ /\ db.role[u] \in Roles \ CustomRoles
          /\ WillShow(u, Screen("role", {db.role[u]}))
    /\ Reads(u)

\* ... how many there are ...
PeekCount(u) ==
    /\ peek[u].pc = "count"
    /\ IF Complete(db) THEN peek' = [peek EXCEPT ![u].pc = "turn"]
                       ELSE WillShow(u, Screen("lobby", {Cardinality(ActiveIn(db))}))
    /\ Reads(u)

\* ... whose turn it is ...
PeekTurn(u) ==
    /\ peek[u].pc = "turn"
    /\ IF FirstInTurn(db) # u THEN WillShow(u, Screen("notturn", {}))
       ELSE IF peek[u].number = 0 THEN peek' = [peek EXCEPT ![u].pc = "numbers"]
       ELSE WillShow(u, Screen("getrole", {peek[u].number}))
    /\ Reads(u)

\* ... and the numbers that are free, after the record, which waits for a
\* handler that has changed the row.
PeekNumbers(u) ==
    /\ peek[u].pc = "numbers"
    /\ ~(peek[u].message # live[u] /\ turn.user = u /\ turn.op # "refused")
    /\ WillShow(u, Screen("numbers", FreeIn(db)))
    /\ Reads(u)

\* The record, in the same way, where it was not made before, and the edit.
PeekShow(u) ==
    /\ peek[u].pc = "show"
    /\ ~(Records(u) /\ turn.user = u /\ turn.op # "refused")
    /\ Shows(u, peek[u].message, peek[u].shows)
    /\ peek' = [peek EXCEPT ![u].pc = "commit"]
    /\ excused' = [excused EXCEPT ![u] = @ \/ peek[u].shows # ScreenFor(next, u)]
    /\ undone' = [undone EXCEPT ![u] = @ \/ peek[u].shows.kind = "absent"]
    /\ UNCHANGED <<db, live, turn, peeks, failures>>

PeekCommit(u) ==
    /\ peek[u].pc = "commit"
    /\ live' = IF Records(u) THEN [live EXCEPT ![u] = peek[u].message] ELSE live
    /\ excused' = [excused EXCEPT ![u] =
                      @ \/ screen[u][peek[u].message] # ScreenFor(next, u)]
    /\ peek' = [peek EXCEPT ![u] = NoPeek]
    /\ UNCHANGED <<db, screen, turn, undone, peeks, failures>>

-----------------------------------------------------------------------------

Handler ==
    \/ Act \/ Tell \/ Commit
    \/ \E v \in Users, m \in Messages : Edit(v, m)

Next ==
    \/ \E u \in Users :
          \/ Join(u)
          \/ \E m \in Messages :
                \/ \E n \in Seats : PickNumber(u, m, n)
                \/ \E r \in Roles : GetRole(u, m, r)
                \/ Leave(u, m)
                \/ Peek(u, m)
                \/ EditFails(u, m)
          \/ PeekRole(u) \/ PeekCount(u) \/ PeekTurn(u) \/ PeekNumbers(u)
          \/ PeekShow(u) \/ PeekCommit(u)
    \/ Handler
    \/ Fail

Spec == Init /\ [][Next]_vars

-----------------------------------------------------------------------------
(* Properties.                                                             *)

Quiet(u) == turn.pc = "free" /\ peek[u] = NoPeek

\* "The other players ... must see those changes immediately, without tapping a
\* refresh button" (live_sync_service.py): every player who waits has a live
\* screen, and it shows what a refresh would, unless a refresh of the player's
\* own overtook it, the edit failed or a handler was rolled back under it.
WaitingScreensAreCurrent ==
    \A u \in AwaitingIn(db) :
        Quiet(u) => /\ live[u] # 0
                    /\ screen[u][live[u]] = ScreenFor(db, u) \/ excused[u]

\* Can u get on from some message: a button that acts, or one whose refusal
\* renders the screen again?
HasMove(u) ==
    \E m \in Messages :
        \/ HasRefresh(screen[u][m])
        \/ screen[u][m].kind = "numbers"
        \/ HasAssign(screen[u][m]) /\ db.stage[u] = "NUMBERED"

\* Nobody who waits is left without a button that gets the deal on, whatever
\* edits fail and whatever arrives late: only a role shown and then rolled
\* back, or a refresh before the commit of the join, takes the button away (and
\* with it, perhaps, everybody's turn).
NobodyIsStuck ==
    \A u \in AwaitingIn(db) : Quiet(u) => HasMove(u) \/ undone[u]

\* Every player who has a role has it on the screen, unless a refresh of the
\* player's own overtook it, or a leave that was rolled back.
RoleStaysOnScreen ==
    \A u \in DealtIn(db) :
        Quiet(u) => \/ excused[u] \/ undone[u]
                    \/ \E m \in Messages :
                          screen[u][m] = Screen("role", {db.role[u]})

\* The rows change as the lobby's operations change them, one operation per
\* commit: what the players see meanwhile does not leak into the rows.
TheLobby ==
    INSTANCE Lobby WITH
        status <- IF IsReady(db) THEN "READY" ELSE "WAITING_PLAYERS",
        quantity <- [r \in Roles |-> 1],
        remaining <- [r \in Roles |-> IF r \in PoolIn(db) THEN 1 ELSE 0],
        playerStatus <- db.stage, number <- db.number,
        joinOrder <- db.order, role <- db.role,
        tx <- <<>>, Sessions <- {}, Selections <- {}

ImplementsLobby == [][TheLobby!LobbyNext]_db

=============================================================================
