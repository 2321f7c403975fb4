# Formal models of the Telegram Mafia bot

TLA+ models of the bot's game logic (`src/app`), the TLC runs that check them on
small tables, and TLAPS proofs of the results that should hold at every table.
`PROJECT.json` lists the runs, which source lines each definition models (`map`),
the hazards the properties are about, and the findings.

Run a model with `tlc -config MCLobby.cfg MCLobby.tla`; check proofs with
`tlapm LobbyProofs.tla`.

## 1. The system

A Telegram bot (aiogram, PostgreSQL through async SQLAlchemy, Redis for
conversation state) creates Mafia games, seats players and deals roles.  A FastAPI
*Mini App* then runs the table: phases, speaking turns, challenges, votes and the
clock.  Two kinds of shared state matter, under two disciplines:

* **Rows in PostgreSQL** (READ COMMITTED).  One update or HTTP request is one
  transaction: `DatabaseMiddleware` commits after the handler has returned and rolls
  back when it raises.  Handlers catch `DomainError`, so a refused operation's
  transaction still *commits what it had done so far*.
  Some services lock the game row first (`SELECT ... FOR UPDATE`): join, choose
  number, draw, leave, delete, automatic dealing, seat claiming.  Others read without
  a lock, decide, and write by primary key when the session flushes: configure,
  start, finish, and the Mini App's eliminate.
* **One JSON document per table in Redis.**  Every Mini App endpoint, and the timer
  loop once per second, GETs it, computes a new one and SETs the whole.  Nothing
  detects a write in between.

### Components

| Component | State | Operations | Made correct by |
|---|---|---|---|
| Game rows, repositories | `games`, `game_players`, `game_roles`, `role_assignments` and their constraints | guarded decrement of `remaining`, next join order, current turn, available numbers | constraints and queries that agree on which rows count |
| Game lifecycle (`GameService`, `GameManagementService`) | `games.status` | create, configure, mark ready, start, finish, delete | a state machine that overlapping updates do not derail |
| Lobby and turn-based deal (`LobbyService`, `TurnManagerService`, `AssignmentService`) | players' status, number, join order, role; pool counters | join, choose number, draw, leave | no role lost or dealt twice; strict queue; READY exactly over a complete deal |
| Automatic deal (`AutoRoleAssignmentService`) | the same rows | join + seat + role in one transaction | nobody at the table without a role |
| Single-device game (`SingleDeviceService`) | the same rows, with synthetic players | claim a seat | every seat can be claimed, the last one makes the game READY |
| Mini App elimination | `game_players.status` | eliminate | the lobby's books survive an unlocked write |
| Live table (`MiniAppService`, `LiveStateStore`, `routes`, timer loop) | document in Redis, `hot_games` in memory | set phase, start turn, timer, add time, mute all, challenge, vote, tick | document consistent; abandoned tables vanish |
| Realtime hub, websocket, page | rooms, subscriber task; the page's socket, timers and table | publish, fan out, join the room, reconnect, refetch, render | viewers end up with the current table |
| Join flow, live lobby screens | lobby messages, `lobby_message_id` | join, pick, draw, leave, refresh, broadcasts | the screen tells what was committed, and has a way on |
| Creation wizard | FSM context, keyboards in the chat | scenario, mode, count, roles, summary, open | what is opened is what was shown, and fits its game |
| Scenarios, composition | static catalogs | resolve, validate, configure | slots add up to the player count, picks that still exist are dealt, a city at every table |
| Custom roles | `custom_roles` | create, delete | cap and unique names |
| Owner test flow, code generation, read-only services, authentication, voice mesh, migrations, tests | - | - | see section 8 |

### Interactions

The lobby, the automatic deal and the single-device game share the game rows and
the promotion to READY (`_maybe_mark_ready` / `mark_ready`).  The lifecycle's
unlocked writes land between their steps, and so does the Mini App's eliminate.
The Mini App reads the roster from the same rows, keeps the rest in Redis, and tells
its pages to refetch with `invalidate`.  The bot edits every waiting player's lobby
message when the lobby changes, before the change is committed.  The wizard's
resolver turns a scenario, a count and the ticked roles (custom ones included) into
the role pool that `configure_roles` accepts and the lobby deals from.

### What is hard here

Unlocked check-then-write against locked operations; long sequences of departures
and returns; domain errors that commit half an operation; whole-document overwrites
by requests and clock; the in-memory `hot_games` against a restart, a failed tick or
a stale decision; messages and events sent before the commit; answers that overtake
each other; updates of one user handled at the same time over one FSM context; old
keyboards that still work.  Each is listed at its line under `hazards` in
`PROJECT.json`, with the properties that catch it or the reason none does.  The
repository's tests are sequential end-to-end scripts of the bot; none covers the
Mini App or two overlapping operations.

## 2. Modules

```
GameRows         rows, constraints, shared queries and row changes
  GameLifecycle  configure / start / finish / delete, split at the unlocked read
    Lobby        join, choose number, draw, leave    <- LobbyProofs (TLAPS)
      AutoDeal       join-and-deal                   <- RoleModeProofs
      SingleDevice   claim a seat, remote players    <- RoleModeProofs
      Elimination    + unlocked eliminations from the Mini App <- EliminationProofs
Deal             what dealing promises (abstract); the four above implement it
LobbyScreens     the join flow's messages and handlers; implements Lobby's steps
                                                     <- LobbyScreensProofs
LiveTable        the live document, its requests, the clock   <- LiveTableProofs
  LiveClock      is a running timer watched?            <- LiveTableProofs
LiveSync         from a change of the table to the screens  <- LiveSyncProofs
Scenarios        the role and scenario catalogs
  Composition    from scenario, count and ticks to the role pool <- CompositionProofs
Conversation     one chat: FSM context, keyboards, updates in flight
  CustomRoles    the library of custom roles
    Creation     the creation wizard                 <- CreationProofs
MC*              values of the constants for TLC
```

**GameRows.**  One function per column over `Users`; NULL is 0 (numbers and join
orders start at 1), a missing assignment row is `NoRole`, a missing player row is
status `"NONE"`, a missing `game_roles` row is quantity 0.  `number` stands for the
column and its mirror `selected_number`.  A draw picks any role with a slot: the
weighted random choice is the nondeterminism.

**GameLifecycle.**  `tx[s]` is the unlocked operation of session `s` that has passed
its check.  `ConfigureRead`/`StartRead`/`FinishRead` are the checks;
`ConfigureWrite`/`StartWrite`/`FinishWrite` the flush, the event row and the commit,
which follow one another under the row lock the UPDATE takes.  `Rollback` is an
UPDATE that matched nothing (`StaleDataError`), a unique violation, or a handler that
failed.  `DeleteGame` clears all rows (the foreign keys cascade in one statement).
`SlotCount`, the sum of the quantities, is written as the number of slots (`Slots`, a
role and an index below its quantity), so that it can be reasoned about by counting.

**Lobby.**  `JoinGame`, `ChooseNumber`, `AssignRole`, `LeaveGame`: one action each,
because the game row's lock is held from before the first read to the commit.
`TakeSeat` and `TakeRole` are the two that a turn allows, without the check of the turn
(`MayActNow`), which Elimination splits.
`AssignRole` has no guard on the game's status, as in the code.

**AutoDeal.**  `AutoJoin` is join plus `assign_for_player`, with the path on which
the handler catches the `DomainError` of the second call and commits the first.

**SingleDevice.**  `ClaimSeat` inserts the seat's synthetic player and draws.
`join_game` does not look at the role mode, so `RemoteNext` lets other users in by
code.

**Elimination.**  `striking` is the set of eliminate requests that have read the
roster.  The write changes only the status, as in the code, and takes no lock: it may
land between the two queries of `ensure_players_turn`, so a turn is also modelled as
`CountTable` followed by `TakeTurn` or `TurnRefused`; while `counted` names the handler,
which has the game's lock, only eliminations move.

**Deal.**  The abstract specification of the three ways of dealing: a pool of
configured slots and the roles in players' hands, no counters, no queue, no status.
`Lobby` instantiates it with `pool <- quantity, hand <- role` (ImplementsDeal); the
counter `remaining` is what the code keeps instead of counting hands.  `NoSlotTwice` is
what it is for: no role in more hands than it has slots.

**LobbyScreens.**  The same operations as Lobby, seen from the chat: `db` is the
committed table, `turn` the one handler that holds the game's lock, with its own
uncommitted table and the messages it still has to edit, step by step (`Act`, `Tell`,
`Edit`, `Commit`, or `Fail` at any point); `peek[u]` a refresh button's handler, which
takes no lock: its queries (the player's row, the role, the count, whose turn it is,
the free numbers) are a step each, and so are its edit and its commit, so that what it
shows may never have been true at any one moment.  `screen[u][m]` is what message `m`
shows, `live[u]` the message the row names.  Each commit is one step of Lobby
(ImplementsLobby); the status is READY exactly when everybody is dealt there, by
Lobby's own invariants. `excused` and `undone` are history variables that record when
a screen has a reason to be wrong.

**LiveTable.**  `live` is the document; `req[c]` a request between its GET, its SET
and what follows the reply; `loop` the clock's tick of this table; `hot` membership
of `hot_games`.  GET and pure computation are one action (`SetPhase`, ...,
`CastVote`, `TickRead`), the SET another (`Save`, `TickSave`), hot-marking a third
(`Answer`, `TickEnd`).  A failed Redis call and a restart may come between any two.
`Evaporate` is the 12 h TTL.  **LiveClock** adds the history variable `unwatched`: has
the loop, a failure or a restart dropped a table whose timer may run?

**LiveSync.**  What a viewer can see is two numbers, the content of the document and
the eliminations committed.  Writers change one and publish (elimination: publish,
then commit); the clock may write an older document back; `TakeEvent` and
`SendInvalidate` are the subscriber and its fan-out over a copy of the room;
`Greet` and `JoinRoom` the websocket's snapshot and the later joining; `EnterTable`,
`Drop`, `Reopen`, `Receive`, `RenderAnswer` the page, whose answers may overtake each
other.  Publishing, a tick of the clock, the subscriber and a fetch can fail, and the
server can restart.
`excused` is the history variable of the five reasons for a stale screen.

**Scenarios, Composition.**  The catalogs are data: every scenario with its counts,
its selectable roles and its prescribed compositions.  Special roles of one team are
interchangeable, so a selection is a number of them per team, a set of custom roles,
and the two simple roles.  Custom roles have an identity, because one may be deleted
while the wizard is open (`DeleteOwn`): `buttons` are those the keyboard on screen still
offers, and the ids that were ticked stay in the FSM data.  A prescribed composition's
roles are counted as copies (`HowMany`), like the slots of a pool.  `Confirm` looks up the
ticked custom roles (`StillThere` leaves out the deleted ones without a word) and is then
the resolver with its refusals; `Finalize` is `configure_roles`, which refuses a pool of
another size or with a role deleted since (`Accepted`).

**Conversation, CustomRoles, Creation.**  `chat` is the FSM context, `job[u]` an
update being handled, `screen[m]` the keyboard under a message, with the ids its
buttons carry.  A handler is chosen by the state its filter reads and then takes the
steps run, stash, insert, switch, show, commit, those of them it has; other updates of the
same user come between them.  So a toggle writes its ticks over those that came between
its read and its write (`Toggle`, `StashPicks`), and two openings of one game may both
pass the check of `configure_roles` (`ConfigureRoles`): they wait for each other at the
games row (`BeingOpened`), and the second then fails if the pools share a role
(`Collides`) and otherwise commits too.  `Fail` is a failed call of Telegram, Redis or the database, after which only
the transaction is rolled back.  A role pool is its size and the roles that have a row
in it; how the catalogue's are chosen is Composition's subject.  `trouble` counts overlaps, failures and
taps on an older wizard's keyboard: properties about ordinary use ask for `Tidy`.

## 3. Runs

| Run | Outcome | Asks |
|---|---|---|
| `lobby` | holds | Do the lobby's invariants survive joins, departures, returns and two overlapping updates of the creator?  The inductive invariant as a whole (IInv: with types, departed rows empty, a strict queue, no table overfull, deleted games empty), pool conservation, dealing in queue order, READY over complete deals only and complete deals never left in an open lobby, the player in turn can act, the pool fits the table, deletion final; implements Deal |
| `auto_deal` | holds | Is every join served with a seat and a role, so that the error path is dead?  Does it implement Deal? |
| `single_device` | holds | Does dealing survive remote players in a single-device game (Deal)?  Until one comes, can the phone go round, ending READY? |
| `elimination` | holds | Do pool and seats survive unlocked eliminations, also in the middle of the check of a turn? |
| `lobby_screens` | holds | Do those who wait see the table as it is, and have a button to go on with?  Does a dealt role stay on the screen?  Do the rows underneath move as Lobby's? |
| `live_table` | holds | Two requests in flight, clock, failures, restarts: do floor and challenge stay consistent?  Is a running timer watched, unless the loop, a failure or a restart dropped its table? |
| `live_progress` | holds | Once requests stop, is an abandoned table cleaned up, unless its timer was left running at zero? (liveness; also the live table's type invariant) |
| `live_sync` | holds | Does a change reach every screen of the room but for five reasons?  Does every entry keep one connection alive?  Does a page that entered once settle in the room? (liveness) |
| `composition` | holds | At every count of every scenario: does the pool fill the table, is the summary true, is every pick dealt that still exists, is there a city, and does it outnumber the mafia where no independent is ticked? |
| `creation` | holds | With overlapping updates, old keyboards and failures: does each composition a game opens with fill its table, and what does a second one take?  Do the wizard's messages hide the code of a phone game, and does what they announce exist?  Are active names unique and the cap passed only by creations in flight?  In ordinary use: is there always a way on, and does a game open as shown? |
| `live_version` | **violated** | Does a version name one document, that is, is no write lost? |
| `deleted_name` | **violated** | Can a custom role whose name passed the check be stored? |

A violated run states what a docstring or a comment of the repository says, and TLC's
trace shows the code doing otherwise; section 6 lists them.

### Bounds, and why they are enough

* **Lobby family.**  Three seats and four users: one more than fit, so the last seat
  is contested and a departed player can be replaced; three players have a first, a
  middle and a last in the queue, and a dealt player can leave and come back behind
  an undealt one.  Two roles: one may be multiple, so both "another slot of the same
  role" and "the last slot of a role" occur.  `MaxJoinOrder` 5 bounds the only
  counter; orders fall back when the highest leaves, so leave/return cycles are not
  bounded, only the queue's length with gaps.  Two sessions of the creator: a pending
  write never looks at a third, and every conflict is between a check and one other
  write.  `elimination` has one session and `MaxJoinOrder` 4 (the eliminations are
  the second writer there); any number of them may come between a count and its turn.
  `single_device` has three seats and two remote users.
* **Selections.**  `OverlappingSelections` are those with at least one plain citizen,
  of any total.  Two concurrent ones collide on the unique constraint.  Disjoint ones
  do not (section 6), and after them the pool is larger than the table: PoolFitsTable,
  DealtMeansReady and PhoneCanGoRound are claimed only for configurations that
  collide, and the theorems about them have that premise (ConfigurationsCollide).  The
  other theorems hold for every set of selections.
* **lobby_screens.**  Two players, two seats, two roles, one of them a custom role
  (whose refresh fails in `get_my_role`).  Two messages per player, so a player can
  have an old one beside the live one; one refresh and one failure anywhere: enough
  for handlers to commit between a refresh's queries, for a refresh to overtake a
  handler and for a handler to fail after showing its effect.
* **Live table.**  `live_table` has two seats (a turn and a following one), two
  requests in flight and the clock, so up to three writers overlap; one second of clock
  is both "running" and "about to expire".  `live_progress` has one seat and one
  client, and up to three seconds with added and removed ones.  Phases are represented
  by `voting` (resets ballot and floor), `day` (resets the clock) and `night`
  (neither).  The document's version is left out (`MaxVersion = 0`) except in
  `live_version`.
* **live_sync.**  One screen (screens share only the fan-out's order), two writers and
  the clock, one document, one elimination, one lost connection or restart, a page
  that may enter twice.
* **composition.**  The real catalogs and the real limits, 3 to 40 players.  One custom
  role, which can be ticked and deleted at every point: a custom role counts like a
  special one of its team, of which there are plenty, and it is an independent, of the
  only team that no simple role fills up.
* **creation.**  Two updates at once, two messages, two games; a flexible scenario that
  takes 3 players and a fixed one that takes 4, so refused counts and two different tables
  occur; two compositions without a common role, so a second opening of a game can
  collide or commit.  Three custom roles and names and a cap of one: two overlapping
  creations may make two active roles, and there is an identifier for the third that
  would be too many (a check of the cap that misses it is one of the mutants).
  Everything at once is too much for a run, so each behaviour stays within one of five
  loads (`Loads`), which bound the keyboards, games and roles asked for and the overlaps,
  failures and stray taps (`trouble`) together: two games, or a game and a role, with one
  of these anywhere; one game with two, and with the three that a second opening takes;
  three roles with three, among them two creations of different names at once.  What
  finishes an update is never cut off.
* Symmetry is used in safety runs only, over users, sessions, seats, clients,
  messages, games or names the definitions treat alike (in `MCSingleDevice` over the
  remote users only).
* `CHECK_DEADLOCK FALSE` in the lobby family (a deleted game stops), in
  `lobby_screens` (everybody is dealt or has no message left) and in `composition`
  (a wizard ends with its pool).

## 4. Fairness

The live table and the screens of the Mini App have liveness properties.

* `WF(Tick)` (LiveTable), `WF(TickSave \/ TickAnnounce)` (LiveSync): the timer loop is
  `while True: ...; await asyncio.sleep(1)`, and its `try/except` around each table
  keeps one failure from ending it.
* `WF(Save(c))`, `WF(Answer(c))`, `WF(AnnounceDocument(c) \/ CommitElimination(c))`: a
  request that has been read is finished by the event loop, or fails.
* `WF(Evaporate)`: Redis expires keys that are not written.  It is enabled only with
  no request, no tick and no watching, that is, when nothing will write.
* `WF` of `TakeEvent`, `SendInvalidate`, `Greet`, `JoinRoom`, `AnswerFetch`: the
  server's tasks that can run do run.  A subscriber that has died takes nothing.
* `WF` of `Receive`, `RenderAnswer`, `Reopen`: connections carry what was sent over
  them, and the browser runs its handlers and timers.

No fairness is assumed of people: requests may stop for ever (`<>[]Quiet` is the
premise of AbandonedTablesEvaporate), failures and restarts may come at any time or
never (in LiveSync up to a bound: a server that restarts for ever settles nobody).
The lobby has none, because nothing obliges a player to act; that the player in turn
*can* is TurnPlayerCanAct for the rows and NobodyIsStuck for the buttons.

AbandonedTablesEvaporate has an exception, `LeftRunningAtZero`, and needs it: a timer
resumed at zero seconds neither counts nor expires (`tick` wants `timer_seconds > 0`),
the loop finds it running and saves the document every second, and each save renews
the TTL.  Without the exception TLC finds that behaviour.  PagesSettle is about pages
that entered the table once: one that entered twice reconnects for ever (section 6).

## 5. Proofs

**LobbyProofs** proves `Spec => []IInv` for every finite set of users, every set of
roles, every positive table size, any number of creator sessions, any selections and
any bound on join orders (assumptions `UsersFinite`, `NoRoleIsNotARole`,
`PlayerCountPositive`, `MaxJoinOrderNat`, `SelectionsAreQuantities`).  IInv is the
conjunction of nine of the checked invariants; none of the interesting ones is inductive
by itself.  The proof keeps the parts apart that other modules need apart.  `Ledger`
is what survives even an unlocked write of a player's status: types, pool conservation
and complete deletions.  `Books` adds what every way of dealing keeps:

* `RoleConservation` at a departure needs `RoleIffAssigned` (the slot given back was
  really held) and at a join `DepartedHoldNothing` (the returning row holds none); at
  a configuration the new rows start with no holders.
* `ReadyMeansDealt` after a departure needs the status to be re-opened, and after an
  unlocked write needs that no write ends in READY; that READY was earned is
  PromotionIsEarned: as many dealt as seats, and as many players.
* `DeletedIsEmpty` keeps `AssignRole`, which ignores the game's status, from acting on
  a deleted game.

`Turns` is what the turn-based lobby has besides:

* `DealtInJoinOrder` at a draw needs that the player in turn has the least join order
  of those awaiting, which names one player only by `QueueIsStrict`; at a join it
  needs that a new order is above all others.
* `NeverOverfull` needs only the lock, under which the head count and the join are one
  step.

There is one lemma per operation (`...Keeps`): it keeps Books, and Turns if that holds.
From IInv follow the listed theorems, and `DeletionIsFinal` (an action property):
DeletedForTheCreator and DeletedForPlayers say why nothing moves, and serve the other
ways of dealing too.

*Implementing Deal.*  RoleConservation turns the guard `remaining > 0` into "fewer
hands than slots", and a configuration that is between its check and its write is one
the wizard submitted (`PendingIsSubmitted`, shown inductive there).  NoSlotIsDealtTwice is
about Deal itself, and so about everything that is shown to implement it: from DealInit
on, no role is in more hands than it has slots.

*The deal goes through.*  `Stocked` says what the unlocked updates leave of the pool: an
unopened game is empty, an opened one has *at least* the slots of one selection that
fills the table.  From there the proofs count without sums.  SeatIsFree: the numbers in
use are the image of fewer players than there are seats.  PoolHasARole: if no role
were left to draw, the slots would map one to one to the hands that hold them, and
there are fewer hands than slots.  TurnPlayerCanAct follows with no condition on the
selections, because a second, disjoint configuration only adds roles.  PoolFitsTable and
DealtMeansReady need the pool to be *exactly* one selection.  `OpenedOnce` is the
invariant: any other configuration on its way finds its rows in the way.  It holds under
the premise `ConfigurationsCollide`: the creator's updates do not overlap, or any two
selections that fill the table share a role, so that the unique constraint stops the
second.  The premise is necessary (section 6); every set in the MC modules meets it.

**RoleModeProofs** proves Deal of the other two ways of dealing, with Books alone: as far
as Books knows, a join that fails to deal leaves an undealt player before dealt ones, and
a phone beside remote players really can overfill the table.  With Stocked the same
counting gives EveryoneIsDealt and NextJoinIsServed for every history and every set of
selections: the path on which a join commits without a role is dead code.  Then the whole
IInv holds when dealing on join too (AutoDealKeepsTheTable), because a queue in which
everyone is dealt is in order.  Deletion is final in both modes; the pool is exactly the
one the game was opened with, and a deal on join that completes the table promotes it
(AutoDealLeavesNoDealBehind, PhonePoolFits), under ConfigurationsCollide.  PhoneCanGoRound
rests on `PhoneInOrder` (a seat's player has the seat's own number, so no number can be
lost to another seat; with nobody else at the table a complete deal is READY) and on
ConfigurationsCollide, because a second selection would keep READY away.

**EliminationProofs**: an eliminated player is LEFT with number, order and role still in
the row, so RoleIffAssigned, DepartedHoldNothing and ReadyMeansDealt do not survive, and
with them Books.  `EInv` is what does: Ledger, Turns, and NumbersAreUnique over *all* rows,
struck ones included, as in the unique constraint.  A turn counted before an elimination is taken at a table that is
no longer full; TakeTurnKeepsEInv shows that nothing of EInv needed it to be.
RoleConservation survives because
the elimination leaves the slot in the hand that held it.  DealtMeansReady survives too
(a departure leaves fewer dealt players than seats because the table was not overfull;
that it was completely dealt is not needed), and PoolFitsTable with it.  That deletion is
final needs more than DeletedIsEmpty, since the write of a request under way looks for
the row and not for an active player: RowsAreGone says that there is none.

**LobbyScreensProofs** proves the type invariant, the three properties of the screens and
the refinement of Lobby's steps, for any number of users, messages, overlapping
refreshes and failures (assumptions `UsersFinite`, `CustomRolesAreRoles`,
`NobodyIsNoUser`, `PlayerCountPositive`, `BoundsAreNat`).
`Held` is the frame: the table which the lock's holder sees is one operation away from
the rows (TurnFits), whatever was shown meanwhile.  Since only `Commit` changes the rows,
each commit is one operation of Lobby (ScreensKeepTheLobby).  None of the screen
properties is inductive; what carries each is what is still in flight:

* WaitingScreensAreCurrent, by `LiveScreens`: while a handler broadcasts, every waiting
  player's live screen is right already, or excused, or still among its edits.
* NobodyIsStuck, by `StaleScreens` and `MovesKept`: a refresh that read an older table,
  or has begun to (`MayShow`), will take a button away only in a message that nobody
  else is making right, so the message whose button gets the player on is not its target.
* RoleStaysOnScreen, by `RolesKept`: while a refresh from before the draw is pending,
  a dealt player has no live message for it to answer into, so it waits for a handler of
  the player's own, or records that it came too late.

The refinement is put to use: `Rows` instantiates LobbyProofs with the rows under the
screens, whose assumptions hold of these constants (RowsAssumptions), and NextIInv, cited
through the instance, carries IInv along every commit (RowsKeepTheLobby).  So the queue,
the counters and READY are right under every interleaving of handlers, refreshes and
rollbacks, and nothing of LobbyProofs had to be proved twice.

**LiveTableProofs** proves `Spec => []LiveInv`, for any number of requests in flight
and any seats.  The argument is that each pure function maps a consistent document to
a consistent one (one lemma each), and that the invariant speaks of *every document,
stored or on its way*: a lost update replaces one consistent document by another.
That is why FloorIsConsistent and ChallengeOfThisTurn survive all interleavings while
VersionIsMonotonic, which relates a document to the one it replaces, does not.
The same module proves `ClockSpec => []TimersStopOnlyForAReason`.  A running document
may be stored by a request that never marks the table, so the watch is followed too
(WatchInv): a running document, stored or about to be, is watched (the table is hot,
a request between its SET and its answer will make it so, or there is a reason), or
the very request about to store it marks the table; and the loop, while it holds a
document, has the table hot.  The step that matters is RequestStartsHot: an endpoint
computes a running document only from a running one, or marks the table.

**CompositionProofs** proves `Spec => []IInv` for any player bounds from 3 up and any
finite set of custom roles.  The heart is FillIsExact: what the resolver's refusals
leave, filled with simple roles, has exactly one role per seat, the promised teams, and
nothing negative; MafiaAreFewer is the arithmetic of the ratio.  The custom roles are any finite set, and
may be deleted at any step: the invariant keeps apart the ticked ids, the roles there are,
and those the confirmation found (ExistingPicksAreDealt).  NoTableWithoutACity is what the
ratio guarantees for the city; the majority the catalog's text speaks of is not among it
(section 6).  For prescribed
compositions the same facts are about the catalog's data.  There the sum of some
quantities is the number of copies of those roles, so it can be counted without laws of
sums: OneMore adds a role to the count, and CapoSpecials and Prescriptions count the
tables of the one fixed scenario in this way.  What the catalog promises of every count a
scenario admits (EveryCountResolves) is then a theorem (CountsResolve): the counts offered
are those that have a composition, and a table with nothing ticked can be filled.

**CreationProofs** proves `Spec => []IInv` for any number of updates in flight, messages,
games, compositions, roles and names, and from it the four safety properties of rows
(PoolFillsItsTable, WizardHidesPhoneCodes, AnnouncedGamesAreOpen,
ActiveNamesAreUnique).  An update's transaction is invisible to the others until it commits, so the invariant follows it:
each update in flight that inserted a role or game row holds a row of its own
(RolesInTheMaking, GamesInTheMaking), a name is held once counting the open
transactions' rows, and every opening that has passed its check has a pool that fits its
game (OpeningsFit).  Openings of one game do not exclude each other: those that have
written their rows are one at a time, because the others wait for the games row, and what
they wrote collides with no pool committed before.  That is all the code has to keep a
second composition out, so PoolFillsItsTable says of a second one what is left to say: it
takes confirmations that overlap (OneAtATime, otherwise), and shares no role with the
first.  The pool has to fit from the tap
on, because the FSM data may change under the handler; it fits because a keyboard and
the handler of its tap carry their arguments (ArgumentsExist).  JobMoves reduces the
many handlers to one fact: a step moves at most one update.

Two more invariants are inductive on top of it.  `CapInv` bounds the active roles
*together with* the creations that have not committed: alone, the rows the check of the
cap reads say nothing about the creations that passed it.  `WizardInv` is the wizard in
ordinary use (`Tidy`: no overlap, no failure, no tap on an older wizard's keyboard): no
two keyboards name the same game, a summary of the current game shows the pool in the
FSM context, `Fits` says of each handler, step by step, how far the context has
followed it, and `KeyboardComes` that there is a keyboard for the context's state or a
handler about to send one.
WizardGoesOn and OpensAsShown are its consequences.  The sets of messages, games and
roles are arbitrary, and so are the loads (`UpdatesFinite`, `MaxActiveNat`, the types of
the catalogues, and that the values for "no game" and "no message" are neither).

**LiveSyncProofs** proves StaleOnlyForAReason and OneReconnectPerEntry for any number of
pages, requests, changes, reconnects and failures.  StaleOnlyForAReason speaks of
settled pages, so the invariant says what holds before: each screen is excused, or the
server is busy (ServerBusy: something is saved and not yet announced, or announced and
not yet forwarded), or the page is being reached (Reaching: an `invalidate`, a refetch
or a new connection is on its way), or the newest table it has seen or will see is the
table as it is (UpToDate).  "Newest" makes sense because late tables stay in front of
the others (InOrder) although answers overtake each other.

### Only model-checked

* `AbandonedTablesEvaporate`, `PagesSettle`: liveness under fairness is beyond the
  prover.
* Every violation is a TLC trace.

Every safety property of the runs that hold is stated by a theorem; PoolFitsTable,
DealtMeansReady and PhoneCanGoRound under the premise ConfigurationsCollide, which the
runs' selections meet.

No module uses a RECURSIVE operator (the prover loses its SMT backend there), and none
sums over a function: what would be a sum is the number of elements of a set of copies.

## 6. Findings and observations

Two findings have a run; `PROJECT.json` has the quotations.

1. Two overlapping writers store two documents under one version, and the effect of
   the first is lost: one of two simultaneous votes, the first of two challenges in
   a turn, a phase change the clock's tick puts back (`live_version`).
2. A custom role's name that was deleted before passes the check of the name and
   violates the unique index: the error is not a `DomainError`, nobody answers the
   user, and every further description fails the same way until `/cancel`
   (`deleted_name`).

The models contain the following behaviours too.  Properties that would forbid them
do not hold, so the checked ones are stated with them in view.

Lobby and lifecycle:

* `start_game` checks READY without a lock and writes later: it starts a game that a
  departure has just re-opened, or undoes a finish.
* Two configurations without a common role both commit: twice the roles
  (`configure_roles` takes no lock, and only UNIQUE(game, role) stands between them).
  PoolFitsTable has the premise that configurations collide; PoolFillsItsTable has none
  and says what a second one takes.
* A user who enters the code of a single-device game joins it; the game may then be
  full without ever becoming READY, and a seat claimed on the phone when the remote
  users have the last roles is committed without one.
* An eliminated player is LEFT and keeps seat number and role, which stay under their
  unique constraints.  An elimination between the count and the query of
  `ensure_players_turn` lets the next in the queue act at a table that is not full.
* `leave_game` clears the join order, so the next join can receive it again, against
  `next_join_order`'s "never reused" (the queue is right all the same).
* Cancelling a single-device game is `finish_game`, which refuses a game that is not
  READY.

Screens of the lobby:

* A role is shown before the commit; if a later call of the handler fails, the player
  has seen a role that is rolled back.
* A refresh before the join's commit finds no player and takes the buttons away.
* The refresh of a player with a custom role fails: `get_my_role` reads the catalog
  role that is not there.
* The number keyboard has neither refresh nor leave.

Live table and Mini App:

* The loop drops a table on a stale read, a failed tick or a restart; a timer started
  meanwhile stands still.  A timer resumed at zero is saved for ever.
* A screen stays behind when an event falls between snapshot and joining the room, an
  elimination is announced before its commit, the clock writes an older document
  back, an older answer arrives later (the page never compares versions), or a
  publish, the subscriber or a fetch fails.  A subscriber that failed is not started
  again.
* A page that enters the table twice closes its own socket every two seconds: each
  close schedules another opening.

Wizard and composition:

* The role-mode keyboard's back button sends a callback whose handler is registered
  for the state before: nobody answers it.
* The keyboard of an older summary opens its game with a newer wizard's quantities;
  a double tap on a count creates two games; `/create_game` during a slow count
  handler leaves the wizard in its role step without a player count.
* `_begin_after_count` resets `selected_codes`, a key nothing reads, while the toggles
  use `selected_ids`: ticks survive into the next wizard only if its start did not
  clear the data (it does).
* With independents up to the number of mafia, the city may start outnumbered: five
  players of the classic scenario may be two mafia, two independents and one citizen.
  The scenario's texts promise the city a majority at every start
  (`scenarios/catalog.py:72`), as does the strategy's docstring ("The town always keeps a
  strict majority under this ratio", `services/composition_service.py:73`), and by
  `catalog.py:73` the mafia win once they equal the city: such a table is won before it
  starts.  CityLeadsWithoutIndependents is what does hold: a city at every table, which
  outnumbers the mafia where no independent is ticked.
* A custom role that is deleted after it was ticked is dropped at the confirmation
  without a word (`create_game.py:430`), and a simple role takes its seat; deleted after
  the confirmation, it makes the opening fail.
* Two overlapping toggles keep the ticks of one of them: each writes the lists it read.
* "Single-device games never expose a join code" (`create_game.py:546`) is true of the
  wizard's messages.  The list and the detail of *my games* (`bot/handlers/info.py:132-205`,
  `bot/texts.py:359`, `386`, `395`) show the code of every game, and
  `user_games_service.py` does not look at the role mode.
* The code or seat grid is shown before the commit of the opening: if that fails, the
  message announces a game that is not open.
* `complete_composition`, `max_independents`, `ensure_role_selectable`,
  `is_role_selectable` and `validate_selection_size` are not used.

## 7. Plan

What is left, in this order.

1. The shared screen of the single-device game.
2. A second lobby of the same player, for the leave button that takes the code from
   the FSM data.

Refinements are checked as properties of the runs there are.

## 8. Not modelled

* Owner test flow: a sequential script over the modelled services in one
  transaction.
* Game codes: a game is its identifier in the models.
* Read-only services, snapshots and the vote tally: they change nothing.  The *my games*
  screens are among them, so WizardHidesPhoneCodes is about the wizard only (section 6).
* Mini App authentication: signature checks before any state is touched.  Roles of
  callers (creator, player) appear as what the action may do, not as a check.
* Voice mesh: set up between browsers over frames the server relays verbatim.
* Texts, migrations, seed: wording and static data.
* `reset_remaining`: nothing calls it.
* The grid of the single-device game after its opening: `SingleDevice` has the
  operation behind its buttons.
* `Elimination` and `LiveTable` are not composed: an elimination changes no field of
  the document, only the players whose turn may be started, which `LiveTable` takes
  as constant.
* In `LiveTable`, ids of Redis connections and JSON encoding; that a document decodes
  to what was encoded is taken from `to_json`/`from_json` storing every field.
* In `LobbyScreens`, the status of the game outside the lobby phase: nothing there
  starts, finishes or deletes it.
