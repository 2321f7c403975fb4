------------------------------ MODULE GameRows ------------------------------
(***************************************************************************)
(* The rows one game owns in PostgreSQL, and the queries and row changes   *)
(* every service shares: the repositories of app/repositories, the role    *)
(* draw of AssignmentService and GameService.mark_ready.                   *)
(*                                                                         *)
(* A column that is NULL in the table is 0 here (seat numbers and join     *)
(* orders are 1-based), NoRole stands for "no role_assignments row", and   *)
(* the player status "NONE" for "no game_players row".  game_roles is the  *)
(* pair of counters quantity / remaining, quantity 0 meaning "no row".     *)
(*                                                                         *)
(* A service that locks the game row (SELECT ... FOR UPDATE) keeps the     *)
(* lock until its transaction commits, so each such operation is one       *)
(* action.  GameLifecycle holds the operations that do not lock.           *)
(***************************************************************************)
EXTENDS Naturals, FiniteSets

CONSTANTS
    Users,          \* the Telegram users who may sit at this table
    Roles,          \* the catalog and custom roles a creator may select
    NoRole,         \* "this player has no role_assignments row"
    PlayerCount,    \* games.player_count
    MaxJoinOrder    \* bound on the join orders ever handed out

ASSUME UsersFinite == IsFiniteSet(Users)
ASSUME NoRoleIsNotARole == NoRole \notin Roles
ASSUME PlayerCountPositive == PlayerCount \in Nat \ {0}
ASSUME MaxJoinOrderNat == MaxJoinOrder \in Nat

VARIABLES
    status,         \* games.status, "DELETED" once the row is gone
    quantity,       \* game_roles.quantity
    remaining,      \* game_roles.remaining
    playerStatus,   \* game_players.status
    number,         \* game_players.number (and its mirror selected_number)
    joinOrder,      \* game_players.join_order
    role            \* role_assignments.game_role_id

seatRows == <<playerStatus, number, joinOrder>>
gameRows == <<status, quantity, remaining, playerStatus, number, joinOrder, role>>

-----------------------------------------------------------------------------

GameStatus == {"CREATING", "WAITING_PLAYERS", "READY", "IN_PROGRESS",
               "FINISHED", "DELETED"}
ActiveStatuses == {"JOINED", "NUMBERED", "ASSIGNED"}
PlayerStatus == ActiveStatuses \cup {"LEFT", "NONE"}
Seats == 1..PlayerCount

RowsTypeOK ==
    /\ status \in GameStatus
    /\ quantity \in [Roles -> Nat]
    /\ remaining \in [Roles -> Nat]
    /\ playerStatus \in [Users -> PlayerStatus]
    /\ number \in [Users -> 0..PlayerCount]
    /\ joinOrder \in [Users -> 0..MaxJoinOrder]
    /\ role \in [Users -> Roles \cup {NoRole}]

\* A game row just inserted by create_game: no roles, no players.
RowsInit ==
    /\ status = "CREATING"
    /\ quantity = [r \in Roles |-> 0]
    /\ remaining = [r \in Roles |-> 0]
    /\ playerStatus = [u \in Users |-> "NONE"]
    /\ number = [u \in Users |-> 0]
    /\ joinOrder = [u \in Users |-> 0]
    /\ role = [u \in Users |-> NoRole]

-----------------------------------------------------------------------------
(* Queries of GamePlayerRepository and TurnManagerService.                 *)

Active == {u \in Users : playerStatus[u] \in ActiveStatuses}
Assigned == {u \in Users : playerStatus[u] = "ASSIGNED"}
Holders(r) == {u \in Users : role[u] = r}
TakenNumbers == {number[u] : u \in Active} \ {0}
FreeNumbers == Seats \ TakenNumbers

\* k = coalesce(max(join_order), 0) + 1 over every row of the game
IsNextJoinOrder(k) ==
    /\ \A u \in Users : joinOrder[u] < k
    /\ k = 1 \/ \E u \in Users : joinOrder[u] + 1 = k

\* The players ORDER BY join_order LIMIT 1 chooses from
AwaitingTurn ==
    {u \in Users : playerStatus[u] \in {"JOINED", "NUMBERED"} /\ joinOrder[u] # 0}

IsTurnOf(u) ==
    /\ u \in AwaitingTurn
    /\ \A v \in AwaitingTurn : joinOrder[u] <= joinOrder[v]

LobbyComplete == Cardinality(Active) >= PlayerCount

\* Mutant: a full table is enough, whoever comes first.
MayActNow_AnyOrder(u) == LobbyComplete /\ u \in AwaitingTurn

\* TurnManagerService.ensure_players_turn
MayActNow(u) == LobbyComplete /\ IsTurnOf(u)

-----------------------------------------------------------------------------
(* Row changes shared by the services.                                     *)

\* UNIQUE(game_id, number) counts every row, whatever its player's status.
SeatInsertable(n) == \A u \in Users : number[u] # n

\* Mutant: the decrement without its "WHERE remaining > 0".
DrawRole_Unguarded(u, r) ==
    /\ role[u] = NoRole
    /\ remaining' = [remaining EXCEPT ![r] = @ - 1]
    /\ role' = [role EXCEPT ![u] = r]

\* AssignmentService.assign_random_role for a player who holds a number:
\* claim a slot of a role that has one and insert the assignment row, which
\* UNIQUE(player_id) refuses for a player who already has one.
DrawRole(u, r) ==
    /\ remaining[r] > 0
    /\ role[u] = NoRole
    /\ remaining' = [remaining EXCEPT ![r] = @ - 1]
    /\ role' = [role EXCEPT ![u] = r]

\* Mutant: the counts are read before the draw is flushed.
MarkReadyIfDealt_BeforeFlush ==
    status' = IF /\ Cardinality(Active) = PlayerCount
                 /\ Cardinality(Assigned) = PlayerCount
                 /\ status = "WAITING_PLAYERS"
              THEN "READY"
              ELSE status

\* _maybe_mark_ready and GameService.mark_ready, on the rows as changed by
\* the action it is a conjunct of.
MarkReadyIfDealt ==
    status' = IF /\ Cardinality(Active') = PlayerCount
                 /\ Cardinality(Assigned') = PlayerCount
                 /\ status = "WAITING_PLAYERS"
              THEN "READY"
              ELSE status

=============================================================================
