-------------------------------- MODULE Lobby -------------------------------
(***************************************************************************)
(* LobbyService with AssignmentService and TurnManagerService: the         *)
(* turn-based deal of a MANUAL_ROLE_SELECTION game.  Players join until    *)
(* the table is full, then take a seat and draw a role one at a time in    *)
(* join order.  Every operation locks the game row before it reads         *)
(* anything else, so each is one action; GameLifecycle's operations do     *)
(* not, and interleave with them.                                          *)
(***************************************************************************)
EXTENDS GameLifecycle

-----------------------------------------------------------------------------
(* Operations.                                                             *)

\* Mutant: one player too many (<= for <).
HasRoom_OffByOne == Cardinality(Active) <= PlayerCount

\* The GameFullError check
HasRoom == Cardinality(Active) < PlayerCount

(* join_game: a first join inserts a row, a re-join resets the old one. *)
JoinGame(u) ==
    /\ status = "WAITING_PLAYERS"
    /\ u \notin Active
    /\ HasRoom
    /\ \E k \in 1..MaxJoinOrder :
          /\ IsNextJoinOrder(k)
          /\ joinOrder' = [joinOrder EXCEPT ![u] = k]
    /\ playerStatus' = [playerStatus EXCEPT ![u] = "JOINED"]
    /\ number' = [number EXCEPT ![u] = 0]
    /\ UNCHANGED <<status, quantity, remaining, role, tx>>

\* A seat no active player has taken.  One an inactive row still holds is
\* refused by the unique constraint instead.
TakeSeat(u, n) ==
    /\ status = "WAITING_PLAYERS"
    /\ u \in Active
    /\ number[u] = 0
    /\ n \in FreeNumbers
    /\ SeatInsertable(n)
    /\ number' = [number EXCEPT ![u] = n]
    /\ playerStatus' = [playerStatus EXCEPT ![u] = "NUMBERED"]
    /\ UNCHANGED <<status, quantity, remaining, joinOrder, role, tx>>

(* choose_number *)
ChooseNumber(u, n) == MayActNow(u) /\ TakeSeat(u, n)

\* With a seat; the code does not look at the game's status.  The last draw of
\* a full table makes the game READY.
TakeRole(u, r) ==
    /\ u \in Active
    /\ number[u] # 0
    /\ DrawRole(u, r)
    /\ playerStatus' = [playerStatus EXCEPT ![u] = "ASSIGNED"]
    /\ MarkReadyIfDealt
    /\ UNCHANGED <<quantity, number, joinOrder, tx>>

(* assign_role *)
AssignRole(u, r) == MayActNow(u) /\ TakeRole(u, r)

\* Mutant: the assignment row is deleted, the slot not given back.
ReturnRole_SlotLost(u) ==
    /\ role' = [role EXCEPT ![u] = NoRole]
    /\ UNCHANGED remaining

\* The leaver's role, if any, goes back to the pool.
ReturnRole(u) ==
    /\ role' = [role EXCEPT ![u] = NoRole]
    /\ remaining' = IF role[u] = NoRole
                    THEN remaining
                    ELSE [remaining EXCEPT ![role[u]] = @ + 1]

\* Mutant: the seat stays with the row that left.
FreeSeat_KeepsNumber(u) ==
    /\ joinOrder' = [joinOrder EXCEPT ![u] = 0]
    /\ playerStatus' = [playerStatus EXCEPT ![u] = "LEFT"]
    /\ UNCHANGED number

FreeSeat(u) ==
    /\ number' = [number EXCEPT ![u] = 0]
    /\ joinOrder' = [joinOrder EXCEPT ![u] = 0]
    /\ playerStatus' = [playerStatus EXCEPT ![u] = "LEFT"]

\* Mutant: a departure leaves a READY game READY.
ReopenLobby_Forgotten == UNCHANGED status

ReopenLobby ==
    status' = IF status = "READY" THEN "WAITING_PLAYERS" ELSE status

(* leave_game: before the start only. *)
LeaveGame(u) ==
    /\ status \notin {"IN_PROGRESS", "FINISHED", "DELETED"}
    /\ u \in Active
    /\ ReturnRole(u)
    /\ FreeSeat(u)
    /\ ReopenLobby
    /\ UNCHANGED <<quantity, tx>>

-----------------------------------------------------------------------------

Init == LifecycleInit

LobbyNext ==
    \E u \in Users :
       \/ JoinGame(u)
       \/ \E n \in Seats : ChooseNumber(u, n)
       \/ \E r \in Roles : AssignRole(u, r)
       \/ LeaveGame(u)

Next == LobbyNext \/ LifecycleNext

vars == lifecycleVars

Spec == Init /\ [][Next]_vars

-----------------------------------------------------------------------------
(* Safety.                                                                 *)

\* The tables hold values of their columns' types.
TypeOK == RowsTypeOK /\ TxTypeOK

\* Role slots are conserved: across draws, departures and deletion, the slots
\* still in the pool and the slots in players' hands add up to the configured
\* quantity, role by role.  So remaining never leaves [0, quantity], the bounds
\* of the game_roles CHECK constraint, and no role is dealt twice too often.
RoleConservation ==
    \A r \in Roles : remaining[r] + Cardinality(Holders(r)) = quantity[r]

\* A role_assignments row exists exactly for the ASSIGNED players: leaving never
\* strands one, re-joining never inherits one and drawing never forgets the
\* status that the READY count is taken over.
RoleIffAssigned ==
    \A u \in Users : (playerStatus[u] = "ASSIGNED") <=> (role[u] # NoRole)

\* A seat the lobby offers (available_numbers) is one the unique constraint
\* accepts: no departed row keeps a number, a join order or a role behind.
DepartedHoldNothing ==
    \A u \in Users \ Active :
        number[u] = 0 /\ joinOrder[u] = 0 /\ role[u] = NoRole

\* The deal is strictly first come, first served: whoever has picked a seat has
\* only players with roles before them in the queue, even when dealt players
\* leave, come back at the end of the queue, and the table fills again.
DealtInJoinOrder ==
    \A u, v \in Active :
        joinOrder[u] < joinOrder[v] /\ playerStatus[v] # "JOINED"
            => playerStatus[u] = "ASSIGNED"

\* The queue is a total order: no two players share a place in it, so "the
\* current turn" names one player.
QueueIsStrict ==
    \A u, v \in Active :
        /\ joinOrder[u] # 0
        /\ joinOrder[u] = joinOrder[v] => u = v

\* The table never holds more players than it has seats.
NeverOverfull == Cardinality(Active) <= PlayerCount

\* READY is only ever seen over a complete deal: every seat has a player and
\* every player a role, although a departure may re-open the lobby at any time
\* and the creator's unlocked writes land between the lobby's own steps.
ReadyMeansDealt ==
    status = "READY" =>
        /\ Cardinality(Active) = PlayerCount
        /\ Active = Assigned

\* No complete deal is left behind in an open lobby, where nothing would ever
\* promote it: the creator could not start and nobody would be in turn.
DealtMeansReady ==
    status = "WAITING_PLAYERS" => Cardinality(Assigned) < PlayerCount

\* Whoever is in turn at a full table can act: there is a free seat to pick,
\* or, with a seat, a role left to draw.
TurnPlayerCanAct ==
    \A u \in Users :
        (status = "WAITING_PLAYERS" /\ MayActNow(u)) =>
            IF number[u] = 0
            THEN \E n \in FreeNumbers : SeatInsertable(n)
            ELSE \E r \in Roles : remaining[r] > 0

\* What configuration promised the lobby, one slot per seat, is true of every
\* game that was ever configured, started and finished ones included: no
\* unlocked start or finish lands on a game that has no pool.
PoolFitsTable ==
    status \notin {"CREATING", "DELETED"} => SlotCount(quantity) = PlayerCount

\* Deleting a game takes its players with it: no row survives for an
\* operation that does not look at the game's status (assign_role) to act on.
DeletedIsEmpty == status = "DELETED" => Active = {}

\* The invariants that carry each other through every step (LobbyProofs shows
\* that they do).
IInv ==
    /\ TypeOK
    /\ RoleConservation
    /\ RoleIffAssigned
    /\ DepartedHoldNothing
    /\ DealtInJoinOrder
    /\ QueueIsStrict
    /\ NeverOverfull
    /\ ReadyMeansDealt
    /\ DeletedIsEmpty

(* Action properties.                                                      *)

\* A deleted game stays deleted: an update that passed its check before the
\* delete neither revives the game nor leaves a row of it behind.
DeletedForGood ==
    [][status = "DELETED" => UNCHANGED gameRows]_vars

\* The lobby deals as Deal promises, with its counters left out: no slot is in
\* two hands, no player has two roles, and the pool grows by configuration only.
Dealing == INSTANCE Deal WITH pool <- quantity, hand <- role

ImplementsDeal == Dealing!DealSpec

=============================================================================
