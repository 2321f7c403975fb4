------------------------------- MODULE AutoDeal -----------------------------
(***************************************************************************)
(* AutoRoleAssignmentService: an AUTO_ROLE_ASSIGNMENT game, in which the   *)
(* message that joins a player also gives them the lowest free seat and a  *)
(* random role.  Joining and dealing are two service calls of one          *)
(* transaction, under one lock: one action.  A DomainError of the second   *)
(* call is caught by the handler, so the join then commits without what    *)
(* the call did not get to.  Departures and the creator's operations are   *)
(* the lobby's.                                                            *)
(***************************************************************************)
EXTENDS Lobby

-----------------------------------------------------------------------------

\* The first call, join_game, in a game that accepts players.
Joins(u) ==
    /\ status = "WAITING_PLAYERS"
    /\ u \notin Active
    /\ HasRoom
    /\ \E k \in 1..MaxJoinOrder :
          /\ IsNextJoinOrder(k)
          /\ joinOrder' = [joinOrder EXCEPT ![u] = k]

\* Mutant: the seats are counted, as if they were always taken in order.
LowestFree_ByCount(n) == n = Cardinality(Active) + 1

LowestFree(n) ==
    /\ n \in FreeNumbers
    /\ \A m \in FreeNumbers : n <= m

\* The seat has to pass the unique constraint; the joiner's own row was reset.
TakesSeat(u) ==
    IF FreeNumbers = {}
    THEN number' = [number EXCEPT ![u] = 0]
    ELSE \E n \in Seats :
            /\ LowestFree(n)
            /\ \A v \in Users \ {u} : number[v] # n
            /\ number' = [number EXCEPT ![u] = n]

\* _maybe_mark_ready
MaybeMarkReady == MarkReadyIfDealt

\* The draw, with the promotion of the game the last draw completes; without a
\* seat or without a role left it is NoRolesAvailableError, and the player has
\* joined all the same, with the seat if there was one.
TakesRole(u) ==
    IF FreeNumbers # {} /\ \E r \in Roles : remaining[r] > 0
    THEN /\ \E r \in Roles : DrawRole(u, r)
         /\ playerStatus' = [playerStatus EXCEPT ![u] = "ASSIGNED"]
         /\ MaybeMarkReady
    ELSE /\ playerStatus' = [playerStatus EXCEPT ![u] =
                               IF FreeNumbers = {} THEN "JOINED" ELSE "NUMBERED"]
         /\ UNCHANGED <<status, remaining, role>>

(* on_code_entered: join_game, then _auto_assign_on_join. *)
AutoJoin(u) ==
    /\ Joins(u)
    /\ TakesSeat(u)
    /\ TakesRole(u)
    /\ UNCHANGED <<quantity, tx>>

AutoNext ==
    \/ \E u \in Users : AutoJoin(u) \/ LeaveGame(u)
    \/ LifecycleNext

AutoSpec == Init /\ [][AutoNext]_vars

-----------------------------------------------------------------------------

\* "Immediately grant a seat number + random role": nobody is ever at the table
\* without a role.  The error path of the join is dead, because every way out of
\* the table gives back both the seat and the slot it took; were it not, the
\* undealt player would hold a place nobody could deal to.
EveryoneIsDealt == Active = Assigned

\* Whoever may join can be served: there is a seat the service would pick, it is
\* one the unique constraint accepts, and the pool has a role for it.
NextJoinIsServed ==
    status = "WAITING_PLAYERS" /\ HasRoom =>
        /\ \E n \in Seats : LowestFree(n) /\ SeatInsertable(n)
        /\ \E r \in Roles : remaining[r] > 0

=============================================================================
