---------------------------- MODULE RoleModeProofs --------------------------
(***************************************************************************)
(* The two other ways to deal, on join (AutoDeal) and by passing one phone *)
(* round (SingleDevice).  Both keep the books of the lobby and implement   *)
(* Deal, for every set of users and roles, every table size, any           *)
(* selections and any number of the creator's concurrent updates: also on  *)
(* the path on which a player sits down without a role, and when remote    *)
(* players join a phone's table until it is overfull.  And both deals go   *)
(* through: the path without a role is never taken by a player who joins,  *)
(* so that dealing on join keeps all of the lobby's invariant, and every   *)
(* free seat can be tapped while only the phone deals.                     *)
(***************************************************************************)
EXTENDS AutoDeal, SingleDevice, LobbyProofs

-----------------------------------------------------------------------------
(* Dealing on join.                                                        *)

\* Join, seat and role in one transaction, or as much of it as there was.
LEMMA AutoJoinKeeps ==
    ASSUME Books, NEW u \in Users, AutoJoin(u)
    PROVE  Books'
  <1> USE DEF Books
  <1>1. playerStatus \in [Users -> PlayerStatus]
        /\ number \in [Users -> 0..PlayerCount]
        /\ joinOrder \in [Users -> 0..MaxJoinOrder]
        /\ role \in [Users -> Roles \cup {NoRole}]
        /\ remaining \in [Roles -> Nat]
        /\ quantity \in [Roles -> Nat]
        /\ status = "WAITING_PLAYERS"
        /\ u \notin Active
        /\ UNCHANGED <<quantity, tx>>
    BY DEF TypeOK, RowsTypeOK, AutoJoin, Joins
  <1>2. joinOrder' \in [Users -> 0..MaxJoinOrder]
        /\ \A v \in Users \ {u} : joinOrder'[v] = joinOrder[v]
    BY <1>1, MaxJoinOrderNat DEF AutoJoin, Joins
  <1>3. number' \in [Users -> 0..PlayerCount]
        /\ \A v \in Users \ {u} : number'[v] = number[v]
    BY <1>1, PlayerCountPositive DEF AutoJoin, TakesSeat, Seats
  <1>4. PICK s \in ActiveStatuses : playerStatus' = [playerStatus EXCEPT ![u] = s]
    BY DEF AutoJoin, TakesRole, ActiveStatuses
  <1>5. Active' = Active \cup {u}
    BY <1>1, <1>4 DEF Active, PlayerStatus
  <1>6. DepartedHoldNothing' /\ DeletedIsEmpty'
    <2>1. \A v \in Users \ Active' : role'[v] = role[v]
      BY <1>1, <1>5 DEF AutoJoin, TakesRole, DrawRole
    <2>2. status' \in {"WAITING_PLAYERS", "READY"}
      BY <1>1 DEF AutoJoin, TakesRole, MaybeMarkReady, MarkReadyIfDealt
    <2>3. QED
      BY <1>2, <1>3, <1>5, <2>1, <2>2 DEF DepartedHoldNothing, DeletedIsEmpty
  <1>7. role[u] = NoRole /\ playerStatus[u] # "ASSIGNED"
    BY <1>1 DEF DepartedHoldNothing, Active, ActiveStatuses
  <1>8. CASE \E r \in Roles : DrawRole(u, r)
    <2>1. PICK r \in Roles : DrawRole(u, r)
      BY <1>8
    <2>2. playerStatus' = [playerStatus EXCEPT ![u] = "ASSIGNED"] /\ MarkReadyIfDealt
      BY <1>7, <2>1, NoRoleIsNotARole, <1>1
      DEF AutoJoin, TakesRole, MaybeMarkReady, DrawRole
    <2>3. TypeOK'
      BY <1>1, <1>2, <1>3, <1>4, <2>1, <2>2
      DEF TypeOK, RowsTypeOK, TxTypeOK, PlayerStatus, GameStatus, DrawRole,
          MarkReadyIfDealt
    <2>4. RoleConservation'
      BY <1>1, <2>1, DrawConserves
    <2>5. RoleIffAssigned'
      BY <1>1, <2>1, <2>2, NoRoleIsNotARole DEF RoleIffAssigned, DrawRole
    <2>6. ReadyMeansDealt'
      BY <1>1, <2>2, <2>3, PromotionIsEarned
    <2>7. QED
      BY <1>6, <2>3, <2>4, <2>5, <2>6
  <1>9. CASE ~ \E r \in Roles : DrawRole(u, r)
    <2>1. /\ UNCHANGED <<status, remaining, role>>
          /\ playerStatus'[u] # "ASSIGNED"
      BY <1>1, <1>9 DEF AutoJoin, TakesRole
    <2>2. TypeOK'
      BY <1>1, <1>2, <1>3, <1>4, <2>1
      DEF TypeOK, RowsTypeOK, TxTypeOK, PlayerStatus
    <2>3. RoleConservation' /\ RoleIffAssigned'
      BY <1>1, <1>4, <1>7, <2>1 DEF RoleConservation, RoleIffAssigned, Holders
    <2>4. ReadyMeansDealt'
      BY <1>1, <2>1 DEF ReadyMeansDealt
    <2>5. QED
      BY <1>6, <2>2, <2>3, <2>4
  <1>10. QED
    BY <1>8, <1>9

LEMMA AutoJoinImplements ==
    ASSUME Books, NEW u \in Users, AutoJoin(u)
    PROVE  Dealing!DealNext \/ UNCHANGED <<quantity, role>>
  <1>1. UNCHANGED quantity /\ ((\E r \in Roles : DrawRole(u, r)) \/ UNCHANGED role)
    BY DEF AutoJoin, TakesRole
  <1>2. QED
    BY <1>1, DrawImplements DEF Books

\* Roles, rows and status agree in every reachable state of a game that deals on
\* join (AutoRoleAssignmentService), the path without a role included.
THEOREM AutoDealKeepsBooks == AutoSpec => []Books
  <1>1. Init => Books
    BY InitIInv DEF IInv, Books
  <1>2. ASSUME Books, [AutoNext]_vars
        PROVE  Books'
    <2>1. CASE \E u \in Users : AutoJoin(u)
      BY <1>2, <2>1, AutoJoinKeeps
    <2>2. CASE \E u \in Users : LeaveGame(u)
      BY <1>2, <2>2, BooksHaveALedger, LeaveGameKeeps
    <2>3. CASE LifecycleNext
      BY <1>2, <2>3, BooksHaveALedger, LifecycleKeeps
    <2>4. CASE UNCHANGED vars
      BY <1>2, <2>4, BooksHaveALedger, StutterKeeps
    <2>5. QED
      BY <1>2, <2>1, <2>2, <2>3, <2>4 DEF AutoNext
  <1>3. QED
    BY <1>1, <1>2, PTL DEF AutoSpec

\* Dealing on join deals as Deal promises.
THEOREM AutoDealImplementsDeal == AutoSpec => ImplementsDeal
  <1>1. ASSUME Books, PendingIsSubmitted, [AutoNext]_vars
        PROVE  PendingIsSubmitted' /\ [Dealing!DealNext]_<<quantity, role>>
    <2>1. CASE \E u \in Users : AutoJoin(u) \/ LeaveGame(u)
      <3>1. UNCHANGED tx
        BY <2>1 DEF AutoJoin, LeaveGame
      <3>2. QED
        BY <1>1, <2>1, <3>1, PendingStep, AutoJoinImplements, PlayerImplements,
           BooksHaveALedger
        DEF Books, TypeOK
    <2>2. CASE LifecycleNext
      BY <1>1, <2>2, PendingStep, LifecycleImplements DEF Books, TypeOK
    <2>3. CASE UNCHANGED vars
      BY <1>1, <2>3, PendingStep DEF Books, TypeOK, vars, lifecycleVars, gameRows
    <2>4. QED
      BY <1>1, <2>1, <2>2, <2>3 DEF AutoNext
  <1>2. QED
    BY <1>1, AutoDealKeepsBooks, InitImplements, PTL
    DEF AutoSpec, ImplementsDeal, Dealing!DealSpec, Dealing!dealVars

-----------------------------------------------------------------------------
(* Joining always deals.                                                   *)

\* Any set of numbers that is not empty has a least one.
LEMMA LeastNumber ==
    ASSUME NEW S \in SUBSET Nat, S # {}
    PROVE  \E n \in S : \A m \in S : n <= m
  <1> DEFINE UpTo == {1..n : n \in S}
  <1>1. UpTo \subseteq FiniteSubsetsOf(Nat)
    <2>1. \A n \in Nat : 1..n \subseteq Nat /\ IsFiniteSet(1..n)
      BY FS_Interval
    <2>2. QED
      BY <2>1 DEF FiniteSubsetsOf
  <1>2. UpTo # {}
    OBVIOUS
  <1>3. IsWellFoundedOn(StrictSubsetOrdering(Nat), FiniteSubsetsOf(Nat))
    BY FS_StrictSubsetOrderingWellFounded
  <1>4. PICK I \in UpTo : \A J \in UpTo : <<J, I>> \notin StrictSubsetOrdering(Nat)
    <2> HIDE DEF UpTo
    <2>1. QED
      BY <1>1, <1>2, <1>3, WFMin
  <1>5. PICK n \in S : I = 1..n
    OBVIOUS
  <1>6. ASSUME NEW m \in S, m < n
        PROVE  FALSE
    <2>1. n \in Nat /\ m \in Nat
      OBVIOUS
    <2>2. 1..m \subseteq 1..n /\ n \in 1..n /\ n \notin 1..m
      BY <1>6, <2>1
    <2>3. <<1..m, 1..n>> \in StrictSubsetOrdering(Nat)
      BY <2>1, <2>2 DEF StrictSubsetOrdering
    <2>4. QED
      BY <1>4, <1>5, <2>3
  <1>7. QED
    BY <1>6

\* Where everyone has a role and there is room, the service finds a seat the
\* constraint accepts and a role.
LEMMA RoomIsServed ==
    ASSUME Books, Stocked, EveryoneIsDealt, status = "WAITING_PLAYERS", HasRoom
    PROVE  /\ \E n \in Seats : LowestFree(n) /\ SeatInsertable(n)
           /\ \E r \in Roles : remaining[r] > 0
  <1>1. Active \in SUBSET Users /\ Cardinality(Active) < PlayerCount
    BY DEF HasRoom, Active
  <1>2. FreeNumbers # {}
    BY <1>1, SeatIsFree
  <1>3. FreeNumbers \in SUBSET Nat
    BY DEF FreeNumbers, Seats
  <1>4. PICK n \in FreeNumbers : \A m \in FreeNumbers : n <= m
    BY <1>2, <1>3, LeastNumber
  <1>5. n \in Seats /\ LowestFree(n) /\ SeatInsertable(n)
    BY <1>4, FreeSeatIsInsertable DEF LowestFree
  <1>6. \E r \in Roles : remaining[r] > 0
    BY <1>1, StockedPoolHasARole DEF EveryoneIsDealt, Unopened
  <1>7. QED
    BY <1>5, <1>6

\* So the join comes with a role.
LEMMA AutoJoinDeals ==
    ASSUME Books, Stocked, EveryoneIsDealt, NEW u \in Users, AutoJoin(u)
    PROVE  Stocked' /\ EveryoneIsDealt'
  <1>1. /\ status = "WAITING_PLAYERS" /\ HasRoom
        /\ playerStatus \in [Users -> PlayerStatus]
        /\ UNCHANGED <<quantity, tx>>
    BY DEF AutoJoin, Joins, Books, TypeOK, RowsTypeOK
  <1>2. /\ FreeNumbers # {}
        /\ \E r \in Roles : remaining[r] > 0
    BY <1>1, RoomIsServed DEF LowestFree
  <1>3. playerStatus' = [playerStatus EXCEPT ![u] = "ASSIGNED"] /\ MarkReadyIfDealt
    BY <1>2 DEF AutoJoin, TakesRole, MaybeMarkReady
  <1>4. EveryoneIsDealt'
    BY <1>1, <1>3 DEF EveryoneIsDealt, Active, Assigned, ActiveStatuses
  <1>5. Stocked'
    BY <1>1, <1>3, PlayersKeepStocked DEF MarkReadyIfDealt, Unopened
  <1>6. QED
    BY <1>4, <1>5

\* The books, the pool and the deal of a game that deals on join.
LEMMA AutoDealInvariant == AutoSpec => [](Books /\ Stocked /\ EveryoneIsDealt)
  <1>1. Init => Stocked /\ EveryoneIsDealt
    BY InitStocked
    DEF Init, LifecycleInit, RowsInit, EveryoneIsDealt, Active, Assigned,
        ActiveStatuses
  <1>2. ASSUME Books, Stocked, EveryoneIsDealt, [AutoNext]_vars
        PROVE  Stocked' /\ EveryoneIsDealt'
    <2>1. CASE \E u \in Users : AutoJoin(u)
      BY <1>2, <2>1, AutoJoinDeals
    <2>2. ASSUME NEW u \in Users, LeaveGame(u)
          PROVE  Stocked' /\ EveryoneIsDealt'
      <3>1. Stocked'
        BY <1>2, <2>2, PlayerStepsAreOpen
      <3>2. playerStatus \in [Users -> PlayerStatus]
        BY <1>2 DEF Books, TypeOK, RowsTypeOK
      <3>3. Active' = Active \ {u} /\ Assigned' = Assigned \ {u}
        BY <2>2, <3>2 DEF LeaveGame, FreeSeat, Active, Assigned, ActiveStatuses
      <3>4. QED
        BY <1>2, <3>1, <3>3 DEF EveryoneIsDealt
    <2>3. CASE LifecycleNext
      <3>1. Stocked'
        BY <1>2, <2>3, LifecycleKeepsStocked DEF Books
      <3>2. \/ playerStatus' = playerStatus
            \/ playerStatus' = [v \in Users |-> "NONE"]
        BY <2>3 DEF LifecycleNext, DeleteGame, ConfigureRead, ConfigureWrite,
                    StartRead, StartWrite, FinishRead, FinishWrite, Rollback,
                    gameRows, seatRows
      <3>3. QED
        BY <1>2, <3>1, <3>2 DEF EveryoneIsDealt, Active, Assigned, ActiveStatuses
    <2>4. CASE UNCHANGED vars
      BY <1>2, <2>4, StutterKeepsStocked
      DEF vars, lifecycleVars, gameRows, EveryoneIsDealt, Active, Assigned
    <2>5. QED
      BY <1>2, <2>1, <2>2, <2>3, <2>4 DEF AutoNext
  <1>3. QED
    BY <1>1, <1>2, AutoDealKeepsBooks, PTL DEF AutoSpec

\* Nobody is ever at the table without a role: the error path of
\* _auto_assign_on_join is dead, for every table size, every history of joins and
\* departures and whatever updates of the creator overlap.
THEOREM JoiningDeals == AutoSpec => []EveryoneIsDealt
  BY AutoDealInvariant, PTL

\* Where there is room, the next joiner is served a seat and a role
\* (assign_for_player).
THEOREM RoomMeansService == AutoSpec => []NextJoinIsServed
  <1>1. Books /\ Stocked /\ EveryoneIsDealt => NextJoinIsServed
    BY RoomIsServed DEF NextJoinIsServed
  <1>2. QED
    BY <1>1, AutoDealInvariant, PTL

\* The joiner goes to the end of the queue, which everyone leaves with a role.
LEMMA AutoJoinQueues ==
    ASSUME Books, QueueIsStrict, EveryoneIsDealt', NEW u \in Users, AutoJoin(u)
    PROVE  Turns'
  <1>1. PICK k \in 1..MaxJoinOrder :
            IsNextJoinOrder(k) /\ joinOrder' = [joinOrder EXCEPT ![u] = k]
    BY DEF AutoJoin, Joins
  <1>2. /\ playerStatus \in [Users -> PlayerStatus]
        /\ joinOrder \in [Users -> 0..MaxJoinOrder]
        /\ Cardinality(Active) < PlayerCount
    BY DEF Books, TypeOK, RowsTypeOK, AutoJoin, Joins, HasRoom
  <1>3. Active' = Active \cup {u}
    <2>1. PICK s \in ActiveStatuses : playerStatus' = [playerStatus EXCEPT ![u] = s]
      BY DEF AutoJoin, TakesRole, ActiveStatuses
    <2>2. QED
      BY <1>2, <2>1 DEF Active
  <1>4. QueueIsStrict'
    BY <1>1, <1>2, <1>3, MaxJoinOrderNat DEF QueueIsStrict, IsNextJoinOrder, Active
  <1>5. NeverOverfull'
    <2>1. IsFiniteSet(Active) /\ Cardinality(Active) \in Nat /\ u \notin Active
      BY CountsAreNat DEF AutoJoin, Joins
    <2>2. Cardinality(Active \cup {u}) = Cardinality(Active) + 1
      BY <2>1, FS_AddElement
    <2>3. Cardinality(Active') <= PlayerCount
      BY <1>2, <1>3, <2>1, <2>2, PlayerCountPositive
    <2>4. QED
      BY <2>3 DEF NeverOverfull
  <1>6. DealtInJoinOrder'
    BY DEF EveryoneIsDealt, DealtInJoinOrder, Assigned
  <1>7. QED
    BY <1>4, <1>5, <1>6 DEF Turns

\* Every invariant of the turn-based lobby is one of a game that deals on join:
\* one queue, a table that is never overfull, READY over a complete deal only, no
\* row left behind (AutoRoleAssignmentService keeps what LobbyService keeps).
THEOREM AutoDealKeepsTheTable == AutoSpec => []IInv
  <1>1. Init => Turns
    BY InitIInv DEF IInv, Turns
  <1>2. ASSUME Books, Turns, EveryoneIsDealt', [AutoNext]_vars
        PROVE  Turns'
    <2>1. CASE \E u \in Users : AutoJoin(u)
      BY <1>2, <2>1, AutoJoinQueues DEF Turns
    <2>2. CASE \E u \in Users : LeaveGame(u)
      BY <1>2, <2>2, BooksHaveALedger, LeaveGameKeeps
    <2>3. CASE LifecycleNext
      BY <1>2, <2>3, BooksHaveALedger, LifecycleKeeps
    <2>4. CASE UNCHANGED vars
      BY <1>2, <2>4, BooksHaveALedger, StutterKeeps
    <2>5. QED
      BY <1>2, <2>1, <2>2, <2>3, <2>4 DEF AutoNext
  <1>3. Books /\ Turns => IInv
    BY DEF Books, Turns, IInv
  <1>4. QED
    BY <1>1, <1>2, <1>3, AutoDealInvariant, PTL DEF AutoSpec

\* Deletion is final where players are dealt on join.
THEOREM AutoDealDeletionIsFinal == AutoSpec => DeletedForGood
  <1>1. ASSUME Books, [AutoNext]_vars
        PROVE  [status = "DELETED" => UNCHANGED gameRows]_vars
    <2> SUFFICES ASSUME status = "DELETED" PROVE UNCHANGED gameRows
      OBVIOUS
    <2>1. ASSUME NEW u \in Users
          PROVE  ~AutoJoin(u) /\ ~LeaveGame(u)
      BY DEF AutoJoin, Joins, LeaveGame
    <2>2. QED
      BY <1>1, <2>1, DeletedForTheCreator DEF AutoNext, vars, lifecycleVars
  <1>2. QED
    BY <1>1, AutoDealKeepsBooks, PTL DEF AutoSpec, DeletedForGood

\* The join that completes a deal promotes the game, and the pool is the one the
\* game was opened with (_maybe_mark_ready, configure_roles).
THEOREM AutoDealLeavesNoDealBehind ==
    ConfigurationsCollide => (AutoSpec => [](PoolFitsTable /\ DealtMeansReady))
  <1> SUFFICES ASSUME ConfigurationsCollide
               PROVE  AutoSpec => [](PoolFitsTable /\ DealtMeansReady)
    OBVIOUS
  <1>1. ASSUME Books, Stocked, EveryoneIsDealt, OpenedOnce, DealtMeansReady,
               NeverOverfull, NeverOverfull', [AutoNext]_vars
        PROVE  OpenedOnce' /\ DealtMeansReady'
    <2>1. ASSUME NEW u \in Users, AutoJoin(u)
          PROVE  OpenedOnce' /\ DealtMeansReady'
      <3>1. EveryoneIsDealt'
        BY <1>1, <2>1, AutoJoinDeals
      <3>2. /\ status = "WAITING_PLAYERS" /\ status' \in {"WAITING_PLAYERS", "READY"}
            /\ UNCHANGED <<quantity, tx>>
        BY <2>1 DEF AutoJoin, Joins, TakesRole, MaybeMarkReady, MarkReadyIfDealt
      <3>3. OpenedOnce'
        BY <1>1, <3>2 DEF OpenedOnce, Unopened, FillsTable, Insertable
      <3>4. status' = "WAITING_PLAYERS" => Cardinality(Active') # PlayerCount
        <4>1. /\ FreeNumbers # {}
              /\ \E r \in Roles : remaining[r] > 0
          BY <1>1, <2>1, RoomIsServed DEF AutoJoin, Joins, LowestFree
        <4>2. MarkReadyIfDealt
          BY <2>1, <4>1 DEF AutoJoin, TakesRole, MaybeMarkReady
        <4>3. QED
          BY <3>1, <3>2, <4>2 DEF MarkReadyIfDealt, EveryoneIsDealt
      <3>5. Active' \in SUBSET Users
        BY DEF Active
      <3>6. DealtMeansReady'
        BY <1>1, <3>1, <3>4, <3>5, UserSetsFinite, PlayerCountPositive
        DEF DealtMeansReady, EveryoneIsDealt, NeverOverfull
      <3>7. QED
        BY <3>3, <3>6
    <2>2. CASE [Next]_vars
      BY <1>1, <2>2, PoolStep DEF Books
    <2>3. QED
      BY <1>1, <2>1, <2>2 DEF AutoNext, Next, LobbyNext
  <1>2. IInv => NeverOverfull
    BY DEF IInv
  <1>3. QED
    BY <1>1, <1>2, InitPool, OpenedPoolFits, AutoDealInvariant, AutoDealKeepsTheTable, PTL
    DEF AutoSpec

-----------------------------------------------------------------------------
(* Passing the phone round.                                                *)

\* A seat's player comes with the tap, with a role if there is one.
LEMMA ClaimSeatKeeps ==
    ASSUME Books, NEW n \in Seats, ClaimSeat(n)
    PROVE  Books'
  <1> USE DEF Books
  <1> DEFINE u == SeatUser[n]
  <1>0. u \in Users
    BY SeatUsersDistinct
  <1>1. playerStatus \in [Users -> PlayerStatus]
        /\ number \in [Users -> 0..PlayerCount]
        /\ joinOrder \in [Users -> 0..MaxJoinOrder]
        /\ role \in [Users -> Roles \cup {NoRole}]
        /\ remaining \in [Roles -> Nat]
        /\ quantity \in [Roles -> Nat]
        /\ status = "WAITING_PLAYERS"
        /\ playerStatus[u] = "NONE"
        /\ UNCHANGED <<quantity, tx>>
    BY DEF TypeOK, RowsTypeOK, ClaimSeat, SeatClaimable
  <1>2. joinOrder' \in [Users -> 0..MaxJoinOrder]
        /\ \A v \in Users \ {u} : joinOrder'[v] = joinOrder[v]
    BY <1>0, <1>1, MaxJoinOrderNat DEF ClaimSeat
  <1>3. number' \in [Users -> 0..PlayerCount]
        /\ \A v \in Users \ {u} : number'[v] = number[v]
    BY <1>0, <1>1, PlayerCountPositive DEF ClaimSeat, Seats
  <1>4. PICK s \in {"NUMBERED", "ASSIGNED"} :
           playerStatus' = [playerStatus EXCEPT ![u] = s]
    BY DEF ClaimSeat
  <1>5. Active' = Active \cup {u}
    BY <1>0, <1>1, <1>4 DEF Active, PlayerStatus, ActiveStatuses
  <1>6. DepartedHoldNothing' /\ DeletedIsEmpty'
    <2>1. \A v \in Users \ Active' : role'[v] = role[v]
      BY <1>0, <1>1, <1>5 DEF ClaimSeat, DrawRole
    <2>2. status' \in {"WAITING_PLAYERS", "READY"}
      BY <1>1 DEF ClaimSeat, Promotes, MarkReadyIfDealt
    <2>3. QED
      BY <1>2, <1>3, <1>5, <2>1, <2>2 DEF DepartedHoldNothing, DeletedIsEmpty
  <1>7. role[u] = NoRole
    BY <1>0, <1>1 DEF DepartedHoldNothing, Active, ActiveStatuses
  <1>8. CASE \E r \in Roles : DrawRole(u, r)
    <2>1. PICK r \in Roles : DrawRole(u, r)
      BY <1>8
    <2>2. playerStatus' = [playerStatus EXCEPT ![u] = "ASSIGNED"] /\ MarkReadyIfDealt
      BY <2>1 DEF ClaimSeat, Promotes, DrawRole
    <2>3. TypeOK'
      BY <1>0, <1>1, <1>2, <1>3, <2>1, <2>2
      DEF TypeOK, RowsTypeOK, TxTypeOK, PlayerStatus, ActiveStatuses, GameStatus,
          DrawRole, MarkReadyIfDealt
    <2>4. RoleConservation'
      BY <1>0, <1>1, <2>1, DrawConserves
    <2>5. RoleIffAssigned'
      BY <1>0, <1>1, <2>1, <2>2, NoRoleIsNotARole DEF RoleIffAssigned, DrawRole
    <2>6. ReadyMeansDealt'
      BY <1>1, <2>2, <2>3, PromotionIsEarned
    <2>7. QED
      BY <1>6, <2>3, <2>4, <2>5, <2>6
  <1>9. CASE ~ \E r \in Roles : DrawRole(u, r)
    <2>1. /\ UNCHANGED <<status, remaining, role>>
          /\ playerStatus' = [playerStatus EXCEPT ![u] = "NUMBERED"]
      BY <1>9 DEF ClaimSeat
    <2>2. TypeOK'
      BY <1>1, <1>2, <1>3, <1>4, <2>1
      DEF TypeOK, RowsTypeOK, TxTypeOK, PlayerStatus, ActiveStatuses
    <2>3. RoleConservation' /\ RoleIffAssigned'
      BY <1>0, <1>1, <1>7, <2>1 DEF RoleConservation, RoleIffAssigned, Holders
    <2>4. ReadyMeansDealt'
      BY <1>1, <2>1 DEF ReadyMeansDealt
    <2>5. QED
      BY <1>6, <2>2, <2>3, <2>4
  <1>10. QED
    BY <1>8, <1>9

LEMMA ClaimSeatImplements ==
    ASSUME Books, NEW n \in Seats, ClaimSeat(n)
    PROVE  Dealing!DealNext \/ UNCHANGED <<quantity, role>>
  <1>1. SeatUser[n] \in Users
    BY SeatUsersDistinct
  <1>2. /\ UNCHANGED quantity
        /\ (\E r \in Roles : DrawRole(SeatUser[n], r)) \/ UNCHANGED role
    BY DEF ClaimSeat
  <1>3. QED
    BY <1>1, <1>2, DrawImplements DEF Books

\* Roles, rows and status agree in every reachable state of a pass-the-phone game
\* (SingleDeviceService), whoever else enters its code.
THEOREM SingleDeviceKeepsBooks == SingleDeviceSpec => []Books
  <1>1. Init => Books
    BY InitIInv DEF IInv, Books
  <1>2. ASSUME Books, [SingleDeviceNext]_vars
        PROVE  Books'
    <2>1. CASE \E n \in Seats : ClaimSeat(n)
      BY <1>2, <2>1, ClaimSeatKeeps
    <2>2. CASE RemoteNext
      <3>1. PICK u \in Users :
               \/ JoinGame(u)
               \/ \E n \in Seats : ChooseNumber(u, n)
               \/ \E r \in Roles : AssignRole(u, r)
               \/ LeaveGame(u)
        BY <2>2 DEF RemoteNext, Remote
      <3>2. QED
        BY <1>2, <3>1, BooksHaveALedger, JoinGameKeeps, TurnKeeps,
           LeaveGameKeeps
    <2>3. CASE LifecycleNext
      BY <1>2, <2>3, BooksHaveALedger, LifecycleKeeps
    <2>4. CASE UNCHANGED vars
      BY <1>2, <2>4, BooksHaveALedger, StutterKeeps
    <2>5. QED
      BY <1>2, <2>1, <2>2, <2>3, <2>4 DEF SingleDeviceNext
  <1>3. QED
    BY <1>1, <1>2, PTL DEF SingleDeviceSpec

\* The pass-the-phone game deals as Deal promises, mixed with turn-based players.
THEOREM SingleDeviceImplementsDeal == SingleDeviceSpec => ImplementsDeal
  <1>1. ASSUME Books, PendingIsSubmitted, [SingleDeviceNext]_vars
        PROVE  PendingIsSubmitted' /\ [Dealing!DealNext]_<<quantity, role>>
    <2>1. CASE \E n \in Seats : ClaimSeat(n)
      <3>1. UNCHANGED tx
        BY <2>1 DEF ClaimSeat
      <3>2. QED
        BY <1>1, <2>1, <3>1, PendingStep, ClaimSeatImplements DEF Books, TypeOK
    <2>2. CASE RemoteNext
      <3>1. PICK u \in Users :
               \/ JoinGame(u)
               \/ \E n \in Seats : ChooseNumber(u, n)
               \/ \E r \in Roles : AssignRole(u, r)
               \/ LeaveGame(u)
        BY <2>2 DEF RemoteNext, Remote
      <3>2. UNCHANGED tx
        BY <3>1 DEF JoinGame, ChooseNumber, TakeSeat, AssignRole, TakeRole, LeaveGame
      <3>3. QED
        BY <1>1, <3>1, <3>2, PendingStep, PlayerImplements, BooksHaveALedger
        DEF ChooseNumber, AssignRole, Books, TypeOK
    <2>3. CASE LifecycleNext
      BY <1>1, <2>3, PendingStep, LifecycleImplements DEF Books, TypeOK
    <2>4. CASE UNCHANGED vars
      BY <1>1, <2>4, PendingStep DEF Books, TypeOK, vars, lifecycleVars, gameRows
    <2>5. QED
      BY <1>1, <2>1, <2>2, <2>3, <2>4 DEF SingleDeviceNext
  <1>2. QED
    BY <1>1, SingleDeviceKeepsBooks, InitImplements, PTL
    DEF SingleDeviceSpec, ImplementsDeal, Dealing!DealSpec, Dealing!dealVars

-----------------------------------------------------------------------------
(* While only the phone deals.                                             *)

\* A seat's player is there with the seat's own number, or not at all; and with
\* nobody else at the table, everybody has a role and a complete deal is READY.
PhoneInOrder ==
    /\ \A n \in Seats :
          LET u == SeatUser[n] IN
          /\ playerStatus[u] \in {"NONE", "NUMBERED", "ASSIGNED"}
          /\ playerStatus[u] # "NONE" => number[u] = n
    /\ PhoneOnly => Active = Assigned /\ DealtMeansReady

\* Whoever is not a seat's player is a remote user, and conversely.
LEMMA RemoteOrSeat ==
    /\ \A u \in Users : u \in Remote \/ \E n \in Seats : u = SeatUser[n]
    /\ \A n \in Seats : SeatUser[n] \in Users /\ SeatUser[n] \notin Remote
    /\ Remote \subseteq Users
  BY SeatUsersDistinct DEF Remote

\* Between the phone's taps, the free seats are those of players not there yet.
LEMMA FreeSeatIsClaimable ==
    ASSUME Books, PhoneInOrder, NEW n \in FreeNumbers
    PROVE  SeatClaimable(n)
  <1>1. n \in Seats /\ SeatInsertable(n)
    BY FreeSeatIsInsertable
  <1>2. SeatUser[n] \in Users
    BY <1>1, RemoteOrSeat
  <1>3. playerStatus[SeatUser[n]] = "NONE"
    BY <1>1, <1>2
    DEF PhoneInOrder, FreeNumbers, TakenNumbers, Active, ActiveStatuses, Seats
  <1>4. QED
    BY <1>1, <1>3 DEF SeatClaimable

\* A tap brings the seat's player, with the seat's number.
LEMMA ClaimSeatInOrder ==
    ASSUME Books, Stocked, PhoneInOrder, NEW n \in Seats, ClaimSeat(n)
    PROVE  Stocked' /\ PhoneInOrder'
  <1> DEFINE u == SeatUser[n]
  <1>1. /\ playerStatus \in [Users -> PlayerStatus]
        /\ number \in [Users -> 0..PlayerCount]
        /\ u \in Users /\ playerStatus[u] = "NONE"
        /\ status = "WAITING_PLAYERS" /\ UNCHANGED <<quantity, tx>>
        /\ number' = [number EXCEPT ![u] = n]
    BY RemoteOrSeat DEF Books, TypeOK, RowsTypeOK, ClaimSeat, SeatClaimable
  <1>2. PICK s \in {"NUMBERED", "ASSIGNED"} :
           playerStatus' = [playerStatus EXCEPT ![u] = s]
    BY DEF ClaimSeat
  <1>3. \A m \in Seats :
           /\ playerStatus'[SeatUser[m]] \in {"NONE", "NUMBERED", "ASSIGNED"}
           /\ playerStatus'[SeatUser[m]] # "NONE" => number'[SeatUser[m]] = m
    <2> SUFFICES ASSUME NEW m \in Seats
                 PROVE  /\ playerStatus'[SeatUser[m]] \in {"NONE", "NUMBERED", "ASSIGNED"}
                        /\ playerStatus'[SeatUser[m]] # "NONE" => number'[SeatUser[m]] = m
      OBVIOUS
    <2>1. CASE m = n
      BY <1>1, <1>2, <2>1
    <2>2. CASE m # n
      <3>1. SeatUser[m] # u /\ SeatUser[m] \in Users
        BY <2>2, SeatUsersDistinct
      <3>2. QED
        BY <1>1, <1>2, <3>1 DEF PhoneInOrder
    <2>3. QED
      BY <2>1, <2>2
  <1>4. ASSUME PhoneOnly'
        PROVE  Active' = Assigned' /\ DealtMeansReady'
    <2>1. PhoneOnly
      BY <1>1, <1>2, <1>4, RemoteOrSeat DEF PhoneOnly
    <2>2. Active = Assigned /\ Cardinality(Assigned) < PlayerCount
      BY <1>1, <2>1 DEF PhoneInOrder, DealtMeansReady
    <2>3. \E r \in Roles : remaining[r] > 0
      BY <1>1, <2>2, StockedPoolHasARole DEF Unopened
    <2>4. playerStatus' = [playerStatus EXCEPT ![u] = "ASSIGNED"] /\ MarkReadyIfDealt
      BY <2>3 DEF ClaimSeat, Promotes
    <2>5. /\ Active' = Assigned' /\ Assigned' = Assigned \cup {u}
          /\ u \notin Assigned
      BY <1>1, <2>2, <2>4 DEF Active, Assigned, ActiveStatuses
    <2>6. /\ Cardinality(Assigned') = Cardinality(Assigned) + 1
          /\ Cardinality(Assigned) \in Nat
      BY <2>5, CountsAreNat, FS_AddElement
    <2>7. DealtMeansReady'
      BY <1>1, <2>2, <2>4, <2>5, <2>6, PlayerCountPositive
      DEF DealtMeansReady, MarkReadyIfDealt
    <2>8. QED
      BY <2>5, <2>7
  <1>5. Stocked'
    <2>1. status' \in {"WAITING_PLAYERS", "READY"}
      BY <1>1 DEF ClaimSeat, Promotes, MarkReadyIfDealt
    <2>2. QED
      BY <1>1, <2>1, PlayersKeepStocked DEF Unopened
  <1>6. QED
    BY <1>3, <1>4, <1>5 DEF PhoneInOrder

\* A remote user's operation leaves the seats' players alone, and afterwards the
\* table is not the phone's alone.
LEMMA RemoteInOrder ==
    ASSUME Books, PhoneInOrder, NEW u \in Remote,
           \/ JoinGame(u)
           \/ \E n \in Seats : ChooseNumber(u, n)
           \/ \E r \in Roles : AssignRole(u, r)
           \/ LeaveGame(u)
    PROVE  PhoneInOrder'
  <1>1. /\ playerStatus \in [Users -> PlayerStatus]
        /\ number \in [Users -> 0..PlayerCount]
        /\ u \in Users
    BY RemoteOrSeat DEF Books, TypeOK, RowsTypeOK
  <1>2. PICK s \in PlayerStatus \ {"NONE"}, n \in 0..PlayerCount :
           /\ playerStatus' = [playerStatus EXCEPT ![u] = s]
           /\ number' = [number EXCEPT ![u] = n]
    <2>1. CASE JoinGame(u) \/ LeaveGame(u)
      BY <1>1, <2>1, PlayerCountPositive
      DEF JoinGame, LeaveGame, FreeSeat, PlayerStatus, ActiveStatuses
    <2>2. CASE \E n \in Seats : ChooseNumber(u, n)
      <3>1. PICK n \in Seats : ChooseNumber(u, n)
        BY <2>2
      <3>2. /\ playerStatus' = [playerStatus EXCEPT ![u] = "NUMBERED"]
            /\ number' = [number EXCEPT ![u] = n]
            /\ n \in 0..PlayerCount
        BY <3>1, PlayerCountPositive DEF ChooseNumber, TakeSeat, Seats
      <3>3. QED
        BY <3>2 DEF PlayerStatus, ActiveStatuses
    <2>3. CASE \E r \in Roles : AssignRole(u, r)
      <3>1. /\ playerStatus' = [playerStatus EXCEPT ![u] = "ASSIGNED"]
            /\ number' = [number EXCEPT ![u] = number[u]]
        BY <1>1, <2>3 DEF AssignRole, TakeRole
      <3>2. QED
        BY <1>1, <3>1 DEF PlayerStatus, ActiveStatuses
    <2>4. QED
      BY <2>1, <2>2, <2>3
  <1>3. ~PhoneOnly'
    BY <1>1, <1>2 DEF PhoneOnly
  <1>4. \A m \in Seats : /\ playerStatus'[SeatUser[m]] = playerStatus[SeatUser[m]]
                          /\ number'[SeatUser[m]] = number[SeatUser[m]]
    BY <1>1, <1>2, RemoteOrSeat
  <1>5. QED
    BY <1>3, <1>4 DEF PhoneInOrder

\* The creator changes no row of an open game, or deletes the game.
LEMMA LifecycleInOrder ==
    ASSUME ConfigurationsCollide, Books, Stocked, OpenedOnce, PhoneInOrder,
           LifecycleNext
    PROVE  PhoneInOrder'
  <1>1. CASE DeleteGame
    BY <1>1, RemoteOrSeat
    DEF DeleteGame, PhoneInOrder, Active, Assigned, ActiveStatuses, DealtMeansReady
  <1>2. CASE ~DeleteGame
    <2>1. UNCHANGED <<playerStatus, number>>
      BY <1>2 DEF LifecycleNext, ConfigureRead, ConfigureWrite, StartRead, StartWrite,
                  FinishRead, FinishWrite, Rollback, gameRows, seatRows
    <2>2. PhoneOnly' = PhoneOnly /\ UNCHANGED <<Active, Assigned>>
      BY <2>1 DEF PhoneOnly, Active, Assigned
    <2>3. PhoneOnly => DealtMeansReady'
      BY LifecycleKeepsDealtMeansReady DEF PhoneInOrder, Books
    <2>4. QED
      BY <2>1, <2>2, <2>3 DEF PhoneInOrder
  <1>3. QED
    BY <1>1, <1>2

\* In every reachable state of a pass-the-phone game.
LEMMA PhoneInvariant ==
    ASSUME ConfigurationsCollide
    PROVE  SingleDeviceSpec => [](Books /\ Stocked /\ OpenedOnce /\ PhoneInOrder)
  <1>1. Init => Stocked /\ OpenedOnce /\ PhoneInOrder
    <2>1. Init => PhoneInOrder
      BY RemoteOrSeat
      DEF Init, LifecycleInit, RowsInit, PhoneInOrder, Active, Assigned,
          ActiveStatuses, DealtMeansReady
    <2>2. QED
      BY <2>1, InitStocked, InitOpenedOnce
  <1>2. ASSUME Books, Stocked, OpenedOnce, PhoneInOrder, [SingleDeviceNext]_vars
        PROVE  Stocked' /\ OpenedOnce' /\ PhoneInOrder'
    <2>1. CASE \E n \in Seats : ClaimSeat(n)
      <3>1. /\ status \notin Unopened /\ status' \notin Unopened
            /\ UNCHANGED <<quantity, tx>>
        BY <2>1 DEF ClaimSeat, Promotes, MarkReadyIfDealt, Unopened
      <3>2. OpenedOnce'
        BY <1>2, <3>1 DEF OpenedOnce, FillsTable, Insertable
      <3>3. QED
        BY <1>2, <2>1, <3>2, ClaimSeatInOrder
    <2>2. CASE RemoteNext
      <3>1. PICK u \in Remote :
               \/ JoinGame(u)
               \/ \E n \in Seats : ChooseNumber(u, n)
               \/ \E r \in Roles : AssignRole(u, r)
               \/ LeaveGame(u)
        BY <2>2 DEF RemoteNext
      <3>2. u \in Users
        BY RemoteOrSeat
      <3>3. /\ status \notin Unopened /\ status' \in {status, "READY", "WAITING_PLAYERS"}
            /\ UNCHANGED <<quantity, tx>>
            /\ Stocked'
        BY <1>2, <3>1, <3>2, PlayerStepsAreOpen
        DEF ChooseNumber, AssignRole
      <3>4. OpenedOnce'
        BY <1>2, <3>3 DEF OpenedOnce, Unopened, FillsTable, Insertable
      <3>5. QED
        BY <1>2, <3>1, <3>3, <3>4, RemoteInOrder
    <2>3. CASE LifecycleNext
      BY <1>2, <2>3, LifecycleKeepsStocked, LifecycleKeepsOpenedOnce, LifecycleInOrder
      DEF Books
    <2>4. CASE UNCHANGED vars
      <3>1. OpenedOnce' /\ PhoneInOrder'
        BY <1>2, <2>4
        DEF vars, lifecycleVars, gameRows, OpenedOnce, FillsTable, Insertable,
            PhoneInOrder, PhoneOnly, Active, Assigned, DealtMeansReady
      <3>2. QED
        BY <1>2, <2>4, <3>1, StutterKeepsStocked
    <2>5. QED
      BY <1>2, <2>1, <2>2, <2>3, <2>4 DEF SingleDeviceNext
  <1>3. QED
    BY <1>1, <1>2, SingleDeviceKeepsBooks, PTL DEF SingleDeviceSpec

\* While only the phone deals, it can go round: every free seat can be tapped, and
\* the pool has a role for it, until the last one makes the game READY
\* (claim_seat), for every table size.
THEOREM PhoneGoesRound ==
    ConfigurationsCollide => (SingleDeviceSpec => []PhoneCanGoRound)
  <1> SUFFICES ASSUME ConfigurationsCollide PROVE SingleDeviceSpec => []PhoneCanGoRound
    OBVIOUS
  <1>1. ASSUME Books, Stocked, PhoneInOrder
        PROVE  PhoneCanGoRound
    <2> SUFFICES ASSUME status = "WAITING_PLAYERS", PhoneOnly
                 PROVE  /\ Active = Assigned
                        /\ FreeNumbers # {}
                        /\ \A n \in FreeNumbers : SeatClaimable(n)
                        /\ \E r \in Roles : remaining[r] > 0
      BY DEF PhoneCanGoRound
    <2>1. Active = Assigned /\ Cardinality(Assigned) < PlayerCount
      BY <1>1 DEF PhoneInOrder, DealtMeansReady
    <2>2. FreeNumbers # {}
      BY <2>1, SeatIsFree DEF Active
    <2>3. \A n \in FreeNumbers : SeatClaimable(n)
      BY <1>1, FreeSeatIsClaimable
    <2>4. \E r \in Roles : remaining[r] > 0
      BY <1>1, <2>1, StockedPoolHasARole DEF Unopened
    <2>5. QED
      BY <2>1, <2>2, <2>3, <2>4
  <1>2. QED
    BY <1>1, PhoneInvariant, PTL

\* Nobody sits down at a pass-the-phone game that was deleted, by tap or by code.
THEOREM SingleDeviceDeletionIsFinal == SingleDeviceSpec => DeletedForGood
  <1>1. ASSUME Books, [SingleDeviceNext]_vars
        PROVE  [status = "DELETED" => UNCHANGED gameRows]_vars
    <2> SUFFICES ASSUME status = "DELETED" PROVE UNCHANGED gameRows
      OBVIOUS
    <2>1. ~ \E n \in Seats : ClaimSeat(n)
      BY DEF ClaimSeat
    <2>2. ~RemoteNext
      BY <1>1, DeletedForPlayers
      DEF RemoteNext, Remote, ChooseNumber, AssignRole, Books
    <2>3. QED
      BY <1>1, <2>1, <2>2, DeletedForTheCreator
      DEF SingleDeviceNext, vars, lifecycleVars
  <1>2. QED
    BY <1>1, SingleDeviceKeepsBooks, PTL DEF SingleDeviceSpec, DeletedForGood

\* The phone's pool has one slot per seat, remote players or not.
THEOREM PhonePoolFits ==
    ConfigurationsCollide => (SingleDeviceSpec => []PoolFitsTable)
  <1> SUFFICES ASSUME ConfigurationsCollide PROVE SingleDeviceSpec => []PoolFitsTable
    OBVIOUS
  <1>1. QED
    BY OpenedPoolFits, PhoneInvariant, PTL

=============================================================================
