--------------------------- MODULE EliminationProofs ------------------------
(***************************************************************************)
(* What the unlocked eliminations of the Mini App leave intact, for every  *)
(* set of users and roles, every table size and any number of requests and *)
(* of the creator's updates: the pool's books, the seats and the queue.    *)
(* The lobby's own invariant does not survive (a struck player keeps seat  *)
(* and role, and may come back with them), so the proof is from what is    *)
(* left of it, Ledger and Turns, and one more fact: that a number is on    *)
(* one row only, whatever the row's status.                                *)
(***************************************************************************)
EXTENDS Elimination, LobbyProofs

\* UNIQUE(game_id, number), over every row.
NumbersAreUnique ==
    \A u, v \in Users : number[u] # 0 /\ number[u] = number[v] => u = v

EInv == Ledger /\ Turns /\ NumbersAreUnique

\* Every step of the lobby keeps numbers unique, also those of struck players:
\* a seat is picked only if no row has it.
LEMMA NumbersStayUnique ==
    ASSUME Ledger, NumbersAreUnique, [Next]_vars
    PROVE  NumbersAreUnique'
  <1>0. number \in [Users -> 0..PlayerCount]
    BY DEF Ledger, TypeOK, RowsTypeOK
  <1>1. ASSUME NEW u \in Users, NEW n \in 0..PlayerCount,
               number' = [number EXCEPT ![u] = n],
               n # 0 => SeatInsertable(n)
        PROVE  NumbersAreUnique'
    BY <1>0, <1>1 DEF NumbersAreUnique, SeatInsertable
  <1>2. CASE LobbyNext
    <2>1. PICK u \in Users :
               \/ JoinGame(u)
               \/ \E n \in Seats : ChooseNumber(u, n)
               \/ \E r \in Roles : AssignRole(u, r)
               \/ LeaveGame(u)
      BY <1>2 DEF LobbyNext
    <2>2. CASE JoinGame(u) \/ LeaveGame(u)
      <3>1. number' = [number EXCEPT ![u] = 0] /\ 0 \in 0..PlayerCount
        BY <2>2, PlayerCountPositive DEF JoinGame, LeaveGame, FreeSeat
      <3>2. QED
        BY <1>1, <3>1
    <2>3. CASE \E n \in Seats : ChooseNumber(u, n)
      <3>1. PICK n \in Seats : ChooseNumber(u, n)
        BY <2>3
      <3>2. /\ number' = [number EXCEPT ![u] = n]
            /\ SeatInsertable(n)
            /\ n \in 0..PlayerCount
        BY <3>1, PlayerCountPositive DEF ChooseNumber, TakeSeat, Seats
      <3>3. QED
        BY <1>1, <3>2
    <2>4. CASE \E r \in Roles : AssignRole(u, r)
      BY <2>4 DEF AssignRole, TakeRole, NumbersAreUnique
    <2>5. QED
      BY <2>1, <2>2, <2>3, <2>4
  <1>3. CASE LifecycleNext
    <2>1. number' = number \/ number' = [u \in Users |-> 0]
      BY <1>3 DEF LifecycleNext, DeleteGame, ConfigureRead, ConfigureWrite,
                  StartRead, StartWrite, FinishRead, FinishWrite, Rollback,
                  gameRows, seatRows
    <2>2. QED
      BY <2>1 DEF NumbersAreUnique
  <1>4. CASE UNCHANGED vars
    BY <1>4 DEF vars, lifecycleVars, gameRows, NumbersAreUnique
  <1>5. QED
    BY <1>2, <1>3, <1>4 DEF Next

\* Whoever is in turn keeps it too, also at a table that is no longer full.
LEMMA TakeTurnKeepsEInv ==
    ASSUME EInv, NEW u \in Users, TakeTurn(u)
    PROVE  EInv'
  <1>1. Ledger' /\ Turns'
    BY TakeSeatKeeps, TakeRoleKeeps DEF EInv, TakeTurn
  <1>2. number \in [Users -> 0..PlayerCount]
    BY DEF EInv, Ledger, TypeOK, RowsTypeOK
  <1>3. ASSUME NEW n \in Seats, TakeSeat(u, n)
        PROVE  NumbersAreUnique'
    BY <1>2, <1>3 DEF EInv, NumbersAreUnique, TakeSeat, SeatInsertable
  <1>4. ASSUME NEW r \in Roles, TakeRole(u, r)
        PROVE  NumbersAreUnique'
    BY <1>4 DEF EInv, NumbersAreUnique, TakeRole
  <1>5. QED
    BY <1>1, <1>3, <1>4 DEF EInv, TakeTurn

\* An elimination takes one player out of the count and out of the queue, with
\* everything they hold.
LEMMA EliminateKeepsEInv ==
    ASSUME EInv, NEW u \in Users, EliminateWrite(u)
    PROVE  EInv'
  <1> USE DEF EliminateWrite, StrikeOff
  <1>1. playerStatus \in [Users -> PlayerStatus]
    BY DEF EInv, Ledger, TypeOK, RowsTypeOK
  <1>2. Active' = Active \ {u}
    BY <1>1 DEF Active, ActiveStatuses
  <1>3. Ledger'
    <2>1. TypeOK'
      BY <1>1 DEF EInv, Ledger, TypeOK, RowsTypeOK, TxTypeOK, PlayerStatus
    <2>2. RoleConservation'
      BY DEF EInv, Ledger, RoleConservation, Holders
    <2>3. DeletedIsEmpty'
      BY <1>2 DEF EInv, Ledger, DeletedIsEmpty
    <2>4. QED
      BY <2>1, <2>2, <2>3 DEF Ledger
  <1>4. NeverOverfull'
    <2>1. /\ Cardinality(Active \ {u}) <= Cardinality(Active)
          /\ Cardinality(Active \ {u}) \in Nat
      <3>1. IsFiniteSet(Active) /\ Active \ {u} \subseteq Active
        BY CountsAreNat
      <3>2. QED
        BY <3>1, FS_Subset, FS_CardinalityType
    <2>2. Cardinality(Active) <= PlayerCount
      BY DEF EInv, Turns, NeverOverfull
    <2>3. Cardinality(Active') <= PlayerCount
      BY <1>2, <2>1, <2>2, CountsAreNat, PlayerCountPositive
    <2>4. QED
      BY <2>3 DEF NeverOverfull
  <1>5. DealtInJoinOrder' /\ QueueIsStrict'
    BY <1>1, <1>2 DEF EInv, Turns, DealtInJoinOrder, QueueIsStrict, Active
  <1>6. NumbersAreUnique'
    BY DEF EInv, NumbersAreUnique
  <1>7. QED
    BY <1>3, <1>4, <1>5, <1>6 DEF EInv, Turns

\* EInv holds in every reachable state.
LEMMA EliminationInvariant == EliminationSpec => []EInv
  <1>1. EliminationInit => EInv
    <2>1. Init => IInv /\ NumbersAreUnique
      BY InitIInv DEF Init, LifecycleInit, RowsInit, NumbersAreUnique
    <2>2. QED
      BY <2>1 DEF EliminationInit, IInv, EInv, Ledger, Turns
  <1>2. ASSUME EInv, [EliminationNext]_eliminationVars
        PROVE  EInv'
    <2>1. ASSUME [Next]_vars
          PROVE  EInv'
      <3>1. Ledger' /\ Turns'
        <4>1. CASE LobbyNext
          <5>1. PICK u \in Users :
                     \/ JoinGame(u)
                     \/ \E n \in Seats : ChooseNumber(u, n)
                     \/ \E r \in Roles : AssignRole(u, r)
                     \/ LeaveGame(u)
            BY <4>1 DEF LobbyNext
          <5>2. QED
            BY <1>2, <5>1, JoinGameKeeps, TurnKeeps, LeaveGameKeeps DEF EInv
        <4>2. CASE LifecycleNext
          BY <1>2, <4>2, LifecycleKeeps DEF EInv
        <4>3. CASE UNCHANGED vars
          BY <1>2, <4>3, StutterKeeps DEF EInv
        <4>4. QED
          BY <2>1, <4>1, <4>2, <4>3 DEF Next
      <3>2. QED
        BY <1>2, <2>1, <3>1, NumbersStayUnique DEF EInv
    <2>2. CASE \E u \in Users : EliminateWrite(u)
      BY <1>2, <2>2, EliminateKeepsEInv
    <2>3. CASE \E u \in Users : \/ EliminateRead(u) \/ EliminateFails(u)
                               \/ CountTable(u) \/ TurnRefused(u)
      BY <2>1, <2>3 DEF EliminateRead, EliminateFails, CountTable, TurnRefused
    <2>4. CASE \E u \in Users : TakeTurn(u)
      BY <1>2, <2>4, TakeTurnKeepsEInv
    <2>5. QED
      BY <1>2, <2>1, <2>2, <2>3, <2>4 DEF EliminationNext, eliminationVars
  <1>3. QED
    BY <1>1, <1>2, PTL DEF EliminationSpec

\* An elimination that lands anywhere between the lobby's steps leaves the pool's
\* books balanced (MiniAppService.eliminate does not look at them).
THEOREM EliminationConservesRoles == EliminationSpec => []RoleConservation
  <1>1. EInv => RoleConservation
    BY DEF EInv, Ledger
  <1>2. QED
    BY <1>1, EliminationInvariant, PTL

\* The table is never overfull and no two active players share a seat, although
\* the place of an eliminated player is open while their row keeps the number.
THEOREM EliminationKeepsSeats == EliminationSpec => []SeatedWithinTable
  <1>1. EInv => SeatedWithinTable
    BY DEF EInv, Turns, NumbersAreUnique, SeatedWithinTable, Active
  <1>2. QED
    BY <1>1, EliminationInvariant, PTL

\* Those still at the table are dealt in join order, in a queue in which no two
\* share a place, eliminations or not.
THEOREM EliminationKeepsTheQueue ==
    EliminationSpec => [](DealtInJoinOrder /\ QueueIsStrict)
  <1>1. EInv => DealtInJoinOrder /\ QueueIsStrict
    BY DEF EInv, Turns
  <1>2. QED
    BY <1>1, EliminationInvariant, PTL

\* Striking players off never moves a role: with the bot and the Mini App on the
\* same rows, roles are dealt as Deal promises.
THEOREM EliminationImplementsDeal == EliminationSpec => ImplementsDeal
  <1>1. ASSUME EInv, PendingIsSubmitted, [EliminationNext]_eliminationVars
        PROVE  PendingIsSubmitted' /\ [Dealing!DealNext]_<<quantity, role>>
    <2>0. Ledger /\ TxTypeOK
      BY <1>1 DEF EInv, Ledger, TypeOK
    <2>1. CASE LobbyNext
      <3>1. UNCHANGED tx
        BY <2>1 DEF LobbyNext, JoinGame, ChooseNumber, TakeSeat, AssignRole,
                    TakeRole, LeaveGame
      <3>2. QED
        BY <1>1, <2>0, <2>1, <3>1, PendingStep, PlayerImplements
        DEF LobbyNext, ChooseNumber, AssignRole
    <2>2. CASE LifecycleNext
      BY <1>1, <2>0, <2>2, PendingStep, LifecycleImplements
    <2>3. CASE UNCHANGED vars
      BY <1>1, <2>0, <2>3, PendingStep DEF vars, lifecycleVars, gameRows
    <2>4. CASE \E u \in Users : EliminateWrite(u)
      BY <1>1, <2>0, <2>4, PendingStep DEF EliminateWrite, StrikeOff
    <2>5. CASE \E u \in Users : TakeTurn(u)
      <3>1. UNCHANGED tx
        BY <2>5 DEF TakeTurn, TakeSeat, TakeRole
      <3>2. QED
        BY <1>1, <2>0, <2>5, <3>1, PendingStep, PlayerImplements DEF TakeTurn
    <2>6. QED
      BY <1>1, <2>1, <2>2, <2>3, <2>4, <2>5
      DEF EliminationNext, EliminateRead, EliminateFails, CountTable, TurnRefused,
          eliminationVars, Next
  <1>2. QED
    BY <1>1, EliminationInvariant, InitImplements, PTL
    DEF EliminationSpec, EliminationInit, ImplementsDeal, Dealing!DealSpec,
        Dealing!dealVars

\* The rows of a deleted game are gone, not only inactive: a request that read its
\* roster before the delete finds no player to strike off.
RowsAreGone == status = "DELETED" => \A u \in Users : playerStatus[u] = "NONE"

\* Deletion is final also for the Mini App's requests under way.
THEOREM EliminationDeletionIsFinal == EliminationSpec => DeletedForGood
  <1>1. EliminationInit => RowsAreGone
    BY DEF EliminationInit, Init, LifecycleInit, RowsInit, RowsAreGone
  <1>2. ASSUME EInv, RowsAreGone, [EliminationNext]_eliminationVars
        PROVE  /\ [status = "DELETED" => UNCHANGED gameRows]_vars
               /\ RowsAreGone'
    <2>1. DeletedIsEmpty
      BY <1>2 DEF EInv, Ledger
    <2>2. CASE [Next]_vars
      <3>1. status = "DELETED" => UNCHANGED gameRows
        BY <2>1, <2>2, DeletedStep
      <3>2. ASSUME status # "DELETED", status' = "DELETED"
            PROVE  DeleteGame
        BY <2>2, <3>2
        DEF Next, LobbyNext, JoinGame, ChooseNumber, TakeSeat, AssignRole, TakeRole,
            MarkReadyIfDealt, LeaveGame, ReopenLobby, LifecycleNext, ConfigureRead, ConfigureWrite,
            StartRead, StartWrite, FinishRead, FinishWrite, Rollback, gameRows, vars,
            lifecycleVars
      <3>3. RowsAreGone'
        BY <1>2, <3>1, <3>2 DEF RowsAreGone, gameRows, DeleteGame
      <3>4. QED
        BY <3>1, <3>3
    <2>3. ASSUME NEW u \in Users, EliminateWrite(u)
          PROVE  status # "DELETED" /\ status' = status
      BY <1>2, <2>3 DEF EliminateWrite, RowsAreGone
    <2>4. CASE \E u \in Users : EliminateWrite(u)
      BY <2>3, <2>4 DEF RowsAreGone
    <2>5. ASSUME NEW u \in Users, TakeTurn(u)
          PROVE  status # "DELETED" /\ status' # "DELETED"
      <3>1. status # "DELETED"
        BY <2>1, <2>5, DeletedForPlayers DEF TakeTurn
      <3>2. QED
        BY <2>5, <3>1 DEF TakeTurn, TakeSeat, TakeRole, MarkReadyIfDealt
    <2>6. CASE \E u \in Users : TakeTurn(u)
      BY <2>5, <2>6 DEF RowsAreGone
    <2>7. QED
      BY <1>2, <2>2, <2>4, <2>6
      DEF EliminationNext, EliminateRead, EliminateFails, CountTable, TurnRefused,
          eliminationVars
  <1>3. QED
    BY <1>1, <1>2, EliminationInvariant, PTL
    DEF EliminationSpec, DeletedForGood

\* With players struck off at any time, the pool is still the one the game was
\* opened with, and no complete deal stays in an open lobby.
THEOREM EliminationLeavesNoDealBehind ==
    ConfigurationsCollide => (EliminationSpec => [](PoolFitsTable /\ DealtMeansReady))
  <1> SUFFICES ASSUME ConfigurationsCollide
               PROVE  EliminationSpec => [](PoolFitsTable /\ DealtMeansReady)
    OBVIOUS
  <1> DEFINE Pool == Stocked /\ OpenedOnce /\ DealtMeansReady
  <1>1. EliminationInit => Pool
    BY InitPool DEF EliminationInit
  <1>2. ASSUME EInv, EInv', Pool, [EliminationNext]_eliminationVars
        PROVE  Pool'
    <2>1. TypeOK /\ NeverOverfull /\ NeverOverfull'
      BY <1>2 DEF EInv, Ledger, Turns
    <2>2. CASE [Next]_vars
      BY <1>2, <2>1, <2>2, PoolStep
    <2>3. ASSUME NEW u \in Users, EliminateWrite(u)
          PROVE  Pool'
      <3>1. /\ UNCHANGED <<status, quantity, tx>>
            /\ Active' \subseteq Active /\ Assigned' \subseteq Assigned
        BY <2>1, <2>3
        DEF EliminateWrite, StrikeOff, Active, Assigned, ActiveStatuses, TypeOK,
            RowsTypeOK
      <3>2. Stocked' /\ OpenedOnce'
        BY <1>2, <3>1 DEF Stocked, OpenedOnce, FillsTable, Insertable
      <3>3. /\ Cardinality(Assigned') <= Cardinality(Assigned)
            /\ Cardinality(Assigned') \in Nat
        BY <3>1, CountsAreNat, FS_Subset, FS_CardinalityType
      <3>4. DealtMeansReady'
        BY <1>2, <3>1, <3>3, CountsAreNat, PlayerCountPositive DEF DealtMeansReady
      <3>5. QED
        BY <3>2, <3>4
    <2>4. ASSUME NEW u \in Users, TakeTurn(u)
          PROVE  Pool'
      <3>1. DealtMeansReady'
        BY <1>2, <2>1, <2>4, PlayerKeepsDealtMeansReady DEF TakeTurn
      <3>2. /\ status \notin Unopened /\ status' \in {status, "READY", "WAITING_PLAYERS"}
            /\ UNCHANGED <<quantity, tx>>
            /\ Stocked'
        BY <1>2, <2>4, PlayerStepsAreOpen DEF TakeTurn
      <3>3. OpenedOnce'
        BY <1>2, <3>2 DEF OpenedOnce, Unopened, FillsTable, Insertable
      <3>4. QED
        BY <3>1, <3>2, <3>3
    <2>5. QED
      BY <1>2, <2>2, <2>3, <2>4
      DEF EliminationNext, EliminateRead, EliminateFails, CountTable, TurnRefused,
          eliminationVars
  <1>3. Pool => PoolFitsTable /\ DealtMeansReady
    BY OpenedPoolFits
  <1> HIDE DEF Pool
  <1>4. QED
    BY <1>1, <1>2, <1>3, EliminationInvariant, PTL DEF EliminationSpec

=============================================================================
