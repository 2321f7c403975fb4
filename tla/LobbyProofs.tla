----------------------------- MODULE LobbyProofs ----------------------------
(***************************************************************************)
(* Proofs about the lobby, for every set of users, every set of roles,     *)
(* every table size and any number of the creator's concurrent updates.    *)
(* The conjunction IInv of Lobby's invariants is inductive.  The lobby     *)
(* implements Deal: the free slots its counters say there are, are slots   *)
(* that are in nobody's hand.  And the deal goes through: whoever is in    *)
(* turn finds a seat and a role, because a player without one leaves fewer *)
(* hands than the pool has slots.                                          *)
(***************************************************************************)
EXTENDS Lobby, FiniteSetTheorems, TLAPS

-----------------------------------------------------------------------------
(* Facts about the row queries.                                            *)

\* Every set of this table's users is finite, so head counts are numbers.
LEMMA UserSetsFinite ==
    ASSUME NEW S \in SUBSET Users
    PROVE  IsFiniteSet(S) /\ Cardinality(S) \in Nat
  BY UsersFinite, FS_Subset, FS_CardinalityType

\* The head counts the services take are natural numbers.
LEMMA CountsAreNat ==
    /\ IsFiniteSet(Active) /\ Cardinality(Active) \in Nat
    /\ IsFiniteSet(Assigned) /\ Cardinality(Assigned) \in Nat
    /\ \A r : IsFiniteSet(Holders(r)) /\ Cardinality(Holders(r)) \in Nat
  BY UserSetsFinite DEF Active, Assigned, Holders

-----------------------------------------------------------------------------
(* IInv in three parts.                                                    *)

\* What no write breaks, not even one that overwrites a player's status alone
\* (Elimination): the pool and the hands add up, and a deletion is complete.
Ledger == TypeOK /\ RoleConservation /\ DeletedIsEmpty

\* What every way of dealing keeps, the turn-based one and the others: roles,
\* rows and status agree.
Books ==
    /\ TypeOK
    /\ RoleConservation
    /\ RoleIffAssigned
    /\ DepartedHoldNothing
    /\ ReadyMeansDealt
    /\ DeletedIsEmpty

LEMMA BooksHaveALedger == Books => Ledger
  BY DEF Books, Ledger

\* What the turns add: a strict queue, served in order, no longer than the table.
Turns == DealtInJoinOrder /\ QueueIsStrict /\ NeverOverfull

-----------------------------------------------------------------------------
(* The two row changes every way of dealing shares.                        *)

\* A draw moves one slot from the counter to a hand.
LEMMA DrawConserves ==
    ASSUME TypeOK, RoleConservation, NEW u \in Users, NEW r \in Roles,
           DrawRole(u, r), UNCHANGED quantity
    PROVE  RoleConservation'
  <1>1. role \in [Users -> Roles \cup {NoRole}] /\ remaining \in [Roles -> Nat]
    BY DEF TypeOK, RowsTypeOK
  <1> SUFFICES ASSUME NEW q \in Roles
               PROVE  remaining'[q] + Cardinality(Holders(q)') = quantity[q]
    BY DEF RoleConservation
  <1> USE DEF DrawRole
  <1>2. CASE q = r
    <2>1. Holders(q)' = Holders(q) \cup {u} /\ u \notin Holders(q)
      BY <1>2, <1>1, NoRoleIsNotARole DEF Holders
    <2>2. Cardinality(Holders(q)') = Cardinality(Holders(q)) + 1
      BY <2>1, CountsAreNat, FS_AddElement
    <2>3. QED
      BY <2>2, <1>2, <1>1, CountsAreNat DEF RoleConservation
  <1>3. CASE q # r
    <2>1. Holders(q)' = Holders(q)
      BY <1>3, <1>1, NoRoleIsNotARole DEF Holders
    <2>2. QED
      BY <2>1, <1>3, <1>1 DEF RoleConservation
  <1>4. QED
    BY <1>2, <1>3

\* As many dealt as seats, and as many players: everybody is dealt.
LEMMA PromotionIsEarned ==
    ASSUME TypeOK', status # "READY", MarkReadyIfDealt
    PROVE  ReadyMeansDealt'
  <1> SUFFICES ASSUME status' = "READY"
               PROVE  Cardinality(Active') = PlayerCount /\ Active' = Assigned'
    BY DEF ReadyMeansDealt
  <1>1. Cardinality(Active') = PlayerCount /\ Cardinality(Assigned') = PlayerCount
    BY DEF MarkReadyIfDealt
  <1>2. Assigned' \subseteq Active' /\ Active' \in SUBSET Users
    BY DEF Assigned, Active, ActiveStatuses
  <1>3. IsFiniteSet(Active')
    BY <1>2, UserSetsFinite
  <1>4. QED
    BY <1>1, <1>2, <1>3, FS_Subset

-----------------------------------------------------------------------------
(* Initial states.                                                         *)

\* A freshly created game satisfies the invariant.
LEMMA InitIInv == Init => IInv
  <1> SUFFICES ASSUME Init PROVE IInv
    OBVIOUS
  <1> USE DEF Init, LifecycleInit, RowsInit
  <1>1. Active = {} /\ Assigned = {}
    BY DEF Active, Assigned, ActiveStatuses
  <1>2. \A r \in Roles : Holders(r) = {}
    BY NoRoleIsNotARole DEF Holders
  <1>3. TypeOK
    BY PlayerCountPositive, MaxJoinOrderNat
    DEF TypeOK, RowsTypeOK, TxTypeOK, GameStatus, PlayerStatus,
        ActiveStatuses, Idle, NoSelection
  <1>4. RoleConservation
    BY <1>2, FS_EmptySet DEF RoleConservation
  <1>5. NeverOverfull
    BY <1>1, FS_EmptySet, PlayerCountPositive DEF NeverOverfull
  <1>6. RoleIffAssigned
    BY DEF RoleIffAssigned
  <1>7. QED
    BY <1>1, <1>3, <1>4, <1>5, <1>6
    DEF IInv, DepartedHoldNothing, DealtInJoinOrder,
        QueueIsStrict, ReadyMeansDealt, DeletedIsEmpty

-----------------------------------------------------------------------------
(* One lemma per operation of the lobby.                                   *)

\* A join adds one player, last in the queue.
LEMMA JoinGameKeeps ==
    ASSUME Ledger, NEW u \in Users, JoinGame(u)
    PROVE  Ledger' /\ (Turns => Turns') /\ (Books => Books')
  <1> USE DEF Ledger, JoinGame
  <1>1. PICK k \in 1..MaxJoinOrder :
            IsNextJoinOrder(k) /\ joinOrder' = [joinOrder EXCEPT ![u] = k]
    OBVIOUS
  <1>2. playerStatus \in [Users -> PlayerStatus]
        /\ number \in [Users -> 0..PlayerCount]
        /\ joinOrder \in [Users -> 0..MaxJoinOrder]
    BY DEF TypeOK, RowsTypeOK
  <1>3. Active' = Active \cup {u}
    BY <1>2 DEF Active, ActiveStatuses
  <1>4. Assigned' = Assigned
    BY <1>2 DEF Active, Assigned, ActiveStatuses
  <1>5. TypeOK'
    BY <1>1, <1>2, MaxJoinOrderNat, PlayerCountPositive
    DEF TypeOK, RowsTypeOK, TxTypeOK, PlayerStatus, ActiveStatuses
  <1>6. RoleConservation'
    BY DEF RoleConservation, Holders
  <1>7. Books => RoleIffAssigned'
    BY <1>2 DEF Books, RoleIffAssigned, DepartedHoldNothing
  <1>8. Books => DepartedHoldNothing'
    BY <1>1, <1>2, <1>3 DEF Books, DepartedHoldNothing
  <1>9. DealtInJoinOrder => DealtInJoinOrder'
    BY <1>1, <1>2, <1>3, MaxJoinOrderNat
    DEF DealtInJoinOrder, IsNextJoinOrder, Active
  <1>10. QueueIsStrict => QueueIsStrict'
    BY <1>1, <1>2, <1>3, MaxJoinOrderNat
    DEF QueueIsStrict, IsNextJoinOrder, Active
  <1>11. NeverOverfull'
    <2>1. IsFiniteSet(Active) /\ Cardinality(Active) \in Nat
      BY CountsAreNat
    <2>2. Cardinality(Active \cup {u}) = Cardinality(Active) + 1
      BY <2>1, FS_AddElement
    <2>3. Cardinality(Active) < PlayerCount /\ PlayerCount \in Nat
      BY PlayerCountPositive DEF HasRoom
    <2>4. Cardinality(Active') <= PlayerCount
      BY <2>1, <2>2, <2>3, <1>3
    <2>5. QED
      BY <2>4 DEF NeverOverfull
  <1>12. QED
    BY <1>5, <1>6, <1>7, <1>8, <1>9, <1>10, <1>11
    DEF Turns, Books, ReadyMeansDealt, DeletedIsEmpty

\* Taking a seat changes nobody's place in the queue: the player in turn had
\* only dealt players before them.
LEMMA TakeSeatKeeps ==
    ASSUME Ledger, NEW u \in Users, NEW n \in Seats, IsTurnOf(u), TakeSeat(u, n)
    PROVE  Ledger' /\ (Turns => Turns') /\ (Books => Books')
  <1> USE DEF Ledger, TakeSeat
  <1>1. playerStatus \in [Users -> PlayerStatus]
        /\ number \in [Users -> 0..PlayerCount]
        /\ joinOrder \in [Users -> 0..MaxJoinOrder]
    BY DEF TypeOK, RowsTypeOK
  <1>2. playerStatus[u] # "ASSIGNED"
    BY DEF IsTurnOf, AwaitingTurn
  <1>3. Active' = Active /\ Assigned' = Assigned
    BY <1>1, <1>2 DEF Active, Assigned, ActiveStatuses
  <1>4. TypeOK'
    BY <1>1, PlayerCountPositive
    DEF TypeOK, RowsTypeOK, TxTypeOK, PlayerStatus, ActiveStatuses, Seats
  <1>5. RoleConservation'
    BY DEF RoleConservation, Holders
  <1>6. Books => RoleIffAssigned'
    BY <1>1, <1>2 DEF Books, RoleIffAssigned
  <1>7. Books => DepartedHoldNothing'
    BY <1>1, <1>3 DEF Books, DepartedHoldNothing
  <1>8. DealtInJoinOrder /\ QueueIsStrict => DealtInJoinOrder'
    <2> SUFFICES ASSUME DealtInJoinOrder, QueueIsStrict,
                        NEW x \in Active, NEW y \in Active,
                        joinOrder[x] < joinOrder[y], playerStatus'[y] # "JOINED"
                 PROVE  playerStatus'[x] = "ASSIGNED"
      BY <1>3 DEF DealtInJoinOrder
    <2>1. playerStatus[x] = "ASSIGNED"
      <3>1. CASE y = u
        BY <3>1, <1>1, MaxJoinOrderNat
        DEF IsTurnOf, AwaitingTurn, Active, ActiveStatuses,
            QueueIsStrict
      <3>2. CASE y # u
        BY <3>2, <1>1 DEF DealtInJoinOrder, Active
      <3>3. QED
        BY <3>1, <3>2
    <2>2. QED
      BY <2>1, <1>1, <1>2 DEF Active
  <1>9. QueueIsStrict => QueueIsStrict'
    BY <1>3 DEF QueueIsStrict
  <1>10. QED
    BY <1>3, <1>4, <1>5, <1>6, <1>7, <1>8, <1>9
    DEF Turns, Books, NeverOverfull, ReadyMeansDealt, DeletedIsEmpty

\* A draw moves one slot from the pool to the hand of the player in turn; the
\* last draw of a full table makes the game READY.
LEMMA TakeRoleKeeps ==
    ASSUME Ledger, NEW u \in Users, NEW r \in Roles, IsTurnOf(u), TakeRole(u, r)
    PROVE  Ledger' /\ (Turns => Turns') /\ (Books => Books')
  <1> USE DEF Ledger, TakeRole, DrawRole, MarkReadyIfDealt
  <1>1. playerStatus \in [Users -> PlayerStatus]
        /\ number \in [Users -> 0..PlayerCount]
        /\ joinOrder \in [Users -> 0..MaxJoinOrder]
        /\ role \in [Users -> Roles \cup {NoRole}]
        /\ remaining \in [Roles -> Nat]
        /\ quantity \in [Roles -> Nat]
    BY DEF TypeOK, RowsTypeOK
  <1>2. u \in Active /\ u \notin Assigned
    BY DEF IsTurnOf, AwaitingTurn, Assigned
  <1>3. Active' = Active
    BY <1>1, <1>2 DEF Active, ActiveStatuses
  <1>4. TypeOK'
    BY <1>1 DEF TypeOK, RowsTypeOK, TxTypeOK, PlayerStatus, ActiveStatuses,
                GameStatus
  <1>5. RoleConservation'
    BY DrawConserves
  <1>6. Books => RoleIffAssigned'
    BY <1>1, NoRoleIsNotARole DEF Books, RoleIffAssigned
  <1>7. Books => DepartedHoldNothing'
    BY <1>1, <1>2, <1>3 DEF Books, DepartedHoldNothing
  <1>8. DealtInJoinOrder /\ QueueIsStrict => DealtInJoinOrder'
    <2> SUFFICES ASSUME DealtInJoinOrder, QueueIsStrict,
                        NEW x \in Active, NEW y \in Active,
                        joinOrder[x] < joinOrder[y], playerStatus'[y] # "JOINED"
                 PROVE  playerStatus'[x] = "ASSIGNED"
      BY <1>3 DEF DealtInJoinOrder
    <2>1. CASE x = u
      BY <2>1, <1>1
    <2>2. CASE x # u /\ y = u
      BY <2>2, <1>1, MaxJoinOrderNat
      DEF IsTurnOf, AwaitingTurn, Active, ActiveStatuses,
          QueueIsStrict
    <2>3. CASE x # u /\ y # u
      BY <2>3, <1>1 DEF DealtInJoinOrder, Active
    <2>4. QED
      BY <2>1, <2>2, <2>3
  <1>9. QueueIsStrict => QueueIsStrict'
    BY <1>3 DEF QueueIsStrict
  <1>10. NeverOverfull => NeverOverfull'
    BY <1>3 DEF NeverOverfull
  <1>11. Books => ReadyMeansDealt'
    <2>1. Books => status # "READY"
      BY <1>2 DEF Books, ReadyMeansDealt
    <2>2. QED
      BY <1>4, <2>1, PromotionIsEarned
  <1>12. DeletedIsEmpty'
    BY <1>2 DEF DeletedIsEmpty
  <1>13. QED
    BY <1>4, <1>5, <1>6, <1>7, <1>8, <1>9, <1>10, <1>11, <1>12 DEF Turns, Books

\* choose_number and assign_role, which also count the table.
LEMMA TurnKeeps ==
    ASSUME Ledger, NEW u \in Users,
           (\E n \in Seats : ChooseNumber(u, n)) \/ (\E r \in Roles : AssignRole(u, r))
    PROVE  Ledger' /\ (Turns => Turns') /\ (Books => Books')
  BY TakeSeatKeeps, TakeRoleKeeps DEF ChooseNumber, AssignRole, MayActNow

\* A departure empties the seat, returns the slot, and a READY game re-opens.
LEMMA LeaveGameKeeps ==
    ASSUME Ledger, NEW u \in Users, LeaveGame(u)
    PROVE  Ledger' /\ (Turns => Turns') /\ (Books => Books')
  <1> USE DEF Ledger, LeaveGame, ReturnRole, FreeSeat, ReopenLobby
  <1>1. playerStatus \in [Users -> PlayerStatus]
        /\ number \in [Users -> 0..PlayerCount]
        /\ joinOrder \in [Users -> 0..MaxJoinOrder]
        /\ role \in [Users -> Roles \cup {NoRole}]
        /\ remaining \in [Roles -> Nat]
        /\ quantity \in [Roles -> Nat]
    BY DEF TypeOK, RowsTypeOK
  <1>2. Active' = Active \ {u}
    BY <1>1 DEF Active, ActiveStatuses
  <1>3. TypeOK'
    BY <1>1, PlayerCountPositive, MaxJoinOrderNat
    DEF TypeOK, RowsTypeOK, TxTypeOK, PlayerStatus, GameStatus
  <1>4. RoleConservation'
    <2> SUFFICES ASSUME NEW q \in Roles
                 PROVE  remaining'[q] + Cardinality(Holders(q)') = quantity[q]
      BY DEF RoleConservation
    <2>1. CASE q = role[u]
      <3>1. Holders(q)' = Holders(q) \ {u} /\ u \in Holders(q)
        BY <2>1, <1>1, NoRoleIsNotARole DEF Holders
      <3>2. Cardinality(Holders(q)') = Cardinality(Holders(q)) - 1
        BY <3>1, CountsAreNat, FS_RemoveElement
      <3>3. remaining'[q] = remaining[q] + 1
        BY <2>1, <1>1, NoRoleIsNotARole
      <3>4. QED
        BY <3>2, <3>3, <1>1, CountsAreNat DEF RoleConservation
    <2>2. CASE q # role[u]
      <3>1. Holders(q)' = Holders(q)
        BY <2>2, <1>1, NoRoleIsNotARole DEF Holders
      <3>2. remaining'[q] = remaining[q]
        BY <2>2, <1>1
      <3>3. QED
        BY <3>1, <3>2 DEF RoleConservation
    <2>3. QED
      BY <2>1, <2>2
  <1>5. Books => RoleIffAssigned'
    BY <1>1 DEF Books, RoleIffAssigned
  <1>6. Books => DepartedHoldNothing'
    BY <1>1, <1>2 DEF Books, DepartedHoldNothing
  <1>7. /\ DealtInJoinOrder => DealtInJoinOrder'
        /\ QueueIsStrict => QueueIsStrict'
    BY <1>1, <1>2 DEF DealtInJoinOrder, QueueIsStrict, Active
  <1>8. ASSUME NeverOverfull
        PROVE  NeverOverfull'
    <2>1. IsFiniteSet(Active) /\ Cardinality(Active) \in Nat
      BY CountsAreNat
    <2>2. Cardinality(Active \ {u}) = Cardinality(Active) - 1
      BY <2>1, FS_RemoveElement
    <2>3. Cardinality(Active) <= PlayerCount /\ PlayerCount \in Nat
      BY <1>8, PlayerCountPositive DEF NeverOverfull
    <2>4. Cardinality(Active') <= PlayerCount
      BY <2>1, <2>2, <2>3, <1>2
    <2>5. QED
      BY <2>4 DEF NeverOverfull
  <1>9. ReadyMeansDealt' /\ DeletedIsEmpty'
    BY DEF ReadyMeansDealt, DeletedIsEmpty
  <1>10. QED
    BY <1>3, <1>4, <1>5, <1>6, <1>7, <1>8, <1>9 DEF Turns, Books

-----------------------------------------------------------------------------
(* The creator's operations.                                               *)

\* A step that touches no player, no role and no pool keeps the invariant,
\* provided it writes neither READY nor DELETED: what the unlocked writes of
\* start_game and finish_game overwrite is the status alone.
LEMMA StatusWriteKeeps ==
    ASSUME Ledger, TxTypeOK',
           status' \in GameStatus,
           status' = status \/ status' \notin {"READY", "DELETED"},
           UNCHANGED <<quantity, remaining, seatRows, role>>
    PROVE  Ledger' /\ (Turns => Turns') /\ (Books => Books')
  <1> USE DEF Ledger, seatRows
  <1>1. Active' = Active /\ Assigned' = Assigned
    BY DEF Active, Assigned
  <1>2. TypeOK'
    BY DEF TypeOK, RowsTypeOK
  <1>3. RoleConservation' /\ (RoleIffAssigned => RoleIffAssigned')
    BY DEF RoleConservation, RoleIffAssigned, Holders
  <1>4. /\ DepartedHoldNothing => DepartedHoldNothing'
        /\ ReadyMeansDealt => ReadyMeansDealt'
        /\ DeletedIsEmpty'
    BY <1>1 DEF DepartedHoldNothing, ReadyMeansDealt, DeletedIsEmpty
  <1>5. Turns => Turns'
    BY <1>1 DEF Turns, DealtInJoinOrder, QueueIsStrict, NeverOverfull
  <1>6. QED
    BY <1>2, <1>3, <1>4, <1>5 DEF Books

\* Configuring adds as many free slots as it adds slots.
LEMMA ConfigureWriteKeeps ==
    ASSUME Ledger, NEW s \in Sessions, ConfigureWrite(s)
    PROVE  Ledger' /\ (Turns => Turns') /\ (Books => Books')
  <1> USE DEF Ledger, ConfigureWrite, seatRows
  <1>1. /\ tx[s].selection \in [Roles -> Nat]
        /\ quantity \in [Roles -> Nat]
        /\ remaining \in [Roles -> Nat]
    BY DEF TypeOK, TxTypeOK, RowsTypeOK
  <1>2. Active' = Active /\ Assigned' = Assigned
    BY DEF Active, Assigned
  <1>3. TypeOK'
    BY <1>1 DEF TypeOK, RowsTypeOK, TxTypeOK, GameStatus, Idle, NoSelection
  <1>4. RoleConservation'
    <2> SUFFICES ASSUME NEW r \in Roles
                 PROVE  remaining'[r] + Cardinality(Holders(r)') = quantity'[r]
      BY DEF RoleConservation
    <2>1. Holders(r)' = Holders(r)
      BY DEF Holders
    <2>2. remaining[r] + Cardinality(Holders(r)) = quantity[r]
      BY DEF RoleConservation
    <2>3. QED
      BY <1>1, <2>1, <2>2, CountsAreNat
  <1>5. RoleIffAssigned => RoleIffAssigned'
    BY DEF RoleIffAssigned
  <1>6. /\ DepartedHoldNothing => DepartedHoldNothing'
        /\ ReadyMeansDealt' /\ DeletedIsEmpty'
    BY <1>2 DEF DepartedHoldNothing, ReadyMeansDealt, DeletedIsEmpty
  <1>7. Turns => Turns'
    BY <1>2 DEF Turns, DealtInJoinOrder, QueueIsStrict, NeverOverfull
  <1>8. QED
    BY <1>3, <1>4, <1>5, <1>6, <1>7 DEF Books

\* Deletion leaves no row.
LEMMA DeleteGameKeeps ==
    ASSUME Ledger, DeleteGame
    PROVE  Ledger' /\ (Turns => Turns') /\ (Books => Books')
  <1> USE DEF Ledger, DeleteGame
  <1>1. Active' = {}
    BY DEF Active, ActiveStatuses
  <1>2. \A r \in Roles : Holders(r)' = {}
    BY NoRoleIsNotARole DEF Holders
  <1>3. TypeOK'
    BY PlayerCountPositive, MaxJoinOrderNat
    DEF TypeOK, RowsTypeOK, TxTypeOK, GameStatus, PlayerStatus
  <1>4. RoleConservation'
    <2> SUFFICES ASSUME NEW r \in Roles
                 PROVE  remaining'[r] + Cardinality(Holders(r)') = quantity'[r]
      BY DEF RoleConservation
    <2>1. Cardinality(Holders(r)') = 0
      BY <1>2, FS_EmptySet
    <2>2. QED
      BY <2>1
  <1>5. RoleIffAssigned' /\ DepartedHoldNothing'
    BY DEF RoleIffAssigned, DepartedHoldNothing
  <1>6. NeverOverfull'
    <2>1. Cardinality({}) <= PlayerCount
      BY FS_EmptySet, PlayerCountPositive
    <2>2. QED
      BY <2>1, <1>1 DEF NeverOverfull
  <1>7. DealtInJoinOrder' /\ QueueIsStrict' /\ ReadyMeansDealt' /\ DeletedIsEmpty'
    BY <1>1 DEF DealtInJoinOrder, QueueIsStrict, ReadyMeansDealt, DeletedIsEmpty
  <1>8. QED
    BY <1>3, <1>4, <1>5, <1>6, <1>7 DEF Turns, Books

\* Every operation of the creator keeps the invariant, whatever happened
\* between its read and its write.
LEMMA LifecycleKeeps ==
    ASSUME Ledger, LifecycleNext
    PROVE  Ledger' /\ (Turns => Turns') /\ (Books => Books')
  <1> DEFINE Kept == Ledger' /\ (Turns => Turns') /\ (Books => Books')
  <1>1. CASE DeleteGame
    BY <1>1, DeleteGameKeeps
  <1>2. ASSUME NEW s \in Sessions, ConfigureWrite(s)
        PROVE  Kept
    BY <1>2, ConfigureWriteKeeps
  <1>3. ASSUME NEW s \in Sessions, StartWrite(s) \/ FinishWrite(s)
        PROVE  Kept
    <2>1. TxTypeOK /\ tx' = [tx EXCEPT ![s] = Idle]
      BY <1>3 DEF Ledger, TypeOK, StartWrite, FinishWrite
    <2>2. TxTypeOK'
      BY <2>1 DEF TxTypeOK, Idle, NoSelection
    <2>3. QED
      BY <1>3, <2>2, StatusWriteKeeps
      DEF StartWrite, FinishWrite, GameStatus
  <1>4. ASSUME NEW s \in Sessions,
               \/ \E selection \in Selections : ConfigureRead(s, selection)
               \/ StartRead(s) \/ FinishRead(s) \/ Rollback(s)
        PROVE  Kept
    <2>1. UNCHANGED gameRows
      BY <1>4 DEF ConfigureRead, StartRead, FinishRead, Rollback
    <2>2. TxTypeOK'
      BY <1>4, SelectionsAreQuantities
      DEF Ledger, TypeOK, TxTypeOK, ConfigureRead, StartRead, FinishRead,
          Rollback, Pending, Idle, NoSelection
    <2>3. QED
      BY <2>1, <2>2, StatusWriteKeeps
      DEF gameRows, seatRows, Ledger, TypeOK, RowsTypeOK
  <1>5. CASE \E s \in Sessions :
               \/ \E selection \in Selections : ConfigureRead(s, selection)
               \/ ConfigureWrite(s)
               \/ StartRead(s) \/ StartWrite(s)
               \/ FinishRead(s) \/ FinishWrite(s)
               \/ Rollback(s)
    <2>1. PICK s \in Sessions :
               \/ \E selection \in Selections : ConfigureRead(s, selection)
               \/ ConfigureWrite(s)
               \/ StartRead(s) \/ StartWrite(s)
               \/ FinishRead(s) \/ FinishWrite(s)
               \/ Rollback(s)
      BY <1>5
    <2>2. CASE ConfigureWrite(s)
      BY <2>2, <1>2
    <2>3. CASE StartWrite(s) \/ FinishWrite(s)
      BY <2>3, <1>3
    <2>4. CASE \/ \E selection \in Selections : ConfigureRead(s, selection)
               \/ StartRead(s) \/ FinishRead(s) \/ Rollback(s)
      BY <2>4, <1>4
    <2>5. QED
      BY <2>1, <2>2, <2>3, <2>4
  <1>6. QED
    BY <1>1, <1>5 DEF LifecycleNext

\* A step that changes no row and no update keeps them.
LEMMA StutterKeeps ==
    ASSUME Ledger, UNCHANGED vars
    PROVE  Ledger' /\ (Turns => Turns') /\ (Books => Books')
  <1>1. TxTypeOK' /\ status' = status /\ status \in GameStatus
    BY DEF Ledger, TypeOK, TxTypeOK, RowsTypeOK, vars, lifecycleVars, gameRows
  <1>2. UNCHANGED <<quantity, remaining, seatRows, role>>
    BY DEF vars, lifecycleVars, gameRows, seatRows
  <1>3. QED
    BY <1>1, <1>2, StatusWriteKeeps

-----------------------------------------------------------------------------
(* The theorems.                                                           *)

\* Every step of the game, by any player or by the creator, keeps the invariant.
LEMMA NextIInv == IInv /\ [Next]_vars => IInv'
  <1> SUFFICES ASSUME Books, Turns, [Next]_vars
               PROVE  Books' /\ Turns'
    BY DEF IInv, Books, Turns
  <1>0. Ledger
    BY BooksHaveALedger
  <1>1. CASE LobbyNext
    <2>1. PICK u \in Users :
               \/ JoinGame(u)
               \/ \E n \in Seats : ChooseNumber(u, n)
               \/ \E r \in Roles : AssignRole(u, r)
               \/ LeaveGame(u)
      BY <1>1 DEF LobbyNext
    <2>2. CASE JoinGame(u)
      BY <1>0, <2>2, JoinGameKeeps
    <2>3. CASE \E n \in Seats : ChooseNumber(u, n)
      BY <1>0, <2>3, TurnKeeps
    <2>4. CASE \E r \in Roles : AssignRole(u, r)
      BY <1>0, <2>4, TurnKeeps
    <2>5. CASE LeaveGame(u)
      BY <1>0, <2>5, LeaveGameKeeps
    <2>6. QED
      BY <2>1, <2>2, <2>3, <2>4, <2>5
  <1>2. CASE LifecycleNext
    BY <1>0, <1>2, LifecycleKeeps
  <1>3. CASE UNCHANGED vars
    BY <1>0, <1>3, StutterKeeps
  <1>4. QED
    BY <1>1, <1>2, <1>3 DEF Next

\* The invariant holds in every reachable state.
THEOREM LobbyInvariant == Spec => []IInv
  <1>1. QED
    BY InitIInv, NextIInv, PTL DEF Spec

\* The rows keep the types of their columns: in particular remaining, which
\* draws and configuration races push in both directions, is never negative.
THEOREM LobbyTypes == Spec => []TypeOK
  <1>1. IInv => TypeOK
    BY DEF IInv
  <1>2. QED
    BY <1>1, LobbyInvariant, PTL

\* No role slot is lost or dealt twice, whatever leaves, re-joins and retries
\* happen (AssignmentService, leave_game).
THEOREM RolesConserved == Spec => []RoleConservation
  <1>1. IInv => RoleConservation
    BY DEF IInv
  <1>2. QED
    BY <1>1, LobbyInvariant, PTL

\* The deal follows the join order, for every number of players
\* (TurnManagerService.ensure_players_turn).
THEOREM DealFollowsTheQueue == Spec => [](DealtInJoinOrder /\ QueueIsStrict)
  <1>1. IInv => DealtInJoinOrder /\ QueueIsStrict
    BY DEF IInv
  <1>2. QED
    BY <1>1, LobbyInvariant, PTL

\* A game is READY only over a complete deal (mark_ready, leave_game).
THEOREM ReadyOnlyWhenDealt == Spec => []ReadyMeansDealt
  <1>1. IInv => ReadyMeansDealt
    BY DEF IInv
  <1>2. QED
    BY <1>1, LobbyInvariant, PTL

\* Every update of the creator still under way when the game is deleted finds no
\* row to write.
LEMMA DeletedForTheCreator ==
    ASSUME status = "DELETED", LifecycleNext
    PROVE  UNCHANGED gameRows
  <1>1. ~DeleteGame
    BY DEF DeleteGame
  <1>2. PICK s \in Sessions :
             \/ \E selection \in Selections : ConfigureRead(s, selection)
             \/ ConfigureWrite(s)
             \/ StartRead(s) \/ StartWrite(s)
             \/ FinishRead(s) \/ FinishWrite(s)
             \/ Rollback(s)
    BY <1>1 DEF LifecycleNext
  <1>3. ~(ConfigureWrite(s) \/ StartWrite(s) \/ FinishWrite(s))
    BY DEF ConfigureWrite, StartWrite, FinishWrite, RowMatched
  <1>4. QED
    BY <1>2, <1>3 DEF ConfigureRead, StartRead, FinishRead, Rollback

\* Its players are gone, and nobody new gets in.
LEMMA DeletedForPlayers ==
    ASSUME DeletedIsEmpty, status = "DELETED", NEW u \in Users
    PROVE  /\ ~JoinGame(u) /\ ~LeaveGame(u)
           /\ \A n \in Seats : ~TakeSeat(u, n)
           /\ \A r \in Roles : ~TakeRole(u, r)
  BY DEF DeletedIsEmpty, JoinGame, TakeSeat, TakeRole, LeaveGame

\* So a step from a deleted game changes no row.
LEMMA DeletedStep ==
    ASSUME DeletedIsEmpty, [Next]_vars, status = "DELETED"
    PROVE  UNCHANGED gameRows
  <1>1. ~LobbyNext
    BY DeletedForPlayers DEF LobbyNext, ChooseNumber, AssignRole
  <1>2. QED
    BY <1>1, DeletedForTheCreator DEF Next, vars, lifecycleVars

\* Deletion is final (delete_game against start_game, finish_game and
\* configure_roles under way).
THEOREM DeletionIsFinal == Spec => DeletedForGood
  <1>1. IInv /\ [Next]_vars =>
            [status = "DELETED" => UNCHANGED gameRows]_vars
    BY DeletedStep DEF IInv
  <1>2. QED
    BY <1>1, LobbyInvariant, PTL DEF Spec, DeletedForGood

-----------------------------------------------------------------------------
(* The deal. *)


\* What a configuration on its way to the database will insert is a selection
\* the wizard submitted.
PendingIsSubmitted ==
    \A s \in Sessions :
        tx[s].op = "configure" => tx[s].selection \in Selections

\* It is so from the check of configure_roles to its write.
LEMMA PendingStep ==
    ASSUME TxTypeOK, PendingIsSubmitted, LifecycleNext \/ UNCHANGED tx
    PROVE  PendingIsSubmitted'
  <1>1. CASE UNCHANGED tx
    BY <1>1 DEF PendingIsSubmitted
  <1>2. ASSUME NEW s \in Sessions,
               tx' = [tx EXCEPT ![s] = Idle]
        PROVE  PendingIsSubmitted'
    BY <1>2 DEF PendingIsSubmitted, TxTypeOK, Idle
  <1>3. ASSUME NEW s \in Sessions, NEW selection \in Selections,
               tx' = [tx EXCEPT ![s] = Pending("configure", selection)]
        PROVE  PendingIsSubmitted'
    BY <1>3 DEF PendingIsSubmitted, TxTypeOK, Pending
  <1>4. ASSUME NEW s \in Sessions, NEW op \in {"start", "finish"},
               tx' = [tx EXCEPT ![s] = Pending(op, NoSelection)]
        PROVE  PendingIsSubmitted'
    BY <1>4 DEF PendingIsSubmitted, TxTypeOK, Pending
  <1>5. CASE LifecycleNext
    BY <1>5, <1>1, <1>2, <1>3, <1>4
    DEF LifecycleNext, DeleteGame, ConfigureRead, ConfigureWrite, StartRead,
        StartWrite, FinishRead, FinishWrite, Rollback
  <1>6. QED
    BY <1>1, <1>5

-----------------------------------------------------------------------------

\* A draw claims a slot nobody holds: what the guarded decrement of remaining
\* makes sure of by a counter.
LEMMA DrawImplements ==
    ASSUME TypeOK, RoleConservation, NEW u \in Users, NEW r \in Roles,
           DrawRole(u, r), UNCHANGED quantity
    PROVE  Dealing!DealNext
  <1>1. Cardinality(Holders(r)) \in Nat /\ remaining[r] \in Nat
    BY CountsAreNat DEF TypeOK, RowsTypeOK
  <1>2. remaining[r] + Cardinality(Holders(r)) = quantity[r] /\ remaining[r] > 0
    BY DEF RoleConservation, DrawRole
  <1>3. Dealing!InHands(r) = Cardinality(Holders(r))
    BY DEF Dealing!InHands, Holders, Cardinality, Dealing!Cardinality
  <1>4. Dealing!InHands(r) < quantity[r]
    BY <1>1, <1>2, <1>3
  <1>5. Dealing!Draw(u, r)
    BY <1>4 DEF Dealing!Draw, DrawRole
  <1>6. QED
    BY <1>5 DEF Dealing!DealNext

\* A player's own operations in the turn-based deal.
LEMMA PlayerImplements ==
    ASSUME Ledger, NEW u \in Users,
           \/ JoinGame(u)
           \/ \E n \in Seats : TakeSeat(u, n)
           \/ \E r \in Roles : TakeRole(u, r)
           \/ LeaveGame(u)
    PROVE  Dealing!DealNext \/ UNCHANGED <<quantity, role>>
  <1>1. CASE JoinGame(u) \/ \E n \in Seats : TakeSeat(u, n)
    BY <1>1 DEF JoinGame, TakeSeat
  <1>2. CASE \E r \in Roles : TakeRole(u, r)
    <2>1. PICK r \in Roles : TakeRole(u, r)
      BY <1>2
    <2>2. QED
      BY <2>1, DrawImplements DEF Ledger, TakeRole
  <1>3. CASE LeaveGame(u)
    BY <1>3 DEF LeaveGame, ReturnRole, Dealing!GiveBack, Dealing!DealNext
  <1>4. QED
    BY <1>1, <1>2, <1>3

\* The creator's operations, which every way of dealing shares.
LEMMA LifecycleImplements ==
    ASSUME PendingIsSubmitted, LifecycleNext
    PROVE  Dealing!DealNext \/ UNCHANGED <<quantity, role>>
  <1>1. CASE DeleteGame
    BY <1>1 DEF DeleteGame, Dealing!Clear, Dealing!DealNext
  <1>2. ASSUME NEW s \in Sessions, ConfigureWrite(s)
        PROVE  Dealing!DealNext
    <2>1. tx[s].selection \in Selections
      BY <1>2 DEF PendingIsSubmitted, ConfigureWrite
    <2>2. Dealing!Configure
      BY <1>2, <2>1 DEF Dealing!Configure, ConfigureWrite, Insertable
    <2>3. QED
      BY <2>2 DEF Dealing!DealNext
  <1>3. ASSUME NEW s \in Sessions,
               \/ \E selection \in Selections : ConfigureRead(s, selection)
               \/ StartRead(s) \/ StartWrite(s)
               \/ FinishRead(s) \/ FinishWrite(s)
               \/ Rollback(s)
        PROVE  UNCHANGED <<quantity, role>>
    BY <1>3 DEF ConfigureRead, StartRead, StartWrite, FinishRead, FinishWrite,
                Rollback, gameRows
  <1>4. QED
    BY <1>1, <1>2, <1>3 DEF LifecycleNext

LEMMA InitImplements == Init => PendingIsSubmitted /\ Dealing!DealInit
  BY DEF Init, LifecycleInit, RowsInit, Idle, PendingIsSubmitted, Dealing!DealInit

\* The turn-based lobby, with its counters, its queue and the creator's unlocked
\* updates, deals as Deal promises: each slot in one hand, one role per player.
THEOREM LobbyImplementsDeal == Spec => ImplementsDeal
  <1>1. ASSUME Books, PendingIsSubmitted, [Next]_vars
        PROVE  PendingIsSubmitted' /\ [Dealing!DealNext]_<<quantity, role>>
    <2>1. CASE LobbyNext
      <3>1. UNCHANGED tx
        BY <2>1 DEF LobbyNext, JoinGame, ChooseNumber, TakeSeat,
           AssignRole, TakeRole, LeaveGame
      <3>2. QED
        BY <1>1, <2>1, <3>1, PendingStep, PlayerImplements, BooksHaveALedger
        DEF LobbyNext, ChooseNumber, AssignRole, Books, TypeOK
    <2>2. CASE LifecycleNext
      BY <1>1, <2>2, PendingStep, LifecycleImplements DEF Books, TypeOK
    <2>3. CASE UNCHANGED vars
      BY <1>1, <2>3, PendingStep DEF Books, TypeOK, vars, lifecycleVars, gameRows
    <2>4. QED
      BY <1>1, <2>1, <2>2, <2>3 DEF Next
  <1>2. IInv => Books
    BY DEF IInv, Books
  <1>3. QED
    BY <1>1, <1>2, LobbyInvariant, InitImplements, PTL
    DEF Spec, ImplementsDeal, Dealing!DealSpec, Dealing!dealVars

\* Deal keeps what it promises, and so does every way of dealing that is shown to
\* implement it: no role is in more hands than it has slots, however a table is
\* dealt, opened and closed.
THEOREM NoSlotIsDealtTwice == ImplementsDeal => []Dealing!NoSlotTwice
  <1> DEFINE Dealt ==
        /\ quantity \in [Roles -> Nat]
        /\ role \in [Users -> Roles \cup {NoRole}]
        /\ \A r \in Roles : Cardinality(Holders(r)) <= quantity[r]
  <1>0. \A r : Dealing!InHands(r) = Cardinality(Holders(r))
    BY DEF Dealing!InHands, Holders, Cardinality, Dealing!Cardinality
  <1>1. Dealing!DealInit => Dealt
    <2> SUFFICES ASSUME Dealing!DealInit PROVE Dealt
      OBVIOUS
    <2>1. \A r \in Roles : Holders(r) = {}
      BY NoRoleIsNotARole DEF Dealing!DealInit, Holders
    <2>2. QED
      BY <2>1, FS_EmptySet DEF Dealing!DealInit
  <1>2. ASSUME Dealt, [Dealing!DealNext]_<<quantity, role>>
        PROVE  Dealt'
    <2>1. \A r : Cardinality(Holders(r)) \in Nat /\ IsFiniteSet(Holders(r))
      BY CountsAreNat
    <2>2. CASE Dealing!Configure
      <3>1. PICK selection \in Selections :
               quantity' = [r \in Roles |-> quantity[r] + selection[r]]
        BY <2>2 DEF Dealing!Configure
      <3>2. selection \in [Roles -> Nat]
        BY SelectionsAreQuantities
      <3>3. role' = role /\ \A r : Holders(r)' = Holders(r)
        BY <2>2 DEF Dealing!Configure, Holders
      <3>4. QED
        BY <1>2, <2>1, <3>1, <3>2, <3>3
    <2>3. ASSUME NEW u \in Users, Dealing!GiveBack(u)
          PROVE  Dealt'
      <3>1. quantity' = quantity /\ role' = [role EXCEPT ![u] = NoRole]
        BY <2>3 DEF Dealing!GiveBack
      <3>2. \A r \in Roles : Holders(r)' \subseteq Holders(r)
        BY <1>2, <3>1, NoRoleIsNotARole DEF Holders
      <3>3. \A r \in Roles : Cardinality(Holders(r)') <= Cardinality(Holders(r))
        BY <2>1, <3>2, FS_Subset
      <3>4. \A r \in Roles : Cardinality(Holders(r)') \in Nat
        BY <2>1, <3>2, FS_Subset, FS_CardinalityType
      <3>5. QED
        BY <1>2, <2>1, <3>1, <3>3, <3>4
    <2>4. ASSUME NEW u \in Users, NEW r \in Roles, Dealing!Draw(u, r)
          PROVE  Dealt'
      <3>1. /\ quantity' = quantity /\ role' = [role EXCEPT ![u] = r]
            /\ role[u] = NoRole /\ Cardinality(Holders(r)) < quantity[r]
        BY <1>0, <2>4 DEF Dealing!Draw
      <3>2. \A q \in Roles :
               Holders(q)' = IF q = r THEN Holders(q) \cup {u} ELSE Holders(q)
        BY <1>2, <3>1, NoRoleIsNotARole DEF Holders
      <3>3. u \notin Holders(r)
        BY <3>1, NoRoleIsNotARole DEF Holders
      <3>4. Cardinality(Holders(r) \cup {u}) = Cardinality(Holders(r)) + 1
        BY <2>1, <3>3, FS_AddElement
      <3>5. QED
        BY <1>2, <2>1, <3>1, <3>2, <3>4
    <2>5. CASE Dealing!Clear
      <3>1. \A r \in Roles : Holders(r)' = {}
        BY <2>5, NoRoleIsNotARole DEF Dealing!Clear, Holders
      <3>2. QED
        BY <2>5, <3>1, FS_EmptySet DEF Dealing!Clear
    <2>6. CASE UNCHANGED <<quantity, role>>
      BY <1>2, <2>6 DEF Holders
    <2>7. QED
      BY <1>2, <2>2, <2>3, <2>4, <2>5, <2>6 DEF Dealing!DealNext
  <1>3. Dealt => Dealing!NoSlotTwice
    BY <1>0 DEF Dealing!NoSlotTwice
  <1> HIDE DEF Dealt
  <1>4. QED
    BY <1>1, <1>2, <1>3, PTL DEF ImplementsDeal, Dealing!DealSpec, Dealing!dealVars

-----------------------------------------------------------------------------
(* The pool and the seats, counted.                                        *)

\* While fewer players than seats hold a number, some seat is free.
LEMMA SeatIsFree ==
    ASSUME NEW T \in SUBSET Users, Cardinality(T) < PlayerCount,
           \A v \in Active \ T : number[v] = 0
    PROVE  FreeNumbers # {}
  <1> SUFFICES ASSUME FreeNumbers = {} PROVE FALSE
    OBVIOUS
  <1>1. \A n \in Seats : \E v \in T : number[v] = n
    BY DEF FreeNumbers, TakenNumbers, Seats
  <1> DEFINE sitter == [n \in Seats |-> CHOOSE v \in T : number[v] = n]
  <1>2. \A n \in Seats : sitter[n] \in T /\ number[sitter[n]] = n
    BY <1>1
  <1>3. sitter \in Injection(Seats, T)
    <2> HIDE DEF sitter
    <2>1. sitter \in [Seats -> T]
      <3> USE DEF sitter
      <3> QED
        BY <1>2
    <2>2. \A m, n \in Seats : sitter[m] = sitter[n] => m = n
      BY <1>2
    <2>3. QED
      BY <2>1, <2>2 DEF Injection, IsInjective
  <1>4. IsFiniteSet(T) /\ Cardinality(T) \in Nat
    BY UserSetsFinite
  <1> HIDE DEF sitter
  <1>5. Cardinality(Seats) <= Cardinality(T)
    BY <1>3, <1>4, FS_Injection
  <1>6. Cardinality(Seats) = PlayerCount
    BY FS_Interval, PlayerCountPositive DEF Seats
  <1>7. QED
    BY <1>4, <1>5, <1>6, PlayerCountPositive

\* A free seat is one the unique constraint accepts, because whoever is not at
\* the table holds no number.
LEMMA FreeSeatIsInsertable ==
    ASSUME Books, NEW n \in FreeNumbers
    PROVE  n \in Seats /\ SeatInsertable(n)
  BY DEF Books, DepartedHoldNothing, FreeNumbers, TakenNumbers, SeatInsertable,
         Seats

\* As long as a table with a slot per seat is not completely dealt, the pool has
\* a role: were every counter zero, each slot would be in the hand of a player of
\* its own.
LEMMA PoolHasARole ==
    ASSUME Books, Cardinality(Assigned) < PlayerCount,
           NEW selection \in Selections, FillsTable(selection),
           \A r \in Roles : selection[r] <= quantity[r]
    PROVE  \E r \in Roles : remaining[r] > 0
  <1> SUFFICES ASSUME \A r \in Roles : ~(remaining[r] > 0)
               PROVE  FALSE
    OBVIOUS
  <1>1. \A r \in Roles : /\ IsFiniteSet(Holders(r))
                         /\ Cardinality(Holders(r)) = quantity[r]
    <2> SUFFICES ASSUME NEW r \in Roles
                 PROVE  /\ IsFiniteSet(Holders(r))
                        /\ Cardinality(Holders(r)) = quantity[r]
      OBVIOUS
    <2>1. remaining[r] = 0
      BY DEF Books, TypeOK, RowsTypeOK
    <2>2. remaining[r] + Cardinality(Holders(r)) = quantity[r]
      BY DEF Books, RoleConservation
    <2>3. QED
      BY <2>1, <2>2, CountsAreNat
  <1> DEFINE deal(r) == CHOOSE f : f \in Bijection(1..quantity[r], Holders(r))
             hand == [s \in Slots(selection) |-> deal(s[1])[s[2]]]
  <1>2. \A r \in Roles : deal(r) \in Bijection(1..quantity[r], Holders(r))
    <2> SUFFICES ASSUME NEW r \in Roles
                 PROVE  \E f : f \in Bijection(1..quantity[r], Holders(r))
      OBVIOUS
    <2>1. ExistsBijection(1..quantity[r], Holders(r))
      BY <1>1, FS_CardinalityType
    <2>2. QED
      BY <2>1 DEF ExistsBijection
  <1>3. \A s \in Slots(selection) :
           /\ s = <<s[1], s[2]>>
           /\ s[1] \in Roles
           /\ s[2] \in 1..quantity[s[1]]
    <2>1. selection \in [Roles -> Nat] /\ quantity \in [Roles -> Nat]
      BY SelectionsAreQuantities DEF Books, TypeOK, RowsTypeOK
    <2>2. \A r \in Roles : 1..selection[r] \subseteq 1..quantity[r]
      BY <2>1
    <2>3. QED
      BY <2>2 DEF Slots
  <1> HIDE DEF deal
  <1>4. \A s \in Slots(selection) : hand[s] \in Holders(s[1])
    BY <1>2, <1>3 DEF Bijection, Injection
  <1>5. \A s \in Slots(selection) : hand[s] \in Assigned
    BY <1>3, <1>4, NoRoleIsNotARole
    DEF Holders, Assigned, Books, RoleIffAssigned
  <1>6. ASSUME NEW s \in Slots(selection), NEW t \in Slots(selection),
               hand[s] = hand[t]
        PROVE  s = t
    <2>1. s[1] = t[1]
      BY <1>4, <1>6 DEF Holders
    <2>2. deal(s[1])[s[2]] = deal(s[1])[t[2]]
      BY <1>6, <2>1
    <2>3. /\ s[1] \in Roles
          /\ s[2] \in 1..quantity[s[1]] /\ t[2] \in 1..quantity[s[1]]
      BY <1>3, <2>1
    <2>4. deal(s[1]) \in Injection(1..quantity[s[1]], Holders(s[1]))
      BY <1>2, <2>3 DEF Bijection
    <2>5. s[2] = t[2]
      BY <2>2, <2>3, <2>4 DEF Injection, IsInjective
    <2>6. QED
      BY <1>3, <2>1, <2>5
  <1>7. hand \in Injection(Slots(selection), Assigned)
    BY <1>5, <1>6 DEF Injection, IsInjective
  <1> HIDE DEF hand
  <1>8. SlotCount(selection) <= Cardinality(Assigned)
    BY <1>7, CountsAreNat, FS_Injection DEF SlotCount
  <1>9. QED
    BY <1>8, CountsAreNat, PlayerCountPositive DEF FillsTable

-----------------------------------------------------------------------------
(* The pool of a game.                                                     *)

Unopened == {"CREATING", "DELETED"}

\* An unopened game is empty; an opened one has the slots of a submitted
\* composition that fills the table, or more; and what is on its way to a write
\* has passed its check.
Stocked ==
    /\ status \in Unopened => Active = {} /\ quantity = NoSelection
    /\ status \notin Unopened =>
          \E selection \in Selections :
             FillsTable(selection) /\ \A r \in Roles : selection[r] <= quantity[r]
    /\ \A s \in Sessions :
          /\ tx[s].op = "configure" =>
                tx[s].selection \in Selections /\ FillsTable(tx[s].selection)
          /\ tx[s].op \in {"start", "finish"} => status # "CREATING"

LEMMA InitStocked == Init => Stocked
  BY DEF Init, LifecycleInit, RowsInit, Stocked, Unopened, Idle, NoSelection,
         Active, ActiveStatuses

\* Players act on open games and change neither pool nor updates.
LEMMA PlayersKeepStocked ==
    ASSUME Stocked, status \notin Unopened, status' \notin Unopened,
           UNCHANGED <<quantity, tx>>
    PROVE  Stocked'
  BY DEF Stocked, FillsTable, Unopened

\* A player's operations in the turn-based deal are such steps.
LEMMA PlayerStepsAreOpen ==
    ASSUME Stocked, NEW u \in Users,
           \/ JoinGame(u)
           \/ \E n \in Seats : TakeSeat(u, n)
           \/ \E r \in Roles : TakeRole(u, r)
           \/ LeaveGame(u)
    PROVE  /\ status \notin Unopened /\ status' \in {status, "READY", "WAITING_PLAYERS"}
           /\ UNCHANGED <<quantity, tx>>
           /\ Stocked'
  <1>1. status \notin Unopened /\ UNCHANGED <<quantity, tx>>
    BY DEF JoinGame, TakeSeat, TakeRole, LeaveGame, Stocked, Unopened
  <1>2. status' \in {status, "READY", "WAITING_PLAYERS"}
    BY DEF JoinGame, TakeSeat, TakeRole, MarkReadyIfDealt, LeaveGame,
           ReopenLobby
  <1>3. QED
    BY <1>1, <1>2, PlayersKeepStocked DEF Unopened

\* A configuration adds its slots to those that are there.
LEMMA ConfigureWriteKeepsStocked ==
    ASSUME TypeOK, Stocked, NEW s \in Sessions, ConfigureWrite(s)
    PROVE  Stocked'
  <1>1. /\ tx[s].selection \in Selections /\ FillsTable(tx[s].selection)
        /\ quantity' = [r \in Roles |-> quantity[r] + tx[s].selection[r]]
        /\ status' = "WAITING_PLAYERS" /\ tx' = [tx EXCEPT ![s] = Idle]
    BY DEF Stocked, ConfigureWrite
  <1>2. tx[s].selection \in [Roles -> Nat] /\ quantity \in [Roles -> Nat]
    BY <1>1, SelectionsAreQuantities DEF TypeOK, RowsTypeOK
  <1>3. \A r \in Roles : tx[s].selection[r] <= quantity'[r]
    BY <1>1, <1>2
  <1>4. \A t \in Sessions : tx'[t] \in {tx[t], Idle}
    BY <1>1 DEF TypeOK, TxTypeOK
  <1>5. QED
    BY <1>1, <1>3, <1>4 DEF Stocked, Unopened, Idle, FillsTable

\* Every operation of the creator keeps it, however they overlap.
LEMMA LifecycleKeepsStocked ==
    ASSUME TypeOK, Stocked, LifecycleNext
    PROVE  Stocked'
  <1>0. tx \in [Sessions -> [op : {"idle", "configure", "start", "finish"},
                             selection : [Roles -> Nat]]]
    BY DEF TypeOK, TxTypeOK
  <1>1. CASE DeleteGame
    BY <1>1 DEF DeleteGame, Stocked, Unopened, NoSelection, Active,
                ActiveStatuses, FillsTable
  <1>2. ASSUME NEW s \in Sessions, ConfigureWrite(s)
        PROVE  Stocked'
    BY <1>2, ConfigureWriteKeepsStocked
  <1>3. ASSUME NEW s \in Sessions, NEW selection \in Selections,
               ConfigureRead(s, selection)
        PROVE  Stocked'
    <2>1. /\ UNCHANGED gameRows /\ FillsTable(selection)
          /\ tx'[s] = Pending("configure", selection)
          /\ \A t \in Sessions \ {s} : tx'[t] = tx[t]
      BY <1>0, <1>3 DEF ConfigureRead
    <2>2. UNCHANGED <<status, quantity, Active>>
      BY <2>1 DEF gameRows, Active
    <2>3. QED
      BY <2>1, <2>2 DEF Stocked, Pending, FillsTable
  <1>4. ASSUME NEW s \in Sessions, StartRead(s) \/ FinishRead(s)
        PROVE  Stocked'
    <2>1. /\ UNCHANGED gameRows /\ status # "CREATING"
          /\ tx'[s].op \in {"start", "finish"}
          /\ \A t \in Sessions \ {s} : tx'[t] = tx[t]
      BY <1>0, <1>4 DEF StartRead, FinishRead, Pending
    <2>2. UNCHANGED <<status, quantity, Active>>
      BY <2>1 DEF gameRows, Active
    <2>3. QED
      BY <2>1, <2>2 DEF Stocked, FillsTable
  <1>5. ASSUME NEW s \in Sessions,
               StartWrite(s) \/ FinishWrite(s) \/ Rollback(s)
        PROVE  Stocked'
    <2>1. /\ UNCHANGED <<quantity, Active>>
          /\ status' = status \/ (status \notin Unopened /\ status' \notin Unopened)
          /\ tx'[s] = Idle
          /\ \A t \in Sessions \ {s} : tx'[t] = tx[t]
      BY <1>0, <1>5
      DEF StartWrite, FinishWrite, Rollback, RowMatched, gameRows, seatRows, Active,
          Stocked, Unopened
    <2>2. QED
      BY <2>1 DEF Stocked, Unopened, Idle, FillsTable
  <1>6. QED
    BY <1>1, <1>2, <1>3, <1>4, <1>5 DEF LifecycleNext

\* A step that changes no row and no update.
LEMMA StutterKeepsStocked ==
    ASSUME Stocked, UNCHANGED vars
    PROVE  Stocked'
  BY DEF vars, lifecycleVars, gameRows, Stocked, Active, FillsTable

\* While an open table is not completely dealt, there is a role to draw.
LEMMA StockedPoolHasARole ==
    ASSUME Books, Stocked, status \notin Unopened, Cardinality(Assigned) < PlayerCount
    PROVE  \E r \in Roles : remaining[r] > 0
  BY PoolHasARole DEF Stocked

LEMMA LobbyIsStocked == Spec => []Stocked
  <1>1. ASSUME IInv, Stocked, [Next]_vars
        PROVE  Stocked'
    <2>0. TypeOK
      BY <1>1 DEF IInv
    <2>1. CASE LobbyNext
      BY <1>1, <2>1, PlayerStepsAreOpen
      DEF LobbyNext, ChooseNumber, AssignRole
    <2>2. CASE LifecycleNext
      BY <1>1, <2>0, <2>2, LifecycleKeepsStocked
    <2>3. CASE UNCHANGED vars
      BY <1>1, <2>3, StutterKeepsStocked
    <2>4. QED
      BY <1>1, <2>1, <2>2, <2>3 DEF Next
  <1>2. QED
    BY <1>1, InitStocked, LobbyInvariant, PTL DEF Spec

\* The player in turn at a full table has a seat to pick or a role to draw, for
\* every table size, every history of departures and returns and whatever
\* configurations, starts and finishes of the creator overlap
\* (ensure_players_turn, choose_number, assign_random_role).
THEOREM TurnsCanBeTaken == Spec => []TurnPlayerCanAct
  <1>1. ASSUME IInv, Stocked
        PROVE  TurnPlayerCanAct
    <2> SUFFICES ASSUME NEW u \in Users, status = "WAITING_PLAYERS", MayActNow(u)
                 PROVE  IF number[u] = 0
                        THEN \E n \in FreeNumbers : SeatInsertable(n)
                        ELSE \E r \in Roles : remaining[r] > 0
      BY DEF TurnPlayerCanAct
    <2>1. Books /\ NeverOverfull
      BY <1>1 DEF IInv, Books
    <2>2. /\ u \in Active /\ u \notin Assigned
          /\ Active \in SUBSET Users /\ Assigned \subseteq Active
      BY DEF MayActNow, IsTurnOf, AwaitingTurn, Active, Assigned, ActiveStatuses
    <2>3. Cardinality(Active \ {u}) = Cardinality(Active) - 1
      BY <2>2, CountsAreNat, FS_RemoveElement
    <2>4. Cardinality(Active \ {u}) < PlayerCount
      BY <2>1, <2>3, CountsAreNat, PlayerCountPositive DEF NeverOverfull
    <2>5. CASE number[u] = 0
      <3>1. FreeNumbers # {}
        BY <2>2, <2>4, <2>5, SeatIsFree
      <3>2. QED
        BY <2>1, <2>5, <3>1, FreeSeatIsInsertable
    <2>6. CASE number[u] # 0
      <3>1. Cardinality(Assigned) <= Cardinality(Active \ {u})
        BY <2>2, UserSetsFinite, FS_Subset
      <3>2. Cardinality(Assigned) < PlayerCount
        BY <2>2, <2>4, <3>1, CountsAreNat, UserSetsFinite, PlayerCountPositive
      <3>3. QED
        BY <1>1, <2>1, <2>6, <3>2, StockedPoolHasARole DEF Unopened
    <2>7. QED
      BY <2>5, <2>6
  <1>2. QED
    BY <1>1, LobbyInvariant, LobbyIsStocked, PTL

-----------------------------------------------------------------------------
(* Games that are opened once.                                             *)

\* The creator's updates do not overlap, or any two compositions that fill the
\* table share a role, so that UNIQUE(game_id, role_id) lets one configuration
\* through.
ConfigurationsCollide ==
    \/ \A s, t \in Sessions : s = t
    \/ \A a, b \in Selections :
          FillsTable(a) /\ FillsTable(b) => \E r \in Roles : a[r] > 0 /\ b[r] > 0

\* The pool is the one composition the game was opened with; whatever else is on
\* its way to a write finds the game gone or its rows in the way.
OpenedOnce ==
    /\ status \notin Unopened => FillsTable(quantity)
    /\ \A s \in Sessions :
          tx[s].op = "configure" =>
             status \in Unopened \/ ~Insertable(tx[s].selection)

LEMMA InitOpenedOnce == Init => OpenedOnce
  BY DEF Init, LifecycleInit, RowsInit, OpenedOnce, Unopened, Idle

\* A configuration that fills the table keeps others out: with the premise, its
\* rows are in their way.
LEMMA ConfigureWriteKeepsOpenedOnce ==
    ASSUME ConfigurationsCollide, TypeOK, Stocked, OpenedOnce,
           NEW s \in Sessions, ConfigureWrite(s)
    PROVE  OpenedOnce' /\ status = "CREATING" /\ Active' = {}
  <1> USE DEF ConfigureWrite, Stocked, OpenedOnce, Unopened
  <1>1. status = "CREATING" /\ Active = {} /\ quantity = NoSelection
    BY DEF RowMatched
  <1>2. /\ tx[s].selection \in [Roles -> Nat]
        /\ tx[s].selection \in Selections /\ FillsTable(tx[s].selection)
    BY DEF TypeOK, TxTypeOK
  <1>3. quantity' = tx[s].selection
    BY <1>1, <1>2 DEF NoSelection
  <1>4. Active' = {} /\ status' = "WAITING_PLAYERS"
    BY <1>1 DEF Active, seatRows
  <1>5. ASSUME NEW t \in Sessions, tx'[t].op = "configure"
        PROVE  ~Insertable(tx[t].selection)' /\ tx'[t] = tx[t]
    <2>1. t # s /\ tx'[t] = tx[t]
      BY <1>5 DEF Idle, TypeOK, TxTypeOK
    <2>2. tx[t].selection \in Selections /\ FillsTable(tx[t].selection)
      BY <1>5, <2>1
    <2>3. \E r \in Roles : tx[t].selection[r] > 0 /\ tx[s].selection[r] > 0
      BY <1>2, <2>1, <2>2 DEF ConfigurationsCollide
    <2>4. QED
      BY <1>2, <1>3, <2>1, <2>3 DEF Insertable
  <1>6. FillsTable(quantity')
    BY <1>2, <1>3
  <1>7. QED
    BY <1>1, <1>4, <1>5, <1>6 DEF FillsTable

\* Any other operation of the creator leaves the pool alone, or deletes the game.
LEMMA LifecycleKeepsOpenedOnce ==
    ASSUME ConfigurationsCollide, TypeOK, Stocked, OpenedOnce, LifecycleNext
    PROVE  OpenedOnce'
  <1>0. tx \in [Sessions -> [op : {"idle", "configure", "start", "finish"},
                             selection : [Roles -> Nat]]]
    BY DEF TypeOK, TxTypeOK
  <1>1. CASE DeleteGame
    BY <1>1 DEF DeleteGame, OpenedOnce, Unopened
  <1>2. ASSUME NEW s \in Sessions, ConfigureWrite(s)
        PROVE  OpenedOnce'
    BY <1>2, ConfigureWriteKeepsOpenedOnce
  <1>3. ASSUME NEW s \in Sessions, NEW selection \in Selections,
               ConfigureRead(s, selection)
        PROVE  OpenedOnce'
    <2>1. /\ UNCHANGED <<status, quantity>> /\ status = "CREATING"
          /\ \A t \in Sessions \ {s} : tx'[t] = tx[t]
      BY <1>0, <1>3 DEF ConfigureRead, gameRows
    <2>2. QED
      BY <2>1 DEF OpenedOnce, Unopened
  <1>4. ASSUME NEW s \in Sessions,
               \/ StartRead(s) \/ FinishRead(s)
               \/ StartWrite(s) \/ FinishWrite(s) \/ Rollback(s)
        PROVE  OpenedOnce'
    <2>1. /\ UNCHANGED quantity
          /\ status' = status \/ (status \notin Unopened /\ status' \notin Unopened)
          /\ tx'[s].op # "configure"
          /\ \A t \in Sessions \ {s} : tx'[t] = tx[t]
      BY <1>0, <1>4
      DEF StartRead, FinishRead, StartWrite, FinishWrite, Rollback, RowMatched,
          gameRows, Stocked, Unopened, Pending, Idle
    <2>2. QED
      BY <2>1 DEF OpenedOnce, Unopened, FillsTable, Insertable
  <1>5. QED
    BY <1>1, <1>2, <1>3, <1>4 DEF LifecycleNext

\* A player's operation does not complete a deal without making the game READY,
\* and a departure does not leave a complete one.
LEMMA PlayerKeepsDealtMeansReady ==
    ASSUME TypeOK, NeverOverfull, NeverOverfull', DealtMeansReady, NEW u \in Users,
           \/ JoinGame(u)
           \/ \E n \in Seats : TakeSeat(u, n)
           \/ \E r \in Roles : TakeRole(u, r)
           \/ LeaveGame(u)
    PROVE  DealtMeansReady'
  <1>0. /\ playerStatus \in [Users -> PlayerStatus]
        /\ Assigned \in SUBSET Users /\ Assigned' \in SUBSET Users
    BY DEF TypeOK, RowsTypeOK, Assigned
  <1>1. SUFFICES ASSUME status' = "WAITING_PLAYERS"
                 PROVE  Cardinality(Assigned') < PlayerCount
    BY DEF DealtMeansReady
  <1>2. CASE JoinGame(u) \/ \E n \in Seats : TakeSeat(u, n)
    <2>1. Assigned' \subseteq Assigned /\ status = "WAITING_PLAYERS"
      BY <1>0, <1>2 DEF JoinGame, TakeSeat, Assigned
    <2>2. Cardinality(Assigned') <= Cardinality(Assigned)
      BY <2>1, CountsAreNat, FS_Subset
    <2>3. QED
      BY <1>0, <2>1, <2>2, UserSetsFinite, PlayerCountPositive DEF DealtMeansReady
  <1>3. CASE \E r \in Roles : TakeRole(u, r)
    <2>1. /\ status = "WAITING_PLAYERS"
          /\ ~(Cardinality(Active') = PlayerCount /\ Cardinality(Assigned') = PlayerCount)
      BY <1>1, <1>3 DEF TakeRole, MarkReadyIfDealt
    <2>2. Assigned' \subseteq Active' /\ Active' \in SUBSET Users
      BY DEF Assigned, Active, ActiveStatuses
    <2>3. Cardinality(Assigned') <= Cardinality(Active')
      BY <2>2, UserSetsFinite, FS_Subset
    <2>4. Cardinality(Active') <= PlayerCount
      BY DEF NeverOverfull
    <2>5. QED
      BY <1>0, <2>1, <2>2, <2>3, <2>4, UserSetsFinite, PlayerCountPositive
  <1>4. CASE LeaveGame(u)
    <2>1. /\ Assigned' \subseteq Active \ {u}
          /\ u \in Active /\ Active \in SUBSET Users
      BY <1>0, <1>4 DEF LeaveGame, FreeSeat, Assigned, Active, ActiveStatuses
    <2>2. Cardinality(Active \ {u}) = Cardinality(Active) - 1
      BY <2>1, UserSetsFinite, FS_RemoveElement
    <2>3. Cardinality(Assigned') <= Cardinality(Active \ {u})
      BY <2>1, UserSetsFinite, FS_Subset
    <2>4. QED
      BY <1>0, <2>2, <2>3, CountsAreNat, UserSetsFinite, PlayerCountPositive
      DEF NeverOverfull
  <1>5. QED
    BY <1>2, <1>3, <1>4

\* The creator opens games at which nobody sits.
LEMMA LifecycleKeepsDealtMeansReady ==
    ASSUME ConfigurationsCollide, TypeOK, Stocked, OpenedOnce, DealtMeansReady,
           LifecycleNext
    PROVE  DealtMeansReady'
  <1> SUFFICES ASSUME status' = "WAITING_PLAYERS"
               PROVE  Cardinality(Assigned') < PlayerCount
    BY DEF DealtMeansReady
  <1>1. CASE \E s \in Sessions : ConfigureWrite(s)
    <2>1. Active' = {}
      BY <1>1, ConfigureWriteKeepsOpenedOnce
    <2>2. Assigned' = {}
      BY <2>1 DEF Assigned, Active, ActiveStatuses
    <2>3. QED
      BY <2>2, FS_EmptySet, PlayerCountPositive
  <1>2. CASE ~ \E s \in Sessions : ConfigureWrite(s)
    <2>1. status = "WAITING_PLAYERS" /\ UNCHANGED playerStatus
      BY <1>2 DEF LifecycleNext, DeleteGame, ConfigureRead, StartRead, StartWrite,
                  FinishRead, FinishWrite, Rollback, gameRows, seatRows
    <2>2. QED
      BY <2>1 DEF DealtMeansReady, Assigned
  <1>3. QED
    BY <1>1, <1>2

\* Any step of the lobby, from and to states in which the table is not overfull.
LEMMA PoolStep ==
    ASSUME ConfigurationsCollide, TypeOK, NeverOverfull, NeverOverfull', Stocked,
           OpenedOnce, DealtMeansReady, [Next]_vars
    PROVE  Stocked' /\ OpenedOnce' /\ DealtMeansReady'
  <1>1. CASE LobbyNext
    <2>1. Stocked' /\ OpenedOnce'
      BY <1>1, PlayerStepsAreOpen
      DEF LobbyNext, ChooseNumber, AssignRole, OpenedOnce, Unopened, FillsTable, Insertable
    <2>2. QED
      BY <1>1, <2>1, PlayerKeepsDealtMeansReady
      DEF LobbyNext, ChooseNumber, AssignRole
  <1>2. CASE LifecycleNext
    BY <1>2, LifecycleKeepsStocked, LifecycleKeepsOpenedOnce,
       LifecycleKeepsDealtMeansReady
  <1>3. CASE UNCHANGED vars
    <2>1. OpenedOnce' /\ DealtMeansReady'
      BY <1>3
      DEF vars, lifecycleVars, gameRows, OpenedOnce, FillsTable, Insertable,
          DealtMeansReady, Assigned
    <2>2. QED
      BY <1>3, <2>1, StutterKeepsStocked
  <1>4. QED
    BY <1>1, <1>2, <1>3 DEF Next

LEMMA InitPool == Init => Stocked /\ OpenedOnce /\ DealtMeansReady
  BY InitStocked, InitOpenedOnce
  DEF Init, LifecycleInit, RowsInit, DealtMeansReady

\* In every reachable state of the turn-based lobby.
LEMMA PoolInvariant ==
    ASSUME ConfigurationsCollide
    PROVE  Spec => [](OpenedOnce /\ DealtMeansReady)
  <1>1. IInv => TypeOK /\ NeverOverfull
    BY DEF IInv
  <1>2. ASSUME TypeOK, NeverOverfull, NeverOverfull', [Next]_vars,
               Stocked, OpenedOnce, DealtMeansReady
        PROVE  Stocked' /\ OpenedOnce' /\ DealtMeansReady'
    BY <1>2, PoolStep
  <1>3. QED
    BY <1>1, <1>2, InitPool, LobbyInvariant, PTL DEF Spec

\* What OpenedOnce says of the pool, for readers.
LEMMA OpenedPoolFits == OpenedOnce => PoolFitsTable
  BY DEF OpenedOnce, Unopened, PoolFitsTable, FillsTable

\* Every opened game has one slot per seat, whatever starts and finishes of the
\* creator overlap (configure_roles), as long as configurations collide.
THEOREM PoolAlwaysFits == ConfigurationsCollide => (Spec => []PoolFitsTable)
  <1> SUFFICES ASSUME ConfigurationsCollide PROVE Spec => []PoolFitsTable
    OBVIOUS
  <1>1. QED
    BY OpenedPoolFits, PoolInvariant, PTL

\* No complete deal stays in an open lobby (_maybe_mark_ready).
THEOREM NoDealIsLeftBehind == ConfigurationsCollide => (Spec => []DealtMeansReady)
  <1> SUFFICES ASSUME ConfigurationsCollide PROVE Spec => []DealtMeansReady
    OBVIOUS
  <1>1. QED
    BY PoolInvariant, PTL

=============================================================================
