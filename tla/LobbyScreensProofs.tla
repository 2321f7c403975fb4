------------------------- MODULE LobbyScreensProofs --------------------------
(***************************************************************************)
(* Proofs about LobbyScreens, for any number of users, roles, messages,    *)
(* refreshes and failures: a player who waits has a live screen that is    *)
(* right, and a button that gets on; a role that was dealt stays on the    *)
(* screen; and what a handler shows before its commit never gets into the  *)
(* rows, which keep what LobbyProofs shows of them.                        *)
(*                                                                         *)
(* None of the three screen properties is inductive.  What carries them    *)
(* is what is in flight: the table the lock's holder sees is one operation *)
(* away from the rows (TurnFits); its broadcast still has an edit for      *)
(* every live screen that is not right (LiveScreens); and a refresh that   *)
(* will show something that is no longer true is never about to do so in a *)
(* message which somebody else is making right (StaleScreens).             *)
(***************************************************************************)
EXTENDS LobbyScreens, FiniteSetTheorems, TLAPS

-----------------------------------------------------------------------------
(* Tables.                                                                 *)

\* A row's columns agree with its stage, no role is in two hands, and the
\* table is not over-full.
RowFits(t, u) ==
    /\ t.stage[u] \in {"NONE", "LEFT"} <=> t.order[u] = 0
    /\ t.stage[u] \in {"NUMBERED", "ASSIGNED"} <=> t.number[u] # 0
    /\ t.stage[u] = "ASSIGNED" <=> t.role[u] # NoRole

RowsFit(t) ==
    /\ \A u \in Users : RowFits(t, u)
    /\ \A u, v \in Users : t.role[u] # NoRole /\ t.role[u] = t.role[v] => u = v
    /\ Cardinality(ActiveIn(t)) <= PlayerCount

\* The lobby's operations as the handlers use them: t is what op makes of s.
Follows(s, op, u, t) ==
    \/ /\ op = "join"
       /\ u \notin ActiveIn(s) /\ ~Complete(s)
       /\ \E k \in 1..MaxJoinOrder :
             /\ \A v \in Users : s.order[v] < k
             /\ k = 1 \/ \E v \in Users : s.order[v] = k - 1
             /\ t = Joined(s, u, k)
    \/ /\ op = "pick"
       /\ CurrentTurn(s) = u /\ s.number[u] = 0
       /\ \E n \in FreeIn(s) : t = Numbered(s, u, n)
    \/ /\ op = "refused"
       /\ t = s
    \/ /\ op = "assign"
       /\ CurrentTurn(s) = u /\ s.number[u] # 0
       /\ \E r \in PoolIn(s) : t = Drawn(s, u, r)
    \/ /\ op = "leave"
       /\ u \in ActiveIn(s)
       /\ t = Departed(s, u)

\* A nonempty set of numbers has a least member.
LEMMA LeastNumber ==
    ASSUME NEW S \in SUBSET Nat, S # {}
    PROVE  \E n \in S : \A m \in S : n <= m
  <1> DEFINE UpTo == {1..n : n \in S}
  <1>1. UpTo \subseteq FiniteSubsetsOf(Nat)
    <2>1. \A n \in Nat : 1..n \subseteq Nat /\ IsFiniteSet(1..n)
      BY FS_Interval
    <2>2. QED
      BY <2>1 DEF FiniteSubsetsOf
  <1>2. UpTo # {}
    OBVIOUS
  <1>3. IsWellFoundedOn(StrictSubsetOrdering(Nat), FiniteSubsetsOf(Nat))
    BY FS_StrictSubsetOrderingWellFounded
  <1>4. PICK I \in UpTo : \A J \in UpTo : <<J, I>> \notin StrictSubsetOrdering(Nat)
    <2> HIDE DEF UpTo
    <2>1. QED
      BY <1>1, <1>2, <1>3, WFMin
  <1>5. PICK n \in S : I = 1..n
    OBVIOUS
  <1>6. ASSUME NEW m \in S, m < n
        PROVE  FALSE
    <2>1. n \in Nat /\ m \in Nat
      OBVIOUS
    <2>2. 1..m \subseteq 1..n /\ n \in 1..n /\ n \notin 1..m
      BY <1>6, <2>1
    <2>3. <<1..m, 1..n>> \in StrictSubsetOrdering(Nat)
      BY <2>1, <2>2 DEF StrictSubsetOrdering
    <2>4. QED
      BY <1>4, <1>5, <2>3
  <1>7. QED
    BY <1>6

\* The players at a table can be counted.
LEMMA TableIsFinite ==
    ASSUME NEW t \in Tables
    PROVE  /\ IsFiniteSet(ActiveIn(t)) /\ Cardinality(ActiveIn(t)) \in Nat
           /\ IsFiniteSet(DealtIn(t)) /\ Cardinality(DealtIn(t)) \in Nat
           /\ Cardinality(DealtIn(t)) <= Cardinality(ActiveIn(t))
           /\ AwaitingIn(t) # {} =>
                 Cardinality(DealtIn(t)) < Cardinality(ActiveIn(t))
  <1>1. ActiveIn(t) \subseteq Users /\ DealtIn(t) \subseteq ActiveIn(t)
    BY DEF ActiveIn, DealtIn
  <1>2. IsFiniteSet(ActiveIn(t)) /\ IsFiniteSet(DealtIn(t))
    BY <1>1, UsersFinite, FS_Subset
  <1>3. AwaitingIn(t) # {} => DealtIn(t) # ActiveIn(t)
    BY DEF AwaitingIn, ActiveIn, DealtIn
  <1>4. QED
    BY <1>1, <1>2, <1>3, FS_CardinalityType, FS_Subset

\* The first in turn waits, and nobody who waits comes before.
LEMMA FirstIsAwaited ==
    ASSUME NEW t \in Tables, FirstInTurn(t) # NoUser
    PROVE  /\ FirstInTurn(t) \in AwaitingIn(t)
           /\ \A v \in AwaitingIn(t) : t.order[FirstInTurn(t)] <= t.order[v]
  <1> DEFINE First(u) == \A v \in AwaitingIn(t) : t.order[u] <= t.order[v]
             Orders == {t.order[u] : u \in AwaitingIn(t)}
  <1>1. AwaitingIn(t) # {}
    BY DEF FirstInTurn
  <1>2. Orders \in SUBSET Nat /\ Orders # {}
    BY <1>1 DEF Tables, AwaitingIn
  <1>3. PICK k \in Orders : \A m \in Orders : k <= m
    <2> HIDE DEF Orders
    <2>1. QED
      BY <1>2, LeastNumber
  <1>4. \E u \in AwaitingIn(t) : First(u)
    BY <1>3
  <1>5. FirstInTurn(t) = CHOOSE u \in AwaitingIn(t) : First(u)
    BY <1>1 DEF FirstInTurn
  <1> HIDE DEF First
  <1>6. FirstInTurn(t) \in AwaitingIn(t) /\ First(FirstInTurn(t))
    BY <1>4, <1>5
  <1>7. QED
    BY <1>1, <1>6 DEF First

\* So does the player in turn, at a complete table.
LEMMA TurnIsAwaited ==
    ASSUME NEW t \in Tables, CurrentTurn(t) # NoUser
    PROVE  /\ Complete(t)
           /\ CurrentTurn(t) \in AwaitingIn(t)
           /\ \A v \in AwaitingIn(t) : t.order[CurrentTurn(t)] <= t.order[v]
  BY FirstIsAwaited DEF CurrentTurn

LEMMA UserInTurn ==
    ASSUME NEW t \in Tables, NEW u \in Users, CurrentTurn(t) = u
    PROVE  /\ Complete(t) /\ u \in AwaitingIn(t)
           /\ \A v \in AwaitingIn(t) : t.order[u] <= t.order[v]
  BY TurnIsAwaited, NobodyIsNoUser

-----------------------------------------------------------------------------
(* Screens.                                                                *)

\* What _screen_for_player can make of a table.
Rendered == {"absent", "role", "lobby", "notturn", "numbers", "getrole"}

\* What a screen says of the player's row.
LEMMA ScreenSays ==
    ASSUME NEW t \in Tables, RowsFit(t), NEW u \in Users
    PROVE  LET s == ScreenFor(t, u) IN
           /\ s \in Screens /\ s.kind \in Rendered
           /\ s.kind = "role" <=> t.stage[u] = "ASSIGNED"
           /\ s.kind = "role" => s = Screen("role", {t.role[u]})
           /\ s.kind = "absent" <=> t.stage[u] = "NONE"
           /\ s.kind = "numbers" => t.stage[u] = "JOINED"
           /\ s.kind = "getrole" => t.stage[u] = "NUMBERED"
  <1> DEFINE s == ScreenFor(t, u)
  <1>1. /\ t.role[u] \in Roles \cup {NoRole} /\ t.number[u] \in Nat
        /\ t.stage[u] \in Stages /\ FreeIn(t) \subseteq Nat
    BY DEF Tables, FreeIn, Seats
  <1>2. Cardinality(ActiveIn(t)) \in Nat
    BY TableIsFinite
  <1>3. CurrentTurn(t) = u => t.stage[u] \in {"JOINED", "NUMBERED"}
    BY UserInTurn DEF AwaitingIn
  <1>4. t.stage[u] \in {"NUMBERED", "ASSIGNED"} <=> t.number[u] # 0
    BY DEF RowsFit, RowFits
  <1>5. CASE t.stage[u] = "NONE"
    BY <1>1, <1>5 DEF ScreenFor, Screen, Screens, Kinds, Rendered
  <1>6. CASE t.stage[u] = "ASSIGNED"
    BY <1>1, <1>6 DEF ScreenFor, Screen, Screens, Kinds, Rendered
  <1>7. CASE t.stage[u] \notin {"NONE", "ASSIGNED"}
    BY <1>1, <1>2, <1>3, <1>4, <1>7
    DEF ScreenFor, Screen, Screens, Kinds, Rendered
  <1>8. QED
    BY <1>5, <1>6, <1>7

\* Showing a screen changes one message.
LEMMA ShowsOne ==
    ASSUME screen \in [Users -> [Messages -> Screens]],
           NEW u \in Users, NEW m \in Messages, NEW s, Shows(u, m, s)
    PROVE  /\ screen'[u][m] = s
           /\ \A v \in Users, k \in Messages :
                 (v # u \/ k # m) => screen'[v][k] = screen[v][k]
           /\ s \in Screens => screen' \in [Users -> [Messages -> Screens]]
  BY DEF Shows

\* A message sent to a player is a message of its own.
LEMMA NewMessageIsUnsent ==
    ASSUME NEW u \in Users, CanSend(u)
    PROVE  NewMessage(u) \in Messages /\ screen[u][NewMessage(u)] = Unsent
  <1> DEFINE Blank == {m \in Messages : screen[u][m] = Unsent}
             IsNew(m) == /\ screen[u][m] = Unsent
                         /\ \A k \in Messages : screen[u][k] = Unsent => m <= k
  <1>1. Blank \in SUBSET Nat /\ Blank # {}
    BY DEF CanSend, Messages
  <1>2. PICK m \in Blank : \A k \in Blank : m <= k
    <2> HIDE DEF Blank
    <2>1. QED
      BY <1>1, LeastNumber
  <1>3. m \in Messages /\ IsNew(m)
    BY <1>2
  <1>4. NewMessage(u) = CHOOSE k \in Messages : IsNew(k)
    BY DEF NewMessage
  <1> HIDE DEF IsNew
  <1>5. NewMessage(u) \in Messages /\ IsNew(NewMessage(u))
    BY <1>3, <1>4
  <1>6. QED
    BY <1>5 DEF IsNew

-----------------------------------------------------------------------------
(* What is held.                                                           *)

Mine(u) == turn.pc # "free" /\ turn.user = u

\* The lock's holder is one operation away from the rows, writes into a message
\* that has been sent, and tells only others who wait.
TurnFits ==
    IF turn.pc = "free" THEN turn = NoTurn
    ELSE /\ turn.user \in Users /\ turn.message \in Messages
         /\ Follows(db, turn.op, turn.user, turn.table)
         /\ screen[turn.user][turn.message] # Unsent
         /\ turn.pc # "edit" => turn.edits = {}
         /\ \A v \in Users, m \in Messages :
               <<v, m>> \in turn.edits =>
                   v # turn.user /\ v \in AwaitingIn(turn.table)

\* A refresh belongs to a message that has been sent, and asks for a role of one
\* who had a seat.
PeeksFit ==
    \A u \in Users :
        peek[u].pc # "none" =>
            /\ peek[u].message \in Messages
            /\ screen[u][peek[u].message] # Unsent
            /\ peek[u].pc = "role" => peek[u].number # 0
            /\ peek[u].pc \in {"show", "commit"} => peek[u].shows.kind \in Rendered

Held == TypeOK /\ RowsFit(db) /\ TurnFits /\ PeeksFit

\* A table with one entry changed is a table.
LEMMA EntryChanges ==
    ASSUME NEW t \in Tables, NEW u \in Users
    PROVE  /\ \A g \in Stages : [t EXCEPT !.stage[u] = g] \in Tables
           /\ \A n \in 0..PlayerCount : [t EXCEPT !.number[u] = n] \in Tables
           /\ \A k \in 0..MaxJoinOrder : [t EXCEPT !.order[u] = k] \in Tables
           /\ \A r \in Roles \cup {NoRole} : [t EXCEPT !.role[u] = r] \in Tables
  BY DEF Tables

\* What the operations make of a table.
LEMMA OperationsType ==
    ASSUME NEW s \in Tables, NEW u \in Users
    PROVE  /\ \A k \in 1..MaxJoinOrder : Joined(s, u, k) \in Tables
           /\ \A n \in Seats : Numbered(s, u, n) \in Tables
           /\ \A r \in Roles : Drawn(s, u, r) \in Tables
           /\ Departed(s, u) \in Tables
  <1>1. 0 \in 0..PlayerCount /\ 0 \in 0..MaxJoinOrder
    BY BoundsAreNat
  <1> DEFINE In(g) == [s EXCEPT !.stage[u] = g]
             At(g, n) == [In(g) EXCEPT !.number[u] = n]
             From(g, n, k) == [At(g, n) EXCEPT !.order[u] = k]
             Has(g, n, k, r) == [From(g, n, k) EXCEPT !.role[u] = r]
  <1>2. \A g \in Stages : In(g) \in Tables
    BY EntryChanges
  <1>3. ASSUME NEW g \in Stages, NEW n \in 0..PlayerCount
        PROVE  At(g, n) \in Tables
    <2> HIDE DEF In
    <2>1. QED
      BY <1>2, EntryChanges
  <1>4. ASSUME NEW g \in Stages, NEW n \in 0..PlayerCount, NEW k \in 0..MaxJoinOrder
        PROVE  From(g, n, k) \in Tables
    <2> HIDE DEF At
    <2>1. QED
      BY <1>3, EntryChanges
  <1>5. ASSUME NEW g \in Stages, NEW n \in 0..PlayerCount, NEW k \in 0..MaxJoinOrder
        PROVE  Has(g, n, k, NoRole) \in Tables
    <2> HIDE DEF From
    <2>1. QED
      BY <1>4, EntryChanges
  <1>6. ASSUME NEW k \in 1..MaxJoinOrder
        PROVE  Joined(s, u, k) \in Tables
    <2>1. From("JOINED", 0, k) \in Tables
      <3> HIDE DEF From
      <3>1. QED
        BY <1>1, <1>4 DEF Stages
    <2>2. QED
      BY <2>1 DEF Joined
  <1>7. ASSUME NEW n \in Seats
        PROVE  Numbered(s, u, n) \in Tables
    <2>1. At("NUMBERED", n) \in Tables
      <3> HIDE DEF At
      <3>1. QED
        BY <1>3 DEF Stages, Seats
    <2>2. QED
      BY <2>1 DEF Numbered
  <1>8. ASSUME NEW r \in Roles
        PROVE  Drawn(s, u, r) \in Tables
    <2>1. In("ASSIGNED") \in Tables
      BY <1>2 DEF Stages
    <2> HIDE DEF In
    <2>2. [In("ASSIGNED") EXCEPT !.role[u] = r] \in Tables
      BY <2>1, EntryChanges
    <2>3. QED
      BY <2>2 DEF Drawn, In
  <1>9. Departed(s, u) \in Tables
    <2>1. Has("LEFT", 0, 0, NoRole) \in Tables
      BY <1>1, <1>5 DEF Stages
    <2>2. QED
      BY <2>1 DEF Departed
  <1>10. QED
    BY <1>6, <1>7, <1>8, <1>9

\* An operation leaves the rows fit, and is about one player.
LEMMA OperationFits ==
    ASSUME NEW s \in Tables, RowsFit(s), NEW op, NEW u \in Users, NEW t,
           Follows(s, op, u, t)
    PROVE  /\ t \in Tables /\ RowsFit(t)
           /\ op \in {"join", "pick", "refused", "assign", "leave"}
           /\ \A v \in Users \ {u} :
                 t.stage[v] = s.stage[v] /\ t.role[v] = s.role[v]
           /\ op = "join" =>
                 s.stage[u] \in {"NONE", "LEFT"} /\ t.stage[u] = "JOINED"
           /\ op = "pick" => s.stage[u] = "JOINED" /\ t.stage[u] = "NUMBERED"
           /\ op = "refused" => t = s
           /\ op = "assign" => s.stage[u] = "NUMBERED" /\ t.stage[u] = "ASSIGNED"
           /\ op = "leave" => t.stage[u] = "LEFT"
  <1>1. /\ s.stage \in [Users -> Stages] /\ s.number \in [Users -> 0..PlayerCount]
        /\ s.order \in [Users -> 0..MaxJoinOrder]
        /\ s.role \in [Users -> Roles \cup {NoRole}]
    BY DEF Tables
  <1>2. /\ RowFits(s, u) /\ \A v \in Users : RowFits(s, v)
        /\ Cardinality(ActiveIn(s)) <= PlayerCount
    BY DEF RowsFit
  <1>3. /\ IsFiniteSet(ActiveIn(s)) /\ Cardinality(ActiveIn(s)) \in Nat
    BY TableIsFinite
  <1>4. CASE op = "join"
    <2>1. PICK k \in 1..MaxJoinOrder : t = Joined(s, u, k)
      BY <1>4 DEF Follows
    <2>2. u \notin ActiveIn(s) /\ ~Complete(s)
      BY <1>4 DEF Follows
    <2>3. /\ t \in Tables
          /\ t.stage = [s.stage EXCEPT ![u] = "JOINED"]
          /\ t.number = [s.number EXCEPT ![u] = 0]
          /\ t.order = [s.order EXCEPT ![u] = k] /\ t.role = s.role
      BY <2>1, OperationsType DEF Joined, Tables
    <2>4. s.stage[u] \in {"NONE", "LEFT"}
      BY <2>2, <1>1 DEF ActiveIn, Stages
    <2>5. ActiveIn(t) = ActiveIn(s) \cup {u}
      BY <2>3, <1>1 DEF ActiveIn
    <2>6. Cardinality(ActiveIn(t)) = Cardinality(ActiveIn(s)) + 1
      BY <2>2, <2>5, <1>3, FS_AddElement
    <2>7. Cardinality(ActiveIn(t)) <= PlayerCount
      BY <2>2, <2>6, <1>3, BoundsAreNat DEF Complete
    <2>8. \A v \in Users : RowFits(t, v)
      BY <1>1, <1>2, <2>3, <2>4 DEF RowFits
    <2>9. RowsFit(t)
      BY <2>3, <2>7, <2>8 DEF RowsFit
    <2>10. QED
      BY <1>1, <1>4, <2>3, <2>4, <2>9
  <1>5. CASE op = "pick"
    <2>1. PICK n \in FreeIn(s) : t = Numbered(s, u, n)
      BY <1>5 DEF Follows
    <2>2. u \in AwaitingIn(s) /\ s.number[u] = 0
      BY <1>5, UserInTurn DEF Follows
    <2>3. n \in 1..PlayerCount
      BY DEF FreeIn, Seats
    <2>4. /\ t \in Tables
          /\ t.stage = [s.stage EXCEPT ![u] = "NUMBERED"]
          /\ t.number = [s.number EXCEPT ![u] = n]
          /\ t.order = s.order /\ t.role = s.role
      BY <2>1, <2>3, OperationsType DEF Numbered, Tables, Seats
    <2>5. s.stage[u] = "JOINED"
      BY <1>2, <2>2 DEF AwaitingIn, RowFits
    <2>6. ActiveIn(t) = ActiveIn(s)
      BY <2>4, <2>5, <1>1 DEF ActiveIn
    <2>7. \A v \in Users : RowFits(t, v)
      BY <1>1, <1>2, <2>3, <2>4, <2>5 DEF RowFits
    <2>8. RowsFit(t)
      BY <2>4, <2>6, <2>7 DEF RowsFit
    <2>9. QED
      BY <1>1, <1>5, <2>4, <2>5, <2>8
  <1>6. CASE op = "refused"
    BY <1>6 DEF Follows
  <1>7. CASE op = "assign"
    <2>1. PICK r \in PoolIn(s) : t = Drawn(s, u, r)
      BY <1>7 DEF Follows
    <2>2. u \in AwaitingIn(s) /\ s.number[u] # 0
      BY <1>7, UserInTurn DEF Follows
    <2>3. r \in Roles /\ r # NoRole /\ \A v \in Users : s.role[v] # r
      BY NobodyIsNoUser DEF PoolIn
    <2>4. /\ t \in Tables
          /\ t.stage = [s.stage EXCEPT ![u] = "ASSIGNED"]
          /\ t.role = [s.role EXCEPT ![u] = r]
          /\ t.number = s.number /\ t.order = s.order
      BY <2>1, <2>3, OperationsType DEF Drawn, Tables
    <2>5. s.stage[u] = "NUMBERED"
      BY <1>2, <2>2 DEF AwaitingIn, RowFits
    <2>6. ActiveIn(t) = ActiveIn(s)
      BY <2>4, <2>5, <1>1 DEF ActiveIn
    <2>7. \A v \in Users : RowFits(t, v)
      BY <1>1, <1>2, <2>3, <2>4, <2>5 DEF RowFits
    <2>8. \A v, w \in Users : t.role[v] # NoRole /\ t.role[v] = t.role[w] => v = w
      BY <1>1, <2>3, <2>4 DEF RowsFit
    <2>9. RowsFit(t)
      BY <2>6, <2>7, <2>8 DEF RowsFit
    <2>10. QED
      BY <1>1, <1>7, <2>4, <2>5, <2>9
  <1>8. CASE op = "leave"
    <2>1. t = Departed(s, u) /\ u \in ActiveIn(s)
      BY <1>8 DEF Follows
    <2>2. /\ t \in Tables
          /\ t.stage = [s.stage EXCEPT ![u] = "LEFT"]
          /\ t.number = [s.number EXCEPT ![u] = 0]
          /\ t.order = [s.order EXCEPT ![u] = 0]
          /\ t.role = [s.role EXCEPT ![u] = NoRole]
      BY <2>1, OperationsType DEF Departed, Tables
    <2>3. ActiveIn(t) = ActiveIn(s) \ {u}
      BY <2>2, <1>1 DEF ActiveIn
    <2>4. Cardinality(ActiveIn(t)) <= PlayerCount
      <3>1. Cardinality(ActiveIn(t)) = Cardinality(ActiveIn(s)) - 1
        BY <2>1, <2>3, <1>3, FS_RemoveElement
      <3>2. QED
        BY <3>1, <1>2, <1>3, BoundsAreNat
    <2>5. \A v \in Users : RowFits(t, v)
      BY <1>1, <1>2, <2>2 DEF RowFits
    <2>6. \A v, w \in Users : t.role[v] # NoRole /\ t.role[v] = t.role[w] => v = w
      BY <1>1, <2>2 DEF RowsFit
    <2>7. RowsFit(t)
      BY <2>4, <2>5, <2>6 DEF RowsFit
    <2>8. QED
      BY <1>1, <1>8, <2>2, <2>7
  <1>9. QED
    BY <1>4, <1>5, <1>6, <1>7, <1>8 DEF Follows

\* So it is with the table of the lock's holder, and with next.
LEMMA HeldOperation ==
    ASSUME Held, turn.pc # "free"
    PROVE  /\ turn.table \in Tables /\ RowsFit(turn.table)
           /\ turn.op \in {"join", "pick", "refused", "assign", "leave"}
           /\ \A v \in Users \ {turn.user} :
                 /\ turn.table.stage[v] = db.stage[v]
                 /\ turn.table.role[v] = db.role[v]
           /\ turn.op = "join" =>
                 /\ db.stage[turn.user] \in {"NONE", "LEFT"}
                 /\ turn.table.stage[turn.user] = "JOINED"
           /\ turn.op = "pick" =>
                 /\ db.stage[turn.user] = "JOINED"
                 /\ turn.table.stage[turn.user] = "NUMBERED"
           /\ turn.op = "refused" => turn.table = db
           /\ turn.op = "assign" =>
                 /\ db.stage[turn.user] = "NUMBERED"
                 /\ turn.table.stage[turn.user] = "ASSIGNED"
           /\ turn.op = "leave" => turn.table.stage[turn.user] = "LEFT"
  <1> DEFINE op == turn.op
             u == turn.user
             t == turn.table
  <1>1. db \in Tables /\ RowsFit(db) /\ u \in Users /\ Follows(db, op, u, t)
    BY DEF Held, TypeOK, TurnFits
  <1> HIDE DEF op, u, t
  <1>2. /\ t \in Tables /\ RowsFit(t)
        /\ op \in {"join", "pick", "refused", "assign", "leave"}
        /\ \A v \in Users \ {u} :
              t.stage[v] = db.stage[v] /\ t.role[v] = db.role[v]
        /\ op = "join" =>
              db.stage[u] \in {"NONE", "LEFT"} /\ t.stage[u] = "JOINED"
        /\ op = "pick" => db.stage[u] = "JOINED" /\ t.stage[u] = "NUMBERED"
        /\ op = "refused" => t = db
        /\ op = "assign" => db.stage[u] = "NUMBERED" /\ t.stage[u] = "ASSIGNED"
        /\ op = "leave" => t.stage[u] = "LEFT"
    BY <1>1, OperationFits
  <1>3. QED
    BY <1>2 DEF op, u, t

LEMMA HeldTable ==
    ASSUME Held
    PROVE  /\ next \in Tables /\ RowsFit(next)
           /\ \A v \in Users :
                 ~Mine(v) \/ turn.op = "refused" =>
                     next.stage[v] = db.stage[v] /\ next.role[v] = db.role[v]
  <1>1. db \in Tables /\ RowsFit(db)
    BY DEF Held, TypeOK
  <1>2. CASE turn.pc = "free"
    BY <1>1, <1>2 DEF next
  <1>3. CASE turn.pc # "free"
    BY <1>3, HeldOperation DEF next, Mine
  <1>4. QED
    BY <1>2, <1>3

-----------------------------------------------------------------------------
(* Steps.                                                                  *)

Operations == {"join", "pick", "refused", "assign", "leave"}

\* A handler gets the lock: its operation has been done, for it alone.
Begun(op, u, m, t) ==
    /\ turn.pc = "free"
    /\ turn' = [pc |-> "act", op |-> op, user |-> u, message |-> m,
                table |-> t, edits |-> {}]
    /\ Follows(db, op, u, t)
    /\ IF op = "join"
       THEN screen[u][m] = Unsent /\ Shows(u, m, Screen("checking", {}))
       ELSE /\ UNCHANGED screen /\ screen[u][m] # Unsent
            /\ op \in {"pick", "refused"} => screen[u][m].kind = "numbers"
    /\ UNCHANGED <<db, live, peek, excused, undone, peeks, failures>>

LEMMA HandlerBegins ==
    ASSUME Held, NEW u \in Users,
           \/ Join(u)
           \/ \E m \in Messages :
                 \/ \E n \in Seats : PickNumber(u, m, n)
                 \/ \E r \in Roles : GetRole(u, m, r)
                 \/ Leave(u, m)
    PROVE  \E op \in Operations, m \in Messages, t \in Tables : Begun(op, u, m, t)
  <1>1. db \in Tables /\ RowsFit(db)
    BY DEF Held, TypeOK
  <1>2. ASSUME NEW op, NEW m \in Messages, NEW t, Begun(op, u, m, t)
        PROVE  op \in Operations /\ t \in Tables
    BY <1>1, <1>2, OperationFits DEF Begun, Operations
  <1>3. CASE Join(u)
    <2>1. PICK k \in 1..MaxJoinOrder :
              /\ \A v \in Users : db.order[v] < k
              /\ k = 1 \/ \E v \in Users : db.order[v] = k - 1
              /\ Begins("join", u, NewMessage(u), Joined(db, u, k))
      BY <1>3 DEF Join
    <2>2. Follows(db, "join", u, Joined(db, u, k))
      BY <1>3, <2>1 DEF Join, Follows
    <2>3. NewMessage(u) \in Messages /\ screen[u][NewMessage(u)] = Unsent
      BY <1>3, NewMessageIsUnsent DEF Join
    <2>4. Begun("join", u, NewMessage(u), Joined(db, u, k))
      BY <1>3, <2>1, <2>2, <2>3 DEF Join, Begins, Begun
    <2>5. QED
      BY <1>2, <2>3, <2>4
  <1>4. ASSUME NEW m \in Messages, NEW n \in Seats, PickNumber(u, m, n)
        PROVE  \E op \in Operations, k \in Messages, t \in Tables : Begun(op, u, k, t)
    <2>1. /\ UNCHANGED screen
          /\ screen[u][m].kind = "numbers" /\ screen[u][m] # Unsent
      BY <1>4 DEF PickNumber, HasNumber, Unsent, Screen
    <2>2. CASE MayPick(u, n)
      <3>1. Follows(db, "pick", u, Numbered(db, u, n))
        BY <2>2 DEF MayPick, Follows
      <3>2. Begun("pick", u, m, Numbered(db, u, n))
        BY <1>4, <2>1, <2>2, <3>1 DEF PickNumber, Begins, Begun
      <3>3. QED
        BY <1>2, <3>2
    <2>3. CASE ~MayPick(u, n)
      <3>1. Begun("refused", u, m, db)
        BY <1>4, <2>1, <2>3 DEF PickNumber, Begins, Begun, Follows
      <3>2. QED
        BY <1>2, <3>1
    <2>4. QED
      BY <2>2, <2>3
  <1>5. ASSUME NEW m \in Messages, NEW r \in Roles, GetRole(u, m, r)
        PROVE  \E op \in Operations, k \in Messages, t \in Tables : Begun(op, u, k, t)
    <2>1. screen[u][m] # Unsent
      BY <1>5 DEF GetRole, HasAssign, Unsent, Screen
    <2>2. Follows(db, "assign", u, Drawn(db, u, r))
      BY <1>5 DEF GetRole, Follows
    <2>3. Begun("assign", u, m, Drawn(db, u, r))
      BY <1>5, <2>1, <2>2 DEF GetRole, Begins, Begun
    <2>4. QED
      BY <1>2, <2>3
  <1>6. ASSUME NEW m \in Messages, Leave(u, m)
        PROVE  \E op \in Operations, k \in Messages, t \in Tables : Begun(op, u, k, t)
    <2>1. screen[u][m] # Unsent
      BY <1>6 DEF Leave, HasLeave, Unsent, Screen
    <2>2. Follows(db, "leave", u, Departed(db, u))
      BY <1>6 DEF Leave, Follows
    <2>3. Begun("leave", u, m, Departed(db, u))
      BY <1>6, <2>1, <2>2 DEF Leave, Begins, Begun
    <2>4. QED
      BY <1>2, <2>3
  <1>7. QED
    BY <1>3, <1>4, <1>5, <1>6

\* A refresh makes its next query.
ReadsOn(u) == PeekRole(u) \/ PeekCount(u) \/ PeekTurn(u) \/ PeekNumbers(u)

\* The steps of the system.
Step ==
    \/ \E op \in Operations, u \in Users, m \in Messages, t \in Tables :
          Begun(op, u, m, t)
    \/ Act \/ Tell
    \/ \E v \in Users, m \in Messages : Edit(v, m) \/ EditFails(v, m)
    \/ Commit \/ Fail
    \/ \E u \in Users, m \in Messages : Peek(u, m)
    \/ \E u \in Users : ReadsOn(u) \/ PeekShow(u) \/ PeekCommit(u)
    \/ UNCHANGED vars

LEMMA Steps ==
    ASSUME Held, [Next]_vars
    PROVE  Step
  <1>1. ASSUME NEW u \in Users,
               \/ Join(u)
               \/ \E m \in Messages :
                     \/ \E n \in Seats : PickNumber(u, m, n)
                     \/ \E r \in Roles : GetRole(u, m, r)
                     \/ Leave(u, m)
        PROVE  Step
    BY <1>1, HandlerBegins DEF Step
  <1>2. ASSUME NEW u \in Users, NEW m \in Messages, Peek(u, m) \/ EditFails(u, m)
        PROVE  Step
    BY <1>2 DEF Step
  <1>3. ASSUME NEW u \in Users, ReadsOn(u) \/ PeekShow(u) \/ PeekCommit(u)
        PROVE  Step
    BY <1>3 DEF Step
  <1>4. CASE Handler \/ Fail \/ UNCHANGED vars
    BY <1>4 DEF Handler, Step
  <1>5. QED
    BY <1>1, <1>2, <1>3, <1>4 DEF Next, ReadsOn

\* Only messages that had not been sent change.
Filled ==
    \A u \in Users, m \in Messages :
        screen'[u][m] # screen[u][m] =>
            /\ screen[u][m] = Unsent
            /\ screen'[u][m].kind \in {"checking", "ping"}

LEMMA BegunFills ==
    ASSUME Held, NEW op, NEW u \in Users, NEW m \in Messages, NEW t,
           Begun(op, u, m, t)
    PROVE  Filled /\ screen' \in [Users -> [Messages -> Screens]]
  <1>1. screen \in [Users -> [Messages -> Screens]]
    BY DEF Held, TypeOK
  <1>2. CASE op = "join"
    <2>1. /\ screen[u][m] = Unsent
          /\ Shows(u, m, Screen("checking", {}))
      BY <1>2 DEF Begun
    <2>2. /\ Screen("checking", {}) \in Screens
          /\ Screen("checking", {}).kind = "checking"
      BY DEF Screen, Screens, Kinds
    <2>3. QED
      BY <1>1, <2>1, <2>2, ShowsOne DEF Filled
  <1>3. CASE op # "join"
    BY <1>1, <1>3 DEF Begun, Filled
  <1>4. QED
    BY <1>2, <1>3

LEMMA TellFills ==
    ASSUME Held, Tell
    PROVE  Filled /\ screen' \in [Users -> [Messages -> Screens]]
  <1>1. screen \in [Users -> [Messages -> Screens]] /\ turn.table \in Tables
    BY DEF Held, TypeOK
  <1> DEFINE v == CurrentTurn(turn.table)
  <1>2. CASE UNCHANGED screen
    BY <1>1, <1>2 DEF Filled
  <1>3. CASE v # NoUser /\ CanSend(v) /\ Shows(v, NewMessage(v), Screen("ping", {}))
    <2>1. v \in Users
      BY <1>1, <1>3, TurnIsAwaited DEF AwaitingIn
    <2> HIDE DEF v
    <2>2. /\ NewMessage(v) \in Messages /\ screen[v][NewMessage(v)] = Unsent
      BY <1>3, <2>1, NewMessageIsUnsent
    <2>3. /\ Screen("ping", {}) \in Screens /\ Screen("ping", {}).kind = "ping"
      BY DEF Screen, Screens, Kinds
    <2>4. QED
      BY <1>1, <1>3, <2>1, <2>2, <2>3, ShowsOne DEF Filled
  <1>4. QED
    BY <1>2, <1>3 DEF Tell

\* A filled message has been sent, and no sent one is unsent.
LEMMA FilledStaySent ==
    ASSUME Filled, NEW u \in Users, NEW m \in Messages, screen[u][m] # Unsent
    PROVE  screen'[u][m] = screen[u][m]
  BY DEF Filled

-----------------------------------------------------------------------------
(* Held is inductive.                                                      *)

\* The table and the messages that an edit is made of.
LEMMA HandlerFits ==
    ASSUME Held, turn.pc # "free"
    PROVE  /\ turn.user \in Users /\ turn.message \in Messages
           /\ Follows(db, turn.op, turn.user, turn.table)
           /\ next = turn.table
           /\ screen[turn.user][turn.message] # Unsent
           /\ turn.pc # "edit" => turn.edits = {}
           /\ \A v \in Users, m \in Messages :
                 <<v, m>> \in turn.edits =>
                    /\ v # turn.user /\ v \in AwaitingIn(turn.table)
                    /\ v \in AwaitingIn(db)
  <1>1. /\ turn.user \in Users /\ next = turn.table
        /\ \A v \in Users, m \in Messages :
              <<v, m>> \in turn.edits =>
                  v # turn.user /\ v \in AwaitingIn(turn.table)
    BY DEF Held, TurnFits, next
  <1>2. \A v \in Users : v # turn.user => turn.table.stage[v] = db.stage[v]
    BY <1>1, HeldTable DEF Mine
  <1>3. QED
    BY <1>1, <1>2 DEF Held, TurnFits, AwaitingIn

\* A screen that has been rendered has been sent, and is a screen.
LEMMA RenderedIsSent ==
    ASSUME NEW t \in Tables, RowsFit(t), NEW u \in Users
    PROVE  /\ ScreenFor(t, u) \in Screens /\ ScreenFor(t, u).kind \in Rendered
           /\ ScreenFor(t, u) # Unsent
  BY ScreenSays DEF Rendered, Unsent, Screen

\* A message is shown something else than "unsent".
LEMMA ShownStaySent ==
    ASSUME screen \in [Users -> [Messages -> Screens]],
           NEW u \in Users, NEW m \in Messages, NEW s \in Screens,
           s # Unsent, Shows(u, m, s)
    PROVE  /\ screen' \in [Users -> [Messages -> Screens]]
           /\ screen'[u][m] = s
           /\ \A v \in Users, k \in Messages :
                 screen[v][k] # Unsent => screen'[v][k] # Unsent
  <1>1. QED
    BY ShowsOne

LEMMA InitHeld == Init => Held
  <1> SUFFICES ASSUME Init PROVE Held
    OBVIOUS
  <1>1. /\ PlayerCount \in Nat /\ MaxJoinOrder \in Nat /\ MaxMessages \in Nat
        /\ MaxPeeks \in Nat /\ MaxFailures \in Nat
    BY BoundsAreNat
  <1>2. EmptyTable \in Tables
    BY <1>1 DEF EmptyTable, Tables, Stages
  <1>3. Unsent \in Screens
    BY DEF Unsent, Screen, Screens, Kinds
  <1>4. TypeOK
    BY <1>1, <1>2, <1>3 DEF Init, TypeOK, NoTurn, NoPeek, PeekStates
  <1>5. RowsFit(db)
    <2>1. \A u \in Users : RowFits(EmptyTable, u)
      BY DEF EmptyTable, RowFits
    <2>2. ActiveIn(EmptyTable) = {}
      BY DEF EmptyTable, ActiveIn
    <2>3. Cardinality(ActiveIn(EmptyTable)) <= PlayerCount
      BY <1>1, <2>2, FS_EmptySet
    <2>4. \A u \in Users : EmptyTable.role[u] = NoRole
      BY DEF EmptyTable
    <2>5. QED
      BY <2>1, <2>3, <2>4 DEF Init, RowsFit
  <1>6. TurnFits /\ PeeksFit
    BY DEF Init, TurnFits, PeeksFit, NoTurn, NoPeek
  <1>7. QED
    BY <1>4, <1>5, <1>6 DEF Held

\* A step that keeps the rows and the refreshes, and every sent message sent.
LEMMA RowsStay ==
    ASSUME Held, UNCHANGED <<db, peek>>,
           \A u \in Users, m \in Messages :
              screen[u][m] # Unsent => screen'[u][m] # Unsent
    PROVE  RowsFit(db)' /\ PeeksFit'
  <1>1. RowsFit(db)'
    BY DEF Held, RowsFit, RowFits, ActiveIn
  <1>2. PeeksFit'
    BY DEF Held, PeeksFit
  <1>3. QED
    BY <1>1, <1>2

LEMMA BegunHeld ==
    ASSUME Held, NEW op \in Operations, NEW u \in Users, NEW m \in Messages,
           NEW t \in Tables, Begun(op, u, m, t)
    PROVE  Held'
  <1>1. Filled /\ screen' \in [Users -> [Messages -> Screens]]
    BY BegunFills
  <1>2. RowsFit(db)' /\ PeeksFit'
    BY <1>1, RowsStay, FilledStaySent DEF Begun
  <1>3. TypeOK'
    BY <1>1 DEF Held, TypeOK, Begun, Operations, Messages
  <1>4. screen'[u][m] # Unsent
    <2>1. CASE op = "join"
      <3>1. Shows(u, m, Screen("checking", {})) /\ TypeOK
        BY <2>1 DEF Begun, Held
      <3>2. screen'[u][m] = Screen("checking", {})
        BY <3>1, ShowsOne DEF TypeOK
      <3>3. QED
        BY <3>2 DEF Screen, Unsent
    <2>2. CASE op # "join"
      BY <2>2 DEF Begun
    <2>3. QED
      BY <2>1, <2>2
  <1>5. TurnFits'
    BY <1>4 DEF Begun, TurnFits
  <1>6. QED
    BY <1>2, <1>3, <1>5 DEF Held

LEMMA ActHeld ==
    ASSUME Held, Act
    PROVE  Held'
  <1>1. /\ turn.user \in Users /\ turn.message \in Messages
        /\ turn.pc = "act" /\ turn.edits = {}
        /\ Follows(db, turn.op, turn.user, turn.table)
        /\ next = turn.table
    BY HandlerFits DEF Act
  <1> DEFINE s == IF turn.op = "leave" THEN Screen("left", {})
                  ELSE ScreenFor(turn.table, turn.user)
  <1>2. s \in Screens /\ s # Unsent
    <2>1. ScreenFor(turn.table, turn.user) \in Screens
          /\ ScreenFor(turn.table, turn.user) # Unsent
      BY <1>1, HeldTable, RenderedIsSent
    <2>2. Screen("left", {}) \in Screens /\ Screen("left", {}) # Unsent
      BY DEF Screen, Screens, Kinds, Unsent
    <2>3. QED
      BY <2>1, <2>2
  <1>3. /\ screen \in [Users -> [Messages -> Screens]]
        /\ Shows(turn.user, turn.message, s)
    BY DEF Held, TypeOK, Act
  <1> HIDE DEF s
  <1>4. /\ screen' \in [Users -> [Messages -> Screens]]
        /\ screen'[turn.user][turn.message] = s
        /\ \A v \in Users, k \in Messages :
              screen[v][k] # Unsent => screen'[v][k] # Unsent
    BY <1>1, <1>2, <1>3, ShownStaySent
  <1>5. RowsFit(db)' /\ PeeksFit'
    BY <1>4, RowsStay DEF Act
  <1>6. TypeOK'
    BY <1>1, <1>4 DEF Held, TypeOK, Act
  <1>7. TurnFits'
    BY <1>1, <1>2, <1>4 DEF Held, TypeOK, TurnFits, Act
  <1>8. QED
    BY <1>5, <1>6, <1>7 DEF Held

LEMMA TellHeld ==
    ASSUME Held, Tell
    PROVE  Held'
  <1>1. Filled /\ screen' \in [Users -> [Messages -> Screens]]
    BY TellFills
  <1>2. RowsFit(db)' /\ PeeksFit'
    BY <1>1, RowsStay, FilledStaySent DEF Tell
  <1>3. /\ turn.user \in Users /\ turn.message \in Messages
        /\ Follows(db, turn.op, turn.user, turn.table)
        /\ screen[turn.user][turn.message] # Unsent
    BY HandlerFits DEF Tell
  <1> DEFINE edits == {<<v, live[v]>> : v \in Eligible(turn.table) \ {turn.user}}
  <1>4. edits \in SUBSET (Users \X Messages)
    BY DEF Held, TypeOK, Eligible, AwaitingIn, Messages
  <1>5. turn' = [turn EXCEPT !.pc = "edit", !.edits = edits]
    BY DEF Tell
  <1>6. TypeOK'
    <2> HIDE DEF edits
    <2>1. QED
      BY <1>1, <1>4, <1>5 DEF Held, TypeOK, Tell
  <1>7. \A v \in Users, m \in Messages :
           <<v, m>> \in edits => v # turn.user /\ v \in AwaitingIn(turn.table)
    BY DEF Eligible
  <1>8. screen'[turn.user][turn.message] # Unsent
    BY <1>1, <1>3, FilledStaySent
  <1>9. TurnFits'
    <2> HIDE DEF edits
    <2>1. /\ turn'.user = turn.user /\ turn'.message = turn.message
          /\ turn'.op = turn.op /\ turn'.table = turn.table
          /\ turn'.pc = "edit" /\ turn'.edits = edits /\ db' = db
      BY <1>5 DEF Held, TypeOK, Tell
    <2>2. QED
      BY <1>3, <1>7, <1>8, <2>1 DEF TurnFits
  <1>10. QED
    BY <1>2, <1>6, <1>9 DEF Held

LEMMA EditHeld ==
    ASSUME Held, NEW v \in Users, NEW m \in Messages,
           Edit(v, m) \/ EditFails(v, m)
    PROVE  Held'
  <1>1. /\ turn.pc = "edit" /\ <<v, m>> \in turn.edits
        /\ turn' = [turn EXCEPT !.edits = @ \ {<<v, m>>}]
        /\ UNCHANGED <<db, live, peek, peeks>>
    BY DEF Edit, EditFails
  <1>2. /\ turn.user \in Users /\ turn.message \in Messages
        /\ Follows(db, turn.op, turn.user, turn.table)
        /\ screen[turn.user][turn.message] # Unsent
        /\ next = turn.table
    BY <1>1, HandlerFits
  <1>3. screen \in [Users -> [Messages -> Screens]]
    BY DEF Held, TypeOK
  <1>4. /\ screen' \in [Users -> [Messages -> Screens]]
        /\ \A w \in Users, k \in Messages :
              screen[w][k] # Unsent => screen'[w][k] # Unsent
    <2>1. CASE Edit(v, m)
      <3>1. ScreenFor(turn.table, v) \in Screens /\ ScreenFor(turn.table, v) # Unsent
        BY <1>2, HeldTable, RenderedIsSent
      <3>2. Shows(v, m, ScreenFor(turn.table, v))
        BY <2>1 DEF Edit
      <3>3. QED
        BY <1>3, <3>1, <3>2, ShownStaySent
    <2>2. CASE EditFails(v, m)
      BY <1>3, <2>2 DEF EditFails
    <2>3. QED
      BY <2>1, <2>2
  <1>5. RowsFit(db)' /\ PeeksFit'
    BY <1>1, <1>4, RowsStay
  <1>6. /\ excused' \in [Users -> BOOLEAN] /\ undone' \in [Users -> BOOLEAN]
        /\ failures' \in 0..MaxFailures
    <2>1. /\ excused \in [Users -> BOOLEAN] /\ undone \in [Users -> BOOLEAN]
          /\ failures \in 0..MaxFailures /\ MaxFailures \in Nat
      BY BoundsAreNat DEF Held, TypeOK
    <2>2. CASE Edit(v, m)
      BY <2>1, <2>2 DEF Edit
    <2>3. CASE EditFails(v, m)
      BY <2>1, <2>3 DEF EditFails
    <2>4. QED
      BY <2>2, <2>3
  <1>7. TypeOK'
    BY <1>1, <1>4, <1>6 DEF Held, TypeOK
  <1>8. TurnFits'
    <2>1. /\ turn'.user = turn.user /\ turn'.message = turn.message
          /\ turn'.op = turn.op /\ turn'.table = turn.table
          /\ turn'.pc = "edit" /\ turn'.edits \subseteq turn.edits /\ db' = db
      BY <1>1 DEF Held, TypeOK
    <2>2. QED
      BY <1>1, <1>2, <1>4, <2>1 DEF Held, TurnFits
  <1>9. QED
    BY <1>5, <1>7, <1>8 DEF Held

LEMMA EndHeld ==
    ASSUME Held, Commit \/ Fail
    PROVE  Held'
  <1>1. /\ turn.pc # "free" /\ turn' = NoTurn
        /\ UNCHANGED <<screen, peek, peeks>>
    BY DEF Commit, Fail
  <1>2. /\ turn.user \in Users /\ turn.message \in Messages /\ next = turn.table
    BY <1>1, HandlerFits
  <1>3. db' \in Tables /\ RowsFit(db')
    <2>1. /\ db \in Tables /\ RowsFit(db)
          /\ turn.table \in Tables /\ RowsFit(turn.table)
      BY <1>2, HeldTable DEF Held, TypeOK
    <2>2. QED
      BY <2>1 DEF Commit, Fail
  <1>4. PeeksFit'
    BY <1>1 DEF Held, PeeksFit
  <1>5. NoTurn.edits \subseteq Users \X Messages /\ EmptyTable \in Tables
    BY BoundsAreNat DEF NoTurn, EmptyTable, Tables, Stages
  <1>6. /\ live' \in [Users -> 0..MaxMessages]
        /\ excused' \in [Users -> BOOLEAN] /\ undone' \in [Users -> BOOLEAN]
        /\ failures' \in 0..MaxFailures
    <2>1. /\ excused \in [Users -> BOOLEAN] /\ undone \in [Users -> BOOLEAN]
          /\ failures \in 0..MaxFailures /\ MaxFailures \in Nat
          /\ live \in [Users -> 0..MaxMessages] /\ MaxMessages \in Nat
      BY BoundsAreNat DEF Held, TypeOK
    <2>2. CASE Commit
      BY <1>2, <2>1, <2>2 DEF Commit, Remembered, Messages
    <2>3. CASE Fail
      BY <1>2, <2>1, <2>3 DEF Fail
    <2>4. QED
      BY <2>2, <2>3
  <1>7. TypeOK'
    BY <1>1, <1>3, <1>5, <1>6 DEF Held, TypeOK, NoTurn
  <1>8. TurnFits'
    BY <1>1 DEF TurnFits, NoTurn
  <1>9. QED
    BY <1>3, <1>4, <1>7, <1>8 DEF Held

LEMMA PeekHeld ==
    ASSUME Held, NEW u \in Users,
           (\E m \in Messages : Peek(u, m)) \/ PeekShow(u) \/ PeekCommit(u)
    PROVE  Held'
  <1>1. /\ UNCHANGED <<db, turn>>
        /\ TypeOK /\ db \in Tables /\ RowsFit(db) /\ TurnFits /\ PeeksFit
    BY DEF Held, TypeOK, Peek, PeekShow, PeekCommit
  <1>2. RowsFit(db)'
    BY <1>1 DEF RowsFit, RowFits, ActiveIn
  <1>3. /\ screen \in [Users -> [Messages -> Screens]]
        /\ peek \in [Users -> PeekStates]
        /\ excused \in [Users -> BOOLEAN] /\ undone \in [Users -> BOOLEAN]
        /\ live \in [Users -> 0..MaxMessages] /\ MaxMessages \in Nat
        /\ peeks \in 0..MaxPeeks /\ MaxPeeks \in Nat
    BY <1>1, BoundsAreNat DEF TypeOK
  <1>4. ASSUME NEW m \in Messages, Peek(u, m)
        PROVE  TypeOK' /\ TurnFits' /\ PeeksFit'
    <2>1. /\ db.number[u] \in 0..PlayerCount
          /\ db.stage[u] = "ASSIGNED" => db.number[u] # 0
      BY <1>1 DEF Tables, RowsFit, RowFits
    <2>2. screen[u][m] # Unsent
      BY <1>4 DEF Peek, HasRefresh, Unsent, Screen
    <2>3. /\ peek'[u] \in PeekStates /\ peek'[u].message = m
          /\ peek'[u].pc = "role" => peek'[u].number # 0
          /\ peek'[u].pc # "commit"
          /\ peek'[u].pc = "show" => peek'[u].shows.kind \in Rendered
      <3>1. Unsent \in Screens /\ Screen("absent", {}) \in Screens
            /\ Screen("absent", {}).kind \in Rendered
        BY DEF Unsent, Screen, Screens, Kinds, Rendered
      <3>2. m \in Nat
        BY DEF Messages
      <3>3. QED
        BY <1>3, <1>4, <2>1, <3>1, <3>2 DEF Peek, PeekStates
    <2>4. \A v \in Users \ {u} : peek'[v] = peek[v]
      BY <1>3, <1>4 DEF Peek
    <2>5. peek' \in [Users -> PeekStates]
      BY <1>3, <1>4, <2>3, <2>4 DEF Peek
    <2>6. TypeOK'
      BY <1>1, <1>3, <1>4, <2>5 DEF Peek, TypeOK
    <2>7. TurnFits'
      BY <1>1, <1>4 DEF Peek, TurnFits
    <2>8. PeeksFit'
      BY <1>1, <1>4, <2>2, <2>3, <2>4 DEF Peek, PeeksFit
    <2>9. QED
      BY <2>6, <2>7, <2>8
  <1>5. CASE PeekShow(u)
    <2>1. /\ peek[u].message \in Messages /\ peek[u].shows \in Screens
          /\ peek[u].shows.kind \in Rendered
          /\ Shows(u, peek[u].message, peek[u].shows)
      BY <1>1, <1>3, <1>5 DEF PeekShow, PeeksFit, PeekStates
    <2>2. peek[u].shows # Unsent
      BY <2>1 DEF Rendered, Unsent, Screen
    <2>3. /\ screen' \in [Users -> [Messages -> Screens]]
          /\ \A v \in Users, k \in Messages :
                screen[v][k] # Unsent => screen'[v][k] # Unsent
      BY <1>3, <2>1, <2>2, ShownStaySent
    <2>4. peek' \in [Users -> PeekStates]
          /\ \A v \in Users : /\ peek'[v].message = peek[v].message
                              /\ peek'[v].shows = peek[v].shows
                              /\ \/ peek'[v] = peek[v]
                                 \/ peek[v].pc = "show" /\ peek'[v].pc = "commit"
      BY <1>3, <1>5 DEF PeekShow, PeekStates
    <2>5. TypeOK'
      BY <1>1, <1>3, <1>5, <2>3, <2>4 DEF PeekShow, TypeOK
    <2>6. TurnFits'
      BY <1>1, <2>3 DEF TurnFits
    <2>7. PeeksFit'
      BY <1>1, <2>3, <2>4 DEF PeeksFit
    <2>8. QED
      BY <1>2, <2>5, <2>6, <2>7 DEF Held
  <1>6. CASE PeekCommit(u)
    <2>1. Unsent \in Screens
      BY DEF Unsent, Screen, Screens, Kinds
    <2>2. /\ peek' \in [Users -> PeekStates]
          /\ \A v \in Users : peek'[v].pc # "none" => peek'[v] = peek[v]
      BY <1>3, <1>6, <2>1, BoundsAreNat DEF PeekCommit, NoPeek, PeekStates
    <2>3. live' \in [Users -> 0..MaxMessages]
      BY <1>1, <1>3, <1>6 DEF PeekCommit, PeeksFit, Messages
    <2>4. TypeOK'
      BY <1>1, <1>3, <1>6, <2>2, <2>3 DEF PeekCommit, TypeOK
    <2>5. TurnFits' /\ PeeksFit'
      BY <1>1, <1>6, <2>2 DEF PeekCommit, TurnFits, PeeksFit
    <2>6. QED
      BY <1>2, <2>4, <2>5 DEF Held
  <1>7. QED
    BY <1>2, <1>4, <1>5, <1>6 DEF Held

\* What the next query of a refresh makes of it: nothing, if it fails; or else
\* it is on its way, or has a screen to show, and a role only as it is dealt.
LEMMA ReadOn ==
    ASSUME Held, NEW u \in Users, ReadsOn(u)
    PROVE  /\ UNCHANGED <<db, live, screen, turn, excused, undone, peeks, failures>>
           /\ peek[u].pc \in {"role", "count", "turn", "numbers"}
           /\ peek' \in [Users -> PeekStates]
           /\ \A v \in Users \ {u} : peek'[v] = peek[v]
           /\ \/ peek'[u] = NoPeek
              \/ /\ peek'[u].message = peek[u].message
                 /\ peek'[u].number = peek[u].number
                 /\ \/ /\ peek[u].pc = "role" /\ db.role[u] = NoRole
                       /\ peek'[u].pc = "count"
                    \/ /\ peek[u].pc \in {"count", "turn"}
                       /\ peek'[u].pc \in {"turn", "numbers"}
                    \/ /\ peek[u].pc = "role" /\ peek'[u].pc = "show"
                       /\ peek'[u].shows.kind = "role"
                       /\ db.role[u] # NoRole
                    \/ /\ peek[u].pc # "role" /\ peek'[u].pc = "show"
                       /\ peek'[u].shows.kind \in {"lobby", "notturn", "numbers"}
                    \/ /\ peek[u].pc = "turn" /\ peek[u].number # 0
                       /\ peek'[u].pc = "show" /\ peek'[u].shows.kind = "getrole"
  <1>1. /\ peek \in [Users -> PeekStates] /\ peek[u] \in PeekStates
        /\ db \in Tables /\ db.role[u] \in Roles \cup {NoRole}
    BY DEF Held, TypeOK, Tables
  <1>2. UNCHANGED <<db, live, screen, turn, excused, undone, peeks, failures>>
    BY DEF ReadsOn, PeekRole, PeekCount, PeekTurn, PeekNumbers, Reads
  <1>3. Cardinality(ActiveIn(db)) \in Nat /\ FreeIn(db) \subseteq Nat
    BY <1>1, TableIsFinite DEF FreeIn, Seats
  <1>4. NoPeek \in PeekStates
    BY BoundsAreNat DEF NoPeek, PeekStates, Unsent, Screen, Screens, Kinds
  <1>5. CASE PeekRole(u)
    <2>1. \A r \in Roles : /\ Screen("role", {r}) \in Screens
                           /\ Screen("role", {r}).kind = "role"
      BY DEF Screen, Screens, Kinds
    <2>2. QED
      BY <1>1, <1>2, <1>4, <1>5, <2>1, NobodyIsNoUser
      DEF PeekRole, WillShow, PeekStates
  <1>6. CASE PeekCount(u)
    <2> DEFINE s == Screen("lobby", {Cardinality(ActiveIn(db))})
    <2>1. s \in Screens /\ s.kind = "lobby"
      BY <1>3 DEF Screen, Screens, Kinds
    <2> HIDE DEF s
    <2>2. \/ WillShow(u, s)
          \/ peek' = [peek EXCEPT ![u].pc = "turn"]
      BY <1>6 DEF PeekCount, s
    <2>3. peek[u].pc = "count"
      BY <1>6 DEF PeekCount
    <2>4. QED
      BY <1>1, <1>2, <2>1, <2>2, <2>3 DEF WillShow, PeekStates
  <1>7. CASE PeekTurn(u)
    <2> DEFINE s == Screen("getrole", {peek[u].number})
    <2>1. /\ s \in Screens /\ s.kind = "getrole"
          /\ Screen("notturn", {}) \in Screens
          /\ Screen("notturn", {}).kind = "notturn"
      BY <1>1 DEF Screen, Screens, Kinds, PeekStates
    <2> HIDE DEF s
    <2>2. \/ WillShow(u, Screen("notturn", {}))
          \/ peek' = [peek EXCEPT ![u].pc = "numbers"]
          \/ peek[u].number # 0 /\ WillShow(u, s)
      BY <1>7 DEF PeekTurn, s
    <2>3. peek[u].pc = "turn"
      BY <1>7 DEF PeekTurn
    <2>4. QED
      BY <1>1, <1>2, <2>1, <2>2, <2>3 DEF WillShow, PeekStates
  <1>8. CASE PeekNumbers(u)
    <2> DEFINE s == Screen("numbers", FreeIn(db))
    <2>1. s \in Screens /\ s.kind = "numbers"
      BY <1>3 DEF Screen, Screens, Kinds
    <2> HIDE DEF s
    <2>2. peek[u].pc = "numbers" /\ WillShow(u, s)
      BY <1>8 DEF PeekNumbers, s
    <2>3. QED
      BY <1>1, <1>2, <2>1, <2>2 DEF WillShow, PeekStates
  <1>9. QED
    BY <1>5, <1>6, <1>7, <1>8 DEF ReadsOn

LEMMA ReadHeld ==
    ASSUME Held, NEW u \in Users, ReadsOn(u)
    PROVE  Held'
  <1>1. /\ UNCHANGED <<db, live, screen, turn, excused, undone, peeks, failures>>
        /\ peek' \in [Users -> PeekStates]
    BY ReadOn
  <1>2. TypeOK' /\ RowsFit(db)' /\ TurnFits'
    BY <1>1 DEF Held, TypeOK, RowsFit, RowFits, ActiveIn, TurnFits
  <1>3. PeeksFit'
    <2> SUFFICES ASSUME NEW v \in Users, peek'[v].pc # "none"
                 PROVE  /\ peek'[v].message \in Messages
                        /\ screen'[v][peek'[v].message] # Unsent
                        /\ peek'[v].pc = "role" => peek'[v].number # 0
                        /\ peek'[v].pc \in {"show", "commit"} =>
                              peek'[v].shows.kind \in Rendered
      BY DEF PeeksFit
    <2>1. PeeksFit
      BY DEF Held
    <2>2. CASE v # u
      <3>1. peek'[v] = peek[v]
        BY <2>2, ReadOn
      <3>2. QED
        BY <1>1, <2>1, <3>1 DEF PeeksFit
    <2>3. CASE v = u
      <3>1. /\ peek[u].pc # "none" /\ peek'[u].message = peek[u].message
            /\ peek'[u].pc \notin {"role", "commit"}
            /\ peek'[u].pc = "show" => peek'[u].shows.kind \in Rendered
        BY <2>3, ReadOn DEF NoPeek, Rendered
      <3>2. QED
        BY <1>1, <2>1, <2>3, <3>1 DEF PeeksFit
    <2>4. QED
      BY <2>2, <2>3
  <1>4. QED
    BY <1>2, <1>3 DEF Held

LEMMA StutterHeld ==
    ASSUME Held, UNCHANGED vars
    PROVE  Held'
  BY DEF Held, TypeOK, RowsFit, RowFits, ActiveIn, TurnFits, PeeksFit, vars

LEMMA HeldStep ==
    ASSUME Held, [Next]_vars
    PROVE  Held'
  BY Steps, BegunHeld, ActHeld, TellHeld, EditHeld, EndHeld, PeekHeld, ReadHeld,
     StutterHeld
  DEF Step

LEMMA HeldInvariant == Spec => []Held
  BY InitHeld, HeldStep, PTL DEF Spec

\* The tables and the messages hold values of their columns' types.
THEOREM ScreensAreTyped == Spec => []TypeOK
  <1>1. Held => TypeOK
    BY DEF Held
  <1>2. QED
    BY <1>1, HeldInvariant, PTL

-----------------------------------------------------------------------------
(* Everybody who waits has a live screen, and until it is right somebody is *)
(* about to edit it.                                                       *)

RightOn(t, u) == screen[u][live[u]] = ScreenFor(t, u) \/ excused[u]

LiveScreens ==
    /\ \A u \in AwaitingIn(db) : live[u] # 0
    /\ turn.pc = "free" => \A u \in AwaitingIn(db) : RightOn(db, u)
    /\ turn.pc = "edit" =>
          \A u \in AwaitingIn(turn.table) \ {turn.user} :
             <<u, live[u]>> \in turn.edits \/ RightOn(turn.table, u)

LEMMA BegunOrToldLive ==
    ASSUME Held, LiveScreens,
           \/ \E op \in Operations, u \in Users, m \in Messages, t \in Tables :
                 Begun(op, u, m, t)
           \/ Act \/ Tell
    PROVE  LiveScreens'
  <1>1. UNCHANGED <<db, live>> /\ turn'.pc \in {"act", "tell", "edit"}
    <2>1. CASE Act \/ Tell
      BY <2>1 DEF Act, Tell, Held, TypeOK
    <2>2. QED
      BY <2>1 DEF Begun
  <1>2. \A u \in AwaitingIn(db)' : live'[u] # 0
    BY <1>1 DEF LiveScreens, AwaitingIn
  <1>3. CASE turn'.pc # "edit"
    BY <1>1, <1>2, <1>3 DEF LiveScreens
  <1>4. CASE turn'.pc = "edit"
    <2>1. Tell
      BY <1>4 DEF Begun, Act, Held, TypeOK
    <2>2. \A u \in AwaitingIn(turn.table) \ {turn.user} : u \in AwaitingIn(db)
      BY <2>1, HeldTable DEF Tell, AwaitingIn, next, Mine
    <2>3. /\ turn'.table = turn.table /\ turn'.user = turn.user
          /\ turn'.edits = {<<v, live[v]>> : v \in Eligible(turn.table) \ {turn.user}}
      BY <2>1 DEF Tell, Held, TypeOK
    <2>4. \A u \in AwaitingIn(turn.table) \ {turn.user} : <<u, live[u]>> \in turn'.edits
      BY <2>2, <2>3 DEF LiveScreens, Eligible
    <2>5. QED
      BY <1>1, <1>2, <1>4, <2>3, <2>4 DEF LiveScreens
  <1>5. QED
    BY <1>3, <1>4

LEMMA EditLive ==
    ASSUME Held, LiveScreens, NEW v \in Users, NEW m \in Messages,
           Edit(v, m) \/ EditFails(v, m)
    PROVE  LiveScreens'
  <1>1. /\ UNCHANGED <<db, live>> /\ turn.pc = "edit" /\ turn'.pc = "edit"
        /\ turn'.table = turn.table /\ turn'.user = turn.user
        /\ turn'.edits = turn.edits \ {<<v, m>>}
        /\ screen \in [Users -> [Messages -> Screens]]
        /\ excused \in [Users -> BOOLEAN] /\ live \in [Users -> 0..MaxMessages]
    BY DEF Edit, EditFails, Held, TypeOK
  <1>2. \A u \in AwaitingIn(db)' : live'[u] # 0
    BY <1>1 DEF LiveScreens, AwaitingIn
  <1>3. ASSUME NEW u \in AwaitingIn(turn.table) \ {turn.user}
        PROVE  <<u, live[u]>> \in turn'.edits \/ RightOn(turn.table, u)'
    <2>1. u \in Users /\ u \in AwaitingIn(db)
      BY <1>1, HeldTable DEF AwaitingIn, next, Mine
    <2>2. live[u] \in Messages
      BY <1>1, <2>1, BoundsAreNat DEF LiveScreens, Messages
    <2>3. <<u, live[u]>> \in turn.edits \/ RightOn(turn.table, u)
      BY <1>1 DEF LiveScreens
    <2>4. CASE EditFails(v, m)
      BY <1>1, <2>1, <2>3, <2>4 DEF EditFails, RightOn
    <2>5. CASE Edit(v, m)
      <3>1. /\ screen'[v][m] = ScreenFor(turn.table, v)
            /\ \A w \in Users, k \in Messages :
                  (w # v \/ k # m) => screen'[w][k] = screen[w][k]
        BY <1>1, <2>5, ShowsOne DEF Edit
      <3>2. excused'[u] = (excused[u] /\ ~(u = v /\ m = live[u]))
        BY <1>1, <2>1, <2>5 DEF Edit
      <3>3. CASE u = v /\ m = live[u]
        BY <1>1, <3>1, <3>3 DEF RightOn
      <3>4. CASE ~(u = v /\ m = live[u])
        BY <1>1, <2>1, <2>2, <2>3, <3>1, <3>2, <3>4 DEF RightOn
      <3>5. QED
        BY <3>3, <3>4
    <2>6. QED
      BY <2>4, <2>5
  <1>4. QED
    BY <1>1, <1>2, <1>3 DEF LiveScreens, RightOn

LEMMA CommitLive ==
    ASSUME Held, LiveScreens, Commit
    PROVE  LiveScreens'
  <1>1. /\ turn.user \in Users /\ turn.message \in Messages
        /\ Follows(db, turn.op, turn.user, turn.table) /\ next = turn.table
        /\ db' = turn.table /\ turn'.pc = "free" /\ UNCHANGED screen
        /\ turn.pc = "edit" /\ turn.edits = {}
    BY HandlerFits DEF Commit, NoTurn
  <1>2. /\ excused \in [Users -> BOOLEAN] /\ live \in [Users -> 0..MaxMessages]
    BY DEF Held, TypeOK
  <1>3. ASSUME NEW u \in AwaitingIn(turn.table), u # turn.user
        PROVE  live'[u] # 0 /\ RightOn(db, u)'
    <2>1. u \in Users /\ u \in AwaitingIn(db)
      BY <1>1, <1>3, HeldOperation DEF AwaitingIn
    <2>2. live'[u] = live[u] /\ excused'[u] = excused[u]
      BY <1>2, <1>3, <2>1 DEF Commit, Remembered
    <2>3. QED
      BY <1>1, <1>3, <2>1, <2>2 DEF LiveScreens, RightOn
  <1>4. ASSUME NEW u \in AwaitingIn(turn.table), u = turn.user
        PROVE  live'[u] # 0 /\ RightOn(db, u)'
    <2>1. turn.table.stage[turn.user] # "ASSIGNED"
          /\ turn.table.stage[turn.user] # "LEFT"
      BY <1>4 DEF AwaitingIn
    <2>2. turn.op \notin {"assign", "leave"}
      BY <1>1, <2>1, HeldOperation
    <2>3. live'[turn.user] = turn.message
      BY <1>1, <1>2, <2>1, <2>2 DEF Commit, Remembered
    <2>4. \/ excused'[turn.user]
          \/ screen[turn.user][turn.message] = ScreenFor(turn.table, turn.user)
      BY <1>1, <1>2 DEF Commit
    <2>5. turn.message # 0
      BY <1>1 DEF Messages
    <2>6. QED
      BY <1>1, <1>4, <2>3, <2>4, <2>5 DEF RightOn
  <1>5. QED
    BY <1>1, <1>3, <1>4 DEF LiveScreens, RightOn

LEMMA FailLive ==
    ASSUME Held, LiveScreens, Fail
    PROVE  LiveScreens'
  <1>1. /\ UNCHANGED <<db, live, screen>> /\ turn'.pc = "free"
        /\ excused' = [u \in Users |->
              excused[u] \/ (live[u] # 0 /\ screen[u][live[u]] # ScreenFor(db, u))]
    BY DEF Fail, NoTurn
  <1>2. \A u \in AwaitingIn(db) : RightOn(db, u)'
    BY <1>1 DEF AwaitingIn, LiveScreens, RightOn
  <1>3. QED
    BY <1>1, <1>2 DEF LiveScreens, AwaitingIn, RightOn

LEMMA PeekLive ==
    ASSUME Held, LiveScreens, NEW v \in Users,
           (\E m \in Messages : Peek(v, m)) \/ PeekShow(v) \/ PeekCommit(v)
    PROVE  LiveScreens'
  <1>1. UNCHANGED <<db, turn>>
    BY DEF Peek, PeekShow, PeekCommit
  <1>2. /\ screen \in [Users -> [Messages -> Screens]]
        /\ excused \in [Users -> BOOLEAN] /\ live \in [Users -> 0..MaxMessages]
        /\ MaxMessages \in Nat
    BY BoundsAreNat DEF Held, TypeOK
  <1>3. ASSUME NEW m \in Messages, Peek(v, m)
        PROVE  LiveScreens'
    BY <1>1, <1>3 DEF Peek, LiveScreens, RightOn
  <1>4. CASE PeekShow(v)
    <2>1. /\ UNCHANGED live /\ peek[v].message \in Messages
          /\ Shows(v, peek[v].message, peek[v].shows)
          /\ excused' = [excused EXCEPT
                ![v] = @ \/ peek[v].shows # ScreenFor(next, v)]
      BY <1>4 DEF PeekShow, Held, PeeksFit
    <2>2. /\ screen'[v][peek[v].message] = peek[v].shows
          /\ \A w \in Users, k \in Messages :
                (w # v \/ k # peek[v].message) => screen'[w][k] = screen[w][k]
      BY <1>2, <2>1, ShowsOne
    <2>3. ASSUME NEW u \in Users, live[u] # 0, RightOn(next, u)
          PROVE  RightOn(next, u)'
      <3>1. live[u] \in Messages
        BY <1>2, <2>3 DEF Messages
      <3>2. next' = next
        BY <1>1 DEF next
      <3>3. CASE u = v /\ live[u] = peek[v].message
        BY <1>2, <2>1, <2>2, <3>2, <3>3 DEF RightOn
      <3>4. CASE ~(u = v /\ live[u] = peek[v].message)
        BY <1>2, <2>1, <2>2, <2>3, <3>1, <3>2, <3>4 DEF RightOn
      <3>5. QED
        BY <3>3, <3>4
    <2>4. CASE turn.pc = "free"
      BY <1>1, <2>1, <2>3, <2>4 DEF LiveScreens, next, AwaitingIn, RightOn
    <2>5. CASE turn.pc # "free"
      <3>1. \A u \in AwaitingIn(turn.table) \ {turn.user} : u \in AwaitingIn(db)
        BY <2>5, HeldTable DEF AwaitingIn, next, Mine
      <3>2. QED
        BY <1>1, <2>1, <2>3, <2>5, <3>1 DEF LiveScreens, next, AwaitingIn, RightOn
    <2>6. QED
      BY <2>4, <2>5
  <1>5. CASE PeekCommit(v)
    <2>1. /\ UNCHANGED screen /\ peek[v].message \in Messages
          /\ live' = IF Records(v) THEN [live EXCEPT ![v] = peek[v].message] ELSE live
          /\ excused' = [excused EXCEPT
                ![v] = @ \/ screen[v][peek[v].message] # ScreenFor(next, v)]
      BY <1>5 DEF PeekCommit, Held, PeeksFit
    <2>2. \A u \in Users : live[u] # 0 => live'[u] # 0
      BY <1>2, <2>1 DEF Messages
    <2>3. ASSUME NEW u \in Users
          PROVE  \/ live'[u] = live[u] /\ (excused[u] => excused'[u])
                 \/ RightOn(next, u)'
      <3>1. next' = next
        BY <1>1 DEF next
      <3>2. CASE u = v /\ Records(v)
        BY <1>2, <2>1, <3>1, <3>2 DEF RightOn
      <3>3. CASE ~(u = v /\ Records(v))
        BY <1>2, <2>1, <3>3
      <3>4. QED
        BY <3>2, <3>3
    <2>4. CASE turn.pc = "free"
      BY <1>1, <2>1, <2>2, <2>3, <2>4 DEF LiveScreens, next, AwaitingIn, RightOn
    <2>5. CASE turn.pc # "free"
      BY <1>1, <2>1, <2>2, <2>3, <2>5 DEF LiveScreens, next, AwaitingIn, RightOn
    <2>6. QED
      BY <2>4, <2>5
  <1>6. QED
    BY <1>3, <1>4, <1>5

LEMMA LiveStep ==
    ASSUME Held, LiveScreens, [Next]_vars
    PROVE  LiveScreens'
  <1>1. ASSUME UNCHANGED <<db, live, screen, turn, excused>>
        PROVE  LiveScreens'
    BY <1>1 DEF LiveScreens, AwaitingIn, RightOn
  <1>2. ASSUME UNCHANGED vars \/ \E u \in Users : ReadsOn(u)
        PROVE  LiveScreens'
    BY <1>1, <1>2, ReadOn DEF vars
  <1>3. QED
    BY <1>2, Steps, BegunOrToldLive, EditLive, CommitLive, FailLive, PeekLive DEF Step

\* Every player who waits has a live screen, and it shows what a refresh would
\* show, whatever the handlers, the broadcasts and the refreshes do meanwhile.
THEOREM WaitingSeeTheTable == Spec => []WaitingScreensAreCurrent
  <1>1. Init => LiveScreens
    BY DEF Init, LiveScreens, EmptyTable, NoTurn, AwaitingIn
  <1>2. Held /\ LiveScreens /\ [Next]_vars => LiveScreens'
    BY LiveStep
  <1>3. LiveScreens => WaitingScreensAreCurrent
    BY DEF LiveScreens, WaitingScreensAreCurrent, Quiet, RightOn
  <1>4. QED
    BY <1>1, <1>2, <1>3, HeldInvariant, PTL DEF Spec

-----------------------------------------------------------------------------
(* A refresh that will show what is no longer true will not show it in a   *)
(* message that someone else is making right.                              *)

\* What u's refresh is going to show, or will if it is u's turn by then, of a
\* role or the button for one.
MayShow(u) ==
    IF peek[u].pc = "show" THEN {peek[u].shows.kind} \cap {"role", "getrole"}
    ELSE IF peek[u].pc \in {"role", "count", "turn"} /\ peek[u].number # 0
    THEN {"getrole"}
    ELSE {}

\* By table t there is no such role, or no such button.
Stale(u, t) ==
    \/ "role" \in MayShow(u) /\ t.stage[u] # "ASSIGNED"
    \/ "getrole" \in MayShow(u) /\ t.stage[u] \notin {"NUMBERED", "ASSIGNED"}

StaleOf(u) ==
    /\ MayShow(u) # {} => screen[u][peek[u].message].kind # "numbers"
    /\ u \in AwaitingIn(db) /\ Stale(u, db) => live[u] # peek[u].message
    /\ Stale(u, next) => <<u, peek[u].message>> \notin turn.edits
    /\ Mine(u) /\ turn.op \in {"join", "pick", "refused"} /\ Stale(u, next) =>
          turn.message # peek[u].message

StaleScreens == \A u \in Users : StaleOf(u)

\* A player for whom nothing changed but messages that get no numbers.
LEMMA StaleStays ==
    ASSUME Held, NEW u \in Users, StaleOf(u),
           db' = db, turn' = turn, peek'[u] = peek[u], live'[u] = live[u],
           \A m \in Messages :
              screen'[u][m] = screen[u][m] \/ screen'[u][m].kind # "numbers"
    PROVE  StaleOf(u)'
  <1>1. MayShow(u) # {} => peek[u].message \in Messages
    BY DEF Held, PeeksFit, MayShow
  <1>2. QED
    BY <1>1 DEF StaleOf, Stale, MayShow, AwaitingIn, next, Mine

LEMMA BegunStale ==
    ASSUME Held, StaleScreens, NEW op \in Operations, NEW v \in Users,
           NEW m \in Messages, NEW t \in Tables, Begun(op, v, m, t)
    PROVE  StaleScreens'
  <1> SUFFICES ASSUME NEW u \in Users PROVE StaleOf(u)'
    BY DEF StaleScreens
  <1>1. Filled
    BY BegunFills
  <1>2. /\ UNCHANGED <<db, live, peek>> /\ StaleOf(u)
        /\ turn'.edits = {} /\ turn'.op = op /\ turn'.user = v
        /\ turn'.message = m
    BY DEF Begun, StaleScreens
  <1>3. MayShow(u) # {} =>
            peek[u].message \in Messages /\ screen[u][peek[u].message] # Unsent
    BY DEF Held, PeeksFit, MayShow
  <1>4. (MayShow(u) # {} =>
            screen[u][peek[u].message].kind # "numbers")'
    BY <1>1, <1>2, <1>3, FilledStaySent DEF StaleOf, MayShow
  <1>5. ASSUME Mine(u)', turn'.op \in {"join", "pick", "refused"}, Stale(u, next)'
        PROVE  m # peek[u].message
    <2>1. u = v /\ MayShow(u) # {}
      BY <1>2, <1>5 DEF Mine, Stale, MayShow
    <2>2. \/ screen[u][m] = Unsent
          \/ screen[u][m].kind = "numbers"
      BY <1>2, <1>5, <2>1 DEF Begun
    <2>3. QED
      BY <1>2, <1>3, <2>1, <2>2 DEF StaleOf
  <1>6. QED
    BY <1>2, <1>4, <1>5 DEF StaleOf, Stale, MayShow, AwaitingIn

LEMMA ActStale ==
    ASSUME Held, StaleScreens, Act
    PROVE  StaleScreens'
  <1> SUFFICES ASSUME NEW u \in Users PROVE StaleOf(u)'
    BY DEF StaleScreens
  <1>1. /\ turn.user \in Users /\ turn.message \in Messages
        /\ turn.pc = "act" /\ turn.edits = {} /\ next = turn.table
    BY HandlerFits DEF Act
  <1>2. /\ turn'.pc = "tell" /\ turn'.edits = {} /\ turn'.op = turn.op
        /\ turn'.user = turn.user /\ turn'.message = turn.message
        /\ turn'.table = turn.table /\ next' = next
        /\ UNCHANGED <<db, live, peek>> /\ StaleOf(u)
    BY <1>1 DEF Act, Held, TypeOK, StaleScreens, next
  <1> DEFINE s == IF turn.op = "leave" THEN Screen("left", {})
                  ELSE ScreenFor(turn.table, turn.user)
  <1>3. /\ screen'[turn.user][turn.message] = s
        /\ \A w \in Users, k \in Messages :
              (w # turn.user \/ k # turn.message) => screen'[w][k] = screen[w][k]
    BY <1>1, ShowsOne DEF Act, Held, TypeOK
  <1>4. MayShow(u) # {} => peek[u].message \in Messages
    BY DEF Held, PeeksFit, MayShow
  <1>5. ASSUME MayShow(u) # {},
               u = turn.user, peek[u].message = turn.message
        PROVE  s.kind # "numbers"
    <2>1. CASE turn.op = "leave"
      BY <2>1 DEF Screen
    <2>2. CASE turn.op # "leave"
      <3>1. SUFFICES ASSUME ScreenFor(turn.table, u).kind = "numbers"
                     PROVE  FALSE
        BY <1>5, <2>2
      <3>2. turn.table.stage[u] = "JOINED"
        BY <1>1, <3>1, HeldOperation, ScreenSays
      <3>3. turn.op \in {"join", "pick", "refused"}
        BY <1>1, <1>5, <2>2, <3>2, HeldOperation
      <3>4. Stale(u, next)
        BY <1>1, <1>5, <3>2 DEF Stale, MayShow
      <3>5. QED
        BY <1>1, <1>2, <1>5, <3>3, <3>4 DEF StaleOf, Mine
    <2>3. QED
      BY <2>1, <2>2
  <1> HIDE DEF s
  <1>6. (MayShow(u) # {} =>
            screen[u][peek[u].message].kind # "numbers")'
    BY <1>2, <1>3, <1>4, <1>5 DEF StaleOf, MayShow
  <1>7. QED
    BY <1>1, <1>2, <1>6 DEF StaleOf, Stale, MayShow, Mine, AwaitingIn

LEMMA TellStale ==
    ASSUME Held, StaleScreens, Tell
    PROVE  StaleScreens'
  <1> SUFFICES ASSUME NEW u \in Users PROVE StaleOf(u)'
    BY DEF StaleScreens
  <1>1. Filled
    BY TellFills
  <1>2. /\ turn.pc = "tell" /\ next = turn.table
        /\ turn'.pc = "edit" /\ turn'.op = turn.op
        /\ turn'.user = turn.user /\ turn'.message = turn.message
        /\ turn'.table = turn.table /\ next' = next
        /\ turn'.edits = {<<v, live[v]>> : v \in Eligible(turn.table) \ {turn.user}}
        /\ UNCHANGED <<db, live, peek>> /\ StaleOf(u)
    BY DEF Tell, Held, TypeOK, StaleScreens, next
  <1>3. MayShow(u) # {} =>
            peek[u].message \in Messages /\ screen[u][peek[u].message] # Unsent
    BY DEF Held, PeeksFit, MayShow
  <1>4. (MayShow(u) # {} =>
            screen[u][peek[u].message].kind # "numbers")'
    BY <1>1, <1>2, <1>3, FilledStaySent DEF StaleOf, MayShow
  <1>5. ASSUME Stale(u, next), <<u, peek[u].message>> \in turn'.edits
        PROVE  FALSE
    <2>1. /\ live[u] = peek[u].message /\ u # turn.user
          /\ turn.table.stage[u] \in {"JOINED", "NUMBERED"}
      BY <1>2, <1>5 DEF Eligible, AwaitingIn
    <2>2. db.stage[u] = turn.table.stage[u]
      BY <1>2, <2>1, HeldOperation
    <2>3. Stale(u, db) /\ u \in AwaitingIn(db)
      BY <1>2, <1>5, <2>1, <2>2 DEF Stale, MayShow, AwaitingIn
    <2>4. QED
      BY <1>2, <2>1, <2>3 DEF StaleOf
  <1>6. QED
    BY <1>2, <1>4, <1>5 DEF StaleOf, Stale, MayShow, Mine, AwaitingIn

LEMMA EditStale ==
    ASSUME Held, StaleScreens, NEW v \in Users, NEW m \in Messages,
           Edit(v, m) \/ EditFails(v, m)
    PROVE  StaleScreens'
  <1> SUFFICES ASSUME NEW u \in Users PROVE StaleOf(u)'
    BY DEF StaleScreens
  <1>1. /\ turn.pc = "edit" /\ <<v, m>> \in turn.edits /\ next = turn.table
        /\ turn'.pc = "edit" /\ turn'.op = turn.op
        /\ turn'.user = turn.user /\ turn'.message = turn.message
        /\ turn'.table = turn.table /\ next' = next
        /\ turn'.edits \subseteq turn.edits
        /\ UNCHANGED <<db, live, peek>> /\ StaleOf(u)
    BY DEF Edit, EditFails, Held, TypeOK, StaleScreens, next
  <1>2. MayShow(u) # {} => peek[u].message \in Messages
    BY DEF Held, PeeksFit, MayShow
  <1>3. ASSUME MayShow(u) # {}
        PROVE  screen'[u][peek[u].message].kind # "numbers"
    <2>1. CASE EditFails(v, m)
      BY <1>1, <1>3, <2>1 DEF EditFails, StaleOf
    <2>2. CASE Edit(v, m)
      <3>1. /\ screen'[v][m] = ScreenFor(turn.table, v)
            /\ \A w \in Users, k \in Messages :
                  (w # v \/ k # m) => screen'[w][k] = screen[w][k]
        BY <2>2, ShowsOne DEF Edit, Held, TypeOK
      <3>2. CASE u = v /\ peek[u].message = m
        <4>1. SUFFICES ASSUME ScreenFor(turn.table, u).kind = "numbers"
                       PROVE  FALSE
          BY <3>1, <3>2
        <4>2. turn.table.stage[u] = "JOINED"
          BY <1>1, <4>1, HeldOperation, ScreenSays
        <4>3. Stale(u, next)
          BY <1>1, <1>3, <4>2 DEF Stale, MayShow
        <4>4. QED
          BY <1>1, <3>2, <4>3 DEF StaleOf
      <3>3. CASE ~(u = v /\ peek[u].message = m)
        BY <1>1, <1>2, <1>3, <3>1, <3>3 DEF StaleOf
      <3>4. QED
        BY <3>2, <3>3
    <2>3. QED
      BY <2>1, <2>2
  <1>4. QED
    BY <1>1, <1>3 DEF StaleOf, Stale, MayShow, Mine, AwaitingIn

LEMMA EndStale ==
    ASSUME Held, StaleScreens, Commit \/ Fail
    PROVE  StaleScreens'
  <1> SUFFICES ASSUME NEW u \in Users PROVE StaleOf(u)'
    BY DEF StaleScreens
  <1>1. /\ turn.user \in Users /\ turn.pc # "free" /\ next = turn.table
        /\ turn'.pc = "free" /\ turn'.edits = {}
        /\ UNCHANGED <<screen, peek>> /\ StaleOf(u)
        /\ live \in [Users -> 0..MaxMessages]
    BY HandlerFits DEF Commit, Fail, NoTurn, Held, TypeOK, StaleScreens
  <1>2. ASSUME u \in AwaitingIn(db)', Stale(u, db)'
        PROVE  live'[u] # peek[u].message
    <2>1. CASE Fail
      BY <1>1, <1>2, <2>1 DEF Fail, StaleOf, AwaitingIn, Stale, MayShow
    <2>2. CASE Commit
      <3>1. /\ turn.table.stage[u] \in {"JOINED", "NUMBERED"}
            /\ Stale(u, next)
        BY <1>1, <1>2, <2>2 DEF Commit, AwaitingIn, Stale, MayShow
      <3>2. CASE u # turn.user
        <4>1. db.stage[u] = turn.table.stage[u]
          BY <1>1, <3>2, HeldOperation
        <4>2. Stale(u, db) /\ u \in AwaitingIn(db)
          BY <1>1, <3>1, <4>1 DEF Stale, MayShow, AwaitingIn
        <4>3. live'[u] = live[u]
          BY <1>1, <2>2, <3>2 DEF Commit, Remembered
        <4>4. QED
          BY <1>1, <4>2, <4>3 DEF StaleOf
      <3>3. CASE u = turn.user
        <4>1. turn.op \in {"join", "pick", "refused"}
          BY <1>1, <3>1, <3>3, HeldOperation
        <4>2. live'[u] = turn.message
          BY <1>1, <2>2, <3>1, <3>3, <4>1 DEF Commit, Remembered
        <4>3. turn.message # peek[u].message
          BY <1>1, <3>1, <3>3, <4>1 DEF StaleOf, Mine
        <4>4. QED
          BY <4>2, <4>3
      <3>4. QED
        BY <3>2, <3>3
    <2>3. QED
      BY <2>1, <2>2
  <1>3. QED
    BY <1>1, <1>2 DEF StaleOf, Stale, MayShow, Mine

\* A refresh is not stale when it has just read what it shows.
LEMMA FreshIsNotStale ==
    ASSUME Held, NEW u \in Users, UNCHANGED <<db, turn>>,
           "role" \in MayShow(u)' => db.stage[u] = "ASSIGNED",
           "getrole" \in MayShow(u)' => db.stage[u] \in {"NUMBERED", "ASSIGNED"}
    PROVE  /\ ~Stale(u, db)'
           /\ Mine(u) /\ turn.op \in {"join", "pick", "refused"} =>
                 ~Stale(u, next)'
           /\ ~Mine(u) => ~Stale(u, next)'
  <1>1. next' = next
    BY DEF next
  <1>2. ~Stale(u, db)'
    BY DEF Stale
  <1>3. ASSUME ~Mine(u) \/ turn.op = "refused"
        PROVE  ~Stale(u, next)'
    <2>1. next.stage[u] = db.stage[u]
      BY <1>3, HeldTable
    <2>2. QED
      BY <1>1, <2>1 DEF Stale
  <1>4. ASSUME Mine(u), turn.op \in {"join", "pick"}
        PROVE  ~Stale(u, next)'
    <2>1. db.stage[u] \in {"NONE", "LEFT", "JOINED"}
      BY <1>4, HeldOperation DEF Mine
    <2>2. QED
      BY <1>1, <2>1 DEF Stale
  <1>5. QED
    BY <1>2, <1>3, <1>4

LEMMA FreshPeek ==
    ASSUME Held, NEW u \in Users, NEW m \in Messages, Peek(u, m)
    PROVE  /\ ~Stale(u, db)'
           /\ Mine(u) /\ turn.op \in {"join", "pick", "refused"} =>
                 ~Stale(u, next)'
           /\ ~Mine(u) => ~Stale(u, next)'
  <1>1. /\ db \in Tables /\ RowsFit(db) /\ UNCHANGED <<db, turn>>
        /\ peek \in [Users -> PeekStates]
    BY DEF Peek, Held, TypeOK
  <1>2. /\ peek'[u].number = db.number[u]
        /\ peek'[u].pc = "show" => peek'[u].shows = Screen("absent", {})
    BY <1>1 DEF Peek
  <1>3. MayShow(u)' # {} => MayShow(u)' = {"getrole"} /\ db.number[u] # 0
    BY <1>2 DEF MayShow, Screen
  <1>4. db.number[u] # 0 => db.stage[u] \in {"NUMBERED", "ASSIGNED"}
    BY <1>1 DEF RowsFit, RowFits
  <1>5. QED
    BY <1>1, <1>3, <1>4, FreshIsNotStale

\* What has just been read is not stale; where a query keeps what may be shown,
\* or lessens it, nothing becomes stale.
LEMMA ReadIsFresh ==
    ASSUME Held, NEW u \in Users, ReadsOn(u)
    PROVE  \/ /\ peek'[u].message = peek[u].message /\ MayShow(u) # {}
              /\ ~Stale(u, db)'
              /\ Mine(u) /\ turn.op \in {"join", "pick", "refused"} =>
                    ~Stale(u, next)'
              /\ ~Mine(u) => ~Stale(u, next)'
           \/ /\ MayShow(u)' \subseteq MayShow(u)
              /\ MayShow(u)' # {} => peek'[u].message = peek[u].message
  <1>1. /\ UNCHANGED <<db, turn>> /\ peek \in [Users -> PeekStates]
        /\ RowsFit(db) /\ PeeksFit
    BY ReadOn DEF Held, TypeOK
  <1>2. CASE /\ peek[u].pc = "role" /\ peek'[u].pc = "show"
             /\ peek'[u].shows.kind = "role" /\ db.role[u] # NoRole
             /\ peek'[u].message = peek[u].message
    <2>1. MayShow(u)' = {"role"}
      BY <1>2 DEF MayShow
    <2>2. db.stage[u] = "ASSIGNED"
      BY <1>1, <1>2 DEF RowsFit, RowFits
    <2>3. MayShow(u) # {}
      BY <1>1, <1>2 DEF MayShow, PeeksFit
    <2>4. QED
      BY <1>1, <1>2, <2>1, <2>2, <2>3, FreshIsNotStale
  <1>3. CASE ~(/\ peek[u].pc = "role" /\ peek'[u].pc = "show"
               /\ peek'[u].shows.kind = "role" /\ db.role[u] # NoRole
               /\ peek'[u].message = peek[u].message)
    BY <1>3, ReadOn DEF MayShow, NoPeek
  <1>4. QED
    BY <1>2, <1>3

LEMMA ReadStale ==
    ASSUME Held, StaleScreens, NEW v \in Users, ReadsOn(v)
    PROVE  StaleScreens'
  <1> SUFFICES ASSUME NEW u \in Users PROVE StaleOf(u)'
    BY DEF StaleScreens
  <1>1. /\ UNCHANGED <<db, live, screen, turn>> /\ next' = next /\ StaleOf(u)
        /\ \A w \in Users \ {v} : peek'[w] = peek[w]
    BY ReadOn DEF StaleScreens, next
  <1>2. CASE u # v
    BY <1>1, <1>2, StaleStays
  <1>3. CASE /\ u = v /\ MayShow(u)' \subseteq MayShow(u)
             /\ MayShow(u)' # {} => peek'[u].message = peek[u].message
    <2>1. Stale(u, db)' => Stale(u, db) /\ peek'[u].message = peek[u].message
      BY <1>1, <1>3 DEF Stale
    <2>2. Stale(u, next)' => Stale(u, next) /\ peek'[u].message = peek[u].message
      BY <1>1, <1>3 DEF Stale
    <2>3. QED
      BY <1>1, <1>3, <2>1, <2>2 DEF StaleOf, Mine, AwaitingIn
  <1>4. CASE /\ u = v /\ peek'[u].message = peek[u].message /\ MayShow(u) # {}
             /\ ~Stale(u, db)'
             /\ Mine(u) /\ turn.op \in {"join", "pick", "refused"} =>
                   ~Stale(u, next)'
             /\ ~Mine(u) => ~Stale(u, next)'
    <2>1. PeeksFit /\ peek[u].pc # "none"
      BY <1>4 DEF Held, MayShow
    <2>2. peek[u].message \in Messages
      BY <2>1 DEF PeeksFit
    <2>3. Mine(u) => <<u, peek[u].message>> \notin turn.edits
      BY <2>2, HandlerFits DEF Mine
    <2>4. QED
      BY <1>1, <1>4, <2>3 DEF StaleOf, Mine
  <1>5. QED
    BY <1>2, <1>3, <1>4, ReadIsFresh

LEMMA PeekStale ==
    ASSUME Held, StaleScreens, NEW v \in Users,
           (\E m \in Messages : Peek(v, m)) \/ PeekShow(v) \/ PeekCommit(v)
    PROVE  StaleScreens'
  <1> SUFFICES ASSUME NEW u \in Users PROVE StaleOf(u)'
    BY DEF StaleScreens
  <1>1. /\ UNCHANGED <<db, turn>> /\ StaleOf(u)
        /\ peek \in [Users -> PeekStates]
        /\ live \in [Users -> 0..MaxMessages]
        /\ screen \in [Users -> [Messages -> Screens]]
    BY DEF Peek, PeekShow, PeekCommit, StaleScreens, Held, TypeOK
  <1>2. CASE u # v
    <2>1. peek'[u] = peek[u] /\ live'[u] = live[u]
      BY <1>1, <1>2 DEF Peek, PeekShow, PeekCommit
    <2>2. \A m \in Messages : screen'[u][m] = screen[u][m]
      BY <1>1, <1>2 DEF Peek, PeekShow, PeekCommit, Shows
    <2>3. QED
      BY <1>1, <2>1, <2>2, StaleStays
  <1>3. CASE u = v /\ (PeekShow(v) \/ PeekCommit(v))
    <2>1. MayShow(u)' = {}
      BY <1>1, <1>3 DEF PeekShow, PeekCommit, NoPeek, MayShow, PeekStates
    <2>2. QED
      BY <2>1 DEF StaleOf, Stale
  <1>4. ASSUME NEW m \in Messages, Peek(v, m), u = v
        PROVE  StaleOf(u)'
    <2>1. /\ UNCHANGED <<live, screen>> /\ peek'[u].message = m
          /\ screen[u][m].kind # "numbers" /\ next' = next
      BY <1>1, <1>4 DEF Peek, HasRefresh, next
    <2>2. /\ ~Stale(u, db)'
          /\ Mine(u) /\ turn.op \in {"join", "pick", "refused"} =>
                ~Stale(u, next)'
          /\ ~Mine(u) => ~Stale(u, next)'
      BY <1>4, FreshPeek
    <2>3. Mine(u) => <<u, m>> \notin turn.edits
      BY HandlerFits DEF Mine
    <2>4. QED
      BY <1>1, <2>1, <2>2, <2>3 DEF StaleOf, Mine
  <1>5. QED
    BY <1>2, <1>3, <1>4

LEMMA StaleStep ==
    ASSUME Held, StaleScreens, [Next]_vars
    PROVE  StaleScreens'
  <1>1. ASSUME UNCHANGED vars
        PROVE  StaleScreens'
    BY <1>1, StaleStays DEF vars, StaleScreens
  <1>2. QED
    BY <1>1, Steps, BegunStale, ActStale, TellStale, EditStale, EndStale, PeekStale,
     ReadStale DEF Step

LEMMA InitStale == Init => StaleScreens
  BY DEF Init, StaleScreens, StaleOf, Stale, MayShow, NoTurn, NoPeek,
         Mine

-----------------------------------------------------------------------------
(* Everybody who waits keeps a button.                                     *)

\* The button on message m gets u on, and u's refresh will not take it away.
GoesOn(u, t, m) ==
    /\ \/ HasRefresh(screen[u][m])
       \/ screen[u][m].kind = "numbers"
       \/ HasAssign(screen[u][m]) /\ t.stage[u] = "NUMBERED"
    /\ ~(Stale(u, t) /\ peek[u].message = m)

CanMove(u, t) == undone[u] \/ \E m \in Messages : GoesOn(u, t, m)

\* The rows decide for everybody but the lock's holder, who goes by its own
\* table once it has answered the player.
MovesKept ==
    /\ \A u \in AwaitingIn(db) : ~Mine(u) \/ turn.pc = "act" => CanMove(u, db)
    /\ turn.pc \in {"tell", "edit"} =>
          \A u \in AwaitingIn(turn.table) :
             u = turn.user => CanMove(u, turn.table)

\* Both in one: u waits by t, and t is the table that decides.
Decides(u, t) ==
    /\ u \in AwaitingIn(t)
    /\ IF Mine(u) /\ turn.pc # "act" THEN t = next ELSE t = db

LEMMA MovesKeptIsDecided ==
    ASSUME Held
    PROVE  MovesKept <=> \A u \in Users, t \in {db, next} :
                             Decides(u, t) => CanMove(u, t)
  <1>1. turn.pc \in {"free", "act", "tell", "edit"}
    BY DEF Held, TypeOK
  <1>2. CASE turn.pc \in {"free", "act"}
    BY <1>1, <1>2 DEF MovesKept, Decides, Mine, AwaitingIn, next
  <1>3. CASE turn.pc \in {"tell", "edit"}
    BY <1>1, <1>3 DEF MovesKept, Decides, Mine, AwaitingIn, next
  <1>4. QED
    BY <1>1, <1>2, <1>3

\* What CanMove looks at in the table is the player's stage.
LEMMA MoveBySameStage ==
    ASSUME NEW u, NEW s, NEW t, s.stage[u] = t.stage[u], CanMove(u, s)
    PROVE  CanMove(u, t)
  BY DEF CanMove, GoesOn, Stale, MayShow

\* A screen of a player who waits has a button that gets on.
LEMMA RenderedGoesOn ==
    ASSUME NEW s \in Tables, RowsFit(s), NEW u \in AwaitingIn(s),
           NEW t, t.stage[u] = s.stage[u],
           NEW m \in Messages, screen'[u][m] = ScreenFor(s, u),
           ~(Stale(u, t)' /\ peek'[u].message = m)
    PROVE  CanMove(u, t)'
  <1> DEFINE shown == ScreenFor(s, u)
  <1>1. u \in Users /\ s.stage[u] \in {"JOINED", "NUMBERED"}
    BY DEF AwaitingIn
  <1>2. /\ shown.kind \in {"lobby", "notturn", "numbers", "getrole"}
        /\ shown.kind = "getrole" => s.stage[u] = "NUMBERED"
    BY <1>1, ScreenSays DEF Rendered
  <1> HIDE DEF shown
  <1>3. GoesOn(u, t, m)'
    BY <1>2 DEF GoesOn, HasRefresh, HasAssign, shown
  <1>4. QED
    BY <1>3 DEF CanMove

\* The buttons that get on stay, and no refresh becomes stale.
LEMMA ButtonsStay ==
    ASSUME NEW u \in Users, NEW t, CanMove(u, t), undone[u] => undone'[u],
           \A m \in Messages : GoesOn(u, t, m) => screen'[u][m] = screen[u][m],
           Stale(u, t)' => Stale(u, t) /\ peek'[u].message = peek[u].message
    PROVE  CanMove(u, t)'
  <1>1. CASE undone[u]
    BY <1>1 DEF CanMove
  <1>2. ASSUME NEW m \in Messages, GoesOn(u, t, m)
        PROVE  GoesOn(u, t, m)'
    BY <1>2 DEF GoesOn
  <1>3. QED
    BY <1>1, <1>2 DEF CanMove

LEMMA FilledKeepsMoves ==
    ASSUME Filled, UNCHANGED <<peek, undone>>, NEW u \in Users, NEW t,
           CanMove(u, t)
    PROVE  CanMove(u, t)'
  <1>1. \A m \in Messages : GoesOn(u, t, m) => screen[u][m] # Unsent
    BY DEF GoesOn, HasRefresh, HasAssign, Unsent, Screen
  <1>2. Stale(u, t)' => Stale(u, t)
    BY DEF Stale, MayShow
  <1>3. QED
    BY <1>1, <1>2, FilledStaySent, ButtonsStay

LEMMA BegunMoves ==
    ASSUME Held, MovesKept, NEW op \in Operations, NEW v \in Users,
           NEW m \in Messages, NEW b \in Tables, Begun(op, v, m, b),
           NEW u \in Users, NEW t, t \in {db', next'}, Decides(u, t)'
    PROVE  CanMove(u, t)'
  <1>1. /\ turn.pc = "free" /\ turn'.pc = "act"
        /\ UNCHANGED <<db, peek, undone>>
    BY DEF Begun
  <1>2. t = db /\ u \in AwaitingIn(db)
    BY <1>1 DEF Decides, AwaitingIn
  <1>3. CanMove(u, t)
    BY <1>1, <1>2 DEF MovesKept, Mine
  <1>4. QED
    BY <1>1, <1>3, BegunFills, FilledKeepsMoves

LEMMA ActMoves ==
    ASSUME Held, StaleScreens, MovesKept, Act,
           NEW u \in Users, NEW t, t \in {db', next'}, Decides(u, t)'
    PROVE  CanMove(u, t)'
  <1>1. /\ turn.user \in Users /\ turn.message \in Messages
        /\ turn.pc = "act" /\ next = turn.table /\ StaleOf(u)
    BY HandlerFits DEF Act, StaleScreens
  <1>2. /\ turn'.pc = "tell" /\ turn'.user = turn.user /\ next' = next
        /\ UNCHANGED <<db, live, peek>>
        /\ undone' = [undone EXCEPT ![turn.user] = FALSE]
        /\ undone \in [Users -> BOOLEAN]
    BY <1>1 DEF Act, Held, TypeOK, next
  <1> DEFINE s == IF turn.op = "leave" THEN Screen("left", {})
                  ELSE ScreenFor(turn.table, turn.user)
  <1>3. /\ screen'[turn.user][turn.message] = s
        /\ \A w \in Users, k \in Messages :
              (w # turn.user \/ k # turn.message) => screen'[w][k] = screen[w][k]
    BY <1>1, ShowsOne DEF Act, Held, TypeOK
  <1>4. CASE u = turn.user
    <2>1. t = turn.table /\ u \in AwaitingIn(turn.table)
      BY <1>1, <1>2, <1>4 DEF Decides, Mine, AwaitingIn
    <2>2. turn.op \in {"join", "pick", "refused"}
      BY <1>1, <1>4, <2>1, HeldOperation DEF AwaitingIn
    <2>3. screen'[u][turn.message] = ScreenFor(turn.table, u)
      BY <1>3, <1>4, <2>2
    <2>4. Stale(u, t) => turn.message # peek[u].message
      BY <1>1, <1>4, <2>1, <2>2 DEF StaleOf, Mine
    <2>5. ~(Stale(u, t)' /\ peek'[u].message = turn.message)
      BY <1>2, <2>4 DEF Stale, MayShow
    <2>6. t \in Tables /\ RowsFit(t)
      BY <1>1, <2>1, HeldOperation
    <2>7. QED
      BY <1>1, <2>1, <2>3, <2>5, <2>6, RenderedGoesOn
  <1>5. CASE u # turn.user
    <2>1. t = db /\ u \in AwaitingIn(db)
      BY <1>2, <1>5 DEF Decides, Mine, AwaitingIn
    <2>2. CanMove(u, t)
      BY <1>5, <2>1 DEF MovesKept, Mine
    <2>3. Stale(u, t)' => Stale(u, t)
      BY <1>2 DEF Stale, MayShow
    <2>4. undone'[u] = undone[u]
      BY <1>2, <1>5
    <2>5. \A m \in Messages : screen'[u][m] = screen[u][m]
      BY <1>3, <1>5
    <2>6. QED
      BY <1>2, <2>2, <2>3, <2>4, <2>5, ButtonsStay
  <1>6. QED
    BY <1>4, <1>5

LEMMA TellMoves ==
    ASSUME Held, MovesKept, Tell,
           NEW u \in Users, NEW t, t \in {db', next'}, Decides(u, t)'
    PROVE  CanMove(u, t)'
  <1>1. /\ turn.pc = "tell" /\ turn'.pc = "edit" /\ turn'.user = turn.user
        /\ next' = next /\ UNCHANGED <<db, peek, undone>>
    BY DEF Tell, Held, TypeOK, next
  <1>2. t \in {db, next} /\ Decides(u, t)
    BY <1>1 DEF Decides, Mine, AwaitingIn
  <1>3. CanMove(u, t)
    BY <1>2, MovesKeptIsDecided
  <1>4. QED
    BY <1>1, <1>3, TellFills, FilledKeepsMoves

LEMMA EditMoves ==
    ASSUME Held, StaleScreens, MovesKept, NEW v \in Users, NEW m \in Messages,
           Edit(v, m) \/ EditFails(v, m),
           NEW u \in Users, NEW t, t \in {db', next'}, Decides(u, t)'
    PROVE  CanMove(u, t)'
  <1>1. /\ turn.pc = "edit" /\ <<v, m>> \in turn.edits /\ next = turn.table
        /\ turn'.pc = "edit" /\ turn'.user = turn.user /\ next' = next
        /\ UNCHANGED <<db, peek>> /\ StaleOf(u) /\ undone \in [Users -> BOOLEAN]
        /\ screen \in [Users -> [Messages -> Screens]]
    BY DEF Edit, EditFails, Held, TypeOK, StaleScreens, next
  <1>2. t \in {db, next} /\ Decides(u, t)
    BY <1>1 DEF Decides, Mine, AwaitingIn
  <1>3. CanMove(u, t)
    BY <1>2, MovesKeptIsDecided
  <1>4. Stale(u, t)' => Stale(u, t)
    BY <1>1 DEF Stale, MayShow
  <1>5. CASE EditFails(v, m) \/ u # v
    <2>1. undone'[u] = undone[u] /\ \A k \in Messages : screen'[u][k] = screen[u][k]
      BY <1>1, <1>5 DEF Edit, EditFails, Shows
    <2>2. QED
      BY <1>1, <1>3, <1>4, <2>1, ButtonsStay
  <1>6. CASE Edit(v, m) /\ u = v
    <2>1. u # turn.user /\ u \in AwaitingIn(turn.table)
      BY <1>1, <1>6, HandlerFits
    <2>2. t = db /\ db.stage[u] = turn.table.stage[u]
      BY <1>1, <1>2, <2>1, HeldOperation DEF Decides, Mine
    <2>3. screen'[u][m] = ScreenFor(turn.table, u)
      BY <1>1, <1>6, ShowsOne DEF Edit
    <2>4. ~(Stale(u, next) /\ peek[u].message = m)
      BY <1>1, <1>6 DEF StaleOf
    <2>5. ~(Stale(u, t)' /\ peek'[u].message = m)
      BY <1>1, <1>4, <2>2, <2>4 DEF Stale, MayShow
    <2>6. turn.table \in Tables /\ RowsFit(turn.table)
      BY <1>1, HeldOperation
    <2>7. QED
      BY <2>1, <2>2, <2>3, <2>5, <2>6, RenderedGoesOn
  <1>7. QED
    BY <1>5, <1>6

LEMMA EndMoves ==
    ASSUME Held, MovesKept, Commit \/ Fail,
           NEW u \in Users, NEW t, t \in {db', next'}, Decides(u, t)'
    PROVE  CanMove(u, t)'
  <1>1. /\ turn.user \in Users /\ turn.pc # "free" /\ next = turn.table
        /\ turn'.pc = "free" /\ UNCHANGED <<screen, peek>>
        /\ undone \in [Users -> BOOLEAN]
    BY HandlerFits DEF Commit, Fail, NoTurn, Held, TypeOK
  <1>2. t = db' /\ u \in AwaitingIn(db)'
    BY <1>1 DEF Decides, Mine, AwaitingIn
  <1>3. Stale(u, t)' => Stale(u, t)
    BY <1>1 DEF Stale, MayShow
  <1>4. CASE Commit
    <2>1. t = turn.table /\ u \in AwaitingIn(turn.table) /\ undone' = undone
          /\ turn.pc = "edit"
      BY <1>2, <1>4 DEF Commit, AwaitingIn
    <2>2. CanMove(u, t)
      <3>1. CASE u = turn.user
        BY <2>1, <3>1 DEF MovesKept
      <3>2. CASE u # turn.user
        <4>1. db.stage[u] = turn.table.stage[u]
          BY <1>1, <3>2, HeldOperation
        <4>2. u \in AwaitingIn(db)
          BY <2>1, <4>1 DEF AwaitingIn
        <4>3. CanMove(u, db)
          BY <3>2, <4>2 DEF MovesKept, Mine
        <4>4. QED
          BY <2>1, <4>1, <4>3, MoveBySameStage
      <3>3. QED
        BY <3>1, <3>2
    <2>3. QED
      BY <1>1, <1>3, <2>1, <2>2, ButtonsStay
  <1>5. CASE Fail
    <2>1. /\ t = db /\ u \in AwaitingIn(db)
          /\ undone' = [undone EXCEPT ![turn.user] = @ \/ turn.pc # "act"]
      BY <1>2, <1>5 DEF Fail, AwaitingIn
    <2>2. CASE u = turn.user /\ turn.pc # "act"
      BY <1>1, <2>1, <2>2 DEF CanMove
    <2>3. CASE ~(u = turn.user /\ turn.pc # "act")
      <3>1. CanMove(u, t)
        BY <2>1, <2>3 DEF MovesKept, Mine
      <3>2. undone[u] => undone'[u]
        BY <1>1, <2>1
      <3>3. QED
        BY <1>1, <1>3, <3>1, <3>2, ButtonsStay
    <2>4. QED
      BY <2>2, <2>3
  <1>6. QED
    BY <1>4, <1>5

LEMMA PeekMoves ==
    ASSUME Held, MovesKept, NEW v \in Users,
           (\E m \in Messages : Peek(v, m)) \/ PeekShow(v) \/ PeekCommit(v),
           NEW u \in Users, NEW t, t \in {db', next'}, Decides(u, t)'
    PROVE  CanMove(u, t)'
  <1>1. /\ UNCHANGED <<db, turn>> /\ next' = next
        /\ peek \in [Users -> PeekStates]
        /\ screen \in [Users -> [Messages -> Screens]]
        /\ undone \in [Users -> BOOLEAN]
    BY DEF Peek, PeekShow, PeekCommit, Held, TypeOK, next
  <1>2. t \in {db, next} /\ Decides(u, t)
    BY <1>1 DEF Decides, Mine, AwaitingIn
  <1>3. CanMove(u, t)
    BY <1>2, MovesKeptIsDecided
  <1>4. CASE u # v
    <2>1. peek'[u] = peek[u] /\ undone'[u] = undone[u]
      BY <1>1, <1>4 DEF Peek, PeekShow, PeekCommit
    <2>2. \A m \in Messages : screen'[u][m] = screen[u][m]
      BY <1>1, <1>4 DEF Peek, PeekShow, PeekCommit, Shows
    <2>3. Stale(u, t)' => Stale(u, t)
      BY <2>1 DEF Stale, MayShow
    <2>4. QED
      BY <1>3, <2>1, <2>2, <2>3, ButtonsStay
  <1>5. ASSUME NEW m \in Messages, Peek(v, m), u = v
        PROVE  CanMove(u, t)'
    <2>1. UNCHANGED <<screen, undone>>
      BY <1>5 DEF Peek
    <2>2. /\ ~Stale(u, db)'
          /\ Mine(u) /\ turn.op \in {"join", "pick", "refused"} =>
                ~Stale(u, next)'
      BY <1>5, FreshPeek
    <2>3. CASE t = db
      <3>1. ~Stale(u, t)'
        BY <1>1, <2>2, <2>3 DEF Stale, MayShow
      <3>2. QED
        BY <1>3, <2>1, <3>1, ButtonsStay
    <2>4. CASE t # db
      <3>1. /\ t = next /\ Mine(u)
            /\ next.stage[u] \in {"JOINED", "NUMBERED"}
        BY <1>2, <2>4 DEF Decides, Mine, AwaitingIn
      <3>2. turn.op \in {"join", "pick", "refused"}
        BY <3>1, HeldOperation DEF next, Mine
      <3>3. ~Stale(u, t)'
        BY <1>1, <2>2, <3>1, <3>2 DEF Stale, MayShow
      <3>4. QED
        BY <1>3, <2>1, <3>3, ButtonsStay
    <2>5. QED
      BY <2>3, <2>4
  <1>6. CASE PeekCommit(v) /\ u = v
    <2>1. UNCHANGED <<screen, undone>> /\ ~Stale(u, t)'
      BY <1>1, <1>6 DEF PeekCommit, Stale, MayShow, NoPeek
    <2>2. QED
      BY <1>3, <2>1, ButtonsStay
  <1>7. CASE PeekShow(v) /\ u = v
    <2> DEFINE kind == peek[u].shows.kind
    <2>1. PICK m \in Messages :
              /\ m = peek[u].message /\ kind \in Rendered /\ peek[u].pc = "show"
              /\ Shows(u, m, peek[u].shows)
              /\ undone' = [undone EXCEPT ![u] = @ \/ kind = "absent"]
      BY <1>7 DEF PeekShow, Held, PeeksFit
    <2>2. ~Stale(u, t)'
      BY <1>1, <1>7 DEF PeekShow, Stale, MayShow
    <2>3. /\ screen'[u][m] = peek[u].shows
          /\ \A k \in Messages : k # m => screen'[u][k] = screen[u][k]
      BY <1>1, <2>1, ShowsOne
    <2>4. t.stage[u] \in {"JOINED", "NUMBERED"}
      BY <1>2 DEF Decides, AwaitingIn
    <2>5. CASE kind = "absent"
      BY <1>1, <2>1, <2>5 DEF CanMove
    <2>6. CASE \/ kind \in {"lobby", "notturn", "numbers"}
               \/ kind = "getrole" /\ t.stage[u] = "NUMBERED"
      <3>1. GoesOn(u, t, m)'
        BY <2>2, <2>3, <2>6 DEF GoesOn, HasRefresh, HasAssign
      <3>2. QED
        BY <2>1, <3>1 DEF CanMove
    <2>7. CASE \/ kind = "role"
               \/ kind = "getrole" /\ t.stage[u] # "NUMBERED"
      <3>1. Stale(u, t)
        BY <2>1, <2>4, <2>7 DEF Stale, MayShow
      <3>2. \A k \in Messages : GoesOn(u, t, k) => screen'[u][k] = screen[u][k]
        BY <2>1, <2>3, <3>1 DEF GoesOn
      <3>3. undone[u] => undone'[u]
        BY <1>1, <2>1
      <3>4. QED
        BY <1>3, <2>2, <3>2, <3>3, ButtonsStay
    <2>8. QED
      BY <2>1, <2>5, <2>6, <2>7 DEF Rendered
  <1>8. QED
    BY <1>4, <1>5, <1>6, <1>7

LEMMA ReadMoves ==
    ASSUME Held, MovesKept, NEW v \in Users, ReadsOn(v),
           NEW u \in Users, NEW t, t \in {db', next'}, Decides(u, t)'
    PROVE  CanMove(u, t)'
  <1>1. /\ UNCHANGED <<db, screen, turn, undone>> /\ next' = next
        /\ \A w \in Users \ {v} : peek'[w] = peek[w]
    BY ReadOn DEF next
  <1>2. t \in {db, next} /\ Decides(u, t)
    BY <1>1 DEF Decides, Mine, AwaitingIn
  <1>3. CanMove(u, t)
    BY <1>2, MovesKeptIsDecided
  <1>4. CASE u # v
    <2>1. peek'[u] = peek[u]
      BY <1>1, <1>4
    <2>2. Stale(u, t)' => Stale(u, t)
      BY <2>1 DEF Stale, MayShow
    <2>3. QED
      BY <1>1, <1>3, <2>1, <2>2, ButtonsStay
  <1>5. CASE /\ u = v /\ MayShow(u)' \subseteq MayShow(u)
             /\ MayShow(u)' # {} => peek'[u].message = peek[u].message
    <2>1. Stale(u, t)' => Stale(u, t) /\ peek'[u].message = peek[u].message
      BY <1>5 DEF Stale
    <2>2. QED
      BY <1>1, <1>3, <2>1, ButtonsStay
  <1>6. CASE /\ u = v /\ ~Stale(u, db)'
             /\ Mine(u) /\ turn.op \in {"join", "pick", "refused"} =>
                   ~Stale(u, next)'
    <2>1. ~Stale(u, t)'
      <3>1. CASE t = db
        BY <1>1, <1>6, <3>1 DEF Stale
      <3>2. CASE t # db
        <4>1. /\ t = next /\ Mine(u)
              /\ next.stage[u] \in {"JOINED", "NUMBERED"}
          BY <1>2, <3>2 DEF Decides, Mine, AwaitingIn
        <4>2. turn.op \in {"join", "pick", "refused"}
          BY <4>1, HeldOperation DEF next, Mine
        <4>3. QED
          BY <1>1, <1>6, <4>1, <4>2 DEF Stale
      <3>3. QED
        BY <3>1, <3>2
    <2>2. QED
      BY <1>1, <1>3, <2>1, ButtonsStay
  <1>7. QED
    BY <1>4, <1>5, <1>6, ReadIsFresh

LEMMA MovesStep ==
    ASSUME Held, StaleScreens, MovesKept, [Next]_vars
    PROVE  MovesKept'
  <1>1. ASSUME UNCHANGED vars
        PROVE  MovesKept'
    BY <1>1 DEF vars, MovesKept, CanMove, GoesOn, Stale, MayShow, Mine, AwaitingIn
  <1>2. ASSUME Step, ~UNCHANGED vars,
               NEW u \in Users, NEW t, t \in {db', next'}, Decides(u, t)'
        PROVE  CanMove(u, t)'
    BY <1>2, BegunMoves, ActMoves, TellMoves, EditMoves, EndMoves, PeekMoves,
       ReadMoves DEF Step
  <1>3. Step /\ turn'.pc \in {"free", "act", "tell", "edit"}
    BY HeldStep, Steps DEF Held, TypeOK
  <1>4. ASSUME ~UNCHANGED vars
        PROVE  MovesKept'
    <2>1. ASSUME NEW u \in AwaitingIn(db'), ~Mine(u)' \/ turn'.pc = "act"
          PROVE  CanMove(u, db)'
      <3>1. PICK t \in {db', next'} : t = db'
        OBVIOUS
      <3>2. u \in Users /\ Decides(u, t)'
        BY <2>1, <3>1 DEF Decides, Mine, AwaitingIn
      <3>3. CanMove(u, t)'
        BY <1>2, <1>3, <1>4, <3>2
      <3>4. QED
        BY <3>1, <3>3 DEF CanMove, GoesOn, Stale, MayShow
    <2>2. ASSUME turn'.pc \in {"tell", "edit"},
                 NEW u \in AwaitingIn(turn'.table), u = turn'.user
          PROVE  CanMove(u, turn.table)'
      <3>1. PICK t \in {db', next'} : t = turn'.table /\ t = next'
        BY <2>2 DEF next
      <3>2. u \in Users /\ Decides(u, t)'
        BY <2>2, <3>1 DEF Decides, Mine, AwaitingIn
      <3>3. CanMove(u, t)'
        BY <1>2, <1>3, <1>4, <3>2
      <3>4. QED
        BY <3>1, <3>3 DEF CanMove, GoesOn, Stale, MayShow
    <2>3. QED
      BY <2>1, <2>2 DEF MovesKept, Mine, AwaitingIn
  <1>5. QED
    BY <1>1, <1>4

\* Nobody who waits is left without a button that gets the deal on, whatever
\* edits fail and however late a refresh answers.
THEOREM WaitersCanGoOn == Spec => []NobodyIsStuck
  <1>1. Init => MovesKept
    BY DEF Init, MovesKept, EmptyTable, NoTurn, AwaitingIn
  <1>2. Held /\ StaleScreens /\ MovesKept /\ [Next]_vars => MovesKept'
    BY MovesStep
  <1>3. Held /\ StaleScreens /\ [Next]_vars => StaleScreens'
    BY StaleStep
  <1>4. MovesKept => NobodyIsStuck
    BY DEF MovesKept, NobodyIsStuck, Quiet, Mine, CanMove, GoesOn, HasMove
  <1>5. QED
    BY <1>1, <1>2, <1>3, <1>4, InitStale, HeldInvariant, PTL DEF Spec

-----------------------------------------------------------------------------
(* A role that was dealt stays on the screen.                              *)

HasRoleScreen(u) ==
    \/ excused[u] \/ undone[u]
    \/ \E m \in Messages : screen[u][m] = Screen("role", {db.role[u]})

\* Is u's refresh going to show u as one who waits?
ShowsWaiting(u) ==
    \/ peek[u].pc \in {"count", "turn", "numbers"}
    \/ peek[u].pc = "show" /\ peek[u].shows.kind \notin {"role", "absent"}

\* A refresh from before the draw finds no live message any more, and so waits
\* for a handler of the player's own, or notices that it came too late.
RoleKept(u) ==
    u \in DealtIn(db) =>
        /\ ShowsWaiting(u) => live[u] = 0
        /\ ~Mine(u) \/ turn.pc = "act" => HasRoleScreen(u)

RolesKept == \A u \in Users : RoleKept(u)

\* A player for whom the rows are the same, and the role is still shown.
LEMMA RoleStays ==
    ASSUME NEW u \in Users, RoleKept(u), db' = db, live'[u] = live[u],
           peek'[u] = peek[u],
           (~Mine(u) \/ turn.pc = "act")' => (~Mine(u) \/ turn.pc = "act"),
           excused[u] => excused'[u], undone[u] => undone'[u],
           \A m \in Messages : screen[u][m] = Screen("role", {db.role[u]}) =>
              screen'[u][m] = screen[u][m]
    PROVE  RoleKept(u)'
  BY DEF RoleKept, ShowsWaiting, HasRoleScreen, DealtIn

LEMMA HandlerRoles ==
    ASSUME Held, RolesKept, NEW u \in Users,
           \/ \E op \in Operations, v \in Users, m \in Messages, t \in Tables :
                 Begun(op, v, m, t)
           \/ Tell
    PROVE  RoleKept(u)'
  <1>1. Filled
    BY BegunFills, TellFills
  <1>2. /\ UNCHANGED <<db, live, peek, excused, undone>> /\ RoleKept(u)
        /\ (~Mine(u) \/ turn.pc = "act")' => (~Mine(u) \/ turn.pc = "act")
    <2>1. CASE Tell
      BY <2>1 DEF Tell, RolesKept, Mine, Held, TypeOK
    <2>2. QED
      BY <2>1 DEF Begun, RolesKept, Mine
  <1>3. \A m \in Messages : screen[u][m] = Screen("role", {db.role[u]}) =>
            screen'[u][m] = screen[u][m]
    BY <1>1, FilledStaySent DEF Unsent, Screen
  <1>4. QED
    BY <1>2, <1>3, RoleStays

LEMMA ActRoles ==
    ASSUME Held, RolesKept, Act, NEW u \in Users
    PROVE  RoleKept(u)'
  <1>1. /\ turn.user \in Users /\ turn.message \in Messages /\ turn.pc = "act"
        /\ turn'.pc = "tell" /\ turn'.user = turn.user
        /\ UNCHANGED <<db, live, peek, excused>> /\ RoleKept(u)
        /\ undone' = [undone EXCEPT ![turn.user] = FALSE]
        /\ undone \in [Users -> BOOLEAN]
        /\ screen \in [Users -> [Messages -> Screens]]
    BY HandlerFits DEF Act, Held, TypeOK, RolesKept
  <1>2. CASE u = turn.user
    BY <1>1, <1>2 DEF RoleKept, ShowsWaiting, DealtIn, Mine
  <1>3. CASE u # turn.user
    <2>1. undone'[u] = undone[u] /\ \A m \in Messages : screen'[u][m] = screen[u][m]
      BY <1>1, <1>3 DEF Act, Shows
    <2>2. QED
      BY <1>1, <1>3, <2>1, RoleStays DEF Mine
  <1>4. QED
    BY <1>2, <1>3

LEMMA EditRoles ==
    ASSUME Held, RolesKept, NEW v \in Users, NEW m \in Messages,
           Edit(v, m) \/ EditFails(v, m), NEW u \in Users
    PROVE  RoleKept(u)'
  <1>1. /\ turn.pc = "edit" /\ <<v, m>> \in turn.edits
        /\ turn'.pc = "edit" /\ turn'.user = turn.user
        /\ UNCHANGED <<db, live, peek>> /\ RoleKept(u)
        /\ undone \in [Users -> BOOLEAN] /\ excused \in [Users -> BOOLEAN]
        /\ screen \in [Users -> [Messages -> Screens]]
    BY DEF Edit, EditFails, Held, TypeOK, RolesKept
  <1>2. CASE u = v
    <2>1. u \in AwaitingIn(db)
      BY <1>1, <1>2, HandlerFits
    <2>2. u \notin DealtIn(db)
      BY <2>1 DEF AwaitingIn, DealtIn
    <2>3. QED
      BY <1>1, <2>2 DEF RoleKept, ShowsWaiting, DealtIn
  <1>3. CASE u # v
    <2>1. /\ undone'[u] = undone[u] /\ excused'[u] = excused[u]
          /\ \A k \in Messages : screen'[u][k] = screen[u][k]
      BY <1>1, <1>3 DEF Edit, EditFails, Shows
    <2>2. QED
      BY <1>1, <2>1, RoleStays DEF Mine
  <1>4. QED
    BY <1>2, <1>3

LEMMA CommitRoles ==
    ASSUME Held, RolesKept, Commit, NEW u \in Users
    PROVE  RoleKept(u)'
  <1>1. /\ turn.user \in Users /\ turn.message \in Messages /\ turn.pc = "edit"
        /\ db' = turn.table /\ turn'.pc = "free"
        /\ UNCHANGED <<screen, peek, undone>> /\ RoleKept(u)
        /\ excused \in [Users -> BOOLEAN] /\ live \in [Users -> 0..MaxMessages]
    BY HandlerFits DEF Commit, NoTurn, Held, TypeOK, RolesKept
  <1>2. SUFFICES ASSUME turn.table.stage[u] = "ASSIGNED"
                 PROVE  RoleKept(u)'
    BY <1>1 DEF RoleKept, ShowsWaiting, DealtIn
  <1>3. CASE u # turn.user
    <2>1. /\ db.stage[u] = "ASSIGNED" /\ db.role[u] = turn.table.role[u]
          /\ live'[u] = live[u] /\ excused'[u] = excused[u]
      BY <1>1, <1>2, <1>3, HeldOperation DEF Commit, Remembered
    <2>2. QED
      BY <1>1, <1>3, <2>1 DEF RoleKept, ShowsWaiting, HasRoleScreen, DealtIn, Mine
  <1>4. CASE u = turn.user
    <2>1. /\ turn.op \in {"assign", "refused"}
          /\ turn.op = "refused" => turn.table = db
      BY <1>1, <1>2, <1>4, HeldOperation
    <2>2. \/ live'[u] = 0
          \/ live'[u] = live[u] /\ db.stage[u] = "ASSIGNED"
      BY <1>1, <1>2, <1>4, <2>1 DEF Commit, Remembered
    <2>3. ScreenFor(turn.table, u) = Screen("role", {turn.table.role[u]})
      BY <1>1, <1>2, HeldOperation, ScreenSays
    <2>4. \/ excused'[u]
          \/ screen[u][turn.message] = ScreenFor(turn.table, u)
      BY <1>1, <1>4 DEF Commit
    <2>5. HasRoleScreen(u)'
      BY <1>1, <2>3, <2>4 DEF HasRoleScreen
    <2>6. QED
      BY <1>1, <2>2, <2>5 DEF RoleKept, ShowsWaiting, DealtIn
  <1>5. QED
    BY <1>3, <1>4

LEMMA FailRoles ==
    ASSUME Held, RolesKept, Fail, NEW u \in Users
    PROVE  RoleKept(u)'
  <1>1. /\ turn.user \in Users /\ turn.pc # "free" /\ turn'.pc = "free"
        /\ UNCHANGED <<db, live, screen, peek>> /\ RoleKept(u)
        /\ undone' = [undone EXCEPT ![turn.user] = @ \/ turn.pc # "act"]
        /\ undone \in [Users -> BOOLEAN]
        /\ excused[u] => excused'[u]
    BY HandlerFits DEF Fail, NoTurn, Held, TypeOK, RolesKept
  <1>2. undone[u] => undone'[u]
    BY <1>1
  <1>3. CASE u = turn.user /\ turn.pc # "act"
    BY <1>1, <1>3 DEF RoleKept, ShowsWaiting, HasRoleScreen, DealtIn
  <1>4. CASE ~(u = turn.user /\ turn.pc # "act")
    BY <1>1, <1>2, <1>4, RoleStays DEF Mine
  <1>5. QED
    BY <1>3, <1>4

LEMMA PeekRoles ==
    ASSUME Held, RolesKept, NEW v \in Users,
           (\E m \in Messages : Peek(v, m)) \/ PeekShow(v) \/ PeekCommit(v),
           NEW u \in Users
    PROVE  RoleKept(u)'
  <1>1. /\ UNCHANGED <<db, turn>> /\ next' = next /\ RoleKept(u)
        /\ db \in Tables /\ RowsFit(db)
        /\ peek \in [Users -> PeekStates]
        /\ screen \in [Users -> [Messages -> Screens]]
        /\ undone \in [Users -> BOOLEAN] /\ excused \in [Users -> BOOLEAN]
        /\ live \in [Users -> 0..MaxMessages]
    BY DEF Peek, PeekShow, PeekCommit, Held, TypeOK, RolesKept, next
  <1>2. CASE u # v
    <2>1. /\ peek'[u] = peek[u] /\ undone'[u] = undone[u]
          /\ excused'[u] = excused[u] /\ live'[u] = live[u]
      BY <1>1, <1>2 DEF Peek, PeekShow, PeekCommit
    <2>2. \A m \in Messages : screen'[u][m] = screen[u][m]
      BY <1>1, <1>2 DEF Peek, PeekShow, PeekCommit, Shows
    <2>3. QED
      BY <1>1, <2>1, <2>2, RoleStays DEF Mine
  <1>3. CASE u \notin DealtIn(db)
    BY <1>1, <1>3 DEF RoleKept, ShowsWaiting, DealtIn
  <1>4. ASSUME NEW m \in Messages, Peek(v, m), u = v, u \in DealtIn(db)
        PROVE  RoleKept(u)'
    <2>1. db.stage[u] = "ASSIGNED"
      BY <1>4 DEF DealtIn
    <2>2. peek'[u].pc = "role"
      BY <1>1, <1>4, <2>1 DEF Peek
    <2>3. QED
      BY <1>1, <1>4, <2>2 DEF Peek, RoleKept, ShowsWaiting, HasRoleScreen, DealtIn, Mine
  <1>5. CASE PeekCommit(v) /\ u = v
    <2>1. peek'[u].pc = "none" /\ UNCHANGED <<screen, undone>>
          /\ (excused[u] => excused'[u])
      BY <1>1, <1>5 DEF PeekCommit, NoPeek
    <2>2. QED
      BY <1>1, <2>1 DEF RoleKept, ShowsWaiting, HasRoleScreen, DealtIn, Mine
  <1>6. CASE PeekShow(v) /\ u = v /\ u \in DealtIn(db)
    <2> DEFINE kind == peek[u].shows.kind
    <2>1. PICK m \in Messages :
              /\ m = peek[u].message /\ kind \in Rendered /\ peek[u].pc = "show"
              /\ Shows(u, m, peek[u].shows)
              /\ undone' = [undone EXCEPT ![u] = @ \/ kind = "absent"]
              /\ excused' = [excused EXCEPT
                    ![u] = @ \/ peek[u].shows # ScreenFor(next, u)]
              /\ ~(Records(u) /\ turn.user = u /\ turn.op # "refused")
      BY <1>6 DEF PeekShow, Held, PeeksFit
    <2>2. peek'[u].pc = "commit"
      BY <1>1, <1>6 DEF PeekShow
    <2>3. screen'[u][m] = peek[u].shows
      BY <1>1, <2>1, ShowsOne
    <2>4. next \in Tables /\ RowsFit(next)
      BY HeldTable
    <2>5. CASE kind = "absent"
      BY <1>1, <2>1, <2>2, <2>5 DEF RoleKept, ShowsWaiting, HasRoleScreen, Mine
    <2>6. CASE peek[u].shows # ScreenFor(next, u)
      BY <1>1, <2>1, <2>2, <2>6 DEF RoleKept, ShowsWaiting, HasRoleScreen, Mine
    <2>7. CASE kind = "role" /\ peek[u].shows = ScreenFor(next, u)
      <3>1. next.stage[u] = "ASSIGNED" /\ peek[u].shows = Screen("role", {next.role[u]})
        BY <2>4, <2>7, ScreenSays
      <3>2. next.role[u] = db.role[u]
        <4>1. CASE ~Mine(u)
          BY <4>1, HeldTable
        <4>2. CASE Mine(u)
          <5>1. db.stage[u] = "ASSIGNED"
            BY <1>6 DEF DealtIn
          <5>2. turn.op = "refused"
            BY <3>1, <4>2, <5>1, HeldOperation DEF Mine, next
          <5>3. QED
            BY <5>2, HeldTable
        <4>3. QED
          BY <4>1, <4>2
      <3>3. HasRoleScreen(u)'
        BY <1>1, <2>1, <2>3, <3>1, <3>2 DEF HasRoleScreen
      <3>4. QED
        BY <2>2, <3>3 DEF RoleKept, ShowsWaiting
    <2>8. CASE kind \notin {"role", "absent"}
      <3>1. live[u] = 0
        BY <1>1, <1>6, <2>1, <2>8 DEF RoleKept, ShowsWaiting
      <3>2. Records(u)
        BY <2>1, <2>8, <3>1 DEF Records, Messages
      <3>3. ~Mine(u) \/ turn.op = "refused"
        BY <2>1, <3>2 DEF Mine
      <3>4. next.stage[u] = "ASSIGNED"
        BY <1>6, <3>3, HeldTable DEF DealtIn
      <3>5. ScreenFor(next, u).kind = "role"
        BY <2>4, <3>4, ScreenSays
      <3>6. QED
        BY <2>6, <2>8, <3>5
    <2>9. QED
      BY <2>5, <2>6, <2>7, <2>8
  <1>7. QED
    BY <1>2, <1>3, <1>4, <1>5, <1>6

LEMMA ReadRoles ==
    ASSUME Held, RolesKept, NEW v \in Users, ReadsOn(v), NEW u \in Users
    PROVE  RoleKept(u)'
  <1>1. /\ UNCHANGED <<db, live, screen, turn, excused, undone>> /\ RoleKept(u)
        /\ \A w \in Users \ {v} : peek'[w] = peek[w]
        /\ RowsFit(db)
    BY ReadOn DEF RolesKept, Held
  <1>2. CASE u # v
    BY <1>1, <1>2, RoleStays DEF Mine
  <1>3. CASE u \notin DealtIn(db)
    BY <1>1, <1>3 DEF RoleKept, DealtIn
  <1>4. CASE u = v /\ u \in DealtIn(db)
    <2>1. db.role[u] # NoRole
      BY <1>1, <1>4 DEF DealtIn, RowsFit, RowFits
    <2>2. ShowsWaiting(u)' => ShowsWaiting(u)
      BY <1>4, <2>1, ReadOn DEF ShowsWaiting, NoPeek
    <2>3. QED
      BY <1>1, <2>2 DEF RoleKept, HasRoleScreen, DealtIn, Mine
  <1>5. QED
    BY <1>2, <1>3, <1>4

LEMMA RolesStep ==
    ASSUME Held, RolesKept, [Next]_vars
    PROVE  RolesKept'
  <1> SUFFICES ASSUME NEW u \in Users PROVE RoleKept(u)'
    BY DEF RolesKept
  <1>1. ASSUME UNCHANGED vars
        PROVE  RoleKept(u)'
    BY <1>1, RoleStays DEF vars, RolesKept, Mine
  <1>2. QED
    BY <1>1, Steps, HandlerRoles, ActRoles, EditRoles, CommitRoles, FailRoles, PeekRoles,
     ReadRoles DEF Step

\* Every player who has a role has it on the screen, unless a refresh of the
\* player's own overtook it or a leave was rolled back after it had been shown.
THEOREM DealtSeeTheirRole == Spec => []RoleStaysOnScreen
  <1>1. Init => RolesKept
    BY DEF Init, RolesKept, RoleKept, ShowsWaiting, EmptyTable, DealtIn
  <1>2. Held /\ RolesKept /\ [Next]_vars => RolesKept'
    BY RolesStep
  <1>3. RolesKept => RoleStaysOnScreen
    BY DEF RolesKept, RoleKept, ShowsWaiting, HasRoleScreen, RoleStaysOnScreen,
           Quiet, Mine, DealtIn
  <1>4. QED
    BY <1>1, <1>2, <1>3, HeldInvariant, PTL DEF Spec

-----------------------------------------------------------------------------
(* The rows change as the lobby's operations change them.                  *)

\* Where somebody waits, or a seat is free, the table is not READY.
LEMMA OpenTable ==
    ASSUME NEW t \in Tables, RowsFit(t),
           AwaitingIn(t) # {} \/ Cardinality(ActiveIn(t)) < PlayerCount
    PROVE  ~IsReady(t)
  <1>1. PlayerCount \in Nat
    BY BoundsAreNat
  <1>2. QED
    BY <1>1, TableIsFinite DEF IsReady, RowsFit

LEMMA LobbyCounts ==
    ASSUME NEW S
    PROVE  TheLobby!Cardinality(S) = Cardinality(S)
  BY DEF TheLobby!Cardinality, Cardinality

\* The lobby's names for what the table says.
LEMMA LobbyReads ==
    /\ TheLobby!Active = ActiveIn(db) /\ TheLobby!Assigned = DealtIn(db)
    /\ TheLobby!Active' = ActiveIn(db') /\ TheLobby!Assigned' = DealtIn(db')
    /\ TheLobby!HasRoom <=> Cardinality(ActiveIn(db)) < PlayerCount
    /\ TheLobby!LobbyComplete <=> Complete(db)
  BY LobbyCounts
  DEF TheLobby!Active, TheLobby!Assigned, TheLobby!ActiveStatuses, ActiveIn, DealtIn,
      TheLobby!HasRoom, TheLobby!LobbyComplete, Complete

LEMMA InTurnMayAct ==
    ASSUME Held, NEW u \in Users, CurrentTurn(db) = u
    PROVE  /\ TheLobby!MayActNow(u) /\ u \in ActiveIn(db) /\ ~IsReady(db)
           /\ Cardinality(ActiveIn(db)) = PlayerCount
  <1>1. /\ db \in Tables /\ RowsFit(db) /\ PlayerCount \in Nat
        /\ db.order \in [Users -> 0..MaxJoinOrder]
    BY BoundsAreNat DEF Held, TypeOK, Tables
  <1>2. /\ Complete(db) /\ u \in AwaitingIn(db)
        /\ \A v \in AwaitingIn(db) : db.order[u] <= db.order[v]
    BY <1>1, UserInTurn
  <1>3. TheLobby!AwaitingTurn = AwaitingIn(db)
    BY <1>1 DEF TheLobby!AwaitingTurn, AwaitingIn, RowsFit, RowFits
  <1>4. TheLobby!MayActNow(u)
    BY <1>2, <1>3, LobbyReads DEF TheLobby!MayActNow, TheLobby!IsTurnOf
  <1>5. ~IsReady(db)
    BY <1>1, <1>2, OpenTable
  <1>6. Cardinality(ActiveIn(db)) = PlayerCount
    BY <1>1, <1>2, TableIsFinite DEF Complete, RowsFit
  <1>7. QED
    BY <1>2, <1>4, <1>5, <1>6 DEF AwaitingIn, ActiveIn

LEMMA JoinIsLobbys ==
    ASSUME Held, NEW u \in Users, Follows(db, "join", u, db')
    PROVE  TheLobby!JoinGame(u)
  <1>1. PICK k \in 1..MaxJoinOrder :
            /\ \A v \in Users : db.order[v] < k
            /\ k = 1 \/ \E v \in Users : db.order[v] = k - 1
            /\ db' = Joined(db, u, k)
    BY DEF Follows
  <1>2. u \notin ActiveIn(db) /\ ~Complete(db)
    BY DEF Follows
  <1>3. /\ db \in Tables /\ RowsFit(db) /\ db.order \in [Users -> 0..MaxJoinOrder]
        /\ MaxJoinOrder \in Nat /\ PlayerCount \in Nat
    BY BoundsAreNat DEF Held, TypeOK, Tables
  <1>4. /\ db' \in Tables
        /\ db'.stage = [db.stage EXCEPT ![u] = "JOINED"]
        /\ db'.number = [db.number EXCEPT ![u] = 0]
        /\ db'.order = [db.order EXCEPT ![u] = k] /\ db'.role = db.role
    BY <1>1, <1>3, OperationsType DEF Joined, Tables
  <1>5. Cardinality(ActiveIn(db)) < PlayerCount
    BY <1>2, <1>3, TableIsFinite DEF Complete
  <1>6. ~IsReady(db)
    BY <1>3, <1>5, OpenTable
  <1>7. DealtIn(db') = DealtIn(db) /\ PoolIn(db') = PoolIn(db)
    BY <1>2, <1>3, <1>4 DEF DealtIn, PoolIn, ActiveIn, Tables
  <1>8. ~IsReady(db')
    BY <1>6, <1>7 DEF IsReady
  <1>9. TheLobby!IsNextJoinOrder(k)
    BY <1>1, <1>3 DEF TheLobby!IsNextJoinOrder
  <1>10. QED
    BY <1>1, <1>2, <1>4, <1>5, <1>6, <1>7, <1>8, <1>9, LobbyReads DEF TheLobby!JoinGame

LEMMA PickIsLobbys ==
    ASSUME Held, NEW u \in Users, Follows(db, "pick", u, db')
    PROVE  \E n \in TheLobby!Seats : TheLobby!ChooseNumber(u, n)
  <1>1. PICK n \in FreeIn(db) : db' = Numbered(db, u, n)
    BY DEF Follows
  <1>2. CurrentTurn(db) = u /\ db.number[u] = 0
    BY DEF Follows
  <1>3. /\ db \in Tables /\ RowsFit(db) /\ PlayerCount \in Nat
        /\ n \in Seats /\ n # 0 /\ \A v \in ActiveIn(db) : db.number[v] # n
    BY BoundsAreNat DEF Held, TypeOK, FreeIn, Seats
  <1>4. /\ db' \in Tables
        /\ db'.stage = [db.stage EXCEPT ![u] = "NUMBERED"]
        /\ db'.number = [db.number EXCEPT ![u] = n]
        /\ db'.order = db.order /\ db'.role = db.role
    BY <1>1, <1>3, OperationsType DEF Numbered, Tables
  <1>5. /\ TheLobby!MayActNow(u) /\ u \in ActiveIn(db) /\ ~IsReady(db)
        /\ u \in AwaitingIn(db)
    BY <1>2, <1>3, InTurnMayAct, UserInTurn
  <1>6. DealtIn(db') = DealtIn(db) /\ PoolIn(db') = PoolIn(db)
    BY <1>3, <1>4, <1>5 DEF DealtIn, PoolIn, AwaitingIn, Tables
  <1>7. ~IsReady(db')
    BY <1>5, <1>6 DEF IsReady
  <1>8. \A v \in Users : db.number[v] # n
    BY <1>3 DEF RowsFit, RowFits, ActiveIn
  <1>9. n \in TheLobby!FreeNumbers /\ TheLobby!SeatInsertable(n) /\ n \in TheLobby!Seats
    BY <1>3, <1>8, LobbyReads
    DEF TheLobby!FreeNumbers, TheLobby!TakenNumbers, TheLobby!SeatInsertable,
        TheLobby!Seats, Seats, ActiveIn
  <1>10. TheLobby!ChooseNumber(u, n)
    BY <1>2, <1>4, <1>5, <1>6, <1>7, <1>9, LobbyReads
    DEF TheLobby!ChooseNumber, TheLobby!TakeSeat
  <1>11. QED
    BY <1>9, <1>10

LEMMA AssignIsLobbys ==
    ASSUME Held, NEW u \in Users, Follows(db, "assign", u, db')
    PROVE  \E r \in Roles : TheLobby!AssignRole(u, r)
  <1>1. PICK r \in PoolIn(db) : db' = Drawn(db, u, r)
    BY DEF Follows
  <1>2. CurrentTurn(db) = u /\ db.number[u] # 0
    BY DEF Follows
  <1>3. /\ db \in Tables /\ RowsFit(db) /\ r \in Roles
        /\ db.role \in [Users -> Roles \cup {NoRole}]
        /\ \A v \in Users : db.role[v] # r
    BY DEF Held, TypeOK, PoolIn, Tables
  <1>4. /\ db' \in Tables
        /\ db'.stage = [db.stage EXCEPT ![u] = "ASSIGNED"]
        /\ db'.role = [db.role EXCEPT ![u] = r]
        /\ db'.number = db.number /\ db'.order = db.order
    BY <1>1, <1>3, OperationsType DEF Drawn, Tables
  <1>5. /\ TheLobby!MayActNow(u) /\ u \in ActiveIn(db) /\ ~IsReady(db)
        /\ u \in AwaitingIn(db) /\ Cardinality(ActiveIn(db)) = PlayerCount
    BY <1>2, <1>3, InTurnMayAct, UserInTurn
  <1>6. db.role[u] = NoRole
    BY <1>3, <1>5 DEF RowsFit, RowFits, AwaitingIn
  <1>7. PoolIn(db') = PoolIn(db) \ {r}
    BY <1>3, <1>4, <1>6, NobodyIsNoUser DEF PoolIn
  <1>8. ActiveIn(db') = ActiveIn(db)
    BY <1>3, <1>4, <1>5 DEF ActiveIn, Tables
  <1>9. TheLobby!DrawRole(u, r)
    <2> DEFINE Left(S) == [q \in Roles |-> IF q \in S THEN 1 ELSE 0]
    <2>1. Left(PoolIn(db)) \in [Roles -> {0, 1}] /\ Left(PoolIn(db))[r] = 1
      BY <1>3
    <2>2. Left(PoolIn(db)) [r] - 1 = 0
      BY <2>1
    <2>3. Left(PoolIn(db) \ {r}) = [Left(PoolIn(db)) EXCEPT ![r] = @ - 1]
      BY <1>3, <2>2
    <2>4. [q \in Roles |-> IF q \in PoolIn(db) THEN 1 ELSE 0]' = Left(PoolIn(db) \ {r})
      BY <1>7
    <2>5. QED
      BY <1>4, <1>6, <2>1, <2>3, <2>4 DEF TheLobby!DrawRole
  <1>10. TheLobby!MarkReadyIfDealt
    BY <1>5, <1>8, LobbyReads, LobbyCounts DEF TheLobby!MarkReadyIfDealt, IsReady
  <1>11. QED
    BY <1>2, <1>3, <1>4, <1>5, <1>9, <1>10, LobbyReads
    DEF TheLobby!AssignRole, TheLobby!TakeRole

LEMMA LeaveIsLobbys ==
    ASSUME Held, NEW u \in Users, Follows(db, "leave", u, db')
    PROVE  TheLobby!LeaveGame(u)
  <1>1. db' = Departed(db, u) /\ u \in ActiveIn(db)
    BY DEF Follows
  <1>2. /\ db \in Tables /\ RowsFit(db) /\ PlayerCount \in Nat
        /\ db.role \in [Users -> Roles \cup {NoRole}]
    BY BoundsAreNat DEF Held, TypeOK, Tables
  <1>3. /\ db' \in Tables
        /\ db'.stage = [db.stage EXCEPT ![u] = "LEFT"]
        /\ db'.number = [db.number EXCEPT ![u] = 0]
        /\ db'.order = [db.order EXCEPT ![u] = 0]
        /\ db'.role = [db.role EXCEPT ![u] = NoRole]
    BY <1>1, <1>2, OperationsType DEF Departed, Tables
  <1>4. ~IsReady(db')
    <2>1. ActiveIn(db') = ActiveIn(db) \ {u}
      BY <1>2, <1>3 DEF ActiveIn, Tables
    <2>2. /\ Cardinality(ActiveIn(db')) = Cardinality(ActiveIn(db)) - 1
          /\ Cardinality(ActiveIn(db)) \in Nat
          /\ Cardinality(ActiveIn(db)) <= PlayerCount
      BY <1>1, <1>2, <2>1, TableIsFinite, FS_RemoveElement DEF RowsFit
    <2>3. /\ Cardinality(DealtIn(db')) <= Cardinality(ActiveIn(db'))
          /\ Cardinality(DealtIn(db')) \in Nat
      BY <1>3, TableIsFinite
    <2>4. QED
      BY <1>2, <2>2, <2>3 DEF IsReady
  <1>5. PoolIn(db') = PoolIn(db) \cup ({db.role[u]} \ {NoRole})
    <2>1. \A v \in Users : v # u /\ db.role[u] # NoRole => db.role[v] # db.role[u]
      BY <1>2 DEF RowsFit
    <2>2. \A r \in Roles : r # NoRole
      BY NobodyIsNoUser
    <2>3. QED
      BY <1>2, <1>3, <2>1, <2>2 DEF PoolIn
  <1>6. db.role[u] \notin PoolIn(db)
    BY DEF PoolIn
  <1>7. TheLobby!ReturnRole(u)
    BY <1>2, <1>3, <1>5, <1>6 DEF TheLobby!ReturnRole
  <1>8. TheLobby!FreeSeat(u) /\ TheLobby!ReopenLobby
    BY <1>3, <1>4 DEF TheLobby!FreeSeat, TheLobby!ReopenLobby
  <1>9. QED
    BY <1>1, <1>7, <1>8, LobbyReads DEF TheLobby!LeaveGame

LEMMA RowsStep ==
    ASSUME Held, [Next]_vars
    PROVE  [TheLobby!LobbyNext]_db
  <1>1. CASE Commit
    <2>1. /\ turn.user \in Users /\ db' = turn.table
          /\ Follows(db, turn.op, turn.user, db')
      BY <1>1, HandlerFits DEF Commit
    <2>2. turn.op \in {"join", "pick", "refused", "assign", "leave"}
      BY <1>1, HeldOperation DEF Commit
    <2>3. CASE turn.op = "refused"
      BY <2>1, <2>3 DEF Follows
    <2>4. CASE turn.op \in {"join", "pick", "assign", "leave"}
      BY <2>1, <2>4, JoinIsLobbys, PickIsLobbys, AssignIsLobbys, LeaveIsLobbys
      DEF TheLobby!LobbyNext
    <2>5. QED
      BY <2>2, <2>3, <2>4
  <1>2. CASE ~Commit
    <2>1. Step
      BY Steps
    <2>2. UNCHANGED db
      BY <1>2, <2>1, ReadOn DEF Step, Begun, Act, Tell, Edit, EditFails, Fail, Peek,
                                PeekShow, PeekCommit, vars
    <2>3. QED
      BY <2>2
  <1>3. QED
    BY <1>1, <1>2

\* What the players are shown before a commit, and whatever is rolled back, the
\* committed rows go from one lobby operation to the next.
THEOREM ScreensKeepTheLobby == Spec => ImplementsLobby
  <1>1. QED
    BY HeldInvariant, RowsStep, PTL DEF Spec, ImplementsLobby

-----------------------------------------------------------------------------
(* What LobbyProofs shows of the lobby is true of the rows under the       *)
(* screens: they start as a configured game's, and go on as RowsStep says. *)

Rows ==
    INSTANCE LobbyProofs WITH
        status <- IF IsReady(db) THEN "READY" ELSE "WAITING_PLAYERS",
        quantity <- [r \in Roles |-> 1],
        remaining <- [r \in Roles |-> IF r \in PoolIn(db) THEN 1 ELSE 0],
        playerStatus <- db.stage, number <- db.number,
        joinOrder <- db.order, role <- db.role,
        tx <- <<>>, Sessions <- {}, Selections <- {}

\* The assumptions of the lobby's modules, for these constants.
LEMMA RowsAssumptions ==
    /\ Rows!IsFiniteSet(Users) /\ NoRole \notin Roles
    /\ PlayerCount \in Nat \ {0} /\ MaxJoinOrder \in Nat
    /\ {} \subseteq [Roles -> Nat]
  BY UsersFinite, NobodyIsNoUser, PlayerCountPositive, BoundsAreNat
  DEF Rows!IsFiniteSet, IsFiniteSet

\* The steps the screens are shown to take are steps of the proved lobby.
LEMMA RowsAreTheLobbys ==
    ASSUME [TheLobby!LobbyNext]_db
    PROVE  [Rows!Next]_Rows!vars
  <1>1. CASE UNCHANGED db
    BY <1>1 DEF Rows!vars, Rows!lifecycleVars, Rows!gameRows, IsReady, DealtIn, PoolIn
  <1>2. CASE TheLobby!LobbyNext
    <2> USE DEF TheLobby!Active, Rows!Active, TheLobby!ActiveStatuses, Rows!ActiveStatuses,
                TheLobby!Cardinality, Rows!Cardinality
    <2>1. ASSUME NEW u \in Users, TheLobby!JoinGame(u)
          PROVE  Rows!JoinGame(u)
      BY <2>1 DEF TheLobby!JoinGame, Rows!JoinGame, TheLobby!HasRoom, Rows!HasRoom,
                  TheLobby!IsNextJoinOrder, Rows!IsNextJoinOrder
    <2>2. ASSUME NEW u \in Users, TheLobby!MayActNow(u)
          PROVE  Rows!MayActNow(u)
      BY <2>2 DEF TheLobby!MayActNow, Rows!MayActNow, TheLobby!IsTurnOf, Rows!IsTurnOf,
                  TheLobby!AwaitingTurn, Rows!AwaitingTurn,
                  TheLobby!LobbyComplete, Rows!LobbyComplete
    <2>3. ASSUME NEW u \in Users, NEW n \in TheLobby!Seats, TheLobby!ChooseNumber(u, n)
          PROVE  n \in Rows!Seats /\ Rows!ChooseNumber(u, n)
      BY <2>2, <2>3
      DEF TheLobby!ChooseNumber, Rows!ChooseNumber, TheLobby!TakeSeat, Rows!TakeSeat,
          TheLobby!FreeNumbers, Rows!FreeNumbers,
          TheLobby!TakenNumbers, Rows!TakenNumbers, TheLobby!Seats, Rows!Seats,
          TheLobby!SeatInsertable, Rows!SeatInsertable
    <2>4. ASSUME NEW u \in Users, NEW r \in Roles, TheLobby!AssignRole(u, r)
          PROVE  Rows!AssignRole(u, r)
      BY <2>2, <2>4
      DEF TheLobby!AssignRole, Rows!AssignRole, TheLobby!TakeRole, Rows!TakeRole,
          TheLobby!DrawRole, Rows!DrawRole,
          TheLobby!MarkReadyIfDealt, Rows!MarkReadyIfDealt,
          TheLobby!Assigned, Rows!Assigned
    <2>5. ASSUME NEW u \in Users, TheLobby!LeaveGame(u)
          PROVE  Rows!LeaveGame(u)
      BY <2>5 DEF TheLobby!LeaveGame, Rows!LeaveGame, TheLobby!ReturnRole, Rows!ReturnRole,
                  TheLobby!FreeSeat, Rows!FreeSeat, TheLobby!ReopenLobby, Rows!ReopenLobby
    <2>6. QED
      BY <1>2, <2>1, <2>3, <2>4, <2>5 DEF TheLobby!LobbyNext, Rows!LobbyNext, Rows!Next
  <1>3. QED
    BY <1>1, <1>2

\* The empty table is a lobby with all its slots in the pool.
LEMMA InitRows == Init => Rows!IInv
  <1> SUFFICES ASSUME Init PROVE Rows!IInv
    OBVIOUS
  <1>1. /\ db = EmptyTable /\ ActiveIn(db) = {} /\ DealtIn(db) = {}
        /\ PoolIn(db) = Roles /\ ~IsReady(db)
    BY FS_EmptySet, NobodyIsNoUser, PlayerCountPositive
    DEF Init, EmptyTable, ActiveIn, DealtIn, PoolIn, IsReady
  <1>2. Rows!Active = {}
    BY <1>1 DEF Rows!Active, Rows!ActiveStatuses, ActiveIn
  <1>3. Rows!TypeOK
    BY <1>1, RowsAssumptions
    DEF EmptyTable, Rows!TypeOK, Rows!RowsTypeOK, Rows!TxTypeOK, Rows!GameStatus,
        Rows!PlayerStatus, Rows!ActiveStatuses
  <1>4. \A r \in Roles : Rows!Holders(r) = {}
    BY <1>1, NobodyIsNoUser DEF EmptyTable, Rows!Holders
  <1>5. Rows!Cardinality({}) = 0
    BY FS_EmptySet DEF Rows!Cardinality, Cardinality
  <1>6. Rows!RoleConservation
    BY <1>1, <1>4, <1>5 DEF Rows!RoleConservation
  <1>7. Rows!NeverOverfull
    BY <1>2, <1>5, RowsAssumptions DEF Rows!NeverOverfull
  <1>8. QED
    BY <1>1, <1>2, <1>3, <1>6, <1>7
    DEF EmptyTable, Rows!IInv, Rows!RoleIffAssigned, Rows!DepartedHoldNothing,
        Rows!DealtInJoinOrder, Rows!QueueIsStrict, Rows!ReadyMeansDealt, Rows!DeletedIsEmpty

\* However the handlers, the refreshes and their failures interleave, the rows
\* under the screens keep every invariant of the lobby: dealt in join order from a
\* strict queue, READY over a complete deal only, slots and hands adding up.  The
\* handlers do nothing to the rows but LobbyService's operations, of which
\* LobbyProofs proves them.
THEOREM RowsKeepTheLobby == Spec => []Rows!IInv
  <1>1. Rows!IInv /\ [Rows!Next]_Rows!vars => Rows!IInv'
    BY RowsAssumptions, Rows!NextIInv
  <1>2. Held /\ Rows!IInv /\ [Next]_vars => Rows!IInv'
    BY <1>1, RowsStep, RowsAreTheLobbys
  <1>3. QED
    BY <1>2, InitRows, HeldInvariant, PTL DEF Spec

=============================================================================
