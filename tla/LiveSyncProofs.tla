--------------------------- MODULE LiveSyncProofs ---------------------------
(***************************************************************************)
(* Proofs about LiveSync, for any number of pages, of requests in flight   *)
(* and of failures: a screen that has fallen behind for good has one of    *)
(* the five reasons, and every entry of a page to the table keeps one      *)
(* connection, or one timer that opens it.                                 *)
(***************************************************************************)
EXTENDS LiveSync, TLAPS

\* The types, without the bounds on what has happened so far.
AnyTable == [doc : Nat, roster : Nat]
View == [table : AnyTable, via : {"rest", "socket"}, age : {"fresh", "late"}]
Frame == {"table", "invalidate"}
Places == {"none", "opening", "greeted", "joined"}

SourceShape ==
    /\ doc \in Nat /\ roster \in Nat /\ written \in Nat
    /\ writer \in [Writers -> {"idle", "saved", "announced"}]
    /\ clock \in [write : Nat, pc : {"sleep", "read", "expired", "saved"}]

HubShape ==
    /\ channel \in Nat
    /\ listening \in BOOLEAN
    /\ targets \subseteq Viewers

PageShape ==
    /\ socket \in [Viewers -> Places]
    /\ frames \in [Viewers -> Seq(Frame)]
    /\ reopens \in [Viewers -> Nat]
    /\ entered \in [Viewers -> Nat]

ScreenShape ==
    /\ fetches \in [Viewers -> Nat]
    /\ views \in [Viewers -> Seq(View)]
    /\ shown \in [Viewers -> AnyTable]
    /\ excused \subseteq Viewers

Shape == SourceShape /\ HubShape /\ PageShape /\ ScreenShape

-----------------------------------------------------------------------------
(* The tables on their way to a page. *)

\* Late tables come before the others.
InOrder(s) ==
    \A i, j \in 1..Len(s) : i < j /\ s[j].age = "late" => s[i].age = "late"

LEMMA WithoutShape ==
    ASSUME NEW s \in Seq(View), NEW i \in 1..Len(s)
    PROVE  /\ Without(s, i) \in Seq(View)
           /\ Len(Without(s, i)) = Len(s) - 1
           /\ \A j \in 1..Len(s) - 1 :
                 Without(s, i)[j] = IF j < i THEN s[j] ELSE s[j + 1]
    BY DEF Without

LEMMA OutdatedShape ==
    ASSUME NEW s \in Seq(View), NEW i \in Nat
    PROVE  /\ Outdated(s, i) \in Seq(View)
           /\ Len(Outdated(s, i)) = Len(s)
           /\ \A j \in 1..Len(s) :
                 /\ Outdated(s, i)[j].table = s[j].table
                 /\ j < i => Outdated(s, i)[j].age = "late"
                 /\ j >= i => Outdated(s, i)[j] = s[j]
<1> DEFINE t == Outdated(s, i)
<1>1. ASSUME NEW j \in 1..Len(s)
      PROVE  /\ t[j] \in View /\ t[j].table = s[j].table
             /\ j < i => t[j].age = "late"
             /\ j >= i => t[j] = s[j]
  <2>1. s[j] \in View
    OBVIOUS
  <2>2. \A x \in View : /\ [x EXCEPT !.age = "late"] \in View
                        /\ [x EXCEPT !.age = "late"].table = x.table
                        /\ [x EXCEPT !.age = "late"].age = "late"
    BY DEF View
  <2>3. t[j] = IF j < i THEN [s[j] EXCEPT !.age = "late"] ELSE s[j]
    BY DEF Outdated
  <2>4. QED
    BY <2>1, <2>2, <2>3
<1>2. Len(t) = Len(s) /\ t = [j \in 1..Len(s) |-> t[j]]
  BY DEF Outdated
<1>3. t \in Seq(View)
  BY <1>1, <1>2
<1>4. QED
  BY <1>1, <1>2, <1>3

LEMMA UnsentShape ==
    ASSUME NEW s \in Seq(View)
    PROVE  /\ Unsent(s) \in Seq(View)
           /\ Len(Unsent(s)) <= Len(s)
           /\ Unsent(s) = s \/ \E i \in 1..Len(s) : Unsent(s) = Without(s, i)
<1>1. CASE \E i \in 1..Len(s) : s[i].via = "socket"
  <2> DEFINE k == CHOOSE i \in 1..Len(s) : s[i].via = "socket"
  <2>1. k \in 1..Len(s)
    BY <1>1
  <2>2. Unsent(s) = Without(s, k)
    BY <1>1 DEF Unsent
  <2>3. Without(s, k) \in Seq(View) /\ Len(Without(s, k)) = Len(s) - 1
    BY <2>1, WithoutShape
  <2>4. /\ Unsent(s) \in Seq(View)
        /\ Len(Unsent(s)) = Len(s) - 1 /\ Len(s) - 1 <= Len(s)
    <3>1. Len(s) \in Nat
      OBVIOUS
    <3> HIDE DEF k
    <3>2. QED
      BY <2>2, <2>3, <3>1
  <2>5. \E i \in 1..Len(s) : Unsent(s) = Without(s, i)
    BY <2>1, <2>2
  <2> HIDE DEF k
  <2>6. QED
    BY <2>4, <2>5
<1>2. CASE ~ \E i \in 1..Len(s) : s[i].via = "socket"
  BY <1>2 DEF Unsent
<1>3. QED
  BY <1>1, <1>2

LEMMA WithoutInOrder ==
    ASSUME NEW s \in Seq(View), InOrder(s), NEW i \in 1..Len(s)
    PROVE  InOrder(Without(s, i))
<1> DEFINE t == Without(s, i)
<1>1. ASSUME NEW j \in 1..Len(s) - 1, NEW k \in 1..Len(s) - 1, j < k, t[k].age = "late"
      PROVE  t[j].age = "late"
  <2>1. PICK a \in 1..Len(s), b \in 1..Len(s) : a < b /\ t[j] = s[a] /\ t[k] = s[b]
    <3>1. /\ t[j] = IF j < i THEN s[j] ELSE s[j + 1]
          /\ t[k] = IF k < i THEN s[k] ELSE s[k + 1]
      BY WithoutShape
    <3>2. /\ j \in 1..Len(s) /\ j + 1 \in 1..Len(s)
          /\ k \in 1..Len(s) /\ k + 1 \in 1..Len(s)
      OBVIOUS
    <3>3. CASE k < i
      BY <1>1, <3>1, <3>2, <3>3
    <3>4. CASE j < i /\ k >= i
      <4>1. j < k + 1 /\ t[j] = s[j] /\ t[k] = s[k + 1]
        BY <1>1, <3>1, <3>4
      <4>2. QED
        BY <3>2, <4>1
    <3>5. CASE j >= i
      <4>1. j + 1 < k + 1 /\ t[j] = s[j + 1] /\ t[k] = s[k + 1]
        BY <1>1, <3>1, <3>5
      <4>2. QED
        BY <3>2, <4>1
    <3>6. QED
      BY <1>1, <3>3, <3>4, <3>5
  <2>2. QED
    BY <1>1, <2>1 DEF InOrder
<1>2. Len(t) = Len(s) - 1
  BY WithoutShape
<1>3. QED
  BY <1>1, <1>2 DEF InOrder

LEMMA OutdatedInOrder ==
    ASSUME NEW s \in Seq(View), InOrder(s), NEW i \in Nat
    PROVE  InOrder(Outdated(s, i))
<1> DEFINE t == Outdated(s, i)
<1>1. ASSUME NEW j \in 1..Len(s), NEW k \in 1..Len(s), j < k, t[k].age = "late"
      PROVE  t[j].age = "late"
  <2>1. CASE j < i
    BY <2>1, OutdatedShape
  <2>2. CASE j >= i
    BY <1>1, <2>2, OutdatedShape DEF InOrder
  <2>3. QED
    BY <1>1, <2>1, <2>2
<1>2. Len(t) = Len(s)
  BY OutdatedShape
<1>3. QED
  BY <1>1, <1>2 DEF InOrder

LEMMA AppendInOrder ==
    ASSUME NEW s \in Seq(View), InOrder(s), NEW x \in View, x.age = "fresh"
    PROVE  /\ Append(s, x) \in Seq(View)
           /\ InOrder(Append(s, x))
           /\ Len(Append(s, x)) = Len(s) + 1 /\ Append(s, x)[Len(s) + 1] = x
<1>1. /\ Append(s, x) \in Seq(View)
      /\ Len(Append(s, x)) = Len(s) + 1 /\ Append(s, x)[Len(s) + 1] = x
      /\ \A j \in 1..Len(s) : Append(s, x)[j] = s[j]
  OBVIOUS
<1>2. QED
  BY <1>1 DEF InOrder

LEMMA UnsentInOrder ==
    ASSUME NEW s \in Seq(View), InOrder(s)
    PROVE  InOrder(Unsent(s))
    BY UnsentShape, WithoutInOrder

-----------------------------------------------------------------------------
(* The newest table a page has seen or will see. *)

NewestOf(s, onScreen) ==
    IF Len(s) > 0 /\ s[Len(s)].age = "fresh" THEN s[Len(s)].table ELSE onScreen

LEMMA RenderShape ==
    ASSUME NEW s \in Seq(View), NEW i \in 1..Len(s), InOrder(s)
    PROVE  /\ Without(Outdated(s, i), i) \in Seq(View)
           /\ InOrder(Without(Outdated(s, i), i))
           /\ Len(Without(Outdated(s, i), i)) = Len(s) - 1
           /\ i < Len(s) => Without(Outdated(s, i), i)[Len(s) - 1] = s[Len(s)]
           /\ i = Len(s) /\ Len(s) > 1 => Without(Outdated(s, i), i)[Len(s) - 1].age = "late"
<1> DEFINE u == Outdated(s, i)
           t == Without(u, i)
<1>1. /\ u \in Seq(View) /\ Len(u) = Len(s) /\ InOrder(u)
      /\ \A j \in 1..Len(s) : /\ j < i => u[j].age = "late"
                              /\ j >= i => u[j] = s[j]
  BY OutdatedShape, OutdatedInOrder
<1>2. i \in 1..Len(u)
  BY <1>1
<1>3. /\ t \in Seq(View) /\ InOrder(t) /\ Len(t) = Len(s) - 1
      /\ \A j \in 1..Len(s) - 1 : t[j] = IF j < i THEN u[j] ELSE u[j + 1]
  BY <1>1, <1>2, WithoutShape, WithoutInOrder
<1> HIDE DEF u, t
<1>4. ASSUME i < Len(s)
      PROVE  t[Len(s) - 1] = s[Len(s)]
  <2>1. /\ Len(s) - 1 \in 1..Len(s) - 1 /\ ~ (Len(s) - 1 < i)
        /\ (Len(s) - 1) + 1 = Len(s) /\ Len(s) \in 1..Len(s)
    BY <1>4
  <2>2. t[Len(s) - 1] = u[Len(s)]
    BY <1>3, <2>1
  <2>3. QED
    BY <1>1, <2>1, <2>2
<1>5. ASSUME i = Len(s), Len(s) > 1
      PROVE  t[Len(s) - 1].age = "late"
  <2>1. Len(s) - 1 \in 1..Len(s) - 1 /\ Len(s) - 1 < i /\ Len(s) - 1 \in 1..Len(s)
    BY <1>5
  <2>2. t[Len(s) - 1] = u[Len(s) - 1]
    BY <1>3, <2>1
  <2>3. u[Len(s) - 1].age = "late"
    BY <1>1, <2>1
  <2>4. QED
    BY <2>2, <2>3
<1>6. QED
  BY <1>3, <1>4, <1>5 DEF u, t

\* Showing a table that is not late changes nothing about what the page will
\* end up with; nor does a late one, if it and all behind it are the same.
LEMMA RenderNewest ==
    ASSUME NEW s \in Seq(View), NEW i \in 1..Len(s), InOrder(s), NEW onScreen
    PROVE  /\ s[i].age # "late" =>
                  NewestOf(Without(Outdated(s, i), i), s[i].table) = NewestOf(s, onScreen)
           /\ (\A j \in i..Len(s) : s[j].table = s[i].table) =>
                  NewestOf(Without(Outdated(s, i), i), s[i].table) = s[i].table
<1> DEFINE t == Without(Outdated(s, i), i)
<1>1. /\ t \in Seq(View) /\ Len(t) = Len(s) - 1
      /\ i < Len(s) => t[Len(s) - 1] = s[Len(s)]
      /\ i = Len(s) /\ Len(s) > 1 => t[Len(s) - 1].age = "late"
  BY RenderShape
<1>2. Len(s) \in 1..Len(s) /\ Len(s) \in i..Len(s) /\ i \in i..Len(s) /\ Len(s) \in Nat
  OBVIOUS
<1>3. s[Len(s)].age \in {"fresh", "late"}
  <2>1. s[Len(s)] \in View
    BY <1>2
  <2>2. \A x \in View : x.age \in {"fresh", "late"}
    BY DEF View
  <2>3. QED
    BY <2>1, <2>2
<1> HIDE DEF t
<1>4. ASSUME i = Len(s)
      PROVE  NewestOf(t, s[i].table) = s[i].table
  BY <1>1, <1>2, <1>4 DEF NewestOf
<1>5. ASSUME i < Len(s)
      PROVE  NewestOf(t, s[i].table) =
                 IF s[Len(s)].age = "fresh" THEN s[Len(s)].table ELSE s[i].table
  BY <1>1, <1>2, <1>5 DEF NewestOf
<1>6. ASSUME s[i].age # "late"
      PROVE  NewestOf(t, s[i].table) = NewestOf(s, onScreen)
  <2>1. s[Len(s)].age = "fresh"
    BY <1>2, <1>3, <1>6 DEF InOrder
  <2>2. NewestOf(s, onScreen) = s[Len(s)].table
    BY <1>2, <2>1 DEF NewestOf
  <2>3. QED
    BY <1>4, <1>5, <2>1, <2>2
<1>7. ASSUME \A j \in i..Len(s) : s[j].table = s[i].table
      PROVE  NewestOf(t, s[i].table) = s[i].table
  BY <1>2, <1>4, <1>5, <1>7
<1>8. QED
  BY <1>6, <1>7 DEF t

-----------------------------------------------------------------------------
(* Shape and order, action by action. *)

Ordered == \A v \in Viewers : InOrder(views[v])

Basic == Shape /\ Ordered

LEMMA TableShape == SourceShape => Table \in AnyTable
    BY DEF SourceShape, Table, AnyTable

LEMMA FreshShape ==
    ASSUME SourceShape, NEW k \in {"rest", "socket"}
    PROVE  /\ [table |-> Table, via |-> k, age |-> "fresh"] \in View
           /\ [table |-> Table, via |-> k, age |-> "fresh"].age = "fresh"
           /\ [table |-> Table, via |-> k, age |-> "fresh"].table = Table
    BY TableShape DEF View

\* What the server's requests and clock do keeps the shape.
LEMMA SourceSteps ==
    ASSUME Basic,
           \/ \E c \in Writers : \/ SaveDocument(c) \/ AnnounceDocument(c)
                                 \/ AnnounceElimination(c) \/ CommitElimination(c)
                                 \/ PublishFails(c)
           \/ TickRead \/ TickSave \/ TickAnnounce \/ TickFails
           \/ UNCHANGED vars
    PROVE  Basic'
<1>1. SourceShape'
  <2> DEFINE Clocks == [write : Nat, pc : {"sleep", "read", "expired", "saved"}]
  <2>0. /\ doc \in Nat /\ roster \in Nat /\ written \in Nat
        /\ clock \in Clocks /\ clock.write \in Nat
    BY DEF Basic, Shape, SourceShape
  <2>1. doc' \in Nat /\ roster' \in Nat /\ written' \in Nat
    <3>1. doc' \in {doc, written + 1, clock.write}
      BY DEF SaveDocument, AnnounceDocument, AnnounceElimination, CommitElimination,
             PublishFails, TickRead, TickSave, TickAnnounce, TickFails, vars, source
    <3>2. roster' \in {roster, roster + 1} /\ written' \in {written, written + 1}
      BY DEF SaveDocument, AnnounceDocument, AnnounceElimination, CommitElimination,
             PublishFails, TickRead, TickSave, TickAnnounce, TickFails, vars, source
    <3>3. QED
      BY <2>0, <3>1, <3>2
  <2>2. writer' \in [Writers -> {"idle", "saved", "announced"}]
    BY DEF Basic, Shape, SourceShape, SaveDocument, AnnounceDocument, AnnounceElimination,
           CommitElimination, PublishFails, TickRead, TickSave, TickAnnounce, TickFails, vars, source
  <2>3. clock' \in Clocks
    <3>1. \A n \in Nat : \A k \in {"sleep", "read", "expired", "saved"} :
             [write |-> n, pc |-> k] \in Clocks
      OBVIOUS
    <3>2. \/ clock' = clock
          \/ clock' = [write |-> doc, pc |-> "read"]
          \/ clock' = [write |-> written + 1, pc |-> "expired"]
          \/ clock' = [write |-> 0, pc |-> "saved"]
          \/ clock' = [write |-> 0, pc |-> "sleep"]
      BY DEF SaveDocument, AnnounceDocument, AnnounceElimination, CommitElimination,
             PublishFails, TickRead, TickSave, TickAnnounce, TickFails, vars, source
    <3> HIDE DEF Clocks
    <3>3. written + 1 \in Nat /\ 0 \in Nat
      BY <2>0
    <3>4. QED
      BY <2>0, <3>1, <3>2, <3>3
  <2>4. QED
    BY <2>1, <2>2, <2>3 DEF SourceShape
<1>2. HubShape'
  <2>1. UNCHANGED hub \/ (Publish /\ UNCHANGED <<listening, targets>>)
    BY DEF SaveDocument, AnnounceDocument, AnnounceElimination, CommitElimination,
           PublishFails, TickRead, TickSave, TickAnnounce, TickFails, vars
  <2>2. QED
    BY <2>1 DEF Basic, Shape, HubShape, Publish, hub
<1>3. UNCHANGED <<page, fetches, views, shown>> /\ excused' \in {excused, excused \cup Viewers}
  BY DEF SaveDocument, AnnounceDocument, AnnounceElimination,
         CommitElimination, PublishFails, TickRead, TickSave, TickAnnounce, TickFails, Publish,
         Excuse, vars, source, hub, page, screen
<1>4. PageShape'
  BY <1>3 DEF Basic, Shape, PageShape, page
<1>5. ScreenShape' /\ Ordered'
  BY <1>3 DEF Basic, Shape, ScreenShape, Ordered
<1>6. QED
  BY <1>1, <1>2, <1>4, <1>5 DEF Basic, Shape

LEMMA HubSteps ==
    ASSUME Basic,
           \/ TakeEvent \/ SubscriberDies
           \/ \E v \in Viewers : SendInvalidate(v) \/ JoinRoom(v) \/ FetchFails(v)
    PROVE  Basic'
<1>1. UNCHANGED <<source, reopens, entered, views, shown>>
  BY DEF TakeEvent, SubscriberDies, SendInvalidate, JoinRoom, FetchFails, page, screen
<1>2. SourceShape' /\ Ordered'
  BY <1>1 DEF Basic, Shape, SourceShape, Ordered, source
<1>3. HubShape'
  <2>1. channel' \in Nat
    <3>1. channel' = channel \/ (channel > 0 /\ channel' = channel - 1) \/ channel' = 0
      BY DEF TakeEvent, SubscriberDies, SendInvalidate, JoinRoom, FetchFails, hub
    <3>2. channel \in Nat
      BY DEF Basic, Shape, HubShape
    <3>3. QED
      BY <3>1, <3>2
  <2>2. listening' \in BOOLEAN
    <3>1. listening' = listening \/ listening' = FALSE
      BY DEF TakeEvent, SubscriberDies, SendInvalidate, JoinRoom, FetchFails, hub
    <3>2. QED
      BY <3>1 DEF Basic, Shape, HubShape
  <2>3. targets' \subseteq Viewers
    BY DEF Basic, Shape, HubShape, TakeEvent, SubscriberDies, SendInvalidate, JoinRoom,
           FetchFails, hub
  <2>4. QED
    BY <2>1, <2>2, <2>3 DEF HubShape
<1>4. PageShape'
  <2>1. frames' \in [Viewers -> Seq(Frame)]
    <3>1. CASE \E v \in Viewers : SendInvalidate(v)
      <4>1. PICK v \in Viewers : SendInvalidate(v)
        BY <3>1
      <4>2. frames[v] \in Seq(Frame)
        BY DEF Basic, Shape, PageShape
      <4>3. Append(frames[v], "invalidate") \in Seq(Frame)
        BY <4>2 DEF Frame
      <4>4. QED
        BY <4>1, <4>3 DEF SendInvalidate, Basic, Shape, PageShape
    <3>2. CASE ~ \E v \in Viewers : SendInvalidate(v)
      BY <3>2 DEF Basic, Shape, PageShape, TakeEvent, SubscriberDies, JoinRoom,
                  FetchFails, page
    <3>3. QED
      BY <3>1, <3>2
  <2>2. socket' \in [Viewers -> Places]
    BY DEF Basic, Shape, PageShape, Places, TakeEvent, SubscriberDies, SendInvalidate,
           JoinRoom, FetchFails, page
  <2>3. QED
    BY <1>1, <2>1, <2>2 DEF Basic, Shape, PageShape
<1>5. ScreenShape'
  <2>1. fetches' \in [Viewers -> Nat]
    <3>1. CASE \E v \in Viewers : FetchFails(v)
      BY <3>1 DEF Basic, Shape, ScreenShape, FetchFails
    <3>2. CASE ~ \E v \in Viewers : FetchFails(v)
      BY <3>2 DEF Basic, Shape, ScreenShape, TakeEvent, SubscriberDies, SendInvalidate,
                  JoinRoom, screen
    <3>3. QED
      BY <3>1, <3>2
  <2>2. excused' \subseteq Viewers
    BY DEF Basic, Shape, ScreenShape, TakeEvent, SubscriberDies, SendInvalidate,
           JoinRoom, FetchFails, Excuse, screen
  <2>3. QED
    BY <1>1, <2>1, <2>2 DEF Basic, Shape, ScreenShape
<1>6. QED
  BY <1>2, <1>3, <1>4, <1>5 DEF Basic, Shape

\* A page's table list replaced by one of the right shape.
LEMMA ViewsReplaced ==
    ASSUME Basic, NEW v \in Viewers, NEW t \in Seq(View), InOrder(t),
           views' = [views EXCEPT ![v] = t]
    PROVE  views' \in [Viewers -> Seq(View)] /\ Ordered'
    BY DEF Basic, Shape, ScreenShape, Ordered

LEMMA ServerTables ==
    ASSUME Basic, NEW v \in Viewers, Greet(v) \/ AnswerFetch(v)
    PROVE  Basic'
<1>1. PICK k \in {"rest", "socket"} :
         views' = [views EXCEPT ![v] =
                      Append(views[v], [table |-> Table, via |-> k, age |-> "fresh"])]
  BY DEF Greet, AnswerFetch, Basic, Shape, ScreenShape
<1> DEFINE x == [table |-> Table, via |-> k, age |-> "fresh"]
           t == Append(views[v], x)
<1>2. views[v] \in Seq(View) /\ InOrder(views[v])
  BY DEF Basic, Shape, ScreenShape, Ordered
<1>3. x \in View /\ x.age = "fresh"
  BY FreshShape DEF Basic, Shape
<1>4. t \in Seq(View) /\ InOrder(t)
  <2> HIDE DEF x
  <2>1. QED
    BY <1>2, <1>3, AppendInOrder
<1>5. views' \in [Viewers -> Seq(View)] /\ Ordered'
  <2>1. views' = [views EXCEPT ![v] = t]
    BY <1>1
  <2> HIDE DEF t
  <2>2. QED
    BY <1>4, <2>1, ViewsReplaced
<1>6. SourceShape' /\ HubShape'
  BY DEF Basic, Shape, SourceShape, HubShape, Greet, AnswerFetch, source, hub
<1>7. PageShape'
  <2>1. frames[v] \in Seq(Frame)
    BY DEF Basic, Shape, PageShape
  <2>2. Append(frames[v], "table") \in Seq(Frame)
    BY <2>1 DEF Frame
  <2>3. QED
    BY <2>2 DEF Basic, Shape, PageShape, Places, Greet, AnswerFetch, page
<1>8. ScreenShape'
  <2>1. fetches' \in [Viewers -> Nat]
    BY DEF Basic, Shape, ScreenShape, Greet, AnswerFetch
  <2>2. UNCHANGED <<shown, excused>>
    BY DEF Greet, AnswerFetch
  <2>3. QED
    BY <1>5, <2>1, <2>2 DEF Basic, Shape, ScreenShape
<1>9. QED
  BY <1>5, <1>6, <1>7, <1>8 DEF Basic, Shape

LEMMA RenderKeepsShape ==
    ASSUME Basic, NEW v \in Viewers, NEW i \in 1..Len(views[v]), Render(v, i)
    PROVE  /\ views' \in [Viewers -> Seq(View)] /\ Ordered'
           /\ shown' \in [Viewers -> AnyTable]
           /\ excused' \subseteq Viewers
<1>1. views[v] \in Seq(View) /\ InOrder(views[v])
  BY DEF Basic, Shape, ScreenShape, Ordered
<1> DEFINE t == Without(Outdated(views[v], i), i)
<1>2. t \in Seq(View) /\ InOrder(t)
  BY <1>1, RenderShape
<1>3. views' = [views EXCEPT ![v] = t]
  BY DEF Render, Basic, Shape, ScreenShape
<1>4. views' \in [Viewers -> Seq(View)] /\ Ordered'
  <2> HIDE DEF t
  <2>1. QED
    BY <1>2, <1>3, ViewsReplaced
<1>5. views[v][i].table \in AnyTable
  <2>1. views[v][i] \in View
    BY <1>1
  <2>2. \A x \in View : x.table \in AnyTable
    BY DEF View
  <2>3. QED
    BY <2>1, <2>2
<1>6. shown' \in [Viewers -> AnyTable]
  BY <1>5 DEF Render, Basic, Shape, ScreenShape
<1>7. excused' \subseteq Viewers
  BY DEF Render, Basic, Shape, ScreenShape
<1>8. QED
  BY <1>4, <1>6, <1>7

LEMMA BrowserRenders ==
    ASSUME Basic, NEW v \in Viewers, RenderAnswer(v) \/ Receive(v)
    PROVE  Basic'
<1>1. SourceShape' /\ HubShape'
  BY DEF Basic, Shape, SourceShape, HubShape, RenderAnswer, Receive, source, hub
<1>2. PageShape'
  <2>1. CASE frames[v] # <<>>
    <3>1. frames[v] \in Seq(Frame)
      BY DEF Basic, Shape, PageShape
    <3>2. Tail(frames[v]) \in Seq(Frame)
      BY <2>1, <3>1
    <3>3. QED
      BY <3>2 DEF Basic, Shape, PageShape, RenderAnswer, Receive, page
  <2>2. CASE frames[v] = <<>>
    BY <2>2 DEF Basic, Shape, PageShape, RenderAnswer, Receive, page
  <2>3. QED
    BY <2>1, <2>2
<1>3. fetches' \in [Viewers -> Nat]
  BY DEF Basic, Shape, ScreenShape, RenderAnswer, Receive
<1>4. CASE \E i \in 1..Len(views[v]) : Render(v, i)
  BY <1>1, <1>2, <1>3, <1>4, RenderKeepsShape DEF Basic, Shape, ScreenShape
<1>5. CASE UNCHANGED <<views, shown, excused>>
  BY <1>1, <1>2, <1>3, <1>5 DEF Basic, Shape, ScreenShape, Ordered
<1>6. QED
  BY <1>4, <1>5 DEF RenderAnswer, Receive

LEMMA PageConnects ==
    ASSUME Basic, NEW v \in Viewers, EnterTable(v) \/ Reopen(v)
    PROVE  Basic'
<1> DEFINE s == views[v]
<1>1. s \in Seq(View) /\ InOrder(s) /\ Len(s) + 1 \in Nat
  BY DEF Basic, Shape, ScreenShape, Ordered
<1>2. SourceShape' /\ HubShape'
  BY DEF Basic, Shape, SourceShape, HubShape, EnterTable, Reopen, source, hub
<1>3. PageShape'
  <2>1. PICK n \in Nat : OpenWs(v, n)
    BY DEF Basic, Shape, PageShape, EnterTable, Reopen
  <2>2. /\ socket' \in [Viewers -> Places]
        /\ frames' \in [Viewers -> Seq(Frame)]
    BY <2>1 DEF Basic, Shape, PageShape, Places, OpenWs
  <2>3. reopens' \in [Viewers -> Nat]
    BY <2>1 DEF Basic, Shape, PageShape, OpenWs
  <2>4. entered' \in [Viewers -> Nat]
    <3>1. entered' = [entered EXCEPT ![v] = @ + 1] \/ entered' = entered
      BY DEF EnterTable, Reopen
    <3>2. entered \in [Viewers -> Nat]
      BY DEF Basic, Shape, PageShape
    <3>3. QED
      BY <3>1, <3>2
  <2>5. QED
    BY <2>2, <2>3, <2>4 DEF PageShape
<1>4. Unsent(s) \in Seq(View) /\ InOrder(Unsent(s))
  BY <1>1, UnsentShape, UnsentInOrder
<1>5. PICK t : /\ t \in Seq(View) /\ InOrder(t)
               /\ views' = [views EXCEPT ![v] = t]
  <2>1. Outdated(Unsent(s), Len(s) + 1) \in Seq(View)
        /\ InOrder(Outdated(Unsent(s), Len(s) + 1))
    <3> HIDE DEF s
    <3>1. QED
      BY <1>1, <1>4, OutdatedShape, OutdatedInOrder
  <2>2. views' \in {[views EXCEPT ![v] = Unsent(s)],
                    [views EXCEPT ![v] = Outdated(Unsent(s), Len(s) + 1)]}
    BY DEF EnterTable, Reopen, Basic, Shape, ScreenShape
  <2>3. QED
    BY <1>4, <2>1, <2>2
<1>6. views' \in [Viewers -> Seq(View)] /\ Ordered'
  BY <1>5, ViewsReplaced
<1>7. shown' \in [Viewers -> AnyTable]
  BY TableShape DEF Basic, Shape, ScreenShape, EnterTable, Reopen, screen
<1>8. fetches' \in [Viewers -> Nat] /\ excused' \subseteq Viewers
  BY DEF Basic, Shape, ScreenShape, EnterTable, Reopen, screen
<1>9. QED
  BY <1>2, <1>3, <1>6, <1>7, <1>8 DEF Basic, Shape, ScreenShape

LEMMA ConnectionLost ==
    ASSUME Basic, (\E v \in Viewers : Drop(v)) \/ Restart
    PROVE  Basic'
<1>1. PICK V : Lose(V)
  BY DEF Drop, Restart
<1>2. SourceShape' /\ HubShape'
  <2>1. CASE Restart
    BY <2>1 DEF Basic, Shape, SourceShape, HubShape, Restart
  <2>2. CASE \E v \in Viewers : Drop(v)
    BY <2>2 DEF Basic, Shape, SourceShape, HubShape, Drop, source, hub
  <2>3. QED
    BY <2>1, <2>2
<1>3. PageShape'
  BY <1>1 DEF Basic, Shape, PageShape, Places, Lose, LoseScheduling
<1>4. \A w \in Viewers : Unsent(views[w]) \in Seq(View) /\ InOrder(Unsent(views[w]))
  BY UnsentShape, UnsentInOrder DEF Basic, Shape, ScreenShape, Ordered
<1>5. views' \in [Viewers -> Seq(View)] /\ Ordered'
  BY <1>1, <1>4 DEF Basic, Shape, ScreenShape, Ordered, Lose, LoseScheduling
<1>6. /\ shown' \in [Viewers -> AnyTable] /\ excused' \subseteq Viewers
      /\ fetches' \in [Viewers -> Nat]
  <2>1. UNCHANGED <<shown, excused>>
    BY DEF Drop, Restart
  <2>2. fetches' = fetches \/ fetches' = [v \in Viewers |-> 0]
    BY DEF Drop, Restart
  <2>3. QED
    BY <2>1, <2>2 DEF Basic, Shape, ScreenShape
<1>7. QED
  BY <1>2, <1>3, <1>5, <1>6 DEF Basic, Shape, ScreenShape

LEMMA BasicStep == Basic /\ [Next]_vars => Basic'
<1> SUFFICES ASSUME Basic, [Next]_vars
             PROVE  Basic'
  OBVIOUS
<1>1. \/ \E c \in Writers : \/ SaveDocument(c) \/ AnnounceDocument(c)
                            \/ AnnounceElimination(c) \/ CommitElimination(c)
                            \/ PublishFails(c)
      \/ TickRead \/ TickSave \/ TickAnnounce \/ TickFails
      \/ UNCHANGED vars
      \/ TakeEvent \/ SubscriberDies
      \/ \E v \in Viewers : SendInvalidate(v) \/ JoinRoom(v) \/ FetchFails(v)
      \/ \E v \in Viewers : Greet(v) \/ AnswerFetch(v)
      \/ \E v \in Viewers : RenderAnswer(v) \/ Receive(v)
      \/ \E v \in Viewers : EnterTable(v) \/ Reopen(v)
      \/ (\E v \in Viewers : Drop(v)) \/ Restart
  BY DEF Next, Server, Browser
<1>2. QED
  BY <1>1, SourceSteps, HubSteps, ServerTables, BrowserRenders, PageConnects, ConnectionLost

-----------------------------------------------------------------------------
(* Why a screen may be behind. *)

\* The server is about to announce something, or has an announcement to forward.
ServerBusy ==
    \/ \E c \in Writers : writer[c] = "saved"
    \/ clock.pc = "saved"
    \/ channel > 0

\* The page is about to be told, to ask, or to be greeted with the table.
Reaching(v) ==
    \/ v \in targets
    \/ \E k \in 1..Len(frames[v]) : frames[v][k] = "invalidate"
    \/ fetches[v] > 0
    \/ socket[v] \in {"none", "opening"}

UpToDate(v) == NewestOf(views[v], shown[v]) = Table

Explained(v) == v \in excused \/ ServerBusy \/ Reaching(v) \/ UpToDate(v)

\* Nothing that v's explanation may rest on changes for the worse.
KeepsPage(v) ==
    /\ v \in targets => v \in targets'
    /\ UNCHANGED <<frames[v], fetches[v], socket[v], views[v], shown[v]>>

LEMMA PublishExplains ==
    ASSUME HubShape, Publish, NEW v \in Viewers
    PROVE  v \in excused' \/ ServerBusy'
    BY DEF HubShape, Publish, Excuse, ServerBusy

LEMMA KeptExplained ==
    ASSUME NEW v \in Viewers, Explained(v), KeepsPage(v),
           ServerBusy => ServerBusy', Table' = Table, v \in excused => v \in excused'
    PROVE  Explained(v)'
<1>1. Reaching(v) => Reaching(v)'
  BY DEF KeepsPage, Reaching
<1>2. UpToDate(v) => UpToDate(v)'
  BY DEF KeepsPage, UpToDate
<1>3. QED
  BY <1>1, <1>2 DEF Explained

\* The server's own steps: whoever changes the table announces it, has still to
\* announce it, or is one of the reasons.
LEMMA SourceExplains ==
    ASSUME Basic, NEW v \in Viewers, Explained(v),
           \/ \E c \in Writers : \/ SaveDocument(c) \/ AnnounceDocument(c)
                                 \/ AnnounceElimination(c) \/ CommitElimination(c)
                                 \/ PublishFails(c)
           \/ TickRead \/ TickSave \/ TickAnnounce \/ TickFails
           \/ UNCHANGED vars
    PROVE  Explained(v)'
<1>1. HubShape /\ writer \in [Writers -> {"idle", "saved", "announced"}]
  BY DEF Basic, Shape, SourceShape
<1>2. CASE \E c \in Writers : SaveDocument(c)
  <2>1. PICK c \in Writers : SaveDocument(c)
    BY <1>2
  <2>2. writer'[c] = "saved"
    BY <1>1, <2>1 DEF SaveDocument
  <2>3. QED
    BY <2>2 DEF Explained, ServerBusy
<1>3. CASE \/ \E c \in Writers : AnnounceDocument(c) \/ AnnounceElimination(c)
           \/ TickAnnounce
  <2>1. Publish
    BY <1>3 DEF AnnounceDocument, AnnounceElimination, TickAnnounce
  <2>2. QED
    BY <1>1, <2>1, PublishExplains DEF Explained
<1>4. CASE \E c \in Writers : CommitElimination(c) \/ PublishFails(c)
  BY <1>4 DEF CommitElimination, PublishFails, Excuse, Explained
<1>5. CASE TickRead
  <2>1. UNCHANGED <<doc, roster, writer, channel, targets, frames, socket, fetches,
                    views, shown, excused>> /\ clock.pc = "sleep"
    BY <1>5 DEF TickRead, hub, page, screen
  <2>2. KeepsPage(v) /\ Table' = Table /\ (ServerBusy => ServerBusy')
    BY <2>1 DEF KeepsPage, Table, ServerBusy
  <2>3. QED
    BY <2>1, <2>2, KeptExplained
<1>6. CASE TickFails
  <2>1. CASE clock.pc = "saved"
    BY <1>6, <2>1 DEF TickFails, Excuse, Explained
  <2>2. CASE clock.pc # "saved"
    <3>1. UNCHANGED <<doc, roster, writer, channel, targets, frames, socket, fetches,
                      views, shown, excused>>
      BY <1>6, <2>2 DEF TickFails, hub, page
    <3>2. KeepsPage(v) /\ Table' = Table /\ (ServerBusy => ServerBusy')
      BY <2>2, <3>1 DEF KeepsPage, Table, ServerBusy
    <3>3. QED
      BY <3>1, <3>2, KeptExplained
  <2>3. QED
    BY <2>1, <2>2
<1>7. CASE TickSave
  <2>1. CASE clock.pc = "expired"
    <3>1. clock'.pc = "saved"
      BY <1>7, <2>1 DEF TickSave
    <3>2. QED
      BY <3>1 DEF Explained, ServerBusy
  <2>2. CASE clock.pc = "read" /\ doc' # doc
    BY <1>7, <2>2 DEF TickSave, Excuse, Explained
  <2>3. CASE clock.pc = "read" /\ doc' = doc
    <3>1. UNCHANGED <<doc, roster, writer, channel, targets, frames, socket, fetches,
                      views, shown, excused>>
      BY <1>7, <2>3 DEF TickSave, hub, page
    <3>2. KeepsPage(v) /\ Table' = Table /\ (ServerBusy => ServerBusy')
      BY <2>3, <3>1 DEF KeepsPage, Table, ServerBusy
    <3>3. QED
      BY <3>1, <3>2, KeptExplained
  <2>4. QED
    BY <1>7, <2>1, <2>2, <2>3 DEF TickSave
<1>8. CASE UNCHANGED vars
  <2>1. UNCHANGED <<doc, roster, writer, clock, channel, targets, frames, socket,
                    fetches, views, shown, excused>>
    BY <1>8 DEF vars, source, hub, page, screen
  <2>2. KeepsPage(v) /\ Table' = Table /\ (ServerBusy => ServerBusy')
    BY <2>1 DEF KeepsPage, Table, ServerBusy
  <2>3. QED
    BY <2>1, <2>2, KeptExplained
<1>9. QED
  BY <1>2, <1>3, <1>4, <1>5, <1>6, <1>7, <1>8

LEMMA HubExplains ==
    ASSUME Basic, NEW v \in Viewers, Explained(v),
           TakeEvent \/ SubscriberDies \/ \E w \in Viewers : SendInvalidate(w)
    PROVE  Explained(v)'
<1>1. /\ socket[v] \in Places
      /\ frames \in [Viewers -> Seq(Frame)] /\ frames[v] \in Seq(Frame)
  BY DEF Basic, Shape, PageShape
<1>2. CASE TakeEvent
  <2>1. UNCHANGED socket
    BY <1>2 DEF TakeEvent, page
  <2>2. CASE socket[v] = "joined"
    <3>1. v \in targets'
      BY <1>2, <2>2 DEF TakeEvent
    <3>2. QED
      BY <3>1 DEF Explained, Reaching
  <2>3. CASE socket[v] = "greeted"
    BY <1>2, <2>3 DEF TakeEvent, Excuse, Explained
  <2>4. CASE socket[v] \in {"none", "opening"}
    BY <2>1, <2>4 DEF Explained, Reaching
  <2>5. QED
    BY <1>1, <2>2, <2>3, <2>4 DEF Places
<1>3. CASE SubscriberDies
  BY <1>3 DEF SubscriberDies, Excuse, Explained
<1>4. ASSUME NEW w \in Viewers, SendInvalidate(w)
      PROVE  Explained(v)'
  <2>1. UNCHANGED <<doc, roster, writer, clock, channel, socket, fetches, views, shown>>
    BY <1>4 DEF SendInvalidate, source
  <2>2. CASE w = v /\ socket[v] = "joined"
    <3>1. frames'[v] = Append(frames[v], "invalidate")
      BY <1>1, <1>4, <2>2 DEF SendInvalidate
    <3>2. Append(frames[v], "invalidate")[Len(frames[v]) + 1] = "invalidate"
          /\ Len(frames[v]) + 1 \in 1..Len(Append(frames[v], "invalidate"))
      BY <1>1
    <3>3. QED
      BY <3>1, <3>2 DEF Explained, Reaching
  <2>3. CASE w = v /\ socket[v] = "greeted"
    BY <1>4, <2>3 DEF SendInvalidate, Excuse, Explained
  <2>4. CASE w = v /\ socket[v] \in {"none", "opening"}
    BY <2>1, <2>4 DEF Explained, Reaching
  <2>5. CASE w # v
    <3>1. KeepsPage(v)
      BY <1>1, <1>4, <2>1, <2>5 DEF SendInvalidate, KeepsPage
    <3>2. Table' = Table /\ (ServerBusy => ServerBusy')
      BY <2>1 DEF Table, ServerBusy
    <3>3. v \in excused => v \in excused'
      BY <1>4 DEF SendInvalidate, Excuse
    <3>4. QED
      BY <3>1, <3>2, <3>3, KeptExplained
  <2>6. QED
    BY <1>1, <2>2, <2>3, <2>4, <2>5 DEF Places
<1>5. QED
  BY <1>2, <1>3, <1>4

\* A step that touches one page only.
OnePage(w) ==
    /\ UNCHANGED <<doc, roster, writer, clock, channel, targets>>
    /\ \A v \in Viewers \ {w} :
          /\ UNCHANGED <<frames[v], fetches[v], socket[v], views[v], shown[v]>>
          /\ v \in excused => v \in excused'

LEMMA OthersExplained ==
    ASSUME NEW v \in Viewers, NEW w \in Viewers, v # w, OnePage(w), Explained(v)
    PROVE  Explained(v)'
<1>1. KeepsPage(v) /\ Table' = Table /\ (ServerBusy => ServerBusy')
      /\ (v \in excused => v \in excused')
  BY DEF OnePage, KeepsPage, Table, ServerBusy
<1>2. QED
  BY <1>1, KeptExplained

LEMMA PageStepIsLocal ==
    ASSUME Basic, NEW w \in Viewers,
           \/ JoinRoom(w) \/ FetchFails(w) \/ Greet(w) \/ AnswerFetch(w)
           \/ RenderAnswer(w) \/ Receive(w) \/ EnterTable(w) \/ Reopen(w) \/ Drop(w)
    PROVE  OnePage(w)
<1>1. UNCHANGED <<source, hub>>
  BY DEF JoinRoom, FetchFails, Greet, AnswerFetch, RenderAnswer, Receive, EnterTable,
         Reopen, Drop
<1>2. UNCHANGED <<doc, roster, writer, clock, channel, targets>>
  BY <1>1 DEF source, hub
<1>3. /\ socket \in [Viewers -> Places] /\ frames \in [Viewers -> Seq(Frame)]
      /\ fetches \in [Viewers -> Nat] /\ views \in [Viewers -> Seq(View)]
      /\ shown \in [Viewers -> AnyTable]
  BY DEF Basic, Shape, PageShape, ScreenShape
<1>4. ASSUME NEW v \in Viewers \ {w}
      PROVE  /\ UNCHANGED <<frames[v], fetches[v], socket[v], views[v], shown[v]>>
             /\ v \in excused => v \in excused'
  <2>1. UNCHANGED frames[v] /\ UNCHANGED socket[v]
    BY <1>3, <1>4 DEF JoinRoom, FetchFails, Greet, AnswerFetch, RenderAnswer, Receive,
       EnterTable, Reopen, OpenWs, Drop, Lose, LoseScheduling, page
  <2>2. UNCHANGED fetches[v]
    BY <1>3, <1>4 DEF JoinRoom, FetchFails, Greet, AnswerFetch, RenderAnswer, Receive,
       EnterTable, Reopen, Drop, screen
  <2>3. UNCHANGED views[v]
    BY <1>3, <1>4 DEF JoinRoom, FetchFails, Greet, AnswerFetch, RenderAnswer, Receive,
       Render, EnterTable, Reopen, Drop, Lose, LoseScheduling, screen
  <2>4. UNCHANGED shown[v]
    BY <1>3, <1>4 DEF JoinRoom, FetchFails, Greet, AnswerFetch, RenderAnswer, Receive,
       Render, EnterTable, Reopen, Drop, screen
  <2>5. v \in excused => v \in excused'
    BY <1>4 DEF JoinRoom, FetchFails, Greet, AnswerFetch, RenderAnswer, Receive,
       Render, EnterTable, Reopen, Drop, Excuse, screen
  <2>6. QED
    BY <2>1, <2>2, <2>3, <2>4, <2>5
<1>5. QED
  BY <1>2, <1>4 DEF OnePage

\* A table read as it is now, behind all the others, is the newest.
LEMMA FreshIsNewest ==
    ASSUME NEW s \in Seq(View), NEW x, x.age = "fresh", NEW onScreen
    PROVE  NewestOf(Append(s, x), onScreen) = x.table
    BY DEF NewestOf

LEMMA RenderExplains ==
    ASSUME Basic, NEW v \in Viewers, NEW i \in 1..Len(views[v]), Render(v, i),
           Explained(v), UNCHANGED <<doc, roster>>,
           ServerBusy => ServerBusy', Reaching(v) => Reaching(v)'
    PROVE  Explained(v)'
<1> DEFINE s == views[v]
           t == Without(Outdated(s, i), i)
<1>1. s \in Seq(View) /\ InOrder(s) /\ i \in 1..Len(s)
  BY DEF Basic, Shape, ScreenShape, Ordered
<1>2. views'[v] = t /\ shown'[v] = s[i].table
  BY DEF Basic, Shape, ScreenShape, Render
<1>3. Table' = Table
  BY DEF Table
<1>4. /\ s[i].age # "late" => NewestOf(t, s[i].table) = NewestOf(s, shown[v])
      /\ (\A j \in i..Len(s) : s[j].table = s[i].table) =>
             NewestOf(t, s[i].table) = s[i].table
  <2> HIDE DEF s
  <2>1. s[i].age # "late" => NewestOf(t, s[i].table) = NewestOf(s, shown[v])
    BY <1>1, RenderNewest
  <2>2. (\A j \in i..Len(s) : s[j].table = s[i].table) =>
           NewestOf(t, s[i].table) = s[i].table
    BY <1>1, RenderNewest
  <2>3. QED
    BY <2>1, <2>2
<1>5. CASE \A j \in i..Len(s) : s[j].table = Table
  <2>1. i \in i..Len(s) /\ s[i].table = Table
    BY <1>1, <1>5
  <2>2. NewestOf(t, s[i].table) = Table
    BY <1>4, <1>5, <2>1
  <2>3. QED
    BY <1>2, <1>3, <2>2 DEF Explained, UpToDate
<1>6. CASE ~ \A j \in i..Len(s) : s[j].table = Table
  <2>1. excused' = excused \cup (IF s[i].age = "late" THEN {v} ELSE {})
    BY <1>6 DEF Render
  <2>2. CASE s[i].age = "late"
    BY <2>1, <2>2 DEF Explained
  <2>3. CASE s[i].age # "late"
    BY <1>2, <1>3, <1>4, <2>1, <2>3 DEF Explained, UpToDate
  <2>4. QED
    BY <2>2, <2>3
<1>7. QED
  BY <1>5, <1>6

LEMMA PageExplains ==
    ASSUME Basic, NEW v \in Viewers, Explained(v),
           \/ JoinRoom(v) \/ FetchFails(v) \/ Greet(v) \/ AnswerFetch(v)
           \/ RenderAnswer(v) \/ Receive(v) \/ EnterTable(v) \/ Reopen(v) \/ Drop(v)
    PROVE  Explained(v)'
<1>1. UNCHANGED <<doc, roster, writer, clock, channel, targets>>
  BY PageStepIsLocal DEF OnePage
<1>2. Table' = Table /\ (ServerBusy => ServerBusy')
  BY <1>1 DEF Table, ServerBusy
<1>3. /\ socket \in [Viewers -> Places]
      /\ frames \in [Viewers -> Seq(Frame)] /\ frames[v] \in Seq(Frame)
      /\ fetches \in [Viewers -> Nat] /\ fetches[v] \in Nat
      /\ views \in [Viewers -> Seq(View)] /\ views[v] \in Seq(View)
  BY DEF Basic, Shape, PageShape, ScreenShape
<1>4. CASE JoinRoom(v)
  <2>1. /\ UNCHANGED <<frames, fetches, views, shown, excused>>
        /\ socket[v] = "greeted"
    BY <1>4 DEF JoinRoom, screen
  <2>2. Reaching(v) => Reaching(v)'
    BY <1>1, <2>1 DEF Reaching
  <2>3. QED
    BY <1>2, <2>1, <2>2 DEF Explained, UpToDate
<1>5. CASE FetchFails(v)
  BY <1>5 DEF FetchFails, Excuse, Explained
<1>6. CASE Greet(v) \/ AnswerFetch(v)
  <2>1. PICK k \in {"rest", "socket"} :
           views'[v] = Append(views[v], [table |-> Table, via |-> k, age |-> "fresh"])
    BY <1>3, <1>6 DEF Greet, AnswerFetch
  <2>2. NewestOf(views'[v], shown'[v]) = Table
    BY <1>3, <2>1, FreshIsNewest
  <2>3. QED
    BY <1>2, <2>2 DEF Explained, UpToDate
<1>7. CASE RenderAnswer(v)
  <2>1. UNCHANGED <<frames, fetches, socket>>
    BY <1>7 DEF RenderAnswer, page
  <2>2. Reaching(v) => Reaching(v)'
    BY <1>1, <2>1 DEF Reaching
  <2>3. QED
    BY <1>1, <1>2, <1>7, <2>2, RenderExplains DEF RenderAnswer
<1>8. CASE Receive(v)
  <2>1. /\ frames[v] # <<>> /\ frames'[v] = Tail(frames[v])
        /\ UNCHANGED socket
    BY <1>3, <1>8 DEF Receive
  <2>2. CASE Head(frames[v]) # "table"
    <3>1. fetches'[v] = fetches[v] + 1
      BY <1>3, <1>8, <2>2 DEF Receive
    <3>2. QED
      BY <1>3, <3>1 DEF Explained, Reaching
  <2>3. CASE Head(frames[v]) = "table"
    <3>1. ASSUME NEW k \in 1..Len(frames[v]), frames[v][k] = "invalidate"
          PROVE  \E l \in 1..Len(Tail(frames[v])) : Tail(frames[v])[l] = "invalidate"
      <4>1. Head(frames[v]) = frames[v][1]
        BY <1>3, <2>1
      <4>2. k # 1
        BY <2>3, <3>1, <4>1
      <4>3. /\ k - 1 \in 1..Len(Tail(frames[v]))
            /\ Tail(frames[v])[k - 1] = frames[v][k]
        BY <1>3, <2>1, <4>2
      <4>4. QED
        BY <3>1, <4>3
    <3>2. UNCHANGED fetches
      BY <1>8, <2>3 DEF Receive
    <3>3. Reaching(v) => Reaching(v)'
      BY <1>1, <2>1, <3>1, <3>2 DEF Reaching
    <3>4. QED
      BY <1>1, <1>2, <1>8, <2>3, <3>3, RenderExplains DEF Receive
  <2>4. QED
    BY <2>2, <2>3
<1>9. CASE EnterTable(v) \/ Reopen(v)
  <2>1. socket'[v] = "opening"
    BY <1>3, <1>9 DEF EnterTable, Reopen, OpenWs
  <2>2. QED
    BY <2>1 DEF Explained, Reaching
<1>10. CASE Drop(v)
  <2>1. socket'[v] = "none"
    BY <1>3, <1>10 DEF Drop, Lose, LoseScheduling
  <2>2. QED
    BY <2>1 DEF Explained, Reaching
<1>11. QED
  BY <1>4, <1>5, <1>6, <1>7, <1>8, <1>9, <1>10

-----------------------------------------------------------------------------
(* The inductive invariant. *)

IInv == Basic /\ \A v \in Viewers : Explained(v)

LEMMA InitIInv == Init => IInv
<1> SUFFICES ASSUME Init
             PROVE  IInv
  OBVIOUS
<1>1. SourceShape /\ HubShape
  BY DEF Init, SourceShape, HubShape
<1>2. PageShape
  BY DEF Init, PageShape, Places
<1>3. \A v \in Viewers : views[v] = <<>> /\ shown[v] = Table
  BY DEF Init
<1>4. ScreenShape
  BY <1>1, TableShape DEF Init, ScreenShape
<1>5. Ordered
  BY <1>3 DEF Ordered, InOrder
<1>6. \A v \in Viewers : Explained(v)
  BY <1>3 DEF Explained, UpToDate, NewestOf
<1>7. QED
  BY <1>1, <1>2, <1>4, <1>5, <1>6 DEF IInv, Basic, Shape

LEMMA NextIInv == IInv /\ [Next]_vars => IInv'
<1> SUFFICES ASSUME IInv, [Next]_vars
             PROVE  IInv'
  OBVIOUS
<1>1. Basic'
  BY BasicStep DEF IInv
<1>2. ASSUME NEW v \in Viewers
      PROVE  Explained(v)'
  <2>1. Basic /\ Explained(v)
    BY DEF IInv
  <2>2. CASE \/ \E c \in Writers : \/ SaveDocument(c) \/ AnnounceDocument(c)
                                   \/ AnnounceElimination(c) \/ CommitElimination(c)
                                   \/ PublishFails(c)
             \/ TickRead \/ TickSave \/ TickAnnounce \/ TickFails
             \/ UNCHANGED vars
    BY <2>1, <2>2, SourceExplains
  <2>3. CASE TakeEvent \/ SubscriberDies \/ \E w \in Viewers : SendInvalidate(w)
    BY <2>1, <2>3, HubExplains
  <2>4. ASSUME NEW w \in Viewers,
               \/ JoinRoom(w) \/ FetchFails(w) \/ Greet(w) \/ AnswerFetch(w)
               \/ RenderAnswer(w) \/ Receive(w) \/ EnterTable(w) \/ Reopen(w) \/ Drop(w)
        PROVE  Explained(v)'
    <3>1. CASE v = w
      BY <2>1, <2>4, <3>1, PageExplains
    <3>2. CASE v # w
      BY <2>1, <2>4, <3>2, PageStepIsLocal, OthersExplained
    <3>3. QED
      BY <3>1, <3>2
  <2>5. CASE Restart
    <3>1. socket'[v] = "none"
      BY <2>5 DEF Restart, Lose, LoseScheduling
    <3>2. QED
      BY <3>1 DEF Explained, Reaching
  <2>6. QED
    BY <2>2, <2>3, <2>4, <2>5 DEF Next, Server, Browser
<1>3. QED
  BY <1>1, <1>2 DEF IInv

\* In every reachable state each screen is excused, or the newest table it has
\* seen or will see is the table as it is, or something is on its way to it.
THEOREM SyncInvariant == Spec => []IInv
<1>1. QED
  BY InitIInv, NextIInv, PTL DEF Spec

\* A change of the table that is on nobody's way any more (routes.py publishes,
\* hub.py forwards, index.html refetches) is on every screen in the room, but for
\* the five reasons; for any number of pages, requests, changes and failures.
THEOREM ScreensFallBehindForAReason == Spec => []StaleOnlyForAReason
<1>1. IInv => StaleOnlyForAReason
  <2> SUFFICES ASSUME IInv, NEW v \in Viewers, Settled(v), shown[v] # Table
               PROVE  v \in excused
    BY DEF StaleOnlyForAReason
  <2>1. Explained(v)
    BY DEF IInv
  <2>2. ~ ServerBusy
    BY DEF Settled, ServerBusy, IInv, Basic, Shape, HubShape
  <2>3. ~ Reaching(v)
    BY DEF Settled, Reaching
  <2>4. ~ UpToDate(v)
    BY DEF Settled, UpToDate, NewestOf
  <2>5. QED
    BY <2>1, <2>2, <2>3, <2>4 DEF Explained
<1>2. QED
  BY <1>1, SyncInvariant, PTL

-----------------------------------------------------------------------------
(* Connections. *)

\* What the steps that neither open nor lose a socket leave alone.
LEMMA ConnectionsKept ==
    ASSUME PageShape, [Next]_vars,
           ~ (\E v \in Viewers : EnterTable(v) \/ Reopen(v) \/ Drop(v)), ~ Restart
    PROVE  /\ UNCHANGED <<reopens, entered>>
           /\ \A v \in Viewers : Live(v)' = Live(v)
<1>1. UNCHANGED <<reopens, entered>>
  BY DEF Next, Server, Browser, SaveDocument, AnnounceDocument, AnnounceElimination,
     CommitElimination, PublishFails, TickRead, TickSave, TickAnnounce, TickFails, TakeEvent,
     SubscriberDies, SendInvalidate, JoinRoom, FetchFails, Greet, AnswerFetch,
     RenderAnswer, Receive, vars, page
<1>2. \/ socket' = socket
      \/ \E v \in Viewers : \/ socket[v] = "opening" /\ socket' = [socket EXCEPT ![v] = "greeted"]
                            \/ socket[v] = "greeted" /\ socket' = [socket EXCEPT ![v] = "joined"]
  BY DEF Next, Server, Browser, SaveDocument, AnnounceDocument, AnnounceElimination,
     CommitElimination, PublishFails, TickRead, TickSave, TickAnnounce, TickFails, TakeEvent,
     SubscriberDies, SendInvalidate, JoinRoom, FetchFails, Greet, AnswerFetch,
     RenderAnswer, Receive, vars, page
<1>3. \A v \in Viewers : Live(v)' = Live(v)
  BY <1>2 DEF PageShape, Live
<1>4. QED
  BY <1>1, <1>3

\* index.html's openWs and onclose: whatever is lost, restarted or entered again,
\* every entry keeps one connection or one timer that opens it.
THEOREM EntriesKeepOneConnection == Spec => []OneReconnectPerEntry
<1>1. Init => OneReconnectPerEntry
  BY DEF Init, OneReconnectPerEntry, Live
<1>2. IInv /\ OneReconnectPerEntry /\ [Next]_vars => OneReconnectPerEntry'
  <2> SUFFICES ASSUME PageShape, OneReconnectPerEntry, [Next]_vars, NEW v \in Viewers
               PROVE  reopens'[v] + (IF Live(v)' THEN 1 ELSE 0) = entered'[v]
    BY DEF IInv, Basic, Shape, OneReconnectPerEntry
  <2>1. /\ reopens[v] + (IF Live(v) THEN 1 ELSE 0) = entered[v]
        /\ reopens \in [Viewers -> Nat] /\ entered \in [Viewers -> Nat]
        /\ socket \in [Viewers -> Places]
    BY DEF OneReconnectPerEntry, PageShape
  <2>2. CASE \E w \in Viewers : EnterTable(w)
    BY <2>1, <2>2 DEF EnterTable, OpenWs, Live
  <2>3. CASE \E w \in Viewers : Reopen(w)
    BY <2>1, <2>3 DEF Reopen, OpenWs, Live
  <2>4. CASE (\E w \in Viewers : Drop(w)) \/ Restart
    <3>1. PICK V : Lose(V)
      BY <2>4 DEF Drop, Restart
    <3>2. QED
      BY <2>1, <3>1 DEF Lose, LoseScheduling, Live
  <2>5. CASE ~ (\E w \in Viewers : EnterTable(w) \/ Reopen(w) \/ Drop(w)) /\ ~ Restart
    BY <2>1, <2>5, ConnectionsKept
  <2>6. QED
    BY <2>2, <2>3, <2>4, <2>5
<1>3. QED
  BY <1>1, <1>2, SyncInvariant, PTL DEF Spec

=============================================================================
