------------------------------- MODULE LiveSync ------------------------------
(***************************************************************************)
(* How a change of the table reaches the players' screens: the Mini App's  *)
(* requests and clock publish "invalidate" on a Redis channel, the         *)
(* RealtimeHub of the server process forwards it to the WebSockets in the  *)
(* table's room, and each client (static/index.html) fetches the table     *)
(* again over REST and renders the answer.                                 *)
(*                                                                         *)
(* What a viewer may see of the table is two numbers: doc, which content   *)
(* the live document in Redis has (LiveTable has the document itself; the  *)
(* seconds of a running timer are not part of its content here), and       *)
(* roster, how many eliminations are committed in the database.            *)
(*                                                                         *)
(* excused is a history variable: has anything happened, since a viewer's  *)
(* screen last showed the table as it was, for which it may stay behind?   *)
(* Five things can: an invalidate went by between the snapshot and         *)
(* hub.join (a gap); an elimination was announced before it was committed; *)
(* the clock wrote back an older document, unannounced; a table read       *)
(* earlier arrived later; a publish, the subscription or a fetch failed.   *)
(***************************************************************************)
EXTENDS Naturals, FiniteSets, Sequences

CONSTANTS
    Viewers,          \* browsers of players who stay at the table
    Writers,          \* requests that change the table, in flight at once
    MaxWrites,        \* bound on the new contents written
    MaxEliminations,  \* bound on the eliminations
    MaxEntries,       \* bound on the times one page enters the table
    MaxDrops,         \* bound on the connections lost and the restarts
    MayFail           \* does a Redis call or a fetch fail?

ASSUME BoundsAreNaturals ==
    {MaxWrites, MaxEliminations, MaxEntries, MaxDrops} \subseteq Nat
ASSUME FailureIsBoolean == MayFail \in BOOLEAN

VARIABLES
    doc,        \* the content of the live document
    roster,     \* the eliminations committed
    written,    \* the contents made so far
    writer,     \* per request: where it is between its change and its end
    clock,      \* the timer loop's tick: what it will write, and whether it
                \* ends the turn
    channel,    \* invalidates published, not yet taken by the subscriber
    listening,  \* is the hub's subscriber task alive?
    targets,    \* the sockets the hub has still to send an invalidate to
    socket,     \* per viewer: where state.ws is
    frames,     \* per viewer: the frames on their way over that socket
    reopens,    \* per viewer: the openWs calls its page has scheduled
    entered,    \* per viewer: how often its page entered the table
    fetches,    \* per viewer: refetches the server has not answered yet
    views,      \* per viewer: the tables on their way, oldest read first
    shown,      \* per viewer: the table on its screen
    excused,    \* the viewers whose screen is excused: see above
    drops       \* connections lost, and restarts, so far

source == <<doc, roster, written, writer, clock>>
hub == <<channel, listening, targets>>
page == <<socket, frames, reopens, entered, drops>>
screen == <<fetches, views, shown, excused>>
vars == <<source, hub, page, screen>>

Tables == [doc : 0..MaxWrites, roster : 0..MaxEliminations]
Table == [doc |-> doc, roster |-> roster]

\* The most events there can be: a restart gives an elimination a second try.
Events == MaxWrites + MaxEliminations * (1 + MaxDrops)

TypeOK ==
    /\ doc \in 0..MaxWrites
    /\ roster \in 0..MaxEliminations
    /\ written \in 0..MaxWrites
    /\ writer \in [Writers -> {"idle", "saved", "announced"}]
    /\ clock \in [write : 0..MaxWrites, pc : {"sleep", "read", "expired", "saved"}]
    /\ channel \in 0..Events
    /\ listening \in BOOLEAN
    /\ targets \subseteq Viewers
    /\ socket \in [Viewers -> {"none", "opening", "greeted", "joined"}]
    /\ \A v \in Viewers :
          /\ frames[v] \in Seq({"table", "invalidate"})
          /\ views[v] \in Seq([table : Tables, via : {"rest", "socket"}, age : {"fresh", "late"}])
          /\ Len(frames[v]) + fetches[v] =< Events + 1
    /\ reopens \in [Viewers -> 0..MaxEntries]
    /\ entered \in [Viewers -> 0..MaxEntries]
    /\ fetches \in [Viewers -> 0..Events]
    /\ shown \in [Viewers -> Tables]
    /\ excused \subseteq Viewers
    /\ drops \in 0..MaxDrops

Init ==
    /\ doc = 0 /\ roster = 0 /\ written = 0
    /\ writer = [c \in Writers |-> "idle"]
    /\ clock = [write |-> 0, pc |-> "sleep"]
    /\ channel = 0 /\ listening = TRUE /\ targets = {}
    /\ socket = [v \in Viewers |-> "none"]
    /\ frames = [v \in Viewers |-> <<>>]
    /\ reopens = [v \in Viewers |-> 0]
    /\ entered = [v \in Viewers |-> 0]
    /\ fetches = [v \in Viewers |-> 0]
    /\ views = [v \in Viewers |-> <<>>]
    /\ shown = [v \in Viewers |-> Table]
    /\ excused = {}
    /\ drops = 0

Excuse(V) == excused' = excused \cup V

-----------------------------------------------------------------------------
(* The server: requests and clock.                                         *)

\* _publish_invalidate: Redis hands the event to the subscribers there are.
Publish ==
    IF listening THEN channel' = channel + 1 /\ UNCHANGED excused
                 ELSE Excuse(Viewers) /\ UNCHANGED channel

\* A document endpoint SETs the document it computed ...
SaveDocument(c) ==
    /\ writer[c] = "idle"
    /\ written < MaxWrites
    /\ written' = written + 1
    /\ doc' = written + 1
    /\ writer' = [writer EXCEPT ![c] = "saved"]
    /\ UNCHANGED <<roster, clock, hub, page, screen>>

\* Mutant: the endpoint answers without publishing.
AnnounceDocument_Silent(c) ==
    /\ writer[c] = "saved"
    /\ writer' = [writer EXCEPT ![c] = "idle"]
    /\ UNCHANGED <<doc, roster, written, clock, hub, page, screen>>

\* ... and then publishes.
AnnounceDocument(c) ==
    /\ writer[c] = "saved"
    /\ Publish
    /\ writer' = [writer EXCEPT ![c] = "idle"]
    /\ UNCHANGED <<doc, roster, written, clock, listening, targets, page,
                   fetches, views, shown>>

\* eliminate marks the loaded row and publishes ...
AnnounceElimination(c) ==
    /\ writer[c] = "idle"
    /\ roster + Cardinality({d \in Writers : writer[d] = "announced"}) < MaxEliminations
    /\ Publish
    /\ writer' = [writer EXCEPT ![c] = "announced"]
    /\ UNCHANGED <<doc, roster, written, clock, listening, targets, page,
                   fetches, views, shown>>

\* ... and the session dependency commits once the handler has returned.
CommitElimination(c) ==
    /\ writer[c] = "announced"
    /\ roster' = roster + 1
    /\ writer' = [writer EXCEPT ![c] = "idle"]
    /\ Excuse(Viewers)
    /\ UNCHANGED <<doc, written, clock, hub, page, fetches, views, shown>>

\* The timer loop reads the document and counts it down ...
TickRead ==
    /\ clock.pc = "sleep"
    /\ \/ /\ clock' = [write |-> doc, pc |-> "read"]
          /\ UNCHANGED written
       \/ /\ written < MaxWrites
          /\ clock' = [write |-> written + 1, pc |-> "expired"]
          /\ written' = written + 1
    /\ UNCHANGED <<doc, roster, writer, hub, page, screen>>

\* ... writes it back a moment later ...
TickSave ==
    /\ clock.pc \in {"read", "expired"}
    /\ doc' = clock.write
    /\ IF clock.pc = "expired"
       THEN /\ clock' = [write |-> 0, pc |-> "saved"]
            /\ UNCHANGED excused
       ELSE /\ clock' = [write |-> 0, pc |-> "sleep"]
            /\ IF doc' # doc THEN Excuse(Viewers) ELSE UNCHANGED excused
    /\ UNCHANGED <<roster, written, writer, hub, page, fetches, views, shown>>

\* ... and announces it only if that ended the turn.
TickAnnounce ==
    /\ clock.pc = "saved"
    /\ Publish
    /\ clock' = [write |-> 0, pc |-> "sleep"]
    /\ UNCHANGED <<doc, roster, written, writer, listening, targets, page,
                   fetches, views, shown>>

-----------------------------------------------------------------------------
(* The hub and the WebSocket endpoint.                                     *)

\* _listen takes the next event and copies the room's membership ...
TakeEvent ==
    /\ channel > 0 /\ targets = {}
    /\ channel' = channel - 1
    /\ targets' = {v \in Viewers : socket[v] = "joined"}
    /\ Excuse({v \in Viewers : socket[v] = "greeted"})
    /\ UNCHANGED <<source, listening, page, fetches, views, shown>>

\* ... and sends to one socket after the other.  One that has gone (or was
\* replaced by one that is not in the room yet) is dropped from the room.
SendInvalidate(v) ==
    /\ v \in targets
    /\ targets' = targets \ {v}
    /\ IF socket[v] = "joined"
       THEN /\ frames' = [frames EXCEPT ![v] = Append(@, "invalidate")]
            /\ UNCHANGED excused
       ELSE /\ UNCHANGED frames
            /\ Excuse(IF socket[v] = "greeted" THEN {v} ELSE {})
    /\ UNCHANGED <<source, channel, listening, socket, reopens, entered, drops,
                   fetches, views, shown>>

\* table_ws: the snapshot is read and sent once the handshake is accepted ...
Greet(v) ==
    /\ socket[v] = "opening"
    /\ socket' = [socket EXCEPT ![v] = "greeted"]
    /\ frames' = [frames EXCEPT ![v] = Append(@, "table")]
    /\ views' = [views EXCEPT ![v] =
                    Append(@, [table |-> Table, via |-> "socket", age |-> "fresh"])]
    /\ UNCHANGED <<source, hub, reopens, entered, drops, fetches, shown, excused>>

\* ... and only then does the socket join the room.
JoinRoom(v) ==
    /\ socket[v] = "greeted"
    /\ socket' = [socket EXCEPT ![v] = "joined"]
    /\ UNCHANGED <<source, hub, frames, reopens, entered, drops, screen>>

\* get_table, as get_snapshot reads it.
AnswerFetch(v) ==
    /\ fetches[v] > 0
    /\ fetches' = [fetches EXCEPT ![v] = @ - 1]
    /\ views' = [views EXCEPT ![v] =
                    Append(@, [table |-> Table, via |-> "rest", age |-> "fresh"])]
    /\ UNCHANGED <<source, hub, page, shown, excused>>

-----------------------------------------------------------------------------
(* The page.                                                               *)

Without(s, i) == [j \in 1..Len(s) - 1 |-> IF j < i THEN s[j] ELSE s[j + 1]]

\* What was read before the i-th table is late from now on.
Outdated(s, i) ==
    [j \in 1..Len(s) |-> IF j < i THEN [s[j] EXCEPT !.age = "late"] ELSE s[j]]

\* render: whatever arrives is shown; its version is not looked at.  The
\* tables read before it are late from now on.  With the table as it is on the
\* screen, and no other on its way after it, there is nothing to excuse.
Render(v, i) ==
    /\ shown' = [shown EXCEPT ![v] = views[v][i].table]
    /\ views' = [views EXCEPT ![v] = Without(Outdated(@, i), i)]
    /\ excused' =
           IF \A j \in i..Len(views[v]) : views[v][j].table = Table
           THEN excused \ {v}
           ELSE excused \cup (IF views[v][i].age = "late" THEN {v} ELSE {})

\* The answers to two refetches may overtake each other.
RenderAnswer(v) ==
    /\ \E i \in 1..Len(views[v]) : views[v][i].via = "rest" /\ Render(v, i)
    /\ UNCHANGED <<source, hub, page, fetches>>

\* ws.onmessage: a socket's frames arrive in order.
Receive(v) ==
    /\ frames[v] # <<>>
    /\ frames' = [frames EXCEPT ![v] = Tail(@)]
    /\ IF Head(frames[v]) = "table"
       THEN /\ \E i \in 1..Len(views[v]) :
                  views[v][i].via = "socket" /\ Render(v, i)
            /\ UNCHANGED fetches
       ELSE /\ fetches' = [fetches EXCEPT ![v] = @ + 1]
            /\ UNCHANGED <<views, shown, excused>>
    /\ UNCHANGED <<source, hub, socket, reopens, entered, drops>>

Live(v) == socket[v] # "none"

\* What was on its way over a socket is lost: of tables, at most its snapshot.
Unsent(s) ==
    IF \E i \in 1..Len(s) : s[i].via = "socket"
    THEN Without(s, CHOOSE i \in 1..Len(s) : s[i].via = "socket")
    ELSE s

\* openWs closes the page's socket, whose onclose schedules another openWs.
OpenWs(v, scheduled) ==
    /\ socket' = [socket EXCEPT ![v] = "opening"]
    /\ frames' = [frames EXCEPT ![v] = <<>>]
    /\ reopens' = [reopens EXCEPT ![v] = scheduled + IF Live(v) THEN 1 ELSE 0]

\* join: the table the server answered with, and a first socket.  A second
\* tap of the button, or a tap beside the start parameter's join, enters twice.
EnterTable(v) ==
    /\ entered[v] < MaxEntries
    /\ entered' = [entered EXCEPT ![v] = @ + 1]
    /\ OpenWs(v, reopens[v])
    /\ shown' = [shown EXCEPT ![v] = Table]
    /\ excused' = excused \ {v}
    /\ views' = [views EXCEPT ![v] = Outdated(Unsent(@), Len(@) + 1)]
    /\ UNCHANGED <<source, hub, drops, fetches>>

Reopen(v) ==
    /\ reopens[v] > 0
    /\ OpenWs(v, reopens[v] - 1)
    /\ views' = [views EXCEPT ![v] = Unsent(@)]
    /\ UNCHANGED <<source, hub, entered, drops, fetches, shown, excused>>

\* The sockets of V are lost, and openWs is scheduled so often for each.
LoseScheduling(V, times) ==
    /\ drops < MaxDrops
    /\ drops' = drops + 1
    /\ socket' = [v \in Viewers |-> IF v \in V THEN "none" ELSE socket[v]]
    /\ frames' = [v \in Viewers |-> IF v \in V THEN <<>> ELSE frames[v]]
    /\ reopens' = [v \in Viewers |->
                      reopens[v] + IF v \in V /\ Live(v) THEN times ELSE 0]
    /\ views' = [v \in Viewers |-> IF v \in V THEN Unsent(views[v]) ELSE views[v]]
    /\ UNCHANGED entered

\* Mutants: a lost socket is not opened again; or by onerror and by onclose.
Lose_NoRetry(V) == LoseScheduling(V, 0)
Lose_Twice(V) == LoseScheduling(V, 2)

\* onclose: openWs in two seconds.
Lose(V) == LoseScheduling(V, 1)

Drop(v) ==
    /\ Live(v)
    /\ Lose({v})
    /\ UNCHANGED <<source, hub, fetches, shown, excused>>

-----------------------------------------------------------------------------
(* Failures.                                                               *)

\* The PUBLISH fails after the SET: the caller gets an error, the others nothing.
PublishFails(c) ==
    /\ MayFail /\ writer[c] = "saved"
    /\ writer' = [writer EXCEPT ![c] = "idle"]
    /\ Excuse(Viewers)
    /\ UNCHANGED <<doc, roster, written, clock, hub, page, fetches, views, shown>>

\* A tick fails before its SET, or at the PUBLISH of the turn it has ended.
TickFails ==
    /\ MayFail /\ clock.pc # "sleep"
    /\ clock' = [write |-> 0, pc |-> "sleep"]
    /\ IF clock.pc = "saved" THEN Excuse(Viewers) ELSE UNCHANGED excused
    /\ UNCHANGED <<doc, roster, written, writer, hub, page, fetches, views, shown>>

\* The subscriber task ends with the first exception that is not a malformed
\* channel name; nothing starts it again.
SubscriberDies ==
    /\ MayFail /\ listening
    /\ listening' = FALSE /\ channel' = 0 /\ targets' = {}
    /\ Excuse(Viewers)
    /\ UNCHANGED <<source, page, fetches, views, shown>>

\* refetch swallows its errors.
FetchFails(v) ==
    /\ MayFail /\ fetches[v] > 0
    /\ fetches' = [fetches EXCEPT ![v] = @ - 1]
    /\ Excuse({v})
    /\ UNCHANGED <<source, hub, page, views, shown>>

\* The server process restarts: rooms, tasks and requests are gone.
Restart ==
    /\ MayFail
    /\ Lose(Viewers)
    /\ writer' = [c \in Writers |-> "idle"]
    /\ clock' = [write |-> 0, pc |-> "sleep"]
    /\ channel' = 0 /\ listening' = TRUE /\ targets' = {}
    /\ fetches' = [v \in Viewers |-> 0]
    /\ UNCHANGED <<doc, roster, written, shown, excused>>

-----------------------------------------------------------------------------

Server ==
    \/ \E c \in Writers : AnnounceDocument(c) \/ CommitElimination(c)
    \/ TickSave \/ TickAnnounce
    \/ TakeEvent
    \/ \E v \in Viewers :
          SendInvalidate(v) \/ Greet(v) \/ JoinRoom(v) \/ AnswerFetch(v)

Browser(v) == Receive(v) \/ RenderAnswer(v) \/ Reopen(v)

Next ==
    \/ \E c \in Writers :
          SaveDocument(c) \/ AnnounceElimination(c) \/ PublishFails(c)
    \/ TickRead \/ TickFails
    \/ Server
    \/ \E v \in Viewers :
          Browser(v) \/ EnterTable(v) \/ Drop(v) \/ FetchFails(v)
    \/ SubscriberDies
    \/ Restart

Spec == Init /\ [][Next]_vars

\* The event loop runs the tasks that can run, connections carry what was sent
\* over them, and the browser runs its timers and handlers.
Fairness ==
    /\ \A c \in Writers : WF_vars(AnnounceDocument(c) \/ CommitElimination(c))
    /\ WF_vars(TickSave \/ TickAnnounce)
    /\ WF_vars(TakeEvent)
    /\ \A v \in Viewers :
          /\ WF_vars(SendInvalidate(v)) /\ WF_vars(Greet(v)) /\ WF_vars(JoinRoom(v))
          /\ WF_vars(AnswerFetch(v)) /\ WF_vars(Receive(v))
          /\ WF_vars(RenderAnswer(v)) /\ WF_vars(Reopen(v))

FairSpec == Spec /\ Fairness

-----------------------------------------------------------------------------
(* Properties.                                                             *)

\* Nothing the server has begun, and nothing on its way, will change what v sees.
Settled(v) ==
    /\ socket[v] = "joined" /\ frames[v] = <<>>
    /\ fetches[v] = 0 /\ views[v] = <<>>
    /\ channel = 0 /\ v \notin targets
    /\ \A c \in Writers : writer[c] = "idle"
    /\ clock.pc # "saved"

\* "the client refetches the REST snapshot" (routes.py): a change of the table that
\* is on nobody's way any more is on every screen of the room, but for the five
\* things above.  No interleaving of writers, fan-out, reconnects and fetches
\* leaves a screen behind for another reason.
StaleOnlyForAReason ==
    \A v \in Viewers : Settled(v) /\ shown[v] # Table => v \in excused

\* Every entry of a page to the table keeps exactly one thing alive: its socket or
\* one scheduled openWs.  With a second entry there is always a timer that closes
\* the socket the page has.
OneReconnectPerEntry ==
    \A v \in Viewers :
        reopens[v] + (IF Live(v) THEN 1 ELSE 0) = entered[v]

\* A page that entered once gets back into the room after every loss, and is
\* told of everything announced there: it does not stay on its way for ever.
PagesSettle ==
    \A v \in Viewers : <>[](entered[v] # 1 \/ Settled(v))

=============================================================================
