------------------------------ MODULE Creation ------------------------------
(***************************************************************************)
(* The creation wizard of the bot: scenario, role delivery, player count,  *)
(* roles, summary, and the game opened with its code or its seat grid.     *)
(*                                                                         *)
(* A handler's steps are: run (its reads, and the writes that follow them  *)
(* at once), stash and switch (writes to the FSM context after a read of   *)
(* it or database work), insert (the rows of an opening), show (the edit   *)
(* or message) and commit (the middleware's).  Any step may fail: the      *)
(* transaction is rolled back, and the FSM context and the screens stay    *)
(* as they are.  The keyboards of earlier wizards stay in the chat and     *)
(* can be tapped.                                                          *)
(***************************************************************************)
EXTENDS CustomRoles, Sequences

CONSTANTS
    Admits,          \* per kind of scenario, the player counts it supports
    Compositions,    \* the sets of catalogue roles a flexible one resolves to
    FixedRoles,      \* those a fixed scenario prescribes
    Loads            \* bound: how much a behaviour may have of what, see Under

ASSUME AdmitsCounts == Admits \in [Scenarios -> SUBSET Counts]
ASSUME CountsArePositive == Counts \subseteq Nat \ {0}
ASSUME CompositionsOfRoles ==
    Compositions \subseteq SUBSET CatalogRoles /\ FixedRoles \in SUBSET CatalogRoles

VARIABLES
    game,            \* per identifier, the games row and the pools it opened with
    spoilt           \* history: games whose opening failed to commit

vars == <<conversation, library, game, spoilt>>

GameStates == {"free", "inserted", "rolled_back", "CREATING",
               "WAITING_PLAYERS"}
GameRow == [state : GameStates, count : Counts \cup {0}, mode : Modes,
            pools : Seq(Pools)]
NoRow == [state |-> "free", count |-> 0, mode |-> "MANUAL_ROLE_SELECTION",
          pools |-> <<>>]

TypeOK ==
    /\ ConversationTypeOK
    /\ LibraryTypeOK
    /\ game \in [Games -> GameRow]
    /\ spoilt \subseteq Games

Init ==
    /\ ConversationInit
    /\ LibraryInit
    /\ game = [g \in Games |-> NoRow]
    /\ spoilt = {}

rows == <<library, game, spoilt>>

-----------------------------------------------------------------------------
(* Taking up an update. *)

Runs(u, op) == job[u].op = op /\ job[u].step = "run"

\* Bound: an identifier is left for every game asked for.
GamesLeft ==
    Cardinality({g \in Games : game[g].state = "free"})
      > Cardinality({u \in Updates : Runs(u, "count")})

\* The updates that will be answered with a new message
Sending == {u \in Updates : /\ job[u].op \in {"start", "count"}
                            /\ job[u].on = NewMessage /\ job[u].step # "commit"}

\* The messages with a keyboard, or with an update that may yet put one there
Sent == {m \in Messages : screen[m] # Blank \/ \E u \in Updates : job[u].on = m}

\* Bound: a message is left for every keyboard to be sent.
MessagesLeft == Cardinality(Messages \ Sent) > Cardinality(Sending)

\* The behaviour has no more than load l: keyboards in the chat, games and roles
\* asked for so far, and overlaps, failures and stray taps so far.
Under(l) ==
    /\ trouble <= l.trouble
    /\ Cardinality({r \in RoleIds : library[r].state # "free"})
         + Cardinality(Storing) <= l.roles
    /\ Cardinality({g \in Games : game[g].state # "free"})
         + Cardinality({u \in Updates : Runs(u, "count")}) <= l.games
    /\ Cardinality(Sent) + Cardinality(Sending) <= l.keyboards

\* Bound: a behaviour stays below one of the loads, so that one with many
\* overlaps has fewer keyboards, games or roles.  Whatever adds to the load says
\* so; what finishes an update never does.
WithinBounds == \E l \in Loads : Under(l)

\* /create_game and the menu button: the wizard starts over.
Start(u) ==
    /\ Taken(u, [Idle EXCEPT !.op = "start", !.step = "show"])
    /\ MessagesLeft
    /\ chat' = [Cleared EXCEPT !.state = "choose_scenario"]
    /\ Counted(AllIdle)
    /\ UNCHANGED <<screen, rows>>
    /\ WithinBounds'

Tap(u) ==
    /\ \E m \in Messages :
          \/ \E s \in Scenarios :
                Tapped(u, m, "scenario", [Idle EXCEPT !.scenario = s])
          \/ \E d \in Modes : Tapped(u, m, "mode", [Idle EXCEPT !.mode = d])
          \/ \E n \in Counts :
                GamesLeft /\ Tapped(u, m, "count", [Idle EXCEPT !.count = n])
          \/ \E r \in screen[m].offers :
                Tapped(u, m, "toggle", [Idle EXCEPT !.role = r])
          \/ \E op \in {"other_scenario", "confirm", "cancel", "back",
                        "finalize"} : Tapped(u, m, op, Idle)
    /\ UNCHANGED rows
    /\ WithinBounds'

\* A player count typed instead of tapped: answered with a new message
TypeCount(u) ==
    /\ chat.state = "choose_player_count"
    /\ GamesLeft
    /\ MessagesLeft
    /\ \E n \in Counts : Taken(u, [Idle EXCEPT !.op = "count", !.count = n])
    /\ Counted(AllIdle)
    /\ UNCHANGED <<chat, screen, rows>>
    /\ WithinBounds'

-----------------------------------------------------------------------------

PickScenario(u) ==
    /\ Runs(u, "scenario")
    /\ chat' = [chat EXCEPT !.state = "choose_role_mode",
                            !.scenario = job[u].scenario]
    /\ To(u, "show")
    /\ UNCHANGED <<screen, trouble, rows>>

\* on_scenario_pick with "__back__": the picker again, the state as it is
OtherScenario(u) ==
    /\ Runs(u, "other_scenario")
    /\ To(u, "show")
    /\ UNCHANGED <<chat, screen, trouble, rows>>

PickMode(u) ==
    /\ Runs(u, "mode")
    /\ chat' = [chat EXCEPT !.state = "choose_player_count",
                            !.mode = job[u].mode]
    /\ To(u, "show")
    /\ UNCHANGED <<screen, trouble, rows>>

\* The composition of a fixed scenario
Prescribed(count) == [size |-> count, roles |-> FixedRoles, customs |-> {}]

\* _begin_after_count: the scenario does not support the count.
RefuseCount(u) ==
    /\ Runs(u, "count")
    /\ job[u].count \notin Admits[chat.scenario]
    /\ Done(u)
    /\ UNCHANGED <<chat, screen, trouble, rows>>

\* _begin_after_count: the games row is inserted, not yet committed.
CreateGame(u) ==
    /\ Runs(u, "count")
    /\ job[u].count \in Admits[chat.scenario]
    /\ \E g \in Games :
          /\ game[g].state = "free"
          /\ game' = [game EXCEPT ![g] = [NoRow EXCEPT !.state = "inserted",
                                             !.count = job[u].count,
                                             !.mode = chat.mode]]
          /\ job' = [job EXCEPT ![u].game = g, ![u].step = "stash",
                                ![u].scenario = chat.scenario]
    /\ UNCHANGED <<chat, screen, trouble, library, spoilt>>

\* Mutant: the game's id is kept, its player count is not.
Stashed_NoCount(u) == [chat EXCEPT !.game = job[u].game, !.picks = {}]

Stashed(u) ==
    [chat EXCEPT !.game = job[u].game, !.count = job[u].count, !.picks = {}]

Stash(u) ==
    /\ job[u].op = "count" /\ job[u].step = "stash"
    /\ chat' = Stashed(u)
    /\ To(u, "switch")
    /\ UNCHANGED <<screen, trouble, rows>>

-----------------------------------------------------------------------------
(* Choosing roles.  Without a player count in the data, data["player_count"]
   raises: a /create_game cleared it after the filter passed. *)

KeyMissing(u) ==
    /\ job[u].op \in {"toggle", "confirm", "back"} /\ job[u].step = "run"
    /\ chat.count = 0
    /\ Done(u)
    /\ UNCHANGED <<chat, screen, trouble, rows>>

Toggled(picks, r) == IF r \in picks THEN picks \ {r} ELSE picks \cup {r}

\* on_role_toggle works on the ticks it has read.  A role is refused when the
\* ticks, the catalogue's included, are one per seat.
Toggle(u) ==
    /\ Runs(u, "toggle") /\ chat.count # 0
    /\ \/ /\ job[u].role \notin chat.picks
          /\ Done(u)
       \/ /\ job[u].role \in chat.picks \/ Cardinality(chat.picks) < chat.count
          /\ job' = [job EXCEPT ![u].picks = Toggled(chat.picks, job[u].role),
                                ![u].step = "stash"]
    /\ UNCHANGED <<chat, screen, trouble, rows>>

\* ... and writes them back, over a tick that came between.
StashPicks(u) ==
    /\ job[u].op = "toggle" /\ job[u].step = "stash"
    /\ chat' = [chat EXCEPT !.picks = job[u].picks]
    /\ To(u, "show")
    /\ UNCHANGED <<screen, trouble, rows>>

\* The picks that are still in the owner's library
Chosen == chat.picks \cap Active

Confirm(u) ==
    /\ Runs(u, "confirm") /\ chat.count # 0
    /\ \E rs \in Compositions :
          /\ rs \cup Chosen # {}
          /\ job' = [job EXCEPT ![u].step = "switch",
                                ![u].pool = [size |-> chat.count, roles |-> rs,
                                             customs |-> Chosen]]
    /\ UNCHANGED <<chat, screen, trouble, rows>>

\* The resolver refuses the selection, or finalize finds no composition.
Refuse(u) ==
    /\ \/ Runs(u, "confirm") /\ chat.count # 0
       \/ Runs(u, "finalize") /\ chat.pool = NoPool
    /\ Done(u)
    /\ UNCHANGED <<chat, screen, trouble, rows>>

Cancel(u) ==
    /\ Runs(u, "cancel")
    /\ chat' = Cleared
    /\ To(u, "show")
    /\ UNCHANGED <<screen, trouble, rows>>

Back(u) ==
    /\ Runs(u, "back") /\ chat.count # 0
    /\ job' = [job EXCEPT ![u].scenario = chat.scenario,
                          ![u].step = IF chat.scenario = "fixed" THEN "show"
                                      ELSE "switch"]
    /\ chat' = [chat EXCEPT !.state = IF chat.scenario = "fixed"
                                      THEN "choose_scenario" ELSE @]
    /\ UNCHANGED <<screen, trouble, rows>>

-----------------------------------------------------------------------------
(* Finalizing.  configure_roles checks the row without a lock; what keeps a
   second configuration away is the row's status, once the first has been
   committed, and UNIQUE(game_id, role_id) where they have a role in common. *)

\* Mutant: the total is held against the wizard's count, not the game's.
FillsTable_Wizards(g) == chat.pool.size = chat.count

FillsTable(g) == chat.pool.size = game[g].count

Configurable(g) ==
    /\ game[g].state = "CREATING"
    /\ FillsTable(g)
    /\ chat.pool.customs \subseteq Active

ConfigureRoles(u) ==
    /\ Runs(u, "finalize") /\ chat.pool # NoPool
    /\ IF Configurable(job[u].game)
       THEN job' = [job EXCEPT ![u].pool = chat.pool, ![u].step = "insert"]
       ELSE Done(u)
    /\ UNCHANGED <<chat, screen, trouble, rows>>

\* An opening has written the game_roles rows and the games row, and not
\* committed them: another UPDATE of the games row waits for it.
BeingOpened(g) ==
    \E u \in Updates : /\ job[u].op = "finalize" /\ job[u].game = g
                       /\ job[u].step \notin {"run", "insert"}

Share(p, q) == p.roles \cap q.roles # {} \/ p.customs \cap q.customs # {}

\* Mutant: no unique index on a game's roles.
Collides_No(g, pool) == FALSE

Collides(g, pool) == \E i \in DOMAIN game[g].pools : Share(game[g].pools[i], pool)

\* The rows and the status are flushed; an IntegrityError ends the handler.
InsertRoles(u) ==
    /\ job[u].op = "finalize" /\ job[u].step = "insert"
    /\ ~BeingOpened(job[u].game)
    /\ IF Collides(job[u].game, job[u].pool)
       THEN Done(u)
       ELSE To(u, "switch")
    /\ UNCHANGED <<chat, screen, trouble, rows>>

\* Mutant: the mode the wizard is in now.
PhoneGame_Wizards(u) == chat.mode = "SINGLE_DEVICE"

\* The mode of the row that was opened
PhoneGame(u) == game[job[u].game].mode = "SINGLE_DEVICE"

\* Mutant: a composition stashed before is kept.
Summarised_PoolKept(pool) ==
    [chat EXCEPT !.state = "confirm_summary",
                 !.pool = IF @ = NoPool THEN pool ELSE @]

\* _show_summary: the state, and the quantities finalize will read
Summarised(pool) == [chat EXCEPT !.state = "confirm_summary", !.pool = pool]

\* The FSM context once the handler has done its database work
Switched(u) ==
    CASE job[u].op = "back" -> [chat EXCEPT !.state = "choose_roles"]
      [] job[u].op = "finalize" ->
           [chat EXCEPT !.game = job[u].game,
                        !.state = IF PhoneGame(u) THEN "single_device"
                                  ELSE "waiting_players"]
      [] job[u].op = "confirm" -> Summarised(job[u].pool)
      [] job[u].op = "count" /\ job[u].scenario = "flexible" ->
           [chat EXCEPT !.state = "choose_roles"]
      [] job[u].op = "count" /\ job[u].scenario = "fixed" ->
           Summarised(Prescribed(job[u].count))

Switch(u) ==
    /\ job[u].op \in {"count", "confirm", "back", "finalize"}
    /\ job[u].step = "switch"
    /\ chat' = Switched(u)
    /\ To(u, "show")
    /\ UNCHANGED <<screen, trouble, rows>>

-----------------------------------------------------------------------------

RolesBoard(g) == Board("roles", g, NoPool, Active)
SummaryBoard(g, pool) == Board("summary", g, pool, {})

\* What the handler leaves on the screen
Result(u) ==
    LET g == job[u].game
    IN  CASE job[u].op \in {"start", "other_scenario"} -> Plain("picker")
          [] job[u].op = "scenario" -> Plain("modes")
          [] job[u].op = "mode" -> Plain("counts")
          [] job[u].op = "count" ->
               IF job[u].scenario = "fixed"
               THEN SummaryBoard(g, Prescribed(job[u].count))
               ELSE RolesBoard(g)
          [] job[u].op = "toggle" -> RolesBoard(g)
          [] job[u].op = "confirm" -> SummaryBoard(g, job[u].pool)
          [] job[u].op = "cancel" -> Blank
          [] job[u].op = "back" ->
               IF job[u].scenario = "fixed" THEN Plain("picker")
               ELSE RolesBoard(g)
          [] job[u].op = "finalize" ->
               Board(IF PhoneGame(u) THEN "grid" ELSE "code", g, NoPool, {})

\* Mutant: the opening runs outside the middleware's transaction.
HasCommit_CountOnly(u) == job[u].op = "count"

\* The handlers with rows for the middleware to commit
HasCommit(u) == job[u].op \in {"count", "finalize"}

Show(u) ==
    /\ job[u].step = "show"
    /\ \E m \in Messages : Shows(u, m, Result(u))
    /\ IF HasCommit(u) THEN To(u, "commit") ELSE Done(u)
    /\ UNCHANGED <<chat, trouble, rows>>

Commit(u) ==
    /\ HasCommit(u) /\ job[u].step = "commit"
    /\ game' = IF job[u].op = "count"
               THEN [game EXCEPT ![job[u].game].state = "CREATING"]
               ELSE [game EXCEPT ![job[u].game].state = "WAITING_PLAYERS",
                                 ![job[u].game].pools = Append(@, job[u].pool)]
    /\ Done(u)
    /\ UNCHANGED <<chat, screen, trouble, library, spoilt>>

\* Telegram, Redis or the database fails the handler: rollback.
Fail(u) ==
    /\ job[u].op \notin {"idle", "describe"}
    /\ job[u].step # "run"
    /\ game' = IF job[u].op = "count"
               THEN [game EXCEPT ![job[u].game].state = "rolled_back"]
               ELSE game
    /\ spoilt' = IF job[u].op = "finalize" /\ job[u].step = "commit"
                 THEN spoilt \cup {job[u].game} ELSE spoilt
    /\ Done(u)
    /\ Counted(FALSE)
    /\ UNCHANGED <<chat, screen, library>>
    /\ WithinBounds'

Next ==
    \/ LibraryNext /\ UNCHANGED <<game, spoilt>> /\ WithinBounds'
    \/ Reset /\ UNCHANGED rows /\ WithinBounds'
    \/ \E u \in Updates :
          \/ Start(u)
          \/ Tap(u)
          \/ TypeCount(u)
          \/ PickScenario(u)
          \/ OtherScenario(u)
          \/ PickMode(u)
          \/ RefuseCount(u)
          \/ CreateGame(u)
          \/ Stash(u)
          \/ KeyMissing(u)
          \/ Toggle(u)
          \/ StashPicks(u)
          \/ Confirm(u)
          \/ Refuse(u)
          \/ Cancel(u)
          \/ Back(u)
          \/ ConfigureRoles(u)
          \/ InsertRoles(u)
          \/ Switch(u)
          \/ Show(u)
          \/ Commit(u)
          \/ Fail(u)

Spec == Init /\ [][Next]_vars

-----------------------------------------------------------------------------

\* Each composition a game was opened with has a role for each of the game's
\* own seats, whichever wizard's it is (configure_roles' total against the row's
\* player_count), and a game is opened with one only: a second one takes
\* confirmations that overlap, and shares no role with the first.
PoolFillsItsTable ==
    \A g \in Games : game[g].state = "WAITING_PLAYERS" =>
        /\ game[g].pools # <<>>
        /\ \A i \in DOMAIN game[g].pools : game[g].pools[i].size = game[g].count
        /\ \A i, j \in DOMAIN game[g].pools :
              i = j \/ (~Tidy /\ ~Share(game[g].pools[i], game[g].pools[j]))

\* "Single-device games never expose a join code" (on_summary_finalize): the
\* wizard's messages do not, whichever wizard and whichever game's keyboard.
\* The screens of "my games" do (info.py:132, texts.py:359): they are not among
\* these messages.
WizardHidesPhoneCodes ==
    \A m \in Messages : screen[m].kind = "code" =>
        game[screen[m].game].mode # "SINGLE_DEVICE"

\* A game whose code or seat grid is on the screen is open, or its handler is at
\* the commit, or such a commit failed: the edit precedes it.
AnnouncedGamesAreOpen ==
    \A m \in Messages : screen[m].kind \in {"code", "grid"} =>
        LET g == screen[m].game
        IN  \/ game[g].state = "WAITING_PLAYERS"
            \/ \E u \in Updates : /\ job[u].op = "finalize" /\ job[u].game = g
                                  /\ job[u].step = "commit"
            \/ g \in spoilt

\* No two active roles of the owner share a name, however many creations
\* pass the check together.
ActiveNamesAreUnique ==
    \A r, s \in Active : library[r].name = library[s].name => r = s

\* The cap holds one creation at a time; creations that overlap can pass it
\* by the other updates in flight, and no further.
CapIsNearlyKept ==
    Cardinality(Active)
      <= MaxActive + (IF Tidy THEN 0 ELSE Cardinality(Updates) - 1)

\* One update at a time and without failures, the wizard never strands the
\* creator: in each of its states some message has keys that state answers,
\* for the game, the count and the composition in the FSM data.
WizardGoesOn ==
    (Tidy /\ AllIdle /\ \E k \in Kinds : \E op \in Buttons(k) :
                           chat.state = HandledIn(op)) =>
        \E m \in Messages :
           /\ Buttons(screen[m].kind) \ {"other_scenario"} # {}
           /\ \A op \in Buttons(screen[m].kind) \ {"other_scenario"} :
                 HandledIn(op) = chat.state
           /\ screen[m].game # NoGame =>
                 /\ screen[m].game = chat.game
                 /\ game[chat.game].state = "CREATING"
                 /\ game[chat.game].count = chat.count
           /\ screen[m].kind = "summary" => screen[m].pool = chat.pool

\* One update at a time, a game opens with the composition its summary showed,
\* also after going back, other choices and deleted roles.
OpensAsShown ==
    \A u \in Updates :
        (Tidy /\ job[u].op = "finalize" /\ job[u].step # "run") =>
            job[u].pool = job[u].seen

\* "... clear/rename is not required because we filter on is_active everywhere
\* the constraint matters" (models/custom_role.py): a creation that passed the
\* checks, with no other under way, can be stored.
CheckedNameIsFree ==
    \A u \in Updates :
        (/\ job[u].op = "describe" /\ job[u].step = "run"
         /\ Accepted /\ ~NameHeld(chat.name)) => MayInsert(chat.name)

=============================================================================
