---------------------------- MODULE CreationProofs --------------------------
(***************************************************************************)
(* Proofs about Creation: for any number of overlapping updates,           *)
(* messages, games, compositions and custom roles, each composition a      *)
(* game opens with fills its table, and a second one takes overlapping     *)
(* confirmations that share no role; the wizard's messages hide the code   *)
(* of a game played on one phone; what the chat announces is open, or its  *)
(* commit failed; the owner's active roles have different names, and       *)
(* overlapping creations pass the cap on them by the updates in flight at  *)
(* most.  One update at a time, the wizard always leaves a keyboard that   *)
(* works, and opens the composition it showed.                             *)
(***************************************************************************)
EXTENDS Creation, FiniteSetTheorems, TLAPS

\* The updates that have a row inserted, or a game's opening under way
Making(u) == job[u].op = "describe" /\ job[u].step # "run"
Inserting(u) == job[u].op = "count" /\ job[u].step # "run"
Opening(u) == job[u].op = "finalize" /\ job[u].step # "run"

\* An update that leaves no screen has no screen to show.
NothingToShow ==
    \A u \in Updates : /\ job[u].op = "describe" => job[u].step # "show"
                       /\ job[u].op = "idle" => job[u].step = "run"

\* Each creation of a role in flight has inserted a row of its own.
RolesInTheMaking ==
    /\ \A u \in Updates :
          Making(u) => /\ job[u].role \in RoleIds
                       /\ library[job[u].role].state = "inserted"
    /\ \A u, v \in Updates :
          Making(u) /\ Making(v) /\ job[u].role = job[v].role => u = v

\* What the unique index and the wait for its holders come to: the rows that
\* have a name, open transactions' included, have different ones.
NamesAreHeldOnce ==
    \A r, s \in RoleIds :
       /\ library[r].state \in {"inserted", "active", "deleted"}
       /\ library[s].state \in {"inserted", "active", "deleted"}
       /\ library[r].name = library[s].name
       => r = s

\* Each creation of a game in flight has inserted a row of its own.
GamesInTheMaking ==
    /\ \A u \in Updates :
          Inserting(u) => /\ job[u].game \in Games
                          /\ game[job[u].game].state = "inserted"
    /\ \A u, v \in Updates :
          Inserting(u) /\ Inserting(v) /\ job[u].game = job[v].game => u = v

\* The openings whose rows are written; their code or grid is shown at the last.
Written(u) == Opening(u) /\ job[u].step # "insert"
Announcing(u) == Opening(u) /\ job[u].step = "commit"

\* Each opening in flight has a pool that fills its game, and another opening
\* got ahead of it only if confirmations overlapped.  Its written rows collide
\* with no committed ones, and are the only ones of the game.
OpeningsFit ==
    /\ \A u \in Updates :
          Opening(u) => /\ job[u].game \in Games
                        /\ game[job[u].game].state \in {"CREATING", "WAITING_PLAYERS"}
                        /\ job[u].pool.size = game[job[u].game].count
                        /\ game[job[u].game].pools # <<>> => ~Tidy
    /\ \A u \in Updates : Written(u) => ~Collides(job[u].game, job[u].pool)
    /\ \A u, v \in Updates :
          Written(u) /\ Written(v) /\ job[u].game = job[v].game => u = v

PoolsComeWithOpening ==
    \A g \in Games : game[g].state # "WAITING_PLAYERS" => game[g].pools = <<>>

\* Ordinary use takes up one update at a time.
OneAtATime ==
    Tidy => \A u, v \in Updates :
               job[u].op # "idle" /\ job[v].op # "idle" => u = v

\* Keyboards and handlers that act on a game, or on a role, have one.
ArgumentsExist ==
    /\ \A m \in Messages :
          screen[m].kind \in {"roles", "summary", "code", "grid"} =>
              screen[m].game \in Games
    /\ \A u \in Updates :
          /\ job[u].op \in {"toggle", "confirm", "back", "finalize"} =>
                 job[u].game \in Games
          /\ job[u].op = "toggle" => job[u].role \in RoleIds

SpoiltExist == \A g \in spoilt : game[g].state # "free"

IInv ==
    /\ TypeOK
    /\ NothingToShow
    /\ RolesInTheMaking
    /\ NamesAreHeldOnce
    /\ GamesInTheMaking
    /\ OpeningsFit
    /\ PoolsComeWithOpening
    /\ OneAtATime
    /\ ArgumentsExist
    /\ SpoiltExist
    /\ PoolFillsItsTable
    /\ WizardHidesPhoneCodes
    /\ AnnouncedGamesAreOpen

-----------------------------------------------------------------------------
(* Who writes what, and how an update's handling goes on. *)

\* Which actions write the screens, the rows and the FSM context.
LEMMA WhoWrites ==
    ASSUME Next
    PROVE  /\ \/ screen' = screen
              \/ \E u \in Updates : Show(u)
           /\ \/ library' = library
              \/ \E u \in Updates : Create(u) \/ CreateCommit(u) \/ CreateRollback(u)
              \/ \E r \in RoleIds : Delete(r)
           /\ \/ game' = game
              \/ \E u \in Updates : CreateGame(u) \/ Commit(u) \/ Fail(u)
           /\ \/ spoilt' = spoilt
              \/ \E u \in Updates : Fail(u)
           /\ \/ chat' = chat
              \/ NewRole \/ ChooseTeam \/ Reset
              \/ \E name \in Names : EnterName(name)
              \/ \E u \in Updates :
                    \/ CreateTold(u) \/ Start(u) \/ PickScenario(u) \/ PickMode(u)
                    \/ Stash(u) \/ StashPicks(u) \/ Cancel(u) \/ Back(u) \/ Switch(u)
<1>1. CASE LibraryNext /\ UNCHANGED <<game, spoilt>>
  BY <1>1 DEF LibraryNext, NewRole, EnterName, ChooseTeam, Describe, CreateFails, Create,
              CreateTold, CreateCommit, CreateRollback, Delete, conversation
<1>2. CASE Reset /\ UNCHANGED rows
  BY <1>2 DEF rows, Reset
<1>3. ASSUME NEW u \in Updates,
             \/ Start(u) \/ Tap(u) \/ TypeCount(u) \/ PickScenario(u)
             \/ OtherScenario(u) \/ PickMode(u) \/ RefuseCount(u)
      PROVE  /\ library' = library /\ game' = game /\ spoilt' = spoilt /\ screen' = screen
             /\ chat' = chat \/ Start(u) \/ PickScenario(u) \/ PickMode(u)
  BY <1>3 DEF rows, Start, Tap, Tapped, TypeCount, PickScenario, OtherScenario, PickMode,
              RefuseCount
<1>4. ASSUME NEW u \in Updates,
             \/ CreateGame(u) \/ Stash(u) \/ KeyMissing(u) \/ Toggle(u)
             \/ StashPicks(u) \/ Confirm(u) \/ Refuse(u) \/ Cancel(u) \/ Back(u)
      PROVE  /\ library' = library /\ spoilt' = spoilt /\ screen' = screen
             /\ game' = game \/ CreateGame(u)
             /\ chat' = chat \/ Stash(u) \/ StashPicks(u) \/ Cancel(u) \/ Back(u)
  BY <1>4 DEF rows, CreateGame, Stash, KeyMissing, Toggle, StashPicks, Confirm, Refuse,
              Cancel, Back
<1>5. ASSUME NEW u \in Updates,
             ConfigureRoles(u) \/ InsertRoles(u) \/ Switch(u) \/ Show(u) \/ Commit(u) \/ Fail(u)
      PROVE  /\ library' = library
             /\ game' = game \/ Commit(u) \/ Fail(u)
             /\ spoilt' = spoilt \/ Fail(u)
             /\ screen' = screen \/ Show(u)
             /\ chat' = chat \/ Switch(u)
  BY <1>5 DEF rows, ConfigureRoles, InsertRoles, Switch, Show, Commit, Fail
<1>6. CASE \E u \in Updates :
              \/ Start(u) \/ Tap(u) \/ TypeCount(u) \/ PickScenario(u)
              \/ OtherScenario(u) \/ PickMode(u) \/ RefuseCount(u)
  BY <1>6, <1>3
<1>7. CASE \E u \in Updates :
              \/ CreateGame(u) \/ Stash(u) \/ KeyMissing(u) \/ Toggle(u)
              \/ StashPicks(u) \/ Confirm(u) \/ Refuse(u) \/ Cancel(u) \/ Back(u)
  BY <1>7, <1>4
<1>8. CASE \E u \in Updates :
              ConfigureRoles(u) \/ InsertRoles(u) \/ Switch(u) \/ Show(u) \/ Commit(u) \/ Fail(u)
  BY <1>8, <1>5
<1>9. QED
  BY <1>1, <1>2, <1>6, <1>7, <1>8 DEF Next

LEMMA ResetsAreTyped ==
    Cleared \in Contexts /\ NoPool \in Pools /\ Idle \in Jobs /\ Blank \in Screens
    BY DEF Cleared, Contexts, CreateGameStates, CustomRoleStates, Scenarios, Modes,
           NoPool, Pools, Idle, Jobs, Ops, Steps, Blank, Plain, Board, Screens, Kinds

OthersKept(u) == \A v \in Updates \ {u} : job'[v] = job[v]

\* Update u is taken up.
Begins(u) ==
    /\ job[u].op = "idle"
    /\ job'[u].op # "idle"
    /\ job'[u].op \in {"describe", "count", "finalize"} => job'[u].step = "run"
    /\ job'[u].op \in {"toggle", "confirm", "back", "finalize"} =>
          \E m \in Messages : /\ screen[m].kind \in {"roles", "summary"}
                              /\ job'[u].game = screen[m].game
    /\ job'[u].op = "toggle" => job'[u].role \in RoleIds

\* It takes a step that inserts no row and opens no game ...
GoesOn(u) ==
    /\ job'[u].op = job[u].op /\ job'[u].game = job[u].game
    /\ job'[u].role = job[u].role
    /\ job'[u].op = "finalize" => /\ job'[u].pool = job[u].pool
                                 /\ job'[u].step # "insert"
                                 /\ job[u].step \notin {"insert", "commit"}
    /\ job'[u].step # "run"
    /\ job[u].step = "run" => job[u].op \notin {"describe", "count", "finalize"}

\* ... or ends; an opening by its commit or a failure only.
Ends(u) ==
    /\ job'[u].op = "idle"
    /\ Opening(u) => Commit(u) \/ Fail(u)

JobTypeOK == job \in [Updates -> Jobs]

\* What the update's slot and the others' are after Done, To and Taken.
LEMMA DoneEnds ==
    ASSUME JobTypeOK, NEW u \in Updates, Done(u)
    PROVE  /\ JobTypeOK' /\ OthersKept(u)
           /\ job'[u].op = "idle" /\ job'[u].step = "run"
    BY ResetsAreTyped DEF Done, JobTypeOK, OthersKept, Idle

LEMMA ToGoesOn ==
    ASSUME JobTypeOK, NEW u \in Updates, NEW s \in Steps, To(u, s)
    PROVE  /\ JobTypeOK' /\ OthersKept(u)
           /\ job'[u].op = job[u].op /\ job'[u].step = s
           /\ job'[u].game = job[u].game /\ job'[u].role = job[u].role
           /\ job'[u].pool = job[u].pool
    BY DEF To, JobTypeOK, OthersKept, Jobs

LEMMA TakenBegins ==
    ASSUME JobTypeOK, NEW u \in Updates, NEW new \in Jobs, Taken(u, new)
    PROVE  /\ JobTypeOK' /\ OthersKept(u) /\ job[u].op = "idle" /\ job'[u] = new
    BY DEF Taken, JobTypeOK, OthersKept, Idle

\* The two steps that give an update a game: its own new row, or one to open.
LEMMA CreateGameJob ==
    ASSUME TypeOK, NEW u \in Updates, CreateGame(u)
    PROVE  /\ JobTypeOK' /\ OthersKept(u) /\ job'[u].op = "count" /\ job'[u].step = "stash"
           /\ job[u].op = "count" /\ job[u].step = "run"
           /\ game[job'[u].game].state = "free" /\ job'[u].game \in Games
           /\ game' = [game EXCEPT ![job'[u].game] =
                          [NoRow EXCEPT !.state = "inserted", !.count = job[u].count,
                                        !.mode = chat.mode]]
<1>1. job \in [Updates -> Jobs] /\ chat.scenario \in Scenarios
  BY DEF TypeOK, ConversationTypeOK, Contexts
<1>2. PICK g \in Games :
         /\ game[g].state = "free"
         /\ game' = [game EXCEPT ![g] = [NoRow EXCEPT !.state = "inserted",
                                            !.count = job[u].count, !.mode = chat.mode]]
         /\ job' = [job EXCEPT ![u].game = g, ![u].step = "stash",
                               ![u].scenario = chat.scenario]
  BY DEF CreateGame
<1> DEFINE new == [job[u] EXCEPT !.game = g, !.step = "stash", !.scenario = chat.scenario]
<1>3. new \in Jobs /\ new.op = job[u].op /\ new.step = "stash" /\ new.game = g
  BY <1>1 DEF Jobs, Steps
<1>4. job' = [job EXCEPT ![u] = new]
  BY <1>2
<1>5. JobTypeOK' /\ OthersKept(u) /\ job'[u] = new
  BY <1>1, <1>3, <1>4 DEF JobTypeOK, OthersKept
<1>6. job[u].op = "count" /\ job[u].step = "run"
  BY DEF CreateGame, Runs
<1>7. QED
  BY <1>2, <1>3, <1>5, <1>6

LEMMA ConfigureJob ==
    ASSUME TypeOK, NEW u \in Updates, ConfigureRoles(u), Configurable(job[u].game)
    PROVE  /\ JobTypeOK' /\ OthersKept(u) /\ job'[u].op = "finalize" /\ job'[u].step = "insert"
           /\ job[u].op = "finalize" /\ job[u].step = "run"
           /\ job'[u].game = job[u].game /\ job'[u].pool = chat.pool
<1>1. job \in [Updates -> Jobs] /\ chat.pool \in Pools
  BY DEF TypeOK, ConversationTypeOK, Contexts
<1>2. job' = [job EXCEPT ![u].pool = chat.pool, ![u].step = "insert"]
  BY DEF ConfigureRoles
<1> DEFINE new == [job[u] EXCEPT !.pool = chat.pool, !.step = "insert"]
<1>3. /\ new \in Jobs /\ new.op = job[u].op /\ new.step = "insert"
      /\ new.game = job[u].game /\ new.pool = chat.pool
  BY <1>1 DEF Jobs, Steps
<1>4. job' = [job EXCEPT ![u] = new]
  BY <1>2
<1>5. JobTypeOK' /\ OthersKept(u) /\ job'[u] = new
  BY <1>1, <1>3, <1>4 DEF JobTypeOK, OthersKept
<1>6. job[u].op = "finalize" /\ job[u].step = "run"
  BY DEF ConfigureRoles, Runs
<1>7. QED
  BY <1>3, <1>5, <1>6

\* The rows are written, unless a committed one is among them.
LEMMA InsertJob ==
    ASSUME TypeOK, NEW u \in Updates, InsertRoles(u)
    PROVE  /\ JobTypeOK' /\ OthersKept(u)
           /\ job[u].op = "finalize" /\ job[u].step = "insert"
           /\ \/ job'[u].op = "idle" /\ job'[u].step = "run"
              \/ /\ job'[u].op = "finalize" /\ job'[u].step = "switch"
                 /\ job'[u].game = job[u].game /\ job'[u].pool = job[u].pool
                 /\ ~Collides(job[u].game, job[u].pool)
<1>1. JobTypeOK /\ "switch" \in Steps
  BY DEF TypeOK, ConversationTypeOK, JobTypeOK, Steps
<1>2. /\ job[u].op = "finalize" /\ job[u].step = "insert"
      /\ Done(u) \/ (To(u, "switch") /\ ~Collides(job[u].game, job[u].pool))
  BY DEF InsertRoles
<1>3. QED
  BY <1>1, <1>2, DoneEnds, ToGoesOn

\* What one update's step may do to the updates being handled.
Moves(u) ==
    /\ OthersKept(u)
    /\ \/ Begins(u)
       \/ GoesOn(u)
       \/ Ends(u)
       \/ Create(u)
       \/ CreateGame(u)
       \/ ConfigureRoles(u) /\ Configurable(job[u].game)
       \/ InsertRoles(u)

JobsAreFine == JobTypeOK /\ NothingToShow

\* A tap is taken up with the arguments of the keyboard it came from.
LEMMA TapMoves ==
    ASSUME TypeOK, NothingToShow, NEW u \in Updates, Tap(u)
    PROVE  JobsAreFine' /\ Moves(u)
<1>1. ASSUME NEW m \in Messages, NEW op, NEW arg \in Jobs, arg.step = "run",
             op = "toggle" => arg.role \in RoleIds, Tapped(u, m, op, arg)
      PROVE  JobsAreFine' /\ Moves(u)
  <2> DEFINE new == [arg EXCEPT !.op = op, !.on = m, !.game = screen[m].game,
                                !.seen = screen[m].pool]
  <2>1. screen[m].game \in Games \cup {NoGame} /\ screen[m].pool \in Pools
    BY DEF TypeOK, ConversationTypeOK, Screens
  <2>2. /\ op \in Ops \ {"idle", "describe"}
        /\ op \in {"toggle", "confirm", "back", "finalize"} =>
              screen[m].kind \in {"roles", "summary"}
    BY <1>1 DEF Tapped, Buttons, Ops
  <2>3. new \in Jobs /\ new.op = op /\ new.step = "run"
        /\ new.game = screen[m].game /\ new.role = arg.role
    BY <1>1, <2>1, <2>2 DEF Jobs
  <2>4. JobTypeOK' /\ OthersKept(u) /\ job[u].op = "idle" /\ job'[u] = new
    BY <1>1, <2>3, TakenBegins DEF Tapped, TypeOK, ConversationTypeOK, JobTypeOK
  <2>5. Begins(u)
    BY <1>1, <2>2, <2>3, <2>4 DEF Begins
  <2>6. NothingToShow'
    BY <2>2, <2>3, <2>4 DEF NothingToShow, OthersKept
  <2>7. QED
    BY <2>4, <2>5, <2>6 DEF Moves, JobsAreFine
<1>2. /\ \A s \in Scenarios : [Idle EXCEPT !.scenario = s] \in Jobs
      /\ \A s \in Scenarios : [Idle EXCEPT !.scenario = s].step = "run"
      /\ \A d \in Modes : [Idle EXCEPT !.mode = d] \in Jobs
      /\ \A d \in Modes : [Idle EXCEPT !.mode = d].step = "run"
      /\ \A n \in Counts : [Idle EXCEPT !.count = n] \in Jobs
      /\ \A n \in Counts : [Idle EXCEPT !.count = n].step = "run"
      /\ \A r \in RoleIds : [Idle EXCEPT !.role = r] \in Jobs
      /\ \A r \in RoleIds : /\ [Idle EXCEPT !.role = r].step = "run"
                            /\ [Idle EXCEPT !.role = r].role = r
      /\ Idle \in Jobs /\ Idle.step = "run"
  BY ResetsAreTyped DEF Idle, Jobs
<1>3. \A m \in Messages : screen[m].offers \subseteq RoleIds
  BY DEF TypeOK, ConversationTypeOK, Screens
<1>4. QED
  BY <1>1, <1>2, <1>3 DEF Tap

\* Every step moves at most one update, in one of the ways above.
LEMMA JobMoves ==
    ASSUME TypeOK, NothingToShow, ArgumentsExist, Next
    PROVE  /\ JobsAreFine'
           /\ job' = job \/ \E u \in Updates : Moves(u)
<1> USE DEF JobsAreFine
<1>1. JobTypeOK /\ \A s \in {"run", "stash", "switch", "show", "commit"} : s \in Steps
  BY DEF TypeOK, ConversationTypeOK, JobTypeOK, Steps
<1>2. ASSUME job' = job
      PROVE  JobsAreFine'
  BY <1>1, <1>2 DEF JobTypeOK, NothingToShow
<1>3. ASSUME NEW u \in Updates, NEW s \in {"switch", "show", "commit"}, To(u, s),
             \/ job[u].op \in {"scenario", "other_scenario", "mode", "cancel"}
             \/ job[u].op # "idle" /\ job[u].step \in {"stash", "switch", "show"}
                /\ (job[u].op = "describe" => s # "show")
      PROVE  JobsAreFine' /\ Moves(u)
  BY <1>1, <1>3, ToGoesOn DEF Moves, GoesOn, NothingToShow, OthersKept
<1>4. ASSUME NEW u \in Updates, Done(u), Opening(u) => Commit(u) \/ Fail(u)
      PROVE  JobsAreFine' /\ Moves(u)
  BY <1>1, <1>4, DoneEnds DEF Moves, Ends, NothingToShow, OthersKept
<1>5. CASE LibraryNext
  <2>1. CASE \/ NewRole \/ ChooseTeam
             \/ \E name \in Names : EnterName(name)
             \/ \E r \in RoleIds : Delete(r)
    BY <2>1, <1>2 DEF NewRole, ChooseTeam, EnterName, Delete, conversation
  <2>2. ASSUME NEW u \in Updates, Describe(u)
        PROVE  JobsAreFine' /\ Moves(u)
    <3>1. /\ [Idle EXCEPT !.op = "describe"] \in Jobs
          /\ [Idle EXCEPT !.op = "describe"].op = "describe"
          /\ [Idle EXCEPT !.op = "describe"].step = "run"
      BY ResetsAreTyped DEF Idle, Jobs, Ops
    <3>2. QED
      BY <1>1, <2>2, <3>1, TakenBegins
         DEF Describe, Moves, Begins, NothingToShow, OthersKept
  <2>3. ASSUME NEW u \in Updates, CreateFails(u) \/ CreateCommit(u) \/ CreateRollback(u)
        PROVE  JobsAreFine' /\ Moves(u)
    BY <1>4, <2>3 DEF CreateFails, CreateCommit, CreateRollback, Opening
  <2>4. ASSUME NEW u \in Updates, CreateTold(u)
        PROVE  JobsAreFine' /\ Moves(u)
    BY <1>3, <2>4 DEF CreateTold
  <2>5. ASSUME NEW u \in Updates, Create(u)
        PROVE  JobsAreFine' /\ Moves(u)
    <3>1. PICK r \in RoleIds : job' = [job EXCEPT ![u].role = r, ![u].step = "switch"]
      BY <2>5 DEF Create
    <3>2. JobTypeOK' /\ OthersKept(u) /\ job'[u].op = job[u].op /\ job'[u].step = "switch"
      BY <1>1, <3>1 DEF JobTypeOK, Jobs, OthersKept
    <3>3. QED
      BY <2>5, <3>2 DEF Create, Moves, NothingToShow, OthersKept
  <2>6. QED
    BY <1>5, <2>1, <2>2, <2>3, <2>4, <2>5 DEF LibraryNext
<1>6. CASE Reset
  BY <1>2, <1>6 DEF Reset
<1>7. ASSUME NEW u \in Updates, Start(u) \/ TypeCount(u)
      PROVE  JobsAreFine' /\ Moves(u)
  <2>1. /\ [Idle EXCEPT !.op = "start", !.step = "show"] \in Jobs
        /\ [Idle EXCEPT !.op = "start", !.step = "show"].op = "start"
        /\ \A n \in Counts :
              /\ [Idle EXCEPT !.op = "count", !.count = n] \in Jobs
              /\ [Idle EXCEPT !.op = "count", !.count = n].op = "count"
              /\ [Idle EXCEPT !.op = "count", !.count = n].step = "run"
    BY ResetsAreTyped DEF Idle, Jobs, Ops, Steps
  <2>2. PICK new \in Jobs :
           /\ Taken(u, new)
           /\ \/ new.op = "start"
              \/ new.op = "count" /\ new.step = "run"
    BY <1>7, <2>1 DEF Start, TypeCount
  <2>3. QED
    BY <1>1, <2>2, TakenBegins DEF Moves, Begins, NothingToShow, OthersKept
<1>8. ASSUME NEW u \in Updates,
             \/ PickScenario(u) \/ OtherScenario(u) \/ PickMode(u) \/ Stash(u)
             \/ StashPicks(u) \/ Cancel(u) \/ Switch(u)
      PROVE  JobsAreFine' /\ Moves(u)
  BY <1>3, <1>8
     DEF PickScenario, OtherScenario, PickMode, Stash, StashPicks, Cancel, Switch, Runs
<1>9. ASSUME NEW u \in Updates,
             RefuseCount(u) \/ KeyMissing(u) \/ Refuse(u) \/ Commit(u) \/ Fail(u)
      PROVE  JobsAreFine' /\ Moves(u)
  BY <1>4, <1>9 DEF RefuseCount, KeyMissing, Refuse, Commit, Fail, Runs, Opening
<1>10. ASSUME NEW u \in Updates, Toggle(u)
       PROVE  JobsAreFine' /\ Moves(u)
  <2>1. CASE Done(u)
    BY <1>4, <1>10, <2>1 DEF Toggle, Runs, Opening
  <2>2. CASE ~Done(u)
    <3> DEFINE picks == Toggled(chat.picks, job[u].role)
    <3>1. job' = [job EXCEPT ![u].picks = picks, ![u].step = "stash"]
      BY <1>10, <2>2 DEF Toggle
    <3>2. job[u].op = "toggle" /\ job[u].step = "run"
      BY <1>10 DEF Toggle, Runs
    <3>3. picks \in SUBSET RoleIds
      BY <3>2 DEF Toggled, ArgumentsExist, TypeOK, ConversationTypeOK, Contexts
    <3> HIDE DEF picks
    <3>4. /\ JobTypeOK' /\ OthersKept(u) /\ job'[u].op = job[u].op
          /\ job'[u].step = "stash" /\ job'[u].game = job[u].game
          /\ job'[u].role = job[u].role
      BY <1>1, <3>1, <3>3 DEF JobTypeOK, Jobs, OthersKept
    <3>5. QED
      BY <3>2, <3>4 DEF Moves, GoesOn, NothingToShow, OthersKept
  <2>3. QED
    BY <2>1, <2>2
<1>11. ASSUME NEW u \in Updates, Confirm(u) \/ Back(u)
       PROVE  JobsAreFine' /\ Moves(u)
  <2>1. chat.count \in Counts \cup {0} /\ chat.scenario \in Scenarios /\ Chosen \subseteq RoleIds
    BY DEF TypeOK, ConversationTypeOK, Contexts, Chosen, Active
  <2>2. CASE Confirm(u)
    <3>1. PICK rs \in Compositions :
             job' = [job EXCEPT ![u].step = "switch",
                                ![u].pool = [size |-> chat.count, roles |-> rs,
                                             customs |-> Chosen]]
      BY <2>2 DEF Confirm
    <3>2. /\ JobTypeOK' /\ OthersKept(u) /\ job'[u].op = job[u].op
          /\ job'[u].step = "switch" /\ job'[u].game = job[u].game
          /\ job'[u].role = job[u].role
      <4> DEFINE pool == [size |-> chat.count, roles |-> rs, customs |-> Chosen]
      <4>1. pool \in Pools
        BY <2>1, CompositionsOfRoles DEF Pools
      <4> HIDE DEF pool
      <4>2. job' = [job EXCEPT ![u].step = "switch", ![u].pool = pool]
        BY <3>1 DEF pool
      <4>3. QED
        BY <1>1, <4>1, <4>2 DEF JobTypeOK, Jobs, OthersKept
    <3>3. QED
      BY <2>2, <3>2 DEF Confirm, Runs, Moves, GoesOn, NothingToShow, OthersKept
  <2>3. CASE Back(u)
    <3>1. PICK s \in {"show", "switch"} :
             job' = [job EXCEPT ![u].scenario = chat.scenario, ![u].step = s]
      BY <2>3 DEF Back
    <3>2. /\ JobTypeOK' /\ OthersKept(u) /\ job'[u].op = job[u].op
          /\ job'[u].step = s /\ job'[u].game = job[u].game
          /\ job'[u].role = job[u].role
      BY <1>1, <2>1, <3>1 DEF JobTypeOK, Jobs, OthersKept
    <3>3. QED
      BY <2>3, <3>2 DEF Back, Runs, Moves, GoesOn, NothingToShow, OthersKept
  <2>4. QED
    BY <1>11, <2>2, <2>3
<1>12. ASSUME NEW u \in Updates, CreateGame(u)
       PROVE  JobsAreFine' /\ Moves(u)
  <2>1. JobTypeOK' /\ OthersKept(u) /\ job'[u].op = "count"
    BY <1>12, CreateGameJob
  <2>2. QED
    BY <1>12, <2>1 DEF Moves, NothingToShow, OthersKept
<1>13. ASSUME NEW u \in Updates, ConfigureRoles(u)
       PROVE  JobsAreFine' /\ Moves(u)
  <2>1. CASE ~Configurable(job[u].game)
    BY <1>4, <1>13, <2>1 DEF ConfigureRoles, Runs, Opening
  <2>2. CASE Configurable(job[u].game)
    BY <1>13, <2>2, ConfigureJob DEF Moves, NothingToShow, OthersKept
  <2>3. QED
    BY <2>1, <2>2
<1>14. ASSUME NEW u \in Updates, Show(u)
       PROVE  JobsAreFine' /\ Moves(u)
  BY <1>3, <1>4, <1>14 DEF Show, HasCommit, NothingToShow, Opening
<1>15. ASSUME NEW u \in Updates, InsertRoles(u)
       PROVE  JobsAreFine' /\ Moves(u)
  BY <1>15, InsertJob DEF Moves, NothingToShow, OthersKept
<1>16. CASE \E u \in Updates :
               Start(u) \/ Tap(u) \/ TypeCount(u) \/ PickScenario(u)
               \/ OtherScenario(u) \/ PickMode(u) \/ RefuseCount(u) \/ CreateGame(u)
               \/ Stash(u) \/ KeyMissing(u)
  BY <1>7, <1>8, <1>9, <1>12, <1>16, TapMoves
<1>17. CASE \E u \in Updates :
               Toggle(u) \/ StashPicks(u) \/ Confirm(u) \/ Refuse(u) \/ Cancel(u)
               \/ Back(u) \/ ConfigureRoles(u) \/ InsertRoles(u) \/ Switch(u)
               \/ Show(u) \/ Commit(u) \/ Fail(u)
  BY <1>8, <1>9, <1>10, <1>11, <1>13, <1>14, <1>15, <1>17
<1>18. QED
  BY <1>5, <1>6, <1>16, <1>17 DEF Next

-----------------------------------------------------------------------------
(* Types. *)

LEMMA TroubleIsCounted ==
    ASSUME Next, trouble \in Nat
    PROVE  trouble' \in Nat
<1>1. ASSUME NEW o, Counted(o)
      PROVE  trouble' \in Nat
  BY <1>1 DEF Counted
<1>2. CASE LibraryNext
  BY <1>1, <1>2 DEF LibraryNext, NewRole, EnterName, ChooseTeam, Describe, CreateFails,
                    Create, CreateTold, CreateCommit, CreateRollback, Delete, conversation
<1>3. CASE Reset
  BY <1>1, <1>3 DEF Reset
<1>4. CASE \E u \in Updates :
               Start(u) \/ Tap(u) \/ TypeCount(u) \/ PickScenario(u)
               \/ OtherScenario(u) \/ PickMode(u) \/ RefuseCount(u) \/ CreateGame(u)
               \/ Stash(u) \/ KeyMissing(u)
  BY <1>1, <1>4 DEF Start, Tap, Tapped, TypeCount, PickScenario, OtherScenario, PickMode,
                    RefuseCount, CreateGame, Stash, KeyMissing
<1>5. CASE \E u \in Updates :
               Toggle(u) \/ StashPicks(u) \/ Confirm(u) \/ Refuse(u) \/ Cancel(u)
               \/ Back(u) \/ ConfigureRoles(u) \/ InsertRoles(u) \/ Switch(u)
               \/ Show(u) \/ Commit(u) \/ Fail(u)
  BY <1>1, <1>5 DEF Toggle, StashPicks, Confirm, Refuse, Cancel, Back, ConfigureRoles,
                    InsertRoles, Switch, Show, Commit, Fail
<1>6. QED
  BY <1>2, <1>3, <1>4, <1>5 DEF Next

LEMMA ChatIsTyped ==
    ASSUME TypeOK, Next
    PROVE  chat' \in Contexts
<1> DEFINE States == CreateGameStates \cup CustomRoleStates \cup {"none"}
<1>1. /\ chat \in Contexts /\ Cleared \in Contexts
      /\ \A u \in Updates : job[u] \in Jobs
  BY ResetsAreTyped DEF TypeOK, ConversationTypeOK
<1>2. ASSUME NEW s \in States
      PROVE  [chat EXCEPT !.state = s] \in Contexts /\ [Cleared EXCEPT !.state = s] \in Contexts
  BY <1>1, <1>2 DEF Contexts
<1>3. CreateGameStates \subseteq States /\ CustomRoleStates \subseteq States
  OBVIOUS
<1>4. ASSUME NewRole \/ ChooseTeam \/ Reset
      PROVE  chat' \in Contexts
  BY <1>1, <1>2, <1>4 DEF NewRole, ChooseTeam, Reset, CustomRoleStates
<1>5. ASSUME NEW name \in Names, EnterName(name)
      PROVE  chat' \in Contexts
  BY <1>1, <1>5 DEF EnterName, Contexts, CustomRoleStates
<1>6. ASSUME NEW u \in Updates, CreateTold(u) \/ Start(u) \/ Cancel(u)
      PROVE  chat' \in Contexts
  BY <1>1, <1>2, <1>6 DEF CreateTold, Start, Cancel, CreateGameStates
<1>7. ASSUME NEW u \in Updates, PickScenario(u)
      PROVE  chat' \in Contexts
  BY <1>1, <1>7 DEF PickScenario, Contexts, CreateGameStates, Jobs
<1>8. ASSUME NEW u \in Updates, PickMode(u)
      PROVE  chat' \in Contexts
  BY <1>1, <1>8 DEF PickMode, Contexts, CreateGameStates, Jobs
<1>9. ASSUME NEW u \in Updates, Stash(u)
      PROVE  chat' \in Contexts
  BY <1>1, <1>9 DEF Stash, Stashed, Contexts, Jobs
<1>10. ASSUME NEW u \in Updates, StashPicks(u)
       PROVE  chat' \in Contexts
  BY <1>1, <1>10 DEF StashPicks, Contexts, Jobs
<1>11. ASSUME NEW u \in Updates, Back(u)
       PROVE  chat' \in Contexts
  BY <1>1, <1>2, <1>11 DEF Back, CreateGameStates, Contexts
<1>12. ASSUME NEW u \in Updates, Switch(u)
       PROVE  chat' \in Contexts
  <2>1. job[u].game \in Games \cup {NoGame} /\ job[u].pool \in Pools
        /\ job[u].count \in Counts \cup {0} /\ job[u].scenario \in Scenarios
    BY <1>1 DEF Jobs
  <2>2. Prescribed(job[u].count) \in Pools
    BY <2>1, CompositionsOfRoles DEF Prescribed, Pools
  <2>3. ASSUME NEW p \in Pools
        PROVE  Summarised(p) \in Contexts
    BY <1>1 DEF Summarised, Contexts, CreateGameStates
  <2>4. ASSUME NEW s \in States, NEW g \in Games \cup {NoGame}
        PROVE  [chat EXCEPT !.game = g, !.state = s] \in Contexts
    BY <1>1, <2>4 DEF Contexts
  <2>5. /\ chat' = Switched(u)
        /\ job[u].op \in {"count", "confirm", "back", "finalize"}
        /\ job[u].scenario \in {"flexible", "fixed"}
    BY <1>12, <2>1 DEF Switch, Scenarios
  <2>6. CASE job[u].op = "back" \/ (job[u].op = "count" /\ job[u].scenario = "flexible")
    BY <1>2, <2>5, <2>6 DEF Switched, CreateGameStates
  <2>7. CASE job[u].op = "finalize"
    BY <2>1, <2>4, <2>5, <2>7 DEF Switched, CreateGameStates
  <2>8. CASE job[u].op = "confirm" \/ (job[u].op = "count" /\ job[u].scenario = "fixed")
    BY <2>1, <2>2, <2>3, <2>5, <2>8 DEF Switched
  <2>9. QED
    BY <2>5, <2>6, <2>7, <2>8
<1>13. QED
  BY <1>1, <1>4, <1>5, <1>6, <1>7, <1>8, <1>9, <1>10, <1>11, <1>12, WhoWrites

\* What a handler leaves on the screen names a game when it is about one; a
\* code is shown by the opening of a game that is not played on one phone.
LEMMA ResultIsTyped ==
    ASSUME TypeOK, NothingToShow, NEW u \in Updates, Show(u)
    PROVE  /\ Result(u) \in Screens
           /\ Result(u).kind \in {"roles", "summary", "code", "grid"} =>
                 /\ job[u].op \in {"count", "toggle", "confirm", "back", "finalize"}
                 /\ Result(u).game = job[u].game
           /\ Result(u).kind \in {"code", "grid"} => job[u].op = "finalize"
           /\ Result(u).kind = "code" => ~PhoneGame(u)
<1> DEFINE g == job[u].game
<1>1. /\ g \in Games \cup {NoGame} /\ job[u].pool \in Pools
      /\ job[u].count \in Counts \cup {0} /\ NoPool \in Pools
      /\ job[u].op \in Ops \ {"idle", "describe"}
  BY ResetsAreTyped DEF TypeOK, ConversationTypeOK, Jobs, NothingToShow, Show
<1>2. Prescribed(job[u].count) \in Pools /\ Active \subseteq RoleIds
  BY <1>1, CompositionsOfRoles DEF Prescribed, Pools, Active
<1>3. ASSUME NEW k \in Kinds, NEW h \in Games \cup {NoGame}, NEW p \in Pools,
             NEW S \in SUBSET RoleIds
      PROVE  Board(k, h, p, S) \in Screens /\ Board(k, h, p, S).kind = k
             /\ Board(k, h, p, S).game = h
  BY DEF Board, Screens
<1>4. ASSUME NEW k \in Kinds
      PROVE  Plain(k) \in Screens /\ Plain(k).kind = k
  BY <1>1, <1>3 DEF Plain
<1>5. CASE job[u].op \in {"start", "other_scenario", "scenario", "mode", "cancel"}
  <2>1. Result(u) \in {Plain("picker"), Plain("modes"), Plain("counts"), Plain("blank")}
    BY <1>5 DEF Result, Blank
  <2>2. QED
    BY <1>4, <2>1 DEF Kinds
<1>6. CASE job[u].op \in {"count", "toggle", "confirm", "back"}
  <2>1. Result(u) \in {Plain("picker"), RolesBoard(g), SummaryBoard(g, job[u].pool),
                        SummaryBoard(g, Prescribed(job[u].count))}
    BY <1>6 DEF Result
  <2>2. QED
    BY <1>1, <1>2, <1>3, <1>4, <1>6, <2>1 DEF RolesBoard, SummaryBoard, Kinds
<1>7. CASE job[u].op = "finalize"
  BY <1>1, <1>3, <1>7 DEF Result, Kinds
<1>8. QED
  BY <1>1, <1>5, <1>6, <1>7 DEF Ops

\* A games row stays one whatever of it a step sets.
LEMMA RowsAreTyped ==
    /\ NoRow \in GameRow
    /\ \A row \in GameRow, s \in GameStates, c \in Counts \cup {0}, d \in Modes :
          [row EXCEPT !.state = s, !.count = c, !.mode = d] \in GameRow
    /\ \A row \in GameRow, s \in GameStates, pools \in Seq(Pools) :
          [row EXCEPT !.state = s, !.pools = pools] \in GameRow
<1>1. NoRow \in GameRow
  BY DEF NoRow, GameRow, GameStates, Modes
<1>2. ASSUME NEW row \in GameRow, NEW s \in GameStates
      PROVE  /\ \A c \in Counts \cup {0}, d \in Modes :
                   [row EXCEPT !.state = s, !.count = c, !.mode = d] \in GameRow
             /\ \A pools \in Seq(Pools) :
                   [row EXCEPT !.state = s, !.pools = pools] \in GameRow
  BY DEF GameRow
<1>3. QED
  BY <1>1, <1>2

LEMMA TypeStep ==
    ASSUME TypeOK, NothingToShow, RolesInTheMaking, GamesInTheMaking, OpeningsFit,
           ArgumentsExist, Next
    PROVE  TypeOK'
<1>1. screen' \in [Messages -> Screens]
  BY WhoWrites, ResultIsTyped DEF Show, Shows, TypeOK, ConversationTypeOK
<1>2. LibraryTypeOK'
  <2>1. library \in [RoleIds -> Rows]
    BY DEF TypeOK, LibraryTypeOK
  <2>2. ASSUME NEW u \in Updates, Create(u)
        PROVE  library' \in [RoleIds -> Rows]
    BY <2>1, <2>2 DEF Create, Rows, RowStates, TypeOK, ConversationTypeOK, Contexts
  <2>3. ASSUME NEW u \in Updates, CreateCommit(u) \/ CreateRollback(u)
        PROVE  library' \in [RoleIds -> Rows]
    BY <2>1, <2>3 DEF CreateCommit, CreateRollback, Rows, RowStates
  <2>4. ASSUME NEW r \in RoleIds, Delete(r)
        PROVE  library' \in [RoleIds -> Rows]
    BY <2>1, <2>4 DEF Delete, Deleted, Rows, RowStates
  <2>5. QED
    BY <2>1, <2>2, <2>3, <2>4, WhoWrites DEF LibraryTypeOK
<1>3. game' \in [Games -> GameRow]
  <2>1. game \in [Games -> GameRow]
    BY DEF TypeOK
  <2>2. ASSUME NEW u \in Updates, CreateGame(u)
        PROVE  game' \in [Games -> GameRow]
    <3>1. job[u].count \in Counts \cup {0} /\ chat.mode \in Modes /\ NoPool \in Pools
      BY ResetsAreTyped DEF TypeOK, ConversationTypeOK, Jobs, Contexts
    <3> DEFINE row == [NoRow EXCEPT !.state = "inserted", !.count = job[u].count,
                                    !.mode = chat.mode]
    <3>2. row \in GameRow
      BY <3>1, RowsAreTyped DEF GameStates
    <3>3. \E g \in Games : game' = [game EXCEPT ![g] = row]
      BY <2>2 DEF CreateGame
    <3> HIDE DEF row
    <3>4. QED
      BY <2>1, <3>2, <3>3
  <2>3. ASSUME NEW u \in Updates, Commit(u)
        PROVE  game' \in [Games -> GameRow]
    <3> DEFINE g == job[u].game
               pools == Append(game[g].pools, job[u].pool)
    <3>1. job[u].pool \in Pools
      BY DEF TypeOK, ConversationTypeOK, Jobs
    <3>2. g \in Games => pools \in Seq(Pools)
      BY <2>1, <3>1 DEF GameRow
    <3> HIDE DEF pools
    <3>3. \/ game' = [game EXCEPT ![g].state = "CREATING"]
          \/ game' = [game EXCEPT ![g].state = "WAITING_PLAYERS", ![g].pools = pools]
      BY <2>3 DEF Commit, pools
    <3>4. CASE g \in Games
      <4>1. CASE game' = [game EXCEPT ![g].state = "CREATING"]
        BY <2>1, <3>4, <4>1 DEF GameRow, GameStates
      <4>2. CASE game' = [game EXCEPT ![g].state = "WAITING_PLAYERS", ![g].pools = pools]
        <5> DEFINE row == [game[g] EXCEPT !.state = "WAITING_PLAYERS", !.pools = pools]
        <5>1. row \in GameRow
          BY <2>1, <3>2, <3>4, RowsAreTyped DEF GameStates
        <5>2. game' = [game EXCEPT ![g] = row]
          BY <2>1, <3>4, <4>2
        <5> HIDE DEF row
        <5>3. QED
          BY <2>1, <5>1, <5>2
      <4>3. QED
        BY <3>3, <4>1, <4>2
    <3>5. CASE g \notin Games
      BY <2>1, <3>3, <3>5
    <3>6. QED
      BY <3>4, <3>5
  <2>4. ASSUME NEW u \in Updates, Fail(u)
        PROVE  game' \in [Games -> GameRow]
    BY <2>1, <2>4 DEF Fail, GameRow, GameStates
  <2>5. QED
    BY <2>1, <2>2, <2>3, <2>4, WhoWrites
<1>4. spoilt' \subseteq Games
  BY WhoWrites DEF Fail, TypeOK, OpeningsFit, Opening
<1>5. QED
  BY <1>1, <1>2, <1>3, <1>4, ChatIsTyped, TroubleIsCounted, JobMoves
     DEF TypeOK, ConversationTypeOK, JobsAreFine, JobTypeOK

-----------------------------------------------------------------------------
(* The library: rows in the making are told apart, and so are names. *)

LEMMA LibraryStep ==
    ASSUME IInv, Next
    PROVE  RolesInTheMaking' /\ NamesAreHeldOnce'
<1> USE DEF RolesInTheMaking, NamesAreHeldOnce
<1>1. /\ JobTypeOK /\ library \in [RoleIds -> Rows]
      /\ TypeOK /\ NothingToShow /\ ArgumentsExist
      /\ RolesInTheMaking /\ NamesAreHeldOnce
  BY DEF IInv, TypeOK, ConversationTypeOK, LibraryTypeOK, JobTypeOK
<1>2. ASSUME NEW u \in Updates, Create(u)
      PROVE  RolesInTheMaking' /\ NamesAreHeldOnce'
  <2>1. PICK r \in RoleIds :
           /\ library[r].state = "free"
           /\ library' = [library EXCEPT ![r] = [state |-> "inserted", name |-> chat.name]]
           /\ job' = [job EXCEPT ![u].role = r, ![u].step = "switch"]
    BY <1>2 DEF Create
  <2>2. /\ OthersKept(u) /\ job'[u].role = r
        /\ \A v \in Updates \ {u} : Making(v)' <=> Making(v)
    BY <1>1, <2>1 DEF JobTypeOK, Jobs, OthersKept, Making
  <2>3. /\ library'[r].state = "inserted" /\ library'[r].name = chat.name
        /\ \A s \in RoleIds \ {r} : library'[s] = library[s]
    BY <1>1, <2>1
  <2>4. RolesInTheMaking'
    <3>1. ASSUME NEW v \in Updates \ {u}, Making(v)'
          PROVE  /\ Making(v) /\ job'[v].role = job[v].role /\ job[v].role \in RoleIds \ {r}
                 /\ library'[job[v].role].state = "inserted"
      BY <1>1, <2>1, <2>2, <2>3, <3>1 DEF OthersKept
    <3>2. QED
      BY <1>1, <2>2, <2>3, <3>1
  <2>5. \A s \in RoleIds : library[s].state \in {"inserted", "active", "deleted"} =>
                             library[s].name # chat.name
    BY <1>2 DEF Create, MayInsert, NameHeld, NameIndexed
  <2>6. NamesAreHeldOnce'
    BY <1>1, <2>3, <2>5
  <2>7. QED
    BY <2>4, <2>6
<1>3. ASSUME NEW u \in Updates, CreateCommit(u) \/ CreateRollback(u)
      PROVE  RolesInTheMaking' /\ NamesAreHeldOnce'
  <2>1. /\ Making(u) /\ OthersKept(u) /\ job'[u].op = "idle"
        /\ \A v \in Updates : Making(v)' => v # u /\ Making(v)
    BY <1>1, <1>3, DoneEnds DEF CreateCommit, CreateRollback, Making, OthersKept
  <2>2. PICK x \in {"active", "rolled_back"} :
           library' = [library EXCEPT ![job[u].role].state = x]
    BY <1>3 DEF CreateCommit, CreateRollback
  <2>3. /\ job[u].role \in RoleIds /\ library[job[u].role].state = "inserted"
        /\ \A s \in RoleIds : library'[s].name = library[s].name
        /\ \A s \in RoleIds \ {job[u].role} : library'[s] = library[s]
    BY <1>1, <2>1, <2>2 DEF Rows
  <2>4. RolesInTheMaking'
    BY <1>1, <2>1, <2>3 DEF OthersKept
  <2>5. NamesAreHeldOnce'
    BY <1>1, <2>3
  <2>6. QED
    BY <2>4, <2>5
<1>4. ASSUME NEW r \in RoleIds, Delete(r)
      PROVE  RolesInTheMaking' /\ NamesAreHeldOnce'
  <2>1. /\ job' = job /\ library[r].state = "active"
        /\ \A s \in RoleIds : library'[s].name = library[s].name
        /\ \A s \in RoleIds \ {r} : library'[s] = library[s]
    BY <1>1, <1>4 DEF Delete, Deleted, conversation, Active, Rows
  <2>2. RolesInTheMaking'
    BY <1>1, <2>1 DEF Making
  <2>3. NamesAreHeldOnce'
    BY <1>1, <2>1
  <2>4. QED
    BY <2>2, <2>3
<1>5. ASSUME library' = library, NEW u \in Updates, Moves(u), ~Create(u)
      PROVE  RolesInTheMaking' /\ NamesAreHeldOnce'
  <2>1. /\ CreateGame(u) \/ InsertRoles(u) => ~Making(u)'
        /\ ConfigureRoles(u) /\ Configurable(job[u].game) => ~Making(u)'
    BY <1>1, CreateGameJob, ConfigureJob, InsertJob DEF Making
  <2>2. Making(u)' => Making(u) /\ job'[u].role = job[u].role
    BY <1>5, <2>1 DEF Moves, Begins, GoesOn, Ends, Making
  <2>3. \A v \in Updates \ {u} : job'[v] = job[v] /\ (Making(v)' <=> Making(v))
    BY <1>5 DEF Moves, OthersKept, Making
  <2>4. QED
    BY <1>1, <1>5, <2>2, <2>3
<1>6. CASE library' = library /\ job' = job
  BY <1>1, <1>6 DEF Making
<1>7. QED
  BY <1>1, <1>2, <1>3, <1>4, <1>5, <1>6, WhoWrites, JobMoves

-----------------------------------------------------------------------------
(* The cap on the library.  A creation that passed the check still counts   *)
(* as nothing in the rows the next check reads, so what the checks bound is *)
(* the active roles together with the creations in flight.                  *)

Makers == {u \in Updates : Making(u)}

\* How far overlapping updates can pass the cap
Slack == IF Tidy THEN 0 ELSE Cardinality(Updates) - 1

CapInv ==
    /\ ~Tidy => Updates # {}
    /\ IsFiniteSet(Active)
    /\ Cardinality(Active) + Cardinality(Makers) <= MaxActive + Slack

\* An overlap, a failure and a stray tap stay counted; an update that is taken
\* up while another one is handled is one of them.
LEMMA OverlapsAreCounted ==
    ASSUME IInv, Next
    PROVE  /\ Tidy' => Tidy
           /\ ~Tidy' => ~Tidy \/ Updates # {}
           /\ Tidy' => AllIdle
                         \/ \A u \in Updates : job'[u].op # "idle" => job[u].op # "idle"
<1> DEFINE Fewer == \A u \in Updates : job'[u].op # "idle" => job[u].op # "idle"
           Goal == /\ Tidy' => Tidy
                   /\ ~Tidy' => ~Tidy \/ Updates # {}
                   /\ Tidy' => AllIdle \/ Fewer
<1>1. /\ trouble \in Nat /\ JobTypeOK
      /\ TypeOK /\ NothingToShow
  BY DEF IInv, TypeOK, ConversationTypeOK, JobTypeOK
<1>2. ASSUME NEW o, Counted(o)
      PROVE  /\ Tidy' => Tidy /\ o
             /\ ~Tidy' => ~Tidy \/ ~o
  BY <1>1, <1>2 DEF Counted, Tidy
<1>3. ~AllIdle => Updates # {}
  BY DEF AllIdle
<1>4. ASSUME Counted(AllIdle)
      PROVE  Goal
  BY <1>2, <1>3, <1>4
<1>5. ASSUME trouble' = trouble, Fewer
      PROVE  Goal
  BY <1>5 DEF Tidy
<1>6. ASSUME Counted(FALSE), NEW u \in Updates
      PROVE  Goal
  BY <1>2, <1>6
<1>7. ASSUME NEW u \in Updates, ~Begins(u), Moves(u)
      PROVE  Fewer
  <2>1. job'[u].op # "idle" => job[u].op # "idle"
    BY <1>1, <1>7, CreateGameJob, ConfigureJob, InsertJob DEF Moves, GoesOn, Ends, Create
  <2>2. QED
    BY <1>7, <2>1 DEF Moves, OthersKept
<1>8. CASE LibraryNext
  <2>1. CASE \/ NewRole \/ ChooseTeam
             \/ \E name \in Names : EnterName(name)
             \/ \E u \in Updates : Describe(u)
    BY <1>4, <2>1 DEF NewRole, ChooseTeam, EnterName, Describe
  <2>2. ASSUME NEW u \in Updates, CreateRollback(u)
        PROVE  Goal
    BY <1>6, <2>2 DEF CreateRollback
  <2>3. CASE \E r \in RoleIds : Delete(r)
    BY <1>5, <2>3 DEF Delete, conversation
  <2>4. ASSUME NEW u \in Updates, CreateFails(u) \/ Create(u) \/ CreateTold(u) \/ CreateCommit(u)
        PROVE  Goal
    <3>1. trouble' = trouble /\ job[u].op = "describe"
      BY <2>4 DEF CreateFails, Create, CreateTold, CreateCommit
    <3>2. \A v \in Updates \ {u} : job'[v] = job[v]
      BY <1>1, <2>4 DEF CreateFails, Create, CreateTold, CreateCommit, Done, To, JobTypeOK
    <3>3. QED
      BY <1>5, <3>1, <3>2
  <2>5. QED
    BY <1>8, <2>1, <2>2, <2>3, <2>4 DEF LibraryNext
<1>9. CASE Reset
  BY <1>4, <1>9 DEF Reset
<1>10. ASSUME NEW u \in Updates, Start(u) \/ Tap(u) \/ TypeCount(u)
       PROVE  Goal
  <2>1. CASE Start(u) \/ TypeCount(u)
    BY <1>4, <2>1 DEF Start, TypeCount
  <2>2. CASE Tap(u)
    <3>1. PICK o \in BOOLEAN : Counted(AllIdle /\ o)
      BY <2>2 DEF Tap, Tapped
    <3>2. QED
      BY <1>2, <1>10, <3>1
  <2>3. QED
    BY <1>10, <2>1, <2>2
<1>11. ASSUME NEW u \in Updates,
              \/ PickScenario(u) \/ OtherScenario(u) \/ PickMode(u) \/ RefuseCount(u)
              \/ CreateGame(u) \/ Stash(u) \/ KeyMissing(u) \/ Toggle(u)
              \/ StashPicks(u) \/ Confirm(u) \/ Refuse(u) \/ Cancel(u) \/ Back(u)
              \/ ConfigureRoles(u) \/ InsertRoles(u)
       PROVE  Goal
  <2>1. trouble' = trouble /\ job[u].op # "idle"
    BY <1>11 DEF PickScenario, OtherScenario, PickMode, RefuseCount, CreateGame, Stash,
                 KeyMissing, Toggle, StashPicks, Confirm, Refuse, Cancel, Back,
                 ConfigureRoles, InsertRoles, Runs
  <2>2. \A v \in Updates \ {u} : job'[v] = job[v]
    BY <1>1, <1>11
       DEF PickScenario, OtherScenario, PickMode, RefuseCount, CreateGame, Stash,
           KeyMissing, Toggle, StashPicks, Confirm, Refuse, Cancel, Back, ConfigureRoles,
           InsertRoles, Done, To, JobTypeOK
  <2>3. QED
    BY <1>5, <2>1, <2>2
<1>12. ASSUME NEW u \in Updates, Switch(u) \/ Show(u) \/ Commit(u)
       PROVE  Goal
  <2>1. trouble' = trouble /\ job[u].op # "idle"
    BY <1>1, <1>12 DEF Switch, Show, Commit, HasCommit, NothingToShow
  <2>2. \A v \in Updates \ {u} : job'[v] = job[v]
    BY <1>1, <1>12 DEF Switch, Show, Commit, Done, To, JobTypeOK
  <2>3. QED
    BY <1>5, <2>1, <2>2
<1>13. ASSUME NEW u \in Updates, Fail(u)
       PROVE  Goal
  BY <1>6, <1>13 DEF Fail
<1>14. QED
  BY <1>8, <1>9, <1>10, <1>11, <1>12, <1>13 DEF Next

LEMMA OneAtATimeStep ==
    ASSUME IInv, Next
    PROVE  OneAtATime'
<1>1. TypeOK /\ NothingToShow /\ ArgumentsExist /\ OneAtATime
  BY DEF IInv
<1>2. SUFFICES ASSUME Tidy', NEW v \in Updates, NEW w \in Updates,
                      job'[v].op # "idle", job'[w].op # "idle"
               PROVE  v = w
  BY DEF OneAtATime
<1>3. CASE \A u \in Updates : job'[u].op # "idle" => job[u].op # "idle"
  BY <1>1, <1>2, <1>3, OverlapsAreCounted DEF OneAtATime
<1>4. CASE AllIdle
  <2>1. \A u \in Updates : job[u].op = "idle"
    BY <1>4 DEF AllIdle, Idle
  <2>2. PICK u \in Updates : OthersKept(u)
    BY <1>1, <1>2, <2>1, JobMoves DEF Moves
  <2>3. QED
    BY <1>2, <2>1, <2>2 DEF OthersKept
<1>5. QED
  BY <1>2, <1>3, <1>4, OverlapsAreCounted

\* The roles that count against the cap: created, committed, given up, deleted.
LEMMA CapStep ==
    ASSUME IInv, CapInv, Next
    PROVE  CapInv'
<1>1. /\ JobTypeOK /\ library \in [RoleIds -> Rows]
      /\ TypeOK /\ NothingToShow /\ ArgumentsExist /\ RolesInTheMaking
  BY DEF IInv, TypeOK, ConversationTypeOK, LibraryTypeOK, JobTypeOK
<1>2. ~Tidy' => Updates # {}
  BY OverlapsAreCounted DEF CapInv
<1>3. /\ MaxActive \in Nat /\ Cardinality(Updates) \in Nat
      /\ Updates # {} => Cardinality(Updates) > 0
  BY MaxActiveNat, UpdatesFinite, FS_CardinalityType, FS_EmptySet
<1>4. /\ IsFiniteSet(Active) /\ Cardinality(Active) \in Nat
      /\ IsFiniteSet(Makers) /\ Cardinality(Makers) \in Nat
      /\ Makers \subseteq Updates /\ Makers' \subseteq Updates
      /\ IsFiniteSet(Makers') /\ Cardinality(Makers') \in Nat
      /\ Cardinality(Makers') <= Cardinality(Updates)
  BY UpdatesFinite, FS_Subset, FS_CardinalityType DEF CapInv, Makers
<1>5. Slack \in Int /\ Slack' \in Int /\ Slack <= Slack'
  BY <1>2, <1>3, OverlapsAreCounted DEF Slack
<1>6. SUFFICES /\ IsFiniteSet(Active')
               /\ Cardinality(Active') + Cardinality(Makers') <= MaxActive + Slack'
  BY <1>2 DEF CapInv
<1>7. \A A : A \subseteq Active => /\ IsFiniteSet(A) /\ Cardinality(A) \in Nat
                                   /\ Cardinality(A) <= Cardinality(Active)
  BY <1>4, FS_Subset, FS_CardinalityType
<1>8. \A M : M \subseteq Makers => /\ Cardinality(M) \in Nat
                                   /\ Cardinality(M) <= Cardinality(Makers)
  BY <1>4, FS_Subset, FS_CardinalityType
<1>9. ASSUME Active' \subseteq Active, Makers' \subseteq Makers
      PROVE  /\ IsFiniteSet(Active')
             /\ Cardinality(Active') + Cardinality(Makers') <= MaxActive + Slack'
  BY <1>3, <1>4, <1>5, <1>7, <1>8, <1>9 DEF CapInv
<1>10. ASSUME NEW u \in Updates, Create(u)
       PROVE  /\ IsFiniteSet(Active')
              /\ Cardinality(Active') + Cardinality(Makers') <= MaxActive + Slack'
  <2>1. PICK r \in RoleIds :
           /\ library[r].state = "free"
           /\ library' = [library EXCEPT ![r] = [state |-> "inserted", name |-> chat.name]]
           /\ job' = [job EXCEPT ![u].role = r, ![u].step = "switch"]
    BY <1>10 DEF Create
  <2>2. Active' = Active
    BY <1>1, <2>1 DEF Active
  <2>3. Cardinality(Active) < MaxActive
    BY <1>10 DEF Create, Accepted, BelowCap
  <2>4. CASE ~Tidy'
    BY <1>3, <1>4, <2>2, <2>3, <2>4 DEF Slack
  <2>5. CASE Tidy'
    <3>1. /\ job[u].op = "describe" /\ job[u].step = "run"
          /\ \A v \in Updates \ {u} : job'[v] = job[v]
      BY <1>1, <1>10, <2>1 DEF Create, JobTypeOK
    <3>2. \A v \in Updates \ {u} : job[v].op = "idle"
      BY <2>5, <3>1, OverlapsAreCounted DEF IInv, OneAtATime
    <3>3. Makers' \subseteq {u}
      BY <3>1, <3>2 DEF Makers, Making
    <3>4. Cardinality(Makers') <= 1
      <4>1. IsFiniteSet({u}) /\ Cardinality({u}) = 1
        BY FS_Singleton
      <4>2. Cardinality(Makers') <= Cardinality({u})
        BY <3>3, <4>1, FS_Subset
      <4>3. QED
        BY <4>1, <4>2
    <3>5. QED
      BY <1>3, <1>4, <2>2, <2>3, <2>5, <3>4 DEF Slack
  <2>6. QED
    BY <2>4, <2>5
<1>11. ASSUME NEW u \in Updates, CreateCommit(u) \/ CreateRollback(u)
       PROVE  /\ IsFiniteSet(Active')
              /\ Cardinality(Active') + Cardinality(Makers') <= MaxActive + Slack'
  <2>1. /\ Making(u) /\ OthersKept(u) /\ job'[u].op = "idle"
        /\ job[u].role \in RoleIds
    BY <1>1, <1>11, DoneEnds DEF CreateCommit, CreateRollback, Making, RolesInTheMaking
  <2>2. Makers' = Makers \ {u} /\ u \in Makers
    BY <2>1 DEF Makers, Making, OthersKept
  <2>3. Active' \subseteq Active \cup {job[u].role}
    BY <1>1, <1>11 DEF CreateCommit, CreateRollback, Active
  <2>4. Cardinality(Makers') = Cardinality(Makers) - 1
    BY <1>4, <2>2, FS_RemoveElement
  <2>5. /\ IsFiniteSet(Active \cup {job[u].role})
        /\ Cardinality(Active \cup {job[u].role}) \in Nat
        /\ Cardinality(Active \cup {job[u].role}) <= Cardinality(Active) + 1
    <3> DEFINE x == job[u].role
    <3>1. /\ IsFiniteSet(Active \cup {x})
          /\ Cardinality(Active \cup {x})
               = IF x \in Active THEN Cardinality(Active) ELSE Cardinality(Active) + 1
      BY <1>4, FS_AddElement
    <3> HIDE DEF x
    <3>2. QED
      BY <1>4, <3>1 DEF x
  <2>6. IsFiniteSet(Active') /\ Cardinality(Active') \in Nat
        /\ Cardinality(Active') <= Cardinality(Active) + 1
    BY <1>4, <2>3, <2>5, FS_Subset, FS_CardinalityType
  <2>7. QED
    BY <1>3, <1>4, <1>5, <2>4, <2>6 DEF CapInv
<1>12. ASSUME NEW r \in RoleIds, Delete(r)
       PROVE  Active' \subseteq Active /\ Makers' \subseteq Makers
  BY <1>1, <1>12 DEF Delete, Deleted, conversation, Active, Makers, Making
<1>13. ASSUME library' = library, NEW u \in Updates, Moves(u), ~Create(u)
       PROVE  Active' \subseteq Active /\ Makers' \subseteq Makers
  <2>1. /\ CreateGame(u) \/ InsertRoles(u) => ~Making(u)'
        /\ ConfigureRoles(u) /\ Configurable(job[u].game) => ~Making(u)'
    BY <1>1, CreateGameJob, ConfigureJob, InsertJob DEF Making
  <2>2. Making(u)' => Making(u)
    BY <1>13, <2>1 DEF Moves, Begins, GoesOn, Ends, Making
  <2>3. QED
    BY <1>13, <2>2 DEF Moves, OthersKept, Making, Makers, Active
<1>14. CASE library' = library /\ job' = job
  BY <1>9, <1>14 DEF Active, Makers, Making
<1>15. QED
  BY <1>1, <1>9, <1>10, <1>11, <1>12, <1>13, <1>14, WhoWrites, JobMoves

-----------------------------------------------------------------------------
(* The wizard in ordinary use: one update at a time, on the current wizard. *)

\* The keyboards before the game is created name no game.
PlainBoards ==
    \A m \in Messages :
       screen[m].kind \in {"blank", "picker", "modes", "counts"} =>
           screen[m].game = NoGame

\* A game that a keyboard or a handler acts on has a row.
GamesInUse ==
    /\ \A m \in Messages :
          screen[m].kind \in {"roles", "summary", "code", "grid"} =>
              game[screen[m].game].state # "free"
    /\ \A u \in Updates :
          job[u].op \in {"toggle", "confirm", "back", "finalize"} =>
              game[job[u].game].state # "free"

BoardsDiffer ==
    \A m, n \in Messages :
       screen[m].game \in Games /\ screen[m].game = screen[n].game => m = n

SummaryIsCurrent ==
    \A m \in Messages :
       screen[m].kind = "summary" /\ screen[m].game = chat.game =>
           screen[m].pool = chat.pool

\* The roles and the summary are about a game that is being created.
ChatIsBound ==
    chat.state \in {"choose_roles", "confirm_summary"} =>
       /\ chat.game \in Games
       /\ game[chat.game].count = chat.count
       /\ \/ game[chat.game].state = "CREATING"
          \/ \E u \in Updates : job[u].op = "count" /\ job[u].step \in {"show", "commit"}

\* A player count that is being answered: the FSM context follows the new game.
Counting(u) ==
    /\ job[u].step \in {"run", "stash", "switch"} => chat.state = "choose_player_count"
    /\ job[u].step \in {"stash", "switch", "show"} =>
          \A m \in Messages : screen[m].game # job[u].game
    /\ job[u].step # "run" => game[job[u].game].count = job[u].count
    /\ job[u].step \in {"switch", "show", "commit"} =>
          chat.game = job[u].game /\ chat.count = job[u].count
    /\ job[u].step \in {"show", "commit"} =>
          \/ job[u].scenario = "flexible" /\ chat.state = "choose_roles"
          \/ /\ job[u].scenario = "fixed" /\ chat.state = "confirm_summary"
             /\ chat.pool = Prescribed(job[u].count)

\* A tap on the current game's keyboard, which is there until the answer
Boarded(u) ==
    /\ chat.game = job[u].game /\ job[u].on \in Messages
    /\ job[u].step # "commit" => screen[job[u].on].game = job[u].game

\* What the FSM context is while the only update is being handled
Fits(u) ==
    /\ job[u].op \in {"start", "other_scenario"} => chat.state = "choose_scenario"
    /\ job[u].op = "scenario" /\ job[u].step = "show" => chat.state = "choose_role_mode"
    /\ job[u].op = "mode" /\ job[u].step = "show" => chat.state = "choose_player_count"
    /\ job[u].op = "count" => Counting(u)
    /\ job[u].op \in {"toggle", "confirm", "back", "finalize"} => Boarded(u)
    /\ job[u].op \in {"toggle", "confirm"} => screen[job[u].on].kind = "roles"
    /\ job[u].op = "toggle" => chat.state = "choose_roles"
    /\ job[u].op = "confirm" =>
          \/ job[u].step # "show" /\ chat.state = "choose_roles"
          \/ /\ job[u].step = "show" /\ chat.state = "confirm_summary"
             /\ chat.pool = job[u].pool
    /\ job[u].op = "cancel" /\ job[u].step = "show" => chat.state = "none"
    /\ job[u].op = "back" =>
          \/ job[u].step = "run" /\ chat.state = "confirm_summary"
          \/ /\ job[u].step = "switch" /\ chat.state = "confirm_summary"
             /\ job[u].scenario = "flexible"
          \/ /\ job[u].step = "show"
             /\ chat.state = IF job[u].scenario = "fixed" THEN "choose_scenario"
                             ELSE "choose_roles"
    /\ job[u].op = "finalize" =>
          \/ job[u].step = "run" /\ job[u].seen = chat.pool
          \/ job[u].step \in {"insert", "switch"} /\ job[u].seen = job[u].pool
          \/ /\ job[u].step \in {"show", "commit"} /\ job[u].seen = job[u].pool
             /\ chat.state \in {"waiting_players", "single_device"}

\* The keyboard of message m is the one the creator is expected to use.
Answers(m) ==
    \/ chat.state = "choose_scenario" /\ screen[m].kind = "picker"
    \/ chat.state = "choose_role_mode" /\ screen[m].kind = "modes"
    \/ chat.state = "choose_player_count" /\ screen[m].kind = "counts"
    \/ chat.state = "choose_roles" /\ screen[m].kind = "roles"
         /\ screen[m].game = chat.game
    \/ chat.state = "confirm_summary" /\ screen[m].kind = "summary"
         /\ screen[m].game = chat.game

WizardStates == {"choose_scenario", "choose_role_mode", "choose_player_count",
                 "choose_roles", "confirm_summary"}

KeyboardComes ==
    chat.state \in WizardStates =>
       \/ \E m \in Messages : Answers(m)
       \/ \E u \in Updates : job[u].step = "show"

OnCourse ==
    /\ BoardsDiffer
    /\ SummaryIsCurrent
    /\ ChatIsBound
    /\ \A u \in Updates : Fits(u)
    /\ KeyboardComes

WizardInv ==
    /\ PlainBoards
    /\ GamesInUse
    /\ Tidy => OnCourse

\* The update that is handled, if there is one
Alone(u) == \A v \in Updates \ {u} : job[v].op = "idle" /\ job'[v] = job[v]

\* The keyboards in the chat keep naming games that have a row.
LEMMA BoardsStep ==
    ASSUME IInv, PlainBoards, GamesInUse, Next
    PROVE  PlainBoards' /\ GamesInUse'
<1>1. TypeOK /\ NothingToShow /\ ArgumentsExist
  BY DEF IInv
<1>2. \A g \in Games : game[g].state # "free" => game'[g].state # "free"
  <2>1. ASSUME NEW u \in Updates, CreateGame(u)
        PROVE  \A g \in Games : game[g].state # "free" => game'[g].state # "free"
    BY <1>1, <2>1, CreateGameJob DEF TypeOK, NoRow
  <2>2. ASSUME NEW u \in Updates, Commit(u) \/ Fail(u)
        PROVE  \A g \in Games : game[g].state # "free" => game'[g].state # "free"
    BY <1>1, <2>2 DEF Commit, Fail, TypeOK, GameRow
  <2>3. QED
    BY <2>1, <2>2, WhoWrites
<1>3. ASSUME NEW m \in Messages
      PROVE  /\ screen'[m].kind \in {"roles", "summary", "code", "grid"} =>
                    screen'[m].game \in Games /\ game[screen'[m].game].state # "free"
             /\ screen'[m].kind \in {"blank", "picker", "modes", "counts"} =>
                    screen'[m].game = NoGame
  <2>1. CASE screen'[m] = screen[m]
    BY <1>1, <2>1 DEF ArgumentsExist, GamesInUse, PlainBoards
  <2>2. ASSUME NEW u \in Updates, Show(u), screen'[m] # screen[m]
        PROVE  /\ screen'[m].kind \in {"roles", "summary", "code", "grid"} =>
                    screen'[m].game \in Games /\ game[screen'[m].game].state # "free"
               /\ screen'[m].kind \in {"blank", "picker", "modes", "counts"} =>
                    screen'[m].game = NoGame
    <3>1. screen'[m] = Result(u) /\ job[u].step = "show"
      BY <1>1, <2>2 DEF Show, Shows, TypeOK, ConversationTypeOK
    <3>2. Result(u).kind \in {"roles", "summary", "code", "grid"} =>
             /\ Result(u).game \in Games
             /\ game[Result(u).game].state # "free"
      BY <1>1, <2>2, <3>1, ResultIsTyped
         DEF IInv, GamesInUse, ArgumentsExist, GamesInTheMaking, Inserting
    <3>3. Result(u).kind \in {"blank", "picker", "modes", "counts"} =>
             Result(u).game = NoGame
      <4>1. job[u].op \in Ops \ {"idle", "describe"}
        BY <1>1, <2>2 DEF TypeOK, ConversationTypeOK, Jobs, NothingToShow, Show
      <4>2. QED
        BY <4>1 DEF Ops, Result, Plain, Blank, RolesBoard, SummaryBoard, Board
    <3>4. QED
      BY <3>1, <3>2, <3>3
  <2>3. QED
    BY <2>1, <2>2, WhoWrites
<1>4. PlainBoards'
  BY <1>3 DEF PlainBoards
<1>5. \A m \in Messages :
         screen'[m].kind \in {"roles", "summary", "code", "grid"} =>
             game'[screen'[m].game].state # "free"
  BY <1>2, <1>3
<1>6. ASSUME NEW u \in Updates, Moves(u), NEW v \in Updates,
             job'[v].op \in {"toggle", "confirm", "back", "finalize"}
      PROVE  job'[v].game \in Games /\ game[job'[v].game].state # "free"
  <2>1. CASE Begins(u)
    BY <1>1, <1>6, <2>1 DEF Moves, OthersKept, Begins, ArgumentsExist, GamesInUse
  <2>2. CASE GoesOn(u) \/ Ends(u)
    BY <1>1, <1>6, <2>2 DEF Moves, OthersKept, GoesOn, Ends, ArgumentsExist, GamesInUse
  <2>3. CASE Create(u) /\ v = u
    BY <1>1, <1>6, <2>3 DEF Create, TypeOK, ConversationTypeOK, Jobs
  <2>4. CASE CreateGame(u) /\ v = u
    BY <1>1, <1>6, <2>4, CreateGameJob
  <2>5. CASE ConfigureRoles(u) /\ Configurable(job[u].game) /\ v = u
    BY <1>1, <1>6, <2>5, ConfigureJob DEF ArgumentsExist, GamesInUse
  <2>6. CASE InsertRoles(u) /\ v = u
    BY <1>1, <1>6, <2>6, InsertJob DEF ArgumentsExist, GamesInUse
  <2>7. CASE v # u
    BY <1>1, <1>6, <2>7 DEF Moves, OthersKept, ArgumentsExist, GamesInUse
  <2>8. QED
    BY <1>6, <2>1, <2>2, <2>3, <2>4, <2>5, <2>6, <2>7 DEF Moves
<1>7. \A v \in Updates :
         job'[v].op \in {"toggle", "confirm", "back", "finalize"} =>
             game'[job'[v].game].state # "free"
  BY <1>1, <1>2, <1>6, JobMoves DEF ArgumentsExist, GamesInUse
<1>8. QED
  BY <1>4, <1>5, <1>7 DEF GamesInUse

\* A step of an update that writes neither the context, a screen nor a game
LEMMA JobOnly ==
    ASSUME IInv, OnCourse, NEW u \in Updates, Alone(u), Fits(u)',
           chat' = chat, screen' = screen, game' = game,
           job[u].step # "show", job[u].op = "count" => job[u].step # "commit"
    PROVE  OnCourse'
<1>1. NothingToShow /\ BoardsDiffer /\ SummaryIsCurrent /\ ChatIsBound /\ KeyboardComes
  BY DEF IInv, OnCourse
<1>2. BoardsDiffer' /\ SummaryIsCurrent'
  BY <1>1 DEF BoardsDiffer, SummaryIsCurrent
<1>3. ChatIsBound'
  BY <1>1 DEF ChatIsBound, Alone
<1>4. \A v \in Updates : Fits(v)'
  BY DEF Alone, Fits
<1>5. KeyboardComes'
  <2>1. \A v \in Updates : job[v].step # "show"
    BY <1>1 DEF Alone, NothingToShow
  <2>2. QED
    BY <1>1, <2>1 DEF KeyboardComes, Answers
<1>6. QED
  BY <1>2, <1>3, <1>4, <1>5 DEF OnCourse

\* A step of an update that writes the FSM context: of the game it names, the
\* summary and the data go together.
LEMMA ChatOnly ==
    ASSUME IInv, OnCourse, NEW u \in Updates, Alone(u), Fits(u)',
           screen' = screen, game' = game,
           job[u].step # "show", job[u].op = "count" => job[u].step # "commit",
           \/ chat'.game = chat.game /\ chat'.pool = chat.pool
           \/ \A m \in Messages : screen[m].kind = "summary" => screen[m].game # chat'.game,
           \/ chat'.state \notin {"choose_roles", "confirm_summary"}
           \/ /\ chat.state \in {"choose_roles", "confirm_summary"}
              /\ chat'.game = chat.game /\ chat'.count = chat.count
           \/ /\ chat'.game \in Games /\ game[chat'.game].count = chat'.count
              /\ job'[u].op = "count" /\ job'[u].step = "show",
           \/ chat'.state \notin WizardStates
           \/ job'[u].step = "show"
           \/ chat'.state = "choose_player_count" /\ chat.state = "choose_player_count"
    PROVE  OnCourse'
<1>1. NothingToShow /\ BoardsDiffer /\ SummaryIsCurrent /\ ChatIsBound /\ KeyboardComes
  BY DEF IInv, OnCourse
<1>2. BoardsDiffer' /\ SummaryIsCurrent'
  BY <1>1 DEF BoardsDiffer, SummaryIsCurrent
<1>3. ChatIsBound'
  BY <1>1 DEF ChatIsBound, Alone
<1>4. \A v \in Updates : Fits(v)'
  BY DEF Alone, Fits
<1>5. KeyboardComes'
  <2>1. \A v \in Updates : job[v].step # "show"
    BY <1>1 DEF Alone, NothingToShow
  <2>2. QED
    BY <1>1, <2>1 DEF KeyboardComes, Answers, WizardStates
<1>6. QED
  BY <1>2, <1>3, <1>4, <1>5 DEF OnCourse

\* In ordinary use a tap is on the current game's keyboard.
LEMMA TapFits ==
    ASSUME IInv, OnCourse, NEW u \in Updates, Tap(u), Tidy', AllIdle
    PROVE  Fits(u)'
<1>1. ASSUME NEW m \in Messages, NEW op, NEW arg \in Jobs, arg.step = "run",
             Tapped(u, m, op, arg)
      PROVE  Fits(u)'
  <2> DEFINE new == [arg EXCEPT !.op = op, !.on = m, !.game = screen[m].game,
                                !.seen = screen[m].pool]
  <2>1. /\ job \in [Updates -> Jobs] /\ chat' = chat /\ screen' = screen
        /\ screen[m].game \in {NoGame, chat.game} /\ chat.state = HandledIn(op)
        /\ op \in Buttons(screen[m].kind)
    BY <1>1
       DEF Tapped, Counted, Tidy, IInv, TypeOK, ConversationTypeOK
  <2>2. job'[u] = new
    BY <1>1, <2>1 DEF Tapped, Taken
  <2>3. /\ new.op = op /\ new.on = m /\ new.game = screen[m].game /\ new.step = "run"
        /\ new.seen = screen[m].pool
    BY <1>1 DEF Jobs
  <2> HIDE DEF new
  <2>4. op \in {"scenario", "other_scenario", "mode", "count", "cancel", "toggle",
                "confirm", "back", "finalize"}
    BY <2>1 DEF Buttons
  <2>5. CASE op \in {"toggle", "confirm"}
    <3>1. screen[m].kind = "roles" /\ chat.state = "choose_roles"
      BY <2>1, <2>5 DEF Buttons, HandledIn
    <3>2. screen[m].game = chat.game
      BY <2>1, <3>1, NoGameIsNone DEF IInv, ArgumentsExist
    <3>3. QED
      BY <2>1, <2>2, <2>3, <2>5, <3>1, <3>2 DEF Fits, Boarded
  <2>6. CASE op \in {"back", "finalize"}
    <3>1. screen[m].kind = "summary" /\ chat.state = "confirm_summary"
      BY <2>1, <2>6 DEF Buttons, HandledIn
    <3>2. screen[m].game = chat.game
      BY <2>1, <3>1, NoGameIsNone DEF IInv, ArgumentsExist
    <3>3. screen[m].pool = chat.pool
      BY <3>1, <3>2 DEF OnCourse, SummaryIsCurrent
    <3>4. QED
      BY <2>1, <2>2, <2>3, <2>6, <3>1, <3>2, <3>3 DEF Fits, Boarded
  <2>7. CASE op \in {"scenario", "mode", "cancel"}
    BY <2>2, <2>3, <2>7 DEF Fits
  <2>8. CASE op = "other_scenario"
    <3>1. chat.state = "choose_scenario"
      BY <2>1, <2>8 DEF HandledIn
    <3>2. QED
      BY <2>1, <2>2, <2>3, <2>8, <3>1 DEF Fits
  <2>9. CASE op = "count"
    <3>1. chat.state = "choose_player_count"
      BY <2>1, <2>9 DEF HandledIn
    <3>2. Counting(u)'
      BY <2>1, <2>2, <2>3, <3>1 DEF Counting
    <3>3. QED
      BY <2>2, <2>3, <2>9, <3>2 DEF Fits
  <2>10. QED
    BY <2>4, <2>5, <2>6, <2>7, <2>8, <2>9
<1>2. /\ \A s \in Scenarios : [Idle EXCEPT !.scenario = s] \in Jobs
      /\ \A s \in Scenarios : [Idle EXCEPT !.scenario = s].step = "run"
      /\ \A d \in Modes : [Idle EXCEPT !.mode = d] \in Jobs
      /\ \A d \in Modes : [Idle EXCEPT !.mode = d].step = "run"
      /\ \A n \in Counts : [Idle EXCEPT !.count = n] \in Jobs
      /\ \A n \in Counts : [Idle EXCEPT !.count = n].step = "run"
      /\ \A r \in RoleIds : [Idle EXCEPT !.role = r] \in Jobs
      /\ \A r \in RoleIds : [Idle EXCEPT !.role = r].step = "run"
      /\ Idle \in Jobs /\ Idle.step = "run"
  BY ResetsAreTyped DEF Idle, Jobs
<1>3. \A m \in Messages : screen[m].offers \subseteq RoleIds
  BY DEF IInv, TypeOK, ConversationTypeOK, Screens
<1>4. QED
  BY <1>1, <1>2, <1>3 DEF Tap

\* In ordinary use an update is taken up when none is being handled ...
LEMMA TakenAlone ==
    ASSUME IInv, Tidy', NEW u \in Updates,
           Describe(u) \/ Start(u) \/ Tap(u) \/ TypeCount(u)
    PROVE  /\ AllIdle /\ Alone(u)
           /\ job[u].step = "run" /\ job[u].op = "idle"
<1>1. job \in [Updates -> Jobs] /\ trouble \in Nat
  BY DEF IInv, TypeOK, ConversationTypeOK
<1>2. \E o \in BOOLEAN : Counted(AllIdle /\ o)
  <2>1. CASE Tap(u)
    BY <2>1 DEF Tap, Tapped
  <2>2. CASE Describe(u) \/ Start(u) \/ TypeCount(u)
    <3>1. Counted(AllIdle)
      BY <2>2 DEF Describe, Start, TypeCount
    <3>2. (AllIdle /\ TRUE) = AllIdle
      BY DEF AllIdle
    <3>3. QED
      BY <3>1, <3>2
  <2>3. QED
    BY <2>1, <2>2
<1>3. AllIdle
  BY <1>1, <1>2 DEF Counted, Tidy
<1>4. \E new : Taken(u, new)
  BY DEF Describe, Start, Tap, Tapped, TypeCount
<1>5. QED
  BY <1>1, <1>3, <1>4 DEF Taken, Alone, AllIdle, Idle

\* ... and goes on alone.
LEMMA HandledAlone ==
    ASSUME IInv, OneAtATime, Next, Tidy', NEW u \in Updates,
           \/ CreateFails(u) \/ Create(u) \/ CreateTold(u) \/ CreateCommit(u)
           \/ PickScenario(u) \/ OtherScenario(u) \/ PickMode(u) \/ RefuseCount(u)
           \/ CreateGame(u) \/ Stash(u) \/ KeyMissing(u) \/ Toggle(u)
           \/ StashPicks(u) \/ Confirm(u) \/ Refuse(u) \/ Cancel(u) \/ Back(u)
           \/ ConfigureRoles(u) \/ InsertRoles(u) \/ Switch(u) \/ Show(u) \/ Commit(u)
    PROVE  Alone(u)
<1>1. JobTypeOK /\ NothingToShow /\ Tidy
  BY OverlapsAreCounted DEF IInv, TypeOK, ConversationTypeOK, JobTypeOK
<1>2. job[u].op # "idle"
  BY <1>1
     DEF CreateFails, Create, CreateTold, CreateCommit, PickScenario, OtherScenario,
         PickMode, RefuseCount, CreateGame, Stash, KeyMissing, Toggle, StashPicks, Confirm,
         Refuse, Cancel, Back, ConfigureRoles, InsertRoles, Switch, Show, Commit,
         HasCommit, Runs, NothingToShow
<1>3. \A v \in Updates \ {u} : job'[v] = job[v]
  <2>1. CASE \/ CreateFails(u) \/ Create(u) \/ CreateTold(u) \/ CreateCommit(u)
             \/ PickScenario(u) \/ OtherScenario(u) \/ PickMode(u) \/ RefuseCount(u)
    BY <1>1, <2>1
       DEF CreateFails, Create, CreateTold, CreateCommit, PickScenario, OtherScenario,
           PickMode, RefuseCount, Done, To, JobTypeOK
  <2>2. CASE \/ CreateGame(u) \/ Stash(u) \/ KeyMissing(u) \/ Toggle(u)
             \/ StashPicks(u) \/ Confirm(u) \/ Refuse(u) \/ Cancel(u) \/ Back(u)
             \/ ConfigureRoles(u) \/ InsertRoles(u)
    BY <1>1, <2>2
       DEF CreateGame, Stash, KeyMissing, Toggle, StashPicks, Confirm, Refuse, Cancel,
           Back, ConfigureRoles, InsertRoles, Done, To, JobTypeOK
  <2>3. CASE Switch(u) \/ Show(u) \/ Commit(u)
    BY <1>1, <2>3 DEF Switch, Show, Commit, Done, To, JobTypeOK
  <2>4. QED
    BY <2>1, <2>2, <2>3
<1>4. QED
  BY <1>1, <1>2, <1>3 DEF Alone, OneAtATime

\* The library's steps, and those that drop the wizard's flow
LEMMA LibraryOnCourse ==
    ASSUME IInv, OneAtATime, OnCourse, Next, Tidy',
           \/ LibraryNext /\ UNCHANGED <<game, spoilt>>
           \/ Reset /\ UNCHANGED rows
    PROVE  OnCourse'
<1>1. /\ TypeOK /\ NothingToShow /\ game' = game /\ JobTypeOK
      /\ trouble \in Nat
  BY DEF IInv, TypeOK, ConversationTypeOK, rows, JobTypeOK
<1>2. ASSUME job' = job, screen' = screen, Counted(AllIdle),
             chat'.state \notin WizardStates,
             \/ chat'.game = chat.game /\ chat'.pool = chat.pool
             \/ chat'.game = NoGame
      PROVE  OnCourse'
  <2>1. \A v \in Updates : job[v].op = "idle"
    BY <1>1, <1>2 DEF AllIdle, Idle, Counted, Tidy
  <2>2. \A m \in Messages : screen[m].kind = "summary" => screen[m].game # NoGame
    BY NoGameIsNone DEF IInv, ArgumentsExist
  <2>3. BoardsDiffer' /\ SummaryIsCurrent'
    BY <1>2, <2>2 DEF OnCourse, BoardsDiffer, SummaryIsCurrent
  <2>4. \A v \in Updates : Fits(v)'
    BY <1>2, <2>1 DEF Fits
  <2>5. QED
    BY <1>2, <2>3, <2>4 DEF OnCourse, ChatIsBound, KeyboardComes, WizardStates
<1>3. Cleared.state = "none" /\ Cleared.game = NoGame /\ chat \in Contexts
  BY <1>1 DEF Cleared, TypeOK, ConversationTypeOK
<1>4. CASE Reset
  BY <1>2, <1>3, <1>4 DEF Reset, WizardStates
<1>5. CASE NewRole \/ ChooseTeam \/ \E name \in Names : EnterName(name)
  BY <1>2, <1>3, <1>5 DEF NewRole, ChooseTeam, EnterName, Contexts, WizardStates
<1>6. CASE \E r \in RoleIds : Delete(r)
  BY <1>1, <1>6
     DEF Delete, conversation, OnCourse, BoardsDiffer, SummaryIsCurrent, ChatIsBound,
         KeyboardComes, Answers, Fits, Counting, Boarded
<1>7. ASSUME NEW u \in Updates, Describe(u)
      PROVE  OnCourse'
  <2>1. job'[u].op = "describe"
    BY <1>1, <1>7 DEF Describe, Taken, Idle, JobTypeOK
  <2>2. QED
    BY <1>1, <1>7, <2>1, TakenAlone, JobOnly DEF Describe, Fits
<1>8. ASSUME NEW u \in Updates, CreateFails(u) \/ Create(u) \/ CreateCommit(u)
      PROVE  OnCourse'
  <2>1. job'[u].op \in {"describe", "idle"} /\ job[u].op = "describe"
    <3>1. CASE Create(u)
      BY <1>1, <3>1 DEF Create, JobTypeOK, Jobs
    <3>2. CASE CreateFails(u) \/ CreateCommit(u)
      BY <1>1, <3>2, DoneEnds DEF CreateFails, CreateCommit
    <3>3. QED
      BY <1>8, <3>1, <3>2
  <2>2. chat' = chat /\ screen' = screen /\ job[u].step # "show"
    BY <1>8 DEF CreateFails, Create, CreateCommit
  <2>3. QED
    BY <1>1, <1>8, <2>1, <2>2, HandledAlone, JobOnly DEF Fits
<1>9. ASSUME NEW u \in Updates, CreateTold(u)
      PROVE  OnCourse'
  <2>1. /\ job'[u].op = "describe" /\ job[u].op = "describe" /\ job[u].step # "show"
        /\ chat' = Cleared /\ screen' = screen
    BY <1>1, <1>9 DEF CreateTold, To, JobTypeOK, Jobs
  <2>2. \A m \in Messages : screen[m].kind = "summary" => screen[m].game # NoGame
    BY NoGameIsNone DEF IInv, ArgumentsExist
  <2>3. QED
    BY <1>1, <1>3, <1>9, <2>1, <2>2, HandledAlone, ChatOnly DEF Fits, WizardStates
<1>10. ASSUME NEW u \in Updates, CreateRollback(u)
       PROVE  FALSE
  BY <1>1, <1>10 DEF CreateRollback, Counted, Tidy
<1>11. QED
  BY <1>4, <1>5, <1>6, <1>7, <1>8, <1>9, <1>10 DEF LibraryNext

\* The wizard's steps that write no more than the update's own job
LEMMA QuietOnCourse ==
    ASSUME IInv, OneAtATime, OnCourse, Next, Tidy', NEW u \in Updates,
           \/ Tap(u) \/ TypeCount(u) \/ OtherScenario(u) \/ RefuseCount(u) \/ KeyMissing(u)
           \/ Toggle(u) \/ Confirm(u) \/ Refuse(u) \/ ConfigureRoles(u)
           \/ InsertRoles(u)
    PROVE  OnCourse'
<1>1. JobTypeOK /\ NothingToShow /\ Fits(u) /\ chat \in Contexts
  BY DEF IInv, TypeOK, ConversationTypeOK, JobTypeOK, OnCourse
<1>2. /\ chat' = chat /\ screen' = screen /\ game' = game
      /\ job[u].step \in {"run", "insert"}
  BY <1>1, TakenAlone
     DEF Tap, Tapped, TypeCount, OtherScenario, RefuseCount, KeyMissing, Toggle, Confirm,
         Refuse, ConfigureRoles, InsertRoles, Runs, rows
<1>3. Alone(u)
  BY TakenAlone, HandledAlone
<1>4. SUFFICES Fits(u)'
  BY <1>1, <1>2, <1>3, JobOnly
<1>5. CASE Tap(u)
  BY <1>5, TakenAlone, TapFits
<1>6. CASE TypeCount(u)
  <2>1. PICK n \in Counts : Taken(u, [Idle EXCEPT !.op = "count", !.count = n])
    BY <1>6 DEF TypeCount
  <2>2. job'[u].op = "count" /\ job'[u].step = "run" /\ chat.state = "choose_player_count"
    BY <1>1, <1>6, <2>1 DEF TypeCount, Taken, Idle, JobTypeOK
  <2>3. QED
    BY <1>2, <2>2 DEF Fits, Counting
<1>7. CASE OtherScenario(u)
  <2>1. job'[u].op = "other_scenario" /\ chat.state = "choose_scenario"
    BY <1>1, <1>7, ToGoesOn DEF OtherScenario, Runs, Fits, Steps
  <2>2. QED
    BY <1>2, <2>1 DEF Fits
<1>8. CASE Confirm(u)
  <2>1. \E pool : job'[u] = [job[u] EXCEPT !.step = "switch", !.pool = pool]
    BY <1>1, <1>8 DEF Confirm, JobTypeOK
  <2>2. /\ job'[u].op = "confirm" /\ job'[u].step = "switch" /\ job'[u].on = job[u].on
        /\ job'[u].game = job[u].game /\ job[u].op = "confirm"
    BY <1>1, <1>8, <2>1 DEF Confirm, Runs, JobTypeOK, Jobs
  <2>3. QED
    BY <1>1, <1>2, <2>2 DEF Fits, Boarded
<1>9. CASE ConfigureRoles(u) /\ Configurable(job[u].game)
  <2>1. job'[u] = [job[u] EXCEPT !.pool = chat.pool, !.step = "insert"]
    BY <1>1, <1>9 DEF ConfigureRoles, JobTypeOK
  <2>2. /\ job'[u].op = "finalize" /\ job'[u].step = "insert" /\ job'[u].on = job[u].on
        /\ job'[u].game = job[u].game /\ job[u].op = "finalize" /\ job[u].step = "run"
        /\ job'[u].pool = chat.pool /\ job'[u].seen = job[u].seen
    BY <1>1, <1>9, <2>1 DEF ConfigureRoles, Runs, JobTypeOK, Jobs
  <2>3. QED
    BY <1>1, <1>2, <2>2 DEF Fits, Boarded
<1>10. CASE Toggle(u) /\ ~Done(u)
  <2>1. \E picks : job'[u] = [job[u] EXCEPT !.picks = picks, !.step = "stash"]
    BY <1>1, <1>10 DEF Toggle, JobTypeOK
  <2>2. /\ job'[u].op = "toggle" /\ job'[u].step = "stash" /\ job'[u].on = job[u].on
        /\ job'[u].game = job[u].game /\ job[u].op = "toggle"
    BY <1>1, <1>10, <2>1 DEF Toggle, Runs, JobTypeOK, Jobs
  <2>3. QED
    BY <1>1, <1>2, <2>2 DEF Fits, Boarded
<1>11. CASE InsertRoles(u) /\ ~Done(u)
  <2>1. job'[u] = [job[u] EXCEPT !.step = "switch"]
    BY <1>1, <1>11 DEF InsertRoles, To, JobTypeOK
  <2>2. /\ job'[u].op = "finalize" /\ job'[u].step = "switch" /\ job'[u].on = job[u].on
        /\ job'[u].game = job[u].game /\ job[u].op = "finalize" /\ job[u].step = "insert"
        /\ job'[u].pool = job[u].pool /\ job'[u].seen = job[u].seen
    BY <1>1, <1>11, <2>1 DEF InsertRoles, JobTypeOK, Jobs
  <2>3. QED
    BY <1>1, <1>2, <2>2 DEF Fits, Boarded
<1>12. CASE \/ RefuseCount(u) \/ KeyMissing(u) \/ Refuse(u)
            \/ ConfigureRoles(u) /\ ~Configurable(job[u].game)
            \/ (Toggle(u) \/ InsertRoles(u)) /\ Done(u)
  <2>1. Done(u)
    BY <1>12 DEF RefuseCount, KeyMissing, Refuse, ConfigureRoles
  <2>2. job'[u].op = "idle"
    BY <1>1, <2>1, DoneEnds
  <2>3. QED
    BY <2>2 DEF Fits
<1>13. QED
  BY <1>5, <1>6, <1>7, <1>8, <1>9, <1>10, <1>11, <1>12

\* Those that write the FSM context
LEMMA ChatOnCourse ==
    ASSUME IInv, OneAtATime, OnCourse, Next, Tidy', NEW u \in Updates,
           \/ Start(u) \/ PickScenario(u) \/ PickMode(u) \/ Stash(u)
           \/ StashPicks(u) \/ Cancel(u) \/ Back(u)
    PROVE  OnCourse'
<1>1. /\ JobTypeOK /\ NothingToShow /\ Fits(u) /\ chat \in Contexts
      /\ SummaryIsCurrent /\ ChatIsBound
  BY DEF IInv, TypeOK, ConversationTypeOK, JobTypeOK, OnCourse
<1>2. /\ screen' = screen /\ game' = game
      /\ job[u].step \in {"run", "stash"}
  BY TakenAlone
     DEF Start, PickScenario, PickMode, Stash, StashPicks, Cancel, Back, Runs, rows
<1>3. Alone(u)
  BY TakenAlone, HandledAlone
<1>4. \A m \in Messages : screen[m].kind = "summary" => screen[m].game # NoGame
  BY NoGameIsNone DEF IInv, ArgumentsExist
<1>5. \A s \in Steps : To(u, s) =>
         /\ job'[u].op = job[u].op /\ job'[u].step = s /\ job'[u].on = job[u].on
         /\ job'[u].game = job[u].game /\ job'[u].scenario = job[u].scenario
         /\ job'[u].count = job[u].count
  BY <1>1 DEF To, JobTypeOK, Jobs
<1>6. "show" \in Steps /\ "switch" \in Steps
  BY DEF Steps
<1>7. CASE Start(u)
  <2>1. job'[u] = [Idle EXCEPT !.op = "start", !.step = "show"]
    BY <1>1, <1>7 DEF Start, Taken, JobTypeOK
  <2>2. job'[u].op = "start" /\ job'[u].step = "show"
    BY <2>1 DEF Idle
  <2>3. chat'.state = "choose_scenario" /\ chat'.game = NoGame
    BY <1>7 DEF Start, Cleared
  <2>4. Fits(u)'
    BY <2>2, <2>3 DEF Fits
  <2>5. QED
    BY <1>2, <1>3, <1>4, <2>2, <2>3, <2>4, ChatOnly
<1>8. CASE PickScenario(u) \/ PickMode(u)
  <2>1. /\ chat'.state \in {"choose_role_mode", "choose_player_count"}
        /\ chat'.game = chat.game /\ chat'.pool = chat.pool
        /\ job'[u].step = "show"
        /\ \/ job'[u].op = "scenario" /\ chat'.state = "choose_role_mode"
           \/ job'[u].op = "mode" /\ chat'.state = "choose_player_count"
    BY <1>1, <1>5, <1>6, <1>8 DEF PickScenario, PickMode, Runs, Contexts
  <2>2. Fits(u)'
    BY <2>1 DEF Fits
  <2>3. QED
    BY <1>2, <1>3, <2>1, <2>2, ChatOnly
<1>9. CASE Stash(u)
  <2>1. /\ job[u].op = "count" /\ job[u].step = "stash"
        /\ chat'.state = chat.state /\ chat'.game = job[u].game
        /\ chat'.count = job[u].count /\ chat'.pool = chat.pool
        /\ job'[u].op = "count" /\ job'[u].step = "switch"
        /\ job'[u].game = job[u].game /\ job'[u].count = job[u].count
    BY <1>1, <1>5, <1>6, <1>9 DEF Stash, Stashed, Contexts
  <2>2. Counting(u)
    BY <1>1, <2>1 DEF Fits
  <2>3. Counting(u)'
    BY <1>2, <2>1, <2>2 DEF Counting
  <2>4. Fits(u)'
    BY <2>1, <2>3 DEF Fits
  <2>5. chat.state = "choose_player_count"
        /\ \A m \in Messages : screen[m].game # job[u].game
    BY <2>1, <2>2 DEF Counting
  <2>6. QED
    BY <1>2, <1>3, <2>1, <2>4, <2>5, ChatOnly
<1>10. CASE StashPicks(u)
  <2>1. /\ job[u].op = "toggle"
        /\ chat'.state = chat.state /\ chat'.game = chat.game
        /\ chat'.count = chat.count /\ chat'.pool = chat.pool
        /\ job'[u].op = "toggle" /\ job'[u].step = "show"
        /\ job'[u].game = job[u].game /\ job'[u].on = job[u].on
    BY <1>1, <1>5, <1>6, <1>10 DEF StashPicks, Contexts
  <2>2. Fits(u)'
    BY <1>1, <1>2, <2>1 DEF Fits, Boarded
  <2>3. chat.state = "choose_roles"
    BY <1>1, <2>1 DEF Fits
  <2>4. QED
    BY <1>2, <1>3, <2>1, <2>2, <2>3, ChatOnly
<1>11. CASE Cancel(u)
  <2>1. /\ job'[u].op = "cancel" /\ job'[u].step = "show"
        /\ chat'.state = "none" /\ chat'.game = NoGame
    BY <1>1, <1>5, <1>6, <1>11 DEF Cancel, Runs, Cleared
  <2>2. Fits(u)'
    BY <2>1 DEF Fits
  <2>3. QED
    BY <1>2, <1>3, <1>4, <2>1, <2>2, ChatOnly
<1>12. CASE Back(u)
  <2> DEFINE s == IF chat.scenario = "fixed" THEN "show" ELSE "switch"
  <2>1. job'[u] = [job[u] EXCEPT !.scenario = chat.scenario, !.step = s]
    BY <1>1, <1>12 DEF Back, JobTypeOK
  <2>2. /\ job[u].op = "back" /\ job[u].step = "run"
        /\ job'[u].op = "back" /\ job'[u].step = s /\ job'[u].on = job[u].on
        /\ job'[u].game = job[u].game /\ job'[u].scenario = chat.scenario
    BY <1>1, <1>12, <2>1 DEF Back, Runs, JobTypeOK, Jobs
  <2>3. /\ chat'.state = IF chat.scenario = "fixed" THEN "choose_scenario" ELSE chat.state
        /\ chat'.game = chat.game /\ chat'.count = chat.count /\ chat'.pool = chat.pool
    BY <1>1, <1>12 DEF Back, Contexts
  <2>4. chat.state = "confirm_summary"
    BY <1>1, <2>2 DEF Fits
  <2>5. Fits(u)'
    BY <1>1, <1>2, <2>2, <2>3, <2>4 DEF Fits, Boarded, Contexts, Scenarios
  <2>6. CASE chat.scenario = "fixed"
    BY <1>2, <1>3, <2>2, <2>3, <2>5, <2>6, ChatOnly
  <2>7. CASE chat.scenario # "fixed"
    <3>1. chat' = chat
      BY <1>1, <1>12, <2>7 DEF Back, Contexts
    <3>2. QED
      BY <1>2, <1>3, <2>2, <2>5, <3>1, JobOnly
  <2>8. QED
    BY <2>6, <2>7
<1>13. QED
  BY <1>7, <1>8, <1>9, <1>10, <1>11, <1>12

LEMMA SwitchOnCourse ==
    ASSUME IInv, OneAtATime, OnCourse, Next, Tidy', NEW u \in Updates, Switch(u)
    PROVE  OnCourse'
<1>1. /\ JobTypeOK /\ NothingToShow /\ Fits(u) /\ chat \in Contexts
      /\ SummaryIsCurrent /\ ChatIsBound /\ BoardsDiffer
  BY DEF IInv, TypeOK, ConversationTypeOK, JobTypeOK, OnCourse
<1>2. /\ screen' = screen /\ game' = game /\ job[u].step = "switch"
      /\ job[u].op \in {"count", "confirm", "back", "finalize"}
      /\ chat' = Switched(u)
  BY DEF Switch, rows
<1>3. Alone(u)
  BY HandledAlone
<1>4. /\ job'[u].op = job[u].op /\ job'[u].step = "show" /\ job'[u].on = job[u].on
      /\ job'[u].game = job[u].game /\ job'[u].scenario = job[u].scenario
      /\ job'[u].count = job[u].count /\ job'[u].pool = job[u].pool
      /\ job'[u].seen = job[u].seen
  BY <1>1 DEF Switch, To, JobTypeOK, Jobs
<1>5. CASE job[u].op = "count"
  <2>1. /\ job[u].scenario \in Scenarios /\ job[u].game \in Games
        /\ Counting(u)
    BY <1>1, <1>2, <1>5 DEF JobTypeOK, Jobs, Fits, IInv, GamesInTheMaking, Inserting
  <2>2. /\ chat.game = job[u].game /\ chat.count = job[u].count
        /\ game[job[u].game].count = job[u].count
        /\ \A m \in Messages : screen[m].game # job[u].game
    BY <1>2, <2>1 DEF Counting
  <2>3. /\ chat'.game = job[u].game /\ chat'.count = job[u].count
        /\ \/ job[u].scenario = "flexible" /\ chat'.state = "choose_roles"
           \/ /\ job[u].scenario = "fixed" /\ chat'.state = "confirm_summary"
              /\ chat'.pool = Prescribed(job[u].count)
    BY <1>1, <1>2, <1>5, <2>1, <2>2 DEF Switched, Summarised, Contexts, Scenarios
  <2>4. Counting(u)'
    BY <1>2, <1>4, <2>2, <2>3 DEF Counting, Prescribed
  <2>5. Fits(u)'
    BY <1>4, <1>5, <2>4 DEF Fits
  <2>6. QED
    BY <1>2, <1>3, <1>4, <1>5, <2>1, <2>2, <2>3, <2>5, ChatOnly
<1>6. CASE job[u].op = "confirm"
  <2>1. /\ chat'.game = chat.game /\ chat'.count = chat.count
        /\ chat'.pool = job[u].pool /\ chat'.state = "confirm_summary"
    BY <1>1, <1>2, <1>6 DEF Switched, Summarised, Contexts
  <2>2. /\ chat.state = "choose_roles" /\ Boarded(u)
        /\ screen[job[u].on].kind = "roles"
    BY <1>1, <1>2, <1>6 DEF Fits
  <2>3. \A m \in Messages : screen[m].kind = "summary" => screen[m].game # chat'.game
    BY <1>1, <1>2, <1>6, <2>1, <2>2 DEF Boarded, BoardsDiffer, IInv, ArgumentsExist
  <2>4. Fits(u)'
    BY <1>2, <1>4, <1>6, <2>1, <2>2 DEF Fits, Boarded
  <2>5. QED
    BY <1>2, <1>3, <1>4, <1>6, <2>1, <2>2, <2>3, <2>4, ChatOnly
<1>7. CASE job[u].op = "back"
  <2>1. /\ chat'.game = chat.game /\ chat'.count = chat.count
        /\ chat'.pool = chat.pool /\ chat'.state = "choose_roles"
    BY <1>1, <1>2, <1>7 DEF Switched, Contexts
  <2>2. chat.state = "confirm_summary" /\ Boarded(u) /\ job[u].scenario = "flexible"
    BY <1>1, <1>2, <1>7 DEF Fits
  <2>3. Fits(u)'
    BY <1>2, <1>4, <1>7, <2>1, <2>2 DEF Fits, Boarded
  <2>4. QED
    BY <1>2, <1>3, <1>4, <1>7, <2>1, <2>2, <2>3, ChatOnly
<1>8. CASE job[u].op = "finalize"
  <2>1. Boarded(u) /\ job[u].seen = job[u].pool
    BY <1>1, <1>2, <1>8 DEF Fits
  <2>2. /\ chat'.game = chat.game /\ chat'.pool = chat.pool
        /\ chat'.state \in {"waiting_players", "single_device"}
    BY <1>1, <1>2, <1>8, <2>1 DEF Switched, Contexts, Boarded
  <2>3. Fits(u)'
    BY <1>2, <1>4, <1>8, <2>1, <2>2 DEF Fits, Boarded
  <2>4. QED
    BY <1>2, <1>3, <1>4, <1>8, <2>2, <2>3, ChatOnly
<1>9. QED
  BY <1>2, <1>5, <1>6, <1>7, <1>8

\* A game is inserted, or committed.
LEMMA GameOnCourse ==
    ASSUME IInv, OneAtATime, PlainBoards, GamesInUse, OnCourse, Next, Tidy',
           NEW u \in Updates, CreateGame(u) \/ Commit(u)
    PROVE  OnCourse'
<1>1. /\ JobTypeOK /\ NothingToShow /\ Fits(u) /\ TypeOK
      /\ SummaryIsCurrent /\ ChatIsBound /\ BoardsDiffer /\ KeyboardComes
  BY DEF IInv, TypeOK, ConversationTypeOK, JobTypeOK, OnCourse
<1>2. /\ screen' = screen /\ chat' = chat /\ job[u].step \in {"run", "commit"}
  BY DEF CreateGame, Commit, Runs
<1>3. Alone(u)
  BY HandledAlone
<1>4. BoardsDiffer' /\ SummaryIsCurrent'
  BY <1>1, <1>2 DEF BoardsDiffer, SummaryIsCurrent
<1>5. KeyboardComes'
  <2>1. \A v \in Updates : job[v].step # "show"
    BY <1>1, <1>2, <1>3 DEF Alone, NothingToShow
  <2>2. QED
    BY <1>1, <1>2, <2>1 DEF KeyboardComes, Answers
<1>6. SUFFICES ChatIsBound' /\ Fits(u)'
  BY <1>3, <1>4, <1>5 DEF OnCourse, Alone, Fits
<1>7. CASE CreateGame(u)
  <2> DEFINE g == job'[u].game
  <2>1. /\ job'[u].op = "count" /\ job'[u].step = "stash" /\ job[u].op = "count"
        /\ job[u].step = "run" /\ g \in Games /\ game[g].state = "free"
        /\ game' = [game EXCEPT ![g] =
                       [NoRow EXCEPT !.state = "inserted", !.count = job[u].count,
                                     !.mode = chat.mode]]
    BY <1>1, <1>7, CreateGameJob
  <2>2. job'[u].count = job[u].count
    <3>1. PICK h \in Games : job' = [job EXCEPT ![u].game = h, ![u].step = "stash",
                                                ![u].scenario = chat.scenario]
      BY <1>7 DEF CreateGame
    <3>2. QED
      BY <1>1, <3>1 DEF JobTypeOK, Jobs
  <2>3. chat.state = "choose_player_count"
    BY <1>1, <2>1 DEF Fits, Counting
  <2>4. game'[g].count = job[u].count
    BY <1>1, <2>1 DEF TypeOK, NoRow
  <2>5. \A m \in Messages : screen[m].game # g
    <3>1. ASSUME NEW m \in Messages
          PROVE  screen[m].kind \in Kinds
      BY <1>1 DEF TypeOK, ConversationTypeOK, Screens
    <3>2. QED
      BY <2>1, <3>1, NoGameIsNone DEF PlainBoards, GamesInUse, Kinds
  <2>6. Counting(u)'
    BY <1>2, <2>1, <2>2, <2>3, <2>4, <2>5 DEF Counting
  <2>7. Fits(u)'
    BY <2>1, <2>6 DEF Fits
  <2>8. QED
    BY <1>2, <2>3, <2>7 DEF ChatIsBound
<1>8. CASE Commit(u)
  <2>1. job'[u].op = "idle" /\ job[u].step = "commit" /\ job[u].op \in {"count", "finalize"}
    BY <1>1, <1>8, DoneEnds DEF Commit, HasCommit
  <2>2. Fits(u)'
    BY <2>1 DEF Fits
  <2>3. CASE job[u].op = "count"
    <3>1. /\ job[u].game \in Games /\ chat.game = job[u].game
          /\ game' = [game EXCEPT ![job[u].game].state = "CREATING"]
          /\ game \in [Games -> GameRow]
      BY <1>1, <1>8, <2>1, <2>3
         DEF Commit, Fits, Counting, IInv, GamesInTheMaking, Inserting, TypeOK
    <3>2. game'[chat.game].state = "CREATING"
          /\ game'[chat.game].count = game[chat.game].count
      BY <3>1 DEF GameRow
    <3>3. QED
      BY <1>1, <1>2, <2>2, <3>2 DEF ChatIsBound
  <2>4. CASE job[u].op = "finalize"
    BY <1>1, <1>2, <2>1, <2>2, <2>4 DEF Fits, ChatIsBound
  <2>5. QED
    BY <2>1, <2>3, <2>4
<1>9. QED
  BY <1>7, <1>8

\* The answer reaches the screen.
LEMMA ShowOnCourse ==
    ASSUME IInv, OneAtATime, PlainBoards, OnCourse, Next, Tidy', NEW u \in Updates, Show(u)
    PROVE  OnCourse'
<1> DEFINE g == job[u].game
<1>1. /\ JobTypeOK /\ NothingToShow /\ Fits(u) /\ TypeOK
      /\ SummaryIsCurrent /\ ChatIsBound /\ BoardsDiffer /\ KeyboardComes
  BY DEF IInv, TypeOK, ConversationTypeOK, JobTypeOK, OnCourse
<1>2. /\ chat' = chat /\ game' = game /\ job[u].step = "show"
      /\ job[u].op \in Ops \ {"idle", "describe"}
  BY <1>1 DEF Show, rows, JobTypeOK, Jobs, NothingToShow
<1>3. Alone(u)
  BY HandledAlone
<1>4. PICK m \in Messages : Shows(u, m, Result(u))
  BY DEF Show
<1>5. /\ screen'[m] = Result(u)
      /\ \A n \in Messages \ {m} : screen'[n] = screen[n]
      /\ job[u].on \in Messages => m = job[u].on
  BY <1>1, <1>4, NewMessageIsNone DEF Shows, TypeOK, ConversationTypeOK
\* What it shows, and where
<1>6. /\ job[u].op \in {"start", "other_scenario", "scenario", "mode", "cancel"} =>
            Result(u).game = NoGame
      /\ job[u].op \in {"start", "other_scenario"} => Result(u).kind = "picker"
      /\ job[u].op = "scenario" => Result(u).kind = "modes"
      /\ job[u].op = "mode" => Result(u).kind = "counts"
      /\ job[u].op = "cancel" => Result(u).kind = "blank"
  BY DEF Result, Plain, Board, Blank
<1>7. /\ job[u].op = "count" =>
            /\ Result(u).game = g
            /\ \/ job[u].scenario = "fixed" /\ Result(u).kind = "summary"
                  /\ Result(u).pool = Prescribed(job[u].count)
               \/ job[u].scenario # "fixed" /\ Result(u).kind = "roles"
      /\ job[u].op = "toggle" => Result(u).kind = "roles" /\ Result(u).game = g
      /\ job[u].op = "confirm" =>
            Result(u).kind = "summary" /\ Result(u).game = g /\ Result(u).pool = job[u].pool
      /\ job[u].op = "back" =>
            \/ job[u].scenario = "fixed" /\ Result(u).kind = "picker"
                 /\ Result(u).game = NoGame
            \/ job[u].scenario # "fixed" /\ Result(u).kind = "roles" /\ Result(u).game = g
      /\ job[u].op = "finalize" =>
            Result(u).kind \in {"grid", "code"} /\ Result(u).game = g
  BY DEF Result, Plain, Board, RolesBoard, SummaryBoard
<1>8. \/ Result(u).game = NoGame
      \/ /\ Result(u).game = g /\ chat.game = g
         /\ \/ job[u].op = "count" /\ \A n \in Messages : screen[n].game # g
            \/ m = job[u].on /\ screen[m].game = g
  <2>1. CASE job[u].op = "count"
    BY <1>1, <1>2, <1>7, <2>1 DEF Fits, Counting
  <2>2. CASE job[u].op \in {"toggle", "confirm", "back", "finalize"}
    BY <1>1, <1>2, <1>5, <1>7, <2>2 DEF Fits, Boarded
  <2>3. QED
    BY <1>2, <1>6, <2>1, <2>2 DEF Ops
<1>9. BoardsDiffer'
  BY <1>1, <1>5, <1>8, NoGameIsNone DEF BoardsDiffer
<1>10. SummaryIsCurrent'
  <2>1. Result(u).kind = "summary" => Result(u).pool = chat.pool
    BY <1>1, <1>2, <1>6, <1>7 DEF Ops, Fits, Counting
  <2>2. QED
    BY <1>1, <1>2, <1>5, <2>1 DEF SummaryIsCurrent
<1>11. /\ job[u].op \in {"count", "finalize"} =>
              /\ job'[u].op = job[u].op /\ job'[u].step = "commit"
              /\ job'[u].on = job[u].on /\ job'[u].game = g
              /\ job'[u].scenario = job[u].scenario /\ job'[u].count = job[u].count
              /\ job'[u].pool = job[u].pool /\ job'[u].seen = job[u].seen
       /\ job[u].op \notin {"count", "finalize"} => job'[u].op = "idle"
  <2>1. CASE job[u].op \in {"count", "finalize"}
    BY <1>1, <2>1 DEF Show, HasCommit, To, JobTypeOK, Jobs
  <2>2. CASE job[u].op \notin {"count", "finalize"}
    BY <1>1, <2>2, DoneEnds DEF Show, HasCommit
  <2>3. QED
    BY <2>1, <2>2
<1>12. ChatIsBound'
  BY <1>1, <1>2, <1>3, <1>11 DEF ChatIsBound, Alone
<1>13. \A v \in Updates : Fits(v)'
  <2>1. Fits(u)'
    <3>1. CASE job[u].op = "count"
      <4>1. Counting(u)'
        BY <1>1, <1>2, <1>11, <3>1 DEF Fits, Counting, Prescribed
      <4>2. QED
        BY <1>11, <3>1, <4>1 DEF Fits
    <3>2. CASE job[u].op = "finalize"
      BY <1>1, <1>2, <1>11, <3>2 DEF Fits, Boarded
    <3>3. CASE job[u].op \notin {"count", "finalize"}
      BY <1>11, <3>3 DEF Fits
    <3>4. QED
      BY <3>1, <3>2, <3>3
  <2>2. QED
    BY <1>3, <2>1 DEF Alone, Fits
<1>14. KeyboardComes'
  <2>1. chat.state \in WizardStates =>
           \/ chat.state = "choose_scenario" /\ Result(u).kind = "picker"
           \/ chat.state = "choose_role_mode" /\ Result(u).kind = "modes"
           \/ chat.state = "choose_player_count" /\ Result(u).kind = "counts"
           \/ chat.state = "choose_roles" /\ Result(u).kind = "roles"
                /\ Result(u).game = chat.game
           \/ chat.state = "confirm_summary" /\ Result(u).kind = "summary"
                /\ Result(u).game = chat.game
    <3>1. CASE job[u].op \in {"start", "other_scenario", "scenario", "mode", "cancel"}
      BY <1>1, <1>2, <1>6, <3>1 DEF Fits, WizardStates
    <3>2. CASE job[u].op = "count"
      BY <1>1, <1>2, <1>7, <3>2 DEF Fits, Counting
    <3>3. CASE job[u].op \in {"toggle", "confirm", "back", "finalize"}
      BY <1>1, <1>2, <1>7, <3>3 DEF Fits, Boarded, WizardStates
    <3>4. QED
      BY <1>2, <3>1, <3>2, <3>3 DEF Ops
  <2>2. QED
    BY <1>2, <1>5, <2>1 DEF KeyboardComes, Answers
<1>15. QED
  BY <1>9, <1>10, <1>12, <1>13, <1>14 DEF OnCourse

LEMMA WizardStep ==
    ASSUME IInv, WizardInv, Next
    PROVE  WizardInv'
<1>1. PlainBoards' /\ GamesInUse'
  BY BoardsStep DEF WizardInv
<1>2. SUFFICES ASSUME Tidy' PROVE OnCourse'
  BY <1>1 DEF WizardInv
<1>3. /\ OneAtATime /\ PlainBoards /\ GamesInUse /\ OnCourse
      /\ trouble \in Nat
  BY <1>2, OverlapsAreCounted
     DEF WizardInv, IInv, TypeOK, ConversationTypeOK
<1>4. \A u \in Updates : ~Fail(u)
  BY <1>2, <1>3 DEF Fail, Counted, Tidy
<1>5. CASE \E u \in Updates :
              \/ Tap(u) \/ TypeCount(u) \/ OtherScenario(u) \/ RefuseCount(u)
              \/ KeyMissing(u) \/ Toggle(u) \/ Confirm(u) \/ Refuse(u)
              \/ ConfigureRoles(u) \/ InsertRoles(u)
  BY <1>2, <1>3, <1>5, QuietOnCourse
<1>6. CASE \E u \in Updates :
              \/ Start(u) \/ PickScenario(u) \/ PickMode(u) \/ Stash(u)
              \/ StashPicks(u) \/ Cancel(u) \/ Back(u)
  BY <1>2, <1>3, <1>6, ChatOnCourse
<1>7. CASE \E u \in Updates : Switch(u) \/ Show(u) \/ CreateGame(u) \/ Commit(u)
  BY <1>2, <1>3, <1>7, SwitchOnCourse, ShowOnCourse, GameOnCourse
<1>8. CASE LibraryNext /\ UNCHANGED <<game, spoilt>>
  BY <1>2, <1>3, <1>8, LibraryOnCourse
<1>9. CASE Reset /\ UNCHANGED rows
  BY <1>2, <1>3, <1>9, LibraryOnCourse
<1>10. QED
  BY <1>4, <1>5, <1>6, <1>7, <1>8, <1>9 DEF Next

-----------------------------------------------------------------------------
(* The games. *)

\* The parts of the invariant about games.
GamesFit ==
    /\ GamesInTheMaking /\ OpeningsFit /\ PoolsComeWithOpening /\ SpoiltExist
    /\ PoolFillsItsTable /\ WizardHidesPhoneCodes /\ AnnouncedGamesAreOpen

\* The same update has the same row inserted.
LEMMA GamesKept ==
    ASSUME GamesInTheMaking,
           \A v \in Updates : Inserting(v)' =>
              /\ Inserting(v) /\ job'[v].game = job[v].game
              /\ game'[job[v].game].state = game[job[v].game].state
    PROVE  GamesInTheMaking'
<1>1. ASSUME NEW v \in Updates, Inserting(v)'
      PROVE  job'[v].game \in Games /\ game'[job'[v].game].state = "inserted"
  BY <1>1 DEF GamesInTheMaking
<1>2. ASSUME NEW v \in Updates, NEW w \in Updates, Inserting(v)', Inserting(w)',
             job'[v].game = job'[w].game
      PROVE  v = w
  BY <1>2 DEF GamesInTheMaking
<1>3. QED
  BY <1>1, <1>2 DEF GamesInTheMaking

\* The same update is opening the same row.
OpensStill(v) ==
    /\ Opening(v) /\ (Written(v)' => Written(v))
    /\ job'[v].game = job[v].game /\ job'[v].pool = job[v].pool

LEMMA OpeningsKept ==
    ASSUME OpeningsFit, Tidy' => Tidy,
           \A v \in Updates : Opening(v)' =>
              OpensStill(v) /\ game'[job[v].game] = game[job[v].game]
    PROVE  OpeningsFit'
<1>1. ASSUME NEW v \in Updates, Opening(v)'
      PROVE  /\ job'[v].game \in Games
             /\ game'[job'[v].game].state \in {"CREATING", "WAITING_PLAYERS"}
             /\ job'[v].pool.size = game'[job'[v].game].count
             /\ game'[job'[v].game].pools # <<>> => ~Tidy'
  BY <1>1 DEF OpeningsFit, OpensStill
<1>2. ASSUME NEW v \in Updates, Written(v)'
      PROVE  ~Collides(job[v].game, job[v].pool)'
  BY <1>2 DEF OpeningsFit, OpensStill, Written, Collides
<1>3. ASSUME NEW v \in Updates, NEW w \in Updates, Written(v)', Written(w)',
             job'[v].game = job'[w].game
      PROVE  v = w
  BY <1>3 DEF OpeningsFit, OpensStill, Written
<1>4. QED
  BY <1>1, <1>2, <1>3 DEF OpeningsFit

\* What a screen announces, and how that can be.
LEMMA AnnouncedBefore ==
    ASSUME IInv, NEW m \in Messages, screen[m].kind \in {"code", "grid"}
    PROVE  /\ screen[m].game \in Games
           /\ \/ game[screen[m].game].state = "WAITING_PLAYERS"
              \/ \E v \in Updates : Announcing(v) /\ job[v].game = screen[m].game
              \/ screen[m].game \in spoilt
    BY DEF IInv, ArgumentsExist, AnnouncedGamesAreOpen, Announcing, Opening

\* A new row, which nothing shows or holds yet.
LEMMA CreateGameStep ==
    ASSUME IInv, NEW u \in Updates, CreateGame(u)
    PROVE  GamesFit'
<1>1. JobTypeOK /\ game \in [Games -> GameRow] /\ screen \in [Messages -> Screens]
      /\ spoilt \subseteq Games
  BY DEF IInv, TypeOK, ConversationTypeOK, JobTypeOK
<1> DEFINE g == job'[u].game
<1>2. /\ TypeOK /\ screen' = screen /\ spoilt' = spoilt /\ (Tidy' => Tidy)
      /\ OthersKept(u) /\ job'[u].op = "count" /\ job'[u].step = "stash"
      /\ job[u].op = "count" /\ job[u].step = "run"
      /\ game[g].state = "free" /\ g \in Games
  BY CreateGameJob DEF IInv, CreateGame, Tidy
<1>3. \A v \in Updates \ {u} : job'[v] = job[v]
  BY <1>2 DEF OthersKept
<1>4. /\ game'[g].state = "inserted" /\ game'[g].pools = <<>>
      /\ \A h \in Games \ {g} : game'[h] = game[h]
  BY <1>1, <1>2, CreateGameJob DEF NoRow
<1>5. /\ \A v \in Updates : Opening(v)' <=> Opening(v)
      /\ \A v \in Updates \ {u} : Inserting(v)' <=> Inserting(v)
      /\ \A v \in Updates : Opening(v) => v # u
  BY <1>2, <1>3 DEF Opening, Inserting
<1>6. GamesInTheMaking'
  <2>1. \A v \in Updates \ {u} :
           Inserting(v)' => /\ Inserting(v) /\ job'[v].game = job[v].game
                            /\ job[v].game \in Games \ {g}
                            /\ game'[job[v].game].state = "inserted"
    BY <1>2, <1>3, <1>4, <1>5 DEF IInv, GamesInTheMaking
  <2>2. \A v, w \in Updates \ {u} :
           Inserting(v) /\ Inserting(w) /\ job[v].game = job[w].game => v = w
    BY DEF IInv, GamesInTheMaking
  <2>3. QED
    BY <1>2, <1>4, <2>1, <2>2 DEF GamesInTheMaking
<1>7. OpeningsFit'
  <2>1. \A v \in Updates :
           Opening(v)' => OpensStill(v) /\ game'[job[v].game] = game[job[v].game]
    BY <1>2, <1>3, <1>4, <1>5 DEF IInv, OpeningsFit, OpensStill, Written, Opening
  <2>2. QED
    BY <1>2, <2>1, OpeningsKept DEF IInv
<1>8. SpoiltExist' /\ PoolFillsItsTable' /\ PoolsComeWithOpening'
  BY <1>1, <1>2, <1>4 DEF IInv, SpoiltExist, PoolFillsItsTable, PoolsComeWithOpening
<1>9. ASSUME NEW m \in Messages, screen[m].kind \in {"code", "grid"}
      PROVE  /\ screen[m].game \in Games \ {g}
             /\ \/ game'[screen[m].game].state = "WAITING_PLAYERS"
                \/ \E v \in Updates : Announcing(v)' /\ job'[v].game = screen[m].game
                \/ screen[m].game \in spoilt'
  <2>1. game[screen[m].game].state # "free"
    BY <1>9, AnnouncedBefore DEF IInv, OpeningsFit, SpoiltExist, Announcing
  <2>2. QED
    BY <1>2, <1>3, <1>4, <1>5, <1>9, <2>1, AnnouncedBefore DEF Announcing
<1>10. WizardHidesPhoneCodes' /\ AnnouncedGamesAreOpen'
  BY <1>2, <1>4, <1>9
     DEF IInv, WizardHidesPhoneCodes, AnnouncedGamesAreOpen, Announcing, Opening
<1>11. QED
  BY <1>6, <1>7, <1>8, <1>10 DEF GamesFit

\* A commit makes a new row visible ...
LEMMA CountCommitStep ==
    ASSUME IInv, NEW u \in Updates, Commit(u), job[u].op = "count"
    PROVE  GamesFit'
<1> DEFINE g == job[u].game
<1>1. JobTypeOK /\ game \in [Games -> GameRow]
  BY DEF IInv, TypeOK, ConversationTypeOK, JobTypeOK
<1>2. /\ screen' = screen /\ spoilt' = spoilt /\ (Tidy' => Tidy) /\ job'[u].op = "idle"
      /\ \A v \in Updates \ {u} : job'[v] = job[v]
  BY <1>1, DoneEnds DEF Commit, OthersKept, Tidy
<1>3. /\ Inserting(u) /\ g \in Games /\ game[g].state = "inserted"
      /\ game' = [game EXCEPT ![g].state = "CREATING"]
  BY DEF IInv, GamesInTheMaking, Commit, Inserting
<1>4. /\ \A h \in Games \ {g} : game'[h] = game[h]
      /\ game'[g].state = "CREATING" /\ game'[g].mode = game[g].mode
      /\ game'[g].pools = game[g].pools
  BY <1>1, <1>3 DEF GameRow
<1>5. \A v \in Updates :
         /\ Inserting(v)' => v # u /\ Inserting(v) /\ job'[v] = job[v]
         /\ Opening(v)' => v # u /\ Opening(v) /\ job'[v] = job[v]
         /\ Opening(v) => v # u
  BY <1>2, <1>3 DEF Inserting, Opening
<1>6. GamesInTheMaking'
  <2>1. \A v \in Updates : Inserting(v)' => job[v].game \in Games \ {g}
    BY <1>3, <1>5 DEF IInv, GamesInTheMaking
  <2>2. \A v \in Updates : Inserting(v)' =>
           /\ Inserting(v) /\ job'[v].game = job[v].game
           /\ game'[job[v].game].state = game[job[v].game].state
    BY <1>4, <1>5, <2>1
  <2>3. QED
    BY <2>2, GamesKept DEF IInv
<1>7. OpeningsFit'
  <2>1. \A v \in Updates : Opening(v)' => job[v].game \in Games \ {g}
    BY <1>3, <1>5 DEF IInv, OpeningsFit
  <2>2. \A v \in Updates : Opening(v)' =>
           OpensStill(v) /\ game'[job[v].game] = game[job[v].game]
    BY <1>4, <1>5, <2>1 DEF OpensStill, Written
  <2>3. QED
    BY <1>2, <2>2, OpeningsKept DEF IInv
<1>8. SpoiltExist' /\ PoolFillsItsTable' /\ PoolsComeWithOpening'
  <2>1. SpoiltExist'
    BY <1>1, <1>2, <1>3, <1>4 DEF IInv, TypeOK, SpoiltExist
  <2>2. PoolFillsItsTable'
    BY <1>2, <1>4 DEF IInv, PoolFillsItsTable
  <2>3. PoolsComeWithOpening'
    BY <1>3, <1>4 DEF IInv, PoolsComeWithOpening
  <2>4. QED
    BY <2>1, <2>2, <2>3
<1>9. WizardHidesPhoneCodes'
  BY <1>2, <1>4 DEF IInv, ArgumentsExist, WizardHidesPhoneCodes
<1>10. ASSUME NEW m \in Messages, screen[m].kind \in {"code", "grid"}
       PROVE  \/ game'[screen[m].game].state = "WAITING_PLAYERS"
              \/ \E v \in Updates : Announcing(v)' /\ job'[v].game = screen[m].game
              \/ screen[m].game \in spoilt'
  BY <1>2, <1>3, <1>4, <1>5, <1>10, AnnouncedBefore DEF Announcing, Opening
<1>11. AnnouncedGamesAreOpen'
  BY <1>2, <1>10 DEF AnnouncedGamesAreOpen, Announcing, Opening
<1>12. QED
  BY <1>6, <1>7, <1>8, <1>9, <1>11 DEF GamesFit

\* ... or opens a game with one more composition that fits.
LEMMA OpeningCommitStep ==
    ASSUME IInv, NEW u \in Updates, Commit(u), job[u].op = "finalize"
    PROVE  GamesFit'
<1> DEFINE g == job[u].game
           pool == job[u].pool
<1>1. /\ JobTypeOK /\ game \in [Games -> GameRow] /\ pool \in Pools
  BY DEF IInv, TypeOK, ConversationTypeOK, JobTypeOK, Jobs
<1>2. /\ screen' = screen /\ spoilt' = spoilt /\ (Tidy' <=> Tidy) /\ job'[u].op = "idle"
      /\ \A v \in Updates \ {u} : job'[v] = job[v]
  BY <1>1, DoneEnds DEF Commit, OthersKept, Tidy
<1>3. /\ Written(u) /\ Announcing(u) /\ Opening(u) /\ g \in Games
      /\ game[g].state \in {"CREATING", "WAITING_PLAYERS"} /\ pool.size = game[g].count
      /\ game[g].pools # <<>> => ~Tidy
      /\ ~Collides(g, pool)
      /\ game' = [game EXCEPT ![g].state = "WAITING_PLAYERS",
                              ![g].pools = Append(@, pool)]
  BY DEF IInv, OpeningsFit, Commit, Written, Announcing, Opening
<1>4. /\ \A h \in Games \ {g} : game'[h] = game[h]
      /\ game'[g].state = "WAITING_PLAYERS" /\ game'[g].mode = game[g].mode
      /\ game'[g].count = game[g].count
      /\ game'[g].pools = Append(game[g].pools, pool)
      /\ game[g].pools \in Seq(Pools)
  BY <1>1, <1>3 DEF GameRow
<1>5. \A v \in Updates :
         /\ Inserting(v)' => v # u /\ Inserting(v) /\ job'[v] = job[v]
         /\ Opening(v)' => v # u /\ Opening(v) /\ job'[v] = job[v]
         /\ Opening(v) /\ v # u => Opening(v)'
  BY <1>2 DEF Inserting, Opening
<1>6. GamesInTheMaking'
  <2>1. \A v \in Updates : Inserting(v)' => job[v].game \in Games \ {g}
    BY <1>3, <1>5 DEF IInv, GamesInTheMaking
  <2>2. \A v \in Updates : Inserting(v)' =>
           /\ Inserting(v) /\ job'[v].game = job[v].game
           /\ game'[job[v].game].state = game[job[v].game].state
    BY <1>4, <1>5, <2>1
  <2>3. QED
    BY <2>2, GamesKept DEF IInv
<1>7. OpeningsFit'
  <2>1. ASSUME NEW v \in Updates, Opening(v)'
        PROVE  /\ job'[v] = job[v] /\ Opening(v) /\ v # u
               /\ Written(v)' => Written(v) /\ job[v].game # g
    BY <1>3, <1>5, <2>1 DEF IInv, OpeningsFit, Written
  <2>2. ASSUME NEW v \in Updates, Opening(v)'
        PROVE  /\ job'[v].game \in Games
               /\ game'[job'[v].game].state \in {"CREATING", "WAITING_PLAYERS"}
               /\ job'[v].pool.size = game'[job'[v].game].count
               /\ game'[job'[v].game].pools # <<>> => ~Tidy'
    <3>1. /\ job[v].game \in Games
          /\ game[job[v].game].state \in {"CREATING", "WAITING_PLAYERS"}
          /\ job[v].pool.size = game[job[v].game].count
          /\ game[job[v].game].pools # <<>> => ~Tidy
      BY <2>1, <2>2 DEF IInv, OpeningsFit
    <3>2. ~Tidy
      BY <1>3, <2>1, <2>2 DEF IInv, OneAtATime, Opening
    <3>3. CASE job[v].game = g
      BY <1>2, <1>4, <2>1, <2>2, <3>1, <3>2, <3>3
    <3>4. CASE job[v].game # g
      BY <1>2, <1>4, <2>1, <2>2, <3>1, <3>2, <3>4
    <3>5. QED
      BY <3>3, <3>4
  <2>3. ASSUME NEW v \in Updates, Written(v)'
        PROVE  ~Collides(job[v].game, job[v].pool)'
    <3>1. Opening(v)'
      BY <2>3 DEF Written
    <3>2. /\ job'[v] = job[v] /\ job[v].game \in Games \ {g}
          /\ ~Collides(job[v].game, job[v].pool)
      BY <2>1, <2>3, <3>1 DEF IInv, OpeningsFit
    <3>3. QED
      BY <1>4, <3>2 DEF Collides
  <2>4. ASSUME NEW v \in Updates, NEW w \in Updates, Written(v)', Written(w)',
               job'[v].game = job'[w].game
        PROVE  v = w
    BY <2>1, <2>4 DEF IInv, OpeningsFit, Written
  <2>5. QED
    BY <2>2, <2>3, <2>4 DEF OpeningsFit
<1>8. SpoiltExist' /\ PoolsComeWithOpening'
  <2>1. SpoiltExist'
    BY <1>1, <1>2, <1>3, <1>4 DEF IInv, TypeOK, SpoiltExist
  <2>2. PoolsComeWithOpening'
    BY <1>3, <1>4 DEF IInv, PoolsComeWithOpening
  <2>3. QED
    BY <2>1, <2>2
<1>9. PoolFillsItsTable'
  <2> DEFINE old == game[g].pools
             new == Append(old, pool)
  <2>1. /\ new # <<>> /\ DOMAIN new = 1..(Len(old) + 1) /\ DOMAIN old = 1..Len(old)
        /\ new[Len(old) + 1] = pool /\ Len(old) \in Nat
        /\ \A i \in 1..Len(old) : new[i] = old[i]
    <3>1. old \in Seq(Pools) /\ pool \in Pools
      BY <1>1, <1>4
    <3> HIDE DEF old, pool
    <3>2. /\ new \in Seq(Pools) /\ Len(new) = Len(old) + 1 /\ Len(old) \in Nat
          /\ DOMAIN new = 1..Len(new) /\ DOMAIN old = 1..Len(old)
          /\ new[Len(old) + 1] = pool
          /\ \A i \in 1..Len(old) : new[i] = old[i]
      BY <3>1
    <3>3. QED
      BY <3>2
  <2>2. \A i \in DOMAIN old : ~Share(old[i], pool) /\ ~Share(pool, old[i])
    BY <1>3 DEF Collides, Share
  <2>3. \A i \in DOMAIN old : ~Tidy
    BY <1>3, <2>1
  <2>4. /\ \A i \in DOMAIN old : old[i].size = game[g].count
        /\ \A i, j \in DOMAIN old : i = j \/ (~Tidy /\ ~Share(old[i], old[j]))
    <3>1. CASE game[g].state = "WAITING_PLAYERS"
      BY <1>3, <3>1 DEF IInv, PoolFillsItsTable
    <3>2. CASE game[g].state # "WAITING_PLAYERS"
      BY <1>3, <3>2 DEF IInv, PoolsComeWithOpening
    <3>3. QED
      BY <3>1, <3>2
  <2> HIDE DEF old, new
  <2>5. \A i \in DOMAIN new : new[i].size = game[g].count
    BY <1>3, <2>1, <2>4
  <2>6. \A i, j \in DOMAIN new : i = j \/ (~Tidy /\ ~Share(new[i], new[j]))
    <3>1. SUFFICES ASSUME NEW i \in DOMAIN new, NEW j \in DOMAIN new, i # j
                   PROVE  ~Tidy /\ ~Share(new[i], new[j])
      OBVIOUS
    <3>2. CASE i \in DOMAIN old /\ j \in DOMAIN old
      BY <2>1, <2>4, <3>1, <3>2
    <3>3. CASE i = Len(old) + 1 /\ j \in DOMAIN old
      BY <2>1, <2>2, <2>3, <3>3
    <3>4. CASE i \in DOMAIN old /\ j = Len(old) + 1
      BY <2>1, <2>2, <2>3, <3>4
    <3>5. QED
      BY <2>1, <3>1, <3>2, <3>3, <3>4
  <2>7. game'[g].pools = new
    BY <1>4 DEF new, old
  <2>8. ASSUME NEW h \in Games, game'[h].state = "WAITING_PLAYERS"
        PROVE  /\ game'[h].pools # <<>>
               /\ \A i \in DOMAIN game'[h].pools :
                     game'[h].pools[i].size = game'[h].count
               /\ \A i, j \in DOMAIN game'[h].pools :
                     i = j \/ (~Tidy /\ ~Share(game'[h].pools[i], game'[h].pools[j]))
    <3>1. CASE h = g
      BY <1>4, <2>1, <2>5, <2>6, <2>7, <3>1
    <3>2. CASE h # g
      BY <1>4, <2>8, <3>2 DEF IInv, PoolFillsItsTable
    <3>3. QED
      BY <3>1, <3>2
  <2>9. QED
    BY <1>2, <2>8 DEF PoolFillsItsTable
<1>10. WizardHidesPhoneCodes'
  BY <1>2, <1>4 DEF IInv, ArgumentsExist, WizardHidesPhoneCodes
<1>11. ASSUME NEW m \in Messages, screen[m].kind \in {"code", "grid"}
       PROVE  \/ game'[screen[m].game].state = "WAITING_PLAYERS"
              \/ \E v \in Updates : Announcing(v)' /\ job'[v].game = screen[m].game
              \/ screen[m].game \in spoilt'
  BY <1>2, <1>4, <1>5, <1>11, AnnouncedBefore DEF Announcing
<1>12. AnnouncedGamesAreOpen'
  BY <1>2, <1>11 DEF AnnouncedGamesAreOpen, Announcing, Opening
<1>13. QED
  BY <1>6, <1>7, <1>8, <1>9, <1>10, <1>12 DEF GamesFit

\* A failure rolls a creation back, and spoils an opening that was announced.
LEMMA FailStep ==
    ASSUME IInv, NEW u \in Updates, Fail(u)
    PROVE  GamesFit'
<1> DEFINE g == job[u].game
<1>1. JobTypeOK /\ game \in [Games -> GameRow] /\ trouble \in Nat
  BY DEF IInv, TypeOK, ConversationTypeOK, JobTypeOK
<1>2. /\ screen' = screen /\ ~Tidy' /\ job'[u].op = "idle"
      /\ \A v \in Updates \ {u} : job'[v] = job[v]
      /\ spoilt' = spoilt \cup (IF Announcing(u) THEN {g} ELSE {})
  BY <1>1, DoneEnds DEF Fail, OthersKept, Announcing, Opening, Counted, Tidy
<1>3. \/ /\ Inserting(u) /\ ~Opening(u) /\ g \in Games /\ game[g].state = "inserted"
         /\ game' = [game EXCEPT ![g].state = "rolled_back"]
      \/ ~Inserting(u) /\ game' = game
  BY DEF IInv, GamesInTheMaking, Fail, Inserting, Opening
<1>4. /\ \A h \in Games : h # g \/ ~Inserting(u) => game'[h] = game[h]
      /\ \A h \in Games : /\ game'[h].mode = game[h].mode
                          /\ game'[h].pools = game[h].pools
      /\ Inserting(u) => game'[g].state = "rolled_back"
      /\ Opening(u) => g \in Games /\ game'[g].state # "free"
  <2>1. Opening(u) => g \in Games /\ game[g].state # "free"
    BY DEF IInv, OpeningsFit
  <2>2. ASSUME NEW h \in Games
        PROVE  /\ h # g \/ ~Inserting(u) => game'[h] = game[h]
               /\ game'[h].mode = game[h].mode /\ game'[h].pools = game[h].pools
    BY <1>1, <1>3 DEF GameRow
  <2>3. Inserting(u) => game'[g].state = "rolled_back"
    BY <1>1, <1>3 DEF GameRow
  <2>4. QED
    BY <1>3, <2>1, <2>2, <2>3
<1>5. \A v \in Updates :
         /\ Inserting(v)' => v # u /\ Inserting(v) /\ job'[v] = job[v]
         /\ Opening(v)' => v # u /\ Opening(v) /\ job'[v] = job[v]
         /\ Opening(v) /\ v # u => Opening(v)'
  BY <1>2 DEF Inserting, Opening
<1>6. GamesInTheMaking'
  <2>1. \A v \in Updates : Inserting(v)' =>
           /\ job[v].game \in Games
           /\ Inserting(u) => job[v].game # g
    BY <1>5 DEF IInv, GamesInTheMaking
  <2>2. \A v \in Updates : Inserting(v)' =>
           /\ Inserting(v) /\ job'[v].game = job[v].game
           /\ game'[job[v].game].state = game[job[v].game].state
    BY <1>4, <1>5, <2>1
  <2>3. QED
    BY <2>2, GamesKept DEF IInv
<1>7. OpeningsFit'
  <2>1. \A v \in Updates : Opening(v)' =>
           /\ job[v].game \in Games
           /\ Inserting(u) => job[v].game # g
    BY <1>3, <1>5 DEF IInv, OpeningsFit
  <2>2. \A v \in Updates : Opening(v)' =>
           OpensStill(v) /\ game'[job[v].game] = game[job[v].game]
    BY <1>4, <1>5, <2>1 DEF OpensStill, Written
  <2>3. QED
    BY <1>2, <2>2, OpeningsKept DEF IInv
<1>8. SpoiltExist'
  BY <1>1, <1>2, <1>3, <1>4 DEF IInv, SpoiltExist, TypeOK, Announcing
<1>9. PoolFillsItsTable' /\ PoolsComeWithOpening'
  <2>1. PoolFillsItsTable'
    BY <1>2, <1>4 DEF IInv, PoolFillsItsTable
  <2>2. PoolsComeWithOpening'
    BY <1>3, <1>4 DEF IInv, PoolsComeWithOpening
  <2>3. QED
    BY <2>1, <2>2
<1>10. ASSUME NEW m \in Messages, screen[m].kind \in {"code", "grid"}
       PROVE  \/ game'[screen[m].game].state = "WAITING_PLAYERS"
              \/ \E v \in Updates : Announcing(v)' /\ job'[v].game = screen[m].game
              \/ screen[m].game \in spoilt'
  BY <1>2, <1>3, <1>4, <1>5, <1>10, AnnouncedBefore DEF Announcing
<1>11. WizardHidesPhoneCodes'
  BY <1>2, <1>4 DEF IInv, ArgumentsExist, WizardHidesPhoneCodes
<1>12. AnnouncedGamesAreOpen'
  BY <1>2, <1>10 DEF AnnouncedGamesAreOpen, Announcing, Opening
<1>13. QED
  BY <1>6, <1>7, <1>8, <1>9, <1>11, <1>12 DEF GamesFit

\* An opening that passed configure_roles has a pool that fits; others of the
\* same game can pass as well.
LEMMA ConfigureStep ==
    ASSUME IInv, NEW u \in Updates, ConfigureRoles(u), Configurable(job[u].game)
    PROVE  GamesFit'
<1> DEFINE g == job[u].game
<1>1. /\ screen' = screen /\ spoilt' = spoilt /\ game' = game /\ (Tidy' <=> Tidy)
      /\ OthersKept(u) /\ job'[u].op = "finalize" /\ job'[u].step = "insert"
      /\ job[u].op = "finalize" /\ job[u].step = "run"
      /\ job'[u].game = g /\ job'[u].pool = chat.pool
  BY ConfigureJob DEF IInv, ConfigureRoles, rows, Tidy
<1>2. /\ g \in Games /\ game[g].state = "CREATING" /\ chat.pool.size = game[g].count
      /\ game[g].pools = <<>>
  BY <1>1 DEF IInv, ArgumentsExist, PoolsComeWithOpening, Configurable, FillsTable
<1>3. /\ \A v \in Updates \ {u} : job'[v] = job[v]
      /\ \A v \in Updates \ {u} : Opening(v)' <=> Opening(v)
      /\ \A v \in Updates : Inserting(v)' =>
            Inserting(v) /\ job'[v].game = job[v].game
      /\ \A v \in Updates : Written(v)' => v # u /\ Written(v)
      /\ \A v \in Updates : Announcing(v) => v # u /\ Announcing(v)'
  BY <1>1 DEF OthersKept, Opening, Inserting, Written, Announcing
<1>4. GamesInTheMaking'
  BY <1>1, <1>3, GamesKept DEF IInv
<1>5. OpeningsFit'
  <2>1. ASSUME NEW v \in Updates, Opening(v)'
        PROVE  /\ job'[v].game \in Games
               /\ game'[job'[v].game].state \in {"CREATING", "WAITING_PLAYERS"}
               /\ job'[v].pool.size = game'[job'[v].game].count
               /\ game'[job'[v].game].pools # <<>> => ~Tidy'
    BY <1>1, <1>2, <1>3, <2>1 DEF IInv, OpeningsFit
  <2>2. ASSUME NEW v \in Updates, Written(v)'
        PROVE  ~Collides(job[v].game, job[v].pool)'
    BY <1>1, <1>3, <2>2 DEF IInv, OpeningsFit, Collides
  <2>3. ASSUME NEW v \in Updates, NEW w \in Updates, Written(v)', Written(w)',
               job'[v].game = job'[w].game
        PROVE  v = w
    BY <1>3, <2>3 DEF IInv, OpeningsFit
  <2>4. QED
    BY <2>1, <2>2, <2>3 DEF OpeningsFit
<1>6. /\ SpoiltExist' /\ PoolFillsItsTable' /\ PoolsComeWithOpening'
      /\ WizardHidesPhoneCodes'
  BY <1>1 DEF IInv, SpoiltExist, PoolFillsItsTable, PoolsComeWithOpening,
              WizardHidesPhoneCodes
<1>7. AnnouncedGamesAreOpen'
  BY <1>1, <1>3 DEF IInv, AnnouncedGamesAreOpen, Announcing, Opening
<1>8. QED
  BY <1>4, <1>5, <1>6, <1>7 DEF GamesFit

\* Rows that are written collide with no others of the game, committed or not.
LEMMA InsertStep ==
    ASSUME IInv, NEW u \in Updates, InsertRoles(u)
    PROVE  GamesFit'
<1> DEFINE g == job[u].game
<1>1. /\ screen' = screen /\ spoilt' = spoilt /\ game' = game /\ (Tidy' <=> Tidy)
      /\ OthersKept(u) /\ job[u].op = "finalize" /\ job[u].step = "insert"
      /\ \/ job'[u].op = "idle" /\ job'[u].step = "run"
         \/ /\ job'[u].op = "finalize" /\ job'[u].step = "switch"
            /\ job'[u].game = g /\ job'[u].pool = job[u].pool
            /\ ~Collides(g, job[u].pool)
  BY InsertJob DEF IInv, InsertRoles, rows, Tidy
<1>2. \A v \in Updates : Written(v) => job[v].game # g
  BY DEF InsertRoles, BeingOpened, Written, Opening
<1>3. /\ \A v \in Updates \ {u} : job'[v] = job[v]
      /\ \A v \in Updates : Opening(v)' =>
            /\ Opening(v) /\ job'[v].game = job[v].game /\ job'[v].pool = job[v].pool
      /\ \A v \in Updates : Written(v)' =>
            \/ v # u /\ Written(v)
            \/ v = u /\ ~Collides(g, job[u].pool)
      /\ \A v \in Updates : Inserting(v)' =>
            Inserting(v) /\ job'[v].game = job[v].game
      /\ \A v \in Updates : Announcing(v) => v # u /\ Announcing(v)'
  BY <1>1 DEF OthersKept, Opening, Inserting, Written, Announcing
<1>4. GamesInTheMaking'
  BY <1>1, <1>3, GamesKept DEF IInv
<1>5. OpeningsFit'
  <2>1. ASSUME NEW v \in Updates, Opening(v)'
        PROVE  /\ job'[v].game \in Games
               /\ game'[job'[v].game].state \in {"CREATING", "WAITING_PLAYERS"}
               /\ job'[v].pool.size = game'[job'[v].game].count
               /\ game'[job'[v].game].pools # <<>> => ~Tidy'
    BY <1>1, <1>3, <2>1 DEF IInv, OpeningsFit
  <2>2. ASSUME NEW v \in Updates, Written(v)'
        PROVE  ~Collides(job[v].game, job[v].pool)'
    <3>1. /\ job'[v].game = job[v].game /\ job'[v].pool = job[v].pool
          /\ ~Collides(job[v].game, job[v].pool)
      BY <1>3, <2>2 DEF IInv, OpeningsFit, Written
    <3>2. QED
      BY <1>1, <3>1 DEF Collides
  <2>3. ASSUME NEW v \in Updates, NEW w \in Updates, Written(v)', Written(w)',
               job'[v].game = job'[w].game
        PROVE  v = w
    BY <1>2, <1>3, <2>3 DEF IInv, OpeningsFit, Written
  <2>4. QED
    BY <2>1, <2>2, <2>3 DEF OpeningsFit
<1>6. /\ SpoiltExist' /\ PoolFillsItsTable' /\ PoolsComeWithOpening'
      /\ WizardHidesPhoneCodes'
  BY <1>1 DEF IInv, SpoiltExist, PoolFillsItsTable, PoolsComeWithOpening,
              WizardHidesPhoneCodes
<1>7. AnnouncedGamesAreOpen'
  BY <1>1, <1>3 DEF IInv, AnnouncedGamesAreOpen, Announcing, Opening
<1>8. QED
  BY <1>4, <1>5, <1>6, <1>7 DEF GamesFit

\* Every other step leaves the games alone; a code or a grid it shows is of the
\* game that the same update is about to commit.
LEMMA OtherStep ==
    ASSUME IInv, Next, game' = game, spoilt' = spoilt,
           ~ \E u \in Updates :
                \/ CreateGame(u) \/ Commit(u) \/ Fail(u) \/ InsertRoles(u)
                \/ ConfigureRoles(u) /\ Configurable(job[u].game)
    PROVE  GamesFit'
<1>1. TypeOK /\ NothingToShow /\ ArgumentsExist /\ (Tidy' => Tidy)
  BY OverlapsAreCounted DEF IInv
<1>2. \A v \in Updates :
         /\ Inserting(v)' => Inserting(v) /\ job'[v].game = job[v].game
         /\ Opening(v)' => OpensStill(v)
         /\ Announcing(v) => Announcing(v)' /\ job'[v].game = job[v].game
  <2>1. CASE job' = job
    BY <2>1 DEF Inserting, Opening, OpensStill, Written, Announcing
  <2>2. ASSUME NEW u \in Updates, Moves(u), NEW v \in Updates
        PROVE  /\ Inserting(v)' => Inserting(v) /\ job'[v].game = job[v].game
               /\ Opening(v)' => OpensStill(v)
               /\ Announcing(v) => Announcing(v)' /\ job'[v].game = job[v].game
    <3>1. CASE v # u
      BY <2>2, <3>1
         DEF Moves, OthersKept, Inserting, Opening, OpensStill, Written, Announcing
    <3>2. CASE v = u /\ ~Create(u)
      BY <2>2, <3>2
         DEF Moves, Begins, GoesOn, Ends, Inserting, Opening, OpensStill, Written,
             Announcing
    <3>3. CASE v = u /\ Create(u)
      BY <1>1, <3>3
         DEF Create, TypeOK, ConversationTypeOK, Jobs, Inserting, Opening, Announcing
    <3>4. QED
      BY <3>1, <3>2, <3>3
  <2>3. QED
    BY <1>1, <2>1, <2>2, JobMoves
<1>3. GamesInTheMaking'
  BY <1>2, GamesKept DEF IInv
<1>4. OpeningsFit'
  BY <1>1, <1>2, OpeningsKept DEF IInv
<1>5. SpoiltExist' /\ PoolFillsItsTable' /\ PoolsComeWithOpening'
  BY <1>1 DEF IInv, SpoiltExist, PoolFillsItsTable, PoolsComeWithOpening
<1>6. ASSUME NEW m \in Messages, screen'[m].kind \in {"code", "grid"}
      PROVE  \/ /\ screen'[m] = screen[m]
             \/ \E u \in Updates :
                   /\ Announcing(u)' /\ screen'[m].game = job'[u].game
                   /\ screen'[m].kind = "code" => ~PhoneGame(u)'
  <2>1. ASSUME NEW u \in Updates, Show(u), screen'[m] # screen[m]
        PROVE  /\ Announcing(u)' /\ screen'[m].game = job'[u].game
               /\ screen'[m].kind = "code" => ~PhoneGame(u)'
    <3>1. screen'[m] = Result(u) /\ job[u].step = "show"
      BY <1>1, <2>1 DEF Show, Shows, TypeOK, ConversationTypeOK
    <3>2. /\ job[u].op = "finalize" /\ screen'[m].game = job[u].game
          /\ screen'[m].kind = "code" => ~PhoneGame(u)
      BY <1>1, <1>6, <2>1, <3>1, ResultIsTyped
    <3>3. /\ job'[u].op = "finalize" /\ job'[u].step = "commit"
          /\ job'[u].game = job[u].game
      BY <1>1, <2>1, <3>2, ToGoesOn
         DEF Show, HasCommit, TypeOK, ConversationTypeOK, JobTypeOK, Steps
    <3>4. QED
      BY <3>2, <3>3 DEF Announcing, Opening, PhoneGame
  <2>2. QED
    BY <2>1, WhoWrites
<1>7. WizardHidesPhoneCodes'
  BY <1>6 DEF IInv, WizardHidesPhoneCodes, PhoneGame
<1>8. AnnouncedGamesAreOpen'
  BY <1>2, <1>6 DEF IInv, AnnouncedGamesAreOpen, Announcing, Opening
<1>9. QED
  BY <1>3, <1>4, <1>5, <1>7, <1>8 DEF GamesFit

\* Keyboards and handlers keep having what they act on.
LEMMA ArgumentStep ==
    ASSUME IInv, Next
    PROVE  ArgumentsExist'
<1>1. TypeOK /\ NothingToShow /\ ArgumentsExist
  BY DEF IInv
<1>2. ASSUME NEW m \in Messages,
             screen'[m].kind \in {"roles", "summary", "code", "grid"}
      PROVE  screen'[m].game \in Games
  <2>1. ASSUME NEW u \in Updates, Show(u), screen'[m] # screen[m]
        PROVE  screen'[m].game \in Games
    <3>1. screen'[m] = Result(u) /\ job[u].step = "show"
      BY <1>1, <2>1 DEF Show, Shows, TypeOK, ConversationTypeOK
    <3>2. /\ job[u].op \in {"count", "toggle", "confirm", "back", "finalize"}
          /\ screen'[m].game = job[u].game
      BY <1>1, <1>2, <2>1, <3>1, ResultIsTyped
    <3>3. QED
      BY <3>1, <3>2 DEF IInv, ArgumentsExist, GamesInTheMaking, Inserting
  <2>2. QED
    BY <1>1, <1>2, <2>1, WhoWrites DEF ArgumentsExist
<1>3. ASSUME NEW u \in Updates, Moves(u)
      PROVE  \A v \in Updates :
                /\ job'[v].op \in {"toggle", "confirm", "back", "finalize"} =>
                       job'[v].game \in Games
                /\ job'[v].op = "toggle" => job'[v].role \in RoleIds
  <2>1. CASE Begins(u)
    BY <1>1, <1>3, <2>1 DEF Moves, OthersKept, Begins, ArgumentsExist
  <2>2. CASE GoesOn(u) \/ Ends(u)
    BY <1>1, <1>3, <2>2 DEF Moves, OthersKept, GoesOn, Ends, ArgumentsExist
  <2>3. CASE Create(u)
    <3>1. job'[u].op = "describe"
      BY <1>1, <2>3 DEF Create, TypeOK, ConversationTypeOK, Jobs
    <3>2. QED
      BY <1>1, <1>3, <3>1 DEF Moves, OthersKept, ArgumentsExist
  <2>4. CASE CreateGame(u)
    BY <1>1, <1>3, <2>4, CreateGameJob DEF Moves, OthersKept, ArgumentsExist
  <2>5. CASE ConfigureRoles(u) /\ Configurable(job[u].game)
    BY <1>1, <1>3, <2>5, ConfigureJob DEF Moves, OthersKept, ArgumentsExist
  <2>6. CASE InsertRoles(u)
    BY <1>1, <1>3, <2>6, InsertJob DEF Moves, OthersKept, ArgumentsExist
  <2>7. QED
    BY <1>3, <2>1, <2>2, <2>3, <2>4, <2>5, <2>6 DEF Moves
<1>4. QED
  BY <1>1, <1>2, <1>3, JobMoves DEF ArgumentsExist

-----------------------------------------------------------------------------
(* The theorems. *)

LEMMA InitIInv == Init => IInv
<1> SUFFICES ASSUME Init PROVE IInv
  OBVIOUS
<1>1. TypeOK
  BY ResetsAreTyped
     DEF Init, ConversationInit, LibraryInit, TypeOK, ConversationTypeOK, LibraryTypeOK,
         NoRow, NoPool, Pools, GameRow, GameStates, Modes, Rows, RowStates
<1>2. /\ \A u \in Updates : job[u].op = "idle" /\ job[u].step = "run"
      /\ \A m \in Messages : screen[m].kind = "blank"
      /\ \A r \in RoleIds : library[r].state = "free"
      /\ \A g \in Games : game[g].state = "free" /\ game[g].pools = <<>>
      /\ spoilt = {}
  BY DEF Init, ConversationInit, LibraryInit, Idle, Blank, Plain, Board, NoRow
<1>3. QED
  BY <1>1, <1>2
     DEF IInv, NothingToShow, RolesInTheMaking, NamesAreHeldOnce, GamesInTheMaking,
         OpeningsFit, PoolsComeWithOpening, OneAtATime, ArgumentsExist, SpoiltExist,
         PoolFillsItsTable, WizardHidesPhoneCodes, AnnouncedGamesAreOpen, Making,
         Inserting, Opening, Written

LEMMA NextIInv == IInv /\ Next => IInv'
<1> SUFFICES ASSUME IInv, Next PROVE IInv'
  OBVIOUS
<1>1. TypeOK' /\ NothingToShow'
  BY TypeStep, JobMoves DEF IInv, JobsAreFine
<1>2. GamesFit'
  <2>1. ASSUME NEW u \in Updates, Commit(u)
        PROVE  GamesFit'
    BY <2>1, CountCommitStep, OpeningCommitStep DEF Commit, HasCommit
  <2>2. QED
    BY <2>1, CreateGameStep, FailStep, ConfigureStep, InsertStep, OtherStep, WhoWrites
<1>3. QED
  BY <1>1, <1>2, LibraryStep, OneAtATimeStep, ArgumentStep DEF IInv, GamesFit

\* The wizard's and the library's invariant is inductive, for any number of
\* overlapping updates, keyboards, games and roles.  Of the openings of a game,
\* only those whose rows are written exclude each other: two that passed
\* configure_roles' checks both commit when their compositions share no role.
THEOREM CreationInvariant == Spec => []IInv
<1>1. IInv /\ UNCHANGED vars => IInv'
  BY DEF IInv, vars, conversation, TypeOK, ConversationTypeOK, LibraryTypeOK,
         NothingToShow, RolesInTheMaking, NamesAreHeldOnce, GamesInTheMaking, OpeningsFit,
         PoolsComeWithOpening, OneAtATime, ArgumentsExist, SpoiltExist, PoolFillsItsTable,
         WizardHidesPhoneCodes, AnnouncedGamesAreOpen, Making, Inserting, Opening,
         Written, Collides, Tidy
<1>2. QED
  BY InitIInv, NextIInv, <1>1, PTL DEF Spec

\* Each composition a game was opened with has a role for each of its seats,
\* whichever wizard's the tapped keyboard opened it with (configure_roles).  The
\* game has one only, unless confirmations overlapped and shared no role, which
\* is what UNIQUE(game_id, role_id) leaves.
THEOREM OpenGamesAreFull == Spec => []PoolFillsItsTable
BY CreationInvariant, PTL DEF IInv

\* No message of the wizard shows the code of a single-device game (the creator's
\* own game screens, which do, are not among them).
THEOREM WizardPhoneCodesStayHidden == Spec => []WizardHidesPhoneCodes
BY CreationInvariant, PTL DEF IInv

\* A game whose code or grid is on a screen is open, or its handler has the commit
\* left, or such a commit failed: no failure before the edit leaves one.
THEOREM AnnouncedAlwaysOpen == Spec => []AnnouncedGamesAreOpen
BY CreationInvariant, PTL DEF IInv

\* However many creations pass the checks together, the active roles of the owner
\* have different names.
THEOREM NamesStayUnique == Spec => []ActiveNamesAreUnique
<1>1. IInv => ActiveNamesAreUnique
  BY DEF IInv, NamesAreHeldOnce, ActiveNamesAreUnique, Active
<1>2. QED
  BY <1>1, CreationInvariant, PTL

\* One creation at a time keeps the owner's active roles within the cap; creations
\* that overlap can pass it by the other updates in flight, and no further.
THEOREM CapHolds == Spec => []CapIsNearlyKept
<1>1. Init => CapInv
  <2> SUFFICES ASSUME Init PROVE CapInv
    OBVIOUS
  <2>1. /\ \A u \in Updates : job[u].op = "idle" /\ job[u].step = "run"
        /\ \A r \in RoleIds : library[r].state = "free"
        /\ Tidy
    BY DEF Init, ConversationInit, LibraryInit, Idle, Tidy
  <2>2. Active = {} /\ Makers = {}
    BY <2>1 DEF Active, Makers, Making
  <2>3. QED
    BY <2>1, <2>2, MaxActiveNat, FS_EmptySet DEF CapInv, Slack
<1>2. CapInv /\ UNCHANGED vars => CapInv'
  BY DEF CapInv, vars, conversation, Slack, Tidy, Active, Makers, Making
<1>3. CapInv => CapIsNearlyKept
  <2> SUFFICES ASSUME CapInv PROVE CapIsNearlyKept
    OBVIOUS
  <2>1. IsFiniteSet(Makers)
    BY UpdatesFinite, FS_Subset DEF Makers
  <2>2. /\ Cardinality(Active) \in Nat /\ Cardinality(Makers) \in Nat
        /\ Cardinality(Updates) \in Nat
    BY <2>1, UpdatesFinite, FS_CardinalityType DEF CapInv
  <2>3. QED
    BY <2>2, MaxActiveNat DEF CapInv, Slack, CapIsNearlyKept
<1>4. QED
  BY <1>1, <1>2, <1>3, CapStep, CreationInvariant, PTL DEF Spec

LEMMA WizardInvariant == Spec => []WizardInv
<1>1. Init => WizardInv
  <2> SUFFICES ASSUME Init PROVE WizardInv
    OBVIOUS
  <2>1. /\ \A u \in Updates : job[u].op = "idle"
        /\ \A m \in Messages : screen[m].kind = "blank" /\ screen[m].game = NoGame
        /\ chat.state = "none"
    BY DEF Init, ConversationInit, Idle, Blank, Plain, Board, Cleared
  <2>2. OnCourse
    BY <2>1, NoGameIsNone
       DEF OnCourse, BoardsDiffer, SummaryIsCurrent, ChatIsBound, KeyboardComes,
           WizardStates, Fits
  <2>3. QED
    BY <2>1, <2>2 DEF WizardInv, PlainBoards, GamesInUse
<1>2. WizardInv /\ UNCHANGED vars => WizardInv'
  BY DEF WizardInv, vars, conversation, PlainBoards, GamesInUse, Tidy,
         OnCourse, BoardsDiffer, SummaryIsCurrent, ChatIsBound, KeyboardComes, Answers,
         Fits, Counting, Boarded
<1>3. QED
  BY <1>1, <1>2, WizardStep, CreationInvariant, PTL DEF Spec

\* One update at a time, a game opens with the composition its summary showed:
\* going back, other choices and deleted roles are never opened unseen
\* (on_summary_finalize reads the FSM data, not the message).
THEOREM OpensWhatWasShown == Spec => []OpensAsShown
<1>1. WizardInv => OpensAsShown
  BY DEF WizardInv, OnCourse, Fits, OpensAsShown
<1>2. QED
  BY <1>1, WizardInvariant, PTL

\* One update at a time and without failures, the wizard always leaves the
\* creator a keyboard that its state answers, for the game in the FSM data.
THEOREM WizardAlwaysGoesOn == Spec => []WizardGoesOn
<1>1. IInv /\ WizardInv => WizardGoesOn
  <2> SUFFICES ASSUME IInv, WizardInv, Tidy, AllIdle,
                      NEW k \in Kinds, NEW op \in Buttons(k), chat.state = HandledIn(op)
               PROVE  \E m \in Messages :
           /\ Buttons(screen[m].kind) \ {"other_scenario"} # {}
           /\ \A o \in Buttons(screen[m].kind) \ {"other_scenario"} :
                 HandledIn(o) = chat.state
           /\ screen[m].game # NoGame =>
                 /\ screen[m].game = chat.game
                 /\ game[chat.game].state = "CREATING"
                 /\ game[chat.game].count = chat.count
           /\ screen[m].kind = "summary" => screen[m].pool = chat.pool
    BY DEF WizardGoesOn
  <2>1. \A u \in Updates : job[u].op = "idle" /\ job[u].step = "run"
    BY DEF AllIdle, Idle
  <2>2. chat.state \in WizardStates
    BY DEF Buttons, HandledIn, WizardStates
  <2>3. PICK m \in Messages : Answers(m)
    BY <2>1, <2>2 DEF WizardInv, OnCourse, KeyboardComes
  <2>4. /\ Buttons(screen[m].kind) \ {"other_scenario"} # {}
        /\ \A o \in Buttons(screen[m].kind) \ {"other_scenario"} :
              HandledIn(o) = chat.state
    BY <2>3 DEF Answers, Buttons, HandledIn
  <2>5. screen[m].game # NoGame =>
           /\ screen[m].game = chat.game
           /\ game[chat.game].state = "CREATING"
           /\ game[chat.game].count = chat.count
    BY <2>1, <2>3 DEF Answers, WizardInv, OnCourse, PlainBoards, ChatIsBound
  <2>6. screen[m].kind = "summary" => screen[m].pool = chat.pool
    BY <2>3 DEF Answers, WizardInv, OnCourse, SummaryIsCurrent
  <2>7. QED
    BY <2>4, <2>5, <2>6
<1>2. QED
  BY <1>1, WizardInvariant, CreationInvariant, PTL

=============================================================================
