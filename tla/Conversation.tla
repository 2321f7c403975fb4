---------------------------- MODULE Conversation ----------------------------
(***************************************************************************)
(* One user's private chat with the bot, as the dispatcher sees it: the    *)
(* FSM context kept in Redis (state and data), the bot's messages with     *)
(* their inline keyboards, and the updates being handled.                  *)
(*                                                                         *)
(* aiogram starts a task per update and the storage has no event           *)
(* isolation, so the updates of one user overlap.  A handler is chosen by  *)
(* the state its filter reads; the middlewares' database work comes        *)
(* between that and the handler's own reads.  The Redis writes a handler   *)
(* makes back to back are one step.                                        *)
(*                                                                         *)
(* A role pool is abstracted to its size and the roles that have a row in  *)
(* it; how the catalogue's are chosen is the subject of Composition.       *)
(***************************************************************************)
EXTENDS Naturals, FiniteSets

CONSTANTS
    Updates,     \* slots for updates handled at the same time
    Messages,    \* the bot's messages that carry a wizard's keyboard
    Games,       \* identifiers of games the wizard may create
    RoleIds,     \* identifiers of custom roles
    Names,       \* names the user gives custom roles
    Counts,      \* player counts the user asks for
    CatalogRoles \* the catalogue's roles

CONSTANTS NoGame, NoName, NewMessage

ASSUME UpdatesFinite == IsFiniteSet(Updates)
ASSUME NoGameIsNone == NoGame \notin Games
ASSUME NewMessageIsNone == NewMessage \notin Messages

VARIABLES
    chat,        \* the FSM context: its state and its data
    job,         \* per slot, the update being handled and how far it is
    screen,      \* per message, the keyboard it shows
    trouble      \* history: the overlaps, failures and stray taps so far

conversation == <<chat, job, screen, trouble>>

-----------------------------------------------------------------------------

Modes == {"MANUAL_ROLE_SELECTION", "SINGLE_DEVICE"}
Scenarios == {"flexible", "fixed"}

CreateGameStates ==
    {"choose_scenario", "choose_role_mode", "choose_player_count",
     "choose_roles", "confirm_summary", "waiting_players", "single_device"}
CustomRoleStates == {"enter_name", "choose_team", "enter_description"}

\* A pool's size, and the catalogue's and the custom roles with a row of it
Pools == [size : Counts \cup {0}, roles : SUBSET CatalogRoles,
          customs : SUBSET RoleIds]
NoPool == [size |-> 0, roles |-> {}, customs |-> {}]

Contexts ==
    [state : CreateGameStates \cup CustomRoleStates \cup {"none"},
     scenario : Scenarios, mode : Modes,
     game : Games \cup {NoGame}, count : Counts \cup {0},
     picks : SUBSET RoleIds, pool : Pools, name : Names \cup {NoName}]

\* state.clear(): no state, and every key at the default its readers give it
Cleared ==
    [state |-> "none", scenario |-> "flexible",
     mode |-> "MANUAL_ROLE_SELECTION", game |-> NoGame, count |-> 0,
     picks |-> {}, pool |-> NoPool, name |-> NoName]

Kinds == {"blank", "picker", "modes", "counts", "roles", "summary",
          "code", "grid"}

Screens ==
    [kind : Kinds, game : Games \cup {NoGame}, pool : Pools,
     offers : SUBSET RoleIds]

Board(kind, game, pool, offers) ==
    [kind |-> kind, game |-> game, pool |-> pool, offers |-> offers]
Plain(kind) == Board(kind, NoGame, NoPool, {})
Blank == Plain("blank")

Ops == {"idle", "start", "scenario", "other_scenario", "mode", "count",
        "toggle", "confirm", "cancel", "back", "finalize", "describe"}
Steps == {"run", "stash", "insert", "switch", "show", "commit"}

Jobs ==
    [op : Ops, step : Steps, on : Messages \cup {NewMessage},
     game : Games \cup {NoGame}, role : RoleIds \cup {0},
     scenario : Scenarios, mode : Modes, count : Counts \cup {0},
     picks : SUBSET RoleIds, pool : Pools, seen : Pools]

Idle ==
    [op |-> "idle", step |-> "run", on |-> NewMessage, game |-> NoGame,
     role |-> 0, scenario |-> "flexible", mode |-> "MANUAL_ROLE_SELECTION",
     count |-> 0, picks |-> {}, pool |-> NoPool, seen |-> NoPool]

ConversationTypeOK ==
    /\ chat \in Contexts
    /\ job \in [Updates -> Jobs]
    /\ screen \in [Messages -> Screens]
    /\ trouble \in Nat

ConversationInit ==
    /\ chat = Cleared
    /\ job = [u \in Updates |-> Idle]
    /\ screen = [m \in Messages |-> Blank]
    /\ trouble = 0

-----------------------------------------------------------------------------

AllIdle == \A u \in Updates : job[u] = Idle

\* So far one update at a time, on the current wizard, and none failed
Tidy == trouble = 0

\* The step is ordinary use, or it is counted.
Counted(ordinary) == trouble' = IF ordinary THEN trouble ELSE trouble + 1

\* The state a callback's handler is registered for
HandledIn(op) ==
    CASE op \in {"scenario", "other_scenario"} -> "choose_scenario"
      [] op = "mode" -> "choose_role_mode"
      [] op = "count" -> "choose_player_count"
      [] op \in {"toggle", "confirm", "cancel"} -> "choose_roles"
      [] op \in {"back", "finalize"} -> "confirm_summary"

\* The callbacks a keyboard's buttons send
Buttons(kind) ==
    CASE kind = "picker" -> {"scenario"}
      [] kind = "modes" -> {"mode", "other_scenario"}
      [] kind = "counts" -> {"count"}
      [] kind = "roles" -> {"toggle", "confirm", "cancel"}
      [] kind = "summary" -> {"back", "finalize"}
      [] OTHER -> {}

\* An update is taken up: its filter has passed.
Taken(u, new) ==
    /\ job[u] = Idle
    /\ job' = [job EXCEPT ![u] = new]

\* A button of message m is tapped in the state its handler wants.
Tapped(u, m, op, arg) ==
    /\ op \in Buttons(screen[m].kind)
    /\ chat.state = HandledIn(op)
    /\ Taken(u, [arg EXCEPT !.op = op, !.on = m, !.game = screen[m].game,
                            !.seen = screen[m].pool])
    /\ Counted(AllIdle /\ screen[m].game \in {NoGame, chat.game})
    /\ UNCHANGED <<chat, screen>>

\* Update u goes on to the given step.
To(u, step) == job' = [job EXCEPT ![u].step = step]

\* It ends: an answer without a screen, or after its commit.
Done(u) == job' = [job EXCEPT ![u] = Idle]

\* edit_text on the message tapped, or a new message
Shows(u, m, board) ==
    /\ \/ job[u].on = m
       \/ job[u].on = NewMessage /\ screen[m] = Blank
                                 /\ \A v \in Updates : job[v].on # m
    /\ screen' = [screen EXCEPT ![m] = board]

\* /start, /cancel, the menu's other buttons and the role library's list: the
\* flow is dropped (what other flow begins is nothing to this one).
Reset ==
    /\ chat # Cleared
    /\ chat' = Cleared
    /\ Counted(AllIdle)
    /\ UNCHANGED <<job, screen>>

=============================================================================
