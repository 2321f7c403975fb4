----------------------------- MODULE Elimination ----------------------------
(***************************************************************************)
(* MiniAppService.eliminate: the creator strikes a player off the table    *)
(* from the Mini App.  A second process writes to the rows the bot's lobby *)
(* works on, without taking the game's lock: the roster is read, and the   *)
(* status of one player is overwritten when the request commits.  Seat     *)
(* number, join order and role stay on the row, and the game's status is   *)
(* neither looked at nor changed.                                          *)
(*                                                                         *)
(* ensure_players_turn counts the table and then asks whose turn it is: an *)
(* elimination between the two lets the next in the queue act at a table   *)
(* that is no longer full.  A write between two other statements of an     *)
(* operation is one that came before it or after it, or, where the         *)
(* operation then writes the same status itself, one that is lost          *)
(* (EliminateFails).                                                       *)
(***************************************************************************)
EXTENDS Lobby

VARIABLES
    striking,    \* the players of eliminate requests not yet committed
    counted      \* the player whose handler has counted the table, if any

eliminationVars == <<vars, striking, counted>>

EliminationInit == Init /\ striking = {} /\ counted = {}

\* list_roster: the active players; a request names a seat number.
OnRoster(u) == u \in Active /\ number[u] # 0

EliminateRead(u) ==
    /\ OnRoster(u)
    /\ striking' = striking \cup {u}
    /\ UNCHANGED <<vars, counted>>

\* Mutant: an elimination takes the role out of the game with the player.
StrikeOff_RoleGone(u) ==
    /\ playerStatus' = [playerStatus EXCEPT ![u] = "LEFT"]
    /\ role' = [role EXCEPT ![u] = NoRole]
    /\ UNCHANGED <<number, joinOrder>>

StrikeOff(u) ==
    /\ playerStatus' = [playerStatus EXCEPT ![u] = "LEFT"]
    /\ UNCHANGED <<number, joinOrder, role>>

(* The flush of the changed status and the commit. *)
EliminateWrite(u) ==
    /\ u \in striking
    /\ playerStatus[u] # "NONE"
    /\ StrikeOff(u)
    /\ striking' = striking \ {u}
    /\ UNCHANGED <<status, quantity, remaining, tx, counted>>

\* The row went with its game (StaleDataError), or the request failed.
EliminateFails(u) ==
    /\ u \in striking
    /\ striking' = striking \ {u}
    /\ UNCHANGED <<vars, counted>>

\* A turn as the Mini App sees it: the handler has the game's lock and has found
\* the table full ...
CountTable(u) ==
    /\ counted = {}
    /\ u \in Active /\ LobbyComplete
    /\ counted' = {u}
    /\ UNCHANGED <<vars, striking>>

\* ... and asks whose turn it is, of a queue that has changed meanwhile.
TakeTurn(u) ==
    /\ u \in counted
    /\ IsTurnOf(u)
    /\ \/ \E n \in Seats : TakeSeat(u, n)
       \/ \E r \in Roles : TakeRole(u, r)
    /\ counted' = {}
    /\ UNCHANGED striking

\* It is not this player's turn, or the handler fails.
TurnRefused(u) ==
    /\ u \in counted
    /\ counted' = {}
    /\ UNCHANGED <<vars, striking>>

\* While a handler holds the lock, only the eliminations, which ignore it, move.
EliminationNext ==
    \/ counted = {} /\ Next /\ UNCHANGED <<striking, counted>>
    \/ \E u \in Users :
          \/ EliminateRead(u) \/ EliminateWrite(u) \/ EliminateFails(u)
          \/ CountTable(u) \/ TakeTurn(u) \/ TurnRefused(u)

EliminationSpec == EliminationInit /\ [][EliminationNext]_eliminationVars

-----------------------------------------------------------------------------

\* What an unlocked elimination must not break, wherever it lands between the
\* lobby's steps: the role pool's books stay balanced (Lobby's RoleConservation),
\* and the queue stays a first come, first served one for those still in it
\* (QueueIsStrict, DealtInJoinOrder).

\* An elimination only ever removes: the table is not overfull, although the
\* place of the eliminated player is open to another while the row keeps its
\* seat.
SeatedWithinTable ==
    /\ NeverOverfull
    /\ \A u, v \in Active : number[u] # 0 /\ number[u] = number[v] => u = v

=============================================================================
