---------------------------- MODULE GameLifecycle ---------------------------
(***************************************************************************)
(* GameService and GameManagementService: the creator configures, starts,  *)
(* finishes and deletes the game.                                          *)
(*                                                                         *)
(* configure_roles, start_game and finish_game read the game row without a *)
(* lock, decide on what they read, and write the new status later by       *)
(* primary key.  aiogram runs the creator's updates concurrently, so the   *)
(* read and the write are two actions and the value read is kept in tx     *)
(* (what matters of it is that it passed the check).  The UPDATE, the      *)
(* event row and the commit follow each other under the row lock the       *)
(* UPDATE took: one action.  delete_game locks first: one action.          *)
(***************************************************************************)
EXTENDS GameRows

CONSTANTS
    Sessions,     \* database sessions of the creator's concurrent updates
    Selections    \* the role quantities the creation wizard may submit

ASSUME SelectionsAreQuantities == Selections \subseteq [Roles -> Nat]

VARIABLE tx       \* per session, the unlocked operation past its check

lifecycleVars == <<gameRows, tx>>

-----------------------------------------------------------------------------

NoSelection == [r \in Roles |-> 0]
Idle == [op |-> "idle", selection |-> NoSelection]
Pending(op, selection) == [op |-> op, selection |-> selection]

TxTypeOK ==
    tx \in [Sessions ->
              [op : {"idle", "configure", "start", "finish"},
               selection : [Roles -> Nat]]]

LifecycleInit ==
    /\ RowsInit
    /\ tx = [s \in Sessions |-> Idle]

\* The role slots a selection asks for, numbered role by role
Slots(selection) == UNION {{r} \X (1..selection[r]) : r \in Roles}

\* The sum of the quantities
SlotCount(selection) == Cardinality(Slots(selection))

-----------------------------------------------------------------------------

\* Mutant: a selection that is merely not too large.
FillsTable_AtMost(selection) == SlotCount(selection) <= PlayerCount

\* The RoleSelectionMismatchError check
FillsTable(selection) == SlotCount(selection) = PlayerCount

\* Mutant: a write that does not notice its row is gone (an upsert).
RowMatched_Upsert == TRUE

\* The UPDATE matches a row (else StaleDataError), the INSERT its parent.
RowMatched == status # "DELETED"

(* configure_roles: the checks, on an unlocked read. *)
ConfigureRead(s, selection) ==
    /\ tx[s] = Idle
    /\ status = "CREATING"
    /\ FillsTable(selection)
    /\ tx' = [tx EXCEPT ![s] = Pending("configure", selection)]
    /\ UNCHANGED gameRows

\* UNIQUE(game_id, role_id): no row of the selection is there already.
Insertable(selection) ==
    \A r \in Roles : selection[r] > 0 => quantity[r] = 0

(* configure_roles: insert the game_roles rows, open the lobby, commit. *)
ConfigureWrite(s) ==
    /\ tx[s].op = "configure"
    /\ RowMatched
    /\ Insertable(tx[s].selection)
    /\ quantity' = [r \in Roles |-> quantity[r] + tx[s].selection[r]]
    /\ remaining' = [r \in Roles |-> remaining[r] + tx[s].selection[r]]
    /\ status' = "WAITING_PLAYERS"
    /\ tx' = [tx EXCEPT ![s] = Idle]
    /\ UNCHANGED <<seatRows, role>>

(* start_game: the check on an unlocked read, then the blind write. *)
StartRead(s) ==
    /\ tx[s] = Idle
    /\ status = "READY"
    /\ tx' = [tx EXCEPT ![s] = Pending("start", NoSelection)]
    /\ UNCHANGED gameRows

StartWrite(s) ==
    /\ tx[s].op = "start"
    /\ RowMatched
    /\ status' = "IN_PROGRESS"
    /\ tx' = [tx EXCEPT ![s] = Idle]
    /\ UNCHANGED <<quantity, remaining, seatRows, role>>

(* finish_game: likewise, from a started or a ready game. *)
FinishRead(s) ==
    /\ tx[s] = Idle
    /\ status \in {"IN_PROGRESS", "READY"}
    /\ tx' = [tx EXCEPT ![s] = Pending("finish", NoSelection)]
    /\ UNCHANGED gameRows

FinishWrite(s) ==
    /\ tx[s].op = "finish"
    /\ RowMatched
    /\ status' = "FINISHED"
    /\ tx' = [tx EXCEPT ![s] = Idle]
    /\ UNCHANGED <<quantity, remaining, seatRows, role>>

(* The middleware's rollback: the UPDATE matched no row because the game is
   gone, a game_roles row was a duplicate, or the handler failed before its
   commit (Telegram refused a message, the connection dropped). *)
Rollback(s) ==
    /\ tx[s] # Idle
    /\ tx' = [tx EXCEPT ![s] = Idle]
    /\ UNCHANGED gameRows

(* delete_game: locked, never while in progress; the foreign keys cascade. *)
DeleteGame ==
    /\ status \notin {"IN_PROGRESS", "DELETED"}
    /\ status' = "DELETED"
    /\ quantity' = [r \in Roles |-> 0]
    /\ remaining' = [r \in Roles |-> 0]
    /\ playerStatus' = [u \in Users |-> "NONE"]
    /\ number' = [u \in Users |-> 0]
    /\ joinOrder' = [u \in Users |-> 0]
    /\ role' = [u \in Users |-> NoRole]
    /\ UNCHANGED tx

LifecycleNext ==
    \/ DeleteGame
    \/ \E s \in Sessions :
          \/ \E selection \in Selections : ConfigureRead(s, selection)
          \/ ConfigureWrite(s)
          \/ StartRead(s)
          \/ StartWrite(s)
          \/ FinishRead(s)
          \/ FinishWrite(s)
          \/ Rollback(s)

=============================================================================
