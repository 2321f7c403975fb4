----------------------------- MODULE CustomRoles ----------------------------
(***************************************************************************)
(* A user's library of custom roles: the wizard that names a role, asks    *)
(* its team and description and stores it, and the soft deletion.          *)
(*                                                                         *)
(* The checks of create read committed rows; the INSERT waits while        *)
(* another transaction holds the same name, and the row is visible to      *)
(* others at the commit, which follows the user's confirmation.            *)
(***************************************************************************)
EXTENDS Conversation

CONSTANT MaxActive      \* MAX_CUSTOM_ROLES_PER_USER

ASSUME MaxActiveNat == MaxActive \in Nat

VARIABLE library        \* per identifier, the custom_roles row

RowStates == {"free", "inserted", "rolled_back", "active", "deleted"}
Rows == [state : RowStates, name : Names \cup {NoName}]

LibraryTypeOK == library \in [RoleIds -> Rows]

LibraryInit == library = [r \in RoleIds |-> [state |-> "free", name |-> NoName]]

Active == {r \in RoleIds : library[r].state = "active"}

-----------------------------------------------------------------------------
(* The steps of the wizard that touch the FSM context only.  The library's
   keyboard may be in any older message, so "new" can come at any time. *)

NewRole ==
    /\ chat.state # "enter_name"
    /\ chat' = [chat EXCEPT !.state = "enter_name"]
    /\ Counted(AllIdle)
    /\ UNCHANGED <<job, screen, library>>

EnterName(name) ==
    /\ chat.state = "enter_name"
    /\ chat' = [chat EXCEPT !.name = name, !.state = "choose_team"]
    /\ Counted(AllIdle)
    /\ UNCHANGED <<job, screen, library>>

ChooseTeam ==
    /\ chat.state = "choose_team"
    /\ chat' = [chat EXCEPT !.state = "enter_description"]
    /\ Counted(AllIdle)
    /\ UNCHANGED <<job, screen, library>>

-----------------------------------------------------------------------------

\* The updates that will store a role
Storing == {u \in Updates : job[u].op = "describe" /\ job[u].step = "run"}

\* Bound: an identifier is left for every role asked for.
RolesLeft ==
    Cardinality({r \in RoleIds : library[r].state = "free"}) > Cardinality(Storing)

\* The description arrives: the update that stores the role.
Describe(u) ==
    /\ RolesLeft
    /\ chat.state = "enter_description"
    /\ Taken(u, [Idle EXCEPT !.op = "describe"])
    /\ Counted(AllIdle)
    /\ UNCHANGED <<chat, screen, library>>

\* Mutant: a library that is over the cap already is not noticed.
BelowCap_Equality == Cardinality(Active) # MaxActive

BelowCap == Cardinality(Active) < MaxActive

\* name_exists_for_owner
NameExists(name) == \E r \in Active : library[r].name = name

\* Mutant: no unique index behind the check.
NameIndexed_No(name) == FALSE

\* UNIQUE(owner_id, name_fa): whatever the rows' is_active
NameIndexed(name) ==
    \E r \in RoleIds : /\ library[r].state \in {"active", "deleted"}
                       /\ library[r].name = name

\* Another open transaction has inserted the name: the INSERT waits for it.
NameHeld(name) ==
    \E r \in RoleIds : library[r].state = "inserted" /\ library[r].name = name

Accepted == chat.name # NoName /\ BelowCap /\ ~NameExists(chat.name)

\* CustomRoleService.create refuses, or the INSERT violates the index.
CreateFails(u) ==
    /\ job[u].op = "describe" /\ job[u].step = "run"
    /\ ~Accepted \/ (~NameHeld(chat.name) /\ NameIndexed(chat.name))
    /\ Done(u)
    /\ UNCHANGED <<chat, screen, trouble, library>>

\* Mutant: the name may be held (an index checked at commit).
MayInsert_Deferred(name) == ~NameIndexed(name)

MayInsert(name) == ~NameHeld(name) /\ ~NameIndexed(name)

Create(u) ==
    /\ job[u].op = "describe" /\ job[u].step = "run"
    /\ Accepted /\ MayInsert(chat.name)
    /\ \E r \in RoleIds :
          /\ library[r].state = "free"
          /\ library' = [library EXCEPT ![r] = [state |-> "inserted",
                                                name |-> chat.name]]
          /\ job' = [job EXCEPT ![u].role = r, ![u].step = "switch"]
    /\ UNCHANGED <<chat, screen, trouble>>

\* state.clear(), the confirmation, the list
CreateTold(u) ==
    /\ job[u].op = "describe" /\ job[u].step = "switch"
    /\ chat' = Cleared
    /\ To(u, "commit")
    /\ UNCHANGED <<screen, trouble, library>>

CreateCommit(u) ==
    /\ job[u].op = "describe" /\ job[u].step = "commit"
    /\ library' = [library EXCEPT ![job[u].role].state = "active"]
    /\ Done(u)
    /\ UNCHANGED <<chat, screen, trouble>>

CreateRollback(u) ==
    /\ job[u].op = "describe" /\ job[u].step # "run"
    /\ library' = [library EXCEPT ![job[u].role].state = "rolled_back"]
    /\ Done(u)
    /\ Counted(FALSE)
    /\ UNCHANGED <<chat, screen>>

Deleted(r) == [library EXCEPT ![r].state = "deleted"]

\* Soft deletion, from any card that still shows the role
Delete(r) ==
    /\ r \in Active
    /\ library' = Deleted(r)
    /\ UNCHANGED conversation

LibraryNext ==
    \/ NewRole
    \/ \E name \in Names : EnterName(name)
    \/ ChooseTeam
    \/ \E u \in Updates :
          \/ Describe(u)
          \/ CreateFails(u)
          \/ Create(u)
          \/ CreateTold(u)
          \/ CreateCommit(u)
          \/ CreateRollback(u)
    \/ \E r \in RoleIds : Delete(r)

=============================================================================
