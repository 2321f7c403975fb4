----------------------------- MODULE SingleDevice ---------------------------
(***************************************************************************)
(* SingleDeviceService: the pass-the-phone game.  A tap on a free seat     *)
(* inserts the seat's synthetic player and draws its role, under the       *)
(* game's lock and in one transaction: one action.  The synthetic players  *)
(* never leave.                                                            *)
(*                                                                         *)
(* The game row has a join code like any other, and join_game does not     *)
(* look at the role mode: a user who enters the code sits down as in a     *)
(* turn-based game.  Remote is the set of users who do.                    *)
(***************************************************************************)
EXTENDS Lobby

CONSTANT SeatUser     \* _seat_user_id: seat number -> synthetic user

ASSUME SeatUsersDistinct ==
    /\ SeatUser \in [Seats -> Users]
    /\ \A m, n \in Seats : SeatUser[m] = SeatUser[n] => m = n

Remote == Users \ {SeatUser[n] : n \in Seats}

-----------------------------------------------------------------------------

\* Nobody active has the number, and the INSERT passes the constraints
\* UNIQUE(game_id, number) and UNIQUE(game_id, user_id).
SeatClaimable(n) ==
    /\ n \in FreeNumbers
    /\ SeatInsertable(n)
    /\ playerStatus[SeatUser[n]] = "NONE"

\* Mutant: the lobby is not promoted when the last seat is dealt.
Promotes_Never == UNCHANGED status

Promotes == MarkReadyIfDealt

(* claim_seat, from on_pick.  NoRolesAvailableError is caught by the handler,
   and the seat's row is committed without a role. *)
ClaimSeat(n) ==
    LET u == SeatUser[n] IN
    /\ status = "WAITING_PLAYERS"
    /\ SeatClaimable(n)
    /\ number' = [number EXCEPT ![u] = n]
    /\ \E k \in 1..MaxJoinOrder :
          /\ IsNextJoinOrder(k)
          /\ joinOrder' = [joinOrder EXCEPT ![u] = k]
    /\ IF \E r \in Roles : remaining[r] > 0
       THEN /\ \E r \in Roles : DrawRole(u, r)
            /\ playerStatus' = [playerStatus EXCEPT ![u] = "ASSIGNED"]
            /\ Promotes
       ELSE /\ playerStatus' = [playerStatus EXCEPT ![u] = "NUMBERED"]
            /\ UNCHANGED <<status, remaining, role>>
    /\ UNCHANGED <<quantity, tx>>

RemoteNext ==
    \E u \in Remote :
       \/ JoinGame(u)
       \/ \E n \in Seats : ChooseNumber(u, n)
       \/ \E r \in Roles : AssignRole(u, r)
       \/ LeaveGame(u)

SingleDeviceNext ==
    \/ \E n \in Seats : ClaimSeat(n)
    \/ RemoteNext
    \/ LifecycleNext

SingleDeviceSpec == Init /\ [][SingleDeviceNext]_vars

-----------------------------------------------------------------------------

\* Nobody has entered the game's code.
PhoneOnly == \A u \in Remote : playerStatus[u] = "NONE"

\* One phone, one deal: while the game is open, nobody sits without a role, some
\* seat is free, each free seat can be claimed, and the pool has a role for it.
\* So the phone goes round, and the last seat makes the game READY.
PhoneCanGoRound ==
    status = "WAITING_PLAYERS" /\ PhoneOnly =>
        /\ Active = Assigned
        /\ FreeNumbers # {}
        /\ \A n \in FreeNumbers : SeatClaimable(n)
        /\ \E r \in Roles : remaining[r] > 0

=============================================================================
