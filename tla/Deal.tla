-------------------------------- MODULE Deal --------------------------------
(***************************************************************************)
(* What dealing promises, whatever way a game deals (on a player's tap, on *)
(* join, or on one phone): a configured number of slots of each role, each *)
(* player with at most one of them, and no slot in two hands.  The         *)
(* services keep counters of the free slots instead; this specification    *)
(* has none, and counts hands.                                             *)
(***************************************************************************)
EXTENDS Naturals, FiniteSets

CONSTANTS Users, Roles, NoRole, Selections

VARIABLES
    pool,    \* the slots of each role the creator has configured
    hand     \* the role each player holds

dealVars == <<pool, hand>>

InHands(r) == Cardinality({u \in Users : hand[u] = r})

DealInit ==
    /\ pool = [r \in Roles |-> 0]
    /\ hand = [u \in Users |-> NoRole]

\* Roles are added to the pool; none that is there changes its number.
Configure ==
    /\ \E selection \in Selections :
          /\ \A r \in Roles : selection[r] > 0 => pool[r] = 0
          /\ pool' = [r \in Roles |-> pool[r] + selection[r]]
    /\ UNCHANGED hand

\* A player without a role gets a slot that is in nobody's hand.
Draw(u, r) ==
    /\ hand[u] = NoRole
    /\ InHands(r) < pool[r]
    /\ hand' = [hand EXCEPT ![u] = r]
    /\ UNCHANGED pool

GiveBack(u) ==
    /\ hand' = [hand EXCEPT ![u] = NoRole]
    /\ UNCHANGED pool

\* The game is deleted.
Clear ==
    /\ pool' = [r \in Roles |-> 0]
    /\ hand' = [u \in Users |-> NoRole]

DealNext ==
    \/ Configure
    \/ \E u \in Users : GiveBack(u) \/ \E r \in Roles : Draw(u, r)
    \/ Clear

DealSpec == DealInit /\ [][DealNext]_dealVars

-----------------------------------------------------------------------------

\* What makes it a deal: whatever is configured, drawn, given back and cleared, no
\* role is in more hands than it has slots.
NoSlotTwice == \A r \in Roles : InHands(r) <= pool[r]

=============================================================================
