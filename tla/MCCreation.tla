----------------------------- MODULE MCCreation -----------------------------
(***************************************************************************)
(* The creation wizard and the role library for TLC.                       *)
(***************************************************************************)
EXTENDS Creation, TLC

CONSTANTS u1, u2, m1, m2, g1, g2, r1, r2, r3, a, b, c, x, y

MCUpdates == {u1, u2}
MCMessages == {m1, m2}
MCGames == {g1, g2}
MCRoleIds == {r1, r2, r3}
MCNames == {a, b, c}
MCCounts == {3, 4}
\* The flexible scenario takes three players, the fixed one prescribes four.
MCAdmits == [s \in Scenarios |-> IF s = "fixed" THEN {4} ELSE {3}]
MCCatalogRoles == {x, y}
\* Two compositions without a common role, one of them the prescribed one
MCCompositions == {{x}, {y}}
MCFixedRoles == {x}

\* Two games, or one and a custom role, with an overlap, a failure or a stray
\* tap; one game with two of them, and with as many as a second opening takes;
\* and three roles, with as many as two creations of different names at once take.
MCLoads ==
    {[keyboards |-> 2, games |-> 2, roles |-> 0, trouble |-> 1],
     [keyboards |-> 2, games |-> 1, roles |-> 1, trouble |-> 1],
     [keyboards |-> 2, games |-> 1, roles |-> 0, trouble |-> 2],
     [keyboards |-> 1, games |-> 1, roles |-> 0, trouble |-> 3],
     [keyboards |-> 0, games |-> 0, roles |-> 3, trouble |-> 3]}

Symmetry == Permutations(Updates) \cup Permutations(Messages)
              \cup Permutations(Games) \cup Permutations(RoleIds)

=============================================================================
