--------------------------- MODULE CompositionProofs -------------------------
(***************************************************************************)
(* Proofs about Composition: for every set of custom roles, deleted at any *)
(* time, and every player bounds, every count of every scenario leads to a summary, and    *)
(* whatever the creator ticks, the pool fills the table and is the one the *)
(* summary shows.  The catalogs are those of the code.                     *)
(***************************************************************************)
EXTENDS Composition, FiniteSetTheorems, TLAPS

\* A selection, part by part and team by team.
LEMMA SelectionParts ==
    ASSUME NEW q \in Selections, NEW t \in Teams
    PROVE  /\ q.special[t] \in Nat /\ q.simple[t] \in Nat
           /\ Cardinality(CustomsOf(q, t)) \in Nat
           /\ OfTeam(q, t) \in Nat
<1>1. IsFiniteSet(CustomsOf(q, t))
  BY OwnRolesHaveTeams, FS_Subset DEF Selections, CustomsOf
<1>2. Cardinality(CustomsOf(q, t)) \in Nat
  BY <1>1, FS_CardinalityType
<1>3. q.special[t] \in Nat /\ q.simple[t] \in Nat
  BY DEF Selections
<1>4. QED
  BY <1>2, <1>3 DEF OfTeam

\* A selection without custom roles
LEMMA NoCustoms ==
    ASSUME NEW q, NEW t, q.customs = {}
    PROVE  OfTeam(q, t) = q.special[t] + 0 + q.simple[t]
<1>1. CustomsOf(q, t) = {}
  BY DEF CustomsOf
<1>2. QED
  BY <1>1, FS_EmptySet DEF OfTeam

\* Two selections with the same custom roles
LEMMA SameCustoms ==
    ASSUME NEW p, NEW q, NEW t, p.customs = q.customs
    PROVE  CustomsOf(p, t) = CustomsOf(q, t)
    BY DEF CustomsOf

LEMMA TeamNames == "city" \in Teams /\ "mafia" \in Teams /\ "independent" \in Teams
    BY DEF Teams

\* The standard proportion leaves the mafia in the minority at any table.
LEMMA MafiaAreFewer ==
    ASSUME NEW n \in Nat, n >= 3
    PROVE  /\ MafiaByRatio(n) \in Nat
           /\ 2 * MafiaByRatio(n) < n
    BY DEF MafiaByRatio

-----------------------------------------------------------------------------
(* What the prescribed compositions add up to.                             *)

\* Roles that are given once each are as many as they are.
LEMMA OnceEach ==
    ASSUME NEW given, NEW rs, NEW S,
           S = DOMAIN given \cap rs, IsFiniteSet(S), \A r \in S : given[r] = 1
    PROVE  HowMany(given, rs) = Cardinality(S)
<1> DEFINE copy == [r \in S |-> <<r, 1>>]
           T == {<<r, 1>> : r \in S}
<1>1. Copies(given, rs) = T
  <2>1. \A r \in S : {r} \X (1..given[r]) = {<<r, 1>>}
    OBVIOUS
  <2>2. QED
    BY <2>1 DEF Copies
<1>2. copy \in Bijection(S, T)
  BY DEF Bijection, Injection, Surjection, IsInjective
<1>3. Cardinality(T) = Cardinality(S)
  BY <1>2, FS_Bijection DEF ExistsBijection
<1>4. QED
  BY <1>1, <1>3 DEF HowMany

\* The copies of one role are as many as its count.
LEMMA OneRole ==
    ASSUME NEW given, NEW rs, NEW r, DOMAIN given \cap rs = {r}, given[r] \in Nat
    PROVE  HowMany(given, rs) = given[r]
<1> DEFINE k == given[r]
           copy == [i \in 1..k |-> <<r, i>>]
           T == {r} \X (1..k)
<1>1. Copies(given, rs) = T
  BY DEF Copies
<1>2. copy \in Bijection(1..k, T)
  BY DEF Bijection, Injection, Surjection, IsInjective
<1>3. Cardinality(T) = Cardinality(1..k)
  BY <1>2, FS_Bijection, FS_Interval DEF ExistsBijection
<1>4. QED
  BY <1>1, <1>3, FS_Interval DEF HowMany

LEMMA NoRoles ==
    ASSUME NEW given, NEW rs, DOMAIN given \cap rs = {}
    PROVE  HowMany(given, rs) = 0
  BY FS_EmptySet DEF HowMany, Copies

\* One more element
LEMMA OneMore ==
    ASSUME NEW S, NEW x, x \notin S, IsFiniteSet(S)
    PROVE  IsFiniteSet(S \cup {x}) /\ Cardinality(S \cup {x}) = Cardinality(S) + 1
  BY FS_AddElement

LEMMA CapoSpecials ==
    /\ IsFiniteSet(CapoMafia) /\ Cardinality(CapoMafia) = 4
    /\ IsFiniteSet(CapoCity) /\ Cardinality(CapoCity) = 6
<1> DEFINE mafia2 == {"GODFATHER"} \cup {"ENCHANTER"}
           mafia3 == mafia2 \cup {"NATO"}
           city2 == {"DETECTIVE"} \cup {"SUSPECT"}
           city3 == city2 \cup {"ARMORSMITH"}
           city4 == city3 \cup {"APOTHECARY"}
           city5 == city4 \cup {"HEIR"}
<1>1. /\ IsFiniteSet({"GODFATHER"}) /\ Cardinality({"GODFATHER"}) = 1
      /\ IsFiniteSet({"DETECTIVE"}) /\ Cardinality({"DETECTIVE"}) = 1
  BY FS_Singleton
<1>2. IsFiniteSet(mafia2) /\ Cardinality(mafia2) = 2
  BY <1>1, OneMore
<1>3. IsFiniteSet(mafia3) /\ Cardinality(mafia3) = 3
  BY <1>2, OneMore
<1>4. CapoMafia = mafia3 \cup {"LAWYER"}
  BY DEF CapoMafia
<1>5. IsFiniteSet(CapoMafia) /\ Cardinality(CapoMafia) = 4
  BY <1>3, <1>4, OneMore
<1>6. IsFiniteSet(city2) /\ Cardinality(city2) = 2
  BY <1>1, OneMore
<1>7. IsFiniteSet(city3) /\ Cardinality(city3) = 3
  BY <1>6, OneMore
<1>8. IsFiniteSet(city4) /\ Cardinality(city4) = 4
  BY <1>7, OneMore
<1>9. IsFiniteSet(city5) /\ Cardinality(city5) = 5
  BY <1>8, OneMore
<1>10. CapoCity = city5 \cup {"KADKHODA"}
  BY DEF CapoCity
<1>11. IsFiniteSet(CapoCity) /\ Cardinality(CapoCity) = 6
  BY <1>9, <1>10, OneMore
<1>12. QED
  BY <1>5, <1>11

\* capo is the only scenario that prescribes its compositions.
LEMMA FixedIsCapo ==
    ASSUME NEW s \in ScenarioCodes, IsFixed(s)
    PROVE  /\ s = "capo"
           /\ \A n : Supports(s, n) =>
                    n \in {12, 13} /\ Scenario[s].fixed[n] = CapoFor(n - 10)
<1>1. ASSUME s # "capo" PROVE ~IsFixed(s)
  <2>1. s \in {"classic", "commando", "gunner", "mason", "inspector"}
    BY <1>1 DEF ScenarioCodes, Scenario
  <2>2. Scenario[s].fixed = [n \in {} |-> CapoFor(2)]
    BY <2>1 DEF Scenario, Flexible
  <2>3. QED
    BY <2>2 DEF IsFixed
<1>2. Scenario["capo"].fixed = [n \in {12, 13} |-> CapoFor(n - 10)]
  BY DEF Scenario
<1>3. QED
  BY <1>1, <1>2 DEF Supports, IsFixed

LEMMA CapoIsSound ==
    ASSUME NEW n \in {12, 13}
    PROVE  LET given == CapoFor(n - 10) IN
           /\ HowMany(given, TeamRoles["city"] \ SimpleRoles) = 6
           /\ HowMany(given, TeamRoles["mafia"] \ SimpleRoles) = 4
           /\ HowMany(given, TeamRoles["independent"] \ SimpleRoles) = 0
           /\ HowMany(given, TeamRoles["city"] \cap SimpleRoles) = n - 10
           /\ HowMany(given, TeamRoles["mafia"] \cap SimpleRoles) = 0
           /\ HowMany(given, TeamRoles["independent"] \cap SimpleRoles) = 0
<1> DEFINE given == CapoFor(n - 10)
           D == CapoMafia \cup CapoCity \cup {"CITIZEN"}
<1>1. /\ DOMAIN given = D
      /\ \A r \in CapoMafia \cup CapoCity : given[r] = 1
      /\ given["CITIZEN"] = n - 10
  BY DEF CapoFor, CapoMafia, CapoCity
<1>2. /\ TeamRoles["city"] = CommonCityRoles \cup ScenarioCityRoles \cup MasonRoles
      /\ TeamRoles["mafia"] = CommonMafiaRoles
      /\ TeamRoles["independent"] = IndependentRoles
  BY DEF TeamRoles
<1>3. /\ D \cap (TeamRoles["city"] \ SimpleRoles) = CapoCity
      /\ D \cap (TeamRoles["city"] \cap SimpleRoles) = {"CITIZEN"}
  BY <1>2
  DEF CapoMafia, CapoCity, CommonCityRoles, ScenarioCityRoles, MasonRoles, SimpleRoles
<1>4. /\ D \cap (TeamRoles["mafia"] \ SimpleRoles) = CapoMafia
      /\ D \cap (TeamRoles["mafia"] \cap SimpleRoles) = {}
  BY <1>2 DEF CapoMafia, CapoCity, CommonMafiaRoles, SimpleRoles
<1>5. /\ D \cap (TeamRoles["independent"] \ SimpleRoles) = {}
      /\ D \cap (TeamRoles["independent"] \cap SimpleRoles) = {}
  BY <1>2 DEF CapoMafia, CapoCity, IndependentRoles, SimpleRoles
<1> HIDE DEF given, D
<1>6. /\ HowMany(given, TeamRoles["city"] \ SimpleRoles) = 6
      /\ HowMany(given, TeamRoles["mafia"] \ SimpleRoles) = 4
  BY <1>1, <1>3, <1>4, OnceEach, CapoSpecials
<1>7. HowMany(given, TeamRoles["city"] \cap SimpleRoles) = n - 10
  BY <1>1, <1>3, OneRole
<1>8. /\ HowMany(given, TeamRoles["mafia"] \cap SimpleRoles) = 0
      /\ HowMany(given, TeamRoles["independent"] \ SimpleRoles) = 0
      /\ HowMany(given, TeamRoles["independent"] \cap SimpleRoles) = 0
  BY <1>1, <1>4, <1>5, NoRoles
<1>9. QED
  BY <1>6, <1>7, <1>8 DEF given

\* So every prescribed composition has a role for every seat.
LEMMA Prescriptions == PrescriptionsAreSound
<1> SUFFICES ASSUME NEW s \in ScenarioCodes, NEW n \in MinPlayers..MaxPlayers,
                    IsFixed(s), Supports(s, n)
             PROVE  /\ Prescribed(s, n) \in Selections
                    /\ HeadCount(Prescribed(s, n)) = n
                    /\ OfTeam(Prescribed(s, n), "city") > OfTeam(Prescribed(s, n), "mafia")
  BY DEF PrescriptionsAreSound
<1> DEFINE given == CapoFor(n - 10)
           special == [t \in Teams |-> HowMany(given, TeamRoles[t] \ SimpleRoles)]
           simple == [t \in Teams |-> HowMany(given, TeamRoles[t] \cap SimpleRoles)]
<1>1. n \in {12, 13} /\ Scenario[s].fixed[n] = given
  BY FixedIsCapo
<1>2. Prescribed(s, n) = [special |-> special, customs |-> {}, simple |-> simple]
  BY <1>1 DEF Prescribed
<1>3. /\ special["city"] = 6 /\ special["mafia"] = 4 /\ special["independent"] = 0
      /\ simple["city"] = n - 10 /\ simple["mafia"] = 0 /\ simple["independent"] = 0
  BY <1>1, CapoIsSound DEF Teams
<1>4. special \in [Teams -> Nat] /\ simple \in [Teams -> Nat]
  <2>1. /\ \A t \in Teams : special[t] \in Nat
        /\ \A t \in Teams : simple[t] \in Nat
    <3> HIDE DEF special, simple
    <3>1. QED
      BY <1>1, <1>3 DEF Teams
  <2>2. QED
    BY <2>1
<1> HIDE DEF special, simple, given
<1>5. Prescribed(s, n) \in Selections
  BY <1>2, <1>4 DEF Selections
<1>6. /\ OfTeam(Prescribed(s, n), "city") = 6 + (n - 10)
      /\ OfTeam(Prescribed(s, n), "mafia") = 4
      /\ OfTeam(Prescribed(s, n), "independent") = 0
  BY <1>1, <1>2, <1>3, NoCustoms
<1>7. QED
  BY <1>1, <1>5, <1>6 DEF HeadCount

-----------------------------------------------------------------------------

\* A flexible scenario's count keyboard offers counts it supports.
LEMMA CountsOffered ==
    ASSUME NEW s \in ScenarioCodes, NEW n \in CountButtons(s)
    PROVE  Supports(s, n)
<1>1. CASE s = "capo"
  BY <1>1 DEF CountButtons, Supports, IsFixed, Scenario
<1>2. CASE s # "capo"
  <2>1. ~IsFixed(s)
    BY <1>2, FixedIsCapo
  <2>2. s \in {"classic", "commando", "gunner", "mason", "inspector"}
    BY <1>2 DEF ScenarioCodes, Scenario
  <2>3. /\ Scenario[s].min \in Int /\ Scenario[s].max \in Int
        /\ Scenario[s].min <= Scenario[s].max
    BY <2>2 DEF Scenario, Flexible
  <2>4. QED
    BY <2>1, <2>3 DEF CountButtons, Supports
<1>3. QED
  BY <1>1, <1>2

\* With nothing ticked the resolver refuses no table.
LEMMA NothingTickedFits ==
    ASSUME NEW n \in Nat, n >= 3
    PROVE  Fits(n, MafiaByRatio(n), NothingChosen)
<1>1. \A t \in Teams : OfTeam(NothingChosen, t) = 0
  BY NoCustoms DEF NothingChosen
<1>2. QED
  BY <1>1, MafiaAreFewer DEF Fits, CityTarget, HeadCount, Teams

-----------------------------------------------------------------------------
(* What the resolver fills up.                                             *)

\* A refused selection apart, the fill is never negative, gives every seat one
\* role and keeps what is ticked: what the summary's targets say is what the
\* quantities add up to.
LEMMA FillIsExact ==
    ASSUME NEW n \in Nat, NEW mafia \in Nat, NEW q \in Selections,
           Fits(n, mafia, q)
    PROVE  /\ Filled(n, mafia, q) \in Selections
           /\ HeadCount(Filled(n, mafia, q)) = n
           /\ ByTeam(Filled(n, mafia, q)) = Balance(n, mafia, q)
           /\ Filled(n, mafia, q).special = q.special
           /\ Filled(n, mafia, q).customs = q.customs
           /\ \A t \in Teams : Filled(n, mafia, q).simple[t] >= q.simple[t]
<1> DEFINE f == Filled(n, mafia, q)
           more == [t \in Teams |-> IF t = "mafia" THEN mafia - OfTeam(q, "mafia")
                     ELSE IF t = "city" THEN CityTarget(n, mafia, q) - OfTeam(q, "city")
                     ELSE 0]
<1>1. /\ OfTeam(q, "city") \in Nat /\ OfTeam(q, "mafia") \in Nat
      /\ OfTeam(q, "independent") \in Nat /\ CityTarget(n, mafia, q) \in Nat
  BY SelectionParts, TeamNames DEF Fits, CityTarget
<1>2. \A t \in Teams : more[t] \in Nat
  BY <1>1 DEF Fits, Teams
<1>3. /\ f.special = q.special /\ f.customs = q.customs
      /\ f.simple \in [Teams -> Nat]
      /\ \A t \in Teams : f.simple[t] = q.simple[t] + more[t]
  BY <1>1, <1>2, SelectionParts DEF Filled, Selections, Teams
<1>4. f \in Selections
  BY <1>3 DEF Filled, Selections
<1>5. \A t \in Teams : OfTeam(f, t) = OfTeam(q, t) + more[t]
  BY <1>2, <1>3, SelectionParts, SameCustoms DEF OfTeam
<1>6. /\ OfTeam(f, "city") = CityTarget(n, mafia, q)
      /\ OfTeam(f, "mafia") = mafia
      /\ OfTeam(f, "independent") = OfTeam(q, "independent")
  BY <1>1, <1>5, TeamNames
<1>7. HeadCount(f) = n
  BY <1>1, <1>6 DEF HeadCount, CityTarget
<1>8. ByTeam(f) = Balance(n, mafia, q)
  BY <1>6 DEF ByTeam, Balance, Teams
<1>9. \A t \in Teams : f.simple[t] >= q.simple[t]
  BY <1>2, <1>3, SelectionParts
<1>10. QED
  BY <1>3, <1>4, <1>7, <1>8, <1>9

\* The properties together, with the link they need: a summary is of a table.
IInv ==
    /\ TypeOK
    /\ PoolFillsTable
    /\ SummaryIsThePool
    /\ PicksAreDealt
    /\ CityLeadsWithoutIndependents
    /\ summary # NoSummary => count # 0
    /\ summary = NoSummary => pool = NoQuantities

LEMMA NothingIsASelection == NothingChosen \in Selections /\ NoSummary \in [Teams -> Nat]
    BY DEF NothingChosen, Selections, NoSummary

LEMMA InitInv == Init => IInv
    BY NothingIsASelection
    DEF Init, IInv, TypeOK, PoolFillsTable, SummaryIsThePool, PicksAreDealt,
        CityLeadsWithoutIndependents, NoQuantities

\* Every step of the wizard keeps them.
LEMMA NextInv == IInv /\ [Next]_vars => IInv'
<1> SUFFICES ASSUME IInv, [Next]_vars PROVE IInv'
  OBVIOUS
<1> USE BoundsAreNat, OwnRolesHaveTeams
<1>1. ASSUME NEW n \in MinPlayers..MaxPlayers, ChooseCount(n) PROVE IInv'
  <2>1. CASE IsFixed(scenario)
    <3> DEFINE q == Prescribed(scenario, n)
    <3>1. /\ q \in Selections /\ HeadCount(q) = n
          /\ OfTeam(q, "city") > OfTeam(q, "mafia")
      BY <1>1, <2>1, Prescriptions DEF ChooseCount, PrescriptionsAreSound, IInv, TypeOK
    <3>2. /\ ByTeam(q) \in [Teams -> Nat]
          /\ \A t \in Teams : ByTeam(q)[t] = OfTeam(q, t) /\ OfTeam(q, t) \in Nat
      BY <3>1, SelectionParts DEF ByTeam
    <3>3. /\ quantities' = q /\ summary' = ByTeam(q) /\ count' = n
          /\ UNCHANGED <<own, buttons, scenario, chosen, pool>>
      BY <1>1, <2>1 DEF ChooseCount
    <3> HIDE DEF q
    <3>4. TypeOK'
      BY <3>1, <3>2, <3>3 DEF IInv, TypeOK
    <3>5. CityLeadsWithoutIndependents'
      BY <3>1, <3>2, <3>3, TeamNames DEF CityLeadsWithoutIndependents
    <3>6. count' # 0 /\ pool' = NoQuantities
      BY <1>1, <3>3 DEF ChooseCount, IInv
    <3>7. PoolFillsTable' /\ SummaryIsThePool'
      BY <3>1, <3>3 DEF PoolFillsTable, SummaryIsThePool, HeadCount, OfTeam, CustomsOf, ByTeam
    <3>8. PicksAreDealt'
      BY <2>1, <3>3 DEF PicksAreDealt
    <3>9. QED
      BY <3>4, <3>5, <3>6, <3>7, <3>8 DEF IInv, NoQuantities
  <2>2. CASE ~IsFixed(scenario)
    <3>1. /\ count' = n /\ buttons' = own
          /\ UNCHANGED <<own, scenario, chosen, quantities, summary, pool>>
      BY <1>1, <2>2 DEF ChooseCount
    <3>2. summary = NoSummary
      BY <1>1 DEF ChooseCount, IInv
    <3>3. QED
      BY <3>1, <3>2
      DEF IInv, TypeOK, PoolFillsTable, SummaryIsThePool, PicksAreDealt,
          CityLeadsWithoutIndependents
  <2>3. QED
    BY <2>1, <2>2
<1>2. ASSUME NEW part \in {"special", "simple"}, NEW t \in Teams, Toggle(part, t)
      PROVE  IInv'
  <2>1. /\ summary = NoSummary /\ buttons' = own
        /\ UNCHANGED <<own, scenario, count, summary, quantities, pool>>
    BY <1>2 DEF Toggle, Picking
  <2>2. chosen[part][t] \in Nat
    BY SelectionParts DEF IInv, TypeOK
  <2>3. \/ chosen' = [chosen EXCEPT ![part][t] = chosen[part][t] + 1]
        \/ /\ chosen[part][t] > 0
           /\ chosen' = [chosen EXCEPT ![part][t] = chosen[part][t] - 1]
    BY <1>2 DEF Toggle
  <2>4. PICK k \in Nat : chosen' = [chosen EXCEPT ![part][t] = k]
    BY <2>2, <2>3
  <2>5. chosen' \in Selections
    BY <2>4 DEF IInv, TypeOK, Selections
  <2>6. QED
    BY <2>1, <2>5
    DEF IInv, TypeOK, PoolFillsTable, SummaryIsThePool, PicksAreDealt,
        CityLeadsWithoutIndependents
<1>3. ASSUME NEW r \in OwnRoles, ToggleCustom(r) PROVE IInv'
  <2>1. /\ summary = NoSummary /\ buttons' = own
        /\ UNCHANGED <<own, scenario, count, summary, quantities, pool>>
    BY <1>3 DEF ToggleCustom, Picking
  <2>2. chosen' \in Selections
    BY <1>3 DEF ToggleCustom, IInv, TypeOK, Selections
  <2>3. QED
    BY <2>1, <2>2
    DEF IInv, TypeOK, PoolFillsTable, SummaryIsThePool, PicksAreDealt,
        CityLeadsWithoutIndependents
<1>4. ASSUME NEW r \in OwnRoles, DeleteOwn(r) PROVE IInv'
  <2>1. /\ pool = NoQuantities /\ own' \subseteq own
        /\ UNCHANGED <<buttons, scenario, count, chosen, summary, quantities, pool>>
    BY <1>4 DEF DeleteOwn
  <2>2. TypeOK'
    BY <2>1 DEF IInv, TypeOK
  <2>3. PicksAreDealt'
    BY <2>1 DEF IInv, PicksAreDealt, NoQuantities
  <2>4. QED
    BY <2>1, <2>2, <2>3
    DEF IInv, PoolFillsTable, SummaryIsThePool, CityLeadsWithoutIndependents,
        HeadCount, OfTeam, CustomsOf, ByTeam
<1>5. ASSUME Confirm PROVE IInv'
  <2> DEFINE mafia == MafiaByRatio(count)
             found == StillThere(chosen)
  <2>1. /\ count \in Nat /\ count >= 3 /\ ~IsFixed(scenario) /\ chosen \in Selections
        /\ summary = NoSummary
    BY <1>5 DEF Confirm, Picking, IInv, TypeOK
  <2>2. TargetMafia(scenario, count) = mafia
    BY <2>1 DEF TargetMafia
  <2>3. /\ Fits(count, mafia, found)
        /\ quantities' = Filled(count, mafia, found)
        /\ summary' = Balance(count, mafia, found)
        /\ buttons' = {}
        /\ UNCHANGED <<own, scenario, count, chosen, pool>>
    BY <1>5, <2>2 DEF Confirm
  <2>4. mafia \in Nat /\ 2 * mafia < count
    BY <2>1, MafiaAreFewer
  <2>5. /\ found \in Selections /\ found.special = chosen.special
        /\ found.simple = chosen.simple /\ found.customs = chosen.customs \cap own
    BY <2>1 DEF StillThere, Selections
  <2> HIDE DEF mafia, found
  <2>6. /\ quantities' \in Selections
        /\ HeadCount(quantities') = count
        /\ ByTeam(quantities') = summary'
        /\ quantities'.special = chosen.special
        /\ quantities'.customs = chosen.customs \cap own
        /\ \A t \in Teams : quantities'.simple[t] >= chosen.simple[t]
    BY <2>1, <2>3, <2>4, <2>5, FillIsExact
  <2>7. summary' \in [Teams -> Nat]
    BY <2>6, SelectionParts DEF ByTeam
  <2>8. TypeOK'
    BY <2>3, <2>6, <2>7 DEF IInv, TypeOK
  <2>9. CityLeadsWithoutIndependents'
    <3>1. /\ summary'["city"] = CityTarget(count, mafia, found)
          /\ summary'["mafia"] = mafia
          /\ summary'["independent"] = OfTeam(found, "independent")
      BY <2>3, TeamNames DEF Balance
    <3>2. /\ OfTeam(found, "independent") \in Nat
          /\ OfTeam(found, "independent") <= mafia
      BY <2>3, <2>5, SelectionParts, TeamNames DEF Fits
    <3>3. QED
      BY <2>1, <2>4, <3>1, <3>2 DEF CityTarget, CityLeadsWithoutIndependents
  <2>10. pool = NoQuantities /\ pool' = pool
    BY <2>1, <2>3 DEF IInv
  <2>11. PicksAreDealt'
    BY <2>3, <2>6, <2>10 DEF PicksAreDealt, NoQuantities
  <2>12. PoolFillsTable' /\ SummaryIsThePool'
    BY <2>3, <2>6
    DEF PoolFillsTable, SummaryIsThePool, HeadCount, OfTeam, CustomsOf, ByTeam
  <2>13. QED
    BY <2>1, <2>3, <2>8, <2>9, <2>10, <2>11, <2>12 DEF IInv
<1>6. ASSUME Back PROVE IInv'
  <2>1. /\ summary' = NoSummary /\ quantities' = NoQuantities
        /\ buttons' \in {buttons, own}
        /\ UNCHANGED <<own, chosen, pool>>
        /\ scenario' \in ScenarioCodes /\ count' \in {0, count} /\ pool = NoQuantities
    BY <1>6 DEF Back, IInv, TypeOK
  <2>2. QED
    BY <2>1, NothingIsASelection
    DEF IInv, TypeOK, PoolFillsTable, SummaryIsThePool, PicksAreDealt,
        CityLeadsWithoutIndependents, NoQuantities
<1>7. ASSUME Finalize PROVE IInv'
  <2>1. /\ summary # NoSummary /\ quantities.customs \subseteq own /\ pool' = quantities
        /\ UNCHANGED <<own, buttons, scenario, count, chosen, summary, quantities>>
    BY <1>7 DEF Finalize, Accepted
  <2>2. TypeOK'
    BY <2>1 DEF IInv, TypeOK
  <2>3. PicksAreDealt'
    BY <2>1 DEF IInv, PicksAreDealt, NoQuantities
  <2>4. QED
    BY <2>1, <2>2, <2>3
    DEF IInv, PoolFillsTable, SummaryIsThePool, CityLeadsWithoutIndependents,
        HeadCount, OfTeam, CustomsOf, ByTeam
<1>8. ASSUME UNCHANGED vars PROVE IInv'
  BY <1>8
  DEF vars, IInv, TypeOK, PoolFillsTable, SummaryIsThePool, PicksAreDealt,
      CityLeadsWithoutIndependents, NoQuantities, HeadCount, OfTeam, CustomsOf, ByTeam
<1>9. QED
  BY <1>1, <1>2, <1>3, <1>4, <1>5, <1>6, <1>7, <1>8 DEF Next

\* The wizard only ever gets to pools that fill the table, of which the summary
\* tells the truth, in which every pick that still exists is dealt and there is a city to speak of.
THEOREM WizardInv == Spec => []IInv
<1>1. Init => IInv
  BY InitInv
<1>2. IInv /\ [Next]_vars => IInv'
  BY NextInv
<1>3. QED
  BY <1>1, <1>2, PTL DEF Spec

\* No count is ever negative: neither the fill nor a pool it ends up in.
THEOREM WizardTypes == Spec => []TypeOK
<1>1. IInv => TypeOK
  BY DEF IInv
<1>2. Spec => []IInv
  BY WizardInv
<1>3. QED
  BY <1>1, <1>2, PTL

\* Whatever is ticked, a confirmed composition has one role per seat, so
\* configure_roles accepts what the summary promises.
THEOREM PoolsFillTables == Spec => []PoolFillsTable
<1>1. IInv => PoolFillsTable
  BY DEF IInv
<1>2. Spec => []IInv
  BY WizardInv
<1>3. QED
  BY <1>1, <1>2, PTL

\* The team counts on the summary are those of the pool that is configured.
THEOREM SummariesAreTrue == Spec => []SummaryIsThePool
<1>1. IInv => SummaryIsThePool
  BY DEF IInv
<1>2. Spec => []IInv
  BY WizardInv
<1>3. QED
  BY <1>1, <1>2, PTL

\* Whatever custom roles are deleted meanwhile, every ticked role that the
\* creator still has is in the pool, and only simple roles are added.
THEOREM ExistingPicksAreDealt == Spec => []PicksAreDealt
<1>1. IInv => PicksAreDealt
  BY DEF IInv
<1>2. Spec => []IInv
  BY WizardInv
<1>3. QED
  BY <1>1, <1>2, PTL

\* Every table has a city, and with the independents it outnumbers the mafia.
THEOREM NoTableWithoutACity == Spec => []CityLeadsWithoutIndependents
<1>1. IInv => CityLeadsWithoutIndependents
  BY DEF IInv
<1>2. Spec => []IInv
  BY WizardInv
<1>3. QED
  BY <1>1, <1>2, PTL

\* Every count a scenario supports or a keyboard offers leads to a summary: the
\* prescribed compositions have one role per seat, and with nothing ticked the
\* resolver refuses no table (_resolve_fixed, _resolve_flexible).
THEOREM CountsResolve == Spec => []EveryCountResolves
<1>1. scenario \in ScenarioCodes => EveryCountResolves
  <2> SUFFICES ASSUME scenario \in ScenarioCodes PROVE EveryCountResolves
    OBVIOUS
  <2>1. \A n \in MinPlayers..MaxPlayers :
          (Supports(scenario, n) /\ ~IsFixed(scenario)) =>
              Fits(n, TargetMafia(scenario, n), NothingChosen)
    BY BoundsAreNat, NothingTickedFits DEF TargetMafia
  <2>2. QED
    BY <2>1, CountsOffered, Prescriptions DEF EveryCountResolves
<1>2. Init => scenario \in ScenarioCodes
  BY DEF Init
<1>3. scenario \in ScenarioCodes /\ [Next]_vars => (scenario \in ScenarioCodes)'
  BY DEF Next, ChooseCount, Toggle, ToggleCustom, DeleteOwn, Confirm, Back, Finalize, vars
<1>4. QED
  BY <1>1, <1>2, <1>3, PTL DEF Spec

=============================================================================
