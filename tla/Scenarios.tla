------------------------------- MODULE Scenarios -----------------------------
(***************************************************************************)
(* The static catalogs the creation wizard reads: the roles and the teams  *)
(* they play for (utils/role_catalog.py), and the scenarios with their     *)
(* player counts, selectable roles and prescribed compositions             *)
(* (scenarios/catalog.py).                                                 *)
(***************************************************************************)
EXTENDS Integers, FiniteSets

-----------------------------------------------------------------------------
(* Roles.                                                                  *)

CommonCityRoles ==
    {"CITIZEN", "DOCTOR", "DETECTIVE", "SNIPER", "PSYCHOLOGIST", "IRONCLAD",
     "ARMORED", "PRIEST", "JUDGE", "MAYOR", "GUARDIAN", "REPORTER"}

ScenarioCityRoles ==
    {"COMMANDO", "WATCHMAN", "GUNNER", "SUSPECT", "ARMORSMITH", "APOTHECARY",
     "HEIR", "KADKHODA", "CITY_TRUSTED"}

CommonMafiaRoles ==
    {"GODFATHER", "MAFIA", "NATASHA", "NEGOTIATOR", "BOMBER", "LAWYER",
     "KIDNAPPER", "ENCHANTER", "NATO"}

IndependentRoles == {"JOKER", "SERIAL_KILLER", "NOSTRADAMUS", "FREEMASON"}

MasonRoles == {"MASON_LEADER", "MASON", "ARCHITECT"}

\* _bucket: the Mason group is counted with the city.
Teams == {"city", "mafia", "independent"}

TeamRoles ==
    [city |-> CommonCityRoles \cup ScenarioCityRoles \cup MasonRoles,
     mafia |-> CommonMafiaRoles,
     independent |-> IndependentRoles]

\* fill_citizen_code and fill_mafia_code, the only roles that may be dealt twice.
SimpleRoles == {"CITIZEN", "MAFIA"}

-----------------------------------------------------------------------------
(* Scenarios.                                                              *)

CommonRoles ==
    CommonCityRoles \cup CommonMafiaRoles \cup (IndependentRoles \ {"FREEMASON"})

CapoMafia == {"GODFATHER", "ENCHANTER", "NATO", "LAWYER"}
CapoCity == {"DETECTIVE", "SUSPECT", "ARMORSMITH", "APOTHECARY", "HEIR", "KADKHODA"}

\* Mutant: the second table has one more of everything.
CapoFor_EveryRole(citizens) ==
    [r \in CapoMafia \cup CapoCity \cup {"CITIZEN"} |-> citizens - 1]

\* fixed_compositions: for twelve, and for thirteen with one more citizen.
CapoFor(citizens) ==
    [r \in CapoMafia \cup CapoCity \cup {"CITIZEN"} |->
        IF r = "CITIZEN" THEN citizens ELSE 1]

Flexible(least, most, suggested, special) ==
    [min |-> least, max |-> most, suggested |-> suggested,
     allowed |-> CommonRoles \cup special, fixed |-> [n \in {} |-> CapoFor(2)]]

\* SCENARIO_CATALOG
Scenario ==
    [classic   |-> Flexible(5, 20, {8, 10, 12, 15}, {}),
     commando  |-> Flexible(8, 20, {10, 12, 15}, {"COMMANDO", "WATCHMAN"}),
     gunner    |-> Flexible(8, 20, {10, 12, 15}, {"GUNNER", "WATCHMAN"}),
     mason     |-> Flexible(15, 25, {15, 18, 20}, MasonRoles),
     inspector |-> Flexible(8, 20, {10, 12, 15}, {"WATCHMAN", "REPORTER"}),
     capo      |->
        [min |-> 12, max |-> 13, suggested |-> {12, 13},
         allowed |-> CapoMafia \cup CapoCity \cup {"CITIZEN", "CITY_TRUSTED"},
         fixed |-> [n \in {12, 13} |-> CapoFor(n - 10)]]]

ScenarioCodes == DOMAIN Scenario

IsFixed(s) == DOMAIN Scenario[s].fixed # {}

\* supports_player_count, validate_player_count
Supports(s, n) ==
    /\ n \in Scenario[s].min..Scenario[s].max
    /\ IsFixed(s) => n \in DOMAIN Scenario[s].fixed

\* build_scenario_count_keyboard
CountButtons(s) ==
    IF IsFixed(s) THEN DOMAIN Scenario[s].fixed
    ELSE LET fits == Scenario[s].suggested \cap (Scenario[s].min..Scenario[s].max)
         IN IF fits # {} THEN fits ELSE {Scenario[s].min}

\* How many catalog roles of a team s lets the creator pick, the simple ones
\* apart.
Pickable(s, team) ==
    Cardinality((Scenario[s].allowed \cap TeamRoles[team]) \ SimpleRoles)

-----------------------------------------------------------------------------
(* Team balance.                                                           *)

\* Mutant: the standard proportion is rounded up, breakpoints or not.
MafiaByRatio_Ceiling(n) == (n + 1) \div 2

\* TeamRatioRule: breakpoints up to eighteen players, then a third, rounded
\* (n * (1/3) is never halfway between two integers).
MafiaByRatio(n) ==
    CASE n <= 4 -> 1
      [] n \in 5..7 -> 2
      [] n \in 8..10 -> 3
      [] n \in 11..13 -> 4
      [] n \in 14..16 -> 5
      [] n \in 17..18 -> 6
      [] OTHER -> (n + 1) \div 3

=============================================================================
