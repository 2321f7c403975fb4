------------------------------ MODULE Composition ----------------------------
(***************************************************************************)
(* How a scenario, a player count and the roles the creator ticks become   *)
(* the role pool of a game: the role picker's selection, ScenarioService   *)
(* and ScenarioRoleResolver, the check of configure_roles, and the team    *)
(* counts shown before and after.                                          *)
(*                                                                         *)
(* The special roles of a team are interchangeable here: a selection is    *)
(* how many of each team, which custom roles, and whether the two simple   *)
(* roles are ticked.  A custom role may be deleted from its own menu at    *)
(* any point of the wizard, which keeps the ids it has.  One press is one  *)
(* step here; module Creation interleaves the handlers.                    *)
(***************************************************************************)
EXTENDS Scenarios

CONSTANTS
    MinPlayers,    \* game_service.MIN_PLAYERS
    MaxPlayers,    \* game_service.MAX_PLAYERS
    OwnRoles,      \* the creator's custom roles as the wizard starts
    OwnTeam        \* their teams

ASSUME BoundsAreNat == MinPlayers \in Nat \ {0, 1, 2} /\ MaxPlayers \in Nat
ASSUME OwnRolesHaveTeams == IsFiniteSet(OwnRoles) /\ OwnTeam \in [OwnRoles -> Teams]

VARIABLES
    own,                \* the custom roles that are still active
    buttons,            \* those the role picker's keyboard on screen was drawn with
    scenario, count,    \* the FSM data scenario_code and player_count
    chosen,             \* selected_ids and selected_custom_ids, see Selections
    summary,            \* what the summary screen shows, NoSummary before it
    quantities,         \* role_quantities and custom_role_quantities
    pool                \* the game_roles rows' quantities

vars == <<own, buttons, scenario, count, chosen, summary, quantities, pool>>

-----------------------------------------------------------------------------
(* Selections and quantities.                                              *)

\* The special roles per team, the custom roles, each once, and the simple
\* role of each team, of which the independents have none.
Selections ==
    [special : [Teams -> Nat], customs : SUBSET OwnRoles, simple : [Teams -> Nat]]

NothingChosen ==
    [special |-> [t \in Teams |-> 0], customs |-> {}, simple |-> [t \in Teams |-> 0]]

CustomsOf(q, t) == {r \in q.customs : OwnTeam[r] = t}

OfTeam(q, t) == q.special[t] + Cardinality(CustomsOf(q, t)) + q.simple[t]

HeadCount(q) == OfTeam(q, "city") + OfTeam(q, "mafia") + OfTeam(q, "independent")

ByTeam(q) == [t \in Teams |-> OfTeam(q, t)]

-----------------------------------------------------------------------------
(* ScenarioRoleResolver.                                                   *)

\* The roles of rs that a composition gives, one element per copy
Copies(given, rs) == UNION {{r} \X (1..given[r]) : r \in DOMAIN given \cap rs}

\* The sum of their counts
HowMany(given, rs) == Cardinality(Copies(given, rs))

TargetMafia(s, n) ==
    IF IsFixed(s) THEN HowMany(Scenario[s].fixed[n], TeamRoles.mafia)
    ELSE MafiaByRatio(n)

\* What is left for the city once mafia and independents are seated.
CityTarget(n, mafia, q) == n - mafia - OfTeam(q, "independent")


\* The refusals of _resolve_flexible.
Fits(n, mafia, q) ==
    /\ HeadCount(q) <= n
    /\ OfTeam(q, "independent") <= mafia
    /\ OfTeam(q, "mafia") <= mafia
    /\ CityTarget(n, mafia, q) >= 0
    /\ OfTeam(q, "city") <= CityTarget(n, mafia, q)

\* Mutant: a ticked simple role is overwritten by the fill.
Filled_Overwrites(n, mafia, q) ==
    [q EXCEPT !.simple["mafia"] = mafia - OfTeam(q, "mafia"),
              !.simple["city"] = CityTarget(n, mafia, q) - OfTeam(q, "city")]

\* The remaining seats go to simple mafia and simple citizens.
Filled(n, mafia, q) ==
    [q EXCEPT !.simple["mafia"] = @ + (mafia - OfTeam(q, "mafia")),
              !.simple["city"] = @ + (CityTarget(n, mafia, q) - OfTeam(q, "city"))]

\* Mutant: the ticked roles are counted, not the filled table.
Balance_Ticked(n, mafia, q) == ByTeam(q)

Balance(n, mafia, q) ==
    [city |-> CityTarget(n, mafia, q), mafia |-> mafia,
     independent |-> OfTeam(q, "independent")]

\* _resolve_fixed: the prescribed composition, whatever is ticked.
Prescribed(s, n) ==
    LET given == Scenario[s].fixed[n]
    IN [special |-> [t \in Teams |-> HowMany(given, TeamRoles[t] \ SimpleRoles)],
        customs |-> {},
        simple |-> [t \in Teams |-> HowMany(given, TeamRoles[t] \cap SimpleRoles)]]

-----------------------------------------------------------------------------
(* The wizard's steps.                                                     *)

NoSummary == [t \in Teams |-> 0]
NoQuantities == NothingChosen

Init ==
    /\ own = OwnRoles /\ buttons = {}
    /\ scenario \in ScenarioCodes /\ count = 0
    /\ chosen = NothingChosen /\ quantities = NoQuantities /\ pool = NoQuantities
    /\ summary = NoSummary

\* _begin_after_count, with a button's or a typed count; a fixed scenario goes
\* on to its summary.
ChooseCount(n) ==
    /\ count = 0
    /\ n \in MinPlayers..MaxPlayers /\ Supports(scenario, n)
    /\ count' = n
    /\ IF IsFixed(scenario)
       THEN /\ quantities' = Prescribed(scenario, n)
            /\ summary' = ByTeam(Prescribed(scenario, n))
            /\ UNCHANGED buttons
       ELSE buttons' = own /\ UNCHANGED <<quantities, summary>>
    /\ UNCHANGED <<own, scenario, chosen, pool>>

Picking == count # 0 /\ ~IsFixed(scenario) /\ summary = NoSummary

\* How many catalog roles can be ticked; a team's simple role, if the scenario
\* has it, is one button.
Pickables(part, t) ==
    CASE part = "special" -> Pickable(scenario, t)
      [] part = "simple" ->
            Cardinality(Scenario[scenario].allowed \cap TeamRoles[t] \cap SimpleRoles)

\* on_role_toggle draws the keyboard anew, with the custom roles there are now.
Toggle(part, t) ==
    /\ Picking
    /\ \/ /\ HeadCount(chosen) < count
          /\ chosen[part][t] < Pickables(part, t)
          /\ chosen' = [chosen EXCEPT ![part][t] = @ + 1]
       \/ /\ chosen[part][t] > 0
          /\ chosen' = [chosen EXCEPT ![part][t] = @ - 1]
    /\ buttons' = own
    /\ UNCHANGED <<own, scenario, count, summary, quantities, pool>>

\* A custom role's button; nothing asks whether the role still exists.
ToggleCustom(r) ==
    /\ Picking /\ r \in buttons
    /\ \/ /\ r \notin chosen.customs
          /\ HeadCount(chosen) < count
          /\ chosen' = [chosen EXCEPT !.customs = @ \cup {r}]
       \/ /\ r \in chosen.customs
          /\ chosen' = [chosen EXCEPT !.customs = @ \ {r}]
    /\ buttons' = own
    /\ UNCHANGED <<own, scenario, count, summary, quantities, pool>>

\* on_custom_role_delete_confirm, from a message of the custom roles' menu: the
\* FSM data keep the id, and the keyboard its button.
DeleteOwn(r) ==
    /\ r \in own /\ pool = NoQuantities
    /\ own' = own \ {r}
    /\ UNCHANGED <<buttons, scenario, count, chosen, summary, quantities, pool>>

\* on_role_confirm resolves the ticked ids it still finds; a deleted role's
\* seat goes to a simple role without a word.
StillThere(q) == [q EXCEPT !.customs = @ \cap own]

\* ... unless the resolver refuses.
Confirm ==
    /\ Picking
    /\ LET mafia == TargetMafia(scenario, count)
           found == StillThere(chosen)
       IN /\ Fits(count, mafia, found)
          /\ quantities' = Filled(count, mafia, found)
          /\ summary' = Balance(count, mafia, found)
    /\ buttons' = {}
    /\ UNCHANGED <<own, scenario, count, chosen, pool>>

\* on_summary_back.  The quantities stay in the FSM data, where nothing reads
\* them before they are written again: they are forgotten here.
Back ==
    /\ summary # NoSummary /\ pool = NoQuantities
    /\ IF IsFixed(scenario)
       THEN scenario' \in ScenarioCodes /\ count' = 0 /\ UNCHANGED buttons
       ELSE buttons' = own /\ UNCHANGED <<scenario, count>>
    /\ summary' = NoSummary /\ quantities' = NoQuantities
    /\ UNCHANGED <<own, chosen, pool>>

\* Mutant: configure_roles takes a custom role whether it is active or not.
Accepted_Deleted(q) == HeadCount(q) = count

\* configure_roles refuses a pool that does not fill the table, or that has a
\* custom role the creator no longer has.
Accepted(q) == HeadCount(q) = count /\ q.customs \subseteq own

\* on_summary_finalize
Finalize ==
    /\ summary # NoSummary /\ pool = NoQuantities
    /\ Accepted(quantities)
    /\ pool' = quantities
    /\ UNCHANGED <<own, buttons, scenario, count, chosen, summary, quantities>>

Next ==
    \/ \E n \in MinPlayers..MaxPlayers : ChooseCount(n)
    \/ \E part \in {"special", "simple"}, t \in Teams : Toggle(part, t)
    \/ \E r \in OwnRoles : ToggleCustom(r) \/ DeleteOwn(r)
    \/ Confirm \/ Back \/ Finalize

Spec == Init /\ [][Next]_vars

-----------------------------------------------------------------------------
(* Properties.                                                             *)

\* No count is ever negative, in the summary, in the FSM data or in a
\* game_roles row, however the ticks and the target add up.
TypeOK ==
    /\ own \subseteq OwnRoles /\ buttons \subseteq OwnRoles
    /\ scenario \in ScenarioCodes
    /\ count \in {0} \cup (MinPlayers..MaxPlayers)
    /\ chosen \in Selections /\ quantities \in Selections /\ pool \in Selections
    /\ summary \in [Teams -> Nat]

\* What the summary promises is what configure_roles accepts: exactly one role
\* per seat.  So a creator who has come to a summary can finalize it, unless a
\* custom role on it has been deleted since.
PoolFillsTable == summary # NoSummary => HeadCount(quantities) = count

\* The team counts on the summary, computed from targets, are those that
\* get_game_composition sums over the game_roles rows when the game starts.
SummaryIsThePool == summary # NoSummary => summary = ByTeam(quantities)

\* Every ticked role the creator still has is dealt, once, and only simple roles
\* are added, whichever custom roles are deleted while the wizard is open: the
\* summary has no role that was not ticked and misses none that still exists,
\* and the pool that is opened has those and no deleted one.  A pick deleted
\* before the confirmation is replaced by a simple role (create_game.py:430).
PicksAreDealt ==
    (summary # NoSummary /\ ~IsFixed(scenario)) =>
        /\ quantities.special = chosen.special
        /\ quantities.customs \subseteq chosen.customs
        /\ chosen.customs \cap own \subseteq quantities.customs
        /\ \A t \in Teams : quantities.simple[t] >= chosen.simple[t]
        /\ pool # NoQuantities =>
              pool.customs = chosen.customs \cap own /\ pool.special = chosen.special

\* There is a city at every table, and the mafia are fewer than all the others
\* together; so where no independent is ticked the city outnumber the mafia.
\* The catalog's texts promise the city a majority at every table
\* (catalog.py:72, composition_service.py:73), which ticked independents take
\* from it: five players may be two mafia, two independents and one citizen.
CityLeadsWithoutIndependents ==
    summary # NoSummary =>
        /\ summary["city"] > 0
        /\ summary["city"] + summary["independent"] > summary["mafia"]

\* A prescribed composition has a role for every seat, and more city than mafia.
PrescriptionsAreSound ==
    \A s \in ScenarioCodes, n \in MinPlayers..MaxPlayers :
        (IsFixed(s) /\ Supports(s, n)) =>
            /\ Prescribed(s, n) \in Selections
            /\ HeadCount(Prescribed(s, n)) = n
            /\ OfTeam(Prescribed(s, n), "city") > OfTeam(Prescribed(s, n), "mafia")

\* Every count the scenario supports, the buttons' counts among them, leads to
\* a summary: as prescribed, or with nothing ticked.
EveryCountResolves ==
    /\ \A n \in CountButtons(scenario) : Supports(scenario, n)
    /\ PrescriptionsAreSound
    /\ \A n \in MinPlayers..MaxPlayers :
          (Supports(scenario, n) /\ ~IsFixed(scenario)) =>
              Fits(n, TargetMafia(scenario, n), NothingChosen)

=============================================================================
