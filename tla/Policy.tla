------------------------------- MODULE Policy -------------------------------
(***************************************************************************)
(* The DGT sensor policy (src/core/dgt.c) and how a broker applies it to   *)
(* each window (the body of the main loop of src/broker/broker_main.c):    *)
(* freshness of sensors gives eligibility of actions, the selected action  *)
(* gives the sensors the estimator may use.                                *)
(*                                                                         *)
(* A cost is the weighted, normalised sum of its four components; the      *)
(* hysteresis margin is in percent, so that every comparison is one of     *)
(* integers.  The estimator is reduced to whether it has been initialised, *)
(* whether it takes an update and whether its covariance is large.         *)
(* Table holds the tables the selection is tried with: the library takes   *)
(* any, a broker always uses the one of init_default_dgt_table.            *)
(***************************************************************************)
EXTENDS Integers, FiniteSets, FiniteSetsExt

CONSTANTS
    Sensor,        \* the sensors a mask has a bit for or an observation may come from
    Configured,    \* --sensor-ids, at most MAX_TRACKED_SENSORS
    MaxTracked,    \* MAX_TRACKED_SENSORS
    DgtEnabled,    \* --dgt-enabled
    ActionCount,   \* actions are indexed from 0
    Mask,          \* sensor_subset_mask of each action
    ActionId,      \* action_id of each action
    Scenario,      \* scenarios
    Table,         \* policy tables: what is wrong with each, its costs, and the
                   \* actions whose loss overflows to a non-finite one
    Margin,        \* --dgt-hysteresis-margin, in percent
    FreshWindow    \* --sensor-fresh-window-ms, in ticks

Action == 0..(ActionCount - 1)

\* What obicall_dgt_validate_table looks for; any one makes a table invalid.
TableIssue == {"STRUCT_SIZE", "SCHEMA_VERSION", "ACTION_COUNT", "SCENARIO_COUNT",
               "WEIGHT", "SCALE", "COST"}
Valid(t) == t.issues = {}

ASSUME PolicyConstants ==
    /\ ActionCount \in Nat \ {0}
    /\ Mask \in [Action -> SUBSET Sensor]
    /\ ActionId \in [Action -> Nat]
    /\ \A a, b \in Action : ActionId[a] = ActionId[b] => a = b
    /\ Scenario # {} /\ IsFiniteSet(Scenario)
    /\ MaxTracked \in Nat
    /\ Configured \subseteq Sensor
    /\ DgtEnabled \in BOOLEAN
    /\ \A t \in Table : /\ t.issues \subseteq TableIssue
                        /\ t.cost \in [Action -> [Scenario -> Nat]]
                        /\ t.infinite \subseteq Action
    /\ Margin \in 0..100
    /\ FreshWindow \in Nat

\* init_default_dgt_table: position_only, inertial_only and balanced, as the
\* sensors of their masks and as weighted costs in thousandths.
DefaultMask == [a \in 0..2 |-> <<{0}, {1}, {0, 1}>>[a + 1]]
DefaultCost == [a \in 0..2 |->
    <<[nominal |-> 190, position_dropout |-> 660, inertial_bias |-> 190, processing_delay |-> 340],
      [nominal |-> 265, position_dropout |-> 265, inertial_bias |-> 540, processing_delay |-> 265],
      [nominal |-> 135, position_dropout |-> 340, inertial_bias |-> 280, processing_delay |-> 270]>>[a + 1]]

\* baseline_action_index, as the broker passes it.
Baseline == 0
NoAction == -1

VARIABLES
    table,   \* g_ctx.dgt
    age,     \* sensors: ticks since each tracked one was touched; FreshWindow + 1 is stale
    held,    \* dgt_hyst: the action last selected, or NoAction
    ready,   \* kf_ready
    elig,    \* the actions found eligible, and of finite loss, for the last window
    out      \* the result of the last window

policyVars == <<table, age, held, ready, elig, out>>

Status == {"VALID", "DEGRADED", "INVALID"}
Outcome == [ok : BOOLEAN, action : Action, status : Status, fused : BOOLEAN]

PolicyTypeOK ==
    /\ table \in Table
    /\ DOMAIN age \subseteq Sensor
    /\ age \in [DOMAIN age -> 0..(FreshWindow + 1)]
    /\ held \in Action \cup {NoAction}
    /\ ready \in BOOLEAN
    /\ elig \subseteq Action
    /\ out \in Outcome

PolicyInit ==
    /\ table \in Table
    /\ age = << >>
    /\ held = NoAction
    /\ ready = FALSE
    /\ elig = {}
    /\ out = [ok |-> FALSE, action |-> 0, status |-> "INVALID", fused |-> FALSE]
-----------------------------------------------------------------------------
(***************************************************************************)
(* obicall_dgt_select_action.                                              *)
(***************************************************************************)

\* obicall_dgt_action_worst_case_loss: the loss, which is an error where some
\* scenario's is not finite; such an action counts for nothing.
WorstCaseLoss(a) ==
    Max({table.cost[a][s] : s \in Scenario})
Scored(eligible) == eligible \ table.infinite

\* The loop over actions: the candidate after the actions below n.
Better(a, best) ==
    \/ best = NoAction
    \/ WorstCaseLoss(a) < WorstCaseLoss(best)
    \/ WorstCaseLoss(a) = WorstCaseLoss(best) /\ ActionId[a] < ActionId[best]
Best(eligible) ==
    LET scan[n \in 0..ActionCount] ==
            IF n = 0 THEN NoAction
            ELSE LET best == scan[n - 1] IN
                 IF n - 1 \in eligible /\ Better(n - 1, best) THEN n - 1 ELSE best
    IN  scan[ActionCount]

\* Mutant of Holds: an action that became ineligible is held.
Holds_Ineligible(previous, best, eligible) ==
    /\ previous # NoAction
    /\ ~(100 * WorstCaseLoss(best) < WorstCaseLoss(previous) * (100 - Margin))

\* Hysteresis: the previous action, still eligible, stays unless the best
\* one beats its loss by more than the margin.
Holds(previous, best, eligible) ==
    /\ previous \in eligible
    /\ ~(100 * WorstCaseLoss(best) < WorstCaseLoss(previous) * (100 - Margin))

\* The action selected among those scored; select_baseline for an invalid table
\* or if there are none; NoAction is OBICALL_ERR_DGT_NO_ELIGIBLE_ACTION.
SelectAction(scored, previous) ==
    IF Valid(table) /\ scored # {}
    THEN IF Holds(previous, Best(scored), scored) THEN previous ELSE Best(scored)
    ELSE IF Baseline \in scored THEN Baseline ELSE NoAction

\* eligible_count of the decision: 1 for the baseline, 0 (memset) for none.
EligibleCount(scored) ==
    IF Valid(table) THEN Cardinality(scored)
    ELSE IF Baseline \in scored THEN 1 ELSE 0
-----------------------------------------------------------------------------
(***************************************************************************)
(* The broker's main loop.                                                 *)
(***************************************************************************)

\* touch_sensor_locked: a sensor not yet tracked needs a free entry.
Touched(s) ==
    IF s \in DOMAIN age \/ Cardinality(DOMAIN age) < MaxTracked
    THEN [t \in DOMAIN age \cup {s} |-> IF t = s THEN 0 ELSE age[t]]
    ELSE age

\* sensor_observable_locked and the eligibility loop.
Observable(ages) == {s \in DOMAIN ages : ages[s] <= FreshWindow}
Eligible(ages) ==
    {a \in Action : Mask[a] # {} /\ Mask[a] \cap Configured \subseteq Observable(ages)}

\* Whether the policy is asked at all.
Asked == DgtEnabled /\ Configured # {}

\* The action a result names: without a decision the 0 of the memset.
Reported(selected) == IF selected = NoAction THEN 0 ELSE selected

\* Mutant of Process: the hysteresis state is not filled in when the held
\* action is selected again.
Process_ForgetsHold(s, admitted, position, taken, wide) ==
    LET ages == IF admitted THEN Touched(s) ELSE age
        scored == Scored(Eligible(ages))
        selected == IF Asked THEN SelectAction(scored, held) ELSE NoAction
        mask == Configured \cap (IF selected = NoAction THEN Sensor ELSE Mask[selected])
        fused == admitted /\ position /\ s \in mask /\ (~ready \/ taken)
        degraded == wide \/ (Asked /\ EligibleCount(scored) \in 1..(ActionCount - 1))
    IN  /\ age' = ages
        /\ elig' = scored
        /\ held' = IF selected = held THEN NoAction ELSE IF selected = NoAction THEN held ELSE selected
        /\ ready' = (ready \/ fused)
        /\ out' = [ok |-> selected # NoAction,
                   action |-> Reported(selected),
                   status |-> IF ~ready' THEN "INVALID"
                              ELSE IF degraded THEN "DEGRADED" ELSE "VALID",
                   fused |-> fused]
        /\ UNCHANGED table

\* One window of the main loop: an observation of sensor s, admitted or not,
\* of position shape or not; taken says whether the estimator accepts an
\* update, wide whether its covariance is then above the threshold.
Process(s, admitted, position, taken, wide) ==
    LET ages == IF admitted THEN Touched(s) ELSE age
        scored == Scored(Eligible(ages))
        selected == IF Asked THEN SelectAction(scored, held) ELSE NoAction
        mask == Configured \cap (IF selected = NoAction THEN Sensor ELSE Mask[selected])
        fused == admitted /\ position /\ s \in mask /\ (~ready \/ taken)
        degraded == wide \/ (Asked /\ EligibleCount(scored) \in 1..(ActionCount - 1))
    IN  /\ age' = ages
        /\ elig' = scored
        /\ held' = IF selected = NoAction THEN held ELSE selected
        /\ ready' = (ready \/ fused)
        /\ out' = [ok |-> selected # NoAction,
                   action |-> Reported(selected),
                   status |-> IF ~ready' THEN "INVALID"
                              ELSE IF degraded THEN "DEGRADED" ELSE "VALID",
                   fused |-> fused]
        /\ UNCHANGED table

Tick ==
    /\ age' = [s \in DOMAIN age |-> IF age[s] <= FreshWindow THEN age[s] + 1 ELSE age[s]]
    /\ UNCHANGED <<table, held, ready, elig, out>>

PolicyNext ==
    \/ \E s \in Sensor, admitted, position, taken, wide \in BOOLEAN :
          Process(s, admitted, position, taken, wide)
    \/ Tick

PolicySpec == PolicyInit /\ [][PolicyNext]_policyVars
-----------------------------------------------------------------------------
(***************************************************************************)
(* Properties.                                                             *)
(***************************************************************************)

\* The minimax reference: an eligible action of least worst-case loss, the
\* one with the lowest id among equals.
Minimax(a) ==
    /\ a \in elig
    /\ \A b \in elig : \/ WorstCaseLoss(a) < WorstCaseLoss(b)
                       \/ WorstCaseLoss(a) = WorstCaseLoss(b) /\ ActionId[a] <= ActionId[b]

\* No eligible action beats this one by more than the margin.
WithinMargin(a) ==
    \A b \in elig : 100 * WorstCaseLoss(b) >= WorstCaseLoss(a) * (100 - Margin)

\* With a valid table every decision is the minimax action, tie-break
\* included, or the action held from before, still eligible and within the
\* margin of the minimax loss.
DecisionIsNearMinimax ==
    [][(Valid(table') /\ out'.ok) =>
          /\ out'.action \in elig'
          /\ \/ Minimax(out.action)'
             \/ out'.action = held /\ WithinMargin(out.action)']_policyVars

\* No flapping: with the actions that compete unchanged, or some of the others
\* gone, the decision stays what it was for the window before, however the
\* losses tie and whether it was minimax then or held.
NoFlapping ==
    [][(out.ok /\ elig' \subseteq elig /\ out.action \in elig')
         => out'.ok /\ out'.action = out.action]_policyVars

\* docs/DGT.md: with no eligible action "the caller must report invalid output".
NoActionIsInvalid == (Asked /\ ~out.ok) => out.status = "INVALID"
=============================================================================
