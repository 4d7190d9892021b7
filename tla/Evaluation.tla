----------------------------- MODULE Evaluation -----------------------------
(***************************************************************************)
(* What may be said about a shipped change: the metrics and their          *)
(* direction, Outcome::measure with its refusals, the guardrails, the      *)
(* verdict of the bet (core/src/evaluation.rs, core/src/bet.rs) and the    *)
(* plan built from flags (cli/src/hypothesize.rs).  Readings are integers. *)
(* The state machine decides one measurement and keeps it for properties.  *)
(***************************************************************************)
EXTENDS Integers, FiniteSets

CONSTANTS
    Reading,    \* values a metric may take
    Entries,    \* sizes a sample may have
    MinEntries, \* window.min_entries
    MinEffect,  \* window.min_effect
    Tolerances  \* tolerances a guardrail may declare

ASSUME EvaluationAssumption ==
    /\ Reading \subseteq Int /\ Entries \subseteq Nat
    /\ MinEntries \in Nat
    /\ MinEffect \in Nat \ {0}
    /\ Tolerances \subseteq Nat

VARIABLES measured, verdict

evaluationVars == <<measured, verdict>>

\* Two metrics stand for the seven: one that should rise, one that should fall.
Metric == {"completion_rate", "error_event_rate"}
Better(m) == IF m = "completion_rate" THEN "higher" ELSE "lower"
Improvement(m, delta) == IF Better(m) = "higher" THEN delta ELSE 0 - delta

Sample == [value: Reading, entries: Entries]
Guardrail == [metric: Metric, tolerance: Tolerances]

\* Bound: a plan has at most two guardrails, on one metric or on two.
GuardrailSets == {gs \in SUBSET Guardrail : Cardinality(gs) <= 2}

\* What was read of the guardrails: a metric outside the domain was not read.
GuardrailReadings == UNION {[M -> [before: Reading, after: Reading]] : M \in SUBSET Metric}

\* The guardrails that moved in their own worse direction past their tolerance;
\* one that nobody read is neither held nor regressed.
Regressed(guardrails, readings) ==
    {g.metric : g \in {h \in guardrails :
        /\ h.metric \in DOMAIN readings
        /\ 0 - Improvement(h.metric, readings[h.metric].after
                                       - readings[h.metric].before) > h.tolerance}}

DirectionOf(metric, before, after) ==
    LET improvement == Improvement(metric, after - before) IN
    IF improvement >= MinEffect THEN "positive"
    ELSE IF improvement <= 0 - MinEffect THEN "negative" ELSE "neutral"

\* Outcome::measure: it refuses before it compares.
Unmeasured(reason) == [state |-> "unmeasured", reason |-> reason]
Measure(metric, guardrails, baseline, observed, readings) ==
    IF baseline.entries < MinEntries THEN Unmeasured("no_baseline")
    ELSE IF observed.entries < MinEntries THEN Unmeasured("not_enough_traffic")
    ELSE [state |-> "measured",
          direction |-> DirectionOf(metric, baseline.value, observed.value),
          regressed |-> Regressed(guardrails, readings)]

\* Verdict::from_outcome, and the confidence its rollout design earns.
SupportIgnoresGuardrails(outcome) ==
    IF outcome.state = "unmeasured" THEN "inconclusive"
    ELSE IF outcome.direction = "positive" THEN "supported"
    ELSE IF outcome.direction = "negative" THEN "not_supported" ELSE "inconclusive"
Support(outcome) ==
    IF outcome.state = "unmeasured" THEN "inconclusive"
    ELSE IF outcome.direction = "positive" /\ outcome.regressed = {} THEN "supported"
    ELSE IF outcome.direction = "negative" \/ outcome.regressed # {} THEN "not_supported"
    ELSE "inconclusive"
ConfidenceOf(design) ==
    CASE design = "full" -> "low" [] design = "holdout" -> "medium"
      [] design = "randomized" -> "high"

\* The provenance of an outcome, and what counts as a verified improvement.
Provenance(outcome) == IF outcome.state = "measured" THEN "verified" ELSE "observed"
IsVerifiedImprovement(outcome) ==
    /\ outcome.state = "measured"
    /\ outcome.direction = "positive" /\ outcome.regressed = {}

\* guardrail_readings: the record reads error_event_rate only, unless a window
\* is empty; another guardrail is unread, but for one on the plan's own metric,
\* which is neither read nor reported.
ReadableGuardrail == {"error_event_rate"}
Unread(metric, guardrails, readings) ==
    {g.metric : g \in {h \in guardrails :
        h.metric \in ReadableGuardrail \/ h.metric # metric}} \ DOMAIN readings

-----------------------------------------------------------------------------
EvaluationInit == measured = {} /\ verdict = {}

\* measure_due_changes for one change: the readings, the outcome, and what no
\* source could read of the plan's guardrails.
MeasureChange(metric, guardrails, baseline, observed, readings) ==
    /\ measured = {}
    /\ DOMAIN readings \subseteq
           {g.metric : g \in guardrails} \cap ReadableGuardrail
    /\ measured' =
          {[metric |-> metric, guardrails |-> guardrails, baseline |-> baseline,
            observed |-> observed, readings |-> readings,
            outcome |-> Measure(metric, guardrails, baseline, observed, readings),
            unread |-> Unread(metric, guardrails, readings)]}
    /\ UNCHANGED verdict

\* evaluate_due for the bet on it; every rollout is a full one today.
EvaluateBet ==
    /\ verdict = {}
    /\ \E m \in measured :
           verdict' = {[support |-> Support(m.outcome),
                        confidence |-> ConfidenceOf("full"),
                        unread_guardrails |-> m.unread]}
    /\ UNCHANGED measured

EvaluationNext ==
    \/ /\ measured = {}
       /\ \E m \in Metric, gs \in GuardrailSets, b \in Sample, o \in Sample :
              \E r \in GuardrailReadings : MeasureChange(m, gs, b, o, r)
    \/ EvaluateBet

-----------------------------------------------------------------------------
\* "There is no path from a thin sample to a verified outcome": an outcome is
\* measured only over enough entries before and after, and it is called an
\* improvement exactly if the number moved the better way by the declared effect
\* while no guardrail that was read got worse by more than it may.
ImprovementIsEarned ==
    \A m \in measured :
        LET enough == m.baseline.entries >= MinEntries /\ m.observed.entries >= MinEntries
            moved == IF m.metric = "completion_rate"
                     THEN m.observed.value - m.baseline.value
                     ELSE m.baseline.value - m.observed.value
            worse(g) == IF g.metric = "completion_rate"
                        THEN m.readings[g.metric].before - m.readings[g.metric].after
                        ELSE m.readings[g.metric].after - m.readings[g.metric].before
        IN /\ Provenance(m.outcome) = "verified" <=> enough
           /\ IsVerifiedImprovement(m.outcome)
                  <=> /\ enough /\ moved >= MinEffect
                      /\ \A g \in m.guardrails :
                             g.metric \in DOMAIN m.readings => worse(g) <= g.tolerance

\* A bet is supported exactly when its change is a verified improvement, an
\* unmeasured change leaves it inconclusive, and the confidence in the cause
\* stays low, whatever the numbers are.
SupportedIsImprovement ==
    \A m \in measured, v \in verdict :
        /\ v.support = "supported" <=> IsVerifiedImprovement(m.outcome)
        /\ Provenance(m.outcome) = "observed" => v.support = "inconclusive"
        /\ v.confidence = "low"

\* "A bet card can never render guardrails held over guardrails nobody
\* watched": a declared guardrail was read, is named as unread, or is on the
\* very metric the plan judges.
NoGuardrailIsSilent ==
    \A m \in measured, v \in verdict : \A g \in m.guardrails :
        \/ g.metric \in DOMAIN m.readings
        \/ g.metric \in v.unread_guardrails
        \/ g.metric = m.metric

\* What may be said of a change, and of the bet that asked for it.
SupportIsEarned == ImprovementIsEarned /\ SupportedIsImprovement /\ NoGuardrailIsSilent
=============================================================================
