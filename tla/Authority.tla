----------------------------- MODULE Authority -----------------------------
(***************************************************************************)
(* The autonomy ladder of engine-authority and the ship gate of            *)
(* engine-core: pure operators over the lines of .drums/record.jsonl.      *)
(*                                                                         *)
(* The ladder is never stored: Ladder::load folds the append-only record,  *)
(* line by line.  Ladder(record) is that fold and FoldLine its step.       *)
(***************************************************************************)
EXTENDS Naturals, SequencesExt

CONSTANTS
    Class,              \* failure classes: service + error_name
    PROMOTION_STREAK    \* consecutive clean ships before promotion is proposed

ASSUME PromotionStreakAssumption == PROMOTION_STREAK \in Nat \ {0}

Rung == {"observe", "shadow", "propose", "act-alone"}

\* The lower of two rungs: the numbers are those of min_rung.
Level(r) == CASE r = "observe" -> 0 [] r = "shadow" -> 1
              [] r = "propose" -> 2 [] OTHER -> 3
MinRung(a, b) == IF Level(a) <= Level(b) THEN a ELSE b

Outcome == {"shipped_clean", "reverted", "ship_failed"}
IsClean(outcome) == outcome = "shipped_clean"

\* earned_at_ms is kept as "none" or "some": no property reads the time.
Standing == [rung: Rung, streak: Nat, total_clean: Nat, total_bad: Nat,
             earned_at: {"none", "some"}]
DefaultStanding == [rung |-> "propose", streak |-> 0, total_clean |-> 0,
                    total_bad |-> 0, earned_at |-> "none"]

OutcomeLines == [kind: {"authority_outcome"}, class: Class, outcome: Outcome]
RungLines == [kind: {"authority_rung"}, class: Class, rung: Rung]
Line == OutcomeLines \cup RungLines
OutcomeLine(c, o) == [kind |-> "authority_outcome", class |-> c, outcome |-> o]
RungLine(c, r) == [kind |-> "authority_rung", class |-> c, rung |-> r]

-----------------------------------------------------------------------------
\* A bad outcome demotes only out of act-alone; every lower rung already
\* stops for a human.
Demotes(standing, outcome) == ~IsClean(outcome) /\ standing.rung = "act-alone"

\* The streak that reaches PROMOTION_STREAK earns the proposal; later clean
\* ships do not re-earn it and a bad outcome takes it away.
CleanFold(standing) ==
    [standing EXCEPT !.streak = @ + 1, !.total_clean = @ + 1,
                     !.earned_at = IF standing.streak + 1 = PROMOTION_STREAK
                                    THEN "some" ELSE @]
DemotedRung(rung) == IF rung = "act-alone" THEN "propose" ELSE rung

\* Mutants of FoldOutcome: the demotion left to the line that announces it; a
\* bad outcome that leaves the promotion earned.
FoldOutcomeKeepsRung(standing, outcome) ==
    IF IsClean(outcome) THEN CleanFold(standing)
    ELSE [standing EXCEPT !.streak = 0, !.total_bad = @ + 1, !.earned_at = "none"]

FoldOutcome(standing, outcome) ==
    IF IsClean(outcome) THEN CleanFold(standing)
    ELSE [standing EXCEPT !.streak = 0, !.total_bad = @ + 1,
                          !.earned_at = "none", !.rung = DemotedRung(@)]

FoldRung(standing, rung) == [standing EXCEPT !.rung = rung]

FoldLine(ladder, line) ==
    [ladder EXCEPT ![line.class] =
        IF line.kind = "authority_outcome" THEN FoldOutcome(@, line.outcome)
                                           ELSE FoldRung(@, line.rung)]

EmptyLadder == [c \in Class |-> DefaultStanding]
Ladder(record) == FoldLeft(FoldLine, EmptyLadder, record)

\* Mutant of PromotionCandidates: one clean ship short.
CandidatesTooEarly(ladder) ==
    {c \in Class : /\ ladder[c].rung = "propose"
                   /\ ladder[c].streak + 1 >= PROMOTION_STREAK}

\* Classes that have earned a promotion PROPOSAL; applying it is a human's act.
PromotionCandidates(ladder) ==
    {c \in Class : /\ ladder[c].rung = "propose"
                   /\ ladder[c].streak >= PROMOTION_STREAK}

-----------------------------------------------------------------------------
\* THE gate: the intake is tried first and no rung or evidence overrides it.
ShipDecision(rung, replayable, actionable) ==
    IF ~replayable THEN "intake_not_replayable"
    ELSE IF rung # "act-alone" THEN "rung_below_act_alone"
    ELSE IF ~actionable THEN "no_eligible_evidence"
    ELSE "may_ship"
=============================================================================
