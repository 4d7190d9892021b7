----------------------------- MODULE BetLedger -----------------------------
(***************************************************************************)
(* Signal, decision, change, outcome, learning: the lines of the record a  *)
(* product bet leaves, written by the operator's commands (drums           *)
(* hypothesize, bet, hypothesis, change, draft) and by the engine's        *)
(* observation tick.  A command reads the record once, builds its lines    *)
(* and appends them one by one; so does each phase of the tick.  Either    *)
(* may die, or fail to append, between two lines.                          *)
(***************************************************************************)
EXTENDS Naturals, SequencesExt, FiniteSetsExt

CONSTANTS
    Obs,            \* observations the tick may find, each once
    Plans,          \* bound: the plans tried, of those in Plan
    MaxHypotheses,  \* bound: hypotheses (ulids are never used twice)
    MaxChanges,     \* bound: changes
    DAYS,           \* plan.window.days
    HORIZONS,       \* REVISIT_HORIZONS_DAYS
    LastShip,       \* bound: the last day a change is shipped
    LastDay,        \* bound: the last day
    MaxMishaps      \* bound: learnings and deaths

ASSUME BetAssumption ==
    /\ MaxHypotheses \in Nat /\ MaxChanges \in Nat /\ MaxMishaps \in Nat
    /\ DAYS \in Nat /\ HORIZONS \subseteq Nat
    /\ IsFiniteSet(HORIZONS) /\ IsFiniteSet(Obs)
    /\ LastShip \in Nat /\ LastDay \in Nat

VARIABLES
    ledger,     \* the lines, in file order
    today,      \* the clock
    typed,      \* lines the operator's command still has to append
    engine,     \* phase of the tick, its lines to append, what it read and when
    attempted,  \* draft_attempted: observations already offered to the agent
    used,       \* ulids given out: hypotheses (and the bets on them), changes; learnings
    deaths      \* history: deaths so far

betVars == <<ledger, today, typed, engine, attempted, used, deaths>>

\* The metric of a plan, by who can read it: the record alone, a behaviour
\* source that may fail, nobody; or no plan.
Plan == {"record", "behavior", "unreadable", "none"}
Judged == {"positive", "neutral", "negative", "regressed", "unmeasured"}
Phases == <<"idle", "observe", "measure", "evaluate", "revisit", "draft">>

Hypotheses == 1 .. MaxHypotheses
Of(kind) == {i \in DOMAIN ledger : ledger[i].kind = kind}
Rows(kind, id) == {i \in Of(kind) : ledger[i].id = id}
Known(n) == {ledger[i].id : i \in {j \in Of("observation") : j <= n}}

\* Hypothesis::current_status: the last status line, or else the row's own.
HypothesisStatus(h) ==
    LET S == Rows("hypothesis_status", h) IN
    IF S = {} THEN "open" ELSE ledger[Max(S)].status

\* ProductBet::current_status: the last line wins, but a learning never
\* replaces a verdict or a decline.
FoldBet(status, line) ==
    IF status \in {"evaluated", "declined"} /\ line.status = "learned"
    THEN status ELSE line.status
Word(b, status, line) ==
    IF line.kind = "bet_status" /\ line.id = b THEN FoldBet(status, line) ELSE status
Folded(b, lines) ==
    LET upTo[n \in 0 .. Len(lines)] ==
            IF n = 0 THEN "proposed" ELSE Word(b, upTo[n - 1], lines[n])
    IN upTo[Len(lines)]
BetStatus(b) == IF Rows("bet", b) = {} THEN "none" ELSE Folded(b, ledger)

Bets == {ledger[i].id : i \in Of("bet")}
PlanOf(h) == ledger[Min(Rows("hypothesis", h))].plan
ChangesOf(h) == {i \in Of("change") : ledger[i].hypothesis = h}
OutcomesOf(c) == Rows("outcome", c)
RevisitsOf(c, day) == {i \in Rows("revisit", c) : ledger[i].horizon = day}

StatusLine(kind, id, status) == [kind |-> kind, id |-> id, status |-> status]

\* Hypothesis::record_lines: the row, then one line per cited observation.
HypothesisLines(h, cites, plan) ==
    <<[kind |-> "hypothesis", id |-> h, plan |-> plan]>>
    \o SetToSeq({[kind |-> "observation_status", id |-> o, status |-> h] : o \in cites})
BetLines(h, cites, plan) ==
    HypothesisLines(h, cites, plan) \o <<[kind |-> "bet", id |-> h]>>

\* change_cmd::decide: only an open hypothesis is decided.
Decide(h, status) ==
    IF HypothesisStatus(h) = "open"
    THEN <<StatusLine("hypothesis_status", h, status)>> ELSE << >>

CanConfirmOpen(b) == BetStatus(b) = "proposed" /\ HypothesisStatus(b) = "open"
CanConfirm(b) ==
    BetStatus(b) = "proposed" /\ HypothesisStatus(b) \in {"open", "accepted"}
CanDecline(b) ==
    BetStatus(b) = "proposed" /\ HypothesisStatus(b) \in {"open", "rejected"}

-----------------------------------------------------------------------------
IdleEngine == [at |-> "idle", todo |-> << >>, read |-> 0, now |-> 0, fresh |-> {}]

BetInit ==
    /\ ledger = << >>
    /\ today = 0
    /\ typed = << >>
    /\ engine = IdleEngine
    /\ attempted = {}
    /\ used = [hypotheses |-> 0, changes |-> 0, learnings |-> 0]
    /\ deaths = 0

\* The operator types one command at a time.
Type(lines) ==
    /\ typed = << >> /\ lines # << >>
    /\ typed' = lines
    /\ UNCHANGED <<ledger, today, engine, attempted, deaths>>

Cites == (SUBSET Known(Len(ledger))) \ {{}}
Mishaps == deaths + used.learnings

NewHypothesis == used.hypotheses + 1
TakeHypothesis ==
    /\ used.hypotheses < MaxHypotheses
    /\ used' = [used EXCEPT !.hypotheses = @ + 1]

\* drums hypothesize: it cites observations the record holds; the plan comes
\* whole or not at all.
Hypothesize ==
    \E cites \in Cites, plan \in Plans :
        TakeHypothesis /\ Type(HypothesisLines(NewHypothesis, cites, plan))

\* drums bet create: citations and a plan, or nothing is written.
CreateBet ==
    \E cites \in Cites, plan \in Plans \ {"none"} :
        TakeHypothesis /\ Type(BetLines(NewHypothesis, cites, plan))

\* drums draft: an agent's answer passes the same gate, or there is no bet.
DraftBet ==
    \E cites \in Cites, plan \in Plans \ {"none"} :
        TakeHypothesis /\ Type(BetLines(NewHypothesis, cites, plan))

DecideHypothesis ==
    \E i \in Of("hypothesis"), status \in {"accepted", "rejected"} :
        Type(Decide(ledger[i].id, status)) /\ UNCHANGED used

\* drums bet confirm and decline: the hypothesis is settled with the bet.
ConfirmBet ==
    \E b \in Bets :
        /\ CanConfirm(b)
        /\ Type(Decide(b, "accepted") \o <<StatusLine("bet_status", b, "confirmed")>>)
        /\ UNCHANGED used

DeclineBet ==
    \E b \in Bets :
        /\ CanDecline(b)
        /\ Type(Decide(b, "rejected") \o <<StatusLine("bet_status", b, "declined")>>)
        /\ UNCHANGED used

Learn ==
    \E b \in Bets :
        /\ Mishaps < MaxMishaps
        /\ BetStatus(b) \in {"evaluated", "declined", "learned"}
        /\ used' = [used EXCEPT !.learnings = @ + 1]
        /\ Type(<<StatusLine("bet_status", b, "learned")>>)

\* drums change: an accepted hypothesis with a plan somebody can read.  The
\* clock is read here; a baseline from the source may take its time.
ShipChange(h) ==
    /\ PlanOf(h) \in {"record", "behavior"}
    /\ today <= LastShip /\ used.changes < MaxChanges
    /\ used' = [used EXCEPT !.changes = @ + 1]
    /\ Type(<<[kind |-> "change", id |-> used.changes + 1, hypothesis |-> h,
               plan |-> PlanOf(h), at |-> today]>>)
MakeChange ==
    \E i \in Of("hypothesis") :
        /\ HypothesisStatus(ledger[i].id) = "accepted"
        /\ ShipChange(ledger[i].id)

CommandAppends ==
    /\ typed # << >>
    /\ ledger' = Append(ledger, Head(typed))
    /\ typed' = Tail(typed)
    /\ UNCHANGED <<today, engine, attempted, used, deaths>>

CommandDies ==
    /\ typed # << >> /\ Mishaps < MaxMishaps
    /\ typed' = << >> /\ deaths' = deaths + 1
    /\ UNCHANGED <<ledger, today, engine, attempted, used>>

DayPasses ==
    /\ today < LastDay
    /\ today' = today + 1
    /\ UNCHANGED <<ledger, typed, engine, attempted, used, deaths>>

-----------------------------------------------------------------------------
\* A set of numbers as a sequence, the smaller first.
InOrder(S) ==
    [n \in 1 .. Cardinality(S) |-> CHOOSE i \in S : Cardinality({j \in S : j <= i}) = n]

\* The observation tick.  A phase begins when the one before has appended its
\* lines, and computes its own from the record as it then reads it.
Phase(from, to, lines) ==
    /\ engine.at = from /\ engine.todo = << >>
    /\ engine' = [engine EXCEPT !.at = to, !.todo = lines]
    /\ UNCHANGED <<ledger, today, typed, deaths>>

\* The tick's first read: the clock, and observations not in the record yet.
Observe ==
    \E found \in SUBSET (Obs \ Known(Len(ledger))) :
        /\ engine.at = "idle"
        /\ engine' = [at |-> "observe", read |-> Len(ledger), now |-> today,
                      fresh |-> found,
                      todo |-> SetToSeq({[kind |-> "observation", id |-> o] : o \in found})]
        /\ UNCHANGED <<ledger, today, typed, attempted, used, deaths>>

\* measure_due_changes, over the record of the tick's first read: the window
\* has fully elapsed and no outcome line is there yet.
Due(i) == engine.now >= ledger[i].at + DAYS
Unsettled(i) == \A j \in OutcomesOf(ledger[i].id) : j > engine.read
ToMeasure == {i \in Of("change") : i <= engine.read /\ Due(i) /\ Unsettled(i)}

\* A reading from the record always succeeds; one from a source may not.
Readings(S) ==
    {f \in [S -> Judged \cup {"skipped"}] :
        \A i \in S : f[i] = "skipped" => ledger[i].plan = "behavior"}
OutcomeLine(i, reading) ==
    [kind |-> "outcome", id |-> ledger[i].id, outcome |-> reading, at |-> engine.now]
LinesOf(S, f, Line(_, _)) ==
    LET order == InOrder({i \in S : f[i] # "skipped"})
    IN [n \in DOMAIN order |-> Line(order[n], f[order[n]])]

MeasureDue ==
    \E f \in Readings(ToMeasure) :
        /\ Phase("observe", "measure", LinesOf(ToMeasure, f, OutcomeLine))
        /\ UNCHANGED <<attempted, used>>

\* evaluate_due: a confirmed bet whose first change has its first outcome.
FirstOutcome(b) ==
    IF ChangesOf(b) = {} THEN {}
    ELSE LET S == OutcomesOf(ledger[Min(ChangesOf(b))].id)
         IN IF S = {} THEN {} ELSE {ledger[Min(S)].outcome}
SupportOf(outcome) ==
    CASE outcome = "positive" -> "supported"
      [] outcome \in {"negative", "regressed"} -> "not_supported"
      [] OTHER -> "inconclusive"
DueBets == {b \in Bets : BetStatus(b) = "confirmed" /\ FirstOutcome(b) # {}}
EvaluatedLine(b) ==
    [kind |-> "bet_status", id |-> b, status |-> "evaluated",
     support |-> {SupportOf(o) : o \in FirstOutcome(b)}]

EvaluateDue ==
    LET order == InOrder(DueBets) IN
    /\ Phase("measure", "evaluate", [n \in DOMAIN order |-> EvaluatedLine(order[n])])
    /\ UNCHANGED <<attempted, used>>

\* revisit_due_changes: past the plan's own window, once the horizon has fully
\* elapsed, for a change with an outcome, once per horizon.
RevisitsForget(i) == {}
RevisitsRecorded(i) == {day \in HORIZONS : RevisitsOf(ledger[i].id, day) # {}}
ToRevisit ==
    {p \in Of("change") \X HORIZONS :
        /\ OutcomesOf(ledger[p[1]].id) # {}
        /\ p[2] > DAYS
        /\ engine.now >= ledger[p[1]].at + p[2]
        /\ p[2] \notin RevisitsRecorded(p[1])}
RevisitLine(p) ==
    [kind |-> "revisit", id |-> ledger[p[1]].id, horizon |-> p[2], at |-> engine.now]

RevisitDue ==
    \E skipped \in SUBSET {p \in ToRevisit : ledger[p[1]].plan = "behavior"} :
        /\ Phase("evaluate", "revisit", SetToSeq({RevisitLine(p) : p \in ToRevisit \ skipped}))
        /\ UNCHANGED <<attempted, used>>

\* should_draft and run_proactive_draft: fresh observations are offered once; no
\* draft while a bet awaits confirmation; the agent's answer passes the same
\* gate as an operator's bet, or there is none.
ShouldDraft == \A b \in Bets : BetStatus(b) # "proposed"
Drafts == engine.fresh \ attempted # {} /\ ShouldDraft

Draft ==
    \/ /\ Drafts
       /\ \E cites \in Cites :
              /\ TakeHypothesis
              /\ Phase("revisit", "draft", BetLines(NewHypothesis, cites, "record"))
       /\ attempted' = attempted \cup engine.fresh
    \/ /\ Phase("revisit", "draft", << >>)
       /\ attempted' = attempted \cup engine.fresh
       /\ UNCHANGED used

TickEnds ==
    /\ engine.at = "draft" /\ engine.todo = << >>
    /\ engine' = IdleEngine
    /\ UNCHANGED <<ledger, today, typed, attempted, used, deaths>>

EngineAppends ==
    /\ engine.todo # << >>
    /\ ledger' = Append(ledger, Head(engine.todo))
    /\ engine' = [engine EXCEPT !.todo = Tail(@)]
    /\ UNCHANGED <<today, typed, attempted, used, deaths>>

\* append_record is best effort and goes on with the next line; a draft stops at
\* the line it could not append.
EngineLosesLine ==
    /\ engine.todo # << >> /\ Mishaps < MaxMishaps
    /\ engine' = [engine EXCEPT !.todo = IF engine.at = "draft" THEN << >> ELSE Tail(@)]
    /\ deaths' = deaths + 1
    /\ UNCHANGED <<ledger, today, typed, attempted, used>>

\* The process dies and starts again: what was attempted is forgotten.
EngineDies ==
    /\ engine.at # "idle" /\ Mishaps < MaxMishaps
    /\ engine' = IdleEngine /\ attempted' = {}
    /\ deaths' = deaths + 1
    /\ UNCHANGED <<ledger, today, typed, used>>

Operator ==
    \/ Hypothesize \/ CreateBet \/ DraftBet \/ DecideHypothesis \/ ConfirmBet \/ DeclineBet
    \/ Learn \/ MakeChange
Tick ==
    Observe \/ MeasureDue \/ EvaluateDue \/ RevisitDue \/ Draft \/ TickEnds \/ EngineAppends

BetNext ==
    \/ Operator \/ CommandAppends \/ CommandDies \/ DayPasses
    \/ Tick \/ EngineLosesLine \/ EngineDies

-----------------------------------------------------------------------------
BetTypeOK ==
    /\ Plans \subseteq Plan
    /\ \A i \in DOMAIN ledger :
           ledger[i].kind \in {"observation", "observation_status", "hypothesis",
               "hypothesis_status", "bet", "bet_status", "change", "outcome", "revisit"}
    /\ today \in 0 .. LastDay
    /\ engine.at \in Range(Phases) /\ engine.read <= Len(ledger)
    /\ engine.fresh \subseteq Obs /\ attempted \subseteq Obs
    /\ used.hypotheses <= MaxHypotheses /\ used.changes <= MaxChanges
    /\ Mishaps \in 0 .. MaxMishaps

\* "The record line itself is the memory, not any process state" and "measuring
\* early flatters": whatever dies between two lines, and although each tick
\* judges by a clock and a record it read at its start, a change is measured
\* once and not before its window has elapsed, revisited once per horizon, not
\* before it and after the outcome, and a bet is evaluated once.
MeasuredOnceWhenDue ==
    /\ \A c \in Of("change") :
        /\ Cardinality(OutcomesOf(ledger[c].id)) <= 1
        /\ \A o \in OutcomesOf(ledger[c].id) : ledger[o].at >= ledger[c].at + DAYS
        /\ \A day \in HORIZONS : Cardinality(RevisitsOf(ledger[c].id, day)) <= 1
        /\ \A r \in Rows("revisit", ledger[c].id) :
               /\ ledger[r].at >= ledger[c].at + ledger[r].horizon
               /\ \E o \in OutcomesOf(ledger[c].id) : o < r
    /\ \A b \in Hypotheses :
           Cardinality({i \in Rows("bet_status", b) : ledger[i].status = "evaluated"}) <= 1

\* Behind every verdict, in the order of the record: the hypothesis, its acceptance,
\* the change made on it and the outcome the verdict is read off; and the
\* hypothesis, the bet on it and the bet's confirmation, after that acceptance.
\* The two end in the verdict and are not ordered otherwise: an accepted bet may
\* be confirmed when its change, or even its outcome, is already there.
VerdictIsTheOutcomes ==
    \A i \in Of("bet_status") : ledger[i].status = "evaluated" =>
        LET b == ledger[i].id IN
        \E h \in Rows("hypothesis", b), a \in Rows("hypothesis_status", b) :
            /\ h < a /\ ledger[a].status = "accepted"
            /\ \E c \in ChangesOf(b) : \E o \in OutcomesOf(ledger[c].id) :
                   /\ a < c /\ c < o /\ o < i
                   /\ ledger[i].support = {SupportOf(ledger[o].outcome)}
            /\ \E r \in Rows("bet", b), k \in Rows("bet_status", b) :
                   /\ h < r /\ r < k /\ a < k /\ k < i
                   /\ ledger[k].status = "confirmed"

\* Through commands that die between two of their lines: a bet on the record has
\* the expectation it pre-registers on the record and its observations claimed;
\* one that awaits its confirmation can be confirmed or declined; one that was
\* evaluated has both chains behind its verdict.
BetHasItsChain ==
    /\ \A i \in Of("bet") : \E h \in Rows("hypothesis", ledger[i].id) :
        /\ h < i /\ ledger[h].plan # "none"
        /\ \E s \in Of("observation_status") : s < i /\ ledger[s].status = ledger[i].id
    /\ \A b \in Bets : BetStatus(b) = "proposed" => CanConfirm(b) \/ CanDecline(b)
    /\ VerdictIsTheOutcomes

\* A verdict, once on the record, is what the bet's status says for ever: no
\* learning erases it.
VerdictStays ==
    [][\A b \in Hypotheses : BetStatus(b) = "evaluated" => BetStatus(b)' = "evaluated"]_betVars

\* A confirmed bet with a shipped change whose metric the record itself can read
\* is evaluated in the end.
ConfirmedIsEvaluated ==
    \A b \in Hypotheses :
        (/\ BetStatus(b) = "confirmed" /\ ChangesOf(b) # {}
         /\ ledger[Min(ChangesOf(b))].plan = "record")
            ~> BetStatus(b) = "evaluated"

\* A bet is settled in the end, and for good.
SettledForGood == VerdictStays /\ ConfirmedIsEvaluated

\* Days pass, the interval ticks, and a command that appends goes on.
BetFairness ==
    /\ WF_betVars(DayPasses)
    /\ WF_betVars(Tick)
    /\ WF_betVars(CommandAppends)

BetSpec == BetInit /\ [][BetNext]_betVars /\ BetFairness
=============================================================================
