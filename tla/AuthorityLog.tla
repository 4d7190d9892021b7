---------------------------- MODULE AuthorityLog ----------------------------
(***************************************************************************)
(* The writers of authority lines, running at the same time over one       *)
(* record: a repair task that records what its ship came to (load, append  *)
(* the outcome, append the demotion it caused: three steps, and the        *)
(* process may die between any two), and the operator's `drums authority   *)
(* promote` and `demote`.                                                  *)
(***************************************************************************)
EXTENDS Authority

CONSTANTS
    Writer,     \* repair tasks and command invocations, each its own writer
    MaxLines    \* bound: lines the record may hold

ASSUME MaxLinesAssumption == MaxLines \in Nat

VARIABLES
    record,     \* the authority lines of .drums/record.jsonl, in file order
    ladder,     \* what Ladder::load returns now: always Ladder(record)
    job         \* [Writer -> what the writer is in the middle of]

vars == <<record, ladder, job>>

Idle == [at |-> "idle"]
Loaded == [at: {"loaded"}, class: Class, outcome: Outcome, demotes: BOOLEAN]
Recorded == [at: {"recorded"}, class: Class]
CheckedPromotion == [at: {"checked"}, class: Class]

TypeOK ==
    /\ record \in Seq(Line)
    /\ ladder \in [Class -> Standing]
    /\ job \in [Writer -> {Idle} \cup Loaded \cup Recorded \cup CheckedPromotion]

Init ==
    /\ record = << >>
    /\ ladder = EmptyLadder
    /\ job = [w \in Writer |-> Idle]

Room == Len(record) < MaxLines

AppendLine(line) ==
    /\ Room
    /\ record' = Append(record, line)
    /\ ladder' = FoldLine(ladder, line)

Become(w, j) == job' = [job EXCEPT ![w] = j]

-----------------------------------------------------------------------------
\* record_outcome, first half: the demotion is decided on the ladder as
\* loaded here, whatever other writers append before the lines land.
LoadForOutcome(w, c, o) ==
    /\ job[w] = Idle
    /\ Become(w, [at |-> "loaded", class |-> c, outcome |-> o,
                  demotes |-> Demotes(ladder[c], o)])
    /\ UNCHANGED <<record, ladder>>

AppendOutcome(w) ==
    /\ job[w].at = "loaded"
    /\ AppendLine(OutcomeLine(job[w].class, job[w].outcome))
    /\ Become(w, IF job[w].demotes
                 THEN [at |-> "recorded", class |-> job[w].class] ELSE Idle)

AppendDemotion(w) ==
    /\ job[w].at = "recorded"
    /\ AppendLine(RungLine(job[w].class, "propose"))
    /\ Become(w, Idle)

\* `drums authority promote`: refused unless the class is a candidate of the
\* ladder loaded now; the line is appended later, after the license check.
CheckPromotion(w, c) ==
    /\ job[w] = Idle
    /\ c \in PromotionCandidates(ladder)
    /\ Become(w, [at |-> "checked", class |-> c])
    /\ UNCHANGED <<record, ladder>>

AppendPromotion(w) ==
    /\ job[w].at = "checked"
    /\ AppendLine(RungLine(job[w].class, "act-alone"))
    /\ Become(w, Idle)

\* `drums authority demote`: refused for a class the record has never named.
\* A class once named stays named, so the check and the append are one step.
Demote(w, c) ==
    /\ job[w] = Idle
    /\ \E i \in DOMAIN record : record[i].class = c
    /\ AppendLine(RungLine(c, "propose"))
    /\ UNCHANGED job

\* The process dies, the append fails, or the license refuses the promotion.
Abandon(w) ==
    /\ job[w] # Idle
    /\ Become(w, Idle)
    /\ UNCHANGED <<record, ladder>>

Next ==
    \E w \in Writer :
        \/ \E c \in Class, o \in Outcome : LoadForOutcome(w, c, o)
        \/ AppendOutcome(w)
        \/ AppendDemotion(w)
        \/ \E c \in Class : CheckPromotion(w, c)
        \/ AppendPromotion(w)
        \/ \E c \in Class : Demote(w, c)
        \/ Abandon(w)

Spec == Init /\ [][Next]_vars

-----------------------------------------------------------------------------
\* What the record says, read without folding it.
Outcomes(c) == {i \in DOMAIN record : /\ record[i].class = c
                                      /\ record[i].kind = "authority_outcome"}
Bad(c) == {i \in Outcomes(c) : ~IsClean(record[i].outcome)}
Grants(c) == {i \in DOMAIN record : /\ record[i].class = c
                                    /\ record[i].kind = "authority_rung"
                                    /\ record[i].rung = "act-alone"}
Withdrawals(c) == {i \in DOMAIN record : /\ record[i].class = c
                                         /\ record[i].kind = "authority_rung"
                                         /\ record[i].rung # "act-alone"}

\* The streak is the number of clean outcomes after the last bad one, and the
\* right to be proposed is held exactly while it is long enough: fold_outcome
\* agrees with the definition its doc comment gives, whatever rungs moved.
StreakIsTrailingClean ==
    \A c \in Class :
        /\ ladder[c].streak =
               Cardinality({i \in Outcomes(c) : \A j \in Bad(c) : j < i})
        /\ ladder[c].earned_at = "some" <=> ladder[c].streak >= PROMOTION_STREAK

\* A class is on act-alone exactly while a human's grant is the last word on
\* it: one bad outcome costs act-alone from the moment its line is in the
\* record, even when the process dies before the demotion line, and nothing
\* but a grant line gives it back.
ActAloneIsLastWord ==
    \A c \in Class :
        ladder[c].rung = "act-alone" <=>
            \E g \in Grants(c) : \A i \in Bad(c) \cup Withdrawals(c) : i < g

\* The clean outcomes a reader counted as the streak when the record was n
\* lines long.
StreakAt(c, n) ==
    {i \in Outcomes(c) : i <= n /\ \A j \in Bad(c) : j <= n => j < i}

\* "Autonomy is earned, not configured ... there is deliberately no override":
\* whatever was appended between the check and the grant, at some moment before
\* each grant its class stood at PROMOTION_STREAK clean ships in a row.
GrantsWereEarned ==
    \A c \in Class : \A g \in Grants(c) :
        \E n \in 1 .. g - 1 : Cardinality(StreakAt(c, n)) >= PROMOTION_STREAK

\* What the ladder counts and what it lets a human grant, over any record that
\* any writers left.
AutonomyIsEarned == StreakIsTrailingClean /\ GrantsWereEarned
=============================================================================
