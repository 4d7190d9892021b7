------------------------------ MODULE Pipeline ------------------------------
(***************************************************************************)
(* The engine's task for one detected failure (cli/src/engine.rs):         *)
(* attribute, reproduce, repair, verify, propose and, when the gate says   *)
(* so, ship unattended and record what came of it.  The tasks of all       *)
(* failures run at once over one record, beside the operator's own ship,   *)
(* revert, promote and demote, which are one step here: Ship and           *)
(* AuthorityLog take those apart.                                          *)
(***************************************************************************)
EXTENDS Authority

CONSTANTS
    Failure,        \* detected failures, each with an id of its own
    ClassOf,        \* [Failure -> Class]
    Replayable,     \* the failures whose intake carries the failing request
    Mode,           \* --repair propose or --repair auto
    InheritedRecord,\* the authority lines the record starts with
    Fault,          \* which faults may happen: a subset of FaultKind
    MaxRungLines    \* bound: rung lines the record may hold

FaultKind == {"deploy_fails", "crash", "append_fails", "read_fails"}

ASSUME PipelineAssumption ==
    /\ ClassOf \in [Failure -> Class]
    /\ Replayable \subseteq Failure
    /\ Mode \in {"propose", "auto"}
    /\ InheritedRecord \in Seq(Line)
    /\ Fault \subseteq FaultKind
    /\ MaxRungLines \in Nat

VARIABLES
    record,         \* the lines of .drums/record.jsonl the tasks read back
    task,           \* [Failure -> the stage its task is at]
    reproduced,     \* failures that failed again when their request was replayed
    claims,         \* [Failure -> the provenances its repair's checks earned]
    unattended,     \* history: failures the engine deployed without a human
    cut             \* history: failures whose task died or lost a line

vars == <<record, task, reproduced, claims, unattended, cut>>

Provenance == {"verified", "unresolved"}
Stage == {"none", "detected", "attributed", "repairing", "committed",
          "verified", "ready", "shipping", "deploying", "deployed",
          "shipped", "failed", "reopened", "ended"}

ReadyLines == [kind: {"repair_ready"}, failure: Failure]
ShippedLines == [kind: {"shipped"}, failure: Failure]
RevertedLines == [kind: {"reverted"}, failure: Failure]
ShipOutcomeLines == [kind: {"authority_outcome"}, class: Class,
                     outcome: Outcome, failure: Failure]
RecordLine == Line \cup ReadyLines \cup ShippedLines \cup RevertedLines
                   \cup ShipOutcomeLines

TypeOK ==
    /\ record \in Seq(RecordLine)
    /\ task \in [Failure -> Stage]
    /\ reproduced \subseteq Failure
    /\ claims \in [Failure -> SUBSET Provenance]
    /\ unattended \subseteq Failure
    /\ cut \subseteq Failure

Init ==
    /\ record = InheritedRecord
    /\ task = [f \in Failure |-> "none"]
    /\ reproduced = {}
    /\ claims = [f \in Failure |-> {}]
    /\ unattended = {}
    /\ cut = {}

-----------------------------------------------------------------------------
LinesOf(kinds, f) == {i \in DOMAIN record : record[i].kind \in kinds /\ record[i].failure = f}
Has(kind, f) == LinesOf({kind}, f) # {}

\* Ladder::load folds the whole record and passes over the lines of other kinds.
IsAuthority(line) == line.kind \in {"authority_outcome", "authority_rung"}
LoadLine(lad, line) == IF IsAuthority(line) THEN FoldLine(lad, line) ELSE lad
LadderUpTo[n \in 0 .. Len(record)] ==
    IF n = 0 THEN EmptyLadder ELSE LoadLine(LadderUpTo[n - 1], record[n])
LadderNow == LadderUpTo[Len(record)]
RungOf(c) == LadderNow[c].rung

\* The rung the operator's --repair mode allows at most.
Ceiling == IF Mode = "auto" THEN "act-alone" ELSE "propose"
Effective(f) == MinRung(Ceiling, RungOf(ClassOf[f]))

GoTo(f, from, to) ==
    /\ task[f] = from
    /\ task' = [task EXCEPT ![f] = to]

\* The engine's own appends are best effort: lines land up to the one that
\* fails, and the task goes on.
BestEffort(f, lines) ==
    \E n \in 0 .. Len(lines) :
        /\ n = Len(lines) \/ "append_fails" \in Fault
        /\ record' = record \o SubSeq(lines, 1, n)
        /\ cut' = IF n < Len(lines) THEN cut \cup {f} ELSE cut

-----------------------------------------------------------------------------
\* The detector opens the failure and the loop spawns its task.
Detect(f) ==
    /\ GoTo(f, "none", "detected")
    /\ UNCHANGED <<record, reproduced, claims, unattended, cut>>

\* A failure with no deploy before it, or a git error, ends here.
Attribute(f) ==
    /\ GoTo(f, "detected", "attributed") \/ GoTo(f, "detected", "ended")
    /\ UNCHANGED <<record, reproduced, claims, unattended, cut>>

\* The intake fork: with a request to replay, the repair is only tried when
\* the failure happens again; a repair dispatched to CI also ends here.
Reproduce(f) ==
    /\ f \in Replayable
    /\ \/ /\ GoTo(f, "attributed", "repairing")
          /\ reproduced' = reproduced \cup {f}
       \/ /\ GoTo(f, "attributed", "ended")
          /\ reproduced' \in {reproduced, reproduced \cup {f}}
    /\ UNCHANGED <<record, claims, unattended, cut>>

\* With none, reproduction is skipped and the repair is proposed only.
SkipReproduction(f) ==
    /\ f \notin Replayable
    /\ GoTo(f, "attributed", "repairing")
    /\ UNCHANGED <<record, reproduced, claims, unattended, cut>>

\* Worktree at the attributed commit, the agent, the commit on its branch.
Repair(f) ==
    /\ GoTo(f, "repairing", "committed") \/ GoTo(f, "repairing", "ended")
    /\ UNCHANGED <<record, reproduced, claims, unattended, cut>>

\* Every check that runs passes or the repair fails.  The replay claim is
\* unresolved without a request, /health is verified, and the test claim is
\* absent, unresolved or verified.
Verify(f) ==
    /\ \/ /\ GoTo(f, "committed", "verified")
          /\ \E test \in {{}, {"verified"}, {"unresolved"}} :
                claims' = [claims EXCEPT ![f] =
                    {"verified", IF f \in Replayable THEN "verified"
                                                     ELSE "unresolved"} \cup test]
       \/ /\ GoTo(f, "committed", "ended")
          /\ UNCHANGED claims
    /\ UNCHANGED <<record, reproduced, unattended, cut>>

\* repair_ready, and the proposal opened before any ship decision.
Ready(f) ==
    /\ GoTo(f, "verified", "ready")
    /\ BestEffort(f, <<[kind |-> "repair_ready", failure |-> f]>>)
    /\ UNCHANGED <<reproduced, claims, unattended>>

\* Mutant: the gate is asked only whether the rung is high enough.
DecideByRung(f) ==
    /\ GoTo(f, "ready", IF Effective(f) = "act-alone" THEN "shipping" ELSE "ended")
    /\ UNCHANGED <<record, reproduced, claims, unattended, cut>>

\* The ship decision point: the lower of ceiling and earned rung.  A record
\* that cannot be read earns no more than propose.
Decide(f) ==
    /\ \/ GoTo(f, "ready",
               IF ShipDecision(Effective(f), f \in Replayable,
                               "verified" \in claims[f]) = "may_ship"
               THEN "shipping" ELSE "ended")
       \/ /\ "read_fails" \in Fault
          /\ GoTo(f, "ready", "ended")
    /\ UNCHANGED <<record, reproduced, claims, unattended, cut>>

Shippable(f) == LinesOf({"shipped", "reverted"}, f) = {} /\ Has("repair_ready", f)

\* ship::ship reads the record: it refuses a failure already shipped or
\* reverted, and one whose repair_ready line is not there.
StartShip(f) ==
    /\ \/ /\ Shippable(f)
          /\ GoTo(f, "shipping", "deploying")
          /\ unattended' = unattended \cup {f}
       \/ /\ ~Shippable(f) \/ "read_fails" \in Fault
          /\ GoTo(f, "shipping", "failed")
          /\ UNCHANGED unattended
    /\ UNCHANGED <<record, reproduced, claims, cut>>

Deploy(f) ==
    /\ \/ GoTo(f, "deploying", "deployed")
       \/ /\ "deploy_fails" \in Fault
          /\ GoTo(f, "deploying", "failed")
    /\ UNCHANGED <<record, reproduced, claims, unattended, cut>>

\* The post-deploy checks run; whatever they say, the ship is Ok.
AppendShipped(f) ==
    /\ GoTo(f, "deployed", "shipped")
    /\ BestEffort(f, <<[kind |-> "shipped", failure |-> f]>>)
    /\ UNCHANGED <<reproduced, claims, unattended>>

ShipOutcome(f, o) ==
    [kind |-> "authority_outcome", class |-> ClassOf[f], outcome |-> o, failure |-> f]

\* record_ship_outcome after a ship that was Ok; then the signature is sent to
\* the detector to be opened again.
RecordClean(f) ==
    /\ GoTo(f, "shipped", "reopened")
    /\ BestEffort(f, <<ShipOutcome(f, "shipped_clean")>>)
    /\ UNCHANGED <<reproduced, claims, unattended>>

\* Mutant: the failed ship is reported and not recorded.
RecordFailedNot(f) ==
    /\ GoTo(f, "failed", "ended")
    /\ UNCHANGED <<record, reproduced, claims, unattended, cut>>

\* record_ship_outcome after any error of ship: the outcome, and the demotion
\* it causes.
RecordFailed(f) ==
    /\ GoTo(f, "failed", "ended")
    /\ BestEffort(f, <<ShipOutcome(f, "ship_failed")>> \o
           (IF RungOf(ClassOf[f]) = "act-alone"
            THEN <<RungLine(ClassOf[f], "propose")>> ELSE << >>))
    /\ UNCHANGED <<reproduced, claims, unattended>>

\* The process dies with all its tasks: none is resumed after a restart.
Crash ==
    /\ "crash" \in Fault
    /\ \E f \in Failure : task[f] \notin {"none", "ended"}
    /\ task' = [f \in Failure |-> IF task[f] = "none" THEN "none" ELSE "ended"]
    /\ cut' = cut \cup {f \in Failure : task[f] \notin {"none", "ended"}}
    /\ UNCHANGED <<record, reproduced, claims, unattended>>

-----------------------------------------------------------------------------
\* `drums ship` and `drums revert` by the operator: neither writes an
\* authority line.
HumanShip(f) ==
    /\ Shippable(f)
    /\ record' = Append(record, [kind |-> "shipped", failure |-> f])
    /\ UNCHANGED <<task, reproduced, claims, unattended, cut>>

HumanRevert(f) ==
    /\ Has("shipped", f) /\ ~Has("reverted", f)
    /\ record' = Append(record, [kind |-> "reverted", failure |-> f])
    /\ UNCHANGED <<task, reproduced, claims, unattended, cut>>

RoomForRung ==
    Len(SelectSeq(record, LAMBDA l : l.kind = "authority_rung")) < MaxRungLines

HumanPromote(c) ==
    /\ RoomForRung
    /\ c \in PromotionCandidates(LadderNow)
    /\ record' = Append(record, RungLine(c, "act-alone"))
    /\ UNCHANGED <<task, reproduced, claims, unattended, cut>>

HumanDemote(c) ==
    /\ RoomForRung
    /\ \E i \in DOMAIN record : IsAuthority(record[i]) /\ record[i].class = c
    /\ record' = Append(record, RungLine(c, "propose"))
    /\ UNCHANGED <<task, reproduced, claims, unattended, cut>>

Step(f) ==
    \/ Attribute(f) \/ Reproduce(f) \/ SkipReproduction(f) \/ Repair(f)
    \/ Verify(f) \/ Ready(f) \/ Decide(f) \/ StartShip(f) \/ Deploy(f)
    \/ AppendShipped(f) \/ RecordClean(f) \/ RecordFailed(f)

Next ==
    \/ \E f \in Failure : Detect(f) \/ Step(f) \/ HumanShip(f) \/ HumanRevert(f)
    \/ \E c \in Class : HumanPromote(c) \/ HumanDemote(c)
    \/ Crash

Spec == Init /\ [][Next]_vars

\* Every wait of a task is under a timeout: boot, replay, agent, test script,
\* deploy.  What the operator does is never assumed.
FairSpec == Spec /\ \A f \in Failure : WF_vars(Step(f))

-----------------------------------------------------------------------------
Grants(c) == {i \in DOMAIN record : /\ record[i].kind = "authority_rung"
                                    /\ record[i].class = c
                                    /\ record[i].rung = "act-alone"}
OutcomesOf(f) == {i \in DOMAIN record : /\ record[i].kind = "authority_outcome"
                                        /\ "failure" \in DOMAIN record[i]
                                        /\ record[i].failure = f}
Reverts(f) == {i \in DOMAIN record : /\ record[i].kind = "reverted"
                                     /\ record[i].failure = f}

\* Nothing is deployed unattended without the whole chain behind it: consent
\* (--repair auto), the failing request captured and failed again on replay, a
\* verified claim, the repair on record and a human's grant to its class.
UnattendedHasItsChain ==
    \A f \in unattended :
        /\ Mode = "auto"
        /\ f \in Replayable \cap reproduced
        /\ "verified" \in claims[f]
        /\ Has("repair_ready", f)
        /\ Grants(ClassOf[f]) # {}

\* A failure moves its class at most once, and counts as clean only if the engine
\* itself deployed it: a human's ship builds no streak.
OneOutcomePerFailure ==
    \A f \in Failure :
        /\ Cardinality(OutcomesOf(f)) <= 1
        /\ \A i \in OutcomesOf(f) :
              record[i].outcome = "shipped_clean" => f \in unattended

\* What is deployed without a person had the whole chain behind it, and whatever came
\* of it moves the ladder once, for good only where the engine itself deployed.
UnattendedIsEarned == UnattendedHasItsChain /\ OneOutcomePerFailure

\* Every unattended deploy, good or bad, reaches the ladder in the end, unless
\* its task dies or loses a line first.  (UnattendedHasItsChain: no other
\* failure is deployed unattended.)
UnattendedIsAccountedFor ==
    \A f \in Replayable : (f \in unattended) ~> (OutcomesOf(f) # {} \/ f \in cut)

\* "one rollback ... drops it straight back to propose, automatically": after
\* an unattended repair is reverted its class is not on act-alone, unless a
\* human granted it again since.
RollbackCostsAutonomy ==
    \A f \in unattended : \A i \in Reverts(f) :
        RungOf(ClassOf[f]) = "act-alone" => \E g \in Grants(ClassOf[f]) : i < g
=============================================================================
