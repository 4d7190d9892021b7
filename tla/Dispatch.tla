----------------------------- MODULE Dispatch -----------------------------
(***************************************************************************)
(* Repairs that leave the machine (drums watch --dispatch-repairs): the    *)
(* failure is reproduced here, the ladder is asked whether a person has to *)
(* answer first, the console holds or starts the job, and `drums repair`   *)
(* on a runner folds what its pipeline said into the outcome it uploads.   *)
(* The writers of AuthorityLog append to the same record meanwhile.        *)
(***************************************************************************)
EXTENDS AuthorityLog, FiniteSets

CONSTANTS
    Hosted,         \* the failures of the watch
    HostedClass,    \* [Hosted -> Class]
    Captured,       \* those whose intake carries the failing request
    HostedCeiling,  \* the rung --repair allows at most
    StartRecord,    \* the authority lines the watch starts over
    RepairDiff,     \* what a repair may touch: sequences of changed files, "names" the
                    \* files whose paths the header of its section has in it
    DIFF_MAX,       \* lines of a diff the outcome carries
    PATHS_MAX       \* paths the outcome lists

ASSUME DispatchAssumption ==
    /\ HostedClass \in [Hosted -> Class]
    /\ Captured \subseteq Hosted
    /\ HostedCeiling \in Rung
    /\ StartRecord \in Seq(Line)
    /\ RepairDiff \subseteq Seq([lines: Nat, credential: BOOLEAN, names: SUBSET Nat])
    /\ DIFF_MAX \in Nat \ {0} /\ PATHS_MAX \in Nat \ {0}

VARIABLES
    hosted,     \* [Hosted -> where the watch's task for it stands]
    ask,        \* [Hosted -> "unsent", "go" or "approval": what was posted]
    ciJob,      \* [Hosted -> the console's job for it]
    report,     \* [Hosted -> the outcome its runner uploaded, or NoReport]
    since       \* history: [Hosted -> lines in the record when it reproduced]

dispatchVars == <<hosted, ask, ciJob, report, since>>

\* A repair outcome: why no repair came of it, and the diff a person is shown.
NoDiff == [shown |-> FALSE, files |-> 0, listed |-> 0, withheld |-> 0,
           whole |-> 0, carried |-> 0, truncated |-> FALSE, change |-> << >>]
NothingEstablished ==
    [reproduced |-> FALSE, repaired |-> FALSE, why |-> "no terminal event",
     diff |-> NoDiff]
NoReport == [NothingEstablished EXCEPT !.why = "no report"]

DispatchInit ==
    /\ hosted = [f \in Hosted |-> "detected"]
    /\ ask = [f \in Hosted |-> "unsent"]
    /\ ciJob = [f \in Hosted |-> "none"]
    /\ report = [f \in Hosted |-> NoReport]
    /\ since = [f \in Hosted |-> 0]

HostedGoes(f, from, to) == hosted[f] = from /\ hosted' = [hosted EXCEPT ![f] = to]

-----------------------------------------------------------------------------
\* The only gate into a repair, here or hosted: the failure happened again.
\* One without a request is repaired here, and only to be proposed.
ReproduceHere(f) ==
    /\ \/ f \notin Captured /\ HostedGoes(f, "detected", "local")
       \/ f \in Captured /\ HostedGoes(f, "detected", "unreproduced")
       \/ f \in Captured /\ HostedGoes(f, "detected", "reproduced")
    /\ since' = [since EXCEPT ![f] = Len(record)]
    /\ UNCHANGED <<ask, ciJob, report>>

\* Mutant: the ladder as it was when the watch started.
RungAtStart(f) == Ladder(StartRecord)[HostedClass[f]].rung

\* The ladder is loaded on every dispatch, never kept from an earlier one.
RungNow(f) == ladder[HostedClass[f]].rung

\* approval_ask: the lower of ceiling and earned rung, or propose when the
\* record cannot be read; the reproduction's claim is the evidence.
ApprovalAsk(f) ==
    {IF ShipDecision(MinRung(HostedCeiling, earned), f \in Captured, TRUE) = "may_ship"
     THEN "go" ELSE "approval" : earned \in {RungNow(f), "propose"}}

\* dispatch refuses a revision that is not spelled as a commit before it asks
\* anything.
Prepare(f) ==
    /\ \/ HostedGoes(f, "reproduced", "failed") /\ UNCHANGED ask
       \/ /\ HostedGoes(f, "reproduced", "posting")
          /\ \E a \in ApprovalAsk(f) : ask' = [ask EXCEPT ![f] = a]
    /\ UNCHANGED <<ciJob, report, since>>

\* The console takes the job, holding it while a person is asked, or refuses.
PostRepair(f) ==
    /\ \/ /\ HostedGoes(f, "posting", "posted")
          /\ ciJob' = [ciJob EXCEPT ![f] = IF ask[f] = "go" THEN "queued" ELSE "held"]
       \/ HostedGoes(f, "posting", "failed") /\ UNCHANGED ciJob
    /\ UNCHANGED <<ask, report, since>>

\* An answer that comes too late, or without a job id, is a failed dispatch:
\* the job it was about goes on.
ReadAnswer(f) ==
    /\ HostedGoes(f, "posted", "dispatched") \/ HostedGoes(f, "posted", "failed")
    /\ UNCHANGED <<ask, ciJob, report, since>>

\* A person approves the job or lets it expire.
AnswerApproval(f) ==
    /\ ciJob[f] = "held"
    /\ ciJob' \in {[ciJob EXCEPT ![f] = "queued"], [ciJob EXCEPT ![f] = "expired"]}
    /\ UNCHANGED <<hosted, ask, report, since>>

-----------------------------------------------------------------------------
\* What the pipeline tells on the runner, in the order it tells it: there is
\* always a request to replay, no deploy command and no proposal to open.
RunnerEvents ==
    {<< >>, <<"repro_failed">>, <<"unreproduced">>,
     <<"reproduced", "ready">>, <<"reproduced", "failed">>}

\* Mutant: a repair that is ready keeps the reason it began with.
FoldEventKeepsWhy(out, event) ==
    CASE event = "reproduced" -> [out EXCEPT !.reproduced = TRUE]
      [] event = "ready" -> [out EXCEPT !.repaired = TRUE]
      [] OTHER -> [out EXCEPT !.repaired = FALSE, !.why = event]

\* The last terminal event wins.
FoldEvent(out, event) ==
    CASE event = "reproduced" -> [out EXCEPT !.reproduced = TRUE]
      [] event = "ready" -> [out EXCEPT !.repaired = TRUE, !.why = "none"]
      [] OTHER -> [out EXCEPT !.repaired = FALSE, !.why = event]
FoldEvents(events) == FoldLeft(FoldEvent, NothingEstablished, events)

LinesIn(change, files) ==
    LET upTo[i \in 0 .. Len(change)] ==
            IF i = 0 THEN 0
            ELSE upTo[i - 1] + (IF i \in files THEN change[i].lines ELSE 0)
    IN  upTo[Len(change)]

\* The files whose hunks do not leave: by their path, as many as are listed.
Withheld(change) ==
    {i \in DOMAIN change : /\ change[i].credential
                           /\ Cardinality({j \in 1 .. i : change[j].credential}) <= PATHS_MAX}

\* strip_withheld: a section goes too whose header has a withheld path in it.
Stripped(change) ==
    {i \in (DOMAIN change) \ Withheld(change) : change[i].names \cap Withheld(change) # {}}

\* What is withheld is told of before the content, which may be cut; and again where no
\* section is left to strip.
Notice(change) ==
    CASE Withheld(change) = {} -> 0
      [] Withheld(change) # {} /\ Withheld(change) = DOMAIN change -> 2
      [] OTHER -> 1

\* The outcome's half about the diff: what the notice and the content come to.
Shaped(change, shown, whole) ==
    LET least(a, b) == IF a <= b THEN a ELSE b
    IN  [shown |-> shown, files |-> Len(change), listed |-> least(Len(change), PATHS_MAX),
         withheld |-> Cardinality(Withheld(change)), whole |-> whole,
         carried |-> least(whole, DIFF_MAX), truncated |-> whole > DIFF_MAX,
         change |-> change]

\* attach_diff fails no repair: of one that git does not list there is nothing, and of one
\* that it lists but does not show there are the paths.
ShapeDiff(change) ==
    {Shaped(change, FALSE, 0),
     Shaped(change, TRUE, Notice(change) +
         LinesIn(change, (DOMAIN change) \ (Withheld(change) \cup Stripped(change))))}
AttachDiff(change) == {NoDiff} \cup ShapeDiff(change)

\* `drums repair`: reproduce, repair and report; only a repair that completed
\* has a commit to show.  No agent, or a pipeline that dies, establishes nothing.
RunRepair(f) ==
    /\ ciJob[f] = "queued"
    /\ ciJob' = [ciJob EXCEPT ![f] = "ran"]
    /\ \E events \in RunnerEvents :
          LET out == FoldEvents(events) IN
          IF out.repaired
          THEN \E change \in RepairDiff : \E diff \in AttachDiff(change) :
                  report' = [report EXCEPT ![f] = [out EXCEPT !.diff = diff]]
          ELSE report' = [report EXCEPT ![f] = out]
    /\ UNCHANGED <<hosted, ask, since>>

\* The runner goes away, or its outcome cannot be written.
LoseRunner(f) ==
    /\ ciJob[f] = "queued"
    /\ ciJob' = [ciJob EXCEPT ![f] = "ran"]
    /\ UNCHANGED <<hosted, ask, report, since>>

DispatchStep ==
    \E f \in Hosted :
        \/ ReproduceHere(f) \/ Prepare(f) \/ PostRepair(f) \/ ReadAnswer(f)
        \/ AnswerApproval(f) \/ RunRepair(f) \/ LoseRunner(f)

DispatchNext ==
    \/ DispatchStep /\ UNCHANGED vars
    \/ Next /\ UNCHANGED dispatchVars

\* The watch starts over the authority lines on record.
DispatchSpec ==
    /\ record = StartRecord /\ ladder = Ladder(StartRecord)
    /\ job = [w \in Writer |-> Idle]
    /\ DispatchInit
    /\ [][DispatchNext]_<<vars, dispatchVars>>

-----------------------------------------------------------------------------
\* A repair starts on somebody else's runners without a person's answer only
\* for a failure seen to happen again, under a ceiling that allows it, and only
\* if its class held act-alone at some moment after that: what cost it the rung
\* before the failure happened again is never too recent to count.
UnaskedWasEarned ==
    \A f \in Hosted : (ciJob[f] # "none" /\ ask[f] = "go") =>
        /\ f \in Captured /\ HostedCeiling = "act-alone"
        /\ \E n \in since[f] .. Len(record) :
              Ladder(SubSeq(record, 1, n))[HostedClass[f]].rung = "act-alone"

\* What a reviewer of the outcome may conclude: a repair was made only of a
\* failure the runner saw fail too, no repair comes without a reason, and a diff
\* goes with a repair only.  One that is shown has every changed line of the
\* repair, after what it says is withheld, or says that it is a prefix; but for a
\* withheld file's lines, and those of a file whose header names a withheld path,
\* of which nothing is said.  One that git did not give is not said to be whole.
ReportIsHonest ==
    \A f \in Hosted :
        LET r == report[f]
            d == r.diff
        IN  /\ r.repaired => (r.reproduced /\ r.why = "none")
            /\ ~r.repaired => (r.why # "none" /\ d = NoDiff)
            /\ ~d.shown => d.carried = 0 /\ ~d.truncated
            /\ d.shown =>
                  /\ d.withheld > 0 => d.carried > 0
                  /\ ~d.truncated =>
                        d.carried + LinesIn(d.change, Withheld(d.change) \cup Stripped(d.change))
                            = Notice(d.change) + LinesIn(d.change, DOMAIN d.change)
=============================================================================
