----------------------------- MODULE MCPipeline -----------------------------
(***************************************************************************)
(* The tasks of two failures of one class, one of them replayable, over a  *)
(* record that grants the class act-alone or one on which it has only      *)
(* earned the proposal (Pipeline); the pull requests two repairs of one    *)
(* branch name open (Proposal); and what people are told: by the API and   *)
(* the terminal, of the events two tasks send (Views), by the daily digest *)
(* (Digest) and by the commands that read the record (RecordReading).  The *)
(* part that a behaviour is about moves, the others stay at their start.   *)
(***************************************************************************)
EXTENDS Pipeline, Views, Proposal, Digest, RecordReading

CONSTANTS f1, f2, k1

MCClassOf == (f1 :> k1) @@ (f2 :> k1)
MCGranted == <<OutcomeLine(k1, "shipped_clean"), RungLine(k1, "act-alone")>>
MCEarned == <<OutcomeLine(k1, "shipped_clean")>>

\* Events of a file and of the same name a root higher, one that cannot be read, a
\* repair with one claim resolved and one not, an internal line and an outcome.
MCLine(kind, readable, file, claimed, measured) ==
    [kind |-> kind, readable |-> readable, file |-> file,
     claims |-> claimed, measured |-> measured]
MCWritten ==
    {MCLine("event", TRUE, <<"app", "src", "x">>, << >>, FALSE),
     MCLine("event", TRUE, <<"src", "y">>, << >>, FALSE),
     MCLine("event", FALSE, << >>, << >>, FALSE),
     MCLine("repair_ready", TRUE, << >>, <<"verified", "unresolved">>, FALSE),
     MCLine("repair_context", TRUE, << >>, << >>, FALSE),
     MCLine("outcome", TRUE, << >>, << >>, TRUE)}

VARIABLE part

toldVars == <<viewsVars, proposalVars, digestVars, readingVars>>
pipelineVars == <<vars, toldVars, part>>

MCInit ==
    /\ part \in {"tasks", "views", "proposal", "digest", "read"}
    /\ Init /\ ViewsInit /\ ProposalInit /\ DigestInit /\ ReadingInit
    /\ part # "views" => repairs = "none"
    /\ \A p, q \in Proposer : BranchWanted(p) = BranchWanted(q)

Tasks(A) == part = "tasks" /\ A /\ UNCHANGED <<toldVars, part>>
Viewed(A) ==
    part = "views" /\ A /\ UNCHANGED <<vars, proposalVars, digestVars, readingVars, part>>
Proposed(A) ==
    part = "proposal" /\ A /\ UNCHANGED <<vars, viewsVars, digestVars, readingVars, part>>
Digested(A) ==
    part = "digest" /\ A /\ UNCHANGED <<vars, viewsVars, proposalVars, readingVars, part>>
ReadOut(A) ==
    part = "read" /\ A /\ UNCHANGED <<vars, viewsVars, proposalVars, digestVars, part>>

MCNext ==
    \/ Tasks(Next) \/ Viewed(ViewsNext)
    \/ Proposed(ProposalNext) \/ Digested(DigestNext) \/ ReadOut(ReadingNext)

\* FairSpec, for the part that is about the tasks.
MCSpec ==
    /\ MCInit /\ [][MCNext]_pipelineVars
    /\ \A f \in Failure : WF_pipelineVars(Tasks(Step(f)))

-----------------------------------------------------------------------------
\* What a person or an agent is shown is what is so: how every proposed repair stood on
\* the day of the digest, what became of those the agent is told of, and the commit
\* under the pull request that is reviewed.
ShownIsTrue == [](part = "digest" => LastWordIsTrue /\ RecallIsTrue) /\ ProposedShowsItsCommit

\* And what the record commands list is the record.
RecordReadsWell == part = "read" => RecordReadsTrue
=============================================================================
