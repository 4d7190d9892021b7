--------------------------- MODULE MCRepairChain ---------------------------
(***************************************************************************)
(* What is done about a failure, one part at a time: a command the engine  *)
(* waits for (ChildGroup), an app it replays a request against (Replay), a *)
(* repair attempt (RepairRun), the repairs that have no request to replay  *)
(* (IssueRepair), the authority to act alone (AuthorityLog), a repair that *)
(* leaves the machine under it (Dispatch) and what its evidence is worth   *)
(* when it comes back (Plane).  The part that a behaviour is about moves,  *)
(* the others stay at their start.                                         *)
(***************************************************************************)
EXTENDS ChildGroup, Replay, RepairRun, IssueRepair, Dispatch, Plane

CONSTANTS
    k1, k2, f1, f2, w1, w2,
    LogLines        \* bound: lines the record may hold while no repair leaves

VARIABLE part

attemptVars == <<childVars, replayVars, repairVars, issueRepairVars>>
authorityVars == <<vars, dispatchVars, planeVars>>
repairChainVars == <<attemptVars, authorityVars, part>>

MCHostedClass == (f1 :> k1) @@ (f2 :> k2)
MCNoClass == << >>
MCStartRecord == <<OutcomeLine(k1, "shipped_clean"), OutcomeLine(k1, "shipped_clean"),
                   RungLine(k1, "act-alone")>>
MCRepairDiff ==
    {<<[credential |-> c, lines |-> 1, names |-> {}],
       [credential |-> d, lines |-> 2, names |-> n]>> :
        c \in BOOLEAN, d \in BOOLEAN, n \in {{}, {1}}}

CommandRests == kind = "test" /\ ~hangs /\ writes = 0
AppRests == ~fails /\ ~names
RepairRests ==
    /\ base.package = "no_package_json"
    /\ \A f \in TestFile : base.tests[f] = Empty
    /\ ~replayable
IssueRests == head = CHOOSE r \in Revision : TRUE

\* The watch starts over a class that was granted act-alone.
RecordStarts ==
    IF part = "dispatch" THEN record = MCStartRecord /\ ladder = Ladder(MCStartRecord)
                         ELSE record = << >> /\ ladder = EmptyLadder

MCInit ==
    /\ part \in {"command", "app", "repair", "issue", "authority", "dispatch", "plane"}
    /\ ChildInit /\ ReplayInit /\ RepairInit /\ IssueRepairInit
    /\ RecordStarts /\ job = [w \in Writer |-> Idle] /\ DispatchInit /\ PlaneInit
    /\ (part # "command" => CommandRests)
    /\ (part # "app" => AppRests)
    /\ (part # "repair" => RepairRests)
    /\ (part # "issue" => IssueRests)

Command(A) ==
    /\ part = "command" /\ A
    /\ UNCHANGED <<replayVars, repairVars, issueRepairVars, authorityVars, part>>
App(A) ==
    /\ part = "app" /\ A
    /\ UNCHANGED <<childVars, repairVars, issueRepairVars, authorityVars, part>>
RepairOf(A) ==
    /\ part = "repair" /\ A
    /\ UNCHANGED <<childVars, replayVars, issueRepairVars, authorityVars, part>>
IssueOf(A) ==
    /\ part = "issue" /\ A
    /\ UNCHANGED <<childVars, replayVars, repairVars, authorityVars, part>>
Authorise(A) ==
    /\ part = "authority" /\ A /\ Len(record') <= LogLines
    /\ UNCHANGED <<attemptVars, dispatchVars, planeVars, part>>
\* Beside a repair that leaves, one writer moves, over the failure's class.
Away(A) ==
    /\ part = "dispatch" /\ A
    /\ job'[w2] = Idle /\ (job'[w1] # Idle => job'[w1].class = k1)
    /\ UNCHANGED <<attemptVars, planeVars, part>>
Back(A) == part = "plane" /\ A /\ UNCHANGED <<attemptVars, vars, dispatchVars, part>>

MCNext ==
    \/ Command(ChildNext) \/ App(ReplayNext)
    \/ RepairOf(RepairNext) \/ IssueOf(IssueRepairNext)
    \/ Authorise(Next) \/ Away(DispatchNext) \/ Back(PlaneNext)

\* A running command writes on or ends, pipes are read, and every wait of the
\* engine has a timeout.
MCSpec ==
    /\ MCInit /\ [][MCNext]_repairChainVars
    /\ WF_repairChainVars(Command(Write \/ LeaderExits))
    /\ WF_repairChainVars(Command(Drain \/ DrainEnds))
    /\ WF_repairChainVars(Command(CallerStep))
    /\ WF_repairChainVars(App(EngineStep))

-----------------------------------------------------------------------------
\* The engine comes back from what it waits for: a command, whatever the child
\* and its helper do, and a reproduction, whatever the app prints or leaves
\* unanswered.
EngineComesBack ==
    (part = "command" => CallerReturns) /\ (part = "app" => ReplayEnds)

\* A command is settled when its caller has gone on: nothing of it runs that should
\* not, its answer is the one it earned, and the engine does get there.
CommandsSettle == [](part = "command" => CommandIsSettled) /\ EngineComesBack

\* "boot-time/startup output must never be eligible evidence for a specific
\* replayed request (C2b)": a reproduction rests on a trace the app printed
\* after the replay began, or on the body of the answer.
BootIsNoEvidence ==
    (verdict = "reproduced" /\ ~names) => PrintedAfter(atMark, {"same", "own"})
=============================================================================
