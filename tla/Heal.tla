-------------------------------- MODULE Heal --------------------------------
(***************************************************************************)
(* The loop for failures users run into in a browser (heal/): the          *)
(* collector hands an incident to the watcher, which ignores it while a    *)
(* repair runs (cli.js); the pipeline reproduces it at HEAD, has codex     *)
(* repair a worktree, replays it against the candidate, runs the guardrail *)
(* tests and gives a verdict (pipeline.js).  Its results are files and a   *)
(* memory of past incidents (memory.js).                                   *)
(***************************************************************************)
EXTENDS Naturals

CONSTANTS
    Incident,  \* incidents, reported by browsers or repaired by command
    HasTests,  \* drums.json names a guardrail test
    OpensPr,   \* a Greptile key and a GitHub remote are there
    AtHead,    \* what HEAD may be like
    Candidate, \* what codex may leave in the worktree
    MaxDeaths  \* bound: processes that die

\* What a worktree does: whether it boots and how the user's interaction goes,
\* how its tests go, and whether git diff sees a change (new files are none).
WorkTree == [goes: {"unbootable", "fails", "other", "passes"}, tests: BOOLEAN, diff: BOOLEAN]
HeadTree == [goes |-> "fails", tests |-> TRUE, diff |-> FALSE]

ASSUME HealAssumption ==
    /\ HasTests \in BOOLEAN /\ OpensPr \in BOOLEAN /\ MaxDeaths \in Nat
    /\ AtHead \cup Candidate \subseteq WorkTree
    /\ \A t \in AtHead : ~t.diff

VARIABLES
    heal,    \* [Incident -> its run: stage, state and flags of result, worktree, codex]
    files,   \* [Incident -> status.json and result.json, whose state memory.jsonl gets too]
    busy,    \* the watcher's flag
    deaths   \* history: processes that died

healVars == <<heal, files, busy, deaths>>

Verdicts == {"VERIFIED", "FAILED", "INCONCLUSIVE", "REGRESSION_FOUND"}
Marks == {"REPRODUCING", "REPRODUCED", "REPAIRING", "CANDIDATE_READY", "VERIFYING"}
Flag == {"reproduced", "diffNonEmpty", "replayPassed", "guardrailsPassed"}

Waiting == {"unseen", "ignored"}
Over == {"ended", "thrown", "dead"}

Unseen == [at |-> "unseen", by |-> "watch", state |-> "OBSERVED", flags |-> {},
           head |-> HeadTree, tree |-> HeadTree, strays |-> FALSE]
NoFiles == [status |-> "none", result |-> "none"]

HealInit ==
    /\ heal = [i \in Incident |-> Unseen]
    /\ files = [i \in Incident |-> NoFiles]
    /\ busy = FALSE /\ deaths = 0

-----------------------------------------------------------------------------
\* startCollector and its callback: whatever becomes of it, the browser is told
\* that the incident was received.
IncidentArrives(i) ==
    /\ heal[i].at = "unseen"
    /\ heal' = [heal EXCEPT ![i].at = IF busy THEN "ignored" ELSE "setup"]
    /\ busy' = TRUE
    /\ UNCHANGED <<files, deaths>>

RepairCommand(i) ==
    /\ heal[i].at = "unseen"
    /\ heal' = [heal EXCEPT ![i].at = "setup", ![i].by = "command"]
    /\ UNCHANGED <<files, busy, deaths>>

\* The callback's finally.
Released(i) == busy' = (busy /\ heal[i].by # "watch")

Stage(i, from, to) == heal[i].at = from /\ heal' = [heal EXCEPT ![i].at = to]
MarkState(i, s) == files' = [files EXCEPT ![i].status = s]

\* The worktree is added before the try: what throws here leaves no result.
SetupThrows(i) ==
    /\ Stage(i, "setup", "thrown") /\ Released(i)
    /\ UNCHANGED <<files, deaths>>
AddWorktree(i) ==
    /\ heal[i].at = "setup"
    /\ \E t \in AtHead :
           heal' = [heal EXCEPT ![i].at = "installing", ![i].state = "REPRODUCING",
                                ![i].head = t, ![i].tree = t]
    /\ MarkState(i, "REPRODUCING") /\ UNCHANGED <<busy, deaths>>

\* cfg.install, without a timeout, in the worktree.
Install(i) == Stage(i, "installing", "reproducing") /\ UNCHANGED <<files, busy, deaths>>

-----------------------------------------------------------------------------
\* verdict(): only the four flags together make a VERIFIED, and what is already
\* INCONCLUSIVE or a REGRESSION_FOUND stays so.
Verdict(flags, state) ==
    IF flags = Flag THEN "VERIFIED"
    ELSE IF state \in {"REGRESSION_FOUND", "INCONCLUSIVE"} THEN state ELSE "FAILED"

Judged(i, flags, state) ==
    heal' = [heal EXCEPT ![i].at = "finishing", ![i].flags = flags,
                         ![i].state = Verdict(flags, state)]

\* The app at HEAD is booted and the interaction replayed, which may not
\* complete: only the user's own failure, seen again, is a diagnosis.
Reproduce(i) ==
    /\ heal[i].at = "reproducing"
    /\ \/ heal[i].tree.goes = "fails"
          /\ heal' = [heal EXCEPT ![i].at = "repairing", ![i].state = "REPAIRING",
                                  ![i].flags = {"reproduced"}]
          /\ MarkState(i, "REPAIRING")
       \/ Judged(i, {}, "INCONCLUSIVE") /\ UNCHANGED files
    /\ UNCHANGED <<busy, deaths>>

\* codexRepair resolves when codex exits or after its timeout, which kills codex
\* alone: what codex started goes on in the worktree.
CodexEnds(i) ==
    /\ heal[i].at = "repairing"
    /\ \E t \in Candidate, strays \in BOOLEAN :
           heal' = [heal EXCEPT ![i].at = "diffing", ![i].tree = t, ![i].strays = strays]
    /\ UNCHANGED <<files, busy, deaths>>
StrayWrites(i) ==
    /\ heal[i].strays /\ heal[i].at \notin Over
    /\ \E t \in Candidate : heal' = [heal EXCEPT ![i].tree = t]
    /\ UNCHANGED <<files, busy, deaths>>

Diff(i) ==
    /\ heal[i].at = "diffing"
    /\ IF heal[i].tree.diff
       THEN /\ heal' = [heal EXCEPT ![i].at = "verifying", ![i].state = "VERIFYING",
                                    ![i].flags = @ \cup {"diffNonEmpty"}]
            /\ MarkState(i, "VERIFYING")
       ELSE Judged(i, heal[i].flags, heal[i].state) /\ UNCHANGED files
    /\ UNCHANGED <<busy, deaths>>

\* The candidate is booted and the same evidence replayed.
VerifyOriginalOnly(i) ==
    /\ heal[i].at = "verifying"
    /\ \/ heal[i].tree.goes \in {"passes", "other"}
          /\ heal' = [heal EXCEPT ![i].at = "guardrails", ![i].flags = @ \cup {"replayPassed"}]
       \/ Judged(i, heal[i].flags, heal[i].state)
    /\ UNCHANGED <<files, busy, deaths>>
Verify(i) ==
    /\ heal[i].at = "verifying"
    /\ \/ heal[i].tree.goes = "passes"
          /\ heal' = [heal EXCEPT ![i].at = "guardrails", ![i].flags = @ \cup {"replayPassed"}]
       \/ heal[i].tree.goes = "other" /\ Judged(i, heal[i].flags, "REGRESSION_FOUND")
       \/ Judged(i, heal[i].flags, heal[i].state)
    /\ UNCHANGED <<files, busy, deaths>>

\* The tests' shell has two minutes; without any, the replay is the bar.
Guardrails(i) ==
    /\ heal[i].at = "guardrails"
    /\ \/ /\ HasTests => heal[i].tree.tests
          /\ Judged(i, heal[i].flags \cup {"guardrailsPassed"}, heal[i].state)
       \/ HasTests /\ Judged(i, heal[i].flags, "REGRESSION_FOUND")
    /\ UNCHANGED <<files, busy, deaths>>

\* An exception between the marks goes past verdict().
Throws(i) ==
    /\ heal[i].at \in {"installing", "reproducing", "diffing", "verifying"}
    /\ Stage(i, heal[i].at, "finishing") /\ UNCHANGED <<files, busy, deaths>>

-----------------------------------------------------------------------------
\* The finally block writes the result, and the same state to the memory of
\* incidents.
FinishHeal(i, from) ==
    /\ Stage(i, from, "ended") /\ Released(i)
    /\ files' = [files EXCEPT ![i].result = heal[i].state]
    /\ UNCHANGED deaths

\* openCandidatePr waits for git and gh without a timeout; its failure is of no
\* account.
ForPr(i) == OpensPr /\ heal[i].state = "VERIFIED"
OpenPr(i) ==
    /\ ForPr(i) /\ Stage(i, "finishing", "opening_pr")
    /\ UNCHANGED <<files, busy, deaths>>
PrEnds(i) == FinishHeal(i, "opening_pr")
WriteResult(i) == ~ForPr(i) /\ FinishHeal(i, "finishing")

\* The process ends, as it does when there is no codex to run: a new watcher
\* starts idle.
Dies(i) ==
    /\ heal[i].at \notin Waiting \cup Over /\ deaths < MaxDeaths
    /\ heal' = [heal EXCEPT ![i].at = "dead"]
    /\ deaths' = deaths + 1 /\ Released(i)
    /\ UNCHANGED files

\* What ends by itself: codex, which is given up after its timeout, and the process's
\* own work.
HealStep(i) == CodexEnds(i) \/ OpenPr(i) \/ WriteResult(i)

\* Waits for git, the install, a browser that opens pages, evaluates and closes,
\* the tests' shell and gh, which nothing ends.
Untimed == {"setup", "installing", "reproducing", "diffing", "verifying", "guardrails",
            "opening_pr"}
Answers(i) ==
    \/ SetupThrows(i) \/ AddWorktree(i) \/ Install(i) \/ Reproduce(i) \/ Diff(i)
    \/ Verify(i) \/ Guardrails(i) \/ PrEnds(i) \/ Throws(i)

HealNext == \E i \in Incident :
    \/ IncidentArrives(i) \/ RepairCommand(i) \/ HealStep(i) \/ Answers(i)
    \/ StrayWrites(i) \/ Dies(i)

-----------------------------------------------------------------------------
HealTypeOK ==
    /\ heal \in [Incident -> [
           at: Waiting \cup Over \cup {"setup", "installing", "reproducing", "repairing",
               "diffing", "verifying", "guardrails", "finishing", "opening_pr"},
           by: {"watch", "command"}, state: Verdicts \cup Marks \cup {"OBSERVED"},
           flags: SUBSET Flag, head: WorkTree, tree: WorkTree, strays: BOOLEAN]]
    /\ files \in [Incident -> [status: Marks \cup {"none"},
           result: Verdicts \cup Marks \cup {"none"}]]
    /\ busy \in BOOLEAN /\ deaths \in 0 .. MaxDeaths

\* "VERIFIED requires 1. the original failure reproduced against HEAD, 2. a
\* non-empty code change, 3. the SAME replay passing against the changed,
\* rebooted app, 4. guardrails passing": whatever threw, timed out or was already
\* decided, a result says VERIFIED only of such a worktree, as long as nothing
\* that codex left behind writes to it.
VerifiedIsEarned ==
    \A i \in Incident : files[i].result = "VERIFIED" =>
        /\ heal[i].head.goes = "fails"
        /\ ~heal[i].strays =>
            /\ heal[i].tree.diff /\ heal[i].tree.goes = "passes"
            /\ HasTests => heal[i].tree.tests

\* The watcher takes no incident exactly while a repair of its own runs; and a
\* repair ends, by whatever way, if what it waits for without a timeout ends, however
\* that does and whatever codex does.
Running(i) == heal[i].at \notin Waiting \cup Over
Watching == \E i \in Incident : heal[i].by = "watch" /\ Running(i)
WaitsEnd == \A i \in Incident, s \in Untimed : []<>(heal[i].at # s)
HealEnds ==
    /\ [](busy <=> Watching)
    /\ WaitsEnd => \A i \in Incident : []<>~Running(i)

HealSpec ==
    HealInit /\ [][HealNext]_healVars /\ \A i \in Incident : WF_healVars(HealStep(i))
=============================================================================
