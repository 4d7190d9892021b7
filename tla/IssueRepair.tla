----------------------------- MODULE IssueRepair -----------------------------
(***************************************************************************)
(* Repairs without a failure to replay (check/src/lib.rs): the task of a   *)
(* reported issue (repair_reported in cli/src/engine.rs) and drums check   *)
(* with a repair.  Each runs the checks package.json declares in a         *)
(* worktree of the revision, lets the agent work there, commits to a       *)
(* branch named after the revision, and runs the checks again.  Worktrees  *)
(* share the repository's branches.  A report's repair may become a        *)
(* proposal, and its thread is answered last (track/src/lib.rs).           *)
(***************************************************************************)
EXTENDS Naturals

CONSTANTS
    Task,      \* repair tasks, of reports and of drums check
    Revision,  \* what HEAD may be
    MaxRunnable \* bound: tests a suite runs

NoTask == "nobody"

ASSUME IssueRepairAssumption == NoTask \notin Task /\ MaxRunnable \in Nat

VARIABLES
    work,      \* [Task -> its kind, stage, revision, the tests it began with, and the tree the agent left]
    head,      \* the repository's HEAD
    branches,  \* [branch -> the task that made it]
    proposed,  \* the tasks whose branch was proposed
    thread     \* [Task -> the comments under the report it came from]

toldVars == <<proposed, thread>>
issueRepairVars == <<work, head, branches, toldVars>>

RepairKind == {"issue", "check"}

\* scripts.build and scripts.test of a checkout: undeclared, passing or failing,
\* and how many tests the suite runs.
Tree ==
    {c \in [build: {"none", "ok", "fails"}, test: {"none", "ok", "fails"},
            tests: 0 .. MaxRunnable] : c.test = "none" => c.tests = 0}
Untouched == [build |-> "none", test |-> "none", tests |-> 0]

IssueRepairInit ==
    /\ head \in Revision
    /\ work = [t \in Task |-> [kind |-> "issue", at |-> "waiting", rev |-> head,
                               before |-> 0, after |-> Untouched]]
    /\ branches = [b \in RepairKind \X Revision |-> NoTask]
    /\ proposed = {} /\ thread = [t \in Task |-> {}]

-----------------------------------------------------------------------------
\* run_check_in_dir wants a build script, run_declared_checks any of the two;
\* the suite is run when the build did not fail.
Runnable(kind, c) == c.build # "none" \/ (kind = "issue" /\ c.test # "none")
Clears(c) == c.build # "fails" /\ c.test # "fails"

\* What the agent is asked for: to repair a build that fails, or to change a
\* tree that fails nothing.
Worthwhile(kind, c) ==
    Runnable(kind, c) /\ (IF kind = "check" THEN c.build = "fails" ELSE Clears(c))

Moves(t, from, to) == work[t].at = from /\ work' = [work EXCEPT ![t].at = to]

Begin(t) ==
    /\ work[t].at = "waiting"
    /\ \E kind \in RepairKind, c \in Tree :
           work' = [work EXCEPT ![t] =
               [kind |-> kind, rev |-> head, before |-> c.tests, after |-> Untouched,
                at |-> IF Worthwhile(kind, c) THEN "agent" ELSE "declined"]]
    /\ UNCHANGED <<head, branches, toldVars>>

\* The agent may leave the checkout in any state, package.json included.
AgentWorks(t) ==
    /\ work[t].at = "agent"
    /\ \E c \in Tree :
           work' = [work EXCEPT ![t].at = "commit", ![t].after = c]
    /\ UNCHANGED <<head, branches, toldVars>>

\* No fix, or the agent fails: the worktree is kept, there is no branch.
AgentFails(t) == Moves(t, "agent", "failed") /\ UNCHANGED <<head, branches, toldVars>>

\* commit_check_repair: git switch -c refuses a branch that is there, whosever.
BranchOf(t) == <<work[t].kind, work[t].rev>>
CommitTreeForces(t) ==
    /\ Moves(t, "commit", "recheck")
    /\ branches' = [branches EXCEPT ![BranchOf(t)] = t]
    /\ UNCHANGED <<head, toldVars>>
CommitTree(t) ==
    /\ Moves(t, "commit", "recheck")
    /\ branches[BranchOf(t)] = NoTask
    /\ branches' = [branches EXCEPT ![BranchOf(t)] = t]
    /\ UNCHANGED <<head, toldVars>>

\* Or git cannot: the branch is taken, or there is nothing to commit on it, and it stays
\* where the revision is.
CommitTreeFails(t) ==
    /\ Moves(t, "commit", "unbranched")
    /\ \/ UNCHANGED branches
       \/ /\ branches[BranchOf(t)] = NoTask
          /\ branches' = [branches EXCEPT ![BranchOf(t)] = t]
    /\ UNCHANGED <<head, toldVars>>

\* The same checks on the commit.  An error, as of a check that is gone or
\* hangs, is a failure that names the branch.
Recheck(t) ==
    /\ \/ Runnable(work[t].kind, work[t].after) /\ Clears(work[t].after) /\ Moves(t, "recheck", "ready")
       \/ Moves(t, "recheck", "failed")
    /\ UNCHANGED <<head, branches, toldVars>>

\* A report's repair is proposed, if proposals are configured and the forge takes it.
Propose(t) ==
    /\ work[t].kind = "issue" /\ work[t].at = "ready"
    /\ \/ Moves(t, "ready", "proposed") /\ proposed' = proposed \cup {t}
       \/ Moves(t, "ready", "unproposed") /\ UNCHANGED proposed
    /\ UNCHANGED <<head, branches, thread>>

\* render_comment: what the second run of the checks passed, that a person has to
\* say whether it looks right, and where to review the change, if anywhere.
Passed(c) == {script \in {"build", "test"} : c[script] = "ok"}
CommentOn(t) == [verified |-> Passed(work[t].after), unresolved |-> {"looks", "resolves"},
                 review |-> work[t].at = "proposed"]

\* for_source and comment: the thread is answered last, if the report came from a tracker
\* with a key and an id to answer to, and the tracker says that it took the comment.
AnswerThread(t) ==
    /\ work[t].at \in {"proposed", "unproposed"}
    /\ work' = [work EXCEPT ![t].at = "told"]
    /\ \/ thread' = [thread EXCEPT ![t] = @ \cup {CommentOn(t)}]
       \/ UNCHANGED thread
    /\ UNCHANGED <<head, branches, proposed>>

HeadMoves ==
    /\ \E r \in Revision \ {head} : head' = r
    /\ UNCHANGED <<work, branches, toldVars>>

\* A person takes or drops what a finished task left behind.
DeleteBranch(b) ==
    /\ branches[b] # NoTask
    /\ work[branches[b]].at \in {"told", "failed", "unbranched"} \cup (IF b[1] = "check" THEN {"ready"} ELSE {})
    /\ work' = [work EXCEPT ![branches[b]].at = "dealt_with"]
    /\ branches' = [branches EXCEPT ![b] = NoTask]
    /\ UNCHANGED <<head, toldVars>>

WorkOn(t) ==
    Begin(t) \/ AgentWorks(t) \/ AgentFails(t) \/ CommitTree(t) \/ CommitTreeFails(t) \/ Recheck(t)
        \/ Propose(t) \/ AnswerThread(t)

IssueRepairNext ==
    \/ \E t \in Task : WorkOn(t)
    \/ HeadMoves
    \/ \E b \in RepairKind \X Revision : DeleteBranch(b)

-----------------------------------------------------------------------------
Stage == {"waiting", "declined", "agent", "commit", "recheck", "ready", "failed",
          "unbranched", "proposed", "unproposed", "told", "dealt_with"}
TaskState == [kind: RepairKind, rev: Revision, before: 0 .. MaxRunnable, after: Tree, at: Stage]
Comment == [verified: SUBSET {"build", "test"}, unresolved: SUBSET {"looks", "resolves"},
            review: BOOLEAN]

IssueRepairTypeOK ==
    /\ head \in Revision
    /\ branches \in [RepairKind \X Revision -> Task \cup {NoTask}]
    /\ work \in [Task -> TaskState]
    /\ proposed \subseteq Task
    /\ thread \in [Task -> SUBSET Comment]

Repaired(t) == work[t].at \in {"ready", "proposed", "unproposed", "told"}

\* Tasks of one revision want one branch, an agent's run apart: what is reported
\* as ready is on the branch it names, and cleared the checks it started from
\* that are still declared.  The person who reported it is told so only then, once:
\* no check that did not pass, a place to review it only where there is one, and
\* never that it looks right.
ReadyIsReviewable ==
    \A t \in Task :
        /\ Repaired(t) =>
            /\ branches[BranchOf(t)] = t
            /\ work[t].after.build # "fails" /\ work[t].after.test # "fails"
        /\ \A c \in thread[t] :
            /\ thread[t] = {c}
            /\ work[t].at \in {"told", "dealt_with"}
            /\ \A script \in c.verified : work[t].after[script] = "ok"
            /\ c.review <=> t \in proposed
            /\ "looks" \in c.unresolved

\* "The acceptance bar is non-regression ... Build still passes, tests still
\* pass, and no fewer tests run than before.  That is everything this code can
\* execute."
NoFewerTests ==
    \A t \in Task :
        Repaired(t) => work[t].after.tests >= work[t].before

IssueRepairSpec == IssueRepairInit /\ [][IssueRepairNext]_issueRepairVars
=============================================================================
