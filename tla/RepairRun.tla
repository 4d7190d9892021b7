----------------------------- MODULE RepairRun -----------------------------
(***************************************************************************)
(* One repair attempt (cli/src/engine.rs, run_repair_pipeline): a worktree  *)
(* at the attributed commit, a baseline of the app's own tests, the agent   *)
(* let loose on the checkout, a commit of what it did, and the checks that  *)
(* earn the claims.  The agent may do anything to the files; what it may    *)
(* not do is clear the test gate by weakening the tests.                    *)
(***************************************************************************)
EXTENDS Integers, FiniteSets, Functions

CONSTANTS
    TestFile,   \* the tracked files that look like tests
    MaxTests    \* bound: tests one file holds

ASSUME RepairAssumption == IsFiniteSet(TestFile) /\ MaxTests \in Nat

\* A checkout: what package.json says of a test script (two scripts differ in
\* text), how many tests each test file holds, and where the code that makes
\* the failing request succeed is, if anywhere: in tracked files, or in files
\* git ignores.  A test file may be gone, empty, or have content and some tests.
Gone == -2
Empty == -1
Declared == {"script", "other_script"}
Package == Declared \cup {"no_package_json", "unusable", "not_declared"}
Fix == {"nowhere", "tracked", "ignored"}
Checkout == [package: Package, tests: [TestFile -> Gone .. MaxTests], fix: Fix]

Unread == "unread"      \* package.json before it is read
NoBaseline == [known |-> FALSE, counted |-> FALSE, total |-> 0,
               files |-> [f \in TestFile |-> Gone]]
Baseline == [known: BOOLEAN, counted: BOOLEAN, total: Nat,
             files: [TestFile -> Gone .. MaxTests]]

VARIABLES
    base,       \* the attributed commit
    replayable, \* the failing request was captured
    at,         \* where the pipeline is
    dir,        \* the worktree's files, while they exist
    onDisk,     \* the worktree exists
    litter,     \* it holds untracked files the app's own tests left
    before,     \* the test script read before the agent ran
    baseline,   \* what that script did then
    branch,     \* the commit its branch is at, once the branch exists
    claims,     \* what the checks earned: what was checked, and how far
    outcome,
    named       \* what RepairFailed names: the worktree, the branch

repairVars == <<base, replayable, at, dir, onDisk, litter, before, baseline,
                branch, claims, outcome, named>>

At == {"start", "script", "baseline", "agent", "commit", "boot", "replay",
       "health", "tests", "ended"}
Checked == {"request", "health", "suite"}
Claim == [what: Checked, provenance: {"verified", "unresolved"}]

RepairTypeOK ==
    /\ base \in Checkout /\ dir \in Checkout
    /\ replayable \in BOOLEAN /\ onDisk \in BOOLEAN /\ litter \in BOOLEAN
    /\ at \in At
    /\ before \in Package \cup {Unread}
    /\ baseline \in Baseline
    /\ branch \subseteq Checkout /\ Cardinality(branch) <= 1
    /\ claims \subseteq Claim
    /\ outcome \in {"none", "ready", "failed", "cancelled"}
    /\ named \subseteq {"worktree", "branch"}

RepairInit ==
    /\ base \in {c \in Checkout : c.fix = "nowhere" /\ \A f \in TestFile : c.tests[f] # Gone}
    /\ replayable \in BOOLEAN
    /\ at = "start" /\ dir = base /\ onDisk = FALSE /\ litter = FALSE
    /\ before = Unread /\ baseline = NoBaseline
    /\ branch = {} /\ claims = {} /\ outcome = "none" /\ named = {}

-----------------------------------------------------------------------------
Holds(c, f) == IF c.tests[f] \in {Gone, Empty} THEN 0 ELSE c.tests[f]
Total(c) == SumFunction([f \in TestFile |-> Holds(c, f)])

\* What a commit of a checkout contains: nothing that git ignores.
Tracked(c) == [c EXCEPT !.fix = IF @ = "ignored" THEN "nowhere" ELSE @]

\* The worktree is removed on the way out unless a failure keeps it.
End(how, keeps, names) ==
    /\ at' = "ended"
    /\ outcome' = how
    /\ onDisk' = keeps
    /\ named' = names

Fails(names) == End("failed", "worktree" \in names, names)

\* ManagedWorktree::create, detached at the commit.
CreateWorktree ==
    /\ at = "start"
    /\ \/ /\ at' = "script" /\ onDisk' = TRUE
          /\ UNCHANGED <<outcome, named>>
       \/ Fails({})
    /\ UNCHANGED <<base, replayable, dir, litter, before, baseline, branch, claims>>

\* read_test_script, of the checkout as it is now.
ReadTestScript == dir.package

ReadScript ==
    /\ at = "script"
    /\ before' = ReadTestScript
    /\ at' = "baseline"
    /\ UNCHANGED <<base, replayable, dir, onDisk, litter, baseline, branch, claims, outcome, named>>

\* capture_test_baseline: a declared script is run once; its counts are known
\* if it passes and its output is understood.  It may leave files behind.
CaptureBaseline ==
    /\ at = "baseline"
    /\ at' = "agent"
    /\ IF before \in Declared
       THEN /\ litter' \in BOOLEAN
            /\ \E counted \in BOOLEAN :
                  baseline' = [known |-> TRUE, counted |-> counted,
                               total |-> IF counted THEN Total(dir) ELSE 0,
                               files |-> dir.tests]
       ELSE UNCHANGED <<litter, baseline>>
    /\ UNCHANGED <<base, replayable, dir, onDisk, before, branch, claims, outcome, named>>

\* Whether the agent has changed something is what git says, and no exit status: that
\* counts what the tests left and not what git ignores.
Changed(edited) == Tracked(edited) # base \/ litter

\* CliRepairAgent::repair: it cannot be started, exits with an error having changed
\* nothing, or runs out of its time, and whatever it wrote by then stays.
AgentErrs == dir' \in Checkout /\ Fails({"worktree"})

\* The agent leaves the checkout in any state at all.
RunAgent ==
    /\ at = "agent"
    /\ \/ \E edited \in Checkout :
            /\ dir' = edited
            /\ IF Changed(edited)
               THEN at' = "commit" /\ UNCHANGED <<onDisk, outcome, named>>
               ELSE Fails({"worktree"})
       \/ AgentErrs
    /\ UNCHANGED <<base, replayable, litter, before, baseline, branch, claims>>

\* commit_repair: a branch of that name may exist already, and a commit may
\* fail once its branch exists.
Commit ==
    /\ at = "commit"
    /\ \/ /\ branch' = {Tracked(dir)}
          /\ at' = "boot"
          /\ UNCHANGED <<onDisk, outcome, named>>
       \/ branch' \in {{}, {base}} /\ Fails({"worktree"})
    /\ UNCHANGED <<base, replayable, dir, litter, before, baseline, claims>>

-----------------------------------------------------------------------------
\* verify_repair: one check after the other, in the worktree.
Earn(what, provenance) == claims' = claims \cup {[what |-> what, provenance |-> provenance]}

Refuse == Fails({"worktree", "branch"}) /\ UNCHANGED claims

Goes(from, to) == at = from /\ at' = to /\ UNCHANGED <<onDisk, outcome, named>>

Unchecked == UNCHANGED <<base, replayable, dir, litter, before, baseline, branch>>

Boot ==
    /\ \/ Goes("boot", "replay") /\ UNCHANGED claims
       \/ at = "boot" /\ Refuse
    /\ Unchecked

\* The failing request must be answered 2xx; with none captured, the claim says
\* that it was not replayed.
ReplayRequest ==
    /\ IF replayable
       THEN \/ /\ dir.fix # "nowhere"
               /\ Goes("replay", "health") /\ Earn("request", "verified")
            \/ at = "replay" /\ Refuse
       ELSE Goes("replay", "health") /\ Earn("request", "unresolved")
    /\ Unchecked

Health ==
    /\ \/ Goes("health", "tests") /\ Earn("health", "verified")
       \/ at = "health" /\ Refuse
    /\ Unchecked

\* Mutant: only a deleted file is looked for.
HollowedIfGone == \E f \in TestFile : dir.tests[f] = Gone

\* find_deleted_or_emptied_test_file.
Hollowed ==
    \E f \in TestFile :
        \/ dir.tests[f] = Gone
        \/ baseline.files[f] # Empty /\ dir.tests[f] = Empty

\* The script was declared before, and is not the same now.
GateRemoved == before \in Declared /\ ReadTestScript # before

\* Ready: the claims go to the record and the worktree goes.
Finish == End("ready", FALSE, {})

\* claim_from_test_run: what a script that exited with 0 is worth.
SuiteClaim ==
    IF ~baseline.known
    THEN Earn("suite", "verified") /\ Finish
    ELSE \/ Hollowed /\ Refuse
         \/ /\ ~Hollowed
            /\ \/ Earn("suite", "unresolved") /\ Finish
               \/ /\ baseline.counted
                  /\ IF Total(dir) < baseline.total
                     THEN Refuse
                     ELSE Earn("suite", "verified") /\ Finish

\* run_package_test_script.
RunSuite ==
    /\ at = "tests"
    /\ \/ GateRemoved /\ Refuse
       \/ /\ ~GateRemoved
          /\ \/ ReadTestScript \in Declared /\ (SuiteClaim \/ Refuse)
             \/ ReadTestScript = "no_package_json" /\ UNCHANGED claims /\ Finish
             \/ ReadTestScript \in {"unusable", "not_declared"}
                    /\ Earn("suite", "unresolved") /\ Finish
    /\ Unchecked

\* The watch is stopped: the task is dropped where it stands.
CancelRepair ==
    /\ at # "ended"
    /\ End("cancelled", FALSE, {})
    /\ UNCHANGED <<base, replayable, dir, litter, before, baseline, branch, claims>>

RepairNext ==
    \/ CreateWorktree \/ ReadScript \/ CaptureBaseline
    \/ RunAgent \/ Commit
    \/ Boot \/ ReplayRequest \/ Health \/ RunSuite
    \/ CancelRepair

-----------------------------------------------------------------------------
Earned(what) == [what |-> what, provenance |-> "verified"] \in claims

\* A repair of an app that declared tests says what became of them, and does not
\* replace or remove the script; and one with a verified test claim leaves them
\* as strong on its branch: no file of tests gone or emptied, no fewer tests.
SuiteIsNoWeaker ==
    (outcome = "ready" /\ base.package \in Declared) =>
        /\ \E c \in claims : c.what = "suite"
        /\ \A c \in branch :
            /\ c.package = base.package
            /\ Earned("suite") =>
                /\ \A f \in TestFile : base.tests[f] # Empty => c.tests[f] \notin {Gone, Empty}
                /\ Total(c) >= Total(base)

\* What a failed repair names is there for a human to look at, and whatever is
\* left on disk is named.
KeptIsNamed ==
    at = "ended" =>
        /\ onDisk <=> "worktree" \in named
        /\ "branch" \in named => branch = {Tracked(dir)}
        /\ outcome = "ready" => branch = {Tracked(dir)}

\* What a repair attempt leaves behind can be reviewed.
RepairIsReviewable == SuiteIsNoWeaker /\ KeptIsNamed

RepairSpec == RepairInit /\ [][RepairNext]_repairVars
=============================================================================
