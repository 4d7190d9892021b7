-------------------------------- MODULE Ship --------------------------------
(***************************************************************************)
(* `drums ship` and `drums revert` (cli/src/ship.rs, the same code the     *)
(* unattended path calls) over the append-only record.  A command reads    *)
(* the whole record once, decides, runs the deploy command for up to ten   *)
(* minutes, checks the deployed service, and only then appends the line    *)
(* every later guard reads.  Several commands may run at once; any of them *)
(* may die, and an append may fail or leave a torn line.                   *)
(***************************************************************************)
EXTENDS Naturals, SequencesExt, FiniteSets

CONSTANTS
    Failure,
    Release,        \* commits the team's own CI deploys
    RepairSha,      \* [Failure -> the commit the repair pipeline made for it]
    Command,        \* invocations of ship and revert
    Fault,          \* which faults may happen: a subset of FaultKind
    MaxDeploys,     \* bound: deploy lines CI posts
    MaxDone         \* bound: deploys made for a failure no new command adds to

FaultKind == {"deploy_fails", "crash", "append_fails"}
Repair == {RepairSha[f] : f \in Failure}
Commit == Release \cup Repair

ASSUME ShipAssumption ==
    /\ RepairSha \in [Failure -> Repair]
    /\ \A f, g \in Failure : RepairSha[f] = RepairSha[g] => f = g
    /\ Release \cap Repair = {}
    /\ Fault \subseteq FaultKind
    /\ MaxDeploys \in Nat
    /\ MaxDone \in Nat

VARIABLES
    record,     \* the lines of .drums/record.jsonl that parse, in file order
    torn,       \* the file ends in a line without its newline
    production, \* the commit the last deploy that took effect put in service
    command,    \* [Command -> what the invocation is in the middle of]
    done        \* history: [Failure -> the deploys that succeeded for it]

vars == <<record, torn, production, command, done>>

Action == {"shipped", "reverted"}
DeployLine == [kind: {"deploy"}, sha: Commit]
\* The repair commit's git parent is the deploy it is attributed to.
RepairLine == [kind: {"repair_ready"}, failure: Failure, sha: Commit, parent: Commit]
ActionLine == [kind: Action, failure: Failure, sha: Commit]
Line == DeployLine \cup RepairLine \cup ActionLine

Idle == [at |-> "idle"]
Job == [at: {"deploying", "landed", "exited"}, action: Action,
        failure: Failure, sha: Commit]

TypeOK ==
    /\ record \in Seq(Line)
    /\ torn \in BOOLEAN
    /\ production \in Commit
    /\ command \in [Command -> {Idle} \cup Job]
    /\ done \in [Failure -> Seq(Action)]

Init ==
    /\ record = << >>
    /\ torn = FALSE
    /\ production \in Release
    /\ command = [c \in Command |-> Idle]
    /\ done = [f \in Failure |-> << >>]

-----------------------------------------------------------------------------
\* engine_record::append writes the line and its newline in one write.  After
\* a torn write the next line is glued to the fragment: read_all skips both.
AppendLine(line) ==
    /\ record' = IF torn THEN record ELSE Append(record, line)
    /\ torn' = FALSE

\* What the append-only record answers a reader: positions of lines in it.
LinesAt(kinds, f) ==
    {i \in DOMAIN record : record[i].kind \in kinds /\ record[i].failure = f}
DeploysAt == {i \in DOMAIN record : record[i].kind = "deploy"}
Newest(at) == {i \in at : \A j \in at : j <= i}

\* Mutant: a failure whose last line is `reverted` may be shipped again.
NotShippedLast(f) ==
    \A i \in Newest(LinesAt(Action, f)) : record[i].kind = "reverted"

NotActioned(f) == LinesAt(Action, f) = {}

\* Mutant: the deploy that came after the attributed one.
DeployAfter(sha) ==
    {record[i].sha : i \in
        {j \in DeploysAt : \E k \in Newest({m \in DeploysAt : record[m].sha = sha}) :
            k < j /\ \A m \in DeploysAt : m > k => j <= m}}

\* The deploy recorded just before the last one of this commit, if any.
DeployBefore(sha) ==
    {record[i].sha : i \in
        Newest({j \in DeploysAt :
            \E k \in Newest({m \in DeploysAt : record[m].sha = sha}) : j < k})}

Become(c, j) == command' = [command EXCEPT ![c] = j]
Deploying(action, f, sha) ==
    [at |-> "deploying", action |-> action, failure |-> f, sha |-> sha]

-----------------------------------------------------------------------------
\* CI deploys a release, or its hook reports the commit a drums deploy left in
\* production: POST /v1/deploys appends the line, repeated commits included.
PostDeploy(sha) ==
    /\ Cardinality(DeploysAt) < MaxDeploys
    /\ production' = sha
    /\ AppendLine([kind |-> "deploy", sha |-> sha])
    /\ UNCHANGED <<command, done>>

\* The engine's pipeline commits a repair on top of the deploy the failure was
\* attributed to when it was first seen, and appends `repair_ready`.
RepairReady(f) ==
    /\ LinesAt({"repair_ready"}, f) = {}
    /\ \E i \in DeploysAt :
          AppendLine([kind |-> "repair_ready", failure |-> f,
                      sha |-> RepairSha[f], parent |-> record[i].sha])
    /\ UNCHANGED <<production, command, done>>

\* `drums ship`: the newest repair_ready of a failure with no shipped and no
\* reverted line.  A refusal changes nothing.
StartShip(c, f) ==
    /\ command[c] = Idle
    /\ Len(done[f]) < MaxDone
    /\ NotActioned(f)
    /\ \E i \in Newest(LinesAt({"repair_ready"}, f)) :
          Become(c, Deploying("shipped", f, record[i].sha))
    /\ UNCHANGED <<record, torn, production, done>>

\* The commit a shipped repair was made on, asked of git: sha^.
Attributed(sha) ==
    {record[i].parent : i \in
        {j \in DOMAIN record : record[j].kind = "repair_ready" /\ record[j].sha = sha}}

\* `drums revert`: a shipped failure with no reverted line, rolled back to the
\* deploy before the one its shipped repair is attributed to.
StartRevert(c, f) ==
    /\ command[c] = Idle
    /\ Len(done[f]) < MaxDone
    /\ LinesAt({"reverted"}, f) = {}
    /\ \E i \in Newest(LinesAt({"shipped"}, f)) :
          \E parent \in Attributed(record[i].sha) :
              \E sha \in DeployBefore(parent) :
                  Become(c, Deploying("reverted", f, sha))
    /\ UNCHANGED <<record, torn, production, done>>

\* The deploy command takes effect some time before it exits, if it does.
DeployLands(c) ==
    /\ command[c].at = "deploying"
    /\ production' = command[c].sha
    /\ Become(c, [command[c] EXCEPT !.at = "landed"])
    /\ UNCHANGED <<record, torn, done>>

\* It exits with success: the deploy happened, nothing says so yet.
DeployExits(c) ==
    /\ command[c].at = "landed"
    /\ Become(c, [command[c] EXCEPT !.at = "exited"])
    /\ done' = [done EXCEPT ![command[c].failure] = Append(@, command[c].action)]
    /\ UNCHANGED <<record, torn, production>>

\* It exits with an error, or is killed at DEPLOY_TIMEOUT, before or after it
\* took effect: the command reports the error and appends nothing.
DeployFails(c) ==
    /\ "deploy_fails" \in Fault
    /\ command[c].at \in {"deploying", "landed"}
    /\ Become(c, Idle)
    /\ UNCHANGED <<record, torn, production, done>>

\* Mutant: the line is written before the deploy has run.
AppendAtStart(c) ==
    /\ command[c].at = "deploying"
    /\ AppendLine([kind |-> command[c].action, failure |-> command[c].failure,
                   sha |-> command[c].sha])
    /\ Become(c, Idle)
    /\ UNCHANGED <<production, done>>

\* Mutant: the check has no timeout and waits until the commit answers.
AppendWhenServed(c) ==
    /\ command[c].at = "exited"
    /\ production = command[c].sha
    /\ AppendLine([kind |-> command[c].action, failure |-> command[c].failure,
                   sha |-> command[c].sha])
    /\ Become(c, Idle)
    /\ UNCHANGED <<production, done>>

\* The post-deploy checks only add claims; then the line is appended.
AppendOutcome(c) ==
    /\ command[c].at = "exited"
    /\ AppendLine([kind |-> command[c].action, failure |-> command[c].failure,
                   sha |-> command[c].sha])
    /\ Become(c, Idle)
    /\ UNCHANGED <<production, done>>

\* The append fails, with nothing written or with part of the line: the ship
\* still succeeds and says the line is missing.
AppendFails(c) ==
    /\ "append_fails" \in Fault
    /\ command[c].at = "exited"
    /\ torn' \in {torn, TRUE}
    /\ Become(c, Idle)
    /\ UNCHANGED <<record, production, done>>

\* The process dies.  A deploy it had started may still take effect; a line it
\* was writing may be torn.
Crash(c) ==
    /\ "crash" \in Fault
    /\ command[c] # Idle
    /\ production' \in {production} \cup
           (IF command[c].at = "deploying" THEN {command[c].sha} ELSE {})
    /\ torn' \in {torn} \cup (IF command[c].at = "exited" THEN {TRUE} ELSE {})
    /\ Become(c, Idle)
    /\ UNCHANGED <<record, done>>

Step(c) ==
    DeployLands(c) \/ DeployExits(c) \/ DeployFails(c) \/ AppendOutcome(c)
        \/ AppendFails(c)

Next ==
    \/ \E sha \in Release \cup {production} : PostDeploy(sha)
    \/ \E f \in Failure : RepairReady(f)
    \/ \E c \in Command :
          \/ \E f \in Failure : StartShip(c, f) \/ StartRevert(c, f)
          \/ Step(c)
          \/ Crash(c)

Spec == Init /\ [][Next]_vars

\* A command that has started keeps running: the deploy is waited for under a
\* timeout, and nothing after it waits on anyone else.
FairSpec == Spec /\ \A c \in Command : WF_vars(Step(c))

-----------------------------------------------------------------------------
\* A shipped or reverted line is never there for a deploy that did not
\* succeed, however many commands raced or died: the record may forget a
\* deploy but never invents one.
RecordedDeploysHappened ==
    \A i \in DOMAIN record :
        record[i].kind \in Action =>
            record[i].kind \in ToSet(done[record[i].failure])

\* A revert in progress puts back a commit that production was recorded to run
\* just before the deploy it undoes, as recorded before it.
RollsBackInHistory ==
    \A c \in Command :
        (command[c].at # "idle" /\ command[c].action = "reverted") =>
            \E i, j \in DeploysAt :
                /\ i < j /\ \A k \in DeploysAt : ~(i < k /\ k < j)
                /\ record[i].sha = command[c].sha
                /\ \E l \in LinesAt({"repair_ready"}, command[c].failure) :
                       record[j].sha = record[l].parent

\* Every deploy that succeeded is written down in the end, unless the append
\* or the process failed.
LineOwed == \E f \in Failure, a \in Action : a \in ToSet(done[f]) /\ LinesAt({a}, f) = {}
DeploysAreRecorded == LineOwed ~> ~LineOwed

\* ship and revert keep the promise their refusals make.
Promise == INSTANCE ShipPromise
KeepsPromise == Promise!Spec
=============================================================================
