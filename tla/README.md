# Drums: specifications

Drums watches a running service for bursts of errors, attributes a burst to the
deploy that caused it, reproduces the failure, has a coding agent repair it,
verifies the repair, and ships it: by a person's command, or alone when the
person consented and the class of failure earned it. Everything it does is a
line of an append-only record, `.drums/record.jsonl`.

This directory holds TLA+ models of that engine, TLC configurations that check
them on small instances, and proofs about them for every size. Paths below are
relative to `src/engine/crates/` unless they start with `src/`.

    tlc -workers 2 -config MCPipeline.cfg MCPipeline      # any run of the table below
    tlapm ShipProofs.tla                                  # any *Proofs module

## The system

| Part | State it keeps | Operations | Talks to | Modules |
|---|---|---|---|---|
| Record (`record`) | the file; torn lines; an in-process lock | append, read_all | everybody: the record is the only state that outlives a process | `RecordFile` |
| Ingest (`ingest`) | none but the record and a channel | POST /v1/deploys, /v1/events | appends, then sends to the engine loop | `Watch` |
| Adapters (`ingest/src/adapters.rs`) | none but the record and a channel | deliveries of Railway, Linear, Agentation | append a masked line, then forward it | `Adapters`, `Intake` |
| App root (`cli/src/app_root.rs`) | a cache of paths looked up | derive the deployment's prefix, cut it out of a stack | git ls-files, the signature of every error | `AppRoot` |
| Detector (`detect`), engine loop (`cli/src/engine.rs`) | windows and gates per signature; deploys heard | observe, reopen, spawn a task per failure | channels from ingest and from repair tasks | `Watch` |
| Restore (`cli/src/restore.rs`) | - | rebuild the gates from the record | drumsd at start | `Watch` |
| Observation tick, tracker poll | what it read of the record | notice, poll, measure, evaluate, revisit, draft | behaviour sources, tracker, console | `Observation`, `Intake`, `BetLedger` |
| Behaviour sources (`behavior`) | none: PostHog or the console counts | sample a window, observe | the tick, `drums change` | `Behavior` |
| Bets, hypotheses, changes (`core`, `cli/src/bet_cmd.rs`, `change_cmd.rs`) | lines of the record | create, confirm, decline, ship a change, learn | the record, the tick | `BetLedger`, `Evaluation` |
| Reproduction (`repro`) | a worktree, an app, its stderr buffer | boot, mark, replay, settle, judge | git, the app | `Replay` |
| Repair (`repair`, `cli/src/engine.rs`) | a worktree, a branch, claims | baseline, agent, commit, verify | git, the agent, the app's tests | `RepairRun`, `Pipeline` |
| Reported issues and checks (`check`, `track`) | a worktree, a branch named after the revision; the issue's thread | check, repair, commit, recheck, propose, answer | git, the agent, the tracker | `IssueRepair` |
| Authority ladder (`authority`, `core/src/authority.rs`) | none: a fold of the record | record_outcome, promote, demote, ship_decision | the record | `Authority`, `AuthorityLog` |
| Ship and revert (`cli/src/ship.rs`) | none but the record | ship, revert | deploy command, post-deploy checks | `Ship`, `ShipPromise` |
| Proposal (`propose`) | none | push, look for a pull request, create one | git, gh, the people of the repository | `Proposal` |
| Dispatch (`cli/src/dispatch.rs`, `repair_cmd.rs`) | a job at the console | reproduce, ask, post, fold events | console, CI runner | `Dispatch` |
| Remote evidence (`plane`) | runs already spent | accept, demote, consume | nobody outside its tests yet | `Plane` |
| Record sync (`cli/src/sync.rs`) | none: the plane says what it holds | pass | the hosted plane | `RecordSync`, `Mirror` |
| Semantic index (`semantic`) | semantic.db, derived: a graph, and vectors by hash | refresh, rebuild, embed, delete | the record, the tick, drums index and ask, an endpoint | `SemanticIndex` |
| Child processes (`cli/src/proc.rs` and its users) | process groups, drains | wait, time out, kill or spare | agent, test script, deploy command | `ChildGroup` |
| Daemon (`cli/src/daemon.rs`) | a pidfile | start, stop, status | drumsd | `Daemon` |
| API and terminal (`cli/src/api.rs`, `ui/model.rs`) | a card per failure | fold the engine's events | the engine's channel, one after the other | `Views` |
| Messages, digest, recall (`cli/src/notify.rs`, `digest.rs`, `recall`) | ids sent by this process | send once; tell the record again, to people and to the next agent | Slack, whoever runs the digest, the agent's prompt | `Notices`, `Digest` |
| Reading the record (`cli/src/record_cmd.rs`, `why.rs`) | none | list, filter, count | the record | `RecordReading` |
| Heal (`src/heal`) | one run's result, a worktree, a busy flag | the same loop for browser interactions, in JavaScript | codex, browser | `Heal` |
| Account (`cli/src/login.rs`, `account.rs`, `license.rs`) | credentials.toml, license.key | login, logout, activate, read again | the console, everybody who talks to it | `Account` |
| Start of a watch, telemetry (`cli/src/main.rs`, `telemetry.rs`) | ~/.drums: an install id, a marker | refuse, take an id, open the port, tell, beat | other watches of the machine, the console | `WatchStart` |
| Set-up (`cli/src/setup.rs`, `wire.rs`, `config.rs`, `doctor.rs`) | the files of a repository | init, init --wire, self-test, doctor | the team's own edits, the record, the daemon | `Setup` |
| Demonstration app | - | - | - | - |

What is hard about it: every failure has a task of its own and all run at once
over one file, beside the operator's commands in other processes; the file has
no transactions, so whatever is read is stale when it is acted on, and lines
that belong together may be cut apart by a crash; deploys take minutes; children
hang, leave helpers behind and print more than a pipe holds; commands that are
given up on take effect later; an agent that is judged by tests may change the
tests; posts are lost and repeated; views and messages follow at their own pace;
and the process restarts from the record alone. Files outside the record (a
pidfile, credentials, an install id, a repository's config) have no lock either.

## Modules

`Authority` holds the pure part of the ladder: `Ladder(record)` folds the lines
as `Ladder::load` does, `FoldOutcome` is `fold_outcome`, `PromotionCandidates`
and `ShipDecision` are the functions of those names. Two modules are built on it.

* `AuthorityLog`: the writers of authority lines. `record_outcome` is three
  steps (load, append the outcome, append the demotion decided on what was
  loaded) and the process may die between them; `promote` checks and appends in
  two. The variable `ladder` is the fold kept up to date line by line.
* `Pipeline`: the task of one failure, a stage at a time (`task[f]`), over a
  record it shares with the other tasks and with the operator, whose ship,
  revert, promote and demote are one step each here. Faults (`Fault`): a deploy
  that fails, an append that fails, a record that cannot be read, a crash that
  ends every task. Reproduction, repair and verification enter as choices.

`Ship` takes ship and revert apart: read and decide (`StartShip`,
`StartRevert`), the deploy lands, the command exits, the line is appended. Any
of it may fail or die, and `PostDeploy` and `RepairReady` let the record grow
meanwhile. `ShipPromise` is the abstract specification: per failure, one ship,
then one revert.

`BetLedger` is the record of what is tried on purpose. A command reads the
record once, decides, and appends its lines one at a time (`CommandAppends`); it
may die between two. The observation tick goes through `Phases`, with the clock
and the record it read at its start: it appends what was noticed, measures
changes whose window elapsed, evaluates bets whose chain closed, revisits at the
horizons and may draft a bet. What an outcome says is `Evaluation`'s, which
decides single measurements over every small plan; there the numbers are
integers, and the two metrics stand for those that should rise and those that
should fall. `Notices` extends `BetLedger` with the messages of the tick and the
sink that takes an id once.

`Observation` and `Intake` are what a tick finds: an error whose rate moved with
the latest deploy, clicks of frustration, issues of the tracker. Facts have ids a
restart computes again; the poll compares ids of the record; webhooks do not.
`Adapters` is what becomes of a webhook: an address (`ExternalId`), a title and a
body made of notes, a copy for the record with the values of sensitive keys
masked line by line (`RedactText`, `RedactPayload`), the append and the forward. A
text is its lines, a line its key=value pairs and the marks before them.

`Behavior` is what a source counts: events of persons that arrive late, a sample
over a window rounded to seconds, the baseline, the measurement and the revisits of
one change, and `observe`. `BetLedger` takes its readings as numbers; this module
says of which window they are.

`Watch` composes ingest, detector, loop and restart. A handler's append and send
are two steps and handlers are not ordered, so the channel and the record hold
events in different orders. `Restart` empties every channel, window and task and
rebuilds the gates (`Restored`). `heard` is a history variable. `AppRoot` is what
gives an error its signature before the detector counts it: the suffix of a
reported path that git tracks, the cache of what was looked up, the cut, and
commits beside them. `WatchStart` is what precedes the loop: several starts of one
machine, each from its flags to its first heartbeat, over one install id, one
marker and one port.

`RecordFile` models the file by the lines that decode and how it ends, because
an append is glued to an end without a newline. `RecordSync` extends it with the
couriers: a pass asks, reads once, posts in batches, handles the answer; a post
given up may still arrive. The plane is external: its actions come from how
`sync.rs` reads its answers. `Mirror` is the abstract specification.
`SemanticIndex` extends the same file with the readers that rebuild the index:
read, compare the count, write in one transaction, each a step of its own; then
the vectors of the texts, kept by the hash of the text. `RecordReading` is the
reading of the file by `drums record` and `drums why`, pure operators over a page
that processes append to and die over: a torn end swallows the line after it.

`ChildGroup` is one child, a helper in its group, the pipe, the drain and the
waiting caller. The three callers differ in when they kill: the agent's always
(a drop guard), the test script's when it is waited for, the deploy's never once
it exited.

`Replay` is the app's stderr (`written`), what the drain has read of it
(`drained`), the capped buffer, the mark, and the engine from boot to verdict.
An entry is a whole trace (`same`: the failure's signature from other work,
`own`: the replayed request's, `other`) or chatter (`log`).

`RepairRun` is one attempt over an abstract checkout: which test script
package.json declares, how many tests each test file holds, and where the fix is.
The agent leaves the checkout in any state whatever. `IssueRepair` is the attempt
that has no request to replay, several at once over one repository's branches, up
to the proposal and the answer in the issue's thread. `Dispatch` extends
`AuthorityLog`: a repair that leaves the machine when the ladder as read at that
moment says so, and the outcome the runner folds from its events. `Plane` is the
evidence such outcomes carry.

`Proposal` is one repair's way to a pull request, beside another repair that
wants the same branch name, people, and commands that outlive their timeout
(`outliving`). `Views` is the event stream of a failure's task and its two
readers, the API's card and then the terminal's. `Digest` is the record told once
a day over a window, and told to the next agent (`Remembered`).

`Daemon` is start and stop over a pidfile nothing locks. `Heal` is the JavaScript
pipeline from the incident to the files it leaves, with the exceptions and where
they go. `Account` is sign-ins beside each other over one credentials file, the
watches that read it again at each use, and the licence key a promotion asks for; a
token is named by the sign-in it was minted for. `Setup` is several `drums init` and
`drums init --wire` over one repository's files, each planning, asking, looking
again and writing in two steps (`fs::write` cuts, then writes), beside the team's
edits; and what a daemon and `drums doctor` make of the result.

The `MC*` modules give constants their values. They put components side
by side: a behaviour is about one of them (`part`) and the others rest at their
start. Where components share state they are one specification instead
(`Dispatch` over `AuthorityLog`, `Notices` over `BetLedger`, `SemanticIndex` and
`RecordSync` over `RecordFile`, `Watch`). `*Proofs` modules hold proofs only;
`FoldProofs` holds the lemmas the others share.

## Runs

| Run | Question | Instance | States |
|---|---|---|---|
| `ship_faults` | What may racing, failing and dying commands leave in the record, and what may be said of a change afterwards? | 1 failure, 2 commands, 2 releases, 3 deploy lines, 2 deploys by drums; 1 hypothesis, bet and change, a window of 1 day, horizons 1 and 2, 1 death or learning; numbers 0, 1, 3 with an effect of 2; 2 persons, 2 events over 5 moments of 2 to a second, a window of 2 and a revisit at 3, 3 samples | 412,692 |
| `ship_promise` | One command at a time, no crash: does ship/revert implement `ShipPromise`, and are its deploys written down? Is the service always accounted for? When does heal say VERIFIED? Where do tokens go? Does all of it end? | 2 failures, 1 command; 2 invocations, 3 processes, 2 ports; 2 incidents, 1 death; 2 sign-ins with 2 polls over 2 consoles, 1 watch, 2 days | 345,462 |
| `pipeline` | What stands behind an unattended deploy, does it reach the ladder, and what are people and agents told of it? | 2 failures, one replayable, of one class that has earned its promotion; all faults, streak 1, 2 rung lines by people; 2 cards, readers at most 1 event behind; 2 proposers of 1 branch, 2 pull requests; 2 stories over 3 days, 6 lines, a window of 1, 1 past repair remembered; pages of 3 lines over 3 hours, 1 torn | 1,201,412 |
| `watch` | Is detection exact whatever the order, across a reopen and a restart? Is what the tick finds brought once, and in the end? Is a start told of before it reports? Does a trace get the right signature and a delivery the right line? | 4 events at times 1, 2, 2, 5, threshold 2, window 1, 1 deploy, 1 restart; 2 functions of one file, 1 commit and 1 route over 3 hours, 1 tick that dies; 2 issues, look-back 1 hour, 1 refusal, 1 reboot; 2 watches with 1 heartbeat each; 3 files deployed at 3 roots, 2 errors, 2 commits, 1 fault, a cache of 2; 13 deliveries, 2 of them posted, 2 notes rendered, comments cut at 2 lines, what others wrote at 3, bodies at 7 | 421,924 |
| `sync` | Does the plane hold a prefix, do couriers implement `Mirror`, does it catch up? Does the index follow the record? Does setting up keep what the team wrote? | loop and command, 3 lines, batches of 2, 1 failed pass, 1 loss, torn writes; 2 readers, 1 failure; 2 inits, 1 edit beyond the first | 556,185 |
| `repair_chain` | Children, reproduction, repair, authority, dispatch and remote evidence: see the properties | pipe of 2 and 4 writes; buffer of 2 and 4 entries, 2 polls; 2 test files of at most 1 test; 2 tasks over 2 revisions; 2 classes, 2 writers, streak 2, 5 lines (4 without a dispatch); 2 hosted failures, a diff of 2 files; 2 jobs, 2 runs, 2 deliveries | 1,504,344 |

Why the bounds are enough. A streak of 2 is the least that can be broken in the
middle, and five lines hold a grant's streak, a bad outcome and its demotion
(the streak in the code is 5). A revert needs two deploys before it and a third
to grow the record under it. A window of 1 over the times 1, 2, 2, 5 has events
inside, on and outside its edge, and late ones; so has a digest's window of 1
over 3 days, with a line told on its last possible day, and a reading's window of
one second over five moments, with an event on either side of its rounding. Three
lines in batches of two make a full and a partial batch. Four writes over a pipe
of two block; four entries over a buffer of two evict before and after the mark.
Two test files let one be hollowed while the other keeps the total, and one test in
a file is the least a runner can lose. Two proposers of one branch name and a
second page are what an adoption, a refusal and a late create need; two deliveries
of one run are a redelivery. Two horizons make a revisit that may come late and
another that follows it. A reader one event behind already lets a task end, and
start its next stage, before either view heard of the last. Two watches, sign-ins
or inits are what it takes to be in each other's way between two steps. The files
are one name at three depths, the roots one with the name of a directory of the
repository, one without and the top, so that a path has one suffix that is tracked,
several or none; a cache of two is full after two errors. The deliveries are one of
each kind the adapters tell apart, and one for each cap: a document cut at it, and a
report of three notes whose count of the others is cut off. Six lines about repairs
hold one that is shipped, reverted and shipped again with another beside it, so that
the one remembered is chosen. Two functions of one file are what one id of a rate
shift is shared by, and two ports what lets two services last.

What the properties say:

* `AutonomyIsEarned`, `ActAloneIsLastWord`: the fold agrees with definitions that
  do not fold, and each grant had its streak. A bad outcome that lands between
  the promotion's check and its line does not stop the grant; that the streak
  stood at some moment before it is what the code guarantees.
* `RecordedDeploysHappened`, `RollsBackInHistory`: under every fault.
  `KeepsPromise` (refinement of `ShipPromise`) and `DeploysAreRecorded` (liveness)
  need one command at a time that does not die.
* `UnattendedIsEarned`, `UnattendedIsAccountedFor` (liveness): the seven links
  behind a deploy nobody asked for, and what it does, once, to its class.
* `SupportIsEarned`, `MeasuredOnceWhenDue`, `BetsAddUp`: from numbers to a verdict,
  and from a bet to a verdict that stays. A verdict has two chains behind it:
  hypothesis, acceptance, change and outcome; and hypothesis, bet and confirmation,
  the last after the acceptance. Nothing orders the confirmation before the change or
  its outcome (see below). The last has a liveness part: a confirmed bet whose change
  the record can measure is evaluated. `ReadingsAreComparable`: a
  number is of the window declared for it, read when that has closed, and of nobody
  who is counted twice.
* `FailuresAreTheBursts`, `NoEventCountsTwice`, `ShippedIsReopened` (liveness);
  `BroughtOnce`, `BroughtInTheEnd` (liveness) for the tick and the poll. The id of a
  rate shift is of an error's name and file (`detect/src/observe.rs:82`), not of its
  function: what is brought once, and in the end, is a finding with its id, but that
  one tick records as many with one id as there are functions that moved, and none
  that moves later.
* `NoWrongFile`: an error is never taken for one of another file whose own was
  tracked, and is recognised by its replay where its path left one answer, but for a
  path in which the prefix stands twice.
  `ReportsAreKept`: a delivery is one line of the right address, every note in it or
  counted, each secret pair masked and each clean line as it was. Reports are cut
  (`ingest/src/adapters.rs:245`, 575, 604, 615) before they are masked (831): a
  document cut short is masked as the prose it then is, and the count of the notes
  left out may be cut off with the end of the body, which then ends in the mark of
  the cut. The property excepts these two by name; the payload has documents whole
  and masks all of them.
  `TelemetryIsHonest`: no heartbeat before the notice, none by who opted out,
  nothing left by a start that was turned away, one id for one machine.
* `MirrorIsPrefix`, `AnchorNeverAhead`, `IsMirror` (refinement), `CopiesComplete`
  (liveness): the plane's mirror in the end, and the index always of a beginning of
  the record, and of all of it once the record rests, although an older read may
  commit last and only counts are compared; a vector is of the text it is found by.
* `SetUpIsTrue`: the team's work in a file survives any number of inits, whatever they
  planned and when they died, unless two were at that file at once or its write was
  cut in two; the reporter is mounted once, an init that says it is done left nothing
  to do, and what doctor does not call broken works.
* `CommandsSettle` (a liveness part): the policies of the three callers, and that
  output is drained while it is waited.
* `SinceIsExact`, `ReproducedByNewTrace`: the arithmetic of marks over an evicting
  buffer, and what a verdict rests on. The second supposes that the drain had
  caught up at the mark; `replay_boot` shows what happens otherwise.
* `RepairIsReviewable`, `ReadyIsReviewable`: what an agent that may do anything to
  the files can and cannot get past, what is left behind, and when a thread is told.
* `UnaskedWasEarned`, `ReportIsHonest`, `RunShipsOnce`: a repair elsewhere starts
  unasked only on a rung held after the failure was seen again, its report does
  not read a missing event as a success, and its evidence ships one job once. A diff
  that is shown whole has every changed line but those of files withheld by path,
  which it says, and of files whose header names a withheld path, of which it says
  nothing (`cli/src/repair_cmd.rs:354`). Where git gives no diff (369, 414) there is
  none, and it is not said to be whole.
* `CardsComeToRest`: when a task is over and all of it was heard, no card spins, and
  what one offers the record accepts, unless a person has already typed a ship or a
  revert of that failure, or the offer is a ship and the repair's own line was lost
  (`cli/src/engine.rs:989`, a best-effort append).
* `ShownIsTrue`: the page the engine names is open and shows the commit whose claims
  it carries; who reads each day's digest knows how every proposed repair stood when
  the last one was built, except for one shipped again after its revert, which the
  digest still calls rolled back; and the next agent hears that a past repair stands exactly
  if it is in service. A person who deletes a branch while it is being proposed is
  left out; so is a force push, which the code never makes. Send a digest a day later
  than the window is long and the second part fails, which `DayEnds` rules out.
* `RecordReadsWell`: what is listed is what was appended, but for a torn line and the
  one glued to it, which are counted; a filter keeps what it says, and a row reads
  verified only if nothing behind it is unresolved.
* `ServiceIsAccountedFor`: over a pidfile without a lock a service whose start wrote
  the pidfile and met no other command stays named by it as long as it lives, whatever
  starts and stops race after it; of two that meet one may be left out of reach. The
  port is the only exclusion, and each start chooses its own (`--ingest-port`), so
  two starts do not last only where they chose one. `VerifiedIsEarned`: of heal.
  `CredentialsAreGood`: no token reaches a
  console that did not mint it, and no promotion is made without a key in force.
  `CommandsEnd` (liveness): two starts do not last, a heal and a sign-in end.

Each of these is violated by a plausible fault of the code: the operators named
in `PROJECT.json` under `mutants` stand before the definition they replace. A
`TypeOK` is proved where a theorem says so, or as a part of its module's inductive
invariant; the types of the other modules are stated and not checked by a run.

### Fairness

None of a person's acts is assumed, nor any fault to happen or to stop by itself;
faults are bounded by constants. `Pipeline`, `Ship`: a task or command once
started goes on, since each wait is under a timeout (boot, replay, agent, test
script, `DEPLOY_TIMEOUT`). `BetLedger`: days pass, the tick comes again (an
interval of `select!`) and a command appends the lines it built. `Watch`: the
loop's `select!` starves no channel. `Observation`, `Intake`: the tick's steps.
`RecordSync`: the engine ticks (`Ask(Loop)`), a pass goes on, the plane answers a
post that is waited for. `SemanticIndex`: the tick comes again, a reader that
began goes on. `ChildGroup`: a running child writes on or exits unless it hangs,
pipes are read, the caller's waits end. `Replay`: the engine's steps only; the app
owes nothing. `Daemon`: processes boot and invocations go on; nothing says that a
service obeys SIGTERM. `Heal`: codex, which is given up after its
timeout, and the process's own work; git, the install, the tests' shell, gh and the
browser have none (`src/heal/replay.js:53`, 71, 83, 102), and `HealEnds` supposes of
them what it needs (`WaitsEnd`). `Account`: a sign-in that waits
polls again and writes what it got; the person who decides owes nothing. Where a
run states less than its modules (`SomebodySteps` of `MCShipAndService`: somebody
goes on), it suffices because the steps are finitely many.

`CHECK_DEADLOCK FALSE` stands in every passing run: all tasks ended, the record
at its bound, a caller returned, a digest sent on the last day are ends the
system has.

### Disagreements between the code and its words

Six runs are expected to end in a counterexample; the quoted lines are in
`PROJECT.json` under `findings`.

* `ship_race`: two ships of one failure both pass `already_actioned` and both
  deploy, because the record is read once before a deploy of up to ten minutes
  (`cli/src/ship.rs:726`).
* `pipeline_rollback`: `drums revert` leaves the class on act-alone;
  `Outcome::Reverted` is recorded nowhere outside tests.
* `watch_restored`: a restart gates again a signature that a ship had reopened:
  a reopen has no line.
* `replay_boot`: the mark counts what was drained, so boot output still in the
  pipe is read as the replayed request's.
* `reported_weaker`: a repair of a reported issue is ready with fewer tests than
  before (`check/src/lib.rs:500`).
* `notice_lost`: a drafted bet and its verdict share a message id, so the process
  that drafted it never sends the verdict (`cli/src/engine.rs:1198`, 1055).

Seen while modelling, without a run of their own.

*Children, repairs.* Cancelling a test script kills `sh` and not what it started
(`CommandsSettle` excepts it). A commit that fails may leave a branch at the
attributed commit that nothing names (`cli/src/engine.rs:1445`), or at the revision
(`check/src/lib.rs:988`). Two failures
within about 256 ms get one branch name (1443). Checks see files git ignores,
which the commit lacks (1790, 1349). Files the app's own tests leave behind count
as the agent's change; totals of some runners include skipped tests (2305). Two
repairs of one HEAD want one branch name (`check/src/lib.rs:462`, 988): the
second fails. A failed or withheld ship never reopens its signature.

*Proposals.* `propose/src/lib.rs:46` says a command that takes too long is killed;
it is only given up on (555), so a pull request may open after `ProposalFailed`.
A `gh pr list` that fails counts as none, and `create` then refuses what the
trait's contract (96) says should be adopted. `NoUrl` is reported of a pull
request that did open.

*What people see.* The API's card says `reproduction confirmed` whatever
`r.reproduced` is (`cli/src/api.rs:87`), the terminal reads the flag. Its
`next_command` is `drums revert` after a ship whose line failed to write, and
stays `drums ship` after the operator's own. A dispatched card stays `Repairing`
for ever. A message is sent for a line whose append failed. The digest's window
rolls from now: digests further apart than it drop outcomes; a failed unattended
ship stays "awaiting approval".

*Tick, intake.* A webhook racing the poll brings an issue twice; the poll drops
the rest at the first refused post; a comment's webhook names its issue, so Drums'
own comment is a new report (`ingest/src/adapters.rs:268`, `cli/src/engine.rs:2834`).
A reported line whose repair died with the process is never tried again. A
redelivered Railway event has a new time (`ingest/src/adapters.rs:185`).

*Record, index, plane.* Two machines with one repository slug share one mirror. A
record line whose newline was cut decodes until the next append is glued to it,
so indices move (`cli/src/sync.rs:33` says they do not: `Tears` keeps that end out
of `sync`), and "same count means same content" (`semantic/src/store.rs:320`)
fails when that and two appends fall between two refreshes. `drums index` and
`drums ask` take an unreadable record for an empty one; between `ask`'s refresh
and its search the tick may commit an older read. A write that died costs itself
and the next line, which is glued to it. A lost answer to
`POST /api/repairs` leaves a job running that is reported as failed.
`OutcomeEvidence` looks at the run of the first attested claim only
(`plane/src/lib.rs:811`); nothing outside tests calls it. A restart forgets the
deploys it heard (`cli/src/engine.rs:338`), so a burst after it is unattributed.
Two tasks of a class may both act on a rung read before either's bad outcome
(`cli/src/engine.rs:1592`).

*Intake, signatures, readings.* A prefix that stands a second time inside a path is
cut there too (`cli/src/app_root.rs:345`), where `--app-root` is cut at the front only
(`core/src/lib.rs:381`), so the signature is of no file, or of a file that is named as
the two ends together: `NoWrongFile` excepts such a path, and the run has that file.
A 5xx of
PostHog is "rejected" when asked directly and "unreachable" through the console.
Composed lines are masked less than sent ones: a first line that the title continues
and a line the body has numbered open in a way the masking takes for prose or for an
array (`ReportsAreKept` excepts them). `recall/src/lib.rs:28` says that "reverted repairs
outrank everything" and the code takes the newest three, reverted or not; the age it
tells of a revert is that of the proposal. A repair shipped, reverted and shipped
again is "rolled back" to the digest (`cli/src/digest.rs:346`), whose comment says
that "a digest reader cares about the CURRENT state", and shipped to recall (69):
`LastWordIsTrue` excepts it. `detect/src/observe.rs:33` says that the id
of a rate shift is derived from "(deploy, signature)", and two functions of one file
share it. `observe` of the behaviour sources and `should_send_now` of
the digest have no caller.

*Bets.* "Pre-registered before the outcome exists" (`core/src/bet.rs:171`,
`cli/src/bet_cmd.rs:20`) is not asked for: an accepted bet may be confirmed when its
change, and even its outcome, are on the record (`cli/src/bet_cmd.rs:155`), and the
next tick reads the verdict off that outcome.

*Reports, remote repairs.* `ingest/src/adapters.rs:606` says that notes beyond the cap
are "counted, not dropped in silence"; the line that counts them is the last of a body
that is then cut. A document cut short before it is masked is no document any more.

*Daemon.* An unreadable pidfile is an error of its own so that it is not taken for an
absent one (`cli/src/daemon.rs:50`), and `cli/src/main.rs:3165` takes it for one: a
service whose pidfile was cut is started a second time, on a port of its own if told.

*Account, set-up.* A credentials file without a console, which older versions wrote,
is taken for one of the console at hand. `fs::write` cuts a file before it writes it:
two inits at one file, or one that dies, may leave it empty or mounted twice. Doctor
calls a config good that the daemon refuses (an unknown mode, auto without a deploy
command).

*Heal.* Exceptions inside `try` pass the verdict by and `finally` writes the
state of the moment; codex that is not installed is an error nobody catches, and
its children write on after a timeout; the pull request commits
`git add --all`; an HTTP failure whose request is never sent again passes
(`src/heal/replay.js:89`).

## Proofs

Each theorem is of the specification named in it and holds for every value of the
constants, whatever the interleaving and the faults of its module.

| Theorem | Says | Along which inductive invariant |
|---|---|---|
| `AuthorityLogProofs!TypeCorrect`, `AuthorityIsLastWord` | types; act-alone is the last word | with the types: a step appends at most one line, and a line of one class changes no other |
| `AuthorityLogProofs!LadderIsTheFold` | the ladder kept line by line is the fold of the record | itself, from the lemma that the fold of a record with one more line is a step on the fold of the record |
| `AuthorityLogProofs!AutonomyWasEarned` | each grant had its streak, and the fold counts it | `ChecksWereEarned`: a promotion that was checked and not yet appended has its streak in a beginning of the record, however the record grew since |
| `AuthorityLogProofs!UnaskedNeedsActAlone`, `ReportsAreHonest` | what leaves unasked, and what its runner reports | `GoIsEarned`: who was let go held the rung at a moment after the reproduction; `ReportInv` over the fold of the events and of the diff |
| `PipelineProofs!TypeCorrect`, `EarnedUnattended` | the chain behind an unattended deploy, and one outcome of it | per failure `Accounted` (which lines a stage has behind it and which it cannot have yet) and `Chained` (the links, from the stage the task is in) |
| `PipelineProofs!CardsRest` | cards end and offer what the record accepts, but for what a person typed and a line that was lost | `Traced`: a card is the fold of what was heard, and what is still queued leads from there to where the task is; `ShipsAreNoted` |
| `PipelineProofs!ShownStaysTrue`, with `ProposedIsShown`, `LastWordStands`, `RecallStands` | the page, the digest and the agents' memory say what is so | `HoldsItsBranch`: between its push and its page a repair holds its branch; `SentDaily` (what no digest has read is at most a day old), `InOrder`, `LastSaysServed` |
| `PipelineProofs!RecordStaysReadable` | what the record commands list is the record | `ReadingInv` (a line cut short is a line of its own until the next is glued to it); lemmas `KeepIs` (what keeping some places of a sequence gives), `ListedAreTheNewest`, `PathIsTakenWhole` |
| `ShipProofs!TypeCorrect`, `NothingInvented`, `RollbackIsHistory` | no line without its deploy; a rollback is history | a command past its exit has its deploy made; positions of the record never change, so what is history stays history |
| `ShipProofs!PromiseIsKept` | `Ship` implements `ShipPromise` | `PromiseInv`: the deploys made are those on the record plus the one whose line is owed, and the deploy under way is the one the promise has next |
| `ShipProofs!ServiceStaysManaged` | a service that was started by itself stays in reach | `DaemonInv`: whoever the file names was started, at most one process has the port, and what each invocation is in the middle of explains the file |
| `ShipProofs!VerifiedStaysEarned` | VERIFIED was seen, repaired and tested | `HealInv`: the flags of a run are true of its worktree as long as no stray writes in it, and results on disk are verdicts of runs |
| `ShipProofs!CredentialsStayGood` | tokens stay with their console | `HeldAreItsConsoles`: what a watch holds, and what is in the file, is of the console it is sent to |
| `ShipProofs!SupportStaysEarned` | outcomes and verdicts follow from the numbers | `OutcomesAreMeasured`, `VerdictsAreOfTheOutcome` |
| `ShipProofs!ReadingsCompare` | a reading is of its declared window, and taken once that has closed | `BehaviorInv`: what arrived has happened, and a sample counts what it knew and was taken after its window (`Sound`); lemma `QueryIsTheWindow` |
| `RepairProofs!ReadsAfterItsMark`, `ReproductionIsOfTheReplay` | marks keep their meaning; a verdict rests on the replay | `Window`: the buffer is a window of what was printed; `EvidenceIsLater`: what is read was printed at places after the mark |
| `RepairProofs!AttemptsAreReviewable` | what a ready repair says of its tests | `ComparesWithBase`: from the baseline on, the attempt knows every test file of the base; `StillOpen` |
| `RepairProofs!ReadyRepairsAreReviewable` | branch, checks and thread of a report's repair | `OwnsItsBranch`: from its commit to its recheck nobody else's commit is on the branch; `ProposedOnce` |
| `RepairProofs!OneShipPerRun` | a run's evidence is spent once | outcomes that ship have consumed their run, and a consumed run is refused |
| `RepairProofs!CommandsAreSettled` | a command that would end never times out; who it leaves behind is who may stay | `ChildInv`: as long as the caller waits for a leader that runs, its output is read, so that a full pipe never stops it for good |
| `WatchProofs!DetectionIsExact` | no burst is missed and failures are bursts | `WindowIsExact`: the detector's window equals the window of everything heard; the lemma `CutTwice` says that cutting early loses nothing |
| `WatchProofs!EventsCountOnce` | no event counts towards two failures | `OnTheWay`, `CountedWereHeard`, `SeenIsUncounted`: where an event is between its append and its failure, and that it is in one place |
| `WatchProofs!FindingsAreBroughtOnce`, with `ObservationsAreOnce` and `PolledIssuesAreOnce` | nothing found is recorded twice, and no id, but by one tick for two functions of one file | `TickInv`, `PollInv`: what is still to be brought, by the process that lives, is not on the record and is listed once |
| `WatchProofs!TelemetryStaysHonest` | nothing sent before it is told | `StartInv`: `NoticeComesFirst` (past the notice, it was shown), `OptedOutIsLeftAlone`, `TurnedAwayLeavesNothing`, `OneIdDrawn` |
| `WatchProofs!ReportsStayKept` | what others send is masked, no more than masked, and rightly addressed, but for what a cap cut | `DoorInv`: whoever is past the append has its line, and a line is what its delivery makes; `TextMasks` and `AddressOfReport` say of the operators what the property asks of the lines |
| `WatchProofs!SignaturesStayRight` | an error has the signature of no other file than its own | `AppRootInv`: what is remembered is what was guessed of what was tracked then, and each signed error is its file under a root; lemmas `GuessIsItsRoot`, `CutAtFront` |
| `RecordProofs!TypeCorrect`, `PlaneHoldsAPrefix`, `SyncIsMirror`, `AnchorIsHeld` | types, prefix, implementation of `Mirror`, no anchor ahead | `Copies`: every snapshot and every post under way is as faithful as the mirror; `Anchored`: so is every answer |
| `RecordProofs!IndexStaysDerived` | the index is of a beginning of the record, a vector of its text | `IndexInv`: what a reader is about to make it of is a beginning of the record still; lemma `PairedByIndex` |
| `RecordProofs!SetUpStaysTrue` | the team's work in a file survives any inits that do not meet at it; done is done; silence means well | `SetupInv`: as long as no two met at one file and no write was cut, a file somebody is at is as it was looked at, and what a run has dealt with is there (`Apart`) |
| `RecordProofs!BetsHaveTheirChain` | expectation, claim, and both chains are on the record before the verdict, each in its order | `Grounded`: each line has before it what it needs, and each line about to be written will have; `Said`: what a bet's status says, a line has said |
| `RecordProofs!BetsAreMeasuredOnce`, `VerdictsStay` | a change is measured once and in time, a bet evaluated once; a verdict stays | `BetInv`: what a tick is about to write is neither on the record nor twice in its hands, and in time by its own clock; a verdict on the record is its bet's status, and one about to be written is of a bet that is confirmed, whatever word a command still has to write |

Assumptions are the named `ASSUME`s of the modules, which TLC evaluates on every
run, with those that a statement carries: `PlaneHoldsAPrefix`, `SyncIsMirror`
and `IndexStaysDerived` suppose that a newline is written with its line (`NewlineWithItsLine`), as
`cli/src/sync.rs:33` does when it says that indices never move. `PromiseIsKept` supposes
one command at a time, none of which dies or fails to write its line (`Undisturbed`):
without that two ships that race break it, which `ship_race` shows. `IInv => Inv`
shows why a strengthening is needed: that no burst was missed does not say what
the detector still remembers, a mirror that is a prefix does not say that a late
post is, and a record on which nothing is twice does not say what a tick is about
to append.

What makes folds provable. The library's induction theorems take a predicate, which
the provers cannot instantiate, so `FoldProofs` derives from `WFMin` that a set of
numbers with a member has a least one, and from that that a recursive function
exists and obeys its equation (`RecursionExists`), and that `FoldSet` and `FoldLeft`
compute their step by step folds (`FoldExists`, `FoldLeftExists`). Statements about
every place of a sequence are then proved by its least counterexample. Where a
module needed it, its recursion is a fold or a recursive function (`AppRoot!Cut`,
`Dispatch!LinesIn`, `BetLedger!Folded`), never a RECURSIVE operator.

Checked by TLC only:

* everything temporal beyond a step: liveness (that every caller of a command
  returns, the other half of `CommandsSettle`), refinement with fairness;
* that both copies are completed in the end (`CopiesComplete`).

## Not modelled

Content: messages, stack traces, redaction inside a pair, prompts, the parsing of
foreign event formats, layouts, search and ranking (text and floating point).
External services: git, the agent, the browser, GitHub, the hosted plane, PostHog,
Slack and the tracker enter as choices where they matter. Times: timeouts are
choices, not clocks, except where a window is what the code computes. Commands that
only print what another part decided (`status`, `open`, `dashboard`) and the drawing
of the terminal keep no state. The demonstration app is an example the loop is shown
on. About half of the repository's lines are the inline tests of the modules above.
The components with status `not_modelled` or `partly` in `PROJECT.json` say what is
left out of each.

## Plan

Modelled: ladder, ship, pipeline, detection and restart, sync, children,
reproduction, repair attempt; bets and changes, readings, tick and intake, adapters,
signatures, daemon, reported issues, dispatch and remote evidence, heal, views,
messages, proposals, digest and recall, index and vectors, reading the record,
accounts, starts, set-up.

Left: the type invariants that no theorem states by themselves (`BetTypeOK`, `DigestTypeOK`,
`IntakeTypeOK`, `ObservationTypeOK`, `PlaneTypeOK`, `RepairTypeOK`, `ReplayTypeOK`). The
safety invariants of the runs are theorems; liveness, and the refinements with their
fairness, stay with TLC.
