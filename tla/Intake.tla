------------------------------- MODULE Intake -------------------------------
(***************************************************************************)
(* How what people report reaches the record: webhooks, each a report of   *)
(* its own (ingest/src/adapters.rs), and the tick's tracker poll, which    *)
(* skips every issue the record already names (cli/src/tracker_poll.rs).   *)
(* The tracker and the console that answers for it are external.           *)
(***************************************************************************)
EXTENDS Naturals, SequencesExt

CONSTANTS
    Issue,       \* issues of the tracker
    LOOK_BACK,   \* how far back the poll asks, in hours
    MaxHours,    \* bound: the clock
    MaxReported, \* bound: reported lines
    MaxRefusals, \* bound: polls that fail
    MaxReboots   \* bound: times the process dies

NoId == "no_id"

ASSUME IntakeAssumption ==
    NoId \notin Issue /\ IsFiniteSet(Issue) /\ LOOK_BACK \in Nat

VARIABLES
    tracker,  \* [Issue -> whether it is open, and when it was filed]
    clock,    \* hours
    reports,  \* the reported lines, in order: the external id, and who brought it
    poll,     \* the poll of the current tick: what it saw, what it has left to post
    refusals, \* history: polls that failed
    reboots   \* history: times the process died

intakeVars == <<tracker, clock, reports, poll, refusals, reboots>>

RestingPoll == [at |-> "rest", seen |-> {}, batch |-> << >>]

IntakeInit ==
    /\ tracker = [i \in Issue |-> [at |-> "unfiled", filed |-> 0]]
    /\ clock = 0
    /\ reports = << >>
    /\ poll = RestingPoll
    /\ refusals = 0 /\ reboots = 0

-----------------------------------------------------------------------------
\* handle_reported: the id is the one recorded, trimmed and masked; a payload
\* that names its issue by none that can be recorded leaves it out.
Report(id, by) ==
    /\ Len(reports) < MaxReported
    /\ reports' = Append(reports, [id |-> id, by |-> by])

FileIssue(i) ==
    /\ tracker[i].at = "unfiled"
    /\ tracker' = [tracker EXCEPT ![i] = [at |-> "open", filed |-> clock]]
    /\ UNCHANGED <<clock, reports, poll, refusals, reboots>>

CloseIssue(i) ==
    /\ tracker[i].at = "open"
    /\ tracker' = [tracker EXCEPT ![i].at = "closed"]
    /\ UNCHANGED <<clock, reports, poll, refusals, reboots>>

HourGoesBy ==
    /\ clock < MaxHours /\ clock' = clock + 1
    /\ UNCHANGED <<tracker, reports, poll, refusals, reboots>>

\* post_linear: whatever happened to the issue, a comment on it included, is a
\* report of the issue.
LinearArrives(i) ==
    /\ tracker[i].at # "unfiled"
    /\ Report(i, "webhook")
    /\ UNCHANGED <<tracker, clock, poll, refusals, reboots>>

\* post_agentation: an update or a removal is acknowledged and not recorded; a
\* submit is one report, and its annotations are no issues of the tracker.
AgentationArrives ==
    /\ Report(NoId, "webhook")
    /\ UNCHANGED <<tracker, clock, poll, refusals, reboots>>

-----------------------------------------------------------------------------
\* TrackerPoll::tick: what is seen is what was on the record when the tick read it.
Seen == {reports[n].id : n \in DOMAIN reports}
PollAsks ==
    /\ poll.at = "rest"
    /\ poll' = [RestingPoll EXCEPT !.at = "asking", !.seen = Seen]
    /\ UNCHANGED <<tracker, clock, reports, refusals, reboots>>

\* fresh_issues: open, and filed since the poll's horizon.
Fresh(i) == tracker[i].at = "open" /\ tracker[i].filed + LOOK_BACK >= clock
ConsoleAnswers ==
    /\ poll.at = "asking"
    /\ poll' = [poll EXCEPT !.at = "posting",
                   !.batch = SetToSeq({i \in Issue : Fresh(i)} \ poll.seen)]
    /\ UNCHANGED <<tracker, clock, reports, refusals, reboots>>

\* The poll posts to the daemon's own door: post_linear.
PostIssue ==
    /\ poll.at = "posting" /\ poll.batch # << >>
    /\ Report(Head(poll.batch), "poll")
    /\ poll' = [poll EXCEPT !.batch = Tail(@)]
    /\ UNCHANGED <<tracker, clock, refusals, reboots>>

PollEnds ==
    /\ poll.at = "posting" /\ poll.batch = << >>
    /\ poll' = RestingPoll
    /\ UNCHANGED <<tracker, clock, reports, refusals, reboots>>

\* The console refuses or is away, or an append fails: the first post that is
\* refused drops the rest of the batch.
PollFails ==
    /\ poll.at # "rest" /\ refusals < MaxRefusals
    /\ poll' = RestingPoll /\ refusals' = refusals + 1
    /\ UNCHANGED <<tracker, clock, reports, reboots>>

PollStep == PollAsks \/ ConsoleAnswers \/ PostIssue \/ PollEnds

Reboot ==
    /\ poll.at # "rest" /\ reboots < MaxReboots
    /\ poll' = RestingPoll /\ reboots' = reboots + 1
    /\ UNCHANGED <<tracker, clock, reports, refusals>>

IntakeNext ==
    \/ \E i \in Issue : FileIssue(i) \/ CloseIssue(i) \/ LinearArrives(i)
    \/ AgentationArrives \/ HourGoesBy \/ PollStep \/ PollFails \/ Reboot

-----------------------------------------------------------------------------
IntakeTypeOK ==
    /\ tracker \in [Issue -> [at: {"unfiled", "open", "closed"}, filed: 0 .. MaxHours]]
    /\ clock \in 0 .. MaxHours
    /\ \A n \in DOMAIN reports : reports[n].by \in {"webhook", "poll"}
    /\ poll.at \in {"rest", "asking", "posting"} /\ poll.seen \subseteq Seen

\* "An issue whose id is already on the record is not ingested again, across
\* ticks and across daemon restarts": the poll brings an issue once, whatever
\* died and whichever webhook raced it.
PolledOnce ==
    \A m, n \in DOMAIN reports :
        (reports[m].by = "poll" /\ reports[n].by = "poll" /\ m # n)
            => reports[m].id # reports[n].id

\* "The half that cannot be misconfigured": an issue whose webhook was lost is
\* on the record in the end, unless it is closed or the horizon passes it first.
InHorizon(i) == tracker[i].at = "open" /\ clock - tracker[i].filed <= LOOK_BACK
IssueIsTaken ==
    \A i \in Issue :
        InHorizon(i) ~>
            (i \in ToSet([n \in DOMAIN reports |-> reports[n].id])
             \/ ~InHorizon(i) \/ Len(reports) = MaxReported)

IntakeSpec == IntakeInit /\ [][IntakeNext]_intakeVars /\ WF_intakeVars(PollStep)
=============================================================================
