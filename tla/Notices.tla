------------------------------ MODULE Notices ------------------------------
(***************************************************************************)
(* The proactive messages of the observation tick (cli/src/notify.rs and   *)
(* notification_for in engine.rs): which line of the record, once the tick *)
(* has tried to append it, is an event worth a message, under which id, of *)
(* which kind; and the sink, which takes an id once per run and tries once *)
(* to deliver.  BetLedger is what the tick appends; the failures' tasks     *)
(* announce their repairs through the same sink.                           *)
(***************************************************************************)
EXTENDS BetLedger

CONSTANT MaxRepairs     \* bound: repairs announced in a run

VARIABLES
    taken,      \* Sink.sent: ids that had their attempt in this run
    events,     \* history: events of this run worth a message
    delivered   \* history: messages of this run that were attempted

noticeVars == <<betVars, taken, events, delivered>>

NoticeInit ==
    /\ BetInit
    /\ taken = {} /\ events = {} /\ delivered = {}

\* notification_for: the id names what the message is about, without its kind.
NoMessage == {}
\* A revisit has one if what it read drifted from what the window showed.
NotificationFor(line, drifted) ==
    CASE line.kind = "observation" -> {[id |-> <<"obs", line.id>>, kind |-> "working"]}
      [] line.kind = "outcome" /\ line.outcome = "unmeasured" ->
             {[id |-> <<"chg", line.id>>, kind |-> "fyi"]}
      [] line.kind = "bet_status" -> {[id |-> <<"bet", line.id>>, kind |-> "learning"]}
      [] line.kind = "revisit" /\ drifted ->
             {[id |-> <<"revisit", line.id, line.horizon>>, kind |-> "learning"]}
      [] line.kind = "bet" -> {[id |-> <<"bet", line.id>>, kind |-> "working"]}
      [] OTHER -> {}

\* Sink::deliver: one attempt per id, whatever comes of it.
Deliver(messages) ==
    LET new == {m \in messages : m.id \notin taken} IN
    /\ taken' = taken \cup {m.id : m \in new}
    /\ delivered' = delivered \cup new
    /\ events' = events \cup messages

\* An event follows its append, written or not; a draft is one when all of its
\* lines are written.
TickAppends ==
    /\ EngineAppends
    /\ \E drifted \in BOOLEAN : Deliver(NotificationFor(Head(engine.todo), drifted))
TickLosesLine ==
    /\ EngineLosesLine
    /\ \E drifted \in BOOLEAN :
           Deliver(IF engine.at = "draft" THEN NoMessage ELSE NotificationFor(Head(engine.todo), drifted))
\* run_repair_pipeline: RepairReady, under an id no other message has.
Announced == {m \in events : m.kind = "decision"}
TaskAnnounces ==
    /\ Cardinality(Announced) < MaxRepairs
    /\ Deliver({[id |-> <<"repair", Cardinality(Announced)>>, kind |-> "decision"]})
    /\ UNCHANGED betVars
RunEnds ==
    /\ EngineDies
    /\ taken' = {} /\ events' = {} /\ delivered' = {}
Elsewhere ==
    /\ \/ Operator \/ CommandAppends \/ CommandDies \/ DayPasses
       \/ Observe \/ MeasureDue \/ EvaluateDue \/ RevisitDue \/ Draft \/ TickEnds
    /\ UNCHANGED <<taken, events, delivered>>

NoticeNext == TickAppends \/ TickLosesLine \/ TaskAnnounces \/ RunEnds \/ Elsewhere

NoticeSpec == NoticeInit /\ [][NoticeNext]_noticeVars

-----------------------------------------------------------------------------
\* "one attempt per event, failures logged, no retries": every event worth a
\* message had its attempt.
EveryEventHasItsAttempt == events \subseteq delivered
=============================================================================
