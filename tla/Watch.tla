-------------------------------- MODULE Watch --------------------------------
(***************************************************************************)
(* From a POST to an open failure: the ingest server appends the line and  *)
(* then sends the item to the engine (ingest/src/lib.rs), the engine loop  *)
(* feeds the detector (detect/src/lib.rs), a shipped repair sends its      *)
(* signature back to be opened again, and drumsd rebuilds the detector     *)
(* from the record when it restarts (cli/src/restore.rs).                  *)
(***************************************************************************)
EXTENDS Naturals, SequencesExt, FiniteSets

CONSTANTS
    Event,          \* error events, each posted at most once
    Signature,
    SigOf,          \* [Event -> Signature]
    At,             \* [Event -> occurred_at]
    Deploy,         \* deploys posted to the same server
    DeployedAt,     \* [Deploy -> deployed_at]
    THRESHOLD,      \* occurrences that open a failure
    WINDOW,         \* within this much time
    Daemon,         \* drumsd (restores) or drums watch (starts empty)
    RepairAuto,     \* --repair auto: a repair may ship and reopen its signature
    MaxPosting,     \* bound: requests between their append and their send
    MaxRestarts     \* bound: restarts of the process

ASSUME WatchAssumption ==
    /\ SigOf \in [Event -> Signature]
    /\ At \in [Event -> Nat]
    /\ DeployedAt \in [Deploy -> Nat]
    /\ Event \cap Deploy = {}
    /\ THRESHOLD \in Nat \ {0}
    /\ WINDOW \in Nat
    /\ Daemon \in BOOLEAN
    /\ RepairAuto \in BOOLEAN
    /\ MaxPosting \in Nat
    /\ MaxRestarts \in Nat

VARIABLES
    record,     \* the event and deploy lines, in file order
    posting,    \* items appended whose handler has not sent them yet
    inbox,      \* the channel to the engine loop
    reopens,    \* the channel of signatures to open again
    detector,   \* the window of every signature, and the gated signatures
    deploys,    \* deploys the engine loop has heard of
    repairing,  \* signatures with a repair task running
    failures,   \* history: the failures opened
    heard,      \* history: [Signature -> events heard since it was last ungated]
    restarts    \* history: restarts so far

vars == <<record, posting, inbox, reopens, detector, deploys, repairing,
          failures, heard, restarts>>

Item == Event \cup Deploy
Detector == [seen: [Signature -> SUBSET Event], opened: SUBSET Signature]
Failure == [signature: Signature, events: SUBSET Event,
            deploy: Deploy \cup {"none"}]

TypeOK ==
    /\ record \in Seq(Item)
    /\ posting \subseteq Item
    /\ inbox \in Seq(Item)
    /\ reopens \in Seq(Signature)
    /\ detector \in Detector
    /\ deploys \subseteq Deploy
    /\ repairing \subseteq Signature
    /\ failures \subseteq Failure
    /\ heard \in [Signature -> SUBSET Event]
    /\ restarts \in Nat

NewDetector == [seen |-> [s \in Signature |-> {}], opened |-> {}]

Init ==
    /\ record = << >>
    /\ posting = {}
    /\ inbox = << >>
    /\ reopens = << >>
    /\ detector = NewDetector
    /\ deploys = {}
    /\ repairing = {}
    /\ failures = {}
    /\ heard = [s \in Signature |-> {}]
    /\ restarts = 0

-----------------------------------------------------------------------------
\* The events that are at most WINDOW older than the newest of them.
InWindow(events) == {e \in events : \A f \in events : At[f] <= At[e] + WINDOW}

\* The detector with window w for s, gated if that is enough.
Saw(det, s, w) ==
    [seen |-> [det.seen EXCEPT ![s] = w],
     opened |-> det.opened \cup (IF Cardinality(w) >= THRESHOLD THEN {s} ELSE {})]

\* Mutants of Observe: an event older than one in the window is dropped; the
\* window is cut at the new event's own time.
ObserveDropsLate(det, e) ==
    LET s == SigOf[e]
    IN  IF s \in det.opened \/ \E f \in det.seen[s] : At[f] > At[e] THEN det
        ELSE Saw(det, s, InWindow(det.seen[s] \cup {e}))

\* Detector::observe: a gated signature ignores the event.
Observe(det, e) ==
    LET s == SigOf[e]
    IN  IF s \in det.opened THEN det
        ELSE Saw(det, s, InWindow(det.seen[s] \cup {e}))

\* The newest deploy heard of that is no later than the first error.
Attribution(events) ==
    LET before == {d \in deploys : \A e \in events : DeployedAt[d] <= At[e]}
        newest == {d \in before : \A c \in before : DeployedAt[c] <= DeployedAt[d]}
    IN  IF newest = {} THEN {"none"} ELSE newest

\* rebuild_opened_signatures: the event lines, in file order, through a
\* throwaway detector of which only the gates are kept.
ObserveLine(det, item) == IF item \in Event THEN Observe(det, item) ELSE det
Replayed == FoldLeft(ObserveLine, NewDetector, record)
Restored == [NewDetector EXCEPT !.opened = Signature \cap Replayed.opened]

-----------------------------------------------------------------------------
\* The handler appends the line first.  An append that fails is a 500: nothing
\* happened.
Post(i) ==
    /\ i \notin ToSet(record)
    /\ Cardinality(posting) < MaxPosting
    /\ record' = Append(record, i)
    /\ posting' = posting \cup {i}
    /\ UNCHANGED <<inbox, reopens, detector, deploys, repairing, failures, heard, restarts>>

\* Back from the blocking append, it sends; handlers are not ordered.
Send(i) ==
    /\ i \in posting
    /\ posting' = posting \ {i}
    /\ inbox' = Append(inbox, i)
    /\ UNCHANGED <<record, reopens, detector, deploys, repairing, failures, heard, restarts>>

HearDeploy ==
    /\ inbox # << >>
    /\ Head(inbox) \in Deploy
    /\ inbox' = Tail(inbox)
    /\ deploys' = deploys \cup {Head(inbox)}
    /\ UNCHANGED <<record, posting, reopens, detector, repairing, failures, heard, restarts>>

\* The event opens a failure when it gates its signature; the failure's task
\* starts at once, on the deploys heard of so far.
Hear(e) ==
    LET s == SigOf[e]
    IN  /\ detector' = Observe(detector, e)
        /\ heard' = IF s \in detector.opened THEN heard
                    ELSE [heard EXCEPT ![s] = @ \cup {e}]
        /\ IF detector'.opened # detector.opened
           THEN /\ repairing' = repairing \cup {s}
                /\ \E deploy \in Attribution(detector'.seen[s]) :
                      failures' = failures \cup {[signature |-> s,
                          events |-> detector'.seen[s], deploy |-> deploy]}
           ELSE UNCHANGED <<repairing, failures>>

HearError ==
    /\ inbox # << >>
    /\ Head(inbox) \in Event
    /\ inbox' = Tail(inbox)
    /\ Hear(Head(inbox))
    /\ UNCHANGED <<record, posting, reopens, deploys, restarts>>

\* Mutants: the gate is lifted over the old window; only the window is cleared.
ReopenKeepsWindow ==
    /\ reopens # << >>
    /\ reopens' = Tail(reopens)
    /\ detector' = [detector EXCEPT !.opened = @ \ {Head(reopens)}]
    /\ heard' = [heard EXCEPT ![Head(reopens)] = {}]
    /\ UNCHANGED <<record, posting, inbox, deploys, repairing, failures, restarts>>
ReopenKeepsGate ==
    /\ reopens # << >>
    /\ reopens' = Tail(reopens)
    /\ detector' = [detector EXCEPT !.seen[Head(reopens)] = {}]
    /\ heard' = [heard EXCEPT ![Head(reopens)] = {}]
    /\ UNCHANGED <<record, posting, inbox, deploys, repairing, failures, restarts>>

\* The loop takes from either channel in any order.
Reopen ==
    /\ reopens # << >>
    /\ reopens' = Tail(reopens)
    /\ detector' = [seen |-> [detector.seen EXCEPT ![Head(reopens)] = {}],
                    opened |-> detector.opened \ {Head(reopens)}]
    /\ heard' = [heard EXCEPT ![Head(reopens)] = {}]
    /\ UNCHANGED <<record, posting, inbox, deploys, repairing, failures, restarts>>

\* The repair task ends: with an unattended ship, and so a reopen, or without.
RepairEnds(s) ==
    /\ s \in repairing
    /\ repairing' = repairing \ {s}
    /\ \/ UNCHANGED reopens
       \/ RepairAuto /\ reopens' = Append(reopens, s)
    /\ UNCHANGED <<record, posting, inbox, detector, deploys, failures, heard, restarts>>

\* The process dies and is started again: only the record is left.
Restart ==
    /\ restarts < MaxRestarts
    /\ restarts' = restarts + 1
    /\ posting' = {}
    /\ inbox' = << >>
    /\ reopens' = << >>
    /\ deploys' = {}
    /\ repairing' = {}
    /\ detector' = IF Daemon THEN Restored ELSE NewDetector
    /\ heard' = [s \in Signature |-> {}]
    /\ UNCHANGED <<record, failures>>

Next ==
    \/ \E i \in Item : Post(i) \/ Send(i)
    \/ HearDeploy
    \/ HearError
    \/ Reopen
    \/ \E s \in Signature : RepairEnds(s)
    \/ Restart

Spec == Init /\ [][Next]_vars

\* The loop takes what either channel holds: select! starves neither.
FairSpec == Spec /\ WF_vars(HearDeploy \/ HearError) /\ WF_vars(Reopen)

-----------------------------------------------------------------------------
\* However late events arrive, cutting the window as they come loses nothing:
\* a signature that is not gated has fewer than THRESHOLD of all the events
\* heard since it was last ungated within WINDOW of the newest of them.
NoBurstMissed ==
    \A s \in Signature :
        s \notin detector.opened => Cardinality(InWindow(heard[s])) < THRESHOLD

\* A failure is a burst: THRESHOLD events of its signature, none more than
\* WINDOW older than another.
FailuresAreBursts ==
    \A f \in failures :
        /\ Cardinality(f.events) >= THRESHOLD
        /\ \A e \in f.events : SigOf[e] = f.signature
        /\ InWindow(f.events) = f.events

\* The failures are the bursts, whatever the order events are heard in.
FailuresAreTheBursts == NoBurstMissed /\ FailuresAreBursts

\* "A stale window from before the repair must not let one post-ship error
\* re-cross the threshold": no event counts towards two failures.
NoEventCountsTwice ==
    \A f, g \in failures : f # g => f.events \cap g.events = {}

\* "A bad repair must be re-detectable": a shipped repair's signature is
\* ungated in the end, unless the process is restarted first.
ShippedIsReopened ==
    \A s \in Signature, n \in 0 .. MaxRestarts :
        (s \in ToSet(reopens) /\ restarts = n) ~>
            (s \notin detector.opened \/ restarts > n)

\* "Reconstructs the identical opened state that run had", when that run had
\* heard everything on record.
RestoresTheGates ==
    [][(restarts' # restarts /\ posting = {} /\ inbox = << >>) =>
          detector'.opened = detector.opened]_vars
=============================================================================
