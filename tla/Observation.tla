---------------------------- MODULE Observation ----------------------------
(***************************************************************************)
(* What the observation tick finds: the rate of a signature's errors that  *)
(* moved with the latest deploy (detect/src/observe.rs) and the clicks of  *)
(* frustration a behaviour source counted (behavior/src/frustration.rs).   *)
(* Both are facts about a window, deduplicated by an id that a restart     *)
(* computes again.  The tick reads the record first, waits for the source, *)
(* and appends; events and deploys arrive meanwhile and late.              *)
(***************************************************************************)
EXTENDS Naturals, Sequences, FiniteSetsExt

CONSTANTS
    Sig,         \* error signatures
    PlaceOf,     \* a signature without its function: the error's name and its file
    Sha,         \* deployed commits
    Route,       \* paths of the page
    BEFORE,      \* params.before_window_ms
    AFTER,       \* params.after_window_ms
    MIN_EVENTS,  \* params.min_after_events
    RATIO,       \* params.min_ratio
    DAY,         \* DAY_MS
    MaxHour,     \* bound: the clock
    MaxEvents,   \* bound: events
    MaxReports,  \* bound: deploy lines
    MaxTickDeaths \* bound: ticks that die

ASSUME ObservationAssumption ==
    /\ BEFORE \in Nat \ {0} /\ AFTER \in Nat \ {0} /\ DAY \in Nat \ {0}
    /\ MIN_EVENTS \in Nat \ {0} /\ RATIO \in Nat \ {0}

VARIABLES
    errors,     \* the record's events, but for the probe of drums init, which is never
                \* counted: [signature, time -> how many]
    releases,   \* the record's deploys, in file order
    facts,      \* its observations: [id, of, at], of what (history) and by which clock
    repeated,   \* history: observations appended although they were there
    hour,       \* the clock
    tick,       \* phase of the tick, its clock, the ids it read, what it is to append
    tickDeaths  \* history: ticks that died

observationVars == <<errors, releases, facts, repeated, hour, tick, tickDeaths>>

Hours == 0 .. MaxHour
RestingTick == [at |-> "rest", now |-> 0, known |-> {}, todo |-> {}]

\* The last deploy by time; of two at one time, the later line.
LatestDeploy ==
    releases[CHOOSE i \in DOMAIN releases : \A j \in DOMAIN releases :
        \/ releases[j].at < releases[i].at
        \/ releases[j].at = releases[i].at /\ j <= i]

\* How many events of a signature in [from, to).
Count(sig, from, to) ==
    MapThenSumSet(LAMBDA t : errors[sig, t], {t \in Hours : from <= t /\ t < to})

\* now_ms.min(deploy_at + after_window): a late tick still judges the window.
WindowEndMissed(at, now) == IF now < at + AFTER THEN now ELSE at
WindowEnd(at, now) == IF now < at + AFTER THEN now ELSE at + AFTER
WindowStart(at) == IF at >= BEFORE THEN at - BEFORE ELSE 0

\* after / after_hours against RATIO * before / before_hours, multiplied out; a
\* signature with no event before the deploy needs no ratio.
Moved(before, beforeHours, after, afterHours) ==
    /\ after >= MIN_EVENTS
    /\ before > 0 => after * beforeHours >= RATIO * before * afterHours

\* shift_id: the deploy, the error's name and the file; the function of the
\* signature is left out.
ShiftId(sha, sig) == [tag |-> "rshift", what |-> sha, of |-> PlaceOf[sig]]
Fact(id, of, now) == [id |-> id, of |-> of, at |-> now]

\* rate_shifts.
RateShifts(now) ==
    IF releases = << >> THEN {}
    ELSE LET d == LatestDeploy
             end == WindowEnd(d.at, now)
             start == WindowStart(d.at)
         IN IF end <= d.at \/ start = d.at THEN {}
            ELSE {Fact(ShiftId(d.sha, sig), sig, now) : sig \in {s \in Sig :
                     Moved(Count(s, start, d.at), d.at - start,
                           Count(s, d.at, end), end - d.at)}}

\* frustration::observations: a single rage click counts, dead clicks need
\* several over several sessions; the id is the day's.
FrustrationGroup ==
    [event: {"rage", "dead", "other"}, path: Route, clicks: {1, 6}, sessions: {1, 2}]
Felt(g) ==
    \/ g.event = "rage"
    \/ g.event = "dead" /\ g.clicks >= 6 /\ g.sessions >= 2
FrustrationId(g, now) == [tag |-> g.event, what |-> now \div DAY, of |-> g.path]
Frustrations(groups, now) ==
    {Fact(FrustrationId(g, now), g.path, now) : g \in {h \in groups : Felt(h)}}
Unknown(found, known) == {o \in found : o.id \notin known}

-----------------------------------------------------------------------------
ObservationInit ==
    /\ errors = [x \in Sig \X Hours |-> 0]
    /\ releases = << >> /\ facts = {} /\ repeated = {}
    /\ hour = 1
    /\ tick = RestingTick
    /\ tickDeaths = 0

HourPasses ==
    /\ hour < MaxHour /\ hour' = hour + 1
    /\ UNCHANGED <<errors, releases, facts, repeated, tick, tickDeaths>>

\* An event carries the time the app gave it, not that of its arrival.
EventArrives ==
    /\ MapThenSumSet(LAMBDA x : errors[x], DOMAIN errors) < MaxEvents
    /\ \E sig \in Sig, at \in 0 .. hour :
           errors' = [errors EXCEPT ![<<sig, at>>] = @ + 1]
    /\ UNCHANGED <<releases, facts, repeated, hour, tick, tickDeaths>>

\* A deploy may be reported again later: then it is a new line.
DeployArrives ==
    /\ Len(releases) < MaxReports
    /\ \E sha \in Sha, at \in {hour - 1, hour} :
           releases' = Append(releases, [sha |-> sha, at |-> at])
    /\ UNCHANGED <<errors, facts, repeated, hour, tick, tickDeaths>>

\* The tick reads the record and the clock once.
KnownForgotten == {}
Known == {o.id : o \in facts}
TickReads ==
    /\ tick.at = "rest"
    /\ tick' = [at |-> "asking", now |-> hour, known |-> Known,
                todo |-> Unknown(RateShifts(hour), Known)]
    /\ UNCHANGED <<errors, releases, facts, repeated, hour, tickDeaths>>

\* observe_frustration: the source answers for the day before the tick's clock;
\* if it fails the tick goes on with what it found.
SourceAnswers ==
    /\ tick.at = "asking"
    /\ \E g \in FrustrationGroup :
           tick' = [tick EXCEPT !.at = "appending",
                        !.todo = @ \cup Unknown(Frustrations({g}, tick.now), tick.known)]
    /\ UNCHANGED <<errors, releases, facts, repeated, hour, tickDeaths>>

SourceFails ==
    /\ tick.at = "asking"
    /\ tick' = [tick EXCEPT !.at = "appending"]
    /\ UNCHANGED <<errors, releases, facts, repeated, hour, tickDeaths>>

ObservationAppended ==
    /\ tick.at = "appending"
    /\ \E o \in tick.todo :
           /\ facts' = facts \cup {o}
           /\ repeated' = repeated \cup ({o} \cap facts)
           /\ tick' = [tick EXCEPT !.todo = @ \ {o}]
    /\ UNCHANGED <<errors, releases, hour, tickDeaths>>

TickRests ==
    /\ tick.at = "appending" /\ tick.todo = {}
    /\ tick' = RestingTick
    /\ UNCHANGED <<errors, releases, facts, repeated, hour, tickDeaths>>

TickDies ==
    /\ tick.at # "rest" /\ tickDeaths < MaxTickDeaths
    /\ tick' = RestingTick /\ tickDeaths' = tickDeaths + 1
    /\ UNCHANGED <<errors, releases, facts, repeated, hour>>

TickStep ==
    TickReads \/ SourceAnswers \/ SourceFails \/ ObservationAppended \/ TickRests

ObservationNext ==
    HourPasses \/ EventArrives \/ DeployArrives \/ TickStep \/ TickDies

-----------------------------------------------------------------------------
ObservationTypeOK ==
    /\ errors \in [Sig \X Hours -> 0 .. MaxEvents]
    /\ hour \in 1 .. MaxHour /\ tick.now <= hour
    /\ tick.at \in {"rest", "asking", "appending"}
    /\ tick.known \subseteq Known /\ repeated \subseteq facts
    /\ tickDeaths \in 0 .. MaxTickDeaths

\* A finding is on the record once, whatever died between two of them: a tick that
\* starts again finds the ones its predecessor appended.  An id is there twice only
\* where one tick found two functions of one file moved with a deploy.
ObservedOnce ==
    /\ repeated = {}
    /\ \A o, p \in facts : (o.id = p.id /\ o # p) => o.id.tag = "rshift" /\ o.at = p.at

\* A deploy that brought a new error to a file is noticed, also by an engine that was
\* away for the whole window after it, unless a newer deploy takes its place or an
\* older event arrives late.  Of the file: a second function of it with the same error
\* has the first one's id, and once that is on the record it is not observed.
NewErrorSince(sha, sig) ==
    /\ releases # << >>
    /\ LET d == LatestDeploy IN
       /\ d.sha = sha /\ WindowStart(d.at) < d.at
       /\ Count(sig, 0, d.at) = 0
       /\ Count(sig, d.at, d.at + AFTER) >= MIN_EVENTS
       /\ Count(sig, hour, MaxHour + 1) = 0
ShiftIsSeen ==
    \A sha \in Sha, sig \in Sig :
        NewErrorSince(sha, sig) ~>
            (ShiftId(sha, sig) \in Known \/ ~NewErrorSince(sha, sig))

ObservationSpec ==
    ObservationInit /\ [][ObservationNext]_observationVars /\ WF_observationVars(TickStep)
=============================================================================
