------------------------------ MODULE Behavior ------------------------------
(***************************************************************************)
(* What users did, as the behavior source counts it (crates/behavior:      *)
(* lib.rs, posthog.rs and plane.rs), and who reads it: `drums change` takes *)
(* a baseline, the tick measures and revisits over windows frozen when the *)
(* change shipped (change_cmd.rs), and `observe` takes a reading that ends  *)
(* now.  Events reach the source late, in any order; it is asked directly  *)
(* or through the console, and may not answer.                             *)
(***************************************************************************)
EXTENDS Naturals, FiniteSets, FiniteSetsExt

CONSTANTS
    Person,         \* who uses the app
    SECOND,         \* moments (ms) in a second, to which the source rounds
    Span,           \* the width of the plan's window, in moments
    Revisited,      \* the horizons a change is revisited at, each beyond Span
    EVIDENCE,       \* references an observation carries at most
    LastMoment,     \* bound: the clock
    MaxEvents,      \* bound: events
    MaxSamples      \* bound: readings on the record

ASSUME BehaviorAssumption ==
    /\ {SECOND, Span, EVIDENCE} \subseteq Nat \ {0} /\ {LastMoment, MaxEvents, MaxSamples} \subseteq Nat
    /\ Revisited \subseteq {h \in Nat : h > Span}

VARIABLES
    moment,         \* the clock
    happened,       \* the events of the app
    known,          \* those of them the source has
    shipped,        \* when the change shipped, or 0
    samples,        \* the readings on the record, the baseline first
    observation     \* the reading `observe` is taking, and what it shows

behaviorVars == <<moment, happened, known, shipped, samples, observation>>

Kind == {"start", "success"}
AppEvent == [person : Person, kind : Kind, at : 1 .. LastMoment]
RateMetric == {"CompletionRate", "Abandonment"}
NoObservation == [at |-> 0, affected |-> 0, entered |-> 0, evidence |-> {}, knew |-> {}]

BehaviorInit ==
    /\ moment = 1
    /\ happened = {} /\ known = {} /\ samples = {}
    /\ shipped = 0
    /\ observation = NoObservation

-----------------------------------------------------------------------------
\* The completion query: events of the window by person, entrants only; a person who
\* started and did not finish has the zero timestamp for a success.
EnteredAt(events, p) == Min({e.at : e \in {d \in events : d.person = p /\ d.kind = "start"}})
Succeeded(events, p) ==
    Max({0} \cup {e.at : e \in {d \in events : d.person = p /\ d.kind = "success"}})
Entrants(events) == {e.person : e \in {d \in events : d.kind = "start"}}
Completed(events) == {p \in Entrants(events) : Succeeded(events, p) >= EnteredAt(events, p)}

\* rate_for: a share of those who entered, never of more; for either metric those it
\* is about (affected_from) are the ones who did not get there.
RateFor(metric, entered, completed) ==
    IF completed > entered THEN [refused |-> TRUE]
    ELSE [refused |-> FALSE, entered |-> entered,
          counted |-> IF metric = "CompletionRate" THEN completed ELSE entered - completed]
AffectedFrom(metric, sample) ==
    IF metric = "CompletionRate" THEN sample.entered - sample.counted ELSE sample.counted

\* sample_between: [from, to), both cut to whole seconds.
Floor(t) == (t \div SECOND) * SECOND
Between(from, to) == {e \in known : Floor(from) <= e.at /\ e.at < Floor(to)}
ByNow(from, to) == {e \in known : from + (moment - to) <= e.at}
EventsBetween(from, to) == Between(from, to)

\* What the source answers, and what the error it makes is: the console's own
\* refusals are an account that is not set up yet.
Reply == {"rows", "no connection", "401", "403", "5xx", "4xx", "not connected", "token expired", "not rows"}
ErrorOf(via, reply) ==
    CASE reply = "rows" -> "none"
      [] reply = "no connection" -> "unreachable"
      [] reply \in {"401", "token expired"} -> "unauthorized"
      [] reply = "403" -> IF via = "direct" THEN "unauthorized" ELSE "rejected"
      [] reply = "5xx" -> IF via = "direct" THEN "rejected" ELSE "unreachable"
      [] reply = "4xx" -> "rejected"
      [] reply = "not connected" -> "unsupported"
      [] reply = "not rows" -> "shape"
Asked == [via : {"direct", "bridge"}, reply : Reply]
Answered(asked) == ErrorOf(asked.via, asked.reply) = "none"

\* The reference: an event's second is one of the window's.
InWindow(e, from, to) == e.at \div SECOND \in {t \in 0 .. LastMoment :
                            from < (t + 1) * SECOND /\ t < to \div SECOND}

\* A change's windows: the baseline ends as it ships, the outcome's begins there, a
\* revisit's ends at its horizon.
Sampled(metric, h, when) ==
    LET to == when + h
        events == EventsBetween(IF to > Span THEN to - Span ELSE 0, to)
    IN [of |-> h, knew |-> {e \in known : InWindow(e, to - Span, to)}, metric |-> metric,
        sample |-> RateFor(metric, Cardinality(Entrants(events)), Cardinality(Completed(events)))]

-----------------------------------------------------------------------------
Happens(e) ==
    /\ e.at = moment /\ e \notin happened /\ Cardinality(happened) < MaxEvents
    /\ happened' = happened \cup {e}
    /\ UNCHANGED <<moment, known, shipped, samples, observation>>
Arrives(e) ==
    /\ e \in happened \ known
    /\ known' = known \cup {e}
    /\ UNCHANGED <<moment, happened, shipped, samples, observation>>
Passes ==
    /\ moment < LastMoment
    /\ moment' = moment + 1
    /\ UNCHANGED <<happened, known, shipped, samples, observation>>

\* `drums change`: a baseline over the window that ends now, or no change at all.
Ships(metric, asked) ==
    /\ shipped = 0 /\ observation = NoObservation /\ Answered(asked)
    /\ LET s == Sampled(metric, 0, moment)
       IN ~s.sample.refused /\ samples' = {s} /\ shipped' = moment
    /\ UNCHANGED <<moment, happened, known, observation>>

\* measure_due_changes, revisit_due_changes: over the frozen window, once it has
\* elapsed, however late; what cannot be read is skipped, and read at another tick.
\* Two watches of one record may both read before either has written.
ReadsDue(h, asked) ==
    /\ shipped > 0 /\ moment >= shipped + h /\ Cardinality(samples) < MaxSamples
    /\ Answered(asked)
    /\ LET s == Sampled((CHOOSE b \in samples : b.of = 0).metric, h, shipped)
       IN ~s.sample.refused /\ samples' = samples \cup {s}
    /\ UNCHANGED <<moment, happened, known, shipped, observation>>

-----------------------------------------------------------------------------
\* observe (nothing in the binary calls it yet): a reading that ends now, then the
\* newest who entered, of whom those who finished are left out.  In whole seconds.
Recent == {e \in known : e.at + Span >= moment}
Unfinished(events) ==
    {p \in Entrants(events) : ~(Succeeded(events, p) \div SECOND >= EnteredAt(events, p) \div SECOND
                                /\ Succeeded(events, p) > 0)}
NewestEntrants(events, chosen) ==
    /\ chosen \subseteq Entrants(events)
    /\ Cardinality(chosen) = Min({EVIDENCE, Cardinality(Entrants(events))})
    /\ \A p \in chosen, q \in Entrants(events) \ chosen : EnteredAt(events, p) >= EnteredAt(events, q)

Observes(metric, asked) ==
    /\ observation = NoObservation /\ shipped = 0 /\ Answered(asked)
    /\ LET s == RateFor(metric, Cardinality(Entrants(Recent)), Cardinality(Completed(Recent)))
       IN /\ ~s.refused
          /\ observation' = [at |-> moment, affected |-> AffectedFrom(metric, s), entered |-> s.entered,
                             evidence |-> {}, knew |-> Recent]
    /\ UNCHANGED <<moment, happened, known, shipped, samples>>
\* A second query; one that fails leaves the observation without evidence.
Shows(asked) ==
    /\ observation.at > 0 /\ observation.evidence = {} /\ Answered(asked)
    /\ \E chosen \in SUBSET Entrants(Recent) :
          /\ NewestEntrants(Recent, chosen)
          /\ observation' = [observation EXCEPT !.evidence = chosen \cap Unfinished(Recent),
                                                !.knew = Recent]
    /\ UNCHANGED <<moment, happened, known, shipped, samples>>

BehaviorNext ==
    \/ \E e \in AppEvent : Happens(e) \/ Arrives(e)
    \/ Passes
    \/ \E metric \in RateMetric, asked \in Asked : Ships(metric, asked) \/ Observes(metric, asked)
    \/ \E h \in {Span} \cup Revisited, asked \in Asked : ReadsDue(h, asked)
    \/ \E asked \in Asked : Shows(asked)

BehaviorSpec == BehaviorInit /\ [][BehaviorNext]_behaviorVars

-----------------------------------------------------------------------------
Declared(e, h) == InWindow(e, shipped + h - Span, shipped + h)
WentThrough(events) ==
    {p \in Person : \E e, d \in events :
        e.person = p /\ d.person = p /\ e.kind = "start" /\ d.kind = "success" /\ e.at <= d.at}

\* However late a window is read, by whom, and whatever else happened meanwhile: who
\* finished is one who entered in the window declared at ship; the before and the
\* after share no event; and two readings of one window differ only by an event of that
\* window that had not arrived.
ReadingsAreOfTheirWindow ==
    /\ \A s \in samples :
        /\ s.sample.entered = Cardinality({e.person : e \in {d \in s.knew : d.kind = "start"}})
        /\ AffectedFrom(s.metric, s.sample) = s.sample.entered - Cardinality(WentThrough(s.knew))
    /\ shipped > 0 => \A e \in happened, h \in {Span} \cup Revisited :
        ~(Declared(e, 0) /\ Declared(e, h))
    /\ \A s, t \in samples : (s.of = t.of /\ s.knew = t.knew) => s.sample = t.sample

\* Nobody is shown as one who did not finish that had, nor more than were affected.
ShownDidNotFinish ==
    /\ observation.evidence \cap WentThrough(observation.knew) = {}
    /\ Cardinality(observation.evidence) <= EVIDENCE /\ observation.affected <= observation.entered

\* A window is read once it has closed: nothing that happens afterwards is in it.
ReadOnceClosed ==
    [][\A e \in happened' \ happened, s \in samples : ~Declared(e, s.of)]_behaviorVars

\* A reading is of the window declared for it, and taken once that has closed.
ReadingsAreComparable ==
    [](ReadingsAreOfTheirWindow /\ ShownDidNotFinish) /\ ReadOnceClosed
=============================================================================
