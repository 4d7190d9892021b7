---------------------------- MODULE WatchProofs ----------------------------
(***************************************************************************)
(* What holds of detection for any events, arrival order, threshold,       *)
(* window and restarts: cutting the window event by event loses nothing, a *)
(* failure is always a burst, and no event counts towards two of them; of  *)
(* the tick and the poll for any records, that nothing is brought twice;   *)
(* of any number of starts, that what leaves the machine was told of; of   *)
(* any deliveries, that what is kept of them is masked, and no more; and   *)
(* of any repository, that an error has the signature of its own file.     *)
(***************************************************************************)
EXTENDS MCWatchAndTick, FoldProofs

HasNewest(S) == S = {} \/ \E m \in S : \A e \in S : At[e] <= At[m]

\* Cutting a window that was cut before gives the window of all the events.
LEMMA CutTwice ==
    ASSUME NEW S \in SUBSET Event, HasNewest(S), NEW e \in Event
    PROVE  /\ InWindow(InWindow(S) \cup {e}) = InWindow(S \cup {e})
           /\ HasNewest(S \cup {e})
<1> USE WatchAssumption
<1>1. CASE S = {}
    BY <1>1 DEF InWindow, HasNewest
<1>2. CASE S # {}
    <2> PICK m \in S : \A x \in S : At[x] <= At[m]
        BY <1>2 DEF HasNewest
    <2>1. \A x \in S \cup {e} : At[x] \in Nat
        OBVIOUS
    <2>2. m \in InWindow(S)
        BY <2>1 DEF InWindow
    <2>3. InWindow(S) = {x \in S : At[m] <= At[x] + WINDOW}
        BY <2>1 DEF InWindow
    <2>4. InWindow(S \cup {e}) =
              {x \in S \cup {e} : At[m] <= At[x] + WINDOW /\ At[e] <= At[x] + WINDOW}
        BY <2>1 DEF InWindow
    <2>5. InWindow(InWindow(S) \cup {e}) =
              {x \in InWindow(S) \cup {e} :
                  At[m] <= At[x] + WINDOW /\ At[e] <= At[x] + WINDOW}
        BY <2>1, <2>2 DEF InWindow
    <2>6. HasNewest(S \cup {e})
        <3>1. CASE At[e] <= At[m]
            BY <3>1 DEF HasNewest
        <3>2. CASE ~(At[e] <= At[m])
            BY <2>1, <3>2 DEF HasNewest
        <3>3. QED  BY <3>1, <3>2
    <2>7. QED  BY <2>3, <2>4, <2>5, <2>6
<1>3. QED  BY <1>1, <1>2

\* A window is a burst: cutting it again takes nothing away.
LEMMA CutIsBurst ==
    ASSUME NEW S
    PROVE  /\ InWindow(InWindow(S)) = InWindow(S)
           /\ InWindow(S) \subseteq S
BY DEF InWindow

-----------------------------------------------------------------------------
\* The strengthening: the detector's window is the window of everything heard.
DetectorType ==
    /\ detector \in Detector
    /\ heard \in [Signature -> SUBSET Event]
HeardIsFinite ==
    \A s \in Signature : IsFiniteSet(heard[s]) /\ HasNewest(heard[s])
WindowIsExact ==
    \A s \in Signature : s \notin detector.opened =>
        /\ detector.seen[s] = InWindow(heard[s])
        /\ Cardinality(detector.seen[s]) < THRESHOLD
EventsAreTheirs ==
    \A s \in Signature : \A e \in heard[s] \cup detector.seen[s] : SigOf[e] = s

IInv == DetectorType /\ HeardIsFinite /\ WindowIsExact /\ EventsAreTheirs

\* What the detector does with an event of a signature that is not gated.
LEMMA HearUngated ==
    ASSUME IInv, NEW e \in Event, Hear(e), SigOf[e] \notin detector.opened
    PROVE  LET s == SigOf[e]
               w == InWindow(heard[s] \cup {e})
           IN  /\ s \in Signature
               /\ heard' = [heard EXCEPT ![s] = @ \cup {e}]
               /\ detector' = Saw(detector, s, w)
               /\ HasNewest(heard[s] \cup {e})
               /\ IsFiniteSet(heard[s] \cup {e})
               /\ IsFiniteSet(w) /\ Cardinality(w) \in Nat
               /\ w \subseteq heard[s] \cup {e}
<1> DEFINE s == SigOf[e]
           w == InWindow(heard[s] \cup {e})
<1>1. s \in Signature
    BY WatchAssumption
<1>2. heard[s] \in SUBSET Event /\ HasNewest(heard[s]) /\ IsFiniteSet(heard[s])
    BY <1>1 DEF IInv, DetectorType, HeardIsFinite
<1>3. detector.seen[s] = InWindow(heard[s])
    BY <1>1 DEF IInv, WindowIsExact
<1>4. InWindow(detector.seen[s] \cup {e}) = w /\ HasNewest(heard[s] \cup {e})
    BY <1>2, <1>3, CutTwice
<1>5. IsFiniteSet(heard[s] \cup {e})
    BY <1>2, FS_AddElement
<1>6. w \subseteq heard[s] \cup {e}
    BY CutIsBurst
<1>7. IsFiniteSet(w) /\ Cardinality(w) \in Nat
    BY <1>5, <1>6, FS_Subset, FS_CardinalityType
<1>8. heard' = [heard EXCEPT ![s] = @ \cup {e}] /\ detector' = Saw(detector, s, w)
    BY <1>4 DEF Hear, Observe
<1>9. QED  BY <1>1, <1>4, <1>5, <1>6, <1>7, <1>8

\* Hearing an event keeps the window exact, and a failure it opens is a burst.
LEMMA HearKeeps ==
    ASSUME IInv, NEW e \in Event, Hear(e)
    PROVE  /\ IInv'
           /\ FailuresAreBursts => FailuresAreBursts'
<1> DEFINE s == SigOf[e]
           w == InWindow(heard[s] \cup {e})
<1>1. CASE s \in detector.opened
    <2>1. UNCHANGED <<detector, heard, failures>>
        BY <1>1 DEF Hear, Observe
    <2>2. QED
        BY <2>1 DEF IInv, DetectorType, HeardIsFinite, WindowIsExact, EventsAreTheirs,
                    FailuresAreBursts
<1>2. CASE s \notin detector.opened
    <2>1. /\ s \in Signature
          /\ heard' = [heard EXCEPT ![s] = @ \cup {e}]
          /\ detector' = Saw(detector, s, w)
          /\ HasNewest(heard[s] \cup {e}) /\ IsFiniteSet(heard[s] \cup {e})
          /\ Cardinality(w) \in Nat
          /\ w \subseteq heard[s] \cup {e}
        BY <1>2, HearUngated
    <2>2. /\ heard \in [Signature -> SUBSET Event]
          /\ detector.seen \in [Signature -> SUBSET Event]
          /\ detector.opened \subseteq Signature
        BY DEF IInv, DetectorType, Detector
    <2>3. /\ detector'.seen = [detector.seen EXCEPT ![s] = w]
          /\ detector'.opened =
                 detector.opened \cup (IF Cardinality(w) >= THRESHOLD THEN {s} ELSE {})
        BY <2>1 DEF Saw
    <2>4. DetectorType'
        <3>1. w \in SUBSET Event
            BY <2>1, <2>2
        <3>2. Saw(detector, s, w) \in Detector
            BY <2>1, <2>2, <3>1 DEF Saw, Detector
        <3>3. QED  BY <2>1, <2>2, <3>2 DEF DetectorType
    <2>5. HeardIsFinite'
        BY <2>1, <2>2 DEF IInv, HeardIsFinite
    <2>6. WindowIsExact'
        <3> SUFFICES ASSUME NEW t \in Signature, t \notin detector'.opened
                     PROVE  /\ detector'.seen[t] = InWindow(heard'[t])
                            /\ Cardinality(detector'.seen[t]) < THRESHOLD
            BY DEF WindowIsExact, InWindow
        <3>1. CASE t = s
            <4>1. detector'.seen[t] = w /\ heard'[t] = heard[s] \cup {e}
                BY <2>1, <2>2, <2>3, <3>1
            <4>2. ~(Cardinality(w) >= THRESHOLD)
                BY <2>3, <3>1
            <4>3. Cardinality(w) < THRESHOLD
                <5> HIDE DEF w
                <5> QED  BY <2>1, <4>2, WatchAssumption
            <4>4. InWindow(heard'[t]) = w
                BY <4>1
            <4>5. QED
                <5> HIDE DEF w
                <5> QED  BY <4>1, <4>3, <4>4
        <3>2. CASE t # s
            BY <2>1, <2>2, <2>3, <3>2 DEF IInv, WindowIsExact
        <3>3. QED  BY <3>1, <3>2
    <2>7. EventsAreTheirs'
        <3> SUFFICES ASSUME NEW t \in Signature,
                            NEW x \in heard'[t] \cup detector'.seen[t]
                     PROVE  SigOf[x] = t
            BY DEF EventsAreTheirs
        <3>1. CASE t = s
            <4>1. detector'.seen[t] = w /\ heard'[t] = heard[s] \cup {e}
                BY <2>1, <2>2, <2>3, <3>1
            <4>2. x \in heard[s] \cup {e}
                <5> HIDE DEF w
                <5> QED  BY <2>1, <4>1
            <4>3. QED  BY <2>1, <3>1, <4>2 DEF IInv, EventsAreTheirs
        <3>2. CASE t # s
            BY <2>1, <2>2, <2>3, <3>2 DEF IInv, EventsAreTheirs
        <3>3. QED  BY <3>1, <3>2
    <2>8. ASSUME FailuresAreBursts
          PROVE  FailuresAreBursts'
        <3>1. CASE detector'.opened = detector.opened
            BY <2>8, <3>1 DEF Hear, FailuresAreBursts
        <3>2. CASE detector'.opened # detector.opened
            <4>1. Cardinality(w) >= THRESHOLD /\ detector'.seen[s] = w
                BY <2>1, <2>2, <2>3, <3>2
            <4>2. PICK deploy \in Attribution(w) :
                      failures' = failures \cup
                          {[signature |-> s, events |-> w, deploy |-> deploy]}
                BY <3>2, <4>1 DEF Hear
            <4>3. \A x \in w : SigOf[x] = s
                BY <2>1 DEF IInv, EventsAreTheirs
            <4>4. InWindow(w) = w
                BY CutIsBurst
            <4>5. QED  BY <2>8, <4>1, <4>2, <4>3, <4>4 DEF FailuresAreBursts
        <3>3. QED  BY <3>1, <3>2
    <2>9. QED  BY <2>4, <2>5, <2>6, <2>7, <2>8 DEF IInv
<1>3. QED  BY <1>1, <1>2

\* A signature whose gate is lifted, and every signature after a restart,
\* starts from nothing heard and nothing seen.
LEMMA FreshIsExact ==
    /\ InWindow({}) = {} /\ IsFiniteSet({}) /\ HasNewest({})
    /\ Cardinality({}) < THRESHOLD
<1>1. Cardinality({}) = 0 /\ IsFiniteSet({})
    BY FS_EmptySet
<1>2. QED  BY <1>1, WatchAssumption DEF InWindow, HasNewest

LEMMA ReopenKeeps ==
    ASSUME IInv, Reopen
    PROVE  IInv'
<1> DEFINE s == Head(reopens)
<1>1. /\ detector'.seen = [detector.seen EXCEPT ![s] = {}]
      /\ detector'.opened = detector.opened \ {s}
      /\ heard' = [heard EXCEPT ![s] = {}]
    BY DEF Reopen
<1>2. /\ heard \in [Signature -> SUBSET Event]
      /\ detector.seen \in [Signature -> SUBSET Event]
      /\ detector.opened \subseteq Signature
    BY DEF IInv, DetectorType, Detector
<1>3. DetectorType'
    BY <1>1, <1>2 DEF Reopen, DetectorType, Detector
<1>4. HeardIsFinite'
    BY <1>1, <1>2, FreshIsExact DEF IInv, HeardIsFinite
<1>5. WindowIsExact'
    <2> SUFFICES ASSUME NEW t \in Signature, t \notin detector'.opened
                 PROVE  /\ detector'.seen[t] = InWindow(heard'[t])
                        /\ Cardinality(detector'.seen[t]) < THRESHOLD
        BY DEF WindowIsExact, InWindow
    <2>1. CASE t = s
        BY <1>1, <1>2, <2>1, FreshIsExact
    <2>2. CASE t # s
        BY <1>1, <1>2, <2>2 DEF IInv, WindowIsExact
    <2>3. QED  BY <2>1, <2>2
<1>6. EventsAreTheirs'
    BY <1>1, <1>2 DEF IInv, EventsAreTheirs
<1>7. QED  BY <1>3, <1>4, <1>5, <1>6 DEF IInv

\* A detector with any gates, that has seen and heard nothing.
LEMMA EmptyIsExact ==
    ASSUME heard = [s \in Signature |-> {}],
           detector.seen = [s \in Signature |-> {}],
           detector \in Detector
    PROVE  IInv
BY FreshIsExact DEF IInv, DetectorType, HeardIsFinite, WindowIsExact, EventsAreTheirs

LEMMA RestartKeeps ==
    ASSUME Restart
    PROVE  IInv'
<1>1. heard' = [s \in Signature |-> {}]
    BY DEF Restart
<1>2. NewDetector \in Detector /\ Restored \in Detector
    BY DEF NewDetector, Restored, Detector
<1>3. detector' \in Detector /\ detector'.seen = [s \in Signature |-> {}]
    BY <1>2 DEF Restart, NewDetector, Restored
<1>4. QED
    BY <1>1, <1>3, FreshIsExact
       DEF IInv, DetectorType, HeardIsFinite, WindowIsExact, EventsAreTheirs, InWindow

-----------------------------------------------------------------------------
\* A signature that is not gated has fewer than THRESHOLD of all the events it
\* was heard with within WINDOW of the newest; and every failure is a burst.
THEOREM DetectionIsExact == Spec => []FailuresAreTheBursts
<1>1. Init => IInv /\ FailuresAreBursts
    <2> SUFFICES ASSUME Init PROVE IInv /\ FailuresAreBursts
        OBVIOUS
    <2>1. NewDetector \in Detector /\ NewDetector.seen = [s \in Signature |-> {}]
        BY DEF NewDetector, Detector
    <2>2. IInv
        BY <2>1, EmptyIsExact DEF Init
    <2>3. QED  BY <2>2 DEF Init, FailuresAreBursts
<1>2. IInv /\ FailuresAreBursts /\ [Next]_vars => IInv' /\ FailuresAreBursts'
    <2> SUFFICES ASSUME IInv, FailuresAreBursts, [Next]_vars
                 PROVE  IInv' /\ FailuresAreBursts'
        OBVIOUS
    <2>1. ASSUME UNCHANGED <<detector, heard, failures>>
          PROVE  IInv' /\ FailuresAreBursts'
        BY <2>1 DEF IInv, DetectorType, HeardIsFinite, WindowIsExact, EventsAreTheirs,
                    FailuresAreBursts, InWindow
    <2>2. CASE HearError
        BY <2>2, HearKeeps DEF HearError
    <2>3. CASE Reopen
        BY <2>3, ReopenKeeps DEF Reopen, FailuresAreBursts
    <2>4. CASE Restart
        BY <2>4, RestartKeeps DEF Restart, FailuresAreBursts
    <2>5. CASE \E i \in Item : Post(i) \/ Send(i)
        BY <2>1, <2>5 DEF Post, Send
    <2>6. CASE HearDeploy \/ \E s \in Signature : RepairEnds(s)
        BY <2>1, <2>6 DEF HearDeploy, RepairEnds
    <2>7. CASE UNCHANGED vars
        BY <2>1, <2>7 DEF vars
    <2>8. QED  BY <2>2, <2>3, <2>4, <2>5, <2>6, <2>7 DEF Next
<1>3. IInv /\ FailuresAreBursts => FailuresAreTheBursts
    BY DEF IInv, WindowIsExact, NoBurstMissed, FailuresAreTheBursts
<1>4. QED  BY <1>1, <1>2, <1>3, PTL DEF Spec

-----------------------------------------------------------------------------
\* The strengthening for NoEventCountsTwice: an item is on the record before it is
\* on its way, is on its way once, and an event on its way has been neither heard
\* nor counted; what an ungated signature has seen no failure has counted.
Counted ==
    (UNION {f.events : f \in failures}) \cup (UNION {detector.seen[s] : s \in Signature})
OnTheWay ==
    /\ record \in Seq(Item) /\ inbox \in Seq(Item)
    /\ posting \cup ToSet(inbox) \subseteq ToSet(record)
    /\ posting \cap ToSet(inbox) = {}
    /\ Unique(inbox)
CountedWereHeard ==
    /\ Counted \subseteq ToSet(record)
    /\ Counted \cap (posting \cup ToSet(inbox)) = {}
SeenIsUncounted ==
    \A s \in Signature : s \notin detector.opened =>
        \A f \in failures : detector.seen[s] \cap f.events = {}

CountInv == IInv /\ OnTheWay /\ CountedWereHeard /\ SeenIsUncounted /\ NoEventCountsTwice

\* An event that has not been counted, heard: its signature's window grows by it,
\* and a failure it opens counts that window and nothing of another's.
LEMMA HearCounts ==
    ASSUME IInv, SeenIsUncounted, NoEventCountsTwice,
           NEW e \in Event, e \notin Counted, Hear(e)
    PROVE  /\ Counted' \subseteq Counted \cup {e}
           /\ SeenIsUncounted'
           /\ NoEventCountsTwice'
<1> DEFINE s == SigOf[e]
           w == InWindow(detector.seen[s] \cup {e})
<1>1. CASE s \in detector.opened
    <2>1. UNCHANGED <<detector, failures>>
        BY <1>1 DEF Hear, Observe
    <2>2. QED
        BY <2>1 DEF Counted, SeenIsUncounted, NoEventCountsTwice
<1>2. CASE s \notin detector.opened
    <2>1. s \in Signature
        BY WatchAssumption
    <2>2. /\ detector.seen \in [Signature -> SUBSET Event]
          /\ detector.opened \subseteq Signature
        BY DEF IInv, DetectorType, Detector
    <2>3. w \subseteq detector.seen[s] \cup {e}
        BY CutIsBurst
    <2> HIDE DEF w
    <2>4. detector' = Saw(detector, s, w)
        BY <1>2 DEF Hear, Observe, w
    <2>5. /\ detector'.seen = [detector.seen EXCEPT ![s] = w]
          /\ detector'.opened \in {detector.opened, detector.opened \cup {s}}
        BY <2>4 DEF Saw
    <2>6. detector'.seen[s] = w /\ \A t \in Signature \ {s} : detector'.seen[t] = detector.seen[t]
        BY <2>1, <2>2, <2>5
    <2>7. /\ \A f \in failures : w \cap f.events = {}
          /\ \A f \in failures : e \notin f.events
        BY <1>2, <2>1, <2>3 DEF SeenIsUncounted, Counted
    <2>8. \A t \in Signature \ {s} : detector.seen[t] \cap w = {}
        BY <2>1, <2>3 DEF IInv, EventsAreTheirs
    <2>9. CASE detector'.opened = detector.opened
        <3>1. failures' = failures
            BY <2>9 DEF Hear
        <3>2. Counted' \subseteq Counted \cup {e}
            BY <2>1, <2>3, <2>6, <3>1 DEF Counted
        <3>3. SeenIsUncounted'
            BY <2>6, <2>7, <2>9, <3>1 DEF SeenIsUncounted
        <3>4. QED  BY <3>1, <3>2, <3>3 DEF NoEventCountsTwice
    <2>10. CASE detector'.opened # detector.opened
        <3>1. PICK deploy \in Attribution(w) :
                  failures' = failures \cup
                      {[signature |-> s, events |-> w, deploy |-> deploy]}
            BY <2>6, <2>10 DEF Hear
        <3>2. detector'.opened = detector.opened \cup {s}
            BY <2>5, <2>10
        <3>3. \A f \in failures' : f \in failures \/ f.events = w
            BY <3>1
        <3>4. Counted' \subseteq Counted \cup {e}
            BY <2>1, <2>3, <2>6, <3>3 DEF Counted
        <3>5. SeenIsUncounted'
            BY <2>6, <2>7, <2>8, <3>2, <3>3 DEF SeenIsUncounted
        <3>6. NoEventCountsTwice'
            <4> SUFFICES ASSUME NEW f \in failures', NEW g \in failures', f # g
                         PROVE  f.events \cap g.events = {}
                BY DEF NoEventCountsTwice
            <4>1. CASE f \in failures /\ g \in failures
                BY <4>1 DEF NoEventCountsTwice
            <4>2. CASE f \in failures /\ g \notin failures
                BY <2>7, <3>3, <4>2
            <4>3. CASE f \notin failures /\ g \in failures
                BY <2>7, <3>3, <4>3
            <4>4. CASE f \notin failures /\ g \notin failures
                BY <3>1, <4>4
            <4>5. QED  BY <4>1, <4>2, <4>3, <4>4
        <3>7. QED  BY <3>4, <3>5, <3>6
    <2>11. QED  BY <2>9, <2>10
<1>3. QED  BY <1>1, <1>2

\* Whatever is heard, sent, lifted or lost, no event counts towards two failures: it
\* is on the record once, heard once, and a window is cleared when its gate is lifted.
THEOREM EventsCountOnce == Spec => []NoEventCountsTwice
<1>1. Init => CountInv
    <2> SUFFICES ASSUME Init PROVE CountInv
        OBVIOUS
    <2>1. NewDetector \in Detector /\ NewDetector.seen = [s \in Signature |-> {}]
        BY DEF NewDetector, Detector
    <2>2. IInv
        BY <2>1, EmptyIsExact DEF Init
    <2>3. OnTheWay
        BY DEF Init, OnTheWay, Unique, ToSet
    <2>4. Counted = {}
        BY <2>1 DEF Init, Counted
    <2>5. QED
        BY <2>1, <2>2, <2>3, <2>4 DEF Init, CountInv, CountedWereHeard, SeenIsUncounted, NoEventCountsTwice
<1>2. CountInv /\ [Next]_vars => CountInv'
    <2> SUFFICES ASSUME CountInv, [Next]_vars PROVE CountInv'
        OBVIOUS
    <2> USE DEF CountInv
    <2>1. ASSUME NEW i \in Item, Post(i) PROVE CountInv'
        <3>1. UNCHANGED <<inbox, detector, failures, heard>>
            BY <2>1 DEF Post
        <3>2. IInv' /\ Counted' = Counted /\ SeenIsUncounted' /\ NoEventCountsTwice'
            BY <3>1 DEF IInv, DetectorType, HeardIsFinite, WindowIsExact, EventsAreTheirs,
                        InWindow, Counted, SeenIsUncounted, NoEventCountsTwice
        <3>3. /\ record' \in Seq(Item) /\ ToSet(record') = ToSet(record) \cup {i}
              /\ i \notin ToSet(record) /\ posting' = posting \cup {i}
            BY <2>1, Appended DEF Post, OnTheWay
        <3>4. OnTheWay'
            BY <3>1, <3>3 DEF OnTheWay
        <3>5. CountedWereHeard'
            BY <3>1, <3>2, <3>3 DEF CountedWereHeard
        <3>6. QED  BY <3>2, <3>4, <3>5
    <2>2. ASSUME NEW i \in Item, Send(i) PROVE CountInv'
        <3>1. UNCHANGED <<record, detector, failures, heard>>
            BY <2>2 DEF Send
        <3>2. IInv' /\ Counted' = Counted /\ SeenIsUncounted' /\ NoEventCountsTwice'
            BY <3>1 DEF IInv, DetectorType, HeardIsFinite, WindowIsExact, EventsAreTheirs,
                        InWindow, Counted, SeenIsUncounted, NoEventCountsTwice
        <3>3. /\ inbox' \in Seq(Item) /\ ToSet(inbox') = ToSet(inbox) \cup {i}
              /\ i \in posting /\ posting' = posting \ {i} /\ Unique(inbox')
            BY <2>2, Appended, UniqueAppended DEF Send, OnTheWay
        <3>4. OnTheWay'
            BY <3>1, <3>3 DEF OnTheWay
        <3>5. CountedWereHeard'
            BY <3>1, <3>2, <3>3 DEF CountedWereHeard
        <3>6. QED  BY <3>2, <3>4, <3>5
    <2>3. CASE HearDeploy
        <3>1. UNCHANGED <<record, posting, detector, failures, heard>>
            BY <2>3 DEF HearDeploy
        <3>2. IInv' /\ Counted' = Counted /\ SeenIsUncounted' /\ NoEventCountsTwice'
            BY <3>1 DEF IInv, DetectorType, HeardIsFinite, WindowIsExact, EventsAreTheirs,
                        InWindow, Counted, SeenIsUncounted, NoEventCountsTwice
        <3>3. inbox' \in Seq(Item) /\ ToSet(inbox') \subseteq ToSet(inbox) /\ Unique(inbox')
            BY <2>3, Taken, UniqueTaken DEF HearDeploy, OnTheWay
        <3>4. OnTheWay' /\ CountedWereHeard'
            BY <3>1, <3>2, <3>3 DEF OnTheWay, CountedWereHeard
        <3>5. QED  BY <3>2, <3>4
    <2>4. CASE HearError
        <3> DEFINE e == Head(inbox)
        <3>1. /\ e \in Event /\ e \in ToSet(inbox) /\ e \notin ToSet(inbox')
              /\ inbox' \in Seq(Item) /\ ToSet(inbox') \subseteq ToSet(inbox) /\ Unique(inbox')
            BY <2>4, Taken, UniqueTaken DEF HearError, OnTheWay
        <3>2. Hear(e) /\ UNCHANGED <<record, posting>>
            BY <2>4 DEF HearError
        <3>3. e \notin Counted
            BY <3>1 DEF CountedWereHeard
        <3>4. Counted' \subseteq Counted \cup {e} /\ SeenIsUncounted' /\ NoEventCountsTwice'
            BY <3>1, <3>2, <3>3, HearCounts
        <3>5. IInv'
            BY <3>1, <3>2, HearKeeps
        <3>6. OnTheWay'
            BY <3>1, <3>2 DEF OnTheWay
        <3>7. CountedWereHeard'
            BY <3>1, <3>2, <3>4 DEF OnTheWay, CountedWereHeard
        <3>8. QED  BY <3>4, <3>5, <3>6, <3>7
    <2>5. CASE Reopen
        <3> DEFINE s == Head(reopens)
        <3>1. /\ UNCHANGED <<record, posting, inbox, failures>>
              /\ detector'.seen = [detector.seen EXCEPT ![s] = {}]
              /\ detector'.opened = detector.opened \ {s}
            BY <2>5 DEF Reopen
        <3>2. detector.seen \in [Signature -> SUBSET Event]
            BY DEF IInv, DetectorType, Detector
        <3>3. \A t \in Signature : detector'.seen[t] = IF t = s THEN {} ELSE detector.seen[t]
            BY <3>1, <3>2
        <3>4. Counted' \subseteq Counted
            BY <3>1, <3>3 DEF Counted
        <3>5. SeenIsUncounted'
            BY <3>1, <3>3 DEF SeenIsUncounted
        <3>6. OnTheWay' /\ CountedWereHeard' /\ NoEventCountsTwice'
            BY <3>1, <3>4 DEF OnTheWay, CountedWereHeard, NoEventCountsTwice
        <3>7. QED  BY <2>5, <3>5, <3>6, ReopenKeeps
    <2>6. ASSUME NEW s \in Signature, RepairEnds(s) PROVE CountInv'
        <3>1. UNCHANGED <<record, posting, inbox, detector, failures, heard>>
            BY <2>6 DEF RepairEnds
        <3>2. IInv' /\ Counted' = Counted /\ SeenIsUncounted' /\ NoEventCountsTwice'
            BY <3>1 DEF IInv, DetectorType, HeardIsFinite, WindowIsExact, EventsAreTheirs,
                        InWindow, Counted, SeenIsUncounted, NoEventCountsTwice
        <3>3. QED  BY <3>1, <3>2 DEF OnTheWay, CountedWereHeard
    <2>7. CASE Restart
        <3>1. /\ posting' = {} /\ inbox' = << >> /\ UNCHANGED <<record, failures>>
              /\ detector'.seen = [s \in Signature |-> {}]
            BY <2>7 DEF Restart, NewDetector, Restored
        <3>2. Counted' \subseteq Counted
            BY <3>1 DEF Counted
        <3>3. SeenIsUncounted'
            BY <3>1 DEF SeenIsUncounted
        <3>4. OnTheWay' /\ CountedWereHeard' /\ NoEventCountsTwice'
            BY <3>1, <3>2 DEF OnTheWay, CountedWereHeard, NoEventCountsTwice, Unique, ToSet
        <3>5. QED  BY <2>7, <3>3, <3>4, RestartKeeps
    <2>8. CASE UNCHANGED vars
        <3>1. UNCHANGED <<record, posting, inbox, detector, failures, heard>>
            BY <2>8 DEF vars
        <3>2. IInv' /\ Counted' = Counted /\ SeenIsUncounted' /\ NoEventCountsTwice'
            BY <3>1 DEF IInv, DetectorType, HeardIsFinite, WindowIsExact, EventsAreTheirs,
                        InWindow, Counted, SeenIsUncounted, NoEventCountsTwice
        <3>3. QED  BY <3>1, <3>2 DEF OnTheWay, CountedWereHeard
    <2>9. QED  BY <2>1, <2>2, <2>3, <2>4, <2>5, <2>6, <2>7, <2>8 DEF Next
<1>3. CountInv => NoEventCountsTwice
    BY DEF CountInv
<1>4. QED  BY <1>1, <1>2, <1>3, PTL DEF Spec

-----------------------------------------------------------------------------
\* What a tick still has to append is not on the record, and its ids are there only
\* for functions of one file that this tick found.
Alike(o, p) == o # p /\ o.id.tag = "rshift" /\ o.at = p.at
TickInv ==
    /\ tick.at = "asking" => Known \subseteq tick.known
    /\ \A o \in tick.todo, p \in facts : o.id = p.id => Alike(o, p)
    /\ \A o, p \in tick.todo : (o.id = p.id /\ o # p) => Alike(o, p)
    /\ tick = [at |-> tick.at, now |-> tick.now, known |-> tick.known, todo |-> tick.todo]
    /\ tick.at = "asking" => \A o \in tick.todo : o.at = tick.now /\ o.id.tag = "rshift"
    /\ ObservedOnce

\* A rate shift found is of the tick's clock, and an id is of a rate shift.
LEMMA ShiftsAreShifts ==
    ASSUME NEW now, NEW o \in RateShifts(now)
    PROVE  o.at = now /\ o.id.tag = "rshift"
<1>1. PICK sha, sig : o = Fact(ShiftId(sha, sig), sig, now)
    BY DEF RateShifts
<1>2. QED  BY <1>1 DEF Fact, ShiftId

\* Whatever arrives while a tick waits, and whichever ticks die, no observation is on
\* the record twice, and an id only for functions of one file found together.
THEOREM ObservationsAreOnce == ObservationSpec => []ObservedOnce
<1>1. ObservationInit => TickInv
    BY DEF ObservationInit, TickInv, ObservedOnce, RestingTick
<1>2. TickInv /\ [ObservationNext]_observationVars => TickInv'
    <2> SUFFICES ASSUME TickInv, [ObservationNext]_observationVars PROVE TickInv'
        OBVIOUS
    <2> USE DEF TickInv, ObservedOnce
    <2>1. CASE UNCHANGED <<tick, facts, repeated>>
        BY <2>1 DEF Known
    <2>2. CASE TickReads
        <3>1. /\ tick' = [at |-> "asking", now |-> hour, known |-> Known,
                          todo |-> Unknown(RateShifts(hour), Known)]
              /\ facts' = facts /\ repeated' = repeated
            BY <2>2 DEF TickReads
        <3>2. \A o \in tick'.todo : /\ o.at = hour /\ o.id.tag = "rshift"
                                    /\ \A p \in facts : o.id # p.id
            BY <3>1, ShiftsAreShifts DEF Unknown, Known
        <3>3. QED  BY <3>1, <3>2 DEF Known, Alike
    <2>3. CASE SourceAnswers
        <3>1. PICK g \in FrustrationGroup :
                  tick' = [tick EXCEPT !.at = "appending",
                              !.todo = @ \cup Unknown(Frustrations({g}, tick.now), tick.known)]
            BY <2>3 DEF SourceAnswers
        <3> DEFINE felt == Fact(FrustrationId(g, tick.now), g.path, tick.now)
        <3>2. \A o \in Unknown(Frustrations({g}, tick.now), tick.known) :
                  o = felt /\ o.id \notin tick.known
            BY DEF Unknown, Frustrations
        <3>3. felt.id.tag # "rshift"
            BY DEF Fact, FrustrationId, FrustrationGroup
        <3>4. tick.at = "asking" /\ facts' = facts /\ repeated' = repeated
            BY <2>3 DEF SourceAnswers
        <3>5. /\ tick'.at = "appending" /\ tick'.now = tick.now /\ tick'.known = tick.known
              /\ tick'.todo = tick.todo \cup Unknown(Frustrations({g}, tick.now), tick.known)
              /\ tick' = [at |-> tick'.at, now |-> tick'.now, known |-> tick'.known,
                          todo |-> tick'.todo]
            BY <3>1
        <3>6. \A o \in tick'.todo : o \in tick.todo \/ (o = felt /\ o.id \notin tick.known)
            BY <3>2, <3>5
        <3> HIDE DEF felt
        <3>7. \A p \in facts : p.id \in tick.known
            BY <3>4 DEF Known
        <3>8. \A o \in tick'.todo, p \in facts : o.id = p.id => Alike(o, p)
            BY <3>6, <3>7
        <3>9. \A o, p \in tick'.todo : (o.id = p.id /\ o # p) => Alike(o, p)
            BY <3>3, <3>4, <3>6
        <3>10. QED  BY <3>4, <3>5, <3>8, <3>9
    <2>4. CASE SourceFails
        BY <2>4 DEF SourceFails
    <2>5. CASE ObservationAppended
        <3>1. PICK o \in tick.todo : /\ facts' = facts \cup {o}
                                     /\ repeated' = repeated \cup ({o} \cap facts)
                                     /\ tick' = [tick EXCEPT !.todo = @ \ {o}]
            BY <2>5 DEF ObservationAppended
        <3>2. o \notin facts
            BY DEF Alike
        <3>3. /\ tick'.at = "appending" /\ tick'.todo = tick.todo \ {o}
              /\ tick' = [at |-> tick'.at, now |-> tick'.now, known |-> tick'.known,
                          todo |-> tick'.todo]
            BY <2>5, <3>1 DEF ObservationAppended
        <3>4. \A p, q \in facts' : (p.id = q.id /\ p # q) => p.id.tag = "rshift" /\ p.at = q.at
            BY <3>1 DEF Alike
        <3>5. \A p \in tick'.todo, q \in facts' : p.id = q.id => Alike(p, q)
            BY <3>1, <3>3
        <3>6. \A p, q \in tick'.todo : (p.id = q.id /\ p # q) => Alike(p, q)
            BY <3>3
        <3>7. QED  BY <3>1, <3>2, <3>3, <3>4, <3>5, <3>6
    <2>6. CASE TickRests \/ TickDies
        BY <2>6 DEF TickRests, TickDies, RestingTick
    <2>7. CASE HourPasses \/ EventArrives \/ DeployArrives \/ UNCHANGED observationVars
        BY <2>1, <2>7 DEF HourPasses, EventArrives, DeployArrives, observationVars
    <2>8. QED
        BY <2>2, <2>3, <2>4, <2>5, <2>6, <2>7 DEF ObservationNext, TickStep
<1>3. TickInv => ObservedOnce
    BY DEF TickInv
<1>4. QED  BY <1>1, <1>2, <1>3, PTL DEF ObservationSpec

-----------------------------------------------------------------------------
\* A finite set has a sequence of its members, each once.
LEMMA MembersOnce ==
    ASSUME NEW S, IsFiniteSet(S)
    PROVE  SetToSeq(S) \in Seq(S) /\ Unique(SetToSeq(S))
<1>1. Cardinality(S) \in Nat /\ ExistsBijection(1 .. Cardinality(S), S)
    BY FS_CardinalityType
<1>2. \E f \in [1 .. Cardinality(S) -> S] : IsInjective(f)
    BY <1>1 DEF ExistsBijection, Bijection, Injection
<1>3. SetToSeq(S) \in [1 .. Cardinality(S) -> S] /\ IsInjective(SetToSeq(S))
    BY <1>2 DEF SetToSeq
<1>4. SetToSeq(S) \in Seq(S)
    BY <1>1, <1>3
<1>5. QED  BY <1>3, <1>4 DEF Unique, IsInjective

ReportLine == [id: Issue \cup {NoId}, by: {"webhook", "poll"}]
ByPoll == {n \in DOMAIN reports : reports[n].by = "poll"}
\* What a poll has left to post no poll has brought.
PollInv ==
    /\ reports \in Seq(ReportLine)
    /\ poll = [at |-> poll.at, seen |-> poll.seen, batch |-> poll.batch]
    /\ poll.batch \in Seq(Issue) /\ Unique(poll.batch)
    /\ \A n \in ByPoll : reports[n].id \notin ToSet(poll.batch)
    /\ poll.at = "asking" => \A n \in ByPoll : reports[n].id \in poll.seen
    /\ PolledOnce

\* One report more, of an issue no poll has brought if it is by a poll.
LEMMA OneMoreReport ==
    ASSUME reports \in Seq(ReportLine), PolledOnce,
           NEW id \in Issue \cup {NoId}, NEW by \in {"webhook", "poll"}, Report(id, by),
           by = "poll" => \A n \in ByPoll : reports[n].id # id
    PROVE  /\ reports' \in Seq(ReportLine)
           /\ PolledOnce'
           /\ \A n \in ByPoll' : \/ n \in ByPoll /\ reports'[n].id = reports[n].id
                                 \/ by = "poll" /\ reports'[n].id = id
<1>1. [id |-> id, by |-> by] \in ReportLine
    BY DEF ReportLine
<1>2. reports' = Append(reports, [id |-> id, by |-> by])
    BY DEF Report
<1> DEFINE new == [id |-> id, by |-> by]
<1>3. new.id = id /\ new.by = by /\ new \in ReportLine
    BY <1>1
<1> HIDE DEF new
<1>4. /\ reports' \in Seq(ReportLine)
      /\ DOMAIN reports = 1 .. Len(reports) /\ Len(reports) \in Nat
      /\ DOMAIN reports' = 1 .. (Len(reports) + 1)
      /\ \A i \in 1 .. Len(reports) : reports'[i] = reports[i]
      /\ reports'[Len(reports) + 1] = new
    BY <1>2, <1>3 DEF new
<1>5. \A i \in DOMAIN reports' : i \in DOMAIN reports \/ i = Len(reports) + 1
    BY <1>4
<1>6. \A i \in DOMAIN reports' : \/ i \in DOMAIN reports /\ reports'[i] = reports[i]
                                 \/ i = Len(reports) + 1 /\ reports'[i] = new
    BY <1>4, <1>5
<1>7. \A n \in ByPoll' : \/ n \in ByPoll /\ reports'[n] = reports[n]
                         \/ n = Len(reports) + 1 /\ by = "poll" /\ reports'[n] = new
    BY <1>3, <1>6 DEF ByPoll
<1>8. PolledOnce'
    BY <1>3, <1>7 DEF PolledOnce, ByPoll
<1>9. QED  BY <1>3, <1>4, <1>7, <1>8

\* Whatever the webhooks bring meanwhile, and whatever fails, no issue is polled twice.
THEOREM PolledIssuesAreOnce == IntakeSpec => []PolledOnce
<1> USE IntakeAssumption
<1>1. IntakeInit => PollInv
    BY DEF IntakeInit, PollInv, PolledOnce, RestingPoll, ByPoll, Unique, ToSet, ReportLine
<1>2. PollInv /\ [IntakeNext]_intakeVars => PollInv'
    <2> SUFFICES ASSUME PollInv, [IntakeNext]_intakeVars PROVE PollInv'
        OBVIOUS
    <2> USE DEF PollInv
    <2>1. CASE UNCHANGED <<reports, poll>>
        BY <2>1 DEF PolledOnce, ByPoll
    <2> << >> \in Seq(Issue) /\ Unique(<< >>) /\ ToSet(<< >>) = {}
        BY DEF Unique, ToSet
    <2>2. ASSUME NEW id \in Issue \cup {NoId}, Report(id, "webhook"), UNCHANGED poll
          PROVE  PollInv'
        <3>1. /\ reports' \in Seq(ReportLine) /\ PolledOnce'
              /\ \A n \in ByPoll' : n \in ByPoll /\ reports'[n].id = reports[n].id
            BY <2>2, OneMoreReport
        <3>2. QED  BY <2>2, <3>1
    <2>3. CASE PollAsks
        <3>1. /\ poll' = [at |-> "asking", seen |-> Seen, batch |-> << >>]
              /\ reports' = reports
            BY <2>3 DEF PollAsks, RestingPoll
        <3>2. QED  BY <3>1 DEF ByPoll, Seen, PolledOnce
    <2>4. CASE ConsoleAnswers
        <3> DEFINE fresh == {i \in Issue : Fresh(i)} \ poll.seen
        <3>1. IsFiniteSet(fresh)
            BY FS_Subset
        <3>2. SetToSeq(fresh) \in Seq(fresh) /\ Unique(SetToSeq(fresh))
            BY <3>1, MembersOnce
        <3>3. poll' = [poll EXCEPT !.at = "posting", !.batch = SetToSeq(fresh)]
            BY <2>4 DEF ConsoleAnswers
        <3>4. poll'.at = "posting" /\ poll'.seen = poll.seen /\ poll'.batch = SetToSeq(fresh)
              /\ poll' = [at |-> poll'.at, seen |-> poll'.seen, batch |-> poll'.batch]
            BY <3>3
        <3>5. ToSet(SetToSeq(fresh)) \subseteq fresh /\ fresh \cap poll.seen = {}
            BY <3>2 DEF ToSet
        <3>6. SetToSeq(fresh) \in Seq(Issue)
            BY <3>2
        <3>7. poll.at = "asking" /\ reports' = reports
            BY <2>4 DEF ConsoleAnswers
        <3> HIDE DEF fresh
        <3>8. QED  BY <3>2, <3>4, <3>5, <3>6, <3>7 DEF PolledOnce, ByPoll
    <2>5. CASE PostIssue
        <3>1. /\ poll.batch # << >> /\ poll.at = "posting"
              /\ poll' = [poll EXCEPT !.batch = Tail(@)]
              /\ Report(Head(poll.batch), "poll")
            BY <2>5 DEF PostIssue
        <3>2. /\ Head(poll.batch) \in Issue /\ Tail(poll.batch) \in Seq(Issue)
              /\ Head(poll.batch) \in ToSet(poll.batch)
              /\ ToSet(Tail(poll.batch)) \subseteq ToSet(poll.batch)
            BY <3>1, Taken
        <3>3. Unique(Tail(poll.batch)) /\ Head(poll.batch) \notin ToSet(Tail(poll.batch))
            BY <3>1, UniqueTaken
        <3>4. /\ reports' \in Seq(ReportLine) /\ PolledOnce'
              /\ \A n \in ByPoll' : \/ n \in ByPoll /\ reports'[n].id = reports[n].id
                                    \/ reports'[n].id = Head(poll.batch)
            BY <3>1, <3>2, OneMoreReport
        <3>5. poll'.at = "posting" /\ poll'.seen = poll.seen /\ poll'.batch = Tail(poll.batch)
              /\ poll' = [at |-> poll'.at, seen |-> poll'.seen, batch |-> poll'.batch]
            BY <3>1
        <3>6. QED  BY <3>2, <3>3, <3>4, <3>5
    <2>6. CASE PollEnds \/ PollFails \/ Reboot
        <3>1. poll' = [at |-> "rest", seen |-> {}, batch |-> << >>] /\ reports' = reports
            BY <2>6 DEF PollEnds, PollFails, Reboot, RestingPoll
        <3>2. QED  BY <3>1 DEF ByPoll, PolledOnce
    <2>7. CASE \E i \in Issue : FileIssue(i) \/ CloseIssue(i)
        BY <2>1, <2>7 DEF FileIssue, CloseIssue
    <2>8. CASE (\E i \in Issue : LinearArrives(i)) \/ AgentationArrives
        BY <2>2, <2>8 DEF LinearArrives, AgentationArrives
    <2>9. CASE HourGoesBy \/ UNCHANGED intakeVars
        BY <2>1, <2>9 DEF HourGoesBy, intakeVars
    <2>10. QED
        BY <2>3, <2>4, <2>5, <2>6, <2>7, <2>8, <2>9 DEF IntakeNext, PollStep
<1>3. PollInv => PolledOnce
    BY DEF PollInv
<1>4. QED  BY <1>1, <1>2, <1>3, PTL DEF IntakeSpec

\* The two together: what a tick finds is brought to the record once.
THEOREM FindingsAreBroughtOnce == ObservationSpec /\ IntakeSpec => []BroughtOnce
<1>1. ObservedOnce /\ PolledOnce => BroughtOnce
    BY DEF BroughtOnce
<1>2. QED  BY <1>1, ObservationsAreOnce, PolledIssuesAreOnce, PTL

-----------------------------------------------------------------------------
\* The strengthening for TelemetryIsHonest: the marker and the owed notice tell whether
\* it was shown before a start comes to its heartbeat; an id is drawn only where none
\* is, and until two draw at once everyone's is the machine's.
NoticeComesFirst ==
    /\ disclosed => shown
    /\ \A w \in Watcher :
          /\ heartbeats[w].told
          /\ heartbeats[w].beats > 0 => start[w].id # "none"
          /\ start[w].id # "none" /\ ~start[w].owes => shown
          /\ start[w].at = "marking" => shown
          /\ start[w].at \in {"heartbeat", "running"} => start[w].id = "none" \/ shown
OptedOutIsLeftAlone ==
    \A w \in Watcher : ~start[w].on =>
        start[w].id = "none" /\ installId # w /\ start[w].at \notin {"opening", "writing"}
TurnedAwayLeavesNothing ==
    \A w \in Watcher : start[w].at \in {"flags", "gate", "turned_away"} =>
        start[w].id = "none" /\ installId # w /\ w \notin left \cup engines
OneIdDrawn ==
    raced \/ \A v \in Watcher :
        /\ start[v].id # "none" => start[v].id = installId
        /\ start[v].at \in {"opening", "writing"} =>
              /\ installId \notin Watcher
              /\ \A w \in Watcher : start[w].at \in {"opening", "writing"} => w = v
StartInv ==
    /\ WatchStartTypeOK
    /\ NoticeComesFirst /\ OptedOutIsLeftAlone /\ TurnedAwayLeavesNothing /\ OneIdDrawn

StartRecord == [at: StartingPoint, on: BOOLEAN, id: Watcher \cup {"none"}, owes: BOOLEAN]

\* What a step that moves one start leaves of it, and of the others.
OnlyMoves(w, p) ==
    /\ start' \in [Watcher -> StartRecord]
    /\ start'[w].at = p
    /\ start'[w].on = start[w].on /\ start'[w].id = start[w].id
    /\ start'[w].owes = start[w].owes
    /\ \A v \in Watcher \ {w} : start'[v] = start[v]
LEMMA OneStarts ==
    ASSUME start \in [Watcher -> StartRecord], NEW w \in Watcher,
           NEW p \in StartingPoint, StartAt(w, p)
    PROVE  OnlyMoves(w, p)
BY DEF StartAt, StartRecord, OnlyMoves


\* And one that gives a start its id.
LEMMA OneIsNamed ==
    ASSUME start \in [Watcher -> StartRecord], NEW w \in Watcher, NEW i \in Watcher,
           NEW o \in BOOLEAN,
           start' = [start EXCEPT ![w].at = "checks", ![w].id = i, ![w].owes = o]
    PROVE  /\ start' \in [Watcher -> StartRecord]
           /\ start'[w].at = "checks" /\ start'[w].id = i /\ start'[w].owes = o
           /\ start'[w].on = start[w].on
           /\ \A v \in Watcher \ {w} : start'[v] = start[v]
BY DEF StartRecord, StartingPoint

\* However starts of one machine interleave and wherever each is stopped: no heartbeat
\* is sent that no notice preceded, nothing by one that opted out, nothing is left by
\* one turned away, and those that send do so under one id unless two drew at once.
THEOREM TelemetryStaysHonest == WatchStartSpec => []TelemetryIsHonest
<1> USE WatchStartAssumption
<1>1. WatchStartInit => StartInv
    <2> SUFFICES ASSUME WatchStartInit PROVE StartInv
        OBVIOUS
    <2>1. PICK env \in [Watcher -> Switch], config \in [Watcher -> ConfigSwitch] :
              start = [w \in Watcher |->
                          [at |-> "flags", on |-> TelemetryOn(env[w], config[w]),
                           id |-> "none", owes |-> FALSE]]
        BY DEF WatchStartInit
    <2>2. \A e, c : TelemetryOn(e, c) \in BOOLEAN
        <3> SUFFICES ASSUME NEW e, NEW c PROVE TelemetryOn(e, c) \in BOOLEAN
            OBVIOUS
        <3>1. CASE e = "unset"
            BY <3>1 DEF TelemetryOn
        <3>2. CASE e # "unset"
            BY <3>2 DEF TelemetryOn
        <3>3. QED  BY <3>1, <3>2
    <2>3. start \in [Watcher ->
               [at: StartingPoint, on: BOOLEAN, id: Watcher \cup {"none"}, owes: BOOLEAN]]
        BY <2>1, <2>2 DEF StartingPoint
    <2>4. /\ \A w \in Watcher : start[w].at = "flags" /\ start[w].id = "none"
          /\ \A w \in Watcher : heartbeats[w].told /\ heartbeats[w].beats = 0
        BY <2>1 DEF WatchStartInit
    <2>5. heartbeats \in [Watcher -> [beats: 0 .. MaxBeats, told: BOOLEAN]]
        BY DEF WatchStartInit
    <2>6. WatchStartTypeOK
        BY <2>3, <2>5 DEF WatchStartInit, WatchStartTypeOK
    <2>7. QED
        BY <2>4, <2>6 DEF WatchStartInit, StartInv, NoticeComesFirst, OptedOutIsLeftAlone,
                          TurnedAwayLeavesNothing, OneIdDrawn
<1>2. StartInv /\ [WatchStartNext]_watchStartVars => StartInv'
    <2> SUFFICES ASSUME StartInv, [WatchStartNext]_watchStartVars PROVE StartInv'
        OBVIOUS
    <2> start \in [Watcher -> StartRecord]
        BY DEF StartInv, WatchStartTypeOK, StartRecord
    <2> USE DEF StartInv, WatchStartTypeOK
    <2>1. CASE UNCHANGED watchStartVars
        BY <2>1 DEF watchStartVars, NoticeComesFirst, OptedOutIsLeftAlone,
                    TurnedAwayLeavesNothing, OneIdDrawn
    <2>2. ASSUME NEW w \in Watcher, CheckFlags(w) PROVE StartInv'
        <3>1. PICK p \in {"turned_away", "gate"} : OnlyMoves(w, p)
            BY <2>2, OneStarts DEF CheckFlags, Refuse, StartingPoint
        <3>2. WatchStartTypeOK'
            BY <2>2, <3>1 DEF CheckFlags, OnlyMoves, StartRecord
        <3>3. NoticeComesFirst'
            BY <2>2, <3>1 DEF CheckFlags, OnlyMoves, NoticeComesFirst, StartAt, Refuse
        <3>4. OptedOutIsLeftAlone'
            BY <2>2, <3>1 DEF CheckFlags, OnlyMoves, OptedOutIsLeftAlone
        <3>5. TurnedAwayLeavesNothing'
            BY <2>2, <3>1 DEF CheckFlags, OnlyMoves, TurnedAwayLeavesNothing
        <3>6. OneIdDrawn'
            BY <2>2, <3>1 DEF CheckFlags, OnlyMoves, OneIdDrawn
        <3>7. QED  BY <3>2, <3>3, <3>4, <3>5, <3>6 DEF StartInv
    <2>3. ASSUME NEW w \in Watcher, PassGate(w) PROVE StartInv'
        <3>1. PICK p \in {"turned_away", "telemetry"} : OnlyMoves(w, p)
            BY <2>3, OneStarts DEF PassGate, Refuse, StartingPoint
        <3>2. WatchStartTypeOK'
            BY <2>3, <3>1 DEF PassGate, OnlyMoves, StartRecord
        <3>3. NoticeComesFirst'
            BY <2>3, <3>1 DEF PassGate, OnlyMoves, NoticeComesFirst, StartAt, Refuse
        <3>4. OptedOutIsLeftAlone'
            BY <2>3, <3>1 DEF PassGate, OnlyMoves, OptedOutIsLeftAlone
        <3>5. TurnedAwayLeavesNothing'
            BY <2>3, <3>1 DEF PassGate, OnlyMoves, TurnedAwayLeavesNothing
        <3>6. OneIdDrawn'
            BY <2>3, <3>1 DEF PassGate, OnlyMoves, OneIdDrawn
        <3>7. QED  BY <3>2, <3>3, <3>4, <3>5, <3>6 DEF StartInv
    <2>5. ASSUME NEW w \in Watcher, OpenInstallId(w) PROVE StartInv'
        <3>1. PICK p \in {"writing", "checks"} : OnlyMoves(w, p)
            BY <2>5, OneStarts DEF OpenInstallId, Refuse, StartingPoint
        <3>2. WatchStartTypeOK'
            BY <2>5, <3>1 DEF OpenInstallId, OnlyMoves, StartRecord
        <3>3. NoticeComesFirst'
            BY <2>5, <3>1 DEF OpenInstallId, OnlyMoves, NoticeComesFirst, StartAt, Refuse
        <3>4. OptedOutIsLeftAlone'
            BY <2>5, <3>1 DEF OpenInstallId, OnlyMoves, OptedOutIsLeftAlone
        <3>5. TurnedAwayLeavesNothing'
            BY <2>5, <3>1 DEF OpenInstallId, OnlyMoves, TurnedAwayLeavesNothing
        <3>6. OneIdDrawn'
            BY <2>5, <3>1 DEF OpenInstallId, OnlyMoves, OneIdDrawn
        <3>7. QED  BY <3>2, <3>3, <3>4, <3>5, <3>6 DEF StartInv
    <2>7. ASSUME NEW w \in Watcher, CheckOutlets(w) PROVE StartInv'
        <3>1. PICK p \in {"refused", "spawning"} : OnlyMoves(w, p)
            BY <2>7, OneStarts DEF CheckOutlets, Refuse, StartingPoint
        <3>2. WatchStartTypeOK'
            BY <2>7, <3>1 DEF CheckOutlets, OnlyMoves, StartRecord
        <3>3. NoticeComesFirst'
            BY <2>7, <3>1 DEF CheckOutlets, OnlyMoves, NoticeComesFirst, StartAt, Refuse
        <3>4. OptedOutIsLeftAlone'
            BY <2>7, <3>1 DEF CheckOutlets, OnlyMoves, OptedOutIsLeftAlone
        <3>5. TurnedAwayLeavesNothing'
            BY <2>7, <3>1 DEF CheckOutlets, OnlyMoves, TurnedAwayLeavesNothing
        <3>6. OneIdDrawn'
            BY <2>7, <3>1 DEF CheckOutlets, OnlyMoves, OneIdDrawn
        <3>7. QED  BY <3>2, <3>3, <3>4, <3>5, <3>6 DEF StartInv
    <2>8. ASSUME NEW w \in Watcher, SpawnEngine(w) PROVE StartInv'
        <3>1. PICK p \in {"engine"} : OnlyMoves(w, p)
            BY <2>8, OneStarts DEF SpawnEngine, Refuse, StartingPoint
        <3>2. WatchStartTypeOK'
            BY <2>8, <3>1 DEF SpawnEngine, OnlyMoves, StartRecord
        <3>3. NoticeComesFirst'
            BY <2>8, <3>1 DEF SpawnEngine, OnlyMoves, NoticeComesFirst, StartAt, Refuse
        <3>4. OptedOutIsLeftAlone'
            BY <2>8, <3>1 DEF SpawnEngine, OnlyMoves, OptedOutIsLeftAlone
        <3>5. TurnedAwayLeavesNothing'
            BY <2>8, <3>1 DEF SpawnEngine, OnlyMoves, TurnedAwayLeavesNothing
        <3>6. OneIdDrawn'
            BY <2>8, <3>1 DEF SpawnEngine, OnlyMoves, OneIdDrawn
        <3>7. QED  BY <3>2, <3>3, <3>4, <3>5, <3>6 DEF StartInv
    <2>9. ASSUME NEW w \in Watcher, Listen(w) PROVE StartInv'
        <3>1. PICK p \in {"notice", "heartbeat", "refused"} : OnlyMoves(w, p)
            BY <2>9, OneStarts DEF Listen, Refuse, StartingPoint
        <3>2. WatchStartTypeOK'
            BY <2>9, <3>1 DEF Listen, OnlyMoves, StartRecord
        <3>3. NoticeComesFirst'
            BY <2>9, <3>1 DEF Listen, OnlyMoves, NoticeComesFirst, StartAt, Refuse
        <3>4. OptedOutIsLeftAlone'
            BY <2>9, <3>1 DEF Listen, OnlyMoves, OptedOutIsLeftAlone
        <3>5. TurnedAwayLeavesNothing'
            BY <2>9, <3>1 DEF Listen, OnlyMoves, TurnedAwayLeavesNothing
        <3>6. OneIdDrawn'
            BY <2>9, <3>1 DEF Listen, OnlyMoves, OneIdDrawn
        <3>7. QED  BY <3>2, <3>3, <3>4, <3>5, <3>6 DEF StartInv
    <2>10. ASSUME NEW w \in Watcher, ShowNotice(w) PROVE StartInv'
        <3>1. PICK p \in {"marking"} : OnlyMoves(w, p)
            BY <2>10, OneStarts DEF ShowNotice, Refuse, StartingPoint
        <3>2. WatchStartTypeOK'
            BY <2>10, <3>1 DEF ShowNotice, OnlyMoves, StartRecord
        <3>3. NoticeComesFirst'
            BY <2>10, <3>1 DEF ShowNotice, OnlyMoves, NoticeComesFirst, StartAt, Refuse
        <3>4. OptedOutIsLeftAlone'
            BY <2>10, <3>1 DEF ShowNotice, OnlyMoves, OptedOutIsLeftAlone
        <3>5. TurnedAwayLeavesNothing'
            BY <2>10, <3>1 DEF ShowNotice, OnlyMoves, TurnedAwayLeavesNothing
        <3>6. OneIdDrawn'
            BY <2>10, <3>1 DEF ShowNotice, OnlyMoves, OneIdDrawn
        <3>7. QED  BY <3>2, <3>3, <3>4, <3>5, <3>6 DEF StartInv
    <2>11. ASSUME NEW w \in Watcher, MarkDisclosed(w) PROVE StartInv'
        <3>1. PICK p \in {"heartbeat"} : OnlyMoves(w, p)
            BY <2>11, OneStarts DEF MarkDisclosed, Refuse, StartingPoint
        <3>2. WatchStartTypeOK'
            BY <2>11, <3>1 DEF MarkDisclosed, OnlyMoves, StartRecord
        <3>3. NoticeComesFirst'
            BY <2>11, <3>1 DEF MarkDisclosed, OnlyMoves, NoticeComesFirst, StartAt, Refuse
        <3>4. OptedOutIsLeftAlone'
            BY <2>11, <3>1 DEF MarkDisclosed, OnlyMoves, OptedOutIsLeftAlone
        <3>5. TurnedAwayLeavesNothing'
            BY <2>11, <3>1 DEF MarkDisclosed, OnlyMoves, TurnedAwayLeavesNothing
        <3>6. OneIdDrawn'
            BY <2>11, <3>1 DEF MarkDisclosed, OnlyMoves, OneIdDrawn
        <3>7. QED  BY <3>2, <3>3, <3>4, <3>5, <3>6 DEF StartInv
    <2>12. ASSUME NEW w \in Watcher, SpawnHeartbeat(w) PROVE StartInv'
        <3>1. PICK p \in {"running"} : OnlyMoves(w, p)
            BY <2>12, OneStarts DEF SpawnHeartbeat, Refuse, StartingPoint
        <3>2. WatchStartTypeOK'
            BY <2>12, <3>1 DEF SpawnHeartbeat, OnlyMoves, StartRecord
        <3>3. NoticeComesFirst'
            BY <2>12, <3>1 DEF SpawnHeartbeat, OnlyMoves, NoticeComesFirst, StartAt, Refuse
        <3>4. OptedOutIsLeftAlone'
            BY <2>12, <3>1 DEF SpawnHeartbeat, OnlyMoves, OptedOutIsLeftAlone
        <3>5. TurnedAwayLeavesNothing'
            BY <2>12, <3>1 DEF SpawnHeartbeat, OnlyMoves, TurnedAwayLeavesNothing
        <3>6. OneIdDrawn'
            BY <2>12, <3>1 DEF SpawnHeartbeat, OnlyMoves, OneIdDrawn
        <3>7. QED  BY <3>2, <3>3, <3>4, <3>5, <3>6 DEF StartInv
    <2>14. ASSUME NEW w \in Watcher, StopWatch(w) PROVE StartInv'
        <3>1. PICK p \in {"stopped"} : OnlyMoves(w, p)
            BY <2>14, OneStarts DEF StopWatch, Refuse, StartingPoint
        <3>2. WatchStartTypeOK'
            BY <2>14, <3>1 DEF StopWatch, OnlyMoves, StartRecord
        <3>3. NoticeComesFirst'
            BY <2>14, <3>1 DEF StopWatch, OnlyMoves, NoticeComesFirst, StartAt, Refuse
        <3>4. OptedOutIsLeftAlone'
            BY <2>14, <3>1 DEF StopWatch, OnlyMoves, OptedOutIsLeftAlone
        <3>5. TurnedAwayLeavesNothing'
            BY <2>14, <3>1 DEF StopWatch, OnlyMoves, TurnedAwayLeavesNothing
        <3>6. OneIdDrawn'
            BY <2>14, <3>1 DEF StopWatch, OnlyMoves, OneIdDrawn
        <3>7. QED  BY <3>2, <3>3, <3>4, <3>5, <3>6 DEF StartInv
    <2>4. ASSUME NEW w \in Watcher, StartTelemetry(w) PROVE StartInv'
        <3>0. /\ start[w].at = "telemetry"
              /\ UNCHANGED <<installId, disclosed, shown, port, left, engines, heartbeats>>
            BY <2>4 DEF StartTelemetry
        <3>1. CASE ~start[w].on
            <4>1. StartAt(w, "checks") /\ UNCHANGED raced
                BY <2>4, <3>1 DEF StartTelemetry
            <4>2. OnlyMoves(w, "checks")
                BY <4>1, OneStarts DEF StartingPoint
            <4>3. WatchStartTypeOK'
                BY <3>0, <4>1, <4>2 DEF OnlyMoves, StartRecord
            <4>4. NoticeComesFirst'
                BY <3>0, <4>2 DEF OnlyMoves, NoticeComesFirst
            <4>5. OptedOutIsLeftAlone'
                BY <3>0, <4>2 DEF OnlyMoves, OptedOutIsLeftAlone
            <4>6. TurnedAwayLeavesNothing'
                BY <3>0, <4>2 DEF OnlyMoves, TurnedAwayLeavesNothing
            <4>7. OneIdDrawn'
                BY <3>0, <4>1, <4>2 DEF OnlyMoves, OneIdDrawn
            <4>8. QED  BY <4>3, <4>4, <4>5, <4>6, <4>7 DEF StartInv
        <3>2. CASE start[w].on /\ installId \in Watcher
            <4>1. /\ start' = [start EXCEPT ![w].at = "checks", ![w].id = installId,
                                            ![w].owes = ~disclosed]
                  /\ UNCHANGED raced
                BY <2>4, <3>2 DEF StartTelemetry
            <4>2. (~disclosed) \in BOOLEAN /\ installId \in Watcher
                BY <3>2
            <4>3. /\ start' \in [Watcher -> StartRecord]
                  /\ start'[w].at = "checks" /\ start'[w].id = installId
                  /\ start'[w].owes = ~disclosed /\ start'[w].on = start[w].on
                  /\ \A v \in Watcher \ {w} : start'[v] = start[v]
                BY <4>1, <4>2, OneIsNamed
            <4>4. WatchStartTypeOK'
                BY <3>0, <4>1, <4>3 DEF StartRecord
            <4>5. NoticeComesFirst'
                BY <3>0, <3>2, <4>3 DEF NoticeComesFirst
            <4>6. OptedOutIsLeftAlone'
                BY <3>0, <3>2, <4>3 DEF OptedOutIsLeftAlone
            <4>7. TurnedAwayLeavesNothing'
                BY <3>0, <4>3 DEF TurnedAwayLeavesNothing
            <4>8. OneIdDrawn'
                BY <3>0, <3>2, <4>1, <4>3 DEF OneIdDrawn
            <4>9. QED  BY <4>4, <4>5, <4>6, <4>7, <4>8 DEF StartInv
        <3>3. CASE start[w].on /\ installId \notin Watcher
            <4>1. /\ StartAt(w, "opening")
                  /\ raced' = (raced \/ \E v \in Watcher \ {w} :
                                          start[v].at \in {"opening", "writing"})
                BY <2>4, <3>3 DEF StartTelemetry
            <4>2. OnlyMoves(w, "opening")
                BY <4>1, OneStarts DEF StartingPoint
            <4>3. raced' \in BOOLEAN
                BY <4>1
            <4>4. WatchStartTypeOK'
                BY <3>0, <4>2, <4>3 DEF OnlyMoves, StartRecord
            <4>5. NoticeComesFirst'
                BY <3>0, <4>2 DEF OnlyMoves, NoticeComesFirst
            <4>6. OptedOutIsLeftAlone' /\ TurnedAwayLeavesNothing'
                BY <3>0, <3>3, <4>2 DEF OnlyMoves, OptedOutIsLeftAlone,
                                        TurnedAwayLeavesNothing
            <4>7. OneIdDrawn'
                BY <3>0, <3>3, <4>1, <4>2 DEF OnlyMoves, OneIdDrawn
            <4>8. QED  BY <4>4, <4>5, <4>6, <4>7 DEF StartInv
        <3>4. QED  BY <3>1, <3>2, <3>3
    <2>6. ASSUME NEW w \in Watcher, WriteInstallId(w) PROVE StartInv'
        <3>1. (~disclosed) \in BOOLEAN
            OBVIOUS
        <3>2. /\ start' \in [Watcher -> StartRecord]
              /\ start'[w].at = "checks" /\ start'[w].id = w
              /\ start'[w].owes = ~disclosed /\ start'[w].on = start[w].on
              /\ \A v \in Watcher \ {w} : start'[v] = start[v]
            BY <2>6, <3>1, OneIsNamed DEF WriteInstallId
        <3>3. WatchStartTypeOK'
            BY <2>6, <3>2 DEF WriteInstallId, StartRecord
        <3>4. NoticeComesFirst'
            BY <2>6, <3>2 DEF WriteInstallId, NoticeComesFirst
        <3>5. OptedOutIsLeftAlone' /\ TurnedAwayLeavesNothing'
            BY <2>6, <3>2 DEF WriteInstallId, OptedOutIsLeftAlone, TurnedAwayLeavesNothing
        <3>6. OneIdDrawn'
            BY <2>6, <3>2 DEF WriteInstallId, OneIdDrawn
        <3>7. QED  BY <3>3, <3>4, <3>5, <3>6 DEF StartInv
    <2>13. ASSUME NEW w \in Watcher, Beat(w) PROVE StartInv'
        <3>1. shown
            BY <2>13 DEF Beat, NoticeComesFirst
        <3>2. /\ heartbeats' \in [Watcher -> [beats: 0 .. MaxBeats, told: BOOLEAN]]
              /\ \A v \in Watcher : heartbeats'[v].told
              /\ \A v \in Watcher \ {w} : heartbeats'[v] = heartbeats[v]
            BY <2>13, <3>1 DEF Beat, NoticeComesFirst
        <3>3. QED
            BY <2>13, <3>1, <3>2 DEF Beat, StartInv, NoticeComesFirst, OptedOutIsLeftAlone,
                                     TurnedAwayLeavesNothing, OneIdDrawn
    <2>15. QED
        BY <2>1, <2>2, <2>3, <2>4, <2>5, <2>6, <2>7, <2>8, <2>9, <2>10, <2>11, <2>12, <2>13,
           <2>14 DEF WatchStartNext
<1>3. StartInv => TelemetryIsHonest
    BY DEF StartInv, WatchStartTypeOK, NoticeComesFirst, OptedOutIsLeftAlone, TurnedAwayLeavesNothing,
           OneIdDrawn, TelemetryIsHonest, NothingUntold, OneInstall, Sent
<1>4. QED  BY <1>1, <1>2, <1>3, PTL DEF WatchStartSpec

-----------------------------------------------------------------------------
\* What masking leaves of a line: a sensitive pair of it is masked, or prose, or in a line
\* that the report numbered; and a line without one is as it was.
MaskedLine(line) ==
    \A i \in DOMAIN line.pairs : line.pairs[i].key = "sensitive" =>
        line.pairs[i].value = "redacted" \/ line.pairs[i].as # "field" \/ OpensLikeArray(line)

LEMMA LineShape ==
    ASSUME NEW line \in TextLine
    PROVE  /\ line.pairs \in Seq(Pair) /\ line.marks \in SUBSET {"number", "label", "url"}
           /\ line = [marks |-> line.marks, pairs |-> line.pairs]
           /\ DOMAIN line.pairs = 1 .. Len(line.pairs) /\ Len(line.pairs) \in Nat
           /\ \A i \in DOMAIN line.pairs : line.pairs[i] \in Pair
<1>1. line.pairs \in Seq(Pair) /\ line.marks \in SUBSET {"number", "label", "url"}
      /\ line = [marks |-> line.marks, pairs |-> line.pairs]
    BY DEF TextLine
<1>2. QED  BY <1>1

LEMMA MaskedPair ==
    ASSUME NEW pair \in Pair
    PROVE  Masked(pair) \in Pair /\ Masked(pair).value = "redacted" /\ Masked(pair).key = pair.key
           /\ \A sep \in {"&", ";"} : [Masked(pair) EXCEPT !.sep = sep] \in Pair
                                      /\ [Masked(pair) EXCEPT !.sep = sep].value = "redacted"
BY DEF Masked, Pair

\* A line whose pairs are exchanged for others.
LEMMA NewPairs ==
    ASSUME NEW line \in TextLine, NEW pairs \in Seq(Pair)
    PROVE  /\ [line EXCEPT !.pairs = pairs] \in TextLine
           /\ [line EXCEPT !.pairs = pairs].marks = line.marks
           /\ [line EXCEPT !.pairs = pairs].pairs = pairs
           /\ pairs = line.pairs => [line EXCEPT !.pairs = pairs] = line
<1>1. line = [marks |-> line.marks, pairs |-> line.pairs] /\ line.marks \in SUBSET {"number", "label", "url"}
    BY LineShape
<1>2. [line EXCEPT !.pairs = pairs] = [marks |-> line.marks, pairs |-> pairs]
    BY <1>1
<1>3. QED  BY <1>1, <1>2 DEF TextLine

LEMMA MaskPairsMasks ==
    ASSUME NEW line \in TextLine, NEW shaped
    PROVE  LET m == MaskPairs(line, shaped) IN
           /\ m \in TextLine /\ m.marks = line.marks /\ DOMAIN m.pairs = DOMAIN line.pairs
           /\ \A i \in DOMAIN m.pairs : m.pairs[i].key = "sensitive" =>
                m.pairs[i].value = "redacted" \/ m.pairs[i].as # "field" \/ i \notin shaped
           /\ Clean(line) => m = line
<1> DEFINE new == [i \in DOMAIN line.pairs |->
                      IF line.pairs[i].key = "sensitive" /\ line.pairs[i].as = "field" /\ i \in shaped
                      THEN Masked(line.pairs[i]) ELSE line.pairs[i]]
<1>1. /\ DOMAIN line.pairs = 1 .. Len(line.pairs) /\ Len(line.pairs) \in Nat
      /\ \A i \in DOMAIN line.pairs : line.pairs[i] \in Pair
      /\ line.pairs \in Seq(Pair)
    BY LineShape
<1>2. \A i \in DOMAIN line.pairs : new[i] \in Pair
    BY <1>1, MaskedPair
<1>3. new \in Seq(Pair) /\ DOMAIN new = DOMAIN line.pairs
    <2>1. PICK n \in Nat : n = Len(line.pairs) /\ DOMAIN line.pairs = 1 .. n
        BY <1>1
    <2>2. new \in [1 .. n -> Pair]
        BY <1>2, <2>1
    <2> HIDE DEF new
    <2>3. QED  BY <2>1, <2>2
<1>4. \A i \in DOMAIN new : new[i].key = "sensitive" =>
          new[i].value = "redacted" \/ new[i].as # "field" \/ i \notin shaped
    BY <1>1, MaskedPair
<1>5. Clean(line) => new = line.pairs
    BY <1>1 DEF Clean
<1>6. MaskPairs(line, shaped) = [line EXCEPT !.pairs = new]
    <2>1. line = [marks |-> line.marks, pairs |-> line.pairs]
        BY LineShape
    <2>2. QED  BY <2>1 DEF MaskPairs
<1> HIDE DEF new
<1>7. QED  BY <1>3, <1>4, <1>5, <1>6, NewPairs

LEMMA KvMasks ==
    ASSUME NEW line \in TextLine
    PROVE  LET kv == RedactKv(line) IN
           /\ kv \in TextLine /\ kv.marks = line.marks
           /\ "number" \notin line.marks =>
                \A i \in DOMAIN kv.pairs : kv.pairs[i].key = "sensitive" =>
                    \/ kv.pairs[i].value = "redacted" \/ kv.pairs[i].as # "field"
                    \/ i = 1 /\ line.marks # {}
           /\ Clean(line) => kv = line
<1>1. CASE OpensLikeArray(line)
    BY <1>1 DEF RedactKv, OpensLikeArray
<1>2. CASE ~OpensLikeArray(line)
    <2> DEFINE shaped == {i \in DOMAIN line.pairs : i > 1 \/ line.marks = {}}
    <2>1. RedactKv(line) = MaskPairs(line, shaped)
        BY <1>2 DEF RedactKv
    <2>2. \A i \in DOMAIN line.pairs : i \notin shaped => i = 1 /\ line.marks # {}
        BY LineShape
    <2> HIDE DEF shaped
    <2>3. QED  BY <2>1, <2>2, MaskPairsMasks
<1>3. QED  BY <1>1, <1>2

\* Each pair of a query stands behind the first of its run, which there is.
LEMMA RunHasAHead ==
    ASSUME NEW line \in TextLine, NEW i \in DOMAIN line.pairs
    PROVE  \E j \in 1 .. i : (j = 1 \/ line.pairs[j - 1].sep = "&")
                             /\ \A m \in j .. i - 1 : line.pairs[m].sep # "&"
<1> DEFINE S == {j \in 1 .. i : j = 1 \/ line.pairs[j - 1].sep = "&"}
<1>1. i \in Nat /\ 1 \in 1 .. i
    BY LineShape
<1>2. 1 \in S
    BY <1>1
<1>3. S \in SUBSET Nat /\ S # {} /\ \A j \in S : j <= i
    BY <1>1, <1>2
<1> HIDE DEF S
<1>4. PICK j \in S : \A k \in S : k <= j
    BY <1>1, <1>3, GreatestNat
<1>5. j \in 1 .. i /\ (j = 1 \/ line.pairs[j - 1].sep = "&")
    BY <1>4 DEF S
<1>6. ASSUME NEW m \in j .. i - 1, line.pairs[m].sep = "&" PROVE FALSE
    <2>1. m + 1 \in 1 .. i /\ (m + 1) - 1 = m /\ ~(m + 1 <= j)
        BY <1>1, <1>5
    <2>2. m + 1 \in S
        BY <1>6, <2>1 DEF S
    <2>3. QED  BY <1>4, <2>1, <2>2
<1>7. QED  BY <1>5, <1>6

\* What a query's masking makes of its i-th pair: the pair, its masked form, or nothing.
LEMMA QueryMasks ==
    ASSUME NEW line \in TextLine
    PROVE  LET q == RedactQuery(line) IN
           /\ q \in TextLine /\ q.marks = line.marks
           /\ "url" \notin line.marks => q = line
           /\ "url" \in line.marks =>
                \A i \in DOMAIN q.pairs : q.pairs[i].key = "sensitive" =>
                    \/ q.pairs[i].value = "redacted"
                    \/ \E j \in DOMAIN line.pairs : j # 1 /\ q.pairs[i] = line.pairs[j]
           /\ Clean(line) => q = line
<1> DEFINE pairs == line.pairs
           n == Len(pairs)
           HeadOf(i) == CHOOSE j \in 1 .. i :
               (j = 1 \/ pairs[j - 1].sep = "&") /\ \A m \in j .. i - 1 : pairs[m].sep # "&"
           Kept(i) ==
               CASE pairs[HeadOf(i)].key # "sensitive" -> <<pairs[i]>>
                 [] pairs[HeadOf(i)].key = "sensitive" /\ HeadOf(i) = i ->
                       <<[Masked(pairs[i]) EXCEPT !.sep = "&"]>>
                 [] OTHER -> << >>
           ss == [i \in DOMAIN pairs |-> Kept(i)]
<1>1. /\ pairs \in Seq(Pair) /\ n \in Nat /\ DOMAIN pairs = 1 .. n
      /\ \A i \in 1 .. n : pairs[i] \in Pair
    BY LineShape
<1>2. \A i \in 1 .. n : HeadOf(i) \in 1 .. i
    <2>1. ASSUME NEW i \in 1 .. n
          PROVE  \E j \in 1 .. i : (j = 1 \/ pairs[j - 1].sep = "&")
                                   /\ \A m \in j .. i - 1 : pairs[m].sep # "&"
        BY <1>1, <2>1, RunHasAHead
    <2>2. QED  BY <2>1
<1>3. RedactQuery(line) = IF "url" \in line.marks THEN [line EXCEPT !.pairs = FlattenSeq(ss)] ELSE line
    BY DEF RedactQuery
<1> HIDE DEF HeadOf
<1>4. ASSUME NEW i \in 1 .. n
      PROVE  \/ Kept(i) = << >>
             \/ Kept(i) = <<pairs[i]>> /\ (i = 1 => pairs[i].key # "sensitive")
             \/ \E p \in Pair : Kept(i) = <<p>> /\ p.value = "redacted"
    <2>1. CASE pairs[HeadOf(i)].key # "sensitive"
        <3>1. i = 1 => HeadOf(i) = i
            BY <1>2
        <3>2. QED  BY <2>1, <3>1
    <2>2. CASE pairs[HeadOf(i)].key = "sensitive" /\ HeadOf(i) = i
        <3>1. PICK p \in Pair : p = [Masked(pairs[i]) EXCEPT !.sep = "&"] /\ p.value = "redacted"
            BY <1>1, MaskedPair
        <3>2. Kept(i) = <<p>>
            BY <2>2, <3>1
        <3>3. QED  BY <3>1, <3>2
    <2>3. CASE pairs[HeadOf(i)].key = "sensitive" /\ HeadOf(i) # i
        BY <2>3
    <2>4. QED  BY <2>1, <2>2, <2>3
<1>5. Clean(line) => \A i \in 1 .. n : Kept(i) = <<pairs[i]>>
    <2> SUFFICES ASSUME Clean(line), NEW i \in 1 .. n PROVE Kept(i) = <<pairs[i]>>
        OBVIOUS
    <2>1. HeadOf(i) \in 1 .. n
        BY <1>1, <1>2
    <2>2. pairs[HeadOf(i)].key # "sensitive"
        BY <1>1, <2>1 DEF Clean
    <2>3. QED  BY <2>2
<1> HIDE DEF Kept
<1>6. \A i \in 1 .. n : Kept(i) \in Seq(Pair)
    <2> SUFFICES ASSUME NEW i \in 1 .. n PROVE Kept(i) \in Seq(Pair)
        OBVIOUS
    <2>1. CASE Kept(i) = << >>
        BY <2>1
    <2>2. \A p \in Pair : <<p>> \in Seq(Pair)
        OBVIOUS
    <2>3. QED  BY <1>1, <1>4, <2>1, <2>2
<1>7. ss \in Seq(Seq(Pair)) /\ DOMAIN ss = 1 .. n /\ \A i \in 1 .. n : ss[i] = Kept(i)
    <2>1. PICK k \in Nat : k = n
        BY <1>1
    <2>2. ss \in [1 .. k -> Seq(Pair)] /\ DOMAIN ss = 1 .. n /\ \A i \in 1 .. n : ss[i] = Kept(i)
        BY <1>1, <1>6, <2>1
    <2> HIDE DEF ss
    <2>3. QED  BY <2>2
<1>8. Clean(line) => FlattenSeq(ss) = pairs
    <2>1. Clean(line) => ss = [i \in 1 .. n |-> <<pairs[i]>>]
        BY <1>1, <1>5
    <2> HIDE DEF ss
    <2>2. QED  BY <1>1, <2>1, FlattenSingles
<1> HIDE DEF ss
<1>9. PICK flat : flat = FlattenSeq(ss)
    OBVIOUS
<1>10. /\ flat \in Seq(Pair)
       /\ \A i \in DOMAIN flat : \E j \in DOMAIN ss : \E k \in DOMAIN ss[j] : flat[i] = ss[j][k]
    BY <1>7, <1>9, FlattenSeqHolds
<1>11. ASSUME NEW i \in DOMAIN flat, flat[i].key = "sensitive"
       PROVE  \/ flat[i].value = "redacted"
              \/ \E j \in DOMAIN line.pairs : j # 1 /\ flat[i] = line.pairs[j]
    <2>1. PICK j \in 1 .. n : \E k \in DOMAIN Kept(j) : flat[i] = Kept(j)[k]
        BY <1>7, <1>10, <1>11
    <2>2. CASE Kept(j) = << >>
        BY <2>1, <2>2
    <2>3. CASE Kept(j) = <<pairs[j]>> /\ (j = 1 => pairs[j].key # "sensitive")
        <3>1. flat[i] = pairs[j]
            BY <2>1, <2>3
        <3>2. QED  BY <1>1, <1>11, <2>3, <3>1
    <2>4. CASE \E p \in Pair : Kept(j) = <<p>> /\ p.value = "redacted"
        BY <2>1, <2>4
    <2>5. QED  BY <1>4, <2>2, <2>3, <2>4
<1>12. CASE "url" \in line.marks
    BY <1>3, <1>8, <1>9, <1>10, <1>11, <1>12, NewPairs
<1>13. CASE "url" \notin line.marks
    BY <1>3, <1>13
<1>14. QED  BY <1>12, <1>13

\* Both of them, on a line without a label.
LEMMA KvAndQueryMask ==
    ASSUME NEW line \in TextLine
    PROVE  LET m == MaskKvAndQuery(line) IN
           /\ m \in TextLine /\ m.marks = line.marks
           /\ "label" \notin line.marks => MaskedLine(m)
           /\ Clean(line) => m = line
<1>1. PICK kv : kv = RedactKv(line)
    OBVIOUS
<1>2. /\ kv \in TextLine /\ kv.marks = line.marks
      /\ "number" \notin line.marks =>
           \A i \in DOMAIN kv.pairs : kv.pairs[i].key = "sensitive" =>
               \/ kv.pairs[i].value = "redacted" \/ kv.pairs[i].as # "field"
               \/ i = 1 /\ line.marks # {}
      /\ Clean(line) => kv = line
    BY <1>1, KvMasks
<1>3. PICK q : q = RedactQuery(kv) /\ q = MaskKvAndQuery(line)
    BY <1>1 DEF MaskKvAndQuery
<1>4. /\ q \in TextLine /\ q.marks = kv.marks
      /\ "url" \notin kv.marks => q = kv
      /\ "url" \in kv.marks =>
           \A i \in DOMAIN q.pairs : q.pairs[i].key = "sensitive" =>
               \/ q.pairs[i].value = "redacted"
               \/ \E j \in DOMAIN kv.pairs : j # 1 /\ q.pairs[i] = kv.pairs[j]
      /\ Clean(kv) => q = kv
    <2>1. kv \in TextLine
        BY <1>2
    <2>2. LET r == RedactQuery(kv) IN
          /\ r \in TextLine /\ r.marks = kv.marks
          /\ "url" \notin kv.marks => r = kv
          /\ "url" \in kv.marks =>
               \A i \in DOMAIN r.pairs : r.pairs[i].key = "sensitive" =>
                   \/ r.pairs[i].value = "redacted"
                   \/ \E j \in DOMAIN kv.pairs : j # 1 /\ r.pairs[i] = kv.pairs[j]
          /\ Clean(kv) => r = kv
        BY <2>1, QueryMasks
    <2>3. QED  BY <1>3, <2>2
<1>5. "label" \notin line.marks => MaskedLine(q)
    <2>1. CASE "number" \in line.marks
        BY <1>2, <1>4, <2>1 DEF MaskedLine, OpensLikeArray
    <2>2. CASE "number" \notin line.marks /\ "url" \in line.marks
        BY <1>2, <1>4, <2>2 DEF MaskedLine
    <2>3. CASE "number" \notin line.marks /\ "url" \notin line.marks /\ "label" \notin line.marks
        <3>1. line.marks = {}
            BY <2>3, LineShape
        <3>2. QED  BY <1>2, <1>4, <3>1 DEF MaskedLine
    <2>4. QED  BY <2>1, <2>2, <2>3
<1>6. QED  BY <1>2, <1>3, <1>4, <1>5

LEMMA LineMasks ==
    ASSUME NEW line \in TextLine
    PROVE  RedactLine(line) \in TextLine /\ MaskedLine(RedactLine(line))
           /\ (Clean(line) => RedactLine(line) = line)
<1>1. PICK m \in TextLine : /\ m = MaskKvAndQuery(line) /\ m.marks = line.marks
                            /\ "label" \notin line.marks => MaskedLine(m)
                            /\ Clean(line) => m = line
    BY KvAndQueryMask
<1>2. CASE "label" \notin m.marks
    BY <1>1, <1>2 DEF RedactLine
<1>3. CASE "label" \in m.marks
    <2>1. PICK t : t = [m EXCEPT !.marks = @ \ {"label"}]
        OBVIOUS
    <2>2. m = [marks |-> m.marks, pairs |-> m.pairs] /\ m.pairs \in Seq(Pair)
          /\ m.marks \in SUBSET {"number", "label", "url"}
        BY LineShape
    <2>3. t = [marks |-> m.marks \ {"label"}, pairs |-> m.pairs]
        BY <2>1, <2>2
    <2>4. t \in TextLine /\ "label" \notin t.marks /\ t.pairs = m.pairs
        BY <2>2, <2>3 DEF TextLine
    <2>5. PICK u \in TextLine : /\ u = MaskKvAndQuery(t) /\ u.marks = t.marks
                                /\ MaskedLine(u) /\ (Clean(t) => u = t)
        BY <2>4, KvAndQueryMask
    <2>6. u = [marks |-> u.marks, pairs |-> u.pairs] /\ u.pairs \in Seq(Pair)
        BY LineShape
    <2>7. [u EXCEPT !.marks = m.marks] = [marks |-> m.marks, pairs |-> u.pairs]
        BY <2>6
    <2>8. RedactLine(line) = [marks |-> m.marks, pairs |-> u.pairs]
        BY <1>1, <1>3, <2>1, <2>5, <2>7 DEF RedactLine
    <2>9. RedactLine(line) \in TextLine
        BY <2>2, <2>6, <2>8 DEF TextLine
    <2>10. MaskedLine(RedactLine(line))
        <3>1. OpensLikeArray(u) => OpensLikeArray(RedactLine(line))
            BY <2>3, <2>5, <2>8 DEF OpensLikeArray
        <3>2. QED  BY <2>5, <2>8, <3>1 DEF MaskedLine
    <2>11. Clean(line) => RedactLine(line) = line
        <3>1. Clean(line) => Clean(t) /\ m = line
            BY <1>1, <2>4 DEF Clean
        <3>2. Clean(line) => u.pairs = m.pairs
            BY <2>4, <2>5, <3>1
        <3>3. QED  BY <2>2, <2>8, <3>1, <3>2
    <2>12. QED  BY <2>9, <2>10, <2>11
<1>4. QED  BY <1>2, <1>3

LEMMA TextShape ==
    ASSUME NEW text \in Text
    PROVE  /\ text.json \in BOOLEAN /\ text.lines \in Seq(TextLine)
           /\ text = [json |-> text.json, lines |-> text.lines]
           /\ DOMAIN text.lines = 1 .. Len(text.lines) /\ Len(text.lines) \in Nat
           /\ \A n \in 1 .. Len(text.lines) : text.lines[n] \in TextLine
<1>1. text.json \in BOOLEAN /\ text.lines \in Seq(TextLine) /\ text = [json |-> text.json, lines |-> text.lines]
    BY DEF Text
<1>2. QED  BY <1>1

LEMMA DocumentMasks ==
    ASSUME NEW line \in TextLine, NEW pairs,
           pairs = [i \in DOMAIN line.pairs |->
                      IF line.pairs[i].key = "sensitive" THEN Masked(line.pairs[i]) ELSE line.pairs[i]]
    PROVE  /\ [line EXCEPT !.pairs = pairs] \in TextLine
           /\ \A i \in DOMAIN pairs : pairs[i].key = "sensitive" => pairs[i].value = "redacted"
           /\ [line EXCEPT !.pairs = pairs].pairs = pairs
           /\ Clean(line) => [line EXCEPT !.pairs = pairs] = line
<1>1. /\ DOMAIN line.pairs = 1 .. Len(line.pairs) /\ Len(line.pairs) \in Nat
      /\ \A i \in DOMAIN line.pairs : line.pairs[i] \in Pair
      /\ line.pairs \in Seq(Pair)
    BY LineShape
<1>2. \A i \in DOMAIN line.pairs :
         pairs[i] \in Pair /\ (pairs[i].key = "sensitive" => pairs[i].value = "redacted")
    BY <1>1, MaskedPair
<1>3. PICK n \in Nat : n = Len(line.pairs) /\ DOMAIN line.pairs = 1 .. n
    BY <1>1
<1>4. pairs \in Seq(Pair)
    <2>1. pairs \in [1 .. n -> Pair]
        BY <1>2, <1>3
    <2>2. QED  BY <2>1
<1>5. Clean(line) => pairs = line.pairs
    BY <1>1 DEF Clean
<1>6. QED  BY <1>2, <1>3, <1>4, <1>5, NewPairs

LEMMA WholeMasks ==
    ASSUME NEW text \in Text
    PROVE  /\ WholeOnly(text) \in Text /\ WholeOnly(text).json = text.json
           /\ text.json => MaskedText(WholeOnly(text))
           /\ Keeps(WholeOnly(text), text)
<1> DEFINE last == Len(text.lines)
           Shaped(n) == {i \in DOMAIN text.lines[n].pairs :
               /\ ~OpensLikeArray(text.lines[1])
               /\ (i > 1 \/ (n = 1 /\ text.lines[n].marks = {}))
               /\ (i < Len(text.lines[n].pairs) \/ n = last)}
           Doc(line) == [i \in DOMAIN line.pairs |->
               IF line.pairs[i].key = "sensitive" THEN Masked(line.pairs[i]) ELSE line.pairs[i]]
           new == [n \in 1 .. last |->
               IF text.json THEN [text.lines[n] EXCEPT !.pairs = Doc(text.lines[n])]
               ELSE MaskPairs(text.lines[n], Shaped(n))]
<1>1. /\ text.json \in BOOLEAN /\ text = [json |-> text.json, lines |-> text.lines]
      /\ DOMAIN text.lines = 1 .. last /\ last \in Nat
      /\ \A n \in 1 .. last : text.lines[n] \in TextLine
    BY TextShape
<1>2. WholeOnly(text) = [json |-> text.json, lines |-> new]
    <2>1. \A n \in 1 .. last : text.lines[n] = [marks |-> text.lines[n].marks, pairs |-> text.lines[n].pairs]
        BY <1>1, LineShape
    <2>2. \A n \in 1 .. last :
             [text.lines[n] EXCEPT !.pairs = Doc(text.lines[n])]
                 = [text.lines[n] EXCEPT !.pairs = [i \in DOMAIN @ |->
                       IF @[i].key = "sensitive" THEN Masked(@[i]) ELSE @[i]]]
        BY <2>1
    <2>3. WholeOnly(text) = [text EXCEPT !.lines = new]
        BY <2>2 DEF WholeOnly
    <2> HIDE DEF new
    <2>4. QED  BY <1>1, <2>3
<1> HIDE DEF Shaped
<1>3. ASSUME NEW n \in 1 .. last
      PROVE  /\ new[n] \in TextLine
             /\ text.json => \A i \in DOMAIN new[n].pairs :
                   new[n].pairs[i].key = "sensitive" => new[n].pairs[i].value = "redacted"
             /\ Clean(text.lines[n]) => new[n] = text.lines[n]
    <2>1. CASE text.json
        <3>1. PICK pairs : pairs = Doc(text.lines[n])
            OBVIOUS
        <3>2. new[n] = [text.lines[n] EXCEPT !.pairs = pairs]
            BY <2>1, <3>1
        <3>3. PICK line \in TextLine : line = text.lines[n]
            BY <1>1
        <3>4. /\ [line EXCEPT !.pairs = pairs] \in TextLine
              /\ \A i \in DOMAIN pairs : pairs[i].key = "sensitive" => pairs[i].value = "redacted"
              /\ [line EXCEPT !.pairs = pairs].pairs = pairs
              /\ Clean(line) => [line EXCEPT !.pairs = pairs] = line
            <4>1. pairs = [i \in DOMAIN line.pairs |->
                      IF line.pairs[i].key = "sensitive" THEN Masked(line.pairs[i]) ELSE line.pairs[i]]
                BY <3>1, <3>3
            <4> HIDE DEF Doc
            <4>2. QED  BY <4>1, DocumentMasks
        <3> HIDE DEF new, Doc
        <3>5. new[n] = [line EXCEPT !.pairs = pairs]
            BY <3>2, <3>3
        <3>6. PICK kept : kept = [line EXCEPT !.pairs = pairs]
            OBVIOUS
        <3>7. /\ kept \in TextLine /\ kept.pairs = pairs
              /\ \A i \in DOMAIN pairs : pairs[i].key = "sensitive" => pairs[i].value = "redacted"
              /\ Clean(line) => kept = line
            BY <3>4, <3>6
        <3>8. new[n] = kept
            BY <3>5, <3>6
        <3>9. QED  BY <3>3, <3>7, <3>8
    <2>2. CASE ~text.json
        <3>1. new[n] = MaskPairs(text.lines[n], Shaped(n))
            BY <2>2
        <3>2. QED  BY <1>1, <2>2, <3>1, MaskPairsMasks
    <2>3. QED  BY <2>1, <2>2
<1>4. new = [n \in 1 .. last |-> new[n]]
    OBVIOUS
<1> HIDE DEF new
<1>5. new \in Seq(TextLine) /\ Len(new) = last
    <2>1. PICK k \in Nat : k = last
        BY <1>1
    <2>2. new \in [1 .. k -> TextLine]
        BY <1>3, <1>4, <2>1
    <2>3. QED  BY <2>1, <2>2
<1>6. QED  BY <1>1, <1>2, <1>3, <1>5 DEF Text, MaskedText, Keeps

LEMMA TextMasks ==
    ASSUME NEW text \in Text
    PROVE  /\ RedactText(text) \in Text /\ MaskedText(RedactText(text))
           /\ Keeps(RedactText(text), text) /\ (text.json => RedactText(text).json)
<1>1. PICK whole \in Text : /\ whole = WholeOnly(text) /\ whole.json = text.json
                            /\ text.json => MaskedText(whole)
                            /\ Keeps(whole, text)
    BY WholeMasks
<1>2. CASE whole.json
    BY <1>1, <1>2 DEF RedactText
<1>3. CASE ~whole.json
    <2> DEFINE n == Len(whole.lines)
               new == [m \in 1 .. n |-> RedactLine(whole.lines[m])]
    <2>1. /\ whole.json \in BOOLEAN /\ whole = [json |-> whole.json, lines |-> whole.lines]
          /\ DOMAIN whole.lines = 1 .. n /\ n \in Nat
          /\ \A m \in 1 .. n : whole.lines[m] \in TextLine
        BY TextShape
    <2>2. RedactText(text) = [json |-> whole.json, lines |-> new]
        <3>1. RedactText(text) = [whole EXCEPT !.lines = [m \in DOMAIN @ |-> RedactLine(@[m])]]
            BY <1>1, <1>3 DEF RedactText
        <3>2. [whole EXCEPT !.lines = [m \in DOMAIN @ |-> RedactLine(@[m])]]
                  = [json |-> whole.json, lines |-> [m \in DOMAIN whole.lines |-> RedactLine(whole.lines[m])]]
            BY <2>1
        <3>3. QED  BY <2>1, <3>1, <3>2
    <2>3. \A m \in 1 .. n : /\ new[m] \in TextLine /\ MaskedLine(new[m])
                            /\ Clean(whole.lines[m]) => new[m] = whole.lines[m]
        BY <2>1, LineMasks
    <2>4. new = [m \in 1 .. n |-> new[m]]
        OBVIOUS
    <2> HIDE DEF new
    <2>5. new \in Seq(TextLine) /\ Len(new) = n
        <3>1. PICK k \in Nat : k = n
            BY <2>1
        <3>2. new \in [1 .. k -> TextLine]
            BY <2>3, <2>4, <3>1
        <3>3. QED  BY <3>1, <3>2
    <2>6. RedactText(text) \in Text
        BY <2>1, <2>2, <2>5 DEF Text
    <2>7. MaskedText(RedactText(text))
        <3>1. RedactText(text).json = FALSE /\ RedactText(text).lines = new /\ DOMAIN new = 1 .. n
            BY <1>3, <2>1, <2>2, <2>4
        <3>2. \A m \in 1 .. n : MaskedLine(new[m])
            BY <2>3
        <3>3. QED  BY <3>1, <3>2 DEF MaskedText, MaskedLine
    <2>8. Keeps(RedactText(text), text)
        <3>1. n = Len(text.lines) /\ DOMAIN text.lines = 1 .. n
            BY <1>1, TextShape DEF Keeps
        <3>2. \A m \in 1 .. n : Clean(text.lines[m]) => whole.lines[m] = text.lines[m]
            BY <1>1, <3>1 DEF Keeps
        <3>3. QED  BY <2>2, <2>3, <2>5, <3>1, <3>2 DEF Keeps
    <2>9. QED  BY <1>1, <1>3, <2>6, <2>7, <2>8
<1>4. QED  BY <1>2, <1>3

-----------------------------------------------------------------------------
\* What a report says is text.
LEMMA TruncateIsText ==
    ASSUME NEW text \in Text, NEW room \in Nat
    PROVE  Truncate(text, room) \in Text
<1>1. PICK k \in Nat : k = Len(text.lines) /\ \A n \in 1 .. k : text.lines[n] \in TextLine
    BY TextShape
<1>2. CASE IsCut(text, room)
    <2>1. PICK cut : cut = SubSeq(text.lines, 1, room)
        OBVIOUS
    <2>2. cut \in Seq(TextLine)
        <3>1. text.lines \in Seq(TextLine) /\ room <= k
            BY <1>1, <1>2, TextShape DEF IsCut
        <3>2. \A n \in 1 .. room : n \in 1 .. k /\ 1 + n - 1 = n
            BY <3>1
        <3>3. cut = [n \in 1 .. room |-> text.lines[n]]
            BY <1>1, <2>1, <3>1, <3>2
        <3>4. cut \in [1 .. room -> TextLine]
            BY <1>1, <3>2, <3>3
        <3>5. QED  BY <3>4
    <2>3. Truncate(text, room) = [json |-> FALSE, lines |-> cut]
        BY <1>2, <2>1 DEF Truncate
    <2>4. QED  BY <2>2, <2>3 DEF Text
<1>3. CASE ~IsCut(text, room)
    BY <1>3 DEF Truncate
<1>4. QED  BY <1>2, <1>3

LEMMA NotesHaveText ==
    ASSUME NEW d, IsReport(d)
    PROVE  /\ DOMAIN d.notes = 1 .. Len(d.notes) /\ Len(d.notes) \in Nat
           /\ \A n \in 1 .. Len(d.notes) :
                d.notes[n].comment \in Text /\ d.notes[n].where \in Seq(TextLine)
<1> DEFINE S == Range(d.notes)
<1>1. \A note \in S : note.comment \in Text /\ note.where \in Seq(TextLine)
    BY DEF IsReport, Note
<1>2. d.notes \in Seq(S)
    BY DEF IsReport
<1> HIDE DEF S
<1>3. DOMAIN d.notes = 1 .. Len(d.notes) /\ Len(d.notes) \in Nat
      /\ \A n \in 1 .. Len(d.notes) : d.notes[n] \in S
    BY <1>2
<1>4. QED  BY <1>1, <1>3

LEMMA AndMoreIsLine ==
    ASSUME NEW line \in TextLine
    PROVE  AndMore(line) \in TextLine
<1>1. CASE line.pairs = << >>
    BY <1>1 DEF AndMore
<1>2. CASE line.pairs # << >>
    <2>1. PICK last : last = Len(line.pairs)
        OBVIOUS
    <2>2. /\ line = [marks |-> line.marks, pairs |-> line.pairs] /\ line.pairs \in Seq(Pair)
          /\ last \in DOMAIN line.pairs /\ line.pairs[last] \in Pair
        BY <1>2, <2>1, LineShape
    <2>3. PICK pair \in Pair : pair = [line.pairs[last] EXCEPT !.as = "prose"]
        BY <2>2 DEF Pair
    <2>4. [line.pairs EXCEPT ![last] = pair] \in Seq(Pair)
        BY <2>2
    <2>5. AndMore(line) = [line EXCEPT !.pairs = [line.pairs EXCEPT ![last] = pair]]
        BY <1>2, <2>1, <2>2, <2>3 DEF AndMore
    <2>6. QED  BY <2>4, <2>5, NewPairs
<1>3. QED  BY <1>1, <1>2

LEMMA OneLineIsText ==
    ASSUME NEW line \in TextLine
    PROVE  [json |-> FALSE, lines |-> <<line>>] \in Text
<1>1. <<line>> \in Seq(TextLine)
    OBVIOUS
<1>2. QED  BY <1>1 DEF Text

LEMMA TitleIsText ==
    ASSUME NEW d, IsReport(d)
    PROVE  Title(d) \in Text
<1>1. PICK typed : typed = Commented(d.notes)
    OBVIOUS
<1>2. d.output \in Text /\ d.text \in Text
    BY DEF IsReport
<1>3. CASE typed = {}
    <2>1. CASE d.output.lines # << >>
        <3>1. Title(d) = FirstLine(d.output)
            BY <1>1, <1>3, <2>1 DEF Title
        <3>2. PICK line \in TextLine : line = Head(d.output.lines)
            BY <1>2, <2>1, TextShape
        <3>3. QED  BY <3>1, <3>2, OneLineIsText DEF FirstLine
    <2>2. CASE d.output.lines = << >>
        BY <1>1, <1>2, <1>3, <2>2 DEF Title
    <2>3. QED  BY <2>1, <2>2
<1>4. CASE typed # {}
    <2>1. PICK n : n = Min(typed)
        OBVIOUS
    <2>2. n \in typed
        <3>1. typed \in SUBSET Nat
            BY <1>1, NotesHaveText DEF Commented
        <3>2. \E t \in typed : \A u \in typed : t <= u
            BY <1>4, <3>1, LeastNat
        <3>3. QED  BY <2>1, <3>2 DEF Min
    <2>3. d.notes[n].comment \in Text /\ d.notes[n].comment.lines # << >>
        BY <1>1, <2>2, NotesHaveText DEF Commented
    <2>4. PICK line \in TextLine : line = Head(d.notes[n].comment.lines)
        BY <2>3, TextShape
    <2>5. PICK first \in TextLine : first = IF Cardinality(typed) > 1 THEN AndMore(line) ELSE line
        BY <2>4, AndMoreIsLine
    <2>6. Title(d) = [json |-> FALSE, lines |-> <<first>>]
        BY <1>1, <1>4, <2>1, <2>4, <2>5 DEF Title
    <2>7. QED  BY <2>5, <2>6, OneLineIsText
<1>5. QED  BY <1>3, <1>4

LEMMA BlockIsLines ==
    ASSUME NEW note, note.comment \in Text, note.where \in Seq(TextLine), NEW numbered
    PROVE  Block(note, numbered) \in Seq(TextLine)
<1>1. \A line \in TextLine, mark \in {"number", "label"} : Marked(line, mark) \in TextLine
    <2> SUFFICES ASSUME NEW line \in TextLine, NEW mark \in {"number", "label"}
                 PROVE  Marked(line, mark) \in TextLine
        OBVIOUS
    <2>1. line = [marks |-> line.marks, pairs |-> line.pairs] /\ line.pairs \in Seq(Pair)
          /\ line.marks \in SUBSET {"number", "label", "url"}
        BY LineShape
    <2>2. PICK marks, pairs : line = [marks |-> marks, pairs |-> pairs]
        BY <2>1
    <2>3. PICK more : more = line.marks \cup {mark}
        OBVIOUS
    <2>4. [line EXCEPT !.marks = more] = [marks |-> more, pairs |-> line.pairs]
        BY <2>2
    <2>5. Marked(line, mark) = [line EXCEPT !.marks = more]
        BY <2>2, <2>3 DEF Marked
    <2>6. more \in SUBSET {"number", "label", "url"}
        BY <2>1, <2>3
    <2>7. QED  BY <2>1, <2>4, <2>5, <2>6 DEF TextLine
<1>2. PICK comment \in Seq(TextLine) : comment = Truncate(note.comment, COMMENT_MAX).lines
    <2>1. PICK text \in Text : text = Truncate(note.comment, COMMENT_MAX)
        BY TruncateIsText, AdaptersAssumption
    <2>2. QED  BY <2>1, TextShape
<1>3. PICK first : first = IF numbered /\ comment # << >>
                           THEN <<Marked(Head(comment), "number")>> \o Tail(comment) ELSE comment
    OBVIOUS
<1>4. first \in Seq(TextLine)
    <2>1. CASE numbered /\ comment # << >>
        <3>1. Head(comment) \in TextLine /\ Tail(comment) \in Seq(TextLine)
            BY <2>1
        <3>2. <<Marked(Head(comment), "number")>> \in Seq(TextLine)
            BY <1>1, <3>1
        <3>3. QED  BY <1>3, <2>1, <3>1, <3>2
    <2>2. QED  BY <1>3, <2>1
<1>5. PICK labelled : labelled = [n \in DOMAIN note.where |-> Marked(note.where[n], "label")]
    OBVIOUS
<1>6. labelled \in Seq(TextLine)
    <2>1. PICK k \in Nat : DOMAIN note.where = 1 .. k /\ \A n \in 1 .. k : note.where[n] \in TextLine
        OBVIOUS
    <2>2. labelled \in [1 .. k -> TextLine]
        BY <1>1, <1>5, <2>1
    <2>3. QED  BY <2>2
<1>7. Block(note, numbered) = first \o labelled
    BY <1>2, <1>3, <1>5 DEF Block
<1>8. QED  BY <1>4, <1>6, <1>7

LEMMA BlocksAreLines ==
    ASSUME NEW d, IsReport(d)
    PROVE  Blocks(d.notes) \in Seq(TextLine)
<1>1. PICK room : room = IF Len(d.notes) > MAX_RENDERED THEN MAX_RENDERED ELSE Len(d.notes)
    OBVIOUS
<1>2. room \in Nat /\ \A n \in 1 .. room : n \in 1 .. Len(d.notes)
    BY <1>1, NotesHaveText, AdaptersAssumption
<1>3. PICK ss : ss = [n \in 1 .. room |-> Block(d.notes[n], Len(d.notes) > 1)]
    OBVIOUS
<1>4. ss \in [1 .. room -> Seq(TextLine)]
    BY <1>2, <1>3, NotesHaveText, BlockIsLines
<1>5. ss \in Seq(Seq(TextLine))
    BY <1>2, <1>4
<1>6. FlattenSeq(ss) \in Seq(TextLine)
    BY <1>5, FlattenSeqHolds
<1>7. QED  BY <1>1, <1>3, <1>6 DEF Blocks

LEMMA BodyIsText ==
    ASSUME NEW d, IsReport(d)
    PROVE  Body(d) \in Text
<1>1. d.output \in Text /\ d.text \in Text
    BY DEF IsReport
<1>2. Composed(d.notes) \in Text
    <2>1. CASE Alone(d.notes)
        <3>1. d.notes[1].comment \in Text
            BY <2>1, NotesHaveText DEF Alone
        <3>2. QED  BY <2>1, <3>1, TruncateIsText, AdaptersAssumption DEF Composed
    <2>2. CASE ~Alone(d.notes)
        <3>1. PICK blocks \in Seq(TextLine) : blocks = Blocks(d.notes)
            BY BlocksAreLines
        <3>2. PICK others \in TextLine : others = AndOthers
            <4>1. << >> \in Seq(Pair)
                OBVIOUS
            <4>2. QED  BY <4>1 DEF AndOthers, TextLine
        <3>3. PICK all : all = IF Overflow(d.notes) > 0 THEN Append(blocks, others) ELSE blocks
            OBVIOUS
        <3>4. all \in Seq(TextLine)
            BY <3>3
        <3>5. Composed(d.notes) = [json |-> FALSE, lines |-> all]
            BY <2>2, <3>1, <3>2, <3>3 DEF Composed
        <3>6. QED  BY <3>4, <3>5 DEF Text
    <2>3. QED  BY <2>1, <2>2
<1>3. QED  BY <1>1, <1>2, TruncateIsText, AdaptersAssumption DEF Body

LEMMA PayloadMasks ==
    ASSUME NEW payload \in Seq(Leaf), NEW n \in DOMAIN payload
    PROVE  /\ MaskedText(RedactPayload(payload)[n].text)
           /\ payload[n].text.json => AllMasked(RedactPayload(payload)[n].text)
<1>1. PICK leaf \in Leaf : leaf = payload[n]
    OBVIOUS
<1>2. leaf.text \in Text /\ leaf = [key |-> leaf.key, text |-> leaf.text]
    BY DEF Leaf
<1>3. RedactPayload(payload)[n] =
        IF leaf.key = "sensitive" THEN [leaf EXCEPT !.text = [json |-> FALSE, lines |-> << >>]]
        ELSE [leaf EXCEPT !.text = RedactText(leaf.text)]
    BY <1>1, <1>2 DEF RedactPayload
<1>4. CASE leaf.key = "sensitive"
    <2>1. RedactPayload(payload)[n].text.lines = << >>
        BY <1>2, <1>3, <1>4
    <2>2. QED  BY <2>1 DEF MaskedText, AllMasked
<1>5. CASE leaf.key # "sensitive"
    <2>1. PICK text : text = RedactText(leaf.text)
        OBVIOUS
    <2>2. RedactPayload(payload)[n].text = text
        BY <1>2, <1>3, <1>5, <2>1
    <2>3. MaskedText(text) /\ (leaf.text.json => text.json)
        BY <1>2, <2>1, TextMasks
    <2>4. QED  BY <1>1, <2>2, <2>3 DEF MaskedText, AllMasked
<1>6. QED  BY <1>4, <1>5

\* The copy for the record of what a delivery raised.
LEMMA RaisedIsKept ==
    ASSUME NEW d, IsReport(d)
    PROVE  /\ ForRecord(Raised(d)).id = ExternalId(d)
           /\ ForRecord(Raised(d)).more = OthersCounted(d) /\ ForRecord(Raised(d)).cut = CutShort(d)
           /\ \A text \in Texts(ForRecord(Raised(d))) : MaskedText(text)
           /\ Keeps(ForRecord(Raised(d)).body, Raised(d).body)
           /\ \A n \in DOMAIN ForRecord(Raised(d)).payload :
                Raised(d).payload[n].text.json => AllMasked(ForRecord(Raised(d)).payload[n].text)
<1>1. PICK title, body, payload : /\ title = RedactText(Title(d)) /\ body = RedactText(Body(d))
                                  /\ payload = RedactPayload(d.payload)
    OBVIOUS
<1>2. PICK t, b, id, more, cut : /\ t = Title(d) /\ b = Body(d) /\ id = ExternalId(d)
                                 /\ more = OthersCounted(d) /\ cut = CutShort(d)
    OBVIOUS
<1>3. Raised(d) = [id |-> id, title |-> t, body |-> b, more |-> more, cut |-> cut, payload |-> d.payload]
    BY <1>2 DEF Raised
<1>4. ForRecord(Raised(d)) = [id |-> id, title |-> title, body |-> body, more |-> more, cut |-> cut, payload |-> payload]
    <2>1. ForRecord(Raised(d)) = [Raised(d) EXCEPT !.title = RedactText(Raised(d).title),
              !.body = RedactText(Raised(d).body), !.payload = RedactPayload(Raised(d).payload)]
        BY <1>3 DEF ForRecord
    <2>2. /\ RedactText(Raised(d).title) = title /\ RedactText(Raised(d).body) = body
          /\ RedactPayload(Raised(d).payload) = payload
        BY <1>1, <1>2, <1>3
    <2>3. PICK i : i = Raised(d)
        OBVIOUS
    <2>4. i = [id |-> id, title |-> t, body |-> b, more |-> more, cut |-> cut, payload |-> d.payload]
        BY <1>3, <2>3
    <2>5. ForRecord(Raised(d)) = [i EXCEPT !.title = title, !.body = body, !.payload = payload]
        BY <2>1, <2>2, <2>3
    <2>6. QED  BY <2>4, <2>5
<1>5. MaskedText(title) /\ MaskedText(body) /\ Keeps(body, b)
    BY <1>1, <1>2, TextMasks, TitleIsText, BodyIsText
<1>6. \A n \in DOMAIN payload :
         /\ MaskedText(payload[n].text)
         /\ d.payload[n].text.json => AllMasked(payload[n].text)
    <2>1. d.payload \in Seq(Leaf)
        BY DEF IsReport
    <2>2. DOMAIN payload = DOMAIN d.payload
        BY <1>1 DEF RedactPayload
    <2>3. QED  BY <1>1, <2>1, <2>2, PayloadMasks
<1>7. Texts(ForRecord(Raised(d))) = {title, body} \cup {payload[n].text : n \in DOMAIN payload}
    BY <1>4 DEF Texts
<1>8. QED  BY <1>2, <1>3, <1>4, <1>5, <1>6, <1>7

-----------------------------------------------------------------------------
\* Where a report is answered.
LEMMA FirstOfTwo ==
    ASSUME NEW a, NEW b
    PROVE  FirstStr(<<a, b>>) = IF Says(a) THEN a ELSE IF Says(b) THEN b ELSE "none"
<1> DEFINE said == {n \in DOMAIN <<a, b>> : Says(<<a, b>>[n])}
<1>1. FirstStr(<<a, b>>) = IF said = {} THEN "none" ELSE <<a, b>>[Min(said)]
    BY DEF FirstStr
<1>2. said \in SUBSET {1, 2} /\ (1 \in said <=> Says(a)) /\ (2 \in said <=> Says(b))
    OBVIOUS
<1> HIDE DEF said
<1>3. CASE said = {}
    BY <1>1, <1>2, <1>3
<1>4. CASE said # {}
    <2>1. PICK k : k = Min(said)
        OBVIOUS
    <2>2. k \in said /\ \A n \in said : k <= n
        <3>1. said \in SUBSET Nat
            BY <1>2
        <3>2. \E n \in said : \A m \in said : n <= m
            BY <1>4, <3>1, LeastNat
        <3>3. QED  BY <2>1, <3>2 DEF Min
    <2>3. CASE k = 1
        BY <1>1, <1>2, <1>4, <2>1, <2>2, <2>3
    <2>4. CASE k = 2
        <3>1. ~(1 \in said)
            BY <2>2, <2>4
        <3>2. QED  BY <1>1, <1>2, <1>4, <2>1, <2>2, <2>4, <3>1
    <2>5. QED  BY <1>2, <2>2, <2>3, <2>4
<1>5. QED  BY <1>3, <1>4

LEMMA FirstOfOne ==
    ASSUME NEW a
    PROVE  FirstStr(<<a>>) = IF Says(a) THEN a ELSE "none"
<1> DEFINE said == {n \in DOMAIN <<a>> : Says(<<a>>[n])}
<1>1. FirstStr(<<a>>) = IF said = {} THEN "none" ELSE <<a>>[Min(said)]
    BY DEF FirstStr
<1>2. said \in SUBSET {1} /\ (1 \in said <=> Says(a))
    OBVIOUS
<1> HIDE DEF said
<1>3. CASE said = {}
    BY <1>1, <1>2, <1>3
<1>4. CASE said # {}
    <2>1. PICK k : k = Min(said)
        OBVIOUS
    <2>2. k \in said
        <3>1. said \in SUBSET Nat
            BY <1>2
        <3>2. \E n \in said : \A m \in said : n <= m
            BY <1>4, <3>1, LeastNat
        <3>3. QED  BY <2>1, <3>2 DEF Min
    <2>3. k = 1
        BY <1>2, <2>2
    <2>4. QED  BY <1>1, <1>2, <1>4, <2>1, <2>2, <2>3
<1>5. QED  BY <1>3, <1>4

LEMMA AddressOfReport ==
    ASSUME NEW d, IsReport(d)
    PROVE  /\ ExternalId(d) \notin {"long", "blank"}
           /\ \/ ExternalId(d) \in {"none", IF Says(d.issue) THEN d.issue ELSE d.own}
              \/ Len(d.notes) = 1 /\ ExternalId(d) = d.notes[1].id
<1>1. PICK note : note = IF Len(d.notes) = 1 THEN BoundedIdentifier(FirstStr(<<d.notes[1].id>>)) ELSE "none"
    OBVIOUS
<1>2. PICK named : named = ReportedExternalId(d)
    OBVIOUS
<1>3. ExternalId(d) = IF note # "none" THEN note ELSE named
    BY <1>1, <1>2 DEF ExternalId
<1>4. /\ named \notin {"long", "blank"}
      /\ named \in {"none", IF Says(d.issue) THEN d.issue ELSE d.own}
    BY <1>2, FirstOfTwo DEF ReportedExternalId, BoundedIdentifier, Says
<1>5. note \notin {"long", "blank"}
    BY <1>1, FirstOfOne DEF BoundedIdentifier, Says
<1>6. note # "none" => Len(d.notes) = 1 /\ note = d.notes[1].id
    BY <1>1, FirstOfOne DEF BoundedIdentifier
<1>7. QED  BY <1>3, <1>4, <1>5, <1>6

-----------------------------------------------------------------------------
\* Every line is of a delivery that was made of one, and what was forwarded is of a line.
OnRecord == {n \in DOMAIN posts : posts[n].at \in {"recorded", "accepted", "unsent"}}
HasLine(d) == \E m \in DOMAIN lines : lines[m] = Line(d)
DoorInv ==
    /\ posts \in Seq([of : Delivery,
                      at : {"acknowledged", "recorded", "refused", "accepted", "unsent"}])
    /\ lines \in Seq({Line(d) : d \in Delivery})
    /\ Len(lines) = Cardinality(OnRecord)
    /\ forwarded \in Seq({Forward(d) : d \in Delivery})
    /\ \A n \in OnRecord : HasLine(posts[n].of)
    /\ \A n \in DOMAIN forwarded :
         \E d \in Delivery : forwarded[n] = Forward(d) /\ HasLine(d)

LEMMA WhatALineIs ==
    ASSUME NEW d \in Delivery
    PROVE  /\ Line(d).of = d /\ Forward(d).of = d
           /\ d.from # "railway" => IsReport(d) /\ Line(d).issue = ForRecord(Raised(d))
BY AdaptersAssumption DEF Line, Forward

\* A handler's first step: one more delivery.
LEMMA DoorPosted ==
    ASSUME DoorInv, NEW d \in Delivery,
           NEW at \in {"acknowledged", "recorded", "refused"}, Posted(d, at)
    PROVE  /\ posts' \in Seq([of : Delivery,
                      at : {"acknowledged", "recorded", "refused", "accepted", "unsent"}])
           /\ OnRecord' = IF at = "recorded" THEN OnRecord \cup {Len(posts) + 1} ELSE OnRecord
           /\ Len(posts) + 1 \notin OnRecord
           /\ \A n \in OnRecord : posts'[n].of = posts[n].of
           /\ posts'[Len(posts) + 1].of = d
           /\ IsFiniteSet(OnRecord)
<1>1. PICK k \in Nat : k = Len(posts) /\ DOMAIN posts = 1 .. k
    BY DEF DoorInv
<1>2. PICK new : new = [of |-> d, at |-> at]
    OBVIOUS
<1>3. /\ posts' = Append(posts, new)
      /\ new \in [of : Delivery, at : {"acknowledged", "recorded", "refused", "accepted", "unsent"}]
    BY <1>2 DEF Posted
<1>4. /\ posts' \in Seq([of : Delivery, at : {"acknowledged", "recorded", "refused", "accepted", "unsent"}])
      /\ DOMAIN posts' = 1 .. k + 1 /\ posts'[k + 1] = new
      /\ \A n \in 1 .. k : posts'[n] = posts[n]
    BY <1>1, <1>3 DEF DoorInv
<1>5. OnRecord' = IF at = "recorded" THEN OnRecord \cup {k + 1} ELSE OnRecord
    <2>1. \A n \in 1 .. k + 1 : n \in OnRecord' <=> IF n = k + 1 THEN at = "recorded" ELSE n \in OnRecord
        BY <1>1, <1>2, <1>4 DEF OnRecord
    <2>2. OnRecord \in SUBSET (1 .. k) /\ OnRecord' \in SUBSET (1 .. k + 1)
        BY <1>1, <1>4 DEF OnRecord
    <2>3. \A n : n \in OnRecord' <=> n \in OnRecord \/ (n = k + 1 /\ at = "recorded")
        <3>1. \A n \in 1 .. k : n \in 1 .. k + 1 /\ n # k + 1
            OBVIOUS
        <3>2. k + 1 \in 1 .. k + 1 /\ k + 1 \notin OnRecord
            BY <2>2, <3>1
        <3>3. QED  BY <2>1, <2>2, <3>1, <3>2
    <2>4. QED  BY <2>3
<1>6. OnRecord \in SUBSET (1 .. k)
    BY <1>1 DEF OnRecord
<1>7. IsFiniteSet(OnRecord)
    <2>1. IsFiniteSet(1 .. k)
        BY FS_Interval
    <2>2. QED  BY <1>6, <2>1, FS_Subset
<1>8. QED  BY <1>1, <1>2, <1>4, <1>5, <1>6, <1>7

\* Its second: the delivery has its line already.
LEMMA DoorMoved ==
    ASSUME DoorInv, NEW n \in DOMAIN posts, posts[n].at = "recorded",
           NEW at \in {"accepted", "unsent"}, posts' = [posts EXCEPT ![n].at = at]
    PROVE  /\ posts' \in Seq([of : Delivery,
                      at : {"acknowledged", "recorded", "refused", "accepted", "unsent"}])
           /\ OnRecord' = OnRecord /\ n \in OnRecord
           /\ \A m \in OnRecord : posts'[m].of = posts[m].of
<1> DEFINE P == [of : Delivery, at : {"acknowledged", "recorded", "refused", "accepted", "unsent"}]
<1>1. PICK k \in Nat : k = Len(posts) /\ DOMAIN posts = 1 .. k
    BY DEF DoorInv
<1>2. posts[n] \in P /\ \A m \in 1 .. k : posts[m] \in P
    <2>1. posts \in Seq(P)
        BY DEF DoorInv
    <2> HIDE DEF P
    <2>2. QED  BY <1>1, <2>1
<1>3. PICK new : new = [posts[n] EXCEPT !.at = at]
    OBVIOUS
<1>4. new \in P /\ new.of = posts[n].of /\ new.at = at
    BY <1>2, <1>3
<1>5. posts' = [posts EXCEPT ![n] = new]
    BY <1>2, <1>3
<1>6. posts' \in Seq(P) /\ DOMAIN posts' = 1 .. k /\ posts'[n] = new
      /\ \A m \in 1 .. k : m # n => posts'[m] = posts[m]
    BY <1>1, <1>4, <1>5 DEF DoorInv
<1>7. OnRecord' = OnRecord
    BY <1>1, <1>4, <1>6 DEF OnRecord
<1>8. QED  BY <1>1, <1>4, <1>6, <1>7 DEF OnRecord

\* Whatever is posted beside what, refused or left unsent: a line is of the right issue,
\* masked and no more than masked, and nothing is forwarded that is not on the record.
THEOREM ReportsStayKept == AdaptersSpec => []ReportsAreKept
<1>1. AdaptersInit => DoorInv
    <2> SUFFICES ASSUME AdaptersInit PROVE DoorInv
        OBVIOUS
    <2>1. OnRecord = {}
        BY DEF AdaptersInit, OnRecord
    <2>2. Cardinality(OnRecord) = 0
        BY <2>1, FS_EmptySet
    <2>3. Len(lines) = 0 /\ posts = << >> /\ lines = << >> /\ forwarded = << >>
        BY DEF AdaptersInit
    <2>4. QED  BY <2>1, <2>2, <2>3 DEF DoorInv
<1>2. DoorInv /\ [AdaptersNext]_adaptersVars => DoorInv'
    <2> SUFFICES ASSUME DoorInv, [AdaptersNext]_adaptersVars PROVE DoorInv'
        OBVIOUS
    <2>1. ASSUME NEW d \in Delivery, Posted(d, "acknowledged") \/ Posted(d, "refused"),
                 UNCHANGED <<lines, forwarded>>
          PROVE  DoorInv'
        <3>1. /\ posts' \in Seq([of : Delivery,
                      at : {"acknowledged", "recorded", "refused", "accepted", "unsent"}])
              /\ OnRecord' = OnRecord /\ \A n \in OnRecord : posts'[n].of = posts[n].of
            BY <2>1, DoorPosted
        <3>2. \A e : HasLine(e)' <=> HasLine(e)
            BY <2>1 DEF HasLine
        <3>3. QED  BY <2>1, <3>1, <3>2 DEF DoorInv
    <2>2. ASSUME NEW d \in Delivery, Record(d) PROVE DoorInv'
        <3>1. /\ posts' \in Seq([of : Delivery,
                      at : {"acknowledged", "recorded", "refused", "accepted", "unsent"}])
              /\ OnRecord' = OnRecord \cup {Len(posts) + 1} /\ Len(posts) + 1 \notin OnRecord
              /\ \A n \in OnRecord : posts'[n].of = posts[n].of
              /\ posts'[Len(posts) + 1].of = d /\ IsFiniteSet(OnRecord)
            BY <2>2, DoorPosted DEF Record
        <3>2. PICK L : L = {Line(e) : e \in Delivery}
            OBVIOUS
        <3>3. PICK line \in L : line = Line(d)
            BY <3>2
        <3>4. lines \in Seq(L) /\ lines' = Append(lines, line) /\ forwarded' = forwarded
            BY <2>2, <3>2, <3>3 DEF Record, DoorInv
        <3>5. /\ lines' \in Seq(L) /\ Len(lines') = Len(lines) + 1
              /\ \A m \in DOMAIN lines : m \in DOMAIN lines' /\ lines'[m] = lines[m]
              /\ Len(lines') \in DOMAIN lines' /\ lines'[Len(lines')] = line
            BY <3>4
        <3>6. \A e : HasLine(e) => HasLine(e)'
            BY <3>5 DEF HasLine
        <3>7. HasLine(d)'
            BY <3>3, <3>5 DEF HasLine
        <3>8. Cardinality(OnRecord') = Cardinality(OnRecord) + 1
            BY <3>1, FS_AddElement
        <3>9. \A n \in OnRecord' : \E m \in DOMAIN lines' : lines'[m] = Line(posts'[n].of)
            <4>1. ASSUME NEW n \in OnRecord
                  PROVE  \E m \in DOMAIN lines' : lines'[m] = Line(posts'[n].of)
                <5>1. PICK m \in DOMAIN lines : lines[m] = Line(posts[n].of)
                    BY DEF DoorInv, HasLine
                <5>2. QED  BY <3>1, <3>5, <5>1
            <4>2. \E m \in DOMAIN lines' : lines'[m] = Line(d)
                BY <3>7 DEF HasLine
            <4>3. QED  BY <3>1, <4>1, <4>2
        <3>10. \A n \in DOMAIN forwarded' :
                   \E e \in Delivery : forwarded'[n] = Forward(e) /\ HasLine(e)'
            BY <3>4, <3>6 DEF DoorInv
        <3>11. forwarded' \in Seq({Forward(e) : e \in Delivery})
            BY <3>4 DEF DoorInv
        <3>12. Len(lines') = Cardinality(OnRecord')
            BY <3>5, <3>8 DEF DoorInv
        <3>13. QED  BY <3>1, <3>2, <3>5, <3>9, <3>10, <3>11, <3>12 DEF DoorInv, HasLine
    <2>3. ASSUME NEW n \in DOMAIN posts, ForwardOn(n) PROVE DoorInv'
        <3>1. /\ posts' \in Seq([of : Delivery,
                      at : {"acknowledged", "recorded", "refused", "accepted", "unsent"}])
              /\ OnRecord' = OnRecord /\ n \in OnRecord
              /\ \A m \in OnRecord : posts'[m].of = posts[m].of
            BY <2>3, DoorMoved DEF ForwardOn
        <3>2. PICK d \in Delivery : d = posts[n].of
            <4>1. PICK P : P = [of : Delivery, at : {"acknowledged", "recorded", "refused", "accepted", "unsent"}]
                OBVIOUS
            <4>2. posts \in Seq(P)
                BY <4>1 DEF DoorInv
            <4>3. posts[n] \in P
                BY <4>2
            <4>4. QED  BY <4>1, <4>3
        <3>3. PICK F : F = {Forward(e) : e \in Delivery}
            OBVIOUS
        <3>4. PICK sent \in F : sent = Forward(d)
            BY <3>3
        <3>5. forwarded \in Seq(F) /\ forwarded' = Append(forwarded, sent) /\ lines' = lines
            BY <2>3, <3>2, <3>3, <3>4 DEF ForwardOn, DoorInv
        <3>6. PICK k \in Nat : k = Len(forwarded) /\ DOMAIN forwarded = 1 .. k
            BY <3>5
        <3>7. /\ forwarded' \in Seq(F) /\ DOMAIN forwarded' = 1 .. k + 1
              /\ forwarded'[k + 1] = sent /\ \A m \in 1 .. k : forwarded'[m] = forwarded[m]
            BY <3>5, <3>6
        <3>8. \A e : HasLine(e)' <=> HasLine(e)
            BY <3>5 DEF HasLine
        <3>9. HasLine(d)
            BY <3>1, <3>2 DEF DoorInv
        <3>10. \A m \in DOMAIN forwarded' :
                   \E e \in Delivery : forwarded'[m] = Forward(e) /\ HasLine(e)'
            <4>1. \A m \in 1 .. k : \E e \in Delivery : forwarded[m] = Forward(e) /\ HasLine(e)
                BY <3>6 DEF DoorInv
            <4>2. \A m \in 1 .. k + 1 : m = k + 1 \/ m \in 1 .. k
                BY <3>6
            <4>3. QED  BY <3>4, <3>7, <3>8, <3>9, <4>1, <4>2
        <3>11. \A m \in OnRecord' : \E l \in DOMAIN lines' : lines'[l] = Line(posts'[m].of)
            BY <3>1, <3>5 DEF DoorInv, HasLine
        <3>12. lines' \in Seq({Line(e) : e \in Delivery}) /\ Len(lines') = Cardinality(OnRecord')
            BY <3>1, <3>5 DEF DoorInv
        <3>13. QED  BY <3>1, <3>3, <3>7, <3>10, <3>11, <3>12 DEF DoorInv, HasLine
    <2>4. ASSUME NEW n \in DOMAIN posts, DieUnsent(n) PROVE DoorInv'
        <3>1. /\ posts' \in Seq([of : Delivery,
                      at : {"acknowledged", "recorded", "refused", "accepted", "unsent"}])
              /\ OnRecord' = OnRecord /\ \A m \in OnRecord : posts'[m].of = posts[m].of
            BY <2>4, DoorMoved DEF DieUnsent
        <3>2. lines' = lines /\ forwarded' = forwarded
            BY <2>4 DEF DieUnsent
        <3>3. \A e : HasLine(e)' <=> HasLine(e)
            BY <3>2 DEF HasLine
        <3>4. QED  BY <3>1, <3>2, <3>3 DEF DoorInv
    <2>5. CASE UNCHANGED adaptersVars
        BY <2>5 DEF DoorInv, OnRecord, HasLine, adaptersVars
    <2>6. QED
        BY <2>1, <2>2, <2>3, <2>4, <2>5 DEF AdaptersNext, Acknowledge, RefusePost
<1>3. DoorInv => ReportsAreKept
    <2> SUFFICES ASSUME DoorInv PROVE ReportsAreSafe
        BY DEF ReportsAreKept
    <2>1. \A n \in DOMAIN lines : \E d \in Delivery : lines[n] = Line(d)
        <3>1. PICK L : L = {Line(d) : d \in Delivery}
            OBVIOUS
        <3>2. \A n \in DOMAIN lines : lines[n] \in L
            BY <3>1 DEF DoorInv
        <3>3. QED  BY <3>1, <3>2
    <2>2. ASSUME NEW n \in DOMAIN lines, lines[n].of.from # "railway"
          PROVE  /\ IsReport(lines[n].of)
                 /\ lines[n].issue = ForRecord(Raised(lines[n].of))
        BY <2>1, <2>2, WhatALineIs
    <2>3. AddressIsTheIssue
        <3> SUFFICES ASSUME NEW n \in DOMAIN lines, lines[n].of.from # "railway"
                     PROVE  LET d == lines[n].of
                                id == lines[n].issue.id IN
                            /\ id \notin {"long", "blank"}
                            /\ \/ id \in {"none", IF Says(d.issue) THEN d.issue ELSE d.own}
                               \/ Len(d.notes) = 1 /\ id = d.notes[1].id
            BY DEF AddressIsTheIssue
        <3>1. PICK d : d = lines[n].of
            OBVIOUS
        <3>2. IsReport(d) /\ lines[n].issue.id = ExternalId(d)
            BY <2>2, <3>1, RaisedIsKept
        <3>3. QED  BY <3>1, <3>2, AddressOfReport
    <2>4. MaskedAndNoMore
        <3> SUFFICES ASSUME NEW n \in DOMAIN lines, lines[n].of.from # "railway"
                     PROVE  /\ \A text \in Texts(lines[n].issue) : MaskedText(text)
                            /\ Keeps(lines[n].issue.body, Raised(lines[n].of).body)
                            /\ \A m \in DOMAIN lines[n].issue.payload :
                                 Raised(lines[n].of).payload[m].text.json =>
                                     AllMasked(lines[n].issue.payload[m].text)
            BY DEF MaskedAndNoMore
        <3>1. QED  BY <2>2, RaisedIsKept
    <2>5. NothingUnsaid
        <3>1. ASSUME NEW n \in DOMAIN lines, lines[n].of.from # "railway"
              PROVE  LET notes == lines[n].of.notes
                         issue == lines[n].issue IN
                     Blocks(notes) # << >> => issue.cut \/ Len(notes) <= MAX_RENDERED + issue.more
            <4>1. PICK d : d = lines[n].of
                OBVIOUS
            <4>2. IsReport(d) /\ lines[n].issue.more = OthersCounted(d) /\ lines[n].issue.cut = CutShort(d)
                BY <2>2, <3>1, <4>1, RaisedIsKept
            <4>3. Len(d.notes) \in Nat /\ MAX_RENDERED \in Nat
                BY <4>2, NotesHaveText, AdaptersAssumption
            <4>4. CutShort(d) \/ Blocks(d.notes) = << >> \/ OthersCounted(d) = Overflow(d.notes)
                BY DEF OthersCounted
            <4>5. Len(d.notes) <= MAX_RENDERED + Overflow(d.notes)
                BY <4>3 DEF Overflow
            <4>6. QED  BY <4>1, <4>2, <4>4, <4>5
        <3>2. Len(lines) = Cardinality({n \in DOMAIN posts : posts[n].at \in {"recorded", "accepted", "unsent"}})
            BY DEF DoorInv, OnRecord
        <3>3. \A n \in DOMAIN forwarded : \E m \in DOMAIN lines :
                  lines[m].of = forwarded[n].of /\ forwarded[n] = Forward(lines[m].of)
            BY WhatALineIs DEF DoorInv, HasLine
        <3>4. QED  BY <3>1, <3>2, <3>3 DEF NothingUnsaid
    <2>6. QED  BY <2>3, <2>4, <2>5 DEF ReportsAreSafe
<1>4. QED  BY <1>1, <1>2, <1>3, PTL DEF AdaptersSpec

-----------------------------------------------------------------------------
\* What an error is of.  The prefix guessed from what was tracked.
Guess(path, files) ==
    IF \E s \in Suffixes(path) \cap files : Suffixes(path) \cap files = {s}
    THEN Without(path, CHOOSE s \in Suffixes(path) \cap files : TRUE)
    ELSE NoPrefix

\* A path under a root ends with the file, and what comes before it is the root.
IsUnder(path, root, file, T) ==
    /\ path \in Seq(T) /\ path # << >> /\ Len(path) = Len(root) + Len(file)
    /\ file \in Suffixes(path) /\ Without(path, file) = root
    /\ SubSeq(path, Len(root) + 1, Len(path)) = file

LEMMA EndsWithFile ==
    ASSUME NEW T, NEW root \in Seq(T), NEW file \in Seq(T), file # << >>
    PROVE  IsUnder(root \o file, root, file, T)
<1>1. PICK path : path = root \o file
    OBVIOUS
<1>2. PICK m \in Nat, n \in Nat \ {0} : /\ m = Len(root) /\ n = Len(file)
                                        /\ DOMAIN root = 1 .. m /\ DOMAIN file = 1 .. n
    OBVIOUS
<1>3. /\ path \in Seq(T) /\ Len(path) = m + n
      /\ \A i \in 1 .. m : path[i] = root[i]
      /\ \A i \in 1 .. n : path[m + i] = file[i]
    BY <1>1, <1>2
<1>4. path # << >>
    BY <1>2, <1>3
<1>5. SubSeq(path, m + 1, m + n) = file
    <2>1. PICK last : last = SubSeq(path, m + 1, m + n)
        OBVIOUS
    <2>2. last \in Seq(T) /\ Len(last) = n /\ \A i \in 1 .. n : last[i] = path[(m + 1 + i) - 1]
        BY <1>2, <1>3, <2>1
    <2>3. \A i \in 1 .. n : last[i] = file[i]
        <3>1. \A i \in 1 .. n : (m + 1 + i) - 1 = m + i
            OBVIOUS
        <3>2. QED  BY <1>3, <2>2, <3>1
    <2>4. last = file
        <3>1. n \in Nat /\ Len(file) = n /\ \A i \in 1 .. n : last[i] = file[i]
            BY <1>2, <2>3
        <3>2. QED  BY <2>2, <3>1
    <2>5. QED  BY <2>1, <2>4
<1>6. SubSeq(path, 1, m) = root
    <2>1. PICK first : first = SubSeq(path, 1, m)
        OBVIOUS
    <2>2. first \in Seq(T) /\ Len(first) = m /\ \A i \in 1 .. m : first[i] = path[i]
        BY <1>2, <1>3, <2>1
    <2>3. first = root
        <3>1. m \in Nat /\ Len(root) = m /\ \A i \in 1 .. m : first[i] = root[i]
            BY <1>2, <1>3, <2>2
        <3>2. QED  BY <2>2, <3>1
    <2>4. QED  BY <2>1, <2>3
<1>7. file \in Suffixes(path)
    <2>1. m + 1 \in 1 .. Len(path) /\ SubSeq(path, m + 1, Len(path)) = file
        <3>1. Len(path) = m + n /\ m + 1 \in 1 .. m + n
            BY <1>2, <1>3
        <3>2. QED  BY <1>5, <3>1
    <2>2. QED  BY <2>1 DEF Suffixes
<1>8. Without(path, file) = root
    <2>1. Len(path) - Len(file) = m
        BY <1>2, <1>3
    <2>2. QED  BY <1>6, <2>1 DEF Without
<1>9. QED  BY <1>1, <1>2, <1>3, <1>4, <1>5, <1>7, <1>8 DEF IsUnder

\* A cut at the front alone leaves the file.
LEMMA CutAtFront ==
    ASSUME NEW T, NEW root \in Seq(T), NEW file \in Seq(T), file # << >>, root # << >>,
           NEW path, path = root \o file,
           ~ \E i \in 1 .. Len(file) : OccursAt(file, root, i)
    PROVE  Cut(path, root) = file
<1>1. /\ path \in Seq(T) /\ path # << >> /\ Len(path) = Len(root) + Len(file)
      /\ Without(path, file) = root /\ SubSeq(path, Len(root) + 1, Len(path)) = file
    BY EndsWithFile DEF IsUnder
<1>2. PICK n \in Nat \ {0} : n = Len(path) /\ DOMAIN path = 1 .. n
    BY <1>1
<1>3. PICK whole, rest : whole = [path |-> path, from |-> 0] /\ rest = [path |-> file, from |-> 1]
    OBVIOUS
<1>4. CutOnce(whole, root) = rest
    <2>1. OccursAt(path, root, 0)
        <3>1. SubSeq(path, 1, Len(root)) = root
            <4>1. Len(path) - Len(file) = Len(root)
                BY <1>1
            <4>2. QED  BY <1>1, <4>1 DEF Without
        <3>2. 0 + Len(root) < Len(path) /\ 0 + 1 = 1 /\ 0 + Len(root) = Len(root)
            BY <1>1
        <3>3. QED  BY <3>1, <3>2 DEF OccursAt
    <2>2. PICK places : places = {i \in 0 .. Len(path) : OccursAt(path, root, i)}
        OBVIOUS
    <2>3. places \in SUBSET Nat /\ 0 \in places /\ places # {}
        BY <1>2, <2>1, <2>2
    <2>4. PICK i : i = CHOOSE p \in places : \A q \in places : p <= q
        OBVIOUS
    <2>5. i = 0
        <3>1. \A q \in places : 0 <= q
            BY <2>3
        <3>2. i \in places /\ \A q \in places : i <= q
            BY <2>3, <2>4, <3>1
        <3>3. QED  BY <2>3, <3>1, <3>2
    <2>6. SubSeq(path, i + Len(root) + 1, Len(path)) = file
        <3>1. i + Len(root) + 1 = Len(root) + 1
            BY <2>5
        <3>2. QED  BY <1>1, <3>1
    <2>7. whole.path = path /\ whole.from = 0
        BY <1>3
    <2>8. QED  BY <1>3, <2>2, <2>3, <2>4, <2>6, <2>7 DEF CutOnce
<1>5. CutOnce(rest, root) = rest
    <2>1. rest.path = file /\ rest.from = 1
        BY <1>3
    <2>2. {i \in 1 .. Len(file) : OccursAt(file, root, i)} = {}
        OBVIOUS
    <2>3. QED  BY <2>1, <2>2 DEF CutOnce
<1>6. PICK A : A = {whole, rest}
    OBVIOUS
<1>7. PICK step : step = [i \in 1 .. n |-> [cut \in A |-> CutOnce(cut, root)]]
    OBVIOUS
<1>8. step \in [1 .. n -> [A -> A]]
    BY <1>4, <1>5, <1>6, <1>7
<1>9. \A s \in SUBSET (1 .. n) : s # {} => Max(s) \in s
    BY <1>2, MaxIsMember
<1> DEFINE Eq(f) == f = [s \in SUBSET (1 .. n) |->
                            IF s = {} THEN whole ELSE CutOnce(f[s \ {Max(s)}], root)]
           iter == CHOOSE f : Eq(f)
<1>10. Eq(iter)
    <2>1. PICK it : IsFoldLeft(it, n, A, whole, step)
        BY <1>2, <1>6, <1>8, FoldLeftExists
    <2>2. \A s \in SUBSET (1 .. n) : s # {} =>
              step[Max(s)][it[s \ {Max(s)}]] = CutOnce(it[s \ {Max(s)}], root)
        BY <1>7, <1>9, <2>1 DEF IsFoldLeft
    <2>3. Eq(it)
        BY <2>1, <2>2 DEF IsFoldLeft
    <2> HIDE DEF Eq
    <2>4. QED  BY <2>3
<1>11. Cut(path, root) = iter[1 .. n].path
    <2>1. DOMAIN path = 1 .. n
        BY <1>2
    <2>2. QED  BY <1>3, <2>1 DEF Cut, FoldLeft, MapThenFoldSet
<1> HIDE DEF iter
<1>12. iter[{}] = whole
    BY <1>10
<1>13. \A s \in SUBSET (1 .. n) : s # {} => iter[s] = CutOnce(iter[s \ {Max(s)}], root)
    BY <1>10
<1> HIDE DEF Eq
<1> DEFINE Odd == {m \in Nat \ {0} : m <= n /\ iter[1 .. m] # rest}
<1>14. Odd = {}
    <2> SUFFICES ASSUME Odd # {} PROVE FALSE
        OBVIOUS
    <2>1. PICK m \in Odd : \A k \in Odd : m <= k
        <3>1. Odd \in SUBSET Nat
            OBVIOUS
        <3> HIDE DEF Odd
        <3>2. QED  BY <3>1, LeastNat
    <2>2. /\ m \in Nat /\ m # 0 /\ m <= n /\ iter[1 .. m] # rest
          /\ 1 .. m \in SUBSET (1 .. n) /\ m \in 1 .. m
        BY <1>2
    <2>3. Max(1 .. m) = m /\ (1 .. m) \ {m} = 1 .. (m - 1)
        BY <2>2, MaxOfInterval
    <2>4. iter[1 .. m] = CutOnce(iter[1 .. (m - 1)], root)
        BY <1>13, <2>2, <2>3
    <2>5. CASE m = 1
        <3>1. 1 .. (m - 1) = {}
            BY <2>5
        <3>2. QED  BY <1>4, <1>12, <2>2, <2>4, <3>1
    <2>6. CASE m # 1
        <3>1. m - 1 \in Nat \ {0} /\ m - 1 <= n /\ ~(m <= m - 1)
            BY <1>2, <2>2, <2>6
        <3>2. iter[1 .. (m - 1)] = rest
            BY <2>1, <3>1
        <3>3. QED  BY <1>5, <2>2, <2>4, <3>2
    <2>7. QED  BY <2>5, <2>6
<1>15. iter[1 .. n] = rest
    BY <1>2, <1>14
<1>16. QED  BY <1>3, <1>11, <1>15

\* Where its file was tracked, the prefix guessed of an error is its root or none, and
\* its root if there was nothing else that it could be.
LEMMA GuessIsItsRoot ==
    ASSUME NEW root \in Root, NEW file \in File, NEW files, file \in files
    PROVE  LET path == root \o file IN
           /\ Guess(path, files) \in {NoPrefix, root}
           /\ Suffixes(path) \cap files = {file} => Guess(path, files) = root
<1>1. PICK path, T : path = root \o file /\ T = Seq(STRING)
    OBVIOUS
<1>2. file \in Suffixes(path) /\ Without(path, file) = root
    <2>1. root \in Seq(T) /\ file \in Seq(T) /\ file # << >>
        BY <1>1, AppRootAssumption
    <2>2. QED  BY <1>1, <2>1, EndsWithFile DEF IsUnder
<1>3. PICK ends : ends = Suffixes(path) \cap files
    OBVIOUS
<1>4. Guess(path, files) = IF \E s \in ends : ends = {s}
                           THEN Without(path, CHOOSE s \in ends : TRUE) ELSE NoPrefix
    BY <1>3 DEF Guess
<1>5. file \in ends
    BY <1>2, <1>3
<1>6. CASE ends = {file}
    <2>1. (CHOOSE s \in ends : TRUE) = file
        BY <1>6
    <2>2. \E s \in ends : ends = {s}
        BY <1>6
    <2>3. Guess(path, files) = root
        BY <1>2, <1>4, <2>1, <2>2
    <2>4. QED  BY <1>1, <2>3
<1>7. CASE ends # {file}
    <2>1. ~ \E s \in ends : ends = {s}
        BY <1>5, <1>7
    <2>2. Guess(path, files) = NoPrefix
        BY <1>4, <2>1
    <2>3. QED  BY <1>1, <1>3, <1>7, <2>2
<1>8. QED  BY <1>6, <1>7

\* The frame that an error is signed by: of the app, or there is none.
LEMMA TopFrameIs ==
    ASSUME NEW root \in Root, NEW file \in File, NEW stack \in StacksOf(file, root)
    PROVE  TopFrame(stack) \in {NoFile, root \o file}
<1>1. PICK own, T : own = root \o file /\ T = Seq(STRING)
    OBVIOUS
<1>2. own \in Seq(T) /\ own # << >>
    <2>1. root \in Seq(T) /\ file \in Seq(T) /\ file # << >>
        BY <1>1, AppRootAssumption
    <2>2. QED  BY <1>1, <2>1, EndsWithFile DEF IsUnder
<1>3. PICK O : O = {Library, own} /\ own # Library
    BY <1>2 DEF Library, NoFile
<1>4. ASSUME NEW frames \in Seq(O)
      PROVE  FirstOfApp(frames) \in {NoFile, own}
    <2>1. PICK at : at = {i \in DOMAIN frames : frames[i] # Library}
        OBVIOUS
    <2>2. CASE at = {}
        BY <2>1, <2>2 DEF FirstOfApp
    <2>3. CASE at # {}
        <3>1. at \in SUBSET Nat /\ \A i \in at : frames[i] = own
            BY <1>3, <2>1
        <3>2. \E i \in at : \A j \in at : i <= j
            BY <2>3, <3>1, LeastNat
        <3>3. PICK i : i = CHOOSE k \in at : \A j \in at : k <= j
            OBVIOUS
        <3>4. i \in at
            BY <3>2, <3>3
        <3>5. FirstOfApp(frames) = frames[i]
            BY <2>1, <2>3, <3>3 DEF FirstOfApp
        <3>6. QED  BY <3>1, <3>4, <3>5
    <2>4. QED  BY <2>2, <2>3
<1>5. stack.v8 \in Seq(O) /\ stack.python \in Seq(O)
    <2>1. /\ << >> \in Seq(O) /\ <<own>> \in Seq(O) /\ <<Library>> \in Seq(O)
          /\ <<Library, own>> \in Seq(O) /\ <<own, Library>> \in Seq(O)
        BY <1>3
    <2>2. \E v, p \in {<< >>, <<own>>, <<Library>>, <<Library, own>>, <<own, Library>>} :
              stack = [v8 |-> v, python |-> p]
        BY <1>1, Zenon DEF StacksOf
    <2>3. PICK v \in Seq(O), p \in Seq(O) : stack = [v8 |-> v, python |-> p]
        BY <2>1, <2>2
    <2>4. stack.v8 = v /\ stack.python = p
        BY <2>3
    <2>5. QED  BY <2>3, <2>4
<1>6. Reverse(stack.python) \in Seq(O)
    <2>1. PICK n \in Nat, frames \in Seq(O) : frames = stack.python /\ n = Len(frames)
        BY <1>5
    <2>2. Reverse(frames) = [i \in 1 .. n |-> frames[(n - i) + 1]]
        BY <2>1 DEF Reverse
    <2>3. \A i \in 1 .. n : frames[(n - i) + 1] \in O
        BY <2>1
    <2>4. Reverse(frames) \in [1 .. n -> O]
        BY <2>2, <2>3
    <2>5. QED  BY <2>1, <2>4
<1>7. QED  BY <1>1, <1>4, <1>5, <1>6 DEF TopFrame

\* A signed error: one without a frame of the app, or one of a file under a root, as it
\* came or with the prefix guessed of it cut.
SignedWell(error) ==
    \/ error.path = NoFile /\ error.signature = NoFile /\ error.tracked = {}
    \/ /\ error.file \in File /\ error.tracked \in SUBSET File
       /\ \E root \in Root : error.path = root \o error.file
       /\ \/ error.tracked = {} /\ error.signature = error.path
          \/ error.signature = Strip(error.path, Guess(error.path, error.tracked))

AppRootInv ==
    /\ tracked \in SUBSET File
    /\ DOMAIN looked = DOMAIN cache
    /\ \A path \in DOMAIN cache :
          looked[path] \in SUBSET File /\ cache[path] = Guess(path, looked[path])
    /\ \E S : signed \in Seq(S)
    /\ \A i \in DOMAIN signed : SignedWell(signed[i])

LEMMA SignsWell ==
    ASSUME AppRootInv, NEW file, NEW path, NEW prefix, NEW atLook, Signed(file, path, prefix, atLook),
           \A error : (/\ error.file = file /\ error.path = path /\ error.tracked = atLook
                       /\ error.signature = IF path = NoFile THEN NoFile ELSE Strip(path, prefix))
                      => SignedWell(error)
    PROVE  (\E S : signed' \in Seq(S)) /\ \A i \in DOMAIN signed' : SignedWell(signed'[i])
<1>1. PICK error : error = [file |-> file, path |-> path, tracked |-> atLook,
                            signature |-> IF path = NoFile THEN NoFile ELSE Strip(path, prefix)]
    OBVIOUS
<1>2. /\ error.file = file /\ error.path = path /\ error.tracked = atLook
      /\ error.signature = IF path = NoFile THEN NoFile ELSE Strip(path, prefix)
    BY <1>1
<1>3. SignedWell(error)
    BY <1>2
<1>4. PICK S : signed \in Seq(S)
    BY DEF AppRootInv
<1>5. PICK T : T = S \cup {error}
    OBVIOUS
<1>6. signed \in Seq(T) /\ error \in T
    BY <1>4, <1>5
<1>7. signed' = Append(signed, error)
    BY <1>1 DEF Signed
<1>8. signed' \in Seq(T)
    BY <1>6, <1>7
<1>9. ASSUME NEW i \in DOMAIN signed' PROVE SignedWell(signed'[i])
    <2>1. PICK n \in Nat : n = Len(signed) /\ DOMAIN signed = 1 .. n
        BY <1>6
    <2>2. i \in 1 .. n \/ i = n + 1
        BY <1>6, <1>7, <2>1
    <2>3. CASE i \in 1 .. n
        <3>1. signed'[i] = signed[i] /\ i \in DOMAIN signed
            BY <1>6, <1>7, <2>1, <2>3
        <3>2. QED  BY <3>1 DEF AppRootInv
    <2>4. CASE i = n + 1
        <3>1. signed'[i] = error
            BY <1>6, <1>7, <2>1, <2>4
        <3>2. QED  BY <1>3, <3>1
    <2>5. QED  BY <2>2, <2>3, <2>4
<1>10. QED  BY <1>8, <1>9

\* What is remembered with what it was looked up from stays so.
LEMMA Remembered ==
    ASSUME AppRootInv, NEW path, NEW prefix, prefix = Guess(path, tracked),
           cache' = Remember(cache, path, prefix), looked' = Remember(looked, path, tracked)
    PROVE  /\ DOMAIN looked' = DOMAIN cache'
           /\ \A p \in DOMAIN cache' : looked'[p] \in SUBSET File /\ cache'[p] = Guess(p, looked'[p])
<1>1. PICK kept, seen : /\ kept = IF Cardinality(DOMAIN cache) >= MAX_ENTRIES THEN << >> ELSE cache
                        /\ seen = IF Cardinality(DOMAIN cache) >= MAX_ENTRIES THEN << >> ELSE looked
    OBVIOUS
<1>2. /\ DOMAIN seen = DOMAIN kept
      /\ \A p \in DOMAIN kept : seen[p] \in SUBSET File /\ kept[p] = Guess(p, seen[p])
    BY <1>1 DEF AppRootInv
<1>3. cache' = [p \in (DOMAIN kept) \cup {path} |-> IF p = path THEN prefix ELSE kept[p]]
    BY <1>1 DEF Remember
<1>4. looked' = [p \in (DOMAIN seen) \cup {path} |-> IF p = path THEN tracked ELSE seen[p]]
    BY <1>1 DEF Remember, AppRootInv
<1>5. DOMAIN looked' = DOMAIN cache' /\ DOMAIN cache' = (DOMAIN kept) \cup {path}
    BY <1>2, <1>3, <1>4
<1>6. tracked \in SUBSET File
    BY DEF AppRootInv
<1>7. ASSUME NEW p \in DOMAIN cache'
      PROVE  looked'[p] \in SUBSET File /\ cache'[p] = Guess(p, looked'[p])
    <2>1. CASE p = path
        <3>1. cache'[p] = prefix /\ looked'[p] = tracked
            BY <1>2, <1>3, <1>4, <2>1
        <3>2. QED  BY <1>6, <2>1, <3>1
    <2>2. CASE p # path
        <3>1. p \in DOMAIN kept /\ cache'[p] = kept[p] /\ looked'[p] = seen[p]
            BY <1>2, <1>3, <1>4, <1>5, <2>2
        <3>2. QED  BY <1>2, <3>1
    <2>3. QED  BY <2>1, <2>2
<1>8. QED  BY <1>5, <1>7

LEMMA SignedIsRight ==
    ASSUME NEW error, SignedWell(error)
    PROVE  /\ (\E other \in File \ {error.file} : Matches(error.signature, other))
               => \/ error.file \notin error.tracked
                  \/ error.signature = error.path
                  \/ Recurs(error)
           /\ (Candidates(error) = {error.file} /\ ~Recurs(error))
               => Matches(error.signature, ReproducedAs(error))
           /\ error.path = NoFile => \A file \in File : ~Matches(error.signature, file)
<1>1. CASE error.path = NoFile /\ error.signature = NoFile /\ error.tracked = {}
    <2>1. \A other : ~Matches(error.signature, other)
        BY <1>1 DEF Matches
    <2>2. Candidates(error) = {}
        BY <1>1 DEF Candidates
    <2>3. QED  BY <2>1, <2>2
<1>2. CASE error.file \in File /\ \E root \in Root : error.path = root \o error.file
    <2>1. PICK file \in File, root \in Root : error.file = file /\ error.path = root \o file
        BY <1>2
    <2>2. PICK path, T : path = error.path /\ T = Seq(STRING)
        OBVIOUS
    <2>3. root \in Seq(T) /\ file \in Seq(T) /\ file # << >> /\ path = root \o file
        BY <2>1, <2>2, AppRootAssumption
    <2>4. path # NoFile /\ Without(path, file) = root
        BY <2>3, EndsWithFile DEF IsUnder, NoFile
    <2>5. CASE error.tracked = {}
        <3>1. Candidates(error) = {}
            BY <2>5 DEF Candidates
        <3>2. QED  BY <2>2, <2>4, <2>5, <3>1
    <2>6. CASE error.signature = Strip(path, Guess(path, error.tracked))
        <3>1. Recurs(error) <=> root # NoPrefix /\ \E i \in 1 .. Len(file) : OccursAt(file, root, i)
            BY <2>1, <2>2, <2>4 DEF Recurs
        <3>2. ASSUME file \in error.tracked
              PROVE  Guess(path, error.tracked) \in {NoPrefix, root}
            BY <2>3, <3>2, GuessIsItsRoot
        <3>3. ASSUME Candidates(error) = {file}
              PROVE  file \in error.tracked /\ Guess(path, error.tracked) = root
            <4>1. Suffixes(path) \cap error.tracked = {file}
                BY <2>2, <3>3 DEF Candidates
            <4>2. file \in error.tracked
                BY <4>1
            <4>3. QED  BY <2>3, <4>1, <4>2, GuessIsItsRoot
        <3>4. ASSUME Guess(path, error.tracked) = root, root # NoPrefix, ~Recurs(error)
              PROVE  error.signature = file
            <4>1. Cut(path, root) = file
                BY <2>3, <3>1, <3>4, CutAtFront DEF NoPrefix
            <4>2. QED  BY <2>6, <3>4, <4>1 DEF Strip
        <3>5. ASSUME Guess(path, error.tracked) = NoPrefix
              PROVE  error.signature = path
            BY <2>6, <3>5 DEF Strip
        <3>6. ASSUME NEW other \in File \ {file}, Matches(error.signature, other),
                     file \in error.tracked, error.signature # path
              PROVE  Recurs(error)
            <4>1. error.signature # file
                BY <3>6 DEF Matches
            <4>2. QED  BY <3>2, <3>4, <3>5, <3>6, <4>1
        <3>7. ASSUME Candidates(error) = {file}, ~Recurs(error)
              PROVE  Matches(error.signature, file)
            <4>1. CASE root = NoPrefix
                <5>1. path = file
                    BY <2>3, <4>1 DEF NoPrefix
                <5>2. QED  BY <2>3, <3>3, <3>5, <3>7, <4>1, <5>1 DEF Matches, NoFile
            <4>2. CASE root # NoPrefix
                BY <2>3, <3>3, <3>4, <3>7, <4>2 DEF Matches, NoFile
            <4>3. QED  BY <4>1, <4>2
        <3>8. QED  BY <2>1, <2>2, <2>4, <3>6, <3>7 DEF ReproducedAs
    <2>7. QED  BY <1>1, <2>2, <2>5, <2>6 DEF SignedWell
<1>3. QED  BY <1>1, <1>2 DEF SignedWell

\* Whatever the repository gains or loses, whichever derivations fail and however often
\* the cache is dropped: an error has the signature of no other file than its own, unless
\* its own was not there, its whole path is the other's or its prefix stands in it twice;
\* and a replay of it is recognised where nothing else could be meant.
THEOREM SignaturesStayRight == AppRootSpec => []NoWrongFile
<1>1. AppRootInit => AppRootInv
    <2>1. << >> \in Seq({}) /\ DOMAIN << >> = {}
        OBVIOUS
    <2> SUFFICES ASSUME AppRootInit PROVE AppRootInv
        OBVIOUS
    <2>2. tracked \in SUBSET File
        BY AppRootAssumption DEF AppRootInit
    <2>3. cache = << >> /\ looked = << >> /\ signed = << >>
        BY DEF AppRootInit
    <2>4. DOMAIN cache = {} /\ DOMAIN looked = {} /\ DOMAIN signed = {} /\ signed \in Seq({})
        BY <2>1, <2>3
    <2>5. QED  BY <2>2, <2>4 DEF AppRootInv
<1>2. AppRootInv /\ [AppRootNext]_appRootVars => AppRootInv'
    <2> SUFFICES ASSUME AppRootInv, [AppRootNext]_appRootVars PROVE AppRootInv'
        OBVIOUS
    <2>1. ASSUME NEW file \in File, Commit(file) PROVE AppRootInv'
        <3>1. tracked' \in SUBSET File
            BY <2>1 DEF Commit, AppRootInv
        <3>2. QED  BY <2>1, <3>1 DEF Commit, AppRootInv
    <2>2. ASSUME NEW file \in File, NEW root \in Root, NEW stack \in StacksOf(file, root),
                 SignError(stack, file)
          PROVE  AppRootInv'
        <3>1. PICK path : path = TopFrame(stack) /\ path \in {NoFile, root \o file}
            BY TopFrameIs
        <3>2. CASE path = NoFile
            <4>1. Signed(file, path, NoPrefix, {}) /\ UNCHANGED <<cache, looked, tracked>>
                BY <2>2, <3>1, <3>2 DEF SignError
            <4>2. (\E S : signed' \in Seq(S)) /\ \A i \in DOMAIN signed' : SignedWell(signed'[i])
                <5>1. ASSUME NEW error, error.file = file, error.path = path, error.tracked = {},
                             error.signature = IF path = NoFile THEN NoFile ELSE Strip(path, NoPrefix)
                      PROVE  SignedWell(error)
                    BY <3>2, <5>1 DEF SignedWell
                <5>2. QED  BY <4>1, <5>1, SignsWell
            <4>3. QED  BY <4>1, <4>2 DEF AppRootInv
        <3>3. CASE path # NoFile
            <4>1. PICK prefix, atLook :
                     /\ prefix = IF Cached(path) THEN cache[path] ELSE DerivePrefix(path)
                     /\ atLook = IF Cached(path) THEN looked[path] ELSE tracked
                OBVIOUS
            <4>2. /\ Signed(file, path, prefix, atLook) /\ tracked' = tracked
                  /\ cache' = IF Cached(path) THEN cache ELSE Remember(cache, path, prefix)
                  /\ looked' = IF Cached(path) THEN looked ELSE Remember(looked, path, tracked)
                BY <2>2, <3>1, <3>3, <4>1 DEF SignError
            <4>3. atLook \in SUBSET File /\ prefix = Guess(path, atLook)
                <5>1. DerivePrefix(path) = Guess(path, tracked)
                    BY DEF DerivePrefix, Guess, Tracked
                <5>2. QED  BY <4>1, <5>1 DEF AppRootInv, Cached
            <4>4. (\E S : signed' \in Seq(S)) /\ \A i \in DOMAIN signed' : SignedWell(signed'[i])
                <5>1. ASSUME NEW error, error.file = file, error.path = path, error.tracked = atLook,
                             error.signature = IF path = NoFile THEN NoFile ELSE Strip(path, prefix)
                      PROVE  SignedWell(error)
                    BY <3>1, <3>3, <4>3, <5>1 DEF SignedWell
                <5>2. QED  BY <4>2, <5>1, SignsWell
            <4>5. /\ DOMAIN looked' = DOMAIN cache'
                  /\ \A p \in DOMAIN cache' :
                        looked'[p] \in SUBSET File /\ cache'[p] = Guess(p, looked'[p])
                <5>1. CASE Cached(path)
                    BY <4>2, <5>1 DEF AppRootInv
                <5>2. CASE ~Cached(path)
                    BY <4>1, <4>2, <4>3, <5>2, Remembered
                <5>3. QED  BY <5>1, <5>2
            <4>6. QED  BY <4>2, <4>4, <4>5 DEF AppRootInv
        <3>4. QED  BY <3>2, <3>3
    <2>3. ASSUME NEW file \in File, NEW root \in Root, NEW stack \in StacksOf(file, root),
                 PassUnderived(stack, file)
          PROVE  AppRootInv'
        <3>1. PICK path : path = TopFrame(stack) /\ path \in {NoFile, root \o file}
            BY TopFrameIs
        <3>2. /\ Signed(file, path, NoPrefix, {}) /\ tracked' = tracked
              /\ cache' = << >> /\ looked' = << >>
            BY <2>3, <3>1 DEF PassUnderived
        <3>3. (\E S : signed' \in Seq(S)) /\ \A i \in DOMAIN signed' : SignedWell(signed'[i])
            <4>1. ASSUME NEW error, error.file = file, error.path = path, error.tracked = {},
                         error.signature = IF path = NoFile THEN NoFile ELSE Strip(path, NoPrefix)
                  PROVE  SignedWell(error)
                BY <3>1, <4>1 DEF SignedWell, Strip
            <4>2. QED  BY <3>2, <4>1, SignsWell
        <3>4. DOMAIN << >> = {}
            OBVIOUS
        <3>5. QED  BY <3>2, <3>3, <3>4 DEF AppRootInv
    <2>4. CASE UNCHANGED appRootVars
        BY <2>4 DEF appRootVars, AppRootInv
    <2>5. QED  BY <2>1, <2>2, <2>3, <2>4 DEF AppRootNext
<1>3. AppRootInv => NoWrongFile
    BY SignedIsRight DEF AppRootInv, NoWrongFile
<1>4. QED  BY <1>1, <1>2, <1>3, PTL DEF AppRootSpec

=============================================================================
