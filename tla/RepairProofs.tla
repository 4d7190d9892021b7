--------------------------- MODULE RepairProofs ---------------------------
(***************************************************************************)
(* Proofs about what is done about a failure: what the engine reads after  *)
(* its mark and what a reproduction rests on (Replay, for any capacity of  *)
(* the buffer and any amount of output), what a repair attempt leaves for  *)
(* review (RepairRun, IssueRepair), that a run's evidence lets one repair  *)
(* ship (Plane), and what a command it waited for leaves behind            *)
(* (ChildGroup).                                                           *)
(***************************************************************************)
EXTENDS ChildGroup, Replay, RepairRun, IssueRepair, Plane, SequenceTheorems, FoldProofs

\* The buffer is a window of what was printed: its start is where the evicted
\* entries end, and exactly what exceeds CAP is evicted.
Window ==
    /\ written \in Seq(Entry)
    /\ drained \in 0 .. Len(written)
    /\ dropped = Larger(drained - CAP, 0)
    /\ buf = SubSeq(written, dropped + 1, drained)

\* The mark is the number of entries drained when it was taken.
Noted == mark = readAtMark /\ readAtMark \in 0 .. drained

\* What the verdict was taken from was printed at places after the mark.
EvidenceIsLater ==
    \A i \in 1 .. Len(evidence) : PrintedAfter(readAtMark, {evidence[i]})

\* Nothing is concluded before the mark.
NothingYet == phase \in {"booting", "booted"} => evidence = << >> /\ verdict = "none"

\* A verdict keeps the trace it rests on.
RestsOnTrace ==
    (verdict = "reproduced" /\ ~names) => PrintedAfter(readAtMark, {"same", "own"})

\* The inductive strengthening of SinceIsExact, and that of ReproducedByNewTrace.
Listening == Window /\ Noted
Judging == NothingYet /\ EvidenceIsLater /\ RestsOnTrace

-----------------------------------------------------------------------------
LEMMA LargerProperties ==
    ASSUME NEW m \in Int, NEW n \in Int
    PROVE  /\ Larger(m, n) \in {m, n}
           /\ Larger(m, n) >= m /\ Larger(m, n) >= n
BY DEF Larger

\* The end of a part of a sequence is a part of that sequence.
LEMMA EndOfPart ==
    ASSUME NEW s \in Seq(Entry), NEW d \in Nat, NEW e \in Nat,
           d <= e, e <= Len(s), NEW k \in 0 .. e - d
    PROVE  SubSeq(SubSeq(s, d + 1, e), k + 1, e - d) = SubSeq(s, d + k + 1, e)
<1>1. CASE k = e - d
  <2>1. SubSeq(SubSeq(s, d + 1, e), k + 1, e - d) = << >>
    BY <1>1, SubSeqEmpty
  <2>2. SubSeq(s, d + k + 1, e) = << >> BY <1>1, SubSeqEmpty
  <2> QED BY <2>1, <2>2
<1>2. CASE k # e - d
  <2>1. /\ d + 1 \in 1 .. Len(s) /\ e \in 1 .. Len(s)
        /\ k + 1 \in 1 .. e - (d + 1) + 1 /\ e - d \in 1 .. e - (d + 1) + 1
    BY <1>2
  <2>2. SubSeq(SubSeq(s, d + 1, e), k + 1, e - d)
        = SubSeq(s, (d + 1) + (k + 1) - 1, (d + 1) + (e - d) - 1)
    BY <2>1, SubSeqOfSubSeq
  <2>3. (d + 1) + (k + 1) - 1 = d + k + 1 /\ (d + 1) + (e - d) - 1 = e
    OBVIOUS
  <2> QED BY <2>2, <2>3
<1> QED BY <1>1, <1>2

LEMMA PartLength ==
    ASSUME NEW s \in Seq(Entry), NEW d \in Nat, NEW e \in Nat, d <= e, e <= Len(s)
    PROVE  Len(SubSeq(s, d + 1, e)) = e - d
<1>1. \A i \in d + 1 .. e : s[i] \in Entry OBVIOUS
<1>2. Len(SubSeq(s, d + 1, e)) = IF d + 1 <= e THEN e - (d + 1) + 1 ELSE 0
  BY <1>1, SubSeqProperties
<1> QED BY <1>2

LEMMA WindowLength ==
    ASSUME Window
    PROVE  /\ dropped \in Nat /\ dropped <= drained /\ drained \in Nat
           /\ Len(written) \in Nat
           /\ Len(buf) = drained - dropped
           /\ Mark = drained
<1> USE ReplayAssumption
<1>1. /\ dropped \in Nat /\ dropped <= drained /\ drained \in Nat
      /\ drained <= Len(written) /\ Len(written) \in Nat
  BY DEF Window, Larger
<1>2. Len(buf) = drained - dropped BY <1>1, PartLength DEF Window
<1> QED BY <1>1, <1>2 DEF Mark

\* Reading from a mark.
LEMMA ReadFrom ==
    ASSUME Window, NEW m \in 0 .. drained
    PROVE  Since(m) = SubSeq(written, Larger(m, drained - CAP) + 1, drained)
<1> USE ReplayAssumption
<1>0. /\ dropped \in Nat /\ dropped <= drained /\ drained \in Nat
      /\ Len(buf) = drained - dropped /\ drained <= Len(written)
      /\ written \in Seq(Entry)
  BY WindowLength DEF Window
<1> DEFINE k == Larger(m - dropped, 0)
<1>1. k \in 0 .. drained - dropped BY <1>0 DEF Larger
<1>2. dropped + k = Larger(m, drained - CAP) BY <1>0 DEF Larger, Window
<1>3. Since(m) = SubSeq(buf, k + 1, drained - dropped) BY <1>0 DEF Since
<1> HIDE DEF k
<1>4. SubSeq(SubSeq(written, dropped + 1, drained), k + 1, drained - dropped)
      = SubSeq(written, dropped + k + 1, drained)
  BY <1>0, <1>1, EndOfPart
<1>5. dropped + k + 1 = Larger(m, drained - CAP) + 1 BY <1>2
<1> QED BY <1>3, <1>4, <1>5 DEF Window

\* What the app has printed stays as it was.
LEMMA AppendKeeps ==
    ASSUME NEW s \in Seq(Entry), NEW x \in Entry
    PROVE  /\ Append(s, x) \in Seq(Entry)
           /\ Len(Append(s, x)) = Len(s) + 1
           /\ \A i \in 1 .. Len(s) : Append(s, x)[i] = s[i]
OBVIOUS

LEMMA AppendPart ==
    ASSUME NEW s \in Seq(Entry), NEW x \in Entry,
           NEW d \in Nat, NEW e \in Nat, d <= e, e <= Len(s)
    PROVE  SubSeq(Append(s, x), d + 1, e) = SubSeq(s, d + 1, e)
<1>1. CASE d = e BY <1>1, SubSeqEmpty
<1>2. CASE d # e
  <2>1. d + 1 \in 1 .. Len(s) /\ e \in 1 .. Len(s) BY <1>2
  <2>2. << x >> \in Seq(Entry) /\ Append(s, x) = s \o << x >> OBVIOUS
  <2>3. SubSeq(s \o << x >>, d + 1, e) = SubSeq(s, d + 1, e)
    BY <2>1, <2>2, SubSeqOfConcat1
  <2> QED BY <2>2, <2>3
<1> QED BY <1>1, <1>2

\* The drain moves the window along.
LEMMA DrainMovesWindow ==
    ASSUME Window, Noted, DrainStderr
    PROVE  Window' /\ Noted'
<1> USE ReplayAssumption
<1>1. PICK n \in 1 .. Len(written) - drained :
         /\ Push(SubSeq(written, drained + 1, drained + n))
         /\ drained' = drained + n
  BY DEF DrainStderr
<1>2. written' = written /\ mark' = mark /\ readAtMark' = readAtMark
  BY DEF DrainStderr, runVars, markVars
<1>3. /\ dropped \in Nat /\ dropped <= drained /\ drained \in Nat
      /\ Len(written) \in Nat /\ written \in Seq(Entry)
      /\ dropped = Larger(drained - CAP, 0)
      /\ buf = SubSeq(written, dropped + 1, drained)
  BY WindowLength DEF Window
<1> DEFINE e == drained + n
           part == SubSeq(written, drained + 1, e)
           all == SubSeq(written, dropped + 1, e)
           excess == Larger(Len(all) - CAP, 0)
<1>4. e \in Nat /\ drained <= e /\ dropped <= e /\ e <= Len(written) /\ drained' = e
  BY <1>1, <1>3
<1>5. buf' = SubSeq(buf \o part, Larger(Len(buf \o part) - CAP, 0) + 1, Len(buf \o part))
      /\ dropped' = dropped + Larger(Len(buf \o part) - CAP, 0)
  BY <1>1 DEF Push
<1> HIDE DEF e
<1>6. buf \o part = all
  <2>1. /\ dropped + 1 \in 1 .. Len(written) + 1
        /\ drained \in (dropped + 1) - 1 .. Len(written)
        /\ e \in drained .. Len(written)
    BY <1>3, <1>4
  <2>2. SubSeq(written, dropped + 1, drained) \o SubSeq(written, drained + 1, e)
        = SubSeq(written, dropped + 1, e)
    BY <1>3, <2>1, ConcatAdjacentSubSeq
  <2> QED BY <1>3, <2>2
<1>7. Len(all) = e - dropped BY <1>3, <1>4, PartLength
<1> HIDE DEF part
<1>8. /\ excess \in 0 .. e - dropped
      /\ dropped + excess = Larger(e - CAP, 0)
  BY <1>3, <1>4, <1>7 DEF Larger
<1>9. SubSeq(SubSeq(written, dropped + 1, e), excess + 1, e - dropped)
      = SubSeq(written, dropped + excess + 1, e)
  <2> HIDE DEF all, excess
  <2> QED BY <1>3, <1>4, <1>8, EndOfPart
<1>10. buf' = SubSeq(written, dropped + excess + 1, e) /\ dropped' = dropped + excess
  BY <1>5, <1>6, <1>7, <1>9
<1> HIDE DEF all, excess
<1>11. dropped' = Larger(e - CAP, 0) /\ buf' = SubSeq(written, dropped' + 1, e)
  BY <1>8, <1>10
<1>12. Window' BY <1>2, <1>3, <1>4, <1>11 DEF Window
<1>13. Noted' BY <1>2, <1>3, <1>4 DEF Noted
<1> QED BY <1>12, <1>13

\* Printing leaves the window where it is.
LEMMA PrintKeepsWindow ==
    ASSUME Window, Noted, NEW x \in Entry, Emit(x)
    PROVE  Window' /\ Noted'
<1>1. written' = Append(written, x) /\ UNCHANGED bufVars /\ UNCHANGED markVars
  BY DEF Emit, runVars
<1>2. written \in Seq(Entry) /\ dropped \in Nat /\ dropped <= drained
      /\ drained \in Nat /\ drained <= Len(written)
  BY WindowLength DEF Window
<1>3. SubSeq(written', dropped + 1, drained) = SubSeq(written, dropped + 1, drained)
  BY <1>1, <1>2, AppendPart
<1>4. written' \in Seq(Entry) /\ Len(written') = Len(written) + 1
  BY <1>1, <1>2, AppendKeeps
<1>5. Window'
  <2>1. drained' = drained /\ buf' = buf /\ dropped' = dropped BY <1>1 DEF bufVars
  <2>2. dropped = Larger(drained - CAP, 0) /\ buf = SubSeq(written, dropped + 1, drained)
    BY DEF Window
  <2>3. buf' = SubSeq(written', dropped' + 1, drained') BY <1>3, <2>1, <2>2
  <2>4. dropped' = Larger(drained' - CAP, 0) BY <2>1, <2>2
  <2>5. Len(written) \in Nat BY <1>2
  <2>6. drained' \in 0 .. Len(written') BY <1>2, <1>4, <2>1, <2>5
  <2> QED BY <1>4, <2>3, <2>4, <2>6 DEF Window
<1>6. Noted' BY <1>1 DEF Noted, markVars, bufVars
<1> QED BY <1>5, <1>6

\* The engine's steps do not touch the buffer; one takes the mark.
LEMMA EngineKeepsWindow ==
    ASSUME Window, Noted, EngineStep
    PROVE  Window' /\ Noted'
<1>1. UNCHANGED bufVars /\ UNCHANGED written
  BY DEF EngineStep, Booted, BootTimeout, Fail, TakeMark, Answer, NoAnswer, Poll,
         Find, Settle, GiveUp, Snapshot, Judge, RunParent
<1>2. Window' BY <1>1 DEF Window, bufVars
<1>3. CASE TakeMark
  <2>1. Mark = drained /\ drained \in Nat BY WindowLength
  <2>2. mark' = drained /\ readAtMark' = drained BY <1>3, <2>1 DEF TakeMark
  <2> QED BY <1>1, <1>2, <2>1, <2>2 DEF Noted, bufVars
<1>4. CASE ~TakeMark
  <2>1. UNCHANGED markVars
    BY <1>4 DEF EngineStep, Booted, BootTimeout, Fail, Answer, NoAnswer, Poll,
           Find, Settle, GiveUp, Snapshot, Judge, RunParent
  <2> QED BY <1>1, <1>2, <2>1 DEF Noted, markVars, bufVars
<1> QED BY <1>3, <1>4

LEMMA ListeningInductive ==
    ASSUME Listening, [ReplayNext]_replayVars
    PROVE  Listening'
<1> USE DEF Listening
<1>1. CASE Chatter
  <2>1. PICK x \in Entry : Emit(x) BY <1>1 DEF Chatter
  <2> QED BY <2>1, PrintKeepsWindow
<1>2. CASE LogsFailure
  <2>1. "own" \in Entry BY DEF Entry
  <2> QED BY <1>2, <2>1, PrintKeepsWindow DEF LogsFailure
<1>3. CASE DrainStderr BY <1>3, DrainMovesWindow
<1>4. CASE EngineStep BY <1>4, EngineKeepsWindow
<1>5. CASE UNCHANGED replayVars
  BY <1>5 DEF replayVars, bufVars, runVars, markVars, Window, Noted
<1> QED BY <1>1, <1>2, <1>3, <1>4, <1>5 DEF ReplayNext

LEMMA ListeningAtStart ==
    ASSUME ReplayInit
    PROVE  Listening
<1> USE ReplayAssumption
<1>1. written = << >> /\ drained = 0 /\ dropped = 0 /\ buf = << >>
      /\ mark = 0 /\ readAtMark = 0
  BY DEF ReplayInit
<1>2. Larger(0 - CAP, 0) = 0 BY DEF Larger
<1>3. SubSeq(written, 0 + 1, 0) = << >> BY SubSeqEmpty
<1>4. written \in Seq(Entry) /\ Len(written) = 0 BY <1>1
<1> QED BY <1>1, <1>2, <1>3, <1>4 DEF Listening, Window, Noted

\* What the engine reads is exactly what was drained after its mark, short of
\* what the cap evicted, however often the buffer overflows: an offset taken
\* before an eviction keeps its meaning (StderrBuf::mark and since).
THEOREM ReadsAfterItsMark == ReplaySpec => []SinceIsExact
<1>1. ReplayInit => Listening BY ListeningAtStart
<1>2. Listening /\ [ReplayNext]_replayVars => Listening' BY ListeningInductive
<1>3. Listening => SinceIsExact
  <2> SUFFICES ASSUME Listening PROVE SinceIsExact OBVIOUS
  <2>1. Window /\ mark = readAtMark /\ readAtMark \in 0 .. drained
    BY DEF Listening, Noted
  <2> QED BY <2>1, ReadFrom DEF SinceIsExact
<1> QED BY <1>1, <1>2, <1>3, PTL DEF ReplaySpec

-----------------------------------------------------------------------------
\* What has been printed after a place stays so.
LEMMA PrintingOnly ==
    ASSUME Window, NEW x \in Entry, Emit(x), NEW n \in Nat, NEW E, PrintedAfter(n, E)
    PROVE  PrintedAfter(n, E)'
<1>1. written \in Seq(Entry) /\ Len(written) \in Nat BY DEF Window
<1>2. written' = Append(written, x) BY DEF Emit
<1>3. PICK i \in n + 1 .. Len(written) : written[i] \in E BY DEF PrintedAfter
<1>4. Len(written') = Len(written) + 1 /\ \A k \in 1 .. Len(written) : written'[k] = written[k]
  BY <1>1, <1>2, AppendKeeps
<1>5. i \in 1 .. Len(written) /\ i \in n + 1 .. Len(written') BY <1>1, <1>3, <1>4
<1>6. written'[i] \in E BY <1>3, <1>4, <1>5
<1> QED BY <1>5, <1>6 DEF PrintedAfter

LEMMA PrintKeepsJudging ==
    ASSUME Listening, Judging, NEW x \in Entry, Emit(x)
    PROVE  Judging'
<1>1. UNCHANGED runVars /\ names' = names BY DEF Emit
<1>2. readAtMark \in Nat BY WindowLength DEF Listening, Noted
<1>3. NothingYet' BY <1>1 DEF Judging, NothingYet, runVars
<1>4. EvidenceIsLater'
  <2> SUFFICES ASSUME NEW i \in 1 .. Len(evidence)
               PROVE  PrintedAfter(readAtMark, {evidence[i]})'
    BY <1>1 DEF EvidenceIsLater, runVars
  <2>1. PrintedAfter(readAtMark, {evidence[i]}) BY DEF Judging, EvidenceIsLater
  <2>2. UNCHANGED <<readAtMark, evidence>> BY <1>1 DEF runVars, markVars
  <2>3. \E j \in readAtMark + 1 .. Len(written') : written'[j] \in {evidence[i]}
    BY <1>2, <2>1, PrintingOnly DEF Listening, PrintedAfter
  <2> QED BY <2>2, <2>3 DEF PrintedAfter
<1>5. RestsOnTrace'
  <2>1. UNCHANGED <<readAtMark, verdict, names>> BY <1>1 DEF runVars, markVars
  <2>2. ASSUME verdict = "reproduced", ~names
        PROVE  \E j \in readAtMark + 1 .. Len(written') : written'[j] \in {"same", "own"}
    BY <1>2, <2>2, PrintingOnly DEF Judging, RestsOnTrace, Listening, PrintedAfter
  <2> QED BY <2>1, <2>2 DEF RestsOnTrace, PrintedAfter
<1> QED BY <1>3, <1>4, <1>5 DEF Judging

\* What is read after the mark was printed after the mark.
LEMMA SnapshotIsLater ==
    ASSUME Listening, Snapshot
    PROVE  EvidenceIsLater'
<1> USE ReplayAssumption
<1>0. /\ drained \in Nat /\ drained <= Len(written) /\ Len(written) \in Nat
      /\ written \in Seq(Entry) /\ mark = readAtMark /\ readAtMark \in 0 .. drained
  BY WindowLength DEF Listening, Window, Noted
<1> DEFINE k == Larger(mark, drained - CAP)
<1>1. k \in Nat /\ k >= readAtMark BY <1>0, LargerProperties DEF Larger
<1>2. evidence' = SubSeq(written, k + 1, drained)
  BY <1>0, ReadFrom DEF Snapshot, Listening
<1>3. UNCHANGED <<written, readAtMark>> BY DEF Snapshot, markVars
<1> HIDE DEF k
<1>4. \A j \in k + 1 .. drained : written[j] \in Entry BY <1>0, <1>1
<1>5. /\ Len(evidence') = IF k + 1 <= drained THEN drained - (k + 1) + 1 ELSE 0
      /\ \A i \in 1 .. drained - (k + 1) + 1 : evidence'[i] = written[(k + 1) + i - 1]
  BY <1>0, <1>1, <1>2, <1>4, SubSeqProperties
<1>6. ASSUME NEW i \in 1 .. Len(evidence')
      PROVE  \E j \in readAtMark + 1 .. Len(written) : written[j] \in {evidence'[i]}
  <2>1. i \in 1 .. drained - (k + 1) + 1 BY <1>0, <1>1, <1>5
  <2>2. k + i \in readAtMark + 1 .. Len(written) /\ (k + 1) + i - 1 = k + i
    BY <1>0, <1>1, <2>1
  <2>3. written[k + i] = evidence'[i] BY <1>5, <2>1, <2>2
  <2> QED BY <2>2, <2>3
<1> QED BY <1>3, <1>6 DEF EvidenceIsLater, PrintedAfter

LEMMA EngineKeepsJudging ==
    ASSUME Listening, Judging, EngineStep
    PROVE  Judging'
<1>0. UNCHANGED <<written, names>>
  BY DEF EngineStep, Booted, BootTimeout, Fail, TakeMark, Answer, NoAnswer, Poll,
         Find, Settle, GiveUp, Snapshot, Judge, RunParent, appVars
<1>1. CASE Booted
  BY <1>1, <1>0 DEF Booted, Judging, NothingYet, EvidenceIsLater, RestsOnTrace,
       PrintedAfter, markVars
<1>2. CASE TakeMark
  <2>1. evidence' = << >> /\ verdict' = "none" /\ phase' = "marked"
    BY <1>2 DEF TakeMark, Judging, NothingYet
  <2> QED BY <2>1 DEF Judging, NothingYet, EvidenceIsLater, RestsOnTrace
<1>3. CASE BootTimeout \/ NoAnswer
  BY <1>3, <1>0 DEF BootTimeout, NoAnswer, Fail, Judging, NothingYet, EvidenceIsLater,
       RestsOnTrace, PrintedAfter, markVars
<1>4. CASE Answer \/ Poll \/ Find \/ RunParent
  BY <1>4, <1>0 DEF Answer, Poll, Find, RunParent, Judging, NothingYet, EvidenceIsLater,
       RestsOnTrace, PrintedAfter, markVars
<1>5. CASE Settle \/ GiveUp
  <2>1. Snapshot BY <1>5 DEF Settle, GiveUp
  <2>2. EvidenceIsLater' BY <2>1, SnapshotIsLater
  <2>3. phase' = "judging" /\ UNCHANGED <<readAtMark, verdict>>
    BY <2>1 DEF Snapshot, markVars
  <2>4. NothingYet' BY <2>3 DEF NothingYet
  <2>5. RestsOnTrace' BY <1>0, <2>3 DEF Judging, RestsOnTrace, PrintedAfter
  <2> QED BY <2>2, <2>4, <2>5 DEF Judging
<1>6. CASE Judge
  <2>1. phase' \in {"parent", "done"} /\ UNCHANGED <<readAtMark, evidence>>
    BY <1>6 DEF Judge, markVars
  <2>2. NothingYet' BY <2>1 DEF NothingYet
  <2>3. EvidenceIsLater' BY <1>0, <2>1 DEF Judging, EvidenceIsLater, PrintedAfter
  <2>4. ASSUME verdict' = "reproduced", ~names'
        PROVE  PrintedAfter(readAtMark, {"same", "own"})
    <3>1. Recognised /\ ~names BY <1>0, <1>6, <2>4 DEF Judge
    <3>2. Matches(evidence) BY <3>1 DEF Recognised
    <3>3. PICK i \in 1 .. Len(evidence) : evidence[i] \in {"same", "own"}
      BY <3>2 DEF Matches
    <3>4. PICK j \in readAtMark + 1 .. Len(written) : written[j] \in {evidence[i]}
      BY DEF Judging, EvidenceIsLater, PrintedAfter
    <3> QED BY <3>3, <3>4 DEF PrintedAfter
  <2>5. RestsOnTrace' BY <1>0, <2>1, <2>4 DEF RestsOnTrace, PrintedAfter
  <2> QED BY <2>2, <2>3, <2>5 DEF Judging
<1> QED BY <1>1, <1>2, <1>3, <1>4, <1>5, <1>6 DEF EngineStep

LEMMA JudgingInductive ==
    ASSUME Listening, Judging, [ReplayNext]_replayVars
    PROVE  Judging'
<1>1. CASE Chatter
  <2>1. PICK x \in Entry : Emit(x) BY <1>1 DEF Chatter
  <2> QED BY <2>1, PrintKeepsJudging
<1>2. CASE LogsFailure
  <2>1. "own" \in Entry BY DEF Entry
  <2> QED BY <1>2, <2>1, PrintKeepsJudging DEF LogsFailure
<1>3. CASE DrainStderr \/ UNCHANGED replayVars
  <2>1. UNCHANGED <<runVars, written, names>>
    BY <1>3 DEF DrainStderr, replayVars, appVars
  <2> QED BY <2>1 DEF Judging, NothingYet, EvidenceIsLater, RestsOnTrace, PrintedAfter,
            runVars, markVars
<1>4. CASE EngineStep BY <1>4, EngineKeepsJudging
<1> QED BY <1>1, <1>2, <1>3, <1>4 DEF ReplayNext

\* "Reproduced" rests on a trace the app printed after the replay began,
\* whenever the drain had caught up with the app when the mark was taken.
THEOREM ReproductionIsOfTheReplay == ReplaySpec => []ReproducedByNewTrace
<1>1. ReplayInit => Listening /\ Judging
  <2> SUFFICES ASSUME ReplayInit PROVE Judging BY ListeningAtStart
  <2>1. evidence = << >> /\ verdict = "none" BY DEF ReplayInit
  <2> QED BY <2>1 DEF Judging, NothingYet, EvidenceIsLater, RestsOnTrace
<1>2. Listening /\ Judging /\ [ReplayNext]_replayVars => (Listening /\ Judging)'
  BY ListeningInductive, JudgingInductive
<1>3. Judging => ReproducedByNewTrace BY DEF Judging, RestsOnTrace, ReproducedByNewTrace
<1> QED BY <1>1, <1>2, <1>3, PTL DEF ReplaySpec

-----------------------------------------------------------------------------
\* A repair attempt.  The strengthening: until the agent runs the checkout is the
\* commit's, what is known of its tests is what that commit says, and from the commit
\* on the branch holds what the checks are run on.
Later == {"commit", "boot", "replay", "health", "tests"}
Checking == {"boot", "replay", "health", "tests"}

\* The tests of the attributed commit are what the agent's are compared with.
ComparesWithBase ==
    /\ at \in {"start", "script", "baseline", "agent"} => dir = base
    /\ at \in {"baseline", "agent"} \cup Later => before = base.package
    /\ (at \in {"agent"} \cup Later /\ before \in Declared) =>
           /\ baseline.known /\ baseline.files = base.tests
           /\ baseline.counted => baseline.total = Total(base)

\* While it is going on there is nothing of its tests to claim, and nothing reported.
StillOpen ==
    /\ at # "ended" => (outcome = "none" /\ \A c \in claims : c.what # "suite")
    /\ at \in Checking => branch = {Tracked(dir)}

RepairInv ==
    /\ base \in Checkout /\ dir \in Checkout /\ at \in At
    /\ \A f \in TestFile : base.tests[f] # Gone
    /\ ComparesWithBase /\ StillOpen

\* How many tests a checkout holds is a number, of its test files alone.
LEMMA TotalIsNat ==
    ASSUME NEW c \in Checkout
    PROVE  Total(c) \in Nat /\ Tracked(c).package = c.package
           /\ Tracked(c).tests = c.tests /\ Total(Tracked(c)) = Total(c)
<1> DEFINE held == [f \in TestFile |-> Holds(c, f)]
<1>1. c.tests \in [TestFile -> Gone .. MaxTests] /\ MaxTests \in Nat /\ IsFiniteSet(TestFile)
    BY RepairAssumption DEF Checkout
<1>2. held \in [TestFile -> Nat]
    <2>1. ASSUME NEW f \in TestFile PROVE Holds(c, f) \in Nat
        <3>1. c.tests[f] \in Gone .. MaxTests
            BY <1>1
        <3>2. QED  BY <1>1, <3>1 DEF Holds, Gone, Empty
    <2>2. QED  BY <2>1
<1>3. Tracked(c).package = c.package /\ Tracked(c).tests = c.tests
    BY DEF Tracked, Checkout
<1>4. held = [f \in TestFile |-> Holds(Tracked(c), f)]
    BY <1>3 DEF Holds
<1>5. Total(c) = SumFunction(held) /\ Total(Tracked(c)) = SumFunction(held)
    BY <1>4 DEF Total
<1> HIDE DEF held
<1>6. QED  BY <1>1, <1>2, <1>3, <1>5, SumIsNat

\* A repair called ready has a claim about the tests that were declared, and a verified
\* one leaves them as strong.
LEMMA SuiteKeepsStrength ==
    ASSUME RepairInv, RunSuite, at' = "ended", outcome' = "ready"
    PROVE  SuiteIsNoWeaker'
<1> SUFFICES ASSUME base.package \in Declared
             PROVE  /\ \E c \in claims' : c.what = "suite"
                    /\ Total(Tracked(dir)) >= Total(base) \/ ~Earned("suite")'
                    /\ Tracked(dir).package = base.package
                    /\ Earned("suite")' =>
                         \A f \in TestFile : base.tests[f] # Empty =>
                             Tracked(dir).tests[f] \notin {Gone, Empty}
    <2>1. UNCHANGED <<base, dir, branch>> /\ branch = {Tracked(dir)}
        BY DEF RunSuite, Unchecked, RepairInv, StillOpen, Checking
    <2>2. QED  BY <2>1 DEF SuiteIsNoWeaker, Earned
<1>1. at = "tests" /\ base.package = before /\ before \in Declared
      /\ baseline.known /\ baseline.files = base.tests
      /\ (baseline.counted => baseline.total = Total(base))
      /\ \A c \in claims : c.what # "suite"
    BY DEF RunSuite, RepairInv, ComparesWithBase, StillOpen, Later
<1>2. /\ Total(dir) \in Nat /\ Total(base) \in Nat
      /\ Tracked(dir).package = dir.package /\ Tracked(dir).tests = dir.tests
      /\ Total(Tracked(dir)) = Total(dir)
    BY TotalIsNat DEF RepairInv
<1>3. ~Refuse
    BY DEF Refuse, Fails, End
<1>4. dir.package = before /\ SuiteClaim
    BY <1>1, <1>3 DEF RunSuite, GateRemoved, ReadTestScript, Declared
<1>5. /\ ~Hollowed
      /\ \/ Earn("suite", "unresolved")
         \/ baseline.counted /\ ~(Total(dir) < baseline.total) /\ Earn("suite", "verified")
    BY <1>1, <1>3, <1>4 DEF SuiteClaim
<1>6. \A f \in TestFile : base.tests[f] # Empty => dir.tests[f] \notin {Gone, Empty}
    BY <1>1, <1>5 DEF Hollowed
<1>7. CASE Earn("suite", "unresolved")
    <2>1. claims' = claims \cup {[what |-> "suite", provenance |-> "unresolved"]}
        BY <1>7 DEF Earn
    <2>2. ~Earned("suite")'
        BY <1>1, <2>1 DEF Earned
    <2>3. \E c \in claims' : c.what = "suite"
        <3>1. [what |-> "suite", provenance |-> "unresolved"] \in claims'
            BY <2>1
        <3>2. QED  BY <3>1
    <2>4. QED  BY <1>1, <1>2, <1>4, <2>2, <2>3
<1>8. CASE baseline.counted /\ ~(Total(dir) < baseline.total) /\ Earn("suite", "verified")
    <2>1. Total(dir) >= Total(base)
        BY <1>1, <1>2, <1>8
    <2>2. \E c \in claims' : c.what = "suite"
        <3>1. [what |-> "suite", provenance |-> "verified"] \in claims'
            BY <1>8 DEF Earn
        <3>2. QED  BY <3>1
    <2>3. QED  BY <1>1, <1>2, <1>4, <1>6, <2>1, <2>2
<1>9. QED  BY <1>5, <1>7, <1>8

LEMMA RepairStep ==
    ASSUME RepairInv, RepairIsReviewable, [RepairNext]_repairVars
    PROVE  RepairInv' /\ RepairIsReviewable'
<1> USE DEF RepairInv, RepairIsReviewable, Later, Checking, At
<1>1. CASE CreateWorktree
    BY <1>1 DEF CreateWorktree, Fails, End, ComparesWithBase, StillOpen,
           SuiteIsNoWeaker, KeptIsNamed
<1>2. CASE ReadScript
    BY <1>2 DEF ReadScript, ReadTestScript, ComparesWithBase, StillOpen,
           SuiteIsNoWeaker, KeptIsNamed
<1>3. CASE CaptureBaseline
    <2>1. at = "baseline" /\ at' = "agent" /\ dir = base /\ before = base.package
          /\ UNCHANGED <<base, dir, before, claims, outcome, branch>>
        BY <1>3 DEF CaptureBaseline, ComparesWithBase
    <2>2. before \in Declared =>
              /\ baseline'.known /\ baseline'.files = base.tests
              /\ baseline'.counted => baseline'.total = Total(base)
        BY <1>3, <2>1 DEF CaptureBaseline
    <2>3. ComparesWithBase' /\ StillOpen'
        BY <2>1, <2>2 DEF ComparesWithBase, StillOpen, Total, Holds
    <2>4. QED  BY <2>1, <2>3 DEF SuiteIsNoWeaker, KeptIsNamed, StillOpen
<1>4. CASE RunAgent
    <2>1. at = "agent" /\ dir' \in Checkout /\ outcome = "none"
          /\ UNCHANGED <<base, replayable, litter, before, baseline, branch, claims>>
        BY <1>4 DEF RunAgent, AgentErrs, StillOpen
    <2>2. \/ Fails({"worktree"})
          \/ at' = "commit" /\ UNCHANGED <<onDisk, outcome, named>>
        BY <1>4 DEF RunAgent, AgentErrs
    <2>3. CASE Fails({"worktree"})
        BY <2>1, <2>3 DEF Fails, End, ComparesWithBase, StillOpen, SuiteIsNoWeaker, KeptIsNamed
    <2>4. CASE at' = "commit" /\ UNCHANGED <<onDisk, outcome, named>>
        <3>1. ComparesWithBase'
            BY <2>1, <2>4 DEF ComparesWithBase, Total, Holds
        <3>2. QED  BY <2>1, <2>4, <3>1 DEF StillOpen, SuiteIsNoWeaker, KeptIsNamed
    <2>5. QED  BY <2>2, <2>3, <2>4
<1>5. CASE Commit
    <2>1. at = "commit" /\ outcome = "none"
          /\ UNCHANGED <<base, dir, before, baseline, claims>>
        BY <1>5 DEF Commit, StillOpen
    <2>2. CASE branch' = {Tracked(dir)} /\ at' = "boot" /\ UNCHANGED <<onDisk, outcome, named>>
        <3>1. ComparesWithBase'
            BY <2>1, <2>2 DEF ComparesWithBase, Total, Holds
        <3>2. branch' = {Tracked(dir')}
            BY <2>1, <2>2
        <3>3. QED  BY <2>1, <2>2, <3>1, <3>2 DEF StillOpen, SuiteIsNoWeaker, KeptIsNamed
    <2>3. CASE Fails({"worktree"})
        BY <2>1, <2>3 DEF Fails, End, ComparesWithBase, StillOpen, SuiteIsNoWeaker, KeptIsNamed
    <2>4. QED  BY <1>5, <2>2, <2>3 DEF Commit
<1>6. CASE Boot \/ ReplayRequest \/ Health \/ RunSuite
    <2>1. at \in Checking /\ outcome = "none" /\ branch = {Tracked(dir)} /\ Unchecked
          /\ \A c \in claims : c.what # "suite"
        BY <1>6 DEF Boot, ReplayRequest, Health, RunSuite, Goes, StillOpen
    <2>2. \/ Refuse
          \/ /\ at' \in Checking /\ UNCHANGED <<onDisk, outcome, named>>
             /\ \A c \in claims' : c.what # "suite"
          \/ RunSuite /\ Finish
        BY <1>6, <2>1 DEF Boot, ReplayRequest, Health, RunSuite, Goes, Earn, SuiteClaim
    <2>3. UNCHANGED <<base, dir, before, baseline, branch>> /\ branch' = {Tracked(dir')}
        BY <2>1 DEF Unchecked
    <2>4. (before \in Declared =>
              /\ baseline.known /\ baseline.files = base.tests
              /\ baseline.counted => baseline.total = Total(base))
          /\ before = base.package
        BY <2>1 DEF ComparesWithBase
    <2>5. (before' \in Declared =>
              /\ baseline'.known /\ baseline'.files = base'.tests
              /\ baseline'.counted => baseline'.total = Total(base'))
          /\ before' = base'.package
        BY <2>3, <2>4
    <2>6. CASE Refuse
        BY <2>1, <2>3, <2>6 DEF Refuse, Fails, End, ComparesWithBase, StillOpen,
               SuiteIsNoWeaker, KeptIsNamed
    <2>7. CASE at' \in Checking /\ UNCHANGED <<onDisk, outcome, named>>
               /\ \A c \in claims' : c.what # "suite"
        <3>1. ComparesWithBase'
            BY <2>5, <2>7 DEF ComparesWithBase
        <3>2. QED  BY <2>1, <2>3, <2>7, <3>1 DEF StillOpen, SuiteIsNoWeaker, KeptIsNamed
    <2>8. CASE RunSuite /\ Finish
        <3>1. at' = "ended" /\ outcome' = "ready" /\ onDisk' = FALSE /\ named' = {}
            BY <2>8 DEF Finish, End
        <3>2. SuiteIsNoWeaker'
            BY <2>8, <3>1, SuiteKeepsStrength
        <3>3. RepairInv' /\ KeptIsNamed'
            BY <2>3, <3>1 DEF ComparesWithBase, StillOpen, KeptIsNamed
        <3>4. QED  BY <3>2, <3>3
    <2>9. QED  BY <2>2, <2>6, <2>7, <2>8
<1>7. CASE CancelRepair
    BY <1>7 DEF CancelRepair, End, ComparesWithBase, StillOpen, SuiteIsNoWeaker, KeptIsNamed
<1>8. CASE UNCHANGED repairVars
    BY <1>8 DEF repairVars, ComparesWithBase, StillOpen, SuiteIsNoWeaker, KeptIsNamed, Earned
<1>9. QED  BY <1>1, <1>2, <1>3, <1>4, <1>5, <1>6, <1>7, <1>8 DEF RepairNext

\* Whatever the agent does to the checkout: a repair called ready has not weakened the
\* tests that judged it, and a failed one names what it left (run_repair_pipeline).
THEOREM AttemptsAreReviewable == RepairSpec => []RepairIsReviewable
<1>1. RepairInit => RepairInv /\ RepairIsReviewable
    BY DEF RepairInit, RepairInv, At, ComparesWithBase, StillOpen, RepairIsReviewable,
           SuiteIsNoWeaker, KeptIsNamed, Later, Checking
<1>2. RepairInv /\ RepairIsReviewable /\ [RepairNext]_repairVars
          => RepairInv' /\ RepairIsReviewable'
    BY RepairStep
<1>3. QED  BY <1>1, <1>2, PTL DEF RepairSpec

-----------------------------------------------------------------------------
\* Repairs without a failure to replay.  The strengthening: a commit is checked again on
\* the branch its task owns, and what was proposed is remembered by where its task is.
OwnsItsBranch == \A t \in Task : work[t].at = "recheck" => branches[BranchOf(t)] = t

ProposedOnce ==
    \A t \in Task :
        /\ work[t].at = "proposed" => t \in proposed
        /\ t \in proposed => work[t].at \in {"proposed", "told", "dealt_with"}

IssueInv ==
    /\ IssueRepairTypeOK
    /\ OwnsItsBranch /\ ProposedOnce /\ ReadyIsReviewable

\* A task's step changes its own place, keeps its revision and leaves the others alone.
LEMMA MovesOne ==
    ASSUME IssueRepairTypeOK, NEW t \in Task, NEW from, NEW to, Moves(t, from, to)
    PROVE  /\ work[t].at = from /\ work'[t].at = to
           /\ work'[t] = [work[t] EXCEPT !.at = to]
           /\ \A u \in Task \ {t} : work'[u] = work[u]
           /\ \A u \in Task : BranchOf(u)' = BranchOf(u) /\ work'[u].after = work[u].after
BY DEF Moves, IssueRepairTypeOK, TaskState, BranchOf

LEMMA BranchIsOne ==
    ASSUME IssueRepairTypeOK, NEW t \in Task
    PROVE  BranchOf(t) \in RepairKind \X Revision
BY DEF IssueRepairTypeOK, TaskState, BranchOf

LEMMA TypesStay ==
    ASSUME IssueRepairTypeOK, IssueRepairNext
    PROVE  IssueRepairTypeOK'
<1> USE DEF IssueRepairTypeOK
<1>1. ASSUME NEW t \in Task, NEW from, NEW to \in Stage, Moves(t, from, to)
      PROVE  work' \in [Task -> TaskState]
    BY <1>1 DEF Moves, TaskState
<1>2. ASSUME NEW t \in Task, WorkOn(t)
      PROVE  IssueRepairTypeOK'
    <2>1. CASE Begin(t)
        <3>1. PICK way \in RepairKind, c \in Tree :
                work' = [work EXCEPT ![t] =
                   [kind |-> way, rev |-> head, before |-> c.tests, after |-> Untouched,
                    at |-> IF Worthwhile(way, c) THEN "agent" ELSE "declined"]]
            BY <2>1 DEF Begin
        <3>2. Untouched \in Tree /\ c.tests \in 0 .. MaxRunnable
            <4>1. c.tests \in 0 .. MaxRunnable
                BY DEF Tree
            <4>2. 0 \in 0 .. MaxRunnable
                BY IssueRepairAssumption
            <4>3. QED  BY <4>1, <4>2 DEF Tree, Untouched
        <3>3. UNCHANGED <<head, branches, proposed, thread>>
            BY <2>1 DEF Begin, toldVars
        <3>4. QED  BY <3>1, <3>2, <3>3 DEF TaskState, Stage
    <2>2. CASE AgentWorks(t)
        <3>1. PICK c \in Tree : work' = [work EXCEPT ![t] = [work[t] EXCEPT !.at = "commit", !.after = c]]
            BY <2>2 DEF AgentWorks
        <3>2. [work[t] EXCEPT !.at = "commit", !.after = c] \in TaskState
            BY DEF TaskState, Stage
        <3>3. UNCHANGED <<head, branches, proposed, thread>>
            BY <2>2 DEF AgentWorks, toldVars
        <3> HIDE DEF IssueRepairTypeOK
        <3>4. work' \in [Task -> TaskState]
            BY <3>1, <3>2 DEF IssueRepairTypeOK
        <3>5. QED  BY <3>3, <3>4 DEF IssueRepairTypeOK
    <2>3. CASE AgentFails(t)
        BY <1>1, <2>3 DEF AgentFails, toldVars, Stage
    <2>4. CASE CommitTree(t)
        BY <1>1, <2>4 DEF CommitTree, toldVars, Stage
    <2>5. CASE CommitTreeFails(t)
        BY <1>1, <2>5 DEF CommitTreeFails, toldVars, Stage
    <2>6. CASE Recheck(t)
        BY <1>1, <2>6 DEF Recheck, toldVars, Stage
    <2>7. CASE Propose(t)
        BY <1>1, <2>7 DEF Propose, Stage
    <2>8. CASE AnswerThread(t)
        <3>1. CommentOn(t) \in Comment
            BY DEF CommentOn, Passed, Comment
        <3>2. work' \in [Task -> TaskState]
            BY <2>8 DEF AnswerThread, TaskState, Stage
        <3>3. thread' \in [Task -> SUBSET Comment]
            BY <2>8, <3>1 DEF AnswerThread
        <3>4. QED  BY <2>8, <3>2, <3>3 DEF AnswerThread
    <2>9. QED  BY <1>2, <2>1, <2>2, <2>3, <2>4, <2>5, <2>6, <2>7, <2>8 DEF WorkOn
<1>3. CASE HeadMoves
    BY <1>3 DEF HeadMoves, toldVars
<1>4. ASSUME NEW b \in RepairKind \X Revision, DeleteBranch(b)
      PROVE  IssueRepairTypeOK'
    BY <1>4 DEF DeleteBranch, toldVars, TaskState, Stage
<1>5. QED  BY <1>2, <1>3, <1>4 DEF IssueRepairNext

\* A step that moves a task on, and takes no branch from its task nor touches what was told.
LEMMA MovingKeepsIssueInv ==
    ASSUME IssueInv, IssueRepairTypeOK', NEW t \in Task, NEW from, NEW to,
           Moves(t, from, to), UNCHANGED <<proposed, thread>>,
           \A u \in Task : branches[BranchOf(u)] = u => branches'[BranchOf(u)] = u,
           from \notin {"proposed", "told", "dealt_with"},
           to \notin {"recheck", "proposed", "unproposed", "told"},
           to = "ready" => from = "recheck" /\ Clears(work[t].after)
    PROVE  IssueInv'
<1>1. /\ work[t].at = from /\ work'[t].at = to
      /\ \A u \in Task \ {t} : work'[u] = work[u]
      /\ \A u \in Task : BranchOf(u)' = BranchOf(u) /\ work'[u].after = work[u].after
    BY MovesOne DEF IssueInv
<1>2. OwnsItsBranch'
    BY <1>1 DEF IssueInv, OwnsItsBranch
<1>3. ProposedOnce'
    BY <1>1 DEF IssueInv, ProposedOnce
<1>4. ASSUME NEW u \in Task, Repaired(u)'
      PROVE  /\ branches'[BranchOf(u)] = u
             /\ work[u].after.build # "fails" /\ work[u].after.test # "fails"
    BY <1>1, <1>4 DEF IssueInv, OwnsItsBranch, ReadyIsReviewable, Repaired, Clears
<1>5. ASSUME NEW u \in Task, NEW c \in thread[u]
      PROVE  /\ thread[u] = {c}
             /\ work'[u].at \in {"told", "dealt_with"}
             /\ \A script \in c.verified : work'[u].after[script] = "ok"
             /\ c.review <=> u \in proposed
             /\ "looks" \in c.unresolved
    BY <1>1 DEF IssueInv, ReadyIsReviewable
<1>6. ReadyIsReviewable'
    BY <1>1, <1>4, <1>5 DEF ReadyIsReviewable
<1>7. QED  BY <1>2, <1>3, <1>6 DEF IssueInv

LEMMA IssueStep ==
    ASSUME IssueInv, [IssueRepairNext]_issueRepairVars
    PROVE  IssueInv'
<1>1. CASE UNCHANGED issueRepairVars
    BY <1>1 DEF issueRepairVars, toldVars, IssueInv, IssueRepairTypeOK, OwnsItsBranch,
           ProposedOnce, ReadyIsReviewable, Repaired, BranchOf
<1> SUFFICES ASSUME IssueRepairNext PROVE IssueInv'
    BY <1>1
<1>2. IssueRepairTypeOK'
    BY TypesStay DEF IssueInv
<1>3. ASSUME NEW t \in Task, WorkOn(t)
      PROVE  IssueInv'
    <2>1. CASE Begin(t)
        <3>1. /\ work[t].at = "waiting" /\ work'[t].at \in {"agent", "declined"}
              /\ \A u \in Task \ {t} : work'[u] = work[u]
              /\ UNCHANGED <<branches, proposed, thread>>
            BY <2>1 DEF Begin, toldVars, IssueInv, IssueRepairTypeOK, TaskState
        <3>2. thread[t] = {} /\ t \notin proposed
            BY <3>1 DEF IssueInv, ProposedOnce, ReadyIsReviewable
        <3>3. \A u \in Task \ {t} : BranchOf(u)' = BranchOf(u)
            BY <3>1 DEF BranchOf
        <3>4. QED  BY <1>2, <3>1, <3>2, <3>3 DEF IssueInv, OwnsItsBranch, ProposedOnce,
                       ReadyIsReviewable, Repaired
    <2>2. CASE AgentWorks(t)
        <3>1. /\ work[t].at = "agent" /\ work'[t].at = "commit"
              /\ \A u \in Task \ {t} : work'[u] = work[u]
              /\ UNCHANGED <<branches, proposed, thread>>
            BY <2>2 DEF AgentWorks, toldVars, IssueInv, IssueRepairTypeOK, TaskState
        <3>2. thread[t] = {} /\ t \notin proposed
            BY <3>1 DEF IssueInv, ProposedOnce, ReadyIsReviewable
        <3>3. \A u \in Task \ {t} : BranchOf(u)' = BranchOf(u)
            BY <3>1 DEF BranchOf
        <3>4. QED  BY <1>2, <3>1, <3>2, <3>3 DEF IssueInv, OwnsItsBranch, ProposedOnce,
                       ReadyIsReviewable, Repaired
    <2>3. CASE AgentFails(t)
        <3>1. Moves(t, "agent", "failed") /\ UNCHANGED <<branches, proposed, thread>>
            BY <2>3 DEF AgentFails, toldVars
        <3>2. QED  BY <1>2, <3>1, MovingKeepsIssueInv
    <2>4. CASE CommitTree(t)
        <3>1. /\ work[t].at = "commit" /\ work'[t].at = "recheck"
              /\ \A u \in Task \ {t} : work'[u] = work[u]
              /\ \A u \in Task : BranchOf(u)' = BranchOf(u) /\ work'[u].after = work[u].after
              /\ UNCHANGED <<proposed, thread>>
            BY <2>4, MovesOne DEF CommitTree, toldVars, IssueInv
        <3>2. branches[BranchOf(t)] = NoTask /\ branches' = [branches EXCEPT ![BranchOf(t)] = t]
            BY <2>4 DEF CommitTree
        <3>3. branches'[BranchOf(t)] = t
            BY <3>2, BranchIsOne DEF IssueInv, IssueRepairTypeOK
        <3>4. ASSUME NEW u \in Task, branches[BranchOf(u)] = u
              PROVE  branches'[BranchOf(u)] = u
            <4>1. u # NoTask
                BY IssueRepairAssumption
            <4>2. BranchOf(u) # BranchOf(t)
                BY <3>2, <3>4, <4>1
            <4>3. QED  BY <3>2, <3>4, <4>2, BranchIsOne DEF IssueInv, IssueRepairTypeOK
        <3>5. OwnsItsBranch'
            BY <3>1, <3>3, <3>4 DEF IssueInv, OwnsItsBranch
        <3>6. ProposedOnce'
            BY <3>1 DEF IssueInv, ProposedOnce
        <3>7. \A u \in Task : Repaired(u)' => Repaired(u)
            BY <3>1 DEF Repaired
        <3>8. ReadyIsReviewable'
            BY <3>1, <3>4, <3>7 DEF IssueInv, ReadyIsReviewable
        <3>9. QED  BY <1>2, <3>5, <3>6, <3>8 DEF IssueInv
    <2>5. CASE CommitTreeFails(t)
        <3>1. Moves(t, "commit", "unbranched") /\ UNCHANGED <<proposed, thread>>
            BY <2>5 DEF CommitTreeFails, toldVars
        <3>2. ASSUME NEW u \in Task, branches[BranchOf(u)] = u
              PROVE  branches'[BranchOf(u)] = u
            <4>1. CASE UNCHANGED branches
                BY <3>2, <4>1
            <4>2. CASE /\ branches[BranchOf(t)] = NoTask
                       /\ branches' = [branches EXCEPT ![BranchOf(t)] = t]
                <5>1. BranchOf(u) # BranchOf(t)
                    BY <3>2, <4>2, IssueRepairAssumption
                <5>2. QED  BY <3>2, <4>2, <5>1, BranchIsOne DEF IssueInv, IssueRepairTypeOK
            <4>3. QED  BY <2>5, <4>1, <4>2 DEF CommitTreeFails
        <3>3. QED  BY <1>2, <3>1, <3>2, MovingKeepsIssueInv
    <2>6. CASE Recheck(t)
        <3>1. /\ \/ Clears(work[t].after) /\ Moves(t, "recheck", "ready")
                 \/ Moves(t, "recheck", "failed")
              /\ UNCHANGED <<branches, proposed, thread>>
            BY <2>6 DEF Recheck, toldVars
        <3>2. CASE Clears(work[t].after) /\ Moves(t, "recheck", "ready")
            BY <1>2, <3>1, <3>2, MovingKeepsIssueInv
        <3>3. CASE Moves(t, "recheck", "failed")
            BY <1>2, <3>1, <3>3, MovingKeepsIssueInv
        <3>4. QED  BY <3>1, <3>2, <3>3
    <2>7. CASE Propose(t)
        <3>1. /\ work[t].at = "ready"
              /\ \/ work'[t].at = "proposed" /\ proposed' = proposed \cup {t}
                 \/ work'[t].at = "unproposed" /\ proposed' = proposed
              /\ \A u \in Task \ {t} : work'[u] = work[u]
              /\ \A u \in Task : BranchOf(u)' = BranchOf(u) /\ work'[u].after = work[u].after
              /\ UNCHANGED <<branches, thread>>
            BY <2>7, MovesOne DEF Propose, IssueInv
        <3>2. thread[t] = {} /\ t \notin proposed
            BY <3>1 DEF IssueInv, ProposedOnce, ReadyIsReviewable
        <3>3. OwnsItsBranch' /\ ProposedOnce'
            BY <3>1, <3>2 DEF IssueInv, OwnsItsBranch, ProposedOnce
        <3>4. \A u \in Task : Repaired(u)' <=> Repaired(u)
            BY <3>1 DEF Repaired
        <3>5. \A u \in Task \ {t} : u \in proposed' <=> u \in proposed
            BY <3>1
        <3>6. ReadyIsReviewable'
            BY <3>1, <3>2, <3>4, <3>5 DEF IssueInv, ReadyIsReviewable
        <3>7. QED  BY <1>2, <3>3, <3>6 DEF IssueInv
    <2>8. CASE AnswerThread(t)
        <3>1. /\ work[t].at \in {"proposed", "unproposed"} /\ work'[t].at = "told"
              /\ \A u \in Task \ {t} : work'[u] = work[u] /\ thread'[u] = thread[u]
              /\ \A u \in Task : BranchOf(u)' = BranchOf(u) /\ work'[u].after = work[u].after
              /\ \/ thread'[t] = thread[t] \cup {CommentOn(t)}
                 \/ thread'[t] = thread[t]
              /\ UNCHANGED <<branches, proposed>>
            BY <2>8 DEF AnswerThread, IssueInv, IssueRepairTypeOK, TaskState, BranchOf
        <3>2. thread[t] = {} /\ (work[t].at = "proposed" <=> t \in proposed)
            BY <3>1 DEF IssueInv, ProposedOnce, ReadyIsReviewable
        <3>3. OwnsItsBranch' /\ ProposedOnce'
            BY <3>1, <3>2 DEF IssueInv, OwnsItsBranch, ProposedOnce
        <3>4. \A u \in Task : Repaired(u)' <=> Repaired(u)
            BY <3>1 DEF Repaired
        <3>5. ASSUME NEW c \in thread'[t]
              PROVE  /\ thread'[t] = {c}
                     /\ \A script \in c.verified : work[t].after[script] = "ok"
                     /\ c.review <=> t \in proposed
                     /\ "looks" \in c.unresolved
            <4>1. thread'[t] = {CommentOn(t)} /\ c = CommentOn(t)
                BY <3>1, <3>2, <3>5
            <4>2. c.verified = Passed(work[t].after) /\ (c.review <=> work[t].at = "proposed")
                  /\ c.unresolved = {"looks", "resolves"}
                BY <4>1 DEF CommentOn
            <4>3. QED  BY <3>2, <4>1, <4>2 DEF Passed
        <3>6. ReadyIsReviewable'
            BY <3>1, <3>4, <3>5 DEF IssueInv, ReadyIsReviewable
        <3>7. QED  BY <1>2, <3>3, <3>6 DEF IssueInv
    <2>9. QED  BY <1>3, <2>1, <2>2, <2>3, <2>4, <2>5, <2>6, <2>7, <2>8 DEF WorkOn
<1>4. CASE HeadMoves
    BY <1>2, <1>4 DEF HeadMoves, toldVars, IssueInv, OwnsItsBranch, ProposedOnce,
           ReadyIsReviewable, Repaired, BranchOf
<1>5. ASSUME NEW b \in RepairKind \X Revision, DeleteBranch(b)
      PROVE  IssueInv'
    <2> DEFINE o == branches[b]
    <2>1. /\ o \in Task /\ work[o].at \in {"told", "failed", "unbranched", "ready"}
          /\ work'[o].at = "dealt_with"
          /\ \A u \in Task \ {o} : work'[u] = work[u]
          /\ \A u \in Task : BranchOf(u)' = BranchOf(u) /\ work'[u].after = work[u].after
          /\ branches' = [branches EXCEPT ![b] = NoTask]
          /\ UNCHANGED <<proposed, thread>>
        BY <1>5 DEF DeleteBranch, toldVars, IssueInv, IssueRepairTypeOK, TaskState, BranchOf
    <2>2. ASSUME NEW u \in Task \ {o}, branches[BranchOf(u)] = u
          PROVE  branches'[BranchOf(u)] = u
        BY <2>1, <2>2, BranchIsOne DEF IssueInv, IssueRepairTypeOK
    <2>3. OwnsItsBranch' /\ ProposedOnce'
        BY <2>1, <2>2 DEF IssueInv, OwnsItsBranch, ProposedOnce
    <2>4. \A u \in Task : Repaired(u)' => Repaired(u) /\ u # o
        BY <2>1 DEF Repaired
    <2>5. ReadyIsReviewable'
        BY <2>1, <2>2, <2>4 DEF IssueInv, ReadyIsReviewable
    <2>6. QED  BY <1>2, <2>3, <2>5 DEF IssueInv
<1>6. QED  BY <1>3, <1>4, <1>5 DEF IssueRepairNext

\* What is reported as ready is on the branch it names, cleared its checks there, and the
\* person who reported it is told no more than that (repair_reported_issue, repair_reported).
THEOREM ReadyRepairsAreReviewable == IssueRepairSpec => []ReadyIsReviewable
<1>1. IssueRepairInit => IssueInv
    <2> SUFFICES ASSUME IssueRepairInit PROVE IssueInv
        OBVIOUS
    <2>1. IssueRepairTypeOK
        BY IssueRepairAssumption DEF IssueRepairInit, IssueRepairTypeOK, TaskState, Stage,
               RepairKind, Tree, Untouched
    <2>2. QED  BY <2>1 DEF IssueRepairInit, IssueInv, OwnsItsBranch, ProposedOnce,
                   ReadyIsReviewable, Repaired
<1>2. IssueInv /\ [IssueRepairNext]_issueRepairVars => IssueInv'
    BY IssueStep
<1>3. IssueInv => ReadyIsReviewable
    BY DEF IssueInv
<1>4. QED  BY <1>1, <1>2, <1>3, PTL DEF IssueRepairSpec

-----------------------------------------------------------------------------
\* The evidence of a job, at the gate.  The strengthening: what is delivered is of one
\* run; what was let through rests on a claim, and that run is spent when it ships.
Arrivals ==
    {NoOutcome} \cup UNION {LocalOutcomes(j) \cup {TimedOut(j)} \cup RemoteOutcomes(j) : j \in RemoteJob}
Supported(o) == \E claim \in o.claims : MaySupportAutonomy(claim, o.job)

PlaneInv ==
    /\ delivered \in [Delivery -> Arrivals]
    /\ gate \in [Delivery -> {"waiting", "eligible", "proposed", "shipped"}]
    /\ \A d \in Delivery :
          /\ gate[d] # "waiting" => delivered[d] # NoOutcome
          /\ gate[d] \in {"eligible", "shipped"} => Supported(delivered[d])
          /\ gate[d] = "shipped" => RunsOf(delivered[d]) \subseteq consumed

\* An outcome whose claims may support autonomy names no run, or the run that binds it:
\* never the run nobody attested.
LEMMA SupportedNamesItsRun ==
    ASSUME NEW o \in Arrivals, Supported(o)
    PROVE  RunsOf(o) \subseteq CiRun
<1>1. PICK claim \in o.claims : MaySupportAutonomy(claim, o.job)
    BY DEF Supported
<1>2. o # NoOutcome
    BY <1>1 DEF NoOutcome
<1>3. PICK j \in RemoteJob : o \in LocalOutcomes(j) \cup {TimedOut(j)} \cup RemoteOutcomes(j)
    BY <1>2 DEF Arrivals
<1>4. CASE o \in LocalOutcomes(j) \cup {TimedOut(j)}
    <2>1. \A c \in o.claims : c.attestation = Unattested
        BY <1>4 DEF LocalOutcomes, TimedOut, Firsthand
    <2>2. QED  BY <2>1 DEF RunsOf
<1>5. CASE o \in RemoteOutcomes(j)
    <2>1. PICK a \in Attestation \cup {Unattested} :
              o = [job |-> j, claims |-> {Remote("verified", a), Remote("observed", a)}]
        BY <1>5 DEF RemoteOutcomes
    <2>2. \A c \in o.claims : c.attestation = a /\ c.firsthand = FALSE
        BY <2>1 DEF Remote
    <2>3. a.run # "no_run"
        BY <1>1, <2>2 DEF MaySupportAutonomy, Binds
    <2>4. a.run \in CiRun
        BY <2>3 DEF Attestation, Unattested
    <2>5. QED  BY <2>2, <2>4 DEF RunsOf
<1>6. QED  BY <1>3, <1>4, <1>5

\* However many outcomes are decided at once and however often a run's is delivered,
\* the insertion into the registry lets one of them ship.
THEOREM OneShipPerRun == PlaneSpec => []RunShipsOnce
<1> DEFINE Inv == PlaneInv /\ RunShipsOnce
<1>1. PlaneInit => Inv
    BY DEF PlaneInit, PlaneInv, RunShipsOnce, Arrivals
<1>2. Inv /\ [PlaneNext]_planeVars => Inv'
    <2> SUFFICES ASSUME Inv, [PlaneNext]_planeVars PROVE Inv'
        OBVIOUS
    <2>1. ASSUME NEW d \in Delivery, Arrive(d) PROVE Inv'
        <3>1. PICK o \in Arrivals : delivered' = [delivered EXCEPT ![d] = o]
            BY <2>1 DEF Arrive, Arrivals
        <3>2. delivered[d] = NoOutcome /\ UNCHANGED <<gate, consumed>>
            BY <2>1 DEF Arrive
        <3>3. \A e \in Delivery : gate[e] # "waiting" => delivered'[e] = delivered[e]
            BY <3>1, <3>2 DEF PlaneInv
        <3>4. PlaneInv'
            <4>1. delivered' \in [Delivery -> Arrivals]
                BY <3>1 DEF PlaneInv
            <4>2. QED  BY <3>2, <3>3, <4>1 DEF PlaneInv, Supported, RunsOf
        <3>5. RunShipsOnce'
            BY <3>2, <3>3 DEF RunShipsOnce, RunsOf, Binds
        <3>6. QED  BY <3>4, <3>5
    <2>2. ASSUME NEW d \in Delivery, Decide(d) PROVE Inv'
        <3>1. UNCHANGED <<delivered, consumed>> /\ gate[d] = "waiting" /\ delivered[d] # NoOutcome
            BY <2>2 DEF Decide
        <3>2. \/ gate' = [gate EXCEPT ![d] = "proposed"]
              \/ gate' = [gate EXCEPT ![d] = "eligible"] /\ Supported(delivered[d])
            BY <2>2 DEF Decide, HasActionableClaim, Supported
        <3>3. \A e \in Delivery : gate'[e] = "shipped" <=> gate[e] = "shipped"
            BY <3>1, <3>2 DEF PlaneInv
        <3>4. PlaneInv'
            BY <3>1, <3>2 DEF PlaneInv, Supported, RunsOf
        <3>5. RunShipsOnce'
            BY <3>1, <3>3 DEF RunShipsOnce, RunsOf, Binds
        <3>6. QED  BY <3>4, <3>5
    <2>3. ASSUME NEW d \in Delivery, Consume(d) PROVE Inv'
        <3> DEFINE runs == RunsOf(delivered[d])
        <3>1. UNCHANGED delivered /\ gate[d] = "eligible" /\ consumed' = consumed \cup (runs \cap CiRun)
            BY <2>3 DEF Consume
        <3>2. Supported(delivered[d]) /\ runs \subseteq CiRun
            BY <3>1, SupportedNamesItsRun DEF PlaneInv
        <3>3. CASE runs \cap consumed = {}
            <4>1. gate' = [gate EXCEPT ![d] = "shipped"]
                BY <2>3, <3>3 DEF Consume
            <4>2. PlaneInv'
                BY <3>1, <3>2, <4>1 DEF PlaneInv, Supported, RunsOf
            <4>3. \A e \in Delivery \ {d} : gate'[e] = gate[e] /\ (gate[e] = "shipped" =>
                      RunsOf(delivered[e]) \subseteq consumed)
                BY <4>1 DEF PlaneInv
            <4>4. RunShipsOnce'
                <5> SUFFICES ASSUME NEW e \in Delivery, gate'[e] = "shipped"
                             PROVE  /\ Supported(delivered[e])
                                    /\ \A other \in Delivery \ {e} : gate'[other] = "shipped" =>
                                          RunsOf(delivered[other]) \cap RunsOf(delivered[e]) = {}
                    BY <3>1 DEF RunShipsOnce, Supported, MaySupportAutonomy, RunsOf, Binds
                <5>1. Supported(delivered[e])
                    BY <3>1, <4>2 DEF PlaneInv, Supported, MaySupportAutonomy, Binds
                <5>2. ASSUME NEW other \in Delivery \ {e}, gate'[other] = "shipped"
                      PROVE  RunsOf(delivered[other]) \cap RunsOf(delivered[e]) = {}
                    <6>1. CASE e = d
                        BY <3>3, <4>3, <5>2, <6>1
                    <6>2. CASE other = d
                        BY <3>3, <4>3, <5>2, <6>2
                    <6>3. CASE e # d /\ other # d
                        BY <4>3, <5>2, <6>3 DEF RunShipsOnce
                    <6>4. QED  BY <6>1, <6>2, <6>3
                <5>3. QED  BY <5>1, <5>2
            <4>5. QED  BY <4>2, <4>4
        <3>4. CASE runs \cap consumed # {}
            <4>1. gate' = [gate EXCEPT ![d] = "proposed"]
                BY <2>3, <3>4 DEF Consume
            <4>2. PlaneInv'
                BY <3>1, <4>1 DEF PlaneInv, Supported, RunsOf
            <4>3. RunShipsOnce'
                BY <3>1, <4>1 DEF PlaneInv, RunShipsOnce, RunsOf, Binds
            <4>4. QED  BY <4>2, <4>3
        <3>5. QED  BY <3>3, <3>4
    <2>4. CASE UNCHANGED planeVars
        BY <2>4 DEF planeVars, PlaneInv, RunShipsOnce, Supported, RunsOf, Binds
    <2>5. QED  BY <2>1, <2>2, <2>3, <2>4 DEF PlaneNext
<1>3. QED  BY <1>1, <1>2, PTL DEF PlaneSpec

-----------------------------------------------------------------------------
\* A command the engine waits for.  Who waits for a leader that runs has its output
\* read, so that a leader which could end is never stuck; who goes on left no leader,
\* and no helper but of a deploy.
ChildInv ==
    /\ ChildTypeOK
    /\ (leader = "running" /\ caller = "waiting") => drain = "reading"
    /\ caller # "waiting" => (caller = "collecting" \/ caller = "returned") /\ leader # "running"
    /\ (caller = "collecting" /\ kind = "test") => helper # "running"
    /\ (kind = "deploy" /\ helper = "killed") => leader = "killed"
    /\ CommandIsSettled

\* For any pipe, any output and any helper: a command that would end is never reported as
\* a timeout, no leader and no helper of an agent or a finished test outlives its caller,
\* and the service a deploy has started is not killed.
THEOREM CommandsAreSettled == ChildSpec => [](ChildTypeOK /\ CommandIsSettled)
<1>1. ChildInit => ChildInv
    BY ChildAssumption
    DEF ChildInit, ChildInv, ChildTypeOK, Kind, Process, CommandIsSettled,
        OnlyTheServiceOutlives, Alive
<1>2. ChildInv /\ [ChildNext]_childVars => ChildInv'
    <2> SUFFICES ASSUME ChildInv, [ChildNext]_childVars PROVE ChildInv'
        OBVIOUS
    <2> USE ChildAssumption
        DEF ChildInv, ChildTypeOK, Kind, Process, CommandIsSettled, OnlyTheServiceOutlives, Alive
    <2>1. CASE Write \/ Fork
        BY <2>1 DEF Write, Fork, CanWrite
    <2>2. CASE LeaderExits \/ HelperExits
        BY <2>2 DEF LeaderExits, HelperExits, CanExit
    <2>3. CASE Drain \/ DrainEnds
        BY <2>3 DEF Drain, DrainEnds, CanDrain
    <2>4. CASE WaitReturns
        BY <2>4 DEF WaitReturns, KillGroup, SpareGroup, Kill
    <2>5. CASE TimeOut
        <3>1. hangs
            <4>1. ~(pipe > 0)
                BY <2>5 DEF TimeOut, OutlastsTimeout, CanDrain
            <4>2. pipe < PIPE
                BY <4>1
            <4>3. writes = 0
                BY <2>5, <4>2 DEF TimeOut, OutlastsTimeout, CanWrite
            <4>4. QED  BY <2>5, <4>3 DEF TimeOut, OutlastsTimeout, CanExit
        <3>2. /\ leader' = "killed" /\ helper' \in Process /\ helper' # "running"
              /\ result' = "timeout" /\ UNCHANGED <<kind, hangs, writes, pipe>>
            BY <2>5 DEF TimeOut, OutlastsTimeout, KillGroup, Kill
        <3>3. /\ caller' = IF kind = "agent" THEN "collecting" ELSE "returned"
              /\ drain' \in {"reading", "ended"}
            BY <2>5 DEF TimeOut
        <3>4. QED  BY <3>1, <3>2, <3>3
    <2>6. CASE CollectEnds \/ GraceExpires
        BY <2>6 DEF CollectEnds, GraceExpires, Leave, KillGroup, SpareGroup, Kill
    <2>7. CASE Cancel
        BY <2>7 DEF Cancel, KillGroup, Kill
    <2>8. CASE UNCHANGED childVars
        BY <2>8 DEF childVars
    <2>9. QED  BY <2>1, <2>2, <2>3, <2>4, <2>5, <2>6, <2>7, <2>8 DEF ChildNext, CallerStep
<1>3. ChildInv => ChildTypeOK /\ CommandIsSettled
    BY DEF ChildInv
<1>4. QED  BY <1>1, <1>2, <1>3, PTL DEF ChildSpec

=============================================================================
