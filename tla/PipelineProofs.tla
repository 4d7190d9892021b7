--------------------------- MODULE PipelineProofs ---------------------------
(***************************************************************************)
(* For any number of failures, classes and lines, whichever faults happen  *)
(* and whatever a person does meanwhile: what the engine deploys by itself *)
(* had the whole chain behind it, and what came of it is on the record at  *)
(* most once (Pipeline!UnattendedIsEarned).  Of the events of such a task  *)
(* its two readers make cards that end, and the command that one offers is *)
(* refused in two cases only (Views!CardsComeToRest).  And what people and *)
(* agents are shown of the repairs is so: the commit under the pull        *)
(* request (Proposal), what became of each (Digest), and what the record   *)
(* commands list of the record (RecordReading).                            *)
(***************************************************************************)
EXTENDS MCPipeline, FoldProofs

Lad == [Class -> Standing]

\* What an authority line of the record says, one of the pipeline's or inherited.
LEMMA AuthorityLineSays ==
    ASSUME NEW line \in RecordLine, IsAuthority(line)
    PROVE  /\ line.class \in Class
           /\ line.kind # "authority_outcome" => line.kind = "authority_rung" /\ line.rung \in Rung
BY DEF RecordLine, IsAuthority, Line, OutcomeLines, RungLines, ReadyLines, ShippedLines,
       RevertedLines, ShipOutcomeLines

\* An outcome changes a standing to a standing, and never to act-alone.
LEMMA OutcomeFolds ==
    ASSUME NEW st \in Standing, NEW o
    PROVE  /\ FoldOutcome(st, o) \in Standing
           /\ FoldOutcome(st, o).rung = "act-alone" => st.rung = "act-alone"
<1>1. /\ st.rung \in Rung /\ st.streak + 1 \in Nat /\ st.total_clean + 1 \in Nat
      /\ st.total_bad + 1 \in Nat /\ st.earned_at \in {"none", "some"}
    BY DEF Standing
<1>2. CASE IsClean(o)
    BY <1>1, <1>2 DEF FoldOutcome, CleanFold, Standing
<1>3. CASE ~IsClean(o)
    BY <1>1, <1>3 DEF FoldOutcome, DemotedRung, Standing, Rung
<1>4. QED  BY <1>2, <1>3

\* A line gives a class act-alone only if it is a grant to that class.
LEMMA LoadLineGrants ==
    ASSUME NEW lad \in Lad, NEW line \in RecordLine
    PROVE  /\ LoadLine(lad, line) \in Lad
           /\ \A c \in Class : LoadLine(lad, line)[c].rung = "act-alone" =>
                  \/ lad[c].rung = "act-alone"
                  \/ line.kind = "authority_rung" /\ line.class = c /\ line.rung = "act-alone"
<1>1. CASE ~IsAuthority(line)
    BY <1>1 DEF LoadLine
<1>2. CASE IsAuthority(line) /\ line.kind = "authority_outcome"
    <2>1. line.class \in Class
        BY <1>2, AuthorityLineSays
    <2>2. lad[line.class] \in Standing
        BY <2>1 DEF Lad
    <2>3. LoadLine(lad, line) =
              [lad EXCEPT ![line.class] = FoldOutcome(lad[line.class], line.outcome)]
        BY <1>2, <2>1 DEF LoadLine, FoldLine, Lad
    <2>4. QED  BY <2>1, <2>2, <2>3, OutcomeFolds DEF Lad
<1>3. CASE IsAuthority(line) /\ line.kind # "authority_outcome"
    <2>1. line.class \in Class /\ line.kind = "authority_rung" /\ line.rung \in Rung
        BY <1>3, AuthorityLineSays
    <2>2. lad[line.class] \in Standing
        BY <2>1 DEF Lad
    <2>3. LoadLine(lad, line) = [lad EXCEPT ![line.class] = FoldRung(lad[line.class], line.rung)]
        BY <1>3, <2>1 DEF LoadLine, FoldLine, Lad
    <2>4. /\ FoldRung(lad[line.class], line.rung) \in Standing
          /\ FoldRung(lad[line.class], line.rung).rung = line.rung
        BY <2>1, <2>2 DEF FoldRung, Standing
    <2>5. QED  BY <2>1, <2>3, <2>4 DEF Lad
<1>4. QED  BY <1>1, <1>2, <1>3

\* The ladder is loaded a line at a time.
LEMMA LadderLoads ==
    ASSUME record \in Seq(RecordLine)
    PROVE  /\ LadderUpTo \in [0 .. Len(record) -> Lad]
           /\ LadderUpTo[0] = EmptyLadder
           /\ \A n \in 1 .. Len(record) :
                  LadderUpTo[n] = LoadLine(LadderUpTo[n - 1], record[n])
<1> DEFINE L == Len(record)
           step == [n \in 1 .. L |-> [lad \in Lad |-> LoadLine(lad, record[n])]]
           Eq(h) == h = [n \in 0 .. L |->
                            IF n = 0 THEN EmptyLadder ELSE LoadLine(h[n - 1], record[n])]
<1>1. L \in Nat /\ \A n \in 1 .. L : record[n] \in RecordLine
    OBVIOUS
<1>2. step \in [1 .. L -> [Lad -> Lad]]
    BY <1>1, LoadLineGrants
<1>3. EmptyLadder \in Lad
    BY DEF EmptyLadder, DefaultStanding, Standing, Rung, Lad
<1>4. PICK h : IsRecursion(h, L, Lad, EmptyLadder, step)
    <2> HIDE DEF step, L
    <2>1. QED  BY <1>1, <1>2, <1>3, RecursionExists
<1>5. \A n \in 0 .. L : n # 0 => n \in 1 .. L /\ n - 1 \in 0 .. L
    BY <1>1
<1>6. \A n \in 0 .. L : n # 0 => step[n][h[n - 1]] = LoadLine(h[n - 1], record[n])
    <2>1. \A n \in 0 .. L : n # 0 => h[n - 1] \in Lad
        <3> HIDE DEF step, L
        <3>1. QED  BY <1>4, <1>5 DEF IsRecursion
    <2>2. QED  BY <1>5, <2>1
<1>7. Eq(h)
    <2> HIDE DEF step
    <2>1. QED  BY <1>4, <1>6 DEF IsRecursion
<1>8. LadderUpTo = CHOOSE g : Eq(g)
    BY DEF LadderUpTo
<1>9. Eq(LadderUpTo)
    <2> HIDE DEF Eq
    <2>1. QED  BY <1>7, <1>8
<1>10. /\ LadderUpTo[0] = EmptyLadder
       /\ \A n \in 1 .. L : LadderUpTo[n] = LoadLine(LadderUpTo[n - 1], record[n])
    <2>1. 0 \in 0 .. L /\ \A n \in 1 .. L : n \in 0 .. L /\ n # 0
        BY <1>1
    <2>2. QED  BY <1>9, <2>1
<1>11. \A n \in 0 .. L : LadderUpTo[n] \in Lad
    <2> DEFINE g == LadderUpTo
               Odd == {n \in 0 .. L : g[n] \notin Lad}
    <2>0. g[0] = EmptyLadder /\ \A n \in 1 .. L : g[n] = LoadLine(g[n - 1], record[n])
        BY <1>10
    <2> HIDE DEF g
    <2>1. Odd = {}
        <3> SUFFICES ASSUME Odd # {} PROVE FALSE
            OBVIOUS
        <3>1. PICK n \in Odd : \A m \in Odd : n <= m
            <4>1. Odd \in SUBSET Nat
                BY <1>1
            <4> HIDE DEF Odd
            <4>2. QED  BY <4>1, LeastNat
        <3>2. n # 0
            BY <2>0, <1>3, <3>1
        <3>3. n \in 1 .. L /\ n - 1 \in 0 .. L /\ ~(n <= n - 1)
            BY <1>1, <3>1, <3>2
        <3>4. g[n - 1] \in Lad
            BY <3>1, <3>3
        <3>5. QED  BY <2>0, <1>1, <3>1, <3>3, <3>4, LoadLineGrants
    <2>2. \A n \in 0 .. L : g[n] \in Lad
        BY <2>1
    <2>3. QED  BY <2>2 DEF g
<1>12. LadderUpTo = [n \in 0 .. L |-> LadderUpTo[n]]
    <2> DEFINE g == LadderUpTo
               body(lad) == [n \in 0 .. L |->
                   IF n = 0 THEN EmptyLadder ELSE LoadLine(lad[n - 1], record[n])]
    <2>1. g = body(g)
        BY <1>9
    <2>2. body(g) = [n \in 0 .. L |-> body(g)[n]]
        OBVIOUS
    <2> HIDE DEF g, body
    <2>3. g = [n \in 0 .. L |-> g[n]]
        BY <2>1, <2>2
    <2>4. QED  BY <2>3 DEF g
<1>13. QED
    <2> DEFINE g == LadderUpTo
    <2>1. g = [n \in 0 .. L |-> g[n]] /\ \A n \in 0 .. L : g[n] \in Lad
        BY <1>11, <1>12
    <2> HIDE DEF g
    <2>2. g \in [0 .. L -> Lad]
        BY <2>1
    <2>3. QED  BY <1>10, <2>2 DEF g

\* A class holds act-alone only if a line of the record grants it.
LEMMA ActAloneIsGranted ==
    ASSUME record \in Seq(RecordLine), NEW c \in Class
    PROVE  /\ RungOf(c) \in Rung
           /\ RungOf(c) = "act-alone" => Grants(c) # {}
<1> DEFINE g == LadderUpTo
           L == Len(record)
           Alone == {n \in 0 .. L : g[n][c].rung = "act-alone"}
<1>1. /\ g \in [0 .. L -> Lad]
      /\ g[0] = EmptyLadder
      /\ \A n \in 1 .. L : g[n] = LoadLine(g[n - 1], record[n])
    BY LadderLoads
<1>2. L \in Nat /\ DOMAIN record = 1 .. L /\ \A n \in 1 .. L : record[n] \in RecordLine
    OBVIOUS
<1>3. RungOf(c) = g[L][c].rung
    BY DEF RungOf, LadderNow
<1> HIDE DEF g, L
<1>4. L \in 0 .. L
    BY <1>2
<1>5. g[L][c] \in Standing
    BY <1>1, <1>4 DEF Lad
<1>6. RungOf(c) \in Rung
    BY <1>3, <1>5 DEF Standing
<1>7. ASSUME RungOf(c) = "act-alone" PROVE Grants(c) # {}
    <2>1. L \in Alone /\ Alone \in SUBSET Nat
        <3>1. \A n \in 0 .. L : n \in Nat
            BY <1>2
        <3>2. QED  BY <1>3, <1>4, <1>7, <3>1
    <2>2. PICK n \in Alone : \A m \in Alone : n <= m
        <3> HIDE DEF Alone
        <3>1. Alone # {}
            BY <2>1
        <3>2. QED  BY <2>1, <3>1, LeastNat
    <2>3. n # 0
        BY <1>1, <2>2 DEF EmptyLadder, DefaultStanding
    <2>4. n \in 1 .. L /\ n - 1 \in 0 .. L /\ ~(n <= n - 1)
        BY <1>2, <2>2, <2>3
    <2>5. g[n - 1] \in Lad /\ g[n - 1][c].rung # "act-alone"
        BY <1>1, <2>2, <2>4
    <2>6. LoadLine(g[n - 1], record[n])[c].rung = "act-alone"
        BY <1>1, <2>2, <2>4
    <2>7. /\ record[n].kind = "authority_rung" /\ record[n].class = c
          /\ record[n].rung = "act-alone"
        BY <1>2, <2>4, <2>5, <2>6, LoadLineGrants
    <2>8. n \in Grants(c)
        BY <1>2, <2>4, <2>7 DEF Grants
    <2>9. QED  BY <2>8
<1>8. QED  BY <1>6, <1>7

-----------------------------------------------------------------------------
\* What came of a failure is only said when its task is done, and for good only of
\* what the engine deployed, which it has while it goes from one to the other.
Accounted(g) ==
    /\ OutcomesOf(g) # {} => task[g] \in {"reopened", "ended"}
    /\ \A i, j \in OutcomesOf(g) : i = j
    /\ \A i \in OutcomesOf(g) : record[i].outcome = "shipped_clean" => g \in unattended
    /\ task[g] \in {"deploying", "deployed", "shipped"} => g \in unattended

\* The chain behind a deploy without a person is put together while its task goes on,
\* and no part of it is taken away again.
Chained(g) ==
    /\ g \in Replayable /\ task[g] \in {"repairing", "committed", "verified", "ready", "shipping"} =>
           g \in reproduced
    /\ task[g] = "shipping" =>
           /\ Mode = "auto" /\ g \in Replayable
           /\ "verified" \in claims[g] /\ Grants(ClassOf[g]) # {}
    /\ g \in unattended =>
           /\ task[g] \in {"deploying", "deployed", "shipped", "failed", "reopened", "ended"}
           /\ Mode = "auto" /\ g \in Replayable \cap reproduced
           /\ "verified" \in claims[g] /\ Has("repair_ready", g) /\ Grants(ClassOf[g]) # {}

PipelineInv == TypeOK /\ \A g \in Failure : Accounted(g) /\ Chained(g)

-----------------------------------------------------------------------------
\* The tasks and the operator only ever add lines: what was on the record stays where
\* it was, and what is new is one of the lines added.
LEMMA Extended ==
    ASSUME NEW ext \in Seq(RecordLine), record \in Seq(RecordLine), record' = record \o ext
    PROVE  /\ record' \in Seq(RecordLine)
           /\ \A i \in DOMAIN record : i \in DOMAIN record' /\ record'[i] = record[i]
           /\ \A i \in DOMAIN record' : i \notin DOMAIN record =>
                  \E k \in DOMAIN ext : i = Len(record) + k /\ record'[i] = ext[k]
<1>1. /\ Len(record) \in Nat /\ Len(ext) \in Nat
      /\ DOMAIN record = 1 .. Len(record) /\ DOMAIN ext = 1 .. Len(ext)
    OBVIOUS
<1>2. /\ DOMAIN (record \o ext) = 1 .. Len(record) + Len(ext)
      /\ \A i \in 1 .. Len(record) + Len(ext) :
             (record \o ext)[i] = IF i <= Len(record) THEN record[i] ELSE ext[i - Len(record)]
    OBVIOUS
<1>3. record' \in Seq(RecordLine)
    OBVIOUS
<1>4. \A i \in DOMAIN record : i \in DOMAIN record' /\ record'[i] = record[i]
    BY <1>1, <1>2
<1>5. ASSUME NEW i \in DOMAIN record', i \notin DOMAIN record
      PROVE  \E k \in DOMAIN ext : i = Len(record) + k /\ record'[i] = ext[k]
    <2>1. i - Len(record) \in DOMAIN ext /\ i = Len(record) + (i - Len(record))
        BY <1>1, <1>2, <1>5
    <2>2. record'[i] = ext[i - Len(record)]
        BY <1>1, <1>2, <1>5
    <2>3. QED  BY <2>1, <2>2
<1>6. QED  BY <1>3, <1>4, <1>5

\* What the chain behind a deploy reads of the record, once there, is there for good.
RecordKeeps ==
    /\ record' \in Seq(RecordLine)
    /\ \A c \in Class : Grants(c) # {} => Grants(c)' # {}
    /\ \A g \in Failure : Has("repair_ready", g) => Has("repair_ready", g)'

\* A step that says nothing of what came of a failure.
Untold(g) ==
    /\ OutcomesOf(g)' = OutcomesOf(g)
    /\ \A i \in OutcomesOf(g) : record'[i] = record[i]

LEMMA KeptByAdding ==
    ASSUME NEW ext \in Seq(RecordLine), record \in Seq(RecordLine), record' = record \o ext
    PROVE  /\ RecordKeeps
           /\ \A g \in Failure : OutcomesOf(g) \subseteq OutcomesOf(g)'
<1>1. /\ record' \in Seq(RecordLine)
      /\ \A i \in DOMAIN record : i \in DOMAIN record' /\ record'[i] = record[i]
    BY Extended
<1>2. ASSUME NEW c \in Class, Grants(c) # {} PROVE Grants(c)' # {}
    <2>1. PICK i \in DOMAIN record :
              record[i].kind = "authority_rung" /\ record[i].class = c /\ record[i].rung = "act-alone"
        BY <1>2 DEF Grants
    <2>2. i \in Grants(c)'
        BY <1>1, <2>1 DEF Grants
    <2>3. QED  BY <2>2
<1>3. ASSUME NEW g \in Failure, Has("repair_ready", g) PROVE Has("repair_ready", g)'
    <2>1. PICK i \in DOMAIN record : record[i].kind \in {"repair_ready"} /\ record[i].failure = g
        BY <1>3 DEF Has, LinesOf
    <2>2. i \in LinesOf({"repair_ready"}, g)'
        BY <1>1, <2>1 DEF LinesOf
    <2>3. QED  BY <2>2 DEF Has
<1>4. ASSUME NEW g \in Failure, NEW i \in OutcomesOf(g) PROVE i \in OutcomesOf(g)'
    BY <1>1 DEF OutcomesOf
<1>5. QED  BY <1>1, <1>2, <1>3, <1>4 DEF RecordKeeps

\* Lines that are no outcome say nothing of what came of any failure.
LEMMA UntoldByAdding ==
    ASSUME NEW ext \in Seq(RecordLine), record \in Seq(RecordLine), record' = record \o ext,
           NEW g \in Failure,
           \A k \in DOMAIN ext : ~ /\ ext[k].kind = "authority_outcome"
                                   /\ "failure" \in DOMAIN ext[k]
                                   /\ ext[k].failure = g
    PROVE  Untold(g)
<1>1. /\ \A i \in DOMAIN record : i \in DOMAIN record' /\ record'[i] = record[i]
      /\ \A i \in DOMAIN record' : i \notin DOMAIN record =>
             \E k \in DOMAIN ext : i = Len(record) + k /\ record'[i] = ext[k]
    BY Extended
<1>2. OutcomesOf(g) \subseteq OutcomesOf(g)'
    BY KeptByAdding
<1>3. ASSUME NEW i \in OutcomesOf(g)' PROVE i \in OutcomesOf(g)
    BY <1>1 DEF OutcomesOf
<1>4. \A i \in OutcomesOf(g) : record'[i] = record[i]
    BY <1>1 DEF OutcomesOf
<1>5. QED  BY <1>2, <1>3, <1>4 DEF Untold

LEMMA SameRecord ==
    ASSUME record \in Seq(RecordLine), UNCHANGED record
    PROVE  RecordKeeps /\ \A g \in Failure : Untold(g)
BY DEF RecordKeeps, Untold, Grants, Has, LinesOf, OutcomesOf

\* A best-effort append adds some of the lines it was given, from the first on.
LEMMA BestEffortAdds ==
    ASSUME NEW f \in Failure, NEW added \in Seq(RecordLine), record \in Seq(RecordLine),
           cut \subseteq Failure, BestEffort(f, added)
    PROVE  /\ cut' \subseteq Failure
           /\ \E ext \in Seq(RecordLine) :
                 /\ record' = record \o ext
                 /\ \A k \in DOMAIN ext : k \in DOMAIN added /\ ext[k] = added[k]
<1>1. PICK n \in 0 .. Len(added) :
          /\ record' = record \o SubSeq(added, 1, n)
          /\ cut' = IF n < Len(added) THEN cut \cup {f} ELSE cut
    BY DEF BestEffort
<1>2. Len(added) \in Nat /\ DOMAIN added = 1 .. Len(added)
    OBVIOUS
<1>3. /\ SubSeq(added, 1, n) \in Seq(RecordLine)
      /\ DOMAIN SubSeq(added, 1, n) = 1 .. n
      /\ \A k \in 1 .. n : SubSeq(added, 1, n)[k] = added[k]
    BY <1>2
<1>4. \A k \in 1 .. n : k \in DOMAIN added
    BY <1>2
<1>5. QED  BY <1>1, <1>3, <1>4

\* A step of one failure's task leaves the others as they are.
Apart(g) ==
    /\ task'[g] = task[g]
    /\ claims'[g] = claims[g]
    /\ g \in unattended' <=> g \in unattended
    /\ g \in reproduced => g \in reproduced'

LEMMA OthersStay ==
    ASSUME TypeOK, NEW g \in Failure, Accounted(g), Chained(g), RecordKeeps, Untold(g), Apart(g)
    PROVE  Accounted(g)' /\ Chained(g)'
<1>1. ClassOf[g] \in Class
    BY PipelineAssumption
<1>2. Accounted(g)'
    BY DEF Accounted, Untold, Apart
<1>3. Chained(g)'
    BY <1>1 DEF Chained, Apart, RecordKeeps
<1>4. QED  BY <1>2, <1>3
LEMMA OneTaskSteps ==
    ASSUME PipelineInv, TypeOK', RecordKeeps,
           NEW f \in Failure, Accounted(f)', Chained(f)',
           \A g \in Failure \ {f} : Untold(g) /\ Apart(g)
    PROVE  PipelineInv'
<1>1. ASSUME NEW g \in Failure, g # f PROVE Accounted(g)' /\ Chained(g)'
    BY <1>1, OthersStay DEF PipelineInv
<1>2. QED  BY <1>1 DEF PipelineInv

LEMMA Gone ==
    ASSUME TypeOK, NEW f \in Failure, NEW from, NEW to \in Stage, GoTo(f, from, to)
    PROVE  /\ task' \in [Failure -> Stage]
           /\ task[f] = from /\ task'[f] = to
           /\ \A g \in Failure \ {f} : task'[g] = task[g]
BY DEF GoTo, TypeOK

\* The steps that add nothing to the record and deploy nothing.
QuietStep(f) ==
    \/ Detect(f) \/ Attribute(f) \/ Reproduce(f) \/ SkipReproduction(f) \/ Repair(f)
    \/ Verify(f) \/ Decide(f) \/ Deploy(f)

\* The gate sends a failure on to be shipped only when the class holds act-alone, by
\* the operator's leave and by the record, and its request and its repair are good.
LEMMA GateOpens ==
    ASSUME TypeOK, NEW f \in Failure,
           ShipDecision(Effective(f), f \in Replayable, "verified" \in claims[f]) = "may_ship"
    PROVE  /\ Mode = "auto" /\ f \in Replayable /\ "verified" \in claims[f]
           /\ Grants(ClassOf[f]) # {}
<1>1. f \in Replayable /\ "verified" \in claims[f] /\ Effective(f) = "act-alone"
    BY Zenon DEF ShipDecision
<1>2. ClassOf[f] \in Class
    BY PipelineAssumption
<1>3. /\ RungOf(ClassOf[f]) \in Rung
      /\ RungOf(ClassOf[f]) = "act-alone" => Grants(ClassOf[f]) # {}
    BY <1>2, ActAloneIsGranted DEF TypeOK
<1>4. Ceiling = "act-alone" /\ RungOf(ClassOf[f]) = "act-alone"
    <2>1. Ceiling \in {"propose", "act-alone"}
        BY DEF Ceiling
    <2>2. \A a \in {"propose", "act-alone"}, b \in Rung :
              MinRung(a, b) = "act-alone" => a = "act-alone" /\ b = "act-alone"
        BY DEF MinRung, Level, Rung
    <2>3. QED  BY <1>1, <1>3, <2>1, <2>2 DEF Effective
<1>5. Mode = "auto"
    BY <1>4 DEF Ceiling
<1>6. QED  BY <1>1, <1>3, <1>4, <1>5

LEMMA QuietType ==
    ASSUME TypeOK, NEW f \in Failure, QuietStep(f)
    PROVE  /\ TypeOK' /\ UNCHANGED <<record, unattended, cut>>
           /\ \A g \in Failure \ {f} : Apart(g)
           /\ reproduced \subseteq reproduced'
<1> DEFINE Goal == /\ TypeOK' /\ UNCHANGED <<record, unattended, cut>>
                   /\ \A g \in Failure \ {f} : Apart(g)
                   /\ reproduced \subseteq reproduced'
<1> USE DEF TypeOK, GoTo, Stage, Apart
<1>1. CASE Detect(f)      BY <1>1 DEF Detect
<1>2. CASE Attribute(f)   BY <1>2 DEF Attribute
<1>3. CASE Reproduce(f)   BY <1>3 DEF Reproduce
<1>4. CASE SkipReproduction(f)   BY <1>4 DEF SkipReproduction
<1>5. CASE Repair(f)      BY <1>5 DEF Repair
<1>6. CASE Verify(f)
    <2>1. CASE /\ GoTo(f, "committed", "verified")
               /\ \E test \in {{}, {"verified"}, {"unresolved"}} :
                     claims' = [claims EXCEPT ![f] =
                         {"verified", IF f \in Replayable THEN "verified"
                                                          ELSE "unresolved"} \cup test]
        <3>1. PICK test \in {{}, {"verified"}, {"unresolved"}} :
                     claims' = [claims EXCEPT ![f] =
                         {"verified", IF f \in Replayable THEN "verified"
                                                          ELSE "unresolved"} \cup test]
            BY <2>1
        <3>2. claims' \in [Failure -> SUBSET Provenance]
            BY <3>1 DEF Provenance
        <3>3. QED  BY <1>6, <2>1, <3>1, <3>2 DEF Verify
    <2>2. CASE GoTo(f, "committed", "ended") /\ UNCHANGED claims
        BY <1>6, <2>2 DEF Verify
    <2>3. QED  BY <1>6, <2>1, <2>2 DEF Verify
<1>7. CASE Decide(f)      BY <1>7 DEF Decide
<1>8. CASE Deploy(f)      BY <1>8 DEF Deploy
<1>9. QED  BY <1>1, <1>2, <1>3, <1>4, <1>5, <1>6, <1>7, <1>8 DEF QuietStep

LEMMA QuietKeeps ==
    ASSUME PipelineInv, NEW f \in Failure, QuietStep(f)
    PROVE  PipelineInv'
<1>1. /\ TypeOK' /\ UNCHANGED <<record, unattended, cut>>
      /\ \A g \in Failure \ {f} : Apart(g)
      /\ reproduced \subseteq reproduced'
    BY QuietType DEF PipelineInv
<1>2. RecordKeeps /\ \A g \in Failure : Untold(g)
    BY <1>1, SameRecord DEF PipelineInv, TypeOK
<1>3. OutcomesOf(f)' = OutcomesOf(f) /\ Has("repair_ready", f)' = Has("repair_ready", f)
      /\ Grants(ClassOf[f])' = Grants(ClassOf[f])
    BY <1>1 DEF OutcomesOf, Has, LinesOf, Grants
<1>4. Accounted(f) /\ Chained(f) /\ TypeOK
    BY DEF PipelineInv
<1>5. Accounted(f)'
    <2>1. /\ task[f] \notin {"shipped", "failed", "reopened", "ended"}
          /\ task'[f] \in {"deploying", "deployed", "shipped"} =>
                 task[f] \in {"deploying", "deployed", "shipped"}
        BY <1>4 DEF QuietStep, Detect, Attribute, Reproduce, SkipReproduction, Repair, Verify,
                    Decide, Deploy, GoTo, TypeOK
    <2>2. OutcomesOf(f)' = {}
        BY <1>3, <1>4, <2>1 DEF Accounted
    <2>3. QED  BY <1>1, <1>4, <2>1, <2>2 DEF Accounted
<1>6. Chained(f)'
    <2>1. CASE Detect(f) \/ Attribute(f)
        BY <1>1, <1>4, <2>1 DEF Detect, Attribute, Chained, GoTo, TypeOK
    <2>2. CASE Reproduce(f)
        BY <1>1, <1>4, <2>2 DEF Reproduce, Chained, GoTo, TypeOK
    <2>3. CASE SkipReproduction(f)
        BY <1>1, <1>4, <2>3 DEF SkipReproduction, Chained, GoTo, TypeOK
    <2>4. CASE Repair(f)
        BY <1>1, <1>4, <2>4 DEF Repair, Chained, GoTo, TypeOK
    <2>5. CASE Verify(f)
        BY <1>1, <1>4, <2>5 DEF Verify, Chained, GoTo, TypeOK
    <2>6. CASE Decide(f)
        <3>1. CASE task'[f] = "shipping"
            <4>1. ShipDecision(Effective(f), f \in Replayable, "verified" \in claims[f]) = "may_ship"
                BY <1>4, <2>6, <3>1 DEF Decide, GoTo, TypeOK
            <4>2. /\ Mode = "auto" /\ f \in Replayable /\ "verified" \in claims[f]
                  /\ Grants(ClassOf[f]) # {}
                BY <1>4, <4>1, GateOpens
            <4>3. task[f] = "ready" /\ UNCHANGED <<claims, reproduced>>
                BY <2>6 DEF Decide, GoTo
            <4>4. QED  BY <1>1, <1>3, <1>4, <3>1, <4>2, <4>3 DEF Chained
        <3>2. CASE task'[f] = "ended"
            BY <1>1, <1>3, <1>4, <2>6, <3>2 DEF Decide, Chained, GoTo
        <3>3. QED  BY <1>4, <2>6, <3>1, <3>2 DEF Decide, GoTo, TypeOK
    <2>7. CASE Deploy(f)
        BY <1>1, <1>3, <1>4, <2>7 DEF Deploy, Chained, Accounted, GoTo, TypeOK
    <2>8. QED  BY <2>1, <2>2, <2>3, <2>4, <2>5, <2>6, <2>7 DEF QuietStep
<1>7. QED  BY <1>1, <1>2, <1>5, <1>6, OneTaskSteps
\* repair_ready and shipped are written beside the stage they stand for.
LEMMA NotedKeeps ==
    ASSUME PipelineInv, NEW f \in Failure, Ready(f) \/ AppendShipped(f)
    PROVE  PipelineInv'
<1> DEFINE ready == [kind |-> "repair_ready", failure |-> f]
           shipped == [kind |-> "shipped", failure |-> f]
<1>1. PICK line \in {ready, shipped} :
          /\ BestEffort(f, <<line>>)
          /\ UNCHANGED <<reproduced, claims, unattended>>
          /\ \/ GoTo(f, "verified", "ready")
             \/ GoTo(f, "deployed", "shipped")
    BY DEF Ready, AppendShipped
<1>2. line \in RecordLine /\ line.kind # "authority_outcome"
    BY DEF RecordLine, ReadyLines, ShippedLines
<1>3. TypeOK /\ Accounted(f) /\ Chained(f)
    BY DEF PipelineInv
<1>4. /\ task' \in [Failure -> Stage]
      /\ \/ task[f] = "verified" /\ task'[f] = "ready"
         \/ task[f] = "deployed" /\ task'[f] = "shipped"
      /\ \A g \in Failure \ {f} : task'[g] = task[g]
    BY <1>1, <1>3, Gone DEF Stage
<1>5. <<line>> \in Seq(RecordLine) /\ \A k \in DOMAIN <<line>> : <<line>>[k] = line
    BY <1>2
<1>6. PICK ext \in Seq(RecordLine) :
          /\ record' = record \o ext
          /\ \A k \in DOMAIN ext : k \in DOMAIN <<line>> /\ ext[k] = <<line>>[k]
    <2> HIDE DEF ready, shipped
    <2>1. QED  BY <1>1, <1>3, <1>5, BestEffortAdds DEF TypeOK
<1>7. cut' \subseteq Failure
    <2> HIDE DEF ready, shipped
    <2>1. QED  BY <1>1, <1>3, <1>5, BestEffortAdds DEF TypeOK
<1>8. \A k \in DOMAIN ext : ext[k].kind # "authority_outcome"
    BY <1>2, <1>5, <1>6
<1>9. RecordKeeps /\ \A g \in Failure : Untold(g)
    BY <1>3, <1>6, <1>8, KeptByAdding, UntoldByAdding DEF TypeOK
<1>10. TypeOK'
    BY <1>1, <1>3, <1>4, <1>7, <1>9 DEF TypeOK, RecordKeeps
<1>11. ClassOf[f] \in Class
    BY PipelineAssumption
<1>12. Accounted(f)'
    BY <1>1, <1>3, <1>4, <1>9 DEF Accounted, Untold
<1>13. Chained(f)'
    BY <1>1, <1>3, <1>4, <1>9, <1>11 DEF Chained, Accounted, RecordKeeps
<1>14. \A g \in Failure \ {f} : Apart(g)
    BY <1>1, <1>4 DEF Apart
<1>15. QED  BY <1>9, <1>10, <1>12, <1>13, <1>14, OneTaskSteps

\* The deploy is begun only with the repair on record, by a task the gate let through.
LEMMA StartShipKeeps ==
    ASSUME PipelineInv, NEW f \in Failure, StartShip(f)
    PROVE  PipelineInv'
<1>1. TypeOK /\ Accounted(f) /\ Chained(f)
    BY DEF PipelineInv
<1>2. UNCHANGED <<record, reproduced, claims, cut>>
    BY DEF StartShip
<1>3. \/ /\ Has("repair_ready", f)
         /\ GoTo(f, "shipping", "deploying")
         /\ unattended' = unattended \cup {f}
      \/ /\ GoTo(f, "shipping", "failed")
         /\ UNCHANGED unattended
    BY DEF StartShip, Shippable
<1>4. /\ task' \in [Failure -> Stage]
      /\ task[f] = "shipping" /\ task'[f] \in {"deploying", "failed"}
      /\ task'[f] = "deploying" => Has("repair_ready", f)
      /\ unattended' = IF task'[f] = "deploying" THEN unattended \cup {f} ELSE unattended
      /\ \A g \in Failure \ {f} : task'[g] = task[g]
    BY <1>1, <1>3, Gone DEF Stage
<1>5. RecordKeeps /\ \A g \in Failure : Untold(g)
    BY <1>1, <1>2, SameRecord DEF TypeOK
<1>6. TypeOK'
    BY <1>1, <1>2, <1>4 DEF TypeOK
<1>7. OutcomesOf(f)' = {} /\ f \notin unattended
    BY <1>1, <1>4, <1>5 DEF Accounted, Chained, Untold
<1>8. ClassOf[f] \in Class
    BY PipelineAssumption
<1>9. Accounted(f)'
    BY <1>4, <1>7 DEF Accounted
<1>10. Chained(f)'
    BY <1>1, <1>2, <1>4, <1>5, <1>7, <1>8 DEF Chained, RecordKeeps
<1>11. \A g \in Failure \ {f} : Apart(g)
    BY <1>2, <1>4 DEF Apart
<1>12. QED  BY <1>5, <1>6, <1>9, <1>10, <1>11, OneTaskSteps

\* What came of a failure is one line, the first of those its task ends with.
LEMMA OutcomeIsOne ==
    ASSUME NEW ext \in Seq(RecordLine), record \in Seq(RecordLine), record' = record \o ext,
           NEW f \in Failure, OutcomesOf(f) = {}, NEW o,
           \A k \in DOMAIN ext :
               ext[k].kind = "authority_outcome" => k = 1 /\ ext[k] = ShipOutcome(f, o)
    PROVE  /\ \A g \in Failure \ {f} : Untold(g)
           /\ \A i, j \in OutcomesOf(f)' : i = j
           /\ \A i \in OutcomesOf(f)' : record'[i].outcome = o
<1>1. ShipOutcome(f, o).failure = f /\ ShipOutcome(f, o).outcome = o
    BY DEF ShipOutcome
<1>2. \A g \in Failure \ {f} : Untold(g)
    BY <1>1, UntoldByAdding
<1>3. /\ \A i \in DOMAIN record : i \in DOMAIN record' /\ record'[i] = record[i]
      /\ \A i \in DOMAIN record' : i \notin DOMAIN record =>
             \E k \in DOMAIN ext : i = Len(record) + k /\ record'[i] = ext[k]
    BY Extended
<1>4. ASSUME NEW i \in OutcomesOf(f)'
      PROVE  i = Len(record) + 1 /\ record'[i].outcome = o
    <2>1. i \notin DOMAIN record
        BY <1>3 DEF OutcomesOf
    <2>2. PICK k \in DOMAIN ext : i = Len(record) + k /\ record'[i] = ext[k]
        BY <1>3, <2>1 DEF OutcomesOf
    <2>3. k = 1 /\ ext[k] = ShipOutcome(f, o)
        BY <2>2 DEF OutcomesOf
    <2>4. QED  BY <1>1, <2>2, <2>3
<1>5. QED  BY <1>2, <1>4

\* Whatever came of the ship is recorded by the task that ends with it.
LEMMA RecordedKeeps ==
    ASSUME PipelineInv, NEW f \in Failure, RecordClean(f) \/ RecordFailed(f)
    PROVE  PipelineInv'
<1>1. TypeOK /\ Accounted(f) /\ Chained(f)
    BY DEF PipelineInv
<1>2. ClassOf[f] \in Class
    BY PipelineAssumption
<1>3. \A o \in Outcome : ShipOutcome(f, o) \in RecordLine
    BY <1>2 DEF ShipOutcome, RecordLine, ShipOutcomeLines
<1>4. /\ RungLine(ClassOf[f], "propose") \in RecordLine
      /\ RungLine(ClassOf[f], "propose").kind # "authority_outcome"
    BY <1>2 DEF RungLine, RecordLine, Line, RungLines, Rung
<1>5. PICK o \in Outcome, added \in Seq(RecordLine) :
          /\ BestEffort(f, added)
          /\ \A k \in DOMAIN added :
                 added[k].kind = "authority_outcome" => k = 1 /\ added[k] = ShipOutcome(f, o)
          /\ UNCHANGED <<reproduced, claims, unattended>>
          /\ \/ GoTo(f, "shipped", "reopened") /\ o = "shipped_clean"
             \/ GoTo(f, "failed", "ended") /\ o = "ship_failed"
    <2>0. {"shipped_clean", "ship_failed"} \subseteq Outcome
        BY DEF Outcome
    <2>1. CASE RecordClean(f)
        <3> DEFINE added == <<ShipOutcome(f, "shipped_clean")>>
        <3>1. added \in Seq(RecordLine)
            BY <1>3, <2>0
        <3>2. \A k \in DOMAIN added : k = 1 /\ added[k] = ShipOutcome(f, "shipped_clean")
            OBVIOUS
        <3>3. /\ BestEffort(f, added) /\ GoTo(f, "shipped", "reopened")
              /\ UNCHANGED <<reproduced, claims, unattended>>
            BY <2>1 DEF RecordClean
        <3> HIDE DEF added
        <3>4. QED  BY <2>0, <3>1, <3>2, <3>3
    <2>2. CASE RecordFailed(f)
        <3> DEFINE outcome == <<ShipOutcome(f, "ship_failed")>>
                   fell == IF RungOf(ClassOf[f]) = "act-alone"
                           THEN <<RungLine(ClassOf[f], "propose")>> ELSE << >>
        <3>1. outcome \o fell \in Seq(RecordLine)
            BY <1>3, <1>4, <2>0
        <3>2. \A k \in DOMAIN (outcome \o fell) :
                  (outcome \o fell)[k].kind = "authority_outcome" =>
                      k = 1 /\ (outcome \o fell)[k] = ShipOutcome(f, "ship_failed")
            <4>1. CASE fell = << >>
                BY <4>1
            <4>2. CASE fell = <<RungLine(ClassOf[f], "propose")>>
                <5> DEFINE a == ShipOutcome(f, "ship_failed")
                           b == RungLine(ClassOf[f], "propose")
                <5>1. a \in RecordLine /\ b \in RecordLine
                    BY <1>3, <1>4, <2>0
                <5>2. outcome \o fell = <<a>> \o <<b>>
                    BY <4>2
                <5> HIDE DEF a, b, outcome, fell
                <5>3. /\ DOMAIN (<<a>> \o <<b>>) = 1 .. 2
                      /\ (<<a>> \o <<b>>)[1] = a /\ (<<a>> \o <<b>>)[2] = b
                    BY <5>1
                <5>4. \A k \in 1 .. 2 : k = 1 \/ k = 2
                    OBVIOUS
                <5>5. \A k \in DOMAIN (outcome \o fell) :
                          \/ k = 1 /\ (outcome \o fell)[k] = a
                          \/ (outcome \o fell)[k] = b
                    BY <5>2, <5>3, <5>4
                <5>6. QED  BY <1>4, <5>5 DEF a, b
            <4>3. QED  BY <4>1, <4>2
        <3>3. /\ BestEffort(f, outcome \o fell) /\ GoTo(f, "failed", "ended")
              /\ UNCHANGED <<reproduced, claims, unattended>>
            BY <2>2 DEF RecordFailed
        <3> HIDE DEF outcome, fell
        <3>4. QED  BY <2>0, <3>1, <3>2, <3>3
    <2>3. QED  BY <2>1, <2>2
<1>6. /\ task' \in [Failure -> Stage]
      /\ \/ task[f] = "shipped" /\ task'[f] = "reopened" /\ o = "shipped_clean"
         \/ task[f] = "failed" /\ task'[f] = "ended" /\ o = "ship_failed"
      /\ \A g \in Failure \ {f} : task'[g] = task[g]
    BY <1>1, <1>5, Gone DEF Stage
<1>7. PICK ext \in Seq(RecordLine) :
          /\ record' = record \o ext
          /\ \A k \in DOMAIN ext : k \in DOMAIN added /\ ext[k] = added[k]
    BY <1>1, <1>5, BestEffortAdds DEF TypeOK
<1>8. cut' \subseteq Failure
    BY <1>1, <1>5, BestEffortAdds DEF TypeOK
<1>9. RecordKeeps
    BY <1>1, <1>7, KeptByAdding DEF TypeOK
<1>10. OutcomesOf(f) = {}
    BY <1>1, <1>6 DEF Accounted
<1>11. /\ \A g \in Failure \ {f} : Untold(g)
       /\ \A i, j \in OutcomesOf(f)' : i = j
       /\ \A i \in OutcomesOf(f)' : record'[i].outcome = o
    <2>1. \A k \in DOMAIN ext :
              ext[k].kind = "authority_outcome" => k = 1 /\ ext[k] = ShipOutcome(f, o)
        BY <1>5, <1>7
    <2>2. QED  BY <1>1, <1>7, <1>10, <2>1, OutcomeIsOne DEF TypeOK
<1>12. TypeOK'
    BY <1>1, <1>5, <1>6, <1>8, <1>9 DEF TypeOK, RecordKeeps
<1>13. Accounted(f)'
    BY <1>1, <1>5, <1>6, <1>11 DEF Accounted
<1>14. Chained(f)'
    BY <1>1, <1>2, <1>5, <1>6, <1>9 DEF Chained, Accounted, RecordKeeps
<1>15. \A g \in Failure \ {f} : Apart(g)
    BY <1>5, <1>6 DEF Apart
<1>16. QED  BY <1>9, <1>11, <1>12, <1>13, <1>14, <1>15, OneTaskSteps

\* The operator's own ship, revert, promote and demote add one line and touch no task.
LEMMA OperatorKeeps ==
    ASSUME PipelineInv,
           \/ \E f \in Failure : HumanShip(f) \/ HumanRevert(f)
           \/ \E c \in Class : HumanPromote(c) \/ HumanDemote(c)
    PROVE  PipelineInv'
<1>1. TypeOK
    BY DEF PipelineInv
<1>2. PICK line \in RecordLine :
          /\ line.kind # "authority_outcome"
          /\ record' = Append(record, line)
          /\ UNCHANGED <<task, reproduced, claims, unattended, cut>>
    <2>1. \A f \in Failure : [kind |-> "shipped", failure |-> f] \in RecordLine
        BY DEF RecordLine, ShippedLines
    <2>2. \A f \in Failure : [kind |-> "reverted", failure |-> f] \in RecordLine
        BY DEF RecordLine, RevertedLines
    <2>3. \A c \in Class, r \in {"act-alone", "propose"} :
              RungLine(c, r) \in RecordLine /\ RungLine(c, r).kind # "authority_outcome"
        BY DEF RungLine, RecordLine, Line, RungLines, Rung
    <2>4. CASE \E f \in Failure : HumanShip(f)
        BY <2>1, <2>4 DEF HumanShip
    <2>5. CASE \E f \in Failure : HumanRevert(f)
        BY <2>2, <2>5 DEF HumanRevert
    <2>6. CASE \E c \in Class : HumanPromote(c)
        BY <2>3, <2>6 DEF HumanPromote
    <2>7. CASE \E c \in Class : HumanDemote(c)
        BY <2>3, <2>7 DEF HumanDemote
    <2>8. QED  BY <2>4, <2>5, <2>6, <2>7
<1>3. /\ <<line>> \in Seq(RecordLine) /\ record' = record \o <<line>>
      /\ \A k \in DOMAIN <<line>> : <<line>>[k].kind # "authority_outcome"
    BY <1>1, <1>2 DEF TypeOK
<1>4. RecordKeeps /\ \A g \in Failure : Untold(g)
    BY <1>1, <1>3, KeptByAdding, UntoldByAdding DEF TypeOK
<1>5. TypeOK'
    BY <1>1, <1>2, <1>4 DEF TypeOK, RecordKeeps
<1>6. \A g \in Failure : Apart(g)
    BY <1>2 DEF Apart
<1>7. QED  BY <1>1, <1>4, <1>5, <1>6, OthersStay DEF PipelineInv

\* A crash ends every task where it is.
LEMMA CrashKeeps ==
    ASSUME PipelineInv, Crash
    PROVE  PipelineInv'
<1>1. /\ TypeOK /\ UNCHANGED <<record, reproduced, claims, unattended>>
      /\ task' = [f \in Failure |-> IF task[f] = "none" THEN "none" ELSE "ended"]
      /\ cut' \subseteq Failure
    BY DEF PipelineInv, Crash, TypeOK
<1>2. TypeOK'
    BY <1>1 DEF TypeOK, Stage
<1>3. RecordKeeps /\ \A g \in Failure : Untold(g)
    BY <1>1, SameRecord DEF TypeOK
<1>4. ASSUME NEW g \in Failure PROVE Accounted(g)' /\ Chained(g)'
    <2>1. Accounted(g) /\ Chained(g) /\ ClassOf[g] \in Class /\ Untold(g)
        BY <1>3, PipelineAssumption DEF PipelineInv
    <2>2. task'[g] \in {"none", "ended"} /\ (task'[g] = "none" => task[g] = "none")
        BY <1>1
    <2>3. Accounted(g)'
        BY <1>1, <2>1, <2>2 DEF Accounted, Untold
    <2>4. Chained(g)'
        BY <1>1, <1>3, <2>1, <2>2 DEF Chained, RecordKeeps
    <2>5. QED  BY <2>3, <2>4
<1>5. QED  BY <1>2, <1>4 DEF PipelineInv

LEMMA PipelineStarts == Init => PipelineInv
<1> SUFFICES ASSUME Init PROVE PipelineInv
    OBVIOUS
<1>1. InheritedRecord \in Seq(Line)
    BY PipelineAssumption
<1>2. \A i \in DOMAIN InheritedRecord :
          InheritedRecord[i] \in Line /\ InheritedRecord[i] \in RecordLine
    BY <1>1 DEF RecordLine
<1>3. record \in Seq(RecordLine)
    BY <1>1 DEF Init, RecordLine
<1>4. TypeOK
    BY <1>3 DEF Init, TypeOK, Stage
<1>5. \A g \in Failure : OutcomesOf(g) = {}
    <2>1. \A line \in Line : "failure" \notin DOMAIN line
        BY DEF Line, OutcomeLines, RungLines
    <2>2. QED  BY <1>2, <2>1 DEF Init, OutcomesOf
<1>6. \A g \in Failure : Accounted(g) /\ Chained(g)
    BY <1>5 DEF Init, Accounted, Chained
<1>7. QED  BY <1>4, <1>6 DEF PipelineInv

LEMMA PipelineSteps == PipelineInv /\ [Next]_vars => PipelineInv'
<1> SUFFICES ASSUME PipelineInv, [Next]_vars PROVE PipelineInv'
    OBVIOUS
<1>1. CASE UNCHANGED vars
    <2>1. TypeOK' /\ UNCHANGED record /\ \A g \in Failure : Apart(g)
        BY <1>1 DEF PipelineInv, vars, TypeOK, Apart
    <2>2. RecordKeeps /\ \A g \in Failure : Untold(g)
        BY <2>1, SameRecord DEF PipelineInv, TypeOK
    <2>3. QED  BY <2>1, <2>2, OthersStay DEF PipelineInv
<1>2. CASE \E f \in Failure : Detect(f) \/ Step(f)
    <2>1. PICK f \in Failure : Detect(f) \/ Step(f)
        BY <1>2
    <2>2. CASE QuietStep(f)
        BY <2>2, QuietKeeps
    <2>3. CASE Ready(f) \/ AppendShipped(f)
        BY <2>3, NotedKeeps
    <2>4. CASE StartShip(f)
        BY <2>4, StartShipKeeps
    <2>5. CASE RecordClean(f) \/ RecordFailed(f)
        BY <2>5, RecordedKeeps
    <2>6. QED  BY <2>1, <2>2, <2>3, <2>4, <2>5 DEF Step, QuietStep
<1>3. CASE \/ \E f \in Failure : HumanShip(f) \/ HumanRevert(f)
           \/ \E c \in Class : HumanPromote(c) \/ HumanDemote(c)
    BY <1>3, OperatorKeeps
<1>4. CASE Crash
    BY <1>4, CrashKeeps
<1>5. QED  BY <1>1, <1>2, <1>3, <1>4 DEF Next

LEMMA PipelineHolds == Spec => []PipelineInv
<1>1. QED  BY PipelineStarts, PipelineSteps, PTL DEF Spec

\* Whatever is on the record, and whatever the operator does meanwhile, the record stays
\* a record and every task at a stage of its own (the types of cli/src/engine.rs's tasks).
THEOREM TypeCorrect == Spec => []TypeOK
<1>1. PipelineInv => TypeOK
    BY DEF PipelineInv
<1>2. QED  BY <1>1, PipelineHolds, PTL

\* Whatever the engine deploys by itself (engine.rs, the ship decision) had consent, a
\* reproduction, a verified claim, the repair on record and a grant to its class; and its
\* outcome moves the ladder at most once, as clean only when the engine deployed it.
THEOREM EarnedUnattended == Spec => []UnattendedIsEarned
<1>1. ASSUME PipelineInv PROVE UnattendedIsEarned
    <2>1. UnattendedHasItsChain
        BY <1>1 DEF PipelineInv, Chained, UnattendedHasItsChain, TypeOK
    <2>2. ASSUME NEW f \in Failure PROVE Cardinality(OutcomesOf(f)) <= 1
        <3>1. \A i, j \in OutcomesOf(f) : i = j
            BY <1>1 DEF PipelineInv, Accounted
        <3>2. CASE OutcomesOf(f) = {}
            BY <3>2, FS_EmptySet
        <3>3. CASE OutcomesOf(f) # {}
            <4>1. PICK i : OutcomesOf(f) = {i}
                BY <3>1, <3>3
            <4>2. Cardinality({i}) = 1
                BY FS_Singleton
            <4>3. QED  BY <4>1, <4>2
        <3>4. QED  BY <3>2, <3>3
    <2>3. OneOutcomePerFailure
        BY <1>1, <2>2 DEF PipelineInv, Accounted, OneOutcomePerFailure
    <2>4. QED  BY <2>1, <2>3 DEF UnattendedIsEarned
<1>2. QED  BY <1>1, PipelineHolds, PTL

-----------------------------------------------------------------------------
What == {"detected", "attributed", "attribution_missing", "attribution_errored",
         "reproducing", "reproduced", "not_reproduced", "repro_failed", "skipped",
         "repairing", "dispatched", "awaits_approval", "dispatch_failed",
         "repair_failed", "repair_ready", "proposed", "proposal_failed",
         "shipped", "ship_unrecorded", "ship_failed", "ship_withheld"}
Event == [card: Card, what: What]
CardRows == [label: What, status: {"running", "done", "failed"}]

\* From where to where the events of a card in a queue take it, one step of its task
\* at a time.
Along(p, q, c) ==
    \A i \in 1 .. Len(q) :
        IF q[i].card = c THEN q[i].what = p[i] /\ p[i] \in MayFollow(p[i - 1])
                         ELSE p[i] = p[i - 1]
Takes(q, c, from, to) == \E p : p[0] = from /\ p[Len(q)] = to /\ Along(p, q, c)

\* What precedes what, spelled out.
LEMMA Follows ==
    ASSUME NEW last, NEW what \in MayFollow(last)
    PROVE  \/ last = "none" /\ what = "detected"
           \/ last = "detected" /\ what \in Detection
           \/ last = "attributed" /\ what \in {"reproducing", "skipped"}
           \/ last = "reproducing" /\ what \in Reproduction
           \/ last = "reproduced" /\ what \in
                  {"repairing", "over", "dispatched", "awaits_approval", "dispatch_failed"}
           \/ last = "skipped" /\ what \in {"repairing", "over"}
           \/ last = "repairing" /\ what \in Verification
           \/ last = "repair_ready" /\ what \in Proposal \cup Shipping
           \/ last \in Proposal /\ what \in Shipping
<1>1. \/ last \in {"none", "detected", "attributed", "reproducing", "reproduced", "skipped",
                   "repairing", "repair_ready"} \cup Proposal
      \/ MayFollow(last) = {}
    BY DEF MayFollow
<1>2. CASE last = "none"         BY <1>2 DEF MayFollow
<1>3. CASE last = "detected"     BY <1>3 DEF MayFollow
<1>4. CASE last = "attributed"   BY <1>4 DEF MayFollow
<1>5. CASE last = "reproducing"  BY <1>5 DEF MayFollow
<1>6. CASE last = "reproduced"   BY <1>6 DEF MayFollow, Repairing, WithAgent
<1>7. CASE last = "skipped"      BY <1>7 DEF MayFollow, WithAgent
<1>8. CASE last = "repairing"    BY <1>8 DEF MayFollow
<1>9. CASE last = "repair_ready" BY <1>9 DEF MayFollow
<1>10. CASE last \in Proposal    BY <1>10 DEF MayFollow, Proposal
<1>11. QED
    BY <1>1, <1>2, <1>3, <1>4, <1>5, <1>6, <1>7, <1>8, <1>9, <1>10

LEMMA FollowsWhat ==
    ASSUME NEW last, NEW what \in MayFollow(last)
    PROVE  what \in What \cup {"over"}
BY Follows DEF What, Detection, Reproduction, Verification, Proposal, Shipping

LEMMA TakesAppended ==
    ASSUME NEW q \in Seq(Event), NEW e \in Event, NEW c, NEW from, NEW to, Takes(q, c, from, to),
           e.card = c => e.what \in MayFollow(to)
    PROVE  Takes(Append(q, e), c, from, IF e.card = c THEN e.what ELSE to)
<1>1. PICK p : p[0] = from /\ p[Len(q)] = to /\ Along(p, q, c)
    BY DEF Takes
<1> DEFINE n == Len(q) + 1
           new == IF e.card = c THEN e.what ELSE to
           g == [i \in 0 .. n |-> IF i = n THEN new ELSE p[i]]
<1>2. /\ Len(q) \in Nat /\ Append(q, e) \in Seq(Event) /\ Len(Append(q, e)) = n
      /\ Append(q, e)[n] = e /\ \A i \in 1 .. Len(q) : Append(q, e)[i] = q[i]
    OBVIOUS
<1>3. g[0] = from /\ g[n] = new
    BY <1>1, <1>2
<1>4. \A i \in 1 .. Len(q) : g[i] = p[i] /\ g[i - 1] = p[i - 1]
    BY <1>2
<1>5. n - 1 = Len(q) /\ g[n - 1] = to
    BY <1>1, <1>2
<1>6. \A i \in 1 .. n : i \in 1 .. Len(q) \/ i = n
    BY <1>2
<1> HIDE DEF g
<1>7. Along(g, Append(q, e), c)
    <2> SUFFICES ASSUME NEW i \in 1 .. n
                 PROVE  IF Append(q, e)[i].card = c
                        THEN Append(q, e)[i].what = g[i] /\ g[i] \in MayFollow(g[i - 1])
                        ELSE g[i] = g[i - 1]
        BY <1>2 DEF Along
    <2>1. CASE i \in 1 .. Len(q)
        BY <1>1, <1>2, <1>4, <2>1 DEF Along
    <2>2. CASE i = n
        BY <1>2, <1>3, <1>5, <2>2
    <2>3. QED  BY <1>6, <2>1, <2>2
<1>8. QED  BY <1>2, <1>3, <1>7 DEF Takes

LEMMA TakesTaken ==
    ASSUME NEW q \in Seq(Event), q # << >>, NEW c, NEW from, NEW to, Takes(q, c, from, to)
    PROVE  /\ Head(q).card = c => Head(q).what \in MayFollow(from)
           /\ Takes(Tail(q), c, IF Head(q).card = c THEN Head(q).what ELSE from, to)
<1>1. PICK p : p[0] = from /\ p[Len(q)] = to /\ Along(p, q, c)
    BY DEF Takes
<1> DEFINE n == Len(q) - 1
           g == [i \in 0 .. n |-> p[i + 1]]
<1>2. /\ Len(q) \in Nat \ {0} /\ n \in Nat /\ Len(Tail(q)) = n /\ Head(q) = q[1]
      /\ \A i \in 1 .. n : Tail(q)[i] = q[i + 1] /\ i + 1 \in 1 .. Len(q)
      /\ 1 \in 1 .. Len(q) /\ 0 \in 0 .. n /\ n \in 0 .. n
    OBVIOUS
<1>3. IF q[1].card = c THEN q[1].what = p[1] /\ p[1] \in MayFollow(p[0]) ELSE p[1] = p[0]
    <2>1. 1 - 1 = 0
        OBVIOUS
    <2>2. QED  BY <1>1, <1>2, <2>1 DEF Along
<1>4. g[0] = p[1] /\ g[n] = to
    BY <1>1, <1>2
<1>5. \A i \in 1 .. n : g[i] = p[i + 1] /\ g[i - 1] = p[i] /\ (i + 1) - 1 = i
    BY <1>2
<1> HIDE DEF g, n
<1>6. Along(g, Tail(q), c)
    BY <1>1, <1>2, <1>5 DEF Along
<1>7. QED  BY <1>1, <1>2, <1>3, <1>4, <1>6 DEF Takes

\* A queue without a word of the card leaves it where it is.
LEMMA TakesNowhere ==
    ASSUME NEW q \in Seq(Event), NEW c, NEW from, NEW to, Takes(q, c, from, to),
           \A i \in DOMAIN q : q[i].card # c
    PROVE  from = to
<1>1. PICK p : p[0] = from /\ p[Len(q)] = to /\ Along(p, q, c)
    BY DEF Takes
<1>2. Len(q) \in Nat /\ DOMAIN q = 1 .. Len(q)
    OBVIOUS
<1> DEFINE Odd == {n \in 0 .. Len(q) : p[n] # from}
<1>3. Odd = {}
    <2> SUFFICES ASSUME Odd # {} PROVE FALSE
        OBVIOUS
    <2>1. PICK n \in Odd : \A m \in Odd : n <= m
        <3>1. Odd \in SUBSET Nat
            BY <1>2
        <3> HIDE DEF Odd
        <3>2. QED  BY <3>1, LeastNat
    <2>2. n \in 1 .. Len(q) /\ n - 1 \in 0 .. Len(q) /\ ~(n <= n - 1)
        BY <1>1, <1>2, <2>1
    <2>3. p[n - 1] = from
        BY <2>1, <2>2
    <2>4. p[n] = p[n - 1]
        BY <1>1, <1>2, <2>2 DEF Along
    <2>5. QED  BY <2>1, <2>3, <2>4
<1>4. Len(q) \in 0 .. Len(q)
    BY <1>2
<1>5. QED  BY <1>1, <1>3, <1>4

-----------------------------------------------------------------------------
\* The labels a card has by the time it was shown an event, and what is running on it.
Early == {"none", "detected", "attributed", "attribution_missing", "attribution_errored"}
Unrepaired == Early \cup {"reproducing", "reproduced", "not_reproduced", "repro_failed", "skipped"}

Shown(card, last) ==
    /\ card \in Seq(CardRows)
    /\ \A i \in DOMAIN card : card[i].status = "running" =>
           \/ last = "reproducing" /\ card[i].label = "reproduced"
           \/ last = "repairing" /\ card[i].label = "repairing"
    /\ last = "reproducing" => \A i, j \in StageIndex(card, "reproduced") : i = j
    /\ last = "repairing" => \A i, j \in StageIndex(card, "repairing") : i = j
    /\ last \in Early => StageIndex(card, "reproduced") = {}
    /\ last \in Unrepaired => StageIndex(card, "repairing") = {}

\* The row of each event.
LEMMA RowOfWhat ==
    ASSUME NEW what \in What
    PROVE  /\ RowOf(what) \in CardRows
           /\ RowOf(what).status = "running" <=> what \in {"reproducing", "repairing"}
           /\ RowOf(what).label = "reproduced"
                  <=> what \in {"reproducing", "reproduced", "not_reproduced", "repro_failed"}
           /\ RowOf(what).label = "repairing"
                  <=> what \in {"repairing", "repair_ready", "repair_failed"}
<1>1. \A l, t : Row(l, t).label = l /\ Row(l, t).status = t
    BY DEF Row
<1>2. \A l \in What, t \in {"running", "done", "failed"} : Row(l, t) \in CardRows
    BY DEF Row, CardRows
<1>3. CASE what \in {"detected", "attributed", "dispatched", "proposed"}
    <2>1. RowOf(what) = Row(what, "done")
        BY <1>3 DEF RowOf
    <2>2. QED  BY <1>1, <1>2, <1>3, <2>1
<1>4. CASE what \in {"attribution_missing", "attribution_errored"}
    <2>1. RowOf(what) = Row("attributed", "failed") /\ "attributed" \in What
        BY <1>4 DEF RowOf, What
    <2>2. QED  BY <1>1, <1>2, <1>4, <2>1
<1>5. CASE what \in {"reproducing", "reproduced", "not_reproduced", "repro_failed"}
    <2>1. /\ "reproduced" \in What
          /\ RowOf(what) = Row("reproduced", IF what = "reproducing" THEN "running"
                                             ELSE IF what = "reproduced" THEN "done"
                                             ELSE "failed")
        BY <1>5 DEF RowOf, What
    <2>2. QED  BY <1>1, <1>2, <1>5, <2>1
<1>6. CASE what \in {"repairing", "repair_ready", "repair_failed"}
    <2>1. /\ "repairing" \in What
          /\ RowOf(what) = Row("repairing", IF what = "repairing" THEN "running"
                                            ELSE IF what = "repair_ready" THEN "done"
                                            ELSE "failed")
        BY <1>6 DEF RowOf, What
    <2>2. QED  BY <1>1, <1>2, <1>6, <2>1
<1>7. CASE what \in {"shipped", "ship_unrecorded", "ship_failed"}
    <2>1. /\ "shipped" \in What
          /\ RowOf(what) = Row("shipped", IF what = "ship_failed" THEN "failed" ELSE "done")
        BY <1>7 DEF RowOf, What
    <2>2. QED  BY <1>1, <1>2, <1>7, <2>1
<1>8. CASE what \in {"skipped", "awaits_approval", "dispatch_failed", "proposal_failed",
                     "ship_withheld"}
    <2>1. RowOf(what) = Row(what, "failed")
        BY <1>8 DEF RowOf
    <2>2. QED  BY <1>1, <1>2, <1>8, <2>1
<1>9. QED  BY <1>3, <1>4, <1>5, <1>6, <1>7, <1>8 DEF What

\* Finishing a row leaves the card a card, with that row last or in its place.
LEMMA RowFinished ==
    ASSUME NEW card \in Seq(CardRows), NEW what \in What
    PROVE  /\ FinishRow(card, what) \in Seq(CardRows)
           /\ \/ /\ FinishRow(card, what) = Append(card, RowOf(what))
                 /\ what \in Finishes => StageIndex(card, RowOf(what).label) = {}
              \/ \E k \in StageIndex(card, RowOf(what).label) :
                     /\ what \in Finishes
                     /\ FinishRow(card, what) = [card EXCEPT ![k] = RowOf(what)]
<1> DEFINE at == StageIndex(card, RowOf(what).label)
           k == CHOOSE i \in at : \A j \in at : i <= j
<1>1. RowOf(what) \in CardRows
    BY RowOfWhat
<1>2. CASE what \in Finishes /\ at # {}
    <2>1. at \in SUBSET Nat
        BY DEF StageIndex
    <2>2. \E i \in at : \A j \in at : i <= j
        <3> HIDE DEF at
        <3>1. QED  BY <1>2, <2>1, LeastNat
    <2>3. k \in at
        <3> HIDE DEF at
        <3>1. QED  BY <2>2
    <2>4. FinishRow(card, what) = [card EXCEPT ![k] = RowOf(what)]
        BY <1>2 DEF FinishRow
    <2> HIDE DEF k
    <2>5. k \in DOMAIN card
        BY <2>3 DEF StageIndex
    <2>6. [card EXCEPT ![k] = RowOf(what)] \in Seq(CardRows)
        BY <1>1, <2>5
    <2>7. QED  BY <1>2, <2>3, <2>4, <2>6
<1>3. CASE ~(what \in Finishes /\ at # {})
    BY <1>1, <1>3 DEF FinishRow
<1>4. QED  BY <1>2, <1>3

\* A card shown the next event of its task is as it should be after that one.
LEMMA ShownNext ==
    ASSUME NEW card, NEW last, Shown(card, last), NEW what \in MayFollow(last), what # "over"
    PROVE  Shown(FinishRow(card, what), what)
<1> DEFINE new == FinishRow(card, what)
           row == RowOf(what)
<1>1. what \in What /\ card \in Seq(CardRows)
    BY FollowsWhat DEF Shown
<1>2. /\ row \in CardRows
      /\ row.status = "running" <=> what \in {"reproducing", "repairing"}
      /\ row.label = "reproduced"
             <=> what \in {"reproducing", "reproduced", "not_reproduced", "repro_failed"}
      /\ row.label = "repairing" <=> what \in {"repairing", "repair_ready", "repair_failed"}
    BY <1>1, RowOfWhat
<1>3. /\ new \in Seq(CardRows)
      /\ \/ new = Append(card, row) /\ (what \in Finishes => StageIndex(card, row.label) = {})
         \/ \E k \in StageIndex(card, row.label) :
                what \in Finishes /\ new = [card EXCEPT ![k] = row]
    BY <1>1, RowFinished
<1>4. /\ what \in Early => last \in Early /\ what \notin Finishes
      /\ what \in Unrepaired => last \in Unrepaired
      /\ what = "reproducing" => last \in Early /\ what \notin Finishes
      /\ what = "repairing" => last \in Unrepaired /\ what \notin Finishes
      /\ last = "reproducing" => what \in {"reproduced", "not_reproduced", "repro_failed"}
      /\ last = "repairing" => what \in {"repair_ready", "repair_failed"}
      /\ {"reproduced", "not_reproduced", "repro_failed", "repair_ready", "repair_failed"}
             \subseteq Finishes
    <2>1. \/ last = "none" /\ what = "detected"
          \/ last = "detected" /\ what \in Detection
          \/ last = "attributed" /\ what \in {"reproducing", "skipped"}
          \/ last = "reproducing" /\ what \in Reproduction
          \/ last = "reproduced" /\ what \in
                 {"repairing", "over", "dispatched", "awaits_approval", "dispatch_failed"}
          \/ last = "skipped" /\ what \in {"repairing", "over"}
          \/ last = "repairing" /\ what \in Verification
          \/ last = "repair_ready" /\ what \in Proposal \cup Shipping
          \/ last \in Proposal /\ what \in Shipping
        BY Follows
    <2>2. QED
        BY <2>1 DEF Early, Unrepaired, Finishes, Detection, Reproduction, Verification,
                    Proposal, Shipping
<1> HIDE DEF new, row
\* Where the rows of the new card come from.
<1>5. PICK k \in Nat :
          /\ k \in DOMAIN new /\ new[k] = row
          /\ \A i \in DOMAIN new : i # k => i \in DOMAIN card /\ new[i] = card[i]
          /\ k \in DOMAIN card => card[k].label = row.label
          /\ what \in Finishes =>
                 k \in DOMAIN card \/ StageIndex(card, row.label) = {}
    <2>1. CASE new = Append(card, row) /\ (what \in Finishes => StageIndex(card, row.label) = {})
        <3>1. /\ DOMAIN card = 1 .. Len(card) /\ Len(card) \in Nat
              /\ DOMAIN new = 1 .. (Len(card) + 1) /\ new[Len(card) + 1] = row
              /\ \A i \in 1 .. Len(card) : new[i] = card[i]
            BY <1>1, <1>2, <2>1
        <3>2. QED  BY <2>1, <3>1
    <2>2. CASE \E k \in StageIndex(card, row.label) :
                   what \in Finishes /\ new = [card EXCEPT ![k] = row]
        <3>1. PICK k \in StageIndex(card, row.label) :
                  what \in Finishes /\ new = [card EXCEPT ![k] = row]
            BY <2>2
        <3>2. k \in DOMAIN card /\ card[k].label = row.label /\ k \in Nat
            BY <1>1 DEF StageIndex
        <3>3. /\ DOMAIN new = DOMAIN card /\ new[k] = row
              /\ \A i \in DOMAIN card : i # k => new[i] = card[i]
            BY <1>1, <3>1, <3>2
        <3>4. QED  BY <3>2, <3>3
    <2>3. QED  BY <1>3, <2>1, <2>2
<1>6. ASSUME NEW i \in DOMAIN new, new[i].status = "running"
      PROVE  \/ what = "reproducing" /\ new[i].label = "reproduced"
             \/ what = "repairing" /\ new[i].label = "repairing"
    <2>1. CASE i = k
        BY <1>2, <1>5, <1>6, <2>1
    <2>2. CASE i # k
        <3>1. i \in DOMAIN card /\ new[i] = card[i] /\ card[i].status = "running"
            BY <1>5, <1>6, <2>2
        <3>2. \/ /\ last = "reproducing" /\ i \in StageIndex(card, "reproduced")
                 /\ \A j \in StageIndex(card, "reproduced") : i = j
              \/ /\ last = "repairing" /\ i \in StageIndex(card, "repairing")
                 /\ \A j \in StageIndex(card, "repairing") : i = j
            BY <3>1 DEF Shown, StageIndex
        <3>3. what \in Finishes /\ i \in StageIndex(card, row.label)
              /\ \A j \in StageIndex(card, row.label) : i = j
            BY <1>2, <1>4, <3>2
        <3>4. k \in StageIndex(card, row.label)
            BY <1>5, <3>3 DEF StageIndex
        <3>5. QED  BY <2>2, <3>3, <3>4
    <2>3. QED  BY <2>1, <2>2
<1>7. what = "reproducing" => \A i, j \in StageIndex(new, "reproduced") : i = j
    <2>1. what = "reproducing" => StageIndex(card, "reproduced") = {}
        BY <1>4 DEF Shown
    <2>2. QED  BY <1>5, <2>1 DEF StageIndex
<1>8. what = "repairing" => \A i, j \in StageIndex(new, "repairing") : i = j
    <2>1. what = "repairing" => StageIndex(card, "repairing") = {}
        BY <1>4 DEF Shown
    <2>2. QED  BY <1>5, <2>1 DEF StageIndex
<1>9. what \in Early => StageIndex(new, "reproduced") = {}
    <2>1. what \in Early => StageIndex(card, "reproduced") = {} /\ row.label # "reproduced"
        BY <1>2, <1>4 DEF Shown, Early
    <2>2. QED  BY <1>5, <2>1 DEF StageIndex
<1>10. what \in Unrepaired => StageIndex(new, "repairing") = {}
    <2>1. what \in Unrepaired => StageIndex(card, "repairing") = {} /\ row.label # "repairing"
        BY <1>2, <1>4 DEF Shown, Unrepaired, Early
    <2>2. QED  BY <1>5, <2>1 DEF StageIndex
<1>11. QED  BY <1>3, <1>6, <1>7, <1>8, <1>9, <1>10 DEF Shown, new

-----------------------------------------------------------------------------
ViewsType ==
    /\ sent \in Seq(Event) /\ tapped \in Seq(Event)
    /\ telling = [c \in Card |-> telling[c]] /\ noted = [c \in Card |-> noted[c]]
    /\ api = [c \in Card |-> api[c]] /\ rows = [c \in Card |-> rows[c]]
    /\ offer = [c \in Card |-> offer[c]]

\* What a terminal offers once it was shown an event.
Offered(line, kinds, last) ==
    /\ line = "revert" => "shipped" \in kinds
    /\ line = "ship" => last \in {"repair_ready", "ship_failed", "ship_withheld"} \cup Proposal

Told(last, to) == last = to \/ (last = "over" /\ "over" \in MayFollow(to))

\* What the terminal was shown leads by the queued events to what the API was applied,
\* and that by the others to what the task told last.
Traced(c) ==
    \E r, a, t :
        /\ Shown(rows[c], r) /\ Offered(offer[c], noted[c], r)
        /\ Takes(tapped, c, r, a)
        /\ api[c].stage = StageOf(a)
        /\ Takes(sent, c, a, t)
        /\ Told(telling[c], t)

\* A ship is told after its line was recorded.
ShipsAreNoted(q, kinds) ==
    \A i \in DOMAIN q : q[i].what = "shipped" => "shipped" \in kinds[q[i].card]

\* Who wrote that a repair is shipped, or reverted.
ByWhom(c) ==
    /\ "shipped" \in noted[c] => telling[c] = "shipped" \/ c \in typedIn
    /\ "reverted" \in noted[c] => c \in typedIn

ViewsInv ==
    /\ ViewsType /\ ShipsAreNoted(sent, noted) /\ ShipsAreNoted(tapped, noted)
    /\ \A c \in Card : Traced(c) /\ ByWhom(c)

LEMMA MayFollowStays ==
    ASSUME UNCHANGED repairs
    PROVE  \A last : MayFollow(last)' = MayFollow(last)
BY DEF MayFollow, Repairing, WithAgent

LEMMA TracedNext ==
    ASSUME UNCHANGED repairs, NEW c, NEW r, NEW a, NEW t,
           Shown(rows'[c], r), Offered(offer'[c], noted'[c], r),
           Takes(tapped', c, r, a), api'[c].stage = StageOf(a), Takes(sent', c, a, t),
           Told(telling'[c], t)
    PROVE  Traced(c)'
<1>1. \A last : MayFollow(last)' = MayFollow(last)
    BY MayFollowStays
<1>2. Told(telling[c], t)'
    BY <1>1 DEF Told
<1>4. Takes(tapped, c, r, a)'
    BY <1>1 DEF Takes, Along
<1>5. Takes(sent, c, a, t)'
    BY <1>1 DEF Takes, Along
<1>6. QED
    BY <1>2, <1>4, <1>5 DEF Traced

LEMMA QueuedEvents ==
    ASSUME NEW q \in Seq(Event)
    PROVE  /\ \A i \in DOMAIN q : q[i] \in Event /\ q[i].card \in Card /\ q[i].what \in What
           /\ q # << >> => /\ Head(q) \in Event /\ Head(q).card \in Card
                           /\ Head(q).what \in What
<1>1. (\A i \in DOMAIN q : q[i] \in Event) /\ (q # << >> => Head(q) \in Event)
    OBVIOUS
<1>2. \A e \in Event : e.card \in Card /\ e.what \in What
    BY DEF Event
<1>3. QED  BY <1>1, <1>2

LEMMA TellKeeps ==
    ASSUME ViewsInv, NEW c \in Card, Tell(c)
    PROVE  ViewsInv'
<1>1. PICK what \in MayFollow(telling[c]) :
          /\ telling' = [telling EXCEPT ![c] = what]
          /\ \E kept \in {Lines(what)} \cup (IF what = "repair_ready" THEN {{}} ELSE {}) :
                 noted' = [noted EXCEPT ![c] = @ \cup kept]
          /\ IF what = "over" THEN UNCHANGED sent
             ELSE sent' = Append(sent, [card |-> c, what |-> what])
          /\ UNCHANGED <<repairs, typedIn, tapped, api, rows, offer>>
    BY DEF Tell
<1>0. PICK kept \in SUBSET {"repair_ready", "shipped"} :
          /\ noted' = [noted EXCEPT ![c] = @ \cup kept]
          /\ "shipped" \in kept <=> what = "shipped"
    BY <1>1 DEF Lines
<1> DEFINE e == [card |-> c, what |-> what]
<1>2. e.card = c /\ e.what = what /\ (what # "over" => e \in Event)
    BY FollowsWhat DEF Event
<1>3. /\ sent \in Seq(Event) /\ tapped \in Seq(Event) /\ sent' \in Seq(Event)
      /\ what # "over" => sent' = Append(sent, e)
    <2>1. sent \in Seq(Event) /\ tapped \in Seq(Event) /\ UNCHANGED tapped
        BY <1>1 DEF ViewsInv, ViewsType
    <2>2. what # "over" => sent' = Append(sent, e)
        BY <1>1
    <2>3. what = "over" => sent' = sent
        BY <1>1
    <2> HIDE DEF e
    <2>4. CASE what = "over"
        BY <2>1, <2>3, <2>4
    <2>5. CASE what # "over"
        <3>1. Append(sent, e) \in Seq(Event)
            BY <1>2, <2>1, <2>5, Appended
        <3>2. QED  BY <2>1, <2>2, <2>5, <3>1
    <2>6. QED  BY <2>4, <2>5
<1> HIDE DEF e
<1>4. /\ telling' = [d \in Card |-> IF d = c THEN what ELSE telling[d]]
      /\ noted' = [d \in Card |-> IF d = c THEN noted[c] \cup kept ELSE noted[d]]
    BY <1>0, <1>1 DEF ViewsInv, ViewsType
<1>5. ViewsType'
    BY <1>1, <1>3, <1>4 DEF ViewsInv, ViewsType
<1>6. \A d \in Card : noted[d] \subseteq noted'[d]
    BY <1>4
<1>7. what = "shipped" => "shipped" \in noted'[c]
    BY <1>0, <1>4
<1>8. ShipsAreNoted(tapped, noted)'
    <2>1. \A i \in DOMAIN tapped : tapped[i].card \in Card
        BY <1>3, QueuedEvents
    <2>2. QED  BY <1>1, <1>6, <2>1 DEF ViewsInv, ShipsAreNoted
<1>9. ShipsAreNoted(sent, noted)'
    <2>1. \A i \in DOMAIN sent : sent[i].card \in Card
        BY <1>3, QueuedEvents
    <2>2. CASE what = "over"
        BY <1>1, <1>6, <2>1, <2>2 DEF ViewsInv, ShipsAreNoted
    <2>3. CASE what # "over"
        <3>1. /\ DOMAIN sent' = DOMAIN sent \cup {Len(sent) + 1}
              /\ \A i \in DOMAIN sent : sent'[i] = sent[i]
              /\ sent'[Len(sent) + 1] = e
            BY <1>2, <1>3, <2>3
        <3>2. QED  BY <1>2, <1>6, <1>7, <2>1, <3>1 DEF ViewsInv, ShipsAreNoted
    <2>4. QED  BY <2>2, <2>3
<1>10. ASSUME NEW d \in Card PROVE Traced(d)'
    <2>1. PICK r, a, t :
              /\ Shown(rows[d], r) /\ Offered(offer[d], noted[d], r)
              /\ Takes(tapped, d, r, a) /\ api[d].stage = StageOf(a)
              /\ Takes(sent, d, a, t) /\ Told(telling[d], t)
        BY DEF ViewsInv, Traced
    <2>2. /\ Shown(rows'[d], r) /\ Takes(tapped', d, r, a) /\ api'[d].stage = StageOf(a)
          /\ Offered(offer'[d], noted'[d], r)
        BY <1>1, <1>6, <2>1 DEF Offered
    <2>3. CASE d # c
        <3>1. telling'[d] = telling[d]
            BY <1>4, <2>3
        <3>2. Takes(sent', d, a, t)
            <4>1. CASE what = "over"
                BY <1>1, <2>1, <4>1
            <4>2. CASE what # "over"
                <5>1. Takes(Append(sent, e), d, a, IF e.card = d THEN e.what ELSE t)
                    BY <1>2, <1>3, <2>1, <2>3, <4>2, TakesAppended
                <5>2. QED  BY <1>2, <1>3, <2>3, <4>2, <5>1
            <4>3. QED  BY <4>1, <4>2
        <3>3. QED  BY <1>1, <2>1, <2>2, <3>1, <3>2, TracedNext
    <2>4. CASE d = c
        <3>1. telling'[d] = what
            BY <1>4, <2>4
        <3>2. t = telling[c]
            <4>1. telling[c] # "over"
                BY Follows DEF Proposal
            <4>2. QED  BY <2>1, <2>4, <4>1 DEF Told
        <3>3. CASE what = "over"
            <4>1. Told(telling'[d], t)
                BY <3>1, <3>2, <3>3 DEF Told
            <4>2. QED  BY <1>1, <2>1, <2>2, <3>3, <4>1, TracedNext
        <3>4. CASE what # "over"
            <4>1. Takes(Append(sent, e), d, a, IF e.card = d THEN e.what ELSE t)
                BY <1>2, <1>3, <2>1, <3>2, <3>4, TakesAppended
            <4>2. Takes(sent', d, a, what)
                BY <1>2, <1>3, <2>4, <3>4, <4>1
            <4>3. Told(telling'[d], what)
                BY <3>1 DEF Told
            <4>4. QED  BY <1>1, <2>2, <4>2, <4>3, TracedNext
        <3>5. QED  BY <3>3, <3>4
    <2>5. QED  BY <2>3, <2>4
<1>11. ASSUME NEW d \in Card PROVE ByWhom(d)'
    <2>1. ByWhom(d) /\ typedIn' = typedIn
        BY <1>1 DEF ViewsInv
    <2>2. CASE d # c
        BY <1>4, <2>1, <2>2 DEF ByWhom
    <2>3. CASE d = c
        <3>1. telling[c] # "shipped"
            BY DEF MayFollow, Proposal
        <3>2. telling'[c] = what /\ noted'[c] = noted[c] \cup kept
            BY <1>4
        <3>3. QED  BY <1>0, <2>1, <2>3, <3>1, <3>2 DEF ByWhom
    <2>4. QED  BY <2>2, <2>3
<1>12. QED  BY <1>5, <1>8, <1>9, <1>10, <1>11 DEF ViewsInv

\* A person's command, and the start of a ship, tell no card.
LEMMA BesideKeeps ==
    ASSUME ViewsInv, NEW c \in Card, ShipBegins(c) \/ PersonTypes(c)
    PROVE  ViewsInv'
<1>1. PICK kept \in SUBSET {"shipped", "reverted"} :
          /\ \A d \in Card : noted'[d] = IF d = c THEN noted[d] \cup kept ELSE noted[d]
          /\ noted' = [d \in Card |-> noted'[d]]
          /\ kept # {} => c \in typedIn'
    <2>1. CASE ShipBegins(c)
        BY <2>1 DEF ShipBegins, ViewsInv, ViewsType
    <2>2. CASE PersonTypes(c) /\ noted' = [noted EXCEPT ![c] = @ \cup {"shipped"}]
        BY <2>2 DEF PersonTypes, ViewsInv, ViewsType
    <2>3. CASE PersonTypes(c) /\ noted' = [noted EXCEPT ![c] = @ \cup {"reverted"}]
        BY <2>3 DEF PersonTypes, ViewsInv, ViewsType
    <2>4. QED  BY <2>1, <2>2, <2>3 DEF PersonTypes
<1>2. UNCHANGED <<repairs, telling, sent, tapped, api, rows, offer>> /\ typedIn \subseteq typedIn'
    BY DEF ShipBegins, PersonTypes
<1>3. ViewsType'
    BY <1>1, <1>2 DEF ViewsInv, ViewsType
<1>4. ShipsAreNoted(sent, noted)' /\ ShipsAreNoted(tapped, noted)'
    <2>1. \A q \in {sent, tapped} : \A i \in DOMAIN q : q[i].card \in Card
        BY QueuedEvents DEF ViewsInv, ViewsType
    <2>2. QED  BY <1>1, <1>2, <2>1 DEF ViewsInv, ShipsAreNoted
<1>5. ASSUME NEW d \in Card PROVE Traced(d)' /\ ByWhom(d)'
    <2>1. PICK r, a, t :
              /\ Shown(rows[d], r) /\ Offered(offer[d], noted[d], r)
              /\ Takes(tapped, d, r, a) /\ api[d].stage = StageOf(a)
              /\ Takes(sent, d, a, t) /\ Told(telling[d], t)
        BY DEF ViewsInv, Traced
    <2>2. Offered(offer'[d], noted'[d], r)
        BY <1>1, <1>2, <2>1 DEF Offered
    <2>3. Traced(d)'
        BY <1>2, <2>1, <2>2, TracedNext
    <2>4. ByWhom(d)'
        BY <1>1, <1>2 DEF ViewsInv, ByWhom
    <2>5. QED  BY <2>3, <2>4
<1>6. QED  BY <1>3, <1>4, <1>5 DEF ViewsInv

LEMMA TapKeeps ==
    ASSUME ViewsInv, Tap
    PROVE  ViewsInv'
<1> DEFINE e == Head(sent)
<1>1. /\ sent # << >> /\ sent \in Seq(Event) /\ tapped \in Seq(Event)
      /\ sent' = Tail(sent) /\ tapped' = Append(tapped, e)
      /\ api' = [api EXCEPT ![e.card] =
             [stage |-> StageOf(e.what), next |-> NextCommandOf(e.what, @.next)]]
      /\ UNCHANGED <<repairs, telling, noted, typedIn, rows, offer>>
    BY DEF Tap, ViewsInv, ViewsType
<1>2. e \in Event /\ e.card \in Card /\ e.what \in What
    BY <1>1, QueuedEvents
<1>3. /\ sent' \in Seq(Event) /\ tapped' \in Seq(Event)
      /\ DOMAIN tapped' = DOMAIN tapped \cup {Len(tapped) + 1}
      /\ \A i \in DOMAIN tapped : tapped'[i] = tapped[i]
      /\ tapped'[Len(tapped) + 1] = e
      /\ e = sent[1] /\ 1 \in DOMAIN sent
      /\ \A i \in DOMAIN sent' : i + 1 \in DOMAIN sent /\ sent'[i] = sent[i + 1]
    <2> HIDE DEF e
    <2>1. tapped' \in Seq(Event) /\ DOMAIN tapped' = DOMAIN tapped \cup {Len(tapped) + 1}
          /\ (\A i \in DOMAIN tapped : tapped'[i] = tapped[i])
          /\ tapped'[Len(tapped) + 1] = e
        BY <1>1, <1>2
    <2>2. QED  BY <1>1, <2>1 DEF e
<1>4. \A d \in Card : api'[d].stage = IF d = e.card THEN StageOf(e.what) ELSE api[d].stage
    BY <1>1, <1>2 DEF ViewsInv, ViewsType
<1>5. ViewsType'
    <2>1. api' = [d \in Card |-> api'[d]]
        BY <1>1, <1>2 DEF ViewsInv, ViewsType
    <2>2. QED  BY <1>1, <1>3, <2>1 DEF ViewsInv, ViewsType
<1> HIDE DEF e
<1>6. ShipsAreNoted(sent, noted)' /\ ShipsAreNoted(tapped, noted)'
    BY <1>1, <1>3 DEF ViewsInv, ShipsAreNoted
<1>7. ASSUME NEW d \in Card PROVE Traced(d)'
    <2>1. PICK r, a, t :
              /\ Shown(rows[d], r) /\ Offered(offer[d], noted[d], r)
              /\ Takes(tapped, d, r, a) /\ api[d].stage = StageOf(a)
              /\ Takes(sent, d, a, t) /\ Told(telling[d], t)
        BY DEF ViewsInv, Traced
    <2> DEFINE b == IF e.card = d THEN e.what ELSE a
    <2>2. (e.card = d => e.what \in MayFollow(a)) /\ Takes(sent', d, b, t)
        BY <1>1, <2>1, TakesTaken DEF e
    <2>3. Takes(tapped', d, r, b)
        BY <1>1, <1>2, <2>1, <2>2, TakesAppended
    <2>4. api'[d].stage = StageOf(b)
        BY <1>4, <2>1
    <2> HIDE DEF b
    <2>5. QED  BY <1>1, <2>1, <2>2, <2>3, <2>4, TracedNext
<1>8. \A d \in Card : ByWhom(d)'
    BY <1>1 DEF ViewsInv, ByWhom
<1>9. QED  BY <1>5, <1>6, <1>7, <1>8 DEF ViewsInv

LEMMA OfferedNext ==
    ASSUME NEW line, NEW kinds, NEW last, Offered(line, kinds, last),
           NEW what \in MayFollow(last), what # "over",
           what = "shipped" => "shipped" \in kinds
    PROVE  Offered(OfferOf(what, line), kinds, what)
<1>1. CASE what \in {"repair_ready", "shipped", "ship_unrecorded", "awaits_approval"}
    BY <1>1 DEF OfferOf, Offered
<1>2. CASE what \notin {"repair_ready", "shipped", "ship_unrecorded", "awaits_approval"}
    <2>1. OfferOf(what, line) = line
        BY <1>2 DEF OfferOf
    <2>2. ASSUME last \in {"repair_ready", "ship_failed", "ship_withheld"} \cup Proposal
          PROVE  what \in {"ship_failed", "ship_withheld"} \cup Proposal
        <3>1. what \in Proposal \cup Shipping
            BY <2>2, Follows DEF Proposal
        <3>2. QED  BY <1>2, <3>1 DEF Shipping
    <2>3. QED  BY <2>1, <2>2 DEF Offered
<1>3. QED  BY <1>1, <1>2

LEMMA ShowKeeps ==
    ASSUME ViewsInv, Show
    PROVE  ViewsInv'
<1> DEFINE e == Head(tapped)
<1>1. /\ tapped # << >> /\ sent \in Seq(Event) /\ tapped \in Seq(Event)
      /\ tapped' = Tail(tapped)
      /\ rows' = [rows EXCEPT ![e.card] = FinishRow(@, e.what)]
      /\ offer' = [offer EXCEPT ![e.card] = OfferOf(e.what, @)]
      /\ UNCHANGED <<repairs, telling, noted, typedIn, sent, api>>
    BY DEF Show, ViewsInv, ViewsType
<1>2. e \in Event /\ e.card \in Card /\ e.what \in What
    BY <1>1, QueuedEvents
<1>3. /\ tapped' \in Seq(Event) /\ e = tapped[1] /\ 1 \in DOMAIN tapped
      /\ \A i \in DOMAIN tapped' : i + 1 \in DOMAIN tapped /\ tapped'[i] = tapped[i + 1]
    BY <1>1
<1>4. \A d \in Card :
          /\ rows'[d] = IF d = e.card THEN FinishRow(rows[d], e.what) ELSE rows[d]
          /\ offer'[d] = IF d = e.card THEN OfferOf(e.what, offer[d]) ELSE offer[d]
    BY <1>1, <1>2 DEF ViewsInv, ViewsType
<1>5. ViewsType'
    <2>1. rows' = [d \in Card |-> rows'[d]] /\ offer' = [d \in Card |-> offer'[d]]
        BY <1>1, <1>2 DEF ViewsInv, ViewsType
    <2>2. QED  BY <1>1, <1>3, <2>1 DEF ViewsInv, ViewsType
<1>6. e.what = "shipped" => "shipped" \in noted[e.card]
    BY <1>3 DEF ViewsInv, ShipsAreNoted
<1>7. ShipsAreNoted(sent, noted)' /\ ShipsAreNoted(tapped, noted)'
    BY <1>1, <1>3 DEF ViewsInv, ShipsAreNoted
<1> HIDE DEF e
<1>8. ASSUME NEW d \in Card PROVE Traced(d)'
    <2>1. PICK r, a, t :
              /\ Shown(rows[d], r) /\ Offered(offer[d], noted[d], r)
              /\ Takes(tapped, d, r, a) /\ api[d].stage = StageOf(a)
              /\ Takes(sent, d, a, t) /\ Told(telling[d], t)
        BY DEF ViewsInv, Traced
    <2> DEFINE s == IF e.card = d THEN e.what ELSE r
    <2>2. (e.card = d => e.what \in MayFollow(r)) /\ Takes(tapped', d, s, a)
        BY <1>1, <2>1, TakesTaken DEF e
    <2>3. e.what # "over"
        BY <1>2 DEF What
    <2>4. Shown(rows'[d], s) /\ Offered(offer'[d], noted[d], s)
        <3>1. CASE e.card # d
            BY <1>4, <2>1, <3>1
        <3>2. CASE e.card = d
            BY <1>4, <1>6, <2>1, <2>2, <2>3, <3>2, ShownNext, OfferedNext
        <3>3. QED  BY <3>1, <3>2
    <2> HIDE DEF s
    <2>5. QED  BY <1>1, <2>1, <2>2, <2>4, TracedNext
<1>9. \A d \in Card : ByWhom(d)'
    BY <1>1 DEF ViewsInv, ByWhom
<1>10. QED  BY <1>5, <1>7, <1>8, <1>9 DEF ViewsInv

LEMMA TracedRests ==
    ASSUME ViewsInv, NEW c \in Card, telling[c] \in Ended, Heard(c)
    PROVE  /\ api[c].stage \in InFlight => telling[c] \in {"dispatched", "awaits_approval"}
           /\ \A i \in DOMAIN rows[c] : rows[c][i].status # "running"
           /\ offer[c] = "revert" => RevertIsAccepted(c) \/ c \in typedIn
           /\ offer[c] = "ship" =>
                  /\ api[c].stage \in {"repair_ready", "ship_failed"}
                  /\ ShipIsAccepted(c) \/ c \in typedIn \/ "repair_ready" \notin noted[c]
<1>1. PICK r, a, t :
          /\ Shown(rows[c], r) /\ Offered(offer[c], noted[c], r)
          /\ Takes(tapped, c, r, a) /\ api[c].stage = StageOf(a)
          /\ Takes(sent, c, a, t) /\ Told(telling[c], t)
    BY DEF ViewsInv, Traced
<1>2. r = a /\ a = t
    BY <1>1, TakesNowhere DEF Heard, ViewsInv, ViewsType
<1>3. \/ t \in Ended \ {"over"} /\ telling[c] = t
      \/ t \in {"reproduced", "skipped", "repair_ready"} \cup Proposal
      \/ t = "over" /\ telling[c] = "over"
    <2>1. CASE telling[c] = t
        BY <2>1
    <2>2. CASE telling[c] = "over" /\ "over" \in MayFollow(t)
        BY <2>2, Follows DEF Detection, Reproduction, Verification, Proposal, Shipping
    <2>3. QED  BY <1>1, <2>1, <2>2 DEF Told
<1>4. t \notin {"reproducing", "repairing"}
    BY <1>3 DEF Ended, Proposal
<1>5. \A i \in DOMAIN rows[c] : rows[c][i].status # "running"
    BY <1>1, <1>2, <1>4 DEF Shown
<1>6. StageOf(t) \in InFlight => telling[c] \in {"dispatched", "awaits_approval"}
    BY <1>3 DEF StageOf, InFlight, Ended, Proposal
<1>7. offer[c] = "ship" => StageOf(t) \in {"repair_ready", "ship_failed"}
    BY <1>1, <1>2 DEF Offered, StageOf, Proposal
<1>8. offer[c] = "revert" => RevertIsAccepted(c) \/ c \in typedIn
    BY <1>1 DEF Offered, RevertIsAccepted, ViewsInv, ByWhom
<1>9. offer[c] = "ship" => ShipIsAccepted(c) \/ c \in typedIn \/ "repair_ready" \notin noted[c]
    <2>1. offer[c] = "ship" => telling[c] # "shipped"
        BY <1>1, <1>2 DEF Offered, Proposal, Told
    <2>2. QED  BY <2>1 DEF ShipIsAccepted, ViewsInv, ByWhom
<1>10. QED  BY <1>1, <1>2, <1>5, <1>6, <1>7, <1>8, <1>9

\* However many failures there are and however far the views lag behind the engine
\* (api.rs, ui/model.rs), whatever people ship and revert beside it and whichever
\* lines of repairs are lost: once all was heard of a task that is over, neither view
\* shows it at work, and the failure's lines refuse the command that its card offers
\* only where a person has already typed one, or a ship where the repair's line was lost.
THEOREM CardsRest == ViewsInit /\ [][ViewsNext]_viewsVars => []CardsComeToRest
<1>1. ViewsInit => ViewsInv
    <2> SUFFICES ASSUME ViewsInit PROVE ViewsInv
        OBVIOUS
    <2>1. /\ sent = << >> /\ tapped = << >> /\ ViewsType
          /\ \A c \in Card : /\ telling[c] = "none" /\ rows[c] = << >> /\ offer[c] = "none"
                             /\ api[c].stage = "none" /\ noted[c] = {}
        BY DEF ViewsInit, ViewsType
    <2>2. << >> \in Seq(Event) /\ Len(<< >>) = 0 /\ 1 .. 0 = {} /\ DOMAIN << >> = {}
        OBVIOUS
    <2>3. \A c : Takes(<< >>, c, "none", "none")
        <3>1. \A c : Along([i \in {0} |-> "none"], << >>, c)
            BY <2>2 DEF Along
        <3>2. [i \in {0} |-> "none"][0] = "none"
            OBVIOUS
        <3> DEFINE p == [i \in {0} |-> "none"]
        <3> HIDE DEF p
        <3>3. QED  BY <2>2, <3>1, <3>2 DEF Takes, p
    <2>4. << >> \in Seq(CardRows) /\ \A l : StageIndex(<< >>, l) = {}
        BY <2>2 DEF StageIndex
    <2>5. Shown(<< >>, "none") /\ StageOf("none") = "none"
        BY <2>2, <2>4 DEF Shown, StageOf
    <2>6. \A c \in Card : Offered(offer[c], noted[c], "none") /\ Told(telling[c], "none")
        BY <2>1 DEF Offered, Told
    <2>7. \A c \in Card : Traced(c)
        BY <2>1, <2>3, <2>5, <2>6 DEF Traced
    <2>8. ShipsAreNoted(sent, noted) /\ ShipsAreNoted(tapped, noted)
        BY <2>1, <2>2 DEF ShipsAreNoted
    <2>9. QED  BY <2>1, <2>7, <2>8 DEF ViewsInv, ByWhom
<1>2. ViewsInv /\ [ViewsNext]_viewsVars => ViewsInv'
    <2>1. ASSUME ViewsInv, UNCHANGED viewsVars PROVE ViewsInv'
        <3>1. UNCHANGED <<repairs, telling, noted, typedIn, sent, tapped, api, rows, offer>>
            BY <2>1 DEF viewsVars
        <3>2. \A c \in Card : Traced(c)'
            BY <2>1, <3>1, TracedNext DEF ViewsInv, Traced
        <3>3. \A c \in Card : ByWhom(c)'
            BY <2>1, <3>1 DEF ViewsInv, ByWhom
        <3>4. QED  BY <2>1, <3>1, <3>2, <3>3 DEF ViewsInv, ViewsType, ShipsAreNoted
    <2>2. QED  BY <2>1, TellKeeps, BesideKeeps, TapKeeps, ShowKeeps DEF ViewsNext
<1>3. ViewsInv => CardsComeToRest
    BY TracedRests DEF CardsComeToRest
<1>4. QED  BY <1>1, <1>2, <1>3, PTL

-----------------------------------------------------------------------------
\* Who is between its push and its pull request holds its branch.
ProposalStage == {"idle", "asked", "pushed", "looked", "proposed", "failed"}
PullRequest == [at : ProposalStage, branch : Remote, page : Page \cup {NoPage}]
HoldsItsBranch ==
    /\ asked \in [Proposer -> PullRequest]
    /\ published \in [Remote -> Proposer \cup {Nobody}]
    /\ pages \in [Page -> [branch : Remote \cup {Nobody}, open : BOOLEAN]]
    /\ \A p \in Proposer : asked[p].at \in {"pushed", "looked"} => published[asked[p].branch] = p

LEMMA HoldsAtFirst == ProposalInit => HoldsItsBranch
<1> SUFFICES ASSUME ProposalInit PROVE HoldsItsBranch
    OBVIOUS
<1>1. asked \in [Proposer -> PullRequest] /\ \A p \in Proposer : asked[p].at = "idle"
    BY DEF ProposalInit, PullRequest, ProposalStage
<1>2. published \in [Remote -> Proposer \cup {Nobody}]
    BY DEF ProposalInit
<1>3. pages \in [Page -> [branch : Remote \cup {Nobody}, open : BOOLEAN]]
    BY DEF ProposalInit, Unused
<1>4. QED  BY <1>1, <1>2, <1>3 DEF HoldsItsBranch

\* What an attempt does next, to itself alone.
LEMMA OneMoves ==
    ASSUME HoldsItsBranch, NEW p \in Proposer, NEW from \in ProposalStage, NEW to \in ProposalStage,
           Reach(p, from, to) \/ \E u \in Page : Names(p, from, u) /\ to = "proposed"
    PROVE  /\ asked' \in [Proposer -> PullRequest] /\ asked[p].at = from /\ asked'[p].at = to
           /\ asked'[p].branch = asked[p].branch
           /\ \A q \in Proposer \ {p} : asked'[q] = asked[q]
BY DEF HoldsItsBranch, Reach, Names, PullRequest

LEMMA PublishesOnce ==
    ASSUME HoldsItsBranch, NEW p \in Proposer, TakesPush(p), Publishes(p)
    PROVE  /\ published' \in [Remote -> Proposer \cup {Nobody}]
           /\ published'[asked[p].branch] = p
           /\ \A q \in Proposer : published[asked[q].branch] = q => published'[asked[q].branch] = q
BY ProposalAssumption DEF HoldsItsBranch, TakesPush, Publishes, BranchWanted, PullRequest

LEMMA OpensPage ==
    ASSUME HoldsItsBranch, NEW p \in Proposer, NEW u \in Page, Opens(p, u)
    PROVE  /\ pages' \in [Page -> [branch : Remote \cup {Nobody}, open : BOOLEAN]]
           /\ pages'[u].branch = asked[p].branch /\ pages'[u].open
BY DEF HoldsItsBranch, Opens, BranchWanted, PullRequest

LEMMA HoldsOn == ASSUME HoldsItsBranch, [ProposalNext]_proposalVars PROVE HoldsItsBranch'
<1> DEFINE Pages == [Page -> [branch : Remote \cup {Nobody}, open : BOOLEAN]]
<1>1. CASE UNCHANGED proposalVars
    BY <1>1 DEF proposalVars, HoldsItsBranch
<1>2. ASSUME NEW p \in Proposer, Propose(p)
      PROVE  HoldsItsBranch'
    <2>1. Reach(p, "idle", "asked") /\ UNCHANGED <<published, pages>>
        BY <1>2 DEF Propose
    <2>2. QED  BY <2>1, OneMoves DEF HoldsItsBranch, ProposalStage
<1>3. ASSUME NEW p \in Proposer, Push(p)
      PROVE  HoldsItsBranch'
    <2>1. CASE TakesPush(p) /\ Publishes(p) /\ Reach(p, "asked", "pushed")
        <3>1. /\ asked' \in [Proposer -> PullRequest] /\ asked'[p].branch = asked[p].branch
              /\ \A q \in Proposer \ {p} : asked'[q] = asked[q]
            BY <2>1, OneMoves DEF ProposalStage
        <3>2. /\ published' \in [Remote -> Proposer \cup {Nobody}]
              /\ published'[asked[p].branch] = p
              /\ \A q \in Proposer : published[asked[q].branch] = q => published'[asked[q].branch] = q
            BY <2>1, PublishesOnce
        <3>3. pages' = pages
            BY <1>3 DEF Push
        <3>4. QED  BY <3>1, <3>2, <3>3 DEF HoldsItsBranch
    <2>2. CASE Reach(p, "asked", "failed") /\ UNCHANGED published
        <3>1. pages' = pages
            BY <1>3 DEF Push
        <3>2. QED  BY <2>2, <3>1, OneMoves DEF HoldsItsBranch, ProposalStage
    <2>3. QED  BY <1>3, <2>1, <2>2 DEF Push
<1>4. ASSUME NEW p \in Proposer, LookFor(p)
      PROVE  HoldsItsBranch'
    <2>1. UNCHANGED <<published, pages>>
        BY <1>4 DEF LookFor
    <2>2. PICK to \in {"proposed", "looked", "failed"} :
              Reach(p, "pushed", to) \/ \E u \in Page : Names(p, "pushed", u) /\ to = "proposed"
        BY <1>4 DEF LookFor, OpenOn
    <2>3. QED  BY <2>1, <2>2, OneMoves DEF HoldsItsBranch, ProposalStage
<1>5. ASSUME NEW p \in Proposer, Create(p)
      PROVE  HoldsItsBranch'
    <2>1. published' = published
        BY <1>5 DEF Create
    <2>2. PICK to \in {"proposed", "failed"} :
              Reach(p, "looked", to) \/ \E u \in Page : Names(p, "looked", u) /\ to = "proposed"
        BY <1>5 DEF Create
    <2>3. pages' \in Pages
        BY <1>5, OpensPage DEF Create, HoldsItsBranch
    <2>4. QED  BY <2>1, <2>2, <2>3, OneMoves DEF HoldsItsBranch, ProposalStage
<1>6. ASSUME NEW p \in Proposer, TimesOut(p)
      PROVE  HoldsItsBranch'
    <2>1. UNCHANGED <<published, pages>> /\ (Reach(p, "asked", "failed") \/ Reach(p, "looked", "failed"))
        BY <1>6 DEF TimesOut
    <2>2. QED  BY <2>1, OneMoves DEF HoldsItsBranch, ProposalStage
<1>7. ASSUME NEW p \in Proposer, EndsLate(p)
      PROVE  HoldsItsBranch'
    <2>1. asked' = asked
        BY <1>7 DEF EndsLate
    <2>2. pages' \in Pages
        BY <1>7, OpensPage DEF EndsLate, HoldsItsBranch
    <2>3. (TakesPush(p) /\ Publishes(p)) \/ UNCHANGED published
        BY <1>7 DEF EndsLate
    <2>4. QED  BY <2>1, <2>2, <2>3, PublishesOnce DEF HoldsItsBranch
<1>8. ASSUME NEW b \in Remote, PersonOpens(b)
      PROVE  HoldsItsBranch'
    BY <1>8 DEF PersonOpens, HoldsItsBranch
<1>9. ASSUME NEW u \in Page, PersonCloses(u)
      PROVE  HoldsItsBranch'
    BY <1>9 DEF PersonCloses, HoldsItsBranch
<1>10. ASSUME NEW b \in Remote, PersonDeletes(b)
       PROVE  HoldsItsBranch'
    <2>1. asked' = asked /\ published' = [published EXCEPT ![b] = Nobody]
        BY <1>10 DEF PersonDeletes
    <2>2. pages' \in Pages
        BY <1>10 DEF PersonDeletes, HoldsItsBranch
    <2>3. \A p \in Proposer : asked[p].branch = b => asked[p].at \notin {"pushed", "looked"}
        BY <1>10 DEF PersonDeletes, BranchWanted
    <2>4. QED  BY <2>1, <2>2, <2>3 DEF HoldsItsBranch, PullRequest
<1>11. QED
    BY <1>1, <1>2, <1>3, <1>4, <1>5, <1>6, <1>7, <1>8, <1>9, <1>10
    DEF ProposalNext, ProposalStep

\* The pull request the engine tells of is open at that moment and shows the very
\* commit whose claims were earned, whatever another repair, a person or a command
\* given up on did to the branch before.
THEOREM ProposedIsShown == ProposalSpec => ProposedShowsItsCommit
<1>1. ASSUME HoldsItsBranch, ProposalNext, NEW p \in Proposer,
             asked[p].at # "proposed", asked'[p].at = "proposed"
      PROVE  /\ asked'[p].page \in OpenOn(BranchWanted(p))'
             /\ published'[BranchWanted(p)] = p
    <2>1. \E u \in Page : \/ LookFor(p) /\ Names(p, "pushed", u) /\ u \in OpenOn(BranchWanted(p))
                          \/ Create(p) /\ Opens(p, u) /\ Names(p, "looked", u)
        <3>1. PICK q \in Proposer : Propose(q) \/ Push(q) \/ LookFor(q) \/ Create(q) \/ TimesOut(q)
            BY <1>1 DEF ProposalNext, ProposalStep, EndsLate, PersonOpens, PersonCloses, PersonDeletes
        <3>2. q = p
            BY <1>1, <3>1
            DEF HoldsItsBranch, Propose, Push, LookFor, Create, TimesOut, Reach, Names
        <3>3. ASSUME NEW from, NEW to, Reach(p, from, to), to # "proposed"
              PROVE  FALSE
            BY <1>1, <3>3 DEF HoldsItsBranch, Reach, PullRequest
        <3>4. LookFor(p) \/ Create(p)
            BY <3>1, <3>2, <3>3 DEF Propose, Push, TimesOut
        <3>5. QED  BY <3>3, <3>4 DEF LookFor, Create, OpenOn
    <2> PICK u \in Page : \/ LookFor(p) /\ Names(p, "pushed", u) /\ u \in OpenOn(BranchWanted(p))
                          \/ Create(p) /\ Opens(p, u) /\ Names(p, "looked", u)
        BY <2>1
    <2>2. /\ asked[p].at \in {"pushed", "looked"} /\ published' = published
          /\ asked'[p].page = u /\ asked'[p].branch = asked[p].branch
        BY <1>1 DEF LookFor, Create, Names, HoldsItsBranch, PullRequest
    <2>3. published[asked[p].branch] = p
        BY <1>1, <2>2 DEF HoldsItsBranch
    <2>4. pages'[u].branch = asked[p].branch /\ pages'[u].open
        BY <1>1, OpensPage DEF LookFor, OpenOn, BranchWanted
    <2>5. QED  BY <2>2, <2>3, <2>4 DEF OpenOn, BranchWanted
<1>2. HoldsItsBranch /\ [ProposalNext]_proposalVars => HoldsItsBranch'
    BY HoldsOn
<1>3. HoldsItsBranch /\ [ProposalNext]_proposalVars =>
          [\A p \in Proposer :
             (asked[p].at # "proposed" /\ asked'[p].at = "proposed") =>
                 /\ asked'[p].page \in OpenOn(BranchWanted(p))'
                 /\ published'[BranchWanted(p)] = p]_proposalVars
    BY <1>1
<1>4. QED  BY <1>2, <1>3, HoldsAtFirst, PTL DEF ProposalSpec, ProposedShowsItsCommit

-----------------------------------------------------------------------------
\* What the digest and the agents rely on.  A digest is sent each day, so that what
\* was appended since the last one is no older than a day; a ship follows its repair
\* and a revert its ship; and of the lines that say what was done with a repair, the
\* last says whether it is in service.
DayLine == [kind: {"event", "repair_ready", "shipped", "reverted"}, story: Story, day: Nat]
Done(s) == {i \in DOMAIN lines : lines[i].story = s /\ lines[i].kind \in {"shipped", "reverted"}}
Preceded(kind, i, before) ==
    lines[i].kind = kind => \E j \in DOMAIN lines :
        j < i /\ lines[j].kind = before /\ lines[j].story = lines[i].story
SentDaily ==
    /\ today \in Nat /\ sentOn \in Nat /\ sentOn <= today /\ today <= sentOn + 1
    /\ readTo \in Nat /\ readTo <= Len(lines)
    /\ \A i \in DOMAIN lines : lines[i].day <= today /\ (i > readTo => sentOn <= lines[i].day)
InOrder ==
    \A i \in DOMAIN lines : Preceded("shipped", i, "repair_ready") /\ Preceded("reverted", i, "shipped")
LastSaysServed ==
    /\ \A s \in serving : Done(s) # {}
    /\ \A s \in Story : \A i \in Done(s) :
           (\A j \in Done(s) : j <= i) => (lines[i].kind = "shipped" <=> s \in serving)
ToldByKinds ==
    \A s \in Story : Read("repair_ready", s) =>
        told[s] = IF Read("reverted", s) THEN "rolled back"
                  ELSE IF Read("shipped", s) THEN "repaired" ELSE "awaiting"
DigestInv ==
    /\ lines \in Seq(DayLine) /\ serving \subseteq Story /\ DOMAIN told = Story
    /\ SentDaily /\ InOrder /\ LastSaysServed /\ ToldByKinds

LEMMA DigestStarts == DigestInit => DigestInv
<1> SUFFICES ASSUME DigestInit PROVE DigestInv
    OBVIOUS
<1>1. lines \in Seq(DayLine) /\ Len(lines) = 0 /\ DOMAIN lines = {}
    BY DEF DigestInit
<1>2. SentDaily
    BY <1>1 DEF DigestInit, SentDaily
<1>3. InOrder /\ LastSaysServed
    BY <1>1 DEF DigestInit, InOrder, LastSaysServed, Done
<1>4. ToldByKinds
    BY DEF DigestInit, ToldByKinds, Read, Says
<1>5. QED  BY <1>1, <1>2, <1>3, <1>4 DEF DigestInit, DigestInv

LEMMA LinesTyped ==
    ASSUME DigestInv
    PROVE  /\ DOMAIN lines = 1 .. Len(lines) /\ Len(lines) \in Nat
           /\ \A i \in DOMAIN lines : lines[i] \in DayLine /\ lines[i].day \in Nat
<1>1. /\ DOMAIN lines = 1 .. Len(lines) /\ Len(lines) \in Nat
      /\ \A i \in DOMAIN lines : lines[i] \in DayLine
    BY DEF DigestInv
<1>2. \A line \in DayLine : line.day \in Nat
    BY DEF DayLine
<1>3. QED  BY <1>1, <1>2

\* A kind is told of a story by a line.
LEMMA ToldByLine ==
    ASSUME NEW kind, NEW s
    PROVE  IsTold(kind, s) <=> \E i \in DOMAIN lines : lines[i].kind = kind /\ lines[i].story = s
BY DEF IsTold, DaysOf

\* A kind of line whose last day fell out of the window was all read by the last digest.
LEMMA OldIsRead ==
    ASSUME DigestInv, NEW kind, NEW s, IsTold(kind, s), ~Within(LastDay(kind, s)),
           NEW i \in DOMAIN lines, lines[i].kind = kind, lines[i].story = s
    PROVE  i \in 1 .. readTo
<1> DEFINE D == DaysOf(kind, s)
<1>1. /\ DOMAIN lines = 1 .. Len(lines) /\ Len(lines) \in Nat
      /\ \A j \in DOMAIN lines : lines[j].day \in Nat
    BY LinesTyped
<1>2. D \in SUBSET Nat /\ D # {} /\ \A d \in D : d <= today
    BY <1>1 DEF DaysOf, IsTold, DigestInv, SentDaily
<1>3. today \in Nat /\ sentOn \in Nat /\ today <= sentOn + 1 /\ readTo \in Nat
    BY DEF DigestInv, SentDaily
<1>4. \E d \in D : \A e \in D : e <= d
    <2> HIDE DEF D
    <2>1. QED  BY <1>2, <1>3, GreatestNat
<1>5. LastDay(kind, s) \in D /\ \A e \in D : e <= LastDay(kind, s)
    BY <1>4 DEF LastDay
<1>6. lines[i].day \in D
    BY DEF DaysOf
<1>7. lines[i].day <= LastDay(kind, s) /\ LastDay(kind, s) \in Nat /\ lines[i].day \in Nat
    BY <1>2, <1>5, <1>6
<1>8. today - LastDay(kind, s) > Since /\ Since \in Nat /\ Since >= 1
    BY <1>3, <1>7, DigestAssumption DEF Within
<1>9. lines[i].day < sentOn
    BY <1>3, <1>7, <1>8
<1>10. ~(i > readTo)
    BY <1>3, <1>7, <1>9 DEF DigestInv, SentDaily
<1>11. QED  BY <1>1, <1>3, <1>10

\* What was read of a shipped or reverted repair includes what came before it.
LEMMA ReadBefore ==
    ASSUME DigestInv, NEW s
    PROVE  /\ Read("shipped", s) => Read("repair_ready", s)
           /\ Read("reverted", s) => Read("repair_ready", s)
<1>1. /\ DOMAIN lines = 1 .. Len(lines) /\ Len(lines) \in Nat /\ readTo \in Nat /\ readTo <= Len(lines)
    BY DEF DigestInv, SentDaily
<1>2. ASSUME Read("shipped", s)
      PROVE  Read("repair_ready", s)
    <2>1. PICK i \in 1 .. readTo : lines[i].kind = "shipped" /\ lines[i].story = s
        BY <1>2 DEF Read, Says
    <2>2. PICK j \in DOMAIN lines : j < i /\ lines[j].kind = "repair_ready" /\ lines[j].story = s
        BY <1>1, <2>1 DEF DigestInv, InOrder, Preceded
    <2>3. QED  BY <1>1, <2>1, <2>2 DEF Read, Says
<1>3. ASSUME Read("reverted", s)
      PROVE  Read("shipped", s)
    <2>1. PICK i \in 1 .. readTo : lines[i].kind = "reverted" /\ lines[i].story = s
        BY <1>3 DEF Read, Says
    <2>2. PICK j \in DOMAIN lines : j < i /\ lines[j].kind = "shipped" /\ lines[j].story = s
        BY <1>1, <2>1 DEF DigestInv, InOrder, Preceded
    <2>3. QED  BY <1>1, <2>1, <2>2 DEF Read, Says
<1>4. QED  BY <1>2, <1>3

LEMMA SentIsTrue == ASSUME DigestInv, Send PROVE ToldByKinds'
<1> SUFFICES ASSUME NEW s \in Story, Read("repair_ready", s)'
             PROVE  told'[s] = IF Read("reverted", s)' THEN "rolled back"
                               ELSE IF Read("shipped", s)' THEN "repaired" ELSE "awaiting"
    BY DEF ToldByKinds
<1>1. /\ lines' = lines /\ readTo' = Len(lines) /\ DOMAIN lines = 1 .. Len(lines)
    BY LinesTyped DEF Send
<1>2. \A kind : Read(kind, s)' <=> IsTold(kind, s)
    BY <1>1, ToldByLine DEF Read, Says
<1>3. told'[s] = IF s \in RolledBack THEN "rolled back"
                 ELSE IF s \in Repaired THEN "repaired"
                 ELSE IF s \in Awaiting THEN "awaiting"
                 ELSE IF s \in Unresolved THEN "unresolved" ELSE told[s]
    BY DEF Send
<1>4. IsTold("repair_ready", s) /\ s \notin Unresolved
    BY <1>2 DEF Unresolved
<1>5. ASSUME NEW kind, IsTold(kind, s), ~Within(LastDay(kind, s))
      PROVE  Read(kind, s)
    BY <1>5, ToldByLine, OldIsRead DEF Read, Says
<1>6. CASE IsTold("reverted", s)
    <2>1. s \notin Repaired /\ s \notin Awaiting
        BY <1>6 DEF Repaired, Awaiting
    <2>2. CASE s \in RolledBack
        BY <1>2, <1>3, <1>6, <2>2
    <2>3. CASE s \notin RolledBack
        <3>1. Read("reverted", s)
            BY <1>5, <1>6, <2>3 DEF RolledBack
        <3>2. told[s] = "rolled back"
            BY <3>1, ReadBefore DEF DigestInv, ToldByKinds
        <3>3. QED  BY <1>2, <1>3, <1>4, <1>6, <2>1, <2>3, <3>2
    <2>4. QED  BY <2>2, <2>3
<1>7. CASE ~IsTold("reverted", s) /\ IsTold("shipped", s)
    <2>1. s \notin RolledBack /\ s \notin Awaiting
        BY <1>7 DEF RolledBack, Awaiting
    <2>2. CASE s \in Repaired
        BY <1>2, <1>3, <1>7, <2>1, <2>2
    <2>3. CASE s \notin Repaired
        <3>1. Read("shipped", s)
            BY <1>5, <1>7, <2>3 DEF Repaired
        <3>2. ~Read("reverted", s)
            BY <1>7, ToldByLine DEF Read, Says, DigestInv, SentDaily
        <3>3. told[s] = "repaired"
            BY <3>1, <3>2, ReadBefore DEF DigestInv, ToldByKinds
        <3>4. QED  BY <1>2, <1>3, <1>4, <1>7, <2>1, <2>3, <3>3
    <2>4. QED  BY <2>2, <2>3
<1>8. CASE ~IsTold("reverted", s) /\ ~IsTold("shipped", s)
    <2>1. s \notin RolledBack /\ s \notin Repaired /\ s \in Awaiting
        BY <1>4, <1>8 DEF RolledBack, Repaired, Awaiting
    <2>2. QED  BY <1>2, <1>3, <1>8, <2>1
<1>9. QED  BY <1>6, <1>7, <1>8

\* A line more: what was read stays read, the new line is of today.
LEMMA TellingKeeps ==
    ASSUME DigestInv, NEW kind \in {"event", "repair_ready", "shipped", "reverted"},
           NEW s \in Story, Telling(kind, s)
    PROVE  DigestInv'
<1> DEFINE line == [kind |-> kind, story |-> s, day |-> today]
<1>0. PICK n \in Nat : n = Len(lines)
    BY LinesTyped
<1>1. /\ n \in Nat /\ DOMAIN lines = 1 .. n /\ today \in Nat /\ sentOn \in Nat /\ sentOn <= today
      /\ readTo \in Nat /\ readTo <= n
    BY <1>0, LinesTyped DEF DigestInv, SentDaily
<1>2. line \in DayLine /\ line.kind = kind /\ line.story = s /\ line.day = today
    BY <1>1 DEF DayLine
<1>3. /\ lines' \in Seq(DayLine) /\ Len(lines') = n + 1 /\ DOMAIN lines' = 1 .. n + 1
      /\ lines'[n + 1] = line /\ \A i \in 1 .. n : lines'[i] = lines[i]
    <2> HIDE DEF line
    <2>1. lines' = Append(lines, line) /\ lines \in Seq(DayLine)
        BY DEF Telling, DigestInv, line
    <2>2. QED  BY <1>0, <1>1, <1>2, <2>1
<1>4. UNCHANGED <<today, readTo, sentOn, told>>
    BY DEF Telling
<1>5. serving' = IF kind = "shipped" THEN serving \cup {s}
                 ELSE IF kind = "reverted" THEN serving \ {s} ELSE serving
    BY DEF Telling
<1> HIDE DEF line
<1>6. SentDaily'
    BY <1>1, <1>2, <1>3, <1>4 DEF DigestInv, SentDaily
<1>7. InOrder'
    <2>1. ASSUME NEW k, NEW before, NEW i \in 1 .. n, Preceded(k, i, before)
          PROVE  Preceded(k, i, before)'
        BY <1>1, <1>3, <2>1 DEF Preceded
    <2>2. kind = "shipped" => \E j \in 1 .. n : lines[j].kind = "repair_ready" /\ lines[j].story = s
        BY <1>1, ToldByLine DEF Telling
    <2>3. kind = "reverted" => \E j \in 1 .. n : lines[j].kind = "shipped" /\ lines[j].story = s
        <3> SUFFICES ASSUME kind = "reverted"
                     PROVE  \E j \in 1 .. n : lines[j].kind = "shipped" /\ lines[j].story = s
            OBVIOUS
        <3>1. PICK i \in Done(s) : TRUE
            BY DEF Telling, DigestInv, LastSaysServed
        <3>2. i \in 1 .. n /\ lines[i].story = s /\ lines[i].kind \in {"shipped", "reverted"}
            BY <1>1, <3>1 DEF Done
        <3>3. QED  BY <1>1, <3>2 DEF DigestInv, InOrder, Preceded
    <2>4. (lines'[n + 1].kind = kind /\ lines'[n + 1].story = s) /\ n + 1 \in Nat
        BY <1>1, <1>2, <1>3
    <2>5. ASSUME NEW k, NEW before,
                 kind = k => \E j \in 1 .. n : lines[j].kind = before /\ lines[j].story = s
          PROVE  Preceded(k, n + 1, before)'
        <3> SUFFICES ASSUME kind = k
                     PROVE  \E j \in DOMAIN lines' :
                                j < n + 1 /\ lines'[j].kind = before /\ lines'[j].story = s
            BY <2>4 DEF Preceded
        <3>1. PICK j \in 1 .. n : lines[j].kind = before /\ lines[j].story = s
            BY <2>5
        <3>2. j \in 1 .. n + 1 /\ j < n + 1 /\ lines'[j] = lines[j]
            BY <1>1, <1>3
        <3>3. QED  BY <1>3, <3>1, <3>2
    <2>6. Preceded("shipped", n + 1, "repair_ready")' /\ Preceded("reverted", n + 1, "shipped")'
        BY <2>2, <2>3, <2>5
    <2>7. \A i \in DOMAIN lines' : i \in 1 .. n \/ i = n + 1
        BY <1>1, <1>3
    <2>8. QED  BY <1>1, <2>1, <2>6, <2>7 DEF DigestInv, InOrder
<1>8. LastSaysServed'
    <2>1. \A t : Done(t)' = IF t = s /\ kind \in {"shipped", "reverted"} THEN Done(t) \cup {n + 1} ELSE Done(t)
        BY <1>1, <1>2, <1>3 DEF Done
    <2>2. \A t : Done(t) \subseteq 1 .. n
        BY <1>1 DEF Done
    <2>3. \A t \in serving' : Done(t)' # {}
        BY <1>5, <2>1 DEF DigestInv, LastSaysServed
    <2>4. ASSUME NEW t \in Story, NEW i \in Done(t)', \A j \in Done(t)' : j <= i
          PROVE  lines'[i].kind = "shipped" <=> t \in serving'
        <3>1. CASE t = s /\ kind \in {"shipped", "reverted"}
            <4>1. Done(t)' = Done(t) \cup {n + 1}
                BY <2>1, <3>1
            <4>2. n + 1 <= i /\ (i \in 1 .. n \/ i = n + 1)
                BY <2>2, <2>4, <4>1
            <4>3. i = n + 1
                BY <1>1, <4>2
            <4>4. QED  BY <1>2, <1>3, <1>5, <3>1, <4>3
        <3>2. CASE ~(t = s /\ kind \in {"shipped", "reverted"})
            <4>1. Done(t)' = Done(t) /\ i \in 1 .. n /\ lines'[i] = lines[i]
                BY <1>3, <2>1, <2>2, <3>2
            <4>2. t \in serving' <=> t \in serving
                BY <1>5, <3>2
            <4>3. QED  BY <2>4, <4>1, <4>2 DEF DigestInv, LastSaysServed
        <3>3. QED  BY <3>1, <3>2
    <2>5. QED  BY <2>3, <2>4 DEF LastSaysServed
<1>9. ToldByKinds'
    <2>1. \A k, t : Read(k, t)' <=> Read(k, t)
        BY <1>1, <1>3, <1>4 DEF Read, Says
    <2>2. QED  BY <1>4, <2>1 DEF DigestInv, ToldByKinds
<1>10. serving' \subseteq Story
    BY <1>5 DEF DigestInv
<1>11. QED  BY <1>3, <1>4, <1>6, <1>7, <1>8, <1>9, <1>10 DEF DigestInv

LEMMA SameLines == ASSUME DigestInv, UNCHANGED <<lines, serving>> PROVE InOrder' /\ LastSaysServed'
<1>1. InOrder'
    BY DEF DigestInv, InOrder, Preceded
<1>2. LastSaysServed'
    BY DEF DigestInv, LastSaysServed, Done
<1>3. QED  BY <1>1, <1>2

LEMMA SameWord == ASSUME DigestInv, UNCHANGED <<lines, readTo, told>> PROVE ToldByKinds'
<1>1. \A k, t : Read(k, t)' <=> Read(k, t)
    BY DEF Read, Says
<1>2. QED  BY <1>1 DEF DigestInv, ToldByKinds

LEMMA DigestSteps == ASSUME DigestInv, [DigestNext]_digestVars PROVE DigestInv'
<1>1. CASE UNCHANGED digestVars
    <2>1. UNCHANGED <<lines, today, readTo, sentOn, told, serving>>
        BY <1>1 DEF digestVars
    <2>2. SentDaily' /\ lines' \in Seq(DayLine) /\ serving' \subseteq Story /\ DOMAIN told' = Story
        BY <2>1 DEF DigestInv, SentDaily
    <2>3. InOrder' /\ LastSaysServed'
        BY <2>1, SameLines
    <2>4. ToldByKinds'
        BY <2>1, SameWord
    <2>5. QED  BY <2>2, <2>3, <2>4 DEF DigestInv
<1>2. CASE Send
    <2>1. UNCHANGED <<lines, today, serving>> /\ sentOn' = today /\ readTo' = Len(lines)
        BY <1>2 DEF Send
    <2>2. InOrder' /\ LastSaysServed' /\ lines' \in Seq(DayLine) /\ serving' \subseteq Story
        BY <2>1, SameLines DEF DigestInv
    <2>3. SentDaily'
        BY <2>1 DEF DigestInv, SentDaily
    <2>4. DOMAIN told' = Story
        BY <1>2 DEF Send
    <2>5. QED  BY <1>2, <2>2, <2>3, <2>4, SentIsTrue DEF DigestInv
<1>3. CASE DayEnds
    <2>1. UNCHANGED <<lines, readTo, sentOn, told, serving>> /\ sentOn = today /\ today' = today + 1
        BY <1>3 DEF DayEnds
    <2>2. InOrder' /\ LastSaysServed' /\ ToldByKinds'
        <3>1. InOrder' /\ LastSaysServed'
            BY <2>1, SameLines
        <3>2. ToldByKinds'
            BY <2>1, SameWord
        <3>3. QED  BY <3>1, <3>2
    <2>3. \A i \in DOMAIN lines : lines[i].day \in Nat
        BY LinesTyped
    <2>4. SentDaily'
        BY <2>1, <2>3 DEF DigestInv, SentDaily
    <2>5. QED  BY <2>1, <2>2, <2>4 DEF DigestInv
<1>4. QED  BY <1>1, <1>2, <1>3, TellingKeeps DEF DigestNext

\* Who reads every digest knows of each repair how it stood when the last one was built,
\* however long the window is and wherever it fell, but for one that was shipped again
\* after it was reverted.
THEOREM LastWordStands == DigestSpec => []LastWordIsTrue
<1>1. ASSUME DigestInv
      PROVE  LastWordIsTrue
    <2> SUFFICES ASSUME NEW s \in Story, Read("repair_ready", s)
                 PROVE  told[s] = StoodAs(s) \/ (told[s] = "rolled back" /\ ShippedAgain(s))
        BY DEF LastWordIsTrue
    <2>1. told[s] = IF Read("reverted", s) THEN "rolled back"
                    ELSE IF Read("shipped", s) THEN "repaired" ELSE "awaiting"
        BY <1>1 DEF DigestInv, ToldByKinds
    <2>2. CASE Read("reverted", s)
        <3>1. PICK i \in 1 .. readTo : Says(i, "reverted", s)
            BY <2>2 DEF Read
        <3>2. CASE \A j \in i + 1 .. readTo : ~Says(j, "shipped", s)
            BY <2>1, <2>2, <3>1, <3>2 DEF StoodAs
        <3>3. CASE \E j \in i + 1 .. readTo : Says(j, "shipped", s)
            BY <2>1, <2>2, <3>1, <3>3 DEF ShippedAgain
        <3>4. QED  BY <3>2, <3>3
    <2>3. CASE ~Read("reverted", s)
        BY <2>1, <2>3 DEF StoodAs, Read
    <2>4. QED  BY <2>2, <2>3
<1>2. QED  BY <1>1, DigestStarts, DigestSteps, PTL DEF DigestSpec

\* What became of a repair is what the last of its lines says.
LEMMA FateIsTrue ==
    ASSUME DigestInv, NEW s \in Story
    PROVE  /\ Fate(s) = "shipped" <=> s \in serving
           /\ Fate(s) = "reverted" <=> IsTold("reverted", s) /\ s \notin serving
<1>1. /\ Done(s) \in SUBSET Nat /\ Len(lines) \in Nat /\ \A i \in Done(s) : i <= Len(lines)
    BY DEF Done, DigestInv
<1>2. CASE Done(s) = {}
    <2>1. Fate(s) = "never shipped"
        BY <1>2 DEF Fate, Done
    <2>2. s \notin serving /\ ~IsTold("reverted", s)
        BY <1>2, ToldByLine DEF Done, DigestInv, LastSaysServed
    <2>3. QED  BY <2>1, <2>2
<1>3. CASE Done(s) # {}
    <2> DEFINE last == CHOOSE i \in Done(s) : \A j \in Done(s) : j <= i
    <2>1. last \in Done(s) /\ \A j \in Done(s) : j <= last
        <3>1. \E i \in Done(s) : \A j \in Done(s) : j <= i
            BY <1>1, <1>3, GreatestNat
        <3>2. QED  BY <3>1
    <2>2. Fate(s) = lines[last].kind
        BY <1>3 DEF Fate, Done
    <2> HIDE DEF last
    <2>3. lines[last].kind \in {"shipped", "reverted"} /\ last \in DOMAIN lines /\ lines[last].story = s
        BY <2>1 DEF Done
    <2>4. lines[last].kind = "shipped" <=> s \in serving
        BY <2>1 DEF DigestInv, LastSaysServed
    <2>5. lines[last].kind = "reverted" => IsTold("reverted", s)
        BY <2>3, ToldByLine
    <2>6. QED  BY <2>2, <2>3, <2>4, <2>5
<1>4. QED  BY <1>2, <1>3

LEMMA NewestIsRemembered ==
    ASSUME DigestInv, NEW naming \in SUBSET Story, NEW i \in DOMAIN lines, IsRepairOf(i, naming),
           \A j \in DOMAIN lines : IsRepairOf(j, naming) => j <= i
    PROVE  \E r \in Remembered(naming) : r.story = lines[i].story
<1> DEFINE named == {m \in DOMAIN lines : lines[m].kind = "repair_ready" /\ lines[m].story \in naming}
<1>1. named \in SUBSET Nat /\ i \in named /\ \A j \in named : j <= i
    BY DEF DigestInv, IsRepairOf
<1>2. {j \in named : j > i} = {}
    <2> HIDE DEF named
    <2>1. \A j \in named : j \in Nat /\ i \in Nat /\ j <= i
        BY <1>1
    <2>2. \A j \in named : ~(j > i)
        BY <2>1
    <2>3. QED  BY <2>2
<1>3. Cardinality({j \in named : j > i}) = 0
    BY <1>2, FS_EmptySet
<1>4. 0 < MAX_REMEMBERED
    BY DigestAssumption
<1>5. i \in {m \in named : Cardinality({j \in named : j > m}) < MAX_REMEMBERED}
    BY <1>1, <1>3, <1>4
<1>6. [story |-> lines[i].story, fate |-> Fate(lines[i].story)] \in Remembered(naming)
    BY <1>5 DEF Remembered
<1>7. QED  BY <1>6

\* An agent that starts a repair hears of a past one that it stands if and only if it is
\* in service, however often it was shipped and reverted, and of the one proposed last
\* always.
THEOREM RecallStands == DigestSpec => []RecallIsTrue
<1>1. ASSUME DigestInv
      PROVE  RecallIsTrue
    <2>1. ASSUME NEW naming \in SUBSET Story, NEW r \in Remembered(naming)
          PROVE  \E s \in Story : r = [story |-> s, fate |-> Fate(s)]
        BY <2>1 DEF Remembered
    <2>2. ASSUME NEW naming \in SUBSET Story, NEW r \in Remembered(naming)
          PROVE  /\ r.fate = "shipped" <=> r.story \in serving
                 /\ r.fate = "reverted" <=> IsTold("reverted", r.story) /\ r.story \notin serving
        <3>1. PICK s \in Story : r = [story |-> s, fate |-> Fate(s)]
            BY <2>1
        <3>2. r.story = s /\ r.fate = Fate(s)
            BY <3>1
        <3>3. QED  BY <1>1, <3>2, FateIsTrue
    <2>3. QED  BY <1>1, <2>2, NewestIsRemembered DEF RecallIsTrue
<1>2. QED  BY <1>1, DigestStarts, DigestSteps, PTL DEF DigestSpec

\* All of it together: the page that is reviewed, the digest and the agents' memory say
\* what is so.
THEOREM ShownStaysTrue == ProposalSpec /\ DigestSpec => ShownIsTrue
<1>1. LastWordIsTrue /\ RecallIsTrue => (part = "digest" => LastWordIsTrue /\ RecallIsTrue)
    OBVIOUS
<1>2. QED  BY <1>1, ProposedIsShown, LastWordStands, RecallStands, PTL DEF ShownIsTrue

-----------------------------------------------------------------------------
\* What the record commands list.  A page is torn and whole lines.
PageLine == {Torn} \cup {Whole(line, at) : line \in Written, at \in 0 .. LastHour}
Wholes == (DOMAIN page) \ TornLines
ReadingInv ==
    /\ hour \in Nat /\ open \in BOOLEAN /\ appended \in Nat /\ page \in Seq(PageLine)
    /\ appended <= Len(page) /\ (open => appended < Len(page))

LEMMA WholeIsALine ==
    ASSUME ReadingInv, NEW n \in Wholes
    PROVE  /\ page[n].line \in Written /\ page[n].at \in Nat
           /\ Age(page[n]) \in Nat
<1>1. PICK P : P = PageLine
    OBVIOUS
<1>2. page \in Seq(P)
    BY <1>1 DEF ReadingInv
<1>3. page[n] \in P /\ ~page[n].torn
    BY <1>2 DEF Wholes, TornLines
<1>4. PICK line \in Written, at \in 0 .. LastHour : page[n] = Whole(line, at)
    BY <1>1, <1>3 DEF PageLine, Torn
<1>5. page[n].line = line /\ page[n].at = at
    BY <1>4 DEF Whole
<1>6. QED  BY <1>5, RecordReadingAssumption DEF Age, ReadingInv

LEMMA KeepIs ==
    ASSUME NEW S, NEW s \in Seq(S), NEW kept \in SUBSET (DOMAIN s)
    PROVE  /\ Keep(s, kept) \in Seq(S) /\ \E g : Places(g, s, kept, Keep(s, kept))
           /\ IsFiniteSet(kept) /\ Cardinality(kept) = Len(Keep(s, kept))
<1>1. PICK ss : ss = [n \in DOMAIN s |-> IF n \in kept THEN <<s[n]>> ELSE << >>]
    OBVIOUS
<1>2. Keep(s, kept) = FlattenSeq(ss)
    BY <1>1 DEF Keep
<1>3. PICK g : FlattenSeq(ss) \in Seq(S) /\ Places(g, s, kept, FlattenSeq(ss))
    BY <1>1, KeptPlaces
<1>4. PICK q \in Seq(S) : q = Keep(s, kept)
    BY <1>2, <1>3
<1>5. Places(g, s, kept, q) /\ Len(q) \in Nat /\ kept \in SUBSET Nat
    BY <1>2, <1>3, <1>4
<1>6. IsFiniteSet(kept) /\ Cardinality(kept) = Len(q)
    BY <1>5, KeptCount
<1>7. QED  BY <1>4, <1>5, <1>6

\* Places from the newest to the oldest, none left out.
Newest(g, q, among) ==
    /\ g \in [1 .. Len(q) -> among]
    /\ \A i \in 1 .. Len(q) : q[i] = page[g[i]]
    /\ \A i, j \in 1 .. Len(q) : i < j => g[j] < g[i]
    /\ \A n \in among : \E i \in 1 .. Len(q) : g[i] = n

LEMMA LoadedIsNewest ==
    ASSUME ReadingInv
    PROVE  /\ Load.entries \in Seq(PageLine) /\ \E g : Newest(g, Load.entries, Wholes)
           /\ Len(page) = Len(Load.entries) + Load.skipped /\ Load.skipped \in Nat
<1>1. PICK P : P = PageLine
    OBVIOUS
<1>2. page \in Seq(P) /\ Wholes \in SUBSET (DOMAIN page)
    BY <1>1 DEF ReadingInv, Wholes
<1>3. PICK k, g : /\ k \in Seq(P) /\ k = Keep(page, Wholes) /\ Places(g, page, Wholes, k)
                  /\ IsFiniteSet(Wholes) /\ Cardinality(Wholes) = Len(k)
    BY <1>2, KeepIs
<1>4. PICK n \in Nat : n = Len(k)
    BY <1>3
<1>5. /\ g \in [1 .. n -> Wholes] /\ \A i \in 1 .. n : k[i] = page[g[i]]
      /\ \A i, j \in 1 .. n : i < j => g[i] < g[j]
      /\ \A w \in Wholes : \E i \in 1 .. n : g[i] = w
    BY <1>3, <1>4 DEF Places
<1>6. Load.entries = [i \in 1 .. n |-> k[(n - i) + 1]] /\ Load.skipped = Cardinality(TornLines)
    BY <1>3, <1>4 DEF Load, Reverse, Wholes
<1>7. \A i \in 1 .. n : (n - i) + 1 \in 1 .. n /\ k[(n - i) + 1] \in P
    BY <1>3, <1>4
<1>8. PICK q \in Seq(P) : /\ q = Load.entries /\ Len(q) = n
                          /\ \A i \in 1 .. n : q[i] = k[(n - i) + 1]
    <2>1. Load.entries \in [1 .. n -> P]
        BY <1>6, <1>7
    <2>2. Load.entries \in Seq(P) /\ Len(Load.entries) = n
        BY <2>1
    <2>3. QED  BY <1>6, <2>2
<1>9. PICK h : h = [i \in 1 .. n |-> g[(n - i) + 1]]
    OBVIOUS
<1>10. Newest(h, q, Wholes)
    <2>1. h \in [1 .. n -> Wholes]
        BY <1>5, <1>7, <1>9
    <2>2. \A i \in 1 .. n : q[i] = page[h[i]]
        BY <1>5, <1>7, <1>8, <1>9
    <2>3. \A i, j \in 1 .. n : i < j => h[j] < h[i]
        <3>1. \A i, j \in 1 .. n : i < j => (n - j) + 1 < (n - i) + 1
            OBVIOUS
        <3>2. QED  BY <1>5, <1>7, <1>9, <3>1
    <2>4. \A w \in Wholes : \E i \in 1 .. n : h[i] = w
        <3> SUFFICES ASSUME NEW w \in Wholes PROVE \E i \in 1 .. n : h[i] = w
            OBVIOUS
        <3>1. PICK i \in 1 .. n : g[i] = w
            BY <1>5
        <3>2. (n - i) + 1 \in 1 .. n /\ (n - ((n - i) + 1)) + 1 = i
            OBVIOUS
        <3>3. h[(n - i) + 1] = w
            BY <1>9, <3>1, <3>2
        <3>4. QED  BY <3>2, <3>3
    <2>5. QED  BY <1>8, <2>1, <2>2, <2>3, <2>4 DEF Newest
<1>11. Len(page) = n + Cardinality(TornLines) /\ Cardinality(TornLines) \in Nat
    <2>1. PICK m \in Nat : m = Len(page) /\ DOMAIN page = 1 .. m
        BY <1>2
    <2>2. IsFiniteSet(1 .. m) /\ Cardinality(1 .. m) = m
        BY FS_Interval
    <2>3. TornLines \in SUBSET (1 .. m) /\ Wholes = (1 .. m) \ TornLines
        BY <2>1 DEF TornLines, Wholes
    <2>4. IsFiniteSet(TornLines) /\ Cardinality(TornLines) \in Nat
        BY <2>2, <2>3, FS_Subset, FS_CardinalityType
    <2>5. Cardinality((1 .. m) \ TornLines) = Cardinality(1 .. m) - Cardinality((1 .. m) \cap TornLines)
        BY <2>2, FS_Difference
    <2>6. (1 .. m) \cap TornLines = TornLines
        BY <2>3
    <2>7. Cardinality(Wholes) = m - Cardinality(TornLines)
        BY <2>2, <2>3, <2>5, <2>6
    <2>8. QED  BY <1>3, <1>4, <2>1, <2>4, <2>7
<1>12. QED  BY <1>1, <1>6, <1>8, <1>10, <1>11

LEMMA CountOfNewest ==
    ASSUME NEW n \in Nat, NEW among \in SUBSET Nat, NEW g \in [1 .. n -> among],
           \A i, j \in 1 .. n : i < j => g[j] < g[i],
           \A k \in among : \E i \in 1 .. n : g[i] = k
    PROVE  IsFiniteSet(among) /\ Cardinality(among) = n
<1>1. \A i, j \in 1 .. n : g[i] = g[j] => i = j
    <2>1. \A i, j \in 1 .. n : i < j \/ j < i \/ i = j
        OBVIOUS
    <2>2. \A i \in 1 .. n : g[i] \in Nat
        OBVIOUS
    <2>3. QED  BY <2>1, <2>2
<1>2. g \in Bijection(1 .. n, among)
    BY <1>1 DEF Bijection, Injection, Surjection, IsInjective
<1>3. ExistsBijection(1 .. n, among)
    BY <1>2 DEF ExistsBijection
<1>4. IsFiniteSet(1 .. n) /\ Cardinality(1 .. n) = n
    BY FS_Interval
<1>5. QED  BY <1>3, <1>4, FS_Bijection

\* The lines young enough, of which the newest are listed.
Young(since) == {n \in DOMAIN page : ~page[n].torn /\ Age(page[n]) <= since}

LEMMA FilteredIsNewest ==
    ASSUME ReadingInv, NEW since
    PROVE  LET r == FilterSince(Load.entries, since) IN
           /\ r \in Seq(PageLine) /\ \E g : Newest(g, r, Young(since))
           /\ IsFiniteSet(Young(since)) /\ Cardinality(Young(since)) = Len(r)
<1>1. PICK P, q : P = PageLine /\ q \in Seq(P) /\ q = Load.entries /\ \E g : Newest(g, q, Wholes)
    BY LoadedIsNewest
<1>2. PICK g : Newest(g, q, Wholes)
    BY <1>1
<1>3. PICK old : old = {n \in DOMAIN q : Age(q[n]) <= since}
    OBVIOUS
<1>4. PICK r, h : /\ r = Keep(q, old) /\ r \in Seq(P) /\ Places(h, q, old, r)
    <2>1. old \in SUBSET (DOMAIN q)
        BY <1>3
    <2>2. QED  BY <1>1, <2>1, KeepIs
<1>5. r = FilterSince(Load.entries, since)
    BY <1>1, <1>3, <1>4 DEF FilterSince
<1>6. PICK n \in Nat, m \in Nat : n = Len(r) /\ m = Len(q)
    BY <1>1, <1>4
<1>7. /\ g \in [1 .. m -> Wholes] /\ \A i \in 1 .. m : q[i] = page[g[i]]
      /\ \A i, j \in 1 .. m : i < j => g[j] < g[i]
      /\ \A w \in Wholes : \E i \in 1 .. m : g[i] = w
    BY <1>2, <1>6 DEF Newest
<1>8. /\ h \in [1 .. n -> old] /\ \A i \in 1 .. n : r[i] = q[h[i]]
      /\ \A i, j \in 1 .. n : i < j => h[i] < h[j]
      /\ \A k \in old : \E i \in 1 .. n : h[i] = k
    BY <1>4, <1>6 DEF Places
<1>9. \A i \in 1 .. n : h[i] \in 1 .. m /\ Age(q[h[i]]) <= since
    BY <1>1, <1>3, <1>6, <1>8
<1>10. PICK c : c = [i \in 1 .. n |-> g[h[i]]]
    OBVIOUS
<1>11. c \in [1 .. n -> Young(since)]
    <2>1. \A i \in 1 .. n : c[i] \in Wholes /\ q[h[i]] = page[c[i]]
        BY <1>7, <1>9, <1>10
    <2>2. \A i \in 1 .. n : c[i] \in Young(since)
        BY <1>9, <2>1 DEF Young, Wholes, TornLines
    <2>3. QED  BY <1>10, <2>2
<1>12. \A i \in 1 .. n : r[i] = page[c[i]]
    BY <1>7, <1>8, <1>9, <1>10
<1>13. \A i, j \in 1 .. n : i < j => c[j] < c[i]
    BY <1>7, <1>8, <1>9, <1>10
<1>14. \A w \in Young(since) : \E i \in 1 .. n : c[i] = w
    <2> SUFFICES ASSUME NEW w \in Young(since) PROVE \E i \in 1 .. n : c[i] = w
        OBVIOUS
    <2>1. w \in Wholes /\ Age(page[w]) <= since
        BY DEF Young, Wholes, TornLines
    <2>2. PICK k \in 1 .. m : g[k] = w
        BY <1>7, <2>1
    <2>3. k \in old
        BY <1>1, <1>3, <1>6, <1>7, <2>1, <2>2
    <2>4. PICK i \in 1 .. n : h[i] = k
        BY <1>8, <2>3
    <2>5. QED  BY <1>10, <2>2, <2>4
<1>15. IsFiniteSet(Young(since)) /\ Cardinality(Young(since)) = n
    <2>1. Young(since) \in SUBSET Nat
        BY DEF Young, ReadingInv
    <2>2. QED  BY <1>11, <1>13, <1>14, <2>1, CountOfNewest
<1>16. Newest(c, r, Young(since))
    BY <1>6, <1>11, <1>12, <1>13, <1>14 DEF Newest
<1>17. QED  BY <1>1, <1>4, <1>5, <1>6, <1>15, <1>16

\* What is listed: the newest of the young, as many as were asked for.
LEMMA ListedAreTheNewest ==
    ASSUME ReadingInv, NEW since, NEW limit \in Nat,
           NEW among, among = Listed(Load.entries, since, limit)
    PROVE  /\ among \in Seq(PageLine)
           /\ Len(among) = IF Cardinality(Young(since)) < limit THEN Cardinality(Young(since)) ELSE limit
           /\ \A i \in DOMAIN among : \E n \in Young(since) : among[i] = page[n]
           /\ \A j \in Young(since) : (\E i \in DOMAIN among : among[i] = page[j])
                 \/ Cardinality({i \in Young(since) : i > j}) >= limit
<1>1. PICK P, r, c : /\ P = PageLine /\ r \in Seq(P) /\ r = FilterSince(Load.entries, since)
                     /\ Newest(c, r, Young(since))
                     /\ IsFiniteSet(Young(since)) /\ Cardinality(Young(since)) = Len(r)
    BY FilteredIsNewest
<1>2. PICK n \in Nat : n = Len(r)
    BY <1>1
<1>3. PICK m \in Nat : m = IF limit < n THEN limit ELSE n
    OBVIOUS
<1>4. PICK listed \in Seq(P) : /\ listed = Listed(Load.entries, since, limit) /\ Len(listed) = m
                               /\ DOMAIN listed = 1 .. m /\ \A i \in 1 .. m : listed[i] = r[i]
    <2>1. Listed(Load.entries, since, limit) = SubSeq(r, 1, m)
        BY <1>1, <1>2, <1>3 DEF Listed, ApplyLimit
    <2>2. m <= n
        BY <1>3
    <2>3. QED  BY <1>1, <1>2, <2>1, <2>2
<1>5. /\ c \in [1 .. n -> Young(since)] /\ \A i \in 1 .. n : r[i] = page[c[i]]
      /\ \A i, j \in 1 .. n : i < j => c[j] < c[i]
      /\ \A w \in Young(since) : \E i \in 1 .. n : c[i] = w
    BY <1>1, <1>2 DEF Newest
<1>6. \A i \in 1 .. m : i \in 1 .. n
    BY <1>3
<1>7. Young(since) \in SUBSET Nat
    BY DEF Young, ReadingInv
<1>8. ASSUME NEW j \in Young(since)
      PROVE  (\E i \in DOMAIN listed : listed[i] = page[j])
             \/ Cardinality({i \in Young(since) : i > j}) >= limit
    <2>1. PICK k \in 1 .. n : c[k] = j
        BY <1>5
    <2>2. CASE k <= m
        <3>1. k \in 1 .. m /\ listed[k] = page[j]
            BY <1>4, <1>5, <2>1, <2>2
        <3>2. QED  BY <1>4, <3>1
    <2>3. CASE ~(k <= m)
        <3>1. m = limit
            BY <1>3, <2>3
        <3>2. PICK first : first = {c[i] : i \in 1 .. m}
            OBVIOUS
        <3>3. \A i \in 1 .. m : c[i] > j /\ c[i] \in Young(since)
            BY <1>5, <1>6, <1>7, <2>1, <2>3
        <3>4. PICK e : e = [i \in 1 .. m |-> c[i]]
            OBVIOUS
        <3>5. IsFiniteSet(first) /\ Cardinality(first) = m
            <4>1. first \in SUBSET Nat /\ e \in [1 .. m -> first]
                BY <1>7, <3>2, <3>3, <3>4
            <4>2. \A i, l \in 1 .. m : i < l => e[l] < e[i]
                BY <1>5, <1>6, <3>4
            <4>3. \A w \in first : \E i \in 1 .. m : e[i] = w
                BY <3>2, <3>4
            <4>4. QED  BY <4>1, <4>2, <4>3, CountOfNewest
        <3>6. PICK later : later = {i \in Young(since) : i > j}
            OBVIOUS
        <3>7. IsFiniteSet(later) /\ first \in SUBSET later
            <4>1. later \in SUBSET Young(since)
                BY <3>6
            <4>2. QED  BY <1>1, <3>2, <3>3, <3>6, <4>1, FS_Subset
        <3>8. Cardinality(first) <= Cardinality(later) /\ Cardinality(later) \in Nat
            BY <3>7, FS_Subset, FS_CardinalityType
        <3>9. QED  BY <3>1, <3>5, <3>6, <3>8
    <2>4. QED  BY <1>2, <1>3, <2>1, <2>2, <2>3
<1>9. \A i \in 1 .. m : \E w \in Young(since) : listed[i] = page[w]
    BY <1>4, <1>5, <1>6
<1>10. Len(listed) = IF Cardinality(Young(since)) < limit THEN Cardinality(Young(since)) ELSE limit
    BY <1>1, <1>2, <1>3, <1>4
<1>11. QED  BY <1>1, <1>4, <1>8, <1>9, <1>10

-----------------------------------------------------------------------------
\* The rows of what is listed.
LEMMA RowsAreListed ==
    ASSUME NEW S, NEW q \in Seq(S)
    PROVE  Rows(q) \in Seq(S) /\ \A i \in DOMAIN Rows(q) : \E n \in DOMAIN q : Rows(q)[i] = q[n]
<1>1. PICK shown : shown = {n \in DOMAIN q : q[n].line.kind \notin Internal}
    OBVIOUS
<1>2. PICK r, g : Rows(q) = r /\ r \in Seq(S) /\ Places(g, q, shown, r)
    <2>1. shown \in SUBSET (DOMAIN q) /\ Rows(q) = Keep(q, shown)
        BY <1>1 DEF Rows
    <2>2. QED  BY <2>1, KeepIs
<1>3. PICK k \in Nat : k = Len(r) /\ DOMAIN r = 1 .. k
    BY <1>2
<1>4. g \in [1 .. k -> shown] /\ \A i \in 1 .. k : r[i] = q[g[i]]
    BY <1>2, <1>3 DEF Places
<1>5. \A i \in 1 .. k : g[i] \in DOMAIN q
    BY <1>1, <1>4
<1>6. QED  BY <1>2, <1>3, <1>4, <1>5

LEMMA VerifiedIsDescribed ==
    ASSUME NEW line \in Written, Described(line).chip = "verified"
    PROVE  line.kind \in {"outcome", "revisit"}
           \/ ("verified" \in ToSet(line.claims) /\ "unresolved" \notin ToSet(line.claims))
<1>1. PICK made \in Seq(Range(line.claims)) : made = line.claims
    BY RecordReadingAssumption
<1>2. AggregateClaims(made) = "verified" =>
          "verified" \in ToSet(made) /\ "unresolved" \notin ToSet(made)
    <2> SUFFICES ASSUME AggregateClaims(made) = "verified"
                 PROVE  "verified" \in ToSet(made) /\ "unresolved" \notin ToSet(made)
        OBVIOUS
    <2>1. "unresolved" \notin ToSet(made)
        BY DEF AggregateClaims
    <2>2. made # << >> /\ Head(made) = "verified"
        BY <2>1 DEF AggregateClaims
    <2>3. 1 \in DOMAIN made /\ made[1] = Head(made)
        BY <2>2
    <2>4. QED  BY <2>1, <2>2, <2>3 DEF ToSet
<1>3. QED  BY <1>1, <1>2 DEF Described

LEMMA PageReadsTrue == ASSUME ReadingInv PROVE PageIsTheRecord
<1> SUFFICES ASSUME NEW since \in Durations, NEW limit \in 1 .. MaxWritten
             PROVE  LET young == Young(since)
                        listed == Listed(Load.entries, since, limit)
                        rendered == RenderLines(listed, Load.skipped, Len(Load.entries)) IN
                    /\ Len(listed) = IF Cardinality(young) < limit THEN Cardinality(young) ELSE limit
                    /\ \A j \in young : (\E i \in DOMAIN listed : listed[i] = page[j])
                         \/ Cardinality({i \in young : i > j}) >= limit
                    /\ rendered.rows = << >> => rendered.says # {}
                    /\ \A i \in DOMAIN rendered.rows : rendered.rows[i].chip = "verified" =>
                         LET line == Rows(listed)[i].line
                         IN line.kind \in {"outcome", "revisit"}
                            \/ ("verified" \in ToSet(line.claims) /\ "unresolved" \notin ToSet(line.claims))
    <2>1. appended <= Len(Load.entries) + Load.skipped
        <3>1. appended <= Len(page)
            BY DEF ReadingInv
        <3>2. QED  BY <3>1, LoadedIsNewest
    <2>2. QED  BY <2>1 DEF PageIsTheRecord, Young
<1> DEFINE young == Young(since)
<1>1. PICK P, listed : P = PageLine /\ listed = Listed(Load.entries, since, limit)
    OBVIOUS
<1>2. /\ listed \in Seq(P)
      /\ Len(listed) = IF Cardinality(young) < limit THEN Cardinality(young) ELSE limit
      /\ \A i \in DOMAIN listed : \E n \in young : listed[i] = page[n]
      /\ \A j \in young : (\E i \in DOMAIN listed : listed[i] = page[j])
            \/ Cardinality({i \in young : i > j}) >= limit
    <2>1. limit \in Nat
        BY RecordReadingAssumption
    <2>2. /\ listed \in Seq(PageLine)
          /\ Len(listed) = IF Cardinality(Young(since)) < limit THEN Cardinality(Young(since)) ELSE limit
          /\ \A i \in DOMAIN listed : \E n \in Young(since) : listed[i] = page[n]
          /\ \A j \in Young(since) : (\E i \in DOMAIN listed : listed[i] = page[j])
                \/ Cardinality({i \in Young(since) : i > j}) >= limit
        BY <1>1, <2>1, ListedAreTheNewest
    <2>3. QED  BY <1>1, <2>2
<1> HIDE DEF young
<1>3. PICK shown, loaded, skipped : /\ shown = Rows(listed) /\ shown \in Seq(P)
                                    /\ loaded = Len(Load.entries) /\ skipped = Load.skipped
                                    /\ loaded \in Nat /\ skipped \in Nat
    <2>1. Rows(listed) \in Seq(P)
        BY <1>2, RowsAreListed
    <2>2. Load.entries \in Seq(PageLine) /\ Load.skipped \in Nat
        BY LoadedIsNewest
    <2>3. Len(Load.entries) \in Nat
        BY <2>2
    <2>4. QED  BY <2>1, <2>2, <2>3
<1>4. PICK rendered : rendered = RenderLines(listed, skipped, loaded)
    OBVIOUS
<1>5. rendered.rows = [i \in DOMAIN shown |-> Described(shown[i].line)]
    BY <1>3, <1>4 DEF RenderLines
<1>6. rendered.rows = << >> => rendered.says # {}
    <2> SUFFICES ASSUME rendered.rows = << >> PROVE rendered.says # {}
        OBVIOUS
    <2>1. shown = << >>
        <3>1. DOMAIN shown = DOMAIN rendered.rows /\ DOMAIN << >> = {}
            BY <1>5
        <3>2. DOMAIN shown = {}
            BY <3>1
        <3>3. QED  BY <1>3, <3>2
    <2>2. rendered.says = (IF loaded = 0 THEN (IF skipped = 0 THEN {"no_history"} ELSE {})
                           ELSE IF listed = << >> THEN {"no_match"} ELSE {"internal_hidden"})
                          \cup (IF skipped > 0 THEN {"skipped"} ELSE {})
        BY <1>3, <1>4, <2>1 DEF RenderLines
    <2>3. \/ "no_history" \in rendered.says \/ "skipped" \in rendered.says
          \/ "no_match" \in rendered.says \/ "internal_hidden" \in rendered.says
        BY <1>3, <2>2
    <2>4. QED  BY <2>3
<1>7. ASSUME NEW i \in DOMAIN rendered.rows, rendered.rows[i].chip = "verified"
      PROVE  LET line == shown[i].line
             IN line.kind \in {"outcome", "revisit"}
                \/ ("verified" \in ToSet(line.claims) /\ "unresolved" \notin ToSet(line.claims))
    <2>1. i \in DOMAIN shown /\ Described(shown[i].line).chip = "verified"
        BY <1>5, <1>7
    <2>2. PICK m \in DOMAIN listed : shown[i] = listed[m]
        BY <1>3, <1>2, <2>1, RowsAreListed
    <2>3. PICK n \in young : listed[m] = page[n]
        BY <1>2
    <2>4. n \in Wholes
        BY DEF young, Young, Wholes, TornLines
    <2>5. shown[i].line \in Written
        BY <2>2, <2>3, <2>4, WholeIsALine
    <2>6. QED  BY <2>1, <2>5, VerifiedIsDescribed
<1>8. QED  BY <1>1, <1>3, <1>4, <1>6, <1>7, <1>2 DEF young

-----------------------------------------------------------------------------
\* The history of a file.
LEMMA SuffixEndsAlike ==
    ASSUME NEW S, NEW T, NEW a \in Seq(S), NEW b \in Seq(T), a # << >>, IsSuffix(a, b)
    PROVE  Last(a) = Last(b) /\ b # << >>
<1>1. PICK m \in Nat, n \in Nat : m = Len(a) /\ n = Len(b) /\ m > 0
    OBVIOUS
<1>2. PICK ra, rb : ra = Reverse(a) /\ rb = Reverse(b)
    OBVIOUS
<1>3. /\ ra = [i \in 1 .. m |-> a[(m - i) + 1]] /\ rb = [i \in 1 .. n |-> b[(n - i) + 1]]
    BY <1>1, <1>2 DEF Reverse
<1>4. ra \in Seq(S) /\ Len(ra) = m /\ rb \in Seq(T) /\ Len(rb) = n
    <2>1. \A i \in 1 .. m : a[(m - i) + 1] \in S
        BY <1>1
    <2>2. \A i \in 1 .. n : b[(n - i) + 1] \in T
        BY <1>1
    <2>3. ra \in [1 .. m -> S] /\ rb \in [1 .. n -> T]
        BY <1>3, <2>1, <2>2
    <2>4. QED  BY <2>3
<1>5. m <= n /\ SubSeq(ra, 1, m) = SubSeq(rb, 1, m)
    BY <1>2, <1>4 DEF IsSuffix, IsPrefix
<1>6. SubSeq(ra, 1, m)[1] = ra[1] /\ SubSeq(rb, 1, m)[1] = rb[1]
    BY <1>1, <1>4, <1>5
<1>7. ra[1] = a[m] /\ rb[1] = b[n]
    BY <1>1, <1>3, <1>5
<1>8. QED  BY <1>1, <1>5, <1>6, <1>7 DEF Last

LEMMA EndIsSuffix ==
    ASSUME NEW S, NEW b \in Seq(S), NEW top \in DOMAIN b
    PROVE  LET a == SubSeq(b, top, Len(b)) IN
           a \in Seq(S) /\ a # << >> /\ IsSuffix(a, b) /\ Last(a) = Last(b)
<1>1. PICK n \in Nat : n = Len(b) /\ top \in 1 .. n
    OBVIOUS
<1>2. PICK m \in Nat : m = (n - top) + 1 /\ m <= n /\ m > 0
    BY <1>1
<1>3. PICK a : a = SubSeq(b, top, n)
    OBVIOUS
<1>4. a \in Seq(S) /\ Len(a) = m /\ \A i \in 1 .. m : a[i] = b[(top + i) - 1]
    BY <1>1, <1>2, <1>3
<1>5. \A i \in 1 .. m : a[i] \in S
    BY <1>4
<1>6. PICK ra, rb : ra = Reverse(a) /\ rb = Reverse(b)
    OBVIOUS
<1>7. /\ ra = [i \in 1 .. m |-> a[(m - i) + 1]] /\ rb = [i \in 1 .. n |-> b[(n - i) + 1]]
    BY <1>1, <1>4, <1>6 DEF Reverse
<1>8. ra \in Seq(S) /\ Len(ra) = m /\ rb \in Seq(S) /\ Len(rb) = n
    <2>1. \A i \in 1 .. m : a[(m - i) + 1] \in S
        BY <1>2, <1>5
    <2>2. \A i \in 1 .. n : b[(n - i) + 1] \in S
        BY <1>1
    <2>3. ra \in [1 .. m -> S] /\ rb \in [1 .. n -> S]
        BY <1>7, <2>1, <2>2
    <2>4. QED  BY <2>3
<1>9. \A i \in 1 .. m : ra[i] = rb[i]
    <2> SUFFICES ASSUME NEW i \in 1 .. m PROVE ra[i] = rb[i]
        OBVIOUS
    <2>1. (m - i) + 1 \in 1 .. m /\ (top + ((m - i) + 1)) - 1 = (n - i) + 1 /\ i \in 1 .. n
        BY <1>1, <1>2
    <2>2. a[(m - i) + 1] = b[(n - i) + 1]
        BY <1>4, <2>1
    <2>3. QED  BY <1>7, <2>1, <2>2
<1>10. SubSeq(ra, 1, m) = SubSeq(rb, 1, m)
    BY <1>2, <1>8, <1>9
<1>11. IsSuffix(a, b)
    BY <1>2, <1>6, <1>8, <1>10 DEF IsSuffix, IsPrefix
<1>12. a # << >>
    BY <1>2, <1>4
<1>13. QED  BY <1>1, <1>3, <1>11, <1>12, <1>4, SuffixEndsAlike

\* A path with its line and its column is the path.
LEMMA PathIsTakenWhole ==
    ASSUME NEW path
    PROVE  /\ ParsePathArg(path, <<"fits", "too_large">>).path = path
           /\ ~ParsePathArg(path, <<"fits", "too_large">>).refused
<1>1. PICK tails : tails = <<"fits", "too_large">>
    OBVIOUS
<1>2. Len(tails) = 2 /\ tails[1] = "fits" /\ tails[2] = "too_large"
    BY <1>1
<1>3. Trailing(tails) = 2
    <2>1. PICK n \in Nat : n = Len(tails) /\ n = 2 /\ n - 1 = 1
        BY <1>2
    <2>2. Digits(tails[n]) /\ Digits(tails[n - 1])
        BY <1>2, <2>1 DEF Digits
    <2>3. QED  BY <2>1, <2>2 DEF Trailing
<1>4. SubSeq(tails, 1, 0) = << >>
    <2>1. tails \in Seq({"fits", "too_large"})
        BY <1>1
    <2>2. QED  BY <2>1
<1>5. ParsePathArg(path, tails) = [path |-> path, line |-> "fits", refused |-> FALSE]
    <2>1. PICK c : c = Trailing(tails) /\ c # 0 /\ Len(tails) - c = 0 /\ (Len(tails) - c) + 1 = 1
        BY <1>2, <1>3
    <2>2. QED  BY <1>2, <1>4, <2>1 DEF ParsePathArg
<1>6. QED  BY <1>1, <1>5

LEMMA HistoryReadsTrue == ASSUME ReadingInv PROVE HistoryIsWhole
<1>1. PICK P, q, h : /\ P = PageLine /\ q \in Seq(P) /\ q = Load.entries /\ Newest(h, q, Wholes)
    BY LoadedIsNewest
<1>2. PICK k \in Nat : k = Len(q) /\ DOMAIN q = 1 .. k
    BY <1>1
<1>3. /\ \A i \in 1 .. k : h[i] \in Wholes /\ q[i] = page[h[i]]
      /\ \A w \in Wholes : \E i \in 1 .. k : h[i] = w
    BY <1>1, <1>2 DEF Newest
<1>4. \A i \in 1 .. k : q[i].line \in Written /\ Age(q[i]) \in 0 .. hour
    <2>1. \A w \in Wholes : page[w].line \in Written /\ Age(page[w]) \in 0 .. hour
        BY WholeIsALine DEF Age, ReadingInv
    <2>2. QED  BY <1>3, <2>1
<1>5. PICK events : events = {i \in DOMAIN q : q[i].line.kind = "event"}
    OBVIOUS
<1> SUFFICES ASSUME NEW n \in DOMAIN page, ~page[n].torn, page[n].line.kind = "event"
             PROVE  IF ~page[n].line.readable THEN FindHistory(q, <<"src">>).undecodable > 0
                    ELSE \A top \in DOMAIN page[n].line.file :
                        LET file == page[n].line.file
                            name == SubSeq(file, top, Len(file))
                            arg == ParsePathArg(name, <<"fits", "too_large">>)
                            found == FindHistory(q, arg.path).found IN
                        /\ ~arg.refused /\ \E i \in DOMAIN found : found[i] = page[n]
                        /\ InDays(found) >= Age(page[n])
                        /\ \A i \in DOMAIN found : Last(found[i].line.file) = Last(file)
    BY <1>1 DEF HistoryIsWhole
<1>6. n \in Wholes
    BY DEF Wholes, TornLines
<1>7. PICK at \in 1 .. k : q[at] = page[n] /\ at \in events
    <2>1. PICK i \in 1 .. k : h[i] = n
        BY <1>3, <1>6
    <2>2. QED  BY <1>2, <1>3, <1>5, <2>1
<1>8. CASE ~page[n].line.readable
    <2>1. PICK lost : lost = {i \in events : ~q[i].line.readable}
        OBVIOUS
    <2>2. FindHistory(q, <<"src">>).undecodable = Cardinality(lost)
        BY <1>5, <2>1 DEF FindHistory
    <2>3. at \in lost /\ lost \in SUBSET (1 .. k)
        BY <1>2, <1>5, <1>7, <1>8, <2>1
    <2>4. IsFiniteSet(1 .. k)
        BY FS_Interval
    <2>5. IsFiniteSet(lost) /\ Cardinality(lost) \in Nat
        BY <2>3, <2>4, FS_Subset, FS_CardinalityType
    <2>6. Cardinality(lost) # 0
        BY <2>3, <2>5, FS_EmptySet
    <2>7. QED  BY <1>8, <2>2, <2>5, <2>6
<1>9. CASE page[n].line.readable
    <2> SUFFICES ASSUME NEW top \in DOMAIN page[n].line.file
                 PROVE  LET file == page[n].line.file
                            name == SubSeq(file, top, Len(file))
                            arg == ParsePathArg(name, <<"fits", "too_large">>)
                            found == FindHistory(q, arg.path).found IN
                        /\ ~arg.refused /\ \E i \in DOMAIN found : found[i] = page[n]
                        /\ InDays(found) >= Age(page[n])
                        /\ \A i \in DOMAIN found : Last(found[i].line.file) = Last(file)
        BY <1>9
    <2>1. PICK file, R : file = page[n].line.file /\ R = Range(file) /\ file \in Seq(R)
        BY <1>6, WholeIsALine, RecordReadingAssumption
    <2>2. PICK name \in Seq(R) : /\ name = SubSeq(file, top, Len(file)) /\ name # << >>
                                 /\ IsSuffix(name, file) /\ Last(name) = Last(file)
        BY <2>1, EndIsSuffix
    <2>3. PICK arg : arg = ParsePathArg(name, <<"fits", "too_large">>) /\ arg.path = name /\ ~arg.refused
        BY PathIsTakenWhole
    <2>4. PICK kept : kept = {i \in events : q[i].line.readable /\ q[i].line.file # << >>
                                             /\ PathsOverlap(q[i].line.file, name)}
        OBVIOUS
    <2>5. PICK found, g : /\ found = FindHistory(q, arg.path).found /\ found \in Seq(P)
                          /\ Places(g, q, kept, found)
        <3>1. kept \in SUBSET (DOMAIN q)
            BY <1>5, <2>4
        <3>2. FindHistory(q, arg.path).found = Keep(q, kept)
            BY <1>5, <2>3, <2>4 DEF FindHistory
        <3>3. QED  BY <1>1, <3>1, <3>2, KeepIs
    <2>6. PICK f \in Nat : f = Len(found) /\ DOMAIN found = 1 .. f
        BY <2>5
    <2>7. /\ \A i \in 1 .. f : g[i] \in kept /\ found[i] = q[g[i]]
          /\ \A x \in kept : \E i \in 1 .. f : g[i] = x
        BY <2>5, <2>6 DEF Places
    <2>8. at \in kept
        <3>1. file # << >>
            BY <2>1
        <3>2. PathsOverlap(file, name)
            BY <2>2 DEF PathsOverlap
        <3>3. QED  BY <1>7, <1>9, <2>1, <2>4, <3>1, <3>2
    <2>9. PICK i \in 1 .. f : found[i] = page[n]
        BY <1>7, <2>7, <2>8
    <2>10. InDays(found) >= Age(page[n])
        <3>1. PICK ages : ages = {Age(found[j]) : j \in DOMAIN found}
            OBVIOUS
        <3>2. \A j \in 1 .. f : Age(found[j]) \in 0 .. hour
            BY <1>2, <1>4, <1>5, <2>4, <2>7
        <3>3. ages \in SUBSET Nat /\ (\A a \in ages : a <= hour) /\ Age(page[n]) \in ages
            BY <2>6, <2>9, <3>1, <3>2 DEF ReadingInv
        <3>4. \E a \in ages : \A b \in ages : b <= a
            BY <3>3, GreatestNat DEF ReadingInv
        <3>5. InDays(found) = CHOOSE a \in ages : \A b \in ages : b <= a
            BY <3>1 DEF InDays
        <3>6. InDays(found) \in ages /\ \A b \in ages : b <= InDays(found)
            BY <3>4, <3>5
        <3>7. QED  BY <3>3, <3>6
    <2>11. \A j \in DOMAIN found : Last(found[j].line.file) = Last(file)
        <3> SUFFICES ASSUME NEW j \in 1 .. f PROVE Last(found[j].line.file) = Last(file)
            BY <2>6
        <3>1. PICK e \in kept : found[j] = q[e]
            BY <2>7
        <3>2. e \in 1 .. k /\ q[e].line.file # << >> /\ PathsOverlap(q[e].line.file, name)
            BY <1>2, <1>5, <2>4
        <3>3. PICK other, O : other = q[e].line.file /\ O = Range(other) /\ other \in Seq(O)
            BY <1>4, <3>2, RecordReadingAssumption
        <3>4. IsSuffix(other, name) \/ IsSuffix(name, other)
            BY <3>2, <3>3 DEF PathsOverlap
        <3>5. Last(other) = Last(name)
            <4>1. other \in Seq(O) /\ other # << >> /\ name \in Seq(R) /\ name # << >>
                BY <2>2, <3>2, <3>3
            <4>2. IsSuffix(other, name) => Last(other) = Last(name)
                BY <4>1, SuffixEndsAlike
            <4>3. IsSuffix(name, other) => Last(name) = Last(other)
                BY <4>1, SuffixEndsAlike
            <4>4. QED  BY <3>4, <4>2, <4>3
        <3>6. QED  BY <2>2, <3>1, <3>3, <3>5
    <2>12. QED  BY <2>1, <2>2, <2>3, <2>5, <2>6, <2>9, <2>10, <2>11
<1>10. QED  BY <1>8, <1>9

\* Whoever appends or dies, at any moment what the record commands list is the record:
\* the newest of the young, nothing verified that is not, an empty page with its reason,
\* and of a file, under any name that it goes by, every event.
THEOREM RecordStaysReadable == ReadingSpec => []RecordReadsWell
<1>1. ReadingInit => ReadingInv
    <2>1. << >> \in Seq(PageLine) /\ Len(<< >>) = 0
        OBVIOUS
    <2> SUFFICES ASSUME ReadingInit PROVE ReadingInv
        OBVIOUS
    <2>2. page = << >> /\ Len(page) = 0 /\ ~open /\ open \in BOOLEAN /\ appended = 0 /\ hour = 0
        BY <2>1 DEF ReadingInit
    <2>3. QED  BY <2>1, <2>2 DEF ReadingInv
<1>2. ReadingInv /\ [ReadingNext]_readingVars => ReadingInv'
    <2> SUFFICES ASSUME ReadingInv, [ReadingNext]_readingVars PROVE ReadingInv'
        OBVIOUS
    <2>1. PICK P : P = PageLine
        OBVIOUS
    <2>2. PICK k \in Nat : k = Len(page)
        BY DEF ReadingInv
    <2>3. /\ page \in Seq(P) /\ hour \in Nat /\ open \in BOOLEAN /\ appended \in Nat
          /\ appended <= k /\ (open => appended < k)
        BY <2>1, <2>2 DEF ReadingInv
    <2>4. ASSUME NEW line \in Written, NEW at \in 0 .. LastHour, Appends(line, at) PROVE ReadingInv'
        <3>1. PICK new \in P : new = Whole(line, at)
            BY <2>1 DEF PageLine
        <3>2. page' = IF open THEN page ELSE Append(page, new)
            BY <2>4, <3>1 DEF Appends
        <3>3. page' \in Seq(P) /\ Len(page') = IF open THEN k ELSE k + 1
            BY <2>2, <2>3, <3>2
        <3>4. ~open' /\ open' \in BOOLEAN /\ appended' = appended + 1 /\ hour' = hour
            BY <2>4 DEF Appends
        <3>5. appended' <= Len(page')
            BY <2>2, <2>3, <3>3, <3>4
        <3>6. QED  BY <2>1, <2>3, <3>3, <3>4, <3>5 DEF ReadingInv, PageLine
    <2>5. CASE DiesWriting
        <3>1. PICK new \in P : new = Torn
            BY <2>1 DEF PageLine
        <3>2. page' = IF open THEN page ELSE Append(page, new)
            BY <2>5, <3>1 DEF DiesWriting
        <3>3. page' \in Seq(P) /\ Len(page') = IF open THEN k ELSE k + 1
            BY <2>2, <2>3, <3>2
        <3>4. open' \in BOOLEAN /\ appended' = appended /\ hour' = hour
            BY <2>5 DEF DiesWriting
        <3>5. appended' < Len(page')
            BY <2>2, <2>3, <3>3, <3>4
        <3>6. QED  BY <2>1, <2>3, <3>3, <3>4, <3>5 DEF ReadingInv, PageLine
    <2>6. CASE HourPasses
        BY <2>3, <2>6 DEF HourPasses, ReadingInv, PageLine
    <2>7. CASE UNCHANGED readingVars
        BY <2>7 DEF readingVars, ReadingInv, PageLine
    <2>8. QED  BY <2>4, <2>5, <2>6, <2>7 DEF ReadingNext
<1>3. ReadingInv => RecordReadsWell
    BY PageReadsTrue, HistoryReadsTrue DEF RecordReadsWell, RecordReadsTrue
<1>4. QED  BY <1>1, <1>2, <1>3, PTL DEF ReadingSpec

=============================================================================
