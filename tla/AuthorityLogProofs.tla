------------------------- MODULE AuthorityLogProofs -------------------------
(***************************************************************************)
(* What holds of the authority ladder for any number of classes, writers,  *)
(* lines and any streak: the types, that act-alone is exactly a human's    *)
(* unrevoked grant, what the fold of any record counts, that every grant   *)
(* was earned, that a repair leaves unasked only under such a grant, and   *)
(* that what its runner reports of it can be believed.                     *)
(***************************************************************************)
EXTENDS Dispatch, SequenceTheorems, FoldProofs

\* Standings are closed under the two updates fold_outcome makes of them.
LEMMA CleanUpdate ==
    ASSUME NEW st \in Standing, NEW n \in Nat, NEW m \in Nat,
           NEW e \in {"none", "some"}
    PROVE  [st EXCEPT !.streak = n, !.total_clean = m, !.earned_at = e] \in Standing
BY DEF Standing

LEMMA BadUpdate ==
    ASSUME NEW st \in Standing, NEW n \in Nat, NEW r \in Rung
    PROVE  [st EXCEPT !.streak = 0, !.total_bad = n, !.earned_at = "none",
                      !.rung = r] \in Standing
BY DEF Standing

\* Whatever a ship came to, a standing folds to a standing.
LEMMA FoldOutcomeType ==
    ASSUME NEW st \in Standing, NEW o
    PROVE  FoldOutcome(st, o) \in Standing
<1>1. /\ st.rung \in Rung /\ st.earned_at \in {"none", "some"}
      /\ st.streak + 1 \in Nat /\ st.total_clean + 1 \in Nat
      /\ st.total_bad + 1 \in Nat
    BY DEF Standing
<1>2. CASE IsClean(o)
    BY <1>1, <1>2, CleanUpdate DEF FoldOutcome, CleanFold
<1>3. CASE ~IsClean(o)
    <2>1. DemotedRung(st.rung) \in Rung
        BY <1>1 DEF DemotedRung, Rung
    <2>2. QED  BY <1>1, <1>3, <2>1, BadUpdate DEF FoldOutcome
<1>4. QED  BY <1>2, <1>3

\* Folding any line into a ladder of standings gives a ladder of standings.
LEMMA FoldLineType ==
    ASSUME NEW lad \in [Class -> Standing], NEW line \in Line
    PROVE  FoldLine(lad, line) \in [Class -> Standing]
<1>1. line.class \in Class
    BY DEF Line, OutcomeLines, RungLines
<1>2. CASE line.kind = "authority_outcome"
    <2>1. FoldOutcome(lad[line.class], line.outcome) \in Standing
        BY <1>1, FoldOutcomeType
    <2>2. QED  BY <1>1, <1>2, <2>1 DEF FoldLine
<1>3. CASE line.kind # "authority_outcome"
    <2>1. line.rung \in Rung
        BY <1>3 DEF Line, OutcomeLines, RungLines
    <2>2. FoldRung(lad[line.class], line.rung) \in Standing
        BY <1>1, <2>1 DEF FoldRung, Standing
    <2>3. QED  BY <1>1, <1>3, <2>2 DEF FoldLine
<1>4. QED  BY <1>2, <1>3

\* The state a step leaves is one of: nothing appended, or one line appended.
LEMMA StepAppends ==
    ASSUME TypeOK, [Next]_vars
    PROVE  \/ UNCHANGED <<record, ladder>>
           \/ \E line \in Line : AppendLine(line)
<1>1. CASE UNCHANGED vars
    BY <1>1 DEF vars
<1>2. CASE Next
    <2> PICK w \in Writer :
            \/ \E c \in Class, o \in Outcome : LoadForOutcome(w, c, o)
            \/ AppendOutcome(w)
            \/ AppendDemotion(w)
            \/ \E c \in Class : CheckPromotion(w, c)
            \/ AppendPromotion(w)
            \/ \E c \in Class : Demote(w, c)
            \/ Abandon(w)
        BY <1>2 DEF Next
    <2> USE DEF TypeOK, Line, OutcomeLines, RungLines
    <2>1. CASE \E c \in Class, o \in Outcome : LoadForOutcome(w, c, o)
        BY <2>1 DEF LoadForOutcome
    <2>2. CASE AppendOutcome(w)
        <3>1. job[w].class \in Class /\ job[w].outcome \in Outcome
            BY <2>2 DEF AppendOutcome, Idle, Loaded, Recorded, CheckedPromotion
        <3>2. QED  BY <2>2, <3>1 DEF AppendOutcome, OutcomeLine
    <2>3. CASE AppendDemotion(w)
        <3>1. job[w].class \in Class
            BY <2>3 DEF AppendDemotion, Idle, Loaded, Recorded, CheckedPromotion
        <3>2. QED  BY <2>3, <3>1 DEF AppendDemotion, RungLine, Rung
    <2>4. CASE \E c \in Class : CheckPromotion(w, c)
        BY <2>4 DEF CheckPromotion
    <2>5. CASE AppendPromotion(w)
        <3>1. job[w].class \in Class
            BY <2>5 DEF AppendPromotion, Idle, Loaded, Recorded, CheckedPromotion
        <3>2. QED  BY <2>5, <3>1 DEF AppendPromotion, RungLine, Rung
    <2>6. CASE \E c \in Class : Demote(w, c)
        BY <2>6 DEF Demote, RungLine, Rung
    <2>7. CASE Abandon(w)
        BY <2>7 DEF Abandon
    <2>8. QED  BY <2>1, <2>2, <2>3, <2>4, <2>5, <2>6, <2>7
<1>3. QED  BY <1>1, <1>2

-----------------------------------------------------------------------------
\* A step leaves every variable in its type.
LEMMA TypeStep == ASSUME TypeOK, [Next]_vars PROVE TypeOK'
<1>1. record' \in Seq(Line) /\ ladder' \in [Class -> Standing]
    <2>1. CASE UNCHANGED <<record, ladder>>
        BY <2>1 DEF TypeOK
    <2>2. CASE \E line \in Line : AppendLine(line)
        BY <2>2, FoldLineType DEF TypeOK, AppendLine
    <2>3. QED  BY <2>1, <2>2, StepAppends
<1>2. job' \in [Writer -> {Idle} \cup Loaded \cup Recorded \cup CheckedPromotion]
    <2>1. CASE UNCHANGED vars
        BY <2>1 DEF TypeOK, vars
    <2>2. ASSUME NEW w \in Writer, NEW c \in Class, NEW o \in Outcome,
                 LoadForOutcome(w, c, o)
          PROVE  job' \in [Writer -> {Idle} \cup Loaded \cup Recorded \cup CheckedPromotion]
        <3>1. Demotes(ladder[c], o) \in BOOLEAN
            BY DEF Demotes
        <3>2. QED  BY <2>2, <3>1 DEF LoadForOutcome, Become, TypeOK, Loaded
    <2>3. ASSUME NEW w \in Writer, AppendOutcome(w)
          PROVE  job' \in [Writer -> {Idle} \cup Loaded \cup Recorded \cup CheckedPromotion]
        <3>1. job[w].class \in Class
            BY <2>3 DEF AppendOutcome, TypeOK, Idle, Loaded, Recorded, CheckedPromotion
        <3>2. QED  BY <2>3, <3>1 DEF AppendOutcome, Become, TypeOK, Recorded
    <2>4. ASSUME NEW w \in Writer, NEW c \in Class, CheckPromotion(w, c)
          PROVE  job' \in [Writer -> {Idle} \cup Loaded \cup Recorded \cup CheckedPromotion]
        BY <2>4 DEF CheckPromotion, Become, TypeOK, CheckedPromotion
    <2>5. ASSUME NEW w \in Writer,
                 \/ AppendDemotion(w) \/ AppendPromotion(w) \/ Abandon(w)
                 \/ \E c \in Class : Demote(w, c)
          PROVE  job' \in [Writer -> {Idle} \cup Loaded \cup Recorded \cup CheckedPromotion]
        BY <2>5 DEF AppendDemotion, AppendPromotion, Abandon, Demote, Become,
                    TypeOK
    <2>6. QED  BY <2>1, <2>2, <2>3, <2>4, <2>5 DEF Next
<1>3. QED  BY <1>1, <1>2 DEF TypeOK

\* Every state of the authority log is well typed.
THEOREM TypeCorrect == Spec => []TypeOK
<1>1. Init => TypeOK
    BY DEF Init, TypeOK, EmptyLadder, DefaultStanding, Standing, Rung, Idle
<1>2. TypeOK /\ [Next]_vars => TypeOK'
    BY TypeStep
<1>3. QED  BY <1>1, <1>2, PTL DEF Spec

\* Appending a line leaves alone what the record says of every other class.
LEMMA OtherClass ==
    ASSUME TypeOK, NEW line \in Line, AppendLine(line),
           NEW c \in Class, c # line.class
    PROVE  /\ Grants(c)' = Grants(c)
           /\ Bad(c)' = Bad(c)
           /\ Withdrawals(c)' = Withdrawals(c)
           /\ ladder'[c] = ladder[c]
<1>1. /\ DOMAIN record' = 1..(Len(record) + 1)
      /\ DOMAIN record = 1..Len(record)
      /\ Len(record) \in Nat
      /\ \A i \in 1..Len(record) : record'[i] = record[i]
      /\ record'[Len(record) + 1] = line
    BY DEF AppendLine, TypeOK
<1>2. QED  BY <1>1 DEF Grants, Bad, Outcomes, Withdrawals, AppendLine, FoldLine, TypeOK

\* At every moment, whatever the writers' interleaving and wherever they died,
\* act-alone is held exactly by the classes whose last word in the record is a
\* human's grant: a bad outcome costs it as soon as its line is there.
THEOREM AuthorityIsLastWord == Spec => []ActAloneIsLastWord
<1>1. Init => ActAloneIsLastWord
    BY DEF Init, ActAloneIsLastWord, EmptyLadder, DefaultStanding, Grants
<1>2. TypeOK /\ ActAloneIsLastWord /\ [Next]_vars => ActAloneIsLastWord'
    <2> SUFFICES ASSUME TypeOK, ActAloneIsLastWord, [Next]_vars,
                        NEW c \in Class
                 PROVE  ladder'[c].rung = "act-alone" <=>
                            \E g \in Grants(c)' :
                                \A i \in Bad(c)' \cup Withdrawals(c)' : i < g
        BY DEF ActAloneIsLastWord
    <2>1. CASE UNCHANGED <<record, ladder>>
        BY <2>1 DEF ActAloneIsLastWord, Grants, Bad, Outcomes, Withdrawals
    <2>2. ASSUME NEW line \in Line, AppendLine(line), c # line.class
          PROVE  ladder'[c].rung = "act-alone" <=>
                     \E g \in Grants(c)' :
                         \A i \in Bad(c)' \cup Withdrawals(c)' : i < g
        BY <2>2, OtherClass DEF ActAloneIsLastWord
    <2>3. ASSUME NEW line \in Line, AppendLine(line), c = line.class
          PROVE  ladder'[c].rung = "act-alone" <=>
                     \E g \in Grants(c)' :
                         \A i \in Bad(c)' \cup Withdrawals(c)' : i < g
        <3> DEFINE n == Len(record) + 1
        <3>1. /\ DOMAIN record' = 1..n
              /\ DOMAIN record = 1..Len(record)
              /\ Len(record) \in Nat
              /\ \A i \in 1..Len(record) : record'[i] = record[i]
              /\ record'[n] = line
            BY <2>3 DEF AppendLine, TypeOK
        <3>2. ladder[c] \in Standing
            BY DEF TypeOK
        <3>3. CASE line.kind = "authority_outcome" /\ IsClean(line.outcome)
            <4>1. /\ Grants(c)' = Grants(c)
                  /\ Bad(c)' = Bad(c)
                  /\ Withdrawals(c)' = Withdrawals(c)
                BY <3>1, <3>3 DEF Grants, Bad, Outcomes, Withdrawals
            <4>2. ladder'[c].rung = ladder[c].rung
                BY <2>3, <3>2, <3>3
                DEF AppendLine, FoldLine, FoldOutcome, CleanFold, TypeOK, Standing
            <4>3. QED  BY <4>1, <4>2 DEF ActAloneIsLastWord
        <3>4. CASE line.kind = "authority_outcome" /\ ~IsClean(line.outcome)
            <4>1. n \in Bad(c)'
                BY <2>3, <3>1, <3>4 DEF Bad, Outcomes
            <4>2. \A g \in Grants(c)' : g \in 1..Len(record)
                BY <3>1, <3>4 DEF Grants
            <4>3. ladder'[c].rung # "act-alone"
                BY <2>3, <3>2, <3>4
                DEF AppendLine, FoldLine, FoldOutcome, DemotedRung, TypeOK, Standing
            <4>4. QED  BY <3>1, <4>1, <4>2, <4>3
        <3>5. CASE line.kind # "authority_outcome"
            <4>1. line.kind = "authority_rung" /\ line.rung \in Rung
                BY <3>5 DEF Line, OutcomeLines, RungLines
            <4>2. ladder'[c].rung = line.rung
                BY <2>3, <3>2, <4>1
                DEF AppendLine, FoldLine, FoldRung, TypeOK, Standing
            <4>3. CASE line.rung = "act-alone"
                <5>1. n \in Grants(c)'
                    BY <2>3, <3>1, <4>1, <4>3 DEF Grants
                <5>2. \A i \in Bad(c)' \cup Withdrawals(c)' : i \in 1..Len(record)
                    BY <2>3, <3>1, <4>1, <4>3 DEF Bad, Outcomes, Withdrawals
                <5>3. QED  BY <3>1, <4>2, <4>3, <5>1, <5>2
            <4>4. CASE line.rung # "act-alone"
                <5>1. n \in Withdrawals(c)'
                    BY <2>3, <3>1, <4>1, <4>4 DEF Withdrawals
                <5>2. \A g \in Grants(c)' : g \in 1..Len(record)
                    BY <3>1, <4>4 DEF Grants
                <5>3. QED  BY <3>1, <4>2, <4>4, <5>1, <5>2
            <4>5. QED  BY <4>3, <4>4
        <3>6. QED  BY <3>3, <3>4, <3>5
    <2>4. QED  BY <2>1, <2>2, <2>3, StepAppends
<1>3. QED  BY <1>1, <1>2, TypeCorrect, PTL DEF Spec

-----------------------------------------------------------------------------
\* The fold that Ladder::load makes of a record is one line at a time: there is a
\* ladder for each prefix, each from the one before and the next line.
Along(h, rec) ==
    /\ h \in [0 .. Len(rec) -> [Class -> Standing]]
    /\ h[0] = EmptyLadder
    /\ \A n \in 1 .. Len(rec) : h[n] = FoldLine(h[n - 1], rec[n])

LEMMA EmptyLadderType == EmptyLadder \in [Class -> Standing]
BY DEF EmptyLadder, DefaultStanding, Standing, Rung

LEMMA LadderAlong ==
    ASSUME NEW rec \in Seq(Line)
    PROVE  \E h : Along(h, rec) /\ Ladder(rec) = h[Len(rec)]
<1> DEFINE D == 1 .. Len(rec)
           Lad == [Class -> Standing]
           step == [i \in D |-> [lad \in Lad |-> FoldLine(lad, rec[i])]]
           Eq(f) == f = [s \in SUBSET D |->
                            IF s = {} THEN EmptyLadder
                            ELSE FoldLine(f[s \ {Max(s)}], rec[Max(s)])]
           iter == CHOOSE f : Eq(f)
           h == [n \in 0 .. Len(rec) |-> iter[1 .. n]]
<1>1. Len(rec) \in Nat /\ DOMAIN rec = D /\ \A i \in D : rec[i] \in Line
    OBVIOUS
<1>2. step \in [D -> [Lad -> Lad]]
    BY <1>1, FoldLineType
<1>3. \A s \in SUBSET D : s # {} => Max(s) \in D
    BY <1>1, MaxIsMember
<1>4. Eq(iter)
    <2>1. PICK it : IsFoldLeft(it, Len(rec), Lad, EmptyLadder, step)
        <3> HIDE DEF step
        <3>1. QED  BY <1>1, <1>2, EmptyLadderType, FoldLeftExists
    <2>2. \A s \in SUBSET D : s # {} =>
              step[Max(s)][it[s \ {Max(s)}]] = FoldLine(it[s \ {Max(s)}], rec[Max(s)])
        BY <1>3, <2>1 DEF IsFoldLeft
    <2>3. Eq(it)
        <3> HIDE DEF step
        <3>1. QED  BY <2>1, <2>2 DEF IsFoldLeft
    <2> HIDE DEF Eq
    <2>4. QED  BY <2>3
<1>5. Ladder(rec) = iter[D]
    BY <1>1 DEF Ladder, FoldLeft, MapThenFoldSet
<1> HIDE DEF iter
<1>6. \A n \in 0 .. Len(rec) : 1 .. n \in SUBSET D
    BY <1>1
<1>7. h[0] = EmptyLadder
    <2>1. 1 .. 0 = {}
        OBVIOUS
    <2>2. QED  BY <1>1, <1>4, <1>6, <2>1
<1>8. ASSUME NEW n \in 1 .. Len(rec)
      PROVE  h[n] = FoldLine(h[n - 1], rec[n])
    <2>1. /\ n \in Nat /\ n # 0 /\ n \in 0 .. Len(rec) /\ n - 1 \in 0 .. Len(rec)
          /\ n \in 1 .. n
        BY <1>1
    <2>2. iter[1 .. n] = FoldLine(iter[(1 .. n) \ {Max(1 .. n)}], rec[Max(1 .. n)])
        BY <1>4, <1>6, <2>1
    <2>3. Max(1 .. n) = n /\ (1 .. n) \ {n} = 1 .. (n - 1)
        BY <2>1, MaxOfInterval
    <2>4. iter[1 .. n] = FoldLine(iter[1 .. (n - 1)], rec[n])
        BY <2>2, <2>3
    <2>5. QED  BY <2>1, <2>4
<1>9. \A n \in 0 .. Len(rec) : h[n] \in Lad
    <2> DEFINE Odd == {n \in 0 .. Len(rec) : h[n] \notin Lad}
    <2> SUFFICES ASSUME Odd # {} PROVE FALSE
        OBVIOUS
    <2> HIDE DEF h
    <2>1. PICK n \in Odd : \A m \in Odd : n <= m
        <3>1. Odd \in SUBSET Nat
            BY <1>1
        <3> HIDE DEF Odd
        <3>2. QED  BY <3>1, LeastNat
    <2>2. CASE n = 0
        BY <1>7, <2>2, EmptyLadderType
    <2>3. CASE n # 0
        <3>1. n \in 1 .. Len(rec) /\ n - 1 \in 0 .. Len(rec) /\ ~(n <= n - 1)
            BY <1>1, <2>3
        <3>2. h[n - 1] \in Lad
            BY <2>1, <3>1
        <3>3. h[n] \in Lad
            BY <1>1, <1>8, <3>1, <3>2, FoldLineType
        <3>4. QED  BY <3>3
    <2>4. QED  BY <2>2, <2>3
<1>10. Along(h, rec)
    <2>1. h \in [0 .. Len(rec) -> Lad]
        BY <1>9
    <2>2. QED  BY <1>7, <1>8, <2>1 DEF Along
<1>11. Ladder(rec) = h[Len(rec)]
    BY <1>1, <1>5
<1>12. QED  BY <1>10, <1>11

\* Records that agree so far have the same ladder so far.
LEMMA AlongAgree ==
    ASSUME NEW rec \in Seq(Line), NEW other \in Seq(Line), NEW h, NEW g,
           Along(h, rec), Along(g, other), Len(rec) <= Len(other),
           \A i \in 1 .. Len(rec) : rec[i] = other[i]
    PROVE  \A n \in 0 .. Len(rec) : h[n] = g[n]
<1> DEFINE Odd == {n \in 0 .. Len(rec) : h[n] # g[n]}
<1> SUFFICES ASSUME Odd # {} PROVE FALSE
    OBVIOUS
<1>1. PICK n \in Odd : \A m \in Odd : n <= m
    <2>1. Odd \in SUBSET Nat
        OBVIOUS
    <2> HIDE DEF Odd
    <2>2. QED  BY <2>1, LeastNat
<1>2. CASE n = 0
    BY <1>2 DEF Along
<1>3. CASE n # 0
    <2>1. n \in 1 .. Len(rec) /\ n \in 1 .. Len(other) /\ n - 1 \in 0 .. Len(rec) /\ ~(n <= n - 1)
        BY <1>3
    <2>2. h[n - 1] = g[n - 1]
        BY <1>1, <2>1
    <2>3. QED  BY <2>1, <2>2 DEF Along
<1>4. QED  BY <1>2, <1>3

\* The ladder of a record one line longer.
LEMMA LadderOfAppend ==
    ASSUME NEW rec \in Seq(Line), NEW line \in Line
    PROVE  Ladder(Append(rec, line)) = FoldLine(Ladder(rec), line)
<1> DEFINE next == Append(rec, line)
<1>1. /\ next \in Seq(Line) /\ Len(rec) \in Nat /\ Len(next) = Len(rec) + 1
      /\ \A i \in 1 .. Len(rec) : rec[i] = next[i]
      /\ next[Len(rec) + 1] = line
    OBVIOUS
<1> HIDE DEF next
<1>2. PICK h : Along(h, rec) /\ Ladder(rec) = h[Len(rec)]
    BY LadderAlong
<1>3. PICK g : Along(g, next) /\ Ladder(next) = g[Len(next)]
    BY <1>1, LadderAlong
<1>4. h[Len(rec)] = g[Len(rec)]
    BY <1>1, <1>2, <1>3, AlongAgree
<1>5. g[Len(rec) + 1] = FoldLine(g[Len(rec)], line)
    BY <1>1, <1>3 DEF Along
<1>6. QED  BY <1>1, <1>2, <1>3, <1>4, <1>5 DEF next

LEMMA LadderOfNothing == Ladder(<< >>) = EmptyLadder
<1>1. << >> \in Seq(Line) /\ Len(<< >>) = 0
    OBVIOUS
<1>2. PICK h : Along(h, << >>) /\ Ladder(<< >>) = h[Len(<< >>)]
    BY <1>1, LadderAlong
<1>3. QED  BY <1>1, <1>2 DEF Along

-----------------------------------------------------------------------------
LEMMA LadderStep ==
    ASSUME TypeOK, ladder = Ladder(record), [Next]_vars
    PROVE  ladder' = Ladder(record')
<1>1. CASE UNCHANGED <<record, ladder>>
    BY <1>1
<1>2. ASSUME NEW line \in Line, AppendLine(line)
      PROVE  ladder' = Ladder(record')
    BY <1>2, LadderOfAppend DEF AppendLine, TypeOK
<1>3. QED  BY <1>1, <1>2, StepAppends

\* The ladder a process holds is the fold of the record, whoever appended: the
\* ladder is never anything but what Ladder::load would return.
THEOREM LadderIsTheFold == Spec => [](ladder = Ladder(record))
<1>1. Init => ladder = Ladder(record)
    BY LadderOfNothing DEF Init
<1>2. TypeOK /\ ladder = Ladder(record) /\ [Next]_vars => (ladder = Ladder(record))'
    BY LadderStep
<1>3. QED  BY <1>1, <1>2, TypeCorrect, PTL DEF Spec

\* The clean outcomes after the last bad one.
Trail(c) == {i \in Outcomes(c) : \A j \in Bad(c) : j < i}

LEMMA Positions ==
    ASSUME TypeOK, NEW c \in Class
    PROVE  /\ Outcomes(c) \subseteq 1 .. Len(record) /\ Len(record) \in Nat
           /\ IsFiniteSet(Trail(c)) /\ Cardinality(Trail(c)) \in Nat
           /\ \A n : IsFiniteSet(StreakAt(c, n)) /\ Cardinality(StreakAt(c, n)) \in Nat
<1>1. Outcomes(c) \subseteq 1 .. Len(record) /\ Len(record) \in Nat
    BY DEF TypeOK, Outcomes
<1>2. IsFiniteSet(1 .. Len(record))
    BY <1>1, FS_Interval
<1>3. Trail(c) \in SUBSET (1 .. Len(record)) /\ \A n : StreakAt(c, n) \in SUBSET (1 .. Len(record))
    BY <1>1 DEF Trail, StreakAt
<1>4. QED  BY <1>1, <1>2, <1>3, FS_Subset, FS_CardinalityType

\* What was so of the first n lines stays so when a line is appended.
LEMMA AppendKeepsThePast ==
    ASSUME TypeOK, NEW line \in Line, AppendLine(line), NEW c \in Class
    PROVE  /\ Len(record') = Len(record) + 1
           /\ \A n \in 0 .. Len(record) : StreakAt(c, n)' = StreakAt(c, n)
           /\ \A g \in Grants(c)' : g \in Grants(c) \/ (g = Len(record) + 1 /\ line = RungLine(c, "act-alone"))
<1>1. /\ DOMAIN record' = 1 .. (Len(record) + 1) /\ Len(record') = Len(record) + 1
      /\ DOMAIN record = 1 .. Len(record)
      /\ Len(record) \in Nat
      /\ \A i \in 1 .. Len(record) : record'[i] = record[i]
      /\ record'[Len(record) + 1] = line
      /\ \A i \in 1 .. (Len(record) + 1) : i \in 1 .. Len(record) \/ i = Len(record) + 1
    BY DEF AppendLine, TypeOK
<1>2. \A n \in 0 .. Len(record) : StreakAt(c, n)' = StreakAt(c, n)
    BY <1>1 DEF StreakAt, Outcomes, Bad
<1>3. line.kind = "authority_rung" /\ line.class = c /\ line.rung = "act-alone"
          => line = RungLine(c, "act-alone")
    BY DEF Line, OutcomeLines, RungLines, RungLine
<1>4. QED  BY <1>1, <1>2, <1>3 DEF Grants

LEMMA StreakStep ==
    ASSUME TypeOK, StreakIsTrailingClean, NEW line \in Line, AppendLine(line)
    PROVE  StreakIsTrailingClean'
<1> SUFFICES ASSUME NEW c \in Class
             PROVE  /\ ladder'[c].streak = Cardinality(Trail(c)')
                    /\ ladder'[c].earned_at = "some" <=> ladder'[c].streak >= PROMOTION_STREAK
    BY DEF StreakIsTrailingClean, Trail
<1> DEFINE n == Len(record) + 1
<1>1. /\ DOMAIN record' = 1 .. n
      /\ DOMAIN record = 1 .. Len(record)
      /\ Len(record) \in Nat
      /\ \A i \in 1 .. Len(record) : record'[i] = record[i]
      /\ record'[n] = line
      /\ \A i \in 1 .. n : i \in 1 .. Len(record) \/ i = n
    BY DEF AppendLine, TypeOK
<1>2. /\ ladder[c] \in Standing /\ ladder[c].streak = Cardinality(Trail(c))
      /\ ladder[c].streak \in Nat /\ ladder[c].earned_at \in {"none", "some"}
      /\ ladder[c].earned_at = "some" <=> ladder[c].streak >= PROMOTION_STREAK
    BY DEF TypeOK, StreakIsTrailingClean, Trail, Standing
<1>3. IsFiniteSet(Trail(c)) /\ Trail(c) \subseteq 1 .. Len(record)
    BY Positions DEF Trail
<1>4. CASE line.class # c \/ line.kind # "authority_outcome"
    <2>1. Trail(c)' = Trail(c)
        BY <1>1, <1>4 DEF Trail, Outcomes, Bad
    <2>2. ladder'[c].streak = ladder[c].streak /\ ladder'[c].earned_at = ladder[c].earned_at
        BY <1>2, <1>4 DEF AppendLine, FoldLine, FoldRung, TypeOK, Standing
    <2>3. QED  BY <1>2, <2>1, <2>2
<1>5. CASE line.class = c /\ line.kind = "authority_outcome" /\ IsClean(line.outcome)
    <2>1. Trail(c)' = Trail(c) \cup {n} /\ n \notin Trail(c)
        BY <1>1, <1>3, <1>5 DEF Trail, Outcomes, Bad
    <2>2. Cardinality(Trail(c)') = ladder[c].streak + 1
        <3>1. Cardinality(Trail(c) \cup {n}) = Cardinality(Trail(c)) + 1
            BY <1>3, <2>1, FS_AddElement
        <3>2. QED  BY <1>2, <2>1, <3>1
    <2>3. ladder'[c] = CleanFold(ladder[c])
        BY <1>5 DEF AppendLine, FoldLine, FoldOutcome, TypeOK
    <2>4. /\ ladder'[c].streak = ladder[c].streak + 1
          /\ ladder'[c].earned_at = IF ladder[c].streak + 1 = PROMOTION_STREAK
                                    THEN "some" ELSE ladder[c].earned_at
        BY <1>2, <2>3 DEF CleanFold, Standing
    <2>5. QED  BY <1>2, <2>2, <2>4, PromotionStreakAssumption
<1>6. CASE line.class = c /\ line.kind = "authority_outcome" /\ ~IsClean(line.outcome)
    <2>1. Trail(c)' = {}
        BY <1>1, <1>6 DEF Trail, Outcomes, Bad
    <2>2. ladder'[c].streak = 0 /\ ladder'[c].earned_at = "none"
        BY <1>2, <1>6 DEF AppendLine, FoldLine, FoldOutcome, TypeOK, Standing
    <2>3. QED  BY <2>1, <2>2, FS_EmptySet, PromotionStreakAssumption
<1>7. QED  BY <1>4, <1>5, <1>6

\* A class was on PROMOTION_STREAK clean ships in a row within the first n lines.
EarnedBy(c, n) == \E m \in 1 .. n : Cardinality(StreakAt(c, m)) >= PROMOTION_STREAK

\* The strengthening: what a promotion was checked against is still on record.
ChecksWereEarned ==
    \A w \in Writer, c \in Class :
        job[w].at = "checked" /\ job[w].class = c => EarnedBy(c, Len(record))
EarnedInv == StreakIsTrailingClean /\ GrantsWereEarned /\ ChecksWereEarned

\* Whatever is appended, by whom and in what order, a grant's class had earned it:
\* the check of a promotion may be long past when its line lands, never untrue.
THEOREM AutonomyWasEarned == Spec => []AutonomyIsEarned
<1>1. Init => EarnedInv
    <2> SUFFICES ASSUME Init PROVE EarnedInv
        OBVIOUS
    <2>1. \A c \in Class : Outcomes(c) = {} /\ Grants(c) = {}
        BY DEF Init, Outcomes, Grants
    <2>2. Cardinality({}) = 0
        BY FS_EmptySet
    <2>3. \A c \in Class : {i \in Outcomes(c) : \A j \in Bad(c) : j < i} = {}
        BY <2>1
    <2>4. StreakIsTrailingClean
        <3> SUFFICES ASSUME NEW c \in Class
                     PROVE  /\ ladder[c].streak = Cardinality({i \in Outcomes(c) : \A j \in Bad(c) : j < i})
                            /\ ladder[c].earned_at = "some" <=> ladder[c].streak >= PROMOTION_STREAK
            BY DEF StreakIsTrailingClean
        <3>1. ladder[c].streak = 0 /\ ladder[c].earned_at = "none"
            BY DEF Init, EmptyLadder, DefaultStanding
        <3>2. Cardinality({i \in Outcomes(c) : \A j \in Bad(c) : j < i}) = 0
            BY <2>2, <2>3
        <3>3. QED  BY <3>1, <3>2, PromotionStreakAssumption
    <2>5. QED
        BY <2>1, <2>4 DEF Init, EarnedInv, GrantsWereEarned, ChecksWereEarned, Idle
<1>2. TypeOK /\ TypeOK' /\ EarnedInv /\ [Next]_vars => EarnedInv'
    <2> SUFFICES ASSUME TypeOK, TypeOK', EarnedInv, [Next]_vars PROVE EarnedInv'
        OBVIOUS
    <2>1. ASSUME UNCHANGED <<record, ladder>>
          PROVE  StreakIsTrailingClean' /\ GrantsWereEarned'
        <3>1. \A c \in Class :
                  /\ Outcomes(c)' = Outcomes(c) /\ Bad(c)' = Bad(c) /\ Grants(c)' = Grants(c)
                  /\ \A n : StreakAt(c, n)' = StreakAt(c, n)
            BY <2>1 DEF StreakAt, Outcomes, Bad, Grants
        <3>2. StreakIsTrailingClean'
            BY <2>1, <3>1 DEF EarnedInv, StreakIsTrailingClean
        <3>3. GrantsWereEarned'
            BY <3>1 DEF EarnedInv, GrantsWereEarned
        <3>4. QED  BY <3>2, <3>3
    <2>2. ASSUME UNCHANGED record, NEW c, NEW n
          PROVE  EarnedBy(c, n)' <=> EarnedBy(c, n)
        BY <2>2 DEF EarnedBy, StreakAt, Outcomes, Bad
    <2>3. CASE UNCHANGED vars
        BY <2>1, <2>2, <2>3 DEF vars, EarnedInv, ChecksWereEarned
    <2>4. ASSUME NEW w \in Writer, NEW c \in Class, CheckPromotion(w, c)
          PROVE  EarnedInv'
        <3>1. UNCHANGED <<record, ladder>>
            BY <2>4 DEF CheckPromotion
        <3>2. ladder[c].streak = Cardinality(Trail(c)) /\ ladder[c].streak >= PROMOTION_STREAK
            BY <2>4 DEF CheckPromotion, PromotionCandidates, EarnedInv, StreakIsTrailingClean, Trail
        <3>3. /\ Outcomes(c) \subseteq 1 .. Len(record) /\ Len(record) \in Nat
              /\ IsFiniteSet(Trail(c)) /\ Cardinality(Trail(c)) \in Nat
            BY Positions
        <3>4. Trail(c) # {}
            BY <3>2, <3>3, FS_EmptySet, PromotionStreakAssumption
        <3>5. Len(record) \in 1 .. Len(record)
            BY <3>3, <3>4 DEF Trail
        <3>9. Trail(c) = StreakAt(c, Len(record))
            BY <3>3 DEF Trail, StreakAt, Bad
        <3>6. EarnedBy(c, Len(record))
            BY <3>2, <3>5, <3>9 DEF EarnedBy
        <3>7. \A v \in Writer : job'[v] = IF v = w THEN [at |-> "checked", class |-> c] ELSE job[v]
            BY <2>4 DEF CheckPromotion, Become, TypeOK
        <3>8. ChecksWereEarned'
            BY <2>2, <3>1, <3>6, <3>7 DEF EarnedInv, ChecksWereEarned
        <3>10. QED  BY <2>1, <3>1, <3>8 DEF EarnedInv
    <2>5. ASSUME NEW w \in Writer,
                 \/ \E c \in Class, o \in Outcome : LoadForOutcome(w, c, o)
                 \/ Abandon(w)
          PROVE  EarnedInv'
        <3>1. UNCHANGED <<record, ladder>>
            BY <2>5 DEF LoadForOutcome, Abandon
        <3>2. \A v \in Writer : job'[v].at = "checked" => job'[v] = job[v]
            BY <2>5 DEF LoadForOutcome, Abandon, Become, TypeOK, Idle
        <3>3. ChecksWereEarned'
            BY <2>2, <3>1, <3>2 DEF EarnedInv, ChecksWereEarned
        <3>4. QED  BY <2>1, <3>1, <3>3 DEF EarnedInv
    <2>6. ASSUME NEW w \in Writer, NEW line \in Line, AppendLine(line),
                 \A v \in Writer : job'[v].at = "checked" => job'[v] = job[v],
                 \A c \in Class : line = RungLine(c, "act-alone") =>
                     EarnedBy(c, Len(record))
          PROVE  EarnedInv'
        <3>1. StreakIsTrailingClean'
            BY <2>6, StreakStep DEF EarnedInv
        <3>2. ASSUME NEW c \in Class, NEW n \in 0 .. Len(record), EarnedBy(c, n)
              PROVE  EarnedBy(c, n)'
            <4>1. Len(record) \in Nat
                BY DEF TypeOK
            <4>2. QED  BY <2>6, <3>2, <4>1, AppendKeepsThePast DEF EarnedBy
        <3>3. GrantsWereEarned'
            <4> SUFFICES ASSUME NEW c \in Class, NEW g \in Grants(c)'
                         PROVE  \E n \in 1 .. g - 1 :
                                    Cardinality(StreakAt(c, n)') >= PROMOTION_STREAK
                BY DEF GrantsWereEarned
            <4>1. Len(record) \in Nat /\ Grants(c) \subseteq 1 .. Len(record)
                BY DEF TypeOK, Grants
            <4>2. g \in Grants(c) \/ (g = Len(record) + 1 /\ line = RungLine(c, "act-alone"))
                BY <2>6, AppendKeepsThePast
            <4>3. CASE g \in Grants(c)
                <5>1. PICK n \in 1 .. g - 1 : Cardinality(StreakAt(c, n)) >= PROMOTION_STREAK
                    BY <4>3 DEF EarnedInv, GrantsWereEarned
                <5>2. n \in 0 .. Len(record)
                    BY <4>1, <4>3
                <5>3. QED  BY <2>6, <5>1, <5>2, AppendKeepsThePast
            <4>4. CASE g = Len(record) + 1 /\ line = RungLine(c, "act-alone")
                <5>1. PICK n \in 1 .. Len(record) : Cardinality(StreakAt(c, n)) >= PROMOTION_STREAK
                    BY <2>6, <4>4 DEF EarnedBy
                <5>2. n \in 0 .. Len(record) /\ n \in 1 .. g - 1
                    BY <4>1, <4>4
                <5>3. QED  BY <2>6, <5>1, <5>2, AppendKeepsThePast
            <4>5. QED  BY <4>2, <4>3, <4>4
        <3>4. ChecksWereEarned'
            <4> SUFFICES ASSUME NEW v \in Writer, NEW c \in Class,
                                job'[v].at = "checked", job'[v].class = c
                         PROVE  EarnedBy(c, Len(record))'
                BY DEF ChecksWereEarned
            <4>1. EarnedBy(c, Len(record))
                BY <2>6 DEF EarnedInv, ChecksWereEarned
            <4>2. Len(record) \in 0 .. Len(record) /\ Len(record) \in Nat
                BY DEF TypeOK
            <4>3. \E m \in 1 .. Len(record) :
                      Cardinality(StreakAt(c, m)') >= PROMOTION_STREAK
                BY <2>6, <4>1, <4>2, AppendKeepsThePast DEF EarnedBy
            <4>4. Len(record') = Len(record) + 1
                BY <2>6, AppendKeepsThePast
            <4>5. QED  BY <4>2, <4>3, <4>4 DEF EarnedBy
        <3>5. QED  BY <3>1, <3>3, <3>4 DEF EarnedInv
    <2>7. ASSUME NEW w \in Writer, AppendOutcome(w)
          PROVE  EarnedInv'
        <3> DEFINE line == OutcomeLine(job[w].class, job[w].outcome)
        <3>1. job[w].class \in Class /\ job[w].outcome \in Outcome
            BY <2>7 DEF AppendOutcome, TypeOK, Idle, Loaded, Recorded, CheckedPromotion
        <3>2. line \in Line /\ AppendLine(line)
            BY <2>7, <3>1 DEF AppendOutcome, OutcomeLine, Line, OutcomeLines
        <3>3. \A v \in Writer : job'[v].at = "checked" => job'[v] = job[v]
            BY <2>7 DEF AppendOutcome, Become, TypeOK, Idle
        <3>4. \A c \in Class : line # RungLine(c, "act-alone")
            BY DEF OutcomeLine, RungLine
        <3> HIDE DEF line
        <3>5. QED  BY <2>6, <3>2, <3>3, <3>4
    <2>8. ASSUME NEW w \in Writer, AppendDemotion(w) \/ \E c \in Class : Demote(w, c)
          PROVE  EarnedInv'
        <3>1. PICK c \in Class : AppendLine(RungLine(c, "propose"))
            BY <2>8 DEF AppendDemotion, Demote, TypeOK, Idle, Loaded, Recorded, CheckedPromotion
        <3> DEFINE line == RungLine(c, "propose")
        <3>2. line \in Line /\ AppendLine(line)
            BY <3>1 DEF RungLine, Line, RungLines, Rung
        <3>3. \A v \in Writer : job'[v].at = "checked" => job'[v] = job[v]
            BY <2>8 DEF AppendDemotion, Demote, Become, TypeOK, Idle
        <3>4. \A d \in Class : line # RungLine(d, "act-alone")
            BY DEF RungLine
        <3> HIDE DEF line
        <3>5. QED  BY <2>6, <3>2, <3>3, <3>4
    <2>9. ASSUME NEW w \in Writer, AppendPromotion(w)
          PROVE  EarnedInv'
        <3> DEFINE line == RungLine(job[w].class, "act-alone")
        <3>1. job[w].class \in Class /\ job[w].at = "checked"
            BY <2>9 DEF AppendPromotion, TypeOK, Idle, Loaded, Recorded, CheckedPromotion
        <3>2. line \in Line /\ AppendLine(line)
            BY <2>9, <3>1 DEF AppendPromotion, RungLine, Line, RungLines, Rung
        <3>3. \A v \in Writer : job'[v].at = "checked" => job'[v] = job[v]
            BY <2>9 DEF AppendPromotion, Become, TypeOK, Idle
        <3>4. \A c \in Class : line = RungLine(c, "act-alone") => EarnedBy(c, Len(record))
            BY <3>1 DEF RungLine, EarnedInv, ChecksWereEarned
        <3> HIDE DEF line
        <3>5. QED  BY <2>6, <3>2, <3>3, <3>4
    <2>10. QED  BY <2>3, <2>4, <2>5, <2>7, <2>8, <2>9 DEF Next
<1>3. EarnedInv => AutonomyIsEarned
    BY DEF EarnedInv, AutonomyIsEarned
<1>4. QED  BY <1>1, <1>2, <1>3, TypeCorrect, PTL DEF Spec

-----------------------------------------------------------------------------
\* What an unasked dispatch rests on: its class was on act-alone in some state of the
\* record no older than the reproduction.
HeldActAlone(f) ==
    \E n \in since[f] .. Len(record) :
        Ladder(SubSeq(record, 1, n))[HostedClass[f]].rung = "act-alone"

DispatchType ==
    /\ hosted \in [Hosted -> {"detected", "local", "unreproduced", "reproduced",
                              "posting", "posted", "dispatched", "failed"}]
    /\ ask \in [Hosted -> {"unsent", "go", "approval"}]
    /\ since \in [Hosted -> Nat]
    /\ \A f \in Hosted : since[f] <= Len(record)

\* The strengthening: nothing is asked for a failure that has not been reproduced
\* yet, and a go rests on what it must whether or not it was posted.
GoIsEarned ==
    \A f \in Hosted :
        /\ hosted[f] \in {"detected", "reproduced"} => ask[f] = "unsent"
        /\ ask[f] = "go" =>
              /\ f \in Captured /\ HostedCeiling = "act-alone"
              /\ HeldActAlone(f)

DispatchInv == TypeOK /\ ladder = Ladder(record) /\ DispatchType /\ GoIsEarned

\* The gate says yes only to the top rung, which the lower of two rungs is only if
\* both are.
LEMMA GoNeedsActAlone ==
    ASSUME NEW f \in Hosted, "go" \in ApprovalAsk(f), ladder \in [Class -> Standing]
    PROVE  /\ f \in Captured /\ HostedCeiling = "act-alone"
           /\ ladder[HostedClass[f]].rung = "act-alone"
<1>1. PICK earned \in {RungNow(f), "propose"} :
          ShipDecision(MinRung(HostedCeiling, earned), f \in Captured, TRUE) = "may_ship"
    BY DEF ApprovalAsk
<1>2. f \in Captured /\ MinRung(HostedCeiling, earned) = "act-alone"
    BY <1>1 DEF ShipDecision
<1>3. RungNow(f) \in Rung /\ HostedCeiling \in Rung
    BY DispatchAssumption DEF RungNow, Standing
<1>4. HostedCeiling = "act-alone" /\ earned = "act-alone"
    BY <1>2, <1>3 DEF MinRung, Level, Rung
<1>5. QED  BY <1>2, <1>4 DEF RungNow

\* A longer record says of its first n lines what it said.
LEMMA HeldStays ==
    ASSUME TypeOK, DispatchType, NEW line \in Line, record' = Append(record, line),
           UNCHANGED since, NEW f \in Hosted, HeldActAlone(f)
    PROVE  HeldActAlone(f)'
<1>1. PICK n \in since[f] .. Len(record) :
          Ladder(SubSeq(record, 1, n))[HostedClass[f]].rung = "act-alone"
    BY DEF HeldActAlone
<1>2. record \in Seq(Line) /\ Len(record) \in Nat /\ since[f] \in Nat /\ n \in Nat /\ n <= Len(record)
    BY DEF TypeOK, DispatchType
<1>3. SubSeq(Append(record, line), 1, n) = SubSeq(record, 1, n)
    BY <1>2
<1>4. Len(record') = Len(record) + 1
    BY <1>2
<1>5. n \in since'[f] .. Len(record')
    BY <1>2, <1>4
<1>6. QED  BY <1>1, <1>3, <1>5 DEF HeldActAlone

\* Whatever the writers of the record do meanwhile, a repair that starts unasked is of
\* a class that held act-alone after the failure happened again.
THEOREM UnaskedNeedsActAlone == DispatchSpec => []UnaskedWasEarned
<1> DEFINE DInit == /\ record = StartRecord /\ ladder = Ladder(StartRecord)
                    /\ job = [w \in Writer |-> Idle]
                    /\ DispatchInit
<1>1. DInit => DispatchInv
    <2> SUFFICES ASSUME DInit PROVE DispatchInv
        OBVIOUS
    <2>1. StartRecord \in Seq(Line) /\ Ladder(StartRecord) \in [Class -> Standing]
        <3>1. PICK h : Along(h, StartRecord) /\ Ladder(StartRecord) = h[Len(StartRecord)]
            BY DispatchAssumption, LadderAlong
        <3>2. Len(StartRecord) \in 0 .. Len(StartRecord)
            BY DispatchAssumption
        <3>3. QED  BY <3>1, <3>2, DispatchAssumption DEF Along
    <2>2. TypeOK
        BY <2>1 DEF TypeOK
    <2>3. DispatchType /\ GoIsEarned
        BY <2>1 DEF DispatchInit, DispatchType, GoIsEarned
    <2>4. QED  BY <2>2, <2>3 DEF DispatchInv
<1>2. DispatchInv /\ [DispatchNext]_<<vars, dispatchVars>> => DispatchInv'
    <2> SUFFICES ASSUME DispatchInv, [DispatchNext]_<<vars, dispatchVars>> PROVE DispatchInv'
        OBVIOUS
    <2> USE DEF DispatchInv
    <2>1. ASSUME [Next]_vars, UNCHANGED dispatchVars PROVE DispatchInv'
        <3>1. TypeOK' /\ ladder' = Ladder(record')
            BY <2>1, TypeStep, LadderStep
        <3>2. CASE UNCHANGED <<record, ladder>>
            BY <2>1, <3>1, <3>2 DEF dispatchVars, DispatchType, GoIsEarned, HeldActAlone
        <3>3. ASSUME NEW line \in Line, AppendLine(line)
              PROVE  DispatchType' /\ GoIsEarned'
            <4>1. record' = Append(record, line) /\ UNCHANGED <<hosted, ask, since>>
                BY <2>1, <3>3 DEF AppendLine, dispatchVars
            <4>2. record \in Seq(Line) /\ Len(record) \in Nat /\ Len(record') = Len(record) + 1
                BY <4>1 DEF TypeOK
            <4>3. DispatchType'
                BY <4>1, <4>2 DEF DispatchType
            <4>4. \A f \in Hosted : HeldActAlone(f) => HeldActAlone(f)'
                BY <3>3, <4>1, HeldStays
            <4>5. GoIsEarned'
                BY <4>1, <4>4 DEF GoIsEarned
            <4>6. QED  BY <4>3, <4>5
        <3>4. QED  BY <2>1, <3>1, <3>2, <3>3, StepAppends
    <2>2. ASSUME NEW f \in Hosted, UNCHANGED vars, ReproduceHere(f) PROVE DispatchInv'
        <3>1. TypeOK' /\ ladder' = Ladder(record')
            BY <2>2 DEF vars, TypeOK
        <3>2. /\ UNCHANGED <<record, ask>>
              /\ hosted[f] = "detected"
              /\ \E to \in {"local", "unreproduced", "reproduced"} :
                    hosted' = [hosted EXCEPT ![f] = to]
              /\ since' = [since EXCEPT ![f] = Len(record)]
            BY <2>2 DEF ReproduceHere, HostedGoes, vars
        <3>3. Len(record) \in Nat
            BY DEF TypeOK
        <3>4. DispatchType'
            BY <3>2, <3>3 DEF DispatchType
        <3>5. \A g \in Hosted : ask[g] = "go" => g # f /\ since'[g] = since[g]
            BY <3>2 DEF GoIsEarned, DispatchType
        <3>6. \A g \in Hosted : ask[g] = "go" => HeldActAlone(g)'
            BY <3>2, <3>5 DEF GoIsEarned, HeldActAlone
        <3>7. GoIsEarned'
            BY <3>2, <3>6 DEF GoIsEarned, DispatchType
        <3>8. QED  BY <3>1, <3>4, <3>7
    <2>3. ASSUME NEW f \in Hosted, UNCHANGED vars, Prepare(f) PROVE DispatchInv'
        <3>1. TypeOK' /\ ladder' = Ladder(record')
            BY <2>3 DEF vars, TypeOK
        <3>2. /\ UNCHANGED <<record, since>> /\ hosted[f] = "reproduced"
              /\ \/ hosted' = [hosted EXCEPT ![f] = "failed"] /\ UNCHANGED ask
                 \/ /\ hosted' = [hosted EXCEPT ![f] = "posting"]
                    /\ \E a \in ApprovalAsk(f) : ask' = [ask EXCEPT ![f] = a]
            BY <2>3 DEF Prepare, HostedGoes, vars
        <3>3. ApprovalAsk(f) \subseteq {"go", "approval"}
            BY DEF ApprovalAsk
        <3>4. DispatchType'
            BY <3>2, <3>3 DEF DispatchType
        <3>5. ASSUME NEW g \in Hosted, ask'[g] = "go"
              PROVE  g \in Captured /\ HostedCeiling = "act-alone" /\ HeldActAlone(g)
            <4>1. CASE ask[g] = "go"
                BY <4>1 DEF GoIsEarned
            <4>2. CASE ask[g] # "go"
                <5>1. g = f /\ "go" \in ApprovalAsk(f)
                    BY <3>2, <3>5, <4>2 DEF DispatchType
                <5>2. /\ f \in Captured /\ HostedCeiling = "act-alone"
                      /\ Ladder(record)[HostedClass[f]].rung = "act-alone"
                    BY <5>1, GoNeedsActAlone DEF TypeOK
                <5>3. record \in Seq(Line) /\ Len(record) \in since[f] .. Len(record)
                    BY DEF TypeOK, DispatchType
                <5>4. SubSeq(record, 1, Len(record)) = record
                    BY <5>3
                <5>5. QED  BY <5>1, <5>2, <5>3, <5>4 DEF HeldActAlone
            <4>3. QED  BY <4>1, <4>2
        <3>6. \A g \in Hosted : HeldActAlone(g) => HeldActAlone(g)'
            BY <3>2 DEF HeldActAlone
        <3>7. GoIsEarned'
            BY <3>2, <3>5, <3>6 DEF GoIsEarned, DispatchType
        <3>8. QED  BY <3>1, <3>4, <3>7
    <2>4. ASSUME NEW f \in Hosted, UNCHANGED vars, UNCHANGED <<ask, since>>,
                 \/ UNCHANGED hosted
                 \/ \E to \in {"posted", "dispatched", "failed"} :
                       hosted' = [hosted EXCEPT ![f] = to]
          PROVE  DispatchInv'
        <3>1. TypeOK' /\ ladder' = Ladder(record') /\ UNCHANGED record
            BY <2>4 DEF vars, TypeOK
        <3>2. DispatchType'
            BY <2>4, <3>1 DEF DispatchType
        <3>3. \A g \in Hosted : HeldActAlone(g) => HeldActAlone(g)'
            BY <2>4, <3>1 DEF HeldActAlone
        <3>4. GoIsEarned'
            BY <2>4, <3>3 DEF GoIsEarned, DispatchType
        <3>5. QED  BY <3>1, <3>2, <3>4
    <2>5. ASSUME NEW f \in Hosted, UNCHANGED vars, PostRepair(f) \/ ReadAnswer(f)
          PROVE  DispatchInv'
        BY <2>4, <2>5 DEF PostRepair, ReadAnswer, HostedGoes
    <2>6. ASSUME NEW f \in Hosted, UNCHANGED vars,
                 AnswerApproval(f) \/ RunRepair(f) \/ LoseRunner(f)
          PROVE  DispatchInv'
        BY <2>4, <2>6 DEF AnswerApproval, RunRepair, LoseRunner
    <2>7. CASE UNCHANGED <<vars, dispatchVars>>
        BY <2>1, <2>7
    <2>8. QED
        BY <2>1, <2>2, <2>3, <2>5, <2>6, <2>7 DEF DispatchNext, DispatchStep
<1>3. DispatchInv => UnaskedWasEarned
    BY DEF DispatchInv, GoIsEarned, UnaskedWasEarned, HeldActAlone
<1>4. QED  BY <1>1, <1>2, <1>3, PTL DEF DispatchSpec

-----------------------------------------------------------------------------
ChangedFile == [lines: Nat, credential: BOOLEAN, names: SUBSET Nat]

\* The lines of the files counted so far.
Counts(h, change, files) ==
    /\ h \in [0 .. Len(change) -> Nat]
    /\ h[0] = 0
    /\ \A n \in 1 .. Len(change) :
           h[n] = h[n - 1] + (IF n \in files THEN change[n].lines ELSE 0)

LEMMA FilesHaveLines ==
    ASSUME NEW change \in Seq(ChangedFile)
    PROVE  /\ Len(change) \in Nat /\ DOMAIN change = 1 .. Len(change)
           /\ \A n \in 1 .. Len(change) : change[n].lines \in Nat
<1>1. \A n \in 1 .. Len(change) : change[n] \in ChangedFile
    OBVIOUS
<1>2. QED  BY <1>1 DEF ChangedFile

LEMMA LinesAreCounted ==
    ASSUME NEW change \in Seq(ChangedFile), NEW files
    PROVE  \E h : Counts(h, change, files) /\ LinesIn(change, files) = h[Len(change)]
<1> DEFINE L == Len(change)
           adds == [n \in 1 .. L |-> IF n \in files THEN change[n].lines ELSE 0]
           step == [n \in 1 .. L |-> [k \in Nat |-> k + adds[n]]]
           Eq(h) == h = [n \in 0 .. L |->
                            IF n = 0 THEN 0
                            ELSE h[n - 1] + (IF n \in files THEN change[n].lines ELSE 0)]
           iter == CHOOSE h : Eq(h)
<1>1. L \in Nat /\ \A n \in 1 .. L : adds[n] \in Nat
    BY FilesHaveLines
<1>2. step \in [1 .. L -> [Nat -> Nat]]
    <2> HIDE DEF adds
    <2>1. QED  BY <1>1
<1>3. PICK h : IsRecursion(h, L, Nat, 0, step)
    <2> HIDE DEF step, L
    <2>1. 0 \in Nat
        OBVIOUS
    <2>2. QED  BY <1>1, <1>2, <2>1, RecursionExists
<1>4. \A n \in 0 .. L : n # 0 => n \in 1 .. L /\ n - 1 \in 0 .. L
    BY <1>1
<1>5. h \in [0 .. L -> Nat]
    BY <1>3 DEF IsRecursion
<1>6. \A n \in 0 .. L : n # 0 =>
          step[n][h[n - 1]] = h[n - 1] + (IF n \in files THEN change[n].lines ELSE 0)
    <2>1. \A n \in 0 .. L : n # 0 => h[n - 1] \in Nat
        <3> HIDE DEF L
        <3>1. QED  BY <1>4, <1>5
    <2>2. QED  BY <1>4, <2>1
<1>7. Eq(h)
    <2> HIDE DEF step
    <2>1. QED  BY <1>3, <1>6 DEF IsRecursion
<1>8. Eq(iter)
    <2> HIDE DEF Eq
    <2>1. QED  BY <1>7
<1>9. LinesIn(change, files) = iter[L]
    BY DEF LinesIn
<1> HIDE DEF iter
<1>10. /\ iter[0] = 0
       /\ \A n \in 1 .. L :
              iter[n] = iter[n - 1] + (IF n \in files THEN change[n].lines ELSE 0)
    <2>1. 0 \in 0 .. L /\ \A n \in 1 .. L : n \in 0 .. L /\ n # 0
        BY <1>1
    <2>2. QED  BY <1>8, <2>1
<1>11. \A n \in 0 .. L : iter[n] \in Nat
    <2> DEFINE Odd == {n \in 0 .. L : iter[n] \notin Nat}
    <2> SUFFICES ASSUME Odd # {} PROVE FALSE
        OBVIOUS
    <2>1. PICK n \in Odd : \A m \in Odd : n <= m
        <3>1. Odd \in SUBSET Nat
            BY <1>1
        <3> HIDE DEF Odd
        <3>2. QED  BY <3>1, LeastNat
    <2>2. n # 0
        BY <1>10, <2>1
    <2>3. n \in 1 .. L /\ n - 1 \in 0 .. L /\ ~(n <= n - 1)
        BY <1>1, <2>1, <2>2
    <2>4. iter[n - 1] \in Nat
        BY <2>1, <2>3
    <2>5. adds[n] \in Nat /\ iter[n] = iter[n - 1] + adds[n]
        BY <1>1, <1>10, <2>3
    <2>6. iter[n] \in Nat
        <3> HIDE DEF adds
        <3>1. QED  BY <2>4, <2>5
    <2>7. QED  BY <2>1, <2>6
<1>12. iter \in [0 .. L -> Nat]
    <2>1. iter = [n \in 0 .. L |-> iter[n]]
        <3> DEFINE g == [n \in 0 .. L |->
                            IF n = 0 THEN 0
                            ELSE iter[n - 1] + (IF n \in files THEN change[n].lines ELSE 0)]
        <3>1. iter = g
            BY <1>8
        <3>2. g = [n \in 0 .. L |-> g[n]]
            OBVIOUS
        <3> HIDE DEF g
        <3>3. QED  BY <3>1, <3>2
    <2>2. QED  BY <1>11, <2>1
<1>13. Counts(iter, change, files)
    BY <1>10, <1>12 DEF Counts
<1>14. QED  BY <1>9, <1>13

LEMMA AddsOnEitherSide ==
    ASSUME NEW b \in Nat, NEW c \in Nat, NEW l \in Nat
    PROVE  (b + c) + l = (b + l) + c /\ (b + c) + l = b + (c + l)
OBVIOUS

\* Every line is counted once whichever way the files are divided.
LEMMA LinesAddUp ==
    ASSUME NEW change \in Seq(ChangedFile), NEW hidden \in SUBSET (DOMAIN change)
    PROVE  /\ LinesIn(change, hidden) \in Nat
           /\ LinesIn(change, (DOMAIN change) \ hidden) \in Nat
           /\ LinesIn(change, DOMAIN change)
                  = LinesIn(change, (DOMAIN change) \ hidden) + LinesIn(change, hidden)
<1> DEFINE L == Len(change)
<1>1. L \in Nat /\ DOMAIN change = 1 .. L /\ \A n \in 1 .. L : change[n].lines \in Nat
    BY FilesHaveLines
<1>2. PICK a : Counts(a, change, DOMAIN change) /\ LinesIn(change, DOMAIN change) = a[L]
    BY LinesAreCounted
<1>3. PICK b : Counts(b, change, (DOMAIN change) \ hidden)
               /\ LinesIn(change, (DOMAIN change) \ hidden) = b[L]
    BY LinesAreCounted
<1>4. PICK c : Counts(c, change, hidden) /\ LinesIn(change, hidden) = c[L]
    BY LinesAreCounted
<1> HIDE DEF L
<1>5. \A n \in 0 .. L : a[n] \in Nat /\ b[n] \in Nat /\ c[n] \in Nat
    BY <1>2, <1>3, <1>4 DEF Counts, L
<1>6. ASSUME NEW n \in 1 .. L
      PROVE  /\ a[n] = a[n - 1] + change[n].lines
             /\ (b[n] = b[n - 1] + change[n].lines /\ c[n] = c[n - 1])
                \/ (b[n] = b[n - 1] /\ c[n] = c[n - 1] + change[n].lines)
    <2>1. n - 1 \in 0 .. L /\ n \in DOMAIN change
        BY <1>1
    <2>2. /\ a[n] = a[n - 1] + change[n].lines
          /\ b[n] = b[n - 1] + (IF n \in hidden THEN 0 ELSE change[n].lines)
          /\ c[n] = c[n - 1] + (IF n \in hidden THEN change[n].lines ELSE 0)
        BY <1>2, <1>3, <1>4, <2>1 DEF Counts, L
    <2>3. b[n - 1] + 0 = b[n - 1] /\ c[n - 1] + 0 = c[n - 1]
        BY <1>5, <2>1
    <2>4. QED  BY <2>2, <2>3
<1>7. \A n \in 0 .. L : a[n] = b[n] + c[n]
    <2> DEFINE Odd == {n \in 0 .. L : a[n] # b[n] + c[n]}
    <2> SUFFICES ASSUME Odd # {} PROVE FALSE
        OBVIOUS
    <2>1. PICK n \in Odd : \A m \in Odd : n <= m
        <3>1. Odd \in SUBSET Nat
            BY <1>1
        <3> HIDE DEF Odd
        <3>2. QED  BY <3>1, LeastNat
    <2>2. a[0] = 0 /\ b[0] = 0 /\ c[0] = 0
        BY <1>2, <1>3, <1>4 DEF Counts
    <2>3. n \in 1 .. L /\ n - 1 \in 0 .. L /\ ~(n <= n - 1)
        BY <1>1, <2>1, <2>2
    <2>4. a[n - 1] = b[n - 1] + c[n - 1]
        BY <2>1, <2>3
    <2>5. /\ change[n].lines \in Nat /\ b[n - 1] \in Nat /\ c[n - 1] \in Nat
          /\ a[n] # b[n] + c[n]
        BY <1>1, <1>5, <2>1, <2>3
    <2>6. /\ a[n] = (b[n - 1] + c[n - 1]) + change[n].lines
          /\ \/ b[n] + c[n] = (b[n - 1] + change[n].lines) + c[n - 1]
             \/ b[n] + c[n] = b[n - 1] + (c[n - 1] + change[n].lines)
        BY <1>6, <2>3, <2>4
    <2>7. QED  BY <2>5, <2>6, AddsOnEitherSide
<1>8. L \in 0 .. L
    BY <1>1
<1>9. QED  BY <1>2, <1>3, <1>4, <1>5, <1>7, <1>8

-----------------------------------------------------------------------------
Outs == [reproduced: BOOLEAN, repaired: BOOLEAN, diff: {NoDiff},
         why: {"no terminal event", "none", "repro_failed", "unreproduced", "failed"}]
Events == {"repro_failed", "unreproduced", "reproduced", "ready", "failed"}

\* What folding the events leaves after each of them.
FoldedAlong(h, events) ==
    /\ h[0] = NothingEstablished
    /\ \A n \in 1 .. Len(events) : h[n] = FoldEvent(h[n - 1], events[n])

LEMMA FoldEventType ==
    ASSUME NEW out \in Outs, NEW event \in Events
    PROVE  FoldEvent(out, event) \in Outs
<1>1. CASE event = "reproduced"
    BY <1>1 DEF FoldEvent, Outs
<1>2. CASE event = "ready"
    BY <1>2 DEF FoldEvent, Outs
<1>3. CASE event \in {"repro_failed", "unreproduced", "failed"}
    <2>1. FoldEvent(out, event) = [out EXCEPT !.repaired = FALSE, !.why = event]
        BY <1>3 DEF FoldEvent
    <2>2. QED  BY <1>3, <2>1 DEF Outs
<1>4. QED  BY <1>1, <1>2, <1>3 DEF Events

LEMMA EventsAlong ==
    ASSUME NEW events \in Seq(Events)
    PROVE  \E h : FoldedAlong(h, events) /\ FoldEvents(events) = h[Len(events)]
<1> DEFINE D == 1 .. Len(events)
           step == [i \in D |-> [out \in Outs |-> FoldEvent(out, events[i])]]
           Eq(f) == f = [s \in SUBSET D |->
                            IF s = {} THEN NothingEstablished
                            ELSE FoldEvent(f[s \ {Max(s)}], events[Max(s)])]
           iter == CHOOSE f : Eq(f)
           h == [n \in 0 .. Len(events) |-> iter[1 .. n]]
<1>1. Len(events) \in Nat /\ DOMAIN events = D /\ \A i \in D : events[i] \in Events
    OBVIOUS
<1>2. step \in [D -> [Outs -> Outs]]
    BY <1>1, FoldEventType
<1>3. \A s \in SUBSET D : s # {} => Max(s) \in D
    BY <1>1, MaxIsMember
<1>4. PICK it : IsFoldLeft(it, Len(events), Outs, NothingEstablished, step)
    <2> HIDE DEF step
    <2>1. NothingEstablished \in Outs
        BY DEF NothingEstablished, Outs
    <2>2. QED  BY <1>1, <1>2, <2>1, FoldLeftExists
<1>5. \A s \in SUBSET D : s # {} =>
          step[Max(s)][it[s \ {Max(s)}]] = FoldEvent(it[s \ {Max(s)}], events[Max(s)])
    BY <1>3, <1>4 DEF IsFoldLeft
<1>6. Eq(it)
    <2> HIDE DEF step
    <2>1. QED  BY <1>4, <1>5 DEF IsFoldLeft
<1>7. Eq(iter)
    <2> HIDE DEF Eq
    <2>1. QED  BY <1>6
<1>8. FoldEvents(events) = iter[D]
    BY <1>1 DEF FoldEvents, FoldLeft, MapThenFoldSet
<1> HIDE DEF iter
<1>9. \A n \in 0 .. Len(events) : 1 .. n \in SUBSET D
    BY <1>1
<1>10. h[0] = NothingEstablished
    <2>1. 1 .. 0 = {}
        OBVIOUS
    <2>2. QED  BY <1>1, <1>7, <1>9, <2>1
<1>11. ASSUME NEW n \in 1 .. Len(events)
       PROVE  h[n] = FoldEvent(h[n - 1], events[n])
    <2>1. /\ n \in Nat /\ n # 0 /\ n \in 0 .. Len(events) /\ n - 1 \in 0 .. Len(events)
          /\ n \in 1 .. n
        BY <1>1
    <2>2. iter[1 .. n] = FoldEvent(iter[(1 .. n) \ {Max(1 .. n)}], events[Max(1 .. n)])
        BY <1>7, <1>9, <2>1
    <2>3. Max(1 .. n) = n /\ (1 .. n) \ {n} = 1 .. (n - 1)
        BY <2>1, MaxOfInterval
    <2>4. QED  BY <2>1, <2>2, <2>3
<1>12. h[Len(events)] = iter[D]
    BY <1>1
<1>13. FoldedAlong(h, events)
    BY <1>10, <1>11 DEF FoldedAlong
<1> HIDE DEF h
<1>14. QED  BY <1>8, <1>12, <1>13

\* What a runner may report of its pipeline: a repair only after a reproduction, and a
\* reason exactly when there is none.
Tells(out) ==
    /\ out \in Outs
    /\ out.repaired => out.reproduced /\ out.why = "none"
    /\ ~out.repaired => out.why # "none"

LEMMA RunnersTell ==
    ASSUME NEW events \in RunnerEvents
    PROVE  Tells(FoldEvents(events))
<1> DEFINE Two(a, b) == FoldEvent(FoldEvent(NothingEstablished, a), b)
<1>1. events \in Seq(Events)
    <2>1. << >> \in Seq(Events) /\ \A e \in Events : <<e>> \in Seq(Events)
        OBVIOUS
    <2>2. \A e, g \in Events : <<e, g>> \in Seq(Events)
        OBVIOUS
    <2>3. {"repro_failed", "unreproduced", "reproduced", "ready", "failed"} \subseteq Events
        BY DEF Events
    <2>4. QED  BY <2>1, <2>2, <2>3 DEF RunnerEvents
<1>2. PICK h : FoldedAlong(h, events) /\ FoldEvents(events) = h[Len(events)]
    BY <1>1, EventsAlong
<1>3. CASE events = << >>
    <2>1. FoldEvents(events) = NothingEstablished
        BY <1>2, <1>3 DEF FoldedAlong
    <2>2. NothingEstablished = [reproduced |-> FALSE, repaired |-> FALSE,
                                why |-> "no terminal event", diff |-> NoDiff]
        BY DEF NothingEstablished
    <2>3. NothingEstablished \in Outs
        BY <2>2 DEF Outs
    <2>4. /\ NothingEstablished.repaired = FALSE
          /\ NothingEstablished.why = "no terminal event"
        BY <2>2
    <2>5. Tells(NothingEstablished)
        BY <2>3, <2>4 DEF Tells
    <2>6. QED  BY <2>1, <2>5
<1>4. ASSUME NEW e \in {"repro_failed", "unreproduced"}, events = <<e>>
      PROVE  Tells(FoldEvents(events))
    <2>1. FoldEvents(events) = FoldEvent(NothingEstablished, e)
        <3>1. Len(events) = 1 /\ events[1] = e
            BY <1>4
        <3>2. QED  BY <1>2, <3>1 DEF FoldedAlong
    <2>2. FoldEvent(NothingEstablished, e)
              = [NothingEstablished EXCEPT !.repaired = FALSE, !.why = e]
        BY <1>4 DEF FoldEvent
    <2>3. QED  BY <1>4, <2>1, <2>2 DEF NothingEstablished, Outs, Tells
<1>5. ASSUME NEW e \in {"ready", "failed"}, events = <<"reproduced", e>>
      PROVE  Tells(FoldEvents(events))
    <2>1. FoldEvents(events) = Two("reproduced", e)
        <3>1. Len(events) = 2 /\ events[1] = "reproduced" /\ events[2] = e
            BY <1>5
        <3>2. h[2] = FoldEvent(h[1], e) /\ h[1] = FoldEvent(h[0], "reproduced")
              /\ h[0] = NothingEstablished
            BY <1>2, <3>1 DEF FoldedAlong
        <3>3. QED  BY <1>2, <3>1, <3>2
    <2>2. FoldEvent(NothingEstablished, "reproduced")
              = [NothingEstablished EXCEPT !.reproduced = TRUE]
        BY DEF FoldEvent
    <2>3. CASE e = "ready"
        <3>1. FoldEvents(events)
                  = [reproduced |-> TRUE, repaired |-> TRUE, why |-> "none", diff |-> NoDiff]
            BY <2>1, <2>2, <2>3 DEF FoldEvent, NothingEstablished
        <3>2. QED  BY <3>1 DEF Outs, Tells
    <2>4. CASE e = "failed"
        <3>1. FoldEvents(events)
                  = [reproduced |-> TRUE, repaired |-> FALSE, why |-> "failed", diff |-> NoDiff]
            BY <2>1, <2>2, <2>4 DEF FoldEvent, NothingEstablished
        <3>2. QED  BY <3>1 DEF Outs, Tells
    <2>5. QED  BY <1>5, <2>3, <2>4
<1>6. QED  BY <1>3, <1>4, <1>5 DEF RunnerEvents

\* What a reviewer of one outcome may conclude.
Honest(r) ==
    /\ r.repaired => (r.reproduced /\ r.why = "none")
    /\ ~r.repaired => (r.why # "none" /\ r.diff = NoDiff)
    /\ ~r.diff.shown => r.diff.carried = 0 /\ ~r.diff.truncated
    /\ r.diff.shown =>
          /\ r.diff.withheld > 0 => r.diff.carried > 0
          /\ ~r.diff.truncated =>
                r.diff.carried + LinesIn(r.diff.change, Withheld(r.diff.change) \cup Stripped(r.diff.change))
                    = Notice(r.diff.change) + LinesIn(r.diff.change, DOMAIN r.diff.change)

LEMMA NothingShown ==
    /\ NoDiff = [shown |-> FALSE, files |-> 0, listed |-> 0, withheld |-> 0,
                 whole |-> 0, carried |-> 0, truncated |-> FALSE, change |-> << >>]
    /\ ~NoDiff.shown /\ NoDiff.carried = 0 /\ ~NoDiff.truncated
BY DEF NoDiff

LEMMA UnrepairedIsHonest ==
    ASSUME NEW out, Tells(out), ~out.repaired
    PROVE  Honest(out)
<1>1. out.diff = NoDiff /\ out.why # "none"
    BY DEF Tells, Outs
<1>2. QED  BY <1>1, NothingShown DEF Honest

\* A diff that is shown and not cut has every line but the withheld and the stripped.
LEMMA RepairIsHonest ==
    ASSUME NEW out, Tells(out), out.repaired,
           NEW change \in Seq(ChangedFile), NEW diff \in AttachDiff(change)
    PROVE  Honest([out EXCEPT !.diff = diff])
<1> DEFINE r == [out EXCEPT !.diff = diff]
           hidden == Withheld(change)
           gone == hidden \cup Stripped(change)
           notice == Notice(change)
           whole == notice + LinesIn(change, (DOMAIN change) \ gone)
           carried == IF whole <= DIFF_MAX THEN whole ELSE DIFF_MAX
<1>1. /\ r.repaired = out.repaired /\ r.reproduced = out.reproduced /\ r.why = out.why
      /\ r.diff = diff
    BY DEF Tells, Outs
<1>2. r.repaired /\ r.reproduced /\ r.why = "none"
    BY <1>1 DEF Tells
<1> HIDE DEF r
<1>3. CASE diff = NoDiff
    BY <1>1, <1>2, <1>3, NothingShown DEF Honest, r
<1>4. CASE diff = Shaped(change, FALSE, 0)
    <2>1. ~diff.shown /\ diff.carried = 0 /\ ~diff.truncated
        <3>1. /\ diff.shown = FALSE /\ diff.truncated = (0 > DIFF_MAX)
              /\ diff.carried = IF 0 <= DIFF_MAX THEN 0 ELSE DIFF_MAX
            BY <1>4 DEF Shaped
        <3>2. 0 <= DIFF_MAX /\ ~(0 > DIFF_MAX)
            BY DispatchAssumption
        <3>3. QED  BY <3>1, <3>2, Zenon
    <2>2. QED  BY <1>1, <1>2, <2>1 DEF Honest, r
<1>5. CASE diff = Shaped(change, TRUE, whole)
    <2>1. /\ diff.shown
          /\ diff.withheld = Cardinality(hidden) /\ diff.change = change
          /\ diff.carried = carried /\ diff.truncated = (whole > DIFF_MAX)
        BY <1>5 DEF Shaped
    <2>2. hidden \in SUBSET (DOMAIN change) /\ gone \in SUBSET (DOMAIN change)
        BY DEF Withheld, Stripped
    <2>3. DIFF_MAX \in Nat \ {0}
        BY DispatchAssumption
    <2>4. notice \in {0, 1, 2} /\ (hidden # {} => notice > 0)
        BY DEF Notice
    <2>5. hidden = {} => Cardinality(hidden) = 0
        BY FS_EmptySet
    <2> HIDE DEF hidden, notice
    <2>6. Cardinality(hidden) > 0 => notice > 0
        BY <2>4, <2>5
    <2> HIDE DEF gone
    <2>7. /\ LinesIn(change, gone) \in Nat
          /\ LinesIn(change, (DOMAIN change) \ gone) \in Nat
          /\ LinesIn(change, DOMAIN change)
                 = LinesIn(change, (DOMAIN change) \ gone) + LinesIn(change, gone)
        BY <2>2, LinesAddUp
    <2>8. notice > 0 => carried > 0
        BY <2>3, <2>4, <2>7
    <2>9. ~(whole > DIFF_MAX) =>
              carried + LinesIn(change, gone) = notice + LinesIn(change, DOMAIN change)
        <3>1. ~(whole > DIFF_MAX) => carried = whole
            BY <2>3, <2>4, <2>7
        <3> HIDE DEF carried
        <3>2. QED  BY <2>4, <2>7, <3>1
    <2> HIDE DEF whole, carried
    <2>10. gone = Withheld(diff.change) \cup Stripped(diff.change) /\ notice = Notice(diff.change)
        BY <2>1 DEF gone, hidden, notice
    <2>11. QED  BY <1>1, <1>2, <2>1, <2>6, <2>8, <2>9, <2>10 DEF Honest, r
<1>6. QED  BY <1>3, <1>4, <1>5 DEF AttachDiff, ShapeDiff

ReportInv ==
    /\ DOMAIN report = Hosted /\ report = [f \in Hosted |-> report[f]]
    /\ \A f \in Hosted : Honest(report[f])

\* Whatever runs, dies or is lost, for any changes and any limits (repair_cmd.rs): the
\* outcome a runner uploads claims no repair it did not verify, and a diff that is shown
\* and does not say it is a prefix has every line but those of a withheld file, or of one
\* whose header names it.
THEOREM ReportsAreHonest == DispatchSpec => []ReportIsHonest
<1>1. DispatchInit => ReportInv
    <2>1. Honest(NoReport)
        <3>1. ~NoReport.repaired /\ NoReport.why = "no report" /\ NoReport.diff = NoDiff
            BY DEF NoReport, NothingEstablished
        <3>2. QED  BY <3>1, NothingShown DEF Honest
    <2>2. QED  BY <2>1 DEF DispatchInit, ReportInv
<1>2. ReportInv /\ [DispatchNext]_<<vars, dispatchVars>> => ReportInv'
    <2> SUFFICES ASSUME ReportInv, [DispatchNext]_<<vars, dispatchVars>> PROVE ReportInv'
        OBVIOUS
    <2>1. CASE UNCHANGED report
        BY <2>1 DEF ReportInv, Honest
    <2>2. ASSUME NEW f \in Hosted, RunRepair(f) PROVE ReportInv'
        <3>1. PICK events \in RunnerEvents :
                  IF FoldEvents(events).repaired
                  THEN \E change \in RepairDiff : \E diff \in AttachDiff(change) :
                          report' = [report EXCEPT ![f] = [FoldEvents(events) EXCEPT !.diff = diff]]
                  ELSE report' = [report EXCEPT ![f] = FoldEvents(events)]
            BY <2>2 DEF RunRepair
        <3>2. PICK new : report' = [report EXCEPT ![f] = new] /\ Honest(new)
            <4>1. CASE ~FoldEvents(events).repaired
                BY <3>1, <4>1, RunnersTell, UnrepairedIsHonest
            <4>2. CASE FoldEvents(events).repaired
                <5>1. PICK change \in RepairDiff : \E diff \in AttachDiff(change) :
                          report' = [report EXCEPT ![f] = [FoldEvents(events) EXCEPT !.diff = diff]]
                    BY <3>1, <4>2
                <5>4. PICK diff \in AttachDiff(change) :
                          report' = [report EXCEPT ![f] = [FoldEvents(events) EXCEPT !.diff = diff]]
                    BY <5>1
                <5>2. change \in Seq(ChangedFile)
                    BY DispatchAssumption DEF ChangedFile
                <5>3. QED  BY <4>2, <5>2, <5>4, RunnersTell, RepairIsHonest
            <4>3. QED  BY <4>1, <4>2
        <3>3. report' = [g \in Hosted |-> IF g = f THEN new ELSE report[g]]
            BY <3>2 DEF ReportInv
        <3>4. \A g \in Hosted : Honest(report'[g])
            BY <3>2, <3>3 DEF ReportInv
        <3>5. report' = [g \in Hosted |-> report'[g]] /\ DOMAIN report' = Hosted
            BY <3>3
        <3>6. (\A g \in Hosted : Honest(report[g]))'
            BY <3>4 DEF Honest
        <3>7. QED  BY <3>5, <3>6 DEF ReportInv
    <2>3. ASSUME ~(\E f \in Hosted : RunRepair(f)) PROVE UNCHANGED report
        BY <2>3 DEF DispatchNext, DispatchStep, dispatchVars, ReproduceHere, Prepare,
                    PostRepair, ReadAnswer, AnswerApproval, LoseRunner
    <2>4. QED  BY <2>1, <2>2, <2>3
<1>3. ReportInv => ReportIsHonest
    BY DEF ReportInv, ReportIsHonest, Honest
<1>4. QED  BY <1>1, <1>2, <1>3, PTL DEF DispatchSpec
=============================================================================
