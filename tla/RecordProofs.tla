---------------------------- MODULE RecordProofs ----------------------------
(***************************************************************************)
(* What holds of the record file's copies, the mirror and the index, for   *)
(* any number of couriers, readers, lines, failures and losses, whenever   *)
(* no write stops exactly before its newline; of the lines that bets leave *)
(* on the record, for any commands, ticks, windows, horizons and deaths;   *)
(* and of the repository the record is kept in, for any number of setters. *)
(***************************************************************************)
EXTENDS MCRecordSync, BetLedger, SequenceTheorems, FoldProofs

\* What the proofs assume of the file: the end that a decoded line may be
\* taken away from does not occur.
NewlineWithItsLine == "no_newline" \notin Tears

\* s is the beginning of t, position by position.
Begins(s, t) == Len(s) <= Len(t) /\ \A i \in 1 .. Len(s) : s[i] = t[i]

\* A post carries lines of the record at their own places.
Faithful(p) ==
    /\ p.from + Len(p.batch) <= Len(lines)
    /\ \A i \in 1 .. Len(p.batch) : p.batch[i] = lines[p.from + i]

\* The inductive strengthening of MirrorIsPrefix: every snapshot and every post
\* under way is as faithful as the mirror.
Copies ==
    /\ tail # "no_newline"
    /\ Begins(mirror, lines)
    /\ \A c \in Courier : Begins(pass[c].seen, lines)
    /\ \A p \in posts : Faithful(p)

-----------------------------------------------------------------------------
\* Types of the operators the actions are made of.
LEMMA IdleType == NoAnswer \in Answer /\ Idle \in Pass
BY DEF Idle, Pass, Answer, NoAnswer

LEMMA SubSeqLines ==
    ASSUME NEW s \in Seq(Line), NEW m \in Nat \ {0}, NEW n \in Nat, n <= Len(s)
    PROVE  /\ SubSeq(s, m, n) \in Seq(Line)
           /\ Len(SubSeq(s, m, n)) = IF m <= n THEN n - m + 1 ELSE 0
           /\ \A i \in 1 .. Len(SubSeq(s, m, n)) : SubSeq(s, m, n)[i] = s[m + i - 1]
OBVIOUS

LEMMA SubSeqTail ==
    ASSUME NEW s \in Seq(Line), NEW k \in Nat
    PROVE  /\ SubSeq(s, k + 1, Len(s)) \in Seq(Line)
           /\ Len(SubSeq(s, k + 1, Len(s))) = IF k < Len(s) THEN Len(s) - k ELSE 0
           /\ \A i \in 1 .. Len(SubSeq(s, k + 1, Len(s))) :
                SubSeq(s, k + 1, Len(s))[i] = s[k + i]
<1>1. k + 1 \in Nat \ {0} /\ Len(s) \in Nat OBVIOUS
<1> QED BY <1>1, SubSeqLines

LEMMA ChunkType ==
    ASSUME NEW s \in Seq(Line), NEW a \in Nat
    PROVE  /\ Chunk(s, a) \in Seq(Line)
           /\ a <= Len(s) => a + Len(Chunk(s, a)) <= Len(s)
           /\ \A i \in 1 .. Len(Chunk(s, a)) : Chunk(s, a)[i] = s[a + i]
<1>1. BATCH \in Nat \ {0} BY SyncAssumption
<1> DEFINE n == Min2(Len(s), a + BATCH)
<1>2. n \in Nat /\ n <= Len(s) /\ n <= a + BATCH BY <1>1 DEF Min2
<1>3. Chunk(s, a) = SubSeq(s, a + 1, n) BY DEF Chunk
<1> HIDE DEF n
<1>4. a + 1 \in Nat \ {0} OBVIOUS
<1>5. /\ Chunk(s, a) \in Seq(Line)
      /\ Len(Chunk(s, a)) = IF a + 1 <= n THEN n - (a + 1) + 1 ELSE 0
      /\ \A i \in 1 .. Len(Chunk(s, a)) : Chunk(s, a)[i] = s[(a + 1) + i - 1]
  BY <1>2, <1>3, <1>4, SubSeqLines
<1>6. a <= Len(s) => a + Len(Chunk(s, a)) <= Len(s) BY <1>2, <1>5
<1>7. \A i \in 1 .. Len(Chunk(s, a)) : (a + 1) + i - 1 = a + i
  BY <1>2, <1>5
<1> QED BY <1>5, <1>6, <1>7

LEMMA ReplyType ==
    ASSUME TypeOK, NEW p \in posts, NEW k \in {"through", "gap"}, NEW h \in Nat
    PROVE  /\ Reply(p, k, h) \in [Courier -> Pass]
           /\ \A c \in Courier : Reply(p, k, h)[c].seen = pass[c].seen
<1>1. p \in Post BY DEF TypeOK
<1>2. CASE p.to = "nobody" BY <1>2 DEF Reply, TypeOK
<1>3. CASE p.to # "nobody"
  <2>1. p.to \in Courier BY <1>1, <1>3 DEF Post
  <2>2. pass[p.to] \in Pass BY <2>1 DEF TypeOK
  <2> DEFINE r == [pass[p.to] EXCEPT !.at = "answered",
                                     !.answer = [kind |-> k, held |-> h]]
  <2>3. r \in Pass BY <2>2 DEF Pass, Answer
  <2>4. Reply(p, k, h) = [pass EXCEPT ![p.to] = r] BY <1>3 DEF Reply
  <2>5. r.seen = pass[p.to].seen BY <2>2 DEF Pass
  <2> QED BY <2>1, <2>3, <2>4, <2>5 DEF TypeOK
<1> QED BY <1>2, <1>3

LEMMA AnsweredType ==
    ASSUME NEW p \in Pass
    PROVE  /\ Answered(p) \in Pass
           /\ Answered(p) = Idle \/ Answered(p).seen = p.seen
<1>1. p.answer.held \in Nat BY DEF Pass, Answer
<1> QED BY <1>1, IdleType DEF Answered, Pass

\* Appending to a sequence, and putting one behind another, position by
\* position.
LEMMA BeginsAppend ==
    ASSUME NEW s \in Seq(Line), NEW t \in Seq(Line), NEW l \in Line, Begins(s, t)
    PROVE  Begins(s, Append(t, l))
BY DEF Begins

LEMMA BeginsIsPrefix ==
    ASSUME NEW s \in Seq(Line), NEW t \in Seq(Line), Begins(s, t)
    PROVE  IsPrefix(s, t) /\ s = SubSeq(t, 1, Len(s))
<1>1. \A i \in 1 .. Len(s) : s[i] = SubSeq(t, 1, Len(s))[i]
  BY SubSeqLines DEF Begins
<1>2. Len(SubSeq(t, 1, Len(s))) = Len(s) /\ SubSeq(t, 1, Len(s)) \in Seq(Line)
  BY SubSeqLines DEF Begins
<1>3. s = SubSeq(t, 1, Len(s))
  BY <1>1, <1>2, SeqEqual
<1>4. SubSeq(s, 1, Len(s)) = s
  BY SubSeqFull
<1> QED BY <1>3, <1>4 DEF IsPrefix, Begins

LEMMA KeptType ==
    ASSUME lines \in Seq(Line)
    PROVE  Kept \in Seq(Line)
<1>1. SubSeq(lines, 1, Len(lines) - 1) \in Seq(Line)
  BY SubSeqProperties
<1> QED BY <1>1 DEF Kept

LEMMA TakenType ==
    ASSUME TypeOK, NEW p \in posts, p.from <= Len(mirror)
    PROVE  /\ Extends(p) \in Seq(Line)
           /\ mirror \o Extends(p) \in Seq(Line)
           /\ Len(mirror \o Extends(p)) \in Nat
           /\ \A i \in 1 .. Len(Extends(p)) :
                Extends(p)[i] = p.batch[Len(mirror) - p.from + i]
           /\ Len(Extends(p)) <= 0 \/ Len(Extends(p)) = Len(p.batch) - (Len(mirror) - p.from)
<1>1. p.from \in Nat /\ p.batch \in Seq(Line) /\ mirror \in Seq(Line)
  BY DEF TypeOK, Post
<1> DEFINE k == Len(mirror) - p.from
<1>2. k \in Nat
  BY <1>1
<1>3. Extends(p) = SubSeq(p.batch, k + 1, Len(p.batch))
  BY DEF Extends
<1>4. /\ Extends(p) \in Seq(Line)
      /\ Len(Extends(p)) = IF k < Len(p.batch) THEN Len(p.batch) - k ELSE 0
      /\ \A i \in 1 .. Len(Extends(p)) : Extends(p)[i] = p.batch[k + i]
  <2> HIDE DEF k
  <2> DEFINE t == SubSeq(p.batch, k + 1, Len(p.batch))
  <2>1. /\ t \in Seq(Line)
        /\ Len(t) = IF k < Len(p.batch) THEN Len(p.batch) - k ELSE 0
        /\ \A i \in 1 .. Len(t) : t[i] = p.batch[k + i]
    BY <1>1, <1>2, SubSeqTail
  <2>2. Extends(p) = t BY <1>3
  <2> HIDE DEF t
  <2> QED BY <2>1, <2>2
<1>5. mirror \o Extends(p) \in Seq(Line)
  BY <1>1, <1>4, ConcatProperties
<1> QED BY <1>4, <1>5

-----------------------------------------------------------------------------
\* The state is well typed, for any couriers and bounds.
LEMMA InitType == Init => TypeOK
<1> SUFFICES ASSUME Init PROVE TypeOK OBVIOUS
<1>1. pass \in [Courier -> Pass] BY IdleType DEF Init
<1>2. 0 \in 0 .. MaxFailures /\ 0 \in 0 .. MaxLosses BY SyncAssumption
<1> QED BY <1>1, <1>2 DEF Init, TypeOK, FileTypeOK, NewFile, Ends

LEMMA NextType == TypeOK /\ [Next]_vars => TypeOK'
<1> SUFFICES ASSUME TypeOK, [Next]_vars PROVE TypeOK' OBVIOUS
<1> USE DEF TypeOK
<1>1. CASE Record
  <2> PICK l \in Line : WriteLine(l) \/ WritePart(l) BY <1>1 DEF Record
  <2>1. Kept \in Seq(Line) /\ Append(lines, l) \in Seq(Line)
    BY KeptType DEF FileTypeOK
  <2>2. lines' \in Seq(Line) /\ tail' \in Ends
    <3>1. CASE WriteLine(l) BY <2>1, <3>1 DEF WriteLine, Ends
    <3>2. CASE WritePart(l) BY <2>1, <3>2 DEF WritePart, Ends
    <3> QED BY <3>1, <3>2
  <2> QED BY <1>1, <2>2 DEF Record, FileTypeOK
<1>2. ASSUME NEW c \in Courier, Ask(c) PROVE TypeOK'
  <2>1. pass[c] \in Pass /\ pass[c].at = "idle" BY <1>2 DEF Ask
  <2>2. [pass[c] EXCEPT !.at = "asked", !.anchor = Len(mirror)] \in Pass
    <3>1. Len(mirror) \in Nat OBVIOUS
    <3> QED BY <2>1, <3>1 DEF Pass
  <2>3. pass' = [pass EXCEPT ![c] = [pass[c] EXCEPT !.at = "asked",
                                                   !.anchor = Len(mirror)]]
    BY <1>2 DEF Ask
  <2> QED BY <1>2, <2>2, <2>3 DEF Ask, fileVars, FileTypeOK
<1>3. ASSUME NEW c \in Courier, ReadRecord(c) PROVE TypeOK'
  <2>1. pass[c] \in Pass /\ pass[c].at = "asked" BY <1>3 DEF ReadRecord
  <2>2. [pass[c] EXCEPT !.at = "sending", !.seen = lines] \in Pass
    BY <2>1 DEF Pass, FileTypeOK
  <2> QED BY <1>3, <2>2 DEF ReadRecord, fileVars, FileTypeOK
<1>4. ASSUME NEW c \in Courier, SendBatch(c) PROVE TypeOK'
  <2>1. pass[c] \in Pass /\ pass[c].at = "sending" BY <1>4 DEF SendBatch
  <2>2. pass[c].anchor \in Nat /\ pass[c].seen \in Seq(Line) BY <2>1 DEF Pass
  <2>3. [pass[c] EXCEPT !.at = "waiting"] \in Pass BY <2>1 DEF Pass
  <2>4. [from |-> pass[c].anchor, to |-> c,
         batch |-> Chunk(pass[c].seen, pass[c].anchor)] \in Post
    BY <2>2, ChunkType DEF Post
  <2> QED BY <1>4, <2>3, <2>4 DEF SendBatch, fileVars, FileTypeOK
<1>5. ASSUME NEW c \in Courier, Finish(c) PROVE TypeOK'
  BY <1>5, IdleType DEF Finish, fileVars, FileTypeOK
<1>6. ASSUME NEW c \in Courier, HandleAnswer(c) PROVE TypeOK'
  <2>1. Answered(pass[c]) \in Pass BY <1>6, AnsweredType DEF HandleAnswer
  <2> QED BY <1>6, <2>1 DEF HandleAnswer, fileVars, FileTypeOK
<1>7. ASSUME NEW c \in Courier, GiveUp(c) PROVE TypeOK'
  <2>1. \A p \in posts :
          (IF p.to = c THEN [p EXCEPT !.to = "nobody"] ELSE p) \in Post
    BY DEF Post
  <2>2. failures' \in 0 .. MaxFailures BY <1>7, SyncAssumption DEF GiveUp
  <2> QED BY <1>7, <2>1, <2>2, IdleType DEF GiveUp, fileVars, FileTypeOK
<1>8. ASSUME NEW p \in posts, PlaneTakes(p) PROVE TypeOK'
  <2>1. p.from <= Len(mirror) BY <1>8 DEF PlaneTakes
  <2>2. mirror' \in Seq(Line) /\ Len(mirror') \in Nat
    BY <1>8, <2>1, TakenType DEF PlaneTakes
  <2>3. pass' \in [Courier -> Pass] BY <1>8, <2>2, ReplyType DEF PlaneTakes
  <2> QED BY <1>8, <2>2, <2>3 DEF PlaneTakes, fileVars, FileTypeOK
<1>9. ASSUME NEW p \in posts, PlaneRefuses(p) PROVE TypeOK'
  <2>1. Len(mirror) \in Nat OBVIOUS
  <2>2. pass' \in [Courier -> Pass] BY <1>9, <2>1, ReplyType DEF PlaneRefuses
  <2> QED BY <1>9, <2>2 DEF PlaneRefuses, fileVars, FileTypeOK
<1>10. CASE PlaneLoses
  <2> PICK n \in 0 .. Len(mirror) : mirror' = SubSeq(mirror, 1, n)
    BY <1>10 DEF PlaneLoses
  <2>1. mirror' \in Seq(Line) BY SubSeqLines
  <2>2. losses' \in 0 .. MaxLosses BY <1>10, SyncAssumption DEF PlaneLoses
  <2> QED BY <1>10, <2>1, <2>2 DEF PlaneLoses, fileVars, FileTypeOK
<1>11. CASE UNCHANGED vars BY <1>11 DEF vars, FileTypeOK
<1> QED
  BY <1>1, <1>2, <1>3, <1>4, <1>5, <1>6, <1>7, <1>8, <1>9, <1>10, <1>11
  DEF Next, Step, Plane

\* TypeOK is an invariant: no answer, however late, leaves a courier with an
\* anchor or a snapshot that is none.
THEOREM TypeCorrect == Spec => []TypeOK
<1>1. Init => TypeOK BY InitType
<1>2. TypeOK /\ [Next]_vars => TypeOK' BY NextType
<1> QED BY <1>1, <1>2, PTL DEF Spec

-----------------------------------------------------------------------------
\* The mirror, the snapshots and the posts stay copies of the record.
LEMMA LinesGrow ==
    ASSUME TypeOK, Copies, NewlineWithItsLine, NEW l \in Line,
           WriteLine(l) \/ WritePart(l)
    PROVE  /\ lines' = lines \/ lines' = Append(lines, l)
           /\ tail' # "no_newline"
<1>1. Kept = lines BY DEF Kept, Copies
<1>2. CASE WriteLine(l) BY <1>1, <1>2 DEF WriteLine
<1>3. CASE WritePart(l) BY <1>1, <1>3 DEF WritePart, NewlineWithItsLine
<1> QED BY <1>2, <1>3

LEMMA MirrorTakes ==
    ASSUME TypeOK, Copies, NEW p \in posts, p.from <= Len(mirror)
    PROVE  Begins(mirror \o Extends(p), lines)
<1>1. p.from \in Nat /\ p.batch \in Seq(Line) /\ mirror \in Seq(Line)
      /\ lines \in Seq(Line)
  BY DEF TypeOK, Post, FileTypeOK
<1> DEFINE e == Extends(p)
           m == mirror \o e
<1>2. /\ e \in Seq(Line)
      /\ \A i \in 1 .. Len(e) : e[i] = p.batch[Len(mirror) - p.from + i]
      /\ Len(e) <= 0 \/ Len(e) = Len(p.batch) - (Len(mirror) - p.from)
  BY TakenType
<1> HIDE DEF e
<1>3. /\ Len(m) = Len(mirror) + Len(e)
      /\ \A i \in 1 .. Len(m) :
            m[i] = IF i <= Len(mirror) THEN mirror[i] ELSE e[i - Len(mirror)]
  BY <1>1, <1>2, ConcatProperties
<1>4. Begins(mirror, lines) /\ Faithful(p) BY DEF Copies
<1>5. Len(m) <= Len(lines)
  BY <1>1, <1>2, <1>3, <1>4 DEF Begins, Faithful
<1>6. ASSUME NEW i \in 1 .. Len(m) PROVE m[i] = lines[i]
  <2>1. CASE i <= Len(mirror)
    BY <1>1, <1>3, <1>4, <2>1 DEF Begins
  <2>2. CASE i > Len(mirror)
    <3> DEFINE j == i - Len(mirror)
               b == Len(mirror) - p.from + j
    <3>1. j \in 1 .. Len(e) BY <1>1, <1>2, <1>3, <2>2
    <3>2. m[i] = e[j] BY <1>1, <1>3, <2>2
    <3>3. e[j] = p.batch[b] BY <1>2, <3>1
    <3>4. b \in 1 .. Len(p.batch) /\ p.from + b = i
      BY <1>1, <1>2, <3>1
    <3> HIDE DEF b
    <3>5. p.batch[b] = lines[p.from + b] BY <1>4, <3>4 DEF Faithful
    <3> QED BY <3>2, <3>3, <3>4, <3>5
  <2>3. i \in Int /\ Len(mirror) \in Nat BY <1>1
  <2> QED BY <2>1, <2>2, <2>3
<1> QED BY <1>5, <1>6 DEF Begins, e

LEMMA ChunkFaithful ==
    ASSUME NEW s \in Seq(Line), NEW a \in Nat, a < Len(s), Begins(s, lines),
           lines \in Seq(Line), NEW p, p.from = a, p.batch = Chunk(s, a)
    PROVE  Faithful(p)
<1> DEFINE b == Chunk(s, a)
<1>1. /\ b \in Seq(Line)
      /\ a + Len(b) <= Len(s)
      /\ \A i \in 1 .. Len(b) : b[i] = s[a + i]
  BY ChunkType
<1> HIDE DEF b
<1>2. Len(b) \in Nat /\ Len(s) \in Nat /\ Len(lines) \in Nat BY <1>1
<1>3. \A i \in 1 .. Len(b) : a + i \in 1 .. Len(s) BY <1>1, <1>2
<1>4. \A i \in 1 .. Len(b) : b[i] = lines[a + i] BY <1>1, <1>3 DEF Begins
<1>5. a + Len(b) <= Len(lines) BY <1>1, <1>2 DEF Begins
<1>6. p.batch = b BY DEF b
<1> QED BY <1>4, <1>5, <1>6 DEF Faithful

LEMMA InitCopies == Init => Copies
BY DEF Init, Copies, NewFile, Begins, Idle

LEMMA NextCopies ==
    ASSUME NewlineWithItsLine, TypeOK, Copies, [Next]_vars
    PROVE  Copies'
<1>1. CASE Record
  <2> PICK l \in Line : WriteLine(l) \/ WritePart(l) BY <1>1 DEF Record
  <2>1. UNCHANGED <<mirror, pass, posts>> BY <1>1 DEF Record
  <2>2. (lines' = lines \/ lines' = Append(lines, l)) /\ tail' # "no_newline"
    BY LinesGrow
  <2>3. /\ lines \in Seq(Line) /\ mirror \in Seq(Line)
        /\ \A c \in Courier : pass[c].seen \in Seq(Line)
        /\ \A p \in posts : p.from \in Nat /\ p.batch \in Seq(Line)
    BY DEF TypeOK, FileTypeOK, Pass, Post
  <2>4. \A i \in 1 .. Len(lines) : lines'[i] = lines[i]
    BY <2>2, <2>3
  <2>5. Len(lines') \in Nat /\ Len(lines) <= Len(lines')
    BY <2>2, <2>3
  <2>6. Begins(mirror', lines')
    BY <2>1, <2>3, <2>4, <2>5 DEF Begins, Copies
  <2>7. \A c \in Courier : Begins(pass'[c].seen, lines')
    BY <2>1, <2>3, <2>4, <2>5 DEF Begins, Copies
  <2>8. ASSUME NEW p \in posts PROVE Faithful(p)'
    <3>1. Faithful(p) BY DEF Copies
    <3>2. p.from \in Nat /\ p.batch \in Seq(Line) BY <2>3
    <3>2a. Len(p.batch) \in Nat /\ Len(lines) \in Nat BY <2>3, <3>2
    <3>3. \A i \in 1 .. Len(p.batch) : p.from + i \in 1 .. Len(lines)
      BY <3>1, <3>2, <3>2a DEF Faithful
    <3>4. p.from + Len(p.batch) <= Len(lines') BY <2>5, <3>1, <3>2, <3>2a DEF Faithful
    <3> QED BY <2>4, <3>1, <3>3, <3>4 DEF Faithful
  <2> QED BY <2>1, <2>2, <2>6, <2>7, <2>8 DEF Copies
<1>2. ASSUME NEW c \in Courier, Ask(c) PROVE Copies'
  <2>1. \A d \in Courier : pass'[d].seen = pass[d].seen
    BY <1>2 DEF Ask, TypeOK
  <2> QED BY <1>2, <2>1 DEF Ask, Copies, Begins, Faithful, fileVars
<1>3. ASSUME NEW c \in Courier, ReadRecord(c) PROVE Copies'
  <2>1. \A d \in Courier : pass'[d].seen \in {pass[d].seen, lines}
    BY <1>3 DEF ReadRecord, TypeOK, Pass
  <2>2. Begins(lines, lines) BY DEF Begins, TypeOK, FileTypeOK
  <2> QED BY <1>3, <2>1, <2>2 DEF ReadRecord, Copies, Begins, Faithful, fileVars
<1>4. ASSUME NEW c \in Courier, SendBatch(c) PROVE Copies'
  <2>1. pass[c].anchor \in Nat /\ pass[c].seen \in Seq(Line)
        /\ pass[c].anchor < Len(pass[c].seen) /\ lines \in Seq(Line)
    BY <1>4 DEF SendBatch, TypeOK, Pass, FileTypeOK
  <2> DEFINE p == [from |-> pass[c].anchor, to |-> c,
                   batch |-> Chunk(pass[c].seen, pass[c].anchor)]
  <2>2. Begins(pass[c].seen, lines) BY DEF Copies
  <2>5. Faithful(p) BY <2>1, <2>2, ChunkFaithful
  <2>6. posts' = posts \cup {p} BY <1>4 DEF SendBatch
  <2> HIDE DEF p
  <2>7. \A d \in Courier : pass'[d].seen = pass[d].seen
    BY <1>4 DEF SendBatch, TypeOK
  <2> QED BY <1>4, <2>5, <2>6, <2>7 DEF SendBatch, Copies, Begins, Faithful, fileVars
<1>5. ASSUME NEW c \in Courier, Finish(c) PROVE Copies'
  <2>1. \A d \in Courier : pass'[d].seen \in {pass[d].seen, <<>>}
    BY <1>5 DEF Finish, TypeOK, Idle
  <2>2. Begins(<<>>, lines) BY DEF Begins, TypeOK, FileTypeOK
  <2> QED BY <1>5, <2>1, <2>2 DEF Finish, Copies, Begins, Faithful, fileVars
<1>6. ASSUME NEW c \in Courier, HandleAnswer(c) PROVE Copies'
  <2>1. \A d \in Courier : pass'[d].seen \in {pass[d].seen, <<>>}
    BY <1>6, AnsweredType DEF HandleAnswer, TypeOK, Idle
  <2>2. Begins(<<>>, lines) BY DEF Begins, TypeOK, FileTypeOK
  <2> QED BY <1>6, <2>1, <2>2 DEF HandleAnswer, Copies, Begins, Faithful, fileVars
<1>7. ASSUME NEW c \in Courier, GiveUp(c) PROVE Copies'
  <2>1. \A d \in Courier : pass'[d].seen \in {pass[d].seen, <<>>}
    BY <1>7 DEF GiveUp, TypeOK, Idle
  <2>2. Begins(<<>>, lines) BY DEF Begins, TypeOK, FileTypeOK
  <2>3. ASSUME NEW q \in posts' PROVE Faithful(q)
    <3> PICK p \in posts : q = IF p.to = c THEN [p EXCEPT !.to = "nobody"] ELSE p
      BY <1>7 DEF GiveUp
    <3>1. q.from = p.from /\ q.batch = p.batch BY DEF TypeOK, Post
    <3>2. Faithful(p) BY DEF Copies
    <3> QED BY <3>1, <3>2 DEF Faithful
  <2>4. UNCHANGED <<lines, tail, mirror>> BY <1>7 DEF GiveUp, fileVars
  <2> QED BY <2>1, <2>2, <2>3, <2>4 DEF Copies, Begins, Faithful
<1>8. ASSUME NEW p \in posts, PlaneTakes(p) PROVE Copies'
  <2>1. p.from <= Len(mirror) /\ mirror' = mirror \o Extends(p)
    BY <1>8 DEF PlaneTakes
  <2>2. Begins(mirror', lines) BY <2>1, MirrorTakes
  <2>3. Len(mirror') \in Nat BY <2>1, TakenType
  <2>4. \A d \in Courier : pass'[d].seen = pass[d].seen
    BY <1>8, <2>3, ReplyType DEF PlaneTakes
  <2> QED BY <1>8, <2>2, <2>4 DEF PlaneTakes, Copies, Begins, Faithful, fileVars
<1>9. ASSUME NEW p \in posts, PlaneRefuses(p) PROVE Copies'
  <2>1. Len(mirror) \in Nat BY DEF TypeOK
  <2>2. \A d \in Courier : pass'[d].seen = pass[d].seen
    BY <1>9, <2>1, ReplyType DEF PlaneRefuses
  <2> QED BY <1>9, <2>2 DEF PlaneRefuses, Copies, Begins, Faithful, fileVars
<1>10. CASE PlaneLoses
  <2> PICK n \in 0 .. Len(mirror) : mirror' = SubSeq(mirror, 1, n)
    BY <1>10 DEF PlaneLoses
  <2>1. mirror \in Seq(Line) /\ lines \in Seq(Line) BY DEF TypeOK, FileTypeOK
  <2>2. /\ Len(mirror') = n
        /\ \A i \in 1 .. n : mirror'[i] = mirror[i]
    BY <2>1, SubSeqLines
  <2>3. Begins(mirror', lines) BY <2>1, <2>2 DEF Copies, Begins
  <2> QED BY <1>10, <2>3 DEF PlaneLoses, Copies, Begins, Faithful, fileVars
<1>11. CASE UNCHANGED vars BY <1>11 DEF vars, Copies, Begins, Faithful
<1> QED
  BY <1>1, <1>2, <1>3, <1>4, <1>5, <1>6, <1>7, <1>8, <1>9, <1>10, <1>11
  DEF Next, Step, Plane

\* As long as a newline is written with its line, the plane holds the beginning
\* of the record: whatever is late, lost or sent twice, and whatever the plane
\* itself loses.
THEOREM PlaneHoldsAPrefix ==
    ASSUME NewlineWithItsLine
    PROVE  Spec => []MirrorIsPrefix
<1>1. Init => TypeOK /\ Copies BY InitType, InitCopies
<1>2. TypeOK /\ Copies /\ [Next]_vars => (TypeOK /\ Copies)'
  BY NextType, NextCopies
<1>3. TypeOK /\ Copies => MirrorIsPrefix
  BY BeginsIsPrefix DEF TypeOK, FileTypeOK, Copies, MirrorIsPrefix
<1> QED BY <1>1, <1>2, <1>3, PTL DEF Spec

-----------------------------------------------------------------------------
\* Every step of the couriers is a step of the mirror or none.
LEMMA StepIsMirrored ==
    ASSUME NewlineWithItsLine, TypeOK, Copies, [Next]_vars
    PROVE  [Promise!Recorded \/ Promise!Taken \/ Promise!Lost]_Promise!vars
<1> USE DEF Promise!vars
<1>1. CASE Record
  <2> PICK l \in Line : WriteLine(l) \/ WritePart(l) BY <1>1 DEF Record
  <2>1. lines' = lines \/ lines' = Append(lines, l) BY LinesGrow
  <2> QED BY <1>1, <2>1 DEF Record, Promise!Recorded
<1>2. ASSUME NEW p \in posts, PlaneTakes(p)
      PROVE  [Promise!Taken]_Promise!vars
  <2>1. /\ p.from <= Len(mirror)
        /\ mirror' = mirror \o Extends(p)
        /\ lines' = lines
    BY <1>2 DEF PlaneTakes, fileVars
  <2>2. mirror' \in Seq(Line) /\ Begins(mirror', lines)
    BY <2>1, TakenType, MirrorTakes
  <2>3. lines \in Seq(Line) /\ mirror \in Seq(Line) /\ Extends(p) \in Seq(Line)
    BY <2>1, TakenType DEF TypeOK, FileTypeOK
  <2>4. mirror' = SubSeq(lines, 1, Len(mirror')) BY <2>2, <2>3, BeginsIsPrefix
  <2>5. Len(mirror') = Len(mirror) + Len(Extends(p))
    BY <2>1, <2>3, ConcatProperties
  <2>6. Len(mirror') <= Len(lines) BY <2>2 DEF Begins
  <2>7. CASE Len(Extends(p)) = 0
    <3>1. Extends(p) = <<>> BY <2>3, <2>7, EmptySeq
    <3> QED BY <2>1, <2>3, <3>1
  <2>8. CASE Len(Extends(p)) > 0
    <3>1. Len(mirror') \in Len(mirror) + 1 .. Len(lines)
      BY <2>2, <2>3, <2>5, <2>6, <2>8
    <3> QED BY <2>1, <2>4, <3>1 DEF Promise!Taken
  <2> QED BY <2>3, <2>7, <2>8
<1>3. CASE PlaneLoses BY <1>3 DEF PlaneLoses, fileVars, Promise!Lost
<1>4. CASE \E c \in Courier : Ask(c) \/ Step(c) \/ GiveUp(c)
  BY <1>4
  DEF Ask, Step, ReadRecord, SendBatch, Finish, HandleAnswer, GiveUp, fileVars
<1>5. CASE \E p \in posts : PlaneRefuses(p)
  BY <1>5 DEF PlaneRefuses, fileVars
<1>6. CASE UNCHANGED vars BY <1>6 DEF vars
<1> QED BY <1>1, <1>2, <1>3, <1>4, <1>5, <1>6 DEF Next, Plane

\* The couriers implement the mirror, whatever the network does and however
\* many of them there are: lines are only copied, in order and each once.
THEOREM SyncIsMirror ==
    ASSUME NewlineWithItsLine
    PROVE  Spec => IsMirror
<1>1. Init => TypeOK /\ Copies BY InitType, InitCopies
<1>2. TypeOK /\ Copies /\ [Next]_vars => (TypeOK /\ Copies)'
  BY NextType, NextCopies
<1>3. Init => Promise!Init BY DEF Init, NewFile, Promise!Init
<1>4. TypeOK /\ Copies /\ [Next]_vars
        => [Promise!Recorded \/ Promise!Taken \/ Promise!Lost]_Promise!vars
  BY StepIsMirrored
<1> QED BY <1>1, <1>2, <1>3, <1>4, PTL DEF Spec, IsMirror, Promise!Spec

-----------------------------------------------------------------------------
\* The inductive strengthening of AnchorNeverAhead: nor is an answer under way.
Anchored ==
    losses = 0 =>
        \A c \in Courier : /\ pass[c].anchor <= Len(mirror)
                            /\ pass[c].answer.held <= Len(mirror)

LEMMA NextAnchored ==
    ASSUME TypeOK, Anchored, [Next]_vars
    PROVE  Anchored'
<1>0. /\ Len(mirror) \in Nat
      /\ \A c \in Courier : pass[c] \in Pass /\ pass[c].anchor \in Nat
                             /\ pass[c].answer.held \in Nat
  BY DEF TypeOK, Pass, Answer
<1>1. Idle.anchor = 0 /\ Idle.answer.held = 0 BY DEF Idle, NoAnswer
<1>2. ASSUME UNCHANGED <<mirror, losses>>,
             NEW c \in Courier, NEW r, pass' = [pass EXCEPT ![c] = r],
             losses = 0 => r.anchor <= Len(mirror) /\ r.answer.held <= Len(mirror)
      PROVE  Anchored'
  BY <1>2 DEF TypeOK, Anchored
<1>3. CASE Record BY <1>3 DEF Record, Anchored
<1>4. ASSUME NEW c \in Courier, Ask(c) PROVE Anchored'
  <2> DEFINE r == [pass[c] EXCEPT !.at = "asked", !.anchor = Len(mirror)]
  <2>1. r.anchor = Len(mirror) /\ r.answer = pass[c].answer BY <1>0 DEF Pass
  <2>2. pass' = [pass EXCEPT ![c] = r] BY <1>4 DEF Ask
  <2> HIDE DEF r
  <2>3. losses = 0 => r.anchor <= Len(mirror) /\ r.answer.held <= Len(mirror)
    BY <1>0, <2>1 DEF Anchored
  <2>4. UNCHANGED <<mirror, losses>> BY <1>4 DEF Ask
  <2> QED BY <1>2, <2>2, <2>3, <2>4
<1>5. ASSUME NEW c \in Courier, ReadRecord(c) PROVE Anchored'
  <2> DEFINE r == [pass[c] EXCEPT !.at = "sending", !.seen = lines]
  <2>1. r.anchor = pass[c].anchor /\ r.answer = pass[c].answer BY <1>0 DEF Pass
  <2>2. pass' = [pass EXCEPT ![c] = r] BY <1>5 DEF ReadRecord
  <2> HIDE DEF r
  <2> QED BY <1>2, <1>5, <2>1, <2>2 DEF ReadRecord, Anchored
<1>6. ASSUME NEW c \in Courier, SendBatch(c) PROVE Anchored'
  <2> DEFINE r == [pass[c] EXCEPT !.at = "waiting"]
  <2>1. r.anchor = pass[c].anchor /\ r.answer = pass[c].answer BY <1>0 DEF Pass
  <2>2. pass' = [pass EXCEPT ![c] = r] BY <1>6 DEF SendBatch
  <2> HIDE DEF r
  <2> QED BY <1>2, <1>6, <2>1, <2>2 DEF SendBatch, Anchored
<1>7. ASSUME NEW c \in Courier, Finish(c) PROVE Anchored'
  <2>1. UNCHANGED <<mirror, losses>> /\ pass' = [pass EXCEPT ![c] = Idle]
    BY <1>7 DEF Finish
  <2>2. losses = 0 => Idle.anchor <= Len(mirror) /\ Idle.answer.held <= Len(mirror)
    BY <1>0, <1>1
  <2> QED BY <1>2, <2>1, <2>2
<1>8. ASSUME NEW c \in Courier, HandleAnswer(c) PROVE Anchored'
  <2> DEFINE r == Answered(pass[c])
  <2>1. \/ r.anchor = 0 /\ r.answer.held = 0
        \/ r.anchor = pass[c].answer.held /\ r.answer.held = 0
    BY <1>0, <1>1 DEF Answered, Pass, NoAnswer
  <2>2. pass' = [pass EXCEPT ![c] = r] BY <1>8 DEF HandleAnswer
  <2> HIDE DEF r
  <2> QED BY <1>0, <1>2, <1>8, <2>1, <2>2 DEF HandleAnswer, Anchored
<1>9. ASSUME NEW c \in Courier, GiveUp(c) PROVE Anchored'
  <2>1. UNCHANGED <<mirror, losses>> /\ pass' = [pass EXCEPT ![c] = Idle]
    BY <1>9 DEF GiveUp
  <2>2. losses = 0 => Idle.anchor <= Len(mirror) /\ Idle.answer.held <= Len(mirror)
    BY <1>0, <1>1
  <2> QED BY <1>2, <2>1, <2>2
<1>10. ASSUME NEW p \in posts, NEW k \in {"through", "gap"},
              losses' = losses, Len(mirror') \in Nat, Len(mirror) <= Len(mirror'),
              NEW h \in Nat, h <= Len(mirror'), pass' = Reply(p, k, h)
       PROVE  Anchored'
  <2>1. CASE p.to = "nobody" BY <1>0, <1>10, <2>1 DEF Reply, Anchored
  <2>2. CASE p.to # "nobody"
    <3>1. p.to \in Courier BY <2>2 DEF TypeOK, Post
    <3> DEFINE r == [pass[p.to] EXCEPT !.at = "answered",
                                       !.answer = [kind |-> k, held |-> h]]
    <3>2. pass' = [pass EXCEPT ![p.to] = r] BY <1>10, <2>2 DEF Reply
    <3>3. r.anchor = pass[p.to].anchor /\ r.answer.held = h
      BY <1>0, <3>1 DEF Pass
    <3> HIDE DEF r
    <3>4. \A d \in Courier : pass'[d] = IF d = p.to THEN r ELSE pass[d]
      BY <3>2 DEF TypeOK
    <3>5. ASSUME losses' = 0, NEW d \in Courier
          PROVE  /\ pass'[d].anchor <= Len(mirror')
                 /\ pass'[d].answer.held <= Len(mirror')
      <4>1. /\ pass[d].anchor <= Len(mirror)
            /\ pass[d].answer.held <= Len(mirror)
            /\ pass[p.to].anchor <= Len(mirror)
        BY <1>10, <3>1, <3>5 DEF Anchored
      <4>2. CASE d = p.to BY <1>0, <1>10, <3>1, <3>3, <3>4, <4>1, <4>2
      <4>3. CASE d # p.to BY <1>0, <1>10, <3>4, <4>1, <4>3
      <4> QED BY <4>2, <4>3
    <3> QED BY <3>5 DEF Anchored
  <2> QED BY <2>1, <2>2
<1>11. ASSUME NEW p \in posts, PlaneTakes(p) PROVE Anchored'
  <2>1. p.from <= Len(mirror) /\ mirror' = mirror \o Extends(p)
        /\ losses' = losses /\ pass' = Reply(p, "through", Len(mirror'))
    BY <1>11 DEF PlaneTakes
  <2>2. mirror \in Seq(Line) /\ Extends(p) \in Seq(Line)
    BY <2>1, TakenType DEF TypeOK
  <2>3. Len(mirror') = Len(mirror) + Len(Extends(p)) /\ Len(mirror') \in Nat
    BY <2>1, <2>2, ConcatProperties
  <2>4. Len(mirror) <= Len(mirror') BY <1>0, <2>2, <2>3
  <2> QED BY <1>10, <2>1, <2>3, <2>4
<1>12. ASSUME NEW p \in posts, PlaneRefuses(p) PROVE Anchored'
  <2>1. losses' = losses /\ mirror' = mirror /\ pass' = Reply(p, "gap", Len(mirror))
    BY <1>12 DEF PlaneRefuses
  <2> QED BY <1>0, <1>10, <2>1
<1>13. CASE PlaneLoses
  <2>1. losses \in Nat BY SyncAssumption DEF TypeOK
  <2>2. losses' # 0 BY <1>13, <2>1 DEF PlaneLoses
  <2> QED BY <2>2 DEF Anchored
<1>14. CASE UNCHANGED vars BY <1>14 DEF vars, Anchored
<1> QED
  BY <1>3, <1>4, <1>5, <1>6, <1>7, <1>8, <1>9, <1>11, <1>12, <1>13, <1>14
  DEF Next, Step, Plane

\* While the plane loses nothing no courier believes it to hold more than it
\* does, so no line is ever taken for mirrored that is not.
THEOREM AnchorIsHeld == Spec => []AnchorNeverAhead
<1>1. Init => TypeOK /\ Anchored BY InitType DEF Init, Anchored, Idle, NoAnswer
<1>2. TypeOK /\ Anchored /\ [Next]_vars => (TypeOK /\ Anchored)'
  BY NextType, NextAnchored
<1>3. Anchored => AnchorNeverAhead BY DEF Anchored, AnchorNeverAhead
<1> QED BY <1>1, <1>2, <1>3, PTL DEF Spec
-----------------------------------------------------------------------------
\* What lines of the record are made from: sequences of anything.
IsSeq(s) == s \in Seq(ToSet(s))

LEMMA SeqIsSeq ==
    ASSUME NEW S, NEW s \in Seq(S)
    PROVE  IsSeq(s)
<1>1. s \in [1 .. Len(s) -> S] /\ Len(s) \in Nat /\ DOMAIN s = 1 .. Len(s)
    OBVIOUS
<1>2. s \in [1 .. Len(s) -> ToSet(s)]
    BY <1>1 DEF ToSet
<1>3. QED  BY <1>1, <1>2 DEF IsSeq

LEMMA FunctionIsSeq ==
    ASSUME NEW n \in Nat, NEW s, s = [i \in 1 .. n |-> s[i]]
    PROVE  IsSeq(s) /\ Len(s) = n /\ DOMAIN s = 1 .. n
<1>1. DOMAIN s = 1 .. n
    OBVIOUS
<1>2. s \in [1 .. n -> ToSet(s)]
    BY <1>1 DEF ToSet
<1>3. s \in Seq(ToSet(s))
    BY <1>2
<1>4. QED  BY <1>1, <1>3 DEF IsSeq

LEMMA AppendIsSeq ==
    ASSUME NEW s, IsSeq(s), NEW e
    PROVE  /\ IsSeq(Append(s, e)) /\ Len(Append(s, e)) = Len(s) + 1 /\ Len(s) \in Nat
           /\ DOMAIN s = 1 .. Len(s) /\ DOMAIN Append(s, e) = 1 .. (Len(s) + 1)
           /\ \A i \in 1 .. Len(s) : Append(s, e)[i] = s[i]
           /\ Append(s, e)[Len(s) + 1] = e
<1> DEFINE S == ToSet(s) \cup {e}
<1>1. s \in Seq(S) /\ e \in S
    BY DEF IsSeq
<1> HIDE DEF S
<1>2. Append(s, e) \in Seq(S)
    BY <1>1
<1>3. IsSeq(Append(s, e))
    BY <1>2, SeqIsSeq
<1>4. QED  BY <1>1, <1>3

LEMMA TailIsSeq ==
    ASSUME NEW s, IsSeq(s), s # << >>
    PROVE  /\ IsSeq(Tail(s)) /\ Len(s) \in Nat \ {0} /\ Len(Tail(s)) = Len(s) - 1
           /\ Head(s) = s[1] /\ DOMAIN s = 1 .. Len(s)
           /\ DOMAIN Tail(s) = 1 .. (Len(s) - 1)
           /\ \A i \in 1 .. (Len(s) - 1) : Tail(s)[i] = s[i + 1]
<1>1. s \in Seq(ToSet(s))
    BY DEF IsSeq
<1>2. Tail(s) \in Seq(ToSet(s))
    BY <1>1
<1>3. IsSeq(Tail(s))
    BY <1>2, SeqIsSeq
<1>4. QED  BY <1>1, <1>3

LEMMA EmptyIsSeq == IsSeq(<< >>) /\ Len(<< >>) = 0 /\ DOMAIN << >> = {}
<1>1. << >> \in Seq({})
    OBVIOUS
<1>2. IsSeq(<< >>)
    BY <1>1, SeqIsSeq
<1>3. QED  BY <1>2

LEMMA ConcatIsSeq ==
    ASSUME NEW s, NEW t, IsSeq(s), IsSeq(t)
    PROVE  /\ IsSeq(s \o t) /\ Len(s \o t) = Len(s) + Len(t)
           /\ Len(s) \in Nat /\ Len(t) \in Nat
           /\ DOMAIN (s \o t) = 1 .. (Len(s) + Len(t))
           /\ \A i \in 1 .. (Len(s) + Len(t)) :
                  (s \o t)[i] = IF i <= Len(s) THEN s[i] ELSE t[i - Len(s)]
<1> DEFINE S == ToSet(s) \cup ToSet(t)
<1>1. s \in Seq(S) /\ t \in Seq(S)
    BY DEF IsSeq
<1> HIDE DEF S
<1>2. s \o t \in Seq(S)
    BY <1>1
<1>3. IsSeq(s \o t)
    BY <1>2, SeqIsSeq
<1>4. QED  BY <1>1, <1>3

\* Lines of a set, in some order.
LEMMA SetToSeqHolds ==
    ASSUME NEW T, IsFiniteSet(T)
    PROVE  /\ IsSeq(SetToSeq(T))
           /\ Cardinality(T) \in Nat /\ DOMAIN SetToSeq(T) = 1 .. Cardinality(T)
           /\ \A n \in DOMAIN SetToSeq(T) : SetToSeq(T)[n] \in T
           /\ \A m, n \in DOMAIN SetToSeq(T) :
                  SetToSeq(T)[m] = SetToSeq(T)[n] => m = n
<1> DEFINE N == Cardinality(T)
<1>1. N \in Nat /\ ExistsBijection(1 .. N, T)
    BY FS_CardinalityType
<1>2. \E f \in [1 .. N -> T] : IsInjective(f)
    BY <1>1 DEF ExistsBijection, Bijection, Injection, IsInjective
<1>3. SetToSeq(T) \in [1 .. N -> T] /\ IsInjective(SetToSeq(T))
    BY <1>2 DEF SetToSeq
<1>4. SetToSeq(T) \in Seq(T)
    BY <1>1, <1>3
<1>5. IsSeq(SetToSeq(T))
    BY <1>4, SeqIsSeq
<1>6. QED  BY <1>1, <1>3, <1>5 DEF IsInjective

\* Numbers of a set, the smaller first: each of them at one place.
LEMMA InOrderHolds ==
    ASSUME NEW S \in SUBSET Nat, IsFiniteSet(S)
    PROVE  /\ DOMAIN InOrder(S) = 1 .. Cardinality(S) /\ Cardinality(S) \in Nat
           /\ \A n \in DOMAIN InOrder(S) : InOrder(S)[n] \in S
           /\ \A m, n \in DOMAIN InOrder(S) : InOrder(S)[m] = InOrder(S)[n] => m = n
<1> DEFINE N == Cardinality(S)
           Upto(i) == {j \in S : j <= i}
           rank == [i \in S |-> Cardinality(Upto(i))]
<1>1. N \in Nat
    BY FS_CardinalityType
<1>2. \A i \in S : /\ IsFiniteSet(Upto(i)) /\ Cardinality(Upto(i)) \in 1 .. N
    <2> SUFFICES ASSUME NEW i \in S
                 PROVE  IsFiniteSet(Upto(i)) /\ Cardinality(Upto(i)) \in 1 .. N
        OBVIOUS
    <2>1. Upto(i) \in SUBSET S /\ i \in Upto(i)
        OBVIOUS
    <2>2. IsFiniteSet(Upto(i)) /\ Cardinality(Upto(i)) <= N
        BY <2>1, FS_Subset
    <2>3. Cardinality(Upto(i)) \in Nat /\ Cardinality(Upto(i)) # 0
        BY <2>1, <2>2, FS_CardinalityType, FS_EmptySet
    <2>4. QED  BY <1>1, <2>2, <2>3
<1>3. \A i, k \in S : i < k => Cardinality(Upto(i)) # Cardinality(Upto(k))
    <2> SUFFICES ASSUME NEW i \in S, NEW k \in S, i < k,
                        Cardinality(Upto(i)) = Cardinality(Upto(k))
                 PROVE  FALSE
        OBVIOUS
    <2>1. Upto(i) \in SUBSET Upto(k) /\ k \in Upto(k) /\ k \notin Upto(i)
        <3>1. i \in Nat /\ k \in Nat /\ \A j \in S : j \in Nat /\ (j <= i => j <= k) /\ ~(k <= i)
            OBVIOUS
        <3>2. Upto(i) \subseteq Upto(k)
            BY <3>1
        <3>3. k \in Upto(k) /\ k \notin Upto(i)
            BY <3>1
        <3>4. QED  BY <3>2, <3>3
    <2>2. Upto(i) = Upto(k)
        BY <1>2, <2>1, FS_Subset
    <2>3. QED  BY <2>1, <2>2
<1>4. rank \in Injection(S, 1 .. N)
    <2>1. rank \in [S -> 1 .. N]
        BY <1>2
    <2>2. \A i, k \in S : rank[i] = rank[k] => i = k
        <3>1. \A i, k \in S : i \in Nat /\ k \in Nat /\ (i # k => i < k \/ k < i)
            OBVIOUS
        <3>2. QED  BY <1>3, <3>1
    <2> HIDE DEF rank
    <2>3. QED  BY <2>1, <2>2 DEF Injection, IsInjective
<1>5. rank \in Surjection(S, 1 .. N)
    <2>1. IsFiniteSet(1 .. N) /\ Cardinality(1 .. N) = N
        BY <1>1, FS_Interval
    <2> HIDE DEF rank
    <2>2. QED  BY <1>4, <2>1, FS_Injection
<1>6. \A n \in 1 .. N : \E i \in S : Cardinality(Upto(i)) = n
    BY <1>5 DEF Surjection
<1>7. \A n \in 1 .. N : InOrder(S)[n] \in S /\ Cardinality(Upto(InOrder(S)[n])) = n
    BY <1>6 DEF InOrder
<1>8. DOMAIN InOrder(S) = 1 .. N
    BY DEF InOrder
<1>9. \A m, n \in 1 .. N : InOrder(S)[m] = InOrder(S)[n] => m = n
    <2> HIDE DEF Upto, N
    <2>1. QED  BY <1>7
<1>10. QED  BY <1>1, <1>7, <1>8, <1>9

-----------------------------------------------------------------------------
\* The status after each prefix of a record.
StatusAlong(h, b, rec) ==
    /\ h[0] = "proposed"
    /\ \A n \in 1 .. Len(rec) : h[n] = Word(b, h[n - 1], rec[n])

LEMMA FoldedAlong ==
    ASSUME NEW b, NEW rec, IsSeq(rec)
    PROVE  \E h : StatusAlong(h, b, rec) /\ Folded(b, rec) = h[Len(rec)]
<1> DEFINE N == Len(rec)
           A == {"proposed"} \cup {rec[i].status : i \in 1 .. N}
           step == [i \in 1 .. N |-> [status \in A |-> Word(b, status, rec[i])]]
           Eq(f) == f = [n \in 0 .. N |->
                            IF n = 0 THEN "proposed" ELSE Word(b, f[n - 1], rec[n])]
           upTo == CHOOSE f : Eq(f)
<1>1. N \in Nat
    BY DEF IsSeq
<1>2. step \in [1 .. N -> [A -> A]]
    BY DEF Word, FoldBet
<1>3. Eq(upTo)
    <2>1. "proposed" \in A
        OBVIOUS
    <2>2. PICK h : IsRecursion(h, N, A, "proposed", step)
        <3> HIDE DEF step, A, N
        <3>1. QED  BY <1>1, <1>2, <2>1, RecursionExists
    <2>3. \A n \in 0 .. N : n # 0 => n \in 1 .. N /\ h[n - 1] \in A
        <3> HIDE DEF step, A, N
        <3>1. \A n \in 0 .. N : n # 0 => n \in 1 .. N /\ n - 1 \in 0 .. N
            BY <1>1
        <3>2. QED  BY <2>2, <3>1 DEF IsRecursion
    <2>4. \A n \in 0 .. N : n # 0 => step[n][h[n - 1]] = Word(b, h[n - 1], rec[n])
        <3> HIDE DEF A
        <3>1. QED  BY <2>3
    <2>5. h = [n \in 0 .. N |-> IF n = 0 THEN "proposed" ELSE step[n][h[n - 1]]]
        <3> HIDE DEF step, A, N
        <3>1. QED  BY <2>2 DEF IsRecursion
    <2>6. Eq(h)
        <3> HIDE DEF step, A, N
        <3>1. QED  BY <2>4, <2>5
    <2> HIDE DEF Eq
    <2>7. QED  BY <2>6
<1>4. Folded(b, rec) = upTo[N]
    BY DEF Folded
<1> HIDE DEF upTo
<1>5. StatusAlong(upTo, b, rec)
    BY <1>1, <1>3 DEF StatusAlong
<1>6. QED  BY <1>4, <1>5

\* The status after a record that is one line longer.
LEMMA FoldedOfAppend ==
    ASSUME NEW b, NEW rec, IsSeq(rec), NEW line
    PROVE  Folded(b, Append(rec, line)) = Word(b, Folded(b, rec), line)
<1> DEFINE next == Append(rec, line)
<1>1. /\ IsSeq(next) /\ Len(rec) \in Nat /\ Len(next) = Len(rec) + 1
      /\ \A i \in 1 .. Len(rec) : rec[i] = next[i]
      /\ next[Len(rec) + 1] = line
    BY AppendIsSeq
<1> HIDE DEF next
<1>2. PICK h : StatusAlong(h, b, rec) /\ Folded(b, rec) = h[Len(rec)]
    BY FoldedAlong
<1>3. PICK g : StatusAlong(g, b, next) /\ Folded(b, next) = g[Len(next)]
    BY <1>1, FoldedAlong
<1> DEFINE Odd == {n \in 0 .. Len(rec) : h[n] # g[n]}
<1>4. Odd = {}
    <2> SUFFICES ASSUME Odd # {} PROVE FALSE
        OBVIOUS
    <2>1. PICK n \in Odd : \A m \in Odd : n <= m
        <3>1. Odd \in SUBSET Nat
            OBVIOUS
        <3> HIDE DEF Odd
        <3>2. QED  BY <3>1, LeastNat
    <2>2. CASE n = 0
        BY <1>2, <1>3, <2>2 DEF StatusAlong
    <2>3. CASE n # 0
        <3>1. /\ n \in 1 .. Len(rec) /\ n \in 1 .. Len(next) /\ n - 1 \in 0 .. Len(rec)
              /\ ~(n <= n - 1)
            BY <1>1, <2>3
        <3>2. h[n - 1] = g[n - 1]
            BY <2>1, <3>1
        <3>3. QED  BY <1>1, <1>2, <1>3, <3>1, <3>2 DEF StatusAlong
    <2>4. QED  BY <2>2, <2>3
<1>5. h[Len(rec)] = g[Len(rec)]
    BY <1>1, <1>4
<1>6. g[Len(rec) + 1] = Word(b, g[Len(rec)], line)
    BY <1>1, <1>3 DEF StatusAlong
<1>7. QED  BY <1>1, <1>2, <1>3, <1>5, <1>6 DEF next

\* Positions of a record that is one line longer.
LEMMA OneLineMore ==
    ASSUME IsSeq(ledger), NEW line, ledger' = Append(ledger, line)
    PROVE  /\ IsSeq(ledger') /\ Len(ledger) \in Nat /\ Len(ledger') = Len(ledger) + 1
           /\ \A i \in 1 .. Len(ledger) : ledger'[i] = ledger[i]
           /\ ledger'[Len(ledger) + 1] = line
           /\ \A kind : /\ Of(kind) \subseteq 1 .. Len(ledger)
                        /\ Of(kind)' = Of(kind) \cup
                               (IF line.kind = kind THEN {Len(ledger) + 1} ELSE {})
           /\ \A b : BetStatus(b) # "none" => BetStatus(b)' = Word(b, BetStatus(b), line)
<1> DEFINE n == Len(ledger)
<1>1. /\ IsSeq(ledger') /\ n \in Nat /\ Len(ledger') = n + 1
      /\ DOMAIN ledger = 1 .. n /\ DOMAIN ledger' = 1 .. (n + 1)
      /\ \A i \in 1 .. n : ledger'[i] = ledger[i]
      /\ ledger'[n + 1] = line
    BY AppendIsSeq
<1> HIDE DEF n
<1>2. ASSUME NEW kind
      PROVE  /\ Of(kind) \subseteq 1 .. n
             /\ Of(kind)' = Of(kind) \cup (IF line.kind = kind THEN {n + 1} ELSE {})
    <2>1. \A i \in 1 .. (n + 1) : i \in 1 .. n \/ i = n + 1
        BY <1>1
    <2>2. 1 .. n \subseteq 1 .. (n + 1) /\ n + 1 \in 1 .. (n + 1) /\ n + 1 \notin 1 .. n
        BY <1>1
    <2>3. QED  BY <1>1, <2>1, <2>2 DEF Of
<1>3. ASSUME NEW b, BetStatus(b) # "none"
      PROVE  BetStatus(b)' = Word(b, BetStatus(b), line)
    <2>1. Rows("bet", b) # {}
        BY <1>3 DEF BetStatus
    <2>2. Rows("bet", b)' # {}
        BY <1>1, <1>2, <2>1 DEF Rows
    <2>3. BetStatus(b) = Folded(b, ledger)
        BY <2>1 DEF BetStatus
    <2>4. BetStatus(b)' = Folded(b, ledger')
        BY <2>2 DEF BetStatus
    <2>5. QED  BY <2>3, <2>4, FoldedOfAppend
<1>4. QED  BY <1>1, <1>2, <1>3 DEF n
-----------------------------------------------------------------------------
\* The lines that commands write and the lines each phase of the tick writes.
TickWrites ==
    [idle |-> {}, observe |-> {"observation"}, measure |-> {"outcome"},
     evaluate |-> {"bet_status"}, revisit |-> {"revisit"},
     draft |-> {"hypothesis", "observation_status", "bet"}]
CommandWrites ==
    {"hypothesis", "observation_status", "hypothesis_status", "bet", "bet_status", "change"}
CommandLine(l) ==
    /\ l.kind \in CommandWrites
    /\ l.kind = "bet_status" => l.status \in {"confirmed", "declined", "learned"}
TickLine(l) ==
    /\ l.kind \in TickWrites[engine.at]
    /\ l.kind = "bet_status" => l.status = "evaluated"

BetShape ==
    /\ IsSeq(ledger) /\ IsSeq(typed) /\ IsSeq(engine.todo)
    /\ today \in Nat
    /\ used \in [hypotheses : Nat, changes : Nat, learnings : Nat]
    /\ engine \in [at : DOMAIN TickWrites, todo : {engine.todo}, read : Nat, now : Nat,
                   fresh : SUBSET Obs]
    /\ \A l \in ToSet(typed) : CommandLine(l)
    /\ \A l \in ToSet(engine.todo) : TickLine(l)

\* Bets and changes have numbers, and no two changes have the same.
Numbered ==
    /\ \A l \in ToSet(ledger) \cup ToSet(typed) \cup ToSet(engine.todo) :
           /\ l.kind = "bet" => l.id \in Nat
           /\ l.kind = "change" => l.id \in 1 .. used.changes
    /\ \A c, d \in Of("change") : ledger[c].id = ledger[d].id => c = d
    /\ \A l \in ToSet(typed) : l.kind = "change" =>
           /\ Len(typed) = 1
           /\ \A c \in Of("change") : ledger[c].id # l.id

\* A line that is written once for a change, a change and horizon, or a bet.
Once(l) ==
    l.kind \in {"outcome", "revisit"} \/ (l.kind = "bet_status" /\ l.status = "evaluated")
Same(l, k) ==
    /\ Once(l) /\ Once(k) /\ l.kind = k.kind /\ l.id = k.id
    /\ l.kind = "revisit" => l.horizon = k.horizon

\* What the tick is about to write is not on the record, and not twice in its hands.
OnceEach ==
    /\ \A i, j \in DOMAIN ledger : Same(ledger[i], ledger[j]) => i = j
    /\ \A i \in DOMAIN ledger, n \in DOMAIN engine.todo : ~Same(ledger[i], engine.todo[n])
    /\ \A m, n \in DOMAIN engine.todo : Same(engine.todo[m], engine.todo[n]) => m = n
    /\ engine.at = "observe" => \A o \in Of("outcome") : o <= engine.read

\* Outcomes and revisits, on the record or in the tick's hands, are not early.
After(l, days) ==
    \E c \in Of("change") : ledger[c].id = l.id /\ l.at >= ledger[c].at + days
InTime(l) ==
    /\ l.kind = "outcome" => After(l, DAYS)
    /\ l.kind = "revisit" => After(l, l.horizon) /\ OutcomesOf(l.id) # {}
NotEarly ==
    /\ \A l \in ToSet(ledger) \cup ToSet(engine.todo) : InTime(l)
    /\ \A r \in Of("revisit") : \E o \in OutcomesOf(ledger[r].id) : o < r

\* A verdict on the record is the bet's status; one about to be written is of a bet
\* that waits for it; and a command's word was fitting when it read the record and
\* still is.
Settles(l) ==
    IF l.status = "learned" THEN BetStatus(l.id) \in {"evaluated", "declined", "learned"}
    ELSE BetStatus(l.id) = "proposed"
Verdicts ==
    /\ \A i \in Of("bet_status") :
           ledger[i].status = "evaluated" => BetStatus(ledger[i].id) = "evaluated"
    /\ \A l \in ToSet(engine.todo) : l.kind = "bet_status" => BetStatus(l.id) = "confirmed"
    /\ \A n \in DOMAIN typed : typed[n].kind = "bet_status" =>
           n = Len(typed) /\ Settles(typed[n])

BetInv == BetShape /\ Numbered /\ OnceEach /\ NotEarly /\ Verdicts
-----------------------------------------------------------------------------
Used == [hypotheses : Nat, changes : Nat, learnings : Nat]
Engine(todo) ==
    [at : DOMAIN TickWrites, todo : {todo}, read : Nat, now : Nat, fresh : SUBSET Obs]

LEMMA KindsOfTick ==
    ASSUME NEW at \in DOMAIN TickWrites
    PROVE  TickWrites[at] \subseteq {"observation", "outcome", "bet_status", "revisit",
                                     "hypothesis", "observation_status", "bet"}
BY DEF TickWrites

LEMMA InitBet == BetInit => BetInv
<1> SUFFICES ASSUME BetInit PROVE BetInv
    OBVIOUS
<1>1. /\ ledger = << >> /\ typed = << >> /\ engine = IdleEngine /\ engine.todo = << >>
      /\ engine.at = "idle" /\ engine.read = 0 /\ engine.now = 0 /\ engine.fresh = {}
    BY DEF BetInit, IdleEngine
<1>2. ToSet(<< >>) = {} /\ IsSeq(<< >>) /\ DOMAIN << >> = {}
    BY EmptyIsSeq DEF ToSet
<1>3. \A kind : Of(kind) = {}
    BY <1>1, <1>2 DEF Of
<1>4. BetShape
    <2>1. engine \in Engine(engine.todo)
        BY <1>1 DEF IdleEngine, Engine, TickWrites
    <2>2. today \in Nat /\ used \in Used
        BY DEF BetInit, Used
    <2>3. QED  BY <1>1, <1>2, <2>1, <2>2 DEF BetShape, Used, Engine
<1>5. QED  BY <1>1, <1>2, <1>3, <1>4 DEF BetInv, Numbered, OnceEach, NotEarly, Verdicts

\* What is typed is right, as long as it is fitting when the command reads the record.
LEMMA CommandTypes ==
    ASSUME BetInv, UNCHANGED <<ledger, today, engine>>, IsSeq(typed'),
           used' \in Used, used.changes <= used'.changes,
           \A l \in ToSet(typed') :
               /\ CommandLine(l)
               /\ l.kind = "bet" => l.id \in Nat
               /\ l.kind = "change" =>
                      /\ l.id \in 1 .. used'.changes /\ Len(typed') = 1
                      /\ \A c \in Of("change") : ledger[c].id # l.id,
           \A n \in DOMAIN typed' : typed'[n].kind = "bet_status" =>
               n = Len(typed') /\ Settles(typed'[n])
    PROVE  BetInv'
<1>1. BetShape'
    BY DEF BetInv, BetShape, Used, TickLine, CommandLine
<1>2. Numbered'
    <2>1. \A kind : Of(kind)' = Of(kind)
        BY DEF Of
    <2>2. 1 .. used.changes \subseteq 1 .. used'.changes
        BY DEF BetInv, BetShape, Used
    <2>3. QED  BY <2>1, <2>2 DEF BetInv, Numbered
<1>3. OnceEach'
    BY DEF BetInv, OnceEach, Of
<1>4. NotEarly'
    BY DEF BetInv, NotEarly, InTime, After, OutcomesOf, Rows, Of
<1>5. \A b : BetStatus(b)' = BetStatus(b)
    BY DEF BetStatus, Rows, Of
<1>6. Verdicts'
    BY <1>5 DEF BetInv, Verdicts, Settles, Of
<1>7. QED  BY <1>1, <1>2, <1>3, <1>4, <1>6 DEF BetInv

\* So is what a phase of the tick is about to write.
LEMMA PhaseBegins ==
    ASSUME BetInv, UNCHANGED <<ledger, today, typed>>,
           NEW queue, IsSeq(queue), engine' \in Engine(queue),
           used' \in Used, used.changes = used'.changes,
           \A l \in ToSet(queue) :
               /\ l.kind \in TickWrites[engine'.at]
               /\ l.kind = "bet" => l.id \in Nat
               /\ l.kind = "bet_status" =>
                      l.status = "evaluated" /\ BetStatus(l.id) = "confirmed"
               /\ InTime(l),
           \A i \in DOMAIN ledger, n \in DOMAIN queue : ~Same(ledger[i], queue[n]),
           \A m, n \in DOMAIN queue : Same(queue[m], queue[n]) => m = n,
           engine'.at = "observe" => \A o \in Of("outcome") : o <= engine'.read
    PROVE  BetInv'
<1>1. engine'.todo = queue /\ engine'.at \in DOMAIN TickWrites
    BY DEF Engine
<1>2. BetShape'
    <2>1. \A l \in ToSet(engine'.todo) : TickLine(l)'
        BY <1>1 DEF TickLine
    <2>2. \A l \in ToSet(typed') : CommandLine(l)
        BY DEF BetInv, BetShape
    <2>3. QED  BY <1>1, <2>1, <2>2 DEF BetInv, BetShape, Used, Engine, CommandLine
<1>3. Numbered'
    <2>1. \A kind : Of(kind)' = Of(kind)
        BY DEF Of
    <2>2. \A l \in ToSet(queue) : l.kind # "change"
        BY <1>1, KindsOfTick
    <2>3. QED  BY <1>1, <2>1, <2>2 DEF BetInv, Numbered
<1>4. OnceEach'
    BY <1>1 DEF BetInv, OnceEach, Of
<1>5. NotEarly'
    BY <1>1 DEF BetInv, NotEarly, InTime, After, OutcomesOf, Rows, Of
<1>6. \A b : BetStatus(b)' = BetStatus(b)
    BY DEF BetStatus, Rows, Of
<1>7. Verdicts'
    BY <1>1, <1>6 DEF BetInv, Verdicts, Settles, Of
<1>8. QED  BY <1>2, <1>3, <1>4, <1>5, <1>7 DEF BetInv

\* Taking lines out of the tick's hands leaves what it holds right.
LEMMA TodoTaken ==
    ASSUME BetInv, UNCHANGED <<ledger, today, typed, used>>,
           NEW queue, IsSeq(queue), engine' \in Engine(queue),
           \/ queue = << >> /\ engine'.at # "observe"
           \/ /\ queue = << >> \/ (engine.todo # << >> /\ queue = Tail(engine.todo))
              /\ engine'.at = engine.at /\ engine'.read = engine.read
    PROVE  BetInv'
<1>1. ToSet(<< >>) = {} /\ DOMAIN << >> = {}
    BY EmptyIsSeq DEF ToSet
<1>2. CASE queue = << >>
    BY <1>1, <1>2, PhaseBegins DEF BetInv, BetShape, Used, OnceEach
<1>3. CASE queue # << >>
    <2>1. /\ engine.todo # << >> /\ queue = Tail(engine.todo)
          /\ engine'.at = engine.at /\ engine'.read = engine.read
          /\ IsSeq(engine.todo)
        BY <1>3 DEF BetInv, BetShape
    <2>2. \A n \in DOMAIN queue : n \in Nat /\ n + 1 \in DOMAIN engine.todo /\ queue[n] = engine.todo[n + 1]
        BY <2>1, TailIsSeq
    <2>3. ToSet(queue) \subseteq ToSet(engine.todo)
        BY <2>2 DEF ToSet
    <2>4. \A i \in DOMAIN ledger, n \in DOMAIN queue : ~Same(ledger[i], queue[n])
        BY <2>2 DEF BetInv, OnceEach
    <2>5. \A m, n \in DOMAIN queue : Same(queue[m], queue[n]) => m = n
        <3> SUFFICES ASSUME NEW m \in DOMAIN queue, NEW n \in DOMAIN queue, Same(queue[m], queue[n])
                     PROVE  m = n
            OBVIOUS
        <3>1. m + 1 = n + 1
            BY <2>2 DEF BetInv, OnceEach
        <3>2. QED  BY <2>2, <3>1
    <2>6. \A l \in ToSet(queue) :
              /\ l.kind \in TickWrites[engine'.at]
              /\ l.kind = "bet" => l.id \in Nat
              /\ l.kind = "bet_status" => l.status = "evaluated" /\ BetStatus(l.id) = "confirmed"
              /\ InTime(l)
        BY <2>1, <2>3 DEF BetInv, BetShape, TickLine, Numbered, Verdicts, NotEarly
    <2>7. engine'.at = "observe" => \A o \in Of("outcome") : o <= engine'.read
        BY <2>1 DEF BetInv, OnceEach
    <2>8. used' \in Used /\ used.changes = used'.changes
        BY DEF BetInv, BetShape, Used
    <2>9. QED  BY <2>4, <2>5, <2>6, <2>7, <2>8, PhaseBegins
<1>4. QED  BY <1>2, <1>3
-----------------------------------------------------------------------------
\* Whoever appends, what was on the record and in time stays so.
LEMMA TimeStays ==
    ASSUME IsSeq(ledger), NEW line, ledger' = Append(ledger, line),
           NEW l, InTime(l)
    PROVE  InTime(l)'
<1>1. \A i \in 1 .. Len(ledger) : ledger'[i] = ledger[i]
    BY OneLineMore
<1>2. \A kind : Of(kind) \subseteq 1 .. Len(ledger) /\ Of(kind) \subseteq Of(kind)'
    BY OneLineMore
<1>3. \A days : After(l, days) => After(l, days)'
    BY <1>1, <1>2 DEF After
<1>4. OutcomesOf(l.id) # {} => OutcomesOf(l.id)' # {}
    BY <1>1, <1>2 DEF OutcomesOf, Rows
<1>5. QED  BY <1>3, <1>4 DEF InTime

LEMMA CommandAppendKeeps == ASSUME BetInv, CommandAppends PROVE BetInv'
<1> PICK line, n : line = Head(typed) /\ n = Len(ledger)
    OBVIOUS
<1>1. /\ typed # << >> /\ ledger' = Append(ledger, line) /\ typed' = Tail(typed)
      /\ UNCHANGED <<today, engine, used>> /\ IsSeq(ledger) /\ IsSeq(typed)
    BY DEF CommandAppends, BetInv, BetShape
<1>2. /\ IsSeq(typed') /\ Len(typed) \in Nat \ {0} /\ Len(typed') = Len(typed) - 1
      /\ DOMAIN typed = 1 .. Len(typed) /\ line = typed[1]
      /\ DOMAIN typed' = 1 .. (Len(typed) - 1)
      /\ \A i \in DOMAIN typed' : typed'[i] = typed[i + 1]
    BY <1>1, TailIsSeq
<1>3. line \in ToSet(typed) /\ ToSet(typed') \subseteq ToSet(typed)
    BY <1>2 DEF ToSet
<1>4. /\ IsSeq(ledger') /\ n \in Nat /\ Len(ledger') = n + 1
      /\ \A i \in 1 .. n : ledger'[i] = ledger[i]
      /\ ledger'[n + 1] = line
      /\ DOMAIN ledger = 1 .. n /\ DOMAIN ledger' = 1 .. (n + 1)
    BY <1>1, AppendIsSeq
<1>5. \A kind : /\ Of(kind) \subseteq 1 .. n
                /\ Of(kind)' = Of(kind) \cup (IF line.kind = kind THEN {n + 1} ELSE {})
    BY <1>1, OneLineMore
<1>6. \A b : BetStatus(b) # "none" => BetStatus(b)' = Word(b, BetStatus(b), line)
    BY <1>1, OneLineMore
<1>7. ToSet(ledger') = ToSet(ledger) \cup {line}
    <2>1. \A i \in 1 .. (n + 1) : i \in 1 .. n \/ i = n + 1
        BY <1>4
    <2>2. QED  BY <1>4, <2>1 DEF ToSet
<1>8. CommandLine(line) /\ ~Once(line)
    BY <1>3 DEF BetInv, BetShape, CommandLine, CommandWrites, Once
<1>9. BetShape'
    <2>1. \A l \in ToSet(typed') : CommandLine(l)
        BY <1>3 DEF BetInv, BetShape
    <2>2. \A l \in ToSet(engine'.todo) : TickLine(l)'
        BY <1>1 DEF BetInv, BetShape, TickLine
    <2>3. QED  BY <1>1, <1>2, <1>4, <2>1, <2>2 DEF BetInv, BetShape, CommandLine
<1>10. Numbered'
    <2>1. \A l \in ToSet(ledger') \cup ToSet(typed') \cup ToSet(engine'.todo) :
              /\ l.kind = "bet" => l.id \in Nat
              /\ l.kind = "change" => l.id \in 1 .. used'.changes
        BY <1>1, <1>3, <1>7 DEF BetInv, Numbered
    <2>2. ASSUME NEW c \in Of("change")', NEW d \in Of("change")', ledger'[c].id = ledger'[d].id
          PROVE  c = d
        <3>1. \A e \in Of("change") : line.kind = "change" => ledger[e].id # line.id
            BY <1>3 DEF BetInv, Numbered
        <3>2. \A e \in Of("change")' : e \in Of("change") \/ (line.kind = "change" /\ e = n + 1)
            BY <1>5
        <3>3. \A e \in Of("change") : ledger'[e] = ledger[e]
            BY <1>4, <1>5
        <3>4. QED  BY <1>4, <2>2, <3>1, <3>2, <3>3 DEF BetInv, Numbered
    <2>3. \A l \in ToSet(typed') : l.kind # "change"
        <3> SUFFICES ASSUME NEW l \in ToSet(typed'), l.kind = "change" PROVE FALSE
            OBVIOUS
        <3>1. Len(typed) = 1
            BY <1>3 DEF BetInv, Numbered
        <3>2. DOMAIN typed' = {}
            BY <1>2, <3>1
        <3>3. QED  BY <3>2 DEF ToSet
    <2>4. QED  BY <2>1, <2>2, <2>3 DEF Numbered
<1>11. OnceEach'
    <2>1. \A l : ~Same(line, l) /\ ~Same(l, line)
        BY <1>8 DEF Same
    <2>2. \A i \in 1 .. (n + 1) : i \in 1 .. n \/ i = n + 1
        BY <1>4
    <2>3. \A i, j \in DOMAIN ledger' : Same(ledger'[i], ledger'[j]) => i = j
        BY <1>4, <2>1, <2>2 DEF BetInv, OnceEach
    <2>4. \A i \in DOMAIN ledger', m \in DOMAIN engine'.todo : ~Same(ledger'[i], engine'.todo[m])
        BY <1>1, <1>4, <2>1, <2>2 DEF BetInv, OnceEach
    <2>5. Of("outcome")' = Of("outcome")
        BY <1>5, <1>8 DEF Once
    <2>6. QED  BY <1>1, <2>3, <2>4, <2>5 DEF BetInv, OnceEach
<1>12. NotEarly'
    <2>1. InTime(line)'
        BY <1>8 DEF Once, InTime
    <2>2. \A l \in ToSet(ledger') \cup ToSet(engine'.todo) : InTime(l)'
        BY <1>1, <1>7, <2>1, TimeStays DEF BetInv, NotEarly
    <2>3. ASSUME NEW r \in Of("revisit")'
          PROVE  \E o \in OutcomesOf(ledger[r].id)' : o < r
        <3>1. r \in Of("revisit") /\ ledger'[r] = ledger[r]
            BY <1>4, <1>5, <1>8 DEF Once
        <3>2. PICK o \in OutcomesOf(ledger[r].id) : o < r
            BY <3>1 DEF BetInv, NotEarly
        <3>3. o \in OutcomesOf(ledger[r].id)'
            BY <1>4, <1>5, <3>1, <3>2 DEF OutcomesOf, Rows
        <3>4. QED  BY <3>2, <3>3
    <2>4. QED  BY <2>2, <2>3 DEF NotEarly
<1>13. Verdicts'
    <2>1. line.kind = "bet_status" =>
              /\ Settles(line) /\ line.status \in {"confirmed", "declined", "learned"}
              /\ typed' = << >> /\ DOMAIN typed' = {}
        <3> SUFFICES ASSUME line.kind = "bet_status"
                     PROVE  Settles(line) /\ typed' = << >> /\ DOMAIN typed' = {}
            BY <1>8 DEF CommandLine
        <3>1. 1 = Len(typed) /\ Settles(typed[1])
            BY <1>2 DEF BetInv, Verdicts
        <3>2. Len(typed') = 0
            <4>1. Len(typed) = 1
                BY <3>1
            <4>2. Len(typed') = Len(typed) - 1
                BY <1>2
            <4>3. QED  BY <4>1, <4>2
        <3>3. typed' = << >>
            <4>1. typed' \in Seq(ToSet(typed'))
                BY <1>2 DEF IsSeq
            <4>2. QED  BY <3>2, <4>1
        <3>4. QED  BY <1>2, <3>1, <3>3, EmptyIsSeq
    <2>2. ASSUME NEW i \in Of("bet_status")', ledger'[i].status = "evaluated"
          PROVE  BetStatus(ledger[i].id)' = "evaluated"
        <3>1. i \in Of("bet_status") /\ ledger'[i] = ledger[i]
            BY <1>4, <1>5, <1>8, <2>2 DEF Once
        <3>2. BetStatus(ledger[i].id) = "evaluated"
            BY <2>2, <3>1 DEF BetInv, Verdicts
        <3>3. QED  BY <1>6, <2>1, <3>1, <3>2 DEF Word, FoldBet, Settles
    <2>3. ASSUME NEW l \in ToSet(engine'.todo), l.kind = "bet_status"
          PROVE  BetStatus(l.id)' = "confirmed"
        <3>1. BetStatus(l.id) = "confirmed"
            BY <1>1, <2>3 DEF BetInv, Verdicts
        <3>2. QED  BY <1>6, <2>1, <3>1 DEF Word, FoldBet, Settles
    <2>4. ASSUME NEW m \in DOMAIN typed', typed'[m].kind = "bet_status"
          PROVE  m = Len(typed') /\ Settles(typed[m])'
        <3>1. line.kind # "bet_status"
            BY <2>1
        <3>2. m + 1 \in DOMAIN typed /\ typed'[m] = typed[m + 1]
            BY <1>2
        <3>3. m + 1 = Len(typed) /\ Settles(typed[m + 1])
            BY <2>4, <3>2 DEF BetInv, Verdicts
        <3>4. m = Len(typed')
            BY <1>2, <3>3
        <3>5. BetStatus(typed[m].id)' = BetStatus(typed[m + 1].id)
            BY <1>6, <3>1, <3>2, <3>3 DEF Word, Settles
        <3>6. QED  BY <3>2, <3>3, <3>4, <3>5 DEF Settles
    <2>5. QED  BY <2>2, <2>3, <2>4 DEF Verdicts
<1>14. QED  BY <1>9, <1>10, <1>11, <1>12, <1>13 DEF BetInv

LEMMA TickAppendKeeps == ASSUME BetInv, EngineAppends PROVE BetInv'
<1> PICK line, n, rest : line = Head(engine.todo) /\ n = Len(ledger) /\ rest = Tail(engine.todo)
    OBVIOUS
<1>1. /\ engine.todo # << >> /\ ledger' = Append(ledger, line)
      /\ UNCHANGED <<today, typed, used>> /\ IsSeq(ledger) /\ IsSeq(engine.todo)
    BY DEF EngineAppends, BetInv, BetShape
<1>2. /\ engine' \in Engine(rest) /\ engine'.todo = rest /\ engine'.at = engine.at
      /\ engine'.read = engine.read /\ engine.at \in DOMAIN TickWrites
    BY DEF EngineAppends, BetInv, BetShape, Engine
<1>3. /\ IsSeq(rest) /\ DOMAIN engine.todo = 1 .. Len(engine.todo) /\ line = engine.todo[1]
      /\ 1 \in DOMAIN engine.todo
      /\ \A m \in DOMAIN rest :
             m \in Nat \ {0} /\ m + 1 \in DOMAIN engine.todo /\ rest[m] = engine.todo[m + 1]
    BY <1>1, TailIsSeq
<1>4. /\ IsSeq(ledger') /\ n \in Nat /\ Len(ledger') = n + 1
      /\ \A i \in 1 .. n : ledger'[i] = ledger[i]
      /\ ledger'[n + 1] = line
      /\ DOMAIN ledger = 1 .. n /\ DOMAIN ledger' = 1 .. (n + 1)
    BY <1>1, AppendIsSeq
<1>5. \A kind : /\ Of(kind) \subseteq 1 .. n
                /\ Of(kind)' = Of(kind) \cup (IF line.kind = kind THEN {n + 1} ELSE {})
    BY <1>1, OneLineMore
<1>6. \A b : BetStatus(b) # "none" => BetStatus(b)' = Word(b, BetStatus(b), line)
    BY <1>1, OneLineMore
<1>7. line \in ToSet(engine.todo) /\ ToSet(rest) \subseteq ToSet(engine.todo)
    BY <1>3 DEF ToSet
<1>8. ToSet(ledger') = ToSet(ledger) \cup {line}
    <2>1. \A i \in 1 .. (n + 1) : i \in 1 .. n \/ i = n + 1
        BY <1>4
    <2>2. QED  BY <1>4, <2>1 DEF ToSet
<1>9. TickLine(line) /\ line.kind # "change"
    BY <1>2, <1>7, KindsOfTick DEF BetInv, BetShape, TickLine
<1>10. BetShape'
    <2>1. \A l \in ToSet(typed') : CommandLine(l)
        BY <1>1 DEF BetInv, BetShape
    <2>2. \A l \in ToSet(engine'.todo) : TickLine(l)'
        BY <1>2, <1>7 DEF BetInv, BetShape, TickLine
    <2>3. QED  BY <1>1, <1>2, <1>3, <1>4, <2>1, <2>2 DEF BetInv, BetShape, CommandLine, Engine
<1>11. Numbered'
    <2>1. \A l \in ToSet(ledger') \cup ToSet(typed') \cup ToSet(engine'.todo) :
              /\ l.kind = "bet" => l.id \in Nat
              /\ l.kind = "change" => l.id \in 1 .. used'.changes
        BY <1>1, <1>2, <1>7, <1>8 DEF BetInv, Numbered
    <2>2. Of("change")' = Of("change") /\ \A c \in Of("change") : ledger'[c] = ledger[c]
        BY <1>4, <1>5, <1>9
    <2>3. \A c, d \in Of("change")' : ledger'[c].id = ledger'[d].id => c = d
        BY <2>2 DEF BetInv, Numbered
    <2>4. \A l \in ToSet(typed') : l.kind = "change" =>
              Len(typed') = 1 /\ \A c \in Of("change")' : ledger'[c].id # l.id
        <3>1. typed' = typed
            BY <1>1
        <3>2. \A l \in ToSet(typed) : l.kind = "change" =>
                  Len(typed) = 1 /\ \A c \in Of("change") : ledger[c].id # l.id
            BY DEF BetInv, Numbered
        <3>3. QED  BY <2>2, <3>1, <3>2
    <2>5. QED  BY <2>1, <2>3, <2>4 DEF Numbered
<1>12. OnceEach'
    <2>1. \A i \in 1 .. (n + 1) : i \in 1 .. n \/ i = n + 1
        BY <1>4
    <2>2. \A i \in DOMAIN ledger : ~Same(ledger[i], line) /\ ~Same(line, ledger[i])
        BY <1>3 DEF BetInv, OnceEach, Same
    <2>3. \A i, j \in DOMAIN ledger' : Same(ledger'[i], ledger'[j]) => i = j
        BY <1>4, <2>1, <2>2 DEF BetInv, OnceEach
    <2>4. \A m \in DOMAIN rest : ~Same(line, rest[m])
        <3> SUFFICES ASSUME NEW m \in DOMAIN rest, Same(line, rest[m]) PROVE FALSE
            OBVIOUS
        <3>1. 1 = m + 1
            BY <1>3 DEF BetInv, OnceEach
        <3>2. QED  BY <1>3, <3>1
    <2>5. \A i \in DOMAIN ledger', m \in DOMAIN rest : ~Same(ledger'[i], rest[m])
        <3>1. \A i \in DOMAIN ledger, m \in DOMAIN rest : ~Same(ledger[i], rest[m])
            BY <1>3 DEF BetInv, OnceEach
        <3>2. QED  BY <1>4, <2>1, <2>4, <3>1
    <2>6. ASSUME NEW m \in DOMAIN rest, NEW k \in DOMAIN rest, Same(rest[m], rest[k])
          PROVE  m = k
        <3>1. m + 1 = k + 1
            BY <1>3, <2>6 DEF BetInv, OnceEach
        <3>2. QED  BY <1>3, <3>1
    <2>7. engine'.at = "observe" => \A o \in Of("outcome")' : o <= engine'.read
        <3> SUFFICES ASSUME engine.at = "observe" PROVE \A o \in Of("outcome")' : o <= engine.read
            BY <1>2
        <3>1. line.kind = "observation"
            BY <1>9 DEF TickLine, TickWrites
        <3>2. Of("outcome")' = Of("outcome")
            BY <1>5, <3>1
        <3>3. QED  BY <3>2 DEF BetInv, OnceEach
    <2>8. QED  BY <1>2, <2>3, <2>5, <2>6, <2>7 DEF OnceEach
<1>13. NotEarly'
    <2>1. \A l \in ToSet(ledger') \cup ToSet(engine'.todo) : InTime(l)'
        BY <1>1, <1>2, <1>7, <1>8, TimeStays DEF BetInv, NotEarly
    <2>2. ASSUME NEW r \in Of("revisit")'
          PROVE  \E o \in OutcomesOf(ledger[r].id)' : o < r
        <3>1. PICK o \in Of("outcome") : ledger[o].id = ledger'[r].id /\ o < r
            <4>1. CASE r \in Of("revisit")
                BY <1>4, <1>5, <4>1 DEF BetInv, NotEarly, OutcomesOf, Rows
            <4>2. CASE r = n + 1 /\ line.kind = "revisit"
                <5>1. OutcomesOf(line.id) # {}
                    BY <1>7, <4>2 DEF BetInv, NotEarly, InTime
                <5>2. \A o \in Of("outcome") : o < n + 1
                    BY <1>4, <1>5
                <5>3. QED  BY <1>4, <4>2, <5>1, <5>2 DEF OutcomesOf, Rows
            <4>3. QED  BY <1>5, <4>1, <4>2
        <3>2. o \in Of("outcome")' /\ ledger'[o] = ledger[o]
            BY <1>4, <1>5
        <3>3. QED  BY <3>1, <3>2 DEF OutcomesOf, Rows
    <2>3. QED  BY <2>1, <2>2 DEF NotEarly
<1>14. Verdicts'
    <2>1. line.kind = "bet_status" =>
              line.status = "evaluated" /\ BetStatus(line.id) = "confirmed"
        BY <1>7, <1>9 DEF BetInv, Verdicts, TickLine
    <2>2. ASSUME NEW i \in Of("bet_status")', ledger'[i].status = "evaluated"
          PROVE  BetStatus(ledger[i].id)' = "evaluated"
        <3>1. CASE i \in Of("bet_status")
            <4>1. ledger'[i] = ledger[i]
                BY <1>4, <1>5, <3>1
            <4>2. BetStatus(ledger[i].id) = "evaluated"
                BY <2>2, <3>1, <4>1 DEF BetInv, Verdicts
            <4>3. QED  BY <1>6, <2>1, <4>1, <4>2 DEF Word, FoldBet
        <3>2. CASE i = n + 1 /\ line.kind = "bet_status"
            BY <1>4, <1>6, <2>1, <3>2 DEF Word, FoldBet
        <3>3. QED  BY <1>5, <3>1, <3>2
    <2>3. ASSUME NEW l \in ToSet(rest), l.kind = "bet_status"
          PROVE  BetStatus(l.id)' = "confirmed"
        <3>1. BetStatus(l.id) = "confirmed" /\ TickLine(l)
            BY <1>7, <2>3 DEF BetInv, BetShape, Verdicts
        <3>2. PICK m \in DOMAIN rest : l = rest[m]
            BY <2>3 DEF ToSet
        <3>3. ~Same(line, l)
            <4> SUFFICES ASSUME Same(line, l) PROVE FALSE
                OBVIOUS
            <4>1. 1 = m + 1
                BY <1>3, <3>2 DEF BetInv, OnceEach
            <4>2. QED  BY <1>3, <4>1
        <3>4. ~(line.kind = "bet_status" /\ line.id = l.id)
            BY <2>1, <2>3, <3>1, <3>3 DEF Same, Once, TickLine
        <3>5. QED  BY <1>6, <3>1, <3>4 DEF Word
    <2>4. ASSUME NEW m \in DOMAIN typed', typed'[m].kind = "bet_status"
          PROVE  m = Len(typed') /\ Settles(typed[m])'
        <3>1. m = Len(typed) /\ Settles(typed[m])
            BY <1>1, <2>4 DEF BetInv, Verdicts
        <3>2. BetStatus(typed[m].id)' = BetStatus(typed[m].id)
            BY <1>1, <1>6, <2>1, <3>1 DEF Word, Settles
        <3>3. QED  BY <1>1, <3>1, <3>2 DEF Settles
    <2>5. QED  BY <1>2, <2>2, <2>3, <2>4 DEF Verdicts
<1>15. QED  BY <1>10, <1>11, <1>12, <1>13, <1>14 DEF BetInv
-----------------------------------------------------------------------------
\* The lines of a hypothesis and of a bet.
LEMMA KnownIsFinite ==
    ASSUME IsSeq(ledger)
    PROVE  /\ \A kind : IsFiniteSet(Of(kind)) /\ Of(kind) \in SUBSET Nat
           /\ IsFiniteSet(Known(Len(ledger))) /\ IsFiniteSet(Bets)
<1>1. Len(ledger) \in Nat /\ DOMAIN ledger = 1 .. Len(ledger)
    BY DEF IsSeq
<1>2. IsFiniteSet(1 .. Len(ledger))
    BY <1>1, FS_Interval
<1>3. ASSUME NEW kind
      PROVE  IsFiniteSet(Of(kind)) /\ Of(kind) \in SUBSET Nat
    <2>1. Of(kind) \in SUBSET (1 .. Len(ledger))
        BY <1>1 DEF Of
    <2>2. QED  BY <1>1, <1>2, <2>1, FS_Subset
<1> DEFINE ids == [i \in DOMAIN ledger |-> ledger[i].id]
           old == {j \in Of("observation") : j <= Len(ledger)}
<1>4. IsFiniteSet(Known(Len(ledger)))
    <2>1. old \in SUBSET Of("observation")
        OBVIOUS
    <2>2. IsFiniteSet(old)
        BY <1>3, <2>1, FS_Subset
    <2>3. IsFiniteSet({ids[i] : i \in old})
        BY <2>2, FiniteImage
    <2>4. {ids[i] : i \in old} = Known(Len(ledger))
        BY DEF Known, Of
    <2>5. QED  BY <2>3, <2>4
<1>5. IsFiniteSet(Bets)
    <2>1. IsFiniteSet({ids[i] : i \in Of("bet")})
        BY <1>3, FiniteImage
    <2>2. {ids[i] : i \in Of("bet")} = Bets
        BY DEF Bets, Of
    <2>3. QED  BY <2>1, <2>2
<1>6. QED  BY <1>3, <1>4, <1>5

LEMMA OneLine ==
    ASSUME NEW e
    PROVE  IsSeq(<<e>>) /\ Len(<<e>>) = 1 /\ DOMAIN <<e>> = {1} /\ <<e>>[1] = e /\ ToSet(<<e>>) = {e}
<1>1. <<e>> \in Seq({e})
    OBVIOUS
<1>2. IsSeq(<<e>>)
    BY <1>1, SeqIsSeq
<1>3. Len(<<e>>) = 1 /\ DOMAIN <<e>> = {1} /\ <<e>>[1] = e
    OBVIOUS
<1>4. ToSet(<<e>>) = {e}
    BY <1>3 DEF ToSet
<1>5. QED  BY <1>2, <1>3, <1>4

LEMMA ConcatHolds ==
    ASSUME NEW s, NEW t, IsSeq(s), IsSeq(t)
    PROVE  IsSeq(s \o t) /\ ToSet(s \o t) \subseteq ToSet(s) \cup ToSet(t)
<1>1. /\ IsSeq(s \o t) /\ Len(s) \in Nat /\ Len(t) \in Nat
      /\ DOMAIN (s \o t) = 1 .. (Len(s) + Len(t))
      /\ \A i \in 1 .. (Len(s) + Len(t)) :
             (s \o t)[i] = IF i <= Len(s) THEN s[i] ELSE t[i - Len(s)]
    BY ConcatIsSeq
<1>2. DOMAIN s = 1 .. Len(s) /\ DOMAIN t = 1 .. Len(t)
    BY DEF IsSeq
<1>3. ASSUME NEW i \in 1 .. (Len(s) + Len(t))
      PROVE  (s \o t)[i] \in ToSet(s) \cup ToSet(t)
    <2>1. CASE i <= Len(s)
        BY <1>1, <1>2, <2>1 DEF ToSet
    <2>2. CASE ~(i <= Len(s))
        <3>1. i - Len(s) \in 1 .. Len(t)
            BY <1>1, <2>2
        <3>2. QED  BY <1>1, <1>2, <2>2, <3>1 DEF ToSet
    <2>3. QED  BY <2>1, <2>2
<1>4. QED  BY <1>1, <1>3 DEF ToSet

LEMMA HypothesisLinesHold ==
    ASSUME NEW h, NEW cites, IsFiniteSet(cites), NEW plan
    PROVE  /\ IsSeq(HypothesisLines(h, cites, plan))
           /\ \A l \in ToSet(HypothesisLines(h, cites, plan)) :
                  l.kind \in {"hypothesis", "observation_status"}
<1> DEFINE row == [kind |-> "hypothesis", id |-> h, plan |-> plan]
           claim == [o \in cites |-> [kind |-> "observation_status", id |-> o, status |-> h]]
           claims == {[kind |-> "observation_status", id |-> o, status |-> h] : o \in cites}
<1>1. IsFiniteSet({claim[o] : o \in cites})
    BY FiniteImage
<1>2. claims = {claim[o] : o \in cites}
    OBVIOUS
<1>3. IsSeq(SetToSeq(claims)) /\ \A n \in DOMAIN SetToSeq(claims) : SetToSeq(claims)[n] \in claims
    <2> HIDE DEF claims, claim
    <2>1. QED  BY <1>1, <1>2, SetToSeqHolds
<1>4. \A l \in ToSet(SetToSeq(claims)) : l.kind = "observation_status"
    <2>1. \A l \in claims : l.kind = "observation_status"
        OBVIOUS
    <2> HIDE DEF claims
    <2>2. QED  BY <1>3, <2>1 DEF ToSet
<1>5. IsSeq(<<row>>) /\ \A l \in ToSet(<<row>>) : l.kind = "hypothesis"
    BY OneLine
<1>6. HypothesisLines(h, cites, plan) = <<row>> \o SetToSeq(claims)
    BY DEF HypothesisLines
<1> HIDE DEF claims, row
<1>7. QED  BY <1>3, <1>4, <1>5, <1>6, ConcatHolds

LEMMA BetLinesHold ==
    ASSUME NEW h \in Nat, NEW cites, IsFiniteSet(cites), NEW plan
    PROVE  /\ IsSeq(BetLines(h, cites, plan))
           /\ \A l \in ToSet(BetLines(h, cites, plan)) :
                  /\ l.kind \in {"hypothesis", "observation_status", "bet"}
                  /\ l.kind = "bet" => l.id \in Nat
<1> DEFINE row == [kind |-> "bet", id |-> h]
           first == HypothesisLines(h, cites, plan)
<1>1. IsSeq(first) /\ \A l \in ToSet(first) : l.kind \in {"hypothesis", "observation_status"}
    BY HypothesisLinesHold
<1>2. IsSeq(<<row>>) /\ \A l \in ToSet(<<row>>) : l.kind = "bet" /\ l.id \in Nat
    BY OneLine
<1>3. BetLines(h, cites, plan) = first \o <<row>>
    BY DEF BetLines
<1> HIDE DEF first, row
<1>4. IsSeq(first \o <<row>>) /\ ToSet(first \o <<row>>) \subseteq ToSet(first) \cup ToSet(<<row>>)
    BY <1>1, <1>2, ConcatHolds
<1>5. QED  BY <1>1, <1>2, <1>3, <1>4
-----------------------------------------------------------------------------
\* Each phase of the tick.
LEMMA ObserveKeeps == ASSUME BetInv, Observe PROVE BetInv'
<1> PICK found \in SUBSET (Obs \ Known(Len(ledger))) :
        /\ engine' = [at |-> "observe", read |-> Len(ledger), now |-> today, fresh |-> found,
                      todo |-> SetToSeq({[kind |-> "observation", id |-> o] : o \in found})]
        /\ UNCHANGED <<ledger, today, typed, used>>
    BY DEF Observe
<1> DEFINE line == [o \in found |-> [kind |-> "observation", id |-> o]]
           T == {[kind |-> "observation", id |-> o] : o \in found}
           queue == SetToSeq(T)
<1>1. IsFiniteSet(T)
    <2>1. found \in SUBSET Obs
        OBVIOUS
    <2>2. IsFiniteSet(found)
        BY <2>1, FS_Subset, BetAssumption
    <2>3. IsFiniteSet({line[o] : o \in found})
        BY <2>2, FiniteImage
    <2>4. {line[o] : o \in found} = T
        OBVIOUS
    <2>5. QED  BY <2>3, <2>4
<1>2. \A l \in T : l.kind = "observation"
    OBVIOUS
<1>3. engine' = [at |-> "observe", read |-> Len(ledger), now |-> today, fresh |-> found,
                 todo |-> queue]
    OBVIOUS
<1>4. UNCHANGED <<ledger, today, typed, used>>
    OBVIOUS
<1> HIDE DEF T
<1>5. IsSeq(queue) /\ \A n \in DOMAIN queue : queue[n] \in T
    BY <1>1, SetToSeqHolds
<1> HIDE DEF queue
<1>6. engine'.at = "observe" /\ engine'.read = Len(ledger) /\ engine' \in Engine(queue)
    <2>1. IsSeq(ledger) /\ today \in Nat
        BY DEF BetInv, BetShape
    <2>2. Len(ledger) \in Nat
        BY <2>1 DEF IsSeq
    <2>3. found \in SUBSET Obs /\ "observe" \in DOMAIN TickWrites
        BY DEF TickWrites
    <2>4. QED  BY <1>3, <2>1, <2>2, <2>3 DEF Engine
<1>7. \A n \in DOMAIN queue : ~Once(queue[n])
    BY <1>2, <1>5 DEF Once
<1>8. \A l \in ToSet(queue) : l.kind = "observation"
    BY <1>2, <1>5 DEF ToSet
<1>9. \A l \in ToSet(queue) :
          /\ l.kind \in TickWrites[engine'.at]
          /\ l.kind = "bet" => l.id \in Nat
          /\ l.kind = "bet_status" => l.status = "evaluated" /\ BetStatus(l.id) = "confirmed"
          /\ InTime(l)
    BY <1>6, <1>8 DEF TickWrites, InTime
<1>10. \A o \in Of("outcome") : o <= engine'.read
    <2>1. IsSeq(ledger)
        BY DEF BetInv, BetShape
    <2>2. QED  BY <1>6, <2>1 DEF Of, IsSeq
<1>11. used' \in Used /\ used.changes = used'.changes
    BY <1>4 DEF BetInv, BetShape, Used
<1>12. \A i \in DOMAIN ledger, n \in DOMAIN queue : ~Same(ledger[i], queue[n])
    BY <1>7 DEF Same
<1>13. \A m, n \in DOMAIN queue : Same(queue[m], queue[n]) => m = n
    BY <1>7 DEF Same
<1>14. QED  BY <1>6, <1>4, <1>5, <1>9, <1>10, <1>11, <1>12, <1>13, PhaseBegins

\* What a phase takes over from the one before.
LEMMA PhaseTakes ==
    ASSUME BetInv, NEW from, NEW to \in DOMAIN TickWrites, NEW queue, Phase(from, to, queue)
    PROVE  /\ engine.at = from /\ engine.todo = << >>
           /\ engine' \in Engine(queue) /\ engine'.at = to
           /\ UNCHANGED <<ledger, today, typed>>
BY DEF Phase, BetInv, BetShape, Engine

LEMMA MeasureKeeps == ASSUME BetInv, MeasureDue PROVE BetInv'
<1> PICK f \in Readings(ToMeasure) :
        /\ used' = used
        /\ Phase("observe", "measure",
               LET order == InOrder({i \in ToMeasure : f[i] # "skipped"})
               IN [n \in DOMAIN order |->
                       [kind |-> "outcome", id |-> ledger[order[n]].id,
                        outcome |-> f[order[n]], at |-> engine.now]])
    BY DEF MeasureDue, LinesOf, OutcomeLine
<1> DEFINE S == {i \in ToMeasure : f[i] # "skipped"}
           order == InOrder(S)
           queue == [n \in DOMAIN order |->
                        [kind |-> "outcome", id |-> ledger[order[n]].id,
                         outcome |-> f[order[n]], at |-> engine.now]]
<1>1. Phase("observe", "measure", queue)
    OBVIOUS
<1>2. IsSeq(ledger) /\ used \in Used
    BY DEF BetInv, BetShape, Used
<1>3. S \in SUBSET Of("change") /\ S \in SUBSET Nat /\ IsFiniteSet(S)
    <2>1. S \in SUBSET Of("change")
        BY DEF ToMeasure
    <2>2. QED  BY <1>2, <2>1, KnownIsFinite, FS_Subset
<1>4. \A i \in S : Due(i) /\ Unsettled(i)
    BY DEF ToMeasure
<1> HIDE DEF S
<1>5. /\ DOMAIN order = 1 .. Cardinality(S) /\ Cardinality(S) \in Nat
      /\ \A n \in DOMAIN order : order[n] \in S
      /\ \A m, n \in DOMAIN order : order[m] = order[n] => m = n
    BY <1>3, InOrderHolds
<1> HIDE DEF order
<1>6. /\ DOMAIN queue = DOMAIN order
      /\ \A n \in DOMAIN queue :
             queue[n] = [kind |-> "outcome", id |-> ledger[order[n]].id,
                         outcome |-> f[order[n]], at |-> engine.now]
    OBVIOUS
<1>7. IsSeq(queue)
    <2>1. queue = [n \in 1 .. Cardinality(S) |-> queue[n]]
        BY <1>5
    <2> HIDE DEF queue
    <2>2. QED  BY <1>5, <2>1, FunctionIsSeq
<1> HIDE DEF queue
<1>8. /\ engine.at = "observe" /\ engine' \in Engine(queue) /\ engine'.at = "measure"
      /\ UNCHANGED <<ledger, today, typed>>
    BY <1>1, PhaseTakes DEF TickWrites
<1>9. \A n \in DOMAIN queue :
          /\ queue[n].kind = "outcome" /\ queue[n].id = ledger[order[n]].id
          /\ queue[n].at = engine.now
    BY <1>6
<1>10. \A n \in DOMAIN queue : InTime(queue[n])
    <2> SUFFICES ASSUME NEW n \in DOMAIN queue PROVE InTime(queue[n])
        OBVIOUS
    <2>1. order[n] \in Of("change") /\ Due(order[n])
        BY <1>3, <1>4, <1>5, <1>6
    <2>2. queue[n].at >= ledger[order[n]].at + DAYS
        BY <1>9, <2>1 DEF Due
    <2>3. After(queue[n], DAYS)
        BY <1>9, <2>1, <2>2 DEF After
    <2>4. QED  BY <1>9, <2>3 DEF InTime
<1>11. \A i \in DOMAIN ledger, n \in DOMAIN queue : ~Same(ledger[i], queue[n])
    <2> SUFFICES ASSUME NEW i \in DOMAIN ledger, NEW n \in DOMAIN queue, Same(ledger[i], queue[n])
                 PROVE  FALSE
        OBVIOUS
    <2>1. i \in Of("outcome") /\ i \in OutcomesOf(ledger[order[n]].id)
        BY <1>9 DEF Same, Of, OutcomesOf, Rows
    <2>2. i <= engine.read
        BY <1>8, <2>1 DEF BetInv, OnceEach
    <2>3. i > engine.read
        BY <1>4, <1>5, <1>6, <2>1 DEF Unsettled
    <2>4. i \in Nat /\ engine.read \in Nat
        BY <1>2 DEF IsSeq, BetInv, BetShape
    <2>5. QED  BY <2>2, <2>3, <2>4
<1>12. \A m, n \in DOMAIN queue : Same(queue[m], queue[n]) => m = n
    <2> SUFFICES ASSUME NEW m \in DOMAIN queue, NEW n \in DOMAIN queue, Same(queue[m], queue[n])
                 PROVE  m = n
        OBVIOUS
    <2>1. ledger[order[m]].id = ledger[order[n]].id
        BY <1>9 DEF Same
    <2>2. order[m] \in Of("change") /\ order[n] \in Of("change")
        BY <1>3, <1>5, <1>6
    <2>3. order[m] = order[n]
        BY <2>1, <2>2 DEF BetInv, Numbered
    <2>4. QED  BY <1>5, <1>6, <2>3
<1>13. \A l \in ToSet(queue) :
          /\ l.kind \in TickWrites[engine'.at]
          /\ l.kind = "bet" => l.id \in Nat
          /\ l.kind = "bet_status" => l.status = "evaluated" /\ BetStatus(l.id) = "confirmed"
          /\ InTime(l)
    BY <1>8, <1>9, <1>10 DEF TickWrites, ToSet
<1>14. QED  BY <1>2, <1>7, <1>8, <1>11, <1>12, <1>13, PhaseBegins

LEMMA EvaluateKeeps == ASSUME BetInv, EvaluateDue PROVE BetInv'
<1> DEFINE order == InOrder(DueBets)
           queue == [n \in DOMAIN order |-> EvaluatedLine(order[n])]
<1>1. Phase("measure", "evaluate", queue) /\ used' = used
    BY DEF EvaluateDue
<1>2. IsSeq(ledger) /\ used \in Used
    BY DEF BetInv, BetShape, Used
<1>3. DueBets \in SUBSET Nat /\ IsFiniteSet(DueBets)
    <2>1. DueBets \in SUBSET Bets
        BY DEF DueBets
    <2>2. Bets \in SUBSET Nat
        BY DEF BetInv, Numbered, Bets, Of, ToSet
    <2>3. QED  BY <1>2, <2>1, <2>2, KnownIsFinite, FS_Subset
<1>4. \A b \in DueBets : BetStatus(b) = "confirmed"
    BY DEF DueBets
<1>5. /\ DOMAIN order = 1 .. Cardinality(DueBets) /\ Cardinality(DueBets) \in Nat
      /\ \A n \in DOMAIN order : order[n] \in DueBets
      /\ \A m, n \in DOMAIN order : order[m] = order[n] => m = n
    BY <1>3, InOrderHolds
<1> HIDE DEF order
<1>6. /\ DOMAIN queue = DOMAIN order
      /\ \A n \in DOMAIN queue : queue[n] = EvaluatedLine(order[n])
    OBVIOUS
<1>7. IsSeq(queue)
    <2>1. queue = [n \in 1 .. Cardinality(DueBets) |-> queue[n]]
        BY <1>5
    <2> HIDE DEF queue
    <2>2. QED  BY <1>5, <2>1, FunctionIsSeq
<1> HIDE DEF queue
<1>8. /\ engine' \in Engine(queue) /\ engine'.at = "evaluate"
      /\ UNCHANGED <<ledger, today, typed>>
    BY <1>1, PhaseTakes DEF TickWrites
<1>9. \A n \in DOMAIN queue :
          /\ queue[n].kind = "bet_status" /\ queue[n].id = order[n]
          /\ queue[n].status = "evaluated" /\ BetStatus(queue[n].id) = "confirmed"
    BY <1>4, <1>5, <1>6 DEF EvaluatedLine
<1>10. \A i \in DOMAIN ledger, n \in DOMAIN queue : ~Same(ledger[i], queue[n])
    <2> SUFFICES ASSUME NEW i \in DOMAIN ledger, NEW n \in DOMAIN queue, Same(ledger[i], queue[n])
                 PROVE  FALSE
        OBVIOUS
    <2>1. i \in Of("bet_status") /\ ledger[i].status = "evaluated" /\ ledger[i].id = queue[n].id
        BY <1>9 DEF Same, Once, Of
    <2>2. BetStatus(ledger[i].id) = "evaluated"
        BY <2>1 DEF BetInv, Verdicts
    <2>3. QED  BY <1>9, <2>1, <2>2
<1>11. \A m, n \in DOMAIN queue : Same(queue[m], queue[n]) => m = n
    BY <1>5, <1>6, <1>9 DEF Same
<1>12. \A l \in ToSet(queue) :
          /\ l.kind \in TickWrites[engine'.at]
          /\ l.kind = "bet" => l.id \in Nat
          /\ l.kind = "bet_status" => l.status = "evaluated" /\ BetStatus(l.id) = "confirmed"
          /\ InTime(l)
    BY <1>8, <1>9 DEF TickWrites, ToSet, InTime
<1>13. QED  BY <1>1, <1>2, <1>7, <1>8, <1>10, <1>11, <1>12, PhaseBegins

LEMMA RevisitKeeps == ASSUME BetInv, RevisitDue PROVE BetInv'
<1> PICK skipped \in SUBSET {p \in ToRevisit : ledger[p[1]].plan = "behavior"} :
        /\ used' = used
        /\ Phase("evaluate", "revisit", SetToSeq({RevisitLine(p) : p \in ToRevisit \ skipped}))
    BY DEF RevisitDue
<1> DEFINE due == ToRevisit \ skipped
           line == [p \in due |-> RevisitLine(p)]
           T == {RevisitLine(p) : p \in due}
           queue == SetToSeq(T)
<1>1. Phase("evaluate", "revisit", queue)
    OBVIOUS
<1>2. IsSeq(ledger) /\ used \in Used
    BY DEF BetInv, BetShape, Used
<1>3. IsFiniteSet(T)
    <2>1. due \in SUBSET (Of("change") \X HORIZONS)
        BY DEF ToRevisit
    <2>2. IsFiniteSet(Of("change") \X HORIZONS)
        BY <1>2, KnownIsFinite, FS_Product, BetAssumption
    <2>3. IsFiniteSet(due)
        BY <2>1, <2>2, FS_Subset
    <2>4. T = {line[p] : p \in due}
        OBVIOUS
    <2> HIDE DEF T, line, due
    <2>5. QED  BY <2>3, <2>4, FiniteImage
<1>4. \A l \in T : \E c \in Of("change"), day \in HORIZONS :
          /\ l = [kind |-> "revisit", id |-> ledger[c].id, horizon |-> day, at |-> engine.now]
          /\ OutcomesOf(ledger[c].id) # {}
          /\ engine.now >= ledger[c].at + day
          /\ RevisitsOf(ledger[c].id, day) = {}
    <2> SUFFICES ASSUME NEW p \in due
                 PROVE  \E c \in Of("change"), day \in HORIZONS :
                   /\ RevisitLine(p) = [kind |-> "revisit", id |-> ledger[c].id, horizon |-> day,
                                        at |-> engine.now]
                   /\ OutcomesOf(ledger[c].id) # {}
                   /\ engine.now >= ledger[c].at + day
                   /\ RevisitsOf(ledger[c].id, day) = {}
        OBVIOUS
    <2>1. /\ p[1] \in Of("change") /\ p[2] \in HORIZONS
          /\ OutcomesOf(ledger[p[1]].id) # {}
          /\ engine.now >= ledger[p[1]].at + p[2]
          /\ RevisitsOf(ledger[p[1]].id, p[2]) = {}
        BY DEF ToRevisit, RevisitsRecorded
    <2>2. QED  BY <2>1 DEF RevisitLine
<1> HIDE DEF T
<1>5. /\ IsSeq(queue)
      /\ \A n \in DOMAIN queue : queue[n] \in T
      /\ \A m, n \in DOMAIN queue : queue[m] = queue[n] => m = n
    BY <1>3, SetToSeqHolds
<1> HIDE DEF queue
<1>6. /\ engine' \in Engine(queue) /\ engine'.at = "revisit"
      /\ UNCHANGED <<ledger, today, typed>>
    BY <1>1, PhaseTakes DEF TickWrites
<1>7. \A l \in T : l.kind = "revisit" /\ InTime(l)
    <2> SUFFICES ASSUME NEW l \in T PROVE l.kind = "revisit" /\ InTime(l)
        OBVIOUS
    <2>1. PICK c \in Of("change"), day \in HORIZONS :
              /\ l = [kind |-> "revisit", id |-> ledger[c].id, horizon |-> day, at |-> engine.now]
              /\ OutcomesOf(ledger[c].id) # {}
              /\ engine.now >= ledger[c].at + day
        BY <1>4
    <2>2. l.kind = "revisit" /\ l.id = ledger[c].id /\ l.at >= ledger[c].at + l.horizon
        BY <2>1
    <2>3. QED  BY <2>1, <2>2 DEF InTime, After
<1>8. \A i \in DOMAIN ledger, n \in DOMAIN queue : ~Same(ledger[i], queue[n])
    <2> SUFFICES ASSUME NEW i \in DOMAIN ledger, NEW l \in T, Same(ledger[i], l)
                 PROVE  FALSE
        BY <1>5
    <2>1. PICK c \in Of("change"), day \in HORIZONS :
              /\ l = [kind |-> "revisit", id |-> ledger[c].id, horizon |-> day, at |-> engine.now]
              /\ RevisitsOf(ledger[c].id, day) = {}
        BY <1>4
    <2>2. i \in RevisitsOf(ledger[c].id, day)
        BY <2>1 DEF Same, RevisitsOf, Rows, Of
    <2>3. QED  BY <2>1, <2>2
<1>9. \A m, n \in DOMAIN queue : Same(queue[m], queue[n]) => m = n
    <2> SUFFICES ASSUME NEW l \in T, NEW k \in T, Same(l, k)
                 PROVE  l = k
        BY <1>5
    <2>1. PICK c \in Of("change"), day \in HORIZONS :
              l = [kind |-> "revisit", id |-> ledger[c].id, horizon |-> day, at |-> engine.now]
        BY <1>4
    <2>2. PICK d \in Of("change"), days \in HORIZONS :
              k = [kind |-> "revisit", id |-> ledger[d].id, horizon |-> days, at |-> engine.now]
        BY <1>4
    <2>3. ledger[c].id = ledger[d].id /\ day = days
        BY <2>1, <2>2 DEF Same
    <2>4. QED  BY <2>1, <2>2, <2>3
<1>10. \A l \in ToSet(queue) :
          /\ l.kind \in TickWrites[engine'.at]
          /\ l.kind = "bet" => l.id \in Nat
          /\ l.kind = "bet_status" => l.status = "evaluated" /\ BetStatus(l.id) = "confirmed"
          /\ InTime(l)
    BY <1>5, <1>6, <1>7 DEF TickWrites, ToSet
<1>11. QED  BY <1>2, <1>5, <1>6, <1>8, <1>9, <1>10, PhaseBegins

LEMMA DraftKeeps == ASSUME BetInv, Draft PROVE BetInv'
<1>1. PICK queue : /\ Phase("revisit", "draft", queue) /\ IsSeq(queue)
                   /\ \A l \in ToSet(queue) :
                          /\ l.kind \in {"hypothesis", "observation_status", "bet"}
                          /\ l.kind = "bet" => l.id \in Nat
                   /\ used' \in Used /\ used.changes = used'.changes
    <2>1. used \in Used /\ IsSeq(ledger)
        BY DEF BetInv, BetShape, Used
    <2>2. CASE \E cites \in Cites :
                   TakeHypothesis /\ Phase("revisit", "draft", BetLines(NewHypothesis, cites, "record"))
        <3> PICK cites \in Cites :
                   TakeHypothesis /\ Phase("revisit", "draft", BetLines(NewHypothesis, cites, "record"))
            BY <2>2
        <3>1. cites \in SUBSET Known(Len(ledger)) /\ NewHypothesis \in Nat
            BY <2>1 DEF Cites, NewHypothesis, Used
        <3>2. IsFiniteSet(cites)
            BY <2>1, <3>1, KnownIsFinite, FS_Subset
        <3>3. used' \in Used /\ used.changes = used'.changes
            BY <2>1 DEF TakeHypothesis, Used
        <3> DEFINE queue == BetLines(NewHypothesis, cites, "record")
        <3>4. /\ IsSeq(queue)
              /\ \A l \in ToSet(queue) :
                     /\ l.kind \in {"hypothesis", "observation_status", "bet"}
                     /\ l.kind = "bet" => l.id \in Nat
            BY <3>1, <3>2, BetLinesHold
        <3>5. Phase("revisit", "draft", queue)
            OBVIOUS
        <3> HIDE DEF queue
        <3>6. QED  BY <3>3, <3>4, <3>5
    <2>3. CASE Phase("revisit", "draft", << >>) /\ used' = used
        BY <2>1, <2>3, EmptyIsSeq DEF ToSet
    <2>4. QED  BY <2>2, <2>3 DEF Draft
<1>2. /\ engine' \in Engine(queue) /\ engine'.at = "draft"
      /\ UNCHANGED <<ledger, today, typed>>
    BY <1>1, PhaseTakes DEF TickWrites
<1>3. \A n \in DOMAIN queue : queue[n] \in ToSet(queue)
    BY DEF ToSet
<1>4. \A n \in DOMAIN queue : ~Once(queue[n])
    BY <1>1, <1>3 DEF Once
<1>5. \A i \in DOMAIN ledger, n \in DOMAIN queue : ~Same(ledger[i], queue[n])
    BY <1>4 DEF Same
<1>6. \A m, n \in DOMAIN queue : Same(queue[m], queue[n]) => m = n
    BY <1>4 DEF Same
<1>7. \A l \in ToSet(queue) :
          /\ l.kind \in TickWrites[engine'.at]
          /\ l.kind = "bet" => l.id \in Nat
          /\ l.kind = "bet_status" => l.status = "evaluated" /\ BetStatus(l.id) = "confirmed"
          /\ InTime(l)
    BY <1>1, <1>2 DEF TickWrites, InTime
<1>8. QED  BY <1>1, <1>2, <1>5, <1>6, <1>7, PhaseBegins

-----------------------------------------------------------------------------
\* The commands of the operator.
LEMMA OperatorKeeps == ASSUME BetInv, Operator PROVE BetInv'
<1> DEFINE Right(queue) ==
               /\ IsSeq(queue)
               /\ \A l \in ToSet(queue) : CommandLine(l) /\ (l.kind = "bet" => l.id \in Nat)
               /\ \A n \in DOMAIN queue : queue[n].kind = "bet_status" =>
                      n = Len(queue) /\ Settles(queue[n])
           Plain(queue) == \A l \in ToSet(queue) : l.kind # "change"
<1>1. used \in Used /\ IsSeq(ledger)
    BY DEF BetInv, BetShape, Used
<1>2. ASSUME NEW queue, Type(queue), Right(queue), Plain(queue),
             used' \in Used, used.changes = used'.changes
      PROVE  BetInv'
    <2>1. typed' = queue /\ UNCHANGED <<ledger, today, engine>>
        BY <1>2 DEF Type
    <2>2. used.changes <= used'.changes
        BY <1>2 DEF Used
    <2>3. QED  BY <1>2, <2>1, <2>2, CommandTypes
<1>3. TakeHypothesis => used' \in Used /\ used.changes = used'.changes
    BY <1>1 DEF TakeHypothesis, Used
<1>4. \A cites \in Cites : IsFiniteSet(cites)
    BY <1>1, KnownIsFinite, FS_Subset DEF Cites
<1>5. NewHypothesis \in Nat
    BY <1>1 DEF NewHypothesis, Used
<1>6. CASE Hypothesize \/ CreateBet \/ DraftBet
    <2>1. PICK cites \in Cites, plan \in Plans :
              /\ TakeHypothesis
              /\ \/ Type(HypothesisLines(NewHypothesis, cites, plan))
                 \/ Type(BetLines(NewHypothesis, cites, plan))
        BY <1>6 DEF Hypothesize, CreateBet, DraftBet
    <2>2. PICK queue : /\ Type(queue) /\ IsSeq(queue)
                       /\ \A l \in ToSet(queue) :
                              /\ l.kind \in {"hypothesis", "observation_status", "bet"}
                              /\ l.kind = "bet" => l.id \in Nat
        BY <1>4, <1>5, <2>1, HypothesisLinesHold, BetLinesHold
    <2>3. \A n \in DOMAIN queue : queue[n] \in ToSet(queue)
        BY DEF ToSet
    <2>4. Right(queue) /\ Plain(queue)
        BY <2>2, <2>3 DEF CommandLine, CommandWrites
    <2> HIDE DEF Right, Plain
    <2>5. QED  BY <1>2, <1>3, <2>1, <2>2, <2>4
<1>7. ASSUME NEW h, NEW status
      PROVE  /\ IsSeq(Decide(h, status)) /\ Len(Decide(h, status)) \in Nat
             /\ \A l \in ToSet(Decide(h, status)) : l.kind = "hypothesis_status"
    <2>1. CASE HypothesisStatus(h) = "open"
        BY <2>1, OneLine DEF Decide, StatusLine
    <2>2. CASE HypothesisStatus(h) # "open"
        BY <2>2, EmptyIsSeq DEF Decide, ToSet
    <2>3. QED  BY <2>1, <2>2
<1>8. CASE DecideHypothesis
    <2>1. PICK h, status : Type(Decide(h, status)) /\ used' = used
        BY <1>8 DEF DecideHypothesis
    <2> DEFINE queue == Decide(h, status)
    <2>2. IsSeq(queue) /\ \A l \in ToSet(queue) : l.kind = "hypothesis_status"
        BY <1>7
    <2>3. Type(queue) /\ used' \in Used /\ used.changes = used'.changes
        BY <1>1, <2>1
    <2> HIDE DEF queue
    <2>4. \A n \in DOMAIN queue : queue[n] \in ToSet(queue)
        BY DEF ToSet
    <2>5. Right(queue) /\ Plain(queue)
        BY <2>2, <2>4 DEF CommandLine, CommandWrites
    <2> HIDE DEF Right, Plain
    <2>6. QED  BY <1>2, <2>3, <2>5
<1>9. ASSUME NEW b, NEW first, IsSeq(first), \A l \in ToSet(first) : l.kind = "hypothesis_status",
             NEW status \in {"confirmed", "declined", "learned"},
             Settles(StatusLine("bet_status", b, status))
      PROVE  /\ Right(first \o <<StatusLine("bet_status", b, status)>>)
             /\ Plain(first \o <<StatusLine("bet_status", b, status)>>)
    <2> PICK last : last = StatusLine("bet_status", b, status)
        OBVIOUS
    <2>1. last.kind = "bet_status" /\ last.status = status /\ CommandLine(last)
        BY DEF StatusLine, CommandLine, CommandWrites
    <2>2. IsSeq(<<last>>) /\ Len(<<last>>) = 1 /\ ToSet(<<last>>) = {last}
        BY OneLine
    <2> PICK queue : queue = first \o <<last>>
        OBVIOUS
    <2>3. /\ IsSeq(queue) /\ Len(first) \in Nat /\ Len(queue) = Len(first) + 1
          /\ DOMAIN queue = 1 .. (Len(first) + 1)
          /\ \A i \in 1 .. (Len(first) + 1) :
                 queue[i] = IF i <= Len(first) THEN first[i] ELSE <<last>>[i - Len(first)]
        BY <1>9, <2>2, ConcatIsSeq
    <2>4. ToSet(queue) \subseteq ToSet(first) \cup {last}
        BY <1>9, <2>2, ConcatHolds
    <2>5. \A l \in ToSet(queue) :
              CommandLine(l) /\ (l.kind = "bet" => l.id \in Nat) /\ l.kind # "change"
        BY <1>9, <2>1, <2>4 DEF CommandLine, CommandWrites
    <2>6. ASSUME NEW n \in DOMAIN queue, queue[n].kind = "bet_status"
          PROVE  n = Len(queue) /\ Settles(queue[n])
        <3>1. ~(n <= Len(first))
            <4> SUFFICES ASSUME n <= Len(first) PROVE FALSE
                OBVIOUS
            <4>1. queue[n] = first[n] /\ n \in DOMAIN first
                BY <1>9, <2>3 DEF IsSeq
            <4>2. QED  BY <1>9, <2>6, <4>1 DEF ToSet
        <3>2. n = Len(first) + 1
            BY <2>3, <3>1
        <3>3. queue[n] = <<last>>[1]
            BY <2>3, <3>2
        <3>4. QED  BY <1>9, <2>3, <3>2, <3>3
    <2>7. QED  BY <2>3, <2>5, <2>6
<1>10. CASE ConfirmBet \/ DeclineBet
    <2>1. PICK b \in Bets, word \in {"accepted", "rejected"}, status \in {"confirmed", "declined"} :
              /\ BetStatus(b) = "proposed" /\ used' = used
              /\ Type(Decide(b, word) \o <<StatusLine("bet_status", b, status)>>)
        <3>1. CASE ConfirmBet
            BY <3>1 DEF ConfirmBet, CanConfirm
        <3>2. CASE DeclineBet
            BY <3>2 DEF DeclineBet, CanDecline
        <3>3. QED  BY <1>10, <3>1, <3>2
    <2>2. Settles(StatusLine("bet_status", b, status))
        BY <2>1 DEF Settles, StatusLine
    <2> DEFINE queue == Decide(b, word) \o <<StatusLine("bet_status", b, status)>>
    <2> HIDE DEF Right, Plain
    <2>3. Right(queue) /\ Plain(queue)
        BY <1>7, <1>9, <2>2
    <2>4. Type(queue) /\ used' \in Used /\ used.changes = used'.changes
        BY <1>1, <2>1
    <2> HIDE DEF queue
    <2>5. QED  BY <1>2, <2>3, <2>4
<1>11. CASE Learn
    <2>1. PICK b : /\ BetStatus(b) \in {"evaluated", "declined", "learned"}
                   /\ used' = [used EXCEPT !.learnings = @ + 1]
                   /\ Type(<<StatusLine("bet_status", b, "learned")>>)
        BY <1>11 DEF Learn
    <2> PICK l : l = StatusLine("bet_status", b, "learned")
        OBVIOUS
    <2>2. l.kind = "bet_status" /\ l.status = "learned" /\ CommandLine(l) /\ Settles(l)
        BY <2>1 DEF Settles, StatusLine, CommandLine, CommandWrites
    <2>3. Right(<<l>>) /\ Plain(<<l>>)
        <3>1. IsSeq(<<l>>) /\ Len(<<l>>) = 1 /\ DOMAIN <<l>> = {1} /\ <<l>>[1] = l /\ ToSet(<<l>>) = {l}
            BY OneLine
        <3>2. QED  BY <2>2, <3>1
    <2>4. Type(<<l>>) /\ used' \in Used /\ used.changes = used'.changes
        BY <1>1, <2>1 DEF Used
    <2> HIDE DEF Right, Plain
    <2>5. QED  BY <1>2, <2>3, <2>4
<1>12. CASE MakeChange
    <2>1. PICK h : ShipChange(h)
        BY <1>12 DEF MakeChange
    <2> PICK l : l = [kind |-> "change", id |-> used.changes + 1, hypothesis |-> h,
                      plan |-> PlanOf(h), at |-> today]
        OBVIOUS
    <2>2. l.kind = "change" /\ l.id = used.changes + 1
        OBVIOUS
    <2>3. IsSeq(<<l>>) /\ Len(<<l>>) = 1 /\ DOMAIN <<l>> = {1} /\ <<l>>[1] = l /\ ToSet(<<l>>) = {l}
        BY OneLine
    <2>4. /\ typed' = <<l>> /\ UNCHANGED <<ledger, today, engine>>
          /\ used' = [used EXCEPT !.changes = @ + 1]
        BY <2>1 DEF ShipChange, Type
    <2>5. /\ used' \in Used /\ used.changes <= used'.changes
          /\ l.id \in 1 .. used'.changes
        BY <1>1, <2>2, <2>4 DEF Used
    <2>6. \A c \in Of("change") : ledger[c].id # l.id
        <3>1. \A c \in Of("change") : ledger[c].id \in 1 .. used.changes
            BY DEF BetInv, Numbered, Of, ToSet
        <3>2. used.changes \in Nat
            BY <1>1 DEF Used
        <3>3. QED  BY <2>2, <3>1, <3>2
    <2>7. CommandLine(l)
        BY <2>2 DEF CommandLine, CommandWrites
    <2>8. QED  BY <2>2, <2>3, <2>4, <2>5, <2>6, <2>7, CommandTypes
<1>13. QED  BY <1>6, <1>8, <1>10, <1>11, <1>12 DEF Operator

\* Every step keeps the invariant.
LEMMA BetStepKeeps == ASSUME BetInv, [BetNext]_betVars PROVE BetInv'
<1>1. /\ used \in Used /\ engine \in Engine(engine.todo) /\ IsSeq(engine.todo)
      /\ today \in Nat
    BY DEF BetInv, BetShape, Used, Engine
<1>2. ToSet(<< >>) = {} /\ DOMAIN << >> = {} /\ IsSeq(<< >>)
    BY EmptyIsSeq DEF ToSet
<1>3. IdleEngine \in Engine(<< >>) /\ IdleEngine.at = "idle"
    BY DEF IdleEngine, Engine, TickWrites
<1>4. CASE UNCHANGED betVars
    <2>1. /\ UNCHANGED <<ledger, today, typed, engine, used>> /\ used' \in Used
        BY <1>1, <1>4 DEF betVars
    <2>2. \A l \in ToSet(typed') :
               /\ CommandLine(l)
               /\ l.kind = "bet" => l.id \in Nat
               /\ l.kind = "change" =>
                      /\ l.id \in 1 .. used'.changes /\ Len(typed') = 1
                      /\ \A c \in Of("change") : ledger[c].id # l.id
        BY <2>1 DEF BetInv, BetShape, Numbered
    <2>3. \A n \in DOMAIN typed' : typed'[n].kind = "bet_status" =>
               n = Len(typed') /\ Settles(typed'[n])
        BY <2>1 DEF BetInv, Verdicts
    <2>4. IsSeq(typed') /\ used.changes <= used'.changes
        BY <1>1, <2>1 DEF BetInv, BetShape, Used
    <2>5. QED  BY <2>1, <2>2, <2>3, <2>4, CommandTypes
<1>5. CASE DayPasses
    <2>1. UNCHANGED <<ledger, typed, engine, used>> /\ today' \in Nat
        BY <1>1, <1>5 DEF DayPasses
    <2>2. BetShape'
        BY <2>1 DEF BetInv, BetShape, TickLine, CommandLine
    <2>3. Numbered' /\ OnceEach'
        BY <2>1 DEF BetInv, Numbered, OnceEach, Of
    <2>4. NotEarly'
        BY <2>1 DEF BetInv, NotEarly, InTime, After, OutcomesOf, Rows, Of
    <2>5. \A b : BetStatus(b)' = BetStatus(b)
        BY <2>1 DEF BetStatus, Rows, Of
    <2>6. Verdicts'
        BY <2>1, <2>5 DEF BetInv, Verdicts, Settles, Of
    <2>7. QED  BY <2>2, <2>3, <2>4, <2>6 DEF BetInv
<1>6. CASE CommandDies
    <2>1. typed' = << >> /\ UNCHANGED <<ledger, today, engine, used>>
        BY <1>6 DEF CommandDies
    <2>2. used' \in Used /\ used.changes <= used'.changes
        BY <1>1, <2>1 DEF Used
    <2>3. QED  BY <1>2, <2>1, <2>2, CommandTypes
<1>7. CASE EngineLosesLine
    <2>1. PICK queue : /\ engine' = [engine EXCEPT !.todo = queue] /\ engine.todo # << >>
                       /\ queue = << >> \/ queue = Tail(engine.todo)
                       /\ UNCHANGED <<ledger, today, typed, used>>
        BY <1>7 DEF EngineLosesLine
    <2>2. IsSeq(queue)
        BY <1>1, <1>2, <2>1, TailIsSeq
    <2>3. engine' \in Engine(queue) /\ engine'.at = engine.at /\ engine'.read = engine.read
        BY <1>1, <2>1 DEF Engine
    <2>4. QED  BY <2>1, <2>2, <2>3, TodoTaken
<1>8. CASE EngineDies \/ TickEnds
    <2>1. engine' = IdleEngine /\ UNCHANGED <<ledger, today, typed, used>>
        BY <1>8 DEF EngineDies, TickEnds
    <2>2. QED  BY <1>2, <1>3, <2>1, TodoTaken
<1>9. CASE Tick
    BY <1>8, <1>9, ObserveKeeps, MeasureKeeps, EvaluateKeeps, RevisitKeeps, DraftKeeps,
       TickAppendKeeps DEF Tick
<1>10. QED
    BY <1>4, <1>5, <1>6, <1>7, <1>8, <1>9, OperatorKeeps, CommandAppendKeeps DEF BetNext

\* The invariant says more than the property: one line is one line.
LEMMA OnceAndInTime == ASSUME BetInv PROVE MeasuredOnceWhenDue
<1>1. IsSeq(ledger) /\ \A kind : IsFiniteSet(Of(kind)) /\ Of(kind) \in SUBSET DOMAIN ledger
    BY KnownIsFinite DEF BetInv, BetShape, Of
<1>2. ASSUME NEW S \in SUBSET DOMAIN ledger, IsFiniteSet(S),
             \A i, j \in S : Same(ledger[i], ledger[j])
      PROVE  Cardinality(S) <= 1
    <2>1. CASE S = {}
        BY <2>1, FS_EmptySet
    <2>2. CASE S # {}
        <3>1. PICK i : i \in S
            BY <2>2
        <3>2. S = {i}
            BY <1>2, <3>1 DEF BetInv, OnceEach
        <3>3. QED  BY <3>2, FS_Singleton
    <2>3. QED  BY <2>1, <2>2
<1>3. ASSUME NEW c \in Of("change")
      PROVE  /\ Cardinality(OutcomesOf(ledger[c].id)) <= 1
             /\ \A o \in OutcomesOf(ledger[c].id) : ledger[o].at >= ledger[c].at + DAYS
             /\ \A day \in HORIZONS : Cardinality(RevisitsOf(ledger[c].id, day)) <= 1
             /\ \A r \in Rows("revisit", ledger[c].id) :
                    /\ ledger[r].at >= ledger[c].at + ledger[r].horizon
                    /\ \E o \in OutcomesOf(ledger[c].id) : o < r
    <2>1. \A l, days : l.id = ledger[c].id /\ After(l, days) => l.at >= ledger[c].at + days
        BY DEF After, BetInv, Numbered
    <2>2. \A i \in DOMAIN ledger : InTime(ledger[i])
        BY DEF BetInv, NotEarly, ToSet
    <2>3. Cardinality(OutcomesOf(ledger[c].id)) <= 1
        <3>1. OutcomesOf(ledger[c].id) \in SUBSET Of("outcome")
            BY DEF OutcomesOf, Rows
        <3>2. IsFiniteSet(OutcomesOf(ledger[c].id)) /\ OutcomesOf(ledger[c].id) \in SUBSET DOMAIN ledger
            BY <1>1, <3>1, FS_Subset
        <3>3. \A i, j \in OutcomesOf(ledger[c].id) : Same(ledger[i], ledger[j])
            BY DEF OutcomesOf, Rows, Of, Same, Once
        <3>4. QED  BY <1>2, <3>2, <3>3
    <2>4. ASSUME NEW o \in OutcomesOf(ledger[c].id)
          PROVE  ledger[o].at >= ledger[c].at + DAYS
        <3>1. o \in DOMAIN ledger /\ ledger[o].kind = "outcome" /\ ledger[o].id = ledger[c].id
            BY DEF OutcomesOf, Rows, Of
        <3>2. After(ledger[o], DAYS)
            BY <2>2, <3>1 DEF InTime
        <3>3. QED  BY <2>1, <3>1, <3>2
    <2>5. ASSUME NEW day \in HORIZONS
          PROVE  Cardinality(RevisitsOf(ledger[c].id, day)) <= 1
        <3>1. RevisitsOf(ledger[c].id, day) \in SUBSET Of("revisit")
            BY DEF RevisitsOf, Rows
        <3>2. /\ IsFiniteSet(RevisitsOf(ledger[c].id, day))
              /\ RevisitsOf(ledger[c].id, day) \in SUBSET DOMAIN ledger
            BY <1>1, <3>1, FS_Subset
        <3>3. \A i, j \in RevisitsOf(ledger[c].id, day) : Same(ledger[i], ledger[j])
            BY DEF RevisitsOf, Rows, Of, Same, Once
        <3>4. QED  BY <1>2, <3>2, <3>3
    <2>6. ASSUME NEW r \in Rows("revisit", ledger[c].id)
          PROVE  /\ ledger[r].at >= ledger[c].at + ledger[r].horizon
                 /\ \E o \in OutcomesOf(ledger[c].id) : o < r
        <3>1. r \in Of("revisit") /\ ledger[r].id = ledger[c].id
            BY DEF Rows
        <3>2. r \in DOMAIN ledger /\ ledger[r].kind = "revisit"
            BY <3>1 DEF Of
        <3>3. After(ledger[r], ledger[r].horizon)
            BY <2>2, <3>2 DEF InTime
        <3>4. \E o \in OutcomesOf(ledger[c].id) : o < r
            BY <3>1 DEF BetInv, NotEarly
        <3>5. QED  BY <2>1, <3>1, <3>3, <3>4
    <2>7. QED  BY <2>3, <2>4, <2>5, <2>6
<1>4. ASSUME NEW b \in Hypotheses
      PROVE  Cardinality({i \in Rows("bet_status", b) : ledger[i].status = "evaluated"}) <= 1
    <2> DEFINE S == {i \in Rows("bet_status", b) : ledger[i].status = "evaluated"}
    <2>1. S \in SUBSET Of("bet_status")
        BY DEF Rows
    <2>2. IsFiniteSet(S) /\ S \in SUBSET DOMAIN ledger
        BY <1>1, <2>1, FS_Subset
    <2>3. \A i, j \in S : Same(ledger[i], ledger[j])
        BY DEF Rows, Of, Same, Once
    <2> HIDE DEF S
    <2>4. Cardinality(S) <= 1
        BY <1>2, <2>2, <2>3
    <2>5. QED  BY <2>4 DEF S
<1>5. QED  BY <1>3, <1>4 DEF MeasuredOnceWhenDue

\* Whatever dies between two lines, and although each tick judges by a clock and a
\* record it read at its start, a change is measured once and not early, revisited
\* once per horizon, not early and after its outcome, and a bet is evaluated once.
THEOREM BetsAreMeasuredOnce == BetSpec => []MeasuredOnceWhenDue
<1>1. BetInv /\ [BetNext]_betVars => BetInv'
    BY BetStepKeeps
<1>2. QED  BY <1>1, InitBet, OnceAndInTime, PTL DEF BetSpec

\* A verdict is what a bet's status says from then on: no learning, no later word of a
\* command and no other line takes it back.
THEOREM VerdictsStay == BetSpec => VerdictStays
<1>1. ASSUME BetInv, [BetNext]_betVars, BetInv',
             NEW b \in Hypotheses, BetStatus(b) = "evaluated"
      PROVE  BetStatus(b)' = "evaluated"
    <2>1. CASE ledger' = ledger
        BY <1>1, <2>1 DEF BetStatus, Rows, Of
    <2>2. CASE CommandAppends \/ EngineAppends
        <3>1. PICK line : ledger' = Append(ledger, line) /\
                  (line.kind = "bet_status" /\ line.status # "learned" => BetStatus(line.id) # "evaluated")
            <4>1. CASE CommandAppends
                <5>1. Head(typed) = typed[1] /\ 1 \in DOMAIN typed /\ ledger' = Append(ledger, Head(typed))
                    BY <1>1, <4>1, TailIsSeq DEF CommandAppends, BetInv, BetShape
                <5>2. typed[1].kind = "bet_status" => Settles(typed[1])
                    BY <1>1, <5>1 DEF BetInv, Verdicts
                <5>3. QED  BY <5>1, <5>2 DEF Settles
            <4>2. CASE EngineAppends
                <5>1. Head(engine.todo) \in ToSet(engine.todo) /\ ledger' = Append(ledger, Head(engine.todo))
                    BY <1>1, <4>2, TailIsSeq DEF EngineAppends, BetInv, BetShape, ToSet
                <5>2. QED  BY <1>1, <5>1 DEF BetInv, Verdicts
            <4>3. QED  BY <2>2, <4>1, <4>2
        <3>2. BetStatus(b)' = Word(b, BetStatus(b), line)
            BY <1>1, <3>1, OneLineMore DEF BetInv, BetShape
        <3>3. QED  BY <1>1, <3>1, <3>2 DEF Word, FoldBet
    <2>3. QED
        BY <1>1, <2>1, <2>2
        DEF BetNext, betVars, Operator, Tick, Hypothesize, CreateBet, DraftBet, DecideHypothesis,
            ConfirmBet, DeclineBet, Learn, MakeChange, ShipChange, Type, CommandDies, DayPasses,
            EngineLosesLine, EngineDies, Observe, MeasureDue, EvaluateDue, RevisitDue, Draft,
            TickEnds, Phase
<1>2. BetInv /\ [BetNext]_betVars => BetInv'
    BY BetStepKeeps
<1>3. BetInv /\ BetInv' /\ [BetNext]_betVars =>
          [\A b \in Hypotheses : BetStatus(b) = "evaluated" => BetStatus(b)' = "evaluated"]_betVars
    BY <1>1
<1>4. QED  BY <1>2, <1>3, InitBet, PTL DEF BetSpec, VerdictStays
-----------------------------------------------------------------------------
\* What a line needs before place n of the record: a decision its hypothesis, a
\* change an acceptance, an outcome its change, and a verdict all of them.
Chosen(h, n) == \E r \in Rows("hypothesis", h) : r < n
Accepted(h, n) ==
    \E r \in Rows("hypothesis", h), a \in Rows("hypothesis_status", h) :
        r < a /\ a < n /\ ledger[a].status = "accepted"
Confirmed(b, n) ==
    \E k \in Rows("bet_status", b) : k < n /\ ledger[k].status = "confirmed"
Earned(l, n) ==
    /\ \E c \in ChangesOf(l.id) :
           /\ Accepted(l.id, c)
           /\ \E o \in OutcomesOf(ledger[c].id) :
                  c < o /\ o < n /\ l.support = {SupportOf(ledger[o].outcome)}
    /\ Confirmed(l.id, n)
Founded(l, n) ==
    /\ l.kind = "hypothesis_status" => l.status \in {"accepted", "rejected"}
    /\ l.kind = "hypothesis_status" => Chosen(l.id, n)
    /\ l.kind = "change" => Accepted(l.hypothesis, n)
    /\ l.kind = "outcome" => \E c \in Of("change") : c < n /\ ledger[c].id = l.id
    /\ (l.kind = "bet_status" /\ l.status = "evaluated") => Earned(l, n)

\* What a bet needs: on the record before place n, or written before it by the same
\* hands.
PlanRow(l, b) == l.kind = "hypothesis" /\ l.id = b /\ l.plan # "none"
Claims(l, b) == l.kind = "observation_status" /\ l.status = b
BetFounded(b, n) ==
    /\ \E h \in DOMAIN ledger : h < n /\ PlanRow(ledger[h], b)
    /\ \E s \in DOMAIN ledger : s < n /\ Claims(ledger[s], b)
Announced(q) ==
    \A m \in DOMAIN q : q[m].kind = "bet" =>
        /\ \/ \E h \in DOMAIN ledger : PlanRow(ledger[h], q[m].id)
           \/ \E j \in DOMAIN q : j < m /\ PlanRow(q[j], q[m].id)
        /\ \/ \E s \in DOMAIN ledger : Claims(ledger[s], q[m].id)
           \/ \E j \in DOMAIN q : j < m /\ Claims(q[j], q[m].id)

\* Every line of the record has what it needs before it, and every line that is about
\* to be written will have; and what a bet's status says, a line has said.
Grounded ==
    /\ \A i \in DOMAIN ledger : Founded(ledger[i], i)
    /\ \A i \in Of("bet") : BetFounded(ledger[i].id, i)
    /\ \A l \in ToSet(typed) \cup ToSet(engine.todo) : Founded(l, Len(ledger) + 1)
    /\ Announced(typed) /\ Announced(engine.todo)
Said(b) ==
    Folded(b, ledger) # "proposed" =>
        \E k \in Rows("bet_status", b) : ledger[k].status = Folded(b, ledger)

ChainInv == BetInv /\ Grounded /\ \A b : Said(b)
-----------------------------------------------------------------------------
\* What a line had before it, it keeps when the record grows.
LEMMA FoundedStays ==
    ASSUME IsSeq(ledger), NEW line, ledger' = Append(ledger, line),
           NEW l, NEW n \in Nat, NEW m \in Nat, n <= m, Founded(l, n)
    PROVE  Founded(l, m)'
<1>1. /\ Len(ledger) \in Nat
      /\ \A i \in 1 .. Len(ledger) : ledger'[i] = ledger[i]
      /\ \A kind : Of(kind) \subseteq 1 .. Len(ledger) /\ Of(kind) \subseteq Of(kind)'
    BY OneLineMore
<1>2. \A kind, id : Rows(kind, id) \subseteq 1 .. Len(ledger) /\ Rows(kind, id) \subseteq Rows(kind, id)'
    BY <1>1 DEF Rows
<1>3. \A i, k \in Nat : i < k => i \in Nat /\ (k <= m => i < m)
    OBVIOUS
<1>4. ASSUME NEW h, NEW j \in Nat, NEW k \in Nat, j <= k
      PROVE  /\ Chosen(h, j) => Chosen(h, k)'
             /\ Accepted(h, j) => Accepted(h, k)'
             /\ Confirmed(h, j) => Confirmed(h, k)'
    <2>1. \A i \in 1 .. Len(ledger) : i < j => i < k
        BY <1>1, <1>4
    <2>2. Chosen(h, j) => Chosen(h, k)'
        BY <1>2, <2>1 DEF Chosen
    <2>3. Accepted(h, j) => Accepted(h, k)'
        <3> SUFFICES ASSUME Accepted(h, j) PROVE Accepted(h, k)'
            OBVIOUS
        <3>1. PICK r \in Rows("hypothesis", h), a \in Rows("hypothesis_status", h) :
                  r < a /\ a < j /\ ledger[a].status = "accepted"
            BY DEF Accepted
        <3>2. a < k /\ ledger'[a].status = "accepted"
            BY <1>1, <1>2, <2>1, <3>1
        <3>3. QED  BY <1>2, <3>1, <3>2 DEF Accepted
    <2>4. Confirmed(h, j) => Confirmed(h, k)'
        BY <1>1, <1>2, <2>1 DEF Confirmed
    <2>5. QED  BY <2>2, <2>3, <2>4
<1>5. Earned(l, n) => Earned(l, m)'
    <2> SUFFICES ASSUME Earned(l, n) PROVE Earned(l, m)'
        OBVIOUS
    <2>1. PICK c \in ChangesOf(l.id) :
              /\ Accepted(l.id, c)
              /\ \E o \in OutcomesOf(ledger[c].id) :
                     c < o /\ o < n /\ l.support = {SupportOf(ledger[o].outcome)}
        BY DEF Earned
    <2> PICK id : id = ledger[c].id
        OBVIOUS
    <2>2. PICK o \in OutcomesOf(id) :
              c < o /\ o < n /\ l.support = {SupportOf(ledger[o].outcome)}
        BY <2>1
    <2>3. c \in 1 .. Len(ledger) /\ c \in ChangesOf(l.id)' /\ ledger'[c] = ledger[c]
        BY <1>1 DEF ChangesOf
    <2>4. /\ o \in 1 .. Len(ledger) /\ ledger'[o] = ledger[o]
          /\ o \in Of("outcome")' /\ ledger'[o].id = id
        BY <1>1, <1>2, <2>3 DEF OutcomesOf, Rows
    <2>5. Accepted(l.id, c)'
        BY <1>4, <2>1, <2>3
    <2>6. Confirmed(l.id, m)'
        BY <1>4 DEF Earned
    <2>7. o < m
        BY <2>2, <2>4
    <2>8. SupportOf(ledger[o].outcome)' = SupportOf(ledger[o].outcome)
        BY <2>4 DEF SupportOf
    <2>9. c \in ChangesOf(l.id)' /\ o \in Rows("outcome", id)' /\ ledger'[c].id = id
        BY <2>3, <2>4 DEF Rows
    <2>10. QED  BY <2>2, <2>3, <2>4, <2>5, <2>6, <2>7, <2>8, <2>9 DEF Earned, OutcomesOf, Rows
<1>6. l.kind = "outcome" =>
          (\E c \in Of("change") : c < m /\ ledger[c].id = l.id)'
    BY <1>1 DEF Founded
<1>7. QED  BY <1>4, <1>5, <1>6 DEF Founded

LEMMA SaidStays ==
    ASSUME IsSeq(ledger), NEW line, ledger' = Append(ledger, line), NEW b, Said(b)
    PROVE  Said(b)'
<1>1. Folded(b, ledger') = Word(b, Folded(b, ledger), line)
    BY FoldedOfAppend
<1>2. /\ Len(ledger) \in Nat /\ ledger'[Len(ledger) + 1] = line
      /\ \A i \in 1 .. Len(ledger) : ledger'[i] = ledger[i]
      /\ Of("bet_status") \subseteq 1 .. Len(ledger) /\ Of("bet_status") \subseteq Of("bet_status")'
      /\ line.kind = "bet_status" => Len(ledger) + 1 \in Of("bet_status")'
    BY OneLineMore
<1>3. CASE Folded(b, ledger') = Folded(b, ledger)
    BY <1>2, <1>3 DEF Said, Rows
<1>4. CASE Folded(b, ledger') # Folded(b, ledger)
    <2>1. line.kind = "bet_status" /\ line.id = b /\ Folded(b, ledger') = line.status
        BY <1>1, <1>4 DEF Word, FoldBet
    <2>2. Len(ledger) + 1 \in Rows("bet_status", b)'
        BY <1>2, <2>1 DEF Rows
    <2>3. QED  BY <1>2, <2>1, <2>2 DEF Said
<1>5. QED  BY <1>3, <1>4

\* Lines that need nothing, and queues of them.
LEMMA NeedsNothing ==
    ASSUME NEW q, NEW n,
           \A m \in DOMAIN q : q[m].kind \in {"observation", "observation_status", "hypothesis", "revisit"}
    PROVE  Announced(q) /\ \A m \in DOMAIN q : Founded(q[m], n)
BY DEF Announced, Founded

\* The record stays, and what is to be written is right.
LEMMA SameRecord ==
    ASSUME Grounded, UNCHANGED ledger,
           Announced(typed'), \A m \in DOMAIN typed' : Founded(typed'[m], Len(ledger) + 1),
           Announced(engine'.todo),
           \A m \in DOMAIN engine'.todo : Founded(engine'.todo[m], Len(ledger) + 1)
    PROVE  Grounded'
<1>1. \A kind : Of(kind)' = Of(kind)
    BY DEF Of
<1>2. \A l, n : Founded(l, n)' = Founded(l, n)
    BY <1>1 DEF Founded, Chosen, Accepted, Confirmed, Earned, ChangesOf, OutcomesOf, Rows, SupportOf
<1>3. QED
    BY <1>1, <1>2 DEF Grounded, BetFounded, Announced, ToSet

\* What a queue announces, while a line is appended that is not of it, and while its
\* own head is.
LEMMA StaysAnnounced ==
    ASSUME IsSeq(ledger), NEW line, ledger' = Append(ledger, line), NEW q, Announced(q)
    PROVE  Announced(q)'
<1>1. /\ Len(ledger) \in Nat /\ DOMAIN ledger \subseteq DOMAIN ledger'
      /\ \A i \in DOMAIN ledger : ledger'[i] = ledger[i]
    BY AppendIsSeq
<1>2. QED  BY <1>1 DEF Announced, PlanRow, Claims

LEMMA HeadAnnounced ==
    ASSUME IsSeq(ledger), NEW q, IsSeq(q), q # << >>, ledger' = Append(ledger, Head(q)),
           Announced(q)
    PROVE  /\ Announced(Tail(q))'
           /\ Head(q).kind = "bet" => BetFounded(Head(q).id, Len(ledger) + 1)
<1>1. /\ Len(ledger) \in Nat /\ DOMAIN ledger = 1 .. Len(ledger)
      /\ DOMAIN ledger' = 1 .. (Len(ledger) + 1)
      /\ \A i \in DOMAIN ledger : ledger'[i] = ledger[i]
      /\ ledger'[Len(ledger) + 1] = Head(q)
    BY AppendIsSeq
<1>2. /\ Len(q) \in Nat \ {0} /\ Head(q) = q[1] /\ DOMAIN q = 1 .. Len(q)
      /\ DOMAIN Tail(q) = 1 .. (Len(q) - 1)
      /\ \A i \in 1 .. (Len(q) - 1) : Tail(q)[i] = q[i + 1]
    BY TailIsSeq
<1> PICK t : t = Tail(q)
    OBVIOUS
<1>3. ASSUME NEW m \in DOMAIN t, t[m].kind = "bet"
      PROVE  /\ \/ \E h \in DOMAIN ledger' : PlanRow(ledger'[h], t[m].id)
                \/ \E j \in DOMAIN t : j < m /\ PlanRow(t[j], t[m].id)
             /\ \/ \E s \in DOMAIN ledger' : Claims(ledger'[s], t[m].id)
                \/ \E j \in DOMAIN t : j < m /\ Claims(t[j], t[m].id)
    <2>1. m + 1 \in DOMAIN q /\ q[m + 1] = t[m] /\ m \in Nat
        BY <1>2
    <2>2. \A j \in DOMAIN q : j < m + 1 =>
              \/ q[j] = ledger'[Len(ledger) + 1]
              \/ j - 1 \in DOMAIN t /\ j - 1 < m /\ t[j - 1] = q[j]
        BY <1>1, <1>2, <2>1
    <2>3. Len(ledger) + 1 \in DOMAIN ledger'
        BY <1>1
    <2>4. \/ \E h \in DOMAIN ledger : PlanRow(ledger[h], t[m].id)
          \/ \E j \in DOMAIN q : j < m + 1 /\ PlanRow(q[j], t[m].id)
        BY <1>3, <2>1 DEF Announced
    <2>5. \/ \E s \in DOMAIN ledger : Claims(ledger[s], t[m].id)
          \/ \E j \in DOMAIN q : j < m + 1 /\ Claims(q[j], t[m].id)
        BY <1>3, <2>1 DEF Announced
    <2>6. \/ \E h \in DOMAIN ledger' : PlanRow(ledger'[h], t[m].id)
          \/ \E j \in DOMAIN t : j < m /\ PlanRow(t[j], t[m].id)
        BY <1>1, <2>2, <2>3, <2>4
    <2>7. \/ \E s \in DOMAIN ledger' : Claims(ledger'[s], t[m].id)
          \/ \E j \in DOMAIN t : j < m /\ Claims(t[j], t[m].id)
        BY <1>1, <2>2, <2>3, <2>5
    <2>8. QED  BY <2>6, <2>7
<1>4. Announced(t)'
    BY <1>3 DEF Announced, PlanRow, Claims
<1>5. ASSUME Head(q).kind = "bet"
      PROVE  BetFounded(Head(q).id, Len(ledger) + 1)
    <2>1. 1 \in DOMAIN q /\ \A j \in DOMAIN q : ~(j < 1)
        BY <1>2
    <2>2. /\ \E h \in DOMAIN ledger : PlanRow(ledger[h], q[1].id)
          /\ \E s \in DOMAIN ledger : Claims(ledger[s], q[1].id)
        BY <1>2, <1>5, <2>1 DEF Announced
    <2>3. \A i \in DOMAIN ledger : i < Len(ledger) + 1
        BY <1>1
    <2>4. QED  BY <1>2, <2>2, <2>3 DEF BetFounded
<1>6. QED  BY <1>4, <1>5

\* The record with one line more, taken from the head of a queue.
LEMMA RecordGrows ==
    ASSUME Grounded, IsSeq(ledger), NEW q, IsSeq(q), q # << >>,
           ledger' = Append(ledger, Head(q)),
           Announced(q), \A m \in DOMAIN q : Founded(q[m], Len(ledger) + 1)
    PROVE  /\ (\A i \in DOMAIN ledger : Founded(ledger[i], i))'
           /\ (\A i \in Of("bet") : BetFounded(ledger[i].id, i))'
<1>1. /\ Len(ledger) \in Nat /\ DOMAIN ledger = 1 .. Len(ledger)
      /\ DOMAIN ledger' = 1 .. (Len(ledger) + 1)
      /\ \A i \in DOMAIN ledger : ledger'[i] = ledger[i]
      /\ ledger'[Len(ledger) + 1] = Head(q)
    BY AppendIsSeq
<1>2. Head(q) = q[1] /\ 1 \in DOMAIN q
    BY TailIsSeq
<1> PICK n, line : n = Len(ledger) + 1 /\ line = Head(q)
    OBVIOUS
<1>3. ASSUME NEW i \in DOMAIN ledger'
      PROVE  \E l : l = ledger'[i] /\ Founded(l, i)'
    <2>1. CASE i \in DOMAIN ledger
        <3> PICK l : l = ledger[i]
            OBVIOUS
        <3>1. Founded(l, i) /\ i \in Nat
            BY <1>1, <2>1 DEF Grounded
        <3>2. Founded(l, i)'
            BY <3>1, FoundedStays
        <3>3. QED  BY <1>1, <2>1, <3>2
    <2>2. CASE i = n
        <3>1. Founded(line, n) /\ n \in Nat
            BY <1>1, <1>2
        <3>2. Founded(line, n)'
            BY <3>1, FoundedStays
        <3>3. QED  BY <1>1, <2>2, <3>2
    <2>3. QED  BY <1>1, <2>1, <2>2
<1>4. ASSUME NEW b, NEW i \in Nat, BetFounded(b, i)
      PROVE  BetFounded(b, i)'
    BY <1>1, <1>4 DEF BetFounded, PlanRow, Claims
<1>5. ASSUME NEW i \in Of("bet")'
      PROVE  \E b : b = ledger'[i].id /\ BetFounded(b, i)'
    <2>1. i \in DOMAIN ledger' /\ ledger'[i].kind = "bet"
        BY DEF Of
    <2>2. CASE i \in DOMAIN ledger
        <3> PICK b : b = ledger[i].id
            OBVIOUS
        <3>1. i \in Of("bet") /\ i \in Nat
            BY <1>1, <2>1, <2>2 DEF Of
        <3>2. BetFounded(b, i)'
            BY <1>4, <3>1 DEF Grounded
        <3>3. QED  BY <1>1, <2>2, <3>2
    <2>3. CASE i = n
        <3> PICK b : b = line.id
            OBVIOUS
        <3>1. BetFounded(b, n) /\ n \in Nat
            BY <1>1, <2>1, <2>3, HeadAnnounced
        <3>2. BetFounded(b, n)'
            BY <1>4, <3>1
        <3>3. QED  BY <1>1, <2>3, <3>2
    <2>4. QED  BY <1>1, <2>1, <2>2, <2>3
<1>6. ASSUME NEW i \in DOMAIN ledger'
      PROVE  Founded(ledger[i], i)'
    <2> PICK l : l = ledger'[i] /\ Founded(l, i)'
        BY <1>3
    <2>1. Chosen(l.id, i)' = Chosen(ledger[i].id, i)'
        BY DEF Chosen, Rows
    <2>2. \A c : /\ Accepted(l.id, c)' = Accepted(ledger[i].id, c)'
                 /\ Accepted(l.hypothesis, c)' = Accepted(ledger[i].hypothesis, c)'
        BY DEF Accepted, Rows
    <2>3. Confirmed(l.id, i)' = Confirmed(ledger[i].id, i)'
        BY DEF Confirmed, Rows
    <2>4. ChangesOf(l.id)' = ChangesOf(ledger[i].id)'
        BY DEF ChangesOf
    <2>5. Earned(l, i)' = Earned(ledger[i], i)'
        BY <2>2, <2>3, <2>4 DEF Earned
    <2>6. QED  BY <2>1, <2>2, <2>5 DEF Founded
<1>7. ASSUME NEW i \in Of("bet")'
      PROVE  BetFounded(ledger[i].id, i)'
    <2> PICK b : b = ledger'[i].id /\ BetFounded(b, i)'
        BY <1>5
    <2>1. QED  BY DEF BetFounded, PlanRow, Claims
<1>8. QED  BY <1>6, <1>7
-----------------------------------------------------------------------------
\* A bet is written after its expectation and the claim on what it cites.
LEMMA BetIsAnnounced ==
    ASSUME NEW h \in Nat, NEW cites, IsFiniteSet(cites), cites # {}, NEW plan, plan # "none"
    PROVE  Announced(BetLines(h, cites, plan))
<1> DEFINE row == [kind |-> "hypothesis", id |-> h, plan |-> plan]
           claim == [o \in cites |-> [kind |-> "observation_status", id |-> o, status |-> h]]
           claims == {[kind |-> "observation_status", id |-> o, status |-> h] : o \in cites}
           bet == [kind |-> "bet", id |-> h]
           middle == SetToSeq(claims)
           first == <<row>> \o middle
           q == first \o <<bet>>
<1>1. IsFiniteSet(claims) /\ claims # {}
    <2>1. IsFiniteSet({claim[o] : o \in cites})
        BY FiniteImage
    <2>2. claims = {claim[o] : o \in cites}
        OBVIOUS
    <2>3. QED  BY <2>1, <2>2
<1>2. \A l \in claims : Claims(l, h) /\ l.kind # "bet"
    BY DEF Claims
<1>3. PlanRow(row, h) /\ row.kind # "bet" /\ bet.id = h
    BY DEF PlanRow
<1> HIDE DEF claims, row, bet, claim
<1>4. /\ IsSeq(middle) /\ 1 \in DOMAIN middle
      /\ \A n \in DOMAIN middle : middle[n] \in claims
    <2>1. Cardinality(claims) \in Nat /\ Cardinality(claims) # 0
        BY <1>1, FS_EmptySet, FS_CardinalityType
    <2>2. QED  BY <1>1, <2>1, SetToSeqHolds
<1> HIDE DEF middle
<1>5. /\ IsSeq(<<row>>) /\ Len(<<row>>) = 1 /\ <<row>>[1] = row
      /\ IsSeq(<<bet>>) /\ Len(<<bet>>) = 1 /\ <<bet>>[1] = bet
    BY OneLine
<1>6. Len(middle) \in Nat \ {0} /\ DOMAIN middle = 1 .. Len(middle)
    BY <1>4 DEF IsSeq
<1>7. /\ IsSeq(first) /\ Len(first) = 1 + Len(middle)
      /\ first[1] = row
      /\ \A i \in 2 .. Len(first) : first[i] \in claims
    <2>1. /\ IsSeq(first) /\ Len(first) = 1 + Len(middle)
          /\ \A i \in 1 .. (1 + Len(middle)) :
                 first[i] = IF i <= 1 THEN <<row>>[i] ELSE middle[i - 1]
        BY <1>4, <1>5, ConcatIsSeq
    <2> HIDE DEF first
    <2>2. first[1] = row
        BY <1>5, <1>6, <2>1
    <2>3. ASSUME NEW i \in 2 .. Len(first)
          PROVE  first[i] \in claims
        <3>1. i - 1 \in DOMAIN middle /\ first[i] = middle[i - 1]
            BY <1>6, <2>1
        <3>2. QED  BY <1>4, <3>1
    <2>4. QED  BY <2>1, <2>2, <2>3
<1> HIDE DEF first
<1>8. /\ DOMAIN q = 1 .. (Len(first) + 1) /\ Len(first) \in Nat
      /\ \A i \in 1 .. (Len(first) + 1) :
             q[i] = IF i <= Len(first) THEN first[i] ELSE <<bet>>[i - Len(first)]
    BY <1>5, <1>7, ConcatIsSeq
<1> HIDE DEF q
<1>9. /\ 1 \in DOMAIN q /\ 2 \in DOMAIN q
      /\ PlanRow(q[1], h) /\ Claims(q[2], h)
    <2>1. q[1] = first[1] /\ q[2] = first[2] /\ 2 \in 2 .. Len(first)
        BY <1>6, <1>7, <1>8
    <2>2. QED  BY <1>2, <1>3, <1>6, <1>7, <1>8, <2>1
<1>10. ASSUME NEW m \in DOMAIN q, q[m].kind = "bet"
       PROVE  q[m].id = h /\ 1 < m /\ 2 < m
    <2>1. CASE m <= Len(first)
        <3>1. q[m] = first[m] /\ (m = 1 \/ m \in 2 .. Len(first))
            BY <1>8, <2>1
        <3>2. q[m].kind # "bet"
            BY <1>2, <1>3, <1>7, <3>1
        <3>3. QED  BY <1>10, <3>2
    <2>2. CASE ~(m <= Len(first))
        <3>1. m = Len(first) + 1 /\ q[m] = <<bet>>[1]
            BY <1>8, <2>2
        <3>2. 2 < m /\ 1 < m
            BY <1>6, <1>7, <3>1
        <3>3. QED  BY <1>3, <1>5, <3>1, <3>2
    <2>3. QED  BY <2>1, <2>2
<1>11. Announced(q)
    BY <1>9, <1>10 DEF Announced
<1>12. BetLines(h, cites, plan) = q
    BY DEF BetLines, HypothesisLines, q, first, middle, claims, row, bet
<1>13. QED  BY <1>11, <1>12

\* The outcome that a verdict is about.
LEMMA MinIsMember ==
    ASSUME NEW S \in SUBSET Nat, S # {}
    PROVE  Min(S) \in S
<1>1. \E n \in S : \A m \in S : n <= m
    BY LeastNat
<1>2. QED  BY <1>1 DEF Min

LEMMA VerdictIsEarned ==
    ASSUME ChainInv, NEW b \in DueBets
    PROVE  Founded(EvaluatedLine(b), Len(ledger) + 1)
<1> PICK l, n : l = EvaluatedLine(b) /\ n = Len(ledger) + 1
    OBVIOUS
<1>1. /\ l.kind = "bet_status" /\ l.id = b /\ l.status = "evaluated"
      /\ l.support = {SupportOf(o) : o \in FirstOutcome(b)}
    BY DEF EvaluatedLine
<1>2. /\ IsSeq(ledger) /\ Len(ledger) \in Nat /\ DOMAIN ledger = 1 .. Len(ledger)
      /\ \A kind : Of(kind) \in SUBSET Nat
    BY KnownIsFinite DEF ChainInv, BetInv, BetShape, IsSeq
<1>3. b \in Bets /\ BetStatus(b) = "confirmed" /\ FirstOutcome(b) # {}
    BY DEF DueBets
<1> DEFINE c == Min(ChangesOf(b))
           T == OutcomesOf(ledger[c].id)
           o == Min(T)
<1>4. c \in ChangesOf(b) /\ ChangesOf(b) # {}
    <2>1. ChangesOf(b) # {}
        BY <1>3 DEF FirstOutcome
    <2>2. ChangesOf(b) \in SUBSET Nat
        BY <1>2 DEF ChangesOf
    <2>3. QED  BY <2>1, <2>2, MinIsMember
<1>5. o \in T /\ T # {}
    <2>1. T # {}
        BY <1>3 DEF FirstOutcome
    <2>2. T \in SUBSET Nat
        BY <1>2 DEF OutcomesOf, Rows
    <2> HIDE DEF T
    <2>3. QED  BY <2>1, <2>2, MinIsMember
<1>6. FirstOutcome(b) = {ledger[o].outcome}
    BY <1>4, <1>5 DEF FirstOutcome
<1> HIDE DEF c
<1>7. c \in Of("change") /\ c \in DOMAIN ledger /\ ledger[c].kind = "change" /\ ledger[c].hypothesis = b
    BY <1>4 DEF ChangesOf, Of
<1>8. o \in Of("outcome") /\ o \in DOMAIN ledger /\ ledger[o].kind = "outcome" /\ ledger[o].id = ledger[c].id
    BY <1>5 DEF OutcomesOf, Rows, Of
<1> HIDE DEF o
<1>9. Accepted(b, c)
    BY <1>7 DEF ChainInv, Grounded, Founded
<1>10. c < o
    <2>1. PICK d \in Of("change") : d < o /\ ledger[d].id = ledger[o].id
        BY <1>8 DEF ChainInv, Grounded, Founded
    <2>2. d = c
        BY <1>7, <1>8, <2>1 DEF ChainInv, BetInv, Numbered
    <2>3. QED  BY <2>1, <2>2
<1>11. l.support = {SupportOf(ledger[o].outcome)}
    BY <1>1, <1>6
<1>12. o < n
    BY <1>2, <1>8
<1>13. Confirmed(b, n)
    <2>1. Folded(b, ledger) = "confirmed"
        BY <1>3 DEF BetStatus
    <2>2. PICK k \in Rows("bet_status", b) : ledger[k].status = "confirmed"
        BY <2>1 DEF ChainInv, Said
    <2>3. k < n
        BY <1>2, <2>2 DEF Rows, Of
    <2>4. QED  BY <2>2, <2>3 DEF Confirmed
<1>14. Earned(l, n)
    BY <1>1, <1>4, <1>5, <1>9, <1>10, <1>11, <1>12, <1>13 DEF Earned
<1>15. QED  BY <1>1, <1>14 DEF Founded
-----------------------------------------------------------------------------
\* The steps.
LEMMA WithoutBets ==
    ASSUME NEW q, NEW n, \A l \in ToSet(q) : l.kind # "bet" /\ Founded(l, n)
    PROVE  Announced(q) /\ \A m \in DOMAIN q : Founded(q[m], n)
BY DEF Announced, ToSet

LEMMA DecidesOnTheChosen ==
    ASSUME NEW h, NEW status \in {"accepted", "rejected"}, NEW n, Chosen(h, n)
    PROVE  /\ IsSeq(Decide(h, status))
           /\ \A l \in ToSet(Decide(h, status)) : l.kind # "bet" /\ Founded(l, n)
<1> PICK l : l = StatusLine("hypothesis_status", h, status)
    OBVIOUS
<1>1. l.kind = "hypothesis_status" /\ l.id = h /\ l.status = status
    BY DEF StatusLine
<1>2. l.kind # "bet" /\ Founded(l, n)
    BY <1>1 DEF Founded
<1>3. Decide(h, status) = <<l>> \/ Decide(h, status) = << >>
    BY DEF Decide
<1>4. IsSeq(<<l>>) /\ ToSet(<<l>>) = {l} /\ IsSeq(<< >>) /\ ToSet(<< >>) = {}
    BY OneLine, EmptyIsSeq DEF ToSet
<1>5. QED  BY <1>2, <1>3, <1>4

LEMMA OperatorGrounds == ASSUME ChainInv, Operator PROVE Grounded'
<1> PICK n : n = Len(ledger) + 1
    OBVIOUS
<1> DEFINE Good(q) == Announced(q) /\ \A m \in DOMAIN q : Founded(q[m], n)
<1>1. /\ IsSeq(ledger) /\ Len(ledger) \in Nat /\ DOMAIN ledger = 1 .. Len(ledger)
      /\ used \in Used
    BY DEF ChainInv, BetInv, BetShape, IsSeq, Used
<1>2. \A i \in DOMAIN ledger : i < n /\ Founded(ledger[i], i)
    BY <1>1 DEF ChainInv, Grounded
<1>3. ASSUME NEW q, Type(q), Good(q)
      PROVE  Grounded'
    <2>1. typed' = q /\ UNCHANGED <<ledger, engine>>
        BY <1>3 DEF Type
    <2>2. Good(engine.todo)
        BY DEF ChainInv, Grounded, ToSet
    <2>3. QED  BY <1>3, <2>1, <2>2, SameRecord DEF ChainInv
<1>4. NewHypothesis \in Nat /\ \A cites \in Cites : IsFiniteSet(cites) /\ cites # {}
    BY <1>1, KnownIsFinite, FS_Subset DEF Cites, NewHypothesis, Used
<1>5. ASSUME NEW q, \A l \in ToSet(q) : l.kind # "bet" /\ Founded(l, n)
      PROVE  Good(q)
    BY <1>5, WithoutBets
<1>6. CASE Hypothesize
    <2> PICK cites \in Cites, plan \in Plans : Type(HypothesisLines(NewHypothesis, cites, plan))
        BY <1>6 DEF Hypothesize
    <2> PICK q : q = HypothesisLines(NewHypothesis, cites, plan)
        OBVIOUS
    <2>1. \A l \in ToSet(q) : l.kind \in {"hypothesis", "observation_status"}
        BY <1>4, HypothesisLinesHold
    <2>2. \A l \in ToSet(q) : l.kind # "bet" /\ Founded(l, n)
        BY <2>1 DEF Founded
    <2> HIDE DEF Good
    <2>3. QED  BY <1>3, <1>5, <2>2
<1>7. CASE CreateBet \/ DraftBet
    <2> PICK cites \in Cites, plan \in Plans \ {"none"} : Type(BetLines(NewHypothesis, cites, plan))
        BY <1>7 DEF CreateBet, DraftBet
    <2> PICK q : q = BetLines(NewHypothesis, cites, plan)
        OBVIOUS
    <2>1. \A l \in ToSet(q) : l.kind \in {"hypothesis", "observation_status", "bet"}
        BY <1>4, BetLinesHold
    <2>2. \A m \in DOMAIN q : Founded(q[m], n)
        BY <2>1 DEF Founded, ToSet
    <2>3. Announced(q)
        BY <1>4, BetIsAnnounced
    <2>4. QED  BY <1>3, <2>2, <2>3
<1>8. CASE DecideHypothesis
    <2> PICK i \in Of("hypothesis"), status \in {"accepted", "rejected"} :
            Type(Decide(ledger[i].id, status))
        BY <1>8 DEF DecideHypothesis
    <2> PICK h : h = ledger[i].id
        OBVIOUS
    <2>1. Chosen(h, n)
        BY <1>2 DEF Chosen, Rows, Of
    <2> HIDE DEF Good
    <2>2. QED  BY <1>3, <1>5, <2>1, DecidesOnTheChosen
<1>9. CASE ConfirmBet \/ DeclineBet
    <2> PICK b \in Bets, word \in {"accepted", "rejected"}, status \in {"confirmed", "declined"} :
            Type(Decide(b, word) \o <<StatusLine("bet_status", b, status)>>)
        BY <1>9 DEF ConfirmBet, DeclineBet
    <2> PICK first, last : first = Decide(b, word) /\ last = StatusLine("bet_status", b, status)
        OBVIOUS
    <2>1. Chosen(b, n)
        <3>1. PICK i \in Of("bet") : b = ledger[i].id
            BY DEF Bets
        <3>2. PICK h \in DOMAIN ledger : PlanRow(ledger[h], b)
            BY <3>1 DEF ChainInv, Grounded, BetFounded
        <3>3. QED  BY <1>2, <3>2 DEF Chosen, Rows, Of, PlanRow
    <2>2. last.kind = "bet_status" /\ last.status = status
        BY DEF StatusLine
    <2>3. last.kind # "bet" /\ Founded(last, n)
        BY <2>2 DEF Founded
    <2>4. IsSeq(first) /\ \A l \in ToSet(first) : l.kind # "bet" /\ Founded(l, n)
        BY <2>1, DecidesOnTheChosen
    <2>5. IsSeq(<<last>>) /\ ToSet(<<last>>) = {last}
        BY OneLine
    <2>6. \A l \in ToSet(first \o <<last>>) : l.kind # "bet" /\ Founded(l, n)
        BY <2>3, <2>4, <2>5, ConcatHolds
    <2> HIDE DEF Good
    <2>7. QED  BY <1>3, <1>5, <2>6
<1>10. CASE Learn
    <2> PICK b : Type(<<StatusLine("bet_status", b, "learned")>>)
        BY <1>10 DEF Learn
    <2> PICK l : l = StatusLine("bet_status", b, "learned")
        OBVIOUS
    <2>1. l.kind = "bet_status" /\ l.status = "learned"
        BY DEF StatusLine
    <2>2. l.kind # "bet" /\ Founded(l, n)
        BY <2>1 DEF Founded
    <2>3. ToSet(<<l>>) = {l}
        BY OneLine
    <2> HIDE DEF Good
    <2>4. QED  BY <1>3, <1>5, <2>2, <2>3
<1>11. CASE MakeChange
    <2> PICK i \in Of("hypothesis") :
            HypothesisStatus(ledger[i].id) = "accepted" /\ ShipChange(ledger[i].id)
        BY <1>11 DEF MakeChange
    <2> PICK h : h = ledger[i].id
        OBVIOUS
    <2> DEFINE S == Rows("hypothesis_status", h)
               a == Max(S)
    <2>1. S # {} /\ ledger[a].status = "accepted"
        BY DEF HypothesisStatus
    <2>2. a \in S
        <3>1. S \in SUBSET (1 .. Len(ledger))
            BY <1>1 DEF Rows, Of
        <3> HIDE DEF S
        <3>2. QED  BY <1>1, <2>1, <3>1, MaxIsMember
    <2> HIDE DEF a
    <2>3. a \in DOMAIN ledger /\ ledger[a].kind = "hypothesis_status" /\ ledger[a].id = h
        BY <2>2 DEF Rows, Of
    <2>4. Chosen(h, a) /\ a < n
        BY <1>2, <2>3 DEF Founded
    <2>5. Accepted(h, n)
        BY <2>1, <2>2, <2>4 DEF Accepted, Chosen
    <2> PICK l : l = [kind |-> "change", id |-> used.changes + 1, hypothesis |-> h,
                      plan |-> PlanOf(h), at |-> today]
        OBVIOUS
    <2>6. l.kind = "change" /\ l.hypothesis = h
        OBVIOUS
    <2>7. l.kind # "bet" /\ Founded(l, n)
        BY <2>5, <2>6 DEF Founded
    <2>8. ToSet(<<l>>) = {l}
        BY OneLine
    <2>9. Type(<<l>>)
        BY DEF ShipChange
    <2> HIDE DEF Good
    <2>10. QED  BY <1>3, <1>5, <2>7, <2>8, <2>9
<1>12. QED  BY <1>6, <1>7, <1>8, <1>9, <1>10, <1>11 DEF Operator

\* What the tick is about to write when a phase has begun.
LEMMA VerdictLines ==
    ASSUME ChainInv, EvaluateDue
    PROVE  \A l \in ToSet(engine'.todo) : \E b \in DueBets : l = EvaluatedLine(b)
<1> DEFINE order == InOrder(DueBets)
           queue == [n \in DOMAIN order |-> EvaluatedLine(order[n])]
<1>1. DueBets \in SUBSET Nat /\ IsFiniteSet(DueBets)
    <2>1. DueBets \in SUBSET Bets
        BY DEF DueBets
    <2>2. Bets \in SUBSET Nat
        BY DEF ChainInv, BetInv, Numbered, Bets, Of, ToSet
    <2>3. QED  BY <2>1, <2>2, KnownIsFinite, FS_Subset DEF ChainInv, BetInv, BetShape
<1>2. \A n \in DOMAIN order : order[n] \in DueBets
    BY <1>1, InOrderHolds
<1>3. engine' = [engine EXCEPT !.at = "evaluate", !.todo = queue]
    BY DEF EvaluateDue, Phase
<1>4. engine \in Engine(engine.todo)
    BY DEF ChainInv, BetInv, BetShape, Engine
<1> HIDE DEF order
<1>5. DOMAIN queue = DOMAIN order /\ \A n \in DOMAIN queue : queue[n] = EvaluatedLine(order[n])
    OBVIOUS
<1>6. engine'.todo = queue
    <2> HIDE DEF queue
    <2>1. QED  BY <1>3, <1>4 DEF Engine
<1> HIDE DEF queue
<1>7. QED  BY <1>2, <1>5, <1>6 DEF ToSet

LEMMA DraftLines ==
    ASSUME ChainInv, Draft
    PROVE  /\ Announced(engine'.todo)
           /\ \A l \in ToSet(engine'.todo) : l.kind \in {"hypothesis", "observation_status", "bet"}
<1>1. /\ engine \in Engine(engine.todo) /\ IsSeq(ledger) /\ used \in Used
    BY DEF ChainInv, BetInv, BetShape, Engine, Used
<1>2. ASSUME NEW q, Phase("revisit", "draft", q)
      PROVE  engine'.todo = q
    BY <1>1, <1>2 DEF Phase, Engine
<1>3. CASE Phase("revisit", "draft", << >>)
    BY <1>2, <1>3, EmptyIsSeq DEF Announced, ToSet
<1>4. CASE \E cites \in Cites : Phase("revisit", "draft", BetLines(NewHypothesis, cites, "record"))
    <2> PICK cites \in Cites : Phase("revisit", "draft", BetLines(NewHypothesis, cites, "record"))
        BY <1>4
    <2>1. NewHypothesis \in Nat /\ IsFiniteSet(cites) /\ cites # {}
        BY <1>1, KnownIsFinite, FS_Subset DEF Cites, NewHypothesis, Used
    <2>2. engine'.todo = BetLines(NewHypothesis, cites, "record")
        BY <1>2
    <2>3. QED  BY <2>1, <2>2, BetIsAnnounced, BetLinesHold
<1>5. QED  BY <1>3, <1>4 DEF Draft

LEMMA TickGrounds ==
    ASSUME ChainInv, BetInv', Observe \/ MeasureDue \/ EvaluateDue \/ RevisitDue \/ Draft
    PROVE  Grounded'
<1> PICK n : n = Len(ledger) + 1
    OBVIOUS
<1> DEFINE Good(q) == Announced(q) /\ \A m \in DOMAIN q : Founded(q[m], n)
<1>0. Len(ledger) \in Nat /\ DOMAIN ledger = 1 .. Len(ledger)
    BY DEF ChainInv, BetInv, BetShape, IsSeq
<1>1. UNCHANGED <<ledger, typed>>
    BY DEF Observe, MeasureDue, EvaluateDue, RevisitDue, Draft, Phase
<1>2. engine \in Engine(engine.todo) /\ engine' \in Engine(engine'.todo)
    BY DEF ChainInv, BetInv, BetShape, Engine
<1>3. ASSUME Good(engine'.todo)
      PROVE  Grounded'
    <2>1. Good(typed')
        BY <1>1 DEF ChainInv, Grounded, ToSet
    <2>2. QED  BY <1>1, <1>3, <2>1, SameRecord DEF ChainInv
<1>4. \A l \in ToSet(engine'.todo) : l.kind \in TickWrites[engine'.at]
    BY DEF BetInv, BetShape, TickLine
<1>5. CASE Observe \/ RevisitDue
    <2>1. engine'.at \in {"observe", "revisit"}
        <3>1. CASE Observe
            BY <3>1 DEF Observe
        <3>2. CASE RevisitDue
            <4> PICK q : Phase("evaluate", "revisit", q)
                BY <3>2 DEF RevisitDue
            <4>1. QED  BY <1>2 DEF Phase, Engine
        <3>3. QED  BY <1>5, <3>1, <3>2
    <2>2. \A l \in ToSet(engine'.todo) : l.kind \in {"observation", "revisit"}
        BY <1>4, <2>1 DEF TickWrites
    <2>3. Good(engine'.todo)
        BY <2>2, NeedsNothing DEF ToSet
    <2> HIDE DEF Good
    <2>4. QED  BY <1>3, <2>3
<1>6. CASE MeasureDue
    <2>1. engine'.at = "measure"
        BY <1>2, <1>6 DEF MeasureDue, Phase, Engine
    <2>2. ASSUME NEW l \in ToSet(engine'.todo)
          PROVE  l.kind # "bet" /\ Founded(l, n)
        <3>1. l.kind = "outcome"
            BY <1>4, <2>1 DEF TickWrites
        <3>2. PICK c \in Of("change") : ledger[c].id = l.id
            BY <1>1, <3>1 DEF BetInv, NotEarly, InTime, After, Of
        <3>3. c < n
            BY <1>0, <3>2 DEF Of
        <3>4. QED  BY <3>1, <3>2, <3>3 DEF Founded
    <2>3. Good(engine'.todo)
        BY <2>2, WithoutBets
    <2> HIDE DEF Good
    <2>4. QED  BY <1>3, <2>3
<1>7. CASE EvaluateDue
    <2>1. \A b \in DueBets : EvaluatedLine(b).kind # "bet" /\ Founded(EvaluatedLine(b), n)
        BY VerdictIsEarned DEF EvaluatedLine
    <2>2. \A l \in ToSet(engine'.todo) : l.kind # "bet" /\ Founded(l, n)
        BY <1>7, <2>1, VerdictLines
    <2>3. Good(engine'.todo)
        BY <2>2, WithoutBets
    <2> HIDE DEF Good
    <2>4. QED  BY <1>3, <2>3
<1>8. CASE Draft
    <2>1. Good(engine'.todo)
        BY <1>8, DraftLines DEF Founded, ToSet
    <2> HIDE DEF Good
    <2>2. QED  BY <1>3, <2>1
<1>9. QED  BY <1>5, <1>6, <1>7, <1>8

\* Whoever appends.
LEMMA AppendGrounds ==
    ASSUME ChainInv, CommandAppends \/ EngineAppends
    PROVE  Grounded' /\ \A b : Said(b)'
<1> PICK hand, other : \/ hand = typed /\ other = engine.todo /\ CommandAppends
                       \/ hand = engine.todo /\ other = typed /\ EngineAppends
    OBVIOUS
<1>1. /\ IsSeq(ledger) /\ Len(ledger) \in Nat /\ IsSeq(hand) /\ IsSeq(other)
      /\ engine \in Engine(engine.todo)
    BY DEF ChainInv, BetInv, BetShape, IsSeq, Engine
<1>2. hand # << >> /\ ledger' = Append(ledger, Head(hand))
    BY DEF CommandAppends, EngineAppends
<1> PICK line, rest, n : line = Head(hand) /\ rest = Tail(hand) /\ n = Len(ledger) + 1
    OBVIOUS
<1>3. Len(ledger') = n /\ n \in Nat
    BY <1>1, <1>2, AppendIsSeq
<1>4. \/ typed' = rest /\ engine'.todo = other
      \/ typed' = other /\ engine'.todo = rest
    BY <1>1 DEF CommandAppends, EngineAppends, Engine
<1>5. /\ Announced(hand) /\ Announced(other)
      /\ \A l \in ToSet(hand) \cup ToSet(other) : Founded(l, n)
      /\ \A m \in DOMAIN hand : Founded(hand[m], n)
    BY DEF ChainInv, Grounded, ToSet
<1>6. Announced(rest)' /\ Announced(other)'
    BY <1>1, <1>2, <1>5, HeadAnnounced, StaysAnnounced
<1>7. ASSUME NEW l, Founded(l, n)
      PROVE  Founded(l, n + 1)'
    BY <1>1, <1>2, <1>3, <1>7, FoundedStays
<1>8. ToSet(rest) \subseteq ToSet(hand)
    <2>1. \A m \in DOMAIN rest : m + 1 \in DOMAIN hand /\ rest[m] = hand[m + 1]
        BY <1>1, <1>2, TailIsSeq
    <2>2. QED  BY <2>1 DEF ToSet
<1>9. \A l \in ToSet(typed') \cup ToSet(engine'.todo) : Founded(l, n + 1)'
    BY <1>4, <1>5, <1>7, <1>8
<1>10. /\ (\A i \in DOMAIN ledger : Founded(ledger[i], i))'
       /\ (\A i \in Of("bet") : BetFounded(ledger[i].id, i))'
    BY <1>1, <1>2, <1>5, RecordGrows DEF ChainInv
<1>11. Announced(typed)' /\ Announced(engine.todo)'
    <2> PICK t, e : t = typed' /\ e = engine'.todo
        OBVIOUS
    <2>1. Announced(t)' /\ Announced(e)'
        BY <1>4, <1>6
    <2>2. Announced(typed)'
        BY <2>1 DEF Announced
    <2>3. Announced(engine.todo)'
        BY <2>1 DEF Announced
    <2>4. QED  BY <2>2, <2>3
<1>12. (\A l \in ToSet(typed) \cup ToSet(engine.todo) : Founded(l, Len(ledger) + 1))'
    <2> PICK m : m = n + 1 /\ m = Len(ledger') + 1
        BY <1>3
    <2>1. \A l : Founded(l, m)' = Founded(l, Len(ledger) + 1)'
        BY DEF Founded, Chosen, Accepted, Confirmed, Earned
    <2>2. QED  BY <1>9, <2>1 DEF ToSet
<1>13. \A b : Said(b)'
    BY <1>1, <1>2, SaidStays DEF ChainInv
<1>14. QED  BY <1>10, <1>11, <1>12, <1>13 DEF Grounded

\* Every step keeps the chain.
LEMMA InitChain == BetInit => ChainInv
<1> SUFFICES ASSUME BetInit PROVE ChainInv
    OBVIOUS
<1>1. ledger = << >> /\ typed = << >> /\ engine.todo = << >>
    BY DEF BetInit, IdleEngine
<1>2. IsSeq(<< >>) /\ Len(<< >>) = 0 /\ DOMAIN << >> = {} /\ ToSet(<< >>) = {}
    BY EmptyIsSeq DEF ToSet
<1>3. Grounded
    BY <1>1, <1>2 DEF Grounded, Of, Announced
<1>4. \A b : Folded(b, << >>) = "proposed"
    BY <1>2, FoldedAlong DEF StatusAlong
<1>5. \A b : Said(b)
    BY <1>1, <1>4 DEF Said
<1>6. QED  BY <1>3, <1>5, InitBet DEF ChainInv

LEMMA ChainStepKeeps == ASSUME ChainInv, [BetNext]_betVars PROVE ChainInv'
<1>1. BetInv'
    BY BetStepKeeps DEF ChainInv
<1>2. CASE ledger' = ledger
    <2>1. \A b : Said(b)'
        BY <1>2 DEF ChainInv, Said, Rows, Of
    <2>2. Grounded'
        <3>1. /\ IsSeq(engine.todo) /\ engine \in Engine(engine.todo)
              /\ \A l \in ToSet(engine.todo) : TickLine(l)
            BY DEF ChainInv, BetInv, BetShape, Engine
        <3>2. /\ Announced(typed) /\ Announced(engine.todo)
              /\ \A m \in DOMAIN typed : Founded(typed[m], Len(ledger) + 1)
              /\ \A m \in DOMAIN engine.todo : Founded(engine.todo[m], Len(ledger) + 1)
              /\ Grounded
            BY DEF ChainInv, Grounded, ToSet
        <3>3. Announced(<< >>) /\ DOMAIN << >> = {}
            BY EmptyIsSeq DEF Announced
        <3>4. CASE Operator
            BY <3>4, OperatorGrounds
        <3>5. CASE Observe \/ MeasureDue \/ EvaluateDue \/ RevisitDue \/ Draft
            BY <1>1, <3>5, TickGrounds
        <3>6. CASE CommandDies \/ DayPasses \/ UNCHANGED betVars
            <4>1. typed' \in {typed, << >>} /\ engine' = engine
                BY <3>6 DEF CommandDies, DayPasses, betVars
            <4>2. QED  BY <1>2, <3>2, <3>3, <4>1, SameRecord
        <3>7. CASE TickEnds \/ EngineDies
            <4>1. engine'.todo = << >> /\ typed' = typed
                BY <3>7 DEF TickEnds, EngineDies, IdleEngine
            <4>2. QED  BY <1>2, <3>2, <3>3, <4>1, SameRecord
        <3>8. CASE EngineLosesLine
            <4> PICK q : q = engine'.todo
                OBVIOUS
            <4>1. typed' = typed /\ engine.todo # << >>
                BY <3>8 DEF EngineLosesLine
            <4>2. q = << >> \/ (engine.at # "draft" /\ q = Tail(engine.todo))
                BY <3>1, <3>8 DEF EngineLosesLine, Engine
            <4>3. ASSUME engine.at # "draft", q = Tail(engine.todo)
                  PROVE  Announced(q) /\ \A m \in DOMAIN q : Founded(q[m], Len(ledger) + 1)
                <5>1. \A m \in DOMAIN q : m + 1 \in DOMAIN engine.todo /\ q[m] = engine.todo[m + 1]
                    BY <3>1, <4>1, <4>3, TailIsSeq
                <5>2. ASSUME NEW m \in DOMAIN engine.todo
                      PROVE  engine.todo[m].kind # "bet"
                    <6>1. TickLine(engine.todo[m])
                        BY <3>1 DEF ToSet
                    <6>2. engine.at \in DOMAIN TickWrites
                        BY <3>1 DEF Engine
                    <6>3. QED  BY <4>3, <6>1, <6>2 DEF TickLine, TickWrites
                <5>3. QED  BY <3>2, <5>1, <5>2 DEF Announced
            <4>4. Announced(q) /\ \A m \in DOMAIN q : Founded(q[m], Len(ledger) + 1)
                BY <3>3, <4>2, <4>3
            <4>5. QED  BY <1>2, <3>2, <4>1, <4>4, SameRecord
        <3>9. CASE CommandAppends \/ EngineAppends
            BY <3>9, AppendGrounds
        <3>10. QED
            BY <3>4, <3>5, <3>6, <3>7, <3>8, <3>9 DEF BetNext, Tick
    <2>3. QED  BY <1>1, <2>1, <2>2 DEF ChainInv
<1>3. CASE CommandAppends \/ EngineAppends
    BY <1>1, <1>3, AppendGrounds DEF ChainInv
<1>4. QED
    BY <1>2, <1>3
    DEF BetNext, betVars, Operator, Tick, Hypothesize, CreateBet, DraftBet, DecideHypothesis,
        ConfirmBet, DeclineBet, Learn, MakeChange, ShipChange, Type, CommandDies, DayPasses,
        EngineLosesLine, EngineDies, Observe, MeasureDue, EvaluateDue, RevisitDue, Draft,
        TickEnds, Phase

-----------------------------------------------------------------------------
\* A bet that is confirmed is on the record, and its hypothesis is accepted there, or
\* is accepted first by the same hands.
Confirms(l) == l.kind = "bet_status" /\ l.status = "confirmed"
Accepts(l, b) == l.kind = "hypothesis_status" /\ l.id = b /\ l.status = "accepted"
BetOf(l, b) == l.kind = "bet" /\ l.id = b
Agreed(b, n) ==
    /\ \E r \in DOMAIN ledger : r < n /\ BetOf(ledger[r], b)
    /\ \E a \in DOMAIN ledger : a < n /\ Accepts(ledger[a], b)
Backed(q) ==
    \A m \in DOMAIN q : Confirms(q[m]) =>
        /\ \E r \in DOMAIN ledger : BetOf(ledger[r], q[m].id)
        /\ \/ \E a \in DOMAIN ledger : Accepts(ledger[a], q[m].id)
           \/ \E j \in DOMAIN q : j < m /\ Accepts(q[j], q[m].id)
Consented ==
    /\ \A i \in DOMAIN ledger : Confirms(ledger[i]) => Agreed(ledger[i].id, i)
    /\ Backed(typed)

\* Lines that confirm nothing need no consent.
LEMMA NoneConfirms ==
    ASSUME NEW q, \A l \in ToSet(q) : ~Confirms(l)
    PROVE  Backed(q)
BY DEF Backed, ToSet

LEMMA OperatorIsBacked == ASSUME ChainInv, Operator PROVE Backed(typed')
<1>1. /\ IsSeq(ledger) /\ Len(ledger) \in Nat /\ DOMAIN ledger = 1 .. Len(ledger)
      /\ used \in Used
    BY DEF ChainInv, BetInv, BetShape, IsSeq, Used
<1>2. NewHypothesis \in Nat /\ \A cites \in Cites : IsFiniteSet(cites)
    BY <1>1, KnownIsFinite, FS_Subset DEF Cites, NewHypothesis, Used
<1>3. ASSUME NEW h, NEW status
      PROVE  /\ IsSeq(Decide(h, status))
             /\ \A l \in ToSet(Decide(h, status)) : ~Confirms(l)
    <2> PICK l : l = StatusLine("hypothesis_status", h, status)
        OBVIOUS
    <2>1. l.kind = "hypothesis_status"
        BY DEF StatusLine
    <2>2. Decide(h, status) = <<l>> \/ Decide(h, status) = << >>
        BY DEF Decide
    <2>3. IsSeq(<<l>>) /\ ToSet(<<l>>) = {l} /\ IsSeq(<< >>) /\ ToSet(<< >>) = {}
        BY OneLine, EmptyIsSeq DEF ToSet
    <2>4. QED  BY <2>1, <2>2, <2>3 DEF Confirms
<1>4. ASSUME NEW q, Type(q), \A l \in ToSet(q) : ~Confirms(l)
      PROVE  Backed(typed')
    BY <1>4, NoneConfirms DEF Type
<1>5. CASE Hypothesize \/ CreateBet \/ DraftBet
    <2>1. PICK q : /\ Type(q)
                   /\ \E cites \in Cites, plan \in Plans :
                          \/ q = HypothesisLines(NewHypothesis, cites, plan)
                          \/ q = BetLines(NewHypothesis, cites, plan)
        BY <1>5 DEF Hypothesize, CreateBet, DraftBet
    <2>2. \A l \in ToSet(q) : l.kind \in {"hypothesis", "observation_status", "bet"}
        BY <1>2, <2>1, HypothesisLinesHold, BetLinesHold
    <2>3. \A l \in ToSet(q) : ~Confirms(l)
        BY <2>2 DEF Confirms
    <2>4. QED  BY <1>4, <2>1, <2>3
<1>6. CASE DecideHypothesis
    BY <1>3, <1>4, <1>6 DEF DecideHypothesis
<1>7. CASE DeclineBet
    <2> PICK b \in Bets : Type(Decide(b, "rejected") \o <<StatusLine("bet_status", b, "declined")>>)
        BY <1>7 DEF DeclineBet
    <2> PICK first, last, q : /\ first = Decide(b, "rejected")
                              /\ last = StatusLine("bet_status", b, "declined")
                              /\ q = first \o <<last>>
        OBVIOUS
    <2>1. ~Confirms(last)
        BY DEF StatusLine, Confirms
    <2>2. IsSeq(first) /\ \A l \in ToSet(first) : ~Confirms(l)
        BY <1>3
    <2>3. IsSeq(<<last>>) /\ ToSet(<<last>>) = {last}
        BY OneLine
    <2>4. \A l \in ToSet(q) : ~Confirms(l)
        BY <2>1, <2>2, <2>3, ConcatHolds
    <2>5. QED  BY <1>4, <2>4
<1>8. CASE Learn
    <2> PICK b : Type(<<StatusLine("bet_status", b, "learned")>>)
        BY <1>8 DEF Learn
    <2> PICK l : l = StatusLine("bet_status", b, "learned")
        OBVIOUS
    <2>1. ~Confirms(l) /\ ToSet(<<l>>) = {l}
        BY OneLine DEF StatusLine, Confirms
    <2>2. QED  BY <1>4, <2>1
<1>9. CASE MakeChange
    <2> PICK h : ShipChange(h)
        BY <1>9 DEF MakeChange
    <2> PICK l : l = [kind |-> "change", id |-> used.changes + 1, hypothesis |-> h,
                      plan |-> PlanOf(h), at |-> today]
        OBVIOUS
    <2>1. Type(<<l>>)
        BY DEF ShipChange
    <2>2. l.kind = "change" /\ ToSet(<<l>>) = {l}
        BY OneLine
    <2>3. QED  BY <1>4, <2>1, <2>2 DEF Confirms
<1>10. CASE ConfirmBet
    <2> PICK b \in Bets : /\ CanConfirm(b)
                          /\ Type(Decide(b, "accepted") \o <<StatusLine("bet_status", b, "confirmed")>>)
        BY <1>10 DEF ConfirmBet
    <2> PICK first, last, q : /\ first = Decide(b, "accepted")
                              /\ last = StatusLine("bet_status", b, "confirmed")
                              /\ q = first \o <<last>>
        OBVIOUS
    <2>1. typed' = q /\ last.id = b
        BY DEF Type, StatusLine
    <2>2. \E r \in DOMAIN ledger : BetOf(ledger[r], b)
        BY DEF Bets, Of, BetOf
    <2>3. IsSeq(first) /\ \A l \in ToSet(first) : ~Confirms(l)
        BY <1>3
    <2>4. IsSeq(<<last>>) /\ Len(<<last>>) = 1 /\ <<last>>[1] = last
        BY OneLine
    <2>5. /\ Len(first) \in Nat /\ DOMAIN q = 1 .. (Len(first) + 1)
          /\ \A i \in 1 .. (Len(first) + 1) :
                 q[i] = IF i <= Len(first) THEN first[i] ELSE <<last>>[i - Len(first)]
        BY <2>3, <2>4, ConcatIsSeq
    <2>6. DOMAIN first = 1 .. Len(first)
        BY <2>3 DEF IsSeq
    <2>7. ASSUME NEW m \in DOMAIN q, Confirms(q[m])
          PROVE  m = Len(first) + 1 /\ q[m] = last
        <3>1. ~(m <= Len(first))
            <4> SUFFICES ASSUME m <= Len(first) PROVE FALSE
                OBVIOUS
            <4>1. q[m] = first[m] /\ m \in DOMAIN first
                BY <2>5, <2>6
            <4>2. QED  BY <2>3, <2>7, <4>1 DEF ToSet
        <3>2. m = Len(first) + 1
            BY <2>5, <3>1
        <3>3. q[m] = <<last>>[1]
            BY <2>5, <3>2
        <3>4. QED  BY <2>4, <3>2, <3>3
    <2>8. CASE HypothesisStatus(b) = "open"
        <3> PICK l : l = StatusLine("hypothesis_status", b, "accepted")
            OBVIOUS
        <3>1. first = <<l>> /\ Accepts(l, b)
            BY <2>8 DEF Decide, StatusLine, Accepts
        <3>2. Len(first) = 1 /\ first[1] = l
            BY <3>1, OneLine
        <3>3. 1 \in DOMAIN q /\ q[1] = l
            BY <2>5, <3>2
        <3>4. \A m \in DOMAIN q : Confirms(q[m]) => 1 < m /\ q[m].id = b
            BY <2>1, <2>7, <3>2
        <3>5. QED  BY <2>1, <2>2, <3>1, <3>3, <3>4 DEF Backed
    <2>9. CASE HypothesisStatus(b) # "open"
        <3> DEFINE S == Rows("hypothesis_status", b)
        <3>1. HypothesisStatus(b) = "accepted"
            BY <2>9 DEF CanConfirm
        <3>2. S # {} /\ ledger[Max(S)].status = "accepted"
            BY <2>9, <3>1 DEF HypothesisStatus
        <3>3. S \in SUBSET (1 .. Len(ledger))
            BY <1>1 DEF Rows, Of
        <3>4. Max(S) \in S
            <4> HIDE DEF S
            <4>1. QED  BY <1>1, <3>2, <3>3, MaxIsMember
        <3>5. \E a \in DOMAIN ledger : Accepts(ledger[a], b)
            BY <3>2, <3>4 DEF Rows, Of, Accepts
        <3>6. \A m \in DOMAIN q : Confirms(q[m]) => q[m].id = b
            BY <2>1, <2>7
        <3>7. QED  BY <2>1, <2>2, <3>5, <3>6 DEF Backed
    <2>10. QED  BY <2>8, <2>9
<1>11. QED  BY <1>5, <1>6, <1>7, <1>8, <1>9, <1>10 DEF Operator

LEMMA StaysBacked ==
    ASSUME IsSeq(ledger), NEW line, ledger' = Append(ledger, line), NEW q, Backed(q)
    PROVE  Backed(q)'
<1>1. /\ Len(ledger) \in Nat /\ DOMAIN ledger \subseteq DOMAIN ledger'
      /\ \A i \in DOMAIN ledger : ledger'[i] = ledger[i]
    BY AppendIsSeq
<1>2. QED  BY <1>1 DEF Backed, BetOf, Accepts, Confirms

LEMMA HeadIsBacked ==
    ASSUME IsSeq(ledger), NEW q, IsSeq(q), q # << >>, ledger' = Append(ledger, Head(q)),
           Backed(q)
    PROVE  /\ Backed(Tail(q))'
           /\ Confirms(Head(q)) => Agreed(Head(q).id, Len(ledger) + 1)
<1>1. /\ Len(ledger) \in Nat /\ DOMAIN ledger = 1 .. Len(ledger)
      /\ DOMAIN ledger' = 1 .. (Len(ledger) + 1)
      /\ \A i \in DOMAIN ledger : ledger'[i] = ledger[i]
      /\ ledger'[Len(ledger) + 1] = Head(q)
    BY AppendIsSeq
<1>2. /\ Len(q) \in Nat \ {0} /\ Head(q) = q[1] /\ DOMAIN q = 1 .. Len(q)
      /\ DOMAIN Tail(q) = 1 .. (Len(q) - 1)
      /\ \A i \in 1 .. (Len(q) - 1) : Tail(q)[i] = q[i + 1]
    BY TailIsSeq
<1> PICK t : t = Tail(q)
    OBVIOUS
<1>3. ASSUME NEW m \in DOMAIN t, Confirms(t[m])
      PROVE  /\ \E r \in DOMAIN ledger' : BetOf(ledger'[r], t[m].id)
             /\ \/ \E a \in DOMAIN ledger' : Accepts(ledger'[a], t[m].id)
                \/ \E j \in DOMAIN t : j < m /\ Accepts(t[j], t[m].id)
    <2>1. m + 1 \in DOMAIN q /\ q[m + 1] = t[m] /\ m \in Nat
        BY <1>2
    <2>2. \A j \in DOMAIN q : j < m + 1 =>
              \/ q[j] = ledger'[Len(ledger) + 1]
              \/ j - 1 \in DOMAIN t /\ j - 1 < m /\ t[j - 1] = q[j]
        BY <1>1, <1>2, <2>1
    <2>3. Len(ledger) + 1 \in DOMAIN ledger'
        BY <1>1
    <2>4. \E r \in DOMAIN ledger : BetOf(ledger[r], t[m].id)
        BY <1>3, <2>1 DEF Backed
    <2>5. \/ \E a \in DOMAIN ledger : Accepts(ledger[a], t[m].id)
          \/ \E j \in DOMAIN q : j < m + 1 /\ Accepts(q[j], t[m].id)
        BY <1>3, <2>1 DEF Backed
    <2>6. \E r \in DOMAIN ledger' : BetOf(ledger'[r], t[m].id)
        BY <1>1, <2>4
    <2>7. \/ \E a \in DOMAIN ledger' : Accepts(ledger'[a], t[m].id)
          \/ \E j \in DOMAIN t : j < m /\ Accepts(t[j], t[m].id)
        <3>1. CASE \E a \in DOMAIN ledger : Accepts(ledger[a], t[m].id)
            BY <1>1, <3>1
        <3>2. CASE \E j \in DOMAIN q : j < m + 1 /\ Accepts(q[j], t[m].id)
            BY <2>2, <2>3, <3>2
        <3>3. QED  BY <2>5, <3>1, <3>2
    <2>8. QED  BY <2>6, <2>7
<1>4. Backed(t)'
    BY <1>3 DEF Backed, BetOf, Accepts, Confirms
<1>5. ASSUME Confirms(Head(q))
      PROVE  Agreed(Head(q).id, Len(ledger) + 1)
    <2>1. 1 \in DOMAIN q /\ \A j \in DOMAIN q : ~(j < 1)
        BY <1>2
    <2>2. /\ \E r \in DOMAIN ledger : BetOf(ledger[r], q[1].id)
          /\ \E a \in DOMAIN ledger : Accepts(ledger[a], q[1].id)
        BY <1>2, <1>5, <2>1 DEF Backed
    <2>3. \A i \in DOMAIN ledger : i < Len(ledger) + 1
        BY <1>1
    <2>4. QED  BY <1>2, <2>2, <2>3 DEF Agreed
<1>6. QED  BY <1>4, <1>5

\* Every step keeps the consent.
LEMMA ConsentStays ==
    ASSUME ChainInv, Consented, [BetNext]_betVars
    PROVE  Consented'
<1>1. /\ IsSeq(ledger) /\ Len(ledger) \in Nat /\ DOMAIN ledger = 1 .. Len(ledger)
      /\ IsSeq(typed) /\ IsSeq(engine.todo)
    BY DEF ChainInv, BetInv, BetShape, IsSeq
<1>2. Backed(<< >>)
    BY EmptyIsSeq DEF Backed
<1>3. ASSUME UNCHANGED ledger, Backed(typed')
      PROVE  Consented'
    BY <1>3 DEF Consented, Agreed, Backed, BetOf, Accepts, Confirms
<1>4. CASE Operator
    <2>1. UNCHANGED ledger
        BY <1>4 DEF Operator, Hypothesize, CreateBet, DraftBet, DecideHypothesis, ConfirmBet,
            DeclineBet, Learn, MakeChange, ShipChange, Type
    <2>2. QED  BY <1>3, <1>4, <2>1, OperatorIsBacked
<1>5. ASSUME NEW line, ledger' = Append(ledger, line), Backed(typed)',
             Confirms(line) => Agreed(line.id, Len(ledger) + 1)
      PROVE  Consented'
    <2>1. /\ DOMAIN ledger' = 1 .. (Len(ledger) + 1)
          /\ \A i \in DOMAIN ledger : ledger'[i] = ledger[i]
          /\ ledger'[Len(ledger) + 1] = line
        BY <1>1, <1>5, AppendIsSeq
    <2>2. ASSUME NEW i \in DOMAIN ledger', Confirms(ledger'[i])
          PROVE  /\ \E r \in DOMAIN ledger' : r < i /\ BetOf(ledger'[r], ledger'[i].id)
                 /\ \E a \in DOMAIN ledger' : a < i /\ Accepts(ledger'[a], ledger'[i].id)
        <3>1. Agreed(ledger'[i].id, i)
            <4>1. CASE i \in DOMAIN ledger
                BY <2>1, <2>2, <4>1 DEF Consented
            <4>2. CASE i = Len(ledger) + 1
                BY <1>5, <2>1, <2>2, <4>2
            <4>3. QED  BY <1>1, <2>1, <4>1, <4>2
        <3>2. DOMAIN ledger \subseteq DOMAIN ledger'
            BY <1>1, <2>1
        <3>3. QED  BY <2>1, <3>1, <3>2 DEF Agreed
    <2>3. (\A i \in DOMAIN ledger : Confirms(ledger[i]) => Agreed(ledger[i].id, i))'
        BY <2>2 DEF Agreed, BetOf, Accepts, Confirms
    <2>4. QED  BY <1>5, <2>3 DEF Consented, Backed, BetOf, Accepts, Confirms
<1>6. CASE CommandAppends
    <2>1. typed # << >> /\ ledger' = Append(ledger, Head(typed)) /\ typed' = Tail(typed)
        BY <1>6 DEF CommandAppends
    <2> PICK t : t = Tail(typed)
        OBVIOUS
    <2>2. Backed(t)' /\ (Confirms(Head(typed)) => Agreed(Head(typed).id, Len(ledger) + 1))
        BY <1>1, <2>1, HeadIsBacked DEF Consented
    <2>3. Backed(typed)'
        BY <2>1, <2>2 DEF Backed
    <2>4. QED  BY <1>5, <2>1, <2>2, <2>3
<1>7. CASE EngineAppends
    <2> PICK line : line = Head(engine.todo)
        OBVIOUS
    <2>1. engine.todo # << >> /\ ledger' = Append(ledger, line) /\ typed' = typed
        BY <1>7 DEF EngineAppends
    <2>2. ~Confirms(line)
        <3>1. line \in ToSet(engine.todo)
            BY <1>1, <2>1, TailIsSeq DEF ToSet
        <3>2. QED  BY <3>1 DEF ChainInv, BetInv, BetShape, TickLine, Confirms
    <2> PICK t : t = typed
        OBVIOUS
    <2>3. Backed(t)'
        BY <1>1, <2>1, StaysBacked DEF Consented
    <2>4. Backed(typed)'
        BY <2>1, <2>3 DEF Backed
    <2>5. QED  BY <1>5, <2>1, <2>2, <2>4
<1>8. CASE UNCHANGED ledger /\ typed' \in {typed, << >>}
    BY <1>2, <1>3, <1>8 DEF Consented
<1>9. QED
    BY <1>4, <1>6, <1>7, <1>8
    DEF BetNext, betVars, Tick, CommandDies, DayPasses, EngineLosesLine, EngineDies, Observe,
        MeasureDue, EvaluateDue, RevisitDue, Draft, TickEnds, Phase

LEMMA ChainIsThere == ASSUME ChainInv, Consented PROVE BetHasItsChain
<1>1. /\ IsSeq(ledger) /\ Len(ledger) \in Nat /\ DOMAIN ledger = 1 .. Len(ledger)
      /\ \A i \in DOMAIN ledger : Founded(ledger[i], i)
    BY DEF ChainInv, BetInv, BetShape, IsSeq, Grounded
<1>2. ASSUME NEW i \in Of("bet")
      PROVE  \E h \in Rows("hypothesis", ledger[i].id) :
                 /\ h < i /\ ledger[h].plan # "none"
                 /\ \E s \in Of("observation_status") : s < i /\ ledger[s].status = ledger[i].id
    BY DEF ChainInv, Grounded, BetFounded, PlanRow, Claims, Rows, Of
<1>3. ASSUME NEW b \in Bets, BetStatus(b) = "proposed"
      PROVE  CanConfirm(b) \/ CanDecline(b)
    <2> DEFINE S == Rows("hypothesis_status", b)
    <2>1. CASE S = {}
        BY <1>3, <2>1 DEF CanConfirm, CanDecline, HypothesisStatus
    <2>2. CASE S # {}
        <3>1. S \in SUBSET (1 .. Len(ledger))
            BY <1>1 DEF Rows, Of
        <3>2. Max(S) \in S
            <4> HIDE DEF S
            <4>1. QED  BY <1>1, <2>2, <3>1, MaxIsMember
        <3>3. ledger[Max(S)].status \in {"accepted", "rejected"}
            BY <1>1, <3>2 DEF Rows, Of, Founded
        <3>4. HypothesisStatus(b) = ledger[Max(S)].status
            BY <2>2 DEF HypothesisStatus
        <3>5. QED  BY <1>3, <3>3, <3>4 DEF CanConfirm, CanDecline
    <2>3. QED  BY <2>1, <2>2
<1>4. ASSUME NEW i \in Of("bet_status"), ledger[i].status = "evaluated"
      PROVE  \E b : /\ b = ledger[i].id
                    /\ \E h \in Rows("hypothesis", b), a \in Rows("hypothesis_status", b) :
                           /\ h < a /\ ledger[a].status = "accepted"
                           /\ \E c \in ChangesOf(b) : \E o \in OutcomesOf(ledger[c].id) :
                                  /\ a < c /\ c < o /\ o < i
                                  /\ ledger[i].support = {SupportOf(ledger[o].outcome)}
                           /\ \E r \in Rows("bet", b), k \in Rows("bet_status", b) :
                                  /\ h < r /\ r < k /\ a < k /\ k < i
                                  /\ ledger[k].status = "confirmed"
    <2> PICK b : b = ledger[i].id
        OBVIOUS
    <2>1. Earned(ledger[i], i)
        BY <1>1, <1>4 DEF Founded, Of
    <2>2. PICK c \in ChangesOf(b) :
              /\ Accepted(b, c)
              /\ \E o \in OutcomesOf(ledger[c].id) :
                     c < o /\ o < i /\ ledger[i].support = {SupportOf(ledger[o].outcome)}
        BY <2>1 DEF Earned
    <2>3. PICK k \in Rows("bet_status", b) : k < i /\ ledger[k].status = "confirmed"
        BY <2>1 DEF Earned, Confirmed
    <2>4. Agreed(b, k) /\ k \in DOMAIN ledger
        BY <2>3 DEF Consented, Rows, Of, Confirms
    <2>5. PICK r \in DOMAIN ledger : r < k /\ BetOf(ledger[r], b)
        BY <2>4 DEF Agreed
    <2>6. PICK x \in DOMAIN ledger : x < k /\ Accepts(ledger[x], b)
        BY <2>4 DEF Agreed
    <2>7. PICK y \in DOMAIN ledger : y < c /\ Accepts(ledger[y], b)
        BY <2>2 DEF Accepted, Accepts, Rows, Of
    <2>8. c \in Nat /\ k \in Nat /\ r \in Nat /\ x \in Nat /\ y \in Nat
        BY <1>1, <2>2, <2>4 DEF ChangesOf, Of
    <2> DEFINE S == Rows("hypothesis", b)
    <2>9. S \in SUBSET Nat /\ S # {}
        <3>1. r \in Of("bet") /\ ledger[r].id = b
            BY <2>5 DEF BetOf, Of
        <3>2. BetFounded(b, r)
            BY <3>1 DEF ChainInv, Grounded
        <3>3. QED  BY <1>1, <3>2 DEF BetFounded, PlanRow, Rows, Of
    <2>10. PICK h \in S : \A j \in S : h <= j
        <3> HIDE DEF S
        <3>1. QED  BY <2>9, LeastNat
    <2>11. h \in Nat
        BY <2>9
    <2>12. PICK a \in {x, y} : a <= x /\ a <= y
        BY <2>8
    <2>13. a \in DOMAIN ledger /\ Accepts(ledger[a], b) /\ a < k /\ a < c
        BY <2>6, <2>7, <2>8, <2>12
    <2>14. h < a
        <3>1. Chosen(b, a)
            BY <1>1, <2>13 DEF Founded, Accepts
        <3>2. PICK j \in S : j < a
            BY <3>1 DEF Chosen
        <3>3. QED  BY <1>1, <2>9, <2>10, <2>13, <3>2
    <2>15. h < r
        <3>1. r \in Of("bet") /\ ledger[r].id = b
            BY <2>5 DEF BetOf, Of
        <3>2. BetFounded(b, r)
            BY <3>1 DEF ChainInv, Grounded
        <3>3. PICK j \in S : j < r
            BY <3>2 DEF BetFounded, PlanRow, Rows, Of
        <3>4. QED  BY <1>1, <2>9, <2>10, <3>3
    <2>16. a \in Rows("hypothesis_status", b) /\ ledger[a].status = "accepted" /\ r \in Rows("bet", b)
        BY <2>5, <2>13 DEF Accepts, BetOf, Rows, Of
    <2> HIDE DEF S
    <2>17. h \in Rows("hypothesis", b)
        BY DEF S
    <2>18. QED  BY <2>2, <2>3, <2>5, <2>13, <2>14, <2>15, <2>16, <2>17
<1>5. VerdictIsTheOutcomes
    BY <1>4 DEF VerdictIsTheOutcomes
<1>6. QED  BY <1>2, <1>3, <1>5 DEF BetHasItsChain

\* Through commands that die between two of their lines and ticks that lose some: a bet
\* on the record has its expectation and its claim there; one that awaits its
\* confirmation can be confirmed or declined; and a verdict is that of an outcome which
\* follows its change, the change an accepted hypothesis, and comes after the bet was
\* confirmed, which follows the bet and that acceptance.
THEOREM BetsHaveTheirChain == BetSpec => []BetHasItsChain
<1>1. BetInit => Consented
    BY EmptyIsSeq DEF BetInit, Consented, Backed
<1>2. ChainInv /\ Consented /\ [BetNext]_betVars => (ChainInv /\ Consented)'
    BY ChainStepKeeps, ConsentStays
<1>3. ChainInv /\ Consented => BetHasItsChain
    BY ChainIsThere
<1>4. QED  BY <1>1, <1>2, <1>3, InitChain, PTL DEF BetSpec

-----------------------------------------------------------------------------
\* What keeps the index derived: whatever a reader is about to make it of is a beginning
\* of the record still, for the record only grows.
ReadingType == \A r \in Reader : DOMAIN reading[r] = {"at", "seen"} /\ reading[r].seen \in Seq(Line)
IndexShape ==
    /\ DOMAIN index = {"made", "counted"} /\ index.made \in Seq(Line)
    /\ Begins(index.made, lines) /\ index.counted \subseteq {Len(index.made)}
IndexInv ==
    /\ lines \in Seq(Line) /\ tail # "no_newline"
    /\ IndexShape
    /\ DOMAIN reading = Reader /\ ReadingType
    /\ \A r \in Reader : reading[r].at \in {"read", "due"} => Begins(reading[r].seen, lines)
    /\ RankedByItsText

LEMMA BeginsItself == ASSUME NEW s \in Seq(Line) PROVE Begins(s, s) /\ Begins(<< >>, s) /\ << >> \in Seq(Line)
BY DEF Begins

\* The rows, in whichever order they come, pair each text with its own vector.
LEMMA PairedByIndex ==
    ASSUME NEW texts \in Seq(Line), NEW rows \in EmbeddingRows(texts), NEW i \in DOMAIN texts
    PROVE  InIndexOrder(rows)[i] = texts[i]
<1>1. DOMAIN texts = 1 .. Len(texts) /\ Len(texts) \in Nat
    OBVIOUS
<1> DEFINE D == 1 .. Len(texts)
<1>2. IsFiniteSet(D) /\ Cardinality(D) = Len(texts)
    <2>1. ASSUME NEW n \in Nat PROVE IsFiniteSet(1 .. n) /\ Cardinality(1 .. n) = n
        BY FS_Interval
    <2>2. QED  BY <1>1, <2>1
<1>3. PICK order \in SetToSeqs(D) :
         rows = [k \in D |-> [index |-> order[k], embedding |-> texts[order[k]]]]
    BY <1>1 DEF EmbeddingRows
<1>4. order \in [D -> D] /\ \A k, j \in D : k # j => order[k] # order[j]
    BY <1>2, <1>3 DEF SetToSeqs
<1>5. order \in Injection(D, D)
    BY <1>4 DEF Injection, IsInjective
<1>6. order \in Surjection(D, D)
    BY <1>2, <1>5, FS_Injection
<1> HIDE DEF D
<1>7. DOMAIN rows = D /\ \A k \in D : rows[k].index = order[k] /\ rows[k].embedding = texts[order[k]]
    BY <1>3
<1>8. i \in D
    BY <1>1 DEF D
<1>9. PICK k \in D : order[k] = i
    BY <1>6, <1>8 DEF Surjection
<1>10. \E row \in Range(rows) : row.index = i
    BY <1>7, <1>9 DEF Range
<1>11. PICK row : row = CHOOSE one \in Range(rows) : one.index = i
    OBVIOUS
<1>12. row \in Range(rows) /\ row.index = i
    BY <1>10, <1>11
<1>13. row.embedding = texts[i]
    BY <1>7, <1>12 DEF Range
<1>14. InIndexOrder(rows)[i] = row.embedding
    BY <1>7, <1>8, <1>11 DEF InIndexOrder
<1>15. QED  BY <1>13, <1>14

LEMMA DueIsLines ==
    ASSUME IndexInv, NEW due \in SetToSeqs(Unembedded)
    PROVE  due \in Seq(Line)
<1>1. index.made \in Seq(Line)
    BY DEF IndexInv, IndexShape
<1>2. Unembedded \subseteq Range(index.made) /\ Range(index.made) \subseteq Line
    BY <1>1 DEF Unembedded, Range
<1>3. DOMAIN index.made = 1 .. Len(index.made) /\ Len(index.made) \in Nat
    BY <1>1
<1>4. IsFiniteSet(DOMAIN index.made)
    BY <1>3, FS_Interval
<1>5. IsFiniteSet(Range(index.made))
    BY <1>4, FiniteImage DEF Range
<1>6. Cardinality(Unembedded) \in Nat
    BY <1>2, <1>5, FS_Subset, FS_CardinalityType
<1>7. due \in [1 .. Cardinality(Unembedded) -> Unembedded]
    BY DEF SetToSeqs
<1>8. due \in [1 .. Cardinality(Unembedded) -> Line]
    BY <1>2, <1>7
<1>9. QED  BY <1>6, <1>8, SeqDef

\* A reader's step changes nothing of another's reading.
LEMMA OneReads ==
    ASSUME IndexInv, NEW r \in Reader, NEW at, NEW seen \in Seq(Line),
           reading' = [reading EXCEPT ![r] = [at |-> at, seen |-> seen]],
           UNCHANGED <<lines, tail>>, IndexShape', RankedByItsText',
           at \in {"read", "due"} => Begins(seen, lines)
    PROVE  IndexInv'
<1>1. /\ DOMAIN reading' = Reader /\ reading'[r] = [at |-> at, seen |-> seen]
      /\ \A q \in Reader \ {r} : reading'[q] = reading[q]
    BY DEF IndexInv
<1>2. ReadingType'
    BY <1>1 DEF IndexInv, ReadingType
<1>3. \A q \in Reader : reading'[q].at \in {"read", "due"} => Begins(reading'[q].seen, lines)
    BY <1>1 DEF IndexInv
<1>4. QED  BY <1>1, <1>2, <1>3 DEF IndexInv

LEMMA TurnsOne ==
    ASSUME IndexInv, NEW r \in Reader, NEW at, Turns(r, at)
    PROVE  reading' = [reading EXCEPT ![r] = [at |-> at, seen |-> reading[r].seen]]
<1>1. DOMAIN reading[r] = {"at", "seen"} /\ DOMAIN reading = Reader
    BY DEF IndexInv, ReadingType
<1>2. [reading[r] EXCEPT !.at = at] = [at |-> at, seen |-> reading[r].seen]
    BY <1>1
<1>3. QED  BY <1>2 DEF Turns

LEMMA IndexKeeps ==
    ASSUME NewlineWithItsLine, IndexInv, IndexNext
    PROVE  IndexInv'
<1>1. lines \in Seq(Line) /\ index.made \in Seq(Line) /\ << >> \in Seq(Line)
      /\ \A r \in Reader : reading[r].seen \in Seq(Line)
    BY DEF IndexInv, IndexShape, ReadingType
<1>2. ASSUME UNCHANGED <<lines, tail, index, vectors>>
      PROVE  IndexShape' /\ RankedByItsText' /\ UNCHANGED <<lines, tail>>
    BY <1>2 DEF IndexInv, IndexShape, RankedByItsText
<1>3. NotReading = [at |-> "idle", seen |-> << >>] /\ "idle" \notin {"read", "due"}
    BY DEF NotReading
<1>4. CASE EntryAppended
    <2>1. PICK l \in Line : WriteLine(l) \/ WritePart(l)
        BY <1>4 DEF EntryAppended
    <2>2. lines' \in {lines, Append(lines, l)} /\ tail' # "no_newline"
        BY <2>1 DEF WriteLine, WritePart, Kept, IndexInv, NewlineWithItsLine
    <2>3. lines' \in Seq(Line)
        BY <1>1, <2>2
    <2>4. \A s \in Seq(Line) : Begins(s, lines) => Begins(s, lines')
        BY <1>1, <2>2, BeginsAppend
    <2>5. UNCHANGED <<index, vectors, reading>>
        BY <1>4 DEF EntryAppended
    <2>6. IndexShape'
        BY <1>1, <2>4, <2>5 DEF IndexInv, IndexShape
    <2>7. \A r \in Reader : reading'[r].at \in {"read", "due"} => Begins(reading'[r].seen, lines')
        BY <1>1, <2>4, <2>5 DEF IndexInv
    <2>8. QED  BY <2>2, <2>3, <2>5, <2>6, <2>7 DEF IndexInv, ReadingType, RankedByItsText
<1>5. CASE DeleteIndex
    <2>1. index' = [made |-> << >>, counted |-> {}] /\ vectors' = {} /\ UNCHANGED <<lines, tail, reading>>
        BY <1>5 DEF DeleteIndex, NoIndex
    <2>2. IndexShape' /\ RankedByItsText'
        BY <1>1, <2>1, BeginsItself DEF IndexShape, RankedByItsText
    <2>3. QED  BY <2>1, <2>2 DEF IndexInv, ReadingType
<1>6. ASSUME NEW r \in Reader, ReadAll(r) PROVE IndexInv'
    BY <1>1, <1>2, <1>6, BeginsItself, OneReads DEF ReadAll
<1>7. ASSUME NEW r \in Reader, ReadNothing(r) PROVE IndexInv'
    BY <1>1, <1>2, <1>7, BeginsItself, OneReads DEF ReadNothing
<1>8. ASSUME NEW r \in Reader, CheckIsDue(r) PROVE IndexInv'
    <2>1. reading[r].at = "read" /\ UNCHANGED <<lines, tail, index, vectors>>
          /\ Begins(reading[r].seen, lines)
        BY <1>8 DEF CheckIsDue, IndexInv
    <2>2. CASE Turns(r, "due")
        BY <1>1, <1>2, <2>1, <2>2, TurnsOne, OneReads
    <2>3. CASE Rests(r)
        BY <1>1, <1>2, <1>3, <2>1, <2>3, OneReads DEF Rests
    <2>4. QED  BY <1>8, <2>2, <2>3 DEF CheckIsDue
<1>9. ASSUME NEW r \in Reader, Rebuild(r) PROVE IndexInv'
    <2>1. /\ index' = [made |-> reading[r].seen, counted |-> {Len(reading[r].seen)}]
          /\ UNCHANGED <<lines, tail, vectors>> /\ Begins(reading[r].seen, lines)
        BY <1>9 DEF Rebuild, IndexInv
    <2>2. IndexShape' /\ RankedByItsText'
        BY <1>1, <2>1 DEF IndexInv, IndexShape, RankedByItsText
    <2>3. CASE Turns(r, "rebuilt")
        BY <1>1, <2>1, <2>2, <2>3, TurnsOne, OneReads
    <2>4. CASE Rests(r)
        BY <1>1, <1>3, <2>1, <2>2, <2>4, OneReads DEF Rests
    <2>5. QED  BY <1>9, <2>3, <2>4 DEF Rebuild
<1>10. ASSUME NEW r \in Reader, RebuildFails(r) PROVE IndexInv'
    BY <1>1, <1>2, <1>3, <1>10, OneReads DEF RebuildFails, Rests
<1>11. ASSUME NEW r \in Reader, AskForVectors(r) PROVE IndexInv'
    <2>1. UNCHANGED <<lines, tail, index, vectors>>
        BY <1>11 DEF AskForVectors
    <2>2. ASSUME NEW due \in SetToSeqs(Unembedded),
                 reading' = [reading EXCEPT ![r] = [at |-> "asked", seen |-> due]]
          PROVE  IndexInv'
        <3>1. due \in Seq(Line) /\ "asked" \notin {"read", "due"}
            BY DueIsLines
        <3>2. QED  BY <1>2, <2>1, <2>2, <3>1, OneReads
    <2>3. CASE Rests(r)
        BY <1>1, <1>2, <1>3, <2>1, <2>3, OneReads DEF Rests
    <2>4. QED  BY <1>11, <2>2, <2>3 DEF AskForVectors
<1>12. ASSUME NEW r \in Reader, PutVectors(r) PROVE IndexInv'
    <2>1. UNCHANGED <<lines, tail, index>> /\ Rests(r)
        BY <1>12 DEF PutVectors
    <2> DEFINE Paired(rows, put) ==
                     {[keptBy |-> reading[r].seen[i], of |-> InIndexOrder(rows)[i]] : i \in put}
    <2>3. PICK rows \in EmbeddingRows(reading[r].seen), put \in SUBSET DOMAIN reading[r].seen :
             vectors' = {v \in vectors : \A n \in Paired(rows, put) : n.keptBy # v.keptBy} \cup Paired(rows, put)
        BY <1>12 DEF PutVectors
    <2>4. \A i \in put : InIndexOrder(rows)[i] = reading[r].seen[i]
        BY <1>1, PairedByIndex
    <2>5. \A v \in Paired(rows, put) : v.of = v.keptBy
        BY <2>4
    <2> HIDE DEF Paired
    <2>6. RankedByItsText'
        BY <2>3, <2>5 DEF IndexInv, RankedByItsText
    <2>7. IndexShape'
        BY <2>1 DEF IndexInv, IndexShape
    <2>8. QED  BY <1>1, <1>3, <2>1, <2>6, <2>7, OneReads DEF Rests
<1>13. QED  BY <1>4, <1>5, <1>6, <1>7, <1>8, <1>9, <1>10, <1>11, <1>12 DEF IndexNext

\* Whichever of two rebuilds commits last, of whatever read, and whatever fails or is
\* deleted: the index is of a beginning of the record, of as many lines as it says, and a
\* text is searched by its own vector, in whichever order an endpoint answers.
THEOREM IndexStaysDerived == NewlineWithItsLine => (IndexSpec => [](IndexIsBeginning /\ RankedByItsText))
<1> SUFFICES ASSUME NewlineWithItsLine PROVE IndexSpec => [](IndexIsBeginning /\ RankedByItsText)
    OBVIOUS
<1>1. IndexInit => IndexInv
    <2> SUFFICES ASSUME IndexInit PROVE IndexInv
        OBVIOUS
    <2>1. << >> \in Seq(Line) /\ Begins(<< >>, << >>)
        BY DEF Begins
    <2>2. QED  BY <2>1 DEF IndexInit, NewFile, IndexInv, IndexShape, ReadingType, RankedByItsText, NoIndex, NotReading
<1>2. IndexInv /\ [IndexNext]_indexVars => IndexInv'
    <2>1. IndexInv /\ UNCHANGED indexVars => IndexInv'
        BY DEF indexVars, IndexInv, IndexShape, ReadingType, RankedByItsText
    <2>2. QED  BY <2>1, IndexKeeps
<1>3. IndexInv => IndexIsBeginning /\ RankedByItsText
    BY BeginsIsPrefix DEF IndexInv, IndexShape, IndexIsBeginning
<1>4. QED  BY <1>1, <1>2, <1>3, PTL DEF IndexSpec

-----------------------------------------------------------------------------
\* What a setter is, and the files it may be at.
SetupFile == Brought \cup {"entry"}
SetterField == {"at", "command", "told", "plan", "since", "todo", "file", "held"}
Entry == [team : Nat, mounts : Nat]
SetterType(r) ==
    /\ DOMAIN setter[r] = SetterField
    /\ setter[r].at \in {"idle", "asking", "applying", "writing", "cut", "ended"}
    /\ setter[r].plan \subseteq SetupFile /\ setter[r].todo \subseteq SetupFile
    /\ setter[r].at \in {"writing", "cut"} => setter[r].file \in SetupFile
    /\ setter[r].held \in Entry
    /\ setter[r].since \in Nat /\ setter[r].since <= edited.entry
    /\ setter[r].at = "idle" => setter[r].plan = {}
DiskType ==
    /\ DOMAIN disk = SetupFile \cup {"settings"} /\ disk.entry \in Entry
    /\ \A f \in Brought : disk[f] \in {"absent", "empty", "whole", "edited"}
EditedType == edited.entry \in Nat /\ edited.files \subseteq Brought /\ DOMAIN edited = {"files", "entry"}
SetupTypes ==
    /\ DOMAIN setter = Setter /\ \A r \in Setter : SetterType(r)
    /\ DiskType /\ EditedType

\* What is so of a file at which no two met and of which no write was cut in two.  One at
\* a time holds it, and it is as it was when that one looked at it, or cut; the team's
\* work in it is there; and a run that planned to bring it has still to, or it is there.
Pending(r) == IF setter[r].at = "asking" THEN setter[r].plan ELSE setter[r].todo
CutAt(r, f) == setter[r].at = "cut" /\ setter[r].file = f
OneHolds(f) == \A p, q \in Setter : Holds(p, f) /\ Holds(q, f) => p = q
AsLookedAt(r, f) ==
    LET s == setter[r] IN
    /\ (s.at = "writing" /\ s.file = f) =>
           IF f = "entry" THEN s.held = disk.entry /\ disk.entry.mounts = 0 ELSE Absent(f)
    /\ CutAt(r, f) =>
           IF f = "entry" THEN disk.entry = Cut /\ s.held.mounts = 0 /\ s.held.team = edited.entry
           ELSE disk[f] = "empty"
WorkIsThere(f) ==
    IF f = "entry"
    THEN /\ disk.entry.mounts <= 1
         /\ disk.entry.team = edited.entry \/ \E r \in Setter : CutAt(r, f)
    ELSE /\ f \in edited.files => disk[f] = "edited"
         /\ disk[f] = "empty" => \E r \in Setter : CutAt(r, f)
DealtWith(r, f) ==
    Working(r) =>
        IF f = "entry"
        THEN (project.framework = "express" /\ ~Mounted(disk.entry)) =>
                 "entry" \in Pending(r) \/ setter[r].since < edited.entry
        ELSE f \in setter[r].plan => f \in Pending(r) \/ disk[f] \in {"whole", "edited"}
Fine(f) ==
    /\ OneHolds(f) /\ WorkIsThere(f)
    /\ \A r \in Setter : AsLookedAt(r, f) /\ DealtWith(r, f)
\* A file that Drums brings does not go away; nor is a daemon set to ship by anyone else.
StillMissing(r) == Working(r) => Missing(setter[r].command) \ {"entry"} \subseteq Pending(r)
SaidSo ==
    /\ \A r \in Setter : setter[r].told = "verified" => tested
    /\ disk.settings.mode = "auto" => "config" \in edited.files
SetupInv ==
    /\ SetupTypes /\ SaidSo
    /\ \A r \in Setter : StillMissing(r)
    /\ \A f \in SetupFile : f \notin met => Fine(f)

\* What a step changes of the setter that takes it, and of no other.
Alone(r) ==
    /\ DOMAIN setter' = Setter /\ DOMAIN setter'[r] = SetterField
    /\ \A q \in Setter \ {r} : setter'[q] = setter[q]

LEMMA Became ==
    ASSUME SetupTypes, NEW r \in Setter, NEW fields, DOMAIN fields \subseteq SetterField, Becomes(r, fields)
    PROVE  /\ Alone(r)
           /\ \A x \in SetterField : setter'[r][x] = IF x \in DOMAIN fields THEN fields[x] ELSE setter[r][x]
<1>1. DOMAIN setter[r] = SetterField /\ DOMAIN setter = Setter
    BY DEF SetupTypes, SetterType
<1>2. QED  BY <1>1 DEF Becomes, Alone

LEMMA Told ==
    ASSUME SetupTypes, NEW r \in Setter, NEW what, Tells(r, what), UNCHANGED edited
    PROVE  /\ Alone(r) /\ SetterType(r)'
           /\ setter'[r].at = "ended" /\ setter'[r].told = what
           /\ setter'[r].command = setter[r].command
<1>1. DOMAIN setter = Setter /\ edited.entry \in Nat
    BY DEF SetupTypes, EditedType
<1>2. setter'[r] = AtRest(setter[r].command, "ended", what)
    BY <1>1 DEF Tells
<1>3. Alone(r) /\ setter'[r].held = Cut /\ setter'[r].since = 0
    BY <1>1, <1>2 DEF Tells, Alone, AtRest, SetterField
<1>4. Cut \in Entry
    BY DEF Cut, Entry
<1>5. SetterType(r)'
    BY <1>1, <1>2, <1>3, <1>4 DEF SetterType, AtRest, Alone
<1>6. QED  BY <1>2, <1>3, <1>5 DEF AtRest

\* Its types are enough.
LEMMA TypesOfOne ==
    ASSUME SetupTypes, NEW r \in Setter, Alone(r), SetterType(r)', DiskType', EditedType',
           edited.entry <= edited'.entry
    PROVE  SetupTypes'
<1>1. \A q \in Setter \ {r} : SetterType(q)'
    BY DEF SetupTypes, Alone, SetterType, EditedType
<1>2. QED  BY <1>1 DEF SetupTypes, Alone

LEMMA NothingEdited ==
    ASSUME SetupTypes, NEW r \in Setter, Alone(r), SetterType(r)', UNCHANGED edited, DiskType'
    PROVE  SetupTypes'
<1>1. EditedType' /\ edited.entry <= edited'.entry
    BY DEF SetupTypes, EditedType
<1>2. QED  BY <1>1, TypesOfOne

LEMMA DiskStays == ASSUME SetupTypes, UNCHANGED disk PROVE DiskType'
BY DEF SetupTypes, DiskType

\* A step of r that leaves a file as it is, and is at no half of a write to it.
LEMMA FileStays ==
    ASSUME NEW f \in SetupFile, Fine(f), NEW r \in Setter, Alone(r), UNCHANGED <<edited, project>>,
           disk'[f] = disk[f], ~CutAt(r, f), ~CutAt(r, f)',
           Holds(r, f)' => \A q \in Setter \ {r} : ~Holds(q, f),
           AsLookedAt(r, f)', DealtWith(r, f)'
    PROVE  Fine(f)'
<1>1. \A q \in Setter \ {r} : setter'[q] = setter[q]
    BY DEF Alone
<1>2. OneHolds(f)'
    BY <1>1 DEF Fine, OneHolds, Holds
<1>3. WorkIsThere(f)'
    BY <1>1 DEF Fine, WorkIsThere, CutAt
<1>4. \A q \in Setter \ {r} : AsLookedAt(q, f)' /\ DealtWith(q, f)'
    BY <1>1 DEF Fine, AsLookedAt, DealtWith, Working, Pending, Absent, Mounted, CutAt
<1>5. QED  BY <1>2, <1>3, <1>4 DEF Fine

\* Who has not got further with a file still has it to do.
LEMMA StillToDo ==
    ASSUME NEW f \in SetupFile, Fine(f), NEW r \in Setter, UNCHANGED <<edited, project>>, disk'[f] = disk[f],
           Working(r), setter'[r].plan = setter[r].plan, setter'[r].since = setter[r].since,
           f \in Pending(r) => f \in Pending(r)'
    PROVE  DealtWith(r, f)'
BY DEF Fine, DealtWith, Mounted

LEMMA AtRestIsFine ==
    ASSUME NEW r \in Setter, setter'[r].at = "ended", NEW f
    PROVE  ~Holds(r, f)' /\ ~CutAt(r, f)' /\ AsLookedAt(r, f)' /\ DealtWith(r, f)' /\ StillMissing(r)'
BY DEF Holds, CutAt, AsLookedAt, DealtWith, StillMissing, Working

\* What is missing is missing to everyone, and no more than before.
LEMMA OthersStillMiss ==
    ASSUME SetupInv, NEW r \in Setter, Alone(r), UNCHANGED project,
           \A f \in Brought : Absent(f)' => Absent(f)
    PROVE  \A q \in Setter \ {r} : StillMissing(q)'
<1>1. \A q \in Setter \ {r} : setter'[q] = setter[q] /\ StillMissing(q)
    BY DEF Alone, SetupInv
<1>2. QED  BY <1>1 DEF StillMissing, Working, Pending, Missing, Brought

LEMMA NextFileIsOne ==
    ASSUME NEW todo \in SUBSET SetupFile, todo # {}
    PROVE  NextFile(todo) \in todo
BY DEF NextFile, SetupFile, Brought

\* A run that ends without having touched a file, unless it leaves one cut.
LEMMA EndingKeeps ==
    ASSUME SetupInv, NEW r \in Setter, Alone(r), SetterType(r)', setter'[r].at = "ended",
           UNCHANGED <<disk, edited, project>>, SaidSo', met \subseteq met',
           \A f \in SetupFile : CutAt(r, f) => f \in met'
    PROVE  SetupInv'
<1>1. SetupTypes
    BY DEF SetupInv
<1>2. SetupTypes'
    BY <1>1, DiskStays, NothingEdited
<1>3. \A q \in Setter : StillMissing(q)'
    BY AtRestIsFine, OthersStillMiss DEF Absent
<1>4. ASSUME NEW f \in SetupFile, f \notin met' PROVE Fine(f)'
    <2>1. Fine(f) /\ ~CutAt(r, f) /\ disk'[f] = disk[f]
        BY <1>4 DEF SetupInv
    <2>2. ~Holds(r, f)' /\ ~CutAt(r, f)' /\ AsLookedAt(r, f)' /\ DealtWith(r, f)'
        BY AtRestIsFine
    <2>3. QED  BY <2>1, <2>2, FileStays
<1>5. QED  BY <1>2, <1>3, <1>4 DEF SetupInv

\* No one says "verified" but after its event was recorded, and no one but the team
\* edits the config.
LEMMA NothingSaid ==
    ASSUME SaidSo, NEW r \in Setter, Alone(r), setter'[r].told \in {setter[r].told, "why it stopped", "nothing to do"},
           UNCHANGED <<edited, tested>>, disk'.settings \in {disk.settings, Empty, Starter}
    PROVE  SaidSo'
<1>1. Empty.mode # "auto" /\ Starter.mode # "auto"
    BY DEF Empty, Starter
<1>2. \A q \in Setter : setter'[q].told = "verified" => setter[q].told = "verified"
    BY DEF Alone
<1>3. QED  BY <1>1, <1>2 DEF SaidSo

LEMMA SetsOutDoes ==
    ASSUME SetupTypes, NEW r \in Setter, SetsOut(r)
    PROVE  /\ Alone(r) /\ SetterType(r)' /\ UNCHANGED <<disk, edited, project, met, tested>>
           /\ setter[r].at = "idle" /\ setter'[r].command = setter[r].command
           /\ \/ setter'[r].at = "ended" /\ setter'[r].told = "why it stopped"
              \/ setter'[r].at = "ended" /\ setter'[r].told = "nothing to do"
                 /\ Missing(setter[r].command) = {}
              \/ /\ setter'[r].at = "asking" /\ setter'[r].plan = Missing(setter[r].command)
                 /\ setter'[r].told = setter[r].told
<1>1. setter[r].at = "idle" /\ UNCHANGED <<disk, edited, project, met, tested>>
    BY DEF SetsOut
<1>2. CASE Tells(r, "why it stopped")
    BY <1>1, <1>2, Told
<1>3. CASE Tells(r, "nothing to do") /\ Missing(setter[r].command) = {}
    BY <1>1, <1>3, Told
<1>4. CASE Becomes(r, [at |-> "asking", plan |-> Missing(setter[r].command), since |-> edited.entry])
    <2> DEFINE fields == [at |-> "asking", plan |-> Missing(setter[r].command), since |-> edited.entry]
    <2>1. DOMAIN fields = {"at", "plan", "since"} /\ fields["at"] = "asking"
          /\ fields["plan"] = Missing(setter[r].command) /\ fields["since"] = edited.entry
        OBVIOUS
    <2> HIDE DEF fields
    <2>2. Alone(r)
          /\ \A x \in SetterField : setter'[r][x] = IF x \in DOMAIN fields THEN fields[x] ELSE setter[r][x]
        BY <1>4, <2>1, Became DEF SetterField, fields
    <2>3. /\ setter'[r].at = "asking" /\ setter'[r].plan = Missing(setter[r].command)
          /\ setter'[r].since = edited.entry
          /\ \A x \in {"command", "told", "todo", "file", "held"} : setter'[r][x] = setter[r][x]
        BY <2>1, <2>2 DEF SetterField
    <2>4. setter'[r].plan \subseteq SetupFile
        BY <2>3 DEF Missing, SetupFile, Brought
    <2>5. SetterType(r)'
        BY <1>1, <2>2, <2>3, <2>4 DEF Alone, SetterType, SetupTypes, EditedType
    <2>6. QED  BY <1>1, <2>2, <2>3, <2>5
<1>5. QED  BY <1>2, <1>3, <1>4 DEF SetsOut, Stops

LEMMA SetsOutKeeps ==
    ASSUME SetupInv, NEW r \in Setter, SetsOut(r)
    PROVE  SetupInv'
<1>1. SetupTypes
    BY DEF SetupInv
<1>2. /\ Alone(r) /\ SetterType(r)' /\ UNCHANGED <<disk, edited, project, met, tested>>
      /\ setter[r].at = "idle" /\ setter'[r].command = setter[r].command
      /\ setter'[r].told \in {setter[r].told, "why it stopped", "nothing to do"}
      /\ \/ setter'[r].at = "ended"
         \/ setter'[r].at = "asking" /\ setter'[r].plan = Missing(setter[r].command)
    BY <1>1, SetsOutDoes
<1>3. SaidSo'
    BY <1>2, NothingSaid DEF SetupInv
<1>4. CASE setter'[r].at = "ended"
    BY <1>2, <1>3, <1>4, EndingKeeps DEF CutAt
<1>5. CASE setter'[r].at = "asking" /\ setter'[r].plan = Missing(setter[r].command)
    <2>1. SetupTypes'
        BY <1>1, <1>2, DiskStays, NothingEdited
    <2>2. Pending(r)' = Missing(setter[r].command) /\ Missing(setter[r].command)' = Missing(setter[r].command)
        BY <1>2, <1>5 DEF Pending, Missing, Absent, Mounted
    <2>3. \A q \in Setter : StillMissing(q)'
        <3>1. StillMissing(r)'
            BY <1>2, <2>2 DEF StillMissing
        <3>2. QED  BY <1>2, <3>1, OthersStillMiss DEF Absent
    <2>4. ASSUME NEW f \in SetupFile, f \notin met' PROVE Fine(f)'
        <3>1. Fine(f) /\ disk'[f] = disk[f]
            BY <1>2, <2>4 DEF SetupInv
        <3>2. ~Holds(r, f)' /\ ~CutAt(r, f) /\ ~CutAt(r, f)' /\ AsLookedAt(r, f)'
            BY <1>2, <1>5 DEF Holds, CutAt, AsLookedAt
        <3>3. DealtWith(r, f)'
            <4>1. (project'.framework = "express" /\ ~Mounted(disk'.entry)) =>
                      "entry" \in Missing(setter[r].command)
                BY <1>2 DEF Missing, Mounted
            <4>2. QED  BY <1>5, <2>2, <4>1 DEF DealtWith
        <3>4. QED  BY <1>2, <3>1, <3>2, <3>3, FileStays
    <2>5. QED  BY <1>3, <2>1, <2>3, <2>4 DEF SetupInv
<1>6. QED  BY <1>2, <1>4, <1>5

\* A step of a run at work that touches no file: it may come to hold one.
LEMMA MovesOn ==
    ASSUME SetupInv, NEW r \in Setter, Alone(r), SetterType(r)', UNCHANGED <<disk, edited, project>>, SaidSo',
           met \subseteq met', setter[r].at \in {"asking", "applying"}, setter'[r].at \in {"applying", "writing"},
           setter'[r].command = setter[r].command, setter'[r].plan = setter[r].plan,
           setter'[r].since = setter[r].since,
           \A f \in SetupFile : f \in Pending(r) => f \in Pending(r)' \/ (f \notin met' => DealtWith(r, f)'),
           Pending(r) \ {f \in SetupFile : f = "entry" \/ ~Absent(f)} \subseteq Pending(r)',
           \A f \in SetupFile \ met' : Holds(r, f)' =>
               AsLookedAt(r, f)' /\ \A q \in Setter \ {r} : ~Holds(q, f)
    PROVE  SetupInv'
<1>1. SetupTypes
    BY DEF SetupInv
<1>2. SetupTypes'
    BY <1>1, DiskStays, NothingEdited
<1>3. \A q \in Setter : StillMissing(q)'
    <2>1. StillMissing(r) /\ Working(r) /\ Missing(setter[r].command)' = Missing(setter[r].command)
        BY DEF SetupInv, Working, Missing, Absent, Mounted
    <2>2. \A f \in Missing(setter[r].command) \ {"entry"} : Absent(f) /\ f \in SetupFile
        BY DEF Missing, SetupFile, Brought
    <2>3. StillMissing(r)'
        BY <2>1, <2>2 DEF StillMissing
    <2>4. QED  BY <2>3, OthersStillMiss DEF Absent
<1>4. ASSUME NEW f \in SetupFile, f \notin met' PROVE Fine(f)'
    <2>1. Fine(f) /\ disk'[f] = disk[f]
        BY <1>4 DEF SetupInv
    <2>2. ~CutAt(r, f) /\ ~CutAt(r, f)' /\ Working(r)
        BY DEF CutAt, Working
    <2>3. AsLookedAt(r, f)' /\ (Holds(r, f)' => \A q \in Setter \ {r} : ~Holds(q, f))
        <3>1. CASE Holds(r, f)'
            BY <1>4, <3>1
        <3>2. CASE ~Holds(r, f)'
            BY <3>2 DEF AsLookedAt, Holds, CutAt
        <3>3. QED  BY <3>1, <3>2
    <2>4. DealtWith(r, f)'
        <3>1. CASE f \in Pending(r) => f \in Pending(r)'
            BY <2>1, <2>2, <3>1, StillToDo
        <3>2. CASE ~(f \in Pending(r) => f \in Pending(r)')
            BY <1>4, <3>2
        <3>3. QED  BY <3>1, <3>2
    <2>5. QED  BY <2>1, <2>2, <2>3, <2>4, FileStays
<1>5. QED  BY <1>2, <1>3, <1>4 DEF SetupInv

LEMMA AnswersKeeps ==
    ASSUME SetupInv, NEW r \in Setter, Answers(r)
    PROVE  SetupInv' /\ (setter'[r].told \in {setter[r].told, "why it stopped"}) /\ Alone(r)
<1>1. SetupTypes /\ setter[r].at = "asking" /\ UNCHANGED <<disk, edited, project, met, tested>>
    BY DEF SetupInv, Answers
<1>2. CASE Stops(r)
    <2>1. Alone(r) /\ SetterType(r)' /\ setter'[r].at = "ended" /\ setter'[r].told = "why it stopped"
        BY <1>1, <1>2, Told DEF Stops
    <2>2. SaidSo'
        BY <1>1, <2>1, NothingSaid DEF SetupInv
    <2>3. QED  BY <1>1, <2>1, <2>2, EndingKeeps DEF CutAt
<1>3. CASE Becomes(r, [at |-> "applying", todo |-> setter[r].plan])
    <2> DEFINE fields == [at |-> "applying", todo |-> setter[r].plan]
    <2>1. DOMAIN fields = {"at", "todo"} /\ fields["at"] = "applying" /\ fields["todo"] = setter[r].plan
        OBVIOUS
    <2> HIDE DEF fields
    <2>2. Alone(r)
          /\ \A x \in SetterField : setter'[r][x] = IF x \in DOMAIN fields THEN fields[x] ELSE setter[r][x]
        BY <1>1, <1>3, <2>1, Became DEF SetterField, fields
    <2>3. /\ setter'[r].at = "applying" /\ setter'[r].todo = setter[r].plan
          /\ \A x \in {"command", "told", "plan", "since", "file", "held"} : setter'[r][x] = setter[r][x]
        BY <2>1, <2>2 DEF SetterField
    <2>4. SetterType(r)'
        BY <1>1, <2>2, <2>3 DEF Alone, SetterType, SetupTypes
    <2>5. Pending(r)' = Pending(r) /\ \A f : ~Holds(r, f)'
        BY <1>1, <2>3 DEF Pending, Holds
    <2>6. SaidSo'
        BY <1>1, <2>2, <2>3, NothingSaid DEF SetupInv
    <2>7. SetupInv'
        BY <1>1, <2>2, <2>3, <2>4, <2>5, <2>6, MovesOn
    <2>8. QED  BY <2>2, <2>3, <2>7
<1>4. QED  BY <1>2, <1>3 DEF Answers

LEMMA LooksAtKeeps ==
    ASSUME SetupInv, NEW r \in Setter, LooksAt(r)
    PROVE  SetupInv' /\ (setter'[r].told \in {setter[r].told, "why it stopped"}) /\ Alone(r)
<1>1. SetupTypes /\ setter[r].at = "applying" /\ UNCHANGED <<disk, edited, project, tested>>
    BY DEF SetupInv, LooksAt
<1>2. setter[r].todo \subseteq SetupFile /\ setter[r].todo # {}
    BY <1>1 DEF SetupTypes, SetterType, LooksAt
<1>3. PICK f : f = NextFile(setter[r].todo)
    OBVIOUS
<1>4. f \in setter[r].todo /\ f \in SetupFile
    BY <1>2, <1>3, NextFileIsOne
<1>5. met \subseteq met' /\ (f \notin met' => (f \notin met /\ \A q \in Setter \ {r} : ~Holds(q, f)))
    BY <1>3 DEF LooksAt
<1>6. CASE Stops(r)
    <2>1. Alone(r) /\ SetterType(r)' /\ setter'[r].at = "ended" /\ setter'[r].told = "why it stopped"
        BY <1>1, <1>6, Told DEF Stops
    <2>2. SaidSo'
        BY <1>1, <2>1, NothingSaid DEF SetupInv
    <2>3. QED  BY <1>1, <1>5, <2>1, <2>2, EndingKeeps DEF CutAt
<1>7. CASE IsThereNow(f) /\ f # "config" /\ Becomes(r, [todo |-> setter[r].todo \ {f}])
    <2> DEFINE fields == [todo |-> setter[r].todo \ {f}]
    <2>1. DOMAIN fields = {"todo"} /\ fields["todo"] = setter[r].todo \ {f}
        OBVIOUS
    <2> HIDE DEF fields
    <2>2. Alone(r)
          /\ \A x \in SetterField : setter'[r][x] = IF x \in DOMAIN fields THEN fields[x] ELSE setter[r][x]
        BY <1>1, <1>7, <2>1, Became DEF SetterField, fields
    <2>3. /\ setter'[r].todo = setter[r].todo \ {f}
          /\ \A x \in {"at", "command", "told", "plan", "since", "file", "held"} : setter'[r][x] = setter[r][x]
        BY <2>1, <2>2 DEF SetterField
    <2>4. SetterType(r)'
        BY <1>1, <1>2, <2>2, <2>3 DEF Alone, SetterType, SetupTypes
    <2>5. Pending(r) = setter[r].todo /\ Pending(r)' = setter[r].todo \ {f} /\ \A g : ~Holds(r, g)'
        BY <1>1, <2>3 DEF Pending, Holds
    <2>6. f = "entry" \/ ~Absent(f)
        BY <1>7 DEF IsThereNow
    <2>7. ASSUME f \notin met' PROVE DealtWith(r, f)'
        <3>1. CASE f = "entry"
            BY <1>1, <1>7, <3>1 DEF DealtWith, IsThereNow, Mounted
        <3>2. CASE f # "entry"
            <4>1. f \in Brought /\ disk[f] # "absent"
                BY <1>4, <2>6, <3>2 DEF Absent, SetupFile
            <4>2. ASSUME disk[f] = "empty" PROVE FALSE
                <5>1. PICK q \in Setter : CutAt(q, f)
                    BY <1>4, <1>5, <2>7, <3>2, <4>2 DEF SetupInv, Fine, WorkIsThere
                <5>2. QED  BY <1>1, <1>5, <2>7, <5>1 DEF Holds, CutAt
            <4>3. disk[f] \in {"whole", "edited"}
                BY <1>1, <4>1, <4>2 DEF SetupTypes, DiskType
            <4>4. QED  BY <1>1, <3>2, <4>3 DEF DealtWith
        <3>3. QED  BY <3>1, <3>2
    <2>8. SaidSo'
        BY <1>1, <2>2, <2>3, NothingSaid DEF SetupInv
    <2>9. Pending(r) \ {g \in SetupFile : g = "entry" \/ ~Absent(g)} \subseteq Pending(r)'
        BY <1>4, <2>5, <2>6
    <2>10. \A g \in SetupFile : g \in Pending(r) => g \in Pending(r)' \/ (g \notin met' => DealtWith(r, g)')
        BY <2>5, <2>7
    <2>11. SetupInv'
        BY <1>1, <1>5, <2>2, <2>3, <2>4, <2>5, <2>8, <2>9, <2>10, MovesOn
    <2>12. QED  BY <2>2, <2>3, <2>11
<1>8. CASE ~IsThereNow(f) /\ Becomes(r, [at |-> "writing", file |-> f, held |-> disk.entry])
    <2> DEFINE fields == [at |-> "writing", file |-> f, held |-> disk.entry]
    <2>1. DOMAIN fields = {"at", "file", "held"} /\ fields["at"] = "writing"
          /\ fields["file"] = f /\ fields["held"] = disk.entry
        OBVIOUS
    <2> HIDE DEF fields
    <2>2. Alone(r)
          /\ \A x \in SetterField : setter'[r][x] = IF x \in DOMAIN fields THEN fields[x] ELSE setter[r][x]
        BY <1>1, <1>8, <2>1, Became DEF SetterField, fields
    <2>3. /\ setter'[r].at = "writing" /\ setter'[r].file = f /\ setter'[r].held = disk.entry
          /\ \A x \in {"command", "told", "plan", "since", "todo"} : setter'[r][x] = setter[r][x]
        BY <2>1, <2>2 DEF SetterField
    <2>4. SetterType(r)'
        BY <1>1, <1>4, <2>2, <2>3 DEF Alone, SetterType, SetupTypes, DiskType
    <2>5. Pending(r)' = Pending(r)
        BY <1>1, <2>3 DEF Pending
    <2>6. f = "entry" => disk.entry.mounts = 0
        BY <1>1, <1>8 DEF IsThereNow, Mounted, SetupTypes, DiskType, Entry
    <2>7. AsLookedAt(r, f)'
        BY <1>1, <1>8, <2>3, <2>6 DEF AsLookedAt, IsThereNow, Absent, CutAt
    <2>8. \A g \in SetupFile \ met' : Holds(r, g)' => AsLookedAt(r, g)' /\ \A q \in Setter \ {r} : ~Holds(q, g)
        BY <1>5, <2>3, <2>7 DEF Holds
    <2>9. SaidSo'
        BY <1>1, <2>2, <2>3, NothingSaid DEF SetupInv
    <2>10. SetupInv'
        BY <1>1, <1>5, <2>2, <2>3, <2>4, <2>5, <2>8, <2>9, MovesOn
    <2>11. QED  BY <2>2, <2>3, <2>10
<1>9. QED  BY <1>3, <1>6, <1>7, <1>8 DEF LooksAt

LEMMA DiesKeeps ==
    ASSUME SetupInv, NEW r \in Setter, Dies(r)
    PROVE  SetupInv' /\ setter'[r].told = "why it stopped" /\ Alone(r)
<1>1. SetupTypes /\ UNCHANGED <<disk, edited, project, tested>>
    BY DEF SetupInv, Dies
<1>2. Alone(r) /\ SetterType(r)' /\ setter'[r].at = "ended" /\ setter'[r].told = "why it stopped"
    BY <1>1, Told DEF Stops, Dies
<1>3. SaidSo'
    BY <1>1, <1>2, NothingSaid DEF SetupInv
<1>4. met \subseteq met' /\ \A f \in SetupFile : CutAt(r, f) => f \in met'
    BY DEF Dies, CutAt
<1>5. QED  BY <1>1, <1>2, <1>3, <1>4, EndingKeeps

LEMMA VerifiesKeeps ==
    ASSUME SetupInv, NEW r \in Setter, Verifies(r)
    PROVE  /\ SetupInv' /\ Alone(r) /\ UNCHANGED <<disk, project, edited>>
           /\ met' = met /\ setter[r].at = "applying" /\ setter[r].todo = {}
<1>1. SetupTypes /\ UNCHANGED <<disk, edited, project, met>>
      /\ setter[r].at = "applying" /\ setter[r].todo = {}
    BY DEF SetupInv, Verifies
<1>2. PICK what : Tells(r, what) /\ (what = "verified" => tested') /\ (tested => tested')
    BY DEF Verifies
<1>3. Alone(r) /\ SetterType(r)' /\ setter'[r].at = "ended" /\ setter'[r].told = what
    BY <1>1, <1>2, Told
<1>4. SaidSo'
    BY <1>1, <1>2, <1>3 DEF SetupInv, SaidSo, Alone
<1>5. QED  BY <1>1, <1>3, <1>4, EndingKeeps DEF CutAt

\* A write of r at a file, which it held: of the other files nothing changes.
LEMMA WritingKeeps ==
    ASSUME SetupInv, NEW r \in Setter, Alone(r), SetterType(r)', DiskType', UNCHANGED <<edited, project, met>>,
           SaidSo', setter[r].at \in {"writing", "cut"}, setter'[r].at \in {"cut", "applying"},
           NEW f \in SetupFile, setter[r].file = f, setter'[r].at = "cut" => setter'[r].file = f,
           setter'[r].command = setter[r].command, setter'[r].plan = setter[r].plan,
           setter'[r].since = setter[r].since, Pending(r) \ {f} \subseteq Pending(r)',
           f = "entry" \/ ~Absent(f)',
           \A g \in SetupFile \ {f} : disk'[g] = disk[g],
           f \notin met => Fine(f)'
    PROVE  SetupInv'
<1>1. SetupTypes
    BY DEF SetupInv
<1>2. SetupTypes'
    BY <1>1, NothingEdited
<1>3. \A g \in Brought : Absent(g)' => Absent(g) /\ g # f
    BY DEF Absent, SetupFile, Brought
<1>4. \A q \in Setter : StillMissing(q)'
    <2>1. StillMissing(r) /\ Working(r)
        BY DEF SetupInv, Working
    <2>2. Missing(setter[r].command)' \ {"entry"} \subseteq Missing(setter[r].command) \ {"entry", f}
        BY <1>3 DEF Missing, Brought
    <2>3. StillMissing(r)'
        BY <2>1, <2>2 DEF StillMissing
    <2>4. QED  BY <1>3, <2>3, OthersStillMiss
<1>5. ASSUME NEW g \in SetupFile, g \notin met, g # f PROVE Fine(g)'
    <2>1. Fine(g) /\ disk'[g] = disk[g]
        BY <1>5 DEF SetupInv
    <2>2. ~CutAt(r, g) /\ ~CutAt(r, g)' /\ ~Holds(r, g)' /\ AsLookedAt(r, g)' /\ Working(r)
        BY <1>5 DEF CutAt, Holds, AsLookedAt, Working
    <2>3. DealtWith(r, g)'
        BY <1>5, <2>1, <2>2, StillToDo
    <2>4. QED  BY <2>1, <2>2, <2>3, FileStays
<1>6. QED  BY <1>2, <1>4, <1>5 DEF SetupInv

LEMMA OpensKeeps ==
    ASSUME SetupInv, NEW r \in Setter, Opens(r)
    PROVE  SetupInv' /\ setter'[r].told = setter[r].told /\ Alone(r)
<1> DEFINE fields == [at |-> "cut"]
<1>1. SetupTypes /\ setter[r].at = "writing" /\ UNCHANGED <<edited, project, met, tested>>
    BY DEF SetupInv, Opens
<1>2. DOMAIN fields = {"at"} /\ fields["at"] = "cut" /\ Becomes(r, fields)
    BY DEF Opens
<1> HIDE DEF fields
<1>3. Alone(r)
      /\ \A x \in SetterField : setter'[r][x] = IF x \in DOMAIN fields THEN fields[x] ELSE setter[r][x]
    BY <1>1, <1>2, Became DEF SetterField
<1>4. /\ setter'[r].at = "cut"
      /\ \A x \in {"command", "told", "plan", "since", "todo", "file", "held"} : setter'[r][x] = setter[r][x]
    BY <1>2, <1>3 DEF SetterField
<1>5. PICK f : f = setter[r].file
    OBVIOUS
<1>6. f \in SetupFile
    BY <1>1, <1>5 DEF SetupTypes, SetterType
<1>7. /\ DOMAIN disk' = DOMAIN disk /\ disk'.settings \in {disk.settings, Empty}
      /\ f = "entry" => disk'.entry = Cut
      /\ f # "entry" => disk'[f] = "empty"
      /\ \A g \in SetupFile \ {f} : disk'[g] = disk[g]
    BY <1>1, <1>5, <1>6 DEF Opens, SetupTypes, DiskType, SetupFile, Brought
<1>8. SetterType(r)'
    BY <1>1, <1>3, <1>4 DEF Alone, SetterType, SetupTypes
<1>9. DiskType'
    BY <1>1, <1>6, <1>7 DEF SetupTypes, DiskType, SetupFile, Brought, Cut, Entry
<1>10. SaidSo'
    BY <1>1, <1>3, <1>4, <1>7, NothingSaid DEF SetupInv
<1>11. ASSUME f \notin met PROVE Fine(f)'
    <2>1. Fine(f) /\ Holds(r, f)
        BY <1>1, <1>5, <1>6, <1>11 DEF SetupInv, Holds
    <2>2. \A q \in Setter \ {r} : setter'[q] = setter[q] /\ ~Holds(q, f)
        BY <1>3, <2>1 DEF Alone, Fine, OneHolds
    <2>3. OneHolds(f)'
        BY <2>2 DEF OneHolds, Holds
    <2>4. CutAt(r, f)' /\ \A q \in Setter : ~CutAt(q, f)
        BY <1>1, <1>4, <1>5, <2>2 DEF CutAt, Holds
    <2>5. IF f = "entry" THEN setter[r].held = disk.entry /\ disk.entry.mounts = 0 ELSE Absent(f)
        BY <1>1, <1>5, <2>1 DEF Fine, AsLookedAt
    <2>6. f = "entry" => disk.entry.team = edited.entry
        BY <2>1, <2>4 DEF Fine, WorkIsThere
    <2>7. WorkIsThere(f)'
        <3>1. CASE f = "entry"
            BY <1>7, <2>4, <3>1 DEF WorkIsThere, Cut
        <3>2. CASE f # "entry"
            <4>1. f \notin edited.files
                BY <2>1, <2>5, <3>2 DEF Fine, WorkIsThere, Absent
            <4>2. QED  BY <1>1, <2>4, <3>2, <4>1 DEF WorkIsThere
        <3>3. QED  BY <3>1, <3>2
    <2>8. \A q \in Setter : AsLookedAt(q, f)'
        <3>1. AsLookedAt(r, f)'
            BY <1>1, <1>4, <1>7, <2>5, <2>6 DEF AsLookedAt
        <3>2. \A q \in Setter \ {r} : AsLookedAt(q, f)'
            BY <2>2 DEF AsLookedAt, Holds, CutAt
        <3>3. QED  BY <3>1, <3>2
    <2>9. ASSUME NEW q \in Setter PROVE DealtWith(q, f)'
        <3>1. Working(q)' => Working(q) /\ Pending(q)' = Pending(q) /\ setter'[q].plan = setter[q].plan
                             /\ setter'[q].since = setter[q].since
            BY <1>1, <1>4, <2>2 DEF Working, Pending
        <3>2. DealtWith(q, f)
            BY <2>1 DEF Fine
        <3>3. f = "entry" => ~Mounted(disk.entry)
            BY <2>5 DEF Mounted
        <3>4. f # "entry" => disk[f] = "absent"
            BY <2>5 DEF Absent
        <3>5. QED  BY <1>1, <3>1, <3>2, <3>3, <3>4 DEF DealtWith
    <2>10. QED  BY <2>3, <2>7, <2>8, <2>9 DEF Fine
<1>12. Pending(r)' = Pending(r) /\ (f = "entry" \/ ~Absent(f)')
    BY <1>1, <1>4, <1>7 DEF Pending, Absent
<1>13. SetupInv'
    BY <1>1, <1>3, <1>4, <1>5, <1>6, <1>7, <1>8, <1>9, <1>10, <1>11, <1>12, WritingKeeps
<1>14. QED  BY <1>3, <1>4, <1>13

LEMMA WritesKeeps ==
    ASSUME SetupInv, NEW r \in Setter, Writes(r)
    PROVE  SetupInv' /\ setter'[r].told = setter[r].told /\ Alone(r)
<1>1. SetupTypes /\ setter[r].at = "cut" /\ UNCHANGED <<edited, project, met, tested>>
    BY DEF SetupInv, Writes
<1>2. PICK f : f = setter[r].file
    OBVIOUS
<1>3. f \in SetupFile
    BY <1>1, <1>2 DEF SetupTypes, SetterType
<1> DEFINE fields == [at |-> "applying", todo |-> setter[r].todo \ {f}]
<1>4. DOMAIN fields = {"at", "todo"} /\ fields["at"] = "applying"
      /\ fields["todo"] = setter[r].todo \ {f} /\ Becomes(r, fields)
    BY <1>2 DEF Writes
<1> HIDE DEF fields
<1>5. Alone(r)
      /\ \A x \in SetterField : setter'[r][x] = IF x \in DOMAIN fields THEN fields[x] ELSE setter[r][x]
    BY <1>1, <1>4, Became DEF SetterField
<1>6. /\ setter'[r].at = "applying" /\ setter'[r].todo = setter[r].todo \ {f}
      /\ \A x \in {"command", "told", "plan", "since", "file", "held"} : setter'[r][x] = setter[r][x]
    BY <1>4, <1>5 DEF SetterField
<1>7. /\ DOMAIN disk' = DOMAIN disk /\ disk'.settings \in {disk.settings, Starter}
      /\ f = "entry" => disk'.entry = [setter[r].held EXCEPT !.mounts = @ + 1]
      /\ f # "entry" => disk'[f] = "whole"
      /\ \A g \in SetupFile \ {f} : disk'[g] = disk[g]
    BY <1>1, <1>2, <1>3 DEF Writes, SetupTypes, DiskType, SetupFile, Brought
<1>8. SetterType(r)'
    BY <1>1, <1>5, <1>6 DEF Alone, SetterType, SetupTypes
<1>9. setter[r].held \in Entry
    BY <1>1 DEF SetupTypes, SetterType
<1>10. DiskType'
    <2>1. [setter[r].held EXCEPT !.mounts = @ + 1] \in Entry
        BY <1>9 DEF Entry
    <2>2. QED  BY <1>1, <1>3, <1>7, <2>1 DEF SetupTypes, DiskType, SetupFile, Brought
<1>11. SaidSo'
    BY <1>1, <1>5, <1>6, <1>7, NothingSaid DEF SetupInv
<1>12. ASSUME f \notin met PROVE Fine(f)'
    <2>1. Fine(f) /\ Holds(r, f) /\ CutAt(r, f)
        BY <1>1, <1>2, <1>3, <1>12 DEF SetupInv, Holds, CutAt
    <2>2. \A q \in Setter \ {r} : setter'[q] = setter[q] /\ ~Holds(q, f)
        BY <1>5, <2>1 DEF Alone, Fine, OneHolds
    <2>3. \A q \in Setter : ~Holds(q, f)'
        BY <1>6, <2>2 DEF Holds
    <2>4. OneHolds(f)' /\ \A q \in Setter : AsLookedAt(q, f)'
        BY <2>3 DEF OneHolds, AsLookedAt, CutAt, Holds
    <2>5. IF f = "entry"
          THEN setter[r].held.mounts = 0 /\ setter[r].held.team = edited.entry
          ELSE disk[f] = "empty"
        BY <2>1 DEF Fine, AsLookedAt
    <2>6. f = "entry" => disk'.entry.mounts = 1 /\ disk'.entry.team = edited.entry
        BY <1>7, <1>9, <2>5 DEF Entry
    <2>7. WorkIsThere(f)'
        <3>1. CASE f = "entry"
            BY <1>1, <2>6, <3>1 DEF WorkIsThere
        <3>2. CASE f # "entry"
            BY <1>1, <1>7, <2>1, <2>5, <3>2 DEF Fine, WorkIsThere
        <3>3. QED  BY <3>1, <3>2
    <2>8. ASSUME NEW q \in Setter PROVE DealtWith(q, f)'
        <3>1. CASE f = "entry"
            BY <2>6, <3>1 DEF DealtWith, Mounted
        <3>2. CASE f # "entry"
            BY <1>7, <3>2 DEF DealtWith
        <3>3. QED  BY <3>1, <3>2
    <2>9. QED  BY <2>4, <2>7, <2>8 DEF Fine
<1>13. Pending(r) \ {f} \subseteq Pending(r)' /\ (f = "entry" \/ ~Absent(f)')
    BY <1>1, <1>6, <1>7 DEF Pending, Absent
<1>14. SetupInv'
    BY <1>1, <1>2, <1>3, <1>5, <1>6, <1>7, <1>8, <1>10, <1>11, <1>12, <1>13, WritingKeeps
<1>15. QED  BY <1>5, <1>6, <1>14

LEMMA EditsKeeps ==
    ASSUME SetupInv, NEW f \in SetupFile, Edits(f)
    PROVE  SetupInv' /\ setter' = setter
<1>1. SetupTypes /\ UNCHANGED <<project, setter, tested>>
    BY DEF SetupInv, Edits
<1>2. met \subseteq met' /\ (f \notin met' => (f \notin met /\ \A r \in Setter : ~Holds(r, f)))
    BY DEF Edits
<1>3. \A r \in Setter : (Working(r)' <=> Working(r)) /\ Pending(r)' = Pending(r)
    BY <1>1 DEF Working, Pending
<1>4. ASSUME NEW g \in SetupFile, g # f, disk'[g] = disk[g], Fine(g),
             g = "entry" => edited'.entry = edited.entry,
             g \in edited.files <=> g \in edited'.files
      PROVE  Fine(g)'
    <2>1. OneHolds(g)' /\ WorkIsThere(g)'
        BY <1>1, <1>4 DEF Fine, OneHolds, WorkIsThere, Holds, CutAt
    <2>2. \A r \in Setter : AsLookedAt(r, g)' /\ DealtWith(r, g)'
        BY <1>1, <1>3, <1>4 DEF Fine, AsLookedAt, DealtWith, Absent, Mounted, CutAt
    <2>3. QED  BY <2>1, <2>2 DEF Fine
<1>5. CASE f = "entry"
    <2>1. PICK mounts \in 0 .. disk.entry.mounts :
             disk' = [disk EXCEPT !.entry = [team |-> @.team + 1, mounts |-> mounts]]
        BY <1>5 DEF Edits
    <2>2. /\ DOMAIN disk' = DOMAIN disk /\ disk'.settings = disk.settings
          /\ disk'.entry = [team |-> disk.entry.team + 1, mounts |-> mounts]
          /\ \A g \in Brought : disk'[g] = disk[g]
        BY <1>1, <2>1 DEF SetupTypes, DiskType, SetupFile, Brought
    <2>3. edited' = [edited EXCEPT !.entry = @ + 1]
        BY <1>5 DEF Edits
    <2>4. DOMAIN edited' = {"files", "entry"} /\ edited.entry \in Nat
          /\ edited'.entry = edited.entry + 1 /\ edited'.files = edited.files
        BY <1>1, <2>3 DEF SetupTypes, EditedType
    <2>5. SetupTypes'
        <3>1. DiskType' /\ EditedType'
            BY <1>1, <2>2, <2>4 DEF SetupTypes, DiskType, EditedType, Entry
        <3>2. \A r \in Setter : SetterType(r)'
            BY <1>1, <2>4 DEF SetupTypes, SetterType
        <3>3. QED  BY <1>1, <3>1, <3>2 DEF SetupTypes
    <2>6. SaidSo' /\ \A r \in Setter : StillMissing(r)'
        <3>1. SaidSo'
            BY <1>1, <2>2, <2>4 DEF SetupInv, SaidSo
        <3>2. ASSUME NEW r \in Setter PROVE StillMissing(r)'
            BY <1>1, <1>3, <2>2 DEF SetupInv, StillMissing, Missing, Absent, Brought
        <3>3. QED  BY <3>1, <3>2
    <2>7. ASSUME "entry" \notin met' PROVE Fine("entry")'
        <3>1. Fine("entry") /\ \A r \in Setter : ~Holds(r, "entry") /\ ~Holds(r, "entry")'
            BY <1>1, <1>2, <1>5, <2>7 DEF SetupInv, SetupFile, Holds
        <3>2. \A r \in Setter : ~CutAt(r, "entry") /\ AsLookedAt(r, "entry")'
            BY <3>1 DEF CutAt, Holds, AsLookedAt
        <3>3. disk.entry.mounts <= 1 /\ disk.entry.team = edited.entry
            BY <3>1, <3>2 DEF Fine, WorkIsThere
        <3>4. WorkIsThere("entry")'
            BY <1>1, <2>2, <2>4, <3>3 DEF WorkIsThere, SetupTypes, DiskType, Entry
        <3>5. \A r \in Setter : DealtWith(r, "entry")'
            BY <1>1, <2>4 DEF DealtWith, SetupTypes, SetterType
        <3>6. QED  BY <3>1, <3>2, <3>4, <3>5 DEF Fine, OneHolds
    <2>8. ASSUME NEW g \in SetupFile, g \notin met' PROVE Fine(g)'
        <3>1. CASE g = "entry"
            BY <2>7, <2>8, <3>1
        <3>2. CASE g # "entry"
            <4>1. g \in Brought /\ Fine(g)
                BY <1>2, <2>8, <3>2 DEF SetupInv, SetupFile
            <4>2. QED  BY <1>4, <1>5, <2>2, <2>4, <3>2, <4>1
        <3>3. QED  BY <3>1, <3>2
    <2>9. QED  BY <1>1, <2>5, <2>6, <2>8 DEF SetupInv
<1>6. CASE f # "entry"
    <2>1. PICK settings : /\ disk' = [disk EXCEPT ![f] = "edited", !.settings = settings]
                          /\ f # "config" => settings = disk.settings
        BY <1>6 DEF Edits
    <2>2. /\ DOMAIN disk' = DOMAIN disk /\ disk'[f] = "edited"
          /\ f # "config" => disk'.settings = disk.settings
          /\ \A g \in SetupFile \ {f} : disk'[g] = disk[g]
        BY <1>1, <1>6, <2>1 DEF SetupTypes, DiskType, SetupFile, Brought
    <2>3. edited' = [edited EXCEPT !.files = @ \cup {f}]
        BY <1>6 DEF Edits
    <2>4. DOMAIN edited' = {"files", "entry"}
          /\ edited'.entry = edited.entry /\ edited'.files = edited.files \cup {f}
        BY <1>1, <2>3 DEF SetupTypes, EditedType
    <2>5. SetupTypes'
        <3>1. DiskType' /\ EditedType'
            BY <1>1, <1>6, <2>2, <2>4 DEF SetupTypes, DiskType, EditedType, SetupFile, Brought
        <3>2. \A r \in Setter : SetterType(r)'
            BY <1>1, <2>4 DEF SetupTypes, SetterType
        <3>3. QED  BY <1>1, <3>1, <3>2 DEF SetupTypes
    <2>6. SaidSo' /\ \A r \in Setter : StillMissing(r)'
        <3>1. SaidSo'
            BY <1>1, <2>2, <2>4 DEF SetupInv, SaidSo
        <3>2. \A g \in Brought : Absent(g)' => Absent(g)
            BY <2>2 DEF Absent, SetupFile
        <3>3. ASSUME NEW r \in Setter PROVE StillMissing(r)'
            BY <1>1, <1>3, <3>2 DEF SetupInv, StillMissing, Missing, Brought
        <3>4. QED  BY <3>1, <3>3
    <2>7. ASSUME f \notin met' PROVE Fine(f)'
        <3>1. Fine(f) /\ \A r \in Setter : ~Holds(r, f) /\ ~Holds(r, f)'
            BY <1>1, <1>2, <2>7 DEF SetupInv, Holds
        <3>2. \A r \in Setter : AsLookedAt(r, f)'
            BY <3>1 DEF CutAt, Holds, AsLookedAt
        <3>3. WorkIsThere(f)' /\ \A r \in Setter : DealtWith(r, f)'
            BY <1>6, <2>2 DEF WorkIsThere, DealtWith
        <3>4. QED  BY <3>1, <3>2, <3>3 DEF Fine, OneHolds
    <2>8. ASSUME NEW g \in SetupFile, g \notin met' PROVE Fine(g)'
        <3>1. CASE g = f
            BY <2>7, <2>8, <3>1
        <3>2. CASE g # f
            <4>1. Fine(g)
                BY <1>2, <2>8 DEF SetupInv
            <4>2. QED  BY <1>4, <2>2, <2>4, <2>8, <3>2, <4>1
        <3>3. QED  BY <3>1, <3>2
    <2>9. QED  BY <1>1, <2>5, <2>6, <2>8 DEF SetupInv
<1>7. QED  BY <1>5, <1>6

-----------------------------------------------------------------------------
\* Every step keeps it.
LEMMA SetupKeeps ==
    ASSUME SetupInv, SetupNext
    PROVE  SetupInv'
<1>1. ASSUME NEW r \in Setter,
             SetsOut(r) \/ Answers(r) \/ LooksAt(r) \/ Opens(r) \/ Writes(r) \/ Dies(r) \/ Verifies(r)
      PROVE  SetupInv'
    BY <1>1, SetsOutKeeps, AnswersKeeps, LooksAtKeeps, OpensKeeps, WritesKeeps, DiesKeeps, VerifiesKeeps
<1>2. ASSUME NEW f \in Brought \cup {"entry"}, Edits(f) PROVE SetupInv'
    BY <1>2, EditsKeeps DEF SetupFile
<1>3. QED  BY <1>1, <1>2 DEF SetupNext

LEMMA SetupStarts == SetupInit => SetupInv
<1> SUFFICES ASSUME SetupInit PROVE SetupInv
    OBVIOUS
<1>1. \A r \in Setter : \E c \in {"init", "wire"} : setter[r] = AtRest(c, "idle", "nothing")
    BY DEF SetupInit
<1>2. ASSUME NEW c
      PROVE  LET s == AtRest(c, "idle", "nothing") IN
             /\ DOMAIN s = SetterField /\ s.at = "idle" /\ s.told = "nothing" /\ s.since = 0
             /\ s.plan = {} /\ s.todo = {} /\ s.held = Cut
    BY DEF AtRest, SetterField
<1>3. edited = [files |-> {}, entry |-> 1] /\ edited.entry = 1 /\ edited.files = {}
    BY DEF SetupInit
<1>4. \A r \in Setter : SetterType(r) /\ setter[r].at = "idle" /\ setter[r].told = "nothing"
    <2>1. Cut \in Entry
        BY DEF Cut, Entry
    <2>2. QED  BY <1>1, <1>2, <1>3, <2>1 DEF SetterType
<1>5. DOMAIN setter = Setter /\ DiskType /\ EditedType
    BY DEF SetupInit, DiskType, EditedType, SetupFile, Brought, Entry
<1>6. SaidSo /\ \A r \in Setter : StillMissing(r)
    BY <1>4 DEF SetupInit, SaidSo, StillMissing, Working, Empty
<1>7. ASSUME NEW f \in SetupFile PROVE Fine(f)
    <2>1. OneHolds(f) /\ \A r \in Setter : AsLookedAt(r, f) /\ DealtWith(r, f)
        BY <1>4 DEF OneHolds, Holds, CutAt, AsLookedAt, DealtWith, Working
    <2>2. WorkIsThere(f)
        BY <1>3 DEF SetupInit, WorkIsThere, SetupFile, Brought
    <2>3. QED  BY <2>1, <2>2 DEF Fine
<1>8. QED  BY <1>4, <1>5, <1>6, <1>7 DEF SetupInv, SetupTypes

\* What `drums doctor` and a start conclude follows from what they look at.
LEMMA Silence == SaidSo => SilenceMeansWell
<1> SUFFICES ASSUME SaidSo PROVE SilenceMeansWell
    OBVIOUS
<1>1. ASSUME NEW m \in Machine
      PROVE  LET says == Doctor(m) IN
             /\ says.config = "broken" => Refused(Empty)
             /\ (\E r \in Setter : setter[r].told = "verified") => says.events # "broken"
    <2>1. PICK says : says = Doctor(m)
        OBVIOUS
    <2>2. /\ says.config = OkOr(~Absent("config") /\ disk.settings.parses)
          /\ says.events = IF m.heard THEN "ok" ELSE IF tested THEN "unknown" ELSE "broken"
        BY <2>1 DEF Doctor, CheckRecord, Heard
    <2>3. says.config = "broken" => Refused(Empty)
        BY <2>2 DEF OkOr, Refused, AnySet, Empty
    <2>4. (\E r \in Setter : setter[r].told = "verified") => says.events # "broken"
        BY <2>2 DEF SaidSo
    <2>5. QED  BY <2>1, <2>3, <2>4
<1>2. ASSUME NEW flags \in Flags, DaemonRuns(flags) = "auto"
      PROVE  /\ flags.mode = "auto" \/ (flags.mode = "unset" /\ "config" \in edited.files)
             /\ flags.deploys \/ disk.settings.deploys
    <2>1. flags.mode \in {"unset", "propose", "auto"}
        BY DEF Flags, Setting
    <2>2. /\ flags.mode = "auto" \/ (flags.mode = "unset" /\ disk.settings.mode = "auto")
          /\ flags.deploys \/ disk.settings.deploys
        BY <1>2, <2>1 DEF DaemonRuns, Refused, Settings, Overridden
    <2>3. QED  BY <2>2 DEF SaidSo
<1>3. QED  BY <1>1, <1>2 DEF SilenceMeansWell

\* What a step says is done is so.
LEMMA SaysItsDone ==
    ASSUME SetupInv, SetupNext, NEW r \in Setter, setter[r].told = "nothing",
           setter'[r].told \in {"nothing to do", "written", "verified", "unresolved"}
    PROVE  /\ Missing(setter[r].command)' \subseteq {"entry"}
           /\ Missing(setter[r].command)' # {} => "entry" \in met' \/ EditedSince(r)
           /\ \A f \in setter[r].plan \ ({"entry"} \cup met') : disk'[f] \notin {"absent", "empty"}
<1>1. SetupTypes
    BY DEF SetupInv
<1>2. "why it stopped" \notin {"nothing", "nothing to do", "written", "verified", "unresolved"}
      /\ "nothing" \notin {"nothing to do", "written", "verified", "unresolved"}
    OBVIOUS
<1>3. SetsOut(r) \/ Verifies(r)
    <2>1. ASSUME NEW q \in Setter, q # r, Alone(q) PROVE FALSE
        BY <1>2, <2>1 DEF Alone
    <2>2. \A q \in Setter : SetsOut(q) => Alone(q)
        BY <1>1, SetsOutDoes
    <2>3. \A q \in Setter :
             /\ Answers(q) \/ LooksAt(q) \/ Opens(q) \/ Writes(q) \/ Dies(q) =>
                   Alone(q) /\ setter'[q].told \in {setter[q].told, "why it stopped"}
             /\ Verifies(q) => Alone(q)
        BY AnswersKeeps, LooksAtKeeps, OpensKeeps, WritesKeeps, DiesKeeps, VerifiesKeeps
    <2>4. ~\E f \in Brought \cup {"entry"} : Edits(f)
        BY <1>2, EditsKeeps DEF SetupFile
    <2>5. PICK q \in Setter :
             SetsOut(q) \/ Answers(q) \/ LooksAt(q) \/ Opens(q) \/ Writes(q) \/ Dies(q) \/ Verifies(q)
        BY <2>4 DEF SetupNext
    <2>6. q = r
        BY <2>1, <2>2, <2>3, <2>5
    <2>7. QED  BY <1>2, <2>3, <2>5, <2>6
<1>4. CASE SetsOut(r)
    <2>1. /\ UNCHANGED <<disk, project>> /\ setter[r].at = "idle"
          /\ setter'[r].command = setter[r].command
          /\ setter'[r].told = "nothing to do" => Missing(setter[r].command) = {}
          /\ setter'[r].told \in {"nothing to do", "why it stopped", setter[r].told}
        BY <1>1, <1>2, <1>4, SetsOutDoes
    <2>2. Missing(setter[r].command)' = Missing(setter[r].command)
        BY <2>1 DEF Missing, Absent, Mounted
    <2>3. setter[r].plan = {}
        BY <1>1, <2>1 DEF SetupTypes, SetterType
    <2>4. QED  BY <1>2, <2>1, <2>2, <2>3
<1>5. CASE Verifies(r)
    <2>1. UNCHANGED <<disk, project, edited, met>> /\ setter[r].at = "applying" /\ setter[r].todo = {}
        BY <1>5, VerifiesKeeps
    <2>2. Working(r) /\ Pending(r) = {}
        BY <2>1 DEF Working, Pending
    <2>3. setter'[r].command = setter[r].command
        <3>1. PICK what : Tells(r, what)
            BY <1>5 DEF Verifies
        <3>2. QED  BY <1>1, <2>1, <3>1, Told
    <2>4. Missing(setter[r].command)' = Missing(setter[r].command)
        BY <2>1, <2>3 DEF Missing, Absent, Mounted
    <2>5. Missing(setter[r].command) \subseteq {"entry"}
        BY <2>2 DEF SetupInv, StillMissing
    <2>6. ASSUME "entry" \in Missing(setter[r].command), "entry" \notin met PROVE EditedSince(r)
        <3>1. project.framework = "express" /\ ~Mounted(disk.entry)
            BY <2>6 DEF Missing
        <3>2. DealtWith(r, "entry")
            BY <2>6 DEF SetupInv, Fine, SetupFile
        <3>3. setter[r].since < edited.entry
            BY <2>2, <3>1, <3>2 DEF DealtWith
        <3>4. setter[r].since \in Nat /\ edited.entry \in Nat
            BY <1>1 DEF SetupTypes, SetterType, EditedType
        <3>5. QED  BY <2>2, <3>3, <3>4 DEF EditedSince
    <2>7. ASSUME NEW f \in setter[r].plan, f # "entry", f \notin met PROVE disk[f] \notin {"absent", "empty"}
        <3>1. f \in SetupFile
            BY <1>1, <2>7 DEF SetupTypes, SetterType
        <3>2. DealtWith(r, f)
            BY <2>7, <3>1 DEF SetupInv, Fine
        <3>3. QED  BY <2>2, <2>7, <3>2 DEF DealtWith
    <2>8. QED  BY <2>1, <2>4, <2>5, <2>6, <2>7
<1>6. QED  BY <1>3, <1>4, <1>5

\* For any number of inits and wires of one repository that interleave with the team's
\* edits and die anywhere: of every file at which no two hands met and of which no write
\* was cut in two, the team's work is all there, the reporter is mounted once and an
\* edited file is as edited, however old the plan of a run is; a run that says it is
\* done, is, but for an entrypoint the team changed since; and what doctor and a start
\* conclude is so.
THEOREM SetUpStaysTrue == SetupSpec => SetUpIsTrue
<1>1. SetupInit => SetupInv
    BY SetupStarts
<1>2. SetupInv /\ [SetupNext]_setupVars => SetupInv'
    <2>1. SetupInv /\ UNCHANGED setupVars => SetupInv'
        <3> SUFFICES ASSUME SetupInv, UNCHANGED <<project, disk, setter, edited, met, tested>> PROVE SetupInv'
            BY DEF setupVars
        <3>1. SetupTypes' /\ SaidSo'
            BY DEF SetupInv, SetupTypes, SetterType, DiskType, EditedType, SaidSo
        <3>2. \A r \in Setter : StillMissing(r)'
            BY DEF SetupInv, StillMissing, Working, Pending, Missing, Absent, Mounted
        <3>3. \A f \in SetupFile : f \notin met' => Fine(f)'
            BY DEF SetupInv, Fine, OneHolds, WorkIsThere, AsLookedAt, DealtWith, CutAt, Holds, Working, Pending,
                   Absent, Mounted
        <3>4. QED  BY <3>1, <3>2, <3>3 DEF SetupInv
    <2>2. QED  BY <2>1, SetupKeeps
<1>3. SetupInv => (part = "setup" => TeamWorkIsKept /\ SilenceMeansWell)
    <2>1. ASSUME SetupInv PROVE TeamWorkIsKept
        <3>1. "entry" \notin met => WorkIsThere("entry")
            BY <2>1 DEF SetupInv, Fine, SetupFile
        <3>2. \A f \in edited.files \ met : f # "entry" /\ WorkIsThere(f)
            BY <2>1 DEF SetupInv, SetupTypes, EditedType, Fine, SetupFile, Brought
        <3>3. QED  BY <3>1, <3>2 DEF TeamWorkIsKept, WorkIsThere, CutAt
    <2>2. QED  BY <2>1, Silence DEF SetupInv
<1>4. SetupInv /\ [SetupNext]_setupVars =>
        [\A r \in Setter :
           (setter[r].told = "nothing" /\
            setter'[r].told \in {"nothing to do", "written", "verified", "unresolved"}) =>
               /\ Missing(setter[r].command)' \subseteq {"entry"}
               /\ Missing(setter[r].command)' # {} => "entry" \in met' \/ EditedSince(r)
               /\ \A f \in setter[r].plan \ ({"entry"} \cup met') :
                      disk'[f] \notin {"absent", "empty"}]_setupVars
    BY SaysItsDone
<1>5. QED  BY <1>1, <1>2, <1>3, <1>4, PTL DEF SetupSpec, SetUpIsTrue, DoneIsDone
=============================================================================
