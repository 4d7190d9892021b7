------------------------------ MODULE FoldProofs ------------------------------
(***************************************************************************)
(* Facts about data that several components' proofs need: what the folds   *)
(* of the community modules compute, and what a queue holds.  The          *)
(* induction theorems of the library take a predicate; the facts below are *)
(* proved from WFMin instead: a counterexample would have a least one.  An *)
(* operator that is folded is given as a function.                         *)
(***************************************************************************)
EXTENDS SequencesExt, FiniteSetTheorems, WellFoundedInduction, TLAPS

\* A set of numbers that has a member has a least one.
LEMMA LeastNat ==
    ASSUME NEW T \in SUBSET Nat, T # {}
    PROVE  \E n \in T : \A m \in T : n <= m
<1> DEFINE Less == {ss \in Nat \X Nat : ss[1] < ss[2]}
<1>1. IsWellFoundedOn(Less, Nat)
    BY NatLessThanWellFounded DEF OpToRel
<1> HIDE DEF Less
<1>2. PICK n \in T : \A m \in T : ~(<<m, n>> \in Less)
    BY <1>1, WFMin
<1>3. \A m \in T : ~(m < n)
    BY <1>2 DEF Less
<1>4. QED  BY <1>3

\* A set of numbers that has a member, and none above n, has a greatest one.
LEMMA GreatestNat ==
    ASSUME NEW T \in SUBSET Nat, T # {}, NEW n \in Nat, \A t \in T : t <= n
    PROVE  \E t \in T : \A u \in T : u <= t
<1> DEFINE Below == {n - t : t \in T}
<1>1. Below \in SUBSET Nat /\ Below # {}
    <2>1. \A t \in T : n - t \in Nat
        OBVIOUS
    <2>2. QED  BY <2>1
<1>2. PICK m \in Below : \A b \in Below : m <= b
    <2> HIDE DEF Below
    <2>1. QED  BY <1>1, LeastNat
<1>3. PICK t \in T : m = n - t
    OBVIOUS
<1>4. \A u \in T : n - t <= n - u
    BY <1>2, <1>3
<1>5. QED  BY <1>4

\* What is made of finitely many things is finite.
LEMMA FiniteImage ==
    ASSUME NEW S, IsFiniteSet(S), NEW f
    PROVE  IsFiniteSet({f[x] : x \in S})
<1> DEFINE T == {f[x] : x \in S}
           g == [x \in S |-> f[x]]
<1>1. g \in Surjection(S, T)
    BY DEF Surjection
<1>2. QED  BY <1>1, FS_Surjection

\* A function on the subsets of S that folds them: each subset's value comes from
\* that of the subset without the element picked.
IsFold(it, S, A, base, pick, step) ==
    /\ it \in [SUBSET S -> A]
    /\ \A s \in SUBSET S :
           it[s] = IF s = {} THEN base ELSE step[pick[s]][it[s \ {pick[s]}]]

\* There is one, whatever is picked, when S is finite.
LEMMA FoldExists ==
    ASSUME NEW S, IsFiniteSet(S), NEW A, NEW base \in A,
           NEW pick, \A s \in SUBSET S : s # {} => pick[s] \in s,
           NEW step \in [S -> [A -> A]]
    PROVE  \E it : IsFold(it, S, A, base, pick, step)
<1> DEFINE Upto(n) == {s \in SUBSET S : Cardinality(s) <= n}
           Folds(it, n) ==
               /\ it \in [Upto(n) -> A]
               /\ \A s \in Upto(n) :
                      it[s] = IF s = {} THEN base ELSE step[pick[s]][it[s \ {pick[s]}]]
           Missing == {n \in Nat : ~ \E it : Folds(it, n)}
<1>1. \A s \in SUBSET S : Cardinality(s) \in Nat /\ IsFiniteSet(s)
    BY FS_Subset, FS_CardinalityType
<1>2. \A s \in SUBSET S : s # {} =>
          /\ pick[s] \in S /\ s \ {pick[s]} \in SUBSET S
          /\ Cardinality(s \ {pick[s]}) = Cardinality(s) - 1
    BY <1>1, FS_RemoveElement
<1>3. \A s \in SUBSET S : Cardinality(s) = 0 <=> s = {}
    BY <1>1, FS_EmptySet
<1>4. ASSUME NEW n \in Missing, \A m \in Missing : n <= m
      PROVE  FALSE
    <2>1. CASE n = 0
        <3> DEFINE it == [s \in Upto(n) |-> base]
        <3>1. \A s \in Upto(n) : s = {}
            BY <1>1, <1>3, <2>1
        <3>2. Folds(it, n)
            BY <3>1
        <3>3. QED  BY <3>2
    <2>2. CASE n # 0
        <3>1. n - 1 \in Nat /\ n - 1 \notin Missing
            <4>1. n \in Nat
                OBVIOUS
            <4> HIDE DEF Missing
            <4>2. QED  BY <1>4, <2>2, <4>1
        <3>2. PICK it : Folds(it, n - 1)
            BY <3>1
        <3> DEFINE next == [s \in Upto(n) |->
                       IF s = {} THEN base ELSE step[pick[s]][it[s \ {pick[s]}]]]
        <3>3. \A s \in Upto(n) : s # {} => s \ {pick[s]} \in Upto(n - 1)
            BY <1>1, <1>2, <3>1
        <3>4. next \in [Upto(n) -> A]
            BY <1>2, <3>2, <3>3
        <3>5. \A s \in Upto(n - 1) : s \in Upto(n) /\ next[s] = it[s]
            <4>1. \A s \in Upto(n - 1) : s \in Upto(n)
                BY <1>1, <3>1
            <4>2. \A s \in Upto(n - 1) :
                      it[s] = IF s = {} THEN base ELSE step[pick[s]][it[s \ {pick[s]}]]
                BY <3>2
            <4>3. QED  BY <4>1, <4>2
        <3>6. \A s \in Upto(n) :
                  next[s] = IF s = {} THEN base ELSE step[pick[s]][next[s \ {pick[s]}]]
            BY <3>3, <3>5
        <3>7. Folds(next, n)
            BY <3>4, <3>6
        <3>8. QED  BY <3>7
    <2>3. QED  BY <2>1, <2>2
<1>5. Missing = {}
    <2> HIDE DEF Missing
    <2>1. Missing \in SUBSET Nat
        BY DEF Missing
    <2>2. QED  BY <1>4, <2>1, LeastNat
<1>6. Cardinality(S) \in Nat
    BY <1>1
<1>7. PICK it : Folds(it, Cardinality(S))
    BY <1>5, <1>6
<1>8. Upto(Cardinality(S)) = SUBSET S
    BY FS_Subset
<1>9. QED  BY <1>7, <1>8 DEF IsFold

\* A sum of natural numbers is one.
LEMMA SumIsNat ==
    ASSUME NEW S, IsFiniteSet(S), NEW g \in [S -> Nat]
    PROVE  SumFunction(g) \in Nat
<1> DEFINE pick == [s \in SUBSET S |-> CHOOSE x \in s : TRUE]
           step == [x \in S |-> [n \in Nat |-> g[x] + n]]
<1>1. \A s \in SUBSET S : s # {} => pick[s] \in s
    OBVIOUS
<1>2. step \in [S -> [Nat -> Nat]]
    OBVIOUS
<1>3. PICK it : IsFold(it, S, Nat, 0, pick, step)
    <2> HIDE DEF pick, step
    <2>1. QED  BY <1>1, <1>2, FoldExists
<1>4. it \in [SUBSET S -> Nat]
    BY <1>3 DEF IsFold
<1>5. it = [s \in SUBSET S |->
               IF s = {} THEN 0 ELSE g[CHOOSE x \in s : TRUE] + it[s \ {CHOOSE x \in s : TRUE}]]
    <2>1. \A s \in SUBSET S : s # {} =>
              /\ pick[s] = CHOOSE x \in s : TRUE
              /\ step[pick[s]][it[s \ {pick[s]}]] = g[pick[s]] + it[s \ {pick[s]}]
        BY <1>1, <1>4
    <2>2. \A s \in SUBSET S :
              it[s] = IF s = {} THEN 0 ELSE step[pick[s]][it[s \ {pick[s]}]]
        BY <1>3 DEF IsFold
    <2> HIDE DEF pick, step
    <2>3. QED  BY <1>4, <2>1, <2>2
<1>6. DOMAIN g = S
    OBVIOUS
<1> HIDE DEF pick, step
<1> DEFINE Sums(f) == f = [s \in SUBSET S |->
               IF s = {} THEN 0 ELSE g[CHOOSE x \in s : TRUE] + f[s \ {CHOOSE x \in s : TRUE}]]
           total == CHOOSE f : Sums(f)
           Bad == {n \in Nat : \E s \in SUBSET S : Cardinality(s) = n /\ total[s] \notin Nat}
<1>7. SumFunction(g) = total[S]
    BY <1>6 DEF SumFunction, SumFunctionOnSet, FoldFunctionOnSet, MapThenFoldSet
<1>8. Sums(total)
    BY <1>5
<1>9. ASSUME NEW n \in Bad, \A m \in Bad : n <= m
      PROVE  FALSE
    <2>1. PICK s \in SUBSET S : Cardinality(s) = n /\ total[s] \notin Nat
        OBVIOUS
    <2> DEFINE x == CHOOSE x \in s : TRUE
               rest == s \ {x}
    <2>2. total[s] = IF s = {} THEN 0 ELSE g[x] + total[rest]
        <3> HIDE DEF total
        <3>1. QED  BY <1>8
    <2>3. s # {} /\ x \in s
        <3> HIDE DEF total
        <3>1. QED  BY <2>1, <2>2
    <2>4. Cardinality(rest) = n - 1 /\ n - 1 \in Nat
        <3>1. IsFiniteSet(s)
            BY FS_Subset
        <3>2. Cardinality(rest) = Cardinality(s) - 1 /\ Cardinality(rest) \in Nat
            BY <2>3, <3>1, FS_RemoveElement, FS_CardinalityType
        <3>3. QED  BY <2>1, <3>2
    <2>5. n - 1 \notin Bad
        <3>1. n \in Nat
            OBVIOUS
        <3> HIDE DEF Bad
        <3>2. QED  BY <1>9, <2>4, <3>1
    <2>6. total[rest] \in Nat
        BY <2>4, <2>5
    <2>7. g[x] \in Nat
        BY <2>3
    <2> HIDE DEF total, rest, x
    <2>8. QED  BY <2>1, <2>2, <2>6, <2>7
<1>10. Bad = {}
    <2> HIDE DEF Bad
    <2>1. Bad \in SUBSET Nat
        BY DEF Bad
    <2>2. QED  BY <1>9, <2>1, LeastNat
<1>11. Cardinality(S) \in Nat
    BY FS_CardinalityType
<1>12. total[S] \in Nat
    BY <1>10, <1>11
<1> HIDE DEF total
<1>13. QED  BY <1>7, <1>12

-----------------------------------------------------------------------------
\* A set of numbers that has a bound and a member has a greatest member.
LEMMA MaxIsMember ==
    ASSUME NEW n \in Nat, NEW s \in SUBSET (1 .. n), s # {}
    PROVE  Max(s) \in s /\ \A m \in s : m <= Max(s)
<1> DEFINE Bounds == {b \in Nat : \A m \in s : m <= b}
<1>1. n \in Bounds
    OBVIOUS
<1>2. PICK b \in Bounds : \A c \in Bounds : b <= c
    <2> HIDE DEF Bounds
    <2>1. Bounds \in SUBSET Nat
        BY DEF Bounds
    <2>2. QED  BY <1>1, <2>1, LeastNat
<1>3. b \in s
    <2> SUFFICES ASSUME b \notin s PROVE FALSE
        OBVIOUS
    <2>1. PICK m \in s : TRUE
        OBVIOUS
    <2>2. b - 1 \in Bounds
        <3>1. b \in Nat /\ \A x \in s : x <= b /\ x # b /\ x \in Nat /\ x >= 1
            OBVIOUS
        <3>2. QED  BY <2>1, <3>1
    <2>3. QED  BY <1>2, <2>2
<1>4. b \in Nat /\ \A m \in s : b >= m /\ m \in Nat
    OBVIOUS
<1>5. Max(s) \in s /\ \A m \in s : Max(s) >= m
    BY <1>3, <1>4 DEF Max
<1>6. QED  BY <1>4, <1>5

\* The greatest of the first n numbers, and what is left without it.
LEMMA MaxOfInterval ==
    ASSUME NEW n \in Nat, n # 0
    PROVE  Max(1 .. n) = n /\ (1 .. n) \ {n} = 1 .. (n - 1)
<1>1. Max(1 .. n) \in 1 .. n /\ \A m \in 1 .. n : m <= Max(1 .. n)
    <2>1. 1 .. n \in SUBSET (1 .. n) /\ n \in 1 .. n
        OBVIOUS
    <2>2. 1 .. n # {}
        BY <2>1
    <2>3. QED  BY <2>1, <2>2, MaxIsMember
<1>2. n \in 1 .. n
    OBVIOUS
<1>3. QED  BY <1>1, <1>2

\* What FoldLeft iterates exists for every sequence: a function on the sets of its
\* indices that takes the greatest index last.
IsFoldLeft(it, n, A, base, step) ==
    /\ it \in [SUBSET (1 .. n) -> A]
    /\ it = [s \in SUBSET (1 .. n) |->
                IF s = {} THEN base ELSE step[Max(s)][it[s \ {Max(s)}]]]

LEMMA FoldLeftExists ==
    ASSUME NEW n \in Nat, NEW A, NEW base \in A, NEW step \in [1 .. n -> [A -> A]]
    PROVE  \E it : IsFoldLeft(it, n, A, base, step)
<1> DEFINE pick == [s \in SUBSET (1 .. n) |-> Max(s)]
<1>1. IsFiniteSet(1 .. n)
    BY FS_Interval
<1>2. \A s \in SUBSET (1 .. n) : s # {} => pick[s] \in s
    BY MaxIsMember
<1>3. PICK it : IsFold(it, 1 .. n, A, base, pick, step)
    <2> HIDE DEF pick
    <2>1. QED  BY <1>1, <1>2, FoldExists
<1>4. QED  BY <1>3 DEF IsFold, IsFoldLeft

\* What is defined by recursion from 0 to n, a step at a time, is defined.
IsRecursion(h, n, A, base, step) ==
    /\ h \in [0 .. n -> A]
    /\ h = [m \in 0 .. n |-> IF m = 0 THEN base ELSE step[m][h[m - 1]]]

LEMMA RecursionExists ==
    ASSUME NEW n \in Nat, NEW A, NEW base \in A, NEW step \in [1 .. n -> [A -> A]]
    PROVE  \E h : IsRecursion(h, n, A, base, step)
<1>1. PICK it : IsFoldLeft(it, n, A, base, step)
    BY FoldLeftExists
<1> DEFINE h == [m \in 0 .. n |-> it[1 .. m]]
<1>2. \A m \in 0 .. n : 1 .. m \in SUBSET (1 .. n)
    OBVIOUS
<1>3. h \in [0 .. n -> A]
    BY <1>1, <1>2 DEF IsFoldLeft
<1>4. h[0] = base
    <2>1. 1 .. 0 = {} /\ 0 \in 0 .. n
        OBVIOUS
    <2>2. QED  BY <1>1, <1>2, <2>1 DEF IsFoldLeft
<1>5. ASSUME NEW m \in 0 .. n, m # 0
      PROVE  h[m] = step[m][h[m - 1]]
    <2>1. m \in Nat /\ m \in 1 .. m /\ m - 1 \in 0 .. n
        BY <1>5
    <2>2. Max(1 .. m) = m /\ (1 .. m) \ {m} = 1 .. (m - 1)
        BY <1>5, <2>1, MaxOfInterval
    <2>3. it[1 .. m] = step[m][it[1 .. (m - 1)]]
        BY <1>1, <1>2, <2>1, <2>2 DEF IsFoldLeft
    <2>4. QED  BY <2>1, <2>3
<1>6. h = [m \in 0 .. n |-> IF m = 0 THEN base ELSE step[m][h[m - 1]]]
    <2> DEFINE g == [m \in 0 .. n |-> IF m = 0 THEN base ELSE step[m][h[m - 1]]]
    <2>1. \A m \in 0 .. n : h[m] = g[m]
        BY <1>4, <1>5
    <2>2. DOMAIN h = 0 .. n /\ DOMAIN g = 0 .. n
        OBVIOUS
    <2>3. h = [m \in 0 .. n |-> h[m]] /\ g = [m \in 0 .. n |-> g[m]]
        OBVIOUS
    <2> HIDE DEF h, g
    <2>4. h = g
        BY <2>1, <2>3
    <2>5. QED  BY <2>4 DEF g
<1>7. QED  BY <1>3, <1>6 DEF IsRecursion

-----------------------------------------------------------------------------
\* What a sequence holds after an append.
LEMMA Appended ==
    ASSUME NEW S, NEW q \in Seq(S), NEW x \in S
    PROVE  /\ Append(q, x) \in Seq(S)
           /\ ToSet(Append(q, x)) = ToSet(q) \cup {x}
<1>1. /\ Append(q, x) \in Seq(S) /\ DOMAIN q = 1 .. Len(q) /\ Len(q) \in Nat
      /\ DOMAIN Append(q, x) = 1 .. (Len(q) + 1)
      /\ \A i \in 1 .. Len(q) : Append(q, x)[i] = q[i]
      /\ Append(q, x)[Len(q) + 1] = x
    OBVIOUS
<1>2. \A i \in 1 .. (Len(q) + 1) : i \in 1 .. Len(q) \/ i = Len(q) + 1
    BY <1>1
<1>3. QED  BY <1>1, <1>2 DEF ToSet

\* What it holds after its head is taken.
LEMMA Taken ==
    ASSUME NEW S, NEW q \in Seq(S), q # << >>
    PROVE  /\ Head(q) \in S /\ Tail(q) \in Seq(S)
           /\ Head(q) \in ToSet(q) /\ ToSet(Tail(q)) \subseteq ToSet(q)
<1>1. /\ Head(q) \in S /\ Tail(q) \in Seq(S) /\ Len(q) \in Nat \ {0} /\ Head(q) = q[1]
      /\ DOMAIN q = 1 .. Len(q) /\ DOMAIN Tail(q) = 1 .. (Len(q) - 1)
      /\ \A i \in 1 .. (Len(q) - 1) : Tail(q)[i] = q[i + 1] /\ i + 1 \in 1 .. Len(q)
    OBVIOUS
<1>2. QED  BY <1>1 DEF ToSet

\* No element is in the sequence twice, which appending a new one and taking the head
\* leave so.
Unique(q) == \A i, j \in DOMAIN q : q[i] = q[j] => i = j

LEMMA UniqueAppended ==
    ASSUME NEW S, NEW q \in Seq(S), NEW x \in S, Unique(q), x \notin ToSet(q)
    PROVE  Unique(Append(q, x))
<1>1. /\ DOMAIN q = 1 .. Len(q) /\ Len(q) \in Nat
      /\ DOMAIN Append(q, x) = 1 .. (Len(q) + 1)
      /\ \A i \in 1 .. Len(q) : Append(q, x)[i] = q[i]
      /\ Append(q, x)[Len(q) + 1] = x
    OBVIOUS
<1>2. \A i \in 1 .. (Len(q) + 1) : i \in 1 .. Len(q) \/ i = Len(q) + 1
    BY <1>1
<1>3. QED  BY <1>1, <1>2 DEF ToSet, Unique

LEMMA UniqueTaken ==
    ASSUME NEW S, NEW q \in Seq(S), q # << >>, Unique(q)
    PROVE  Unique(Tail(q)) /\ Head(q) \notin ToSet(Tail(q))
<1>1. /\ Len(q) \in Nat \ {0} /\ Head(q) = q[1] /\ 1 \in DOMAIN q
      /\ DOMAIN q = 1 .. Len(q) /\ DOMAIN Tail(q) = 1 .. (Len(q) - 1)
      /\ \A i \in 1 .. (Len(q) - 1) :
             i \in Nat \ {0} /\ Tail(q)[i] = q[i + 1] /\ i + 1 \in 1 .. Len(q)
    OBVIOUS
<1>2. QED  BY <1>1 DEF ToSet, Unique

-----------------------------------------------------------------------------
\* What a sequence of sequences holds when it is written as one: all of theirs, and
\* nothing else.
IsFlattening(f, ss) ==
    \A i \in 1 .. Len(ss) : f[i] = IF i = 1 THEN ss[i] ELSE f[i - 1] \o ss[i]

LEMMA FlattenSeqIs ==
    ASSUME NEW S, NEW ss \in Seq(Seq(S)), ss # << >>
    PROVE  \E f : IsFlattening(f, ss) /\ FlattenSeq(ss) = f[Len(ss)]
<1> DEFINE n == Len(ss)
           step == [m \in 1 .. n |-> [q \in Seq(S) |-> q \o ss[m]]]
           Eq(f) == f = [i \in 1 .. n |-> IF i = 1 THEN ss[i] ELSE f[i - 1] \o ss[i]]
           flat == CHOOSE f : Eq(f)
<1>1. n \in Nat \ {0} /\ DOMAIN ss = 1 .. n /\ \A m \in 1 .. n : ss[m] \in Seq(S)
    OBVIOUS
<1>2. step \in [1 .. n -> [Seq(S) -> Seq(S)]] /\ << >> \in Seq(S)
    BY <1>1
<1>3. PICK h : IsRecursion(h, n, Seq(S), << >>, step)
    <2> HIDE DEF n, step
    <2>1. QED  BY <1>1, <1>2, RecursionExists
<1>4. h[0] = << >> /\ \A m \in 1 .. n : h[m] = h[m - 1] \o ss[m] /\ h[m - 1] \in Seq(S)
    <2>1. \A m \in 1 .. n : m \in 0 .. n /\ m # 0 /\ m - 1 \in 0 .. n
        BY <1>1
    <2>2. h \in [0 .. n -> Seq(S)] /\ h = [m \in 0 .. n |-> IF m = 0 THEN << >> ELSE step[m][h[m - 1]]]
        BY <1>3 DEF IsRecursion
    <2> HIDE DEF n
    <2>3. 0 \in 0 .. n
        BY <1>1
    <2>4. \A m \in 1 .. n : h[m] = step[m][h[m - 1]] /\ h[m - 1] \in Seq(S)
        BY <2>1, <2>2
    <2>5. QED  BY <2>2, <2>3, <2>4
<1> DEFINE g == [i \in 1 .. n |-> h[i]]
<1>5. Eq(g)
    <2>1. \A i \in 1 .. n : g[i] = IF i = 1 THEN ss[i] ELSE g[i - 1] \o ss[i]
        <3> SUFFICES ASSUME NEW i \in 1 .. n PROVE g[i] = IF i = 1 THEN ss[i] ELSE g[i - 1] \o ss[i]
            OBVIOUS
        <3>1. CASE i = 1
            <4>1. 1 \in 1 .. n /\ g[1] = h[1] /\ 1 - 1 = 0
                BY <1>1
            <4> HIDE DEF n, g
            <4>3. g[1] = << >> \o ss[1]
                BY <1>4, <4>1
            <4>2. << >> \o ss[1] = ss[1]
                BY <1>1, <4>1
            <4>4. QED  BY <3>1, <4>2, <4>3
        <3>2. CASE i # 1
            <4>1. i - 1 \in 1 .. n
                BY <1>1, <3>2
            <4> HIDE DEF n
            <4>2. QED  BY <1>4, <3>2, <4>1
        <3>3. QED  BY <3>1, <3>2
    <2>2. QED  BY <2>1
<1>6. Eq(flat)
    <2> HIDE DEF Eq, g
    <2>1. QED  BY <1>5
<1>7. FlattenSeq(ss) = flat[n]
    BY <1>1 DEF FlattenSeq
<1> HIDE DEF flat
<1>8. IsFlattening(flat, ss)
    BY <1>6 DEF IsFlattening
<1>9. QED  BY <1>7, <1>8

LEMMA FlattenSeqHolds ==
    ASSUME NEW S, NEW ss \in Seq(Seq(S))
    PROVE  /\ FlattenSeq(ss) \in Seq(S)
           /\ \A i \in DOMAIN FlattenSeq(ss) : \E n \in DOMAIN ss :
                 \E k \in DOMAIN ss[n] : FlattenSeq(ss)[i] = ss[n][k]
<1>1. CASE ss = << >>
    <2>1. FlattenSeq(ss) = << >>
        BY <1>1 DEF FlattenSeq
    <2>2. QED  BY <2>1
<1>2. CASE ss # << >>
    <2>1. PICK f : IsFlattening(f, ss) /\ FlattenSeq(ss) = f[Len(ss)]
        BY <1>2, FlattenSeqIs
    <2>2. Len(ss) \in Nat \ {0} /\ DOMAIN ss = 1 .. Len(ss) /\ \A n \in 1 .. Len(ss) : ss[n] \in Seq(S)
        BY <1>2
    <2> DEFINE Fine(m) == /\ f[m] \in Seq(S)
                          /\ \A i \in DOMAIN f[m] : \E n \in DOMAIN ss :
                                \E k \in DOMAIN ss[n] : f[m][i] = ss[n][k]
               Odd == {m \in 1 .. Len(ss) : ~Fine(m)}
    <2>3. \A m \in 1 .. Len(ss) : Fine(m)
        <3> SUFFICES ASSUME Odd # {} PROVE FALSE
            OBVIOUS
        <3>1. PICK m \in Odd : \A j \in Odd : m <= j
            <4>1. Odd \in SUBSET Nat
                BY <2>2
            <4> HIDE DEF Odd
            <4>2. QED  BY <4>1, LeastNat
        <3>2. m \in 1 .. Len(ss) /\ ~Fine(m)
            BY <3>1
        <3> HIDE DEF Fine
        <3>3. CASE m = 1
            <4>1. f[m] = ss[m]
                BY <2>1, <3>2, <3>3 DEF IsFlattening
            <4>2. QED  BY <2>2, <3>2, <4>1 DEF Fine
        <3>4. CASE m # 1
            <4>1. m - 1 \in 1 .. Len(ss) /\ m - 1 < m /\ m - 1 \in Int /\ m \in Int
                BY <2>2, <3>2, <3>4
            <4>2. Fine(m - 1)
                BY <3>1, <4>1
            <4>3. f[m] = f[m - 1] \o ss[m]
                BY <2>1, <3>2, <3>4 DEF IsFlattening
            <4>4. PICK a \in Seq(S) : a = f[m - 1]
                BY <4>2 DEF Fine
            <4>5. ss[m] \in Seq(S) /\ f[m] = a \o ss[m]
                BY <2>2, <3>2, <4>3, <4>4
            <4>6. /\ f[m] \in Seq(S)
                  /\ \A i \in DOMAIN f[m] :
                        \/ i \in DOMAIN a /\ f[m][i] = a[i]
                        \/ i - Len(a) \in DOMAIN ss[m] /\ f[m][i] = ss[m][i - Len(a)]
                BY <4>5
            <4>7. \A i \in DOMAIN a : \E n \in DOMAIN ss : \E k \in DOMAIN ss[n] : a[i] = ss[n][k]
                BY <4>2, <4>4 DEF Fine
            <4>8. \A i \in DOMAIN f[m] : \E n \in DOMAIN ss : \E k \in DOMAIN ss[n] : f[m][i] = ss[n][k]
                <5> SUFFICES ASSUME NEW i \in DOMAIN f[m]
                             PROVE  \E n \in DOMAIN ss : \E k \in DOMAIN ss[n] : f[m][i] = ss[n][k]
                    OBVIOUS
                <5>1. CASE i \in DOMAIN a /\ f[m][i] = a[i]
                    BY <4>7, <5>1
                <5>2. CASE i - Len(a) \in DOMAIN ss[m] /\ f[m][i] = ss[m][i - Len(a)]
                    BY <2>2, <3>2, <5>2
                <5>3. QED  BY <4>6, <5>1, <5>2
            <4>9. Fine(m)
                BY <4>6, <4>8 DEF Fine
            <4>10. QED  BY <3>2, <4>9
        <3>5. QED  BY <3>3, <3>4
    <2>4. Len(ss) \in 1 .. Len(ss)
        BY <2>2
    <2> HIDE DEF Fine
    <2>5. Fine(Len(ss))
        BY <2>3, <2>4
    <2>6. QED  BY <2>1, <2>5 DEF Fine
<1>3. QED  BY <1>1, <1>2

\* A sequence cut into its members is itself again.
LEMMA FlattenSingles ==
    ASSUME NEW S, NEW s \in Seq(S), NEW ss, ss = [i \in 1 .. Len(s) |-> <<s[i]>>]
    PROVE  ss \in Seq(Seq(S)) /\ FlattenSeq(ss) = s
<1>1. Len(s) \in Nat /\ DOMAIN s = 1 .. Len(s) /\ \A i \in 1 .. Len(s) : s[i] \in S /\ <<s[i]>> \in Seq(S)
    OBVIOUS
<1>2. ss \in Seq(Seq(S)) /\ Len(ss) = Len(s) /\ \A i \in 1 .. Len(s) : ss[i] = <<s[i]>>
    BY <1>1
<1>3. CASE s = << >>
    <2>1. Len(ss) = 0 /\ ss = << >>
        BY <1>2, <1>3
    <2>2. QED  BY <1>2, <1>3, <2>1 DEF FlattenSeq
<1>4. CASE s # << >>
    <2>1. ss # << >> /\ Len(s) # 0
        BY <1>2, <1>4
    <2>2. PICK f : IsFlattening(f, ss) /\ FlattenSeq(ss) = f[Len(s)]
        BY <1>2, <2>1, FlattenSeqIs
    <2> DEFINE Odd == {m \in 1 .. Len(s) : f[m] # SubSeq(s, 1, m)}
    <2>3. \A m \in 1 .. Len(s) : f[m] = SubSeq(s, 1, m)
        <3> SUFFICES ASSUME Odd # {} PROVE FALSE
            OBVIOUS
        <3>1. PICK m \in Odd : \A j \in Odd : m <= j
            <4>1. Odd \in SUBSET Nat
                BY <1>1
            <4> HIDE DEF Odd
            <4>2. QED  BY <4>1, LeastNat
        <3>2. m \in 1 .. Len(s) /\ f[m] # SubSeq(s, 1, m)
            BY <3>1
        <3>3. CASE m = 1
            <4>1. f[m] = <<s[1]>>
                BY <1>2, <2>2, <3>2, <3>3 DEF IsFlattening
            <4>2. SubSeq(s, 1, 1) = <<s[1]>>
                <5>1. SubSeq(s, 1, 1) \in Seq(S) /\ Len(SubSeq(s, 1, 1)) = 1 /\ SubSeq(s, 1, 1)[1] = s[1]
                    BY <1>1, <2>1
                <5>2. PICK one \in Seq(S) : one = SubSeq(s, 1, 1)
                    BY <5>1
                <5>3. Len(one) = 1 /\ one[1] = s[1] /\ <<s[1]>> \in Seq(S)
                    BY <1>1, <2>1, <5>1, <5>2
                <5>4. one = <<s[1]>>
                    BY <5>3
                <5>5. QED  BY <5>2, <5>4
            <4>3. QED  BY <3>2, <3>3, <4>1, <4>2
        <3>4. CASE m # 1
            <4>1. m - 1 \in 1 .. Len(s) /\ m - 1 < m /\ m - 1 \in Int /\ m \in Int
                BY <1>1, <3>2, <3>4
            <4>2. f[m - 1] = SubSeq(s, 1, m - 1)
                BY <3>1, <4>1
            <4>3. f[m] = f[m - 1] \o <<s[m]>>
                BY <1>2, <2>2, <3>2, <3>4 DEF IsFlattening
            <4>4. SubSeq(s, 1, m - 1) \o <<s[m]>> = SubSeq(s, 1, m)
                BY <1>1, <3>2, <4>1
            <4>5. QED  BY <3>2, <4>2, <4>3, <4>4
        <3>5. QED  BY <3>3, <3>4
    <2>4. Len(s) \in 1 .. Len(s)
        BY <1>1, <2>1
    <2>5. FlattenSeq(ss) = SubSeq(s, 1, Len(s))
        BY <2>2, <2>3, <2>4
    <2>6. QED  BY <1>2, <2>5
<1>5. QED  BY <1>3, <1>4

-----------------------------------------------------------------------------
\* What is kept of a sequence: its members at some places, in their order; the place
\* that each came from grows with it.
Places(g, s, kept, q) ==
    /\ g \in [1 .. Len(q) -> kept]
    /\ \A i \in 1 .. Len(q) : q[i] = s[g[i]]
    /\ \A i, j \in 1 .. Len(q) : i < j => g[i] < g[j]
    /\ \A k \in kept : \E i \in 1 .. Len(q) : g[i] = k

LEMMA KeptPlaces ==
    ASSUME NEW S, NEW s \in Seq(S), NEW kept \in SUBSET (DOMAIN s), NEW ss,
           ss = [n \in DOMAIN s |-> IF n \in kept THEN <<s[n]>> ELSE << >>]
    PROVE  /\ FlattenSeq(ss) \in Seq(S)
           /\ \E g : Places(g, s, kept, FlattenSeq(ss))
<1>1. DOMAIN s = 1 .. Len(s) /\ Len(s) \in Nat /\ \A i \in 1 .. Len(s) : s[i] \in S
    OBVIOUS
<1>2. PICK k \in Nat : k = Len(s)
    BY <1>1
<1>3. ss \in [1 .. k -> Seq(S)]
    BY <1>1, <1>2
<1>4. ss \in Seq(Seq(S)) /\ Len(ss) = k
    BY <1>3
<1>5. FlattenSeq(ss) \in Seq(S)
    BY <1>4, FlattenSeqHolds
<1>6. CASE k = 0
    <2>1. ss = << >>
        BY <1>4, <1>6
    <2>2. FlattenSeq(ss) = << >>
        BY <2>1 DEF FlattenSeq
    <2>3. kept = {} /\ Len(FlattenSeq(ss)) = 0
        BY <1>1, <1>2, <1>6, <2>2
    <2>4. PICK g : g = [i \in 1 .. 0 |-> i]
        OBVIOUS
    <2>5. Places(g, s, kept, FlattenSeq(ss))
        BY <2>3, <2>4 DEF Places
    <2>6. QED  BY <1>5, <2>5
<1>7. CASE k # 0
    <2>0. ss # << >>
        BY <1>4, <1>7
    <2>1. PICK f : IsFlattening(f, ss) /\ FlattenSeq(ss) = f[k]
        <3>1. \E f : IsFlattening(f, ss) /\ FlattenSeq(ss) = f[Len(ss)]
            BY <1>4, <2>0, FlattenSeqIs
        <3>2. QED  BY <1>4, <3>1
    <2> DEFINE To(m) == {n \in kept : n <= m}
               Fine(m) == f[m] \in Seq(S) /\ \E g : Places(g, s, To(m), f[m])
               Odd == {m \in 1 .. k : ~Fine(m)}
    <2>2. \A m \in 1 .. k : Fine(m)
        <3> SUFFICES ASSUME Odd # {} PROVE FALSE
            OBVIOUS
        <3>1. PICK m \in Odd : \A j \in Odd : m <= j
            <4>1. Odd \in SUBSET Nat
                OBVIOUS
            <4> HIDE DEF Odd
            <4>2. QED  BY <4>1, LeastNat
        <3>2. m \in 1 .. k /\ ~Fine(m)
            BY <3>1
        <3> HIDE DEF Fine
        <3>3. PICK a, h : /\ a \in Seq(S)
                         /\ f[m] = a \o ss[m] /\ Places(h, s, {n \in kept : n < m}, a)
            <4>1. CASE m = 1
                <5>1. f[m] = << >> \o ss[m]
                    <6>1. f[m] = ss[m] /\ ss[m] \in Seq(S)
                        BY <1>3, <1>4, <2>1, <3>2, <4>1 DEF IsFlattening
                    <6>2. QED  BY <6>1
                <5>2. {n \in kept : n < m} = {} /\ << >> \in Seq(S) /\ Len(<< >>) = 0
                    BY <1>1, <4>1
                <5>3. PICK h : h = [i \in 1 .. 0 |-> i]
                    OBVIOUS
                <5>4. Places(h, s, {n \in kept : n < m}, << >>)
                    BY <5>2, <5>3 DEF Places
                <5>5. QED  BY <5>1, <5>2, <5>4
            <4>2. CASE m # 1
                <5>1. m - 1 \in 1 .. k /\ m - 1 < m /\ m - 1 \in Int /\ m \in Int
                    BY <3>2, <4>2
                <5>2. Fine(m - 1)
                    BY <3>1, <5>1
                <5>3. {n \in kept : n < m} = To(m - 1)
                    BY <1>1, <5>1
                <5>4. f[m] = f[m - 1] \o ss[m]
                    BY <1>4, <2>1, <3>2, <4>2 DEF IsFlattening
                <5>5. QED  BY <5>2, <5>3, <5>4 DEF Fine
            <4>3. QED  BY <4>1, <4>2
        <3>4. PICK n \in Nat : n = Len(a)
            BY <3>3
        <3>5. /\ h \in [1 .. n -> {x \in kept : x < m}]
              /\ \A i \in 1 .. n : a[i] = s[h[i]]
              /\ \A i, j \in 1 .. n : i < j => h[i] < h[j]
              /\ \A x \in {x \in kept : x < m} : \E i \in 1 .. n : h[i] = x
            BY <3>3, <3>4 DEF Places
        <3>6. CASE m \notin kept
            <4>1. f[m] = a
                <5>1. ss[m] = << >>
                    BY <1>1, <1>2, <3>2, <3>6
                <5>2. a \o << >> = a
                    BY <3>3
                <5>3. QED  BY <3>3, <5>1, <5>2
            <4>2. To(m) = {x \in kept : x < m}
                BY <1>1, <3>2, <3>6
            <4>3. Fine(m)
                BY <3>3, <4>1, <4>2 DEF Fine
            <4>4. QED  BY <3>2, <4>3
        <3>7. CASE m \in kept
            <4>1. f[m] = Append(a, s[m]) /\ s[m] \in S
                <5>1. ss[m] = <<s[m]>> /\ s[m] \in S
                    BY <1>1, <1>2, <3>2, <3>7
                <5>2. a \o <<s[m]>> = Append(a, s[m])
                    BY <3>3, <5>1
                <5>3. QED  BY <3>3, <5>1, <5>2
            <4>2. PICK q : q = f[m]
                OBVIOUS
            <4>3. /\ q \in Seq(S) /\ Len(q) = n + 1 /\ q[n + 1] = s[m]
                  /\ \A i \in 1 .. n : q[i] = a[i]
                BY <3>3, <3>4, <4>1, <4>2
            <4>4. PICK g : g = [i \in 1 .. n + 1 |-> IF i = n + 1 THEN m ELSE h[i]]
                OBVIOUS
            <4>5. \A i \in 1 .. n + 1 : i = n + 1 \/ i \in 1 .. n
                BY <3>4
            <4>6. \A i \in 1 .. n : i \in 1 .. n + 1 /\ g[i] = h[i] /\ g[i] \in kept /\ g[i] < m
                <5>1. \A i \in 1 .. n : i \in 1 .. n + 1 /\ i # n + 1
                    OBVIOUS
                <5>2. \A i \in 1 .. n : h[i] \in kept /\ h[i] < m
                    BY <3>5
                <5>3. QED  BY <4>4, <5>1, <5>2
            <4>7. n + 1 \in 1 .. n + 1 /\ g[n + 1] = m
                BY <3>4, <4>4
            <4>8. g \in [1 .. n + 1 -> To(m)]
                <5>1. \A i \in 1 .. n + 1 : g[i] \in To(m)
                    BY <1>1, <3>2, <3>7, <4>5, <4>6, <4>7
                <5>2. QED  BY <4>4, <5>1
            <4>9. \A i \in 1 .. n + 1 : q[i] = s[g[i]]
                BY <3>5, <4>3, <4>5, <4>6, <4>7
            <4>10. \A i, j \in 1 .. n + 1 : i < j => g[i] < g[j]
                BY <3>4, <3>5, <4>5, <4>6, <4>7
            <4>11. \A x \in To(m) : \E i \in 1 .. n + 1 : g[i] = x
                <5>1. \A x \in To(m) : x = m \/ x \in {y \in kept : y < m}
                    BY <1>1, <3>2
                <5>2. QED  BY <3>5, <4>6, <4>7, <5>1
            <4>12. Places(g, s, To(m), q)
                BY <4>3, <4>8, <4>9, <4>10, <4>11 DEF Places
            <4>13. Fine(m)
                BY <4>2, <4>3, <4>12 DEF Fine
            <4>14. QED  BY <3>2, <4>13
        <3>8. QED  BY <3>6, <3>7
    <2>3. k \in 1 .. k
        BY <1>7
    <2>4. To(k) = kept
        BY <1>1, <1>2
    <2> HIDE DEF To
    <2>5. QED  BY <1>5, <2>1, <2>2, <2>3, <2>4
<1>8. QED  BY <1>2, <1>6, <1>7

\* As many are kept as there are places.
LEMMA KeptCount ==
    ASSUME NEW s, NEW kept, NEW q, NEW g, Len(q) \in Nat, kept \in SUBSET Nat, Places(g, s, kept, q)
    PROVE  IsFiniteSet(kept) /\ Cardinality(kept) = Len(q)
<1>1. PICK n \in Nat : n = Len(q)
    OBVIOUS
<1>2. /\ g \in [1 .. n -> kept] /\ \A k \in kept : \E i \in 1 .. n : g[i] = k
      /\ \A i, j \in 1 .. n : i < j => g[i] < g[j]
    BY <1>1 DEF Places
<1>3. \A i, j \in 1 .. n : g[i] = g[j] => i = j
    <2>1. \A i, j \in 1 .. n : i < j \/ j < i \/ i = j
        OBVIOUS
    <2>2. \A i \in 1 .. n : g[i] \in Nat
        BY <1>2
    <2>3. QED  BY <1>2, <2>1, <2>2
<1>4. g \in Bijection(1 .. n, kept)
    BY <1>2, <1>3 DEF Bijection, Injection, Surjection, IsInjective
<1>5. ExistsBijection(1 .. n, kept)
    BY <1>4 DEF ExistsBijection
<1>6. IsFiniteSet(1 .. n) /\ Cardinality(1 .. n) = n
    BY FS_Interval
<1>7. QED  BY <1>1, <1>5, <1>6, FS_Bijection

===============================================================================
