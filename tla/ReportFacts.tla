----------------------------- MODULE ReportFacts -----------------------------
(***************************************************************************)
(* What the models of the redirect take from finite sets and queues.  The  *)
(* virtual devices put the events of a report into some order (SetToSeq).  *)
(* A queue of events moves a level, such as whether a key is down, from    *)
(* the level its reader sees to the level its writer left (Run), and holds *)
(* each event some number of times (Count).                                *)
(***************************************************************************)
EXTENDS Naturals, FiniteSets, Sequences, SequencesExt, FiniteSetTheorems,
        SequenceTheorems, TLAPS

\* Putting a finite set in order yields a sequence of its elements.
LEMMA SetToSeqIsSeq ==
    ASSUME NEW S, IsFiniteSet(S)
    PROVE  SetToSeq(S) \in Seq(S)
<1>1. Cardinality(S) \in Nat /\ ExistsBijection(1..Cardinality(S), S)
    BY FS_CardinalityType
<1>2. \E f \in [1..Cardinality(S) -> S] : IsInjective(f)
    BY <1>1 DEF ExistsBijection, Bijection, Injection
<1>3. SetToSeq(S) \in [1..Cardinality(S) -> S]
    BY <1>2, Zenon DEF SetToSeq
<1> QED BY <1>1, <1>3, IsASeq

\* ... in which every element has one place.
LEMMA SetToSeqOnce ==
    ASSUME NEW S, IsFiniteSet(S)
    PROVE  /\ SetToSeq(S) \in Seq(S)
           /\ \A i, j \in 1..Len(SetToSeq(S)) : SetToSeq(S)[i] = SetToSeq(S)[j] => i = j
           /\ \A x \in S : \E i \in 1..Len(SetToSeq(S)) : SetToSeq(S)[i] = x
<1> DEFINE n == Cardinality(S)
           q == SetToSeq(S)
<1>1. n \in Nat /\ ExistsBijection(1..n, S)
    BY FS_CardinalityType
<1>2. \E f \in [1..n -> S] : IsInjective(f)
    BY <1>1 DEF ExistsBijection, Bijection, Injection
<1>3. q \in [1..n -> S] /\ IsInjective(q)
    BY <1>2, Zenon DEF SetToSeq
<1>4. q \in Seq(S)
    BY SetToSeqIsSeq
<1>5. Len(q) = n
    BY <1>1, <1>3, <1>4, LenProperties
<1>6. \A i, j \in 1..Len(q) : q[i] = q[j] => i = j
    BY <1>3, <1>5 DEF IsInjective
<1>7. q \in Surjection(1..n, S)
    <2>1. q \in Injection(1..n, S)
        BY <1>3 DEF Injection
    <2>2. IsFiniteSet(1..n) /\ Cardinality(1..n) = n
        BY <1>1, FS_Interval
    <2> HIDE DEF n, q
    <2> QED BY <2>1, <2>2, FS_Injection DEF n
<1> QED BY <1>4, <1>5, <1>6, <1>7 DEF Surjection

-----------------------------------------------------------------------------
(***************************************************************************)
(* A run: the queue q takes a level of S from one value to another, each   *)
(* event by a step of M.                                                   *)
(***************************************************************************)
Run(M, S, q, from, to) ==
    \E level \in [0..Len(q) -> S] :
        /\ level[0] = from /\ level[Len(q)] = to
        /\ \A i \in 1..Len(q) : <<level[i - 1], q[i], level[i]>> \in M

\* An empty queue leaves the level where it is.
LEMMA RunEmpty ==
    ASSUME NEW M, NEW S, NEW from \in S, NEW to
    PROVE  Run(M, S, <<>>, from, to) <=> to = from
<1>1. Len(<<>>) = 0
    OBVIOUS
<1>2. ASSUME to = from
      PROVE  Run(M, S, <<>>, from, to)
    <2> DEFINE level == [i \in 0..0 |-> from]
    <2>1. level \in [0..Len(<<>>) -> S] /\ level[0] = from
        BY <1>1
    <2> HIDE DEF level
    <2> QED BY <1>1, <1>2, <2>1 DEF Run
<1>3. ASSUME Run(M, S, <<>>, from, to)
      PROVE  to = from
    BY <1>1, <1>3 DEF Run
<1> QED BY <1>2, <1>3

\* Both ends of a run are levels.
LEMMA RunEnds ==
    ASSUME NEW M, NEW S, NEW E, NEW q \in Seq(E), NEW from, NEW to, Run(M, S, q, from, to)
    PROVE  from \in S /\ to \in S
<1>1. PICK level \in [0..Len(q) -> S] : level[0] = from /\ level[Len(q)] = to
    BY DEF Run
<1>2. 0 \in 0..Len(q) /\ Len(q) \in 0..Len(q)
    BY LenProperties
<1> QED BY <1>1, <1>2

\* Who takes the head of the queue sees the level move by that event.
LEMMA RunTail ==
    ASSUME NEW M, NEW S, NEW E, NEW q \in Seq(E), q /= <<>>, NEW from, NEW to,
           Run(M, S, q, from, to)
    PROVE  \E mid \in S : <<from, Head(q), mid>> \in M /\ Run(M, S, Tail(q), mid, to)
<1> DEFINE n == Len(q)
<1>1. n \in Nat /\ n >= 1
    BY EmptySeq, LenProperties
<1>2. PICK level \in [0..n -> S] :
         /\ level[0] = from /\ level[n] = to
         /\ \A i \in 1..n : <<level[i - 1], q[i], level[i]>> \in M
    BY DEF Run
<1>3. Len(Tail(q)) = n - 1 /\ (\A i \in 1..(n - 1) : Tail(q)[i] = q[i + 1]) /\ Head(q) = q[1]
    BY HeadTailProperties
<1> HIDE DEF n
<1> DEFINE rest == [i \in 0..(n - 1) |-> level[i + 1]]
<1>4. rest \in [0..(n - 1) -> S] /\ rest[0] = level[1] /\ rest[n - 1] = to
    BY <1>1, <1>2
<1>5. \A i \in 1..(n - 1) : <<rest[i - 1], Tail(q)[i], rest[i]>> \in M
    <2> TAKE i \in 1..(n - 1)
    <2>1. rest[i - 1] = level[i] /\ rest[i] = level[i + 1]
        BY <1>1
    <2>2. i + 1 \in 1..n /\ (i + 1) - 1 = i
        BY <1>1
    <2> QED BY <1>2, <1>3, <2>1, <2>2
<1> HIDE DEF rest
<1>6. Run(M, S, Tail(q), level[1], to)
    BY <1>3, <1>4, <1>5 DEF Run
<1>7. level[1] \in S /\ <<from, Head(q), level[1]>> \in M
    BY <1>1, <1>2, <1>3
<1> QED BY <1>6, <1>7

\* A run that goes on where another has ended.
LEMMA RunConcat ==
    ASSUME NEW M, NEW S, NEW E, NEW p \in Seq(E), NEW q \in Seq(E), NEW from, NEW mid, NEW to,
           Run(M, S, p, from, mid), Run(M, S, q, mid, to)
    PROVE  Run(M, S, p \o q, from, to)
<1> DEFINE m == Len(p)
           n == Len(q)
           pq == p \o q
<1>1. m \in Nat /\ n \in Nat
    BY LenProperties
<1>2. /\ Len(pq) = m + n
      /\ \A i \in 1..(m + n) : pq[i] = IF i <= m THEN p[i] ELSE q[i - m]
    BY ConcatProperties
<1>3. PICK a \in [0..m -> S] :
         /\ a[0] = from /\ a[m] = mid
         /\ \A i \in 1..m : <<a[i - 1], p[i], a[i]>> \in M
    BY DEF Run
<1>4. PICK b \in [0..n -> S] :
         /\ b[0] = mid /\ b[n] = to
         /\ \A i \in 1..n : <<b[i - 1], q[i], b[i]>> \in M
    BY DEF Run
<1> HIDE DEF m, n, pq
<1> DEFINE level == [i \in 0..(m + n) |-> IF i <= m THEN a[i] ELSE b[i - m]]
<1>5. level \in [0..(m + n) -> S] /\ level[0] = from /\ level[m + n] = to
    <2>1. \A i \in 0..(m + n) : level[i] \in S
        BY <1>1, <1>3, <1>4
    <2>2. level[m + n] = to
        BY <1>1, <1>3, <1>4
    <2> QED BY <1>1, <1>3, <2>1, <2>2
<1>6. \A i \in 1..(m + n) : <<level[i - 1], pq[i], level[i]>> \in M
    <2> TAKE i \in 1..(m + n)
    <2>1. CASE i <= m
        BY <1>1, <1>2, <1>3, <2>1
    <2>2. CASE i > m
        <3>1. i - m \in 1..n /\ (i - 1) - m = (i - m) - 1
            BY <1>1, <2>2
        <3>2. level[i] = b[i - m] /\ pq[i] = q[i - m]
            BY <1>1, <1>2, <2>2
        <3>3. level[i - 1] = b[(i - m) - 1]
            <4>1. CASE i - 1 = m
                BY <1>1, <1>3, <1>4, <4>1
            <4>2. CASE i - 1 > m
                BY <1>1, <3>1, <4>2
            <4> QED BY <1>1, <2>2, <4>1, <4>2
        <3> QED BY <1>4, <3>1, <3>2, <3>3
    <2> QED BY <1>1, <2>1, <2>2
<1> HIDE DEF level
<1> QED BY <1>2, <1>5, <1>6 DEF Run, pq

\* One more event at the end of the queue.
LEMMA RunAppend ==
    ASSUME NEW M, NEW S, NEW E, NEW q \in Seq(E), NEW e \in E, NEW from, NEW mid, NEW to \in S,
           Run(M, S, q, from, mid), <<mid, e, to>> \in M
    PROVE  Run(M, S, Append(q, e), from, to)
<1>1. mid \in S
    BY RunEnds
<1>2. Run(M, S, <<e>>, mid, to)
    <2> DEFINE level == [i \in 0..1 |-> IF i = 0 THEN mid ELSE to]
    <2>1. level \in [0..1 -> S] /\ level[0] = mid /\ level[1] = to
        BY <1>1
    <2>2. Len(<<e>>) = 1 /\ <<e>>[1] = e
        OBVIOUS
    <2>3. \A i \in 1..1 : i = 1
        OBVIOUS
    <2> HIDE DEF level
    <2> QED BY <2>1, <2>2, <2>3 DEF Run
<1>3. <<e>> \in Seq(E)
    OBVIOUS
<1> QED BY <1>2, <1>3, RunConcat, AppendIsConcat

\* A queue of events that do not concern the level.
LEMMA RunStays ==
    ASSUME NEW M, NEW S, NEW E, NEW q \in Seq(E), NEW s \in S,
           \A i \in 1..Len(q) : <<s, q[i], s>> \in M
    PROVE  Run(M, S, q, s, s)
<1> DEFINE level == [i \in 0..Len(q) |-> s]
<1>1. level \in [0..Len(q) -> S] /\ level[0] = s /\ level[Len(q)] = s
    BY LenProperties
<1>2. \A i \in 1..Len(q) : level[i - 1] = s /\ level[i] = s
    BY LenProperties
<1> HIDE DEF level
<1> QED BY <1>1, <1>2 DEF Run

\* A queue in which one event moves the level and no other concerns it.
LEMMA RunMovesOnce ==
    ASSUME NEW M, NEW S, NEW E, NEW q \in Seq(E), NEW s \in S, NEW t \in S,
           NEW k \in 1..Len(q), <<s, q[k], t>> \in M,
           \A i \in 1..Len(q) : i /= k => <<s, q[i], s>> \in M /\ <<t, q[i], t>> \in M
    PROVE  Run(M, S, q, s, t)
<1> DEFINE n == Len(q)
           level == [i \in 0..n |-> IF i < k THEN s ELSE t]
<1>1. n \in Nat
    BY LenProperties
<1>2. level \in [0..n -> S] /\ level[0] = s /\ level[n] = t
    BY <1>1
<1>3. \A i \in 1..n : <<level[i - 1], q[i], level[i]>> \in M
    <2> TAKE i \in 1..n
    <2>1. CASE i < k
        <3>1. level[i - 1] = s /\ level[i] = s
            BY <1>1, <2>1
        <3>2. i /= k
            BY <2>1
        <3>3. <<s, q[i], s>> \in M
            BY <3>2
        <3> QED BY <3>1, <3>3
    <2>2. CASE i = k
        BY <1>1, <2>2
    <2>3. CASE i > k
        <3>1. level[i - 1] = t /\ level[i] = t
            BY <1>1, <2>3
        <3>2. i /= k
            BY <2>3
        <3>3. <<t, q[i], t>> \in M
            BY <3>2
        <3> QED BY <3>1, <3>3
    <2> QED BY <1>1, <2>1, <2>2, <2>3
<1> HIDE DEF level
<1> QED BY <1>2, <1>3 DEF Run

-----------------------------------------------------------------------------
\* How often an event waits in a queue.
Count(q, e) == Cardinality({i \in DOMAIN q : q[i] = e})

LEMMA CountType ==
    ASSUME NEW E, NEW q \in Seq(E), NEW e
    PROVE  IsFiniteSet({i \in DOMAIN q : q[i] = e}) /\ Count(q, e) \in Nat
<1>1. IsFiniteSet(DOMAIN q)
    <2>1. DOMAIN q = 1..Len(q) /\ Len(q) \in Nat
        BY LenProperties
    <2> QED BY <2>1, FS_Interval
<1>2. IsFiniteSet({i \in DOMAIN q : q[i] = e})
    BY <1>1, FS_Subset
<1> QED BY <1>2, FS_CardinalityType DEF Count

LEMMA CountEmpty == \A e : Count(<<>>, e) = 0
<1> TAKE e
<1>1. {i \in DOMAIN <<>> : <<>>[i] = e} = {}
    OBVIOUS
<1> QED BY <1>1, FS_EmptySet DEF Count

\* An event waits in a queue exactly when it is counted there.
LEMMA CountPositive ==
    ASSUME NEW E, NEW q \in Seq(E), NEW e
    PROVE  Count(q, e) > 0 <=> \E i \in 1..Len(q) : q[i] = e
<1> DEFINE X == {i \in DOMAIN q : q[i] = e}
<1>1. DOMAIN q = 1..Len(q)
    BY LenProperties
<1>2. IsFiniteSet(X) /\ Cardinality(X) \in Nat
    BY CountType DEF Count
<1>3. Cardinality(X) = 0 <=> X = {}
    BY <1>2, FS_EmptySet
<1> QED BY <1>1, <1>2, <1>3 DEF Count

\* Every event that is counted at one place only.
LEMMA CountOne ==
    ASSUME NEW E, NEW q \in Seq(E), NEW k \in 1..Len(q),
           \A i \in 1..Len(q) : q[i] = q[k] => i = k
    PROVE  Count(q, q[k]) = 1
<1>1. {i \in DOMAIN q : q[i] = q[k]} = {k}
    BY LenProperties
<1> QED BY <1>1, FS_Singleton DEF Count

\* The counts of two queues add up.
LEMMA CountConcat ==
    ASSUME NEW E, NEW p \in Seq(E), NEW q \in Seq(E), NEW e
    PROVE  Count(p \o q, e) = Count(p, e) + Count(q, e)
<1> DEFINE m == Len(p)
           n == Len(q)
           pq == p \o q
           A == {i \in DOMAIN p : p[i] = e}
           B == {i \in DOMAIN q : q[i] = e}
           D == {i \in (m + 1)..(m + n) : q[i - m] = e}
<1>1. m \in Nat /\ n \in Nat /\ DOMAIN p = 1..m /\ DOMAIN q = 1..n
    BY LenProperties
<1>2. /\ DOMAIN pq = 1..(m + n)
      /\ \A i \in 1..(m + n) : pq[i] = IF i <= m THEN p[i] ELSE q[i - m]
    BY ConcatProperties, LenProperties
<1>3. IsFiniteSet(A) /\ IsFiniteSet(B)
    BY CountType
<1>4. ExistsBijection(B, D)
    <2> DEFINE f == [i \in B |-> i + m]
    <2>1. f \in [B -> D]
        BY <1>1
    <2>2. IsInjective(f)
        BY <1>1 DEF IsInjective
    <2>3. \A d \in D : d - m \in B /\ f[d - m] = d
        BY <1>1
    <2>4. f \in Surjection(B, D)
        BY <2>1, <2>3, Zenon DEF Surjection
    <2>5. f \in Injection(B, D)
        BY <2>1, <2>2, Zenon DEF Injection
    <2> QED BY <2>4, <2>5, Zenon DEF ExistsBijection, Bijection
<1>5. IsFiniteSet(D) /\ Cardinality(D) = Cardinality(B)
    BY <1>3, <1>4, FS_Bijection
<1>6. {i \in DOMAIN pq : pq[i] = e} = A \cup D /\ A \cap D = {}
    <2> HIDE DEF m, n, pq
    <2> QED BY <1>1, <1>2
<1>7. Cardinality(A \cup D) = Cardinality(A) + Cardinality(D)
    <2>1. Cardinality(A \cup D)
            = Cardinality(A) + Cardinality(D) - Cardinality(A \cap D)
        <3> HIDE DEF A, D
        <3> QED BY <1>3, <1>5, FS_Union
    <2>2. Cardinality(A \cap D) = 0
        BY <1>6, FS_EmptySet
    <2>3. Cardinality(A) \in Nat /\ Cardinality(D) \in Nat
        BY <1>3, <1>5, FS_CardinalityType
    <2> HIDE DEF A, D
    <2> QED BY <2>1, <2>2, <2>3
<1> QED BY <1>5, <1>6, <1>7 DEF Count

LEMMA CountSingle ==
    ASSUME NEW x, NEW e
    PROVE  Count(<<x>>, e) = IF x = e THEN 1 ELSE 0
<1>1. DOMAIN <<x>> = {1} /\ <<x>>[1] = x
    OBVIOUS
<1>2. {i \in DOMAIN <<x>> : <<x>>[i] = e} = IF x = e THEN {1} ELSE {}
    BY <1>1
<1> QED BY <1>2, FS_Singleton, FS_EmptySet DEF Count

LEMMA CountAppend ==
    ASSUME NEW E, NEW q \in Seq(E), NEW x \in E, NEW e
    PROVE  Count(Append(q, x), e) = Count(q, e) + (IF x = e THEN 1 ELSE 0)
<1>1. <<x>> \in Seq(E)
    OBVIOUS
<1>2. Append(q, x) = q \o <<x>>
    BY AppendIsConcat
<1>3. Count(q \o <<x>>, e) = Count(q, e) + Count(<<x>>, e)
    BY <1>1, CountConcat
<1> QED BY <1>2, <1>3, CountSingle

LEMMA CountHeadTail ==
    ASSUME NEW E, NEW q \in Seq(E), q /= <<>>, NEW e
    PROVE  Count(q, e) = (IF Head(q) = e THEN 1 ELSE 0) + Count(Tail(q), e)
<1>1. Head(q) \in E /\ Tail(q) \in Seq(E)
    BY HeadTailProperties
<1>2. <<Head(q)>> \in Seq(E)
    BY <1>1
<1>3. q = <<Head(q)>> \o Tail(q)
    <2>1. q \in Seq(E) /\ Len(q) >= 1 /\ Len(q) \in Nat
        BY EmptySeq, LenProperties
    <2>2. 1 \in 1..Len(q) /\ Len(q) \in 1..Len(q)
        BY <2>1
    <2>3. SubSeq(q, 1, Len(q)) = <<q[1]>> \o SubSeq(q, 1 + 1, Len(q))
        BY <2>2, SubSeqRecursiveFirst
    <2>4. SubSeq(q, 1, Len(q)) = q
        BY SubSeqFull
    <2>5. Tail(q) = SubSeq(q, 2, Len(q))
        BY TailIsSubSeq
    <2>6. Head(q) = q[1]
        OBVIOUS
    <2> QED BY <2>3, <2>4, <2>5, <2>6
<1>4. Count(<<Head(q)>> \o Tail(q), e) = Count(<<Head(q)>>, e) + Count(Tail(q), e)
    BY <1>1, <1>2, CountConcat
<1>5. Count(<<Head(q)>>, e) = IF Head(q) = e THEN 1 ELSE 0
    BY CountSingle
<1> QED BY <1>3, <1>4, <1>5
=============================================================================
