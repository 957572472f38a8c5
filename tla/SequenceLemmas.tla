-------------------------- MODULE SequenceLemmas --------------------------
(***************************************************************************)
(* What the operations on queues do to the set of their elements, and that *)
(* they keep it free of repetitions.  Every set of numbers has a least     *)
(* one: this is how a proof reaches every place of a sequence.             *)
(***************************************************************************)
EXTENDS Integers, SequencesExt, SequenceTheorems, WellFoundedInduction, TLAPS

LEMMA LeastNumber ==
  ASSUME NEW T \in SUBSET Nat, T # {}
  PROVE  \E n \in T : \A m \in T : n <= m
<1> DEFINE R == {ss \in Nat \X Nat : ss[1] < ss[2]}
<1>1. IsWellFoundedOn(R, Nat)
  BY NatLessThanWellFounded DEF OpToRel
<1>2. PICK n \in T : \A m \in T : ~ (<<m, n>> \in R)
  <2> HIDE DEF R
  <2> QED
    BY <1>1, WFMin
<1>3. \A m \in T : ~ (m < n)
  BY <1>2
<1> QED
  BY <1>3

\* No element occurs twice in q.
Unique(q) == \A i, j \in 1 .. Len(q) : q[i] = q[j] => i = j

LEMMA RangeOfEmpty == Range(<<>>) = {}
  BY DEF Range

\* Adding at the end, as queue_enqueue does.
LEMMA EnqueueRange ==
  ASSUME NEW S, NEW q \in Seq(S), NEW c \in S
  PROVE  /\ Range(Append(q, c)) = Range(q) \cup {c}
         /\ Unique(q) /\ c \notin Range(q) => Unique(Append(q, c))
<1>1. Append(q, c) \in Seq(S) /\ Len(Append(q, c)) = Len(q) + 1
      /\ Append(q, c)[Len(q) + 1] = c
      /\ \A i \in 1 .. Len(q) : Append(q, c)[i] = q[i]
  OBVIOUS
<1>2. Range(q) = {q[i] : i \in 1 .. Len(q)}
      /\ Range(Append(q, c)) = {Append(q, c)[i] : i \in 1 .. Len(q) + 1}
  BY <1>1, RangeEquality
<1>3. 1 .. Len(q) + 1 = (1 .. Len(q)) \cup {Len(q) + 1}
  OBVIOUS
<1> QED
  BY <1>1, <1>2, <1>3 DEF Unique

\* Two parts of a queue.
LEMMA ConcatRange ==
  ASSUME NEW S, NEW s \in Seq(S), NEW t \in Seq(S), Unique(s \o t)
  PROVE  /\ Range(s \o t) = Range(s) \cup Range(t)
         /\ Unique(s) /\ Unique(t) /\ Range(s) \cap Range(t) = {}
<1>1. /\ Len(s \o t) = Len(s) + Len(t) /\ Len(s) \in Nat /\ Len(t) \in Nat
      /\ \A i \in 1 .. Len(s) : (s \o t)[i] = s[i]
      /\ \A i \in 1 .. Len(t) : (s \o t)[i + Len(s)] = t[i]
  BY ConcatProperties
<1>2. /\ Range(s) = {s[i] : i \in 1 .. Len(s)} /\ Range(t) = {t[i] : i \in 1 .. Len(t)}
      /\ Range(s \o t) = Range(s) \cup Range(t)
  BY RangeEquality, RangeConcatenation
<1>3. Unique(s)
  BY <1>1 DEF Unique
<1>4. ASSUME NEW i \in 1 .. Len(t), NEW j \in 1 .. Len(t), t[i] = t[j] PROVE i = j
  <2>1. i + Len(s) \in 1 .. Len(s \o t) /\ j + Len(s) \in 1 .. Len(s \o t)
    BY <1>1
  <2>2. i + Len(s) = j + Len(s)
    BY <1>1, <1>4, <2>1 DEF Unique
  <2> QED
    BY <1>1, <2>2
<1>5. ASSUME NEW i \in 1 .. Len(s), NEW j \in 1 .. Len(t), s[i] = t[j] PROVE FALSE
  <2>1. i \in 1 .. Len(s \o t) /\ j + Len(s) \in 1 .. Len(s \o t)
    BY <1>1
  <2>2. i = j + Len(s)
    BY <1>1, <1>5, <2>1 DEF Unique
  <2> QED
    BY <1>1, <2>2
<1> QED
  BY <1>2, <1>3, <1>4, <1>5 DEF Unique

\* Taking the first n elements.
LEMMA SplitRange ==
  ASSUME NEW S, NEW q \in Seq(S), NEW n \in 0 .. Len(q)
  PROVE  LET a == SubSeq(q, 1, n)
             b == SubSeq(q, n + 1, Len(q))
         IN  /\ a \in Seq(S) /\ b \in Seq(S) /\ a \o b = q
             /\ Range(q) = Range(a) \cup Range(b)
             /\ Unique(q) => Unique(a) /\ Unique(b) /\ Range(a) \cap Range(b) = {}
<1> DEFINE a == SubSeq(q, 1, n)
           b == SubSeq(q, n + 1, Len(q))
<1>0. Len(q) \in Nat /\ n \in Int /\ n <= Len(q) /\ \A i \in 1 .. Len(q) : q[i] \in S
  OBVIOUS
<1>1. a \in Seq(S) /\ b \in Seq(S)
  BY <1>0, SubSeqProperties
<1>2. a \o b = SubSeq(q, 1, Len(q))
  <2>1. 1 \in 1 .. Len(q) + 1 /\ n \in 1 - 1 .. Len(q) /\ Len(q) \in n .. Len(q)
    BY <1>0
  <2> HIDE DEF a, b
  <2> QED
    BY <2>1, ConcatAdjacentSubSeq DEF a, b
<1>3. a \o b = q
  BY <1>2, SubSeqFull
<1> HIDE DEF a, b
<1>4. Range(q) = Range(a) \cup Range(b)
  BY <1>1, <1>3, RangeConcatenation
<1>5. Unique(q) => Unique(a) /\ Unique(b) /\ Range(a) \cap Range(b) = {}
  BY <1>1, <1>3, ConcatRange
<1> QED
  BY <1>1, <1>3, <1>4, <1>5 DEF a, b

\* Taking the element at the head, as queue_dequeue does.
LEMMA DequeueRange ==
  ASSUME NEW S, NEW q \in Seq(S), q # <<>>
  PROVE  /\ Head(q) \in Range(q) /\ Range(q) = Range(Tail(q)) \cup {Head(q)}
         /\ Unique(q) => Range(Tail(q)) = Range(q) \ {Head(q)} /\ Unique(Tail(q))
<1>1. /\ Tail(q) \in Seq(S) /\ Len(q) \in Nat \ {0} /\ Len(Tail(q)) = Len(q) - 1
      /\ Head(q) = q[1]
      /\ \A i \in 1 .. Len(q) - 1 : Tail(q)[i] = q[i + 1]
  OBVIOUS
<1>2. Range(q) = {q[i] : i \in 1 .. Len(q)}
      /\ Range(Tail(q)) = {Tail(q)[i] : i \in 1 .. Len(q) - 1}
  BY <1>1, RangeEquality
<1>3. \A i \in 2 .. Len(q) : i - 1 \in 1 .. Len(q) - 1 /\ q[i] = Tail(q)[i - 1]
  BY <1>1
<1>4. \A i \in 1 .. Len(q) - 1 : i + 1 \in 2 .. Len(q) /\ Tail(q)[i] = q[i + 1]
  BY <1>1
<1>5. Range(q) = Range(Tail(q)) \cup {Head(q)} /\ Head(q) \in Range(q)
  <2>1. ASSUME NEW x \in Range(Tail(q)) PROVE x \in Range(q)
    <3> PICK i \in 1 .. Len(q) - 1 : x = Tail(q)[i]
      BY <1>2
    <3>1. i + 1 \in 1 .. Len(q) /\ x = q[i + 1]
      BY <1>1, <1>4
    <3> QED
      BY <1>2, <3>1
  <2>2. ASSUME NEW x \in Range(q), x # Head(q) PROVE x \in Range(Tail(q))
    <3> PICK i \in 1 .. Len(q) : x = q[i]
      BY <1>2
    <3>1. i \in 2 .. Len(q)
      BY <1>1, <2>2
    <3> QED
      BY <3>1, <1>2, <1>3
  <2>3. Head(q) \in Range(q)
    BY <1>1, <1>2
  <2> QED
    BY <2>1, <2>2, <2>3
<1>6. ASSUME Unique(q) PROVE Head(q) \notin Range(Tail(q)) /\ Unique(Tail(q))
  <2>1. ASSUME NEW i \in 1 .. Len(q) - 1, Tail(q)[i] = Head(q) PROVE FALSE
    <3>1. i + 1 \in 1 .. Len(q) /\ 1 \in 1 .. Len(q) /\ q[i + 1] = q[1] /\ i + 1 # 1
      BY <1>1, <2>1
    <3> QED
      BY <3>1, <1>6 DEF Unique
  <2>2. ASSUME NEW i \in 1 .. Len(q) - 1, NEW j \in 1 .. Len(q) - 1, Tail(q)[i] = Tail(q)[j]
        PROVE  i = j
    <3>1. i + 1 \in 1 .. Len(q) /\ j + 1 \in 1 .. Len(q) /\ q[i + 1] = q[j + 1]
      BY <1>1, <2>2
    <3>2. i + 1 = j + 1
      BY <3>1, <1>6 DEF Unique
    <3> QED
      BY <3>2
  <2> QED
    BY <1>1, <1>2, <2>1, <2>2 DEF Unique
<1> QED
  BY <1>5, <1>6

\* Taking an element from anywhere.
LEMMA RemoveRange ==
  ASSUME NEW S, NEW q \in Seq(S), NEW k \in 1 .. Len(q)
  PROVE  /\ RemoveAt(q, k) \in Seq(S) /\ Len(RemoveAt(q, k)) = Len(q) - 1
         /\ q[k] \in Range(q) /\ Range(q) = Range(RemoveAt(q, k)) \cup {q[k]}
         /\ Unique(q) => Range(RemoveAt(q, k)) = Range(q) \ {q[k]} /\ Unique(RemoveAt(q, k))
<1> DEFINE a == SubSeq(q, 1, k - 1)
           b == SubSeq(q, k + 1, Len(q))
           r == RemoveAt(q, k)
<1>0. Len(q) \in Nat /\ k \in Nat \ {0} /\ k <= Len(q) /\ \A i \in 1 .. Len(q) : q[i] \in S
  OBVIOUS
<1>1. /\ a \in Seq(S) /\ Len(a) = k - 1 /\ b \in Seq(S) /\ Len(b) = Len(q) - k
      /\ \A i \in 1 .. k - 1 : a[i] = q[i]
      /\ \A i \in 1 .. Len(q) - k : b[i] = q[k + i]
  BY <1>0, SubSeqProperties
<1>2. r = a \o b
  BY DEF RemoveAt
<1> HIDE DEF a, b, r
<1>3. /\ r \in Seq(S) /\ Len(r) = Len(q) - 1
      /\ \A i \in 1 .. Len(q) - 1 : r[i] = IF i <= k - 1 THEN q[i] ELSE q[i + 1]
  <2>1. /\ r \in Seq(S) /\ Len(r) = Len(a) + Len(b)
        /\ \A i \in 1 .. Len(a) + Len(b) : r[i] = IF i <= Len(a) THEN a[i] ELSE b[i - Len(a)]
    BY <1>1, <1>2, ConcatProperties
  <2>2. Len(a) + Len(b) = Len(q) - 1
    BY <1>0, <1>1
  <2>3. ASSUME NEW i \in 1 .. Len(q) - 1
        PROVE  r[i] = IF i <= k - 1 THEN q[i] ELSE q[i + 1]
    <3>1. CASE i <= k - 1
      <4>1. i \in 1 .. k - 1 /\ i <= Len(a) /\ i \in 1 .. Len(a) + Len(b)
        BY <1>0, <1>1, <2>2, <3>1
      <4>2. r[i] = a[i]
        BY <2>1, <4>1
      <4> QED
        BY <1>1, <3>1, <4>1, <4>2
    <3>2. CASE ~ (i <= k - 1)
      <4>1. i - (k - 1) \in 1 .. Len(q) - k /\ k + (i - (k - 1)) = i + 1
        BY <1>0, <3>2
      <4> QED
        BY <1>0, <1>1, <2>1, <2>2, <3>2, <4>1
    <3> QED
      BY <3>1, <3>2
  <2> QED
    BY <2>1, <2>2, <2>3
<1>4. /\ Range(q) = {q[i] : i \in 1 .. Len(q)} /\ Range(r) = {r[i] : i \in 1 .. Len(q) - 1}
  BY <1>3, RangeEquality
<1>5. /\ \A i \in 1 .. Len(q) - 1 : \E j \in 1 .. Len(q) : j # k /\ r[i] = q[j]
      /\ \A j \in 1 .. Len(q) : j = k \/ \E i \in 1 .. Len(q) - 1 : r[i] = q[j]
  <2>1. ASSUME NEW i \in 1 .. Len(q) - 1
        PROVE  \E j \in 1 .. Len(q) : j # k /\ r[i] = q[j]
    <3>1. CASE i <= k - 1
      BY <1>0, <1>3, <3>1
    <3>2. CASE ~ (i <= k - 1)
      <4>1. i + 1 \in 1 .. Len(q) /\ i + 1 # k /\ r[i] = q[i + 1]
        BY <1>0, <1>3, <3>2
      <4> QED
        BY <4>1
    <3> QED
      BY <3>1, <3>2
  <2>2. ASSUME NEW j \in 1 .. Len(q), j # k
        PROVE  \E i \in 1 .. Len(q) - 1 : r[i] = q[j]
    <3>1. CASE j <= k - 1
      <4>1. j \in 1 .. Len(q) - 1 /\ r[j] = q[j]
        BY <1>0, <1>3, <3>1
      <4> QED
        BY <4>1
    <3>2. CASE ~ (j <= k - 1)
      <4>1. j - 1 \in 1 .. Len(q) - 1 /\ ~ (j - 1 <= k - 1) /\ (j - 1) + 1 = j
        BY <1>0, <2>2, <3>2
      <4>2. r[j - 1] = q[j]
        BY <1>3, <4>1
      <4> QED
        BY <4>1, <4>2
    <3> QED
      BY <3>1, <3>2
  <2> QED
    BY <2>1, <2>2
<1>6. q[k] \in Range(q) /\ Range(q) = Range(r) \cup {q[k]}
  BY <1>4, <1>5
<1>7. ASSUME Unique(q) PROVE q[k] \notin Range(r) /\ Unique(r)
  <2>1. q[k] \notin Range(r)
    BY <1>4, <1>5, <1>7 DEF Unique
  <2>2. ASSUME NEW i \in 1 .. Len(q) - 1, NEW j \in 1 .. Len(q) - 1, r[i] = r[j]
        PROVE  i = j
    <3> DEFINE f(x) == IF x <= k - 1 THEN x ELSE x + 1
    <3>1. f(i) \in 1 .. Len(q) /\ f(j) \in 1 .. Len(q) /\ r[i] = q[f(i)] /\ r[j] = q[f(j)]
      BY <1>0, <1>3
    <3>2. f(i) = f(j)
      BY <3>1, <2>2, <1>7 DEF Unique
    <3> QED
      BY <1>0, <3>2
  <2> QED
    BY <1>3, <2>1, <2>2 DEF Unique
<1> QED
  BY <1>3, <1>6, <1>7 DEF r

\* Adding at the front, as hashmap_put does.
LEMMA PushRange ==
  ASSUME NEW S, NEW q \in Seq(S), NEW c \in S
  PROVE  /\ <<c>> \o q \in Seq(S) /\ Range(<<c>> \o q) = Range(q) \cup {c}
         /\ Unique(q) /\ c \notin Range(q) => Unique(<<c>> \o q)
<1> DEFINE r == <<c>> \o q
<1>1. <<c>> \in Seq(S) /\ Len(<<c>>) = 1 /\ <<c>>[1] = c /\ Len(q) \in Nat
  OBVIOUS
<1>2. /\ r \in Seq(S) /\ Len(r) = 1 + Len(q) /\ r[1] = c
      /\ \A i \in 1 .. Len(q) : r[i + 1] = q[i]
  <2>1. /\ r \in Seq(S) /\ Len(r) = 1 + Len(q)
        /\ \A i \in 1 .. 1 + Len(q) : r[i] = IF i <= 1 THEN <<c>>[i] ELSE q[i - 1]
    BY <1>1, ConcatProperties
  <2> HIDE DEF r
  <2>2. r[1] = c
    BY <1>1, <2>1
  <2>3. ASSUME NEW i \in 1 .. Len(q) PROVE r[i + 1] = q[i]
    <3>1. i + 1 \in 1 .. 1 + Len(q) /\ ~ (i + 1 <= 1) /\ (i + 1) - 1 = i
      BY <1>1
    <3> QED
      BY <2>1, <3>1
  <2> QED
    BY <2>1, <2>2, <2>3
<1>3. Range(q) = {q[i] : i \in 1 .. Len(q)} /\ Range(<<c>>) = {c}
  <2>1. Range(<<c>>) = {<<c>>[i] : i \in 1 .. 1}
    BY <1>1, RangeEquality
  <2> QED
    BY <1>1, <2>1, RangeEquality
<1>4. Range(r) = Range(q) \cup {c}
  <2> DEFINE a == <<c>>
  <2>1. a \in Seq(S) /\ Range(a) = {c}
    BY <1>1, <1>3
  <2> HIDE DEF a
  <2>2. Range(a \o q) = Range(a) \cup Range(q)
    BY <2>1, RangeConcatenation
  <2> QED
    BY <2>1, <2>2 DEF a
<1> HIDE DEF r
<1>5. ASSUME Unique(q), c \notin Range(q), NEW i \in 1 .. Len(r), NEW j \in 1 .. Len(r),
             r[i] = r[j]
      PROVE  i = j
  <2>1. ASSUME NEW k \in 1 .. Len(r), k # 1
        PROVE  k - 1 \in 1 .. Len(q) /\ r[k] = q[k - 1]
    <3>1. k - 1 \in 1 .. Len(q) /\ (k - 1) + 1 = k
      BY <1>1, <1>2, <2>1
    <3> QED
      BY <1>2, <3>1
  <2>2. CASE i # 1 /\ j # 1
    <3>1. i - 1 \in 1 .. Len(q) /\ j - 1 \in 1 .. Len(q) /\ q[i - 1] = q[j - 1]
      BY <1>5, <2>1, <2>2
    <3>2. i - 1 = j - 1
      BY <1>5, <3>1 DEF Unique
    <3> QED
      BY <1>2, <3>2
  <2>3. CASE i = 1 \/ j = 1
    BY <1>2, <1>3, <1>5, <2>1, <2>3
  <2> QED
    BY <2>2, <2>3
<1> QED
  BY <1>2, <1>4, <1>5 DEF Unique, r

\* Taking out the first element that is e, as hashmap_remove does.
LEMMA RemoveFirstRange ==
  ASSUME NEW S, NEW q \in Seq(S), NEW e, Unique(q)
  PROVE  /\ RemoveFirst(q, e) \in Seq(S) /\ Unique(RemoveFirst(q, e))
         /\ Range(RemoveFirst(q, e)) = Range(q) \ {e}
<1> DEFINE I == {i \in 1 .. Len(q) : q[i] = e}
<1>1. Range(q) = {q[i] : i \in 1 .. Len(q)}
  BY RangeEquality
<1>2. CASE I = {}
  <2>1. RemoveFirst(q, e) = q
    BY <1>2 DEF RemoveFirst
  <2> QED
    BY <1>1, <1>2, <2>1
<1>3. CASE I # {}
  <2>1. I \subseteq Nat
    OBVIOUS
  <2>2. \E n \in I : \A m \in I : n <= m
    <3> HIDE DEF I
    <3> QED
      BY <1>3, <2>1, LeastNumber
  <2>3. Min(I) \in I
    BY <2>2 DEF Min
  <2>4. RemoveFirst(q, e) = RemoveAt(q, Min(I))
    BY <1>3 DEF RemoveFirst, SelectInSeq
  <2>5. Min(I) \in 1 .. Len(q) /\ q[Min(I)] = e
    BY <2>3
  <2> HIDE DEF I
  <2> QED
    BY <2>4, <2>5, RemoveRange
<1> QED
  BY <1>2, <1>3

(***************************************************************************)
(* A loop over n places that puts each value but null into a queue, as     *)
(* find_http does with the links of a page: f[i] is the queue after i of   *)
(* them.  There is such a function, and whichever it is, it holds what was *)
(* met and is not null.                                                    *)
(***************************************************************************)
Gathers(f, L, n, null) ==
  f = [i \in 0 .. n |-> IF i = 0 THEN <<>>
                        ELSE IF L[i] = null THEN f[i - 1] ELSE Append(f[i - 1], L[i])]

LEMMA GatheredRange ==
  ASSUME NEW null, NEW n \in Nat, NEW L, NEW f, Gathers(f, L, n, null)
  PROVE  LET S == {L[j] : j \in 1 .. n} \ {null}
         IN  f[n] \in Seq(S) /\ Range(f[n]) = S
<1> DEFINE S == {L[j] : j \in 1 .. n} \ {null}
           Right(i) == f[i] \in Seq(S) /\ Range(f[i]) = {L[j] : j \in 1 .. i} \ {null}
           T == {i \in 0 .. n : ~ Right(i)}
<1>0. \A i \in 0 .. n : f[i] = IF i = 0 THEN <<>>
                               ELSE IF L[i] = null THEN f[i - 1] ELSE Append(f[i - 1], L[i])
  BY DEF Gathers
<1> SUFFICES ASSUME T # {} PROVE FALSE
  <2>1. n \in 0 .. n
    OBVIOUS
  <2> QED
    BY <2>1
<1>1. PICK k \in T : \A m \in T : k <= m
  <2>1. T \subseteq Nat
    OBVIOUS
  <2> HIDE DEF T
  <2> QED
    BY <2>1, LeastNumber
<1>2. k \in 0 .. n /\ ~ Right(k)
  OBVIOUS
<1>3. CASE k = 0
  <2>1. f[0] = <<>> /\ Range(f[0]) = {} /\ {L[j] : j \in 1 .. 0} = {}
    BY <1>0, RangeOfEmpty
  <2> QED
    BY <1>2, <1>3, <2>1
<1>4. CASE k # 0
  <2>1. k - 1 \in 0 .. n /\ k - 1 \notin T /\ k \in 1 .. n
    <3>1. k - 1 \in 0 .. n /\ k \in 1 .. n /\ ~ (k <= k - 1)
      BY <1>2, <1>4
    <3> HIDE DEF T
    <3> QED
      BY <1>1, <3>1
  <2>2. f[k - 1] \in Seq(S) /\ Range(f[k - 1]) = {L[j] : j \in 1 .. k - 1} \ {null}
    BY <2>1
  <2>3. 1 .. k = (1 .. k - 1) \cup {k}
    BY <2>1
  <2>4. {L[j] : j \in 1 .. k} = {L[j] : j \in 1 .. k - 1} \cup {L[k]}
    BY <2>3
  <2>5. f[k] = IF L[k] = null THEN f[k - 1] ELSE Append(f[k - 1], L[k])
    BY <1>0, <1>2, <1>4
  <2>6. CASE L[k] = null
    BY <1>2, <2>2, <2>4, <2>5, <2>6
  <2>7. CASE L[k] # null
    <3>1. L[k] \in S
      BY <2>1, <2>7
    <3> HIDE DEF S
    <3>2. f[k] \in Seq(S) /\ Range(f[k]) = Range(f[k - 1]) \cup {L[k]}
      BY <2>2, <2>5, <2>7, <3>1, EnqueueRange
    <3> QED
      BY <1>2, <2>2, <2>4, <2>7, <3>2
  <2> QED
    BY <2>6, <2>7
<1> QED
  BY <1>3, <1>4

LEMMA GatherExists ==
  ASSUME NEW null, NEW n \in Nat, NEW L
  PROVE  \E f : Gathers(f, L, n, null)
<1> DEFINE T == {k \in 0 .. n : ~ \E f : Gathers(f, L, k, null)}
<1> SUFFICES ASSUME T # {} PROVE FALSE
  OBVIOUS
<1>1. PICK k \in T : \A m \in T : k <= m
  <2>1. T \subseteq Nat
    OBVIOUS
  <2> HIDE DEF T
  <2> QED
    BY <2>1, LeastNumber
<1>2. k \in 0 .. n /\ ~ \E f : Gathers(f, L, k, null)
  OBVIOUS
<1>3. CASE k = 0
  <2> DEFINE h == [i \in 0 .. 0 |-> <<>>]
  <2>1. Gathers(h, L, 0, null)
    BY DEF Gathers
  <2> QED
    BY <1>2, <1>3, <2>1
<1>4. CASE k # 0
  <2>1. k - 1 \in 0 .. n /\ k - 1 \notin T
    BY <1>1, <1>2, <1>4
  <2>2. PICK g : Gathers(g, L, k - 1, null)
    BY <2>1
  <2> DEFINE x == IF L[k] = null THEN g[k - 1] ELSE Append(g[k - 1], L[k])
             h == [i \in 0 .. k |-> IF i = k THEN x ELSE g[i]]
  <2>3. \A i \in 0 .. k - 1 : g[i] = IF i = 0 THEN <<>>
                                     ELSE IF L[i] = null THEN g[i - 1] ELSE Append(g[i - 1], L[i])
    BY <2>2 DEF Gathers
  <2>4. x = IF L[k] = null THEN g[k - 1] ELSE Append(g[k - 1], L[k])
    OBVIOUS
  <2> HIDE DEF x
  <2>5. \A i \in 0 .. k : h[i] = IF i = k THEN x ELSE g[i]
    OBVIOUS
  <2>6. h = [i \in 0 .. k |-> h[i]]
    OBVIOUS
  <2> HIDE DEF h
  <2>7. ASSUME NEW i \in 0 .. k
        PROVE  h[i] = IF i = 0 THEN <<>>
                      ELSE IF L[i] = null THEN h[i - 1] ELSE Append(h[i - 1], L[i])
    <3>1. CASE i = k
      <4>1. h[i] = x /\ h[k - 1] = g[k - 1] /\ i # 0
        BY <1>2, <1>4, <2>5, <3>1
      <4> QED
        BY <2>4, <3>1, <4>1
    <3>2. CASE i # k /\ i # 0
      <4>1. i \in 0 .. k - 1 /\ i - 1 \in 0 .. k /\ i - 1 # k
        BY <1>2, <3>2
      <4>2. h[i] = g[i] /\ h[i - 1] = g[i - 1]
        BY <2>5, <3>2, <4>1
      <4> QED
        BY <2>3, <3>2, <4>1, <4>2
    <3>3. CASE i # k /\ i = 0
      <4>1. i \in 0 .. k - 1 /\ h[i] = g[i]
        BY <1>2, <2>5, <3>3
      <4> QED
        BY <2>3, <3>3, <4>1
    <3> QED
      BY <3>1, <3>2, <3>3
  <2>8. Gathers(h, L, k, null)
    <3>1. h = [i \in 0 .. k |-> IF i = 0 THEN <<>>
                                ELSE IF L[i] = null THEN h[i - 1] ELSE Append(h[i - 1], L[i])]
      BY <2>6, <2>7
    <3> QED
      BY <3>1 DEF Gathers
  <2> QED
    BY <1>2, <2>8
<1> QED
  BY <1>3, <1>4
=============================================================================
