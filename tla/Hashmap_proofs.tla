--------------------------- MODULE Hashmap_proofs ---------------------------
(***************************************************************************)
(* Proofs about Hashmap, for any number of buckets, any strings, and any   *)
(* width of a size_t.                                                      *)
(***************************************************************************)
EXTENDS Hashmap, FiniteSetTheorems, SequenceLemmas

(***************************************************************************)
(* A size_t that is counted in, from wherever it is.                       *)
(***************************************************************************)
LEMMA RemainderIsUnique ==
  ASSUME NEW M \in Nat \ {0}, NEW p \in Int, NEW q \in Int,
         NEW r \in 0 .. M - 1, NEW s \in 0 .. M - 1, M * p + r = M * q + s
  PROVE  r = s
<1>1. p = q \/ p >= q + 1 \/ q >= p + 1
  OBVIOUS
<1>2. CASE p >= q + 1
  <2>1. M * (p - q) >= M /\ M * (p - q) = s - r
    BY <1>2
  <2> QED
    BY <2>1
<1>3. CASE q >= p + 1
  <2>1. M * (q - p) >= M /\ M * (q - p) = r - s
    BY <1>3
  <2> QED
    BY <2>1
<1> QED
  BY <1>1, <1>2, <1>3

LEMMA RemainderOfSum ==
  ASSUME NEW M \in Nat \ {0}, NEW a \in Int, NEW d \in Int
  PROVE  ((a % M) + d) % M = (a + d) % M
<1> DEFINE r == a % M
           s == (r + d) % M
           t == (a + d) % M
           p == a \div M
           q == (r + d) \div M
           o == (a + d) \div M
<1>1. r \in 0 .. M - 1 /\ p \in Int /\ a = M * p + r
  OBVIOUS
<1>2. r + d \in Int
  BY <1>1
<1>3. s \in 0 .. M - 1 /\ q \in Int /\ r + d = M * q + s
  <2> HIDE DEF r
  <2> QED
    BY <1>2
<1>4. t \in 0 .. M - 1 /\ o \in Int /\ a + d = M * o + t
  <2>1. a + d \in Int
    OBVIOUS
  <2> QED
    BY <2>1
<1> HIDE DEF r, s, t, p, q, o
<1>5. M * (p + q) + s = M * o + t /\ p + q \in Int
  BY <1>1, <1>3, <1>4
<1>6. s = t
  BY <1>3, <1>4, <1>5, RemainderIsUnique
<1> QED
  BY <1>6 DEF r, s, t
-----------------------------------------------------------------------------
(***************************************************************************)
(* The hash: after every char there is a number, so the bucket of a string *)
(* exists.  First some function follows djb2 up to any char; hence the     *)
(* function that _hash is defined by does.                                 *)
(***************************************************************************)
Follows(h, v, n) ==
  /\ h \in [0 .. n -> Int]
  /\ \A k \in 0 .. n : h[k] = IF k = 0 THEN 5381 % SizeMod
                              ELSE (h[k - 1] * 32 + h[k - 1] + v[k]) % SizeMod

LEMMA HashExists ==
  ASSUME NEW v \in Seq(Int), NEW n \in 0 .. Len(v)
  PROVE  \E h : Follows(h, v, n)
<1> DEFINE T == {k \in 0 .. Len(v) : ~ \E h : Follows(h, v, k)}
<1> SUFFICES ASSUME T # {} PROVE FALSE
  OBVIOUS
<1>1. PICK k \in T : \A m \in T : k <= m
  <2>1. T \subseteq Nat
    OBVIOUS
  <2> HIDE DEF T
  <2> QED
    BY <2>1, LeastNumber
<1>2. k \in 0 .. Len(v) /\ Len(v) \in Nat /\ SizeMod \in Nat \ {0}
  BY HashmapAssumption
<1>3. CASE k = 0
  <2> DEFINE h == [i \in 0 .. 0 |-> 5381 % SizeMod]
  <2>1. Follows(h, v, 0)
    BY <1>2 DEF Follows
  <2> QED
    BY <1>3, <2>1
<1>4. CASE k # 0
  <2>1. k - 1 \in 0 .. Len(v) /\ k - 1 \notin T
    BY <1>1, <1>2, <1>4
  <2>2. PICK g : Follows(g, v, k - 1)
    BY <2>1
  <2> DEFINE x == (g[k - 1] * 32 + g[k - 1] + v[k]) % SizeMod
             h == [i \in 0 .. k |-> IF i = k THEN x ELSE g[i]]
  <2>3. /\ \A i \in 0 .. k - 1 : g[i] \in Int
        /\ \A i \in 0 .. k - 1 : g[i] = IF i = 0 THEN 5381 % SizeMod
                                 ELSE (g[i - 1] * 32 + g[i - 1] + v[i]) % SizeMod
        /\ k - 1 \in 0 .. k - 1
    BY <1>2, <1>4, <2>2 DEF Follows
  <2>4. x \in Int
    <3>1. g[k - 1] * 32 + g[k - 1] + v[k] \in Int
      <4>1. g[k - 1] \in Int /\ v[k] \in Int
        BY <1>2, <1>4, <2>3
      <4> QED
        BY <4>1
    <3> QED
      BY <1>2, <3>1
  <2>5. x = (g[k - 1] * 32 + g[k - 1] + v[k]) % SizeMod
    OBVIOUS
  <2> HIDE DEF x
  <2>6. h \in [0 .. k -> Int]
    BY <1>2, <2>3, <2>4
  <2>7. \A i \in 0 .. k : h[i] = IF i = k THEN x ELSE g[i]
    OBVIOUS
  <2> HIDE DEF h
  <2>8. ASSUME NEW i \in 0 .. k
        PROVE  h[i] = IF i = 0 THEN 5381 % SizeMod
                      ELSE (h[i - 1] * 32 + h[i - 1] + v[i]) % SizeMod
    <3>1. CASE i = k
      <4>1. h[i] = x /\ h[k - 1] = g[k - 1] /\ i # 0
        BY <1>2, <1>4, <2>7, <3>1
      <4> QED
        BY <2>5, <3>1, <4>1
    <3>2. CASE i # k /\ i # 0
      <4>1. i \in 0 .. k - 1 /\ i - 1 \in 0 .. k /\ i - 1 # k
        BY <1>2, <3>2
      <4>2. h[i] = g[i] /\ h[i - 1] = g[i - 1]
        BY <2>7, <3>2, <4>1
      <4> QED
        BY <2>3, <3>2, <4>1, <4>2
    <3>3. CASE i # k /\ i = 0
      <4>1. i \in 0 .. k - 1 /\ h[i] = g[i]
        BY <1>2, <2>7, <3>3
      <4> QED
        BY <2>3, <3>3, <4>1
    <3> QED
      BY <3>1, <3>2, <3>3
  <2>9. Follows(h, v, k)
    BY <2>6, <2>8 DEF Follows
  <2> QED
    BY <2>9
<1> QED
  BY <1>3, <1>4

LEMMA HashIsBucket ==
  ASSUME NEW v \in Seq(Int)
  PROVE  _hash(v) \in Bucket
<1> DEFINE e(h) == [k \in 0 .. Len(v) |->
                      IF k = 0 THEN 5381 % SizeMod
                      ELSE (h[k - 1] * 32 + h[k - 1] + v[k]) % SizeMod]
           hash == CHOOSE h : h = e(h)
<1>1. Len(v) \in 0 .. Len(v) /\ n_buckets \in Nat \ {0} /\ SizeMod \in Nat \ {0}
  BY HashmapAssumption
<1>2. PICK h : Follows(h, v, Len(v))
  BY <1>1, HashExists
<1>3. h = e(h)
  <2>1. h = [k \in 0 .. Len(v) |-> h[k]]
    BY <1>2 DEF Follows
  <2> QED
    BY <1>2, <2>1 DEF Follows
<1>4. hash = e(hash)
  <2> HIDE DEF e
  <2> QED
    BY <1>3
<1>5. hash[Len(v)] \in Int
  <2> HIDE DEF hash
  <2>1. \A k \in 0 .. Len(v) : hash[k] = IF k = 0 THEN 5381 % SizeMod
                                 ELSE (hash[k - 1] * 32 + hash[k - 1] + v[k]) % SizeMod
    BY <1>4
  <2> DEFINE T == {k \in 0 .. Len(v) : hash[k] \notin Int}
  <2>2. ASSUME T # {} PROVE FALSE
    <3>1. PICK k \in T : \A m \in T : k <= m
      <4>1. T \subseteq Nat
        OBVIOUS
      <4> HIDE DEF T
      <4> QED
        BY <2>2, <4>1, LeastNumber
    <3>2. k # 0
      BY <1>1, <2>1, <3>1
    <3>3. k - 1 \in 0 .. Len(v) /\ k - 1 \notin T
      BY <3>1, <3>2
    <3>4. hash[k - 1] \in Int /\ v[k] \in Int
      BY <3>1, <3>2, <3>3
    <3>5. hash[k] = (hash[k - 1] * 32 + hash[k - 1] + v[k]) % SizeMod
      BY <2>1, <3>1, <3>2
    <3>6. hash[k - 1] * 32 + hash[k - 1] + v[k] \in Int
      BY <3>4
    <3>7. hash[k] \in Int
      BY <1>1, <3>5, <3>6
    <3> QED
      BY <3>1, <3>7
  <2> QED
    BY <1>1, <2>2
<1>6. _hash(v) = hash[Len(v)] % n_buckets
  BY DEF _hash
<1> HIDE DEF hash
<1> QED
  BY <1>1, <1>5, <1>6 DEF Bucket
-----------------------------------------------------------------------------
(***************************************************************************)
(* The invariant: chains hold strings that hash to them, once, and the     *)
(* count is that of the strings, modulo the values of a size_t.            *)
(***************************************************************************)
Types ==
  /\ buckets \in [Bucket -> Seq(Value)]
  /\ garbage \in 0 .. SizeMod - 1 /\ size \in 0 .. SizeMod - 1

Chains ==
  \A b \in Bucket : Unique(buckets[b]) /\ \A v \in Range(buckets[b]) : _hash(v) = b

Counted == IsFiniteSet(members) /\ size = (garbage + Cardinality(members)) % SizeMod

IInv == Types /\ Chains /\ Counted

\* A string has a bucket of its own, and it is in the map if it is there.
LEMMA Lookup ==
  ASSUME Types, Chains, NEW v \in Value
  PROVE  _hash(v) \in Bucket /\ (Found(v) <=> v \in members)
<1>1. _hash(v) \in Bucket
  <2>1. v \in Seq(-128 .. 127) /\ -128 .. 127 \subseteq Int
    BY HashmapAssumption
  <2>2. v \in Seq(Int)
    BY <2>1, SeqMonotonic
  <2> QED
    BY <2>2, HashIsBucket
<1> QED
  BY <1>1 DEF Chains, Found, members

\* One bucket changes: what that makes of the strings in the map.
LEMMA OneBucket ==
  ASSUME Types, Chains, NEW v \in Value, NEW q \in Seq(Value), Unique(q),
         \A w \in Range(q) : _hash(w) = _hash(v),
         buckets' = [buckets EXCEPT ![_hash(v)] = q]
  PROVE  /\ buckets' \in [Bucket -> Seq(Value)] /\ Chains'
         /\ members' = (members \ Range(buckets[_hash(v)])) \cup Range(q)
<1>1. _hash(v) \in Bucket
  BY Lookup
<1>2. /\ buckets' \in [Bucket -> Seq(Value)] /\ buckets'[_hash(v)] = q
      /\ \A b \in Bucket \ {_hash(v)} : buckets'[b] = buckets[b]
  BY <1>1 DEF Types
<1>3. Chains'
  BY <1>1, <1>2 DEF Chains
<1>4. ASSUME NEW w
      PROVE  w \in members' <=> w \in (members \ Range(buckets[_hash(v)])) \cup Range(q)
  <2>1. w \in members' <=> \E b \in Bucket : w \in Range(buckets'[b])
    BY DEF members
  <2>2. w \in members <=> \E b \in Bucket : w \in Range(buckets[b])
    BY DEF members
  <2>3. w \in members /\ w \notin Range(buckets[_hash(v)])
          <=> \E b \in Bucket \ {_hash(v)} : w \in Range(buckets[b])
    BY <1>1, <2>2 DEF Chains
  <2> QED
    BY <1>1, <1>2, <2>1, <2>3
<1> QED
  BY <1>2, <1>3, <1>4

LEMMA PutEffect ==
  ASSUME IInv, NEW v \in Value, hashmap_put(v)
  PROVE  IInv' /\ members' = members \cup {v}
<1>0. /\ Types /\ Chains /\ Counted /\ _hash(v) \in Bucket /\ (Found(v) <=> v \in members)
      /\ SizeMod \in Nat \ {0} /\ garbage' = garbage /\ garbage \in 0 .. SizeMod - 1
      /\ size \in 0 .. SizeMod - 1
  BY Lookup, HashmapAssumption DEF IInv, hashmap_put, Types
<1>1. CASE Found(v)
  <2>1. UNCHANGED <<buckets, size, garbage>>
    BY <1>1 DEF hashmap_put
  <2>2. members' = members
    BY <2>1 DEF members
  <2> QED
    BY <1>0, <1>1, <2>1, <2>2 DEF IInv, Types, Chains, Counted
<1>2. CASE ~ Found(v)
  <2> DEFINE s == buckets[_hash(v)]
             q == <<v>> \o s
  <2>1. s \in Seq(Value) /\ Unique(s) /\ v \notin Range(s)
        /\ \A w \in Range(s) : _hash(w) = _hash(v)
    BY <1>0, <1>2 DEF Types, Chains, Found
  <2>2. buckets' = [buckets EXCEPT ![_hash(v)] = q] /\ size' = (size + 1) % SizeMod
    BY <1>2 DEF hashmap_put
  <2> HIDE DEF s
  <2>3. q \in Seq(Value) /\ Unique(q) /\ Range(q) = Range(s) \cup {v}
    BY <2>1, PushRange
  <2> HIDE DEF q
  <2>4. /\ buckets' \in [Bucket -> Seq(Value)] /\ Chains'
        /\ members' = (members \ Range(s)) \cup Range(q)
    BY <1>0, <2>1, <2>2, <2>3, OneBucket DEF s
  <2>5. Range(s) \subseteq members
    BY <1>0 DEF s, members
  <2>6. members' = members \cup {v} /\ v \notin members
    BY <1>0, <1>2, <2>3, <2>4, <2>5
  <2>7. IsFiniteSet(members') /\ Cardinality(members') = Cardinality(members) + 1
        /\ Cardinality(members) \in Nat
    BY <1>0, <2>6, FS_AddElement, FS_CardinalityType DEF Counted
  <2>8. size' = (garbage' + Cardinality(members')) % SizeMod
    <3> DEFINE c == Cardinality(members)
    <3>1. size = (garbage + c) % SizeMod /\ c \in Nat /\ Cardinality(members') = c + 1
      BY <1>0, <2>7 DEF Counted
    <3> HIDE DEF c
    <3>2. garbage + c \in Int /\ garbage + (c + 1) = (garbage + c) + 1
      BY <1>0, <3>1
    <3>3. (((garbage + c) % SizeMod) + 1) % SizeMod = ((garbage + c) + 1) % SizeMod
      BY <1>0, <3>2, RemainderOfSum
    <3> QED
      BY <1>0, <2>2, <3>1, <3>2, <3>3
  <2>9. size' \in 0 .. SizeMod - 1
    BY <1>0, <2>2
  <2> QED
    BY <1>0, <2>4, <2>6, <2>7, <2>8, <2>9 DEF IInv, Types, Counted
<1> QED
  BY <1>1, <1>2

LEMMA RemoveEffect ==
  ASSUME IInv, NEW v \in Value, hashmap_remove(v)
  PROVE  IInv' /\ members' = members \ {v}
<1> DEFINE s == buckets[_hash(v)]
           q == RemoveFirst(s, v)
<1>0. /\ Types /\ Chains /\ Counted /\ _hash(v) \in Bucket /\ (Found(v) <=> v \in members)
      /\ SizeMod \in Nat \ {0} /\ garbage' = garbage /\ garbage \in 0 .. SizeMod - 1
      /\ size \in 0 .. SizeMod - 1
  BY Lookup, HashmapAssumption DEF IInv, hashmap_remove, Types
<1>1. s \in Seq(Value) /\ Unique(s) /\ \A w \in Range(s) : _hash(w) = _hash(v)
  BY <1>0 DEF Types, Chains
<1>2. /\ buckets' = [buckets EXCEPT ![_hash(v)] = q]
      /\ size' = IF Found(v) THEN (size - 1) % SizeMod ELSE size
  BY DEF hashmap_remove
<1> HIDE DEF s
<1>3. q \in Seq(Value) /\ Unique(q) /\ Range(q) = Range(s) \ {v}
  BY <1>1, RemoveFirstRange
<1> HIDE DEF q
<1>4. /\ buckets' \in [Bucket -> Seq(Value)] /\ Chains'
      /\ members' = (members \ Range(s)) \cup Range(q)
  BY <1>0, <1>1, <1>2, <1>3, OneBucket DEF s
<1>5. Range(s) \subseteq members /\ (v \in Range(s) <=> Found(v))
  BY <1>0 DEF s, members, Found
<1>6. members' = members \ {v}
  BY <1>0, <1>3, <1>4, <1>5
<1>7. CASE Found(v)
  <2>1. IsFiniteSet(members') /\ Cardinality(members') = Cardinality(members) - 1
        /\ Cardinality(members) \in Nat
    BY <1>0, <1>6, <1>7, FS_RemoveElement, FS_CardinalityType DEF Counted
  <2>2. size' = (garbage' + Cardinality(members')) % SizeMod
    <3> DEFINE c == Cardinality(members)
    <3>1. size = (garbage + c) % SizeMod /\ c \in Nat /\ Cardinality(members') = c - 1
      BY <1>0, <2>1 DEF Counted
    <3> HIDE DEF c
    <3>2. garbage + c \in Int /\ garbage + (c - 1) = (garbage + c) + (-1)
          /\ size - 1 = size + (-1)
      BY <1>0, <3>1
    <3>3. (((garbage + c) % SizeMod) + (-1)) % SizeMod = ((garbage + c) + (-1)) % SizeMod
      BY <1>0, <3>2, RemainderOfSum
    <3> QED
      BY <1>0, <1>2, <1>7, <3>1, <3>2, <3>3
  <2>3. size' \in 0 .. SizeMod - 1
    <3>1. size - 1 \in Int /\ size' = (size - 1) % SizeMod
      BY <1>0, <1>2, <1>7
    <3> QED
      BY <1>0, <3>1
  <2> QED
    BY <1>0, <1>4, <1>6, <2>1, <2>2, <2>3 DEF IInv, Types, Counted
<1>8. CASE ~ Found(v)
  BY <1>0, <1>2, <1>4, <1>6, <1>8 DEF IInv, Types, Counted
<1> QED
  BY <1>6, <1>7, <1>8

LEMMA InitIInv == Init => IInv /\ members = {}
<1> SUFFICES ASSUME Init PROVE IInv /\ members = {}
  OBVIOUS
<1>1. /\ buckets = [b \in Bucket |-> <<>>] /\ garbage \in 0 .. SizeMod - 1 /\ size = garbage
      /\ SizeMod \in Nat \ {0}
  BY HashmapAssumption DEF Init
<1>2. Range(<<>>) = {} /\ Unique(<<>>) /\ <<>> \in Seq(Value)
  BY DEF Range, Unique
<1>3. members = {}
  BY <1>1, <1>2 DEF members
<1>4. IsFiniteSet(members) /\ Cardinality(members) = 0
  BY <1>3, FS_EmptySet
<1>5. size = (garbage + Cardinality(members)) % SizeMod
  BY <1>1, <1>4
<1> QED
  BY <1>1, <1>2, <1>3, <1>4, <1>5 DEF IInv, Types, Chains, Counted

LEMMA NextIInv == IInv /\ [Next]_vars => IInv'
<1> SUFFICES ASSUME IInv, [Next]_vars PROVE IInv'
  OBVIOUS
<1>1. ASSUME UNCHANGED <<buckets, size, garbage>> PROVE IInv'
  <2>1. members' = members
    BY <1>1 DEF members
  <2> QED
    BY <1>1, <2>1 DEF IInv, Types, Chains, Counted
<1>2. ASSUME NEW v \in Value, hashmap_contains(v) PROVE IInv'
  BY <1>1, <1>2 DEF hashmap_contains
<1> QED
  BY <1>1, <1>2, PutEffect, RemoveEffect DEF Next, vars

(***************************************************************************)
(* Every string is in the bucket it hashes to and there only once, and     *)
(* size has gone up and down with the strings from where it started: for   *)
(* strings of any length, whose hash goes round in a size_t.               *)
(***************************************************************************)
THEOREM Hashes == Spec => []WellHashed
<1>1. IInv => WellHashed
  <2> SUFFICES ASSUME IInv, NEW b \in Bucket, NEW k \in DOMAIN buckets[b]
               PROVE  /\ _hash(buckets[b][k]) = b
                      /\ \A j \in DOMAIN buckets[b] : buckets[b][j] = buckets[b][k] => j = k
    BY DEF IInv, Counted, WellHashed
  <2>1. buckets[b] \in Seq(Value) /\ DOMAIN buckets[b] = 1 .. Len(buckets[b])
    BY DEF IInv, Types
  <2>2. buckets[b][k] \in Range(buckets[b])
    BY DEF Range
  <2> QED
    BY <2>1, <2>2 DEF IInv, Chains, Unique
<1> QED
  BY InitIInv, NextIInv, <1>1, PTL DEF Spec

(***************************************************************************)
(* The map is a set of strings to its callers, whichever collide.          *)
(***************************************************************************)
THEOREM Implements == Spec => ImplementsSet
<1>1. Init => set!Init
  BY InitIInv DEF Init, set!Init
<1>2. IInv /\ [Next]_vars => [set!Next]_(set!vars)
  <2> SUFFICES ASSUME IInv, [Next]_vars PROVE set!Next \/ set!vars' = set!vars
    OBVIOUS
  <2>1. ASSUME NEW v \in Value, hashmap_put(v) PROVE set!Next
    BY <2>1, PutEffect DEF hashmap_put, set!Next, set!Put
  <2>2. ASSUME NEW v \in Value, hashmap_remove(v) PROVE set!Next
    BY <2>2, RemoveEffect DEF hashmap_remove, set!Next, set!Remove
  <2>3. ASSUME NEW v \in Value, hashmap_contains(v) PROVE set!Next
    <3>1. Found(v) <=> v \in members
      BY Lookup DEF IInv
    <3>2. members' = members
      BY <2>3 DEF hashmap_contains, members
    <3>3. out' = (v \in members)
      BY <2>3, <3>1 DEF hashmap_contains, Found
    <3> QED
      BY <3>2, <3>3 DEF set!Next, set!Contains
  <2>4. CASE UNCHANGED vars
    BY <2>4 DEF vars, set!vars, members
  <2> QED
    BY <2>1, <2>2, <2>3, <2>4 DEF Next
<1> QED
  BY InitIInv, NextIInv, <1>1, <1>2, PTL DEF Spec, ImplementsSet, set!Spec
=============================================================================
