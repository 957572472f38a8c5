---------------------------- MODULE Queue_proofs ----------------------------
(***************************************************************************)
(* Proofs about Queue, for any number of queues on one heap of any finite  *)
(* size, whichever node malloc returns.                                    *)
(***************************************************************************)
EXTENDS Queue, FiniteSetTheorems, SequenceLemmas

Null == Node \cup {NULL}

Cell == [value : Value, next : Null]

Types ==
  /\ DOMAIN heap \subseteq Node /\ heap \in [DOMAIN heap -> Cell]
  /\ head \in [Queue -> Null] /\ tail \in [Queue -> Null]
  /\ size \in [Queue -> Nat] /\ live \in [Queue -> BOOLEAN]

(***************************************************************************)
(* c is the list that starts at the head of q.                             *)
(***************************************************************************)
IsList(q, c) ==
  /\ Unique(c) /\ Range(c) \subseteq DOMAIN heap
  /\ head[q] = IF c = <<>> THEN NULL ELSE c[1]
  /\ \A i \in 1 .. Len(c) : heap[c[i]].next = IF i = Len(c) THEN NULL ELSE c[i + 1]

LEMMA NodesFinite ==
  ASSUME NEW c \in Seq(Node), Unique(c)
  PROVE  /\ Cardinality(Node) \in Nat /\ Len(c) <= Cardinality(Node)
         /\ Cardinality(Range(c)) = Len(c)
<1>1. IsFiniteSet(Node) /\ Cardinality(Node) \in Nat
  BY QueueAssumption, FS_CardinalityType
<1>2. Len(c) \in Nat /\ DOMAIN c = 1 .. Len(c) /\ c \in [1 .. Len(c) -> Node]
  OBVIOUS
<1>3. IsFiniteSet(1 .. Len(c)) /\ Cardinality(1 .. Len(c)) = Len(c)
  BY <1>2, FS_Interval
<1>4. c \in Injection(1 .. Len(c), Node)
  BY <1>2 DEF Injection, IsInjective, Unique
<1>5. Len(c) <= Cardinality(Node)
  BY <1>1, <1>3, <1>4, FS_Injection
<1>6. c \in Injection(1 .. Len(c), Range(c)) /\ c \in Surjection(1 .. Len(c), Range(c))
  BY <1>2 DEF Injection, IsInjective, Surjection, Unique, Range
<1>7. Cardinality(Range(c)) = Cardinality(1 .. Len(c))
  BY <1>3, <1>6, FS_Surjection
<1> QED
  BY <1>1, <1>3, <1>5, <1>7

(***************************************************************************)
(* The walk of `while (curr != NULL)' visits the list and then stays at    *)
(* NULL: by induction on the number of steps, as the least number at which *)
(* it would not does not exist.                                            *)
(***************************************************************************)
ListsAreWalked ==
  \A q \in Queue, c \in Seq(Node) :
    DOMAIN heap \subseteq Node /\ IsList(q, c) =>
      /\ Chain(q) = c
      /\ \A k \in 1 .. Len(c) : NodeAt(q)[k - 1] = c[k]

LEMMA Walk ==
  ASSUME NEW q \in Queue, NEW c \in Seq(Node), DOMAIN heap \subseteq Node, IsList(q, c),
         NEW k \in 0 .. Cardinality(Node)
  PROVE  NodeAt(q)[k] = IF k < Len(c) THEN c[k + 1] ELSE NULL
<1> DEFINE N == Cardinality(Node)
           g == [i \in 0 .. N |-> IF i < Len(c) THEN c[i + 1] ELSE NULL]
           e(f) == [i \in 0 .. N |->
                      IF i = 0 THEN head[q]
                      ELSE IF f[i - 1] \in DOMAIN heap THEN heap[f[i - 1]].next ELSE NULL]
           at == CHOOSE f : f = e(f)
<1>1. /\ N \in Nat /\ Len(c) \in Nat /\ NULL \notin Node
      /\ \A i \in 1 .. Len(c) : c[i] \in Node /\ c[i] \in DOMAIN heap
      /\ (c = <<>> <=> Len(c) = 0)
  <2>1. \A i \in 1 .. Len(c) : c[i] \in Range(c)
    BY DEF Range
  <2>2. Unique(c) /\ Range(c) \subseteq DOMAIN heap
    BY DEF IsList
  <2> QED
    BY <2>1, <2>2, NodesFinite, QueueAssumption
<1>2. \A i \in 0 .. N : g[i] = IF i < Len(c) THEN c[i + 1] ELSE NULL
  OBVIOUS
<1> HIDE DEF N, g
<1>3. ASSUME NEW f, f = e(f), NEW i \in 0 .. N, i # 0, f[i - 1] = g[i - 1]
      PROVE  f[i] = g[i]
  <2>1. f[i] = IF f[i - 1] \in DOMAIN heap THEN heap[f[i - 1]].next ELSE NULL
    BY <1>3
  <2>2. i - 1 \in 0 .. N /\ (i - 1) + 1 = i
    BY <1>1, <1>3
  <2>3. CASE i - 1 < Len(c)
    <3>1. i \in 1 .. Len(c) /\ f[i - 1] = c[i] /\ c[i] \in DOMAIN heap
      BY <1>1, <1>2, <1>3, <2>2, <2>3
    <3>2. f[i] = IF i = Len(c) THEN NULL ELSE c[i + 1]
      BY <2>1, <3>1 DEF IsList
    <3>3. i = Len(c) <=> ~ (i < Len(c))
      BY <1>1, <3>1
    <3> QED
      BY <1>2, <3>2, <3>3
  <2>4. CASE ~ (i - 1 < Len(c))
    <3>1. f[i - 1] = NULL /\ ~ (i < Len(c))
      BY <1>1, <1>2, <1>3, <2>2, <2>4
    <3>2. NULL \notin DOMAIN heap
      BY <1>1
    <3> QED
      BY <1>2, <2>1, <3>1, <3>2
  <2> QED
    BY <2>3, <2>4
<1>4. \A f : f = e(f) => f[0] = g[0]
  <2> TAKE f
  <2> HAVE f = e(f)
  <2>1. 0 \in 0 .. N /\ f[0] = head[q]
    BY <1>1
  <2> QED
    BY <1>1, <1>2, <2>1 DEF IsList
<1>5. \A f : f = e(f) => \A i \in 0 .. N : f[i] = g[i]
  <2> TAKE f
  <2> HAVE f = e(f)
  <2> DEFINE T == {i \in 0 .. N : f[i] # g[i]}
  <2> SUFFICES ASSUME T # {} PROVE FALSE
    OBVIOUS
  <2>1. PICK i \in T : \A m \in T : i <= m
    <3>1. T \subseteq Nat
      BY <1>1
    <3> HIDE DEF T
    <3> QED
      BY <3>1, LeastNumber
  <2>2. i # 0
    BY <1>4, <2>1
  <2>3. i - 1 \in 0 .. N /\ i - 1 \notin T
    BY <1>1, <2>1, <2>2
  <2> QED
    BY <1>3, <2>1, <2>2, <2>3
<1>6. g = e(g)
  <2>1. ASSUME NEW i \in 0 .. N
        PROVE  g[i] = IF i = 0 THEN head[q]
                      ELSE IF g[i - 1] \in DOMAIN heap THEN heap[g[i - 1]].next ELSE NULL
    <3>1. CASE i = 0
      BY <1>1, <1>2, <3>1 DEF IsList
    <3>2. CASE i # 0 /\ i - 1 < Len(c)
      <4>1. i \in 1 .. Len(c) /\ i - 1 \in 0 .. N /\ (i - 1) + 1 = i
        BY <1>1, <3>2
      <4>2. g[i - 1] = c[i] /\ c[i] \in DOMAIN heap
        BY <1>1, <1>2, <3>2, <4>1
      <4>3. heap[c[i]].next = g[i]
        BY <1>1, <1>2, <4>1 DEF IsList
      <4> QED
        BY <3>2, <4>2, <4>3
    <3>3. CASE i # 0 /\ ~ (i - 1 < Len(c))
      <4>1. i - 1 \in 0 .. N /\ ~ (i < Len(c))
        BY <1>1, <3>3
      <4>2. g[i - 1] = NULL /\ g[i] = NULL /\ NULL \notin DOMAIN heap
        BY <1>1, <1>2, <3>3, <4>1
      <4> QED
        BY <3>3, <4>2
    <3> QED
      BY <3>1, <3>2, <3>3
  <2>2. g = [i \in 0 .. N |-> g[i]]
    BY DEF g
  <2> HIDE DEF e
  <2> QED
    BY <2>1, <2>2 DEF e
<1>7. at = e(at)
  <2> HIDE DEF e
  <2> QED
    BY <1>6
<1>8. NodeAt(q) = at
  BY DEF NodeAt, N
<1> HIDE DEF at, e
<1> QED
  BY <1>2, <1>5, <1>7, <1>8 DEF N

LEMMA ListsWalked == ListsAreWalked
<1> SUFFICES ASSUME NEW q \in Queue, NEW c \in Seq(Node), DOMAIN heap \subseteq Node,
                    IsList(q, c)
             PROVE  /\ Chain(q) = c
                    /\ \A k \in 1 .. Len(c) : NodeAt(q)[k - 1] = c[k]
  BY DEF ListsAreWalked
<1> DEFINE N == Cardinality(Node)
           at == NodeAt(q)
           P(n) == \A k \in 0 .. N - 1 : at[k] # NULL <=> k < n
           len == CHOOSE n \in 0 .. N : P(n)
<1>1. /\ N \in Nat /\ Len(c) \in Nat /\ Len(c) <= N /\ NULL \notin Node
      /\ \A i \in 1 .. Len(c) : c[i] \in Node
  BY NodesFinite, QueueAssumption DEF IsList
<1>2. \A k \in 0 .. N : at[k] = IF k < Len(c) THEN c[k + 1] ELSE NULL
  BY Walk
<1>3. \A k \in 1 .. Len(c) : at[k - 1] = c[k]
  <2> TAKE k \in 1 .. Len(c)
  <2>1. k - 1 \in 0 .. N /\ k - 1 < Len(c) /\ (k - 1) + 1 = k
    BY <1>1
  <2> QED
    BY <1>2, <2>1
<1>4. Chain(q) = [k \in 1 .. len |-> at[k - 1]]
  BY DEF Chain
<1> HIDE DEF N, at
<1>5. \A k \in 0 .. N - 1 : at[k] # NULL <=> k < Len(c)
  <2> TAKE k \in 0 .. N - 1
  <2>1. k \in 0 .. N /\ (k < Len(c) => k + 1 \in 1 .. Len(c))
    BY <1>1
  <2> QED
    BY <1>1, <1>2, <2>1
<1>6. Len(c) \in 0 .. N /\ P(Len(c))
  BY <1>1, <1>5
<1>7. len \in 0 .. N /\ P(len)
  <2> HIDE DEF P
  <2> QED
    BY <1>6
<1> HIDE DEF len
<1>8. len = Len(c)
  <2>1. CASE len < Len(c)
    BY <1>1, <1>5, <1>7, <2>1
  <2>2. CASE Len(c) < len
    BY <1>1, <1>5, <1>7, <2>2
  <2> QED
    BY <1>1, <1>7, <2>1, <2>2
<1>9. c = [k \in 1 .. Len(c) |-> c[k]]
  OBVIOUS
<1>10. Chain(q) = c
  BY <1>3, <1>4, <1>8, <1>9
<1> QED
  BY <1>3, <1>10 DEF at

LEMMA ListsWalkedNext == ListsAreWalked'
BY ListsWalked, PTL
-----------------------------------------------------------------------------
(***************************************************************************)
(* The invariant: the nodes that are allocated are those of the lists,     *)
(* each in one of them; tail and size are those of the list.               *)
(***************************************************************************)
Mine(q) == IF live[q] THEN Range(Chain(q)) ELSE {}

End(c) == IF c = <<>> THEN NULL ELSE c[Len(c)]

Keeps(q, c) == c \in Seq(Node) /\ IsList(q, c) /\ size[q] = Len(c) /\ tail[q] = End(c)

Lists ==
  /\ \A q \in Queue : live[q] => Keeps(q, Chain(q))
  /\ \A q, r \in Queue : q # r => Mine(q) \cap Mine(r) = {}
  /\ DOMAIN heap = UNION { Mine(q) : q \in Queue }

IInv == Types /\ Lists

Contents(q) == IF live[q] THEN Values(q) ELSE <<>>

\* What a call on q leaves alone, when c becomes its list, or it is cleaned up.
OnlyOn(q, c) ==
  /\ \A r \in Queue \ {q} :
       head'[r] = head[r] /\ tail'[r] = tail[r] /\ size'[r] = size[r] /\ live'[r] = live[r]
  /\ DOMAIN heap' = (DOMAIN heap \ Mine(q)) \cup Range(c)
  /\ Range(c) \cap (DOMAIN heap \ Mine(q)) = {}
  /\ \A n \in DOMAIN heap \ Mine(q) : heap'[n] = heap[n]

LEMMA OthersKeep ==
  ASSUME Types, Lists, Types', NEW q \in Queue, NEW c \in Seq(Node), OnlyOn(q, c),
         NEW r \in Queue \ {q}
  PROVE  /\ Mine(r)' = Mine(r) /\ (live'[r] => Keeps(r, Chain(r))')
         /\ Contents(r)' = Contents(r) /\ live'[r] = live[r]
<1>1. CASE ~ live[r]
  BY <1>1 DEF OnlyOn, Mine, Contents
<1>2. CASE live[r]
  <2> DEFINE d == Chain(r)
  <2>1. d \in Seq(Node) /\ IsList(r, d) /\ size[r] = Len(d) /\ tail[r] = End(d)
    BY <1>2 DEF Lists, Keeps
  <2>2. Mine(r) = Range(d) /\ Range(d) \subseteq DOMAIN heap \ Mine(q)
    BY <1>2 DEF Lists, Mine
  <2>3. PICK e \in Seq(Node) : e = d
    BY <2>1
  <2>4. /\ e \in Seq(Node) /\ Unique(e) /\ Range(e) \subseteq DOMAIN heap \ Mine(q)
        /\ head[r] = IF e = <<>> THEN NULL ELSE e[1]
        /\ \A i \in 1 .. Len(e) : heap[e[i]].next = IF i = Len(e) THEN NULL ELSE e[i + 1]
        /\ size[r] = Len(e) /\ tail[r] = End(e) /\ DOMAIN e = 1 .. Len(e)
    BY <2>1, <2>2, <2>3 DEF IsList
  <2>5. \A i \in 1 .. Len(e) : heap'[e[i]] = heap[e[i]]
    <3>1. \A i \in 1 .. Len(e) : e[i] \in Range(e)
      BY <2>4 DEF Range
    <3> QED
      BY <2>4, <3>1 DEF OnlyOn
  <2>6. IsList(r, e)'
    BY <2>4, <2>5 DEF IsList, OnlyOn
  <2>7. Chain(r)' = e
    BY <2>6, ListsWalkedNext DEF ListsAreWalked, Types
  <2>8. Chain(r) = e
    BY <2>3
  <2>9. size'[r] = Len(e) /\ tail'[r] = End(e)' /\ live'[r] = live[r]
    BY <2>4 DEF OnlyOn, End
  <2>10. Values(r)' = Values(r)
    <3>1. Values(r) = [i \in 1 .. Len(e) |-> heap[e[i]].value]
      BY <2>4, <2>8 DEF Values
    <3>2. Values(r)' = [i \in 1 .. Len(e) |-> heap'[e[i]].value]
      BY <2>4, <2>7 DEF Values
    <3> QED
      BY <2>5, <3>1, <3>2
  <2> QED
    BY <1>2, <2>6, <2>7, <2>8, <2>9, <2>10 DEF Mine, Contents, Keeps
<1> QED
  BY <1>1, <1>2

LEMMA CallEffect ==
  ASSUME Types, Lists, Types', NEW q \in Queue, NEW c \in Seq(Node), OnlyOn(q, c),
         IF live'[q] THEN Keeps(q, c)' ELSE c = <<>>
  PROVE  /\ Lists' /\ \A r \in Queue \ {q} : Contents(r)' = Contents(r)
         /\ live'[q] => Chain(q)' = c
<1>1. live'[q] => Chain(q)' = c
  BY ListsWalkedNext DEF ListsAreWalked, Types, Keeps
<1>2. Mine(q)' = Range(c)
  <2>1. Range(<<>>) = {}
    BY DEF Range
  <2> QED
    BY <1>1, <2>1 DEF Mine
<1>3. \A r \in Queue \ {q} : /\ Mine(r)' = Mine(r) /\ (live'[r] => Keeps(r, Chain(r))')
                             /\ Contents(r)' = Contents(r)
  BY OthersKeep
<1>4. \A r \in Queue : live'[r] => Keeps(r, Chain(r))'
  BY <1>1, <1>3
<1>5. \A r \in Queue \ {q} : Mine(r) \subseteq DOMAIN heap \ Mine(q)
  BY DEF Lists
<1>6. \A r, s \in Queue : r # s => Mine(r)' \cap Mine(s)' = {}
  <2> SUFFICES ASSUME NEW r \in Queue, NEW s \in Queue, r # s PROVE Mine(r)' \cap Mine(s)' = {}
    OBVIOUS
  <2>1. CASE r = q
    BY <1>2, <1>3, <1>5, <2>1 DEF OnlyOn
  <2>2. CASE s = q
    BY <1>2, <1>3, <1>5, <2>2 DEF OnlyOn
  <2>3. CASE r # q /\ s # q
    BY <1>3, <2>3 DEF Lists
  <2> QED
    BY <2>1, <2>2, <2>3
<1>7. DOMAIN heap' = UNION { Mine(r)' : r \in Queue }
  <2>1. DOMAIN heap \ Mine(q) = UNION { Mine(r) : r \in Queue \ {q} }
    BY <1>5 DEF Lists
  <2> QED
    BY <1>2, <1>3, <2>1 DEF OnlyOn
<1> QED
  BY <1>1, <1>3, <1>4, <1>6, <1>7 DEF Lists
-----------------------------------------------------------------------------
(***************************************************************************)
(* The calls.                                                              *)
(***************************************************************************)
LEMMA Relinked ==
  ASSUME NEW x \in Cell, NEW n \in Node
  PROVE  /\ [x EXCEPT !.next = n] \in Cell /\ [x EXCEPT !.next = n].value = x.value
         /\ [x EXCEPT !.next = n].next = n
BY DEF Cell, Null

\* What is known of the list of a queue between two calls.
ListOf(q, c) ==
  /\ c = Chain(q) /\ IsList(q, c) /\ Range(c) = Mine(q) /\ Unique(c)
  /\ Range(c) \subseteq DOMAIN heap
  /\ Len(c) \in Nat /\ DOMAIN c = 1 .. Len(c) /\ (c = <<>> <=> Len(c) = 0)
  /\ (c = <<>> <=> head[q] = NULL) /\ size[q] = Len(c) /\ tail[q] = End(c)
  /\ \A i \in 1 .. Len(c) :
       c[i] \in Node /\ c[i] \in Range(c) /\ c[i] \in DOMAIN heap /\ heap[c[i]] \in Cell
  /\ Contents(q) = [i \in 1 .. Len(c) |-> heap[c[i]].value]
  /\ Contents(q) \in Seq(Value) /\ Len(Contents(q)) = Len(c)

LEMMA LiveList ==
  ASSUME IInv, NEW q \in Queue, live[q]
  PROVE  \E c \in Seq(Node) : ListOf(q, c)
<1> PICK c \in Seq(Node) : c = Chain(q)
  BY DEF IInv, Lists, Keeps
<1>1. IsList(q, c) /\ size[q] = Len(c) /\ tail[q] = End(c) /\ Range(c) = Mine(q)
  BY DEF IInv, Lists, Keeps, Mine
<1>2. Len(c) \in Nat /\ DOMAIN c = 1 .. Len(c) /\ (c = <<>> <=> Len(c) = 0)
      /\ \A i \in 1 .. Len(c) : c[i] \in Node
  OBVIOUS
<1>3. \A i \in 1 .. Len(c) : c[i] \in Range(c) /\ c[i] \in DOMAIN heap /\ heap[c[i]] \in Cell
  <2>1. Range(c) \subseteq DOMAIN heap
    BY <1>1 DEF IsList
  <2> QED
    BY <1>2, <2>1 DEF Range, IInv, Types
<1>4. c = <<>> <=> head[q] = NULL
  <2>1. c # <<>> => c[1] \in Node
    BY <1>2
  <2> QED
    BY <1>1, <2>1, QueueAssumption DEF IsList
<1>5. Contents(q) = [i \in 1 .. Len(c) |-> heap[c[i]].value]
  BY <1>2 DEF Contents, Values
<1>6. \A i \in 1 .. Len(c) : heap[c[i]].value \in Value
  BY <1>3 DEF Cell
<1>7. Contents(q) \in Seq(Value) /\ Len(Contents(q)) = Len(c)
  BY <1>2, <1>5, <1>6
<1> QED
  BY <1>1, <1>2, <1>3, <1>4, <1>5, <1>7 DEF IsList, ListOf

LEMMA EnqueueEffect ==
  ASSUME IInv, NEW q \in Queue, NEW v \in Value, queue_enqueue(q, v)
  PROVE  /\ IInv' /\ Contents(q)' = Append(Contents(q), v)
         /\ \A r \in Queue \ {q} : Contents(r)' = Contents(r)
<1>1. live[q] /\ size' = [size EXCEPT ![q] = @ + 1] /\ live' = live
  BY DEF queue_enqueue
<1>2. PICK n \in Free :
        /\ heap' = Linked(n, v, IF head[q] = NULL THEN NULL ELSE tail[q])
        /\ head' = [head EXCEPT ![q] = IF @ = NULL THEN n ELSE @]
        /\ tail' = [tail EXCEPT ![q] = n]
  BY DEF queue_enqueue
<1>3. PICK c \in Seq(Node) : ListOf(q, c)
  BY <1>1, LiveList
<1> DEFINE a == Append(c, n)
           last == End(c)
<1>4. /\ Types /\ Lists /\ n \in Node /\ n \notin DOMAIN heap /\ NULL \notin Node
      /\ DOMAIN heap \subseteq Node
  BY QueueAssumption DEF IInv, Free, Types
<1>5. /\ Len(c) \in Nat /\ Unique(c) /\ Range(c) \subseteq DOMAIN heap /\ Range(c) = Mine(q)
      /\ \A i \in 1 .. Len(c) : c[i] \in DOMAIN heap /\ heap[c[i]] \in Cell
  BY <1>3 DEF ListOf
<1>6. IF head[q] = NULL THEN last = NULL ELSE last = tail[q]
  BY <1>3 DEF ListOf, End
<1>7. last = NULL \/ last \in Range(c)
  BY <1>3 DEF ListOf, End
<1>8. \A i \in 1 .. Len(c) : c[i] = last <=> i = Len(c)
  <2> TAKE i \in 1 .. Len(c)
  <2>1. c # <<>> /\ Len(c) \in 1 .. Len(c)
    BY <1>5
  <2>2. last = c[Len(c)]
    BY <2>1 DEF End
  <2> HIDE DEF last
  <2> QED
    BY <1>5, <2>1, <2>2 DEF Unique
<1> HIDE DEF last
<1>9. /\ DOMAIN heap' = DOMAIN heap \cup {n} /\ heap'[n] = [value |-> v, next |-> NULL]
      /\ \A m \in DOMAIN heap : heap'[m] = IF m = last THEN [heap[m] EXCEPT !.next = n]
                                           ELSE heap[m]
      /\ heap' = [m \in DOMAIN heap \cup {n} |-> heap'[m]]
  BY <1>2, <1>4, <1>6 DEF Linked
<1>10. /\ a \in Seq(Node) /\ Len(a) = Len(c) + 1 /\ a[Len(c) + 1] = n
       /\ \A i \in 1 .. Len(c) : a[i] = c[i]
       /\ Range(a) = Range(c) \cup {n} /\ Unique(a)
  BY <1>4, <1>5, EnqueueRange, AppendProperties
<1> HIDE DEF a
<1>11. ASSUME NEW m \in DOMAIN heap
       PROVE  /\ heap'[m] \in Cell /\ heap'[m].value = heap[m].value
              /\ heap'[m].next = IF m = last THEN n ELSE heap[m].next
  <2>1. heap[m] \in Cell
    BY <1>4 DEF Types
  <2>2. CASE m = last
    <3>1. heap'[m] = [heap[m] EXCEPT !.next = n]
      BY <1>9, <2>2
    <3> QED
      BY <1>4, <2>1, <2>2, <3>1, Relinked
  <2>3. CASE m # last
    BY <1>9, <2>1, <2>3
  <2> QED
    BY <2>2, <2>3
<1>12. Types'
  <2>1. [value |-> v, next |-> NULL] \in Cell
    BY DEF Cell, Null
  <2>2. heap' \in [DOMAIN heap' -> Cell]
    BY <1>9, <1>11, <2>1
  <2> QED
    BY <1>1, <1>2, <1>4, <1>9, <2>2 DEF Types, Null
<1>13. OnlyOn(q, a)
  <2>1. DOMAIN heap' = (DOMAIN heap \ Mine(q)) \cup Range(a)
    BY <1>5, <1>9, <1>10
  <2>2. \A m \in DOMAIN heap \ Mine(q) : heap'[m] = heap[m]
    BY <1>4, <1>5, <1>7, <1>9
  <2> QED
    BY <1>1, <1>2, <1>4, <1>5, <1>10, <2>1, <2>2 DEF OnlyOn, Types
<1>14. IsList(q, a)'
  <2>1. Range(a) \subseteq DOMAIN heap'
    BY <1>5, <1>9, <1>10
  <2>2. head'[q] = a[1] /\ a # <<>>
    <3>1. CASE head[q] = NULL
      BY <1>2, <1>3, <1>4, <1>5, <1>10, <3>1 DEF ListOf, Types
    <3>2. CASE head[q] # NULL
      <4>1. c # <<>> /\ head[q] = c[1]
        BY <1>3, <3>2 DEF ListOf, IsList
      <4>2. 1 \in 1 .. Len(c)
        BY <1>5, <4>1
      <4>3. head'[q] = head[q]
        BY <1>2, <1>4, <3>2 DEF Types
      <4> QED
        BY <1>5, <1>10, <4>1, <4>2, <4>3
    <3> QED
      BY <3>1, <3>2
  <2>3. ASSUME NEW i \in 1 .. Len(a)
        PROVE  heap'[a[i]].next = IF i = Len(a) THEN NULL ELSE a[i + 1]
    <3>1. CASE i = Len(c) + 1
      BY <1>9, <1>10, <3>1
    <3>2. CASE i = Len(c) /\ i \in 1 .. Len(c)
      BY <1>5, <1>8, <1>10, <1>11, <3>2
    <3>3. CASE i # Len(c) /\ i \in 1 .. Len(c)
      <4>1. i + 1 \in 1 .. Len(c) /\ i # Len(a)
        BY <1>5, <1>10, <3>3
      <4>2. heap[c[i]].next = c[i + 1]
        BY <1>3, <3>3 DEF ListOf, IsList
      <4> QED
        BY <1>5, <1>8, <1>10, <1>11, <3>3, <4>1, <4>2
    <3>4. i = Len(c) + 1 \/ i \in 1 .. Len(c)
      BY <1>5, <1>10
    <3> QED
      BY <3>1, <3>2, <3>3, <3>4
  <2> QED
    BY <1>10, <2>1, <2>2, <2>3 DEF IsList
<1>15. Keeps(q, a)'
  <2>1. tail'[q] = n /\ size'[q] = Len(c) + 1
    BY <1>1, <1>2, <1>3, <1>4 DEF ListOf, Types
  <2>2. a # <<>>
    BY <1>5, <1>10
  <2> QED
    BY <1>10, <1>14, <2>1, <2>2 DEF Keeps, End
<1>16. Lists' /\ Chain(q)' = a /\ \A r \in Queue \ {q} : Contents(r)' = Contents(r)
  BY <1>1, <1>4, <1>10, <1>12, <1>13, <1>15, CallEffect
<1>17. Contents(q)' = Append(Contents(q), v)
  <2> DEFINE s == Contents(q)
             t == Append(s, v)
  <2>1. Contents(q)' = [i \in 1 .. Len(c) + 1 |-> heap'[a[i]].value]
    BY <1>1, <1>10, <1>16 DEF Contents, Values
  <2>2. s \in Seq(Value) /\ Len(s) = Len(c) /\ \A i \in 1 .. Len(c) : s[i] = heap[c[i]].value
    BY <1>3 DEF ListOf
  <2> HIDE DEF s
  <2>3. /\ t \in Seq(Value) /\ Len(t) = Len(c) + 1 /\ t[Len(c) + 1] = v
        /\ \A i \in 1 .. Len(c) : t[i] = heap[c[i]].value
    BY <2>2, AppendProperties
  <2> HIDE DEF t
  <2>4. ASSUME NEW i \in 1 .. Len(c) + 1 PROVE heap'[a[i]].value = t[i]
    <3>1. CASE i = Len(c) + 1
      BY <1>9, <1>10, <2>3, <3>1
    <3>2. CASE i \in 1 .. Len(c)
      BY <1>5, <1>10, <1>11, <2>3, <3>2
    <3>3. i = Len(c) + 1 \/ i \in 1 .. Len(c)
      BY <1>5
    <3> QED
      BY <3>1, <3>2, <3>3
  <2>5. t = [i \in 1 .. Len(c) + 1 |-> t[i]]
    BY <2>3
  <2>6. Contents(q)' = t
    BY <2>1, <2>4, <2>5
  <2> QED
    BY <2>6 DEF s, t
<1> QED
  BY <1>12, <1>16, <1>17 DEF IInv

LEMMA DequeueEffect ==
  ASSUME IInv, NEW q \in Queue, queue_dequeue(q)
  PROVE  /\ IInv' /\ Contents(q) # <<>> /\ out' = <<Head(Contents(q))>>
         /\ Contents(q)' = SubSeq(Contents(q), 2, Len(Contents(q)))
         /\ \A r \in Queue \ {q} : Contents(r)' = Contents(r)
<1>1. /\ live[q] /\ head[q] # NULL /\ size' = [size EXCEPT ![q] = @ - 1] /\ live' = live
      /\ head' = [head EXCEPT ![q] = heap[head[q]].next]
      /\ tail' = [tail EXCEPT ![q] = IF heap[head[q]].next = NULL THEN NULL ELSE @]
      /\ heap' = Restrict(heap, DOMAIN heap \ {head[q]})
      /\ out' = <<heap[head[q]].value>>
  BY DEF queue_dequeue
<1>2. PICK c \in Seq(Node) : ListOf(q, c)
  BY <1>1, LiveList
<1> DEFINE a == Tail(c)
           n == Head(c)
<1>3. Types /\ Lists /\ NULL \notin Node /\ DOMAIN heap \subseteq Node
  BY QueueAssumption DEF IInv, Types
<1>4. /\ c # <<>> /\ Len(c) \in Nat \ {0} /\ n = c[1] /\ head[q] = n
      /\ Unique(c) /\ Range(c) \subseteq DOMAIN heap /\ Range(c) = Mine(q)
  <2>1. c # <<>> /\ Len(c) \in Nat /\ Len(c) # 0
    BY <1>1, <1>2 DEF ListOf
  <2>2. n = c[1]
    BY <2>1
  <2>3. head[q] = c[1]
    BY <1>2, <2>1 DEF ListOf, IsList
  <2> HIDE DEF n
  <2> QED
    BY <1>2, <2>1, <2>2, <2>3 DEF ListOf
<1>5. /\ \A i \in 1 .. Len(c) : c[i] \in Node /\ heap[c[i]] \in Cell
      /\ \A i \in 1 .. Len(c) : heap[c[i]].next = IF i = Len(c) THEN NULL ELSE c[i + 1]
      /\ size[q] = Len(c) /\ tail[q] = c[Len(c)]
  BY <1>2, <1>4 DEF ListOf, IsList, End
<1>6. /\ a \in Seq(Node) /\ Len(a) = Len(c) - 1
      /\ \A i \in 1 .. Len(c) - 1 : a[i] = c[i + 1]
      /\ Range(a) = Range(c) \ {n} /\ Unique(a) /\ n \in Range(c)
  BY <1>4, DequeueRange
<1> HIDE DEF a, n
<1>7. /\ DOMAIN heap' = DOMAIN heap \ {n}
      /\ \A m \in DOMAIN heap \ {n} : heap'[m] = heap[m]
      /\ heap' = [m \in DOMAIN heap \ {n} |-> heap'[m]]
  BY <1>1, <1>4 DEF Restrict
<1>8. /\ head'[q] = IF Len(c) = 1 THEN NULL ELSE c[2]
      /\ tail'[q] = IF Len(c) = 1 THEN NULL ELSE c[Len(c)]
      /\ size'[q] = Len(c) - 1
      /\ heap[n].next \in Null
  <2>1. heap[n].next = IF Len(c) = 1 THEN NULL ELSE c[2]
    <3>1. 1 \in 1 .. Len(c) /\ 1 + 1 = 2
      BY <1>4
    <3>2. heap[c[1]].next = IF 1 = Len(c) THEN NULL ELSE c[1 + 1]
      BY <1>5, <3>1
    <3> QED
      BY <1>4, <3>1, <3>2
  <2>2. Len(c) # 1 => c[2] \in Node
    <3>1. ASSUME NEW k \in Nat \ {0} PROVE k # 1 => 2 \in 1 .. k
      OBVIOUS
    <3>2. Len(c) # 1 => 2 \in 1 .. Len(c)
      BY <1>4, <3>1
    <3> QED
      BY <1>5, <3>2
  <2> QED
    BY <1>1, <1>3, <1>4, <1>5, <2>1, <2>2 DEF Types, Null
<1>9. Types'
  <2>1. heap' \in [DOMAIN heap' -> Cell]
    BY <1>3, <1>7 DEF Types
  <2>2. head' \in [Queue -> Null] /\ tail' \in [Queue -> Null]
    BY <1>1, <1>3, <1>4, <1>8 DEF Types, Null
  <2>3. size' \in [Queue -> Nat]
    <3>1. size[q] - 1 \in Nat
      BY <1>4, <1>5
    <3> QED
      BY <1>1, <1>3, <3>1 DEF Types
  <2> QED
    BY <1>1, <1>3, <1>7, <2>1, <2>2, <2>3 DEF Types
<1>10. OnlyOn(q, a)
  <2>1. DOMAIN heap' = (DOMAIN heap \ Mine(q)) \cup Range(a)
    BY <1>4, <1>6, <1>7
  <2>2. \A m \in DOMAIN heap \ Mine(q) : heap'[m] = heap[m]
    BY <1>4, <1>6, <1>7
  <2> QED
    BY <1>1, <1>3, <1>4, <1>6, <2>1, <2>2 DEF OnlyOn, Types
<1>11. \A i \in 1 .. Len(a) : i + 1 \in 1 .. Len(c) /\ a[i] = c[i + 1] /\ heap'[a[i]] = heap[a[i]]
  <2> TAKE i \in 1 .. Len(a)
  <2>1. i + 1 \in 1 .. Len(c) /\ a[i] = c[i + 1]
    BY <1>4, <1>6
  <2>2. a[i] \in Range(a)
    BY <1>6 DEF Range
  <2> QED
    BY <1>4, <1>6, <1>7, <2>1, <2>2
<1>12. IsList(q, a)'
  <2>1. Range(a) \subseteq DOMAIN heap'
    BY <1>4, <1>6, <1>7
  <2>2. a = <<>> <=> Len(c) = 1
    BY <1>4, <1>6
  <2>3. Len(c) # 1 => a[1] = c[2]
    BY <1>4, <1>6
  <2>4. ASSUME NEW i \in 1 .. Len(a)
        PROVE  heap'[a[i]].next = IF i = Len(a) THEN NULL ELSE a[i + 1]
    <3>1. heap'[a[i]].next = IF i + 1 = Len(c) THEN NULL ELSE c[(i + 1) + 1]
      BY <1>5, <1>11
    <3>2. i = Len(a) <=> i + 1 = Len(c)
      BY <1>4, <1>6
    <3>3. i # Len(a) => a[i + 1] = c[(i + 1) + 1]
      BY <1>4, <1>6
    <3> QED
      BY <3>1, <3>2, <3>3
  <2> QED
    BY <1>6, <1>8, <2>1, <2>2, <2>3, <2>4 DEF IsList
<1>13. Keeps(q, a)'
  <2>1. CASE Len(c) = 1
    BY <1>4, <1>6, <1>8, <1>12, <2>1 DEF Keeps, End
  <2>2. CASE Len(c) # 1
    <3>1. a # <<>> /\ a[Len(a)] = c[Len(c)]
      BY <1>4, <1>6, <2>2
    <3> QED
      BY <1>6, <1>8, <1>12, <2>2, <3>1 DEF Keeps, End
  <2> QED
    BY <2>1, <2>2
<1>14. Lists' /\ Chain(q)' = a /\ \A r \in Queue \ {q} : Contents(r)' = Contents(r)
  BY <1>1, <1>3, <1>6, <1>9, <1>10, <1>13, CallEffect
<1>15. /\ Contents(q) # <<>> /\ out' = <<Head(Contents(q))>>
       /\ Contents(q)' = SubSeq(Contents(q), 2, Len(Contents(q)))
  <2> DEFINE s == Contents(q)
             t == SubSeq(s, 2, Len(s))
  <2>1. Contents(q)' = [i \in 1 .. Len(a) |-> heap'[a[i]].value]
    BY <1>1, <1>6, <1>14 DEF Contents, Values
  <2>2. s \in Seq(Value) /\ Len(s) = Len(c) /\ \A i \in 1 .. Len(c) : s[i] = heap[c[i]].value
    BY <1>2 DEF ListOf
  <2> HIDE DEF s
  <2>3. s # <<>> /\ Head(s) = s[1] /\ s[1] = heap[n].value
    BY <1>4, <2>2
  <2>4. /\ t \in Seq(Value) /\ Len(t) = Len(c) - 1
        /\ \A i \in 1 .. Len(c) - 1 : t[i] = s[i + 1]
    <3>1. 2 \in 1 .. Len(s) + 1 /\ Len(s) \in 2 - 1 .. Len(s) /\ Len(s) \in Nat
      BY <1>4, <2>2
    <3>2. /\ t \in Seq(Value) /\ Len(t) = Len(s) - 2 + 1
          /\ \A i \in 1 .. Len(s) - 2 + 1 : t[i] = s[2 + i - 1]
      BY <2>2, <3>1, SubSeqProperties
    <3> HIDE DEF t
    <3> QED
      BY <1>4, <2>2, <3>1, <3>2
  <2> HIDE DEF t
  <2>5. ASSUME NEW i \in 1 .. Len(a) PROVE heap'[a[i]].value = t[i]
    <3>1. t[i] = s[i + 1]
      BY <1>6, <2>4
    <3>2. s[i + 1] = heap[c[i + 1]].value
      BY <1>11, <2>2
    <3> QED
      BY <1>11, <3>1, <3>2
  <2>6. t = [i \in 1 .. Len(a) |-> t[i]]
    BY <1>6, <2>4
  <2>7. Contents(q)' = t
    BY <2>1, <2>5, <2>6
  <2> QED
    BY <1>1, <1>4, <2>3, <2>7 DEF s, t
<1> QED
  BY <1>9, <1>14, <1>15 DEF IInv

\* A call that only looks.
LEMMA LookEffect ==
  ASSUME IInv, UNCHANGED <<heap, queue_t, live>>
  PROVE  IInv' /\ \A r \in Queue : Contents(r)' = Contents(r)
<1>1. heap' = heap /\ head' = head /\ tail' = tail /\ size' = size /\ live' = live
  BY DEF queue_t
<1>2. \A r \in Queue : Chain(r)' = Chain(r)
  BY <1>1 DEF Chain, NodeAt
<1>3. \A r \in Queue : Values(r)' = Values(r)
  BY <1>1, <1>2 DEF Values
<1>4. \A r \in Queue : Contents(r)' = Contents(r) /\ Mine(r)' = Mine(r)
  BY <1>1, <1>2, <1>3 DEF Contents, Mine
<1>5. \A r \in Queue : live[r] => Keeps(r, Chain(r))'
  <2> SUFFICES ASSUME NEW r \in Queue, live[r] PROVE Keeps(r, Chain(r))'
    OBVIOUS
  <2>1. PICK c : c = Chain(r)
    OBVIOUS
  <2>2. Keeps(r, c)
    BY <2>1 DEF IInv, Lists
  <2>3. Keeps(r, c)'
    BY <1>1, <2>2 DEF Keeps, IsList, End
  <2> QED
    BY <1>2, <2>1, <2>3
<1>6. Lists'
  <2>1. \A q, r \in Queue : q # r => Mine(q)' \cap Mine(r)' = {}
    BY <1>4 DEF IInv, Lists
  <2>2. DOMAIN heap' = UNION { Mine(r)' : r \in Queue }
    <3>1. DOMAIN heap = UNION { Mine(r) : r \in Queue }
      BY DEF IInv, Lists
    <3> QED
      BY <1>1, <1>4, <3>1
  <2> QED
    BY <1>1, <1>5, <2>1, <2>2 DEF Lists
<1> QED
  BY <1>1, <1>4, <1>6 DEF IInv, Types

LEMMA ToArrayEffect ==
  ASSUME IInv, NEW q \in Queue, queue_to_array(q)
  PROVE  out' = Contents(q)
<1>1. live[q] /\ out' = [i \in 1 .. size[q] |-> heap[NodeAt(q)[i - 1]].value]
  BY DEF queue_to_array
<1>2. PICK c \in Seq(Node) : ListOf(q, c)
  BY <1>1, LiveList
<1>3. \A i \in 1 .. Len(c) : NodeAt(q)[i - 1] = c[i]
  BY <1>2, ListsWalked DEF ListsAreWalked, ListOf, IInv, Types
<1> QED
  BY <1>1, <1>2, <1>3 DEF ListOf

\* A call after which q is empty.
LEMMA EmptyEffect ==
  ASSUME IInv, NEW q \in Queue, Types', OnlyOn(q, <<>>),
         live'[q] => head'[q] = NULL /\ tail'[q] = NULL /\ size'[q] = 0
  PROVE  /\ IInv' /\ Contents(q)' = <<>>
         /\ \A r \in Queue \ {q} : Contents(r)' = Contents(r)
<1> DEFINE c == <<>>
<1>1. c \in Seq(Node) /\ Len(c) = 0 /\ Range(c) = {} /\ Unique(c) /\ DOMAIN c = {}
  BY DEF Range, Unique
<1>2. live'[q] => Keeps(q, c)'
  <2>1. live'[q] => IsList(q, c)'
    BY <1>1 DEF IsList
  <2> QED
    BY <1>1, <2>1 DEF Keeps, End
<1>3. /\ Lists' /\ \A r \in Queue \ {q} : Contents(r)' = Contents(r)
      /\ live'[q] => Chain(q)' = c
  BY <1>1, <1>2, CallEffect DEF IInv
<1>4. Contents(q)' = <<>>
  BY <1>1, <1>3 DEF Contents, Values
<1> QED
  BY <1>3, <1>4 DEF IInv

LEMMA InitEffect ==
  ASSUME IInv, NEW q \in Queue, queue_init(q)
  PROVE  /\ IInv' /\ Contents(q)' = <<>>
         /\ \A r \in Queue \ {q} : Contents(r)' = Contents(r)
<1>1. /\ ~ live[q] /\ live' = [live EXCEPT ![q] = TRUE] /\ heap' = heap
      /\ head' = [head EXCEPT ![q] = NULL] /\ tail' = [tail EXCEPT ![q] = NULL]
      /\ size' = [size EXCEPT ![q] = 0]
  BY DEF queue_init
<1>2. Types'
  BY <1>1 DEF IInv, Types, Null
<1>3. OnlyOn(q, <<>>)
  <2>1. Mine(q) = {} /\ Range(<<>>) = {}
    BY <1>1 DEF Mine, Range
  <2> QED
    BY <1>1, <2>1 DEF OnlyOn, IInv, Types
<1>4. head'[q] = NULL /\ tail'[q] = NULL /\ size'[q] = 0
  BY <1>1 DEF IInv, Types
<1> QED
  BY <1>2, <1>3, <1>4, EmptyEffect

LEMMA FreeEffect ==
  ASSUME IInv, NEW q \in Queue, live[q], FreeAll(q)
  PROVE  /\ DOMAIN heap' = DOMAIN heap \ Mine(q)
         /\ \A n \in DOMAIN heap \ Mine(q) : heap'[n] = heap[n]
         /\ heap' \in [DOMAIN heap' -> Cell] /\ DOMAIN heap' \subseteq Node
<1>1. heap' = [n \in DOMAIN heap \ Mine(q) |-> heap[n]]
  BY DEF FreeAll, Restrict, Mine
<1> QED
  BY <1>1 DEF IInv, Types

LEMMA CleanupEffect ==
  ASSUME IInv, NEW q \in Queue, queue_cleanup(q)
  PROVE  /\ IInv' /\ Contents(q)' = <<>>
         /\ \A r \in Queue \ {q} : Contents(r)' = Contents(r)
<1>1. /\ live[q] /\ FreeAll(q) /\ live' = [live EXCEPT ![q] = FALSE]
      /\ head' = head /\ tail' = tail /\ size' = size
  BY DEF queue_cleanup, queue_t
<1>2. Types'
  BY <1>1, FreeEffect DEF IInv, Types
<1>3. OnlyOn(q, <<>>)
  <2>1. Range(<<>>) = {}
    BY DEF Range
  <2> QED
    BY <1>1, <2>1, FreeEffect DEF OnlyOn, IInv, Types
<1>4. ~ live'[q]
  BY <1>1 DEF IInv, Types
<1> QED
  BY <1>2, <1>3, <1>4, EmptyEffect

LEMMA ClearEffect ==
  ASSUME IInv, NEW q \in Queue, queue_clear(q)
  PROVE  /\ IInv' /\ Contents(q)' = <<>>
         /\ \A r \in Queue \ {q} : Contents(r)' = Contents(r)
<1>1. /\ live[q] /\ FreeAll(q) /\ live' = live
      /\ head' = [head EXCEPT ![q] = NULL] /\ tail' = [tail EXCEPT ![q] = NULL]
      /\ size' = [size EXCEPT ![q] = 0]
  BY DEF queue_clear
<1>2. Types'
  BY <1>1, FreeEffect DEF IInv, Types, Null
<1>3. OnlyOn(q, <<>>)
  <2>1. Range(<<>>) = {}
    BY DEF Range
  <2> QED
    BY <1>1, <2>1, FreeEffect DEF OnlyOn, IInv, Types
<1>4. head'[q] = NULL /\ tail'[q] = NULL /\ size'[q] = 0
  BY <1>1 DEF IInv, Types
<1> QED
  BY <1>2, <1>3, <1>4, EmptyEffect
-----------------------------------------------------------------------------
LEMMA InitIInv ==
  ASSUME Init
  PROVE  IInv /\ \A q \in Queue : Contents(q) = <<>>
<1> DEFINE c == <<>>
<1>1. c \in Seq(Node) /\ Len(c) = 0 /\ Range(c) = {} /\ Unique(c) /\ DOMAIN c = {}
  BY DEF Range, Unique
<1>2. DOMAIN heap = {} /\ heap \in [DOMAIN heap -> Cell]
  BY DEF Init
<1>3. Types
  BY <1>2 DEF Init, Types, Null
<1>4. ASSUME NEW q \in Queue
      PROVE  Keeps(q, c) /\ Chain(q) = c /\ live[q]
  <2>1. /\ head[q] = NULL /\ tail[q] = NULL /\ size[q] = 0 /\ live[q]
    BY DEF Init
  <2>2. IsList(q, c)
    BY <1>1, <2>1 DEF IsList
  <2> QED
    BY <1>1, <1>2, <2>1, <2>2, ListsWalked DEF Keeps, End, ListsAreWalked
<1>5. \A q \in Queue : Mine(q) = {}
  BY <1>1, <1>4 DEF Mine
<1>6. Lists
  BY <1>2, <1>4, <1>5 DEF Lists
<1>7. \A q \in Queue : Contents(q) = <<>>
  BY <1>1, <1>4 DEF Contents, Values
<1> QED
  BY <1>3, <1>6, <1>7 DEF IInv

LEMMA NextIInv ==
  ASSUME IInv, [Next]_vars
  PROVE  IInv'
<1>1. ASSUME NEW q \in Queue, NEW v \in Value, queue_enqueue(q, v) PROVE IInv'
  BY <1>1, EnqueueEffect
<1>2. ASSUME NEW q \in Queue, queue_dequeue(q) PROVE IInv'
  BY <1>2, DequeueEffect
<1>3. ASSUME NEW q \in Queue, dequeue_empty(q) \/ queue_peek(q) \/ queue_to_array(q)
      PROVE  IInv'
  BY <1>3, LookEffect DEF dequeue_empty, queue_peek, queue_to_array
<1>4. ASSUME NEW q \in Queue, queue_init(q) PROVE IInv'
  BY <1>4, InitEffect
<1>5. ASSUME NEW q \in Queue, queue_cleanup(q) PROVE IInv'
  BY <1>5, CleanupEffect
<1>6. ASSUME NEW q \in Queue, queue_clear(q) PROVE IInv'
  BY <1>6, ClearEffect
<1>7. CASE UNCHANGED vars
  BY <1>7, LookEffect DEF vars
<1> QED
  BY <1>1, <1>2, <1>3, <1>4, <1>5, <1>6, <1>7 DEF Next

LEMMA Invariant == Spec => []IInv
<1>1. Init => IInv
  BY InitIInv
<1>2. IInv /\ [Next]_vars => IInv'
  BY NextIInv
<1> QED
  BY <1>1, <1>2, PTL DEF Spec

(***************************************************************************)
(* The pointers and the count queue.c keeps agree with the lists; a node   *)
(* is in one list or free.                                                 *)
(***************************************************************************)
THEOREM Links == Spec => []WellLinked
<1>1. IInv => WellLinked
  <2> SUFFICES ASSUME IInv PROVE WellLinked
    OBVIOUS
  <2> DEFINE Nodes(q) == Range(Chain(q))
  <2>1. ASSUME NEW q \in Queue, live[q]
        PROVE  /\ Nodes(q) \subseteq DOMAIN heap
               /\ size[q] = Len(Chain(q)) /\ size[q] = Cardinality(Nodes(q))
               /\ tail[q] = IF size[q] = 0 THEN NULL ELSE Chain(q)[size[q]]
               /\ Mine(q) = Nodes(q)
    <3>1. PICK c \in Seq(Node) : ListOf(q, c)
      BY <2>1, LiveList
    <3>2. c = Chain(q) /\ Unique(c) /\ Range(c) \subseteq DOMAIN heap /\ Range(c) = Mine(q)
      BY <3>1 DEF ListOf
    <3>3. size[q] = Len(c) /\ (Len(c) = 0 <=> c = <<>>) /\ tail[q] = End(c)
      BY <3>1 DEF ListOf
    <3>4. Cardinality(Range(c)) = Len(c)
      BY <3>2, NodesFinite
    <3> QED
      BY <3>2, <3>3, <3>4 DEF End
  <2>2. \A q, r \in Queue : q # r /\ live[q] /\ live[r] => Nodes(q) \cap Nodes(r) = {}
    BY <2>1 DEF IInv, Lists
  <2>3. DOMAIN heap = UNION { Nodes(q) : q \in { r \in Queue : live[r] } }
    <3>1. DOMAIN heap = UNION { Mine(q) : q \in Queue }
      BY DEF IInv, Lists
    <3>2. \A q \in Queue : ~ live[q] => Mine(q) = {}
      BY DEF Mine
    <3> HIDE DEF Nodes
    <3> QED
      BY <2>1, <3>1, <3>2
  <2> QED
    BY <2>1, <2>2, <2>3 DEF WellLinked
<1> QED
  BY <1>1, Invariant, PTL

(***************************************************************************)
(* Each queue is a first-in first-out queue of its own.                    *)
(***************************************************************************)
LEMMA ContentsAre ==
  fifo!Init <=> (out = <<>> /\ [q \in Queue |-> Contents(q)] = [q \in Queue |-> <<>>])
BY DEF fifo!Init, Contents

THEOREM Implements == Spec => ImplementsFifo
<1> DEFINE all == [q \in Queue |-> Contents(q)]
<1>1. Init => fifo!Init
  BY InitIInv, ContentsAre DEF Init
<1>2. IInv /\ [Next]_vars => [fifo!Next]_(fifo!vars)
  <2> SUFFICES ASSUME IInv, [Next]_vars PROVE [fifo!Next]_(fifo!vars)
    OBVIOUS
  <2>1. all = [q \in Queue |-> IF live[q] THEN Values(q) ELSE <<>>]
    BY DEF Contents
  <2>2. all' = [q \in Queue |-> IF live[q] THEN Values(q) ELSE <<>>]'
    BY DEF Contents
  <2>3. ASSUME NEW q \in Queue, NEW x, Contents(q)' = x,
               \A r \in Queue \ {q} : Contents(r)' = Contents(r)
        PROVE  all' = [all EXCEPT ![q] = x]
    BY <2>3
  <2>4. ASSUME \A r \in Queue : Contents(r)' = Contents(r)
        PROVE  all' = all
    BY <2>4
  <2>5. \A q \in Queue : all[q] = Contents(q)
    OBVIOUS
  <2>6. ASSUME NEW q \in Queue, live[q]
        PROVE  /\ Contents(q) = <<>> <=> head[q] = NULL
               /\ head[q] # NULL => Head(Contents(q)) = heap[head[q]].value
    <3>1. PICK c \in Seq(Node) : ListOf(q, c)
      BY <2>6, LiveList
    <3>2. /\ Len(c) \in Nat /\ (c = <<>> <=> Len(c) = 0) /\ (c = <<>> <=> head[q] = NULL)
          /\ Contents(q) = [i \in 1 .. Len(c) |-> heap[c[i]].value]
          /\ Contents(q) \in Seq(Value) /\ Len(Contents(q)) = Len(c)
      BY <3>1 DEF ListOf
    <3>3. head[q] # NULL => head[q] = c[1] /\ 1 \in 1 .. Len(c)
      <4>1. IsList(q, c)
        BY <3>1 DEF ListOf
      <4>2. head[q] # NULL => head[q] = c[1]
        BY <4>1 DEF IsList
      <4>3. ASSUME NEW k \in Nat PROVE k # 0 => 1 \in 1 .. k
        OBVIOUS
      <4> QED
        BY <3>2, <4>2, <4>3
    <3>4. head[q] # NULL => Head(Contents(q)) = Contents(q)[1]
      BY <3>2
    <3> QED
      BY <3>2, <3>3, <3>4
  <2> HIDE DEF all
  <2>7. ASSUME NEW q \in Queue, NEW v \in Value, queue_enqueue(q, v) PROVE fifo!Next
    <3>1. all' = [all EXCEPT ![q] = Append(Contents(q), v)] /\ out' = <<>>
      BY <2>3, <2>7, EnqueueEffect DEF queue_enqueue
    <3>2. fifo!Enqueue(q, v)
      BY <2>1, <2>2, <2>5, <3>1 DEF fifo!Enqueue
    <3> QED
      BY <3>2 DEF fifo!Next
  <2>8. ASSUME NEW q \in Queue, queue_dequeue(q) PROVE fifo!Next
    <3>1. /\ all' = [all EXCEPT ![q] = SubSeq(Contents(q), 2, Len(Contents(q)))]
          /\ out' = fifo!First(Contents(q))
      BY <2>3, <2>8, DequeueEffect DEF fifo!First
    <3>2. fifo!Dequeue(q)
      BY <2>1, <2>2, <2>5, <3>1 DEF fifo!Dequeue
    <3> QED
      BY <3>2 DEF fifo!Next
  <2>9. ASSUME NEW q \in Queue, dequeue_empty(q) PROVE fifo!Next
    <3>1. live[q] /\ head[q] = NULL /\ out' = <<>> /\ UNCHANGED <<heap, queue_t, live>>
      BY <2>9 DEF dequeue_empty
    <3>2. all' = all /\ out' = fifo!First(Contents(q))
      BY <2>4, <2>6, <3>1, LookEffect DEF fifo!First
    <3>3. fifo!Peek(q)
      BY <2>1, <2>2, <2>5, <3>2 DEF fifo!Peek
    <3> QED
      BY <3>3 DEF fifo!Next
  <2>10. ASSUME NEW q \in Queue, queue_peek(q) PROVE fifo!Next
    <3>1. /\ live[q] /\ UNCHANGED <<heap, queue_t, live>>
          /\ out' = IF head[q] = NULL THEN <<>> ELSE <<heap[head[q]].value>>
      BY <2>10 DEF queue_peek
    <3>2. all' = all /\ out' = fifo!First(Contents(q))
      BY <2>4, <2>6, <3>1, LookEffect DEF fifo!First
    <3>3. fifo!Peek(q)
      BY <2>1, <2>2, <2>5, <3>2 DEF fifo!Peek
    <3> QED
      BY <3>3 DEF fifo!Next
  <2>11. ASSUME NEW q \in Queue, queue_to_array(q) PROVE fifo!Next
    <3>1. all' = all /\ out' = Contents(q)
      BY <2>4, <2>11, LookEffect, ToArrayEffect DEF queue_to_array
    <3>2. fifo!ToArray(q)
      BY <2>1, <2>2, <2>5, <3>1 DEF fifo!ToArray
    <3> QED
      BY <3>2 DEF fifo!Next
  <2>12. ASSUME NEW q \in Queue, queue_init(q) \/ queue_cleanup(q) \/ queue_clear(q)
         PROVE  fifo!Next
    <3>1. out' = <<>>
      BY <2>12 DEF queue_init, queue_cleanup, queue_clear
    <3>2. Contents(q)' = <<>> /\ \A r \in Queue \ {q} : Contents(r)' = Contents(r)
      BY <2>12, InitEffect, CleanupEffect, ClearEffect
    <3>3. all' = [all EXCEPT ![q] = <<>>]
      BY <2>3, <3>2
    <3>4. fifo!Clear(q)
      BY <2>1, <2>2, <3>1, <3>3 DEF fifo!Clear
    <3> QED
      BY <3>4 DEF fifo!Next
  <2>13. CASE UNCHANGED vars
    <3>1. all' = all /\ out' = out
      BY <2>4, <2>13, LookEffect DEF vars
    <3> QED
      BY <2>1, <2>2, <3>1 DEF fifo!vars
  <2> QED
    BY <2>7, <2>8, <2>9, <2>10, <2>11, <2>12, <2>13 DEF Next
<1> QED
  BY <1>1, <1>2, Invariant, PTL DEF Spec, ImplementsFifo, fifo!Spec
=============================================================================
