------------------------------- MODULE Queue -------------------------------
(***************************************************************************)
(* lab4/queue.c and lab5/queue.c: singly linked lists of nodes from the    *)
(* C heap, with a pointer to the last node and a count.  The program keeps *)
(* several at a time (frontier, search_results, the links of one page) on  *)
(* one heap.  A call is one step: every queue is used by one thread only,  *)
(* or under bfs->mutex.                                                    *)
(*                                                                         *)
(* heap holds the nodes that are allocated; malloc may return any node     *)
(* that is not.  The heap is bounded by Node, where malloc would fail.     *)
(***************************************************************************)
EXTENDS Naturals, FiniteSets, Sequences, Functions

CONSTANTS Queue, Value, Node, NULL

ASSUME QueueAssumption == IsFiniteSet(Node) /\ NULL \notin Node \cup Value

VARIABLES heap,              \* node -> [value, next], for the allocated nodes
          head, tail, size,  \* the queue_t of each queue
          live,              \* initialised and not yet cleaned up
          out                \* the values the last call returned

queue_t == <<head, tail, size>>
vars    == <<heap, queue_t, live, out>>

Free == Node \ DOMAIN heap

\* the node k steps after the head of q, NULL past the end
NodeAt(q) ==
  LET at[k \in 0 .. Cardinality(Node)] ==
        IF k = 0 THEN head[q]
        ELSE IF at[k - 1] \in DOMAIN heap THEN heap[at[k - 1]].next ELSE NULL
  IN  at

\* the nodes of q from its head on, as `while (curr != NULL)` visits them
Chain(q) ==
  LET at  == NodeAt(q)
      len == CHOOSE n \in 0 .. Cardinality(Node) :
               \A k \in 0 .. Cardinality(Node) - 1 : at[k] # NULL <=> k < n
  IN  [k \in 1 .. len |-> at[k - 1]]

Values(q) == [k \in DOMAIN Chain(q) |-> heap[Chain(q)[k]].value]
-----------------------------------------------------------------------------
Init ==
  /\ heap = <<>>
  /\ head = [q \in Queue |-> NULL]
  /\ tail = [q \in Queue |-> NULL]
  /\ size = [q \in Queue |-> 0]
  /\ live = [q \in Queue |-> TRUE]
  /\ out = <<>>

queue_init(q) ==
  /\ ~ live[q]
  /\ live' = [live EXCEPT ![q] = TRUE]
  /\ head' = [head EXCEPT ![q] = NULL]
  /\ tail' = [tail EXCEPT ![q] = NULL]
  /\ size' = [size EXCEPT ![q] = 0]
  /\ out' = <<>>
  /\ UNCHANGED heap

\* heap' once node n holds v and is linked behind the node `last`, if any
Linked(n, v, last) ==
  [m \in DOMAIN heap \cup {n} |->
     IF m = n THEN [value |-> v, next |-> NULL]
     ELSE IF m = last THEN [heap[m] EXCEPT !.next = n] ELSE heap[m]]

\* Mutant: the last node is not the tail from the second value on.
queue_enqueue_StaleTail(q, v) ==
  /\ live[q]
  /\ \E n \in Free :
       /\ heap' = Linked(n, v, IF head[q] = NULL THEN NULL ELSE tail[q])
       /\ head' = [head EXCEPT ![q] = IF @ = NULL THEN n ELSE @]
       /\ tail' = [tail EXCEPT ![q] = IF head[q] = NULL THEN n ELSE @]
  /\ size' = [size EXCEPT ![q] = @ + 1]
  /\ out' = <<>>
  /\ UNCHANGED live

queue_enqueue(q, v) ==
  /\ live[q]
  /\ \E n \in Free :
       /\ heap' = Linked(n, v, IF head[q] = NULL THEN NULL ELSE tail[q])
       /\ head' = [head EXCEPT ![q] = IF @ = NULL THEN n ELSE @]
       /\ tail' = [tail EXCEPT ![q] = n]
  /\ size' = [size EXCEPT ![q] = @ + 1]
  /\ out' = <<>>
  /\ UNCHANGED live

\* Mutant: the last node taken out remains the tail.
queue_dequeue_TailKept(q) ==
  /\ live[q]
  /\ head[q] # NULL
  /\ head' = [head EXCEPT ![q] = heap[head[q]].next]
  /\ size' = [size EXCEPT ![q] = @ - 1]
  /\ heap' = Restrict(heap, DOMAIN heap \ {head[q]})
  /\ out' = <<heap[head[q]].value>>
  /\ UNCHANGED <<tail, live>>

\* The caller owns the string; only the node is freed.
queue_dequeue(q) ==
  /\ live[q]
  /\ head[q] # NULL
  /\ LET n == heap[head[q]].next IN
       /\ head' = [head EXCEPT ![q] = n]
       /\ tail' = [tail EXCEPT ![q] = IF n = NULL THEN NULL ELSE @]
  /\ size' = [size EXCEPT ![q] = @ - 1]
  /\ heap' = Restrict(heap, DOMAIN heap \ {head[q]})
  /\ out' = <<heap[head[q]].value>>
  /\ UNCHANGED live

dequeue_empty(q) ==
  /\ live[q]
  /\ head[q] = NULL
  /\ out' = <<>>
  /\ UNCHANGED <<heap, queue_t, live>>

queue_peek(q) ==
  /\ live[q]
  /\ out' = IF head[q] = NULL THEN <<>> ELSE <<heap[head[q]].value>>
  /\ UNCHANGED <<heap, queue_t, live>>

\* The loop counts to size and does not look for the end of the list.
queue_to_array(q) ==
  /\ live[q]
  /\ out' = [i \in 1 .. size[q] |-> heap[NodeAt(q)[i - 1]].value]
  /\ UNCHANGED <<heap, queue_t, live>>

FreeAll(q) == heap' = Restrict(heap, DOMAIN heap \ Range(Chain(q)))

\* The nodes are freed and the queue_t is left pointing at them.
queue_cleanup(q) ==
  /\ live[q]
  /\ FreeAll(q)
  /\ live' = [live EXCEPT ![q] = FALSE]
  /\ out' = <<>>
  /\ UNCHANGED queue_t

\* lab5 only
queue_clear(q) ==
  /\ live[q]
  /\ FreeAll(q)
  /\ head' = [head EXCEPT ![q] = NULL]
  /\ tail' = [tail EXCEPT ![q] = NULL]
  /\ size' = [size EXCEPT ![q] = 0]
  /\ out' = <<>>
  /\ UNCHANGED live

Next == \E q \in Queue :
  \/ \E v \in Value : queue_enqueue(q, v)
  \/ queue_dequeue(q) \/ dequeue_empty(q) \/ queue_peek(q) \/ queue_to_array(q)
  \/ queue_init(q) \/ queue_cleanup(q) \/ queue_clear(q)

Spec == Init /\ [][Next]_vars
-----------------------------------------------------------------------------
(***************************************************************************)
(* Properties.                                                             *)
(***************************************************************************)
\* The pointers and the count that queue.c keeps of a list agree with the list:
\* tail is its last node and size its length, which queue_to_array relies on.
\* A node is in one list only and, once out of it, is freed, not leaked.
WellLinked ==
  LET Nodes(q) == Range(Chain(q)) IN
  /\ \A q \in Queue : live[q] =>
       /\ Nodes(q) \subseteq DOMAIN heap
       /\ size[q] = Len(Chain(q)) /\ size[q] = Cardinality(Nodes(q))
       /\ tail[q] = IF size[q] = 0 THEN NULL ELSE Chain(q)[size[q]]
  /\ \A q, r \in Queue : q # r /\ live[q] /\ live[r] => Nodes(q) \cap Nodes(r) = {}
  /\ DOMAIN heap = UNION { Nodes(q) : q \in { r \in Queue : live[r] } }

\* Whatever the heap hands out and takes back, each queue is a FIFO queue of its
\* own; a queue that has been cleaned up is empty.
fifo == INSTANCE Fifo WITH
          contents <- [q \in Queue |-> IF live[q] THEN Values(q) ELSE <<>>]

ImplementsFifo == fifo!Spec
=============================================================================
