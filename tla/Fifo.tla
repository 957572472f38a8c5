-------------------------------- MODULE Fifo --------------------------------
(***************************************************************************)
(* What queue.h promises of every queue_t: values come out in the order    *)
(* they went in, looking at a queue does not change it, and queues do not  *)
(* share anything.  `out` is what the last call handed to its caller.      *)
(***************************************************************************)
EXTENDS Sequences

CONSTANTS Queue, Value

VARIABLES contents,  \* Queue -> Seq(Value), oldest first
          out        \* Seq(Value); <<>> where the code returns NULL or nothing

vars == <<contents, out>>

First(s) == IF s = <<>> THEN <<>> ELSE <<Head(s)>>

Init == contents = [q \in Queue |-> <<>>] /\ out = <<>>

Enqueue(q, v) ==
  contents' = [contents EXCEPT ![q] = Append(@, v)] /\ out' = <<>>

Dequeue(q) ==
  /\ out' = First(contents[q])
  /\ contents' = [contents EXCEPT ![q] = SubSeq(@, 2, Len(@))]

Peek(q) == out' = First(contents[q]) /\ UNCHANGED contents

ToArray(q) == out' = contents[q] /\ UNCHANGED contents

Clear(q) == contents' = [contents EXCEPT ![q] = <<>>] /\ out' = <<>>

Next == \E q \in Queue :
  \/ \E v \in Value : Enqueue(q, v)
  \/ Dequeue(q) \/ Peek(q) \/ ToArray(q) \/ Clear(q)

Spec == Init /\ [][Next]_vars
=============================================================================
