---------------------------- MODULE Paster2Props ----------------------------
(***************************************************************************)
(* What must be true of Paster2.                                           *)
(***************************************************************************)
EXTENDS Paster2

\* The semaphores are never negative and the mutex is binary; the stack
\* pointer stays in the array it indexes (shm_stack.c, push and pop); every
\* process that uses a part has one.
TypeOK ==
  /\ sem_spaces \in 0 .. B
  /\ sem_items \in 0 .. B
  /\ stack_mutex \in 0 .. 1
  /\ pos \in -1 .. B - 1
  /\ slot \in [0 .. B - 1 -> Part \cup {None}]
  /\ png_array \in [Part -> Part \cup {None}]
  /\ png_count \in 0 .. NUM_SEGMENTS
  /\ downloaded_count \in 0 .. NUM_SEGMENTS
  /\ num_consumers \in 0 .. Cardinality(Consumer)
  /\ ppc \in [Producer -> ProducerPC]
  /\ part \in [Producer -> Part \cup {None}]
  /\ \A p \in Producer :
       part[p] # None <=> ppc[p] \notin {"unborn", "next", "exited", "reaped"}
  /\ cpc \in [Consumer -> ConsumerPC]
  /\ got \in [Consumer -> Part \cup {None}]
  /\ \A c \in Consumer :
       got[c] # None <=> cpc[c] \in {"drop", "unlock", "spaces", "store"}
  /\ main \in {"producers", "consumers", "wait", "collect", "written", "aborted"}
  /\ waited \in 0 .. Children
  /\ fetch_failures \in 0 .. MaxFetchFailures
  /\ fork_failures \in 0 .. MaxForkFailures
-----------------------------------------------------------------------------
PAt(S) == {p \in Producer : ppc[p] \in S}
CAt(S) == {c \in Consumer : cpc[c] \in S}

\* Pushes that took a space and have not posted the item yet, and the ones
\* of them that have moved the stack pointer; the same of pops.
Pushing == PAt({"lock", "push", "copy", "unlock", "items"})
Pushed  == PAt({"copy", "unlock", "items"})
Popping == CAt({"lock", "pop", "drop", "unlock", "spaces"})
ToPop   == CAt({"lock", "pop", "drop"})

\* The two counting semaphores of push_recv_buf_to_shm_stack and
\* pop_recv_buf_from_shm_stack account for every place of the stack: a place
\* is free, holds an item, or belongs to one push or pop under way; and the
\* stack pointer agrees with them at every instant.
SemaphoreBalance ==
  /\ sem_spaces + sem_items + Cardinality(Pushing) + Cardinality(Popping) = B
  /\ pos + 1 = sem_items + Cardinality(Pushed) + Cardinality(ToPop)

\* push and pop can fail, and their callers do not look (shm_utils.c:208 and
\* :274): a producer would post an item it never stored, a consumer would be
\* told to exit with its reservation unused.  Neither is ever refused.
NeverRefused ==
  /\ \A p \in Producer : ppc[p] = "push" => pos < B - 1
  /\ \A c \in Consumer : cpc[c] = "pop" => pos >= 0

\* Between the sem_wait and the sem_post of sem_stack_mutex.
InPush == PAt({"push", "copy", "unlock"})
InPop  == CAt({"pop", "drop", "unlock"})

\* sem_stack_mutex (shm_utils.c:199 and :264): of all the processes, one at
\* most is at work on the stack, and none while the mutex is free.
StackExclusive == Cardinality(InPush) + Cardinality(InPop) = 1 - stack_mutex

Born == CAt(ConsumerPC \ {"unborn"})

\* There are producers, and more consumers than parts that kill one.
Staffed == PAt({"unborn"}) # Producer /\ Cardinality(Born) > Cardinality(Bad)

\* When the parent has waited for its children (paster2.c:81), every part
\* that could be decoded is in its own place in the array, whichever process
\* died of a bad part and whichever fork failed.
Collected ==
  main \in {"collect", "written", "aborted"} /\ Staffed =>
    \A i \in Part \ Bad : png_array[i] = i

-----------------------------------------------------------------------------
(***************************************************************************)
(* Who can take a step: what sem_wait and wait() wait for is there.        *)
(***************************************************************************)
ProducerCanGo(p) ==
  /\ ppc[p] \notin {"unborn", "exited", "reaped"}
  /\ ppc[p] = "spaces" => sem_spaces > 0
  /\ ppc[p] = "lock" => stack_mutex > 0

ConsumerCanGo(c) ==
  /\ cpc[c] \notin {"unborn", "exited", "crashed", "reaped"}
  /\ cpc[c] = "items" => sem_items > 0
  /\ cpc[c] = "lock" => stack_mutex > 0

Ended == main \in {"written", "aborted"}

Gone ==
  /\ \A p \in Producer : ppc[p] \in {"unborn", "reaped"}
  /\ \A c \in Consumer : cpc[c] \in {"unborn", "reaped"}

ParentCanGo ==
  /\ ~ Ended
  /\ main = "wait" => \/ waited = Children \/ Gone
                      \/ PAt({"exited"}) # {} \/ CAt({"exited", "crashed"}) # {}

\* paster2 never comes to a stop with everybody asleep, on a semaphore of
\* shm_utils.c or in wait() (paster2.c:81): until the parent has ended there is
\* always a process that can go on, with any transfers and forks failing and
\* any consumers killed by a part they could not decode.
NeverStuck ==
  Staffed /\ ~ Ended =>
    \/ ParentCanGo
    \/ \E p \in Producer : ProducerCanGo(p)
    \/ \E c \in Consumer : ConsumerCanGo(c)

(***************************************************************************)
(* The steps that paster2 has left, at most: those of each process until   *)
(* it ends, without the rounds it still has to begin, which are counted    *)
(* with the parts not yet taken and the items not yet reserved.            *)
(***************************************************************************)
ProducerStepsLeft ==
  LET At(S) == Cardinality(PAt(S))
  IN  At({"exited"}) + 2 * At({"next"}) + 3 * At({"unborn", "items"}) + 4 * At({"unlock"})
        + 5 * At({"copy"}) + 6 * At({"push"}) + 7 * At({"lock"}) + 8 * At({"spaces"})
        + 9 * At({"fetch"})

ConsumerStepsLeft ==
  LET At(S) == Cardinality(CAt(S))
  IN  At({"exited", "crashed"}) + 2 * At({"check"}) + 3 * At({"unborn", "store"})
        + 4 * At({"spaces"}) + 5 * At({"unlock"}) + 6 * At({"drop"}) + 7 * At({"pop"})
        + 8 * At({"lock"}) + 9 * At({"items"})

ParentStepsLeft ==
  (CASE main = "producers" -> 4 [] main = "consumers" -> 3 [] main = "wait" -> 2
     [] main = "collect" -> 1 [] OTHER -> 0)
    + (Children - waited)

StepsLeft ==
  8 * (NUM_SEGMENTS - png_count) + 8 * (NUM_SEGMENTS - downloaded_count)
    + ProducerStepsLeft + ConsumerStepsLeft + ParentStepsLeft
    + (MaxFetchFailures - fetch_failures)

\* Every step of every process brings the end nearer: no process goes round a
\* loop of produce or consume (consumer_producer.c:5 and :39) for nothing, and
\* none undoes what another has done.
EachStepCounts == [][StepsLeft' < StepsLeft]_vars

\* The parent's wait ends: nobody is left asleep on a semaphore.
Ends == main = "wait" /\ Staffed ~> main \in {"written", "aborted"}
-----------------------------------------------------------------------------
(***************************************************************************)
(* The abstract pipeline.  A part is in the stack from the end of push's   *)
(* copy to the end of pop's.                                               *)
(***************************************************************************)
Assigned == {part[p] : p \in PAt({"fetch", "spaces", "lock", "push", "copy"})}
Taken    == {got[c] : c \in CAt({"drop", "unlock", "spaces", "store"})}
Stacked  == LET unsettled == PAt({"copy"}) # {} \/ CAt({"drop"}) # {}
            IN  {slot[k] : k \in 0 .. IF unsettled THEN pos - 1 ELSE pos}

PartStatus(i) ==
  CASE i >= png_count    -> "todo"
    [] i \in Assigned    -> "assigned"
    [] i \in Stacked     -> "buffered"
    [] i \in Taken       -> "taken"
    [] png_array[i] = i  -> "stored"
    [] OTHER             -> "lost"

PipelineOf ==
  INSTANCE Pipeline WITH
    status  <- [i \in Part |-> PartStatus(i)],
    outcome <- IF main \in {"written", "aborted"} THEN main ELSE "running"

\* paster2 implements the pipeline: no part is assigned twice, overwritten in
\* the stack, read while it is being copied or popped twice; no part is lost
\* but the ones that cannot be decoded; at most B wait; and all.png is written
\* only from all the parts.
ImplementsPipeline == PipelineOf!Spec
=============================================================================
