------------------------------ MODULE Paster2 ------------------------------
(***************************************************************************)
(* lab3: paster2 fetches the NUM_SEGMENTS parts of an image.  Producer     *)
(* processes fetch parts and push them to a bounded stack in shared        *)
(* memory; consumer processes pop them, decode them and put them in an     *)
(* array in shared memory; the parent forks them all, waits for them all,  *)
(* and concatenates what the array holds.                                  *)
(*                                                                         *)
(* Every sem_wait and sem_post is a step of its own.  The code between the *)
(* wait and the post of sem_png_array_mutex (_is_all_png_downloaded) and   *)
(* of sem_download_mutex (get_download_segment_index) only touches         *)
(* counters nobody else touches, and each is one step.  push and pop are   *)
(* two steps each (the stack pointer and the item), so that only           *)
(* sem_stack_mutex keeps them apart.                                       *)
(***************************************************************************)
EXTENDS Integers, FiniteSets

CONSTANTS Producer, Consumer,  \* the processes main means to fork
          B,                   \* max_stack_size, after main's min(B, 9)
          NUM_SEGMENTS,
          Bad,              \* parts the server may answer with something not a PNG
          None,             \* no part: NULL, or an empty element of an array
          MaxFetchFailures, \* bound: failed transfers in a behaviour
          MaxForkFailures   \* bound: failed forks in a behaviour

Part == 0 .. NUM_SEGMENTS - 1

ASSUME Paster2Assumption ==
  /\ IsFiniteSet(Producer) /\ Producer # {}
  /\ IsFiniteSet(Consumer) /\ Consumer # {}
  /\ B \in Nat \ {0}
  /\ NUM_SEGMENTS \in Nat
  /\ Bad \subseteq Part
  /\ None \notin Int
  /\ MaxFetchFailures \in Nat
  /\ MaxForkFailures \in Nat

VARIABLES
  sem_spaces, sem_items,  \* the counting semaphores
  stack_mutex,            \* sem_stack_mutex, 0 or 1
  pos, slot,              \* RecvStack: index of the top, and the items
  png_array,              \* the part decoded into each element
  png_count,              \* the next part to download
  num_consumers,
  downloaded_count,       \* items reserved by consumers
  ppc, part,              \* producers: where they are, the part they have
  cpc, got,               \* consumers: where they are, the part they have
  main,                   \* where the parent is
  waited,                 \* how many times wait() has returned
  fetch_failures, fork_failures

stack_vars == <<stack_mutex, pos, slot>>
counters   == <<png_count, num_consumers, downloaded_count>>
main_vars  == <<main, waited, fork_failures>>
vars == <<sem_spaces, sem_items, stack_vars, png_array, counters,
          ppc, part, cpc, got, main_vars, fetch_failures>>

ProducerPC == {"unborn", "next", "fetch", "spaces", "lock", "push", "copy",
               "unlock", "items", "exited", "reaped"}
ConsumerPC == {"unborn", "check", "items", "lock", "pop", "drop", "unlock",
               "spaces", "store", "exited", "crashed", "reaped"}

Init ==
  /\ sem_spaces = B
  /\ sem_items = 0
  /\ stack_mutex = 1
  /\ pos = -1
  /\ slot = [i \in 0 .. B - 1 |-> None]
  /\ png_array = [i \in Part |-> None]
  /\ png_count = 0
  /\ num_consumers = Cardinality(Consumer)
  /\ downloaded_count = 0
  /\ ppc = [p \in Producer |-> "unborn"]
  /\ part = [p \in Producer |-> None]
  /\ cpc = [c \in Consumer |-> "unborn"]
  /\ got = [c \in Consumer |-> None]
  /\ main = "producers"
  /\ waited = 0
  /\ fetch_failures = 0
  /\ fork_failures = 0
-----------------------------------------------------------------------------
(***************************************************************************)
(* A producer: get_download_segment_index, fetch_url until it succeeds,    *)
(* push_recv_buf_to_shm_stack.                                             *)
(***************************************************************************)
PGoto(p, from, to) == ppc[p] = from /\ ppc' = [ppc EXCEPT ![p] = to]

NextSegment(p) ==
  /\ png_count < NUM_SEGMENTS
  /\ PGoto(p, "next", "fetch")
  /\ part' = [part EXCEPT ![p] = png_count]
  /\ png_count' = png_count + 1
  /\ UNCHANGED <<sem_spaces, sem_items, stack_vars, png_array, num_consumers,
                 downloaded_count, cpc, got, main_vars, fetch_failures>>

NoSegmentLeft(p) ==
  /\ png_count >= NUM_SEGMENTS
  /\ PGoto(p, "next", "exited")
  /\ UNCHANGED <<sem_spaces, sem_items, stack_vars, png_array, counters,
                 part, cpc, got, main_vars, fetch_failures>>

\* fetch_url returned NULL; produce tries again
FetchFails(p) ==
  /\ ppc[p] = "fetch"
  /\ fetch_failures < MaxFetchFailures
  /\ fetch_failures' = fetch_failures + 1
  /\ UNCHANGED <<sem_spaces, sem_items, stack_vars, png_array, counters,
                 ppc, part, cpc, got, main_vars>>

Fetched(p) ==
  /\ PGoto(p, "fetch", "spaces")
  /\ UNCHANGED <<sem_spaces, sem_items, stack_vars, png_array, counters,
                 part, cpc, got, main_vars, fetch_failures>>

\* Mutant: a part is pushed without waiting for a space.
PWaitSpaces_NoWait(p) ==
  /\ PGoto(p, "spaces", "lock")
  /\ UNCHANGED <<sem_spaces, sem_items, stack_vars, png_array, counters,
                 part, cpc, got, main_vars, fetch_failures>>

PWaitSpaces(p) ==
  /\ PGoto(p, "spaces", "lock")
  /\ sem_spaces > 0
  /\ sem_spaces' = sem_spaces - 1
  /\ UNCHANGED <<sem_items, stack_vars, png_array, counters,
                 part, cpc, got, main_vars, fetch_failures>>

\* Mutant: sem_stack_mutex is looked at and not taken.
PLock_NotTaken(p) ==
  /\ PGoto(p, "lock", "push")
  /\ stack_mutex > 0
  /\ UNCHANGED <<sem_spaces, sem_items, stack_vars, png_array, counters,
                 part, cpc, got, main_vars, fetch_failures>>

PLock(p) ==
  /\ PGoto(p, "lock", "push")
  /\ stack_mutex > 0
  /\ stack_mutex' = stack_mutex - 1
  /\ UNCHANGED <<sem_spaces, sem_items, pos, slot, png_array, counters,
                 part, cpc, got, main_vars, fetch_failures>>

\* push: ++(p->pos), or -1 from a full stack, which
\* push_recv_buf_to_shm_stack does not look at
Push(p) ==
  /\ PGoto(p, "push", IF pos = B - 1 THEN "unlock" ELSE "copy")
  /\ pos' = IF pos = B - 1 THEN pos ELSE pos + 1
  /\ UNCHANGED <<sem_spaces, sem_items, stack_mutex, slot, png_array, counters,
                 part, cpc, got, main_vars, fetch_failures>>

\* push: the copy to items[p->pos]
PushCopy(p) ==
  /\ PGoto(p, "copy", "unlock")
  /\ slot' = [slot EXCEPT ![pos] = part[p]]
  /\ UNCHANGED <<sem_spaces, sem_items, stack_mutex, pos, png_array, counters,
                 part, cpc, got, main_vars, fetch_failures>>

PUnlock(p) ==
  /\ PGoto(p, "unlock", "items")
  /\ stack_mutex' = stack_mutex + 1
  /\ UNCHANGED <<sem_spaces, sem_items, pos, slot, png_array, counters,
                 part, cpc, got, main_vars, fetch_failures>>

\* Mutant: the wrong semaphore is posted.
PPostItems_Swapped(p) ==
  /\ PGoto(p, "items", "next")
  /\ sem_spaces' = sem_spaces + 1
  /\ part' = [part EXCEPT ![p] = None]
  /\ UNCHANGED <<sem_items, stack_vars, png_array, counters,
                 cpc, got, main_vars, fetch_failures>>

\* sem_post, and destroy_recv_buf back in produce
PPostItems(p) ==
  /\ PGoto(p, "items", "next")
  /\ sem_items' = sem_items + 1
  /\ part' = [part EXCEPT ![p] = None]
  /\ UNCHANGED <<sem_spaces, stack_vars, png_array, counters,
                 cpc, got, main_vars, fetch_failures>>
-----------------------------------------------------------------------------
(***************************************************************************)
(* A consumer: pop_recv_buf_from_shm_stack, which starts by reserving an   *)
(* item in _is_all_png_downloaded, then create_png_from_buf and            *)
(* add_png_to_shm_array.                                                   *)
(***************************************************************************)
CGoto(c, from, to) == cpc[c] = from /\ cpc' = [cpc EXCEPT ![c] = to]

\* Mutant: consumers stop one part too soon.
AllReserved_TooSoon(c) ==
  /\ num_consumers > 0 => downloaded_count >= NUM_SEGMENTS - 1
  /\ CGoto(c, "check", "exited")
  /\ num_consumers' = IF num_consumers > 0 THEN num_consumers - 1 ELSE num_consumers
  /\ UNCHANGED <<sem_spaces, sem_items, stack_vars, png_array, png_count,
                 downloaded_count, ppc, part, got, main_vars, fetch_failures>>

AllReserved(c) ==
  /\ num_consumers > 0 => downloaded_count >= NUM_SEGMENTS
  /\ CGoto(c, "check", "exited")
  /\ num_consumers' = IF num_consumers > 0 THEN num_consumers - 1 ELSE num_consumers
  /\ UNCHANGED <<sem_spaces, sem_items, stack_vars, png_array, png_count,
                 downloaded_count, ppc, part, got, main_vars, fetch_failures>>

\* Mutant: one part too many is reserved.
Reserve_TooMany(c) ==
  /\ CGoto(c, "check", "items")
  /\ num_consumers > 0
  /\ downloaded_count <= NUM_SEGMENTS
  /\ downloaded_count' = downloaded_count + 1
  /\ UNCHANGED <<sem_spaces, sem_items, stack_vars, png_array, png_count,
                 num_consumers, ppc, part, got, main_vars, fetch_failures>>

Reserve(c) ==
  /\ CGoto(c, "check", "items")
  /\ num_consumers > 0
  /\ downloaded_count < NUM_SEGMENTS
  /\ downloaded_count' = downloaded_count + 1
  /\ UNCHANGED <<sem_spaces, sem_items, stack_vars, png_array, png_count,
                 num_consumers, ppc, part, got, main_vars, fetch_failures>>

CWaitItems(c) ==
  /\ CGoto(c, "items", "lock")
  /\ sem_items > 0
  /\ sem_items' = sem_items - 1
  /\ UNCHANGED <<sem_spaces, stack_vars, png_array, counters,
                 ppc, part, got, main_vars, fetch_failures>>

CLock(c) ==
  /\ CGoto(c, "lock", "pop")
  /\ stack_mutex > 0
  /\ stack_mutex' = stack_mutex - 1
  /\ UNCHANGED <<sem_spaces, sem_items, pos, slot, png_array, counters,
                 ppc, part, got, main_vars, fetch_failures>>

\* pop: the copy of items[p->pos], or 1 from an empty stack, which
\* pop_recv_buf_from_shm_stack does not look at
Pop(c) ==
  /\ CGoto(c, "pop", IF pos = -1 THEN "unlock" ELSE "drop")
  /\ got' = IF pos = -1 THEN got ELSE [got EXCEPT ![c] = slot[pos]]
  /\ UNCHANGED <<sem_spaces, sem_items, stack_vars, png_array, counters,
                 ppc, part, main_vars, fetch_failures>>

\* Mutant: the item stays on the stack.
PopDrop_Kept(c) ==
  /\ CGoto(c, "drop", "unlock")
  /\ UNCHANGED <<sem_spaces, sem_items, stack_vars, png_array, counters,
                 ppc, part, got, main_vars, fetch_failures>>

\* pop: (p->pos)--
PopDrop(c) ==
  /\ CGoto(c, "drop", "unlock")
  /\ pos' = pos - 1
  /\ UNCHANGED <<sem_spaces, sem_items, stack_mutex, slot, png_array, counters,
                 ppc, part, got, main_vars, fetch_failures>>

CUnlock(c) ==
  /\ CGoto(c, "unlock", "spaces")
  /\ stack_mutex' = stack_mutex + 1
  /\ UNCHANGED <<sem_spaces, sem_items, pos, slot, png_array, counters,
                 ppc, part, got, main_vars, fetch_failures>>

\* Mutant: the place that was emptied is not announced.
CPostSpaces_Silent(c) ==
  /\ CGoto(c, "spaces", IF got[c] = None THEN "exited" ELSE "store")
  /\ UNCHANGED <<sem_spaces, sem_items, stack_vars, png_array, counters,
                 ppc, part, got, main_vars, fetch_failures>>

\* sem_post; consume returns if recv_buf is still NULL
CPostSpaces(c) ==
  /\ CGoto(c, "spaces", IF got[c] = None THEN "exited" ELSE "store")
  /\ sem_spaces' = sem_spaces + 1
  /\ UNCHANGED <<sem_items, stack_vars, png_array, counters,
                 ppc, part, got, main_vars, fetch_failures>>

\* the index is the one the server put in the header: the part it was asked for
Store(c) ==
  /\ CGoto(c, "store", "check")
  /\ png_array' = [png_array EXCEPT ![got[c]] = got[c]]
  /\ got' = [got EXCEPT ![c] = None]
  /\ UNCHANGED <<sem_spaces, sem_items, stack_vars, counters,
                 ppc, part, main_vars, fetch_failures>>

\* create_png_from_buf returned NULL, which add_png_to_shm_array reads through
Crash(c) ==
  /\ got[c] \in Bad
  /\ CGoto(c, "store", "crashed")
  /\ got' = [got EXCEPT ![c] = None]
  /\ UNCHANGED <<sem_spaces, sem_items, stack_vars, png_array, counters,
                 ppc, part, main_vars, fetch_failures>>
-----------------------------------------------------------------------------
(***************************************************************************)
(* The parent.  A failed fork ends the loop it is in, and only that loop.  *)
(***************************************************************************)
ForkProducer(p) ==
  /\ main = "producers"
  /\ PGoto(p, "unborn", "next")
  /\ UNCHANGED <<sem_spaces, sem_items, stack_vars, png_array, counters,
                 part, cpc, got, main_vars, fetch_failures>>

ForkConsumer(c) ==
  /\ main = "consumers"
  /\ CGoto(c, "unborn", "check")
  /\ UNCHANGED <<sem_spaces, sem_items, stack_vars, png_array, counters,
                 ppc, part, got, main_vars, fetch_failures>>

MainGoto(from, to) ==
  /\ main = from
  /\ main' = to
  /\ UNCHANGED <<sem_spaces, sem_items, stack_vars, png_array, counters,
                 ppc, part, cpc, got, waited, fetch_failures>>

ProducersForked ==
  /\ \A p \in Producer : ppc[p] # "unborn"
  /\ MainGoto("producers", "consumers")
  /\ UNCHANGED fork_failures

ConsumersForked ==
  /\ \A c \in Consumer : cpc[c] # "unborn"
  /\ MainGoto("consumers", "wait")
  /\ UNCHANGED fork_failures

ForkFails ==
  /\ fork_failures < MaxForkFailures
  /\ fork_failures' = fork_failures + 1
  /\ \/ (\E p \in Producer : ppc[p] = "unborn") /\ MainGoto("producers", "consumers")
     \/ (\E c \in Consumer : cpc[c] = "unborn") /\ MainGoto("consumers", "wait")

Children == Cardinality(Producer) + Cardinality(Consumer)

\* wait() reaps a child that has ended
Reap ==
  /\ main = "wait"
  /\ waited < Children
  /\ waited' = waited + 1
  /\ \/ (\E p \in Producer : PGoto(p, "exited", "reaped")) /\ UNCHANGED cpc
     \/ (\E c \in Consumer : CGoto(c, "exited", "reaped") \/ CGoto(c, "crashed", "reaped"))
        /\ UNCHANGED ppc
  /\ UNCHANGED <<sem_spaces, sem_items, stack_vars, png_array, counters,
                 part, got, main, fork_failures, fetch_failures>>

\* wait() returns -1: no child is left
ReapNone ==
  /\ main = "wait"
  /\ waited < Children
  /\ \A p \in Producer : ppc[p] \in {"unborn", "reaped"}
  /\ \A c \in Consumer : cpc[c] \in {"unborn", "reaped"}
  /\ waited' = waited + 1
  /\ UNCHANGED <<sem_spaces, sem_items, stack_vars, png_array, counters,
                 ppc, part, cpc, got, main, fork_failures, fetch_failures>>

AllWaited ==
  /\ waited = Children
  /\ MainGoto("wait", "collect")
  /\ UNCHANGED fork_failures

\* Mutant: the image is written from whatever parts there are.
WriteImage_Partial ==
  /\ MainGoto("collect", "written")
  /\ UNCHANGED fork_failures

\* get_all_png_from_shm_array, concatenate_pngs and write_png
WriteImage ==
  /\ \A i \in Part : png_array[i] # None
  /\ MainGoto("collect", "written")
  /\ UNCHANGED fork_failures

\* shmat of an element that was never initialised: abort()
AbortOnHole ==
  /\ \E i \in Part : png_array[i] = None
  /\ MainGoto("collect", "aborted")
  /\ UNCHANGED fork_failures

Finished == main \in {"written", "aborted"} /\ UNCHANGED vars
-----------------------------------------------------------------------------
ProducerStep(p) ==
  \/ NextSegment(p) \/ NoSegmentLeft(p) \/ FetchFails(p) \/ Fetched(p)
  \/ PWaitSpaces(p) \/ PLock(p) \/ Push(p) \/ PushCopy(p)
  \/ PUnlock(p) \/ PPostItems(p)

ConsumerStep(c) ==
  \/ AllReserved(c) \/ Reserve(c)
  \/ CWaitItems(c) \/ CLock(c) \/ Pop(c) \/ PopDrop(c)
  \/ CUnlock(c) \/ CPostSpaces(c) \/ Store(c) \/ Crash(c)

Main ==
  \/ \E p \in Producer : ForkProducer(p)
  \/ \E c \in Consumer : ForkConsumer(c)
  \/ ProducersForked \/ ConsumersForked \/ ForkFails
  \/ Reap \/ ReapNone \/ AllWaited \/ WriteImage \/ AbortOnHole

Next ==
  \/ \E p \in Producer : ProducerStep(p)
  \/ \E c \in Consumer : ConsumerStep(c)
  \/ Main
  \/ Finished

(***************************************************************************)
(* Every process that can take a step takes one eventually; a transfer     *)
(* fails only MaxFetchFailures times.                                      *)
(***************************************************************************)
Fairness ==
  /\ \A p \in Producer : WF_vars(ProducerStep(p))
  /\ \A c \in Consumer : WF_vars(ConsumerStep(c))
  /\ WF_vars(Main)

Spec == Init /\ [][Next]_vars /\ Fairness
=============================================================================
