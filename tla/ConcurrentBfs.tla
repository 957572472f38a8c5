--------------------------- MODULE ConcurrentBfs ---------------------------
(***************************************************************************)
(* lab4/bfs.c: a breadth-first search shared by a pool of threads.         *)
(*                                                                         *)
(* All the threads run _bfs_concurrent_search over one bfs_t.  Every field *)
(* that changes is read and written with bfs->mutex held, so a critical    *)
(* section that contains no loop is one step, enabled when the mutex is    *)
(* free.  The loop over the children of a page is one step per check and   *)
(* per insertion, and keeps the mutex from its first step to its last.     *)
(* Everything outside the mutex (the call of bfs->work, the return from    *)
(* pthread_cond_wait) is a step of its own, and so is each pthread_create, *)
(* pthread_join and copied result of the main thread.                      *)
(***************************************************************************)
EXTENDS SearchReturn, FiniteSets, Functions

CONSTANTS Root,        \* the URL the search starts from
          work,        \* bfs->work: for each URL, the set of values it may return
          NThreads,    \* bfs->n_threads
          MaxResults,  \* bfs->max_results
          MaxSpurious  \* bound: spurious returns of pthread_cond_wait in a behaviour

\* NThreads # 0: bfs_start returns NULL at once otherwise.
ASSUME BfsAssumption ==
  /\ NULL \notin Nat
  /\ Root \in Url
  /\ NThreads \in Nat \ {0}
  /\ MaxResults \in Nat
  /\ MaxSpurious \in Nat
  /\ DOMAIN work = Url
  /\ \A u \in Url : work[u] # {} /\ \A r \in work[u] : r = NULL \/ r \in search_return_t

Thread == 1 .. NThreads

VARIABLES
  frontier,         \* bfs->frontier, the queue of URLs to work on
  search_results,   \* bfs->search_results, the queue of effective URLs found
  visited,          \* bfs->visited, the set of URLs ever enqueued
  waiting_threads,  \* bfs->waiting_threads
  work_done,        \* bfs->work_done
  mutex,            \* the thread inside the loop over children, or NULL
  pc,               \* where each thread is
  node,             \* the URL each thread has dequeued, or NULL
  ret,              \* what bfs->work returned to each thread, or NULL
  child,            \* i, the loop counter over ret->children
  calls,            \* how often bfs->work was called on each URL (the log file)
  main,             \* where bfs_start is
  nth,              \* i, its loop counter over threads
  returned,         \* the queue bfs_start returns
  spurious          \* how many waits have returned spuriously

bfs_vars  == <<frontier, search_results, visited, waiting_threads, work_done>>
local     == <<node, ret, child>>
main_vars == <<main, nth, returned>>
vars == <<bfs_vars, mutex, pc, local, calls, main_vars, spurious>>

(***************************************************************************)
(* Where a thread can be.  "waiting" is inside pthread_cond_wait;  "woken" *)
(* has been signalled and has to take the mutex again; "broke" left the    *)
(* loop by `break`; "stopped" returned because should_stop was 1.          *)
(***************************************************************************)
PC == {"unborn", "lock", "waiting", "woken", "call", "work", "process",
       "check", "insert", "broke", "stopped"}
InLoop     == {"check", "insert"}
Holding    == {"call", "work", "process", "check", "insert"}
Counted    == {"waiting", "woken", "broke"}
Terminated == {"broke", "stopped"}

Init ==
  /\ frontier = <<Root>>
  /\ search_results = <<>>
  /\ visited = {Root}
  /\ waiting_threads = 0
  /\ work_done = FALSE
  /\ mutex = NULL
  /\ pc = [t \in Thread |-> "unborn"]
  /\ node = [t \in Thread |-> NULL]
  /\ ret = [t \in Thread |-> NULL]
  /\ child = [t \in Thread |-> 0]
  /\ calls = [u \in Url |-> 0]
  /\ main = "create"
  /\ nth = 0
  /\ returned = <<>>
  /\ spurious = 0
-----------------------------------------------------------------------------
Free == mutex = NULL

Goto(t, l) == pc' = [pc EXCEPT ![t] = l]

\* pthread_cond_broadcast by t, which goes on to l
BroadcastGoto(t, l) ==
  pc' = [s \in Thread |-> IF s = t THEN l
                          ELSE IF pc[s] = "waiting" THEN "woken" ELSE pc[s]]

\* queue_dequeue of a node, then unlock, with the node to work on
DequeueNode(t) ==
  /\ frontier # <<>>
  /\ node' = [node EXCEPT ![t] = Head(frontier)]
  /\ frontier' = Tail(frontier)
  /\ Goto(t, "call")

(***************************************************************************)
(* _bfs_concurrent_search, from the top of its loop to the unlock.         *)
(***************************************************************************)
TakeNode(t) ==
  /\ pc[t] = "lock" /\ Free
  /\ DequeueNode(t)
  /\ UNCHANGED <<search_results, visited, waiting_threads, work_done, mutex,
                 ret, child, calls, main_vars, spurious>>

WaitForNode(t) ==
  /\ pc[t] = "lock" /\ Free
  /\ frontier = <<>>
  /\ waiting_threads + 1 # NThreads
  /\ waiting_threads' = waiting_threads + 1
  /\ Goto(t, "waiting")
  /\ UNCHANGED <<frontier, search_results, visited, work_done, mutex,
                 local, calls, main_vars, spurious>>

\* Mutant: no broadcast when the search ends.
EndSearch_Silent(t) ==
  /\ pc[t] = "lock" /\ Free
  /\ frontier = <<>>
  /\ waiting_threads + 1 = NThreads
  /\ waiting_threads' = waiting_threads + 1
  /\ work_done' = TRUE
  /\ Goto(t, "broke")
  /\ UNCHANGED <<frontier, search_results, visited, mutex,
                 local, calls, main_vars, spurious>>

\* the last thread to run out of work ends the search
EndSearch(t) ==
  /\ pc[t] = "lock" /\ Free
  /\ frontier = <<>>
  /\ waiting_threads + 1 = NThreads
  /\ waiting_threads' = waiting_threads + 1
  /\ work_done' = TRUE
  /\ BroadcastGoto(t, "broke")
  /\ UNCHANGED <<frontier, search_results, visited, mutex,
                 local, calls, main_vars, spurious>>

(***************************************************************************)
(* The return from pthread_cond_wait, with the mutex.                      *)
(***************************************************************************)
WakeToQuit(t) ==
  /\ pc[t] = "woken" /\ Free
  /\ work_done
  /\ Goto(t, "broke")
  /\ UNCHANGED <<bfs_vars, mutex, local, calls, main_vars, spurious>>

\* Mutant: a thread that got a node still counts as waiting.
WakeToNode_Counted(t) ==
  /\ pc[t] = "woken" /\ Free
  /\ ~ work_done
  /\ DequeueNode(t)
  /\ UNCHANGED <<search_results, visited, waiting_threads, work_done, mutex,
                 ret, child, calls, main_vars, spurious>>

WakeToNode(t) ==
  /\ pc[t] = "woken" /\ Free
  /\ ~ work_done
  /\ waiting_threads' = waiting_threads - 1
  /\ DequeueNode(t)
  /\ UNCHANGED <<search_results, visited, work_done, mutex,
                 ret, child, calls, main_vars, spurious>>

\* Mutant: a thread that found nothing counts once more when it waits again.
WakeToNothing_Counted(t) ==
  /\ pc[t] = "woken" /\ Free
  /\ ~ work_done
  /\ frontier = <<>>
  /\ Goto(t, "lock")
  /\ UNCHANGED <<bfs_vars, mutex, local, calls, main_vars, spurious>>

\* another thread has already dequeued what the broadcast was about
WakeToNothing(t) ==
  /\ pc[t] = "woken" /\ Free
  /\ ~ work_done
  /\ frontier = <<>>
  /\ waiting_threads' = waiting_threads - 1
  /\ Goto(t, "lock")
  /\ UNCHANGED <<frontier, search_results, visited, work_done, mutex,
                 local, calls, main_vars, spurious>>

\* POSIX lets pthread_cond_wait return with nothing signalled
WakeSpuriously(t) ==
  /\ pc[t] = "waiting"
  /\ spurious < MaxSpurious
  /\ spurious' = spurious + 1
  /\ Goto(t, "woken")
  /\ UNCHANGED <<bfs_vars, mutex, local, calls, main_vars>>

(***************************************************************************)
(* bfs->work(node), without the mutex.                                     *)
(***************************************************************************)
CallWork(t) ==
  /\ pc[t] = "call"
  /\ calls' = [calls EXCEPT ![node[t]] = @ + 1]
  /\ Goto(t, "work")
  /\ UNCHANGED <<bfs_vars, mutex, local, main_vars, spurious>>

WorkReturnsNull(t) ==
  /\ pc[t] = "work"
  /\ NULL \in work[node[t]]
  /\ node' = [node EXCEPT ![t] = NULL]
  /\ Goto(t, "lock")
  /\ UNCHANGED <<bfs_vars, mutex, ret, child, calls, main_vars, spurious>>

WorkReturns(t) ==
  /\ pc[t] = "work"
  /\ \E r \in work[node[t]] \ {NULL} : ret' = [ret EXCEPT ![t] = r]
  /\ Goto(t, "process")
  /\ UNCHANGED <<bfs_vars, mutex, node, child, calls, main_vars, spurious>>

(***************************************************************************)
(* _process_search_result(bfs, ret), and the frees that follow it.         *)
(***************************************************************************)
FreeNode(t) ==
  /\ node' = [node EXCEPT ![t] = NULL]
  /\ ret' = [ret EXCEPT ![t] = NULL]

ReportsPng(t) == ret[t].effective_url # NULL

\* Mutant: the early return keeps the mutex.
ProcessTooLate_Locked(t) ==
  /\ pc[t] = "process" /\ Free
  /\ work_done
  /\ mutex' = t
  /\ FreeNode(t)
  /\ Goto(t, "stopped")
  /\ UNCHANGED <<bfs_vars, child, calls, main_vars, spurious>>

\* the search ended while t was working: what t found is dropped
ProcessTooLate(t) ==
  /\ pc[t] = "process" /\ Free
  /\ work_done
  /\ FreeNode(t)
  /\ Goto(t, "stopped")
  /\ UNCHANGED <<bfs_vars, mutex, child, calls, main_vars, spurious>>

\* Mutant: work_done is not looked at before a result is recorded.
ProcessPng_Late(t) ==
  /\ pc[t] = "process" /\ Free
  /\ ReportsPng(t)
  /\ search_results' = Append(search_results, ret[t].effective_url)
  /\ IF Len(search_results') = MaxResults
       THEN work_done' = TRUE /\ BroadcastGoto(t, "stopped")
       ELSE UNCHANGED work_done /\ Goto(t, "lock")
  /\ FreeNode(t)
  /\ UNCHANGED <<frontier, visited, waiting_threads, mutex, child, calls,
                 main_vars, spurious>>

ProcessPng(t) ==
  /\ pc[t] = "process" /\ Free
  /\ ~ work_done
  /\ ReportsPng(t)
  /\ search_results' = Append(search_results, ret[t].effective_url)
  /\ IF Len(search_results') = MaxResults
       THEN work_done' = TRUE /\ BroadcastGoto(t, "stopped")
       ELSE UNCHANGED work_done /\ Goto(t, "lock")
  /\ FreeNode(t)
  /\ UNCHANGED <<frontier, visited, waiting_threads, mutex, child, calls,
                 main_vars, spurious>>

\* Mutant: a page without links leaves the mutex locked.
ProcessNothing_Locked(t) ==
  /\ pc[t] = "process" /\ Free
  /\ ~ work_done
  /\ ~ ReportsPng(t)
  /\ ret[t].children = <<>>
  /\ mutex' = t
  /\ FreeNode(t)
  /\ Goto(t, "lock")
  /\ UNCHANGED <<bfs_vars, child, calls, main_vars, spurious>>

ProcessNothing(t) ==
  /\ pc[t] = "process" /\ Free
  /\ ~ work_done
  /\ ~ ReportsPng(t)
  /\ ret[t].children = <<>>
  /\ FreeNode(t)
  /\ Goto(t, "lock")
  /\ UNCHANGED <<bfs_vars, mutex, child, calls, main_vars, spurious>>

\* Mutant: the loop over the children runs without the mutex.
ProcessChildren_Unlocked(t) ==
  /\ pc[t] = "process" /\ Free
  /\ ~ work_done
  /\ ~ ReportsPng(t)
  /\ ret[t].children # <<>>
  /\ child' = [child EXCEPT ![t] = 1]
  /\ Goto(t, "check")
  /\ UNCHANGED <<bfs_vars, mutex, node, ret, calls, main_vars, spurious>>

ProcessChildren(t) ==
  /\ pc[t] = "process" /\ Free
  /\ ~ work_done
  /\ ~ ReportsPng(t)
  /\ ret[t].children # <<>>
  /\ mutex' = t
  /\ child' = [child EXCEPT ![t] = 1]
  /\ Goto(t, "check")
  /\ UNCHANGED <<bfs_vars, node, ret, calls, main_vars, spurious>>

Child(t) == ret[t].children[child[t]]

\* hashmap_contains(&bfs->visited, child)
CheckChild(t) ==
  /\ pc[t] = "check"
  /\ child[t] <= Len(ret[t].children)
  /\ IF Child(t) \in visited
       THEN child' = [child EXCEPT ![t] = @ + 1] /\ UNCHANGED pc
       ELSE Goto(t, "insert") /\ UNCHANGED child
  /\ UNCHANGED <<bfs_vars, mutex, node, ret, calls, main_vars, spurious>>

\* Mutant: the child is enqueued and not marked.
InsertChild_Unmarked(t) ==
  /\ pc[t] = "insert"
  /\ frontier' = Append(frontier, Child(t))
  /\ child' = [child EXCEPT ![t] = @ + 1]
  /\ Goto(t, "check")
  /\ UNCHANGED <<visited, search_results, waiting_threads, work_done, mutex,
                 node, ret, calls, main_vars, spurious>>

\* hashmap_put and queue_enqueue
InsertChild(t) ==
  /\ pc[t] = "insert"
  /\ visited' = visited \cup {Child(t)}
  /\ frontier' = Append(frontier, Child(t))
  /\ child' = [child EXCEPT ![t] = @ + 1]
  /\ Goto(t, "check")
  /\ UNCHANGED <<search_results, waiting_threads, work_done, mutex,
                 node, ret, calls, main_vars, spurious>>

\* Mutant: no broadcast after the children.
ChildrenDone_Silent(t) ==
  /\ pc[t] = "check"
  /\ child[t] > Len(ret[t].children)
  /\ Goto(t, "lock")
  /\ mutex' = NULL
  /\ FreeNode(t)
  /\ child' = [child EXCEPT ![t] = 0]
  /\ UNCHANGED <<bfs_vars, calls, main_vars, spurious>>

\* Mutant: the loop stops before the last child.
ChildrenDone_Early(t) ==
  /\ pc[t] = "check"
  /\ child[t] >= Len(ret[t].children)
  /\ BroadcastGoto(t, "lock")
  /\ mutex' = NULL
  /\ FreeNode(t)
  /\ child' = [child EXCEPT ![t] = 0]
  /\ UNCHANGED <<bfs_vars, calls, main_vars, spurious>>

ChildrenDone(t) ==
  /\ pc[t] = "check"
  /\ child[t] > Len(ret[t].children)
  /\ BroadcastGoto(t, "lock")
  /\ mutex' = NULL
  /\ FreeNode(t)
  /\ child' = [child EXCEPT ![t] = 0]
  /\ UNCHANGED <<bfs_vars, calls, main_vars, spurious>>
-----------------------------------------------------------------------------
(***************************************************************************)
(* bfs_start, in the main thread: create, join, and copy the results.      *)
(***************************************************************************)
CreateThread ==
  /\ main = "create"
  /\ nth < NThreads
  /\ nth' = nth + 1
  /\ Goto(nth + 1, "lock")
  /\ UNCHANGED <<bfs_vars, mutex, local, calls, main, returned, spurious>>

AllCreated ==
  /\ main = "create"
  /\ nth = NThreads
  /\ main' = "join"
  /\ nth' = 0
  /\ UNCHANGED <<bfs_vars, mutex, pc, local, calls, returned, spurious>>

\* Mutant: the main thread does not wait for the thread it joins.
JoinThread_NoWait ==
  /\ main = "join"
  /\ nth < NThreads
  /\ nth' = nth + 1
  /\ UNCHANGED <<bfs_vars, mutex, pc, local, calls, main, returned, spurious>>

JoinThread ==
  /\ main = "join"
  /\ nth < NThreads
  /\ pc[nth + 1] \in Terminated
  /\ nth' = nth + 1
  /\ UNCHANGED <<bfs_vars, mutex, pc, local, calls, main, returned, spurious>>

AllJoined ==
  /\ main = "join"
  /\ nth = NThreads
  /\ main' = "copy"
  /\ UNCHANGED <<bfs_vars, mutex, pc, local, calls, nth, returned, spurious>>

CopyResult ==
  /\ main = "copy"
  /\ search_results # <<>>
  /\ returned' = Append(returned, Head(search_results))
  /\ search_results' = Tail(search_results)
  /\ UNCHANGED <<frontier, visited, waiting_threads, work_done, mutex, pc,
                 local, calls, main, nth, spurious>>

ReturnResults ==
  /\ main = "copy"
  /\ search_results = <<>>
  /\ main' = "done"
  /\ UNCHANGED <<bfs_vars, mutex, pc, local, calls, nth, returned, spurious>>

Finished == main = "done" /\ UNCHANGED vars
-----------------------------------------------------------------------------
Step(t) ==
  \/ TakeNode(t) \/ WaitForNode(t) \/ EndSearch(t)
  \/ WakeToQuit(t) \/ WakeToNode(t) \/ WakeToNothing(t)
  \/ CallWork(t) \/ WorkReturnsNull(t) \/ WorkReturns(t)
  \/ ProcessTooLate(t) \/ ProcessPng(t) \/ ProcessNothing(t) \/ ProcessChildren(t)
  \/ CheckChild(t) \/ InsertChild(t) \/ ChildrenDone(t)

Main ==
  \/ CreateThread \/ AllCreated \/ JoinThread \/ AllJoined
  \/ CopyResult \/ ReturnResults

Next ==
  \/ \E t \in Thread : Step(t)
  \/ \E t \in Thread : WakeSpuriously(t)
  \/ Main
  \/ Finished

(***************************************************************************)
(* Every thread that can take a step takes one eventually: the scheduler   *)
(* runs it, a transfer ends, and a mutex that stays free is acquired.      *)
(* Nothing makes a wait return spuriously.                                 *)
(***************************************************************************)
Fairness == (\A t \in Thread : WF_vars(Step(t))) /\ WF_vars(Main)

Spec == Init /\ [][Next]_vars /\ Fairness
=============================================================================
