----------------------- MODULE ConcurrentBfs_proofs -----------------------
(***************************************************************************)
(* Proofs about ConcurrentBfs, for any number of threads, any set of URLs  *)
(* and any function to work on them with.                                  *)
(***************************************************************************)
EXTENDS ConcurrentBfsProps, WebSite, FiniteSetTheorems, SequenceLemmas

\* The threads waiting_threads counts: those that left the loop by `break`
\* were never subtracted.
WaitSet == { t \in Thread : pc[t] \in Counted }

Counting == waiting_threads = Cardinality(WaitSet)
-----------------------------------------------------------------------------
(***************************************************************************)
(* Facts about sets of threads.                                            *)
(***************************************************************************)
LEMMA ThreadFinite ==
  /\ IsFiniteSet(Thread)
  /\ Cardinality(Thread) = NThreads
  BY FS_Interval, BfsAssumption DEF Thread

LEMMA SomeThreads ==
  ASSUME NEW S \in SUBSET Thread
  PROVE  /\ IsFiniteSet(S)
         /\ Cardinality(S) \in 0 .. NThreads
         /\ Cardinality(S) = NThreads => S = Thread
<1>1. IsFiniteSet(S) /\ Cardinality(S) <= NThreads
      /\ (Cardinality(S) = NThreads => S = Thread)
  BY FS_Subset, ThreadFinite
<1>2. Cardinality(S) \in Nat
  BY <1>1, FS_CardinalityType
<1> QED
  BY <1>1, <1>2, BfsAssumption

LEMMA OneMoreThread ==
  ASSUME NEW S \in SUBSET Thread, NEW t \in Thread, t \notin S
  PROVE  Cardinality(S \cup {t}) = Cardinality(S) + 1
  BY SomeThreads, FS_AddElement

LEMMA OneLessThread ==
  ASSUME NEW S \in SUBSET Thread, NEW t \in S
  PROVE  Cardinality(S \ {t}) = Cardinality(S) - 1
  BY SomeThreads, FS_RemoveElement
-----------------------------------------------------------------------------
(***************************************************************************)
(* What is true of one thread wherever it is: it holds a node exactly      *)
(* between queue_dequeue and free(node), it has the mutex exactly inside   *)
(* the loop over the children, and it exists from pthread_create on.       *)
(***************************************************************************)
NodeInv(t) == IF pc[t] \in Holding THEN node[t] \in Url ELSE node[t] = NULL

RetInv(t) ==
  pc[t] \in {"process", "check", "insert"} =>
    ret[t] \in search_return_t /\ ret[t] \in work[node[t]]

LoopInv(t) ==
  pc[t] \in InLoop => /\ IsPage(ret[t])
                      /\ child[t] \in 1 .. Len(ret[t].children) + 1
                      /\ pc[t] = "insert" => child[t] <= Len(ret[t].children)

MutexInv(t) == pc[t] \in InLoop <=> mutex = t

LifeInv(t) ==
  /\ (main = "create" /\ t > nth) <=> pc[t] = "unborn"
  /\ main = "join" /\ t <= nth => pc[t] \in Terminated
  /\ main \in {"copy", "done"} => pc[t] \in Terminated

ThreadInv ==
  \A t \in Thread : NodeInv(t) /\ RetInv(t) /\ LoopInv(t) /\ MutexInv(t) /\ LifeInv(t)

Types == SharedTypeOK /\ ThreadTypeOK /\ MainTypeOK

(***************************************************************************)
(* A step of thread t leaves another thread where it is, except that a     *)
(* broadcast wakes it.                                                     *)
(***************************************************************************)
LEMMA OtherThreads ==
  ASSUME Types, ThreadInv, NEW t \in Thread, Step(t) \/ WakeSpuriously(t),
         NEW s \in Thread, s # t
  PROVE  /\ pc'[s] = pc[s] \/ (pc[s] = "waiting" /\ pc'[s] = "woken")
         /\ node'[s] = node[s] /\ ret'[s] = ret[s] /\ child'[s] = child[s]
         /\ mutex' = s <=> mutex = s
<1> USE BfsAssumption
    DEF Types, ThreadTypeOK, ThreadInv, MutexInv, InLoop, Thread, Free,
        Goto, BroadcastGoto, local
<1>1. CASE TakeNode(t)
  BY <1>1 DEF TakeNode, DequeueNode
<1>2. CASE WaitForNode(t)
  BY <1>2 DEF WaitForNode
<1>3. CASE EndSearch(t)
  BY <1>3 DEF EndSearch
<1>4. CASE WakeToQuit(t)
  BY <1>4 DEF WakeToQuit
<1>5. CASE WakeToNode(t)
  BY <1>5 DEF WakeToNode, DequeueNode
<1>6. CASE WakeToNothing(t)
  BY <1>6 DEF WakeToNothing
<1>7. CASE WakeSpuriously(t)
  BY <1>7 DEF WakeSpuriously
<1>8. CASE CallWork(t)
  BY <1>8 DEF CallWork
<1>9. CASE WorkReturnsNull(t)
  BY <1>9 DEF WorkReturnsNull
<1>10. CASE WorkReturns(t)
  BY <1>10 DEF WorkReturns
<1>11. CASE ProcessTooLate(t)
  BY <1>11 DEF ProcessTooLate, FreeNode
<1>12. CASE ProcessPng(t)
  BY <1>12 DEF ProcessPng, FreeNode
<1>13. CASE ProcessNothing(t)
  BY <1>13 DEF ProcessNothing, FreeNode
<1>14. CASE ProcessChildren(t)
  BY <1>14 DEF ProcessChildren
<1>15. CASE CheckChild(t)
  BY <1>15 DEF CheckChild
<1>16. CASE InsertChild(t)
  BY <1>16 DEF InsertChild
<1>17. CASE ChildrenDone(t)
  BY <1>17 DEF ChildrenDone, FreeNode
<1> QED
  BY <1>1, <1>2, <1>3, <1>4, <1>5, <1>6, <1>7, <1>8, <1>9, <1>10, <1>11, <1>12,
     <1>13, <1>14, <1>15, <1>16, <1>17 DEF Step

LEMMA StepMainVars ==
  ASSUME NEW t \in Thread, Step(t) \/ WakeSpuriously(t)
  PROVE  UNCHANGED main_vars
  BY DEF Step, TakeNode, WaitForNode, EndSearch, WakeToQuit, WakeToNode, WakeToNothing,
         WakeSpuriously, CallWork, WorkReturnsNull, WorkReturns, ProcessTooLate,
         ProcessPng, ProcessNothing, ProcessChildren, CheckChild, InsertChild,
         ChildrenDone

LEMMA StepTypes ==
  ASSUME Types, ThreadInv, NEW t \in Thread, Step(t) \/ WakeSpuriously(t)
  PROVE  Types'
<1> USE BfsAssumption, NullAssumption
    DEF Types, SharedTypeOK, ThreadTypeOK, MainTypeOK, ThreadInv, Goto, BroadcastGoto,
        PC, InLoop, Holding, NodeInv, RetInv, LoopInv, bfs_vars, local, main_vars, IsPage,
        search_return_t
<1>1. CASE TakeNode(t)
  BY <1>1 DEF TakeNode, DequeueNode
<1>2. CASE WaitForNode(t)
  BY <1>2 DEF WaitForNode
<1>3. CASE EndSearch(t)
  BY <1>3 DEF EndSearch
<1>4. CASE WakeToQuit(t)
  BY <1>4 DEF WakeToQuit
<1>5. CASE WakeToNode(t)
  BY <1>5 DEF WakeToNode, DequeueNode
<1>6. CASE WakeToNothing(t)
  BY <1>6 DEF WakeToNothing
<1>7. CASE WakeSpuriously(t)
  BY <1>7 DEF WakeSpuriously
<1>8. CASE CallWork(t)
  BY <1>8 DEF CallWork
<1>9. CASE WorkReturnsNull(t)
  BY <1>9 DEF WorkReturnsNull
<1>10. CASE WorkReturns(t)
  BY <1>10 DEF WorkReturns
<1>11. CASE ProcessTooLate(t)
  BY <1>11 DEF ProcessTooLate, FreeNode
<1>12. CASE ProcessPng(t)
  <2>1. ret[t].effective_url \in Url
    BY <1>12 DEF ProcessPng, ReportsPng
  <2>2. search_results' \in Seq(Url)
    BY <1>12, <2>1 DEF ProcessPng
  <2>3. work_done' \in BOOLEAN /\ pc' \in [Thread -> PC]
    <3>1. CASE Len(search_results') = MaxResults
      BY <1>12, <3>1 DEF ProcessPng
    <3>2. CASE Len(search_results') # MaxResults
      BY <1>12, <3>2 DEF ProcessPng
    <3> QED
      BY <3>1, <3>2
  <2>4. node' \in [Thread -> Url \cup {NULL}] /\ ret' \in [Thread -> search_return_t \cup {NULL}]
    BY <1>12 DEF ProcessPng, FreeNode
  <2> QED
    BY <1>12, <2>2, <2>3, <2>4 DEF ProcessPng
<1>13. CASE ProcessNothing(t)
  BY <1>13 DEF ProcessNothing, FreeNode
<1>14. CASE ProcessChildren(t)
  BY <1>14 DEF ProcessChildren, ReportsPng
<1>15. CASE CheckChild(t)
  <2>1. child' \in [Thread -> Nat] /\ pc' \in [Thread -> PC]
    <3>1. CASE Child(t) \in visited
      BY <1>15, <3>1 DEF CheckChild
    <3>2. CASE Child(t) \notin visited
      BY <1>15, <3>2 DEF CheckChild
    <3> QED
      BY <3>1, <3>2
  <2> QED
    BY <1>15, <2>1 DEF CheckChild
<1>16. CASE InsertChild(t)
  <2>1. IsPage(ret[t]) /\ child[t] \in 1 .. Len(ret[t].children)
    BY <1>16 DEF InsertChild
  <2>2. Child(t) \in Url
    BY <2>1 DEF Child
  <2>3. visited' \in SUBSET Url /\ frontier' \in Seq(Url)
    BY <1>16, <2>2 DEF InsertChild
  <2>4. child' \in [Thread -> Nat] /\ pc' \in [Thread -> PC]
    BY <1>16 DEF InsertChild
  <2> QED
    BY <1>16, <2>3, <2>4 DEF InsertChild
<1>17. CASE ChildrenDone(t)
  BY <1>17 DEF ChildrenDone, FreeNode
<1> QED
  BY <1>1, <1>2, <1>3, <1>4, <1>5, <1>6, <1>7, <1>8, <1>9, <1>10, <1>11, <1>12,
     <1>13, <1>14, <1>15, <1>16, <1>17 DEF Step

\* The thread that takes the step.
LEMMA StepOwnInv ==
  ASSUME Types, ThreadInv, NEW t \in Thread, Step(t) \/ WakeSpuriously(t)
  PROVE  /\ NodeInv(t)' /\ RetInv(t)' /\ LoopInv(t)' /\ MutexInv(t)'
         /\ pc[t] \notin Terminated \cup {"unborn"} /\ pc'[t] # "unborn"
<1> USE BfsAssumption, NullAssumption
    DEF Types, SharedTypeOK, ThreadTypeOK, MainTypeOK, ThreadInv, Goto, BroadcastGoto,
        InLoop, Holding, Terminated, NodeInv, RetInv, LoopInv, MutexInv,
        bfs_vars, local, Free, IsPage, Thread
<1>1. CASE TakeNode(t)
  BY <1>1 DEF TakeNode, DequeueNode
<1>2. CASE WaitForNode(t)
  BY <1>2 DEF WaitForNode
<1>3. CASE EndSearch(t)
  BY <1>3 DEF EndSearch
<1>4. CASE WakeToQuit(t)
  BY <1>4 DEF WakeToQuit
<1>5. CASE WakeToNode(t)
  BY <1>5 DEF WakeToNode, DequeueNode
<1>6. CASE WakeToNothing(t)
  BY <1>6 DEF WakeToNothing
<1>7. CASE WakeSpuriously(t)
  BY <1>7 DEF WakeSpuriously
<1>8. CASE CallWork(t)
  BY <1>8 DEF CallWork
<1>9. CASE WorkReturnsNull(t)
  BY <1>9 DEF WorkReturnsNull
<1>10. CASE WorkReturns(t)
  <2> PICK r \in work[node[t]] \ {NULL} : ret' = [ret EXCEPT ![t] = r]
    BY <1>10 DEF WorkReturns
  <2>1. pc[t] = "work" /\ pc'[t] = "process" /\ node'[t] = node[t] /\ mutex' = mutex
    BY <1>10 DEF WorkReturns
  <2>2. node[t] \in Url
    BY <2>1
  <2>3. ret'[t] = r /\ r \in search_return_t
    BY <2>2
  <2> QED
    BY <2>1, <2>2, <2>3
<1>11. CASE ProcessTooLate(t)
  BY <1>11 DEF ProcessTooLate, FreeNode
<1>12. CASE ProcessPng(t)
  BY <1>12 DEF ProcessPng, FreeNode, ReportsPng
<1>13. CASE ProcessNothing(t)
  BY <1>13 DEF ProcessNothing, FreeNode
<1>14. CASE ProcessChildren(t)
  BY <1>14 DEF ProcessChildren, ReportsPng
<1>15. CASE CheckChild(t)
  <2>1. /\ pc[t] = "check" /\ mutex' = mutex /\ ret' = ret /\ node' = node
        /\ child[t] \in 1 .. Len(ret[t].children)
    BY <1>15 DEF CheckChild
  <2>2. Len(ret[t].children) \in Nat
    BY <2>1
  <2>3. CASE Child(t) \in visited
    <3>1. child'[t] = child[t] + 1 /\ pc'[t] = "check"
      BY <1>15, <2>3 DEF CheckChild
    <3> QED
      BY <2>1, <2>2, <3>1
  <2>4. CASE Child(t) \notin visited
    <3>1. child'[t] = child[t] /\ pc'[t] = "insert"
      BY <1>15, <2>4 DEF CheckChild
    <3> QED
      BY <2>1, <2>2, <3>1
  <2> QED
    BY <2>3, <2>4
<1>16. CASE InsertChild(t)
  <2>1. /\ pc[t] = "insert" /\ pc'[t] = "check" /\ mutex' = mutex /\ ret' = ret /\ node' = node
        /\ child[t] \in 1 .. Len(ret[t].children) /\ child'[t] = child[t] + 1
    BY <1>16 DEF InsertChild
  <2>2. Len(ret[t].children) \in Nat
    BY <2>1
  <2> QED
    BY <2>1, <2>2
<1>17. CASE ChildrenDone(t)
  BY <1>17 DEF ChildrenDone, FreeNode
<1> QED
  BY <1>1, <1>2, <1>3, <1>4, <1>5, <1>6, <1>7, <1>8, <1>9, <1>10, <1>11, <1>12,
     <1>13, <1>14, <1>15, <1>16, <1>17 DEF Step

LEMMA StepThreadInv ==
  ASSUME Types, ThreadInv, NEW t \in Thread, Step(t) \/ WakeSpuriously(t)
  PROVE  ThreadInv'
<1> SUFFICES ASSUME NEW s \in Thread
             PROVE  (NodeInv(s) /\ RetInv(s) /\ LoopInv(s) /\ MutexInv(s) /\ LifeInv(s))'
  BY DEF ThreadInv, Thread
<1>1. CASE s = t
  <2>1. NodeInv(s)' /\ RetInv(s)' /\ LoopInv(s)' /\ MutexInv(s)'
    BY <1>1, StepOwnInv
  <2>2. LifeInv(s)'
    BY <1>1, StepOwnInv, StepMainVars DEF ThreadInv, LifeInv, main_vars, Terminated
  <2> QED
    BY <2>1, <2>2
<1>2. CASE s # t
  <2>1. /\ pc'[s] = pc[s] \/ (pc[s] = "waiting" /\ pc'[s] = "woken")
        /\ node'[s] = node[s] /\ ret'[s] = ret[s] /\ child'[s] = child[s]
        /\ mutex' = s <=> mutex = s
    BY <1>2, OtherThreads
  <2>2. NodeInv(s) /\ RetInv(s) /\ LoopInv(s) /\ MutexInv(s) /\ LifeInv(s)
    BY DEF ThreadInv
  <2>3. LifeInv(s)'
    BY <2>1, <2>2, StepMainVars DEF LifeInv, main_vars, Terminated
  <2> QED
    BY <2>1, <2>2, <2>3 DEF NodeInv, RetInv, LoopInv, MutexInv, InLoop, Holding
<1> QED
  BY <1>1, <1>2

LEMMA MainThreadInv ==
  ASSUME Types, ThreadInv, Main \/ UNCHANGED vars
  PROVE  Types' /\ ThreadInv'
<1> USE BfsAssumption
    DEF Types, SharedTypeOK, ThreadTypeOK, MainTypeOK, ThreadInv, Thread, NodeInv, RetInv,
        LoopInv, MutexInv, LifeInv, bfs_vars, local, main_vars
<1>1. CASE CreateThread
  <2>1. pc' = [pc EXCEPT ![nth + 1] = "lock"] /\ nth + 1 \in Thread /\ pc[nth + 1] = "unborn"
    BY <1>1 DEF CreateThread, Goto
  <2>2. Types'
    BY <1>1, <2>1 DEF CreateThread, PC
  <2>3. \A s \in Thread : s # nth + 1 => pc'[s] = pc[s]
    BY <2>1
  <2>4. pc'[nth + 1] = "lock" /\ nth' = nth + 1 /\ main' = "create" /\ main = "create"
    BY <1>1, <2>1 DEF CreateThread
  <2>5. UNCHANGED <<node, ret, child, mutex>>
    BY <1>1 DEF CreateThread
  <2>6. ASSUME NEW s \in Thread
        PROVE  (NodeInv(s) /\ RetInv(s) /\ LoopInv(s) /\ MutexInv(s) /\ LifeInv(s))'
    <3>1. CASE s = nth + 1
      <4>1. pc[s] = "unborn" /\ pc'[s] = "lock" /\ s = nth' /\ s \in Nat
        BY <2>1, <2>4, <3>1
      <4>2. LifeInv(s)'
        BY <4>1, <2>4
      <4> QED
        BY <2>5, <4>1, <4>2 DEF InLoop, Holding
    <3>2. CASE s # nth + 1
      <4>1. pc'[s] = pc[s] /\ nth \in Nat /\ s \in Nat
        BY <2>3, <3>2
      <4>2. NodeInv(s)' /\ RetInv(s)'
        BY <2>5, <4>1
      <4>3. LoopInv(s)' /\ MutexInv(s)'
        BY <2>5, <4>1
      <4>4. LifeInv(s)
        OBVIOUS
      <4>5. (s > nth + 1) <=> pc'[s] = "unborn"
        BY <2>4, <3>2, <4>1, <4>4
      <4>6. LifeInv(s)'
        BY <2>4, <4>5
      <4> QED
        BY <4>2, <4>3, <4>6
    <3> QED
      BY <3>1, <3>2
  <2> QED
    BY <2>2, <2>6
<1>2. CASE AllCreated
  BY <1>2 DEF AllCreated
<1>3. CASE JoinThread
  <2>1. nth' = nth + 1 /\ pc[nth + 1] \in Terminated /\ main = "join" /\ main' = main
        /\ UNCHANGED <<pc, node, ret, child, mutex>>
    BY <1>3 DEF JoinThread
  <2>2. Types'
    BY <1>3 DEF JoinThread
  <2>3. \A s \in Thread : s <= nth + 1 => s <= nth \/ s = nth + 1
    BY DEF Thread
  <2> QED
    BY <2>1, <2>2, <2>3
<1>4. CASE AllJoined
  BY <1>4 DEF AllJoined
<1>5. CASE CopyResult
  BY <1>5 DEF CopyResult
<1>6. CASE ReturnResults
  BY <1>6 DEF ReturnResults
<1>7. CASE UNCHANGED vars
  BY <1>7 DEF vars
<1> QED
  BY <1>1, <1>2, <1>3, <1>4, <1>5, <1>6, <1>7 DEF Main
-----------------------------------------------------------------------------
(***************************************************************************)
(* waiting_threads is the number of threads that are in pthread_cond_wait, *)
(* on their way out of it, or gone from the loop because of it.            *)
(***************************************************************************)
LEMMA CountingStep ==
  ASSUME TypeOK, ThreadInv, Counting, [Next]_vars, Types'
  PROVE  Counting'
<1> USE DEF WaitSet, Counting
<1>1. WaitSet \in SUBSET Thread /\ pc \in [Thread -> PC]
  BY DEF TypeOK, ThreadTypeOK
<1>2. ASSUME NEW t \in Thread, Step(t) \/ WakeSpuriously(t) PROVE Counting'
  <2>1. \A s \in Thread : s # t => (s \in WaitSet' <=> s \in WaitSet)
    BY <1>2, OtherThreads DEF Counted, TypeOK, Types
  <2>2. CASE WaitForNode(t) \/ EndSearch(t)
    <3>1. t \notin WaitSet /\ t \in WaitSet' /\ waiting_threads' = waiting_threads + 1
      BY <2>2, <1>1 DEF WaitForNode, EndSearch, Goto, BroadcastGoto, Counted
    <3>2. WaitSet' = WaitSet \cup {t}
      BY <2>1, <3>1
    <3> QED
      BY <1>1, <3>1, <3>2, OneMoreThread
  <2>3. CASE WakeToNode(t) \/ WakeToNothing(t)
    <3>1. t \in WaitSet /\ t \notin WaitSet' /\ waiting_threads' = waiting_threads - 1
      BY <2>3, <1>1 DEF WakeToNode, WakeToNothing, DequeueNode, Goto, Counted
    <3>2. WaitSet' = WaitSet \ {t}
      BY <2>1, <3>1
    <3> QED
      BY <1>1, <3>1, <3>2, OneLessThread
  <2>4. CASE ~ (WaitForNode(t) \/ EndSearch(t) \/ WakeToNode(t) \/ WakeToNothing(t))
    <3> USE DEF Goto, BroadcastGoto, Counted, bfs_vars
    <3>1. waiting_threads' = waiting_threads
      BY <1>2, <2>4 DEF Step, WakeSpuriously, TakeNode, WakeToQuit, CallWork, WorkReturnsNull,
         WorkReturns, ProcessTooLate, ProcessPng, ProcessNothing, ProcessChildren,
         CheckChild, InsertChild, ChildrenDone
    <3>2. t \in WaitSet' <=> t \in WaitSet
      BY <1>1, <1>2, <2>4 DEF Step, WakeSpuriously, TakeNode, DequeueNode, WakeToQuit, CallWork,
         WorkReturnsNull, WorkReturns, ProcessTooLate, ProcessPng, ProcessNothing,
         ProcessChildren, CheckChild, InsertChild, ChildrenDone
    <3>3. WaitSet' = WaitSet
      BY <2>1, <3>2
    <3> QED
      BY <3>1, <3>3
  <2> QED
    BY <2>2, <2>3, <2>4
<1>3. CASE Main \/ UNCHANGED vars
  <2>1. waiting_threads' = waiting_threads
    BY <1>3 DEF Main, CreateThread, AllCreated, JoinThread, AllJoined, CopyResult,
       ReturnResults, vars, bfs_vars
  <2>2. CASE CreateThread
    <3>1. nth + 1 \in Thread /\ pc[nth + 1] = "unborn"
      BY <2>2, BfsAssumption DEF CreateThread, TypeOK, MainTypeOK, Thread, ThreadInv, LifeInv
    <3>2. pc' = [pc EXCEPT ![nth + 1] = "lock"]
      BY <2>2 DEF CreateThread, Goto
    <3>3. WaitSet' = WaitSet
      BY <1>1, <3>1, <3>2 DEF Counted
    <3> QED
      BY <2>1, <3>3
  <2>3. CASE ~ CreateThread
    <3>1. pc' = pc
      BY <1>3, <2>3 DEF Main, AllCreated, JoinThread, AllJoined, CopyResult, ReturnResults, vars
    <3> QED
      BY <2>1, <3>1
  <2> QED
    BY <2>2, <2>3
<1> QED
  BY <1>2, <1>3 DEF Next, Finished

LEMMA InitTypes == Init => TypeOK /\ ThreadInv /\ Counting
<1> SUFFICES ASSUME Init PROVE TypeOK /\ ThreadInv /\ Counting
  OBVIOUS
<1> USE BfsAssumption DEF Init, Thread
<1>1. SharedTypeOK
  <2>1. frontier \in Seq(Url) /\ search_results \in Seq(Url) /\ visited \subseteq Url
    OBVIOUS
  <2>2. work_done \in BOOLEAN /\ mutex \in Thread \cup {NULL}
    OBVIOUS
  <2> QED
    BY <2>1, <2>2 DEF SharedTypeOK
<1>1a. MainTypeOK /\ waiting_threads \in 0 .. NThreads
  BY DEF MainTypeOK
<1>2. ThreadTypeOK
  BY DEF ThreadTypeOK, PC
<1>3. ThreadInv
  BY DEF ThreadInv, NodeInv, RetInv, LoopInv, MutexInv, LifeInv, Holding, InLoop
<1>4. WaitSet = {}
  BY DEF WaitSet, Counted
<1> QED
  BY <1>1, <1>1a, <1>2, <1>3, <1>4, FS_EmptySet DEF TypeOK, Counting

LEMMA NextTypes ==
  ASSUME TypeOK, ThreadInv, Counting, [Next]_vars
  PROVE  TypeOK' /\ ThreadInv' /\ Counting'
<1>1. Types
  BY DEF Types, TypeOK
<1>2. Types' /\ ThreadInv'
  BY <1>1, StepTypes, StepThreadInv, MainThreadInv DEF Next, Finished
<1>3. Counting'
  BY <1>2, CountingStep
<1>4. WaitSet' \in SUBSET Thread
  BY DEF WaitSet
<1>5. waiting_threads' \in 0 .. NThreads
  BY <1>3, <1>4, SomeThreads DEF Counting
<1> QED
  BY <1>2, <1>3, <1>5 DEF TypeOK, Types

(***************************************************************************)
(* Types hold for every number of threads; in particular waiting_threads   *)
(* never wraps below 0 (bfs.c:86) or passes n_threads (bfs.c:68).          *)
(***************************************************************************)
THEOREM TypeCorrect == Spec => []TypeOK
<1>1. TypeOK /\ ThreadInv /\ Counting /\ [Next]_vars => TypeOK' /\ ThreadInv' /\ Counting'
  BY NextTypes
<1> QED
  BY InitTypes, <1>1, PTL DEF Spec
-----------------------------------------------------------------------------
(***************************************************************************)
(* The results.  `found` grows at its end only, by ProcessPng; copying     *)
(* results to the queue that is returned does not change it.               *)
(***************************************************************************)
DoneInv ==
  /\ main \in {"create", "join"} => returned = <<>>
  /\ MaxResults # 0 => /\ Len(found) <= MaxResults
                       /\ ~ work_done => Len(found) < MaxResults

LEMMA CopyKeepsFound ==
  ASSUME NEW S, NEW r \in Seq(S), NEW q \in Seq(S), q # <<>>
  PROVE  Append(r, Head(q)) \o Tail(q) = r \o q
  OBVIOUS

LEMMA FoundUnchanged ==
  ASSUME TypeOK, [Next]_vars, \A t \in Thread : ~ ProcessPng(t)
  PROVE  found' = found
<1>1. ASSUME NEW t \in Thread, Step(t) \/ WakeSpuriously(t) PROVE UNCHANGED <<search_results, returned>>
  BY <1>1 DEF Step, TakeNode, WaitForNode, EndSearch, WakeToQuit, WakeToNode, WakeToNothing,
     WakeSpuriously, CallWork, WorkReturnsNull, WorkReturns, ProcessTooLate, ProcessNothing,
     ProcessChildren, CheckChild, InsertChild, ChildrenDone, bfs_vars, main_vars
<1>2. CASE CopyResult
  BY <1>2, CopyKeepsFound DEF CopyResult, found, TypeOK, SharedTypeOK, MainTypeOK
<1>3. CASE (Main /\ ~ CopyResult) \/ UNCHANGED vars
  BY <1>3 DEF Main, CreateThread, AllCreated, JoinThread, AllJoined, ReturnResults, vars,
     bfs_vars, main_vars, found
<1> QED
  BY <1>1, <1>2, <1>3 DEF Next, Finished, found

LEMMA FoundPng ==
  ASSUME TypeOK, ThreadInv, DoneInv, NEW t \in Thread, ProcessPng(t)
  PROVE  /\ ret[t].effective_url \in Url
         /\ found' = Append(found, ret[t].effective_url)
         /\ Len(found') = Len(found) + 1
         /\ found' = search_results'
         /\ found \in Seq(Url)
<1>1. ret[t].effective_url \in Url
  BY NullAssumption DEF ProcessPng, ReportsPng, ThreadInv, RetInv, search_return_t
<1>2. main \in {"create", "join"} /\ returned = <<>> /\ returned' = <<>>
  BY DEF ProcessPng, ThreadInv, LifeInv, Terminated, TypeOK, MainTypeOK, DoneInv, main_vars
<1>3. search_results \in Seq(Url) /\ search_results' = Append(search_results, ret[t].effective_url)
  BY DEF ProcessPng, TypeOK, SharedTypeOK
<1>4. found = search_results /\ found' = search_results'
  BY <1>1, <1>2, <1>3 DEF found
<1> QED
  BY <1>1, <1>3, <1>4

LEMMA WorkDoneStep ==
  ASSUME [Next]_vars, \A t \in Thread : ~ ProcessPng(t), \A t \in Thread : ~ EndSearch(t)
  PROVE  work_done' = work_done
  BY DEF Next, Main, Finished, Step, TakeNode, WaitForNode, WakeToQuit, WakeToNode,
     WakeToNothing, WakeSpuriously, CallWork, WorkReturnsNull, WorkReturns, ProcessTooLate,
     ProcessNothing, ProcessChildren, CheckChild, InsertChild, ChildrenDone, CreateThread,
     AllCreated, JoinThread, AllJoined, CopyResult, ReturnResults, vars, bfs_vars

LEMMA InitDone == Init => DoneInv
  BY BfsAssumption DEF Init, DoneInv, found

LEMMA NextDone ==
  ASSUME TypeOK, ThreadInv, DoneInv, [Next]_vars
  PROVE  DoneInv'
<1> USE BfsAssumption DEF DoneInv
<1>1. found \in Seq(Url) /\ Len(found) \in Nat
  BY DEF found, TypeOK, SharedTypeOK, MainTypeOK
<1>2. ASSUME NEW t \in Thread, ProcessPng(t) PROVE DoneInv'
  <2>1. Len(found') = Len(found) + 1 /\ found' = search_results'
    BY <1>2, FoundPng
  <2>2. ~ work_done /\ (work_done' <=> Len(search_results') = MaxResults)
    BY <1>2 DEF ProcessPng
  <2>3. UNCHANGED <<main, returned>>
    BY <1>2 DEF ProcessPng, main_vars
  <2> QED
    BY <1>1, <2>1, <2>2, <2>3
<1>3. CASE \A t \in Thread : ~ ProcessPng(t)
  <2>1. found' = found
    BY <1>3, FoundUnchanged
  <2>2. ~ work_done' => ~ work_done
    BY <1>3, WorkDoneStep DEF EndSearch
  <2>3. main' \in {"create", "join"} => returned' = <<>>
    BY StepMainVars DEF Next, Main, Finished, CreateThread, AllCreated, JoinThread, AllJoined,
       CopyResult, ReturnResults, vars, main_vars
  <2> QED
    BY <2>1, <2>2, <2>3
<1> QED
  BY <1>2, <1>3
-----------------------------------------------------------------------------
(***************************************************************************)
(* Termination detection.  Counting is what makes it work: when the thread *)
(* that ends the search sees n_threads - 1 waiting, they are all the other *)
(* threads, and none of those holds a URL.                                 *)
(***************************************************************************)
LEMMA EndSearchQuiet ==
  ASSUME TypeOK, Counting, NEW t \in Thread, EndSearch(t)
  PROVE  frontier' = <<>> /\ \A s \in Thread : pc'[s] \in {"woken", "broke"}
<1>1. t \notin WaitSet /\ WaitSet \in SUBSET Thread
  BY DEF EndSearch, WaitSet, Counted
<1>2. Cardinality(WaitSet \cup {t}) = NThreads
  BY <1>1, OneMoreThread DEF EndSearch, Counting
<1>3. WaitSet \cup {t} = Thread
  BY <1>1, <1>2, SomeThreads
<1>4. \A s \in Thread : s = t \/ pc[s] \in Counted
  BY <1>3 DEF WaitSet
<1> QED
  BY <1>4 DEF EndSearch, BroadcastGoto, Counted

LEMMA NextQuiet ==
  ASSUME TypeOK, ThreadInv, Counting, DoneInv, QuietWhenExhausted, [Next]_vars
  PROVE  QuietWhenExhausted'
<1> USE DEF QuietWhenExhausted, Exhausted
<1>0. found \in Seq(Url) /\ Len(found) \in Nat /\ work_done \in BOOLEAN /\ pc \in [Thread -> PC]
  BY DEF found, TypeOK, SharedTypeOK, MainTypeOK, ThreadTypeOK
<1>1. ASSUME NEW t \in Thread, EndSearch(t) PROVE QuietWhenExhausted'
  BY <1>1, EndSearchQuiet
<1>2. ASSUME NEW t \in Thread, ProcessPng(t) PROVE QuietWhenExhausted'
  <2>1. Len(found') = Len(found) + 1 /\ found' = search_results'
    BY <1>2, FoundPng
  <2>2. work_done' => Len(search_results') = MaxResults
    BY <1>2 DEF ProcessPng
  <2> QED
    BY <1>0, <2>1, <2>2 DEF Full
<1>3. CASE (\A t \in Thread : ~ ProcessPng(t)) /\ (\A t \in Thread : ~ EndSearch(t))
  <2>1. found' = found /\ work_done' = work_done
    BY <1>3, FoundUnchanged, WorkDoneStep
  <2>2. SUFFICES ASSUME Exhausted
                 PROVE  frontier' = <<>> /\ \A s \in Thread : pc'[s] \in {"woken", "broke"}
    BY <2>1 DEF Full
  <2>3. work_done /\ frontier = <<>> /\ \A s \in Thread : pc[s] \in {"woken", "broke"}
    BY <2>2
  <2>4. ASSUME NEW t \in Thread, Step(t) \/ WakeSpuriously(t) PROVE WakeToQuit(t)
    BY <2>3, <2>4 DEF Step, TakeNode, WaitForNode, EndSearch, WakeToNode, WakeToNothing,
       WakeSpuriously, CallWork, WorkReturnsNull, WorkReturns, ProcessTooLate, ProcessPng,
       ProcessNothing, ProcessChildren, CheckChild, InsertChild, ChildrenDone
  <2>5. ASSUME NEW t \in Thread, WakeToQuit(t)
        PROVE  frontier' = <<>> /\ \A s \in Thread : pc'[s] \in {"woken", "broke"}
    BY <1>0, <2>3, <2>5 DEF WakeToQuit, Goto, bfs_vars
  <2>6. ~ CreateThread
    BY <2>3, BfsAssumption DEF CreateThread, TypeOK, MainTypeOK, Thread, ThreadInv, LifeInv
  <2>7. CASE Main \/ UNCHANGED vars
    <3>1. UNCHANGED <<frontier, pc>>
      BY <2>6, <2>7 DEF Main, AllCreated, JoinThread, AllJoined, CopyResult, ReturnResults,
         vars, bfs_vars
    <3> QED
      BY <2>3, <3>1
  <2> QED
    BY <2>4, <2>5, <2>7 DEF Next, Finished
<1> QED
  BY <1>1, <1>2, <1>3

BaseInv == TypeOK /\ ThreadInv /\ Counting /\ DoneInv /\ QuietWhenExhausted

LEMMA InitBase == Init => BaseInv
<1> SUFFICES ASSUME Init PROVE BaseInv
  OBVIOUS
<1>1. QuietWhenExhausted
  BY DEF Init, QuietWhenExhausted, Exhausted
<1> QED
  BY <1>1, InitTypes, InitDone DEF BaseInv

LEMMA NextBase == BaseInv /\ [Next]_vars => BaseInv'
  BY NextTypes, NextDone, NextQuiet DEF BaseInv

LEMMA Base == Spec => []BaseInv
  BY InitBase, NextBase, PTL DEF Spec

(***************************************************************************)
(* When the search is ended for want of work, nothing is queued and no     *)
(* thread is working: the counter can be trusted.  (bfs.c:67-75)           *)
(***************************************************************************)
THEOREM TerminationDetection == Spec => []QuietWhenExhausted
<1>1. BaseInv => QuietWhenExhausted
  BY DEF BaseInv
<1> QED
  BY Base, <1>1, PTL

(***************************************************************************)
(* Threads that find PNGs at the same time do not overshoot the number     *)
(* asked for, and the queue returned does not either.  (bfs.c:28-44)       *)
(***************************************************************************)
THEOREM NeverTooMany == Spec => []ResultsBounded
<1>1. BaseInv => ResultsBounded
  BY DEF BaseInv, DoneInv, ResultsBounded
<1> QED
  BY Base, <1>1, PTL

(***************************************************************************)
(* The main thread copies the results only when all threads are gone.      *)
(* (bfs.c:143-157)                                                         *)
(***************************************************************************)
THEOREM CopyIsAlone == Spec => []MainAlone
<1>1. BaseInv => MainAlone
  BY DEF BaseInv, ThreadInv, LifeInv, MainAlone
<1> QED
  BY Base, <1>1, PTL
-----------------------------------------------------------------------------
(***************************************************************************)
(* Second part: each URL is worked on once, a thread sleeps only when there*)
(* is nothing to do, nothing is missed, and the pool implements Crawl.     *)
(***************************************************************************)
Hold(t) == pc[t] \in Holding
-----------------------------------------------------------------------------
(***************************************************************************)
(* Each URL is in one place: never seen, queued once, held by one thread,  *)
(* or finished; and it has been worked on only in the last two.            *)
(***************************************************************************)
Dedup ==
  /\ Unique(frontier)
  /\ Range(frontier) \subseteq visited
  /\ \A u \in Url : calls[u] <= 1 /\ (u \in Range(frontier) \/ u \notin visited => calls[u] = 0)
  /\ \A t \in Thread : Hold(t) =>
       node[t] \in visited \ Range(frontier) /\ (pc[t] = "call" => calls[node[t]] = 0)
  /\ \A s, t \in Thread : s # t /\ Hold(s) /\ Hold(t) => node[s] # node[t]
  /\ \A t \in Thread : pc[t] = "insert" => Child(t) \notin visited

\* A step by which t neither takes nor gives up a URL.
Keeps(t) ==
  \/ WaitForNode(t) \/ EndSearch(t) \/ WakeToQuit(t) \/ WakeToNothing(t) \/ WakeSpuriously(t)
  \/ CallWork(t) \/ WorkReturns(t) \/ ProcessChildren(t) \/ CheckChild(t) \/ InsertChild(t)

\* A step by which t gives up its URL.
Drops(t) ==
  \/ WorkReturnsNull(t) \/ ProcessTooLate(t) \/ ProcessPng(t) \/ ProcessNothing(t)
  \/ ChildrenDone(t)

Takes(t) == TakeNode(t) \/ WakeToNode(t)

LEMMA StepKinds ==
  ASSUME NEW t \in Thread, Step(t) \/ WakeSpuriously(t)
  PROVE  Keeps(t) \/ Drops(t) \/ Takes(t)
  BY DEF Step, Keeps, Drops, Takes

LEMMA KeepsEffect ==
  ASSUME Types, NEW t \in Thread, Keeps(t)
  PROVE  /\ (Hold(t)' <=> Hold(t)) /\ node' = node
         /\ ~ InsertChild(t) => UNCHANGED <<frontier, visited>>
         /\ ~ CallWork(t) => UNCHANGED calls /\ (pc'[t] = "call" <=> pc[t] = "call")
  BY DEF Types, ThreadTypeOK, Keeps, Hold, Holding, WaitForNode, EndSearch, WakeToQuit,
     WakeToNothing, WakeSpuriously, CallWork, WorkReturns, ProcessChildren, CheckChild,
     InsertChild, Goto, BroadcastGoto, local, bfs_vars

LEMMA DropsEffect ==
  ASSUME Types, NEW t \in Thread, Drops(t)
  PROVE  /\ Hold(t) /\ ~ Hold(t)' /\ pc'[t] # "insert"
         /\ UNCHANGED <<frontier, visited, calls>>
  BY DEF Types, ThreadTypeOK, Drops, Hold, Holding, WorkReturnsNull, ProcessTooLate,
     ProcessPng, ProcessNothing, ChildrenDone, Goto, BroadcastGoto, bfs_vars

LEMMA TakesEffect ==
  ASSUME Types, NEW t \in Thread, Takes(t)
  PROVE  /\ ~ Hold(t) /\ Hold(t)' /\ pc'[t] = "call"
         /\ frontier # <<>> /\ node'[t] = Head(frontier) /\ frontier' = Tail(frontier)
         /\ UNCHANGED <<visited, calls>>
  BY DEF Types, ThreadTypeOK, Takes, Hold, Holding, TakeNode, WakeToNode, DequeueNode,
     Goto, bfs_vars

LEMMA OthersHold ==
  ASSUME Types, ThreadInv, NEW t \in Thread, Step(t) \/ WakeSpuriously(t),
         NEW s \in Thread, s # t
  PROVE  /\ (Hold(s)' <=> Hold(s)) /\ node'[s] = node[s]
         /\ (pc'[s] = "call" <=> pc[s] = "call") /\ (pc'[s] = "insert" <=> pc[s] = "insert")
         /\ Child(s)' = Child(s)
  BY OtherThreads DEF Hold, Holding, Child

LEMMA StepDedup ==
  ASSUME Types, ThreadInv, Types', Dedup, NEW t \in Thread, Step(t) \/ WakeSpuriously(t)
  PROVE  Dedup'
<1> USE DEF Dedup
<1>0. frontier \in Seq(Url) /\ node[t] \in Url \cup {NULL} /\ calls \in [Url -> Nat]
      /\ pc \in [Thread -> PC] /\ visited \subseteq Url
  BY DEF Types, SharedTypeOK, ThreadTypeOK
<1>1. CASE Drops(t)
  <2>1. UNCHANGED <<frontier, visited, calls>> /\ ~ Hold(t)' /\ pc'[t] # "insert"
    BY <1>1, DropsEffect
  <2> QED
    BY <2>1, OthersHold
<1>2. CASE Takes(t)
  <2>1. /\ ~ Hold(t) /\ Hold(t)' /\ pc'[t] = "call"
        /\ frontier # <<>> /\ node'[t] = Head(frontier) /\ frontier' = Tail(frontier)
        /\ UNCHANGED <<visited, calls>>
    BY <1>2, TakesEffect
  <2>2. /\ Head(frontier) \in Range(frontier)
        /\ Range(frontier') = Range(frontier) \ {Head(frontier)}
        /\ Unique(frontier')
    BY <2>1, <1>0, DequeueRange
  <2>3. Head(frontier) \in Url
    BY <2>2, <1>0
  <2>4. \A u \in Url : calls'[u] <= 1 /\ (u \in Range(frontier') \/ u \notin visited' => calls'[u] = 0)
    BY <2>1, <2>2
  <2>5. ASSUME NEW s \in Thread, Hold(s)'
        PROVE  node'[s] \in visited' \ Range(frontier') /\ (pc'[s] = "call" => calls'[node'[s]] = 0)
    <3>1. CASE s = t
      BY <3>1, <2>1, <2>2, <2>3
    <3>2. CASE s # t
      BY <3>2, <2>1, <2>2, <2>5, OthersHold
    <3> QED
      BY <3>1, <3>2
  <2>6. ASSUME NEW r \in Thread, NEW s \in Thread, r # s, Hold(r)', Hold(s)'
        PROVE  node'[r] # node'[s]
    <3>1. \A x \in Thread : x # t /\ Hold(x)' => node'[x] \notin Range(frontier) /\ Hold(x) /\ node'[x] = node[x]
      BY OthersHold
    <3> QED
      BY <2>1, <2>2, <2>6, <3>1
  <2>7. \A s \in Thread : pc'[s] = "insert" => Child(s)' \notin visited'
    BY <2>1, OthersHold
  <2> QED
    BY <2>1, <2>2, <2>4, <2>5, <2>6, <2>7
<1>3. CASE Keeps(t) /\ ~ InsertChild(t) /\ ~ CallWork(t)
  <2>1. /\ (Hold(t)' <=> Hold(t)) /\ node' = node /\ UNCHANGED <<frontier, visited, calls>>
        /\ (pc'[t] = "call" <=> pc[t] = "call")
    BY <1>3, KeepsEffect
  <2>2. pc'[t] = "insert" => Child(t)' \notin visited'
    BY <1>0, <1>3 DEF Keeps, WaitForNode, EndSearch, WakeToQuit, WakeToNothing,
       WakeSpuriously, WorkReturns, ProcessChildren, CheckChild, Child, Goto, BroadcastGoto,
       bfs_vars
  <2> QED
    BY <2>1, <2>2, OthersHold
<1>4. CASE CallWork(t)
  <2>1. pc[t] = "call" /\ pc'[t] = "work" /\ UNCHANGED <<frontier, visited, node>>
        /\ calls' = [calls EXCEPT ![node[t]] = @ + 1]
    BY <1>0, <1>4 DEF CallWork, Goto, bfs_vars, local
  <2>2. Hold(t) /\ Hold(t)' /\ node[t] \in visited \ Range(frontier) /\ calls[node[t]] = 0
    BY <2>1 DEF Hold, Holding
  <2>3. node[t] \in Url /\ calls'[node[t]] = 1 /\ \A u \in Url : u # node[t] => calls'[u] = calls[u]
    BY <1>0, <2>1, <2>2
  <2>4. \A u \in Url : calls'[u] <= 1 /\ (u \in Range(frontier') \/ u \notin visited' => calls'[u] = 0)
    BY <2>1, <2>2, <2>3
  <2>5. ASSUME NEW s \in Thread, Hold(s)'
        PROVE  node'[s] \in visited' \ Range(frontier') /\ (pc'[s] = "call" => calls'[node'[s]] = 0)
    BY <1>0, <2>1, <2>2, <2>3, <2>5, OthersHold
  <2>6. \A r, s \in Thread : r # s /\ Hold(r)' /\ Hold(s)' => node'[r] # node'[s]
    BY <2>1, <2>2, OthersHold
  <2>7. \A s \in Thread : pc'[s] = "insert" => Child(s)' \notin visited'
    BY <2>1, OthersHold
  <2> QED
    BY <2>1, <2>4, <2>5, <2>6, <2>7
<1>5. CASE InsertChild(t)
  <2> DEFINE c == Child(t)
  <2>1. pc[t] = "insert" /\ pc'[t] = "check" /\ UNCHANGED <<node, calls>>
        /\ visited' = visited \cup {c} /\ frontier' = Append(frontier, c)
    BY <1>0, <1>5 DEF InsertChild, Goto
  <2>2. c \in Url /\ c \notin visited
    BY <2>1, <1>5 DEF InsertChild, Types, SharedTypeOK
  <2>3. /\ Range(frontier') = Range(frontier) \cup {c}
        /\ Unique(frontier')
    BY <1>0, <2>1, <2>2, EnqueueRange
  <2>4. \A s \in Thread : s # t => pc[s] # "insert"
    BY <2>1 DEF ThreadInv, MutexInv, InLoop
  <2>5. Hold(t) /\ Hold(t)' /\ \A s \in Thread : Hold(s)' <=> Hold(s)
    BY <2>1, OthersHold DEF Hold, Holding
  <2> HIDE DEF c
  <2>6. \A u \in Url : calls'[u] <= 1 /\ (u \in Range(frontier') \/ u \notin visited' => calls'[u] = 0)
    BY <2>1, <2>2, <2>3
  <2>7. ASSUME NEW s \in Thread, Hold(s)'
        PROVE  node'[s] \in visited' \ Range(frontier') /\ (pc'[s] = "call" => calls'[node'[s]] = 0)
    BY <2>1, <2>2, <2>3, <2>5, <2>7, OthersHold
  <2>8. \A s \in Thread : pc'[s] # "insert"
    BY <2>1, <2>4, OthersHold
  <2> QED
    BY <2>1, <2>3, <2>5, <2>6, <2>7, <2>8
<1> QED
  BY <1>1, <1>2, <1>3, <1>4, <1>5, StepKinds

\* The main thread touches none of this; a thread it creates holds nothing.
LEMMA MainKeeps ==
  ASSUME Types, ThreadInv, Main \/ UNCHANGED vars
  PROVE  /\ UNCHANGED <<frontier, visited, calls, node, ret, child, mutex, work_done>>
         /\ \A s \in Thread : pc'[s] = pc[s] \/ (pc[s] = "unborn" /\ pc'[s] = "lock")
<1>1. CASE CreateThread
  <2>1. nth + 1 \in Thread /\ pc[nth + 1] = "unborn"
    BY <1>1, BfsAssumption DEF CreateThread, Types, MainTypeOK, Thread, ThreadInv, LifeInv
  <2> QED
    BY <1>1, <2>1 DEF CreateThread, Goto, Types, ThreadTypeOK, bfs_vars, local
<1>2. CASE ~ CreateThread
  BY <1>2 DEF Main, AllCreated, JoinThread, AllJoined, CopyResult, ReturnResults, vars,
     bfs_vars, local
<1> QED
  BY <1>1, <1>2

LEMMA NextDedup ==
  ASSUME Types, ThreadInv, Types', Dedup, [Next]_vars
  PROVE  Dedup'
<1>1. CASE Main \/ UNCHANGED vars
  <2>1. /\ UNCHANGED <<frontier, visited, calls, node, ret, child>>
        /\ \A s \in Thread : pc'[s] = pc[s] \/ (pc[s] = "unborn" /\ pc'[s] = "lock")
    BY <1>1, MainKeeps
  <2>2. \A s \in Thread : (Hold(s)' <=> Hold(s)) /\ (pc'[s] = "call" <=> pc[s] = "call")
                          /\ (pc'[s] = "insert" <=> pc[s] = "insert") /\ Child(s)' = Child(s)
    BY <2>1 DEF Hold, Holding, Child
  <2> QED
    BY <2>1, <2>2 DEF Dedup
<1> QED
  BY <1>1, StepDedup DEF Next, Finished

LEMMA InitDedup == Init => Dedup
<1> SUFFICES ASSUME Init PROVE Dedup
  OBVIOUS
<1>1. Range(frontier) = {Root} /\ Unique(frontier) /\ visited = {Root}
  BY DEF Init, Range, Unique
<1>2. \A t \in Thread : pc[t] = "unborn"
  BY DEF Init
<1> QED
  BY <1>1, <1>2 DEF Init, Dedup, Hold, Holding
-----------------------------------------------------------------------------
(***************************************************************************)
(* A thread sleeps with URLs queued only while another is still inside the *)
(* loop that queues them, whose broadcast will wake it.                    *)
(***************************************************************************)
LEMMA NextNoSleeper ==
  ASSUME Types, ThreadInv, NoSleeperWhileWork, [Next]_vars
  PROVE  NoSleeperWhileWork'
<1> USE DEF NoSleeperWhileWork
<1>0. frontier \in Seq(Url) /\ pc \in [Thread -> PC]
  BY DEF Types, SharedTypeOK, ThreadTypeOK
<1>1. ASSUME NEW t \in Thread, Step(t) \/ WakeSpuriously(t) PROVE NoSleeperWhileWork'
  <2>1. CASE ChildrenDone(t)
    BY <2>1 DEF ChildrenDone, BroadcastGoto
  <2>2. CASE InsertChild(t)
    BY <2>2, BfsAssumption DEF InsertChild, ThreadInv, MutexInv, InLoop, Thread
  <2>3. CASE WaitForNode(t) \/ EndSearch(t)
    BY <2>3 DEF WaitForNode, EndSearch
  <2>4. CASE ~ (ChildrenDone(t) \/ InsertChild(t) \/ WaitForNode(t) \/ EndSearch(t))
    <3>1. mutex' = mutex \/ mutex' = t
      BY <1>1, <2>4 DEF Step, TakeNode, WakeToQuit, WakeToNode, WakeToNothing, WakeSpuriously,
         CallWork, WorkReturnsNull, WorkReturns, ProcessTooLate, ProcessPng, ProcessNothing,
         ProcessChildren, CheckChild
    <3>2. frontier' # <<>> => frontier # <<>>
      BY <1>0, <1>1, <2>4 DEF Step, TakeNode, WakeToQuit, WakeToNode, WakeToNothing,
         WakeSpuriously, CallWork, WorkReturnsNull, WorkReturns, ProcessTooLate, ProcessPng,
         ProcessNothing, ProcessChildren, CheckChild, DequeueNode, bfs_vars
    <3>3. pc'[t] # "waiting"
      BY <1>0, <1>1, <2>4 DEF Step, TakeNode, WakeToQuit, WakeToNode, WakeToNothing,
         WakeSpuriously, CallWork, WorkReturnsNull, WorkReturns, ProcessTooLate, ProcessPng,
         ProcessNothing, ProcessChildren, CheckChild, DequeueNode, Goto, BroadcastGoto
    <3>4. \A s \in Thread : s # t => (pc'[s] = "waiting" => pc[s] = "waiting")
      BY <1>1, OtherThreads
    <3>5. t # NULL
      BY BfsAssumption DEF Thread
    <3> QED
      BY <3>1, <3>2, <3>3, <3>4, <3>5
  <2> QED
    BY <2>1, <2>2, <2>3, <2>4
<1>2. CASE Main \/ UNCHANGED vars
  BY <1>2, MainKeeps
<1> QED
  BY <1>1, <1>2 DEF Next, Finished
-----------------------------------------------------------------------------
(***************************************************************************)
(* No thread is inside the loop over children once work_done is set.       *)
(***************************************************************************)
DoneUnlocked == work_done => mutex = NULL

LEMMA NextDoneUnlocked ==
  ASSUME Types, ThreadInv, DoneUnlocked, [Next]_vars
  PROVE  DoneUnlocked'
<1> USE DEF DoneUnlocked
<1>1. ASSUME NEW t \in Thread, Step(t) \/ WakeSpuriously(t) PROVE DoneUnlocked'
  BY <1>1 DEF Step, TakeNode, WaitForNode, EndSearch, WakeToQuit, WakeToNode, WakeToNothing,
     WakeSpuriously, CallWork, WorkReturnsNull, WorkReturns, ProcessTooLate, ProcessPng,
     ProcessNothing, ProcessChildren, CheckChild, InsertChild, ChildrenDone, Free, bfs_vars
<1>2. CASE Main \/ UNCHANGED vars
  BY <1>2, MainKeeps
<1> QED
  BY <1>1, <1>2 DEF Next, Finished

(***************************************************************************)
(* visited changes only in the loop over children.                         *)
(***************************************************************************)
LEMMA VisitedUnchanged ==
  ASSUME Types, ThreadInv, [Next]_vars, \A t \in Thread : ~ InsertChild(t)
  PROVE  visited' = visited
  BY StepKinds, KeepsEffect, DropsEffect, TakesEffect, MainKeeps DEF Next, Finished

(***************************************************************************)
(* frontier grows only in that loop as well; elsewhere URLs are dequeued.  *)
(***************************************************************************)
LEMMA FrontierDequeued ==
  ASSUME Types, ThreadInv, [Next]_vars, \A t \in Thread : ~ InsertChild(t)
  PROVE  FrontierShrinks
BY StepKinds, KeepsEffect, DropsEffect, TakesEffect, MainKeeps DEF Next, Finished, FrontierShrinks

LEMMA NoInsertOnceDone ==
  ASSUME BaseInv, DoneUnlocked, work_done, NEW t \in Thread
  PROVE  ~ InsertChild(t)
<1> SUFFICES ASSUME InsertChild(t) PROVE FALSE
  OBVIOUS
<1>1. mutex = t
  BY DEF InsertChild, BaseInv, ThreadInv, MutexInv, InLoop
<1>2. mutex = NULL
  BY DEF DoneUnlocked
<1> QED
  BY <1>1, <1>2, BfsAssumption DEF Thread

LEMMA Frozen ==
  ASSUME BaseInv, DoneUnlocked, [Next]_vars, work_done
  PROVE  UNCHANGED <<found, visited, work_done>>
<1>1. \A t \in Thread : ~ ProcessPng(t)
  BY DEF ProcessPng
<1>2. \A t \in Thread : ~ InsertChild(t)
  BY NoInsertOnceDone
<1>3. found' = found
  BY <1>1, FoundUnchanged DEF BaseInv
<1>4. visited' = visited
  BY <1>2, VisitedUnchanged DEF BaseInv, TypeOK, Types
<1>5. work_done'
  BY <1>1, WorkDoneStep DEF EndSearch
<1>6. work_done \in BOOLEAN /\ work_done' \in BOOLEAN
  BY NextTypes DEF BaseInv, TypeOK, SharedTypeOK
<1> QED
  BY <1>3, <1>4, <1>5, <1>6
-----------------------------------------------------------------------------
SearchInv == BaseInv /\ Dedup /\ NoSleeperWhileWork /\ DoneUnlocked

LEMMA Search == Spec => []SearchInv
<1>1. Init => SearchInv
  <2>1. Init => NoSleeperWhileWork /\ DoneUnlocked
    BY DEF Init, NoSleeperWhileWork, DoneUnlocked
  <2> QED
    BY <2>1, InitBase, InitDedup DEF SearchInv
<1>2. SearchInv /\ [Next]_vars => SearchInv'
  <2> SUFFICES ASSUME SearchInv, [Next]_vars PROVE SearchInv'
    OBVIOUS
  <2>1. BaseInv /\ BaseInv' /\ Types /\ Types' /\ ThreadInv
    BY NextBase DEF SearchInv, BaseInv, TypeOK, Types
  <2> QED
    BY <2>1, NextDedup, NextNoSleeper, NextDoneUnlocked DEF SearchInv
<1> QED
  BY <1>1, <1>2, PTL DEF Spec

(***************************************************************************)
(* bfs->work is called at most once for each URL.  (bfs.c:45-52, 89-99)    *)
(***************************************************************************)
THEOREM EachUrlOnce == Spec => []WorkedOnce
<1>1. SearchInv => WorkedOnce
  BY DEF SearchInv, Dedup, WorkedOnce
<1> QED
  BY Search, <1>1, PTL

(***************************************************************************)
(* No thread is left asleep when there is something to do.  (bfs.c:53)     *)
(***************************************************************************)
THEOREM NoLostBroadcast == Spec => []NoSleeperWhileWork
<1>1. SearchInv => NoSleeperWhileWork
  BY DEF SearchInv
<1> QED
  BY Search, <1>1, PTL

(***************************************************************************)
(* What a thread brings after work_done is set is dropped: nothing more is *)
(* found, visited or enqueued, and the frontier can only lose URLs.        *)
(* (bfs.c:30-33)                                                           *)
(***************************************************************************)
THEOREM DoneIsFinal == Spec => FrozenOnceDone
<1>1. ASSUME SearchInv, [Next]_vars, work_done
      PROVE  UNCHANGED <<found, visited, work_done>> /\ FrontierShrinks
  <2>1. BaseInv /\ DoneUnlocked /\ Types /\ ThreadInv
    BY <1>1 DEF SearchInv, BaseInv, TypeOK, Types
  <2>2. FrontierShrinks
    BY <1>1, <2>1, NoInsertOnceDone, FrontierDequeued
  <2> QED
    BY <1>1, <2>1, <2>2, Frozen
<1>2. SearchInv /\ [Next]_vars
      => [work_done => UNCHANGED <<found, visited, work_done>> /\ FrontierShrinks]_vars
  BY <1>1
<1> QED
  BY Search, <1>2, PTL DEF Spec, FrozenOnceDone
-----------------------------------------------------------------------------
(***************************************************************************)
(* Deadlock.  As long as nothing is decided no thread has left, and not    *)
(* all of them can be asleep, since the last one to wait decides.          *)
(***************************************************************************)
Undecided ==
  ~ work_done => waiting_threads < NThreads /\ \A t \in Thread : pc[t] \notin Terminated

LEMMA StepUndecided ==
  ASSUME TypeOK, ThreadInv, Undecided, NEW t \in Thread, Step(t) \/ WakeSpuriously(t),
         waiting_threads' \in 0 .. NThreads
  PROVE  Undecided'
<1> SUFFICES ASSUME ~ work_done'
             PROVE  /\ waiting_threads' < NThreads
                    /\ \A s \in Thread : pc'[s] \notin Terminated
  BY DEF Undecided
<1>0. pc \in [Thread -> PC] /\ NThreads \in Nat /\ waiting_threads \in Nat
  BY BfsAssumption DEF TypeOK, ThreadTypeOK
<1>1. ~ work_done
  BY DEF Step, TakeNode, WaitForNode, EndSearch, WakeToQuit, WakeToNode, WakeToNothing,
     WakeSpuriously, CallWork, WorkReturnsNull, WorkReturns, ProcessTooLate, ProcessPng,
     ProcessNothing, ProcessChildren, CheckChild, InsertChild, ChildrenDone, bfs_vars
<1>2. waiting_threads < NThreads /\ \A s \in Thread : pc[s] \notin Terminated
  BY <1>1 DEF Undecided
<1>3. pc'[t] \notin Terminated
  BY <1>0, <1>1, <1>2 DEF Step, TakeNode, WaitForNode, EndSearch, WakeToQuit, WakeToNode, WakeToNothing,
     WakeSpuriously, CallWork, WorkReturnsNull, WorkReturns, ProcessTooLate, ProcessPng,
     ProcessNothing, ProcessChildren, CheckChild, InsertChild, ChildrenDone, DequeueNode,
     Goto, BroadcastGoto, Terminated
<1>4. \A s \in Thread : pc'[s] \notin Terminated
  BY <1>2, <1>3, OtherThreads DEF TypeOK, Types, Terminated
<1>5. CASE WaitForNode(t)
  BY <1>0, <1>4, <1>5 DEF WaitForNode
<1>6. CASE WakeToNode(t) \/ WakeToNothing(t)
  BY <1>0, <1>2, <1>4, <1>6 DEF WakeToNode, WakeToNothing
<1>7. CASE ~ (WaitForNode(t) \/ WakeToNode(t) \/ WakeToNothing(t))
  <2>1. waiting_threads' = waiting_threads
    BY <1>7 DEF Step, TakeNode, EndSearch, WakeToQuit, WakeSpuriously, CallWork, WorkReturnsNull,
       WorkReturns, ProcessTooLate, ProcessPng, ProcessNothing, ProcessChildren, CheckChild,
       InsertChild, ChildrenDone, bfs_vars
  <2> QED
    BY <1>2, <1>4, <2>1
<1> QED
  BY <1>5, <1>6, <1>7

LEMMA NextUndecided ==
  ASSUME BaseInv, BaseInv', Undecided, [Next]_vars
  PROVE  Undecided'
<1>0. TypeOK /\ Types /\ ThreadInv /\ waiting_threads' \in 0 .. NThreads
  BY DEF BaseInv, TypeOK, Types
<1>1. CASE \E t \in Thread : Step(t) \/ WakeSpuriously(t)
  BY <1>0, <1>1, StepUndecided
<1>2. CASE Main \/ UNCHANGED vars
  <2>1. waiting_threads' = waiting_threads
    BY <1>2 DEF Main, CreateThread, AllCreated, JoinThread, AllJoined, CopyResult,
       ReturnResults, vars, bfs_vars
  <2> QED
    BY <1>0, <1>2, <2>1, MainKeeps DEF Undecided, Terminated
<1> QED
  BY <1>1, <1>2 DEF Next, Finished

\* If nobody can go, no thread is between two calls and none has the mutex.
LEMMA AllAsleepOrGone ==
  ASSUME TypeOK, ThreadInv, main \in {"join", "copy", "done"}, \A t \in Thread : ~ ThreadCanGo(t)
  PROVE  mutex = NULL /\ \A t \in Thread : pc[t] \in Terminated \cup {"waiting"}
<1>1. mutex = NULL
  <2> SUFFICES ASSUME mutex \in Thread PROVE FALSE
    BY DEF TypeOK, SharedTypeOK
  <2>1. pc[mutex] \in InLoop
    BY DEF ThreadInv, MutexInv
  <2> QED
    BY <2>1 DEF ThreadCanGo, InLoop, Terminated
<1>2. ASSUME NEW t \in Thread PROVE pc[t] \in Terminated \cup {"waiting"}
  <2>1. pc[t] # "unborn"
    BY DEF ThreadInv, LifeInv
  <2> QED
    BY <1>1, <2>1 DEF ThreadCanGo, Free
<1> QED
  BY <1>1, <1>2

LEMMA SearchStuck == SearchInv /\ Undecided => StuckOnlyWhenFull
<1> SUFFICES ASSUME SearchInv, Undecided, main # "done", ~ MainCanGo,
                    \A t \in Thread : ~ ThreadCanGo(t)
             PROVE  Full /\ work_done /\ \A t \in Thread : pc[t] \in Terminated \cup {"waiting"}
  BY DEF StuckOnlyWhenFull
<1>0. TypeOK /\ ThreadInv /\ Counting /\ QuietWhenExhausted
  BY DEF SearchInv, BaseInv
<1>1. main = "join" /\ nth \in 0 .. NThreads /\ nth # NThreads /\ pc[nth + 1] \notin Terminated
  BY <1>0 DEF MainCanGo, TypeOK, MainTypeOK
<1>2. nth + 1 \in Thread
  BY <1>1, BfsAssumption DEF Thread
<1>3. \A t \in Thread : pc[t] \in Terminated \cup {"waiting"}
  BY <1>0, <1>1, AllAsleepOrGone
<1>4. work_done
  <2> SUFFICES ASSUME ~ work_done PROVE FALSE
    OBVIOUS
  <2>1. waiting_threads < NThreads /\ \A t \in Thread : pc[t] = "waiting"
    BY <1>3 DEF Undecided
  <2>2. WaitSet = Thread
    BY <2>1 DEF WaitSet, Counted
  <2> QED
    BY <1>0, <2>1, <2>2, ThreadFinite, BfsAssumption DEF Counting
<1>5. Full
  BY <1>0, <1>1, <1>2, <1>3, <1>4 DEF QuietWhenExhausted, Exhausted, Terminated
<1> QED
  BY <1>3, <1>4, <1>5

(***************************************************************************)
(* bfs_start comes to a stop before its end in one case only, when the     *)
(* search is full and a thread went to sleep after the broadcast.          *)
(* (bfs.c:77)                                                              *)
(***************************************************************************)
THEOREM OnlyFullSearchesHang == Spec => []StuckOnlyWhenFull
<1>1. Init => Undecided
  BY BfsAssumption DEF Init, Undecided, Terminated
<1>2. SearchInv => BaseInv
  BY DEF SearchInv
<1> QED
  BY <1>1, <1>2, Search, Base, SearchStuck, NextUndecided, PTL DEF Spec
-----------------------------------------------------------------------------
(***************************************************************************)
(* The steps left.  A step that changes no number before the fourth moves  *)
(* one thread nearer to the end of its URL or to the place where it sleeps,*)
(* and leaves the others where they are.                                   *)
(***************************************************************************)
LEMMA AtSets ==
  ASSUME NEW S
  PROVE  /\ At(S) \in SUBSET Thread /\ IsFiniteSet(At(S)) /\ Cardinality(At(S)) \in Nat
         /\ At(S)' \in SUBSET Thread /\ IsFiniteSet(At(S)') /\ Cardinality(At(S)') \in Nat
<1>1. At(S) \in SUBSET Thread /\ At(S)' \in SUBSET Thread
  BY DEF At
<1> QED
  BY <1>1, SomeThreads, BfsAssumption

LEMMA FewerAt ==
  ASSUME NEW S, At(S)' \subseteq At(S)
  PROVE  /\ Cardinality(At(S)') <= Cardinality(At(S))
         /\ At(S)' # At(S) => Cardinality(At(S)') < Cardinality(At(S))
  BY AtSets, FS_Subset

LEMMA ThreadStepsLeftIs ==
  /\ ThreadStepsLeft = Cardinality(At({"call"})) + Cardinality(At({"call", "work"}))
                         + Cardinality(At(Far)) + Cardinality(At(Near))
  /\ ThreadStepsLeft' = Cardinality(At({"call"})') + Cardinality(At({"call", "work"})')
                          + Cardinality(At(Far)') + Cardinality(At(Near)')
  BY DEF ThreadStepsLeft

LEMMA SmallerSum ==
  ASSUME NEW a \in Nat, NEW b \in Nat, NEW c \in Nat, NEW d \in Nat,
         NEW e \in Nat, NEW f \in Nat, NEW g \in Nat, NEW h \in Nat,
         e <= a, f <= b, g <= c, h <= d, e < a \/ f < b \/ g < c \/ h < d
  PROVE  e + f + g + h < a + b + c + d
  OBVIOUS

\* If t moves from one place to a nearer one and nobody else moves, the sum
\* decreases.
Nearer(from, to) ==
  /\ \A S \in {{"call"}, {"call", "work"}, Far, Near} : to \in S => from \in S
  /\ \E S \in {{"call"}, {"call", "work"}, Far, Near} : from \in S /\ to \notin S

LEMMA MoveNearer ==
  ASSUME pc \in [Thread -> PC], NEW t \in Thread, NEW to, pc' = [pc EXCEPT ![t] = to],
         Nearer(pc[t], to)
  PROVE  ThreadStepsLeft' < ThreadStepsLeft
<1> DEFINE Sets == {{"call"}, {"call", "work"}, Far, Near}
<1>1. ASSUME NEW S \in Sets PROVE At(S)' \subseteq At(S)
  BY DEF At, Nearer
<1>2. PICK S \in Sets : pc[t] \in S /\ to \notin S
  BY DEF Nearer
<1>3. At(S)' # At(S)
  BY <1>2 DEF At
<1> DEFINE Counts(T) == /\ Cardinality(At(T)) \in Nat /\ Cardinality(At(T)') \in Nat
                        /\ Cardinality(At(T)') <= Cardinality(At(T))
<1>4. Counts({"call"}) /\ Counts({"call", "work"}) /\ Counts(Far) /\ Counts(Near)
  BY <1>1, AtSets, FewerAt
<1>5. Cardinality(At(S)') < Cardinality(At(S))
  BY <1>1, <1>3, FewerAt
<1>6. S = {"call"} \/ S = {"call", "work"} \/ S = Far \/ S = Near
  OBVIOUS
<1>7. \/ Cardinality(At({"call"})') < Cardinality(At({"call"}))
      \/ Cardinality(At({"call", "work"})') < Cardinality(At({"call", "work"}))
      \/ Cardinality(At(Far)') < Cardinality(At(Far))
      \/ Cardinality(At(Near)') < Cardinality(At(Near))
  BY <1>5, <1>6
<1> QED
  BY <1>4, <1>7, ThreadStepsLeftIs, SmallerSum

(***************************************************************************)
(* Every URL that is dequeued, finished or inserted brings the search      *)
(* nearer to its end; the other steps leave the URLs where they are.       *)
(***************************************************************************)
LEMMA HoldersFollow ==
  ASSUME TypeOK, ThreadInv, NEW t \in Thread, Step(t) \/ WakeSpuriously(t)
  PROVE  /\ Takes(t) => Cardinality(At(Holding)') = Cardinality(At(Holding)) + 1
         /\ Drops(t) => Cardinality(At(Holding)') = Cardinality(At(Holding)) - 1
         /\ Keeps(t) => Cardinality(At(Holding)') = Cardinality(At(Holding))
<1>0. Types
  BY DEF TypeOK, Types
<1>1. /\ \A s \in Thread : s \in At(Holding) <=> Hold(s)
      /\ \A s \in Thread : s \in At(Holding)' <=> Hold(s)'
      /\ At(Holding) \in SUBSET Thread /\ At(Holding)' \in SUBSET Thread
  BY DEF At, Hold
<1>2. \A s \in Thread : s # t => (s \in At(Holding)' <=> s \in At(Holding))
  BY <1>0, <1>1, OthersHold
<1>3. CASE Takes(t)
  <2>1. t \notin At(Holding) /\ t \in At(Holding)' /\ ~ Keeps(t) /\ ~ Drops(t)
    BY <1>0, <1>1, <1>3, TakesEffect, KeepsEffect, DropsEffect
  <2>2. At(Holding)' = At(Holding) \cup {t}
    BY <1>1, <1>2, <2>1
  <2> QED
    BY <1>1, <2>1, <2>2, OneMoreThread
<1>4. CASE Drops(t)
  <2>1. t \in At(Holding) /\ t \notin At(Holding)' /\ ~ Keeps(t) /\ ~ Takes(t)
    BY <1>0, <1>1, <1>4, TakesEffect, KeepsEffect, DropsEffect
  <2>2. At(Holding)' = At(Holding) \ {t}
    BY <1>1, <1>2, <2>1
  <2> QED
    BY <1>1, <2>1, <2>2, OneLessThread
<1>5. CASE Keeps(t)
  <2>1. t \in At(Holding)' <=> t \in At(Holding)
    BY <1>0, <1>1, <1>5, KeepsEffect
  <2>2. At(Holding)' = At(Holding) /\ ~ Takes(t) /\ ~ Drops(t)
    BY <1>0, <1>1, <1>2, <1>5, <2>1, TakesEffect, KeepsEffect, DropsEffect
  <2> QED
    BY <2>2
<1> QED
  BY <1>3, <1>4, <1>5

LEMMA UrlsLeftNat ==
  ASSUME IsFiniteSet(Url), TypeOK
  PROVE  UrlsLeft \in Nat
<1>1. IsFiniteSet(Url \ visited)
  BY FS_Subset
<1>2. Cardinality(Url \ visited) \in Nat /\ Len(frontier) \in Nat /\ Cardinality(At(Holding)) \in Nat
  BY <1>1, FS_CardinalityType, AtSets DEF TypeOK, SharedTypeOK
<1> QED
  BY <1>2 DEF UrlsLeft

LEMMA StepUrls ==
  ASSUME IsFiniteSet(Url), SearchInv, SearchInv', NEW t \in Thread, Step(t) \/ WakeSpuriously(t)
  PROVE  /\ Takes(t) \/ Drops(t) \/ InsertChild(t) => UrlsLeft' < UrlsLeft
         /\ Keeps(t) /\ ~ InsertChild(t) => UrlsLeft' = UrlsLeft
<1>0. TypeOK /\ TypeOK' /\ Types /\ ThreadInv /\ Dedup
  BY DEF SearchInv, BaseInv, TypeOK, Types
<1>1. /\ Len(frontier) \in Nat /\ Len(frontier') \in Nat /\ frontier \in Seq(Url)
      /\ Cardinality(At(Holding)) \in Nat /\ Cardinality(At(Holding)') \in Nat
  BY <1>0, AtSets DEF TypeOK, SharedTypeOK
<1>2. IsFiniteSet(Url \ visited) /\ Cardinality(Url \ visited) \in Nat
  BY FS_Subset, FS_CardinalityType
<1>3. CASE Takes(t)
  <2>1. Len(frontier') = Len(frontier) - 1 /\ visited' = visited
    BY <1>0, <1>1, <1>3, TakesEffect
  <2>2. Cardinality(At(Holding)') = Cardinality(At(Holding)) + 1 /\ ~ Keeps(t)
    BY <1>0, <1>3, HoldersFollow, TakesEffect, KeepsEffect
  <2> QED
    BY <1>1, <1>2, <2>1, <2>2 DEF UrlsLeft
<1>4. CASE Drops(t)
  <2>1. frontier' = frontier /\ visited' = visited /\ ~ Keeps(t)
    BY <1>0, <1>4, DropsEffect, KeepsEffect
  <2>2. Cardinality(At(Holding)') = Cardinality(At(Holding)) - 1
    BY <1>0, <1>4, HoldersFollow
  <2> QED
    BY <1>1, <1>2, <2>1, <2>2 DEF UrlsLeft
<1>5. CASE InsertChild(t)
  <2>1. Child(t) \in Url \ visited /\ visited' = visited \cup {Child(t)}
    BY <1>0, <1>5 DEF InsertChild, Dedup, TypeOK, SharedTypeOK
  <2>2. Len(frontier') = Len(frontier) + 1
    BY <1>1, <1>5, <2>1 DEF InsertChild
  <2>3. Cardinality(At(Holding)') = Cardinality(At(Holding))
    BY <1>0, <1>5, HoldersFollow DEF Keeps
  <2>4. Url \ visited' = (Url \ visited) \ {Child(t)}
    BY <2>1
  <2>5. Cardinality(Url \ visited') = Cardinality(Url \ visited) - 1
    BY <1>2, <2>1, <2>4, FS_RemoveElement
  <2> QED
    <3> DEFINE n == Cardinality(Url \ visited)
               l == Len(frontier)
               h == Cardinality(At(Holding))
    <3>1. UrlsLeft = 3 * n + 2 * l + h /\ UrlsLeft' = 3 * (n - 1) + 2 * (l + 1) + h
      BY <2>2, <2>3, <2>5 DEF UrlsLeft
    <3>2. n \in Nat /\ l \in Nat /\ h \in Nat
      BY <1>1, <1>2
    <3> HIDE DEF n, l, h
    <3>3. 3 * (n - 1) + 2 * (l + 1) + h < 3 * n + 2 * l + h
      BY <3>2
    <3> QED
      BY <1>5, <3>1, <3>3
<1>6. CASE Keeps(t) /\ ~ InsertChild(t)
  <2>1. frontier' = frontier /\ visited' = visited /\ ~ Takes(t) /\ ~ Drops(t)
    BY <1>0, <1>6, KeepsEffect, TakesEffect, DropsEffect
  <2>2. Cardinality(At(Holding)') = Cardinality(At(Holding))
    BY <1>0, <1>6, HoldersFollow
  <2> QED
    BY <1>5, <1>6, <2>1, <2>2 DEF UrlsLeft
<1> QED
  BY <1>3, <1>4, <1>5, <1>6

(***************************************************************************)
(* The end is decided once.  The thread that records the last result leaves*)
(* without having been counted, so that no later one is the last to wait.  *)
(***************************************************************************)
Decided ==
  work_done => \/ \E t \in Thread : pc[t] = "stopped"
               \/ \A t \in Thread : pc[t] \in {"woken", "broke"}

LEMMA StepDecided ==
  ASSUME BaseInv, Decided, NEW t \in Thread, Step(t) \/ WakeSpuriously(t)
  PROVE  Decided'
<1>0. TypeOK /\ Types /\ ThreadInv /\ Counting /\ pc \in [Thread -> PC]
  BY DEF BaseInv, TypeOK, Types, ThreadTypeOK
<1>1. CASE EndSearch(t)
  BY <1>0, <1>1, EndSearchQuiet DEF Decided
<1>2. CASE ProcessPng(t)
  BY <1>0, <1>2 DEF Decided, ProcessPng, BroadcastGoto
<1>3. CASE ~ EndSearch(t) /\ ~ ProcessPng(t)
  <2>1. work_done' = work_done
    BY <1>3 DEF Step, TakeNode, WaitForNode, WakeToQuit, WakeToNode, WakeToNothing,
       WakeSpuriously, CallWork, WorkReturnsNull, WorkReturns, ProcessTooLate, ProcessNothing,
       ProcessChildren, CheckChild, InsertChild, ChildrenDone, bfs_vars
  <2>2. ASSUME NEW s \in Thread, pc[s] = "stopped" PROVE pc'[s] = "stopped"
    <3>1. s # t
      BY <2>2 DEF Step, TakeNode, WaitForNode, EndSearch, WakeToQuit, WakeToNode, WakeToNothing,
         WakeSpuriously, CallWork, WorkReturnsNull, WorkReturns, ProcessTooLate, ProcessPng,
         ProcessNothing, ProcessChildren, CheckChild, InsertChild, ChildrenDone
    <3> QED
      BY <1>0, <2>2, <3>1, OtherThreads
  <2>3. ASSUME work_done, \A s \in Thread : pc[s] \in {"woken", "broke"}
        PROVE  \A s \in Thread : pc'[s] \in {"woken", "broke"}
    <3>1. WakeToQuit(t)
      BY <2>3 DEF Step, TakeNode, WaitForNode, EndSearch, WakeToNode, WakeToNothing,
         WakeSpuriously, CallWork, WorkReturnsNull, WorkReturns, ProcessTooLate, ProcessPng,
         ProcessNothing, ProcessChildren, CheckChild, InsertChild, ChildrenDone
    <3> QED
      BY <1>0, <2>3, <3>1 DEF WakeToQuit, Goto
  <2> QED
    BY <2>1, <2>2, <2>3 DEF Decided
<1> QED
  BY <1>1, <1>2, <1>3

LEMMA NextDecided ==
  ASSUME BaseInv, Decided, [Next]_vars
  PROVE  Decided'
<1>1. CASE \E t \in Thread : Step(t) \/ WakeSpuriously(t)
  BY <1>1, StepDecided
<1>2. CASE Main \/ UNCHANGED vars
  <2>1. /\ work_done' = work_done
        /\ \A s \in Thread : pc'[s] = pc[s] \/ (pc[s] = "unborn" /\ pc'[s] = "lock")
    BY <1>2, MainKeeps DEF BaseInv, TypeOK, Types
  <2>2. ASSUME NEW s \in Thread, pc[s] \in {"stopped", "woken", "broke"} PROVE pc'[s] = pc[s]
    BY <2>1, <2>2
  <2> QED
    BY <2>1, <2>2 DEF Decided
<1> QED
  BY <1>1, <1>2 DEF Next, Finished

LEMMA EndSearchDecides ==
  ASSUME BaseInv, Decided, NEW t \in Thread, EndSearch(t)
  PROVE  ~ work_done /\ work_done'
<1>0. TypeOK /\ Types /\ ThreadInv /\ Counting
  BY DEF BaseInv, TypeOK, Types
<1>1. pc[t] = "lock" /\ work_done'
  BY DEF EndSearch
<1>2. ASSUME NEW s \in Thread, pc[s] = "stopped" PROVE FALSE
  <2>1. pc'[s] \in {"woken", "broke"}
    BY <1>0, EndSearchQuiet
  <2>2. pc'[s] = "stopped"
    BY <1>0, <1>1, <1>2, OtherThreads DEF Step
  <2> QED
    BY <2>1, <2>2
<1> QED
  BY <1>1, <1>2 DEF Decided

(***************************************************************************)
(* How each step makes what is left less.                                  *)
(***************************************************************************)
LEMMA LessIf ==
  ASSUME NEW a1, NEW a2, NEW a3, NEW a4, NEW a5, NEW a6, NEW a7,
         NEW b1, NEW b2, NEW b3, NEW b4, NEW b5, NEW b6, NEW b7,
         \/ a1 < b1
         \/ a1 = b1 /\ a2 < b2
         \/ a1 = b1 /\ a2 = b2 /\ a3 < b3
         \/ a1 = b1 /\ a2 = b2 /\ a3 = b3 /\ a4 < b4
         \/ a1 = b1 /\ a2 = b2 /\ a3 = b3 /\ a4 = b4 /\ a5 < b5
         \/ a1 = b1 /\ a2 = b2 /\ a3 = b3 /\ a4 = b4 /\ a5 = b5 /\ a6 < b6
         \/ a1 = b1 /\ a2 = b2 /\ a3 = b3 /\ a4 = b4 /\ a5 = b5 /\ a6 = b6 /\ a7 < b7
  PROVE  Less(<<a1, a2, a3, a4, a5, a6, a7>>, <<b1, b2, b3, b4, b5, b6, b7>>)
  BY DEF Less

\* Steps that leave the URLs alone and take t nearer to where it stops.
Advances(t) ==
  \/ WaitForNode(t) \/ WakeToQuit(t) \/ WakeToNothing(t) \/ CallWork(t) \/ WorkReturns(t)
  \/ ProcessChildren(t) \/ (CheckChild(t) /\ Child(t) \notin visited)

LEMMA AdvancesNearer ==
  ASSUME TypeOK, ThreadInv, NEW t \in Thread, Advances(t)
  PROVE  /\ ThreadStepsLeft' < ThreadStepsLeft
         /\ UNCHANGED <<spurious, work_done>> /\ Keeps(t) /\ ~ InsertChild(t)
<1> DEFINE Goes(from, to) == pc[t] = from /\ pc' = [pc EXCEPT ![t] = to]
<1>1. \/ Goes("lock", "waiting") \/ Goes("woken", "broke") \/ Goes("woken", "lock")
      \/ Goes("call", "work") \/ Goes("work", "process") \/ Goes("process", "check")
      \/ Goes("check", "insert")
  BY DEF Goto, Advances, WaitForNode, WakeToQuit, WakeToNothing, CallWork, WorkReturns,
     ProcessChildren, CheckChild
<1>2. /\ Nearer("lock", "waiting") /\ Nearer("woken", "broke") /\ Nearer("woken", "lock")
       /\ Nearer("call", "work") /\ Nearer("work", "process") /\ Nearer("process", "check")
       /\ Nearer("check", "insert")
  BY DEF Nearer, Far, Near
<1>3. pc \in [Thread -> PC]
  BY DEF TypeOK, ThreadTypeOK
<1>4. UNCHANGED <<spurious, work_done>>
  BY DEF Advances, WaitForNode, WakeToQuit, WakeToNothing, CallWork, WorkReturns, ProcessChildren,
     CheckChild, bfs_vars
<1>5. Keeps(t) /\ pc[t] # "insert"
  BY DEF Advances, Keeps, WaitForNode, WakeToQuit, WakeToNothing, CallWork, WorkReturns,
     ProcessChildren, CheckChild
<1>6. ThreadStepsLeft' < ThreadStepsLeft
  BY <1>1, <1>2, <1>3, MoveNearer
<1> QED
  BY <1>4, <1>5, <1>6 DEF InsertChild

\* The child that is looked at was visited before: the next one.
LEMMA SkipsChild ==
  ASSUME TypeOK, ThreadInv, NEW t \in Thread, CheckChild(t), Child(t) \in visited
  PROVE  /\ ChildrenLeft' < ChildrenLeft /\ ThreadStepsLeft' = ThreadStepsLeft
         /\ UNCHANGED <<spurious, work_done>>
<1>1. mutex = t /\ mutex' = t /\ t # NULL /\ pc' = pc /\ ret' = ret
  BY BfsAssumption DEF CheckChild, ThreadInv, MutexInv, InLoop, Thread
<1>2. child[t] \in Nat /\ child'[t] = child[t] + 1
  BY DEF CheckChild, TypeOK, ThreadTypeOK
<1>3. Len(ret[t].children) \in Nat
  BY DEF CheckChild, ThreadInv, RetInv, search_return_t
<1>4. ChildrenLeft' < ChildrenLeft
  BY <1>1, <1>2, <1>3 DEF ChildrenLeft
<1>5. \A S : At(S)' = At(S)
  BY <1>1 DEF At
<1> QED
  BY <1>4, <1>5 DEF ThreadStepsLeft, CheckChild, bfs_vars

LEMMA StepLess ==
  ASSUME IsFiniteSet(Url), SearchInv, SearchInv', Decided,
         NEW t \in Thread, Step(t) \/ WakeSpuriously(t)
  PROVE  Less(Left', Left)
<1>0. TypeOK /\ TypeOK' /\ ThreadInv /\ BaseInv
  BY DEF SearchInv, BaseInv
<1>1. CASE WakeSpuriously(t)
  <2>1. MaxSpurious - spurious' < MaxSpurious - spurious
    BY <1>0, <1>1, BfsAssumption DEF WakeSpuriously, TypeOK, MainTypeOK
  <2> QED
    BY <2>1, LessIf DEF Left
<1>2. CASE Takes(t) \/ Drops(t) \/ InsertChild(t)
  <2>1. spurious' = spurious
    BY <1>2 DEF Takes, Drops, TakeNode, WakeToNode, WorkReturnsNull, ProcessTooLate, ProcessPng,
       ProcessNothing, ChildrenDone, InsertChild
  <2>2. UrlsLeft' < UrlsLeft
    BY <1>2, StepUrls
  <2> QED
    BY <2>1, <2>2, LessIf DEF Left
<1>3. CASE EndSearch(t)
  <2>1. ~ work_done /\ work_done' /\ spurious' = spurious
    BY <1>0, <1>3, EndSearchDecides DEF EndSearch
  <2>2. UrlsLeft' = UrlsLeft
    BY <1>3, StepUrls DEF Keeps, EndSearch, InsertChild
  <2>3. (IF work_done THEN 0 ELSE 1)' < (IF work_done THEN 0 ELSE 1)
    BY <2>1
  <2> QED
    BY <2>1, <2>2, <2>3, LessIf DEF Left
<1>4. CASE Advances(t)
  <2>1. /\ ThreadStepsLeft' < ThreadStepsLeft /\ spurious' = spurious
        /\ (IF work_done THEN 0 ELSE 1)' = (IF work_done THEN 0 ELSE 1)
    BY <1>0, <1>4, AdvancesNearer
  <2>2. UrlsLeft' = UrlsLeft
    BY <1>0, <1>4, AdvancesNearer, StepUrls
  <2> QED
    BY <2>1, <2>2, LessIf DEF Left
<1>5. CASE CheckChild(t) /\ Child(t) \in visited
  <2>1. /\ ChildrenLeft' < ChildrenLeft /\ ThreadStepsLeft' = ThreadStepsLeft
        /\ spurious' = spurious
        /\ (IF work_done THEN 0 ELSE 1)' = (IF work_done THEN 0 ELSE 1)
    BY <1>0, <1>5, SkipsChild
  <2>2. UrlsLeft' = UrlsLeft
    BY <1>5, StepUrls DEF Keeps, CheckChild, InsertChild
  <2> QED
    BY <2>1, <2>2, LessIf DEF Left
<1> QED
  BY <1>1, <1>2, <1>3, <1>4, <1>5 DEF Step, Takes, Drops, Advances

LEMMA MainLess ==
  ASSUME SearchInv, Main
  PROVE  Less(Left', Left)
<1>0. TypeOK /\ Types /\ ThreadInv /\ pc \in [Thread -> PC]
  BY DEF SearchInv, BaseInv, TypeOK, Types, ThreadTypeOK
<1>1. UNCHANGED <<frontier, visited, ret, child, mutex, work_done>> /\ spurious' = spurious
  <2>1. spurious' = spurious
    BY DEF Main, CreateThread, AllCreated, JoinThread, AllJoined, CopyResult, ReturnResults
  <2> QED
    BY <1>0, <2>1, MainKeeps
<1>2. ChildrenLeft' = ChildrenLeft /\ (IF work_done THEN 0 ELSE 1)' = (IF work_done THEN 0 ELSE 1)
  BY <1>1 DEF ChildrenLeft
<1>3. At(Holding)' = At(Holding)
  BY <1>0, MainKeeps DEF At, Holding
<1>4. UrlsLeft' = UrlsLeft
  BY <1>1, <1>3 DEF UrlsLeft
<1>5. CASE CreateThread
  <2>1. nth + 1 \in Thread /\ pc[nth + 1] = "unborn" /\ pc' = [pc EXCEPT ![nth + 1] = "lock"]
    BY <1>0, <1>5, BfsAssumption DEF CreateThread, Goto, TypeOK, MainTypeOK, Thread, ThreadInv, LifeInv
  <2>2. Nearer("unborn", "lock")
    BY DEF Nearer, Far, Near
  <2>3. ThreadStepsLeft' < ThreadStepsLeft
    BY <1>0, <2>1, <2>2, MoveNearer
  <2> QED
    BY <1>1, <1>2, <1>4, <2>3, LessIf DEF Left
<1>6. CASE ~ CreateThread
  <2>1. pc' = pc
    BY <1>6 DEF Main, AllCreated, JoinThread, AllJoined, CopyResult, ReturnResults
  <2>2. \A S : At(S)' = At(S)
    BY <2>1 DEF At
  <2>3. ThreadStepsLeft' = ThreadStepsLeft
    BY <2>2 DEF ThreadStepsLeft
  <2>4. CASE AllCreated \/ AllJoined \/ ReturnResults
    <3>1. PhasesLeft' < PhasesLeft
      BY <2>4 DEF AllCreated, AllJoined, ReturnResults, PhasesLeft
    <3> QED
      BY <1>1, <1>2, <1>4, <2>3, <3>1, LessIf DEF Left
  <2>5. CASE JoinThread \/ CopyResult
    <3>1. PhasesLeft' = PhasesLeft
      BY <2>5 DEF JoinThread, CopyResult, PhasesLeft
    <3>2. /\ nth \in Nat /\ NThreads \in Nat /\ Len(search_results) \in Nat
          /\ search_results \in Seq(Url)
      BY <1>0, BfsAssumption DEF TypeOK, MainTypeOK, SharedTypeOK
    <3>3. CASE JoinThread
      <4>1. nth' = nth + 1 /\ search_results' = search_results
        BY <3>3 DEF JoinThread, bfs_vars
      <4>2. (NThreads - nth') + Len(search_results') < (NThreads - nth) + Len(search_results)
        BY <3>2, <4>1
      <4> QED
        BY <1>1, <1>2, <1>4, <2>3, <3>1, <4>2, LessIf DEF Left
    <3>4. CASE CopyResult
      <4>1. nth' = nth /\ Len(search_results') = Len(search_results) - 1
        BY <3>2, <3>4 DEF CopyResult
      <4>2. (NThreads - nth') + Len(search_results') < (NThreads - nth) + Len(search_results)
        BY <3>2, <4>1
      <4> QED
        BY <1>1, <1>2, <1>4, <2>3, <3>1, <4>2, LessIf DEF Left
    <3> QED
      BY <2>5, <3>3, <3>4
  <2> QED
    BY <1>6, <2>4, <2>5 DEF Main
<1> QED
  BY <1>5, <1>6

LeftIsNat == Left \in [1 .. 7 -> Nat]

LEMMA LeftNat ==
  ASSUME IsFiniteSet(Url), TypeOK, ThreadInv
  PROVE  LeftIsNat
<1>1. /\ spurious \in 0 .. MaxSpurious /\ MaxSpurious \in Nat /\ nth \in 0 .. NThreads
      /\ NThreads \in Nat /\ Len(search_results) \in Nat
  BY BfsAssumption DEF TypeOK, MainTypeOK, SharedTypeOK
<1>2. MaxSpurious - spurious \in Nat /\ (NThreads - nth) + Len(search_results) \in Nat
  BY <1>1
<1>3. UrlsLeft \in Nat /\ (IF work_done THEN 0 ELSE 1) \in Nat
  BY UrlsLeftNat
<1>4. ThreadStepsLeft \in Nat
  <2> DEFINE Counts(S) == Cardinality(At(S)) \in Nat
  <2>1. Counts({"call"}) /\ Counts({"call", "work"}) /\ Counts(Far) /\ Counts(Near)
    BY AtSets
  <2> QED
    BY <2>1, ThreadStepsLeftIs
<1>5. ChildrenLeft \in Nat
  <2>1. CASE mutex = NULL
    BY <2>1 DEF ChildrenLeft
  <2>2. CASE mutex \in Thread
    <3>1. pc[mutex] \in InLoop
      BY <2>2 DEF ThreadInv, MutexInv
    <3>2. /\ ret[mutex] \in search_return_t
          /\ child[mutex] \in 1 .. Len(ret[mutex].children) + 1
      BY <2>2, <3>1 DEF ThreadInv, RetInv, LoopInv, InLoop
    <3>3. Len(ret[mutex].children) \in Nat
      BY <3>2 DEF search_return_t
    <3>4. mutex # NULL
      BY <2>2, BfsAssumption DEF Thread
    <3> QED
      BY <3>2, <3>3, <3>4 DEF ChildrenLeft
  <2> QED
    BY <2>1, <2>2 DEF TypeOK, SharedTypeOK
<1>6. PhasesLeft \in Nat
  BY DEF PhasesLeft, TypeOK, MainTypeOK
<1> QED
  BY <1>2, <1>3, <1>4, <1>5, <1>6 DEF LeftIsNat, Left

(***************************************************************************)
(* A search of finitely many URLs cannot go on for ever: the seven numbers *)
(* of Left are natural numbers, and every step makes the first of them     *)
(* that it changes smaller.  With OnlyFullSearchesHang, it ends whatever   *)
(* the order in which the threads run, unless it is full.                  *)
(***************************************************************************)
THEOREM StepsRunOut == IsFiniteSet(Url) => (Spec => []LeftIsNat /\ EachStepCounts)
<1> SUFFICES ASSUME IsFiniteSet(Url) PROVE Spec => []LeftIsNat /\ EachStepCounts
  OBVIOUS
<1>1. Init => Decided
  BY DEF Init, Decided
<1>2. SearchInv => BaseInv
  BY DEF SearchInv
<1>3. BaseInv => LeftIsNat
  BY LeftNat DEF BaseInv
<1>4. SearchInv /\ SearchInv' /\ Decided /\ [Next]_vars => [Less(Left', Left)]_vars
  BY StepLess, MainLess DEF Next, Finished
<1> QED
  BY <1>1, <1>2, <1>3, <1>4, Search, NextDecided, PTL DEF Spec, EachStepCounts
-----------------------------------------------------------------------------
(***************************************************************************)
(* Completeness.  Until the search is full, every URL visited is queued,   *)
(* held by a thread, or explored.                                          *)
(***************************************************************************)
Explored(u) ==
  /\ Certain(u) \subseteq visited
  /\ \A e \in Url : CertainPng(u, e) => e \in Range(found)

Held(u) == \E t \in Thread : Hold(t) /\ node[t] = u

Covered ==
  ~ Full => \A u \in visited : u \in Range(frontier) \/ Held(u) \/ Explored(u)

\* The children the loop has gone past are visited.
LoopCovered ==
  \A t \in Thread : pc[t] \in InLoop =>
    \A j \in 1 .. child[t] - 1 : ret[t].children[j] \in visited

LEMMA FoundGrows ==
  ASSUME BaseInv, [Next]_vars
  PROVE  /\ found \in Seq(Url)
         /\ Range(found) \subseteq Range(found')
         /\ Full => Full'
<1>1. found \in Seq(Url)
  BY DEF BaseInv, TypeOK, SharedTypeOK, MainTypeOK, found
<1>2. ASSUME NEW t \in Thread, ProcessPng(t) PROVE Range(found) \subseteq Range(found')
  <2>1. ret[t].effective_url \in Url /\ found' = Append(found, ret[t].effective_url)
    BY <1>2, FoundPng DEF BaseInv
  <2> QED
    BY <1>1, <2>1, EnqueueRange
<1>3. ASSUME NEW t \in Thread, ProcessPng(t) PROVE ~ Full
  BY <1>3 DEF ProcessPng, BaseInv, DoneInv, Full
<1>4. CASE \A t \in Thread : ~ ProcessPng(t)
  BY <1>1, <1>4, FoundUnchanged DEF BaseInv, Full
<1> QED
  BY <1>1, <1>2, <1>3, <1>4

LEMMA VisitedGrows ==
  ASSUME Types, ThreadInv, [Next]_vars
  PROVE  visited \subseteq visited'
<1>1. ASSUME NEW t \in Thread, InsertChild(t) PROVE visited \subseteq visited'
  BY <1>1 DEF InsertChild
<1> QED
  BY <1>1, VisitedUnchanged

LEMMA NextLoopCovered ==
  ASSUME Types, ThreadInv, LoopCovered, [Next]_vars
  PROVE  LoopCovered'
<1> SUFFICES ASSUME NEW s \in Thread, pc'[s] \in InLoop, NEW j \in 1 .. child'[s] - 1
             PROVE  ret'[s].children[j] \in visited'
  BY DEF LoopCovered
<1>0. visited \subseteq visited'
  BY VisitedGrows
<1>1. ASSUME NEW t \in Thread, t # s, Step(t) \/ WakeSpuriously(t)
      PROVE  ret'[s].children[j] \in visited'
  BY <1>0, <1>1, OtherThreads DEF LoopCovered, InLoop
<1>2. CASE Step(s) \/ WakeSpuriously(s)
  <2>0. child[s] \in Nat /\ pc \in [Thread -> PC] /\ child \in [Thread -> Nat]
    BY DEF Types, ThreadTypeOK
  <2>1. CASE ProcessChildren(s)
    BY <2>0, <2>1 DEF ProcessChildren
  <2>2. CASE CheckChild(s)
    <3>1. pc[s] \in InLoop /\ ret' = ret
      BY <2>2 DEF CheckChild, InLoop
    <3>2. child'[s] = child[s] \/ (child'[s] = child[s] + 1 /\ Child(s) \in visited)
      BY <2>0, <2>2 DEF CheckChild
    <3>3. j \in 1 .. child[s] - 1 \/ (j = child[s] /\ Child(s) \in visited)
      BY <2>0, <3>2
    <3> QED
      BY <1>0, <3>1, <3>3 DEF LoopCovered, Child
  <2>3. CASE InsertChild(s)
    <3>1. /\ pc[s] \in InLoop /\ ret' = ret /\ child'[s] = child[s] + 1
          /\ Child(s) \in visited'
      BY <2>0, <2>3 DEF InsertChild, InLoop
    <3>2. j \in 1 .. child[s] - 1 \/ j = child[s]
      BY <2>0, <3>1
    <3> QED
      BY <1>0, <3>1, <3>2 DEF LoopCovered, Child
  <2>4. CASE ~ (ProcessChildren(s) \/ CheckChild(s) \/ InsertChild(s))
    <3>1. pc'[s] \notin InLoop
      BY <1>2, <2>0, <2>4 DEF Step, TakeNode, WaitForNode, EndSearch, WakeToQuit, WakeToNode,
         WakeToNothing, WakeSpuriously, CallWork, WorkReturnsNull, WorkReturns,
         ProcessTooLate, ProcessPng, ProcessNothing, ChildrenDone, DequeueNode, Goto,
         BroadcastGoto, InLoop
    <3> QED
      BY <3>1
  <2> QED
    BY <2>1, <2>2, <2>3, <2>4
<1>3. CASE Main \/ UNCHANGED vars
  BY <1>0, <1>3, MainKeeps DEF LoopCovered, InLoop
<1> QED
  BY <1>1, <1>2, <1>3 DEF Next, Finished

(***************************************************************************)
(* A thread gives up its URL only when everything that is certain about it *)
(* is recorded, unless the search is full.                                 *)
(***************************************************************************)
LEMMA DropsExplored ==
  ASSUME BaseInv, LoopCovered, NEW t \in Thread, Drops(t), [Next]_vars,
         NEW u, u = node[t]
  PROVE  Full \/ Explored(u)'
<1>0. u \in Url
  BY DropsEffect DEF BaseInv, TypeOK, Types, ThreadInv, NodeInv, Hold
<1>1. CASE WorkReturnsNull(t)
  <2>1. NULL \in work[u]
    BY <1>1 DEF WorkReturnsNull
  <2>2. Certain(u) = {} /\ \A e \in Url : ~ CertainPng(u, e)
    BY <2>1 DEF Certain, CertainPng, IsPage
  <2> QED
    BY <1>0, <2>2 DEF Explored
<1>2. CASE ProcessTooLate(t)
  BY <1>2 DEF ProcessTooLate, BaseInv, QuietWhenExhausted, Exhausted
<1>3. pc[t] \in {"process", "check"} => ret[t] \in work[u] /\ ret[t] # NULL
  BY NullAssumption DEF BaseInv, ThreadInv, RetInv
<1>4. CASE ProcessPng(t)
  <2>1. ret[t].effective_url # NULL /\ ret[t] \in work[u]
    BY <1>3, <1>4 DEF ProcessPng, ReportsPng
  <2>2. Certain(u) = {} /\ \A e \in Url : CertainPng(u, e) => e = ret[t].effective_url
    BY <2>1 DEF Certain, CertainPng, IsPage
  <2>3. ret[t].effective_url \in Url /\ found \in Seq(Url)
        /\ found' = Append(found, ret[t].effective_url)
    BY <1>4, FoundPng DEF BaseInv
  <2>4. ret[t].effective_url \in Range(found')
    BY <2>3, EnqueueRange
  <2> QED
    BY <1>0, <2>2, <2>4 DEF Explored
<1>5. CASE ProcessNothing(t)
  <2>1. ret[t].effective_url = NULL /\ ret[t].children = <<>> /\ ret[t] \in work[u]
    BY <1>3, <1>5 DEF ProcessNothing, ReportsPng
  <2>2. Range(ret[t].children) = {}
    BY <2>1 DEF Range
  <2>3. Certain(u) = {} /\ \A e \in Url : ~ CertainPng(u, e)
    BY <2>1, <2>2, NullAssumption DEF Certain, CertainPng
  <2> QED
    BY <1>0, <2>3 DEF Explored
<1>6. CASE ChildrenDone(t)
  <2>1. pc[t] = "check" /\ child[t] > Len(ret[t].children) /\ visited' = visited
    BY <1>6 DEF ChildrenDone, bfs_vars
  <2>2. /\ ret[t] \in work[u] /\ ret[t].effective_url = NULL /\ ret[t].children \in Seq(Url)
        /\ child[t] \in Nat
    BY <1>3, <2>1 DEF BaseInv, ThreadInv, LoopInv, RetInv, InLoop, IsPage, search_return_t,
       TypeOK, ThreadTypeOK
  <2>3. \A j \in 1 .. Len(ret[t].children) : ret[t].children[j] \in visited
    BY <2>1, <2>2 DEF LoopCovered, InLoop
  <2>4. Range(ret[t].children) \subseteq visited
    BY <2>2, <2>3, RangeEquality
  <2>5. Certain(u) \subseteq visited /\ \A e \in Url : ~ CertainPng(u, e)
    BY <2>2, <2>4, NullAssumption DEF Certain, CertainPng
  <2> QED
    BY <1>0, <2>1, <2>5 DEF Explored
<1> QED
  BY <1>1, <1>2, <1>4, <1>5, <1>6 DEF Drops

LEMMA NextCovered ==
  ASSUME SearchInv, LoopCovered, Covered, [Next]_vars
  PROVE  Covered'
<1>0. Types /\ ThreadInv /\ BaseInv /\ frontier \in Seq(Url) /\ Unique(frontier)
      /\ visited \subseteq Url
  BY DEF SearchInv, BaseInv, TypeOK, Types, SharedTypeOK, Dedup
<1>1. visited \subseteq visited' /\ Range(found) \subseteq Range(found') /\ (Full => Full')
  BY <1>0, VisitedGrows, FoundGrows
<1>2. \A u : Explored(u) => Explored(u)'
  BY <1>1 DEF Explored
<1> SUFFICES ASSUME ~ Full', NEW u \in visited'
             PROVE  u \in Range(frontier') \/ Held(u)' \/ Explored(u)'
  BY DEF Covered
<1>3. u \in visited => u \in Range(frontier) \/ Held(u) \/ Explored(u)
  BY <1>1 DEF Covered
<1>4. ASSUME NEW t \in Thread, Step(t) \/ WakeSpuriously(t)
      PROVE  u \in Range(frontier') \/ Held(u)' \/ Explored(u)'
  <2>0. \A s \in Thread : s # t => ((Hold(s)' <=> Hold(s)) /\ node'[s] = node[s])
    BY <1>0, <1>4, OthersHold
  <2>1. CASE Drops(t)
    <3>1. UNCHANGED <<frontier, visited>>
      BY <1>0, <2>1, DropsEffect
    <3>3. CASE u = node[t]
      BY <1>0, <1>1, <2>1, <3>3, DropsExplored
    <3>4. CASE u # node[t]
      BY <1>2, <1>3, <2>0, <3>1, <3>4 DEF Held
    <3> QED
      BY <3>3, <3>4
  <2>2. CASE Takes(t)
    <3>1. /\ ~ Hold(t) /\ Hold(t)' /\ frontier # <<>> /\ visited' = visited
          /\ node'[t] = Head(frontier) /\ frontier' = Tail(frontier)
      BY <1>0, <2>2, TakesEffect
    <3>2. Range(frontier') = Range(frontier) \ {Head(frontier)}
      BY <1>0, <3>1, DequeueRange
    <3>3. CASE u = Head(frontier)
      BY <3>1, <3>3 DEF Held
    <3>4. CASE u # Head(frontier)
      BY <1>2, <1>3, <2>0, <3>1, <3>2, <3>4 DEF Held
    <3> QED
      BY <3>3, <3>4
  <2>3. CASE Keeps(t)
    <3>1. (Hold(t)' <=> Hold(t)) /\ node' = node
          /\ (~ InsertChild(t) => UNCHANGED <<frontier, visited>>)
      BY <1>0, <2>3, KeepsEffect
    <3>2. Held(u) => Held(u)'
      BY <2>0, <3>1 DEF Held
    <3>3. CASE InsertChild(t)
      <4>1. visited' = visited \cup {Child(t)} /\ frontier' = Append(frontier, Child(t))
        BY <3>3 DEF InsertChild
      <4>2. Child(t) \in Url
        BY <4>1, NextBase, <1>0 DEF BaseInv, TypeOK, SharedTypeOK
      <4>3. Range(frontier') = Range(frontier) \cup {Child(t)}
        BY <1>0, <4>1, <4>2, EnqueueRange
      <4> QED
        BY <1>2, <1>3, <3>2, <4>1, <4>3
    <3>4. CASE ~ InsertChild(t)
      BY <1>2, <1>3, <3>1, <3>2, <3>4
    <3> QED
      BY <3>3, <3>4
  <2> QED
    BY <1>4, <2>1, <2>2, <2>3, StepKinds
<1>5. CASE Main \/ UNCHANGED vars
  <2>1. UNCHANGED <<frontier, visited, node>> /\ \A s \in Thread : Hold(s) => Hold(s)'
    BY <1>0, <1>5, MainKeeps DEF Hold, Holding
  <2> QED
    BY <1>2, <1>3, <2>1 DEF Held
<1> QED
  BY <1>4, <1>5 DEF Next, Finished

(***************************************************************************)
(* A search that is exhausted has visited every page it was bound to reach *)
(* and reported every PNG among them.                                      *)
(***************************************************************************)
THEOREM Complete == Spec => []NothingMissed
<1>1. Init => Covered /\ LoopCovered
  <2> SUFFICES ASSUME Init PROVE Covered /\ LoopCovered
    OBVIOUS
  <2>1. frontier = <<Root>> /\ visited = {Root} /\ \A t \in Thread : pc[t] = "unborn"
    BY DEF Init
  <2>2. Root \in Range(frontier)
    BY <2>1 DEF Range
  <2> QED
    BY <2>1, <2>2 DEF Covered, LoopCovered, InLoop
<1>2. SearchInv /\ Covered /\ LoopCovered /\ [Next]_vars => Covered' /\ LoopCovered'
  BY NextCovered, NextLoopCovered DEF SearchInv, BaseInv, TypeOK, Types
<1>3. SearchInv /\ Covered => NothingMissed
  <2> SUFFICES ASSUME SearchInv, Covered, Exhausted, NEW u \in visited
               PROVE  Explored(u)
    BY DEF NothingMissed, Explored
  <2>1. frontier = <<>> /\ \A t \in Thread : pc[t] \in {"woken", "broke"}
    BY DEF SearchInv, BaseInv, QuietWhenExhausted
  <2>2. Range(frontier) = {} /\ ~ Held(u)
    BY <2>1 DEF Range, Held, Hold, Holding
  <2> QED
    BY <2>2 DEF Covered, Exhausted
<1> QED
  BY <1>1, <1>2, <1>3, Search, PTL DEF Spec
-----------------------------------------------------------------------------
(***************************************************************************)
(* Refinement: with the URLs queued or held as the pending ones, every     *)
(* step of the pool is a step of Crawl or changes nothing Crawl sees.      *)
(***************************************************************************)
Ended == IF ~ work_done THEN "no" ELSE IF Full THEN "full" ELSE "exhausted"

LEMMA InPending == \A x : x \in Pending <=> x \in Range(frontier) \/ Held(x)
  BY DEF Pending, Held, Hold

LEMMA InPendingNext == \A x : x \in Pending' <=> x \in Range(frontier') \/ Held(x)'
  BY DEF Pending, Held, Hold

LEMMA StutterStep ==
  ASSUME UNCHANGED <<visited, found, work_done>>, Pending' = Pending
  PROVE  UNCHANGED CrawlOf!vars
  BY DEF CrawlOf!vars, Full

LEMMA DropsPending ==
  ASSUME SearchInv, NEW t \in Thread, Drops(t), NEW u, u = node[t]
  PROVE  u \in Url /\ u \in Pending /\ Pending' = Pending \ {u} /\ visited' = visited
<1>0. Types /\ ThreadInv
  BY DEF SearchInv, BaseInv, TypeOK, Types
<1>1. Hold(t) /\ ~ Hold(t)' /\ UNCHANGED <<frontier, visited>>
  BY <1>0, DropsEffect
<1>2. Step(t)
  BY DEF Drops, Step
<1>3. \A s \in Thread : s # t => ((Hold(s)' <=> Hold(s)) /\ node'[s] = node[s])
  BY <1>0, <1>2, OthersHold
<1>4. u \in Url /\ u \notin Range(frontier) /\ \A s \in Thread : s # t /\ Hold(s) => node[s] # u
  BY <1>0, <1>1 DEF SearchInv, Dedup, ThreadInv, NodeInv, Hold
<1>5. \A x : Held(x)' <=> Held(x) /\ x # u
  BY <1>1, <1>3, <1>4 DEF Held
<1>6. Held(u)
  BY <1>1 DEF Held
<1> QED
  BY <1>1, <1>4, <1>5, <1>6, InPending, InPendingNext

LEMMA DropsMaps ==
  ASSUME SearchInv, LoopCovered, NEW t \in Thread, Drops(t), [Next]_vars
  PROVE  CrawlOf!Next
<1> DEFINE u == node[t]
<1>0. u \in Url /\ u \in Pending /\ Pending' = Pending \ {u} /\ visited' = visited
  BY DropsPending
<1>1. pc[t] \in {"process", "check"} =>
        ret[t] \in work[u] /\ ret[t] # NULL /\ ret[t] \in search_return_t
  BY NullAssumption DEF SearchInv, BaseInv, ThreadInv, RetInv
<1>2. CASE work_done
  <2>1. Full
    BY <1>2, DropsEffect DEF SearchInv, BaseInv, TypeOK, Types, QuietWhenExhausted, Exhausted,
       Hold, Holding
  <2>2. UNCHANGED <<found, work_done>>
    BY <1>2, Frozen DEF SearchInv
  <2>3. CrawlOf!GiveUp({u})
    BY <1>0, <1>2, <2>1, <2>2 DEF CrawlOf!GiveUp, Full
  <2> QED
    BY <1>0, <2>3 DEF CrawlOf!Next
<1>3. CASE ~ work_done /\ ~ ProcessPng(t)
  <2>1. found' = found /\ ~ work_done'
    <3>1. ASSUME NEW s \in Thread PROVE ~ ProcessPng(s)
      <4>1. ProcessPng(s) => Hold(s) /\ ~ Hold(s)'
        BY DropsEffect DEF Drops, SearchInv, BaseInv, TypeOK, Types
      <4>2. s # t => (Hold(s)' <=> Hold(s))
        BY OthersHold DEF SearchInv, BaseInv, TypeOK, Types, Drops, Step
      <4> QED
        BY <1>3, <4>1, <4>2
    <3>2. \A s \in Thread : ~ EndSearch(s)
      BY <1>3 DEF Drops, EndSearch, WorkReturnsNull, ProcessNothing, ChildrenDone, ProcessTooLate,
         bfs_vars
    <3> QED
      BY <1>3, <3>1, <3>2, FoundUnchanged, WorkDoneStep DEF SearchInv, BaseInv
  <2>2. NULL \in work[u] \/ \E r \in CrawlOf!Pages(u) : Range(r.children) \subseteq visited
    <3>1. CASE WorkReturnsNull(t)
      BY <3>1 DEF WorkReturnsNull
    <3>2. CASE ProcessNothing(t)
      <4>1. Range(ret[t].children) = {} /\ ret[t] \in CrawlOf!Pages(u)
        BY <1>1, <3>2 DEF ProcessNothing, ReportsPng, CrawlOf!Pages, Range
      <4> QED
        BY <4>1
    <3>3. CASE ChildrenDone(t)
      <4>1. pc[t] = "check" /\ child[t] > Len(ret[t].children)
        BY <3>3 DEF ChildrenDone
      <4>2. /\ ret[t] \in CrawlOf!Pages(u) /\ ret[t].children \in Seq(Url) /\ child[t] \in Nat
        BY <1>1, <4>1 DEF SearchInv, BaseInv, ThreadInv, LoopInv, InLoop, IsPage,
           search_return_t, TypeOK, ThreadTypeOK, CrawlOf!Pages
      <4>3. \A j \in 1 .. Len(ret[t].children) : ret[t].children[j] \in visited
        BY <4>1, <4>2 DEF LoopCovered, InLoop
      <4>4. Range(ret[t].children) \subseteq visited
        BY <4>2, <4>3, RangeEquality
      <4> QED
        BY <4>2, <4>4
    <3> QED
      BY <1>3, <3>1, <3>2, <3>3 DEF Drops, ProcessTooLate
  <2>3. CrawlOf!Finish(u)
    <3>1. Ended = "no" /\ Ended' = "no"
      BY <1>3, <2>1 DEF Ended
    <3> HIDE DEF u
    <3> QED
      BY <1>0, <2>1, <2>2, <3>1 DEF CrawlOf!Finish, Ended, Range, CrawlOf!Range
  <2> QED
    BY <1>0, <2>3 DEF CrawlOf!Next
<1>4. CASE ~ work_done /\ ProcessPng(t)
  <2>1. /\ found' = Append(found, ret[t].effective_url) /\ Len(found') = Len(found) + 1
        /\ found' = search_results' /\ found \in Seq(Url)
    BY <1>4, FoundPng DEF SearchInv, BaseInv
  <2>2. ret[t] \in work[u] /\ ret[t] # NULL /\ ret[t].effective_url # NULL
    BY <1>1, <1>4 DEF ProcessPng, ReportsPng
  <2>3. IF Len(found') = MaxResults THEN work_done' = TRUE ELSE work_done' = work_done
    BY <1>4, <2>1 DEF ProcessPng
  <2>4. Len(found') # 0
    BY <2>1
  <2>5. Ended' = IF Len(found') = MaxResults THEN "full" ELSE "no"
    BY <1>4, <2>3, <2>4 DEF Ended, Full
  <2>6. CrawlOf!Report(u)
    BY <1>0, <1>4, <2>1, <2>2, <2>5 DEF CrawlOf!Report, Ended
  <2> QED
    BY <1>0, <2>6 DEF CrawlOf!Next
<1> QED
  BY <1>2, <1>3, <1>4

LEMMA KeepsMaps ==
  ASSUME SearchInv, NEW t \in Thread, Keeps(t), Step(t) \/ WakeSpuriously(t), [Next]_vars
  PROVE  CrawlOf!Next \/ UNCHANGED CrawlOf!vars
<1>0. Types /\ ThreadInv /\ frontier \in Seq(Url) /\ pc \in [Thread -> PC]
  BY DEF SearchInv, BaseInv, TypeOK, Types, SharedTypeOK, ThreadTypeOK
<1>1. /\ (Hold(t)' <=> Hold(t)) /\ node' = node
      /\ ~ InsertChild(t) => UNCHANGED <<frontier, visited>>
  BY <1>0, KeepsEffect
<1>2. \A x : Held(x)' <=> Held(x)
  BY <1>0, <1>1, OthersHold DEF Held
<1>3. ASSUME NEW s \in Thread PROVE ~ ProcessPng(s)
  <2>1. ProcessPng(s) => Hold(s) /\ ~ Hold(s)'
    BY <1>0, DropsEffect DEF Drops
  <2>2. Hold(s)' <=> Hold(s)
    BY <1>0, <1>1, OthersHold
  <2> QED
    BY <2>1, <2>2
<1>4. found' = found
  BY <1>3, FoundUnchanged DEF SearchInv, BaseInv
<1>5. CASE InsertChild(t)
  <2> DEFINE u == node[t]
             c == Child(t)
  <2>1. /\ pc[t] = "insert" /\ visited' = visited \cup {c} /\ frontier' = Append(frontier, c)
        /\ work_done' = work_done
    BY <1>5 DEF InsertChild
  <2>2. mutex = t /\ ~ work_done
    BY <2>1, BfsAssumption DEF SearchInv, DoneUnlocked, BaseInv, ThreadInv, MutexInv, InLoop, Thread
  <2>3. /\ ret[t] \in work[u] /\ IsPage(ret[t]) /\ ret[t].children \in Seq(Url)
        /\ child[t] \in 1 .. Len(ret[t].children) /\ u \in Url
    BY <1>0, <2>1 DEF ThreadInv, NodeInv, RetInv, LoopInv, InLoop, Holding, search_return_t
  <2>4. c \in Range(ret[t].children) /\ c \in Url /\ c \notin visited
    BY <2>1, <2>3, RangeEquality DEF Child, SearchInv, Dedup
  <2>5. ret[t] \in CrawlOf!Pages(u)
    BY <2>3 DEF CrawlOf!Pages, IsPage
  <2>6. u \in Pending
    BY <2>1, InPending DEF Held, Hold, Holding
  <2>7. Pending' = Pending \cup {c}
    <3>1. Range(frontier') = Range(frontier) \cup {c}
      BY <1>0, <2>1, <2>4, EnqueueRange
    <3> QED
      BY <1>2, <3>1, InPending, InPendingNext
  <2>8. Ended = "no" /\ Ended' = "no"
    BY <2>1, <2>2 DEF Ended
  <2> HIDE DEF u, c
  <2>9. CrawlOf!Discover(u, c)
    BY <1>4, <2>1, <2>4, <2>5, <2>6, <2>7, <2>8 DEF CrawlOf!Discover, Ended, Range, CrawlOf!Range
  <2> QED
    BY <2>3, <2>4, <2>9 DEF CrawlOf!Next
<1>6. CASE ~ InsertChild(t)
  <2>1. Pending' = Pending /\ visited' = visited
    BY <1>1, <1>2, <1>6, InPending, InPendingNext
  <2>2. CASE EndSearch(t) /\ ~ work_done
    <3>1. Pending' = {}
      BY <2>2, EndSearchQuiet, InPendingNext DEF SearchInv, BaseInv, Held, Hold, Holding, Range
    <3>2. work_done' /\ ~ Full /\ ~ Full'
      BY <1>4, <2>2, BfsAssumption DEF EndSearch, SearchInv, BaseInv, DoneInv, Full,
         TypeOK, SharedTypeOK, MainTypeOK, found
    <3>3. CrawlOf!Exhaust
      BY <1>4, <2>1, <2>2, <3>1, <3>2 DEF CrawlOf!Exhaust, Full
    <3> QED
      BY <3>3 DEF CrawlOf!Next
  <2>3. CASE ~ (EndSearch(t) /\ ~ work_done)
    <3>1. work_done' = work_done
      BY <1>0, <2>3, Frozen, <1>6 DEF SearchInv, Keeps, WaitForNode, EndSearch, WakeToQuit, WakeToNothing,
         WakeSpuriously, CallWork, WorkReturns, ProcessChildren, CheckChild, bfs_vars
    <3> QED
      BY <1>4, <2>1, <3>1, StutterStep
  <2> QED
    BY <2>2, <2>3
<1> QED
  BY <1>5, <1>6

LEMMA TakesMaps ==
  ASSUME SearchInv, NEW t \in Thread, Takes(t), [Next]_vars
  PROVE  UNCHANGED CrawlOf!vars
<1>0. Types /\ ThreadInv /\ frontier \in Seq(Url) /\ Unique(frontier)
  BY DEF SearchInv, BaseInv, TypeOK, Types, SharedTypeOK, Dedup
<1>1. /\ ~ Hold(t) /\ Hold(t)' /\ frontier # <<>> /\ visited' = visited
      /\ node'[t] = Head(frontier) /\ frontier' = Tail(frontier)
  BY <1>0, TakesEffect
<1>2. Range(frontier') = Range(frontier) \ {Head(frontier)} /\ Head(frontier) \in Range(frontier)
  BY <1>0, <1>1, DequeueRange
<1>3. \A s \in Thread : s # t => ((Hold(s)' <=> Hold(s)) /\ node'[s] = node[s])
  BY <1>0, OthersHold DEF Takes, Step
<1>4. \A x : Held(x)' <=> Held(x) \/ x = Head(frontier)
  BY <1>1, <1>3 DEF Held
<1>5. Pending' = Pending
  BY <1>2, <1>4, InPending, InPendingNext
<1>6. UNCHANGED <<search_results, work_done, returned>>
  BY DEF Takes, TakeNode, WakeToNode, main_vars
<1> QED
  BY <1>1, <1>5, <1>6, StutterStep DEF found

LEMMA MainMaps ==
  ASSUME SearchInv, Main \/ UNCHANGED vars
  PROVE  UNCHANGED CrawlOf!vars
<1>1. UNCHANGED <<frontier, visited, node, work_done>> /\ \A s \in Thread : Hold(s)' <=> Hold(s)
  BY MainKeeps DEF SearchInv, BaseInv, TypeOK, Types, Hold, Holding
<1>2. Pending' = Pending
  BY <1>1, InPending, InPendingNext DEF Held
<1>3. found' = found
  <2>1. CASE CopyResult
    BY <2>1, CopyKeepsFound DEF CopyResult, found, SearchInv, BaseInv, TypeOK, SharedTypeOK,
       MainTypeOK
  <2>2. CASE ~ CopyResult
    BY <2>2 DEF Main, CreateThread, AllCreated, JoinThread, AllJoined, ReturnResults, vars,
       bfs_vars, main_vars, found
  <2> QED
    BY <2>1, <2>2
<1> QED
  BY <1>1, <1>2, <1>3, StutterStep

(***************************************************************************)
(* The pool of threads implements Crawl.                                   *)
(***************************************************************************)
THEOREM Implements == Spec => ImplementsCrawl
<1>1. Init => CrawlOf!Init
  <2> SUFFICES ASSUME Init PROVE CrawlOf!Init
    OBVIOUS
  <2>1. Range(frontier) = {Root} /\ \A x : ~ Held(x)
    BY DEF Init, Range, Held, Hold, Holding
  <2>2. Pending = {Root}
    BY <2>1, InPending
  <2>3. found = <<>>
    BY DEF Init, found
  <2> QED
    BY <2>2, <2>3 DEF CrawlOf!Init, Init
<1>2. Init => LoopCovered
  BY DEF Init, LoopCovered, InLoop
<1>3. SearchInv /\ LoopCovered /\ [Next]_vars => LoopCovered'
  BY NextLoopCovered DEF SearchInv, BaseInv, TypeOK, Types
<1>4. SearchInv /\ LoopCovered /\ [Next]_vars => [CrawlOf!Next]_(CrawlOf!vars)
  <2> SUFFICES ASSUME SearchInv, LoopCovered, [Next]_vars
               PROVE  CrawlOf!Next \/ UNCHANGED CrawlOf!vars
    OBVIOUS
  <2>1. ASSUME NEW t \in Thread, Step(t) \/ WakeSpuriously(t)
        PROVE  CrawlOf!Next \/ UNCHANGED CrawlOf!vars
    BY <2>1, StepKinds, KeepsMaps, DropsMaps, TakesMaps
  <2> QED
    BY <2>1, MainMaps DEF Next, Finished
<1> QED
  BY <1>1, <1>2, <1>3, <1>4, Search, PTL DEF Spec, ImplementsCrawl, CrawlOf!Spec
-----------------------------------------------------------------------------
(***************************************************************************)
(* Because it is such a crawl, the search visits only what can be reached  *)
(* from the root and reports only the PNGs that are there.                 *)
(***************************************************************************)
LEMMA ResultsAreUrls ==
  ASSUME NEW u \in Url, NEW r \in work[u], r # NULL, r.effective_url # NULL
  PROVE  r.effective_url \in Url
BY BfsAssumption DEF search_return_t

LEMMA ChildrenAreUrls ==
  ASSUME NEW u \in Url, NEW r \in CrawlOf!Pages(u)
  PROVE  Range(r.children) \subseteq Url
<1>1. r.children \in Seq(Url)
  BY BfsAssumption DEF search_return_t, CrawlOf!Pages
<1> QED
  BY <1>1 DEF Range

LEMMA SameRange == \A q : CrawlOf!Range(q) = Range(q)
BY DEF Range, CrawlOf!Range

Reached == found \in Seq(Url) /\ CrawlOf!OnlyReachable

LEMMA NextReached ==
  ASSUME Reached, [CrawlOf!Next]_(CrawlOf!vars)
  PROVE  Reached'
<1> DEFINE Given(e, S) == \E u \in S : \E r \in work[u] : r # NULL /\ r.effective_url = e
<1>1. ASSUME NEW S \in SUBSET Url, CrawlOf!Closed(S)
      PROVE  /\ visited \cup Pending \subseteq S /\ Root \in S
             /\ \A e \in Range(found) : Given(e, S)
             /\ \A u \in S : \A r \in CrawlOf!Pages(u) : Range(r.children) \subseteq S
  BY <1>1, SameRange DEF Reached, CrawlOf!OnlyReachable, CrawlOf!Closed
<1>2. ASSUME NEW S \in SUBSET Url, CrawlOf!Closed(S)
      PROVE  /\ visited' \cup Pending' \subseteq S /\ found' \in Seq(Url)
             /\ \A e \in Range(found') : Given(e, S)
  <2> HIDE DEF Given
  <2>1. CASE \E u, c \in Url : CrawlOf!Discover(u, c)
    <3>1. PICK u \in Url, c \in Url : CrawlOf!Discover(u, c)
      BY <2>1
    <3>2. PICK r \in CrawlOf!Pages(u) : c \in Range(r.children)
      BY <3>1, SameRange DEF CrawlOf!Discover
    <3>3. u \in Pending /\ visited' = visited \cup {c} /\ Pending' = Pending \cup {c} /\ found' = found
      BY <3>1 DEF CrawlOf!Discover
    <3>4. c \in S
      BY <1>1, <1>2, <3>2, <3>3
    <3> QED
      BY <1>1, <1>2, <3>3, <3>4 DEF Reached
  <2>2. CASE \E u \in Url : CrawlOf!Report(u)
    <3>1. PICK u \in Url : CrawlOf!Report(u)
      BY <2>2
    <3>2. PICK r \in work[u] : r # NULL /\ r.effective_url # NULL
                               /\ found' = Append(found, r.effective_url)
      BY <3>1 DEF CrawlOf!Report
    <3>3. u \in Pending /\ visited' = visited /\ Pending' = Pending \ {u}
      BY <3>1 DEF CrawlOf!Report
    <3>4. r.effective_url \in Url
      BY <3>2, ResultsAreUrls
    <3>5. found' \in Seq(Url) /\ Range(found') = Range(found) \cup {r.effective_url}
      BY <3>2, <3>4, EnqueueRange DEF Reached
    <3>6. Given(r.effective_url, S)
      BY <1>1, <1>2, <3>2, <3>3 DEF Given
    <3> QED
      BY <1>1, <1>2, <3>3, <3>5, <3>6
  <2>3. CASE \E u \in Url : CrawlOf!Finish(u)
    <3>1. visited' = visited /\ Pending' \subseteq Pending /\ found' = found
      BY <2>3 DEF CrawlOf!Finish
    <3> QED
      BY <1>1, <1>2, <3>1 DEF Reached
  <2>4. CASE (\E U \in SUBSET Url : CrawlOf!GiveUp(U)) \/ CrawlOf!Exhaust \/ UNCHANGED CrawlOf!vars
    <3>1. visited' = visited /\ Pending' \subseteq Pending /\ found' = found
      BY <2>4 DEF CrawlOf!GiveUp, CrawlOf!Exhaust, CrawlOf!vars
    <3> QED
      BY <1>1, <1>2, <3>1 DEF Reached
  <2> QED
    BY <2>1, <2>2, <2>3, <2>4 DEF CrawlOf!Next
<1>3. CrawlOf!Closed(Url)
  BY BfsAssumption, ChildrenAreUrls, SameRange DEF CrawlOf!Closed
<1>4. found' \in Seq(Url)
  BY <1>2, <1>3
<1> QED
  BY <1>2, <1>4, SameRange DEF Reached, CrawlOf!OnlyReachable

LEMMA AlwaysReached == Spec => []Reached
<1>1. CrawlOf!Init => Reached
  <2> SUFFICES ASSUME CrawlOf!Init PROVE Reached
    OBVIOUS
  <2>1. visited \subseteq {Root} /\ Pending = {Root} /\ found = <<>> /\ Range(found) = {}
    BY RangeOfEmpty DEF CrawlOf!Init
  <2> QED
    BY <2>1, SameRange DEF Reached, CrawlOf!OnlyReachable, CrawlOf!Closed
<1>2. Reached /\ [CrawlOf!Next]_(CrawlOf!vars) => Reached'
  BY NextReached
<1> QED
  BY <1>1, <1>2, Implements, PTL DEF ImplementsCrawl, CrawlOf!Spec

THEOREM Sound == Spec => []CrawlOf!OnlyReachable
<1>1. Reached => CrawlOf!OnlyReachable
  BY DEF Reached
<1> QED
  BY <1>1, AlwaysReached, PTL
-----------------------------------------------------------------------------
(***************************************************************************)
(* With web_crawler for `work` all this is about the web itself.           *)
(***************************************************************************)
LEMMA FindsLinks ==
  ASSUME NEW resp \in Response
  PROVE  /\ find_http(resp) \in Seq(HttpUrl)
         /\ Range(find_http(resp)) = IF resp.parses THEN Targets(resp) ELSE {}
<1> DEFINE n == Len(resp.hrefs)
           L == resolved(resp)
           r == CHOOSE h : Gathers(h, L, n, NULL)
<1>1. /\ resp.hrefs \in Seq(Href) /\ resp.eurl \in Url /\ n \in Nat
      /\ resp.parses \in BOOLEAN
      /\ \A i \in 1 .. n : resp.hrefs[i] \in Href
  BY DEF Response
<1>2. HttpUrl \subseteq Url /\ NULL \notin HttpUrl
  BY SiteAssumption, NullAssumption
<1>3. \A i \in 1 .. n : L[i] = IF buildURI[resp.hrefs[i], resp.eurl] \in HttpUrl
                               THEN buildURI[resp.hrefs[i], resp.eurl] ELSE NULL
  BY DEF resolved
<1>4. L \in [1 .. n -> HttpUrl \cup {NULL}]
  BY <1>3 DEF resolved
<1>5. find_http(resp) = IF ~ resp.parses THEN <<>> ELSE r[n]
  BY DEF find_http, Gathers
<1>6. Gathers(r, L, n, NULL)
  BY <1>1, GatherExists
<1> HIDE DEF L, r
<1>7. LET S == {L[j] : j \in 1 .. n} \ {NULL}
      IN  r[n] \in Seq(S) /\ Range(r[n]) = S
  <2> HIDE DEF n
  <2> QED
    BY <1>1, <1>6, GatheredRange
<1>8. {L[j] : j \in 1 .. n} \ {NULL} = Targets(resp)
  BY <1>2, <1>3 DEF Targets
<1>9. Targets(resp) \subseteq HttpUrl
  BY DEF Targets
<1>10. r[n] \in Seq(Targets(resp)) /\ Range(r[n]) = Targets(resp)
  <2> HIDE DEF n
  <2> QED
    BY <1>7, <1>8
<1>11. Seq(Targets(resp)) \subseteq Seq(HttpUrl) /\ <<>> \in Seq(HttpUrl)
  BY <1>9
<1> HIDE DEF n
<1> QED
  BY <1>1, <1>5, <1>10, <1>11, RangeOfEmpty

(***************************************************************************)
(* What web_crawler makes of one response.                                 *)
(***************************************************************************)
LEMMA CrawlsResponse ==
  ASSUME NEW resp \in Response, resp # NULL
  PROVE  /\ children(resp) \in Seq(Url)
         /\ Range(children(resp)) = IF IsHtml(resp) THEN Targets(resp) ELSE {}
         /\ effective_url(resp) = IF IsPng(resp) THEN resp.eurl ELSE NULL
         /\ resp.eurl \in Url /\ resp.eurl # NULL
         /\ IsHtml(resp) => ~ IsPng(resp)
<1>1. resp.eurl \in Url /\ resp.eurl # NULL /\ HttpUrl \subseteq Url /\ resp.parses \in BOOLEAN
      /\ resp.signature \in BOOLEAN
  BY SiteAssumption, NullAssumption DEF Response
<1>2. find_http(resp) \in Seq(HttpUrl)
      /\ Range(find_http(resp)) = IF resp.parses THEN Targets(resp) ELSE {}
  BY FindsLinks
<1>3. Seq(HttpUrl) \subseteq Seq(Url)
  BY <1>1
<1>4. children(resp) \in Seq(Url)
      /\ Range(children(resp)) = IF IsHtml(resp) THEN Targets(resp) ELSE {}
  <2>1. CASE Usable(resp) /\ resp.ct = "html"
    BY <1>2, <1>3, <2>1 DEF children, Usable, IsHtml
  <2>2. CASE ~ (Usable(resp) /\ resp.ct = "html")
    <3>1. children(resp) = <<>> /\ ~ IsHtml(resp)
      BY <2>2 DEF children, Usable, IsHtml
    <3> QED
      BY <3>1, RangeOfEmpty
  <2> QED
    BY <2>1, <2>2
<1>5. effective_url(resp) = IF IsPng(resp) THEN resp.eurl ELSE NULL
  BY <1>1 DEF effective_url, Usable, is_png, IsPng
<1> QED
  BY <1>1, <1>4, <1>5 DEF IsHtml, IsPng

(***************************************************************************)
(* What ConcurrentBfs assumes of `work` is true of web_crawler: whatever a *)
(* transfer ends with, it returns NULL, or links and an effective URL.     *)
(***************************************************************************)
LEMMA CrawlerReturns ==
  ASSUME NEW u \in Url, NEW r \in web_crawler(u), r # NULL
  PROVE  \E resp \in site[u] :
           /\ resp # NULL /\ resp \in Response
           /\ r = [children |-> children(resp), effective_url |-> effective_url(resp)]
  BY SiteAssumption DEF web_crawler

THEOREM CrawlerFits ==
  \A u \in Url : web_crawler(u) # {} /\ \A r \in web_crawler(u) : r = NULL \/ r \in search_return_t
<1> SUFFICES ASSUME NEW u \in Url
             PROVE  /\ web_crawler(u) # {}
                    /\ \A r \in web_crawler(u) : r = NULL \/ r \in search_return_t
  OBVIOUS
<1>1. web_crawler(u) # {}
  <2>1. PICK resp : resp \in site[u]
    BY SiteAssumption
  <2> QED
    BY <2>1 DEF web_crawler
<1>2. ASSUME NEW r \in web_crawler(u), r # NULL
      PROVE  r \in search_return_t
  <2>1. PICK resp \in site[u] :
           /\ resp # NULL /\ resp \in Response
           /\ r = [children |-> children(resp), effective_url |-> effective_url(resp)]
    BY <1>2, CrawlerReturns
  <2>2. children(resp) \in Seq(Url) /\ effective_url(resp) \in Url \cup {NULL}
    BY <2>1, CrawlsResponse
  <2> QED
    BY <2>1, <2>2 DEF search_return_t
<1> QED
  BY <1>1, <1>2

OnSite == work = [u \in Url |-> web_crawler(u)]

LEMMA ReachableClosed ==
  /\ ClosedFrom(Root, Reachable(Root))
  /\ \A S \in SUBSET Url : ClosedFrom(Root, S) => Reachable(Root) \subseteq S
  /\ Reachable(Root) \subseteq HttpUrl \cup {Root}
<1>1. \A u \in Url : Links(u) \subseteq HttpUrl
  BY DEF Links, Targets
<1>2. Root \in Url /\ HttpUrl \subseteq Url
  BY BfsAssumption, SiteAssumption
<1>3. Root \in Reachable(Root)
  BY <1>2 DEF Reachable, ClosedFrom
<1>4. ASSUME NEW u \in Reachable(Root), NEW c \in Links(u)
      PROVE  c \in Reachable(Root)
  <2>1. u \in Url /\ c \in Url /\ \A S \in SUBSET Url : ClosedFrom(Root, S) => u \in S
    BY <1>1, <1>2 DEF Reachable
  <2>2. \A S \in SUBSET Url : ClosedFrom(Root, S) => c \in S
    BY <2>1 DEF ClosedFrom
  <2> QED
    BY <2>1, <2>2 DEF Reachable
<1>5. ClosedFrom(Root, Reachable(Root))
  BY <1>3, <1>4 DEF ClosedFrom
<1>6. \A S \in SUBSET Url : ClosedFrom(Root, S) => Reachable(Root) \subseteq S
  BY DEF Reachable
<1>7. ClosedFrom(Root, HttpUrl \cup {Root})
  BY <1>1, <1>2 DEF ClosedFrom
<1> QED
  BY <1>2, <1>5, <1>6, <1>7

LEMMA SiteResult ==
  ASSUME OnSite, NEW u \in Url, NEW r \in work[u], r # NULL
  PROVE  /\ Range(r.children) \subseteq Links(u)
         /\ r.effective_url # NULL => r.effective_url \in Pngs(u)
<1>1. PICK resp \in site[u] :
         /\ resp # NULL /\ resp \in Response
         /\ r = [children |-> children(resp), effective_url |-> effective_url(resp)]
  BY CrawlerReturns DEF OnSite
<1>2. Range(r.children) = IF IsHtml(resp) THEN Targets(resp) ELSE {}
  BY <1>1, CrawlsResponse
<1>3. r.effective_url # NULL => IsPng(resp) /\ r.effective_url = resp.eurl
  BY <1>1, CrawlsResponse
<1> QED
  BY <1>1, <1>2, <1>3 DEF Links, Pngs

LEMMA SteadyResult ==
  ASSUME OnSite, Steady, NEW u \in Url
  PROVE  \E r \in search_return_t :
           /\ work[u] = {r} /\ r # NULL
           /\ Links(u) # {} => r.effective_url = NULL /\ Range(r.children) = Links(u)
           /\ \A e \in Pngs(u) : r.effective_url = e
<1>1. PICK resp \in Response : site[u] = {resp} /\ resp # NULL
  BY SiteAssumption DEF Steady
<1> DEFINE r == [children |-> children(resp), effective_url |-> effective_url(resp)]
<1>2. work[u] = {r}
  BY <1>1 DEF OnSite, web_crawler
<1>3. Links(u) = IF IsHtml(resp) THEN Targets(resp) ELSE {}
  BY <1>1 DEF Links
<1>4. Pngs(u) = IF IsPng(resp) THEN {resp.eurl} ELSE {}
  BY <1>1 DEF Pngs
<1>5. r \in search_return_t /\ r # NULL
  <2>1. r \in search_return_t
    BY <1>1, CrawlsResponse DEF search_return_t
  <2> QED
    BY <2>1, NullAssumption
<1>6. /\ Links(u) # {} => r.effective_url = NULL /\ Range(r.children) = Links(u)
      /\ \A e \in Pngs(u) : r.effective_url = e
  <2>1. r.effective_url = effective_url(resp) /\ r.children = children(resp)
    OBVIOUS
  <2> HIDE DEF r
  <2> QED
    BY <1>1, <1>3, <1>4, <2>1, CrawlsResponse
<1> HIDE DEF r
<1> QED
  BY <1>2, <1>5, <1>6

(***************************************************************************)
(* The threads visit only http URLs that links lead to from the root, and  *)
(* report only the effective URL of a response that is a PNG by status,    *)
(* Content-Type and signature, and that such a URL gave.                   *)
(***************************************************************************)
OnlyWhatIsThere ==
  /\ visited \subseteq Reachable(Root) /\ visited \subseteq HttpUrl \cup {Root}
  /\ \A e \in Range(found) : \E u \in Reachable(Root) : e \in Pngs(u)

LEMMA ReachedIsThere ==
  ASSUME OnSite, Reached
  PROVE  OnlyWhatIsThere
<1> DEFINE S == Reachable(Root)
<1>1. S \subseteq Url
  BY DEF Reachable
<1>2. CrawlOf!Closed(S)
  <2>1. Root \in S /\ \A u \in S : Links(u) \subseteq S
    BY ReachableClosed DEF ClosedFrom
  <2> HIDE DEF S
  <2>2. ASSUME NEW u \in S, NEW r \in CrawlOf!Pages(u)
        PROVE  Range(r.children) \subseteq S
    BY <1>1, <2>1, SiteResult DEF CrawlOf!Pages
  <2> QED
    BY <2>1, <2>2, SameRange DEF CrawlOf!Closed
<1> HIDE DEF S
<1>3. visited \subseteq S
      /\ \A e \in Range(found) : \E u \in S : \E r \in work[u] : r # NULL /\ r.effective_url = e
  BY <1>1, <1>2, SameRange DEF Reached, CrawlOf!OnlyReachable
<1>4. \A e \in Range(found) : e # NULL
  BY NullAssumption DEF Reached, Range
<1>5. ASSUME NEW e \in Range(found) PROVE \E u \in S : e \in Pngs(u)
  BY <1>1, <1>3, <1>4, SiteResult
<1> QED
  BY <1>3, <1>5, ReachableClosed DEF S, OnlyWhatIsThere

THEOREM FindsOnlyWhatIsThere == OnSite => (Spec => []OnlyWhatIsThere)
<1> SUFFICES ASSUME OnSite PROVE Spec => []OnlyWhatIsThere
  OBVIOUS
<1>1. Reached => OnlyWhatIsThere
  BY ReachedIsThere
<1> QED
  BY <1>1, AlwaysReached, PTL

(***************************************************************************)
(* Where every transfer of a URL brings the same response, a search that   *)
(* is exhausted has visited exactly the URLs links lead to from the root,  *)
(* and found exactly the PNGs they gave.                                   *)
(***************************************************************************)
AllThereIs ==
  /\ visited = Reachable(Root)
  /\ Range(found) = UNION { Pngs(u) : u \in Reachable(Root) }

LEMMA ExhaustedIsAll ==
  ASSUME OnSite, Steady, OnlyWhatIsThere, NothingMissed, Root \in visited, Exhausted
  PROVE  AllThereIs
<1>1. Reachable(Root) \subseteq Url
  BY DEF Reachable
<1>2. visited \subseteq Reachable(Root) /\ visited \subseteq Url
  BY <1>1 DEF OnlyWhatIsThere
<1>3. ASSUME NEW u \in visited PROVE Links(u) \subseteq visited
  <2> SUFFICES ASSUME NEW c \in Links(u) PROVE c \in visited
    OBVIOUS
  <2>1. PICK r \in search_return_t :
          work[u] = {r} /\ r # NULL /\ r.effective_url = NULL /\ Range(r.children) = Links(u)
    BY <1>2, SteadyResult
  <2>2. c \in Url
    BY SiteAssumption DEF Links, Targets
  <2>3. c \in Certain(u)
    BY <2>1, <2>2 DEF Certain, IsPage
  <2> QED
    BY <2>3 DEF NothingMissed
<1>4. ClosedFrom(Root, visited)
  BY <1>3 DEF ClosedFrom
<1>5. visited = Reachable(Root)
  BY <1>2, <1>4, ReachableClosed
<1>6. ASSUME NEW u \in visited, NEW e \in Pngs(u) PROVE e \in Range(found)
  <2>1. PICK r \in search_return_t : work[u] = {r} /\ r # NULL /\ r.effective_url = e
    BY <1>2, SteadyResult
  <2>2. e \in Url
    BY <1>2, SiteAssumption DEF Pngs, IsPng, Response
  <2>3. CertainPng(u, e)
    BY <2>1 DEF CertainPng
  <2> QED
    BY <2>2, <2>3 DEF NothingMissed
<1> QED
  BY <1>5, <1>6 DEF AllThereIs, OnlyWhatIsThere

THEOREM FindsAllThereIs == OnSite /\ Steady => (Spec => [](Exhausted => AllThereIs))
<1> SUFFICES ASSUME OnSite, Steady PROVE Spec => [](Exhausted => AllThereIs)
  OBVIOUS
<1> DEFINE RootSeen == Root \in visited
<1>1. CrawlOf!Init => RootSeen
  BY DEF CrawlOf!Init
<1>2. RootSeen /\ [CrawlOf!Next]_(CrawlOf!vars) => RootSeen'
  BY DEF CrawlOf!Next, CrawlOf!vars, CrawlOf!Finish, CrawlOf!Report, CrawlOf!Discover,
         CrawlOf!GiveUp, CrawlOf!Exhaust
<1>3. OnlyWhatIsThere /\ NothingMissed /\ RootSeen => (Exhausted => AllThereIs)
  BY ExhaustedIsAll
<1> HIDE DEF RootSeen
<1>4. Spec => []OnlyWhatIsThere
  BY FindsOnlyWhatIsThere
<1> QED
  BY <1>1, <1>2, <1>3, <1>4, Complete, Implements, PTL DEF ImplementsCrawl, CrawlOf!Spec
=============================================================================
