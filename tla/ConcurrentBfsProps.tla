------------------------- MODULE ConcurrentBfsProps -------------------------
(***************************************************************************)
(* What is claimed of ConcurrentBfs.                                       *)
(***************************************************************************)
EXTENDS ConcurrentBfs, Lexicographic

(***************************************************************************)
(* Every variable stays in the range its C declaration gives it a meaning  *)
(* in; in particular waiting_threads, a size_t, never wraps below 0 and    *)
(* never passes n_threads.                                                 *)
(***************************************************************************)
SharedTypeOK ==
  /\ frontier \in Seq(Url)
  /\ search_results \in Seq(Url)
  /\ visited \subseteq Url
  /\ work_done \in BOOLEAN
  /\ mutex \in Thread \cup {NULL}

ThreadTypeOK ==
  /\ pc \in [Thread -> PC]
  /\ node \in [Thread -> Url \cup {NULL}]
  /\ ret \in [Thread -> search_return_t \cup {NULL}]
  /\ child \in [Thread -> Nat]
  /\ calls \in [Url -> Nat]

MainTypeOK ==
  /\ main \in {"create", "join", "copy", "done"}
  /\ nth \in 0 .. NThreads
  /\ returned \in Seq(Url)
  /\ spurious \in 0 .. MaxSpurious

TypeOK ==
  /\ SharedTypeOK /\ ThreadTypeOK /\ MainTypeOK
  /\ waiting_threads \in 0 .. NThreads
-----------------------------------------------------------------------------
\* every effective URL recorded since the search began
found == returned \o search_results

Full == MaxResults # 0 /\ Len(found) = MaxResults

\* work_done was set by the last waiting thread, and not by the last result
Exhausted == work_done /\ ~ Full

(***************************************************************************)
(* Termination detection is right: when the thread that finds all the      *)
(* others waiting ends the search, no URL is left in the frontier, no      *)
(* thread still holds one, and every thread has left or been woken to      *)
(* leave.  (bfs.c:68-75; threads on their way out of pthread_cond_wait     *)
(* still count as waiting then.)                                           *)
(***************************************************************************)
QuietWhenExhausted ==
  Exhausted => /\ frontier = <<>>
               /\ \A t \in Thread : pc[t] \in {"woken", "broke"}

(***************************************************************************)
(* No URL is worked on twice, whatever pages link to it and in whatever    *)
(* order the threads meet those links.  (bfs.c:48-50)                      *)
(***************************************************************************)
WorkedOnce == \A u \in Url : calls[u] <= 1

(***************************************************************************)
(* The number of results asked for is never exceeded, although several     *)
(* threads may bring a PNG at the same time.  (bfs.c:36-44)                *)
(***************************************************************************)
ResultsBounded == MaxResults # 0 => Len(found) <= MaxResults

(***************************************************************************)
(* Whenever the mutex is free and there are URLs to work on, no thread is  *)
(* left asleep.  (bfs.c:53, "Broadcast to release all threads that there   *)
(* is work to be done")                                                    *)
(***************************************************************************)
NoSleeperWhileWork ==
  mutex = NULL /\ frontier # <<>> => \A t \in Thread : pc[t] # "waiting"

(***************************************************************************)
(* The children a URL has in every outcome of its transfer, and the PNG it *)
(* is in every outcome.                                                    *)
(***************************************************************************)
IsPage(r) == r # NULL /\ r.effective_url = NULL

Certain(u) == { c \in Url : \A r \in work[u] : IsPage(r) /\ c \in Range(r.children) }

CertainPng(u, e) == \A r \in work[u] : r # NULL /\ r.effective_url = e

(***************************************************************************)
(* A search that ended because there was nothing left missed nothing: the  *)
(* URLs visited are closed under the links of the pages whose transfer     *)
(* cannot fail, and every PNG among them has been reported.                *)
(***************************************************************************)
NothingMissed ==
  Exhausted =>
    \A u \in visited :
      /\ Certain(u) \subseteq visited
      /\ \A e \in Url : CertainPng(u, e) => e \in Range(found)

(***************************************************************************)
(* bfs_start copies the results without the mutex (bfs.c:153-157): no      *)
(* thread can touch them any more.                                         *)
(***************************************************************************)
MainAlone == main \in {"copy", "done"} => \A t \in Thread : pc[t] \in Terminated

(***************************************************************************)
(* Once work_done is set, what a thread brings from a transfer that was    *)
(* under way is dropped: nothing more is found, visited or enqueued.       *)
(* Threads that look for work may still dequeue what is left of the        *)
(* frontier, from its front and one URL at a time.  (bfs.c:30-33, 64-96)   *)
(***************************************************************************)
FrontierShrinks == \/ UNCHANGED frontier
                   \/ frontier # <<>> /\ frontier' = Tail(frontier)

FrozenOnceDone ==
  [][work_done => UNCHANGED <<found, visited, work_done>> /\ FrontierShrinks]_vars
-----------------------------------------------------------------------------
(***************************************************************************)
(* Every URL queued or held by a thread is pending in the abstract crawl.  *)
(***************************************************************************)
Pending == Range(frontier) \cup { node[t] : t \in { s \in Thread : pc[s] \in Holding } }

CrawlOf == INSTANCE Crawl WITH
  Marked <- {Root}, MayAbandon <- FALSE,
  seen    <- visited,
  pending <- Pending,
  ended   <- IF ~ work_done THEN "no" ELSE IF Full THEN "full" ELSE "exhausted"

\* The pool of threads implements the crawl that Crawl specifies.
ImplementsCrawl == CrawlOf!Spec
-----------------------------------------------------------------------------
(***************************************************************************)
(* Who can take a step: a thread that is not asleep, unless it needs the   *)
(* mutex and another has it, and bfs_start, unless it has to wait for the  *)
(* thread that it joins.                                                   *)
(***************************************************************************)
ThreadCanGo(t) ==
  /\ pc[t] \notin {"unborn", "waiting"} \cup Terminated
  /\ pc[t] \in {"lock", "woken", "process"} => Free

MainCanGo ==
  /\ main # "done"
  /\ main = "join" => nth = NThreads \/ pc[nth + 1] \in Terminated

(***************************************************************************)
(* There is one way only for bfs_start not to return: the number of        *)
(* results asked for was reached and the threads that are left went to     *)
(* sleep after the broadcast (bfs.c:77).  In particular none is left when  *)
(* the search ends for want of URLs, or was asked for all results.         *)
(***************************************************************************)
StuckOnlyWhenFull ==
  \/ main = "done" \/ MainCanGo \/ \E t \in Thread : ThreadCanGo(t)
  \/ Full /\ work_done /\ \A t \in Thread : pc[t] \in Terminated \cup {"waiting"}

(***************************************************************************)
(* What is left to do, most important first: spurious returns of the wait, *)
(* URLs to visit, to dequeue and to finish, the decision that the search   *)
(* is over, steps of the threads until they sleep, return, or finish their *)
(* URL, children in the loop, and the phases of bfs_start.                 *)
(***************************************************************************)
At(S) == { t \in Thread : pc[t] \in S }

UrlsLeft ==
  3 * Cardinality(Url \ visited) + 2 * Len(frontier) + Cardinality(At(Holding))

\* where a thread still has steps to take: at least one, at least two
Near == {"call", "work", "process", "woken", "unborn", "check", "lock"}
Far  == {"call", "work", "process", "woken", "unborn"}

ThreadStepsLeft ==
  Cardinality(At({"call"})) + Cardinality(At({"call", "work"}))
    + Cardinality(At(Far)) + Cardinality(At(Near))

ChildrenLeft ==
  IF mutex = NULL THEN 0 ELSE Len(ret[mutex].children) + 1 - child[mutex]

PhasesLeft ==
  CASE main = "create" -> 3 [] main = "join" -> 2 [] main = "copy" -> 1 [] main = "done" -> 0

Left == << MaxSpurious - spurious, UrlsLeft, IF work_done THEN 0 ELSE 1, ThreadStepsLeft,
           ChildrenLeft, PhasesLeft, (NThreads - nth) + Len(search_results) >>

(***************************************************************************)
(* Every step of every thread brings the end nearer: however often threads *)
(* are woken for nothing (bfs.c:86-94), none goes round the loop of        *)
(* _bfs_concurrent_search for ever.                                        *)
(***************************************************************************)
EachStepCounts == [][Less(Left', Left)]_vars
-----------------------------------------------------------------------------
\* bfs_start returns.  (bfs.c:143, "Wait for all the threads to finish")
Terminates == <>(main = "done")

(***************************************************************************)
(* The weaker fact that holds even when the number of results asked for is *)
(* reached: every thread ends, or stays in pthread_cond_wait.              *)
(***************************************************************************)
Settles == <>[](\A t \in Thread : pc[t] \in Terminated \cup {"waiting"})
=============================================================================
