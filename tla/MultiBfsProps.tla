--------------------------- MODULE MultiBfsProps ---------------------------
(***************************************************************************)
(* What must be true of MultiBfs.                                          *)
(***************************************************************************)
EXTENDS MultiBfs, Lexicographic

\* every effective URL recorded since the search began
found == png_urls \o returned \o search_results

Full == num_png_found >= MaxResults

(***************************************************************************)
(* No URL is fetched twice, whichever pages link to it and in whichever    *)
(* order their transfers end, except the root: bfs_start enqueues it       *)
(* without putting it in visited (bfs.c:94), so one link to it brings it   *)
(* back once.                                                              *)
(***************************************************************************)
FetchedOnce == \A u \in Url : calls[u] <= IF u = Root THEN 2 ELSE 1

(***************************************************************************)
(* num_png_found counts what search_results holds and never passes         *)
(* max_results, also when it reaches it in the middle of a batch           *)
(* (bfs.c:53-70); every one of them is written to png_urls.txt.            *)
(***************************************************************************)
ResultsCounted ==
  /\ Len(found) = num_png_found /\ num_png_found <= MaxResults
  /\ main = "exited" => png_urls = found

(***************************************************************************)
(* A search that neither reached max_results nor saw curl_multi_wait fail  *)
(* missed nothing: what was visited is closed under the links of pages     *)
(* whose transfer cannot fail, and every PNG among it was reported.        *)
(***************************************************************************)
IsPage(r) == r.effective_url = NULL

Certain(u) == { c \in Url : \A r \in work[u] : IsPage(r) /\ c \in Range(r.children) }

CertainPng(u, e) == \A r \in work[u] : r.effective_url = e

NothingMissed ==
  main = "exited" /\ ~ Full /\ wait_failures = 0 =>
    \A u \in visited \cup {Root} :
      /\ Certain(u) \subseteq visited
      /\ \A e \in Url : CertainPng(u, e) => e \in Range(png_urls)

(***************************************************************************)
(* The program ends, after a failure of curl_multi_wait too.               *)
(***************************************************************************)
Terminates == <>(main = "exited")

(***************************************************************************)
(* What is left to do, most important first: failures of the wait, URLs to *)
(* visit, URLs queued, transfers, the phases of a cycle of bfs_start and   *)
(* of the end, messages and, of the message being read, the links.         *)
(***************************************************************************)
PhasesLeft ==
  CASE main = "transfer" -> 4 [] main \in {"read", "links"} -> 3 [] main = "open" -> 2
    [] main = "done" -> 1 [] main = "exited" -> 0

Left == << MaxWaitFailures - wait_failures, Cardinality(Url \ visited), Len(frontier),
           Len(running), PhasesLeft, Len(msgs), IF main = "links" THEN 0 ELSE 1,
           Len(new_urls) + Len(returned) >>

(***************************************************************************)
(* Every step brings the end nearer: each cycle takes URLs off the         *)
(* frontier (bfs.c:103), and none comes back that was visited.             *)
(***************************************************************************)
EachStepCounts == [][Less(Left', Left)]_vars
-----------------------------------------------------------------------------
(***************************************************************************)
(* The URLs queued, in flight, or waiting in a message for their turn.     *)
(* The transfers left running by a failed wait are lost at once.           *)
(***************************************************************************)
InFlight == IF main = "transfer" THEN Range(running) ELSE {}

Pending == Range(frontier) \cup InFlight \cup { msgs[i].url : i \in DOMAIN msgs }

(***************************************************************************)
(* The batches implement the same abstract crawl as lab4's threads, with   *)
(* the two differences that Crawl names: the root is not marked at the     *)
(* start, and a failed curl_multi_wait gives up what was in flight.        *)
(***************************************************************************)
CrawlOf == INSTANCE Crawl WITH
  Marked <- {}, MayAbandon <- MaxWaitFailures > 0,
  seen <- visited,
  pending <- Pending,
  ended <- IF Full THEN "full" ELSE IF main \in {"done", "exited"} THEN "exhausted" ELSE "no"

ImplementsCrawl == CrawlOf!Spec
=============================================================================
