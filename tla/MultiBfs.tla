------------------------------ MODULE MultiBfs ------------------------------
(***************************************************************************)
(* lab5/bfs.c: the same search with one thread and libcurl's multi         *)
(* interface.  The thread opens up to max_conntions transfers, waits until *)
(* none of them is running, and then reads the messages of the ones that   *)
(* ended, in the order in which they ended.  findpng3.c writes the results *)
(* to a file.                                                              *)
(*                                                                         *)
(* The thread is alone, so the steps are as large as the code allows: one  *)
(* for opening a batch, one for each transfer that ends, one for each      *)
(* message and for each link of a page.                                    *)
(***************************************************************************)
EXTENDS SearchReturn, FiniteSetsExt, SequencesExt

CONSTANTS Root,            \* the URL the search starts from
          work,            \* for each URL, the set of what process_data may find
          max_conntions,
          MaxResults,      \* bfs->max_results
          MaxWaitFailures  \* bound: failures of curl_multi_wait in a behaviour

ASSUME MultiBfsAssumption ==
  /\ Root \in Url
  /\ max_conntions \in Nat
  /\ MaxResults \in Nat
  /\ MaxWaitFailures \in Nat
  /\ DOMAIN work = Url
  /\ \A u \in Url : work[u] # {} /\ work[u] \subseteq search_return_t

VARIABLES
  frontier,        \* bfs->frontier
  search_results,  \* bfs->search_results
  visited,         \* bfs->visited
  running,         \* the URLs of the transfers that have not ended
  msgs,            \* libcurl's message queue: the URL and what it returned
  new_urls,        \* the links of the page being processed
  num_png_found,
  calls,           \* how often each URL was logged
  main,            \* where the thread is
  returned,        \* the queue bfs_start returns
  png_urls,        \* findpng3.c: the lines written to png_urls.txt
  wait_failures    \* how often curl_multi_wait has failed

vars == <<frontier, search_results, visited, running, msgs, new_urls,
          num_png_found, calls, main, returned, png_urls, wait_failures>>

Init ==
  /\ frontier = <<Root>>
  /\ search_results = <<>>
  /\ visited = {}
  /\ running = <<>>
  /\ msgs = <<>>
  /\ new_urls = <<>>
  /\ num_png_found = 0
  /\ calls = [u \in Url |-> 0]
  /\ main = "open"
  /\ returned = <<>>
  /\ png_urls = <<>>
  /\ wait_failures = 0
-----------------------------------------------------------------------------
(***************************************************************************)
(* bfs_start, one turn of its loop up to _search_one_cycle.                *)
(***************************************************************************)
\* mutant: one URL is always left in the frontier
num_opened_connections_OffByOne == Min({max_conntions, Len(frontier) - 1})

num_opened_connections == Min({max_conntions, Len(frontier)})

OpenConnections ==
  /\ main = "open"
  /\ frontier # <<>>
  /\ LET n == num_opened_connections
     IN  /\ running' = SubSeq(frontier, 1, n)
         /\ frontier' = SubSeq(frontier, n + 1, Len(frontier))
         /\ calls' = [u \in Url |-> calls[u] + Cardinality({i \in 1 .. n : frontier[i] = u})]
  /\ main' = "transfer"
  /\ UNCHANGED <<search_results, visited, msgs, new_urls, num_png_found,
                 returned, png_urls, wait_failures>>

(***************************************************************************)
(* _search_one_cycle.  libcurl may end the transfers in any order.         *)
(***************************************************************************)
TransferEnds(i) ==
  /\ main = "transfer"
  /\ i \in DOMAIN running
  /\ \E r \in work[running[i]] : msgs' = Append(msgs, [url |-> running[i], ret |-> r])
  /\ running' = RemoveAt(running, i)
  /\ UNCHANGED <<frontier, search_results, visited, new_urls, num_png_found,
                 calls, main, returned, png_urls, wait_failures>>

\* still_running is 0
AllEnded ==
  /\ main = "transfer"
  /\ running = <<>>
  /\ main' = "read"
  /\ UNCHANGED <<frontier, search_results, visited, running, msgs, new_urls,
                 num_png_found, calls, returned, png_urls, wait_failures>>

\* the loop is left; curl_multi_cleanup will drop the transfers still running
WaitFails ==
  /\ main = "transfer"
  /\ wait_failures < MaxWaitFailures
  /\ wait_failures' = wait_failures + 1
  /\ main' = "read"
  /\ UNCHANGED <<frontier, search_results, visited, running, msgs, new_urls,
                 num_png_found, calls, returned, png_urls>>

ReadMessage == main = "read" /\ msgs # <<>> /\ msgs' = Tail(msgs)

Result == Head(msgs).ret

\* enough PNGs were found: the message is dropped
ReadTooMany ==
  /\ ReadMessage
  /\ num_png_found >= MaxResults
  /\ UNCHANGED <<frontier, search_results, visited, running, new_urls,
                 num_png_found, calls, main, returned, png_urls, wait_failures>>

\* mutant: the limit is not looked at before a PNG is recorded
ReadPng_Unlimited ==
  /\ ReadMessage
  /\ Result.effective_url # NULL
  /\ num_png_found' = num_png_found + 1
  /\ search_results' = Append(search_results, Result.effective_url)
  /\ UNCHANGED <<frontier, visited, running, new_urls, calls, main, returned, png_urls,
                 wait_failures>>

\* mutant: the limit is looked at with > where >= is meant
ReadPng_OffByOne ==
  /\ ReadMessage
  /\ num_png_found <= MaxResults
  /\ Result.effective_url # NULL
  /\ num_png_found' = num_png_found + 1
  /\ search_results' = Append(search_results, Result.effective_url)
  /\ UNCHANGED <<frontier, visited, running, new_urls, calls, main, returned, png_urls,
                 wait_failures>>

ReadPng ==
  /\ ReadMessage
  /\ num_png_found < MaxResults
  /\ Result.effective_url # NULL
  /\ num_png_found' = num_png_found + 1
  /\ search_results' = Append(search_results, Result.effective_url)
  /\ UNCHANGED <<frontier, visited, running, new_urls, calls, main, returned, png_urls,
                 wait_failures>>

ReadPage ==
  /\ main = "read" /\ msgs # <<>>
  /\ num_png_found < MaxResults
  /\ Result.effective_url = NULL
  /\ new_urls' = Result.children
  /\ main' = "links"
  /\ UNCHANGED <<frontier, search_results, visited, running, msgs, num_png_found,
                 calls, returned, png_urls, wait_failures>>

\* mutant: a link is looked up in visited and never put there
EnqueueLink_Unmarked ==
  /\ main = "links"
  /\ new_urls # <<>>
  /\ LET new_url == Head(new_urls)
     IN  frontier' = IF new_url \in visited THEN frontier ELSE Append(frontier, new_url)
  /\ new_urls' = Tail(new_urls)
  /\ UNCHANGED <<search_results, visited, running, msgs, num_png_found, calls, main,
                 returned, png_urls, wait_failures>>

EnqueueLink ==
  /\ main = "links"
  /\ new_urls # <<>>
  /\ LET new_url == Head(new_urls)
     IN  IF new_url \in visited
           THEN UNCHANGED <<visited, frontier>>
           ELSE /\ visited' = visited \cup {new_url}
                /\ frontier' = Append(frontier, new_url)
  /\ new_urls' = Tail(new_urls)
  /\ UNCHANGED <<search_results, running, msgs, num_png_found, calls, main,
                 returned, png_urls, wait_failures>>

\* mutant: `if' where the loop over the links says `while'
LinksDone_AfterFirst ==
  /\ main = "links"
  /\ new_urls' = <<>>
  /\ msgs' = Tail(msgs)
  /\ main' = "read"
  /\ UNCHANGED <<frontier, search_results, visited, running, num_png_found, calls,
                 returned, png_urls, wait_failures>>

LinksDone ==
  /\ main = "links"
  /\ new_urls = <<>>
  /\ msgs' = Tail(msgs)
  /\ main' = "read"
  /\ UNCHANGED <<frontier, search_results, visited, running, new_urls, num_png_found,
                 calls, returned, png_urls, wait_failures>>

\* no message left, and curl_multi_cleanup back in bfs_start
CycleDone ==
  /\ main = "read"
  /\ msgs = <<>>
  /\ running' = <<>>
  /\ main' = "open"
  /\ UNCHANGED <<frontier, search_results, visited, msgs, new_urls, num_png_found,
                 calls, returned, png_urls, wait_failures>>

\* the frontier is empty: bfs_start moves the results to the queue it returns
ReturnResults ==
  /\ main = "open"
  /\ frontier = <<>>
  /\ returned' = search_results
  /\ search_results' = <<>>
  /\ main' = "done"
  /\ UNCHANGED <<frontier, visited, running, msgs, new_urls, num_png_found,
                 calls, png_urls, wait_failures>>

(***************************************************************************)
(* findpng3.c writes what bfs_start returns, line by line, and cleans up.  *)
(***************************************************************************)
WriteUrl ==
  /\ main = "done"
  /\ returned # <<>>
  /\ png_urls' = Append(png_urls, Head(returned))
  /\ returned' = Tail(returned)
  /\ UNCHANGED <<frontier, search_results, visited, running, msgs, new_urls,
                 num_png_found, calls, main, wait_failures>>

Exit ==
  /\ main = "done"
  /\ returned = <<>>
  /\ main' = "exited"
  /\ UNCHANGED <<frontier, search_results, visited, running, msgs, new_urls,
                 num_png_found, calls, returned, png_urls, wait_failures>>

Finished == main = "exited" /\ UNCHANGED vars
-----------------------------------------------------------------------------
Step ==
  \/ OpenConnections \/ AllEnded \/ CycleDone \/ ReturnResults
  \/ \E i \in 1 .. Len(running) : TransferEnds(i)
  \/ ReadTooMany \/ ReadPng \/ ReadPage \/ EnqueueLink \/ LinksDone
  \/ WriteUrl \/ Exit

Next == Step \/ WaitFails \/ Finished

(***************************************************************************)
(* The thread runs and every transfer ends: there is no CURLOPT_TIMEOUT    *)
(* (web_crawler.c:147 is commented out), so a server that never answers    *)
(* stops the search, and this is assumed away.                             *)
(***************************************************************************)
Spec == Init /\ [][Next]_vars /\ WF_vars(Step)
=============================================================================
