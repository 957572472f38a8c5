---------------------------- MODULE MultiCrawler ----------------------------
(***************************************************************************)
(* lab5/web_crawler.c: what processing the data of a finished transfer may *)
(* find.  bfs.c does not look at the transfer's CURLcode (the check at     *)
(* bfs.c:44-48 is commented out): one that failed before any header came   *)
(* (NULL) has no Content-Type, and one that broke off is processed as far  *)
(* as it came, as any response is.                                         *)
(***************************************************************************)
EXTENDS WebCrawler

process_data(url) ==
  { IF resp = NULL THEN [children |-> <<>>, effective_url |-> NULL]
    ELSE [children |-> children(resp), effective_url |-> effective_url(resp)]
    : resp \in site[url] }
=============================================================================
