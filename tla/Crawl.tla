------------------------------- MODULE Crawl -------------------------------
(***************************************************************************)
(* What a crawl promises, whoever does it: the URLs seen, those still to   *)
(* be worked on, and the PNGs found so far, in order.  A page may announce *)
(* its children one at a time, and is finished only when all of them have  *)
(* been seen.  The crawl ends either exhausted (nothing is left to work    *)
(* on) or full (the number of PNGs asked for has been found); until then   *)
(* every URL seen is worked on, and afterwards nothing more is found.      *)
(***************************************************************************)
EXTENDS Naturals, Sequences, Functions

CONSTANTS Url, NULL, Root,
          work,        \* for each URL, the set of results working on it may give
          MaxResults,
          Marked,      \* what counts as seen at the start
          MayAbandon   \* whether URLs may be given up before the crawl is full

VARIABLES seen,     \* URLs met so far
          pending,  \* those of them that are not finished
          found,    \* effective URLs of the PNGs found
          ended     \* "no", "exhausted" or "full"

vars == <<seen, pending, found, ended>>

TypeOK ==
  /\ seen \subseteq Url
  /\ pending \subseteq seen \cup {Root}
  /\ found \in Seq(Url)
  /\ ended \in {"no", "exhausted", "full"}

\* To ask for 0 PNGs is to ask for none of them or, for lab4, for all of them.
Init ==
  /\ seen = Marked
  /\ pending = {Root}
  /\ found = <<>>
  /\ ended \in {"no"} \cup IF MaxResults = 0 THEN {"full"} ELSE {}

\* the results of u that are pages
Pages(u) == { r \in work[u] : r # NULL /\ r.effective_url = NULL }

Discover(u, c) ==
  /\ ended = "no"
  /\ u \in pending
  /\ c \notin seen
  /\ \E r \in Pages(u) : c \in Range(r.children)
  /\ seen' = seen \cup {c}
  /\ pending' = pending \cup {c}
  /\ UNCHANGED <<found, ended>>

\* a page with nothing new left on it, or a failed transfer
Finish(u) ==
  /\ ended = "no"
  /\ u \in pending
  /\ \/ NULL \in work[u]
     \/ \E r \in Pages(u) : Range(r.children) \subseteq seen
  /\ pending' = pending \ {u}
  /\ UNCHANGED <<seen, found, ended>>

Report(u) ==
  /\ ended = "no"
  /\ u \in pending
  /\ \E r \in work[u] :
       /\ r # NULL
       /\ r.effective_url # NULL
       /\ found' = Append(found, r.effective_url)
  /\ ended' = IF Len(found') = MaxResults THEN "full" ELSE "no"
  /\ pending' = pending \ {u}
  /\ UNCHANGED seen

Exhaust ==
  /\ ended = "no"
  /\ pending = {}
  /\ ended' = "exhausted"
  /\ UNCHANGED <<seen, pending, found>>

\* what is still to be worked on when the crawl is full may be given up, and
\* before that too if MayAbandon
GiveUp(U) ==
  /\ ended = "full" \/ (MayAbandon /\ ended = "no")
  /\ U \subseteq pending
  /\ pending' = pending \ U
  /\ UNCHANGED <<seen, found, ended>>

Next ==
  \/ \E u \in Url : Finish(u) \/ Report(u)
  \/ \E u, c \in Url : Discover(u, c)
  \/ \E U \in SUBSET Url : GiveUp(U)
  \/ Exhaust

Spec == Init /\ [][Next]_vars
-----------------------------------------------------------------------------
\* a set of URLs that holds the root, and every link of the pages in it
Closed(S) ==
  Root \in S /\ \A u \in S : \A r \in Pages(u) : Range(r.children) \subseteq S

(***************************************************************************)
(* Whoever crawls stays among the URLs that can be reached from the root   *)
(* (those in every closed set), and what is found was given by one of them.*)
(***************************************************************************)
OnlyReachable ==
  \A S \in SUBSET Url : Closed(S) =>
    /\ seen \cup pending \subseteq S
    /\ \A e \in Range(found) : \E u \in S : \E r \in work[u] : r # NULL /\ r.effective_url = e
=============================================================================
