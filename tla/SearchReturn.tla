---------------------------- MODULE SearchReturn ----------------------------
(***************************************************************************)
(* bfs.h: what bfs.c and the function it is given agree on.                *)
(***************************************************************************)
EXTENDS Naturals, Sequences

CONSTANTS Url,   \* what is searched: absolute URLs, compared as strings
          NULL   \* C's NULL

\* children[0 .. n_children-1], and the effective URL of a PNG or NULL
search_return_t == [children : Seq(Url), effective_url : Url \cup {NULL}]

ASSUME NullAssumption == NULL \notin Url /\ NULL \notin search_return_t
=============================================================================
