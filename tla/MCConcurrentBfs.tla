-------------------------- MODULE MCConcurrentBfs --------------------------
(***************************************************************************)
(* A small web for TLC.  r is a page with a relative link to itself, the   *)
(* same link twice and a link that is not http; a and b link to each other *)
(* and to images; b's transfer may fail; p is a PNG, q redirects to it,    *)
(* and f only pretends to be one.                                          *)
(***************************************************************************)
EXTENDS ConcurrentBfsProps, WebCrawler

MCUrl == {"r", "a", "b", "p", "q", "f", "mailto"}
MCHttp == MCUrl \ {"mailto"}
MCHref == MCUrl \cup {"#", "bad"}

\* "#" is a relative link to the page itself; "bad" does not resolve
MCBuildURI == [hb \in MCHref \X MCUrl |->
                 IF hb[1] = "#" THEN hb[2] ELSE IF hb[1] = "bad" THEN NULL ELSE hb[1]]

Html(u, links) == [status |-> 200, ct |-> "html", signature |-> FALSE,
                   parses |-> links # <<>>, hrefs |-> links, eurl |-> u]
Png(u, sig) == [status |-> 200, ct |-> "png", signature |-> sig,
                parses |-> FALSE, hrefs |-> <<>>, eurl |-> u]

NotFound(u) == [Html(u, <<"r">>) EXCEPT !.status = 404]

MCSite == [u \in MCUrl |->
  CASE u = "r" -> {Html("r", <<"#", "a", "b", "a", "mailto", "bad">>)}
    [] u = "a" -> {Html("a", <<"p", "b", "f">>)}
    [] u = "b" -> {NULL, Html("b", <<"a", "q">>)}
    [] u = "p" -> {Png("p", TRUE)}
    [] u = "q" -> {Png("p", TRUE), NotFound("q")}
    [] u = "f" -> {Png("f", FALSE)}
    [] u = "mailto" -> {NULL}]

MCWork == [u \in MCUrl |-> web_crawler(u)]
=============================================================================
