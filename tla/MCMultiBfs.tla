----------------------------- MODULE MCMultiBfs -----------------------------
(***************************************************************************)
(* A small web for TLC: r links to itself and to two pages that link to    *)
(* each other and to three images; b's transfer may break off.             *)
(***************************************************************************)
EXTENDS MultiBfsProps, MultiCrawler

MCUrl == {"r", "a", "b", "p", "q", "z", "mailto"}
MCHttp == MCUrl \ {"mailto"}
MCHref == MCUrl \cup {"#"}

\* "#" is a relative link to the page itself
MCBuildURI == [hb \in MCHref \X MCUrl |-> IF hb[1] = "#" THEN hb[2] ELSE hb[1]]

Html(u, links) == [status |-> 200, ct |-> "html", signature |-> FALSE,
                   parses |-> links # <<>>, hrefs |-> links, eurl |-> u]
Png(u) == [status |-> 200, ct |-> "png", signature |-> TRUE,
           parses |-> FALSE, hrefs |-> <<>>, eurl |-> u]

NotFound(u) == [Html(u, <<"r">>) EXCEPT !.status = 404]

MCSite == [u \in MCUrl |->
  CASE u = "r" -> {Html("r", <<"#", "a", "b", "a", "mailto">>)}
    [] u = "a" -> {Html("a", <<"p", "b">>)}
    [] u = "b" -> {NULL, Html("b", <<"a", "q", "z">>), Html("b", <<"a">>)}
    [] u = "p" -> {Png("p")}
    [] u = "q" -> {Png("p"), NotFound("q")}
    [] u = "z" -> {Png("z"), NotFound("z")}
    [] u = "mailto" -> {NULL}]

MCWork == [u \in MCUrl |-> process_data(u)]
=============================================================================
