------------------------------ MODULE WebSite ------------------------------
(***************************************************************************)
(* What there is to be found on the web of WebCrawler, in the terms of the *)
(* responses alone.                                                        *)
(***************************************************************************)
EXTENDS WebCrawler

IsHtml(resp) == resp # NULL /\ resp.status < 400 /\ resp.ct = "html" /\ resp.parses

IsPng(resp) == resp # NULL /\ resp.status < 400 /\ resp.ct = "png" /\ resp.signature

\* the http URLs that the hrefs of a response resolve to
Targets(resp) ==
  HttpUrl \cap { buildURI[resp.hrefs[i], resp.eurl] : i \in 1 .. Len(resp.hrefs) }

Links(u) == UNION { Targets(resp) : resp \in { r \in site[u] : IsHtml(r) } }

Pngs(u) == { resp.eurl : resp \in { r \in site[u] : IsPng(r) } }

ClosedFrom(root, S) == root \in S /\ \A u \in S : Links(u) \subseteq S

Reachable(root) == { u \in Url : \A S \in SUBSET Url : ClosedFrom(root, S) => u \in S }

\* Every transfer of a URL succeeds and brings the same response.
Steady == \A u \in Url : NULL \notin site[u] /\ \E resp \in site[u] : site[u] = {resp}
=============================================================================
