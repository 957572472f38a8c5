----------------------------- MODULE WebCrawler -----------------------------
(***************************************************************************)
(* lab4/web_crawler.c: what one call of web_crawler(url) may return.       *)
(*                                                                         *)
(* The network and libcurl/libxml2 are the constant `site`: for every URL, *)
(* the set of outcomes a transfer may have.  NULL is a transfer for which  *)
(* curl_easy_perform does not return CURLE_OK.  Any other outcome is a     *)
(* response, of which only what the code branches on is kept: the status,  *)
(* the kind of its Content-Type, whether the body starts with the PNG      *)
(* signature, whether libxml2 finds links in it, the links, and the URL    *)
(* the transfer ended at after redirections.                               *)
(***************************************************************************)
EXTENDS SearchReturn

CONSTANTS Href,     \* the values of href attributes
          HttpUrl,  \* the URLs that start with "http"
          site,     \* URL -> set of responses a transfer of it may end with
          buildURI  \* (href, base) -> absolute URL or NULL: libxml2's xmlBuildURI

ContentType == {"png", "html", "other", "none"}

Response ==
  [ status    : Nat,            \* CURLINFO_RESPONSE_CODE
    ct        : ContentType,    \* CURLINFO_CONTENT_TYPE; "none" is NULL
    signature : BOOLEAN,        \* at least 8 bytes, the PNG signature first
    parses    : BOOLEAN,        \* mem_getdoc and getnodeset both succeed
    hrefs     : Seq(Href),      \* //a/@href, in document order
    eurl      : Url ]           \* CURLINFO_EFFECTIVE_URL

ASSUME SiteAssumption ==
  /\ HttpUrl \subseteq Url
  /\ DOMAIN site = Url
  /\ \A u \in Url : site[u] # {} /\ \A r \in site[u] : r = NULL \/ r \in Response
  /\ buildURI \in [Href \X Url -> Url \cup {NULL}]
-----------------------------------------------------------------------------
is_png(resp) == resp.signature

(***************************************************************************)
(* find_http: every link of the page, resolved against the URL the page    *)
(* really came from, that starts with "http".                              *)
(***************************************************************************)
resolved(resp) == [i \in 1 .. Len(resp.hrefs) |->
  LET href == buildURI[resp.hrefs[i], resp.eurl]
  IN  IF href \in HttpUrl THEN href ELSE NULL]

find_http(resp) ==
  IF ~ resp.parses THEN <<>>
  ELSE LET ret[i \in 0 .. Len(resp.hrefs)] ==
             IF i = 0 THEN <<>>
             ELSE IF resolved(resp)[i] = NULL THEN ret[i - 1]
             ELSE Append(ret[i - 1], resolved(resp)[i])
       IN  ret[Len(resp.hrefs)]

(***************************************************************************)
(* process_data returns the effective URL of a real PNG and NULL for       *)
(* anything else; links are collected from HTML only.                      *)
(***************************************************************************)
Usable(resp) == resp.status < 400 /\ resp.ct # "none"

effective_url(resp) ==
  IF Usable(resp) /\ resp.ct = "png" /\ is_png(resp) THEN resp.eurl ELSE NULL

children(resp) ==
  IF Usable(resp) /\ resp.ct = "html" THEN find_http(resp) ELSE <<>>

(***************************************************************************)
(* web_crawler: NULL if the transfer failed, a search_return_t otherwise.  *)
(***************************************************************************)
web_crawler(url) ==
  { IF resp = NULL THEN NULL
    ELSE [children |-> children(resp), effective_url |-> effective_url(resp)]
    : resp \in site[url] }
=============================================================================
