--------------------------- MODULE MultiBfs_proofs ---------------------------
(***************************************************************************)
(* Proofs about MultiBfs, for any set of URLs, any function to work on     *)
(* them with, any limit on the transfers of a batch and any number of PNGs *)
(* asked for.                                                              *)
(***************************************************************************)
EXTENDS MultiBfsProps, MultiCrawler, WebSite, FiniteSetTheorems, SequenceLemmas

One(b) == IF b THEN 1 ELSE 0

Message == [url : Url, ret : search_return_t]

Types ==
  /\ frontier \in Seq(Url) /\ running \in Seq(Url) /\ new_urls \in Seq(Url)
  /\ search_results \in Seq(Url) /\ returned \in Seq(Url) /\ png_urls \in Seq(Url)
  /\ visited \subseteq Url
  /\ msgs \in Seq(Message)
  /\ num_png_found \in Nat /\ wait_failures \in Nat
  /\ calls \in [Url -> Nat]
  /\ main \in {"open", "transfer", "read", "links", "done", "exited"}

(***************************************************************************)
(* What is over at each place of the thread.  Of the page it is enqueuing  *)
(* the links of, those that are not left have been visited.                *)
(***************************************************************************)
Phases ==
  /\ main = "open" => msgs = <<>>
  /\ main = "links" =>
       /\ msgs # <<>> /\ ~ Full /\ IsPage(Result)
       /\ Range(new_urls) \subseteq Range(Result.children)
       /\ Range(Result.children) \subseteq visited \cup Range(new_urls)
  /\ main \in {"done", "exited"} => frontier = <<>> /\ msgs = <<>> /\ search_results = <<>>
  /\ main \notin {"done", "exited"} => returned = <<>> /\ png_urls = <<>>
  /\ main = "exited" => returned = <<>>

Answers == \A i \in 1 .. Len(msgs) : msgs[i].ret \in work[msgs[i].url]

(***************************************************************************)
(* The URLs that nothing has been done with: queued, in flight, or in a    *)
(* message that is not being read.  None of them is there twice, and all   *)
(* have been visited but the root, before its first page is read.          *)
(***************************************************************************)
UrlsOf(q) == [i \in 1 .. Len(q) |-> q[i].url]

Active  == IF main = "transfer" THEN running ELSE <<>>
Waiting == IF main = "links" THEN Tail(msgs) ELSE msgs

Untouched == Range(frontier) \cup Range(Active) \cup Range(UrlsOf(Waiting))

Apart ==
  /\ Unique(frontier) /\ Unique(Active) /\ Unique(UrlsOf(Waiting))
  /\ Range(frontier) \cap Range(Active) = {}
  /\ Range(frontier) \cap Range(UrlsOf(Waiting)) = {}
  /\ Range(Active) \cap Range(UrlsOf(Waiting)) = {}

Known ==
  /\ Untouched \subseteq visited \cup {Root}
  /\ Root \in Untouched \ visited => main # "links" /\ Untouched \subseteq {Root}

Called ==
  \A u \in Url : calls[u] + One(u \in Range(frontier)) <= One(u \in visited) + One(u = Root)

(***************************************************************************)
(* As long as the crawl is neither full nor broken off, every URL met is   *)
(* pending, or all it was certain to give has been taken.                  *)
(***************************************************************************)
Explored(u) ==
  /\ Certain(u) \subseteq visited
  /\ \A e \in Url : CertainPng(u, e) => e \in Range(found)

Covered ==
  ~ Full /\ wait_failures = 0 => \A u \in visited \cup {Root} : u \in Pending \/ Explored(u)

IInv == Types /\ Phases /\ Answers /\ Apart /\ Known /\ Called /\ Covered /\ ResultsCounted
-----------------------------------------------------------------------------
(***************************************************************************)
(* Facts about the values the thread works with.                           *)
(***************************************************************************)
LEMMA BatchSize ==
  ASSUME Types
  PROVE  num_opened_connections \in 0 .. Len(frontier)
<1>1. max_conntions \in Nat /\ Len(frontier) \in Nat
  BY MultiBfsAssumption DEF Types
<1> DEFINE S == {max_conntions, Len(frontier)}
<1>2. \E x \in S : \A y \in S : x =< y
  <2>1. ASSUME max_conntions =< Len(frontier) PROVE \A y \in S : max_conntions =< y
    BY <1>1, <2>1
  <2>2. ASSUME Len(frontier) =< max_conntions PROVE \A y \in S : Len(frontier) =< y
    BY <1>1, <2>2
  <2>3. max_conntions =< Len(frontier) \/ Len(frontier) =< max_conntions
    BY <1>1
  <2>4. max_conntions \in S /\ Len(frontier) \in S
    OBVIOUS
  <2> HIDE DEF S
  <2> QED
    BY <2>1, <2>2, <2>3, <2>4
<1>3. Min(S) \in S /\ Min(S) =< Len(frontier)
  BY <1>2 DEF Min
<1> QED
  BY <1>1, <1>3 DEF num_opened_connections

LEMMA UrlsAre ==
  ASSUME NEW q \in Seq(Message)
  PROVE  /\ UrlsOf(q) \in Seq(Url) /\ Len(UrlsOf(q)) = Len(q)
         /\ {q[i].url : i \in DOMAIN q} = Range(UrlsOf(q))
<1>0. Len(q) \in Nat /\ DOMAIN q = 1 .. Len(q) /\ \A i \in 1 .. Len(q) : q[i] \in Message
  OBVIOUS
<1>1. \A i \in 1 .. Len(q) : q[i].url \in Url
  BY <1>0 DEF Message
<1>2. UrlsOf(q) \in Seq(Url) /\ Len(UrlsOf(q)) = Len(q)
  BY <1>0, <1>1 DEF UrlsOf
<1>3. Range(UrlsOf(q)) = {UrlsOf(q)[i] : i \in 1 .. Len(q)}
  BY <1>2, RangeEquality
<1> QED
  BY <1>0, <1>2, <1>3 DEF UrlsOf

LEMMA UrlsAppend ==
  ASSUME NEW q \in Seq(Message), NEW m \in Message
  PROVE  UrlsOf(Append(q, m)) = Append(UrlsOf(q), m.url)
<1>1. /\ Append(q, m) \in Seq(Message) /\ Len(Append(q, m)) = Len(q) + 1
      /\ Append(q, m)[Len(q) + 1] = m /\ Len(q) \in Nat /\ m.url \in Url
      /\ \A i \in 1 .. Len(q) : Append(q, m)[i] = q[i]
  BY DEF Message
<1>2. /\ UrlsOf(q) \in Seq(Url) /\ Len(UrlsOf(q)) = Len(q)
      /\ UrlsOf(Append(q, m)) \in Seq(Url) /\ Len(UrlsOf(Append(q, m))) = Len(q) + 1
  BY <1>1, UrlsAre
<1>3. /\ Append(UrlsOf(q), m.url) \in Seq(Url) /\ Len(Append(UrlsOf(q), m.url)) = Len(q) + 1
      /\ Append(UrlsOf(q), m.url)[Len(q) + 1] = m.url
      /\ \A i \in 1 .. Len(q) : Append(UrlsOf(q), m.url)[i] = UrlsOf(q)[i]
  BY <1>1, <1>2, AppendProperties
<1>4. \A i \in 1 .. Len(q) + 1 : UrlsOf(Append(q, m))[i] = Append(UrlsOf(q), m.url)[i]
  <2> TAKE i \in 1 .. Len(q) + 1
  <2>1. CASE i = Len(q) + 1
    BY <1>1, <1>3, <2>1 DEF UrlsOf
  <2>2. CASE i \in 1 .. Len(q)
    BY <1>1, <1>3, <2>2 DEF UrlsOf
  <2>3. i = Len(q) + 1 \/ i \in 1 .. Len(q)
    BY <1>1
  <2> QED
    BY <2>1, <2>2, <2>3
<1> QED
  BY <1>2, <1>3, <1>4, SeqEqual

LEMMA UrlsTail ==
  ASSUME NEW q \in Seq(Message), q # <<>>
  PROVE  /\ Head(q) \in Message /\ UrlsOf(q) # <<>> /\ Head(UrlsOf(q)) = Head(q).url
         /\ Tail(q) \in Seq(Message) /\ UrlsOf(Tail(q)) = Tail(UrlsOf(q))
<1>1. /\ Head(q) \in Message /\ Tail(q) \in Seq(Message) /\ Len(q) \in Nat \ {0}
      /\ Len(Tail(q)) = Len(q) - 1 /\ Head(q) = q[1]
      /\ \A i \in 1 .. Len(q) - 1 : Tail(q)[i] = q[i + 1]
  OBVIOUS
<1>2. /\ UrlsOf(q) \in Seq(Url) /\ Len(UrlsOf(q)) = Len(q)
      /\ UrlsOf(Tail(q)) \in Seq(Url) /\ Len(UrlsOf(Tail(q))) = Len(q) - 1
  BY <1>1, UrlsAre
<1>3. UrlsOf(q) # <<>>
  BY <1>1, <1>2
<1>4. /\ Tail(UrlsOf(q)) \in Seq(Url) /\ Len(Tail(UrlsOf(q))) = Len(q) - 1
      /\ \A i \in 1 .. Len(q) - 1 : Tail(UrlsOf(q))[i] = UrlsOf(q)[i + 1]
  BY <1>2, <1>3, HeadTailProperties
<1>5. \A i \in 1 .. Len(q) - 1 : UrlsOf(Tail(q))[i] = Tail(UrlsOf(q))[i]
  BY <1>1, <1>4 DEF UrlsOf
<1>6. Head(UrlsOf(q)) = Head(q).url
  BY <1>1, <1>2, <1>3 DEF UrlsOf
<1> QED
  BY <1>1, <1>2, <1>3, <1>4, <1>5, <1>6, SeqEqual

LEMMA EmptyRange ==
  /\ Range(<<>>) = {} /\ Unique(<<>>) /\ UrlsOf(<<>>) = <<>>
<1>1. <<>> \in Seq(Url) /\ Len(<<>>) = 0
  OBVIOUS
<1>2. Range(<<>>) = {}
  BY DEF Range
<1>3. UrlsOf(<<>>) = <<>>
  BY <1>1 DEF UrlsOf
<1> QED
  BY <1>1, <1>2, <1>3 DEF Unique
-----------------------------------------------------------------------------
(***************************************************************************)
(* The types.                                                              *)
(***************************************************************************)
LEMMA MessageRead ==
  ASSUME Types, Answers, msgs # <<>>
  PROVE  /\ Head(msgs) \in Message /\ Result \in work[Head(msgs).url] /\ Head(msgs).url \in Url
         /\ Result \in search_return_t /\ Tail(msgs) \in Seq(Message)
         /\ Result.children \in Seq(Url) /\ Result.effective_url \in Url \cup {NULL}
         /\ \A i \in 1 .. Len(Tail(msgs)) : Tail(msgs)[i].ret \in work[Tail(msgs)[i].url]
<1>1. /\ Len(msgs) \in Nat \ {0} /\ Head(msgs) = msgs[1] /\ Head(msgs) \in Message
      /\ Tail(msgs) \in Seq(Message) /\ Len(Tail(msgs)) = Len(msgs) - 1
      /\ \A i \in 1 .. Len(msgs) - 1 : Tail(msgs)[i] = msgs[i + 1]
  BY DEF Types
<1>2. Result \in work[Head(msgs).url] /\ Result \in search_return_t /\ Head(msgs).url \in Url
  BY <1>1 DEF Answers, Result, Message
<1> QED
  BY <1>1, <1>2 DEF Answers, search_return_t

LEMMA NextTypes ==
  ASSUME Types, Answers, [Next]_vars
  PROVE  Types' /\ Answers'
<1> USE DEF Types
<1>1. CASE OpenConnections
  <2> DEFINE n == num_opened_connections
             count == [u \in Url |-> Cardinality({i \in 1 .. n : frontier[i] = u})]
  <2>1. n \in 0 .. Len(frontier)
    BY BatchSize
  <2>2. SubSeq(frontier, 1, n) \in Seq(Url) /\ SubSeq(frontier, n + 1, Len(frontier)) \in Seq(Url)
    <3> HIDE DEF n
    <3> QED
      BY <2>1, SplitRange
  <2>3. \A u \in Url : Cardinality({i \in 1 .. n : frontier[i] = u}) \in Nat
    <3>1. IsFiniteSet(1 .. n)
      BY <2>1, FS_Interval
    <3> QED
      BY <3>1, FS_Subset, FS_CardinalityType
  <2>4. /\ running' = SubSeq(frontier, 1, n)
        /\ frontier' = SubSeq(frontier, n + 1, Len(frontier))
        /\ calls' = [u \in Url |-> calls[u] + Cardinality({i \in 1 .. n : frontier[i] = u})]
        /\ main' = "transfer"
        /\ UNCHANGED <<search_results, visited, msgs, new_urls, num_png_found, returned,
                       png_urls, wait_failures>>
    BY <1>1 DEF OpenConnections
  <2> HIDE DEF n
  <2>5. calls' \in [Url -> Nat]
    <3> DEFINE C(u) == Cardinality({i \in 1 .. n : frontier[i] = u})
    <3>1. \A u \in Url : calls[u] \in Nat /\ C(u) \in Nat
      BY <2>3
    <3>2. calls' = [u \in Url |-> calls[u] + C(u)]
      BY <2>4
    <3> HIDE DEF C, Types
    <3>3. \A u \in Url : calls[u] + C(u) \in Nat
      BY <3>1
    <3> QED
      BY <3>2, <3>3
  <2> QED
    BY <2>2, <2>4, <2>5 DEF Answers
<1>2. CASE \E i \in 1 .. Len(running) : TransferEnds(i)
  <2> PICK i \in 1 .. Len(running) : TransferEnds(i)
    BY <1>2
  <2> PICK r \in work[running[i]] : msgs' = Append(msgs, [url |-> running[i], ret |-> r])
    BY DEF TransferEnds
  <2>1. running[i] \in Url /\ r \in search_return_t
    BY MultiBfsAssumption
  <2> DEFINE m == [url |-> running[i], ret |-> r]
  <2>2. m \in Message /\ m.ret \in work[m.url]
    BY <2>1 DEF Message
  <2>3. /\ Append(msgs, m) \in Seq(Message) /\ Len(Append(msgs, m)) = Len(msgs) + 1
        /\ Append(msgs, m)[Len(msgs) + 1] = m
        /\ \A j \in 1 .. Len(msgs) : Append(msgs, m)[j] = msgs[j]
    <3> HIDE DEF m
    <3> QED
      BY <2>2, AppendProperties
  <2>4. RemoveAt(running, i) \in Seq(Url)
    BY RemoveRange
  <2>5. /\ msgs' = Append(msgs, m) /\ running' = RemoveAt(running, i)
        /\ UNCHANGED <<frontier, search_results, visited, new_urls, num_png_found, calls, main,
                       returned, png_urls, wait_failures>>
    BY DEF TransferEnds
  <2> HIDE DEF m
  <2>6. Answers'
    <3> SUFFICES ASSUME NEW j \in 1 .. Len(msgs) + 1
                 PROVE  Append(msgs, m)[j].ret \in work[Append(msgs, m)[j].url]
      BY <2>3, <2>5 DEF Answers
    <3>1. CASE j = Len(msgs) + 1
      BY <2>2, <2>3, <3>1
    <3>2. CASE j \in 1 .. Len(msgs)
      BY <2>3, <3>2 DEF Answers
    <3>3. j = Len(msgs) + 1 \/ j \in 1 .. Len(msgs)
      <4>1. Len(msgs) \in Nat
        OBVIOUS
      <4> HIDE DEF Types
      <4> QED
        BY <4>1
    <3> QED
      BY <3>1, <3>2, <3>3
  <2> QED
    BY <2>3, <2>4, <2>5, <2>6
<1>3. CASE ReadTooMany \/ ReadPng \/ ReadPage
  <2>1. msgs # <<>>
    BY <1>3 DEF ReadTooMany, ReadPng, ReadPage, ReadMessage
  <2>2. CASE ReadTooMany
    BY <2>1, <2>2, MessageRead DEF ReadTooMany, ReadMessage, Answers
  <2>3. CASE ReadPng
    <3>1. Append(search_results, Result.effective_url) \in Seq(Url)
      BY <2>1, <2>3, MessageRead DEF ReadPng
    <3> QED
      BY <2>1, <2>3, <3>1, MessageRead DEF ReadPng, ReadMessage, Answers
  <2>4. CASE ReadPage
    BY <2>1, <2>4, MessageRead DEF ReadPage, Answers
  <2> QED
    BY <1>3, <2>2, <2>3, <2>4
<1>4. CASE EnqueueLink
  <2>1. Head(new_urls) \in Url /\ Tail(new_urls) \in Seq(Url)
        /\ Append(frontier, Head(new_urls)) \in Seq(Url)
    BY <1>4 DEF EnqueueLink
  <2> QED
    BY <1>4, <2>1 DEF EnqueueLink, Answers
<1>5. CASE LinksDone /\ msgs # <<>>
  BY <1>5, MessageRead DEF LinksDone, Answers
<1>6. CASE LinksDone /\ msgs = <<>>
  BY <1>6 DEF LinksDone, Answers
<1>7. CASE AllEnded \/ CycleDone \/ ReturnResults \/ WriteUrl \/ Exit \/ WaitFails
  <2>1. CASE WriteUrl
    BY <2>1 DEF WriteUrl, Answers
  <2>2. CASE AllEnded \/ Exit
    BY <2>2 DEF AllEnded, Exit, Answers
  <2>5. CASE WaitFails
    BY <2>5 DEF WaitFails, Answers
  <2>3. CASE CycleDone
    BY <2>3 DEF CycleDone, Answers
  <2>4. CASE ReturnResults
    BY <2>4 DEF ReturnResults, Answers
  <2> QED
    BY <1>7, <2>1, <2>2, <2>3, <2>4, <2>5
<1>8. CASE UNCHANGED vars
  BY <1>8 DEF vars, Answers
<1> QED
  BY <1>1, <1>2, <1>3, <1>4, <1>5, <1>6, <1>7, <1>8 DEF Next, Step, Finished
-----------------------------------------------------------------------------
(***************************************************************************)
(* What a step does to the places where a URL can be.                      *)
(***************************************************************************)
Quiet ==
  AllEnded \/ CycleDone \/ ReturnResults \/ WriteUrl \/ Exit \/ LinksDone \/ UNCHANGED vars

LEMMA StepKinds ==
  ASSUME [Next]_vars
  PROVE  \/ Quiet \/ OpenConnections \/ ReadTooMany \/ ReadPng \/ ReadPage \/ EnqueueLink
         \/ WaitFails \/ \E i \in 1 .. Len(running) : TransferEnds(i)
  BY DEF Next, Step, Finished, Quiet

LEMMA QuietKeeps ==
  ASSUME Quiet
  PROVE  /\ UNCHANGED <<frontier, Active, Waiting, visited, calls, num_png_found, wait_failures>>
         /\ ~ LinksDone => UNCHANGED msgs
         /\ main' # "links" \/ main' = main
<1>1. CASE AllEnded
  BY <1>1 DEF AllEnded, Active, Waiting
<1>2. CASE CycleDone
  BY <1>2 DEF CycleDone, Active, Waiting
<1>3. CASE ReturnResults
  BY <1>3 DEF ReturnResults, Active, Waiting
<1>4. CASE WriteUrl
  BY <1>4 DEF WriteUrl, Active, Waiting
<1>5. CASE Exit
  BY <1>5 DEF Exit, Active, Waiting
<1>6. CASE LinksDone
  BY <1>6 DEF LinksDone, Active, Waiting
<1>7. CASE UNCHANGED vars
  BY <1>7 DEF vars, Active, Waiting
<1> QED
  BY <1>1, <1>2, <1>3, <1>4, <1>5, <1>6, <1>7 DEF Quiet

LEMMA ReadEffect ==
  ASSUME ReadTooMany \/ ReadPng \/ ReadPage
  PROVE  /\ UNCHANGED <<frontier, Active, visited, calls>>
         /\ msgs # <<>> /\ Waiting = msgs /\ Waiting' = Tail(msgs)
<1>1. CASE ReadTooMany
  BY <1>1 DEF ReadTooMany, ReadMessage, Active, Waiting
<1>2. CASE ReadPng
  BY <1>2 DEF ReadPng, ReadMessage, Active, Waiting
<1>3. CASE ReadPage
  BY <1>3 DEF ReadPage, Active, Waiting
<1> QED
  BY <1>1, <1>2, <1>3

LEMMA OpenEffect ==
  ASSUME Types, Phases, OpenConnections
  PROVE  /\ Active = <<>> /\ Waiting = <<>> /\ Waiting' = <<>> /\ main' = "transfer"
         /\ Active' = SubSeq(frontier, 1, num_opened_connections)
         /\ frontier' = SubSeq(frontier, num_opened_connections + 1, Len(frontier))
         /\ UNCHANGED <<visited, msgs>>
  BY DEF OpenConnections, Phases, Active, Waiting

LEMMA TransferEffect ==
  ASSUME Types, Types', NEW i \in 1 .. Len(running), TransferEnds(i)
  PROVE  /\ Active = running /\ Active' = RemoveAt(running, i)
         /\ UrlsOf(Waiting') = Append(UrlsOf(Waiting), running[i])
         /\ Waiting = msgs /\ Waiting' = msgs' /\ main' = "transfer"
         /\ UNCHANGED <<frontier, visited, calls>>
<1> PICK r \in work[running[i]] : msgs' = Append(msgs, [url |-> running[i], ret |-> r])
  BY DEF TransferEnds
<1> DEFINE m == [url |-> running[i], ret |-> r]
<1>1. running[i] \in Url /\ m \in Message
  BY MultiBfsAssumption DEF Message, Types
<1>2. UrlsOf(Append(msgs, m)) = Append(UrlsOf(msgs), m.url)
  <2> HIDE DEF m
  <2> QED
    BY <1>1, UrlsAppend DEF Types
<1> QED
  BY <1>2 DEF TransferEnds, Active, Waiting

LEMMA PlaceTypes ==
  /\ Types /\ Phases => Active \in Seq(Url) /\ Waiting \in Seq(Message) /\ UrlsOf(Waiting) \in Seq(Url)
  /\ Types /\ msgs # <<>> =>
       /\ Head(msgs).url \in Url
       /\ Range(UrlsOf(msgs)) = Range(UrlsOf(Tail(msgs))) \cup {Head(msgs).url}
       /\ Unique(UrlsOf(msgs)) =>
            /\ Range(UrlsOf(Tail(msgs))) = Range(UrlsOf(msgs)) \ {Head(msgs).url}
            /\ Unique(UrlsOf(Tail(msgs)))
<1>1. ASSUME Types PROVE Active \in Seq(Url)
  BY <1>1 DEF Types, Active
<1>2. ASSUME Types, Phases PROVE Waiting \in Seq(Message)
  BY <1>2 DEF Types, Phases, Waiting
<1>3. ASSUME Types, msgs # <<>>
      PROVE  /\ Head(msgs).url \in Url
             /\ Range(UrlsOf(msgs)) = Range(UrlsOf(Tail(msgs))) \cup {Head(msgs).url}
             /\ Unique(UrlsOf(msgs)) =>
                  /\ Range(UrlsOf(Tail(msgs))) = Range(UrlsOf(msgs)) \ {Head(msgs).url}
                  /\ Unique(UrlsOf(Tail(msgs)))
  <2>1. /\ Head(msgs) \in Message /\ UrlsOf(msgs) # <<>>
        /\ Head(UrlsOf(msgs)) = Head(msgs).url
        /\ UrlsOf(Tail(msgs)) = Tail(UrlsOf(msgs)) /\ UrlsOf(msgs) \in Seq(Url)
    BY <1>3, UrlsTail, UrlsAre DEF Types
  <2>2. Head(msgs).url \in Url
    BY <2>1 DEF Message
  <2> QED
    BY <2>1, <2>2, DequeueRange
<1> QED
  BY <1>1, <1>2, <1>3, UrlsAre

LEMMA PendingIs ==
  /\ Types => Pending = Range(frontier) \cup Range(Active) \cup Range(UrlsOf(msgs))
  /\ Types' => Pending' = Range(frontier') \cup Range(Active') \cup Range(UrlsOf(msgs'))
<1>1. InFlight = Range(Active) /\ InFlight' = Range(Active')
  BY EmptyRange DEF InFlight, Active
<1>2. Types => {msgs[i].url : i \in DOMAIN msgs} = Range(UrlsOf(msgs))
  BY UrlsAre DEF Types
<1>3. Types' => {msgs'[i].url : i \in DOMAIN msgs'} = Range(UrlsOf(msgs'))
  BY UrlsAre DEF Types
<1> QED
  BY <1>1, <1>2, <1>3 DEF Pending
-----------------------------------------------------------------------------
(***************************************************************************)
(* No URL is in two places, none is forgotten, and none comes back.        *)
(***************************************************************************)
LEMMA NextPlaces ==
  ASSUME Types, Phases, Apart, Known, Types', [Next]_vars
  PROVE  Apart' /\ Known'
<1> DEFINE w == UrlsOf(Waiting)
<1>0. Active \in Seq(Url) /\ w \in Seq(Url) /\ frontier \in Seq(Url) /\ Root \in Url
  BY PlaceTypes, MultiBfsAssumption DEF Types
<1>1. CASE Quiet
  <2>1. UNCHANGED <<frontier, Active, Waiting, visited>> /\ (main' # "links" \/ main' = main)
    BY <1>1, QuietKeeps
  <2>2. UNCHANGED UrlsOf(Waiting)
    BY <2>1 DEF UrlsOf
  <2> QED
    BY <2>1, <2>2 DEF Apart, Known, Untouched
<1>2. CASE ReadTooMany \/ ReadPng \/ ReadPage
  <2>1. /\ UNCHANGED <<frontier, Active, visited>>
        /\ msgs # <<>> /\ Waiting = msgs /\ Waiting' = Tail(msgs)
    BY <1>2, ReadEffect
  <2>2. /\ UrlsOf(Waiting') = UrlsOf(Tail(msgs)) /\ Unique(UrlsOf(msgs))
        /\ Range(UrlsOf(msgs)) = Range(UrlsOf(Tail(msgs))) \cup {Head(msgs).url}
        /\ Range(UrlsOf(Tail(msgs))) = Range(UrlsOf(msgs)) \ {Head(msgs).url}
        /\ Unique(UrlsOf(Tail(msgs)))
    BY <2>1, PlaceTypes DEF Apart
  <2>3. UrlsOf(Waiting)' = UrlsOf(Tail(msgs))
    BY <2>2 DEF UrlsOf
  <2>4. Apart'
    BY <2>1, <2>2, <2>3 DEF Apart
  <2>5. Untouched' \subseteq Untouched /\ Head(msgs).url \in Untouched
    BY <2>1, <2>2, <2>3 DEF Untouched
  <2>6. Head(msgs).url \notin Untouched'
    BY <2>1, <2>2, <2>3 DEF Untouched, Apart
  <2>7. Known'
    BY <2>1, <2>5, <2>6 DEF Known
  <2> QED
    BY <2>4, <2>7
<1>3. CASE OpenConnections
  <2> DEFINE n == num_opened_connections
  <2>1. /\ Active = <<>> /\ Waiting = <<>> /\ Waiting' = <<>> /\ main' = "transfer"
        /\ Active' = SubSeq(frontier, 1, n) /\ frontier' = SubSeq(frontier, n + 1, Len(frontier))
        /\ visited' = visited
    BY <1>3, OpenEffect
  <2>2. n \in 0 .. Len(frontier)
    BY BatchSize
  <2> HIDE DEF n
  <2>3. /\ Range(frontier) = Range(Active') \cup Range(frontier')
        /\ Unique(Active') /\ Unique(frontier') /\ Range(Active') \cap Range(frontier') = {}
    BY <1>0, <2>1, <2>2, SplitRange DEF Apart
  <2>4. UrlsOf(Waiting)' = <<>> /\ w = <<>> /\ Range(<<>>) = {} /\ Unique(<<>>)
    BY <2>1, EmptyRange DEF UrlsOf
  <2>5. Apart'
    BY <2>3, <2>4 DEF Apart
  <2>6. Untouched' = Untouched
    BY <2>1, <2>3, <2>4 DEF Untouched
  <2> QED
    BY <2>1, <2>5, <2>6 DEF Known
<1>4. CASE \E i \in 1 .. Len(running) : TransferEnds(i)
  <2> PICK i \in 1 .. Len(running) : TransferEnds(i)
    BY <1>4
  <2>1. /\ Active = running /\ Active' = RemoveAt(running, i)
        /\ UrlsOf(Waiting') = Append(w, running[i]) /\ main' = "transfer"
        /\ UNCHANGED <<frontier, visited>>
    BY TransferEffect
  <2>2. /\ running[i] \in Range(running) /\ running[i] \in Url
        /\ Range(Active') = Range(running) \ {running[i]} /\ Unique(Active')
    BY <1>0, <2>1, RemoveRange DEF Apart
  <2>3. running[i] \notin Range(w)
    BY <2>1, <2>2 DEF Apart
  <2>4. /\ Range(UrlsOf(Waiting')) = Range(w) \cup {running[i]}
        /\ Unique(UrlsOf(Waiting'))
    BY <1>0, <2>1, <2>2, <2>3, EnqueueRange DEF Apart
  <2>5. UrlsOf(Waiting)' = UrlsOf(Waiting')
    BY DEF UrlsOf
  <2>6. Apart'
    BY <2>1, <2>2, <2>3, <2>4, <2>5 DEF Apart
  <2>7. Untouched' = Untouched
    BY <2>1, <2>2, <2>4, <2>5 DEF Untouched
  <2> QED
    BY <2>1, <2>6, <2>7 DEF Known
<1>5. CASE WaitFails
  <2>1. Active' = <<>> /\ UNCHANGED <<frontier, visited, Waiting>> /\ main' = "read"
    BY <1>5 DEF WaitFails, Active, Waiting
  <2>2. UNCHANGED UrlsOf(Waiting)
    BY <2>1 DEF UrlsOf
  <2>3. Range(Active') = {} /\ Unique(Active')
    BY <2>1, EmptyRange
  <2>4. Apart'
    BY <2>1, <2>2, <2>3 DEF Apart
  <2>5. Untouched' \subseteq Untouched
    BY <2>1, <2>2, <2>3 DEF Untouched
  <2> QED
    BY <2>1, <2>4, <2>5 DEF Known
<1>6. CASE EnqueueLink
  <2> DEFINE c == Head(new_urls)
  <2>1. main = "links" /\ UNCHANGED <<Active, Waiting, main>> /\ c \in Url
    BY <1>6 DEF EnqueueLink, Active, Waiting, Types
  <2>2. UNCHANGED UrlsOf(Waiting)
    BY <2>1 DEF UrlsOf
  <2>3. CASE c \in visited
    <3>1. UNCHANGED <<frontier, visited>>
      BY <1>6, <2>3 DEF EnqueueLink
    <3> QED
      BY <2>1, <2>2, <3>1 DEF Apart, Known, Untouched
  <2>4. CASE c \notin visited
    <3>1. visited' = visited \cup {c} /\ frontier' = Append(frontier, c)
      BY <1>6, <2>4 DEF EnqueueLink
    <3>2. Untouched \subseteq visited
      BY <2>1 DEF Known
    <3>3. c \notin Range(frontier) /\ c \notin Range(Active) /\ c \notin Range(w)
      BY <2>4, <3>2 DEF Untouched
    <3>4. Range(frontier') = Range(frontier) \cup {c} /\ Unique(frontier')
      BY <1>0, <2>1, <3>1, <3>3, EnqueueRange DEF Apart
    <3>5. Apart'
      BY <2>1, <2>2, <3>3, <3>4 DEF Apart
    <3>6. Untouched' = Untouched \cup {c}
      BY <2>1, <2>2, <3>4 DEF Untouched
    <3>7. Known'
      BY <3>1, <3>2, <3>6 DEF Known
    <3> QED
      BY <3>5, <3>7
  <2> QED
    BY <2>3, <2>4
<1> QED
  BY StepKinds, <1>1, <1>2, <1>3, <1>4, <1>5, <1>6

LEMMA Occurrences ==
  ASSUME NEW q \in Seq(Url), NEW n \in 0 .. Len(q), Unique(q), NEW u
  PROVE  Cardinality({i \in 1 .. n : q[i] = u}) = One(u \in Range(SubSeq(q, 1, n)))
<1> DEFINE I == {i \in 1 .. n : q[i] = u}
           a == SubSeq(q, 1, n)
<1>0. Len(q) \in Nat /\ n \in Int /\ 1 .. n \subseteq 1 .. Len(q)
  OBVIOUS
<1>1. a \in Seq(Url) /\ Len(a) = n /\ \A i \in 1 .. n : a[i] = q[i]
  BY <1>0, SubSeqProperties
<1>2. Range(a) = {a[i] : i \in 1 .. n}
  <2> HIDE DEF a
  <2> QED
    BY <1>1, RangeEquality
<1>3. u \in Range(a) <=> \E i \in 1 .. n : q[i] = u
  BY <1>1, <1>2
<1>4. CASE u \in Range(a)
  <2>1. PICK i \in 1 .. n : q[i] = u
    BY <1>3, <1>4
  <2>2. I = {i}
    BY <1>0, <2>1 DEF Unique
  <2> HIDE DEF I
  <2>3. Cardinality(I) = 1
    BY <2>2, FS_Singleton
  <2> QED
    BY <1>4, <2>3 DEF One, I
<1>5. CASE u \notin Range(a)
  <2>1. I = {}
    BY <1>3, <1>5
  <2> HIDE DEF I
  <2>2. Cardinality(I) = 0
    BY <2>1, FS_EmptySet
  <2> QED
    BY <1>5, <2>2 DEF One, I
<1> QED
  BY <1>4, <1>5

LEMMA NextCalled ==
  ASSUME Types, Phases, Apart, Called, Types', [Next]_vars
  PROVE  Called'
<1>1. CASE OpenConnections
  <2> DEFINE n == num_opened_connections
             C(u) == Cardinality({i \in 1 .. n : frontier[i] = u})
  <2>1. /\ Active' = SubSeq(frontier, 1, n) /\ frontier' = SubSeq(frontier, n + 1, Len(frontier))
        /\ visited' = visited
    BY <1>1, OpenEffect
  <2>2. n \in 0 .. Len(frontier) /\ frontier \in Seq(Url) /\ Unique(frontier)
    BY BatchSize DEF Types, Apart
  <2>3. calls' = [u \in Url |-> calls[u] + C(u)]
    BY <1>1 DEF OpenConnections
  <2> HIDE DEF n
  <2>4. /\ Range(frontier) = Range(Active') \cup Range(frontier')
        /\ Range(Active') \cap Range(frontier') = {}
    BY <2>1, <2>2, SplitRange
  <2>5. ASSUME NEW u \in Url PROVE C(u) = One(u \in Range(Active'))
    BY <2>1, <2>2, Occurrences
  <2> HIDE DEF C
  <2> SUFFICES ASSUME NEW u \in Url
               PROVE  calls'[u] + One(u \in Range(frontier')) <= One(u \in visited') + One(u = Root)
    BY DEF Called
  <2>6. One(u \in Range(frontier)) = One(u \in Range(Active')) + One(u \in Range(frontier'))
    BY <2>4 DEF One
  <2>7. /\ calls[u] \in Nat /\ calls'[u] = calls[u] + One(u \in Range(Active'))
        /\ calls[u] + One(u \in Range(frontier)) <= One(u \in visited) + One(u = Root)
    BY <2>3, <2>5 DEF Types, Called
  <2>8. /\ One(u \in Range(Active')) \in Nat /\ One(u \in Range(frontier')) \in Nat
        /\ One(u \in visited) + One(u = Root) \in Nat
    BY DEF One
  <2> QED
    BY <2>1, <2>6, <2>7, <2>8
<1>2. CASE EnqueueLink /\ Head(new_urls) \notin visited
  <2> DEFINE c == Head(new_urls)
  <2>1. /\ visited' = visited \cup {c} /\ frontier' = Append(frontier, c) /\ calls' = calls
        /\ frontier \in Seq(Url) /\ c \in Url
    BY <1>2 DEF EnqueueLink, Types
  <2>2. Range(frontier') = Range(frontier) \cup {c}
    BY <2>1, EnqueueRange
  <2> SUFFICES ASSUME NEW u \in Url
               PROVE  calls[u] + One(u \in Range(frontier')) <= One(u \in visited') + One(u = Root)
    BY <2>1 DEF Called
  <2>3. /\ calls[u] + One(u \in Range(frontier)) <= One(u \in visited) + One(u = Root)
        /\ calls[u] \in Nat
    BY DEF Called, Types
  <2>4. CASE u = c
    <3>1. One(u \in visited) = 0 /\ One(u \in visited') = 1 /\ One(u \in Range(frontier')) = 1
      BY <1>2, <2>1, <2>2, <2>4 DEF One
    <3>2. One(u \in Range(frontier)) \in Nat /\ One(u = Root) \in Nat
      BY DEF One
    <3> QED
      BY <2>3, <3>1, <3>2
  <2>5. CASE u # c
    BY <2>1, <2>2, <2>3, <2>5 DEF One
  <2> QED
    BY <2>4, <2>5
<1>3. ASSUME UNCHANGED <<frontier, visited, calls>> PROVE Called'
  BY <1>3 DEF Called
<1>4. CASE EnqueueLink /\ Head(new_urls) \in visited
  BY <1>3, <1>4 DEF EnqueueLink
<1>5. CASE WaitFails
  BY <1>3, <1>5 DEF WaitFails
<1>6. CASE \E i \in 1 .. Len(running) : TransferEnds(i)
  BY <1>3, <1>6 DEF TransferEnds
<1> QED
  BY StepKinds, QuietKeeps, ReadEffect, <1>1, <1>2, <1>3, <1>4, <1>5, <1>6
-----------------------------------------------------------------------------
(***************************************************************************)
(* What the steps that forget nothing do to the URLs that are pending.     *)
(***************************************************************************)
LEMMA PendingUrls ==
  ASSUME Types
  PROVE  Pending \subseteq Url
<1>1. Active \in Seq(Url) /\ frontier \in Seq(Url) /\ UrlsOf(msgs) \in Seq(Url)
  BY UrlsAre DEF Types, Active
<1>2. \A q \in Seq(Url) : Range(q) \subseteq Url
  BY RangeOfSeq
<1> QED
  BY <1>1, <1>2, PendingIs

LEMMA OpenPending ==
  ASSUME Types, Phases, Types', OpenConnections
  PROVE  Pending' = Pending
<1> DEFINE n == num_opened_connections
<1>1. /\ Active = <<>> /\ msgs' = msgs
      /\ Active' = SubSeq(frontier, 1, n) /\ frontier' = SubSeq(frontier, n + 1, Len(frontier))
  BY OpenEffect
<1>2. n \in 0 .. Len(frontier) /\ frontier \in Seq(Url)
  BY BatchSize DEF Types
<1> HIDE DEF n
<1>3. Range(frontier) = Range(Active') \cup Range(frontier')
  BY <1>1, <1>2, SplitRange
<1> QED
  BY <1>1, <1>3, PendingIs, EmptyRange

LEMMA TransferPending ==
  ASSUME Types, Phases, Types', \E i \in 1 .. Len(running) : TransferEnds(i)
  PROVE  Pending' = Pending
<1> PICK i \in 1 .. Len(running) : TransferEnds(i)
  OBVIOUS
<1>1. /\ Active = running /\ Active' = RemoveAt(running, i)
      /\ UrlsOf(msgs') = Append(UrlsOf(msgs), running[i])
      /\ UNCHANGED frontier
  BY TransferEffect
<1>2. running \in Seq(Url) /\ running[i] \in Url /\ UrlsOf(msgs) \in Seq(Url)
  BY UrlsAre DEF Types
<1>3. Range(running) = Range(Active') \cup {running[i]}
  BY <1>1, <1>2, RemoveRange
<1>4. Range(UrlsOf(msgs')) = Range(UrlsOf(msgs)) \cup {running[i]}
  BY <1>1, <1>2, EnqueueRange
<1> QED
  BY <1>1, <1>3, <1>4, PendingIs

LEMMA LinkPending ==
  ASSUME Types, Phases, Types', EnqueueLink
  PROVE  Pending' = IF Head(new_urls) \in visited THEN Pending
                    ELSE Pending \cup {Head(new_urls)}
<1>1. /\ Head(new_urls) \in Url /\ frontier \in Seq(Url) /\ UNCHANGED <<Active, msgs>>
      /\ frontier' = IF Head(new_urls) \in visited THEN frontier
                     ELSE Append(frontier, Head(new_urls))
  BY DEF EnqueueLink, Types, Active
<1>2. Range(Append(frontier, Head(new_urls))) = Range(frontier) \cup {Head(new_urls)}
  BY <1>1, EnqueueRange
<1> QED
  BY <1>1, <1>2, PendingIs
-----------------------------------------------------------------------------
(***************************************************************************)
(* What the phases of the search leave behind, and what it has found.      *)
(***************************************************************************)
LEMMA NextPhases ==
  ASSUME Types, Phases, [Next]_vars
  PROVE  Phases'
<1>1. CASE OpenConnections
  BY <1>1 DEF OpenConnections, Phases
<1>2. CASE \E i \in 1 .. Len(running) : TransferEnds(i)
  BY <1>2 DEF TransferEnds, Phases
<1>3. CASE AllEnded \/ WaitFails
  BY <1>3 DEF AllEnded, WaitFails, Phases
<1>4. CASE ReadTooMany \/ ReadPng
  BY <1>4 DEF ReadTooMany, ReadPng, ReadMessage, Phases
<1>5. CASE ReadPage
  <2>1. UNCHANGED <<Full, Result>>
    BY <1>5 DEF ReadPage, Full, Result
  <2>2. /\ main' = "links" /\ msgs' # <<>> /\ ~ Full /\ IsPage(Result)
        /\ new_urls' = Result.children /\ main = "read" /\ UNCHANGED <<returned, png_urls>>
    BY <1>5, MultiBfsAssumption DEF ReadPage, Full, IsPage, Types
  <2> QED
    BY <2>1, <2>2 DEF Phases, IsPage
<1>6. CASE EnqueueLink
  <2> DEFINE c == Head(new_urls)
  <2>1. /\ main = "links" /\ main' = main /\ UNCHANGED <<msgs, num_png_found>>
        /\ new_urls # <<>> /\ new_urls' = Tail(new_urls) /\ new_urls \in Seq(Url)
        /\ c \notin visited => visited' = visited \cup {c}
        /\ c \in visited => visited' = visited
        /\ UNCHANGED <<search_results, returned, png_urls>>
    BY <1>6 DEF EnqueueLink, Types
  <2>2. Range(new_urls) = Range(new_urls') \cup {c}
    BY <2>1, DequeueRange
  <2>3. UNCHANGED <<Full, Result>>
    BY <2>1 DEF Full, Result
  <2> QED
    BY <2>1, <2>2, <2>3 DEF Phases
<1>7. CASE LinksDone \/ CycleDone
  BY <1>7 DEF LinksDone, CycleDone, Phases
<1>8. CASE ReturnResults
  BY <1>8 DEF ReturnResults, Phases
<1>9. CASE WriteUrl \/ Exit
  BY <1>9 DEF WriteUrl, Exit, Phases
<1>10. CASE UNCHANGED vars
  BY <1>10 DEF vars, Phases, Full, IsPage, Result
<1> QED
  BY <1>1, <1>2, <1>3, <1>4, <1>5, <1>6, <1>7, <1>8, <1>9, <1>10 DEF Next, Step, Finished

LEMMA MoveHead ==
  ASSUME NEW p \in Seq(Url), NEW q \in Seq(Url), q # <<>>
  PROVE  Append(p, Head(q)) \o Tail(q) = p \o q
<1>1. Head(q) \in Url /\ Tail(q) \in Seq(Url) /\ q = <<Head(q)>> \o Tail(q)
  OBVIOUS
<1>2. Append(p, Head(q)) = p \o <<Head(q)>> /\ <<Head(q)>> \in Seq(Url)
  BY <1>1, AppendIsConcat
<1>3. (p \o <<Head(q)>>) \o Tail(q) = p \o (<<Head(q)>> \o Tail(q))
  BY <1>1, <1>2, ConcatAssociative
<1> QED
  BY <1>1, <1>2, <1>3

LEMMA NextFound ==
  ASSUME Types, Phases, Answers, Types', [Next]_vars
  PROVE  /\ found \in Seq(Url)
         /\ ReadPng => found' = Append(found, Result.effective_url)
         /\ ~ ReadPng => found' = found /\ num_png_found' = num_png_found
<1>0. /\ found \in Seq(Url) /\ png_urls \in Seq(Url) /\ returned \in Seq(Url)
      /\ search_results \in Seq(Url)
  BY DEF found, Types
<1>1. CASE ReadPng
  <2>1. /\ search_results' = Append(search_results, Result.effective_url)
        /\ UNCHANGED <<returned, png_urls>> /\ returned = <<>> /\ png_urls = <<>>
    BY <1>1 DEF ReadPng, ReadMessage, Phases
  <2>2. Result.effective_url \in Url
    BY <1>1, MessageRead DEF ReadPng, ReadMessage
  <2>3. found = search_results /\ found' = search_results'
    <3>1. search_results' \in Seq(Url)
      BY DEF Types
    <3> QED
      BY <1>0, <2>1, <3>1, ConcatEmptySeq DEF found
  <2> QED
    BY <1>0, <1>1, <2>1, <2>3
<1>2. CASE ReturnResults
  <2>1. /\ main = "open" /\ returned' = search_results /\ search_results' = <<>>
        /\ UNCHANGED <<png_urls, num_png_found>> /\ main' = "done"
    BY <1>2 DEF ReturnResults
  <2>2. returned = <<>> /\ png_urls = <<>>
    BY <2>1 DEF Phases
  <2> QED
    BY <1>0, <2>1, <2>2, ConcatEmptySeq DEF found, ReadPng, ReadMessage
<1>3. CASE WriteUrl
  <2>1. /\ png_urls' = Append(png_urls, Head(returned)) /\ returned' = Tail(returned)
        /\ returned # <<>> /\ main = "done" /\ UNCHANGED <<search_results, num_png_found>>
    BY <1>3 DEF WriteUrl
  <2>2. png_urls' \o returned' = png_urls \o returned
    BY <1>0, <2>1, MoveHead
  <2> QED
    BY <1>0, <2>1, <2>2 DEF found, ReadPng, ReadMessage
<1>4. CASE UNCHANGED <<search_results, returned, png_urls, num_png_found>>
  BY <1>0, <1>1, <1>4 DEF found
<1>5. \/ ReadPng \/ ReturnResults \/ WriteUrl
      \/ UNCHANGED <<search_results, returned, png_urls, num_png_found>>
  BY DEF Next, Step, Finished, vars, OpenConnections, AllEnded, CycleDone, TransferEnds,
     ReadTooMany, ReadPage, EnqueueLink, LinksDone, Exit, WaitFails
<1> QED
  BY <1>0, <1>1, <1>2, <1>3, <1>4, <1>5

LEMMA NextCounted ==
  ASSUME Types, Phases, Answers, ResultsCounted, Types', Phases', [Next]_vars
  PROVE  ResultsCounted'
<1>1. Len(found') = num_png_found' /\ num_png_found' <= MaxResults
  <2>1. CASE ReadPng
    <3>1. /\ num_png_found' = num_png_found + 1 /\ num_png_found < MaxResults
          /\ num_png_found \in Nat /\ MaxResults \in Nat
      BY <2>1, MultiBfsAssumption DEF ReadPng, Types
    <3>2. Result.effective_url \in Url
      BY <2>1, MessageRead DEF ReadPng, ReadMessage
    <3>3. found' = Append(found, Result.effective_url) /\ found \in Seq(Url)
      BY <2>1, NextFound
    <3>4. Len(found') = Len(found) + 1
      BY <3>2, <3>3, AppendProperties
    <3> QED
      BY <3>1, <3>4 DEF ResultsCounted
  <2>2. CASE ~ ReadPng
    BY <2>2, NextFound DEF ResultsCounted
  <2> QED
    BY <2>1, <2>2
<1>2. main' = "exited" => png_urls' = found'
  <2> SUFFICES ASSUME main' = "exited" PROVE png_urls' = found'
    OBVIOUS
  <2>1. returned' = <<>> /\ search_results' = <<>> /\ png_urls' \in Seq(Url)
    BY DEF Phases, Types
  <2> QED
    BY <2>1, ConcatEmptySeq DEF found
<1> QED
  BY <1>1, <1>2 DEF ResultsCounted

LEMMA NextCovered ==
  ASSUME Types, Phases, Answers, Covered, Types', [Next]_vars
  PROVE  Covered'
<1> SUFFICES ASSUME ~ Full', wait_failures' = 0, NEW u \in visited' \cup {Root},
                    u \notin Pending'
             PROVE  Explored(u)'
  BY DEF Covered
<1>1. /\ num_png_found \in Nat /\ wait_failures \in Nat /\ MaxResults \in Nat
      /\ frontier \in Seq(Url)
  BY MultiBfsAssumption DEF Types
<1>2. ~ WaitFails /\ wait_failures = 0
  <2>1. ~ WaitFails
    BY <1>1 DEF WaitFails
  <2>2. UNCHANGED wait_failures
    BY <2>1 DEF Next, Step, Finished, vars, OpenConnections, AllEnded, CycleDone, TransferEnds,
       ReadTooMany, ReadPage, ReadPng, EnqueueLink, LinksDone, Exit, WriteUrl, ReturnResults
  <2> QED
    BY <2>1, <2>2
<1>3. ~ Full
  <2>1. CASE ReadPng
    BY <1>1, <2>1 DEF ReadPng, Full
  <2>2. CASE ~ ReadPng
    BY <2>2, NextFound DEF Full
  <2> QED
    BY <2>1, <2>2
<1>4. Range(found) \subseteq Range(found')
  <2>1. CASE ReadPng
    <3>1. Result.effective_url \in Url
      BY <2>1, MessageRead DEF ReadPng, ReadMessage
    <3>2. found \in Seq(Url) /\ found' = Append(found, Result.effective_url)
      BY <2>1, NextFound
    <3> QED
      BY <3>1, <3>2, EnqueueRange
  <2>2. CASE ~ ReadPng
    BY <2>2, NextFound
  <2> QED
    BY <2>1, <2>2
<1>5. visited \subseteq visited' /\ (u \in visited \cup {Root} \/ u \in Range(frontier'))
  <2>1. CASE EnqueueLink
    <3>1. Head(new_urls) \in Url
      BY <2>1 DEF EnqueueLink, Types
    <3>2. Range(Append(frontier, Head(new_urls))) = Range(frontier) \cup {Head(new_urls)}
      BY <1>1, <3>1, EnqueueRange
    <3> QED
      BY <2>1, <3>2 DEF EnqueueLink
  <2>2. CASE ~ EnqueueLink
    <3>1. UNCHANGED visited
      BY <2>2 DEF Next, Step, Finished, vars, OpenConnections, AllEnded, CycleDone, TransferEnds,
         ReadTooMany, ReadPage, ReadPng, LinksDone, Exit, WriteUrl, ReturnResults, WaitFails
    <3> QED
      BY <3>1
  <2> QED
    BY <2>1, <2>2
<1>6. u \in visited \cup {Root}
  BY <1>5, PendingIs
<1>7. Explored(u) => Explored(u)'
  BY <1>4, <1>5 DEF Explored
<1>8. CASE u \notin Pending
  BY <1>2, <1>3, <1>6, <1>7, <1>8 DEF Covered
<1>9. CASE u \in Pending
  <2> DEFINE h == Head(msgs).url
  <2>0. Pending = Range(frontier) \cup Range(Active) \cup Range(UrlsOf(msgs))
        /\ Pending' = Range(frontier') \cup Range(Active') \cup Range(UrlsOf(msgs'))
    BY PendingIs
  <2>1. CASE LinksDone
    <3>1. /\ msgs # <<>> /\ IsPage(Result) /\ Range(Result.children) \subseteq visited
          /\ UNCHANGED <<frontier, Active, visited>> /\ msgs' = Tail(msgs)
      BY <2>1, EmptyRange DEF LinksDone, Phases, Active
    <3>2. Result \in work[h] /\ h \in Url
      BY <3>1, MessageRead
    <3>3. u = h
      BY <1>9, <2>0, <3>1, PlaceTypes
    <3>4. Certain(h) \subseteq visited
      BY <3>1, <3>2 DEF Certain
    <3>5. ASSUME NEW e \in Url, CertainPng(h, e) PROVE FALSE
      BY <3>1, <3>2, <3>5, NullAssumption DEF CertainPng, IsPage
    <3> QED
      BY <3>1, <3>3, <3>4, <3>5 DEF Explored
  <2>2. CASE ReadPng
    <3>1. /\ msgs # <<>> /\ ~ IsPage(Result) /\ msgs' = Tail(msgs)
          /\ UNCHANGED <<frontier, Active, visited>>
      BY <2>2 DEF ReadPng, ReadMessage, IsPage, Active
    <3>2. Result \in work[h] /\ h \in Url /\ Result.effective_url \in Url
      BY <2>2, <3>1, MessageRead DEF IsPage
    <3>3. u = h
      BY <1>9, <2>0, <3>1, PlaceTypes
    <3>4. Certain(h) = {}
      BY <3>1, <3>2 DEF Certain
    <3>5. Result.effective_url \in Range(found')
      <4>1. found \in Seq(Url) /\ found' = Append(found, Result.effective_url)
        BY <2>2, NextFound
      <4> QED
        BY <3>2, <4>1, EnqueueRange
    <3>6. \A e \in Url : CertainPng(h, e) => e \in Range(found')
      BY <3>2, <3>5 DEF CertainPng
    <3> QED
      BY <3>3, <3>4, <3>6 DEF Explored
  <2>3. ~ ReadTooMany
    BY <1>1, <1>3 DEF ReadTooMany, Full
  <2>4. CASE ReadPage
    BY <1>9, <2>0, <2>4 DEF ReadPage, Active
  <2>5. CASE Quiet /\ ~ LinksDone
    <3>1. UNCHANGED <<frontier, Active, msgs>>
      BY <2>5, QuietKeeps
    <3> QED
      BY <1>9, <2>0, <3>1
  <2>6. CASE OpenConnections
    <3>1. Pending' = Pending
      BY <2>6, OpenPending
    <3> QED
      BY <1>9, <3>1
  <2>7. CASE \E i \in 1 .. Len(running) : TransferEnds(i)
    <3>1. Pending' = Pending
      BY <2>7, TransferPending
    <3> QED
      BY <1>9, <3>1
  <2>8. CASE EnqueueLink
    <3>1. Pending \subseteq Pending'
      BY <2>8, LinkPending
    <3> QED
      BY <1>9, <3>1
  <2> QED
    BY <1>2, <2>1, <2>2, <2>3, <2>4, <2>5, <2>6, <2>7, <2>8, StepKinds
<1> QED
  BY <1>8, <1>9
-----------------------------------------------------------------------------
(***************************************************************************)
(* The invariant, and what follows from it.                                *)
(***************************************************************************)
LEMMA InitIInv == Init => IInv
<1> SUFFICES ASSUME Init PROVE IInv
  OBVIOUS
<1>1. /\ Root \in Url /\ MaxResults \in Nat /\ frontier = <<Root>> /\ msgs = <<>>
      /\ search_results = <<>> /\ returned = <<>> /\ png_urls = <<>> /\ visited = {}
      /\ running = <<>> /\ new_urls = <<>> /\ num_png_found = 0 /\ wait_failures = 0
      /\ calls = [u \in Url |-> 0] /\ main = "open"
  BY MultiBfsAssumption DEF Init
<1>2. Types
  <2>1. frontier \in Seq(Url) /\ <<>> \in Seq(Url) /\ <<>> \in Seq(Message)
    BY <1>1
  <2> QED
    BY <1>1, <2>1 DEF Types
<1>3. Phases /\ Answers
  BY <1>1 DEF Phases, Answers
<1>4. Range(frontier) = {Root} /\ Unique(frontier)
  <2>1. frontier \in Seq(Url) /\ Len(frontier) = 1 /\ frontier[1] = Root
    BY <1>1
  <2>2. Range(frontier) = {frontier[i] : i \in 1 .. 1}
    BY <2>1, RangeEquality
  <2> QED
    BY <2>1, <2>2 DEF Unique
<1>5. Active = <<>> /\ UrlsOf(Waiting) = <<>> /\ Range(<<>>) = {} /\ Unique(<<>>)
  BY <1>1, EmptyRange DEF Active, Waiting
<1>6. Untouched = {Root}
  BY <1>4, <1>5 DEF Untouched
<1>7. Apart /\ Known
  BY <1>1, <1>4, <1>5, <1>6 DEF Apart, Known
<1>8. Called
  <2> SUFFICES ASSUME NEW u \in Url
               PROVE  calls[u] + One(u \in Range(frontier)) <= One(u \in visited) + One(u = Root)
    BY DEF Called
  <2>1. calls[u] = 0 /\ One(u \in visited) = 0 /\ One(u \in Range(frontier)) = One(u = Root)
    BY <1>1, <1>4 DEF One
  <2>2. One(u = Root) \in Nat
    BY DEF One
  <2> QED
    BY <2>1, <2>2
<1>9. Covered
  BY <1>1, <1>2, <1>4, PendingIs DEF Covered
<1>10. found = <<>>
  BY <1>1, ConcatEmptySeq DEF found
<1>11. ResultsCounted
  BY <1>1, <1>10 DEF ResultsCounted
<1> QED
  BY <1>2, <1>3, <1>7, <1>8, <1>9, <1>11 DEF IInv

LEMMA NextIInv == IInv /\ [Next]_vars => IInv'
<1> SUFFICES ASSUME IInv, [Next]_vars PROVE IInv'
  OBVIOUS
<1>1. /\ Types /\ Phases /\ Answers /\ Apart /\ Known /\ Called /\ Covered
      /\ ResultsCounted
  BY DEF IInv
<1>2. Types' /\ Answers' /\ Phases'
  BY <1>1, NextTypes, NextPhases
<1> QED
  BY <1>1, <1>2, NextPlaces, NextCalled, NextCovered, NextCounted DEF IInv

(***************************************************************************)
(* The invariant: where the thread is, where each URL is, how often it has *)
(* been fetched, and what has been taken from it.                          *)
(***************************************************************************)
THEOREM Invariant == Spec => []IInv
<1>1. Init => IInv
  BY InitIInv
<1>2. IInv /\ [Next]_vars => IInv'
  BY NextIInv
<1> QED
  BY <1>1, <1>2, PTL DEF Spec

(***************************************************************************)
(* However the pages link to each other and in whichever order the         *)
(* transfers of a batch end, no URL is fetched twice but the root, which a *)
(* page may bring back once (bfs.c:94 does not mark it).                   *)
(***************************************************************************)
THEOREM FetchesOnce == Spec => []FetchedOnce
<1>1. IInv => FetchedOnce
  <2> SUFFICES ASSUME IInv, NEW u \in Url PROVE calls[u] <= IF u = Root THEN 2 ELSE 1
    BY DEF FetchedOnce
  <2>1. /\ calls[u] + One(u \in Range(frontier)) <= One(u \in visited) + One(u = Root)
        /\ calls[u] \in Nat
    BY DEF IInv, Called, Types
  <2>2. One(u \in Range(frontier)) \in {0, 1} /\ One(u \in visited) \in {0, 1}
        /\ One(u = Root) = IF u = Root THEN 1 ELSE 0
    BY DEF One
  <2> QED
    BY <2>1, <2>2
<1> QED
  BY Invariant, <1>1, PTL

(***************************************************************************)
(* num_png_found is the number of PNGs recorded, it stops at max_results,  *)
(* and all of them are in png_urls.txt when the program exits.             *)
(***************************************************************************)
THEOREM CountsResults == Spec => []ResultsCounted
<1>1. IInv => ResultsCounted
  BY DEF IInv
<1> QED
  BY Invariant, <1>1, PTL

(***************************************************************************)
(* A search that reaches neither max_results nor a failure of              *)
(* curl_multi_wait has visited every link of every page it was certain to  *)
(* get, and written every PNG it was certain to get.                       *)
(***************************************************************************)
THEOREM MissesNothing == Spec => []NothingMissed
<1>1. IInv => NothingMissed
  <2> SUFFICES ASSUME IInv, main = "exited", ~ Full, wait_failures = 0,
                      NEW u \in visited \cup {Root}
               PROVE  Certain(u) \subseteq visited
                      /\ \A e \in Url : CertainPng(u, e) => e \in Range(png_urls)
    BY DEF NothingMissed
  <2>1. Types /\ Phases /\ Covered /\ png_urls = found
    BY DEF IInv, ResultsCounted
  <2>2. frontier = <<>> /\ msgs = <<>> /\ Active = <<>>
    BY <2>1 DEF Phases, Active
  <2>3. Pending = {}
    BY <2>1, <2>2, PendingIs, EmptyRange
  <2> QED
    BY <2>1, <2>3 DEF Covered, Explored
<1> QED
  BY Invariant, <1>1, PTL
-----------------------------------------------------------------------------
(***************************************************************************)
(* The steps left: which number each step makes smaller.                   *)
(***************************************************************************)
WaitsBounded == wait_failures <= MaxWaitFailures

LEMMA NextWaits ==
  ASSUME Types, WaitsBounded, [Next]_vars
  PROVE  WaitsBounded'
<1>1. wait_failures' = wait_failures \/ WaitFails
  BY DEF Next, Step, Finished, OpenConnections, TransferEnds, AllEnded, ReadTooMany, ReadPng,
     ReadPage, EnqueueLink, LinksDone, CycleDone, ReturnResults, WriteUrl, Exit, vars
<1>2. CASE WaitFails
  BY <1>2, MultiBfsAssumption DEF WaitFails, WaitsBounded, Types
<1> QED
  BY <1>1, <1>2 DEF WaitsBounded

LEMMA LessIf ==
  ASSUME NEW a1, NEW a2, NEW a3, NEW a4, NEW a5, NEW a6, NEW a7, NEW a8,
         NEW b1, NEW b2, NEW b3, NEW b4, NEW b5, NEW b6, NEW b7, NEW b8,
         \/ a1 < b1
         \/ a1 = b1 /\ a2 < b2
         \/ a1 = b1 /\ a2 = b2 /\ a3 < b3
         \/ a1 = b1 /\ a2 = b2 /\ a3 = b3 /\ a4 < b4
         \/ a1 = b1 /\ a2 = b2 /\ a3 = b3 /\ a4 = b4 /\ a5 < b5
         \/ a1 = b1 /\ a2 = b2 /\ a3 = b3 /\ a4 = b4 /\ a5 = b5 /\ a6 < b6
         \/ a1 = b1 /\ a2 = b2 /\ a3 = b3 /\ a4 = b4 /\ a5 = b5 /\ a6 = b6 /\ a7 < b7
         \/ /\ a1 = b1 /\ a2 = b2 /\ a3 = b3 /\ a4 = b4 /\ a5 = b5 /\ a6 = b6 /\ a7 = b7
            /\ a8 < b8
  PROVE  Less(<<a1, a2, a3, a4, a5, a6, a7, a8>>, <<b1, b2, b3, b4, b5, b6, b7, b8>>)
  BY DEF Less

\* A batch takes at least one URL off the frontier, if any connection is allowed.
LEMMA BatchTakes ==
  ASSUME Types, max_conntions # 0, OpenConnections
  PROVE  Len(frontier') < Len(frontier)
<1> DEFINE n == num_opened_connections
<1>1. n \in 0 .. Len(frontier) /\ Len(frontier) \in Nat \ {0} /\ frontier \in Seq(Url)
  BY BatchSize DEF OpenConnections, Types
<1>2. n # 0
  <2>1. \E x \in {max_conntions, Len(frontier)} : \A y \in {max_conntions, Len(frontier)} : x =< y
    BY <1>1, MultiBfsAssumption
  <2>2. n \in {max_conntions, Len(frontier)}
    BY <2>1 DEF num_opened_connections, Min
  <2> QED
    BY <1>1, <2>2
<1>3. frontier' = SubSeq(frontier, n + 1, Len(frontier))
  BY DEF OpenConnections
<1> HIDE DEF n
<1>4. Len(SubSeq(frontier, n + 1, Len(frontier))) = Len(frontier) - n
  BY <1>1
<1> QED
  BY <1>1, <1>2, <1>3, <1>4

LEMMA ShorterTail ==
  ASSUME NEW S, NEW q \in Seq(S), q # <<>>
  PROVE  Len(Tail(q)) < Len(q) /\ Len(q) \in Nat /\ Len(Tail(q)) \in Nat
  OBVIOUS

LEMMA StepLess ==
  ASSUME IsFiniteSet(Url), max_conntions # 0, Types, Types', Phases, WaitsBounded,
         Step \/ WaitFails
  PROVE  Less(Left', Left)
<1>1. CASE WaitFails
  <2>1. MaxWaitFailures - wait_failures' < MaxWaitFailures - wait_failures
    BY <1>1, MultiBfsAssumption DEF WaitFails, Types
  <2> QED
    BY <2>1, LessIf DEF Left
<1>2. CASE OpenConnections
  <2>1. Len(frontier') < Len(frontier)
    BY <1>2, BatchTakes
  <2>2. wait_failures' = wait_failures /\ visited' = visited
    BY <1>2 DEF OpenConnections
  <2> QED
    BY <2>1, <2>2, LessIf DEF Left
<1>3. ASSUME NEW i \in 1 .. Len(running), TransferEnds(i) PROVE Less(Left', Left)
  <2>1. Len(running') < Len(running)
    BY <1>3, RemoveRange DEF TransferEnds, Types
  <2>2. wait_failures' = wait_failures /\ visited' = visited /\ frontier' = frontier
    BY <1>3 DEF TransferEnds
  <2> QED
    BY <2>1, <2>2, LessIf DEF Left
<1>4. CASE AllEnded \/ ReturnResults \/ Exit
  <2>1. PhasesLeft' < PhasesLeft
    BY <1>4 DEF AllEnded, ReturnResults, Exit, PhasesLeft
  <2>2. UNCHANGED <<wait_failures, visited, frontier, running>>
    BY <1>4 DEF AllEnded, ReturnResults, Exit
  <2> QED
    BY <2>1, <2>2, LessIf DEF Left
<1>5. CASE CycleDone
  <2>1. PhasesLeft' < PhasesLeft
    BY <1>5 DEF CycleDone, PhasesLeft
  <2>2. UNCHANGED <<wait_failures, visited, frontier>>
    BY <1>5 DEF CycleDone
  <2>3. Len(running') <= Len(running) /\ Len(running') \in Nat /\ Len(running) \in Nat
    BY <1>5 DEF CycleDone, Types
  <2>4. Len(running') < Len(running) \/ Len(running') = Len(running)
    BY <2>3
  <2> QED
    BY <2>1, <2>2, <2>4, LessIf DEF Left
<1>6. CASE ReadTooMany \/ ReadPng \/ LinksDone
  <2>1. msgs' = Tail(msgs) /\ msgs # <<>>
    BY <1>6 DEF ReadTooMany, ReadPng, LinksDone, ReadMessage, Phases
  <2>2. Len(msgs') < Len(msgs)
    BY <2>1, ShorterTail DEF Types
  <2>3. PhasesLeft' = PhasesLeft
    BY <1>6 DEF ReadTooMany, ReadPng, LinksDone, ReadMessage, PhasesLeft
  <2>4. UNCHANGED <<wait_failures, visited, frontier, running>>
    BY <1>6 DEF ReadTooMany, ReadPng, LinksDone, ReadMessage
  <2> QED
    BY <2>2, <2>3, <2>4, LessIf DEF Left
<1>7. CASE ReadPage
  <2>1. (IF main = "links" THEN 0 ELSE 1)' < (IF main = "links" THEN 0 ELSE 1)
    BY <1>7 DEF ReadPage
  <2>2. PhasesLeft' = PhasesLeft
    BY <1>7 DEF ReadPage, PhasesLeft
  <2>3. UNCHANGED <<wait_failures, visited, frontier, running, msgs>>
    BY <1>7 DEF ReadPage
  <2> QED
    BY <2>1, <2>2, <2>3, LessIf DEF Left
<1>8. CASE EnqueueLink
  <2>1. wait_failures' = wait_failures /\ new_urls # <<>>
    BY <1>8 DEF EnqueueLink
  <2>2. CASE Head(new_urls) \in visited
    <3>1. UNCHANGED <<visited, frontier, running, msgs, main, returned>> /\ new_urls' = Tail(new_urls)
      BY <1>8, <2>2 DEF EnqueueLink
    <3>2. Len(new_urls') + Len(returned') < Len(new_urls) + Len(returned)
      <4>1. Len(returned) \in Nat
        BY DEF Types
      <4> QED
        BY <2>1, <3>1, <4>1, ShorterTail DEF Types
    <3>3. PhasesLeft' = PhasesLeft
      BY <3>1 DEF PhasesLeft
    <3>4. (IF main = "links" THEN 0 ELSE 1)' = (IF main = "links" THEN 0 ELSE 1)
      BY <3>1
    <3> QED
      BY <2>1, <3>1, <3>2, <3>3, <3>4, LessIf DEF Left
  <2>3. CASE Head(new_urls) \notin visited
    <3>1. visited' = visited \cup {Head(new_urls)}
      BY <1>8, <2>3 DEF EnqueueLink
    <3>2. Head(new_urls) \in Url \ visited /\ Url \ visited' = (Url \ visited) \ {Head(new_urls)}
      BY <2>3, <3>1 DEF Types
    <3>3. /\ IsFiniteSet(Url \ visited) /\ Cardinality(Url \ visited) \in Nat
          /\ Cardinality(Url \ visited') = Cardinality(Url \ visited) - 1
      BY <3>2, FS_Subset, FS_CardinalityType, FS_RemoveElement
    <3>4. Cardinality(Url \ visited') < Cardinality(Url \ visited)
      BY <3>3
    <3> QED
      BY <2>1, <3>4, LessIf DEF Left
  <2> QED
    BY <2>2, <2>3
<1>9. CASE WriteUrl
  <2>1. /\ UNCHANGED <<wait_failures, visited, frontier, running, msgs, new_urls, main>>
        /\ returned # <<>> /\ returned' = Tail(returned)
    BY <1>9 DEF WriteUrl
  <2>2. Len(new_urls') + Len(returned') < Len(new_urls) + Len(returned)
    <3>1. Len(new_urls) \in Nat
      BY DEF Types
    <3> QED
      BY <2>1, <3>1, ShorterTail DEF Types
  <2>3. PhasesLeft' = PhasesLeft
    BY <2>1 DEF PhasesLeft
  <2>4. (IF main = "links" THEN 0 ELSE 1)' = (IF main = "links" THEN 0 ELSE 1)
    BY <2>1
  <2> QED
    BY <2>1, <2>2, <2>3, <2>4, LessIf DEF Left
<1> QED
  BY <1>1, <1>2, <1>3, <1>4, <1>5, <1>6, <1>7, <1>8, <1>9 DEF Step

LeftIsNat == Left \in [1 .. 8 -> Nat]

LEMMA LeftNat ==
  ASSUME IsFiniteSet(Url), Types, WaitsBounded
  PROVE  LeftIsNat
<1>1. MaxWaitFailures - wait_failures \in Nat
  BY MultiBfsAssumption DEF Types, WaitsBounded
<1>2. Cardinality(Url \ visited) \in Nat
  BY FS_Subset, FS_CardinalityType
<1>3. /\ Len(frontier) \in Nat /\ Len(running) \in Nat /\ Len(msgs) \in Nat
      /\ Len(new_urls) + Len(returned) \in Nat
  BY DEF Types
<1>4. PhasesLeft \in Nat /\ (IF main = "links" THEN 0 ELSE 1) \in Nat
  BY DEF PhasesLeft, Types
<1> QED
  BY <1>1, <1>2, <1>3, <1>4 DEF LeftIsNat, Left

(***************************************************************************)
(* If one connection at least is allowed and there are finitely many URLs, *)
(* the search cannot go on for ever: the numbers of Left are natural       *)
(* numbers, and every step makes the first of them that it changes smaller.*)
(***************************************************************************)
THEOREM StepsRunOut ==
  IsFiniteSet(Url) /\ max_conntions # 0 => (Spec => []LeftIsNat /\ EachStepCounts)
<1> SUFFICES ASSUME IsFiniteSet(Url), max_conntions # 0
             PROVE  Spec => []LeftIsNat /\ EachStepCounts
  OBVIOUS
<1>1. Init => WaitsBounded
  BY MultiBfsAssumption DEF Init, WaitsBounded
<1>2. IInv /\ WaitsBounded => LeftIsNat
  BY LeftNat DEF IInv
<1>3. IInv /\ WaitsBounded /\ [Next]_vars => WaitsBounded'
  BY NextWaits DEF IInv
<1>4. IInv /\ IInv' /\ WaitsBounded /\ [Next]_vars => [Less(Left', Left)]_vars
  BY StepLess DEF IInv, Next, Finished
<1> QED
  BY <1>1, <1>2, <1>3, <1>4, Invariant, PTL DEF Spec, EachStepCounts
-----------------------------------------------------------------------------
(***************************************************************************)
(* The batches implement the crawl.                                        *)
(***************************************************************************)
Ended == IF Full THEN "full" ELSE IF main \in {"done", "exited"} THEN "exhausted" ELSE "no"

LEMMA InitCrawl == Init => CrawlOf!Init
<1> SUFFICES ASSUME Init PROVE CrawlOf!Init
  OBVIOUS
<1>1. Types /\ Root \in Url /\ MaxResults \in Nat
  BY InitIInv, MultiBfsAssumption DEF IInv
<1>2. /\ frontier = <<Root>> /\ msgs = <<>> /\ search_results = <<>> /\ returned = <<>>
      /\ png_urls = <<>> /\ visited = {} /\ num_png_found = 0 /\ main = "open"
  BY DEF Init
<1>3. Pending = {Root}
  <2>1. frontier \in Seq(Url) /\ Len(frontier) = 1 /\ frontier[1] = Root
    BY <1>1, <1>2
  <2>2. Range(frontier) = {frontier[i] : i \in 1 .. 1}
    BY <2>1, RangeEquality
  <2>3. Range(frontier) = {Root}
    BY <2>1, <2>2
  <2>4. Active = <<>>
    BY <1>2 DEF Active
  <2> QED
    BY <1>1, <1>2, <2>3, <2>4, PendingIs, EmptyRange
<1>4. found = <<>>
  BY <1>2, ConcatEmptySeq DEF found
<1>5. Ended = IF MaxResults = 0 THEN "full" ELSE "no"
  BY <1>1, <1>2 DEF Ended, Full
<1> QED
  BY <1>2, <1>3, <1>4, <1>5 DEF CrawlOf!Init, Ended

LEMMA CrawlStutters ==
  ASSUME UNCHANGED <<visited, Pending, found, Ended>>
  PROVE  CrawlOf!vars' = CrawlOf!vars
BY DEF CrawlOf!vars, Ended

LEMMA CrawlGivesUp ==
  ASSUME Types, ReadTooMany \/ WaitFails, Types', Pending' \subseteq Pending,
         UNCHANGED <<visited, found>>
  PROVE  CrawlOf!Next
<1> DEFINE U == Pending \ Pending'
<1>1. Ended' = Ended /\ (Ended = "full" \/ (MaxWaitFailures > 0 /\ Ended = "no"))
  <2>1. num_png_found' = num_png_found /\ UNCHANGED Full
    BY DEF ReadTooMany, WaitFails, Full
  <2>2. CASE ReadTooMany
    BY <2>1, <2>2 DEF ReadTooMany, Ended, Full
  <2>3. CASE WaitFails
    BY <2>1, <2>3, MultiBfsAssumption DEF WaitFails, Ended, Types
  <2> QED
    BY <2>2, <2>3
<1>2. U \in SUBSET Url
  <2>1. Pending \subseteq Url
    BY PendingUrls
  <2> QED
    BY <2>1
<1>3. CrawlOf!GiveUp(U)
  BY <1>1 DEF CrawlOf!GiveUp, Ended
<1> QED
  BY <1>2, <1>3 DEF CrawlOf!Next

LEMMA CrawlReports ==
  ASSUME Types, Phases, Answers, Apart, ResultsCounted, Types', ReadPng
  PROVE  CrawlOf!Next
<1> DEFINE h == Head(msgs).url
<1>1. /\ msgs # <<>> /\ main = "read" /\ msgs' = Tail(msgs)
      /\ num_png_found < MaxResults /\ num_png_found' = num_png_found + 1
      /\ Result.effective_url # NULL
      /\ UNCHANGED <<main, visited, frontier, Active>> /\ Waiting = msgs
  BY DEF ReadPng, ReadMessage, Active, Waiting
<1>2. /\ Result \in work[h] /\ h \in Url /\ Result \in search_return_t
      /\ Result.effective_url \in Url
  BY <1>1, MessageRead
<1>3. h \in Pending /\ Pending' = Pending \ {h}
  BY <1>1, PendingIs, PlaceTypes DEF Apart
<1>4. found \in Seq(Url) /\ found' = Append(found, Result.effective_url)
  BY NextFound DEF Next, Step
<1>5. num_png_found \in Nat /\ MaxResults \in Nat
  BY MultiBfsAssumption DEF Types
<1>6. Len(found') = num_png_found + 1
  BY <1>2, <1>4, AppendProperties DEF ResultsCounted
<1>7. Ended = "no"
  BY <1>1, <1>5 DEF Ended, Full
<1>8. Ended' = IF Len(found') = MaxResults THEN "full" ELSE "no"
  BY <1>1, <1>5, <1>6 DEF Ended, Full
<1>9. CrawlOf!Report(h)
  BY <1>1, <1>2, <1>3, <1>4, <1>7, <1>8, NullAssumption DEF CrawlOf!Report, Ended
<1> QED
  BY <1>2, <1>9 DEF CrawlOf!Next

LEMMA CrawlDiscovers ==
  ASSUME Types, Phases, Answers, Types', EnqueueLink
  PROVE  CrawlOf!Next \/ CrawlOf!vars' = CrawlOf!vars
<1> DEFINE h == Head(msgs).url
           c == Head(new_urls)
<1>1. /\ main = "links" /\ msgs # <<>> /\ ~ Full /\ IsPage(Result) /\ new_urls # <<>>
      /\ Range(new_urls) \subseteq Range(Result.children)
      /\ UNCHANGED <<main, num_png_found, found>> /\ new_urls \in Seq(Url) /\ c \in Url
  BY DEF EnqueueLink, Phases, Types, found
<1>2. Result \in work[h] /\ h \in Url /\ Result \in search_return_t
  BY <1>1, MessageRead
<1>3. c \in Range(Result.children)
  BY <1>1, DequeueRange
<1>4. h \in Pending
  BY <1>1, PendingIs, PlaceTypes
<1>5. Ended = "no" /\ Ended' = Ended
  BY <1>1 DEF Ended, Full
<1>6. CASE c \in visited
  <2>1. Pending' = Pending /\ visited' = visited
    BY <1>6, LinkPending DEF EnqueueLink
  <2> QED
    BY <1>1, <1>5, <2>1, CrawlStutters
<1>7. CASE c \notin visited
  <2>1. Pending' = Pending \cup {c} /\ visited' = visited \cup {c}
    BY <1>7, LinkPending DEF EnqueueLink
  <2>2. Result \in CrawlOf!Pages(h) /\ c \in CrawlOf!Range(Result.children)
    BY <1>1, <1>2, <1>3, NullAssumption DEF CrawlOf!Pages, IsPage, Range, CrawlOf!Range
  <2>3. CrawlOf!Discover(h, c)
    BY <1>1, <1>4, <1>5, <1>7, <2>1, <2>2 DEF CrawlOf!Discover, Ended
  <2> QED
    BY <1>1, <1>2, <2>3 DEF CrawlOf!Next
<1> QED
  BY <1>6, <1>7

LEMMA CrawlFinishes ==
  ASSUME Types, Phases, Answers, Types', LinksDone
  PROVE  CrawlOf!Next \/ CrawlOf!vars' = CrawlOf!vars
<1> DEFINE h == Head(msgs).url
<1>1. /\ main = "links" /\ msgs # <<>> /\ ~ Full /\ IsPage(Result) /\ msgs' = Tail(msgs)
      /\ Range(Result.children) \subseteq visited /\ main' = "read"
      /\ UNCHANGED <<num_png_found, found, visited, frontier, Active>>
  BY EmptyRange DEF LinksDone, Phases, found, Active
<1>2. Result \in work[h] /\ h \in Url /\ Result \in search_return_t
  BY <1>1, MessageRead
<1>3. Pending = Pending' \cup {h}
  BY <1>1, PendingIs, PlaceTypes
<1>4. Ended = "no" /\ Ended' = Ended
  BY <1>1 DEF Ended, Full
<1>5. CASE h \in Pending'
  BY <1>1, <1>3, <1>4, <1>5, CrawlStutters
<1>6. CASE h \notin Pending'
  <2>1. Result \in CrawlOf!Pages(h) /\ CrawlOf!Range(Result.children) \subseteq visited
    BY <1>1, <1>2, NullAssumption DEF CrawlOf!Pages, IsPage, Range, CrawlOf!Range
  <2>2. Pending' = Pending \ {h} /\ h \in Pending
    BY <1>3, <1>6
  <2>3. CrawlOf!Finish(h)
    BY <1>1, <1>4, <2>1, <2>2 DEF CrawlOf!Finish, Ended
  <2> QED
    BY <1>2, <2>3 DEF CrawlOf!Next
<1> QED
  BY <1>5, <1>6

LEMMA CrawlEnds ==
  ASSUME Types, Phases, Types', ReturnResults, found' = found
  PROVE  CrawlOf!Next \/ CrawlOf!vars' = CrawlOf!vars
<1>1. /\ main = "open" /\ main' = "done" /\ frontier = <<>> /\ msgs = <<>> /\ Active = <<>>
      /\ UNCHANGED <<visited, num_png_found, msgs, frontier, Active>>
  BY DEF ReturnResults, Phases, Active
<1>2. Pending = {} /\ Pending' = Pending
  BY <1>1, PendingIs, EmptyRange
<1>3. CASE Full
  <2>1. Ended' = Ended
    BY <1>1, <1>3 DEF Ended, Full
  <2> QED
    BY <1>1, <1>2, <2>1, CrawlStutters
<1>4. CASE ~ Full
  <2>1. Ended = "no" /\ Ended' = "exhausted"
    BY <1>1, <1>4 DEF Ended, Full
  <2>2. CrawlOf!Exhaust
    BY <1>1, <1>2, <2>1 DEF CrawlOf!Exhaust, Ended
  <2> QED
    BY <2>2 DEF CrawlOf!Next
<1> QED
  BY <1>3, <1>4

LEMMA StepCrawl ==
  ASSUME IInv, IInv', [Next]_vars
  PROVE  CrawlOf!Next \/ CrawlOf!vars' = CrawlOf!vars
<1>0. /\ Types /\ Phases /\ Answers /\ Apart /\ Known /\ Called /\ Covered /\ ResultsCounted
      /\ Types'
  BY DEF IInv
<1>1. ~ ReadPng => found' = found /\ num_png_found' = num_png_found
  BY <1>0, NextFound
<1>2. CASE ReadPng
  BY <1>0, <1>2, CrawlReports
<1>3. CASE ReadTooMany \/ WaitFails
  <2>1. UNCHANGED <<visited, frontier>> /\ ~ ReadPng
    BY <1>0, <1>3, MultiBfsAssumption
    DEF ReadTooMany, WaitFails, ReadPng, ReadMessage, Types
  <2>2. Pending' \subseteq Pending
    <3>1. CASE ReadTooMany
      BY <1>0, <3>1, PendingIs, PlaceTypes DEF ReadTooMany, ReadMessage, Active
    <3>2. CASE WaitFails
      BY <1>0, <3>2, PendingIs, EmptyRange DEF WaitFails, Active
    <3> QED
      BY <1>3, <3>1, <3>2
  <2> QED
    BY <1>0, <1>1, <1>3, <2>1, <2>2, CrawlGivesUp
<1>4. CASE EnqueueLink
  BY <1>0, <1>4, CrawlDiscovers
<1>5. CASE LinksDone
  BY <1>0, <1>5, CrawlFinishes
<1>6. CASE ReturnResults
  BY <1>0, <1>1, <1>6, CrawlEnds DEF ReturnResults, ReadPng, ReadMessage
<1>7. CASE OpenConnections \/ \E i \in 1 .. Len(running) : TransferEnds(i)
  <2>1. /\ main \in {"open", "transfer"} /\ main' = "transfer"
        /\ UNCHANGED <<visited, num_png_found>>
    BY <1>7 DEF OpenConnections, TransferEnds
  <2>2. Pending' = Pending /\ found' = found
    BY <1>0, <1>1, <1>7, <2>1, OpenPending, TransferPending DEF ReadPng, ReadMessage
  <2>3. Ended' = Ended
    BY <2>1 DEF Ended, Full
  <2> QED
    BY <2>1, <2>2, <2>3, CrawlStutters
<1>8. CASE AllEnded \/ CycleDone \/ ReadPage
  <2>1. /\ main \notin {"done", "exited"} /\ main' \notin {"done", "exited"}
        /\ UNCHANGED <<visited, num_png_found, found, frontier, Active, msgs>>
    BY <1>8 DEF AllEnded, CycleDone, ReadPage, found, Active
  <2>2. Pending' = Pending
    BY <1>0, <2>1, PendingIs
  <2>3. Ended' = Ended
    BY <2>1 DEF Ended, Full
  <2> QED
    BY <2>1, <2>2, <2>3, CrawlStutters
<1>9. CASE WriteUrl \/ Exit \/ UNCHANGED vars
  <2>1. /\ main \in {"done", "exited"} <=> main' \in {"done", "exited"}
        /\ UNCHANGED <<visited, num_png_found, frontier, Active, msgs>> /\ ~ ReadPng
    BY <1>0, <1>9 DEF WriteUrl, Exit, vars, Active, ReadPng, ReadMessage, Types
  <2>2. Pending' = Pending /\ found' = found
    BY <1>0, <1>1, <2>1, PendingIs
  <2>3. Ended' = Ended
    BY <2>1 DEF Ended, Full
  <2> QED
    BY <2>1, <2>2, <2>3, CrawlStutters
<1> QED
  BY StepKinds, <1>2, <1>3, <1>4, <1>5, <1>6, <1>7, <1>8, <1>9 DEF Quiet

(***************************************************************************)
(* Every step of the batches is a step of Crawl, or leaves what it sees    *)
(* unchanged: a link is discovered once, a PNG is reported when its        *)
(* message is read, a page is finished when its links have been looked up, *)
(* and only a full crawl or a failed curl_multi_wait gives anything up.    *)
(***************************************************************************)
THEOREM Implements == Spec => ImplementsCrawl
<1>1. Init => CrawlOf!Init
  BY InitCrawl
<1>2. IInv /\ IInv' /\ [Next]_vars => [CrawlOf!Next]_(CrawlOf!vars)
  BY StepCrawl
<1> QED
  BY Invariant, <1>1, <1>2, PTL DEF Spec, CrawlOf!Spec, ImplementsCrawl
-----------------------------------------------------------------------------
(***************************************************************************)
(* Because it is such a crawl, the search visits only what can be reached  *)
(* from the root and reports only the PNGs that are there.                 *)
(***************************************************************************)
LEMMA ResultsAreUrls ==
  ASSUME NEW u \in Url, NEW r \in work[u], r # NULL, r.effective_url # NULL
  PROVE  r.effective_url \in Url
BY MultiBfsAssumption DEF search_return_t

LEMMA ChildrenAreUrls ==
  ASSUME NEW u \in Url, NEW r \in CrawlOf!Pages(u)
  PROVE  Range(r.children) \subseteq Url
<1>1. r.children \in Seq(Url)
  BY MultiBfsAssumption DEF search_return_t, CrawlOf!Pages
<1> QED
  BY <1>1 DEF Range

LEMMA SameRange == \A q : CrawlOf!Range(q) = Range(q)
BY DEF Range, CrawlOf!Range

Reached == found \in Seq(Url) /\ CrawlOf!OnlyReachable

LEMMA NextReached ==
  ASSUME Reached, [CrawlOf!Next]_(CrawlOf!vars)
  PROVE  Reached'
<1> DEFINE Given(e, S) == \E u \in S : \E r \in work[u] : r # NULL /\ r.effective_url = e
<1>1. ASSUME NEW S \in SUBSET Url, CrawlOf!Closed(S)
      PROVE  /\ visited \cup Pending \subseteq S /\ Root \in S
             /\ \A e \in Range(found) : Given(e, S)
             /\ \A u \in S : \A r \in CrawlOf!Pages(u) : Range(r.children) \subseteq S
  BY <1>1, SameRange DEF Reached, CrawlOf!OnlyReachable, CrawlOf!Closed
<1>2. ASSUME NEW S \in SUBSET Url, CrawlOf!Closed(S)
      PROVE  /\ visited' \cup Pending' \subseteq S /\ found' \in Seq(Url)
             /\ \A e \in Range(found') : Given(e, S)
  <2> HIDE DEF Given
  <2>1. CASE \E u, c \in Url : CrawlOf!Discover(u, c)
    <3>1. PICK u \in Url, c \in Url : CrawlOf!Discover(u, c)
      BY <2>1
    <3>2. PICK r \in CrawlOf!Pages(u) : c \in Range(r.children)
      BY <3>1, SameRange DEF CrawlOf!Discover
    <3>3. u \in Pending /\ visited' = visited \cup {c} /\ Pending' = Pending \cup {c} /\ found' = found
      BY <3>1 DEF CrawlOf!Discover
    <3>4. c \in S
      BY <1>1, <1>2, <3>2, <3>3
    <3> QED
      BY <1>1, <1>2, <3>3, <3>4 DEF Reached
  <2>2. CASE \E u \in Url : CrawlOf!Report(u)
    <3>1. PICK u \in Url : CrawlOf!Report(u)
      BY <2>2
    <3>2. PICK r \in work[u] : r # NULL /\ r.effective_url # NULL
                               /\ found' = Append(found, r.effective_url)
      BY <3>1 DEF CrawlOf!Report
    <3>3. u \in Pending /\ visited' = visited /\ Pending' = Pending \ {u}
      BY <3>1 DEF CrawlOf!Report
    <3>4. r.effective_url \in Url
      BY <3>2, ResultsAreUrls
    <3>5. found' \in Seq(Url) /\ Range(found') = Range(found) \cup {r.effective_url}
      BY <3>2, <3>4, EnqueueRange DEF Reached
    <3>6. Given(r.effective_url, S)
      BY <1>1, <1>2, <3>2, <3>3 DEF Given
    <3> QED
      BY <1>1, <1>2, <3>3, <3>5, <3>6
  <2>3. CASE \E u \in Url : CrawlOf!Finish(u)
    <3>1. visited' = visited /\ Pending' \subseteq Pending /\ found' = found
      BY <2>3 DEF CrawlOf!Finish
    <3> QED
      BY <1>1, <1>2, <3>1 DEF Reached
  <2>4. CASE (\E U \in SUBSET Url : CrawlOf!GiveUp(U)) \/ CrawlOf!Exhaust \/ UNCHANGED CrawlOf!vars
    <3>1. visited' = visited /\ Pending' \subseteq Pending /\ found' = found
      BY <2>4 DEF CrawlOf!GiveUp, CrawlOf!Exhaust, CrawlOf!vars
    <3> QED
      BY <1>1, <1>2, <3>1 DEF Reached
  <2> QED
    BY <2>1, <2>2, <2>3, <2>4 DEF CrawlOf!Next
<1>3. CrawlOf!Closed(Url)
  BY MultiBfsAssumption, ChildrenAreUrls, SameRange DEF CrawlOf!Closed
<1>4. found' \in Seq(Url)
  BY <1>2, <1>3
<1> QED
  BY <1>2, <1>4, SameRange DEF Reached, CrawlOf!OnlyReachable

LEMMA AlwaysReached == Spec => []Reached
<1>1. CrawlOf!Init => Reached
  <2> SUFFICES ASSUME CrawlOf!Init PROVE Reached
    OBVIOUS
  <2>1. visited \subseteq {Root} /\ Pending = {Root} /\ found = <<>> /\ Range(found) = {}
    BY EmptyRange DEF CrawlOf!Init
  <2> QED
    BY <2>1, SameRange DEF Reached, CrawlOf!OnlyReachable, CrawlOf!Closed
<1>2. Reached /\ [CrawlOf!Next]_(CrawlOf!vars) => Reached'
  BY NextReached
<1> QED
  BY <1>1, <1>2, Implements, PTL DEF ImplementsCrawl, CrawlOf!Spec

THEOREM Sound == Spec => []CrawlOf!OnlyReachable
<1>1. Reached => CrawlOf!OnlyReachable
  BY DEF Reached
<1> QED
  BY <1>1, AlwaysReached, PTL
-----------------------------------------------------------------------------
(***************************************************************************)
(* With process_data for `work` all this is about the web itself.          *)
(***************************************************************************)
LEMMA FindsLinks ==
  ASSUME NEW resp \in Response
  PROVE  /\ find_http(resp) \in Seq(HttpUrl)
         /\ Range(find_http(resp)) = IF resp.parses THEN Targets(resp) ELSE {}
<1> DEFINE n == Len(resp.hrefs)
           L == resolved(resp)
           r == CHOOSE h : Gathers(h, L, n, NULL)
<1>1. /\ resp.hrefs \in Seq(Href) /\ resp.eurl \in Url /\ n \in Nat
      /\ resp.parses \in BOOLEAN
      /\ \A i \in 1 .. n : resp.hrefs[i] \in Href
  BY DEF Response
<1>2. HttpUrl \subseteq Url /\ NULL \notin HttpUrl
  BY SiteAssumption, NullAssumption
<1>3. \A i \in 1 .. n : L[i] = IF buildURI[resp.hrefs[i], resp.eurl] \in HttpUrl
                               THEN buildURI[resp.hrefs[i], resp.eurl] ELSE NULL
  BY DEF resolved
<1>4. L \in [1 .. n -> HttpUrl \cup {NULL}]
  BY <1>3 DEF resolved
<1>5. find_http(resp) = IF ~ resp.parses THEN <<>> ELSE r[n]
  BY DEF find_http, Gathers
<1>6. Gathers(r, L, n, NULL)
  BY <1>1, GatherExists
<1> HIDE DEF L, r
<1>7. LET S == {L[j] : j \in 1 .. n} \ {NULL}
      IN  r[n] \in Seq(S) /\ Range(r[n]) = S
  <2> HIDE DEF n
  <2> QED
    BY <1>1, <1>6, GatheredRange
<1>8. {L[j] : j \in 1 .. n} \ {NULL} = Targets(resp)
  BY <1>2, <1>3 DEF Targets
<1>9. Targets(resp) \subseteq HttpUrl
  BY DEF Targets
<1>10. r[n] \in Seq(Targets(resp)) /\ Range(r[n]) = Targets(resp)
  <2> HIDE DEF n
  <2> QED
    BY <1>7, <1>8
<1>11. Seq(Targets(resp)) \subseteq Seq(HttpUrl) /\ <<>> \in Seq(HttpUrl)
  BY <1>9
<1> HIDE DEF n
<1> QED
  BY <1>1, <1>5, <1>10, <1>11, RangeOfEmpty

(***************************************************************************)
(* What process_data makes of one response.                                *)
(***************************************************************************)
LEMMA CrawlsResponse ==
  ASSUME NEW resp \in Response, resp # NULL
  PROVE  /\ children(resp) \in Seq(Url)
         /\ Range(children(resp)) = IF IsHtml(resp) THEN Targets(resp) ELSE {}
         /\ effective_url(resp) = IF IsPng(resp) THEN resp.eurl ELSE NULL
         /\ resp.eurl \in Url /\ resp.eurl # NULL
         /\ IsHtml(resp) => ~ IsPng(resp)
<1>1. resp.eurl \in Url /\ resp.eurl # NULL /\ HttpUrl \subseteq Url /\ resp.parses \in BOOLEAN
      /\ resp.signature \in BOOLEAN
  BY SiteAssumption, NullAssumption DEF Response
<1>2. find_http(resp) \in Seq(HttpUrl)
      /\ Range(find_http(resp)) = IF resp.parses THEN Targets(resp) ELSE {}
  BY FindsLinks
<1>3. Seq(HttpUrl) \subseteq Seq(Url)
  BY <1>1
<1>4. children(resp) \in Seq(Url)
      /\ Range(children(resp)) = IF IsHtml(resp) THEN Targets(resp) ELSE {}
  <2>1. CASE Usable(resp) /\ resp.ct = "html"
    BY <1>2, <1>3, <2>1 DEF children, Usable, IsHtml
  <2>2. CASE ~ (Usable(resp) /\ resp.ct = "html")
    <3>1. children(resp) = <<>> /\ ~ IsHtml(resp)
      BY <2>2 DEF children, Usable, IsHtml
    <3> QED
      BY <3>1, RangeOfEmpty
  <2> QED
    BY <2>1, <2>2
<1>5. effective_url(resp) = IF IsPng(resp) THEN resp.eurl ELSE NULL
  BY <1>1 DEF effective_url, Usable, is_png, IsPng
<1> QED
  BY <1>1, <1>4, <1>5 DEF IsHtml, IsPng

(***************************************************************************)
(* What MultiBfs assumes of `work` is true of process_data: whatever a     *)
(* transfer ends with, it finds links and an effective URL.                *)
(***************************************************************************)
LEMMA CrawlerReturns ==
  ASSUME NEW u \in Url, NEW r \in process_data(u)
  PROVE  \/ r = [children |-> <<>>, effective_url |-> NULL]
         \/ \E resp \in site[u] :
              /\ resp # NULL /\ resp \in Response
              /\ r = [children |-> children(resp), effective_url |-> effective_url(resp)]
  BY SiteAssumption DEF process_data

THEOREM CrawlerFits ==
  \A u \in Url : process_data(u) # {} /\ process_data(u) \subseteq search_return_t
<1> SUFFICES ASSUME NEW u \in Url
             PROVE  process_data(u) # {} /\ process_data(u) \subseteq search_return_t
  OBVIOUS
<1>1. process_data(u) # {}
  <2>1. PICK resp : resp \in site[u]
    BY SiteAssumption
  <2> QED
    BY <2>1 DEF process_data
<1>2. ASSUME NEW r \in process_data(u)
      PROVE  r \in search_return_t
  <2>1. CASE r = [children |-> <<>>, effective_url |-> NULL]
    BY <2>1 DEF search_return_t
  <2>2. ASSUME NEW resp \in site[u], resp # NULL, resp \in Response,
               r = [children |-> children(resp), effective_url |-> effective_url(resp)]
        PROVE  r \in search_return_t
    <3>1. children(resp) \in Seq(Url) /\ effective_url(resp) \in Url \cup {NULL}
      BY <2>2, CrawlsResponse
    <3> QED
      BY <2>2, <3>1 DEF search_return_t
  <2> QED
    BY <2>1, <2>2, CrawlerReturns
<1> QED
  BY <1>1, <1>2

OnSite == work = [u \in Url |-> process_data(u)]

LEMMA ReachableClosed ==
  /\ ClosedFrom(Root, Reachable(Root))
  /\ \A S \in SUBSET Url : ClosedFrom(Root, S) => Reachable(Root) \subseteq S
  /\ Reachable(Root) \subseteq HttpUrl \cup {Root}
<1>1. \A u \in Url : Links(u) \subseteq HttpUrl
  BY DEF Links, Targets
<1>2. Root \in Url /\ HttpUrl \subseteq Url
  BY MultiBfsAssumption, SiteAssumption
<1>3. Root \in Reachable(Root)
  BY <1>2 DEF Reachable, ClosedFrom
<1>4. ASSUME NEW u \in Reachable(Root), NEW c \in Links(u)
      PROVE  c \in Reachable(Root)
  <2>1. u \in Url /\ c \in Url /\ \A S \in SUBSET Url : ClosedFrom(Root, S) => u \in S
    BY <1>1, <1>2 DEF Reachable
  <2>2. \A S \in SUBSET Url : ClosedFrom(Root, S) => c \in S
    BY <2>1 DEF ClosedFrom
  <2> QED
    BY <2>1, <2>2 DEF Reachable
<1>5. ClosedFrom(Root, Reachable(Root))
  BY <1>3, <1>4 DEF ClosedFrom
<1>6. \A S \in SUBSET Url : ClosedFrom(Root, S) => Reachable(Root) \subseteq S
  BY DEF Reachable
<1>7. ClosedFrom(Root, HttpUrl \cup {Root})
  BY <1>1, <1>2 DEF ClosedFrom
<1> QED
  BY <1>2, <1>5, <1>6, <1>7

LEMMA SiteResult ==
  ASSUME OnSite, NEW u \in Url, NEW r \in work[u]
  PROVE  /\ Range(r.children) \subseteq Links(u)
         /\ r.effective_url # NULL => r.effective_url \in Pngs(u)
<1>1. CASE r = [children |-> <<>>, effective_url |-> NULL]
  BY <1>1, RangeOfEmpty
<1>2. ASSUME NEW resp \in site[u], resp # NULL, resp \in Response,
             r = [children |-> children(resp), effective_url |-> effective_url(resp)]
      PROVE  /\ Range(r.children) \subseteq Links(u)
             /\ r.effective_url # NULL => r.effective_url \in Pngs(u)
  <2>1. Range(r.children) = IF IsHtml(resp) THEN Targets(resp) ELSE {}
    BY <1>2, CrawlsResponse
  <2>2. r.effective_url # NULL => IsPng(resp) /\ r.effective_url = resp.eurl
    BY <1>2, CrawlsResponse
  <2> QED
    BY <1>2, <2>1, <2>2 DEF Links, Pngs
<1> QED
  BY <1>1, <1>2, CrawlerReturns DEF OnSite

LEMMA SteadyResult ==
  ASSUME OnSite, Steady, NEW u \in Url
  PROVE  \E r \in search_return_t :
           /\ work[u] = {r}
           /\ Links(u) # {} => r.effective_url = NULL /\ Range(r.children) = Links(u)
           /\ \A e \in Pngs(u) : r.effective_url = e
<1>1. PICK resp \in Response : site[u] = {resp} /\ resp # NULL
  BY SiteAssumption DEF Steady
<1> DEFINE r == [children |-> children(resp), effective_url |-> effective_url(resp)]
<1>2. work[u] = {r}
  BY <1>1 DEF OnSite, process_data
<1>3. Links(u) = IF IsHtml(resp) THEN Targets(resp) ELSE {}
  BY <1>1 DEF Links
<1>4. Pngs(u) = IF IsPng(resp) THEN {resp.eurl} ELSE {}
  BY <1>1 DEF Pngs
<1>5. r \in search_return_t
  BY <1>1, CrawlsResponse DEF search_return_t
<1>6. /\ Links(u) # {} => r.effective_url = NULL /\ Range(r.children) = Links(u)
      /\ \A e \in Pngs(u) : r.effective_url = e
  <2>1. r.effective_url = effective_url(resp) /\ r.children = children(resp)
    OBVIOUS
  <2> HIDE DEF r
  <2> QED
    BY <1>1, <1>3, <1>4, <2>1, CrawlsResponse
<1> HIDE DEF r
<1> QED
  BY <1>2, <1>5, <1>6

(***************************************************************************)
(* The batches visit only http URLs that links lead to from the root, and  *)
(* report only the effective URL of a response that is a PNG by status,    *)
(* Content-Type and signature, and that such a URL gave.                   *)
(***************************************************************************)
OnlyWhatIsThere ==
  /\ visited \subseteq Reachable(Root) /\ visited \subseteq HttpUrl \cup {Root}
  /\ \A e \in Range(found) : \E u \in Reachable(Root) : e \in Pngs(u)

LEMMA ReachedIsThere ==
  ASSUME OnSite, Reached
  PROVE  OnlyWhatIsThere
<1> DEFINE S == Reachable(Root)
<1>1. S \subseteq Url
  BY DEF Reachable
<1>2. CrawlOf!Closed(S)
  <2>1. Root \in S /\ \A u \in S : Links(u) \subseteq S
    BY ReachableClosed DEF ClosedFrom
  <2> HIDE DEF S
  <2>2. ASSUME NEW u \in S, NEW r \in CrawlOf!Pages(u)
        PROVE  Range(r.children) \subseteq S
    BY <1>1, <2>1, SiteResult DEF CrawlOf!Pages
  <2> QED
    BY <2>1, <2>2, SameRange DEF CrawlOf!Closed
<1> HIDE DEF S
<1>3. visited \subseteq S
      /\ \A e \in Range(found) : \E u \in S : \E r \in work[u] : r # NULL /\ r.effective_url = e
  BY <1>1, <1>2, SameRange DEF Reached, CrawlOf!OnlyReachable
<1>4. \A e \in Range(found) : e # NULL
  BY NullAssumption DEF Reached, Range
<1>5. ASSUME NEW e \in Range(found) PROVE \E u \in S : e \in Pngs(u)
  BY <1>1, <1>3, <1>4, SiteResult
<1> QED
  BY <1>3, <1>5, ReachableClosed DEF S, OnlyWhatIsThere

THEOREM FindsOnlyWhatIsThere == OnSite => (Spec => []OnlyWhatIsThere)
<1> SUFFICES ASSUME OnSite PROVE Spec => []OnlyWhatIsThere
  OBVIOUS
<1>1. Reached => OnlyWhatIsThere
  BY ReachedIsThere
<1> QED
  BY <1>1, AlwaysReached, PTL

(***************************************************************************)
(* Where every transfer of a URL brings the same response, a search that   *)
(* ends below max_results without a failed wait has visited exactly the    *)
(* URLs links lead to from the root, and writes exactly the PNGs they gave.*)
(***************************************************************************)
AllThereIs ==
  /\ visited \cup {Root} = Reachable(Root)
  /\ Range(png_urls) = UNION { Pngs(u) : u \in Reachable(Root) }

ExitedBelow == main = "exited" /\ ~ Full /\ wait_failures = 0

LEMMA ExhaustedIsAll ==
  ASSUME OnSite, Steady, OnlyWhatIsThere, NothingMissed, ResultsCounted, ExitedBelow
  PROVE  AllThereIs
<1> DEFINE S == visited \cup {Root}
<1>1. Reachable(Root) \subseteq Url /\ Root \in Reachable(Root)
  BY ReachableClosed DEF Reachable, ClosedFrom
<1>2. S \subseteq Reachable(Root) /\ S \subseteq Url /\ png_urls = found
  BY <1>1 DEF OnlyWhatIsThere, ResultsCounted, ExitedBelow
<1>3. \A u \in S : /\ Certain(u) \subseteq visited
                   /\ \A e \in Url : CertainPng(u, e) => e \in Range(png_urls)
  BY DEF NothingMissed, ExitedBelow
<1>4. ASSUME NEW u \in S PROVE Links(u) \subseteq S
  <2> SUFFICES ASSUME NEW c \in Links(u) PROVE c \in visited
    OBVIOUS
  <2> HIDE DEF S
  <2>1. PICK r \in search_return_t :
          work[u] = {r} /\ r.effective_url = NULL /\ Range(r.children) = Links(u)
    BY <1>2, SteadyResult
  <2>2. c \in Url
    BY SiteAssumption DEF Links, Targets
  <2>3. c \in Certain(u)
    BY <2>1, <2>2 DEF Certain, IsPage
  <2> QED
    BY <1>3, <2>3
<1>5. ClosedFrom(Root, S)
  BY <1>4 DEF ClosedFrom
<1>6. S = Reachable(Root)
  <2> HIDE DEF S
  <2> QED
    BY <1>2, <1>5, ReachableClosed
<1>7. ASSUME NEW u \in S, NEW e \in Pngs(u) PROVE e \in Range(png_urls)
  <2> HIDE DEF S
  <2>1. PICK r \in search_return_t : work[u] = {r} /\ r.effective_url = e
    BY <1>2, SteadyResult
  <2>2. e \in Url
    BY <1>2, SiteAssumption DEF Pngs, IsPng, Response
  <2>3. CertainPng(u, e)
    BY <2>1 DEF CertainPng
  <2> QED
    BY <1>3, <2>2, <2>3
<1> QED
  BY <1>2, <1>6, <1>7 DEF AllThereIs, OnlyWhatIsThere

THEOREM FindsAllThereIs == OnSite /\ Steady => (Spec => [](ExitedBelow => AllThereIs))
<1> SUFFICES ASSUME OnSite, Steady PROVE Spec => [](ExitedBelow => AllThereIs)
  OBVIOUS
<1>1. OnlyWhatIsThere /\ NothingMissed /\ ResultsCounted => (ExitedBelow => AllThereIs)
  BY ExhaustedIsAll
<1>2. Spec => []OnlyWhatIsThere
  BY FindsOnlyWhatIsThere
<1> QED
  BY <1>1, <1>2, MissesNothing, CountsResults, PTL
=============================================================================
