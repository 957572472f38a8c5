------------------------------- MODULE Paster -------------------------------
(***************************************************************************)
(* lab2/paster.c: nthreads threads download the segments of an image until *)
(* NUM_SEGMENTS of them are counted, and the main thread concatenates      *)
(* them.  The servers choose the segment they answer with.                 *)
(*                                                                         *)
(* Both critical sections of fetch_png read and write nothing but what     *)
(* global_PNG_segments.mutex protects, so each is one step; between them   *)
(* the thread downloads without the mutex.                                 *)
(***************************************************************************)
EXTENDS Naturals, FiniteSets

CONSTANTS NThreads,
          NUM_SEGMENTS,
          bodies       \* for each segment, what a body of it may be: BodyKind

BodyKind == {"png",    \* create_png_from_buf makes a PNG of it
             "bad"}    \* create_png_from_buf returns NULL

Segment == 0 .. NUM_SEGMENTS - 1
Thread == 1 .. NThreads

ASSUME PasterAssumption ==
  /\ NThreads \in Nat
  /\ NUM_SEGMENTS \in Nat \ {0}
  /\ DOMAIN bodies = Segment
  /\ \A s \in Segment : bodies[s] # {} /\ bodies[s] \subseteq BodyKind

Recv_buf == [seq : Segment, body : BodyKind]

NULL == "NULL"

VARIABLES
  p_pngs,    \* global_PNG_segments.p_pngs: NULL or "png"
  num_pngs,  \* global_PNG_segments.num_pngs
  pc,        \* where each thread is
  buf,       \* its p_recv_buf, meaningful between fetch_url and the second section
  created,   \* nthreads_created
  main,      \* where the main thread is
  joined,    \* threads joined
  image,     \* what paster returns
  bad        \* history: bodies that were counted and are no PNG

vars == <<p_pngs, num_pngs, pc, buf, created, main, joined, image, bad>>

Init ==
  /\ p_pngs = [s \in Segment |-> NULL]
  /\ num_pngs = 0
  /\ pc = [t \in Thread |-> "unborn"]
  /\ buf = [t \in Thread |-> [seq |-> 0, body |-> "bad"]]
  /\ created = 0
  /\ main = "create"
  /\ joined = 0
  /\ image = NULL
  /\ bad = 0

To(t, l) == pc' = [pc EXCEPT ![t] = l]
-----------------------------------------------------------------------------
(***************************************************************************)
(* fetch_png                                                               *)
(***************************************************************************)
\* mutant: the first section counts the segment it is about to fetch as there
CheckCount_TooSoon(t) ==
  /\ pc[t] = "check"
  /\ To(t, IF num_pngs + 1 >= NUM_SEGMENTS THEN "exited" ELSE "fetch")
  /\ UNCHANGED <<p_pngs, num_pngs, buf, created, main, joined, image, bad>>

\* mutant: > where >= is meant
CheckCount_OffByOne(t) ==
  /\ pc[t] = "check"
  /\ To(t, IF num_pngs > NUM_SEGMENTS THEN "exited" ELSE "fetch")
  /\ UNCHANGED <<p_pngs, num_pngs, buf, created, main, joined, image, bad>>

\* the first critical section; when it ends the loop, the handle is cleaned up
CheckCount(t) ==
  /\ pc[t] = "check"
  /\ To(t, IF num_pngs >= NUM_SEGMENTS THEN "exited" ELSE "fetch")
  /\ UNCHANGED <<p_pngs, num_pngs, buf, created, main, joined, image, bad>>

\* fetch_url, without the mutex
Fetch(t, s, b) ==
  /\ pc[t] = "fetch"
  /\ b \in bodies[s]
  /\ buf' = [buf EXCEPT ![t] = [seq |-> s, body |-> b]]
  /\ To(t, "store")
  /\ UNCHANGED <<p_pngs, num_pngs, created, main, joined, image, bad>>

\* fetch_url returns NULL: continue
FetchFails(t) ==
  /\ pc[t] = "fetch"
  /\ To(t, "check")
  /\ UNCHANGED <<p_pngs, num_pngs, buf, created, main, joined, image, bad>>

\* mutant: the segment is counted without a second look at p_pngs
Store_Unchecked(t) ==
  /\ pc[t] = "store"
  /\ LET seq == buf[t].seq
         ok == buf[t].body = "png"
     IN  /\ p_pngs' = [p_pngs EXCEPT ![seq] = IF ok THEN "png" ELSE NULL]
         /\ bad' = bad + IF ok THEN 0 ELSE 1
         /\ num_pngs' = num_pngs + 1
  /\ To(t, "check")
  /\ UNCHANGED <<buf, created, main, joined, image>>

\* mutant: only PNGs are counted
Store_OnlyGood(t) ==
  /\ pc[t] = "store"
  /\ LET seq == buf[t].seq
     IN  IF p_pngs[seq] = NULL /\ buf[t].body = "png"
           THEN /\ p_pngs' = [p_pngs EXCEPT ![seq] = "png"]
                /\ num_pngs' = num_pngs + 1
           ELSE UNCHANGED <<p_pngs, num_pngs>>
  /\ To(t, "check")
  /\ UNCHANGED <<buf, created, main, joined, image, bad>>

(***************************************************************************)
(* The second critical section: a segment that is not there is counted     *)
(* whatever create_png_from_buf makes of its body.  Here it makes a PNG or *)
(* NULL of it; a body that starts like a PNG but whose first chunks cannot *)
(* be read may crash the program (lab2/lab_png.c:140-181), see CatPng.     *)
(***************************************************************************)
Store(t) ==
  /\ pc[t] = "store"
  /\ LET seq == buf[t].seq
         ok == buf[t].body = "png"
     IN  IF p_pngs[seq] = NULL
           THEN /\ p_pngs' = [p_pngs EXCEPT ![seq] = IF ok THEN "png" ELSE NULL]
                /\ bad' = bad + IF ok THEN 0 ELSE 1
                /\ num_pngs' = num_pngs + 1
           ELSE UNCHANGED <<p_pngs, bad, num_pngs>>
  /\ To(t, "check")
  /\ UNCHANGED <<buf, created, main, joined, image>>
-----------------------------------------------------------------------------
(***************************************************************************)
(* paster                                                                  *)
(***************************************************************************)
\* mutant: <= where < is meant
CreateThread_OneMore ==
  /\ main = "create"
  /\ created <= NThreads
  /\ created' = created + 1
  /\ To(created', "check")
  /\ UNCHANGED <<p_pngs, num_pngs, buf, main, joined, image, bad>>

CreateThread ==
  /\ main = "create"
  /\ created < NThreads
  /\ created' = created + 1
  /\ To(created', "check")
  /\ UNCHANGED <<p_pngs, num_pngs, buf, main, joined, image, bad>>

\* all threads exist, or pthread_create or realloc failed and the loop is left
CreateDone ==
  /\ main = "create"
  /\ main' = "join"
  /\ UNCHANGED <<p_pngs, num_pngs, pc, buf, created, joined, image, bad>>

JoinThread ==
  /\ main = "join"
  /\ joined < created
  /\ pc[joined + 1] = "exited"
  /\ joined' = joined + 1
  /\ UNCHANGED <<p_pngs, num_pngs, pc, buf, created, main, image, bad>>

\* concatenate_pngs refuses a NULL segment
Concatenate ==
  /\ main = "join"
  /\ joined = created
  /\ image' = IF \E s \in Segment : p_pngs[s] = NULL THEN NULL ELSE "png"
  /\ main' = "done"
  /\ UNCHANGED <<p_pngs, num_pngs, pc, buf, created, joined, bad>>

Finished == main = "done" /\ UNCHANGED vars
-----------------------------------------------------------------------------
FetchPng(t) ==
  \/ CheckCount(t) \/ FetchFails(t) \/ Store(t)
  \/ \E s \in Segment, b \in BodyKind : Fetch(t, s, b)

Main == CreateThread \/ CreateDone \/ JoinThread \/ Concatenate

Next == Main \/ Finished \/ \E t \in Thread : FetchPng(t)

(***************************************************************************)
(* The threads run, and the servers hand out every segment again and       *)
(* again: some thread that keeps asking will be given it.  Without this    *)
(* the code makes no promise, and neither does the lab's server, which     *)
(* draws the segment at random.                                            *)
(***************************************************************************)
Fairness ==
  /\ WF_vars(Main)
  /\ \A t \in Thread : WF_vars(CheckCount(t)) /\ WF_vars(Store(t))
  /\ \A s \in Segment : SF_vars(\E t \in Thread, b \in BodyKind : Fetch(t, s, b))

Spec == Init /\ [][Next]_vars /\ Fairness
=============================================================================
