--------------------------- MODULE Paster_proofs ---------------------------
(***************************************************************************)
(* Proofs about Paster, for any number of threads and segments and         *)
(* whatever the bodies may be.                                             *)
(***************************************************************************)
EXTENDS PasterProps, FiniteSetTheorems, TLAPS

\* the threads that passed the check and have not stored yet
InFlight == { t \in Thread : pc[t] \in {"fetch", "store"} }

\* The count and the threads about to add to it.
CountBounded == num_pngs + Cardinality(InFlight) < NUM_SEGMENTS + NThreads

\* A thread ends only after the count was reached, and the main thread goes
\* past a thread only after it ended.
ExitMeans ==
  /\ \A t \in Thread : pc[t] = "exited" => num_pngs >= NUM_SEGMENTS
  /\ \A t \in 1 .. joined : pc[t] = "exited"
  /\ main = "done" => joined = created

ImageMeans == main = "done" /\ Stored = Segment => image = "png"

IInv == TypeOK /\ CountsStored /\ ExitMeans /\ ImageMeans
-----------------------------------------------------------------------------
LEMMA Constants ==
  /\ NThreads \in Nat
  /\ NUM_SEGMENTS \in Nat /\ NUM_SEGMENTS > 0
  /\ IsFiniteSet(Segment) /\ Cardinality(Segment) = NUM_SEGMENTS
  /\ IsFiniteSet(Thread) /\ Cardinality(Thread) = NThreads
<1>1. NThreads \in Nat /\ NUM_SEGMENTS \in Nat /\ NUM_SEGMENTS > 0
  BY PasterAssumption
<1>2. IsFiniteSet(Segment) /\ Cardinality(Segment) = NUM_SEGMENTS
  <2>1. IsFiniteSet(0 .. NUM_SEGMENTS - 1)
        /\ Cardinality(0 .. NUM_SEGMENTS - 1) = NUM_SEGMENTS
    BY <1>1, FS_Interval
  <2> QED
    BY <2>1 DEF Segment
<1>3. IsFiniteSet(Thread) /\ Cardinality(Thread) = NThreads
  <2>1. IsFiniteSet(1 .. NThreads) /\ Cardinality(1 .. NThreads) = NThreads
    BY <1>1, FS_Interval
  <2> QED
    BY <2>1 DEF Thread
<1> QED
  BY <1>1, <1>2, <1>3

LEMMA SubsetCount ==
  ASSUME NEW S, IsFiniteSet(S), NEW T \in SUBSET S
  PROVE  IsFiniteSet(T) /\ Cardinality(T) \in Nat /\ Cardinality(T) <= Cardinality(S)
  BY FS_Subset, FS_CardinalityType

(***************************************************************************)
(* The types.                                                              *)
(***************************************************************************)
LEMMA InitTyped == Init => TypeOK
  BY Constants DEF Init, TypeOK, Segment, Thread, Recv_buf, BodyKind, NULL

LEMMA StepTyped == TypeOK /\ [Next]_vars => TypeOK'
<1> SUFFICES ASSUME TypeOK, [Next]_vars PROVE TypeOK'
  OBVIOUS
<1> USE Constants DEF TypeOK, NULL
<1>1. ASSUME NEW t \in Thread, CheckCount(t) PROVE TypeOK'
  BY <1>1 DEF CheckCount, To
<1>2. ASSUME NEW t \in Thread, FetchFails(t) PROVE TypeOK'
  BY <1>2 DEF FetchFails, To
<1>3. ASSUME NEW t \in Thread, Store(t) PROVE TypeOK'
  <2>1. buf[t].seq \in Segment
    BY DEF Recv_buf
  <2>2. p_pngs' \in [Segment -> {NULL, "png"}] /\ num_pngs' \in Nat /\ bad' \in Nat
    BY <1>3, <2>1 DEF Store
  <2> QED
    BY <1>3, <2>2 DEF Store, To
<1>4. ASSUME NEW t \in Thread, NEW s \in Segment, NEW b \in BodyKind, Fetch(t, s, b)
      PROVE  TypeOK'
  <2>1. buf' \in [Thread -> Recv_buf]
    BY <1>4 DEF Fetch, Recv_buf
  <2> QED
    BY <1>4, <2>1 DEF Fetch, To
<1>5. CASE CreateThread
  <2>1. created + 1 \in Thread
    BY <1>5 DEF CreateThread, Thread
  <2> QED
    BY <1>5, <2>1 DEF CreateThread, To, Thread
<1>6. CASE CreateDone
  BY <1>6 DEF CreateDone
<1>7. CASE JoinThread
  BY <1>7 DEF JoinThread
<1>8. CASE Concatenate
  BY <1>8 DEF Concatenate
<1>9. CASE UNCHANGED vars
  BY <1>9 DEF vars
<1> QED
  BY <1>1, <1>2, <1>3, <1>4, <1>5, <1>6, <1>7, <1>8, <1>9
  DEF Next, Main, FetchPng, Finished

(***************************************************************************)
(* Every variable of Paster keeps its type.                                *)
(***************************************************************************)
THEOREM TypeCorrect == Spec => []TypeOK
<1> QED
  BY InitTyped, StepTyped, PTL DEF Spec
-----------------------------------------------------------------------------
(***************************************************************************)
(* What a step does to the shared count.                                   *)
(***************************************************************************)
LEMMA StepCounts == TypeOK /\ CountsStored /\ [Next]_vars => CountsStored'
<1> SUFFICES ASSUME TypeOK, CountsStored, [Next]_vars PROVE CountsStored'
  OBVIOUS
<1>1. ASSUME NEW t \in Thread, Store(t) PROVE CountsStored'
  <2> DEFINE seq == buf[t].seq
  <2>1. seq \in Segment /\ buf[t].body \in BodyKind
    BY DEF TypeOK, Recv_buf
  <2>2. IsFiniteSet(Stored) /\ Cardinality(Stored) \in Nat
    BY Constants, SubsetCount DEF Stored
  <2>3. CASE p_pngs[seq] = NULL /\ buf[t].body = "png"
    <3>1. p_pngs' = [p_pngs EXCEPT ![seq] = "png"] /\ num_pngs' = num_pngs + 1
          /\ bad' = bad + 0
      BY <1>1, <2>3 DEF Store
    <3>2. Stored' = Stored \cup {seq} /\ seq \notin Stored
      BY <2>1, <2>3, <3>1 DEF Stored, TypeOK, NULL
    <3>3. Cardinality(Stored') = Cardinality(Stored) + 1
      BY <2>2, <3>2, FS_AddElement
    <3> QED
      BY <2>2, <3>1, <3>3 DEF CountsStored, TypeOK
  <2>4. CASE p_pngs[seq] = NULL /\ buf[t].body # "png"
    <3>1. p_pngs' = [p_pngs EXCEPT ![seq] = NULL] /\ num_pngs' = num_pngs + 1
          /\ bad' = bad + 1
      BY <1>1, <2>4 DEF Store
    <3>2. Stored' = Stored
      BY <2>1, <2>4, <3>1 DEF Stored, TypeOK
    <3> QED
      BY <2>2, <3>1, <3>2 DEF CountsStored, TypeOK
  <2>5. CASE p_pngs[seq] # NULL
    <3>1. UNCHANGED <<p_pngs, bad, num_pngs>>
      BY <1>1, <2>5 DEF Store
    <3> QED
      BY <3>1 DEF CountsStored, Stored
  <2> QED
    BY <2>3, <2>4, <2>5
<1>2. CASE UNCHANGED <<p_pngs, num_pngs, bad>>
  BY <1>2 DEF CountsStored, Stored
<1> QED
  BY <1>1, <1>2 DEF Next, Main, FetchPng, Finished, vars, CheckCount, FetchFails, Fetch,
     CreateThread, CreateDone, JoinThread, Concatenate

(***************************************************************************)
(* num_pngs counts the stored segments and the bad bodies, each once.      *)
(***************************************************************************)
THEOREM CountIsRight == Spec => []CountsStored
<1>1. Init => CountsStored
  <2> SUFFICES ASSUME Init PROVE CountsStored
    OBVIOUS
  <2>1. Stored = {}
    BY DEF Init, Stored
  <2> QED
    BY <2>1, FS_EmptySet DEF Init, CountsStored
<1>2. TypeOK /\ CountsStored /\ [Next]_vars => CountsStored'
  BY StepCounts
<1> QED
  BY <1>1, <1>2, TypeCorrect, PTL DEF Spec
-----------------------------------------------------------------------------
LEMMA StepExits == TypeOK /\ ExitMeans /\ [Next]_vars => ExitMeans'
<1> SUFFICES ASSUME TypeOK, ExitMeans, [Next]_vars PROVE ExitMeans'
  OBVIOUS
<1> USE Constants DEF TypeOK, ExitMeans
<1>1. ASSUME NEW t \in Thread, CheckCount(t) PROVE ExitMeans'
  BY <1>1 DEF CheckCount, To
<1>2. ASSUME NEW t \in Thread, FetchFails(t) PROVE ExitMeans'
  BY <1>2 DEF FetchFails, To
<1>3. ASSUME NEW t \in Thread, Store(t) PROVE ExitMeans'
  <2>1. num_pngs' \in Nat /\ num_pngs' >= num_pngs
    BY <1>3 DEF Store
  <2> QED
    BY <1>3, <2>1 DEF Store, To
<1>4. ASSUME NEW t \in Thread, NEW s \in Segment, NEW b \in BodyKind, Fetch(t, s, b)
      PROVE  ExitMeans'
  BY <1>4 DEF Fetch, To
<1>5. CASE CreateThread
  <2>1. created + 1 \in Thread /\ pc[created + 1] # "exited"
    BY <1>5 DEF CreateThread, Thread
  <2> QED
    BY <1>5, <2>1 DEF CreateThread, To
<1>6. CASE CreateDone
  BY <1>6 DEF CreateDone
<1>7. CASE JoinThread
  BY <1>7 DEF JoinThread
<1>8. CASE Concatenate
  BY <1>8 DEF Concatenate
<1>9. CASE UNCHANGED vars
  BY <1>9 DEF vars
<1> QED
  BY <1>1, <1>2, <1>3, <1>4, <1>5, <1>6, <1>7, <1>8, <1>9
  DEF Next, Main, FetchPng, Finished

\* Past the joins no thread is left to run.
LEMMA Quiet == TypeOK /\ ExitMeans => MainAlone
<1> SUFFICES ASSUME TypeOK, ExitMeans, main = "done", NEW t \in Thread
             PROVE  pc[t] \in {"unborn", "exited"}
  BY DEF MainAlone
<1>1. CASE t <= created
  <2>1. t \in 1 .. joined
    BY <1>1, Constants DEF TypeOK, ExitMeans, Thread
  <2> QED
    BY <2>1 DEF ExitMeans
<1>2. CASE t > created
  BY <1>2 DEF TypeOK
<1> QED
  BY <1>1, <1>2, Constants DEF TypeOK, Thread

LEMMA StepImage == TypeOK /\ ExitMeans /\ ImageMeans /\ [Next]_vars => ImageMeans'
<1> SUFFICES ASSUME TypeOK, ExitMeans, ImageMeans, [Next]_vars PROVE ImageMeans'
  OBVIOUS
<1>1. CASE Concatenate
  <2>1. Stored' = Segment => image' = "png"
    BY <1>1 DEF Concatenate, Stored
  <2> QED
    BY <2>1 DEF ImageMeans, Segment
<1>2. ASSUME NEW t \in Thread, Store(t) PROVE ImageMeans'
  <2>1. main # "done"
    BY <1>2, Quiet DEF MainAlone, Store
  <2> QED
    BY <1>2, <2>1 DEF ImageMeans, Store
<1>3. CASE UNCHANGED <<main, p_pngs, image>>
  BY <1>3 DEF ImageMeans, Stored
<1>4. CASE CreateDone
  BY <1>4 DEF CreateDone, ImageMeans
<1> QED
  BY <1>1, <1>2, <1>3, <1>4 DEF Next, Main, FetchPng, Finished, vars, CheckCount, FetchFails,
     Fetch, CreateThread, JoinThread

LEMMA Invariant == Spec => []IInv
<1>1. Init => IInv
  <2> SUFFICES ASSUME Init PROVE IInv
    OBVIOUS
  <2>1. Stored = {}
    BY DEF Init, Stored
  <2>2. CountsStored
    BY <2>1, FS_EmptySet DEF Init, CountsStored
  <2>3. ExitMeans /\ ImageMeans
    BY DEF Init, ExitMeans, ImageMeans
  <2> QED
    BY <2>2, <2>3, InitTyped DEF IInv
<1>2. IInv /\ [Next]_vars => IInv'
  BY StepTyped, StepCounts, StepExits, StepImage DEF IInv
<1> QED
  BY <1>1, <1>2, PTL DEF Spec

(***************************************************************************)
(* No thread runs any more when the image is made.                         *)
(***************************************************************************)
THEOREM NoWriterLeft == Spec => []MainAlone
<1>1. IInv => MainAlone
  BY Quiet DEF IInv
<1> QED
  BY <1>1, Invariant, PTL

(***************************************************************************)
(* If no body that is no PNG was counted, the image is complete: the count *)
(* is then the number of segments stored, and NUM_SEGMENTS of them are all *)
(* of them.                                                                *)
(***************************************************************************)
THEOREM Whole == Spec => []CompleteWhenGood
<1>1. IInv => CompleteWhenGood
  <2> SUFFICES ASSUME IInv, main = "done", created > 0, bad = 0 PROVE image = "png"
    BY DEF CompleteWhenGood
  <2>1. 1 \in Thread /\ 1 \in 1 .. joined
    BY Constants DEF IInv, TypeOK, ExitMeans, Thread
  <2>2. num_pngs >= NUM_SEGMENTS
    BY <2>1 DEF IInv, ExitMeans
  <2>3. Stored \in SUBSET Segment
    BY DEF Stored
  <2>4. Cardinality(Stored) \in Nat /\ Cardinality(Stored) <= NUM_SEGMENTS
    BY <2>3, Constants, SubsetCount
  <2>5. Cardinality(Stored) = NUM_SEGMENTS
    BY <2>2, <2>4, Constants DEF IInv, CountsStored, TypeOK
  <2>6. Stored = Segment
    BY <2>3, <2>5, Constants, FS_Subset
  <2> QED
    BY <2>6 DEF IInv, ImageMeans
<1> QED
  BY <1>1, Invariant, PTL
-----------------------------------------------------------------------------
LEMMA StepBounded == TypeOK /\ CountBounded /\ [Next]_vars => CountBounded'
<1> SUFFICES ASSUME TypeOK, CountBounded, [Next]_vars PROVE CountBounded'
  OBVIOUS
<1> DEFINE F == InFlight
<1>1. /\ F \in SUBSET Thread /\ F' \in SUBSET Thread
      /\ IsFiniteSet(F) /\ Cardinality(F) \in Nat /\ Cardinality(F) <= NThreads
      /\ IsFiniteSet(F') /\ Cardinality(F') \in Nat /\ Cardinality(F') <= NThreads
  <2>1. F \in SUBSET Thread /\ F' \in SUBSET Thread
    BY DEF InFlight
  <2> QED
    BY <2>1, Constants, SubsetCount
<1>2. ASSUME NEW t \in Thread, CheckCount(t), num_pngs < NUM_SEGMENTS PROVE CountBounded'
  BY <1>1, <1>2, Constants DEF CheckCount, CountBounded, TypeOK
<1>3. ASSUME num_pngs' = num_pngs, F' \subseteq F PROVE CountBounded'
  <2>1. Cardinality(F') <= Cardinality(F)
    BY <1>1, <1>3, SubsetCount
  <2> QED
    BY <2>1, <1>1, <1>3, Constants DEF CountBounded, TypeOK
<1>4. ASSUME NEW t \in Thread, CheckCount(t), num_pngs >= NUM_SEGMENTS PROVE CountBounded'
  <2>1. F' \subseteq F
    BY <1>4 DEF CheckCount, To, InFlight, TypeOK
  <2> QED
    BY <2>1, <1>3, <1>4 DEF CheckCount
<1>5. ASSUME NEW t \in Thread, Store(t) PROVE CountBounded'
  <2>1. F' = F \ {t} /\ t \in F
    BY <1>5 DEF Store, To, InFlight, TypeOK
  <2>2. Cardinality(F') = Cardinality(F) - 1
    BY <2>1, <1>1, FS_RemoveElement
  <2>3. num_pngs' = num_pngs + 1 \/ num_pngs' = num_pngs
    BY <1>5 DEF Store
  <2> QED
    BY <2>2, <2>3, <1>1, Constants DEF CountBounded, TypeOK
<1>6. ASSUME NEW t \in Thread, FetchFails(t) \/ \E s \in Segment, b \in BodyKind : Fetch(t, s, b)
      PROVE  CountBounded'
  <2>1. F' \subseteq F /\ num_pngs' = num_pngs
    BY <1>6 DEF FetchFails, Fetch, To, InFlight, TypeOK
  <2> QED
    BY <2>1, <1>3
<1>7. CASE CreateThread
  <2>1. F' \subseteq F /\ num_pngs' = num_pngs
    BY <1>7 DEF CreateThread, To, InFlight, TypeOK
  <2> QED
    BY <2>1, <1>3
<1>8. CASE UNCHANGED <<pc, num_pngs>>
  BY <1>8, <1>3 DEF InFlight
<1> QED
  BY <1>2, <1>4, <1>5, <1>6, <1>7, <1>8, Constants DEF TypeOK, Next, Main, FetchPng, Finished,
     vars, CreateDone, JoinThread, Concatenate

(***************************************************************************)
(* The count passes NUM_SEGMENTS by less than the number of threads.       *)
(***************************************************************************)
THEOREM Overshoot == Spec => []OvershootBounded
<1>1. Init => CountBounded
  <2> SUFFICES ASSUME Init PROVE CountBounded
    OBVIOUS
  <2>1. InFlight = {}
    BY DEF Init, InFlight
  <2> QED
    BY <2>1, FS_EmptySet, Constants DEF Init, CountBounded
<1>2. TypeOK /\ CountBounded /\ [Next]_vars => CountBounded'
  BY StepBounded
<1>3. TypeOK /\ CountBounded => OvershootBounded
  <2> SUFFICES ASSUME TypeOK, CountBounded PROVE num_pngs < NUM_SEGMENTS + NThreads
    BY DEF OvershootBounded
  <2>1. InFlight \in SUBSET Thread
    BY DEF InFlight
  <2>2. Cardinality(InFlight) \in Nat
    BY <2>1, Constants, SubsetCount
  <2> QED
    BY <2>2, Constants DEF CountBounded, TypeOK
<1> QED
  BY <1>1, <1>2, <1>3, TypeCorrect, PTL DEF Spec
=============================================================================
