---------------------------- MODULE PasterProps ----------------------------
(***************************************************************************)
(* What must be true of Paster.                                            *)
(***************************************************************************)
EXTENDS Paster

\* The variables hold what they should, and only created threads run.
TypeOK ==
  /\ p_pngs \in [Segment -> {NULL, "png"}]
  /\ num_pngs \in Nat
  /\ pc \in [Thread -> {"unborn", "check", "fetch", "store", "exited"}]
  /\ buf \in [Thread -> Recv_buf]
  /\ created \in 0 .. NThreads
  /\ main \in {"create", "join", "done"}
  /\ joined \in 0 .. created
  /\ image \in {NULL, "png"}
  /\ bad \in Nat
  /\ \A t \in Thread : pc[t] = "unborn" <=> t > created
-----------------------------------------------------------------------------
Stored == { s \in Segment : p_pngs[s] # NULL }

(***************************************************************************)
(* Threads that hold the same segment at once store and count it once: the *)
(* second look at p_pngs (paster.c:52) is what makes the count of the      *)
(* first section (paster.c:34) mean something.  Bodies that are no PNG     *)
(* are counted too.                                                        *)
(***************************************************************************)
CountsStored == num_pngs = Cardinality(Stored) + bad

(***************************************************************************)
(* The check is made before the download and not again after it, so the    *)
(* count may pass NUM_SEGMENTS, by at most one for each other thread.      *)
(***************************************************************************)
OvershootBounded == num_pngs >= NUM_SEGMENTS => num_pngs < NUM_SEGMENTS + NThreads

(***************************************************************************)
(* If a thread could be created and no body that is no PNG was counted,    *)
(* paster returns the image.                                               *)
(***************************************************************************)
CompleteWhenGood == main = "done" /\ created > 0 /\ bad = 0 => image = "png"

(***************************************************************************)
(* Once concatenate_pngs has run, no thread writes p_pngs, which the image *)
(* was made from without the mutex.                                        *)
(***************************************************************************)
MainAlone == main = "done" => \A t \in Thread : pc[t] \in {"unborn", "exited"}

(***************************************************************************)
(* paster returns as long as the servers hand out each segment again and   *)
(* again (SF of each Fetch), in whichever order and with bodies that need  *)
(* not be PNGs: no old check, duplicate or bad body leaves a thread        *)
(* looping for ever.  (paster.c:31-63)  A body that crashes                *)
(* create_png_from_buf ends the program instead; CatPng has that.          *)
(***************************************************************************)
Terminates == <>(main = "done")
=============================================================================
