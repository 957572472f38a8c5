---------------------------- MODULE ProgramsProps ----------------------------
(***************************************************************************)
(* What must be true of the programs that share memory.                    *)
(***************************************************************************)
EXTENDS Programs

Numbered(n) == [i \in 1 .. n |-> i]

\* the one file of curl_xml, and its name
File ==
  IF answer.kind = "error" THEN <<>>
  ELSE <<IF answer.kind = "fragment" THEN Fragment ELSE NONE>> \o Numbered(answer.pieces)

Expected ==
  CASE prog = "paster2"              -> Numbered(NUM_SEGMENTS)
    [] prog = "shm_struct"           -> Reverse(Numbered(STACK_SIZE)) \o Reverse(Numbered(STACK_SIZE))
    [] prog = "main_write_callback"  -> <<NONE>> \o Numbered(answer.pieces)
    [] prog \in {"main_write_header_cb", "cURL_IPC"} -> <<Fragment>> \o Numbered(answer.pieces)
    [] prog = "cURL_IPC_2proc"       -> <<Fragment>> \o Numbered(Min({answer.pieces, BUF_SIZE - 1}))
    [] prog = "curl_xml"             -> File \o File
    [] prog \in {"sem_simple", "shm_simple"} -> <<Message>>
    [] OTHER                         -> <<>>

(***************************************************************************)
(* The main process never reads what is not there yet: if it ends well and *)
(* no call has failed, it has read all that its children left for it, in   *)
(* order, whether it learns of it by wait or by a semaphore, and through   *)
(* addresses that another process stored.  Of a body that is too large for *)
(* the buffer, main_2proc writes the part its child received before it     *)
(* aborted.  curl_xml writes its file twice.  Only lab3/test.c crashes, on *)
(* the first NULL it pops.                                                 *)
(***************************************************************************)
HandedOver ==
  /\ proc[Main].state = "exit 0" /\ failed = 0 => got = Expected
  /\ \A p \in Proc : proc[p].state = "crashed" => prog = "test" /\ p = Main

(***************************************************************************)
(* A main process that returns 0 leaves no segment in the system, not of   *)
(* those that were created by its children either, nor memory it has not   *)
(* freed, and no child behind, which is what zombie.c is there to show.    *)
(***************************************************************************)
NothingLeft ==
  proc[Main].state = "exit 0" =>
    /\ \A s \in Segment : seg[s].state \in {"none", "gone"}
    /\ \A c \in Child : proc[c].state \in {"unborn", "reaped"} \/ prog = "zombie"

(***************************************************************************)
(* Every process ends: none waits for ever for a semaphore or a child.     *)
(***************************************************************************)
Ends == <>(\A p \in Proc : proc[p].state # "running")
-----------------------------------------------------------------------------
(***************************************************************************)
(* The comment on the stack (shm_stack.c:18): "the items field points to   *)
(* the memory right after it", in every process that has it attached.      *)
(***************************************************************************)
ItemsRightAfter ==
  \A p \in Proc, s \in {"recv_stack", "stack"} :
    proc[p].at[s] # 0 /\ stack.items # 0 => stack.items = proc[p].at[s] + 1
=============================================================================
