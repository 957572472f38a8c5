------------------------------ MODULE Programs ------------------------------
(***************************************************************************)
(* Processes that make the calls of ProgramText one at a time.  The calls  *)
(* of the system are external: System V shared memory, semaphores in it,   *)
(* fork and wait.  A segment is attached at the highest place where it     *)
(* fits into the memory of the process, as Linux does; a page of memory    *)
(* holds one cell.                                                         *)
(***************************************************************************)
EXTENDS ProgramText

CONSTANTS Run,          \* the programs that are run
          Layouts,      \* for each, the sets of pages that may be free when it starts
          FirstId,      \* the identifier of the first segment
          Bodies,       \* the numbers of pieces a body may come in
          MaxFailures   \* calls of the examples that may fail

ASSUME ProgramsAssumption ==
  /\ Run \subseteq DOMAIN Text
  /\ \A r \in Run : \A room \in Layouts[r] : room \subseteq Nat \ {0}
  /\ FirstId \in Nat /\ MaxFailures \in Nat /\ Bodies \subseteq Nat

Main == 0
Proc == 0 .. Max({1, P + C, NUM_ITEMS, NUM_CHILD})

Segment ==
  {"spaces", "items", "stack_mutex", "array_mutex", "download_mutex", "png_array",
   "recv_stack", "png_count", "num_consumers", "downloaded_count", "buf", "sems", "stack", "heap"}
    \cup { PngSegment(i) : i \in 1 .. NUM_SEGMENTS }

VARIABLES
  prog,    \* the program
  room,    \* the pages that are free in its memory when it starts
  seg,     \* for each segment its identifier, size, state and cells
  stack,   \* the stack or receive buffer in one of them: its head
  answer,  \* what a server answers: the pieces of its body, and of what kind it is
  proc,    \* for each process its state, code, place in it, register, attachments
  got,     \* history: what the main process read
  failed   \* history: calls that failed

vars == <<prog, room, answer, seg, stack, proc, got, failed>>

Fetching == {"main_write_callback", "main_write_header_cb", "cURL_IPC", "cURL_IPC_2proc",
             "curl_xml"}

\* only curl_xml asks for anything but a fragment of an image
Answers(r) ==
  [ pieces : IF r \in Fetching THEN Bodies ELSE {0},
    kind   : IF r = "curl_xml" THEN {"fragment", "page", "error"} ELSE {"fragment"} ]

Detached == [s \in Segment |-> 0]

Init ==
  /\ prog \in Run
  /\ room \in Layouts[prog]
  /\ seg = [s \in Segment |-> [id |-> NONE, size |-> 0, state |-> "none", cell |-> <<>>]]
  /\ stack = [size |-> 0, pos |-> NONE, items |-> 0, seq |-> NONE]
  /\ answer \in Answers(prog)
  /\ proc = [p \in Proc |-> [state |-> IF p = Main THEN "running" ELSE "unborn",
                             code |-> "main", pc |-> 1, reg |-> 0, at |-> Detached]]
  /\ got = <<>>
  /\ failed = 0

Now(p) == Text[prog][proc[p].code][proc[p].pc]

Doing(p, op) == proc[p].state = "running" /\ Now(p).op = op

\* the segment the call is about
On(p) == IF Now(p).on = "png" THEN PngSegment(proc[p].reg) ELSE Now(p).on

Past(p) == [proc[p] EXCEPT !.pc = @ + 1]

Becomes(p, q) == proc' = [proc EXCEPT ![p] = q]

Advance(p) == Becomes(p, Past(p))

\* A segment that is marked for removal goes with its last attachment.
Swept(segs, procs) ==
  [s \in Segment |->
     IF segs[s].state = "marked" /\ \A p \in Proc : procs[p].at[s] = 0
       THEN [segs[s] EXCEPT !.state = "gone"] ELSE segs[s]]

\* Whatever ends a process detaches its segments.
End(p, how) ==
  /\ Becomes(p, [proc[p] EXCEPT !.state = how, !.at = Detached])
  /\ seg' = Swept(seg, proc')
-----------------------------------------------------------------------------
(***************************************************************************)
(* Segments                                                                *)
(***************************************************************************)
NextId == FirstId + Cardinality({ s \in Segment : seg[s].id # NONE })

Shmget(p) ==
  /\ Doing(p, "shmget")
  /\ seg' = [seg EXCEPT ![On(p)] =
               [id |-> NextId, size |-> Now(p).val, state |-> "there",
                cell |-> [k \in 0 .. Now(p).val - 1 |-> 0]]]
  /\ Advance(p)
  /\ UNCHANGED <<prog, room, answer, stack, got, failed>>

Pages(p, s) == proc[p].at[s] .. proc[p].at[s] + seg[s].size - 1

Used(p) == UNION { Pages(p, s) : s \in { r \in Segment : proc[p].at[r] # 0 } }

Places(pages, size) == { a \in pages : a .. a + size - 1 \subseteq pages }

Fits(p, size) == Places(room \ Used(p), size)

\* Memory of the process alone is a segment that has no identifier.
Malloc(p) ==
  /\ Doing(p, "malloc")
  /\ seg' = [seg EXCEPT ![On(p)].size = Now(p).val, ![On(p)].state = "there",
                         ![On(p)].cell = [k \in 0 .. Now(p).val - 1 |-> 0]]
  /\ Becomes(p, [Past(p) EXCEPT !.at[On(p)] = Max(Fits(p, Now(p).val))])
  /\ UNCHANGED <<prog, room, answer, stack, got, failed>>

Free(p) ==
  /\ Doing(p, "free")
  /\ Becomes(p, [Past(p) EXCEPT !.at[On(p)] = 0])
  /\ seg' = [seg EXCEPT ![On(p)].state = "gone"]
  /\ UNCHANGED <<prog, room, answer, stack, got, failed>>

Attachable(s) == seg[s].state \in {"there", "marked"}

Shmat(p) ==
  /\ Doing(p, "shmat")
  /\ IF Attachable(On(p))
       THEN /\ Becomes(p, [Past(p) EXCEPT !.at[On(p)] = Max(Fits(p, seg[On(p)].size))])
            /\ UNCHANGED seg
       ELSE End(p, "aborted")
  /\ UNCHANGED <<prog, room, answer, stack, got, failed>>

Shmdt(p) ==
  /\ Doing(p, "shmdt")
  /\ Becomes(p, [Past(p) EXCEPT !.at[On(p)] = 0])
  /\ seg' = Swept(seg, proc')
  /\ UNCHANGED <<prog, room, answer, stack, got, failed>>

Rmid(p) ==
  /\ Doing(p, "rmid")
  /\ Advance(p)
  /\ seg' = Swept([seg EXCEPT ![On(p)].state = "marked"], proc')
  /\ UNCHANGED <<prog, room, answer, stack, got, failed>>

\* _cleanup_shm takes an identifier that is not positive for none at all.
Removable(s) == s.id > 0

Cleanup(p) ==
  /\ Doing(p, "cleanup")
  /\ Advance(p)
  /\ seg' = IF Removable(seg[On(p)])
               THEN Swept([seg EXCEPT ![On(p)].state = "marked"], proc') ELSE seg
  /\ UNCHANGED <<prog, room, answer, stack, got, failed>>
-----------------------------------------------------------------------------
(***************************************************************************)
(* Memory                                                                  *)
(***************************************************************************)
\* the cells a process sees at an address: one, or none
Seen(p, a) == { <<s, a - proc[p].at[s]>> :
                  s \in { r \in Segment : proc[p].at[r] # 0 /\ a \in Pages(p, r) } }

CellAt(p, a) == LET c == CHOOSE c \in Seen(p, a) : TRUE IN seg[c[1]].cell[c[2]]

Put(p, a, v) ==
  LET c == CHOOSE c \in Seen(p, a) : TRUE
  IN  seg' = [seg EXCEPT ![c[1]].cell[c[2]] = v]

Base(p) == proc[p].at[On(p)]

\* The stack is used through the address that was stored in it.
TopItem == stack.items + stack.pos

Address(p) ==
  CASE Now(p).op \in {"sem_wait", "sem_post"}     -> Base(p) + Now(p).val
    [] Now(p).op = "sem_init"                     -> Base(p) + Now(p).val[1]
    [] Now(p).op \in {"push", "push_all"}         -> TopItem + 1
    [] Now(p).op \in {"pop", "pop_all"}           -> TopItem
    [] Now(p).op = "fetch"                        -> TopItem + 1
    [] Now(p).op \in {"write_file", "process_data"} -> stack.items
    [] OTHER                                      -> Base(p)

\* push on a full stack and pop on an empty one touch no item
is_full  == stack.pos = stack.size - 1
is_empty == stack.pos = NONE

Refused(p) == \/ Now(p).op \in {"push", "push_all"} /\ is_full
              \/ Now(p).op \in {"pop", "pop_all"} /\ is_empty

Store(p) ==
  /\ \/ Doing(p, "store")      /\ Put(p, Address(p), Now(p).val)
     \/ Doing(p, "store_item") /\ Put(p, Address(p), proc[p].reg)
     \/ Doing(p, "sem_init")   /\ Put(p, Address(p), Now(p).val[2])
  /\ Advance(p)
  /\ UNCHANGED <<prog, room, answer, stack, got, failed>>

Load(p) ==
  /\ Doing(p, "load")
  /\ got' = Append(got, CellAt(p, Address(p)))
  /\ Advance(p)
  /\ UNCHANGED <<prog, room, answer, seg, stack, failed>>

SemWait(p) ==
  /\ Doing(p, "sem_wait")
  /\ CellAt(p, Address(p)) > 0
  /\ Put(p, Address(p), CellAt(p, Address(p)) - 1)
  /\ Advance(p)
  /\ UNCHANGED <<prog, room, answer, stack, got, failed>>

SemPost(p) ==
  /\ Doing(p, "sem_post")
  /\ Put(p, Address(p), CellAt(p, Address(p)) + 1)
  /\ Advance(p)
  /\ UNCHANGED <<prog, room, answer, stack, got, failed>>

\* Segments are counted from 1 here.
NextIndex(p) ==
  /\ Doing(p, "next_index")
  /\ LET count == CellAt(p, Address(p))
     IN  IF count >= NUM_SEGMENTS
           THEN Becomes(p, [Past(p) EXCEPT !.reg = NONE]) /\ UNCHANGED seg
           ELSE Becomes(p, [Past(p) EXCEPT !.reg = count + 1]) /\ Put(p, Address(p), count + 1)
  /\ UNCHANGED <<prog, room, answer, stack, got, failed>>

\* whether a consumer is to wait for one more item
Reserve(p) ==
  /\ Doing(p, "reserve")
  /\ LET a         == proc[p].at["num_consumers"]
         consumers == CellAt(p, a)
         count     == CellAt(p, Address(p))
     IN  IF consumers <= 0
           THEN Becomes(p, [Past(p) EXCEPT !.reg = NONE]) /\ UNCHANGED seg
         ELSE IF count >= NUM_SEGMENTS
           THEN Becomes(p, [Past(p) EXCEPT !.reg = NONE]) /\ Put(p, a, consumers - 1)
           ELSE Becomes(p, [Past(p) EXCEPT !.reg = 0]) /\ Put(p, Address(p), count + 1)
  /\ UNCHANGED <<prog, room, answer, stack, got, failed>>
-----------------------------------------------------------------------------
(***************************************************************************)
(* The stack, or the buffer, in a segment                                  *)
(***************************************************************************)
init_stack(p) ==
  /\ Doing(p, "init")
  /\ stack' = [size |-> Now(p).val[1], pos |-> NONE, items |-> Base(p) + Now(p).val[2],
               seq |-> NONE]
  /\ Advance(p)
  /\ UNCHANGED <<prog, room, answer, seg, got, failed>>

push(p) ==
  /\ Doing(p, "push")
  /\ stack' = [stack EXCEPT !.pos = @ + 1]
  /\ Put(p, Address(p), proc[p].reg)
  /\ Advance(p)
  /\ UNCHANGED <<prog, room, answer, got, failed>>

pop(p) ==
  /\ Doing(p, "pop")
  /\ stack' = [stack EXCEPT !.pos = @ - 1]
  /\ Becomes(p, [Past(p) EXCEPT !.reg = CellAt(p, Address(p))])
  /\ UNCHANGED <<prog, room, answer, seg, got, failed>>

\* What push and pop return is looked at by push_all and pop_all only, to stop.
PushPopRefused(p) ==
  /\ \E op \in {"push", "push_all", "pop", "pop_all"} : Doing(p, op) /\ Refused(p)
  /\ Becomes(p, [Past(p) EXCEPT !.reg = IF Now(p).op = "pop" THEN NONE ELSE @])
  /\ UNCHANGED <<prog, room, answer, seg, stack, got, failed>>

\* one more item, and the call goes on; the items are numbered
PushAll(p) ==
  /\ Doing(p, "push_all")
  /\ stack' = [stack EXCEPT !.pos = @ + 1]
  /\ Put(p, Address(p), stack.pos + 2)
  /\ UNCHANGED <<prog, room, answer, proc, got, failed>>

PopAll(p) ==
  /\ Doing(p, "pop_all")
  /\ stack' = [stack EXCEPT !.pos = @ - 1]
  /\ got' = Append(got, CellAt(p, Address(p)))
  /\ UNCHANGED <<prog, room, answer, seg, proc, failed>>

-----------------------------------------------------------------------------
(***************************************************************************)
(* A transfer into the buffer, piece by piece, and the file written of it. *)
(* The terminating 0 has its place but is not told apart (see RecvBuf).    *)
(***************************************************************************)
Fragment == 7

InBody(p) == Now(p).val /\ answer.kind = "fragment" => stack.seq # NONE

header_cb_curl(p) ==
  /\ Doing(p, "fetch")
  /\ ~ InBody(p)
  /\ stack' = [stack EXCEPT !.seq = Fragment]
  /\ UNCHANGED <<prog, room, answer, seg, proc, got, failed>>

TooSmall == stack.pos + 3 > stack.size

MorePieces(p) == InBody(p) /\ stack.pos + 1 < answer.pieces

\* The buffer in shared memory is not enlarged: the process aborts.
write_cb_curl(p) ==
  /\ Doing(p, "fetch") /\ MorePieces(p)
  /\ seg["heap"].state # "there"
  /\ IF TooSmall
       THEN End(p, "aborted") /\ UNCHANGED stack
       ELSE /\ stack' = [stack EXCEPT !.pos = @ + 1]
            /\ Put(p, Address(p), stack.pos + 2)
            /\ UNCHANGED proc
  /\ UNCHANGED <<prog, room, answer, got, failed>>

BUF_INC == BUF_SIZE \div 2

write_cb_curl3(p) ==
  /\ Doing(p, "fetch") /\ MorePieces(p)
  /\ seg["heap"].state = "there"
  /\ LET new_size == IF TooSmall THEN stack.size + Max({BUF_INC, 2}) ELSE stack.size
         q        == IF TooSmall
                       THEN Max(Places((room \ Used(p)) \cup Pages(p, "heap"), new_size))
                       ELSE stack.items
     IN  /\ seg' = [seg EXCEPT !["heap"].size = new_size,
                       !["heap"].cell = [k \in 0 .. new_size - 1 |->
                          IF k = stack.pos + 1 THEN stack.pos + 2
                          ELSE IF k < stack.size THEN @[k] ELSE 0]]
         /\ stack' = [stack EXCEPT !.pos = @ + 1, !.size = new_size, !.items = q]
         /\ proc' = [proc EXCEPT ![p].at["heap"] = q]
  /\ UNCHANGED <<prog, room, answer, got, failed>>

TransferEnds(p) ==
  /\ Doing(p, "fetch")
  /\ InBody(p) /\ stack.pos + 1 = answer.pieces
  /\ Advance(p)
  /\ UNCHANGED <<prog, room, answer, seg, stack, got, failed>>

\* A transfer that breaks is reported, and all but curl_xml go on with what has
\* come; without a handle curl_xml aborts and the others return 1.
FetchFails(p) ==
  /\ Doing(p, "fetch")
  /\ failed < MaxFailures
  /\ failed' = failed + 1
  /\ \/ IF Now(p).on = "exit" THEN End(p, "exit 1") ELSE Advance(p) /\ UNCHANGED seg
     \/ /\ stack.pos = NONE /\ stack.seq = NONE
        /\ End(p, IF Now(p).on = "exit" THEN "aborted" ELSE "exit 1")
  /\ UNCHANGED <<prog, room, answer, stack, got>>

\* process_html, process_png and the rest all write what was received.
Writes(p) == \/ Doing(p, "write_file")
             \/ Doing(p, "process_data") /\ answer.kind # "error"

\* The name of the file is the number of the fragment, if it has one.
WriteFile(p) ==
  /\ Writes(p)
  /\ got' = got \o << stack.seq >>
              \o [i \in 1 .. stack.pos + 1 |-> CellAt(p, stack.items + i - 1)]
  /\ Advance(p)
  /\ UNCHANGED <<prog, room, answer, seg, stack, failed>>

\* of an answer that says it is an error, or does not say what it is
WriteNothing(p) ==
  /\ Doing(p, "process_data") /\ ~ Writes(p)
  /\ Advance(p)
  /\ UNCHANGED <<prog, room, answer, seg, stack, got, failed>>
-----------------------------------------------------------------------------
\* A call that reads or writes a cell crashes if the process has none there.
Touch(p) ==
  /\ proc[p].state = "running"
  /\ \/ Now(p).op \in {"sem_init", "sem_wait", "sem_post", "store", "store_item", "load",
                       "reserve", "next_index", "push", "push_all", "pop", "pop_all"}
     \/ Writes(p)
  /\ ~ Refused(p)
  /\ IF Seen(p, Address(p)) = {}
       THEN End(p, "crashed") /\ UNCHANGED <<prog, room, answer, stack, got, failed>>
       ELSE \/ Store(p) \/ Load(p) \/ SemWait(p) \/ SemPost(p) \/ NextIndex(p) \/ Reserve(p)
            \/ push(p) \/ pop(p) \/ PushAll(p) \/ PopAll(p) \/ WriteFile(p)
-----------------------------------------------------------------------------
(***************************************************************************)
(* Processes                                                               *)
(***************************************************************************)
Unborn == { c \in Proc : proc[c].state = "unborn" }

Child == Proc \ {Main}

Fork(p) ==
  /\ Doing(p, "fork")
  /\ LET c == Min(Unborn)
     IN  proc' = [proc EXCEPT ![p] = Past(p),
                              ![c] = [state |-> "running", code |-> Now(p).on, pc |-> 1,
                                      reg |-> 0, at |-> proc[p].at]]
  /\ UNCHANGED <<prog, room, answer, seg, stack, got, failed>>

Ended(c) == proc[c].state \in {"exit 0", "exit 1", "aborted", "crashed"}

\* a child the call waits for
Awaited(p) == IF Now(p).val = 0 THEN Child \ Unborn ELSE {Now(p).val}

Wait(p) ==
  /\ Doing(p, "wait")
  /\ \E c \in Awaited(p) :
       /\ Ended(c)
       /\ proc' = [proc EXCEPT ![p] = Past(p), ![c].state = "reaped"]
  /\ UNCHANGED <<prog, room, answer, seg, stack, got, failed>>

OnNone(p) ==
  /\ Doing(p, "on_none")
  /\ IF proc[p].reg # NONE THEN Advance(p) /\ UNCHANGED seg
     ELSE IF Now(p).on = "exit" THEN End(p, "exit 0")
     ELSE End(p, "crashed")
  /\ UNCHANGED <<prog, room, answer, stack, got, failed>>

Again(p) ==
  /\ Doing(p, "again")
  /\ Becomes(p, [proc[p] EXCEPT !.pc = 1])
  /\ UNCHANGED <<prog, room, answer, seg, stack, got, failed>>

Exit(p) ==
  /\ Doing(p, "exit")
  /\ End(p, "exit 0")
  /\ UNCHANGED <<prog, room, answer, stack, got, failed>>

(***************************************************************************)
(* shmget, fork and the writing of a file may fail.  The examples and test *)
(* answer with abort, except that sem_simple asks for all its segments     *)
(* before it looks, shm_simple does not look, and both abort when they     *)
(* attach; and that nobody looks at what write_file returns.  Failures in  *)
(* paster2 are in Paster2.                                                 *)
(***************************************************************************)
GoesOn(p) == \/ Doing(p, "shmget") /\ prog \in {"sem_simple", "shm_simple"}
             \/ Writes(p)

CallFails(p) ==
  /\ prog # "paster2"
  /\ Doing(p, "shmget") \/ Doing(p, "fork") \/ Writes(p)
  /\ failed < MaxFailures
  /\ failed' = failed + 1
  /\ IF GoesOn(p) THEN Advance(p) /\ UNCHANGED seg ELSE End(p, "aborted")
  /\ UNCHANGED <<prog, room, answer, stack, got>>

Finished == (\A p \in Proc : proc[p].state # "running") /\ UNCHANGED vars
-----------------------------------------------------------------------------
Step(p) ==
  \/ Malloc(p) \/ Free(p) \/ Shmget(p) \/ Shmat(p) \/ Shmdt(p) \/ Rmid(p) \/ Cleanup(p)
  \/ Touch(p) \/ init_stack(p) \/ PushPopRefused(p)
  \/ header_cb_curl(p) \/ write_cb_curl(p) \/ write_cb_curl3(p) \/ TransferEnds(p) \/ WriteNothing(p)
  \/ Fork(p) \/ Wait(p) \/ OnNone(p) \/ Again(p) \/ Exit(p)

Next == Finished \/ \E p \in Proc : Step(p) \/ CallFails(p) \/ FetchFails(p)

\* Every process is scheduled.
Fairness == \A p \in Proc : WF_vars(Step(p))

Spec == Init /\ [][Next]_vars /\ Fairness
=============================================================================
