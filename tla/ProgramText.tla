----------------------------- MODULE ProgramText -----------------------------
(***************************************************************************)
(* The programs that fork and share System V memory, as the calls each of  *)
(* their processes makes in turn: lab3's paster2 with everything it does   *)
(* to its shared memory, lab3/test.c, and the examples in the starter      *)
(* directories of lab2 and lab3.  Programs says what a call does.          *)
(*                                                                         *)
(* A call names a segment, or the code a forked child runs, and a number:  *)
(* the value it stores, or the cell of the segment it is about.            *)
(***************************************************************************)
EXTENDS Integers, Sequences, SequencesExt

CONSTANTS B, P, C, NUM_SEGMENTS,  \* paster2's arguments
          NUM_ITEMS,              \* lab3/test.c
          STACK_SIZE,             \* shm_struct.c
          NUM_CHILD,              \* forkN.c
          BUF_SIZE                \* the examples that fetch a file

ASSUME ProgramTextAssumption ==
  \A n \in {B, P, C, NUM_SEGMENTS, NUM_ITEMS, STACK_SIZE, NUM_CHILD, BUF_SIZE} : n \in Nat \ {0}

Call(op, on, val) == << [op |-> op, on |-> on, val |-> val] >>

shmget(s, size) == Call("shmget", s, size)
shmat(s)       == Call("shmat", s, 0)
shmdt(s)       == Call("shmdt", s, 0)
rmid(s)        == Call("rmid", s, 0)     \* shmctl(.., IPC_RMID, ..)
sem_init(s, i, v) == Call("sem_init", s, <<i, v>>)
sem_wait(s, i) == Call("sem_wait", s, i)
sem_post(s, i) == Call("sem_post", s, i)
fork(code)     == Call("fork", code, 0)
wait(c)        == Call("wait", "", c)    \* for child c, or for any if c = 0
malloc(s, size) == Call("malloc", s, size)
free(s)        == Call("free", s, 0)
store(s, v)    == Call("store", s, v)    \* into the first cell of s
load(s)        == Call("load", s, 0)
on_none(end)   == Call("on_none", end, 0) \* if the last answer was NONE
again          == Call("again", "", 0)   \* from the first call
exit(status)   == Call("exit", "", status)

Times(n, F(_)) == FlattenSeq([i \in 1 .. n |-> F(i)])
-----------------------------------------------------------------------------
(***************************************************************************)
(* lab3/shm_utils.c.  A function that attaches segments and detaches them  *)
(* again is the calls in the order of the code: each attachment takes its  *)
(* place in the process's memory while the earlier ones are there.         *)
(***************************************************************************)
NONE == -1

PngSegment(i) == "png" \o ToString(i)

_init_shm(s, size) == shmget(s, size)

sizeof_shm_stack(n) == n + 1

\* the head of the stack is the first cell of the memory, its items follow
init_shm_stack(s, n) == Call("init", s, <<n, 1>>)

_cleanup_shm(s) == Call("cleanup", s, 0)

_init_shm_sem(s, value) == shmat(s) \o sem_init(s, 0, value) \o shmdt(s)

init_shared_mem(max_stack_size, num_consumers) ==
  _init_shm("spaces", 1) \o _init_shm("items", 1) \o _init_shm("stack_mutex", 1)
    \o _init_shm("array_mutex", 1) \o _init_shm("download_mutex", 1)
    \o _init_shm_sem("spaces", max_stack_size) \o _init_shm_sem("items", 0)
    \o _init_shm_sem("stack_mutex", 1) \o _init_shm_sem("array_mutex", 1)
    \o _init_shm_sem("download_mutex", 1)
    \o _init_shm("png_array", 1) \o shmat("png_array") \o store("png_array", NONE)
    \o shmdt("png_array")
    \o _init_shm("recv_stack", sizeof_shm_stack(max_stack_size)) \o shmat("recv_stack")
    \o init_shm_stack("recv_stack", max_stack_size) \o shmdt("recv_stack")
    \o _init_shm("png_count", 1) \o shmat("png_count") \o store("png_count", 0)
    \o shmdt("png_count")
    \o _init_shm("num_consumers", 1) \o shmat("num_consumers")
    \o store("num_consumers", num_consumers) \o shmdt("num_consumers")
    \o _init_shm("downloaded_count", 1) \o shmat("downloaded_count")
    \o store("downloaded_count", 0) \o shmdt("downloaded_count")

\* mutant: the segments the array points to are forgotten
cleanup_shared_mem_NoElements ==
  _cleanup_shm("spaces") \o _cleanup_shm("items") \o _cleanup_shm("stack_mutex")
    \o _cleanup_shm("array_mutex") \o _cleanup_shm("download_mutex")
    \o _cleanup_shm("png_array") \o _cleanup_shm("recv_stack") \o _cleanup_shm("png_count")
    \o _cleanup_shm("num_consumers") \o _cleanup_shm("downloaded_count")

cleanup_shared_mem ==
  _cleanup_shm("spaces") \o _cleanup_shm("items") \o _cleanup_shm("stack_mutex")
    \o _cleanup_shm("array_mutex") \o _cleanup_shm("download_mutex")
    \o shmat("png_array")
    \o Times(NUM_SEGMENTS, LAMBDA i : _cleanup_shm(PngSegment(i)))
    \o shmdt("png_array") \o _cleanup_shm("png_array")
    \o _cleanup_shm("recv_stack") \o _cleanup_shm("png_count")
    \o _cleanup_shm("num_consumers") \o _cleanup_shm("downloaded_count")

_is_all_png_downloaded ==
  shmat("array_mutex") \o sem_wait("array_mutex", 0)
    \o shmat("downloaded_count") \o shmat("num_consumers")
    \o Call("reserve", "downloaded_count", 0)
    \o shmdt("num_consumers") \o shmdt("downloaded_count")
    \o sem_post("array_mutex", 0) \o shmdt("array_mutex")

get_download_segment_index ==
  shmat("download_mutex") \o sem_wait("download_mutex", 0) \o shmat("png_count")
    \o Call("next_index", "png_count", 0)
    \o shmdt("png_count") \o sem_post("download_mutex", 0) \o shmdt("download_mutex")

\* mutant: the item is not announced
push_recv_buf_to_shm_stack_Silent ==
  shmat("spaces") \o sem_wait("spaces", 0) \o shmdt("spaces")
    \o shmat("stack_mutex") \o sem_wait("stack_mutex", 0)
    \o shmat("recv_stack") \o Call("push", "recv_stack", 0) \o shmdt("recv_stack")
    \o sem_post("stack_mutex", 0) \o shmdt("stack_mutex")

push_recv_buf_to_shm_stack ==
  shmat("spaces") \o sem_wait("spaces", 0) \o shmdt("spaces")
    \o shmat("stack_mutex") \o sem_wait("stack_mutex", 0)
    \o shmat("recv_stack") \o Call("push", "recv_stack", 0) \o shmdt("recv_stack")
    \o sem_post("stack_mutex", 0) \o shmdt("stack_mutex")
    \o shmat("items") \o sem_post("items", 0) \o shmdt("items")

\* what the caller does with NULL, the answer when no PNG is left to wait for
pop_recv_buf_from_shm_stack(onNull) ==
  _is_all_png_downloaded \o on_none(onNull)
    \o shmat("items") \o sem_wait("items", 0) \o shmdt("items")
    \o shmat("stack_mutex") \o sem_wait("stack_mutex", 0)
    \o shmat("recv_stack") \o Call("pop", "recv_stack", 0) \o shmdt("recv_stack")
    \o sem_post("stack_mutex", 0) \o shmdt("stack_mutex")
    \o shmat("spaces") \o sem_post("spaces", 0) \o shmdt("spaces") \o on_none(onNull)

\* "png" is the segment for the item popped last
add_png_to_shm_array ==
  shmat("png_array") \o _init_shm("png", 1) \o shmat("png")
    \o Call("store_item", "png", 0) \o shmdt("png") \o shmdt("png_array")

get_all_png_from_shm_array ==
  shmat("png_array")
    \o Times(NUM_SEGMENTS, LAMBDA i : shmat(PngSegment(i)) \o load(PngSegment(i))
                                        \o shmdt(PngSegment(i)))
    \o shmdt("png_array")
-----------------------------------------------------------------------------
(***************************************************************************)
(* lab3/paster2.c and lab3/test.c.  Their loops over children are          *)
(* unrolled, and a segment once fetched is in the register of its process. *)
(***************************************************************************)
produce == get_download_segment_index \o on_none("exit")
             \o push_recv_buf_to_shm_stack \o again

consume == pop_recv_buf_from_shm_stack("exit") \o add_png_to_shm_array \o again

paster2 ==
  [ main    |-> init_shared_mem(B, C)
                  \o Times(P, LAMBDA i : fork("produce"))
                  \o Times(C, LAMBDA i : fork("consume"))
                  \o Times(C + P, LAMBDA i : wait(0))
                  \o get_all_png_from_shm_array \o cleanup_shared_mem \o exit(0),
    produce |-> produce,
    consume |-> consume ]

\* With no consumers registered, pop_recv_buf_from_shm_stack answers NULL.
test ==
  [ main  |-> init_shared_mem(NUM_ITEMS, 0)
                \o Times(NUM_ITEMS, LAMBDA i : fork("child"))
                \o Times(NUM_ITEMS, LAMBDA i : wait(0))
                \o Times(NUM_ITEMS, LAMBDA i : pop_recv_buf_from_shm_stack("crash"))
                \o cleanup_shared_mem \o exit(0),
    child |-> push_recv_buf_to_shm_stack \o exit(0) ]
-----------------------------------------------------------------------------
(***************************************************************************)
(* lab3/starter                                                            *)
(***************************************************************************)
Message == 2
Part    == 1

\* mutant: the parent does not wait for the child's message
sem_simple_NoWait ==
  [ main  |-> shmget("buf", 1) \o shmget("sems", 2) \o shmat("buf") \o shmat("sems")
                \o sem_init("sems", 0, 1) \o sem_init("sems", 1, 0) \o fork("child")
                \o load("buf") \o sem_post("sems", 0)
                \o shmdt("buf") \o rmid("buf") \o shmdt("sems") \o wait(1)
                \o rmid("sems") \o exit(0),
    child |-> sem_wait("sems", 0) \o store("buf", Message) \o sem_post("sems", 1)
                \o shmdt("buf") \o shmdt("sems") \o exit(0) ]

\* sem_destroy, of semaphores that are detached by then, does nothing in glibc.
sem_simple ==
  [ main  |-> shmget("buf", 1) \o shmget("sems", 2) \o shmat("buf") \o shmat("sems")
                \o sem_init("sems", 0, 1) \o sem_init("sems", 1, 0) \o fork("child")
                \o sem_wait("sems", 1) \o load("buf") \o sem_post("sems", 0)
                \o shmdt("buf") \o rmid("buf") \o shmdt("sems") \o wait(1)
                \o rmid("sems") \o exit(0),
    child |-> sem_wait("sems", 0) \o store("buf", Message) \o sem_post("sems", 1)
                \o shmdt("buf") \o shmdt("sems") \o exit(0) ]

shm_simple ==
  [ main  |-> shmget("buf", 1) \o fork("child")
                \o shmat("buf") \o wait(1) \o load("buf") \o shmdt("buf") \o rmid("buf")
                \o exit(0),
    child |-> shmat("buf") \o store("buf", Message) \o shmdt("buf") \o exit(0) ]

create_stack(n) == malloc("heap", sizeof_shm_stack(n)) \o init_shm_stack("heap", n)

destroy_stack == free("heap")

push_all(s) == Call("push_all", s, 0)
pop_all(s)  == Call("pop_all", s, 0)

test_local == create_stack(STACK_SIZE) \o push_all("heap") \o pop_all("heap") \o destroy_stack

\* test_shm: the child pushes until the stack is full, the parent pops all
shm_struct ==
  [ main  |-> test_local
                \o shmget("stack", sizeof_shm_stack(STACK_SIZE)) \o fork("child")
                \o shmat("stack") \o wait(1) \o pop_all("stack")
                \o shmdt("stack") \o rmid("stack") \o exit(0),
    child |-> shmat("stack") \o init_shm_stack("stack", STACK_SIZE)
                \o push_all("stack") \o shmdt("stack") \o exit(0) ]

\* The child is left to whoever inherits it.
zombie ==
  [ main  |-> fork("child") \o exit(0),
    child |-> exit(0) ]

forkN ==
  [ main   |-> Times(NUM_CHILD, LAMBDA i : fork("worker"))
                 \o Times(NUM_CHILD, LAMBDA i : wait(i)) \o exit(0),
    worker |-> exit(0) ]

-----------------------------------------------------------------------------
(***************************************************************************)
(* The examples that fetch a file with libcurl into a buffer, of lab2 on   *)
(* the heap, and of lab3 in shared memory, with its head in the first cell *)
(***************************************************************************)
\* with the callback for the headers or without, and what the program does if it
\* breaks: "exit" or nothing
curl_easy_perform(headers, broken) == Call("fetch", broken, headers)

write_file(s) == Call("write_file", s, 0)

process_data(s) == Call("process_data", s, 0)

recv_buf_init(size) == malloc("heap", size) \o Call("init", "heap", <<size, 0>>)

recv_buf_cleanup == free("heap")

main_write_callback ==
  [ main |-> recv_buf_init(BUF_SIZE) \o curl_easy_perform(FALSE, "") \o write_file("heap")
               \o recv_buf_cleanup \o exit(0) ]

main_write_header_cb ==
  [ main |-> recv_buf_init(BUF_SIZE) \o curl_easy_perform(TRUE, "") \o write_file("heap")
               \o recv_buf_cleanup \o exit(0) ]

sizeof_shm_recv_buf(nbytes) == nbytes + 1

shm_recv_buf_init(s, nbytes) == Call("init", s, <<nbytes, 1>>)

cURL_IPC ==
  [ main |-> shmget("buf", sizeof_shm_recv_buf(BUF_SIZE)) \o shmat("buf")
               \o shm_recv_buf_init("buf", BUF_SIZE) \o curl_easy_perform(TRUE, "")
               \o write_file("buf") \o shmdt("buf") \o rmid("buf") \o exit(0) ]

\* Here a child fetches; how it ended is not looked at.
cURL_IPC_2proc ==
  [ main  |-> shmget("buf", sizeof_shm_recv_buf(BUF_SIZE)) \o shmat("buf")
                \o shm_recv_buf_init("buf", BUF_SIZE) \o fork("child") \o wait(1)
                \o write_file("buf") \o shmdt("buf") \o rmid("buf") \o exit(0),
    child |-> curl_easy_perform(TRUE, "") \o shmdt("buf") \o exit(0) ]

\* lab4's example.  The call of process_data in the printf is a call as well.
curl_xml ==
  [ main |-> recv_buf_init(BUF_SIZE) \o curl_easy_perform(TRUE, "exit")
               \o process_data("heap") \o process_data("heap")
               \o recv_buf_cleanup \o exit(0) ]

Text == [ paster2 |-> paster2, test |-> test, sem_simple |-> sem_simple,
          shm_simple |-> shm_simple, shm_struct |-> shm_struct, zombie |-> zombie,
          forkN |-> forkN, main_write_callback |-> main_write_callback,
          main_write_header_cb |-> main_write_header_cb, cURL_IPC |-> cURL_IPC,
          cURL_IPC_2proc |-> cURL_IPC_2proc, curl_xml |-> curl_xml ]
=============================================================================
