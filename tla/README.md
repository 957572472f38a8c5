# A TLA+ development of the ECE 252 lab programs

The repository holds five small C systems written for a course on systems
programming. Four of them are two ideas, each tried with two means of
concurrency, and those are at the centre of what is specified here:

| lab | program | means | what it does |
|---|---|---|---|
| lab2 | `paster` | threads and a mutex | downloads the 50 segments of an image, in whatever order three servers hand them out, and concatenates them |
| lab3 | `paster2` | processes, System V shared memory, semaphores | the same with producers, a bounded stack, consumers and a shared array |
| lab4 | `findpng2` | threads, a mutex and a condition variable | a breadth-first search of the web for PNGs |
| lab5 | `findpng3` | one thread, libcurl's multi interface | the same search with many transfers at once |

lab1 is sequential (`catpng`, `findpng`, `pnginfo`). The searches stand on a queue
and a hash map written for them, and all four on libcurl callbacks that fill a
buffer; these are specified by themselves. So are the calls by which `paster2`
and the examples handed out with the labs create, attach, use and remove shared
memory.

## 1. Inventory

### lab4: `bfs.c`, `web_crawler.c`, `queue.c`, `hashmap.c`

*State* (`bfs_t`): the queue `frontier`, the queue `search_results`, the hash
map `visited`, `waiting_threads`, `work_done`, a mutex and the condition
`not_empty`. *Operations*: `_bfs_concurrent_search` (each thread),
`_process_search_result` (what a thread does with a page or a PNG), `bfs_start`
(the main thread: create, join, copy the results), and the function `work`,
which is `web_crawler`: one HTTP transfer, then `process_data`.

*Hard*: the search is over when every thread waits, which only the threads
themselves can notice; broadcasts reach sleepers only, so whether a thread is
asleep when one is sent matters; transfers end late; several threads meet the
same link at once; `max_results` is compared by `==`.

*Correct means*: no URL is worked on twice; nothing reachable is missed; the
end is announced only when there is really nothing left; no more results than
asked for; after the end nothing is found, visited or enqueued any more, though
threads may still dequeue; `bfs_start` returns.

### lab5: `findpng3.c`, `bfs.c`, `web_crawler.c`

The same queues and map, no locks. *Operations*: one turn of `bfs_start` opens
up to `max_conntions` transfers; `_search_one_cycle` waits for all of them and
then reads the messages of the ones that ended, in the order in which they
ended. *Hard*: `max_results` may be reached in the middle of a batch;
`curl_multi_wait` may fail with transfers in flight; the result of a transfer
is not looked at; the root is enqueued without being marked visited; the search
goes on, fruitlessly, until the frontier is empty. `main` writes what the search
returned to `png_urls.txt`.

### lab3: `paster2.c`, `consumer_producer.c`, `shm_utils.c`, `shm_stack.c`

*State*, all in shared memory: a stack of `B` receive buffers, an array of
decoded PNGs, two counting semaphores, three binary ones, and three counters
(next part to download, parts reserved by consumers, consumers). *Operations*:
producers take the next part, fetch it until that succeeds, and push it;
consumers reserve a part, pop one, decode it and put it in the array; the
parent forks, waits, collects. *Hard*: the results of `push` and `pop` are
ignored, so the semaphores must make failure impossible; a consumer reserves
before it waits; a consumer dies of a body it cannot decode; a fork may fail
while the parent still counts on it.

### lab2: `paster.c`

*State*: `p_pngs`, `num_pngs` and a mutex. *Operation*: each thread checks the
count, downloads without the mutex, and stores under it. *Hard*: the check is
old when the download ends; two threads may hold the same segment; a body that
is no PNG counts as a segment.

### lab4 and lab5: `queue.c`, `hashmap.c`

*State*: linked lists of heap nodes with a pointer to the last one and a count;
chains of strings in `n_buckets` buckets and a count. *Operations*: every
function of the two headers. They have no locks of their own: the callers hold
`bfs->mutex` or are alone. *Hard*: `tail` must be right after any sequence of
calls; `queue_to_array` walks to `size` and not to the end of the list; several
queues share one heap; strings that collide share a chain; `hashmap_init` never
sets `size`. *Correct means*: a queue is a FIFO queue and leaks nothing; the map
is a set.

### lab2 to lab5: receive buffers (`urlutils.c`, `web_crawler.c`, `shm_stack.c`)

*State*: a buffer with `size` and `max_size`, and in lab3 the stack of such
buffers laid out in shared memory. *Operations*: `fetch_url`, the header and
write callbacks, `push` and `pop`. *Hard*: libcurl delivers a body in pieces of
any size; labs 2, 4 and 5 reallocate and lab3 refuses; `push` copies `max_size`
bytes and `pop` `BUF_SIZE`, whatever was received. *Correct means*: nothing is
written past an end, and the body is the one that was sent.

### lab1 to lab3: `lab_png.c`, `crc.c`, `zutil.c`, `catpng.c`

*State*: a buffer with a file or a body in it, a pointer that moves through the
chunks and what is left behind it, and the buffers a stream is inflated into.
*Operations*: `create_png`, `create_png_from_buf`, `read_chunk`, `mem_inf`,
`mem_def`, `concatenate_pngs`, `main`. *Hard*: a file may end anywhere; a chunk
may be damaged; a file may start like a PNG and be none, for which `create_png`
returns `NULL` and `main` goes on; a stream may break off, be empty, or hold
more than the header says. *Correct means*: a chunk is read if and only if it is
there, and `all.png` is one sound PNG with the parts below each other, or is not
written.

### Programs over shared memory: `paster2`, `lab3/test.c`, the starter examples

*State*: segments of System V shared memory, which have an identifier, a size
and contents, and are attached at some address in each process; what was stored
in them includes an address (`items`). *Operations*: `shmget`, `shmat`, `shmdt`,
`shmctl`, `sem_*`, `fork`, `wait`, and what is read and written between them.
*Hard*: a process may attach a segment elsewhere than the one that stored the
address; children create segments the parent must remove; identifier 0 is taken
for none; a segment is removed while another process may still attach it; the
parent reads what a child may not have written. *Correct means*: what a child
left is what the parent reads, nothing stays in the system, every process ends.

### The rest

`findpng.c` (a directory walk; `pnginfo.c` is empty), the options and the timing
of the `main` programs, and starter examples of one call each.

## 2. Modules

| module | models | notes |
|---|---|---|
| `SearchReturn` | `lab4/bfs.h` | what a search returns for one URL |
| `WebCrawler` | `lab4/web_crawler.c` | what one call of `web_crawler` may return, as a function of what the transfer yields |
| `ConcurrentBfs` | `lab4/bfs.c` | the thread pool |
| `ConcurrentBfsProps` | | its properties and its refinement mapping |
| `ConcurrentBfs_proofs` | | theorems about it |
| `Lexicographic` | | the order in which the steps left are compared |
| `WebSite` | | what there is on the web of `WebCrawler`: links, PNGs, what can be reached |
| `Crawl` | | abstract: what a crawl promises, whoever does it |
| `MultiCrawler`, `MultiBfs`, `MultiBfsProps` | `lab5/web_crawler.c`, `lab5/bfs.c`, `lab5/findpng3.c` | the batches and the file written in the end, also shown to implement `Crawl` |
| `MultiBfs_proofs` | | theorems about it |
| `Paster2`, `Paster2Props` | `lab3` | processes, semaphores, stack and array |
| `Pipeline` | | abstract: what becomes of each part of the image |
| `Paster2_proofs` | | theorems about `Paster2` |
| `Paster`, `PasterProps`, `Paster_proofs` | `lab2/paster.c` | the counting threads |
| `RecvBuf`, `RecvBuf_proofs` | `lab2/urlutils.c`, `lab3/urlutils.c`, `lab3/shm_stack.c`, the callbacks in `lab4/web_crawler.c` | receive buffers and lab3's stack, as memory |
| `Queue`, `Queue_proofs` | `lab4/queue.c`, `lab5/queue.c` | lists of nodes on a heap |
| `Fifo` | | abstract: what a queue promises |
| `Hashmap`, `Hashmap_proofs` | `lab4/hashmap.c`, `lab5/hashmap.c` | chains in buckets, with the hash |
| `StringSet` | | abstract: what the map promises |
| `SequenceLemmas` | | lemmas on sequences used as queues, for the proofs |
| `LabPng` | `lab_png.c`, `crc.c` of lab1 to lab3 | reading and writing chunks, as operators on bytes |
| `Zutil` | `zutil.c` of lab1 to lab3 | `mem_def`, and `mem_inf` with the buffer it doubles |
| `CatPng`, `CatPngProps` | `catpng.c` of lab1 to lab3 | the three programs that concatenate, and what must come of inputs that are known |
| `ProgramText` | `lab3/shm_utils.c`, `paster2.c`, `test.c`, `lab2`-`lab4/starter` | the calls of each process of twelve programs, in order |
| `Programs`, `ProgramsProps` | | what the calls do, and what must be true of the programs |
| `MCConcurrentBfs`, `MCMultiBfs`, `MCPaster`, `MCRecvBuf`, `MCHashmap`, `MCCatPng`, `MCPrograms` | | values of the constants for TLC |

The operators named `X_Something` just before an action `X` are not part of a
model: each is `X` with a plausible mistake in it, and is used to see that a
property notices the mistake.

### Correspondence

**ConcurrentBfs.** Everything the threads share is read and written with
`bfs->mutex` held, so a critical section without a loop is one action, enabled
when the mutex is free (`mutex` is `NULL`); the loop over the children of a page
is one step for each test and each insertion, with the mutex held from the
first to the last. A thread's place is `pc[t]`:

| `pc` | where in `bfs.c` |
|---|---|
| `lock` | about to lock at line 64 |
| `waiting` | asleep in `pthread_cond_wait`, line 77 |
| `woken` | signalled, about to take the mutex again |
| `call`, `work` | before and inside `bfs->work`, line 99 |
| `process` | about to lock at line 28 |
| `check`, `insert` | inside the loop of lines 46-52 |
| `broke`, `stopped` | returned, from the loop or by `should_stop` |

`WakeToNode` and `WakeToNothing` are lines 79-94 for a thread that finds work or
finds the frontier empty again. A spurious return of the wait is an action too,
at most `MaxSpurious` of them. `calls` counts the calls of `work` for each URL,
which is what the log file shows.

**WebCrawler.** The network, libcurl and libxml2 are the constant `site`: for
each URL, the set of outcomes a transfer may have. A response keeps what the
code branches on: status, kind of Content-Type, whether the body starts with
the PNG signature, whether it parses, the links, the effective URL. Links go
through `buildURI` (libxml2's `xmlBuildURI`) and the test for `http`.

**MultiBfs.** The thread is alone; a step is the opening of a batch, the end of
one transfer, one message, or one link. `msgs` is libcurl's message queue. When
the search has returned, `main` writes one URL a step to `png_urls` and exits.

**Paster2.** Each `sem_wait` and `sem_post` is an action. `push` and `pop` are
two actions each (the pointer and the copy), so that only `sem_stack_mutex`
keeps two processes apart. The counters guarded by `sem_png_array_mutex` and
`sem_download_mutex` are touched by nothing else, so each of those sections is
one action. An item is the number of the part in it. `Bad` holds the parts
for which the server may answer with something that is no PNG; a consumer that
meets such a body dies, as `add_png_to_shm_array(seq, NULL)` does.

**Paster.** Both critical sections of `fetch_png` are one action each, and the
download between them one more, with the segment and the kind of body chosen by
the server. The history variable `bad` counts the bodies that were counted and
are no PNG. `create_png_from_buf` makes a PNG or `NULL` of a body here; that it may
crash on one that starts like a PNG and breaks off in its first chunks
(`lab2/lab_png.c:140-181`) is in `CatPng`.

**RecvBuf.** Memory is a function from positions to cells, and `memcpy` writes
where it is told, past the end as well: the domain of the function then grows,
which `Holds` notices. `lab` is 2 for the buffer that grows (labs 2, 4 and 5) and
3 for the one that refuses. `write_cb_curl` is one call of the callback with one
chunk; the transfer may fail between any two. `push` and `pop` run under
`sem_stack_mutex`, so each is one step here (`Paster2` splits them to see that
the mutex is what keeps them apart). The header of an item is one cell.

**Queue.** `heap` maps the allocated nodes to their values and `next` pointers;
`malloc` takes any free node, so a node that was freed comes back in another
queue. Each call is one step. `queue_cleanup` frees the nodes and leaves the
pointers dangling, as the code does; a queue that is not `live` is not used
until `queue_init`. `NodeAt` and `Chain` follow the pointers as the loops of the
code do; that they find the list is a lemma and not part of the model.

**Hashmap.** A chain is a sequence, newest first; `_hash` is djb2 over signed
chars, modulo `SizeMod` after every char, as a `size_t` wraps; `SizeMod` stands for
2^64. `size` starts as whatever was in memory (`garbage`) and wraps too.

**LabPng, Zutil, CatPng.** Bytes are bytes and the CRC is the real one; a `U32` is
a pair of 16-bit halves because TLC's integers have 32 bits. zlib is external:
`deflate` writes runs of equal bytes, so that a stream says where it ends, can be
inflated a part at a time and can be shorter than half of what it holds, which
is when `mem_inf` must enlarge its buffer. `InflateAll` is its loop; it is
recursive, so this module is for TLC only. `create_png` and
`create_png_from_buf` are *sets* of outcomes: when the first or second chunk
cannot be read, `destroy_png` looks at pointers that were never set, and the
outcome is `NULL` or `Crash`. In lab1, `main` counts a `NULL` as a PNG and follows
it in `concatenate_pngs`, which ends in `crashed`; `paster` and `paster2` refuse it.
`Paster` and `Paster2` abstract a body that is no PNG to a `NULL`; here are the
bytes, and the crash.

**ProgramText, Programs.** A program is a record of pieces of code, a piece of code
the sequence of its calls, a call a record of the operation, the segment it is
about and a value. Each operator of `ProgramText` is a function of the C code,
with the name it has there, and stands for the calls it makes in their order.
`Programs` says what a call does: one action for each kind. A process has a
code, a place in it, a register and the addresses of what it has attached; a
segment is attached at the highest place it fits into (`room` holds the pages
that are free in the process; a page holds one cell), and cells are found
through addresses, so a pointer that another process stored leads wherever it
leads here. A segment marked for removal goes with its last attachment. One call
of each example and of `test` may fail (`CallFails`, `FetchFails`); what fails in `paster2` is
in `Paster2`, which has the same program without its addresses.

### Composition and refinement

`web_crawler(u)` of `WebCrawler` is the value of the constant `work` of
`ConcurrentBfs` (`process_data(u)` of `MultiCrawler` for `MultiBfs`), so a change
of the crawler's branches changes the searches that are checked.
`ConcurrentBfs` and `MultiBfs` both implement `Crawl`: the URLs seen are
`visited`, the pending ones are those in the frontier, in flight or in a
message, and the crawl ends `exhausted` or `full`. The two differences between
the labs are parameters of `Crawl`: lab5 does not mark the root (`Marked`), and
a failed `curl_multi_wait` gives URLs up (`MayAbandon`). `Paster2` implements
`Pipeline`, in which each part goes from `todo` to `assigned`, `buffered` (at
most `B`), `taken` and `stored` (or `lost`, if it cannot be decoded), and the
image is `written` only from all the parts. `Queue` implements `Fifo` and
`Hashmap` implements `StringSet`, which is how the two searches use them: as
a sequence (`frontier`, `search_results`) and a set (`visited`). Of the hand-over
through lab3's stack, `Paster2` has the processes, `RecvBuf` the memory of the
items, and `Programs` the segments and the addresses at which they are attached;
`CatPng` has what becomes of the bodies `Paster` and `Paster2` collect.

## 3. Runs

| run | instance | distinct states | shows |
|---|---|---|---|
| `exhaust` | lab4, 3 threads, `max_results` 0, one spurious wakeup | 27,890 | nothing worked on twice, right termination, nothing missed, `bfs_start` returns |
| `full` | lab4, 3 threads, `max_results` 1 | 26,225 | after the end nothing is found, visited or enqueued and the frontier only shrinks, threads end or sleep, and only sleepers of a full search are ever stuck |
| `hang` | lab4, 2 threads, `max_results` 1 | violation | `bfs_start` may never return |
| `batches` | `findpng3`, 3 connections, `max_results` 2, one failed wait | 1,106 | the batches implement the crawl, and end with every result in the file |
| `faults` | lab3, 2 producers, 2 consumers, B = 2, 3 parts of which 1 may come bad, 1 failed transfer, 1 failed fork | 254,741 | semaphores account for every place; nothing refused, overwritten or lost; every good part is collected, no partial image, nobody is stuck, the parent's wait ends |
| `transfer` | buffers of 3 bytes that grow by 2, a stack of 2, bodies up to 8 bytes | 49,254 | nothing is written past an end; what is popped is what was received |
| `segments` | lab2, 3 threads, 3 segments, 2 of which may come bad | 104,741 | what the count means, its overshoot, the complete image, termination |
| `queue` | two queues, three nodes, two values | 9,535 | pointers and count agree, nothing leaks, each queue is a FIFO queue |
| `hashmap` | five strings, two buckets, `size` modulo 8 | 1,280 | every string once and where it hashes to; the map is a set |
| `catpng` | `catpng`, `paster` and `paster2` on up to three of some 70 inputs | 4,318 | what is read of each, and what is written |
| `programs` | twelve programs, one failed call, two memories | 91,233 | the parent reads what its children left, no segment stays, all processes end |
| `address` | `paster2` in a memory whose free pages are in one piece | violation | `items` may not point right after the stack |

*Why these bounds.* Three threads are the fewest with one ending the search, one
woken for nothing and one at work. The web of `MCConcurrentBfs` has a cycle, a
self-link, a repeated link, a link that is not http, one that does not resolve,
a transfer that may fail, a redirection to a PNG and a fake PNG, so every branch
of the crawler is taken. In lab5, three transfers in a batch let two PNGs reach
the maximum before the third message is read. In lab3, two processes of each
kind and a stack of two make the stack full and empty, and three parts make the
last reservation race with the ends of both consumers; with `B` smaller than
the number of parts, pushes block. The run with the faults contains the one
without: each of them may also not happen. In lab2, three threads on three segments
make the count pass the limit by two. In `transfer`, chunks are empty, fill the
buffer to the last byte, pass it by one, and are larger than `BUF_INC`; `MaxBody`
leaves room for several of them in one body. Three nodes let a list
have a first, a middle and a last one, or two queues exchange nodes. The strings
of `hashmap` include the empty one, an anagram pair and one with chars above
127, and fill both buckets. The inputs of `catpng` are
images of different heights: sound, damaged in each chunk, followed by other bytes,
cut short after every byte, without a header, with a header of the wrong length, with
a stream that is empty, is cut short, is none, or holds more than the header says;
and two that are no PNG, one of them shorter than the signature. In `programs`,
`paster2` runs with one producer and two consumers, since every attachment is a
step and two of each are more than five minutes' work (`faults` has them); two
consumers are needed for one to pop what the other has not yet decoded. The
bodies of the examples have 0 to 4 pieces for a buffer of 3, so they fit, fill
it and pass it. `OnePiece` is a memory in which attachments are stacked on
each other, `Pieces` one in which the stack fits in one place only; in the first,
`paster2` may not work (finding 2), so `programs` gives it and `test` the second.
`FirstId` is 1 (see the slips below). The bounds on events that could otherwise
recur for ever are `MaxSpurious`, `MaxFetchFailures`, `MaxForkFailures`,
`MaxWaitFailures` and `MaxFailures`; each is 1 in a run where the event matters, which lets it
happen at every place.

*Deadlock* is checked except in `full` and `hang`, where lab4's code does stop
for ever (finding 1), and in `faults`, where it does when every consumer has
died: `Collected`, `NeverStuck` and `Ends` are about the case that one is left
(`Staffed`). There the absence of deadlock is a property of its own: `NeverStuck`
in `faults`, and `StuckOnlyWhenFull` in `full`, which says that what `hang` shows is the
only way to stop. Both are written with guards (`ThreadCanGo`, `ProducerCanGo`, ...)
that repeat in a line when each action is enabled.

*Fairness.* Weak fairness of each thread or process and of the main program:
the scheduler runs what can run, a transfer ends, a mutex or semaphore that
stays available is taken. Nothing is assumed of spurious wakeups, and no strong
fairness of locks is needed, since no thread takes and releases one for ever
while another waits. Transfers are assumed to end although the timeouts are
commented out (`lab5/web_crawler.c:144-149`). lab2 needs one thing more:
the servers hand out each segment again and again to threads that keep asking
(strong fairness of each segment's `Fetch`); they draw segments at random, and
without this the code promises nothing. So `Terminates` of `segments` speaks of
servers that go on handing out every segment, and of bodies that do not crash
`create_png_from_buf`.

*Hazards that no property catches.* What a broken transfer left is processed as if
it were complete (`lab5/bfs.c:44`): such a page has several outcomes in `work`,
`NothingMissed` exempts it and `ImplementsCrawl` accepts any of them. Producers wait
for ever when every consumer has died (`shm_utils.c:194`): `Staffed` excludes it.
Identifier 0 is never removed (`shm_utils.c:17`): `FirstId = 1` excludes it. A stack
attached at another address (`shm_stack.c:71`) cannot happen in the memories of
`programs`; only `address` shows it.

## 4. Findings

1. **lab4 may hang at the maximum** (`hang`). A thread that is busy when another
   one records the last result can come back to an empty frontier, find that it
   is not the last to wait, and enter `pthread_cond_wait` at `bfs.c:77`. The
   broadcast is over, `work_done` is looked at only after the wait, and
   nobody signals again, so the join never returns. `full` shows that this is
   all that goes wrong (`Settles`: every thread ends or sleeps;
   `StuckOnlyWhenFull`: as long as the main thread has not returned somebody can go
   on, unless the search is full and all who have not ended are asleep), and
   `OnlyFullSearchesHang` proves the latter for any number of threads and any web.
2. **lab3 stores an address in shared memory** (`address`). `init_shm_stack` sets
   `items` to the place behind the stack in the process that initialises it
   (`shm_stack.c:71`); the comment at `shm_stack.c:17-18` has it point there in
   all. But `push` and `pop` attach the stack while a semaphore is attached, and
   the process that initialised it had none attached, so where free memory
   comes in one piece the stack is placed lower. The last item then overlaps
   another segment: what is popped may be a mutex's value. In a memory where
   only one place is large enough for the stack the program works, which
   `programs` shows (`HandedOver`).

Smaller slips noticed and not given a run:

- lab2's `num_pngs` grows although `create_png_from_buf` returned `NULL`, so the
  threads end with a segment missing and no image is written, where another
  download would do (`CountsStored` and `CompleteWhenGood` say so exactly).
- `_cleanup_shm` (`shm_utils.c:17`) takes identifier 0, which System V may give to
  the first segment, for none: with `FirstId = 0` TLC finds `NothingLeft` violated.
- `lab3/test.c` registers no consumers, so that its first `pop` answers `NULL`,
  which it dereferences (`HandedOver` names it as the one program that crashes).
- `main_2proc.c`'s parent ignores how its child ended and writes what part of a
  body there is; `curl_xml`'s `main` calls `process_data` twice, once inside a
  `printf`, and so writes its file twice. `HandedOver` says both.
- The comments on `sem_spaces_counting` and `sem_items_counting`
  (`shm_utils.h:30-33`) are swapped; `shm_utils.h:44` calls `downloaded_count` the
  number of PNGs downloaded, but consumers increment it before they wait for
  one; the note on `get_all_png_from_shm_array` says it should *not* be called
  after the children exit, where it means that it should.
- lab5 fetches a root that is linked to twice (`FetchedOnce` says exactly that: 2
  for the root, 1 for the rest).

## 5. Proofs

Every theorem is about the specification with arbitrary constants: any number
of threads, processes, places, parts and URLs, any web.

**ConcurrentBfs_proofs**: `TypeCorrect`, `TerminationDetection`, `NeverTooMany`,
`CopyIsAlone`. Typing is not inductive alone: that `waiting_threads` stays within
`0 .. NThreads` depends on its being the number of threads in the set `Counted`
(waiting, woken, or left by `break`). The inductive invariant joins the types,
that count, the mutex (held exactly by the thread in the loop over children),
and what a set `work_done` means. Termination detection follows: if the count
reaches the number of threads, every other thread is counted, so none holds a
URL; the induction has to carry that woken threads find `work_done` set.

Its second part proves `EachUrlOnce`, `NoLostBroadcast`, `DoneIsFinal`,
`Complete`, and `Implements`, the refinement of `Crawl`. The strengthening says
that each URL visited is in the frontier once, or held by one thread, or was
worked on, and never two of these; and for the thread inside the loop, that the
children before its counter are visited already. `DoneIsFinal` rests on nobody being
in that loop once `work_done` is set, so that a step can only shorten the
frontier. With the strengthening, each step maps
to a step of `Crawl` or to a stutter: removing a URL is `Finish`, `Report` or
`GiveUp`, an insertion is `Discover`, and all the rest leaves the mapped state
alone. What can be shown of any crawl then holds of the threads: by `Sound` they
visit only what the root leads to and report only what one of those URLs gave
(`OnlyReachable` of `Crawl`), which is the converse of `NothingMissed`.

Its third part is about ending. `OnlyFullSearchesHang` (the property
`StuckOnlyWhenFull`) needs one more fact (`Undecided`): until `work_done` is set,
not every thread is counted as waiting, since the last one decides. So if nobody can
take a step, the mutex is free, all threads are asleep or have ended, and `work_done` is
set; and were the frontier exhausted, `QuietWhenExhausted` would have nobody asleep.
`StepsRunOut` says that no interleaving goes on for ever:
`Left` is a tuple of seven numbers (spurious wakeups left, URLs not yet visited, URLs
queued, ...) that every step makes lexicographically smaller. Its hypothesis
`IsFiniteSet(Url)` is needed: on an endless web a search does not end.

Its last part puts `web_crawler` in the place of `work`. `CrawlerFits`: it returns
what the search assumes, whatever a transfer brings. `FindsOnlyWhatIsThere`: only
http URLs that links lead to are visited (or the root), and each result is the
effective URL of a response with a status below 400, the Content-Type and the
signature of a PNG. `FindsAllThereIs`: on a web that always answers the same
(`Steady`), an exhausted search has visited exactly the reachable URLs and found
exactly their PNGs. They follow from `Sound`, `Complete` and the lemma `FindsLinks`
on the loop of `find_http`.

**MultiBfs_proofs**: `FetchesOnce`, `CountsResults`, `MissesNothing`, and
`Implements`, the refinement of the same `Crawl`, with `Sound` from it as in lab4. They share one inductive
invariant (theorem `Invariant`). A URL that nothing has been done with is in one
place: in the frontier, in flight, or in a message that is not being read
(`Apart`). All of these are marked visited but the root, which `bfs_start` enqueues
without marking it, and which is then alone (`Known`). `Called` is the sum that
makes `FetchedOnce` inductive: the calls made for a URL and its place in the
frontier together are at most one for its mark, and one more for the root.
`Covered` says that, until the search is full or a wait has failed, each URL met
is either still pending or has given everything it was certain to give. What the
constants fix is only a function from URLs to what may come of fetching them.

`StepsRunOut` is its termination: every step of `findpng3`, a failed wait
included, makes a tuple of eight numbers lexicographically smaller. The hypotheses are that
there are finitely many URLs, and `max_conntions # 0`: with 0 connections the code
opens empty batches for ever. `CrawlerFits`, `FindsOnlyWhatIsThere` and
`FindsAllThereIs` are as in lab4, with `process_data` for `work`; the last is about the
file that is written, for a search that ends below `max_results` and without a
failed wait.

**Paster2_proofs**: `TypeCorrect`, `Balanced`, `Exclusive`, `PushPopSucceed`,
from the invariant TypeOK, SemaphoreBalance, StackExclusive and NoHole (every
place below the stack pointer holds a part). They depend on one another: the
balance of the semaphores makes `push` and `pop` succeed, and exclusion makes
the pointer that `push` moved the one it copies to.

Its second part proves `AllCollected` and `Implements`, the refinement of
`Pipeline`. `Places` says in which single place each part is: not begun, with one
producer, once on the stack, with one consumer, in the array, or lost with a
consumer that died of it. The top of the stack is the delicate place, since
`push` moves the pointer before it copies and `pop` after: `Top` is one less while
a process is between the two. `Ledger` holds the counts that decide when it is
over: `sem_items` against the parts begun, under way and reserved, the consumers
registered and those that died, and the children the parent has waited for. With a
consumer left, that one has found every part reserved, and the parent copies the
array only when all are gone, so each part is in the array or was bad.

Its third part proves `DeadlockFree` (the property `NeverStuck`). Suppose nobody can
go. Then `sem_stack_mutex` is free, for whoever holds it can go on; so each producer is
gone or waits for a space, each consumer is gone or waits for an item, and by the balance
of the semaphores spaces and items together are `B`. If a producer waits there are
`B` items, so no consumer waits and all are gone; then they have reserved every part, and
`Ledger` leaves none for the stack. If none waits, all parts have been announced
and not all consumers are gone, so one waits with no items, and `Ledger` has one
more part reserved than there are.
`StepsRunOut` gives the number of steps left at each state and shows that every step
reduces it, and `StepsAtFirst` what it is at first:
`16 * NUM_SEGMENTS + 4 * Children + 4 + MaxFetchFailures`.

**Paster_proofs**: `TypeCorrect`, `CountIsRight`, `Overshoot`, `NoWriterLeft`,
`Whole`. The overshoot follows from a count that no step increases beyond the
bound: `num_pngs` plus the threads between their check and their store. The
complete image needs three facts together: a thread ends only when the count has
reached the number of segments, the joins imply that one has ended, and with no
bad body the count is the number of segments stored, so all are.

**RecvBuf_proofs**: `NothingPastTheEnd` and `ItemsApart`, for any buffer size,
increment, stack depth and chunks. The first follows from two lemmas on one call
of the callback: what `Makeroom` returns has room for the chunk and its 0 and
still holds what it held, and what is copied behind it disturbs nothing before. The second
needs three facts together: an item of index `i` lies in cells that no other
item has (`Apart`); every item on the stack is laid out where `pop` will look for it
(`Placed`); and a lab3 buffer still has the size it was created with, since `push`
copies `max_size` bytes to a place for `BUF_SIZE`.

**Queue_proofs**: `Links` (the property `WellLinked`) and `Implements`, the refinement
of `Fifo`, for any number of queues on a heap of any size. The invariant says of each queue that there
is a sequence of nodes without repetition that its pointers follow, with `tail`
and `size` to match, that no node is in two of them, and that they make up the
heap. `ListsWalked` shows that the loop `while (curr != NULL)` finds such a
sequence. Each call changes one list and leaves the cells of the others alone
(`OnlyOn`, `CallEffect`), which is all that the other queues need.

**Hashmap_proofs**: `Hashes` (the property `WellHashed`) and `Implements`, the refinement of
`StringSet`, for any strings, any number of buckets and any width of `size_t`. It
needs that the hash of every string is a bucket, also when it has wrapped, and
that a string is looked for in the chain it was put in.

*Induction.* The rule of induction cannot be cited with the provers
installed, since it takes a predicate as a parameter. Where a proof has to reach
every place of a sequence or every step of a recursive function (`Walk` in
`Queue_proofs`, `HashExists` in `Hashmap_proofs`, `GatheredRange` for the loop of
`find_http`), it uses `LeastNumber` of `SequenceLemmas` instead: were there a number at which the fact fails, there
would be a least one. That lemma follows from the well-foundedness of `<`.

*Termination.* Liveness and ENABLED are outside the prover's reach, so
`Terminates`, `Ends` and `Settles` are only model-checked. But `DeadlockFree` and
`OnlyFullSearchesHang` say when some step can be taken, and the theorems
`StepsRunOut` that steps run out; that such a program ends as long as the
scheduler does not stop is then a matter of well-foundedness, which is all that is left
to do by hand (for `MultiBfs`, one sequential program, that it never stops early is left to
TLC's check for deadlock in `batches`). On the instances of the runs TLC finds that the guards used there hold exactly when
the actions are ENABLED, and that `EachStepCounts` is true.

*Assumed*: the named ASSUMEs of the modules, which only say what kind of values
the constants are. *Only model-checked*: liveness under fairness (`Terminates`,
`Ends`, `Settles`), and
what is about one text or one file rather than about a state that evolves:
`HandedOver` and `NothingLeft` of `Programs`, which run through the twelve
programs of `ProgramText`, and `ReadsWhatIsThere` and `AllPngIsTheStack` of `CatPng`. `MainAlone` of `Paster` and
`ResultsBounded` of `ConcurrentBfs` are proved (`NoWriterLeft`, `NeverTooMany`) and
have no run of their own: the joins are in `CompleteWhenGood`, and a result too many would
be one found after `work_done` (`FrozenOnceDone`). `ImplementsCrawl` is checked in
`exhaust` and `batches` and proved for a search that ends full as well. `LabPng`, `Zutil` and
`CatPng` cannot be proved about at all, since the CRC needs the module `Bitwise`
and the loop of `mem_inf` a recursive operator.

## 6. What is not modelled

- Memory exhaustion, and failures of `shmget`, `shmat`, `sem_*` (they abort),
  `pthread_*` other than lab2's `pthread_create`, and `curl_easy_init`.
- `n_threads = 0` in lab4 (`bfs_start` returns NULL, which `findpng2` reads
  through), `max_connections = 0` in lab5 (batches of no transfers, for ever),
  and `B`, `P` or `C` of 0 in lab3.
- A `fetch_png` thread of lab2 that crashes on a truncated body (`CatPng` has the
  crash, `Paster` only the `NULL`).
- A response without the sequence header, for which `seq` stays -1.
- A body larger than lab3's buffer: `write_cb_curl` refuses it, the transfer
  fails, and `produce` tries again for ever. `Ends` assumes that transfers fail
  only finitely often.
- `curl_global_cleanup` at the end of every lab4 page while other threads
  transfer (`web_crawler.c:84`): libcurl's global state is not in the model.
- Images of different widths, and sizes and lengths of 2^31 and more: a chunk
  length near 2^32 wraps in `read_chunk`, and `calculate_buffer_size` wraps for
  very large images. Failures of `fopen`, `fread` and `fwrite`.
- In `Programs`: memory that libcurl and the C library map for themselves, segments
  larger than a page, a `wait` that returns -1, and what the examples print
  (`curl_xml`'s links too). `sem_simple` destroys its semaphores after it has
  detached them, which does nothing in glibc. `zombie.c` is exempt from
  `NothingLeft`: it leaves a child behind to be looked at.
- `hashmap_cleanup`, which only frees, and `deep_copy_recv_buf`, which nobody calls.
- `findpng.c`'s directory walk: a recursion over a tree that nothing else changes.
- The log file, timing and options; `findpng2`'s output file, which is
  `findpng3`'s (modelled in `MultiBfs`).
- Starter examples of one library call each, and older copies of files that are
  modelled from the labs.

## 7. Plan

Done: 1. `ConcurrentBfs` with `WebCrawler` and `Crawl`, checked and proved;
2. `Paster2` with `Pipeline`, checked, safety core proved; 3. `MultiBfs` against
the same `Crawl`; 4. `Paster`, checked and proved; 5. `RecvBuf`, checked and
proved; 6. `Queue` against `Fifo` and `Hashmap` against `StringSet`; 7. `LabPng`
and `CatPng` against inputs whose images are known; 8. `Zutil`, and `CatPng` for
the three programs that concatenate; 9. `Programs`, with the text of `paster2` and
of the starter examples; 10. `findpng3`'s end in `MultiBfs`;
11. Proofs for the pipeline of `Paster2`, for `MultiBfs`, `Queue` and `Hashmap`;
12. Proofs that nobody is stuck and that steps run out, for `Paster2`, `ConcurrentBfs`
and `MultiBfs`; 13. Proofs of what the searches find with the crawlers of `WebCrawler` and
`MultiCrawler` in the place of `work`.

Next:

1. A proof that `NothingLeft` follows for any `paster2` from its text: each segment
   that is created is removed once, after the last process that attaches it.
2. `findpng.c`'s directory walk, with a stack of frames and symbolic links.
