------------------------------ MODULE RecvBuf ------------------------------
(***************************************************************************)
(* The receive buffer that libcurl's callbacks fill during a transfer: the *)
(* one of lab2 (lab4 and lab5 have the same code) is reallocated when a    *)
(* body does not fit, the one of lab3 refuses the body, and what lab3      *)
(* received is copied to a stack in shared memory and from there to the    *)
(* heap of a consumer.  The stack is used under sem_stack_mutex, so a push *)
(* and a pop are one step each.                                            *)
(*                                                                         *)
(* Memory is a function from 1 .. its size to cells.  memcpy writes where  *)
(* it is told to, and past the end of what it writes to if told so.  The   *)
(* header of an item (sizeof(Recv_buf_t) bytes) is one cell.  Each thread, *)
(* process or connection has a buffer of its own, so one is enough here.   *)
(***************************************************************************)
EXTENDS Integers, Sequences

CONSTANTS BUF_SIZE, BUF_INC,
          B,         \* size of lab3's stack
          Chunk,     \* what libcurl hands over at a time: sequences of bytes
          Fragment,  \* the numbers in X-Ece252-Fragment headers
          Junk,      \* what malloc leaves in a cell
          NULL,
          MaxBody    \* bound: bytes in a body

ASSUME RecvBufAssumption ==
  /\ BUF_SIZE \in Nat \ {0} /\ BUF_INC \in Nat /\ B \in Nat \ {0}
  /\ Chunk \subseteq Seq(0 .. 255)
  /\ Fragment \subseteq Nat
  /\ MaxBody \in Nat

SHM_BUF_SIZE == 1 + BUF_SIZE

VARIABLES lab,       \* 2 or 3
          at,        \* "idle", in a "transfer", or "done" with it
          recv_buf,  \* [buf, size, max_size, seq], or NULL
          pos,       \* of the RecvStack
          items,     \* its memory
          popped,    \* what the consumer took last, or NULL
          body,      \* history: what the transfer delivered so far
          pushed,    \* history: the [body, seq] pushed and not yet popped
          meant      \* history: the one that `popped` should hold

stack == <<pos, items, popped, pushed, meant>>
vars  == <<lab, at, recv_buf, body, stack>>

malloc(n) == [i \in 1 .. n |-> Junk]

\* n cells from src to those of dst after the first `off`
memcpy(dst, off, src, n) ==
  [i \in DOMAIN dst \cup (off + 1) .. (off + n) |->
     IF i \in (off + 1) .. (off + n) THEN src[i - off] ELSE dst[i]]

create_recv_buf ==
  [buf |-> malloc(BUF_SIZE), size |-> 0, max_size |-> BUF_SIZE, seq |-> -1]

Init ==
  /\ lab \in {2, 3}
  /\ at = "idle"
  /\ recv_buf = NULL
  /\ pos = -1
  /\ items = malloc(B * SHM_BUF_SIZE)
  /\ popped = NULL
  /\ body = <<>>
  /\ pushed = <<>>
  /\ meant = NULL
-----------------------------------------------------------------------------
(***************************************************************************)
(* A transfer: curl_easy_perform calls the callbacks as data comes in.     *)
(***************************************************************************)
fetch_url ==
  /\ at = "idle"
  /\ at' = "transfer"
  /\ recv_buf' = create_recv_buf
  /\ body' = <<>>
  /\ UNCHANGED <<lab, stack>>

\* Other headers change nothing.
header_cb_curl(n) ==
  /\ at = "transfer"
  /\ recv_buf' = [recv_buf EXCEPT !.seq = n]
  /\ UNCHANGED <<lab, at, body, stack>>

\* Mutant: no room is asked for the terminating 0.
Fits_NoZero(p, chunk) == p.size + Len(chunk) <= p.max_size

Fits(p, chunk) == p.size + Len(chunk) + 1 <= p.max_size

Larger(a, b) == IF a > b THEN a ELSE b

realloc(p, new_size) ==
  [p EXCEPT !.buf = [i \in 1 .. new_size |-> IF i \in DOMAIN @ THEN @[i] ELSE Junk],
            !.max_size = new_size]

\* copied behind what is there, with a 0 behind it
Received(p, chunk) ==
  LET size == p.size + Len(chunk)
  IN  [p EXCEPT !.buf = memcpy(memcpy(@, p.size, chunk, Len(chunk)), size, <<0>>, 1),
                !.size = size]

\* Mutant: lab3 reallocates too, as the lines commented out there would.
Makeroom_Always(p, chunk) ==
  IF Fits(p, chunk) THEN p
  ELSE realloc(p, p.max_size + Larger(BUF_INC, Len(chunk) + 1))

\* NULL where the callback returns -1
Makeroom(p, chunk) ==
  IF Fits(p, chunk) THEN p
  ELSE IF lab = 3 THEN NULL
  ELSE realloc(p, p.max_size + Larger(BUF_INC, Len(chunk) + 1))

write_cb_curl(chunk) ==
  /\ at = "transfer"
  /\ Len(body) + Len(chunk) <= MaxBody
  /\ LET p == Makeroom(recv_buf, chunk) IN
       /\ p # NULL
       /\ recv_buf' = Received(p, chunk)
  /\ body' = body \o chunk
  /\ UNCHANGED <<lab, at, stack>>

\* fetch_url destroys the buffer and returns NULL; the caller asks again.
TransferFails ==
  /\ at = "transfer"
  /\ at' = "idle"
  /\ recv_buf' = NULL
  /\ body' = <<>>
  /\ UNCHANGED <<lab, stack>>

\* The callback returns -1, at which libcurl gives the transfer up.
write_cb_refuses(chunk) == TransferFails /\ Makeroom(recv_buf, chunk) = NULL

\* curl_easy_perform returns CURLE_OK.
TransferEnds ==
  /\ at = "transfer"
  /\ at' = "done"
  /\ UNCHANGED <<lab, recv_buf, body, stack>>

destroy_recv_buf ==
  /\ lab = 2
  /\ at = "done"
  /\ at' = "idle"
  /\ recv_buf' = NULL
  /\ body' = <<>>
  /\ UNCHANGED <<lab, stack>>
-----------------------------------------------------------------------------
(***************************************************************************)
(* lab3's stack: an item is the header, whose pointer to the data is not   *)
(* used again, and the max_size bytes of the buffer.                       *)
(***************************************************************************)
Header(p) == [size |-> p.size, max_size |-> p.max_size, seq |-> p.seq]

\* The producer destroys its buffer afterwards.
push ==
  /\ lab = 3
  /\ at = "done"
  /\ pos # B - 1
  /\ pos' = pos + 1
  /\ LET dest_buf == pos' * SHM_BUF_SIZE
     IN  items' = memcpy(memcpy(items, dest_buf, <<Header(recv_buf)>>, 1),
                         dest_buf + 1, recv_buf.buf, recv_buf.max_size)
  /\ pushed' = Append(pushed, [body |-> body, seq |-> recv_buf.seq])
  /\ at' = "idle"
  /\ recv_buf' = NULL
  /\ body' = <<>>
  /\ UNCHANGED <<lab, popped, meant>>

\* BUF_SIZE bytes are copied, to a buffer of max_size bytes.
pop ==
  /\ lab = 3
  /\ pos # -1
  /\ LET p_recv_buf == pos * SHM_BUF_SIZE
         header     == items[p_recv_buf + 1]
         data       == [i \in 1 .. BUF_SIZE |-> items[p_recv_buf + 1 + i]]
     IN  popped' = [ buf      |-> memcpy(malloc(header.max_size), 0, data, BUF_SIZE),
                     size     |-> header.size,
                     max_size |-> header.max_size,
                     seq      |-> header.seq ]
  /\ pos' = pos - 1
  /\ meant' = pushed[pos + 1]
  /\ pushed' = SubSeq(pushed, 1, pos)
  /\ UNCHANGED <<lab, at, recv_buf, body, items>>

Next ==
  \/ fetch_url \/ TransferFails \/ TransferEnds \/ destroy_recv_buf
  \/ \E n \in Fragment : header_cb_curl(n)
  \/ \E chunk \in Chunk : write_cb_curl(chunk) \/ write_cb_refuses(chunk)
  \/ push \/ pop

Spec == Init /\ [][Next]_vars
-----------------------------------------------------------------------------
(***************************************************************************)
(* Properties.                                                             *)
(***************************************************************************)
\* p holds `data` and a terminating 0, within the memory it was given
Holds(p, data) ==
  /\ DOMAIN p.buf = 1 .. p.max_size
  /\ p.size = Len(data)
  /\ p.size < p.max_size
  /\ \A i \in 1 .. p.size : p.buf[i] = data[i]
  /\ p.size > 0 => p.buf[p.size + 1] = 0

\* In however many pieces a body comes, and however often the buffer is moved,
\* it holds the whole body in order with room for the terminating 0, and the
\* write callback never writes past the end of what is allocated.
BodyHeld == recv_buf # NULL => Holds(recv_buf, body)

\* The stack in shared memory keeps its items apart: each stays as it was pushed,
\* body and number, whatever is pushed above it and popped again, nothing is
\* written outside the stack's memory, and what a consumer takes out is one of
\* them, whole.  push copies max_size bytes to a place for BUF_SIZE, so this rests
\* on lab3's buffers never growing.
HandedOn ==
  LET Item(i) == (i - 1) * SHM_BUF_SIZE IN
  /\ DOMAIN items = 1 .. B * SHM_BUF_SIZE
  /\ pos + 1 = Len(pushed)
  /\ \A i \in DOMAIN pushed :
       LET header == items[Item(i) + 1] IN
       /\ header = [size |-> Len(pushed[i].body), max_size |-> BUF_SIZE,
                    seq |-> pushed[i].seq]
       /\ \A k \in DOMAIN pushed[i].body : items[Item(i) + 1 + k] = pushed[i].body[k]
  /\ popped # NULL => Holds(popped, meant.body) /\ popped.seq = meant.seq
=============================================================================
