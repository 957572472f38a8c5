--------------------------- MODULE RecvBuf_proofs ---------------------------
(***************************************************************************)
(* Proofs about RecvBuf, for buffers and increments of any size, chunks    *)
(* of any length and stacks of any depth.                                  *)
(***************************************************************************)
EXTENDS RecvBuf, SequenceTheorems, TLAPS

\* p is a buffer: a record with the four fields of a Recv_buf_t.
IsBuf(p) ==
  /\ p = [buf |-> p.buf, size |-> p.size, max_size |-> p.max_size, seq |-> p.seq]
  /\ p.max_size \in Nat /\ p.seq \in Int

\* Behind the bytes of a chunk comes a 0, and all before them stays.
LEMMA ReceivedHolds ==
  ASSUME NEW p, NEW data \in Seq(0 .. 255), NEW chunk \in Seq(0 .. 255),
         IsBuf(p), Fits(p, chunk),
         DOMAIN p.buf = 1 .. p.max_size, p.size = Len(data),
         \A i \in 1 .. p.size : p.buf[i] = data[i]
  PROVE  LET q == Received(p, chunk) IN
         /\ IsBuf(q) /\ q.max_size = p.max_size /\ q.seq = p.seq
         /\ Holds(q, data \o chunk)
<1> DEFINE n    == Len(chunk)
           size == p.size + n
           mem  == memcpy(p.buf, p.size, chunk, n)
           buf  == memcpy(mem, size, <<0>>, 1)
           q    == Received(p, chunk)
<1>1. /\ n \in Nat /\ p.size \in Nat /\ size \in Nat /\ p.max_size \in Nat
      /\ size + 1 <= p.max_size
  BY DEF Fits, IsBuf
<1>2. q = [buf |-> buf, size |-> size, max_size |-> p.max_size, seq |-> p.seq]
  <2>1. q = [p EXCEPT !.buf = buf, !.size = size]
    BY DEF Received
  <2> HIDE DEF q, buf, size
  <2> QED BY <2>1 DEF IsBuf
<1>3. /\ DOMAIN mem = DOMAIN p.buf \cup (p.size + 1) .. (p.size + n)
      /\ \A i \in (p.size + 1) .. (p.size + n) : mem[i] = chunk[i - p.size]
      /\ \A i \in DOMAIN p.buf \ ((p.size + 1) .. (p.size + n)) : mem[i] = p.buf[i]
  BY <1>1 DEF memcpy
<1>4. DOMAIN mem = 1 .. p.max_size
  BY <1>1, <1>3 DEF IsBuf
<1>5. /\ DOMAIN buf = DOMAIN mem \cup (size + 1) .. (size + 1)
      /\ \A i \in (size + 1) .. (size + 1) : buf[i] = <<0>>[i - size]
      /\ \A i \in DOMAIN mem \ ((size + 1) .. (size + 1)) : buf[i] = mem[i]
  <2> HIDE DEF mem, size
  <2> QED BY <1>1 DEF memcpy
<1>6. DOMAIN buf = 1 .. p.max_size
  <2> HIDE DEF mem, buf
  <2> QED BY <1>1, <1>4, <1>5 DEF IsBuf
<1>7. buf[size + 1] = 0
  BY <1>1, <1>5
<1>8. Len(data \o chunk) = size
  OBVIOUS
<1>9. ASSUME NEW i \in 1 .. size PROVE buf[i] = (data \o chunk)[i]
  <2>1. buf[i] = mem[i]
    BY <1>1, <1>4, <1>5 DEF IsBuf
  <2>2. CASE i <= p.size
    <3>1. mem[i] = p.buf[i]
      BY <1>1, <1>3, <2>2 DEF IsBuf
    <3>2. (data \o chunk)[i] = data[i]
      BY <1>1, <2>2
    <3> QED BY <1>1, <2>1, <2>2, <3>1, <3>2
  <2>3. CASE i > p.size
    <3>1. mem[i] = chunk[i - p.size]
      BY <1>1, <1>3, <2>3
    <3>2. (data \o chunk)[i] = chunk[i - p.size]
      BY <1>1, <2>3
    <3> QED BY <2>1, <3>1, <3>2
  <2> QED BY <1>1, <2>2, <2>3
<1> HIDE DEF mem, buf
<1>10. IsBuf(q)
  BY <1>2 DEF IsBuf
<1>11. Holds(q, data \o chunk)
  <2>1. q.buf = buf /\ q.size = size /\ q.max_size = p.max_size
    BY <1>2
  <2> DEFINE all == data \o chunk
  <2>2. Len(all) = size /\ \A i \in 1 .. size : buf[i] = all[i]
    BY <1>8, <1>9
  <2> HIDE DEF q, all, size
  <2>3. Holds(q, all)
    BY <1>1, <2>1, <2>2, <1>6, <1>7 DEF Holds
  <2> QED BY <2>3 DEF all
<1> QED BY <1>2, <1>10, <1>11

\* After realloc the buffer holds what it held, and the chunk fits.
LEMMA MakeroomHolds ==
  ASSUME NEW data \in Seq(0 .. 255), NEW chunk \in Seq(0 .. 255),
         IsBuf(recv_buf), Holds(recv_buf, data), Makeroom(recv_buf, chunk) # NULL
  PROVE  LET p == Makeroom(recv_buf, chunk) IN
         /\ IsBuf(p) /\ Fits(p, chunk)
         /\ DOMAIN p.buf = 1 .. p.max_size /\ p.size = Len(data)
         /\ \A i \in 1 .. p.size : p.buf[i] = data[i]
         /\ p.seq = recv_buf.seq
         /\ lab = 3 => p.max_size = recv_buf.max_size
<1> DEFINE p == Makeroom(recv_buf, chunk)
           m == recv_buf.max_size + Larger(BUF_INC, Len(chunk) + 1)
           b == [i \in 1 .. m |-> IF i \in DOMAIN recv_buf.buf THEN recv_buf.buf[i] ELSE Junk]
<1>1. CASE Fits(recv_buf, chunk)
  BY <1>1 DEF Makeroom, Holds
<1>2. CASE ~ Fits(recv_buf, chunk)
  <2>1. lab # 3 /\ p = realloc(recv_buf, m)
    BY <1>2 DEF Makeroom
  <2>2. p = [buf |-> b, size |-> recv_buf.size, max_size |-> m, seq |-> recv_buf.seq]
    BY <2>1 DEF realloc, IsBuf
  <2>3. /\ m \in Nat /\ m >= recv_buf.max_size + Len(chunk) + 1
    BY RecvBufAssumption DEF Larger, IsBuf
  <2>4. /\ recv_buf.size = Len(data) /\ Len(data) \in Nat
        /\ recv_buf.size < recv_buf.max_size /\ recv_buf.max_size \in Nat
        /\ DOMAIN recv_buf.buf = 1 .. recv_buf.max_size
        /\ \A i \in 1 .. recv_buf.size : recv_buf.buf[i] = data[i]
    BY DEF Holds, IsBuf
  <2>5. \A i \in 1 .. recv_buf.size : b[i] = data[i]
    BY <2>3, <2>4
  <2>6. Fits(p, chunk)
    BY <2>2, <2>3, <2>4 DEF Fits
  <2> HIDE DEF b, m
  <2>7. DOMAIN b = 1 .. m
    BY DEF b
  <2>8. IsBuf(p)
    BY <2>2, <2>3 DEF IsBuf
  <2> QED BY <2>1, <2>2, <2>4, <2>5, <2>6, <2>7, <2>8
<1> QED BY <1>1, <1>2
-----------------------------------------------------------------------------
(***************************************************************************)
(* The invariant.                                                          *)
(***************************************************************************)
\* Where the transfer is, and that a buffer exists exactly while it is under way.
TransferInv ==
  /\ lab \in {2, 3}
  /\ body \in Seq(0 .. 255)
  /\ at = "idle" => recv_buf = NULL
  /\ at # "idle" => IsBuf(recv_buf) /\ Holds(recv_buf, body)

LEMMA InitTransfer == Init => TransferInv
  BY DEF Init, TransferInv

LEMMA EmptyHolds == IsBuf(create_recv_buf) /\ Holds(create_recv_buf, <<>>)
  BY RecvBufAssumption DEF IsBuf, Holds, create_recv_buf, malloc

LEMMA StepTransfer == TransferInv /\ [Next]_vars => TransferInv'
<1> SUFFICES ASSUME TransferInv, [Next]_vars PROVE TransferInv'
  OBVIOUS
<1> USE DEF TransferInv
<1>1. CASE fetch_url
  BY <1>1, EmptyHolds DEF fetch_url
<1>2. CASE TransferFails
  BY <1>2 DEF TransferFails
<1>3. CASE TransferEnds
  BY <1>3 DEF TransferEnds, Holds, IsBuf
<1>4. CASE destroy_recv_buf
  BY <1>4 DEF destroy_recv_buf
<1>5. ASSUME NEW n \in Fragment, header_cb_curl(n) PROVE TransferInv'
  <2>1. recv_buf' = [recv_buf EXCEPT !.seq = n] /\ at = "transfer"
        /\ UNCHANGED <<lab, at, body>>
    BY <1>5 DEF header_cb_curl
  <2>2. recv_buf' = [buf |-> recv_buf.buf, size |-> recv_buf.size,
                     max_size |-> recv_buf.max_size, seq |-> n]
    BY <2>1 DEF IsBuf
  <2>3. IsBuf(recv_buf')
    BY <2>1, <2>2, RecvBufAssumption DEF IsBuf
  <2>4. Holds(recv_buf', body)
    BY <2>1, <2>2 DEF Holds
  <2> QED BY <2>1, <2>3, <2>4
<1>6. ASSUME NEW chunk \in Chunk, write_cb_curl(chunk) PROVE TransferInv'
  <2> DEFINE p == Makeroom(recv_buf, chunk)
  <2>1. /\ at = "transfer" /\ p # NULL /\ recv_buf' = Received(p, chunk)
        /\ body' = body \o chunk /\ UNCHANGED <<lab, at>>
    BY <1>6 DEF write_cb_curl
  <2>2. chunk \in Seq(0 .. 255)
    BY RecvBufAssumption
  <2>3. IsBuf(recv_buf') /\ Holds(recv_buf', body \o chunk)
    BY <2>1, <2>2, MakeroomHolds, ReceivedHolds
  <2> QED BY <2>1, <2>2, <2>3
<1>7. CASE push
  BY <1>7 DEF push
<1>8. CASE pop
  BY <1>8 DEF pop
<1>9. CASE UNCHANGED vars
  BY <1>9 DEF vars
<1> QED BY <1>1, <1>2, <1>3, <1>4, <1>5, <1>6, <1>7, <1>8, <1>9
        DEF Next, write_cb_refuses

\* The buffer holds what was received, whatever comes in pieces of whatever size
\* (write_cb_curl and write_cb_curl3).
THEOREM NothingPastTheEnd == Spec => []BodyHeld
<1>1. TransferInv => BodyHeld
  BY DEF TransferInv, BodyHeld
<1> QED BY <1>1, InitTransfer, StepTransfer, PTL DEF Spec
-----------------------------------------------------------------------------
(***************************************************************************)
(* The stack in shared memory.                                             *)
(***************************************************************************)
\* The item with index i starts after these cells.
Before(i) == i * SHM_BUF_SIZE

\* Items do not overlap.
LEMMA Apart ==
  ASSUME NEW i \in Nat, NEW j \in Nat, i < j
  PROVE  /\ Before(i) \in Nat /\ Before(j) \in Nat
         /\ Before(i) + SHM_BUF_SIZE <= Before(j)
<1>1. SHM_BUF_SIZE \in Nat
  BY RecvBufAssumption DEF SHM_BUF_SIZE
<1>2. ASSUME NEW s \in Nat PROVE i * s \in Nat /\ j * s \in Nat /\ i * s + s <= j * s
  <2>1. PICK d \in Nat : j = i + 1 + d
    <3>1. j - i - 1 \in Nat /\ j = i + 1 + (j - i - 1)
      OBVIOUS
    <3> QED BY <3>1
  <2>2. j * s = i * s + s + d * s
    BY <2>1
  <2>3. i * s \in Nat /\ d * s \in Nat
    OBVIOUS
  <2> QED BY <2>2, <2>3
<1> QED BY <1>1, <1>2 DEF Before

\* In the memory `mem` the item with index i is `item`, its terminating 0 included.
Placed(mem, i, item) ==
  /\ Len(item.body) < BUF_SIZE
  /\ mem[Before(i) + 1] = [size |-> Len(item.body), max_size |-> BUF_SIZE, seq |-> item.seq]
  /\ \A k \in 1 .. Len(item.body) : mem[Before(i) + 1 + k] = item.body[k]
  /\ Len(item.body) > 0 => mem[Before(i) + 1 + (Len(item.body) + 1)] = 0

Item == [body : Seq(0 .. 255), seq : Int]

\* The items below the top are in place, and lab3's buffers never grow.
StackInv ==
  /\ pos \in -1 .. B - 1
  /\ DOMAIN items = 1 .. Before(B)
  /\ pushed \in Seq(Item) /\ Len(pushed) = pos + 1
  /\ \A i \in 1 .. pos + 1 : Placed(items, i - 1, pushed[i])
  /\ popped # NULL => Holds(popped, meant.body) /\ popped.seq = meant.seq
  /\ lab = 3 /\ at # "idle" => recv_buf.max_size = BUF_SIZE

LEMMA PushedTyped ==
  ASSUME StackInv, NEW i \in 1 .. pos + 1
  PROVE  /\ pushed[i].body \in Seq(0 .. 255) /\ pushed[i].seq \in Int
         /\ Len(pushed[i].body) \in Nat
         /\ DOMAIN pushed[i].body = 1 .. Len(pushed[i].body)
<1>1. pushed[i] \in Item
  <2>1. pushed \in Seq(Item) /\ i \in 1 .. Len(pushed)
    BY DEF StackInv
  <2> QED BY <2>1, ElementOfSeq
<1> QED BY <1>1, LenProperties DEF Item

LEMMA InitStack == Init => StackInv
<1>1. Before(B) = B * SHM_BUF_SIZE /\ B \in Nat /\ B > 0
  BY RecvBufAssumption DEF Before
<1> QED BY <1>1 DEF Init, StackInv, malloc

\* What the steps that leave the stack alone do to the invariant.
LEMMA StackStays ==
  ASSUME StackInv, UNCHANGED stack,
         lab' = 3 /\ at' # "idle" => recv_buf'.max_size = BUF_SIZE
  PROVE  StackInv'
  BY DEF StackInv, stack, Placed

\* A push writes one item, and nothing below it.
LEMMA PushWrites ==
  ASSUME TransferInv, StackInv, push
  PROVE  LET d == Before(pos + 1) IN
         /\ pos + 1 \in 0 .. B - 1 /\ pos' = pos + 1
         /\ d \in Nat
         /\ DOMAIN items' = 1 .. Before(B)
         /\ items'[d + 1] = Header(recv_buf)
         /\ \A k \in 1 .. BUF_SIZE : items'[d + 1 + k] = recv_buf.buf[k]
         /\ \A c \in 1 .. d : items'[c] = items[c]
<1> DEFINE d   == Before(pos + 1)
           one == memcpy(items, d, <<Header(recv_buf)>>, 1)
<1>1. /\ pos + 1 \in 0 .. B - 1 /\ pos' = pos + 1 /\ B \in Nat
      /\ recv_buf.max_size = BUF_SIZE /\ BUF_SIZE \in Nat
      /\ DOMAIN items = 1 .. Before(B)
  <2>1. /\ lab = 3 /\ at = "done" /\ pos # B - 1 /\ pos' = pos + 1
    BY DEF push
  <2>2. /\ pos \in -1 .. B - 1 /\ DOMAIN items = 1 .. Before(B)
        /\ lab = 3 /\ at # "idle" => recv_buf.max_size = BUF_SIZE
    BY DEF StackInv
  <2> QED BY <2>1, <2>2, RecvBufAssumption
<1>2. d \in Nat /\ Before(B) \in Nat /\ d + 1 + BUF_SIZE <= Before(B)
  <2>1. pos + 1 \in Nat /\ pos + 1 < B /\ SHM_BUF_SIZE = 1 + BUF_SIZE
    BY <1>1 DEF SHM_BUF_SIZE
  <2>2. d \in Nat /\ Before(B) \in Nat /\ d + SHM_BUF_SIZE <= Before(B)
    BY <1>1, <2>1, Apart
  <2> HIDE DEF d
  <2> QED BY <1>1, <2>1, <2>2
<1>3. items' = memcpy(one, d + 1, recv_buf.buf, BUF_SIZE)
  BY <1>1 DEF push, Before
<1> HIDE DEF d
<1>4. /\ DOMAIN one = 1 .. Before(B)
      /\ one[d + 1] = Header(recv_buf)
      /\ \A c \in 1 .. d : one[c] = items[c]
  BY <1>1, <1>2 DEF memcpy
<1> HIDE DEF one
<1>5. /\ DOMAIN items' = 1 .. Before(B)
      /\ \A k \in 1 .. BUF_SIZE : items'[d + 1 + k] = recv_buf.buf[k]
      /\ \A c \in 1 .. d + 1 : items'[c] = one[c]
  BY <1>1, <1>2, <1>3, <1>4 DEF memcpy
<1> QED BY <1>1, <1>2, <1>4, <1>5 DEF d

LEMMA StepPush == TransferInv /\ StackInv /\ push => StackInv'
<1> SUFFICES ASSUME TransferInv, StackInv, push PROVE StackInv'
  OBVIOUS
<1> DEFINE d == Before(pos + 1)
           item == [body |-> body, seq |-> recv_buf.seq]
<1>1. /\ pos + 1 \in 0 .. B - 1 /\ pos' = pos + 1
      /\ d \in Nat
      /\ DOMAIN items' = 1 .. Before(B)
      /\ items'[d + 1] = Header(recv_buf)
      /\ \A k \in 1 .. BUF_SIZE : items'[d + 1 + k] = recv_buf.buf[k]
      /\ \A c \in 1 .. d : items'[c] = items[c]
  BY PushWrites
<1>2. /\ at = "done" /\ at' = "idle" /\ lab = 3
      /\ pushed' = Append(pushed, item)
      /\ UNCHANGED <<lab, popped, meant>>
  BY DEF push
<1>3. /\ body \in Seq(0 .. 255) /\ recv_buf.seq \in Int
      /\ recv_buf.size = Len(body) /\ recv_buf.size < BUF_SIZE
      /\ recv_buf.max_size = BUF_SIZE
      /\ \A k \in 1 .. recv_buf.size : recv_buf.buf[k] = body[k]
      /\ recv_buf.size > 0 => recv_buf.buf[recv_buf.size + 1] = 0
  BY <1>2 DEF TransferInv, StackInv, Holds, IsBuf
<1>4. /\ pushed \in Seq(Item)
      /\ pos \in Int /\ Len(pushed) = pos + 1
  BY <1>1 DEF StackInv
<1>5. /\ pushed' \in Seq(Item)
      /\ Len(pushed') = pos + 2
      /\ \A i \in 1 .. pos + 1 : pushed'[i] = pushed[i]
      /\ pushed'[pos + 2] = item
  <2>1. item \in Item
    BY <1>3 DEF Item
  <2> HIDE DEF item
  <2> QED BY <1>2, <1>4, <2>1, AppendProperties
<1>6. ASSUME NEW i \in 1 .. pos + 1 PROVE Placed(items', i - 1, pushed'[i])
  <2> DEFINE b == Before(i - 1)
             n == Len(pushed[i].body)
  <2>1. Placed(items, i - 1, pushed[i]) /\ pushed'[i] = pushed[i] /\ n \in Nat
    BY <1>5, PushedTyped DEF StackInv
  <2>2. /\ i - 1 \in Nat /\ pos + 1 \in Nat /\ i - 1 < pos + 1
        /\ SHM_BUF_SIZE = 1 + BUF_SIZE /\ BUF_SIZE \in Nat
    BY <1>1, <1>4, RecvBufAssumption DEF SHM_BUF_SIZE
  <2>3. b \in Nat /\ b + SHM_BUF_SIZE <= d
    BY <2>2, Apart
  <2> HIDE DEF d, b
  <2>4. \A k \in 0 .. BUF_SIZE : items'[b + 1 + k] = items[b + 1 + k]
    BY <1>1, <2>2, <2>3
  <2>5. items'[b + 1] = items[b + 1]
    BY <1>1, <2>2, <2>3
  <2> HIDE DEF n
  <2>6. /\ n < BUF_SIZE
        /\ items[b + 1] = [size |-> n, max_size |-> BUF_SIZE, seq |-> pushed[i].seq]
        /\ \A k \in 1 .. n : items[b + 1 + k] = pushed[i].body[k]
        /\ n > 0 => items[b + 1 + (n + 1)] = 0
    BY <2>1 DEF Placed, b, n
  <2>7. /\ items'[b + 1] = [size |-> n, max_size |-> BUF_SIZE, seq |-> pushed[i].seq]
        /\ \A k \in 1 .. n : items'[b + 1 + k] = pushed[i].body[k]
        /\ n > 0 => items'[b + 1 + (n + 1)] = 0
    BY <2>1, <2>2, <2>4, <2>5, <2>6
  <2> QED BY <2>1, <2>6, <2>7 DEF Placed, b, n
<1>7. Placed(items', pos + 1, item)
  <2>1. BUF_SIZE \in Nat /\ Len(body) \in Nat
    BY RecvBufAssumption, <1>3
  <2>2. Header(recv_buf) = [size |-> Len(body), max_size |-> BUF_SIZE, seq |-> recv_buf.seq]
    BY <1>3 DEF Header
  <2> HIDE DEF d
  <2>3. \A k \in 1 .. Len(body) : items'[d + 1 + k] = body[k]
    BY <1>1, <1>3, <2>1
  <2>4. Len(body) > 0 => items'[d + 1 + (Len(body) + 1)] = 0
    BY <1>1, <1>3, <2>1
  <2> QED BY <1>1, <1>3, <2>2, <2>3, <2>4 DEF Placed, d
<1>8. ASSUME NEW i \in 1 .. pos' + 1 PROVE Placed(items', i - 1, pushed'[i])
  <2>1. CASE i = pos + 2
    <3>1. i - 1 = pos + 1
      BY <1>4, <2>1
    <3> QED BY <1>5, <1>7, <2>1, <3>1
  <2>2. CASE i # pos + 2
    BY <1>1, <1>4, <1>6, <2>2
  <2> QED BY <2>1, <2>2
<1> QED BY <1>1, <1>2, <1>5, <1>8 DEF StackInv

LEMMA StepPop == StackInv /\ pop => StackInv'
<1> SUFFICES ASSUME StackInv, pop PROVE StackInv'
  OBVIOUS
<1> DEFINE d      == Before(pos)
           item   == pushed[pos + 1]
           n      == Len(item.body)
           data   == [i \in 1 .. BUF_SIZE |-> items[d + 1 + i]]
           buf    == memcpy(malloc(BUF_SIZE), 0, data, BUF_SIZE)
<1>1. /\ pos \in 0 .. B - 1 /\ pos' = pos - 1 /\ meant' = item
      /\ UNCHANGED <<lab, at, recv_buf, items>>
      /\ pushed' = SubSeq(pushed, 1, pos)
  BY RecvBufAssumption DEF pop, StackInv
<1>2. Placed(items, pos, item) /\ item.body \in Seq(0 .. 255)
  <2>1. pos + 1 \in 1 .. pos + 1 /\ (pos + 1) - 1 = pos
    BY <1>1
  <2>2. Placed(items, (pos + 1) - 1, pushed[pos + 1])
    BY <2>1 DEF StackInv
  <2>3. item.body \in Seq(0 .. 255)
    BY <2>1, PushedTyped
  <2> QED BY <2>1, <2>2, <2>3
<1>3. popped' = [buf |-> buf, size |-> n, max_size |-> BUF_SIZE, seq |-> item.seq]
  BY <1>1, <1>2 DEF pop, Placed, Before
<1>4. BUF_SIZE \in Nat /\ n \in Nat /\ n < BUF_SIZE
  BY <1>2, RecvBufAssumption DEF Placed
<1>5. DOMAIN buf = 1 .. BUF_SIZE /\ \A i \in 1 .. BUF_SIZE : buf[i] = items[d + 1 + i]
  <2> HIDE DEF d
  <2>1. \A i \in 1 .. BUF_SIZE : data[i] = items[d + 1 + i]
    OBVIOUS
  <2> HIDE DEF data
  <2>2. DOMAIN malloc(BUF_SIZE) = 1 .. BUF_SIZE
    BY DEF malloc
  <2> DEFINE fresh == malloc(BUF_SIZE)
  <2> HIDE DEF fresh
  <2>3. DOMAIN memcpy(fresh, 0, data, BUF_SIZE) = 1 .. BUF_SIZE
    BY <1>4, <2>2 DEF memcpy, fresh
  <2>4. ASSUME NEW i \in 1 .. BUF_SIZE PROVE memcpy(fresh, 0, data, BUF_SIZE)[i] = data[i]
    <3>1. i \in (0 + 1) .. (0 + BUF_SIZE) /\ i - 0 = i
      BY <1>4
    <3> QED BY <3>1 DEF memcpy
  <2>5. DOMAIN buf = 1 .. BUF_SIZE /\ \A i \in 1 .. BUF_SIZE : buf[i] = data[i]
    BY <2>3, <2>4 DEF fresh
  <2> QED BY <2>1, <2>5
<1> HIDE DEF buf, d, item
<1>6. Holds(popped', item.body) /\ popped'.seq = item.seq
  <2>1. /\ popped'.buf = buf /\ popped'.size = n /\ popped'.max_size = BUF_SIZE
        /\ popped'.seq = item.seq
    BY <1>3
  <2>2. /\ \A k \in 1 .. n : items[d + 1 + k] = item.body[k]
        /\ n > 0 => items[d + 1 + (n + 1)] = 0
    BY <1>2 DEF Placed, d
  <2> HIDE DEF n
  <2>3. \A k \in 1 .. n : buf[k] = item.body[k]
    BY <1>4, <1>5, <2>2
  <2>4. n > 0 => buf[n + 1] = 0
    BY <1>4, <1>5, <2>2
  <2> QED BY <1>4, <1>5, <2>1, <2>3, <2>4 DEF Holds, n
<1>7. /\ pushed' \in Seq(Item)
      /\ Len(pushed') = pos' + 1
      /\ \A i \in 1 .. pos' + 1 : pushed'[i] = pushed[i]
  <2>1. /\ pos \in Nat /\ pushed \in Seq(Item) /\ Len(pushed) = pos + 1
    BY <1>1 DEF StackInv
  <2>2. \A i \in 1 .. pos : pushed[i] \in Item
    BY <2>1, ElementOfSeq
  <2>3. /\ SubSeq(pushed, 1, pos) \in Seq(Item)
        /\ Len(SubSeq(pushed, 1, pos)) = IF 1 <= pos THEN pos - 1 + 1 ELSE 0
        /\ \A i \in 1 .. pos - 1 + 1 : SubSeq(pushed, 1, pos)[i] = pushed[1 + i - 1]
    BY <2>1, <2>2, SubSeqProperties
  <2>4. pos' + 1 = pos
    BY <1>1, <2>1
  <2> QED BY <1>1, <2>1, <2>3, <2>4
<1>8. \A i \in 1 .. pos' + 1 : Placed(items', i - 1, pushed'[i])
  BY <1>1, <1>7 DEF StackInv
<1>9. pos' \in -1 .. B - 1
  BY <1>1, RecvBufAssumption
<1>10. popped' # NULL => Holds(popped', meant'.body) /\ popped'.seq = meant'.seq
  BY <1>1, <1>6
<1>11. /\ DOMAIN items' = 1 .. Before(B)
       /\ lab' = 3 /\ at' # "idle" => recv_buf'.max_size = BUF_SIZE
  BY <1>1 DEF StackInv
<1> QED BY <1>7, <1>8, <1>9, <1>10, <1>11 DEF StackInv

LEMMA StepStack == TransferInv /\ StackInv /\ [Next]_vars => StackInv'
<1> SUFFICES ASSUME TransferInv, StackInv, [Next]_vars PROVE StackInv'
  OBVIOUS
<1>1. CASE fetch_url
  BY <1>1, StackStays DEF fetch_url, create_recv_buf
<1>2. CASE TransferFails
  BY <1>2, StackStays DEF TransferFails
<1>3. CASE TransferEnds
  BY <1>3, StackStays DEF TransferEnds, StackInv
<1>4. CASE destroy_recv_buf
  BY <1>4, StackStays DEF destroy_recv_buf
<1>5. ASSUME NEW n \in Fragment, header_cb_curl(n) PROVE StackInv'
  <2>1. recv_buf'.max_size = recv_buf.max_size
    BY <1>5 DEF header_cb_curl, TransferInv, IsBuf
  <2> QED BY <1>5, <2>1, StackStays DEF header_cb_curl, StackInv
<1>6. ASSUME NEW chunk \in Chunk, write_cb_curl(chunk) PROVE StackInv'
  <2> DEFINE p == Makeroom(recv_buf, chunk)
  <2>1. /\ at = "transfer" /\ p # NULL /\ recv_buf' = Received(p, chunk)
        /\ UNCHANGED <<lab, at, stack>>
    BY <1>6 DEF write_cb_curl
  <2>2. chunk \in Seq(0 .. 255) /\ body \in Seq(0 .. 255) /\ IsBuf(recv_buf) /\ Holds(recv_buf, body)
    BY <2>1, RecvBufAssumption DEF TransferInv
  <2>3. recv_buf'.max_size = p.max_size /\ (lab = 3 => p.max_size = recv_buf.max_size)
    BY <2>1, <2>2, MakeroomHolds, ReceivedHolds
  <2> QED BY <2>1, <2>3, StackStays DEF StackInv
<1>7. CASE push
  BY <1>7, StepPush
<1>8. CASE pop
  BY <1>8, StepPop
<1>9. CASE UNCHANGED vars
  BY <1>9, StackStays DEF vars, StackInv
<1> QED BY <1>1, <1>2, <1>3, <1>4, <1>5, <1>6, <1>7, <1>8, <1>9
        DEF Next, write_cb_refuses

\* The items of lab3's stack never overwrite one another, and a consumer takes out
\* what a producer put in, body and number (push and pop of shm_stack.c).
THEOREM ItemsApart == Spec => []HandedOn
<1>1. StackInv => HandedOn
  <2> SUFFICES ASSUME StackInv PROVE HandedOn
    OBVIOUS
  <2>1. pos + 1 = Len(pushed) /\ DOMAIN items = 1 .. B * SHM_BUF_SIZE
    BY DEF StackInv, Before
  <2>2. ASSUME NEW i \in DOMAIN pushed
        PROVE  Placed(items, i - 1, pushed[i])
               /\ DOMAIN pushed[i].body = 1 .. Len(pushed[i].body)
    <3>1. i \in 1 .. pos + 1
      BY DEF StackInv
    <3> QED BY <3>1, PushedTyped DEF StackInv
  <2>3. popped # NULL => Holds(popped, meant.body) /\ popped.seq = meant.seq
    BY DEF StackInv
  <2> QED BY <2>1, <2>2, <2>3 DEF HandedOn, Placed, Before
<1>2. Init => TransferInv /\ StackInv
  BY InitTransfer, InitStack
<1>3. TransferInv /\ StackInv /\ [Next]_vars => TransferInv' /\ StackInv'
  BY StepTransfer, StepStack
<1> QED BY <1>1, <1>2, <1>3, PTL DEF Spec
=============================================================================
