------------------------------- MODULE LabPng -------------------------------
(***************************************************************************)
(* lab_png.c and crc.c: reading and writing the chunks of a PNG.           *)
(* A buffer is a sequence of bytes; a pointer into it together with what   *)
(* is left of it (p_chunk_start, buf_length) is the sequence of the bytes  *)
(* left.                                                                   *)
(*                                                                         *)
(* A U32 is a pair of 16-bit halves.  Lengths and dimensions are used as   *)
(* numbers and must stay below 2^31 in an instance.                        *)
(***************************************************************************)
EXTENDS Integers, Sequences, SequencesExt, Bitwise

CONSTANTS NULL, Crash

PNG_SIGNITURE == <<137, 80, 78, 71, 13, 10, 26, 10>>
TYPE_IHDR     == <<73, 72, 68, 82>>
TYPE_IDAT     == <<73, 68, 65, 84>>
TYPE_IEND     == <<73, 69, 78, 68>>

read_big_endian_u32(b)  == <<b[1] * 256 + b[2], b[3] * 256 + b[4]>>
write_big_endian_u32(u) == <<u[1] \div 256, u[1] % 256, u[2] \div 256, u[2] % 256>>

Number(u) == u[1] * 65536 + u[2]
U32(n)    == <<n \div 65536, n % 65536>>
-----------------------------------------------------------------------------
(***************************************************************************)
(* crc.c                                                                   *)
(***************************************************************************)
XorU32(c, d) == <<c[1] ^^ d[1], c[2] ^^ d[2]>>

ShiftRight(c, m) == <<c[1] \div m, c[2] \div m + (c[1] % m) * (65536 \div m)>>

crc_table ==
  LET Divide(c, k) == IF c[2] % 2 = 1 THEN XorU32(<<60856, 33568>>, ShiftRight(c, 2))
                      ELSE ShiftRight(c, 2)
  IN  [n \in 0 .. 255 |-> FoldLeft(Divide, <<0, n>>, [k \in 1 .. 8 |-> k])]

update_crc(c, buf) ==
  FoldLeft(LAMBDA d, b : XorU32(crc_table[(d[2] % 256) ^^ b], ShiftRight(d, 256)), c, buf)

crc(buf) == XorU32(update_crc(<<65535, 65535>>, buf), <<65535, 65535>>)
-----------------------------------------------------------------------------
is_png(buf) == IsPrefix(PNG_SIGNITURE, buf)

read_IHDR(data) == [width  |-> read_big_endian_u32(SubSeq(data, 1, 4)),
                    height |-> read_big_endian_u32(SubSeq(data, 5, 8)),
                    rest   |-> SubSeq(data, 9, 13)]

\* Mutant: the type is left out of the sum.
verify_crc_DataOnly(type, data) == crc(data)

\* over the type and the data of a chunk
verify_crc(type, data) == crc(type \o data)

\* the chunk at the start of `buf`, whose length field says `length`
ChunkAt(buf, length) ==
  LET type == SubSeq(buf, 5, 8)
      data == SubSeq(buf, 9, 8 + length)
      sum  == read_big_endian_u32(SubSeq(buf, 9 + length, 12 + length))
  IN  [ type         |-> type,
        data         |-> data,
        ihdr         |-> IF type = TYPE_IHDR THEN read_IHDR(data) ELSE NULL,
        is_corrupted |-> sum # verify_crc(type, data) ]

\* NULL where the code returns 0; otherwise the chunk and the bytes after it
read_chunk(buf) ==
  LET length == Number(read_big_endian_u32(buf))
  IN  IF \/ Len(buf) < 8
         \/ Len(buf) < 12 + length
         \/ SubSeq(buf, 5, 8) = TYPE_IHDR /\ length # 13
      THEN NULL
      ELSE [ chunk |-> ChunkAt(buf, length),
             next  |-> SubSeq(buf, 13 + length, Len(buf)) ]

(***************************************************************************)
(* The three chunks after the signature, as the set of the outcomes.  When *)
(* one cannot be read destroy_png frees the chunks the PNG points to;      *)
(* those after the one that failed have not been set since malloc, so NULL *)
(* is returned or the program crashes.  All are set when the last fails.   *)
(***************************************************************************)
destroy_png(chunksSet) == IF chunksSet THEN {NULL} ELSE {NULL, Crash}

ReadChunks(buf) ==
  LET ihdr == read_chunk(SubSeq(buf, 9, Len(buf)))
      idat == read_chunk(ihdr.next)
      iend == read_chunk(idat.next)
  IN  IF ihdr = NULL THEN destroy_png(FALSE)
      ELSE IF idat = NULL THEN destroy_png(FALSE)
      ELSE IF iend = NULL THEN destroy_png(TRUE)
      ELSE { [IHDR |-> ihdr.chunk, IDAT |-> idat.chunk, IEND |-> iend.chunk,
              buf |-> buf] }

\* lab1: from a file
create_png(buf) == IF is_png(buf) THEN ReadChunks(buf) ELSE {NULL}

\* lab2 and lab3: from what was received
create_png_from_buf(buf) ==
  IF Len(buf) < Len(PNG_SIGNITURE) \/ \E i \in 1 .. 8 : buf[i] # PNG_SIGNITURE[i]
    THEN {NULL} ELSE ReadChunks(buf)
=============================================================================
