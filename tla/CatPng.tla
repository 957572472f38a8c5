------------------------------- MODULE CatPng -------------------------------
(***************************************************************************)
(* From files or bodies to all.png, byte by byte.  lab1's catpng reads the *)
(* files it is given one by one; lab2's paster and lab3's paster2 read the *)
(* bodies they received, taken here in the order of their segments.  All   *)
(* put the images below each other and write all.png.                      *)
(***************************************************************************)
EXTENDS Zutil

CONSTANTS File,   \* names
          bytes,  \* File -> what the file or the body holds
          Args,   \* for each program its inputs: a set of sequences of files
          Unset   \* what a byte may be that was never written

ASSUME CatPngAssumption ==
  /\ \A f \in File : bytes[f] \in Seq(0 .. 255)
  /\ \A p \in {"catpng", "paster", "paster2"} : Args[p] \subseteq Seq(File)
  /\ Unset # {} /\ Unset \subseteq 0 .. 255

VARIABLES prog,     \* the program
          args,     \* its files or bodies; none if its command line is wrong
          pngs,     \* what it made of the first of them
          all_png,  \* the bytes written to all.png, NULL if none
          status    \* "running", the exit status, "aborted" or "crashed"

vars == <<prog, args, pngs, all_png, status>>

calculate_buffer_size(width, height) == height * (width * 4 + 1)

\* length, type, data and checksum, as concatenate_pngs lays a chunk out
Chunk(type, data) ==
  write_big_endian_u32(U32(Len(data))) \o type \o data
    \o write_big_endian_u32(crc(type \o data))

Image(width, height, data) ==
  PNG_SIGNITURE
    \o Chunk(TYPE_IHDR, write_big_endian_u32(U32(width)) \o write_big_endian_u32(U32(height))
                          \o <<8, 6, 0, 0, 0>>)
    \o Chunk(TYPE_IDAT, mem_def(data)) \o Chunk(TYPE_IEND, <<>>)

SumOf(s) == FoldLeft(LAMBDA a, b : a + b, 0, s)

Heights(s) == [i \in DOMAIN s |-> Number(s[i].IHDR.ihdr.height)]

TotalHeight(s) == SumOf(Heights(s))

\* mem_inf of every part, copied below each other; NULL for a part that does
\* not inflate, of which as much is copied as had been inflated
InflateParts(s) == [i \in DOMAIN s |-> mem_inf(s[i].IDAT.data)]

CopyCrashes(part) == part = Crash \/ (part.data = NULL /\ part.dest_len > 0)

Copied(parts) == FlattenSeq([i \in DOMAIN parts |->
                   IF parts[i].data = NULL THEN <<>> ELSE parts[i].data])

(***************************************************************************)
(* lab1's concatenate_pngs, as the set of its outcomes.  All images have   *)
(* the width of the first and 8-bit RGBA pixels.  The chunk with the width *)
(* and height is looked up without a check; a buffer that the parts do not *)
(* fill keeps what was in memory, and one they overfill may crash.         *)
(***************************************************************************)
concatenate_pngs(s) ==
  IF \E i \in DOMAIN s : s[i] = NULL \/ s[i].IHDR.ihdr = NULL THEN {Crash}
  ELSE LET width  == Number(s[1].IHDR.ihdr.width)
           height == TotalHeight(s)
           size   == calculate_buffer_size(width, height)
           parts  == InflateParts(s)
           data   == Copied(parts)
       IN  IF \E i \in DOMAIN s : CopyCrashes(parts[i]) THEN {Crash}
           ELSE { Image(width, height,
                        [k \in 1 .. size |-> IF k <= Len(data) THEN data[k] ELSE u]) :
                    u \in Unset }
                  \cup IF Len(data) > size THEN {Crash} ELSE {}

\* mutant: a segment that is missing is left out of the image
concatenate_segments_Skip(s) ==
  concatenate_pngs(SelectSeq(s, LAMBDA p : p # NULL))

\* lab2's and lab3's, which looks for missing segments first
concatenate_segments(s) ==
  IF s = <<>> THEN {NULL}
  ELSE IF Len(s) = 1 THEN {IF s[1] = NULL THEN NULL ELSE s[1].buf}
  ELSE IF \E i \in DOMAIN s : s[i] = NULL THEN {NULL}
  ELSE concatenate_pngs(s)
-----------------------------------------------------------------------------
Init ==
  /\ prog \in {"catpng", "paster", "paster2"}
  /\ args \in Args[prog]
  /\ pngs = <<>>
  /\ all_png = NULL
  /\ status = "running"

Ends(how) == status' = how /\ UNCHANGED <<prog, args, pngs, all_png>>

Usage ==
  /\ status = "running"
  /\ args = <<>>
  /\ Ends(IF prog = "paster" THEN "exit 255" ELSE "exit 1")

Arg == bytes[args[Len(pngs) + 1]]

ArgLeft(p) == status = "running" /\ prog = p /\ Len(pngs) < Len(args)

\* What create_png returns is counted as a valid PNG, NULL too.
ReadArg ==
  /\ ArgLeft("catpng")
  /\ is_png(Arg)
  /\ \E p \in create_png(Arg) :
       IF p = Crash THEN status' = "crashed" /\ UNCHANGED pngs
       ELSE pngs' = Append(pngs, p) /\ UNCHANGED status
  /\ UNCHANGED <<prog, args, all_png>>

NotPng ==
  /\ ArgLeft("catpng")
  /\ ~ is_png(Arg)
  /\ Ends("exit 1")

\* fetch_png: a segment for which there is no PNG stays NULL
fetch_png ==
  /\ ArgLeft("paster")
  /\ \E p \in create_png_from_buf(Arg) :
       IF p = Crash THEN status' = "crashed" /\ UNCHANGED pngs
       ELSE pngs' = Append(pngs, p) /\ UNCHANGED status
  /\ UNCHANGED <<prog, args, all_png>>

\* consume: whichever way the consumer dies, the segment is never stored
consume ==
  /\ ArgLeft("paster2")
  /\ \E p \in create_png_from_buf(Arg) : pngs' = Append(pngs, IF p = Crash THEN NULL ELSE p)
  /\ UNCHANGED <<prog, args, all_png, status>>

AllRead(p) == status = "running" /\ prog = p /\ args # <<>> /\ Len(pngs) = Len(args)

\* write_png, given NULL, dereferences it.  concatenate_pngs reads the three
\* chunks of the image back before it returns it.
Write(img, ifNull) ==
  IF img = Crash THEN Ends("crashed")
  ELSE IF img = NULL \/ NULL \in ReadChunks(img) THEN Ends(ifNull)
  ELSE status' = "exit 0" /\ all_png' = img /\ UNCHANGED <<prog, args, pngs>>

WriteCatpng == AllRead("catpng") /\ \E img \in concatenate_pngs(pngs) : Write(img, "crashed")

WritePaster == AllRead("paster") /\ \E img \in concatenate_segments(pngs) : Write(img, "exit 255")

\* get_all_png_from_shm_array aborts at a segment that was not stored, and
\* makes the PNGs of the others again.
WritePaster2 ==
  /\ AllRead("paster2")
  /\ IF \E i \in DOMAIN pngs : pngs[i] = NULL THEN Ends("aborted")
     ELSE LET again == [i \in DOMAIN pngs |-> CHOOSE p \in create_png_from_buf(pngs[i].buf) : TRUE]
          IN  \E img \in concatenate_segments(again) : Write(img, "aborted")

Ended == status # "running" /\ UNCHANGED vars

Next == \/ Usage \/ ReadArg \/ NotPng \/ WriteCatpng
        \/ fetch_png \/ WritePaster \/ consume \/ WritePaster2 \/ Ended

Spec == Init /\ [][Next]_vars
=============================================================================
