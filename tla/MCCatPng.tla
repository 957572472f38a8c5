------------------------------ MODULE MCCatPng ------------------------------
(***************************************************************************)
(* Values for TLC: two images of one pixel's width, files that hold them   *)
(* sound, with a wrong checksum, followed by other bytes or cut short at   *)
(* every place, files whose stream or height is wrong, and files that hold *)
(* something else.                                                         *)
(***************************************************************************)
EXTENDS CatPngProps

One == <<0, 10, 20, 30, 255>>
Two == [i \in 1 .. 15 |-> 0]  \* three lines; inflates to three times its size

Lines(f) == IF f[1] \in {"two", "sum"} THEN 3 ELSE IF f[1] = "high" THEN 2 ELSE 1

Header(height) == <<0, 0, 0, 1, 0, 0, 0, height, 8, 6, 0, 0, 0>>

Encoded(height, stream) ==
  PNG_SIGNITURE \o Chunk(TYPE_IHDR, Header(height)) \o Chunk(TYPE_IDAT, stream)
    \o Chunk(TYPE_IEND, <<>>)

OnePng == Image(1, 1, One)
TwoPng == Image(1, 3, Two)

\* the byte at k replaced by another
Damage(buf, k) == [buf EXCEPT ![k] = (@ + 1) % 256]

Sound    == {"one", "two", "sum", "header", "end", "more"}
Unsound  == {"half", "zlib", "empty", "high", "low"}
Headless == {"noheader"}
NoChunks == {"length", "text", "tiny"}

Plain == { <<f, 0>> : f \in Sound \cup Unsound \cup Headless \cup NoChunks }
Cuts  == { <<"cut", k>> : k \in 8 .. Len(OnePng) - 1 }

MCFile == Plain \cup Cuts

MCBytes == [f \in MCFile |->
  CASE f[1] = "one"      -> OnePng
    [] f[1] = "two"      -> TwoPng
    [] f[1] = "sum"      -> Damage(TwoPng, Len(TwoPng) - 12 - 3)
    [] f[1] = "header"   -> Damage(OnePng, 8 + 8 + 13)
    [] f[1] = "end"      -> Damage(OnePng, Len(OnePng))
    [] f[1] = "more"     -> OnePng \o <<1, 2, 3>>
    [] f[1] = "half"     -> Encoded(1, SubSeq(mem_def(One), 1, 7))
    [] f[1] = "zlib"     -> Encoded(1, Tail(mem_def(One)))
    [] f[1] = "empty"    -> Encoded(1, <<>>)
    [] f[1] = "high"     -> Encoded(2, mem_def(One))
    [] f[1] = "low"      -> Encoded(1, mem_def(Two))
    [] f[1] = "noheader" -> PNG_SIGNITURE \o Chunk(TYPE_IDAT, <<>>)
                              \o Chunk(TYPE_IDAT, mem_def(One)) \o Chunk(TYPE_IEND, <<>>)
    [] f[1] = "length"   -> PNG_SIGNITURE \o Chunk(TYPE_IHDR, <<0, 0, 0, 1>>)
                              \o Chunk(TYPE_IDAT, mem_def(One)) \o Chunk(TYPE_IEND, <<>>)
    [] f[1] = "text"     -> <<104, 101, 108, 108, 111, 44, 32, 119>>
    [] f[1] = "tiny"     -> SubSeq(PNG_SIGNITURE, 1, 7)
    [] f[1] = "cut"      -> SubSeq(OnePng, 1, f[2])]

Triples == {<<"one", 0>>, <<"two", 0>>, <<"more", 0>>} \X {<<"one", 0>>, <<"two", 0>>}
             \X {<<"one", 0>>, <<"two", 0>>, <<"end", 0>>, <<"zlib", 0>>}

Several == {<<>>} \cup (Plain \X Plain) \cup ({<<"one", 0>>} \X Cuts) \cup Triples

MCArgs == [paster  |-> Several,
           paster2 |-> Several,
           catpng  |-> Several \cup { <<f>> : f \in MCFile }]

MCUnset == {0, 165}

MCRows == [f \in { <<n, 0>> : n \in Sound } |-> IF Lines(f) = 3 THEN Two ELSE One]

MCLines == [f \in { <<n, 0>> : n \in Sound \cup Unsound } |-> Lines(f)]

MCDamaged == [f \in { <<n, 0>> : n \in Sound \cup Unsound \cup Headless } |->
                IF f[1] = "sum" THEN {"IDAT"}
                ELSE IF f[1] = "header" THEN {"IHDR"}
                ELSE IF f[1] = "end" THEN {"IEND"} ELSE {}]
=============================================================================
