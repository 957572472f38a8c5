---------------------------- MODULE CatPngProps ----------------------------
(***************************************************************************)
(* What must become of files whose images are known.                       *)
(***************************************************************************)
EXTENDS CatPng

CONSTANTS Width,    \* of all images
          rows,     \* for the files that hold a PNG, its pixel data
          damaged,  \* for the files that hold three chunks, the damaged ones
          lines     \* for those that have a header, the height it says

PngFile   == DOMAIN rows
ChunkFile == DOMAIN damaged

ASSUME RowsAssumption ==
  /\ PngFile \subseteq ChunkFile /\ ChunkFile \subseteq File
  /\ \A f \in PngFile : rows[f] # <<>> /\ Len(rows[f]) % (4 * Width + 1) = 0
  /\ PngFile \subseteq DOMAIN lines /\ DOMAIN lines \subseteq ChunkFile
  /\ damaged \in [ChunkFile -> SUBSET {"IHDR", "IDAT", "IEND"}]

\* A file is read as a PNG if and only if three chunks are there to the last
\* byte, and a chunk is marked corrupted exactly when it was damaged: the bounds
\* checks of read_chunk neither read past a file that was cut short, wherever it
\* was cut, nor refuse one that ends with its last chunk.
ReadsWhatIsThere ==
  \A i \in DOMAIN pngs :
    /\ pngs[i] # NULL <=> args[i] \in ChunkFile
    /\ pngs[i] # NULL =>
         \A c \in {"IHDR", "IDAT", "IEND"} :
           pngs[i][c].is_corrupted <=> c \in damaged[args[i]]

\* If every input is a PNG, what is written is one sound PNG of the width of the
\* parts and the height of all of them together, whose pixels are those of the
\* parts from top to bottom, and which ends with the IEND chunk every PNG ends
\* with.  No all.png comes of an input that has no three chunks or no header.  One
\* may come of an input with a header whose pixels do not inflate, or are more or
\* fewer than the header says: it has the height of the headers.
AllPngIsTheStack ==
  LET sound == \A i \in DOMAIN args : args[i] \in PngFile
  IN  /\ status = "exit 0" <=> all_png # NULL
      /\ status # "running" /\ args # <<>> /\ sound => all_png # NULL
      /\ all_png # NULL =>
           /\ args # <<>> /\ \A i \in DOMAIN args : args[i] \in DOMAIN lines
           /\ \E p \in create_png(all_png) \ {NULL} :
                /\ Number(p.IHDR.ihdr.width) = Width
                /\ Number(p.IHDR.ihdr.height) = SumOf([i \in DOMAIN args |-> lines[args[i]]])
                /\ ~ p.IHDR.is_corrupted /\ ~ p.IDAT.is_corrupted
                /\ sound => mem_inf(p.IDAT.data).data
                              = FlattenSeq([i \in DOMAIN args |-> rows[args[i]]])
           /\ IsSuffix(<<0, 0, 0, 0, 73, 69, 78, 68, 174, 66, 96, 130>>, all_png)
=============================================================================
