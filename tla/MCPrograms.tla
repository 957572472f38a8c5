----------------------------- MODULE MCPrograms -----------------------------
(***************************************************************************)
(* Memories for TLC: one with room for everything in one piece, and one    *)
(* with single free pages above a piece that the stack fits into.          *)
(***************************************************************************)
EXTENDS ProgramsProps

OnePiece == 1 .. 8
Pieces   == (1 .. 5) \cup {7, 9, 11}

MCRun == DOMAIN Text

MCLayouts == [r \in MCRun |-> IF r \in {"paster2", "test"} THEN {Pieces}
                               ELSE {OnePiece, Pieces}]

MCBodies == 0 .. 4

PasterOnly == {"paster2"}

BadLayouts == [r \in PasterOnly |-> {OnePiece}]
=============================================================================
