------------------------------ MODULE MCPaster ------------------------------
(***************************************************************************)
(* Values for TLC: any body of segments 0 and 1 may be a PNG or not, all   *)
(* bodies of the others are PNGs.                                          *)
(***************************************************************************)
EXTENDS PasterProps

MCBodies == [s \in Segment |-> IF s <= 1 THEN {"png", "bad"} ELSE {"png"}]
=============================================================================
