----------------------------- MODULE MCHashmap -----------------------------
(***************************************************************************)
(* Values for TLC: five strings, the empty one, an anagram pair and one    *)
(* with a char above 127 among them, in two buckets.                       *)
(***************************************************************************)
EXTENDS Hashmap

MCValue == { <<>>, <<97>>, <<97, 98>>, <<98, 97>>, <<-61, -87>> }
=============================================================================
