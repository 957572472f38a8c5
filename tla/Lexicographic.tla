---------------------------- MODULE Lexicographic ----------------------------
(***************************************************************************)
(* The order in which what is left to do is compared: sequences of numbers *)
(* by the first place where they differ.  There is no infinite descending  *)
(* chain of sequences of n natural numbers, for any n.                     *)
(***************************************************************************)
EXTENDS Integers, Sequences

Less(x, y) == \E i \in 1 .. Len(x) : x[i] < y[i] /\ \A j \in 1 .. i - 1 : x[j] = y[j]
=============================================================================
