----------------------------- MODULE StringSet -----------------------------
(***************************************************************************)
(* What a hashmap_t is to its callers: a set of strings.  `out` is what    *)
(* the last call of hashmap_contains returned.                             *)
(***************************************************************************)
CONSTANT Value

VARIABLES members, out

vars == <<members, out>>

Init == members = {} /\ out = FALSE

Put(v)      == members' = members \cup {v} /\ UNCHANGED out
Remove(v)   == members' = members \ {v} /\ UNCHANGED out
Contains(v) == out' = (v \in members) /\ UNCHANGED members

Next == \E v \in Value : Put(v) \/ Remove(v) \/ Contains(v)

Spec == Init /\ [][Next]_vars
=============================================================================
