------------------------------ MODULE Hashmap ------------------------------
(***************************************************************************)
(* lab4/hashmap.c and lab5/hashmap.c: the set of visited URLs, as chains   *)
(* of strings hashed into n_buckets buckets, newest first.                 *)
(*                                                                         *)
(* hashmap_init leaves map->size as it finds it (findpng2 and findpng3     *)
(* have their bfs_t on the stack), so the count starts anywhere in size_t. *)
(* SizeMod stands for the 2^64 values of a size_t.                         *)
(***************************************************************************)
EXTENDS Integers, FiniteSets, Sequences, SequencesExt

CONSTANTS n_buckets,  \* 100 in lab4, 200 in lab5
          Value,      \* strings, as sequences of chars (signed, never 0)
          SizeMod

ASSUME HashmapAssumption ==
  /\ n_buckets \in Nat \ {0} /\ SizeMod \in Nat \ {0}
  /\ \A v \in Value : v \in Seq(-128 .. 127)

Bucket == 0 .. n_buckets - 1

VARIABLES buckets,  \* Bucket -> Seq(Value)
          size,     \* map->size
          garbage,  \* what map->size was before hashmap_init
          out       \* the last result of hashmap_contains

vars == <<buckets, size, garbage, out>>

\* djb2 in a size_t: what `hash' is after the first k chars
_hash(v) ==
  LET hash[k \in 0 .. Len(v)] ==
        IF k = 0 THEN 5381 % SizeMod
        ELSE (hash[k - 1] * 32 + hash[k - 1] + v[k]) % SizeMod
  IN  hash[Len(v)] % n_buckets

\* strcmp along the chain of v's bucket
Found(v) == v \in Range(buckets[_hash(v)])
-----------------------------------------------------------------------------
Init ==
  /\ buckets = [b \in Bucket |-> <<>>]
  /\ garbage \in 0 .. SizeMod - 1
  /\ size = garbage
  /\ out = FALSE

\* Mutant: put does not look first.
hashmap_put_Again(v) ==
  /\ size' = (size + 1) % SizeMod
  /\ buckets' = [buckets EXCEPT ![_hash(v)] = <<v>> \o @]
  /\ UNCHANGED <<garbage, out>>

hashmap_put(v) ==
  /\ IF Found(v) THEN UNCHANGED <<buckets, size>>
     ELSE /\ size' = (size + 1) % SizeMod
          /\ buckets' = [buckets EXCEPT ![_hash(v)] = <<v>> \o @]
  /\ UNCHANGED <<garbage, out>>

hashmap_contains(v) ==
  /\ out' = Found(v)
  /\ UNCHANGED <<buckets, size, garbage>>

\* Mutant: the bucket is made to start after the node, wherever it is.
hashmap_remove_Head(v) ==
  /\ buckets' = [buckets EXCEPT ![_hash(v)] =
                   IF Found(v) THEN SubSeq(@, SelectInSeq(@, LAMBDA w : w = v) + 1, Len(@))
                   ELSE @]
  /\ size' = IF Found(v) THEN (size - 1) % SizeMod ELSE size
  /\ UNCHANGED <<garbage, out>>

\* The first node with the string, if there is one, is unlinked; the others stay.
hashmap_remove(v) ==
  /\ buckets' = [buckets EXCEPT ![_hash(v)] = RemoveFirst(@, v)]
  /\ size' = IF Found(v) THEN (size - 1) % SizeMod ELSE size
  /\ UNCHANGED <<garbage, out>>

Next == \E v \in Value :
  hashmap_put(v) \/ hashmap_contains(v) \/ hashmap_remove(v)

Spec == Init /\ [][Next]_vars
-----------------------------------------------------------------------------
(***************************************************************************)
(* Properties.                                                             *)
(***************************************************************************)
\* the strings in the map
members == UNION { Range(buckets[b]) : b \in Bucket }

\* Every string is in the bucket it hashes to, and there only once: this is what
\* lets hashmap_contains look into one bucket and hashmap_remove stop at the
\* first match.  The count moves with the strings from whatever it started at, and
\* hashmap_size is the number of them only where that was 0.
WellHashed ==
  /\ \A b \in Bucket : \A k \in DOMAIN buckets[b] :
       /\ _hash(buckets[b][k]) = b
       /\ \A j \in DOMAIN buckets[b] : buckets[b][j] = buckets[b][k] => j = k
  /\ size = (garbage + Cardinality(members)) % SizeMod

\* Collisions are invisible: the map behaves as the set of the strings put in and
\* not removed since.
set == INSTANCE StringSet

ImplementsSet == set!Spec
=============================================================================
