------------------------------ MODULE Pipeline ------------------------------
(***************************************************************************)
(* What paster2 promises, whatever its processes do: every part of the     *)
(* image is assigned to one producer, waits in a buffer of B places, is    *)
(* taken once, and is stored, unless it is a part that cannot be decoded;  *)
(* and an image is written only when every part of it is stored.           *)
(***************************************************************************)
EXTENDS Integers, FiniteSets

CONSTANTS B, Part, Bad

VARIABLES status,  \* of each part
          outcome

In(s) == {i \in Part : status[i] = s}

Init ==
  /\ status = [i \in Part |-> "todo"]
  /\ outcome = "running"

Move(i, from, to) ==
  /\ status[i] = from
  /\ status' = [status EXCEPT ![i] = to]
  /\ UNCHANGED outcome

Assign(i)  == outcome = "running" /\ Move(i, "todo", "assigned")
Deposit(i) == Cardinality(In("buffered")) < B /\ Move(i, "assigned", "buffered")
Take(i)    == Move(i, "buffered", "taken")
Keep(i)    == Move(i, "taken", "stored")
Lose(i)    == i \in Bad /\ Move(i, "taken", "lost")

Conclude ==
  /\ outcome = "running"
  /\ outcome' = IF In("stored") = Part THEN "written" ELSE "aborted"
  /\ UNCHANGED status

Next ==
  \/ \E i \in Part : Assign(i) \/ Deposit(i) \/ Take(i) \/ Keep(i) \/ Lose(i)
  \/ Conclude

Spec == Init /\ [][Next]_<<status, outcome>>
=============================================================================
