--------------------------- MODULE Paster2_proofs ---------------------------
(***************************************************************************)
(* Proofs about Paster2, for any number of producers, consumers, places    *)
(* and parts, whichever parts are bad and however many forks fail.         *)
(***************************************************************************)
EXTENDS Paster2Props, FiniteSetTheorems, TLAPS

(***************************************************************************)
(* Counting the processes at some places of the code.                      *)
(***************************************************************************)
One(b) == IF b THEN 1 ELSE 0

LEMMA CountNat ==
  ASSUME NEW P, IsFiniteSet(P), NEW S \in SUBSET P
  PROVE  IsFiniteSet(S) /\ Cardinality(S) \in Nat
  BY FS_Subset, FS_CardinalityType

LEMMA CountMove ==
  ASSUME NEW P, IsFiniteSet(P), NEW F \in SUBSET P, NEW G \in SUBSET P, NEW p \in P,
         \A q \in P \ {p} : q \in F <=> q \in G
  PROVE  Cardinality(G) = Cardinality(F) + One(p \in G) - One(p \in F)
<1>1. IsFiniteSet(F) /\ Cardinality(F) \in Nat
  BY CountNat
<1>2. CASE p \in G <=> p \in F
  <2>1. F = G
    BY <1>2
  <2> QED
    BY <2>1, <1>1, <1>2 DEF One
<1>3. CASE p \in G /\ p \notin F
  <2>1. G = F \cup {p}
    BY <1>3
  <2>2. Cardinality(G) = Cardinality(F) + 1
    BY <2>1, <1>1, <1>3, FS_AddElement
  <2> QED
    BY <2>2, <1>1, <1>3 DEF One
<1>4. CASE p \notin G /\ p \in F
  <2>1. G = F \ {p}
    BY <1>4
  <2>2. Cardinality(G) = Cardinality(F) - 1
    BY <2>1, <1>1, <1>4, FS_RemoveElement
  <2> QED
    BY <2>2, <1>1, <1>4 DEF One
<1> QED
  BY <1>2, <1>3, <1>4

LEMMA AtMostOne ==
  ASSUME NEW S, IsFiniteSet(S), Cardinality(S) <= 1, NEW x \in S, NEW y \in S
  PROVE  x = y
<1> SUFFICES ASSUME x # y PROVE FALSE
  OBVIOUS
<1>1. Cardinality(S \ {x}) = Cardinality(S) - 1 /\ IsFiniteSet(S \ {x})
  BY FS_RemoveElement
<1>2. y \in S \ {x}
  OBVIOUS
<1>3. Cardinality(S \ {x}) \in Nat \ {0}
  BY <1>1, <1>2, FS_CardinalityType, FS_EmptySet
<1> QED
  BY <1>1, <1>3, FS_CardinalityType

LEMMA SomeAt ==
  ASSUME NEW S, IsFiniteSet(S), NEW x \in S
  PROVE  Cardinality(S) \in Nat \ {0}
  BY FS_CardinalityType, FS_EmptySet
-----------------------------------------------------------------------------
(***************************************************************************)
(* What a step of one process does to the counts of SemaphoreBalance and   *)
(* StackExclusive.                                                         *)
(***************************************************************************)
LEMMA Counts ==
  /\ Cardinality(Pushing) \in Nat /\ Cardinality(Pushed) \in Nat
  /\ Cardinality(InPush) \in Nat /\ IsFiniteSet(InPush)
  /\ Cardinality(Popping) \in Nat /\ Cardinality(ToPop) \in Nat
  /\ Cardinality(InPop) \in Nat /\ IsFiniteSet(InPop)
  /\ Children \in Nat
<1>1. /\ Pushing \in SUBSET Producer /\ Pushed \in SUBSET Producer
      /\ InPush \in SUBSET Producer /\ Popping \in SUBSET Consumer
      /\ ToPop \in SUBSET Consumer /\ InPop \in SUBSET Consumer
  BY DEF Pushing, Pushed, InPush, Popping, ToPop, InPop, PAt, CAt
<1>2. Children \in Nat
  BY FS_CardinalityType, Paster2Assumption DEF Children
<1> QED
  BY <1>1, <1>2, CountNat, Paster2Assumption

LEMMA CountsNext ==
  /\ Cardinality(Pushing') \in Nat /\ Cardinality(Pushed') \in Nat
  /\ Cardinality(InPush') \in Nat
  /\ Cardinality(Popping') \in Nat /\ Cardinality(ToPop') \in Nat
  /\ Cardinality(InPop') \in Nat
<1>1. /\ Pushing' \in SUBSET Producer /\ Pushed' \in SUBSET Producer
      /\ InPush' \in SUBSET Producer /\ Popping' \in SUBSET Consumer
      /\ ToPop' \in SUBSET Consumer /\ InPop' \in SUBSET Consumer
  BY DEF Pushing, Pushed, InPush, Popping, ToPop, InPop, PAt, CAt
<1> QED
  BY <1>1, CountNat, Paster2Assumption

LEMMA ProducerMoves ==
  ASSUME TypeOK, NEW p \in Producer, NEW from, NEW to, PGoto(p, from, to)
  PROVE  /\ Cardinality(Pushing') = Cardinality(Pushing)
              + One(to \in {"lock", "push", "copy", "unlock", "items"})
              - One(from \in {"lock", "push", "copy", "unlock", "items"})
         /\ Cardinality(Pushed') = Cardinality(Pushed)
              + One(to \in {"copy", "unlock", "items"})
              - One(from \in {"copy", "unlock", "items"})
         /\ Cardinality(InPush') = Cardinality(InPush)
              + One(to \in {"push", "copy", "unlock"})
              - One(from \in {"push", "copy", "unlock"})
<1>1. IsFiniteSet(Producer) /\ ppc \in [Producer -> ProducerPC]
      /\ ppc[p] = from /\ ppc' = [ppc EXCEPT ![p] = to]
  BY Paster2Assumption DEF TypeOK, PGoto
<1>2. ASSUME NEW S
      PROVE  /\ PAt(S) \in SUBSET Producer /\ PAt(S)' \in SUBSET Producer
             /\ \A q \in Producer \ {p} : q \in PAt(S) <=> q \in PAt(S)'
             /\ p \in PAt(S) <=> from \in S
             /\ p \in PAt(S)' <=> to \in S
  BY <1>1 DEF PAt
<1>3. ASSUME NEW S
      PROVE  Cardinality(PAt(S)') = Cardinality(PAt(S)) + One(to \in S) - One(from \in S)
  <2>1. Cardinality(PAt(S)')
          = Cardinality(PAt(S)) + One(p \in PAt(S)') - One(p \in PAt(S))
    BY <1>1, <1>2, CountMove
  <2> QED
    BY <2>1, <1>2 DEF One
<1> QED
  BY <1>3 DEF Pushing, Pushed, InPush

LEMMA ConsumerMoves ==
  ASSUME TypeOK, NEW c \in Consumer, NEW from, NEW to, CGoto(c, from, to)
  PROVE  /\ Cardinality(Popping') = Cardinality(Popping)
              + One(to \in {"lock", "pop", "drop", "unlock", "spaces"})
              - One(from \in {"lock", "pop", "drop", "unlock", "spaces"})
         /\ Cardinality(ToPop') = Cardinality(ToPop)
              + One(to \in {"lock", "pop", "drop"})
              - One(from \in {"lock", "pop", "drop"})
         /\ Cardinality(InPop') = Cardinality(InPop)
              + One(to \in {"pop", "drop", "unlock"})
              - One(from \in {"pop", "drop", "unlock"})
<1>1. IsFiniteSet(Consumer) /\ cpc \in [Consumer -> ConsumerPC]
      /\ cpc[c] = from /\ cpc' = [cpc EXCEPT ![c] = to]
  BY Paster2Assumption DEF TypeOK, CGoto
<1>2. ASSUME NEW S
      PROVE  /\ CAt(S) \in SUBSET Consumer /\ CAt(S)' \in SUBSET Consumer
             /\ \A q \in Consumer \ {c} : q \in CAt(S) <=> q \in CAt(S)'
             /\ c \in CAt(S) <=> from \in S
             /\ c \in CAt(S)' <=> to \in S
  BY <1>1 DEF CAt
<1>3. ASSUME NEW S
      PROVE  Cardinality(CAt(S)') = Cardinality(CAt(S)) + One(to \in S) - One(from \in S)
  <2>1. Cardinality(CAt(S)')
          = Cardinality(CAt(S)) + One(c \in CAt(S)') - One(c \in CAt(S))
    BY <1>1, <1>2, CountMove
  <2> QED
    BY <2>1, <1>2 DEF One
<1> QED
  BY <1>3 DEF Popping, ToPop, InPop

LEMMA OthersStay ==
  /\ UNCHANGED ppc => UNCHANGED <<Pushing, Pushed, InPush>>
  /\ UNCHANGED cpc => UNCHANGED <<Popping, ToPop, InPop>>
  BY DEF Pushing, Pushed, InPush, Popping, ToPop, InPop, PAt, CAt
-----------------------------------------------------------------------------
(***************************************************************************)
(* The inductive invariant: the types, the two balances, and that the      *)
(* stack holds a part wherever pop may read, save under a push at work.    *)
(***************************************************************************)
NoHole == \A k \in 0 .. pos : slot[k] # None \/ (k = pos /\ PAt({"copy"}) # {})

IInv == TypeOK /\ SemaphoreBalance /\ StackExclusive /\ NoHole

LEMMA Limits ==
  ASSUME SemaphoreBalance, sem_spaces \in Int, sem_items \in Int, sem_items >= 0,
         sem_spaces >= 0, pos \in Int
  PROVE  /\ sem_spaces \in 0 .. B /\ sem_items \in 0 .. B
         /\ pos \in -1 .. B - 1
<1>1. Cardinality(Pushed) <= Cardinality(Pushing)
  <2>1. Pushed \in SUBSET Pushing /\ Pushing \in SUBSET Producer
    BY DEF Pushed, Pushing, PAt
  <2> QED
    BY <2>1, FS_Subset, Paster2Assumption
<1>2. Cardinality(ToPop) <= Cardinality(Popping)
  <2>1. ToPop \in SUBSET Popping /\ Popping \in SUBSET Consumer
    BY DEF ToPop, Popping, CAt
  <2> QED
    BY <2>1, FS_Subset, Paster2Assumption
<1> QED
  BY <1>1, <1>2, Counts, Paster2Assumption DEF SemaphoreBalance

\* Push and pop are never refused, by the balances alone.
LEMMA Refusals ==
  ASSUME TypeOK, SemaphoreBalance
  PROVE  NeverRefused
<1>1. ASSUME NEW p \in Producer, ppc[p] = "push"
      PROVE  pos < B - 1
  <2>1. p \in Pushing \ Pushed /\ Pushed \in SUBSET Pushing /\ Pushing \in SUBSET Producer
    BY <1>1 DEF Pushed, Pushing, PAt
  <2>2. Cardinality(Pushed \cup {p}) = Cardinality(Pushed) + 1
        /\ Cardinality(Pushed \cup {p}) <= Cardinality(Pushing)
    <3>1. IsFiniteSet(Pushing) /\ IsFiniteSet(Pushed)
      BY <2>1, FS_Subset, Paster2Assumption
    <3> QED
      BY <2>1, <3>1, FS_AddElement, FS_Subset
  <2>3. Cardinality(ToPop) <= Cardinality(Popping)
    <3>1. ToPop \in SUBSET Popping /\ Popping \in SUBSET Consumer
      BY DEF ToPop, Popping, CAt
    <3> QED
      BY <3>1, FS_Subset, Paster2Assumption
  <2> QED
    BY <2>2, <2>3, Counts, Paster2Assumption DEF SemaphoreBalance, TypeOK
<1>2. ASSUME NEW c \in Consumer, cpc[c] = "pop"
      PROVE  pos >= 0
  <2>1. c \in ToPop /\ ToPop \in SUBSET Consumer
    BY <1>2 DEF ToPop, CAt
  <2>2. Cardinality(ToPop) \in Nat \ {0}
    BY <2>1, SomeAt, FS_Subset, Paster2Assumption
  <2> QED
    BY <2>2, Counts DEF SemaphoreBalance, TypeOK
<1> QED
  BY <1>1, <1>2 DEF NeverRefused

\* A process at work on the stack is alone there.
LEMMA Alone ==
  ASSUME TypeOK, StackExclusive
  PROVE  /\ \A p, q \in InPush : p = q
         /\ \A c, d \in InPop : c = d
         /\ InPush = {} \/ InPop = {}
         /\ InPush # {} \/ InPop # {} => stack_mutex = 0
<1>1. stack_mutex \in 0 .. 1
  BY DEF TypeOK
<1>2. Cardinality(InPush) <= 1 /\ Cardinality(InPop) <= 1
      /\ Cardinality(InPush) + Cardinality(InPop) <= 1
  BY <1>1, Counts DEF StackExclusive
<1>3. InPush # {} => Cardinality(InPush) \in Nat \ {0}
  BY SomeAt, Counts
<1>4. InPop # {} => Cardinality(InPop) \in Nat \ {0}
  BY SomeAt, Counts
<1>5. (\A p, q \in InPush : p = q) /\ (\A c, d \in InPop : c = d)
  BY <1>2, AtMostOne, Counts
<1> QED
  BY <1>1, <1>2, <1>3, <1>4, <1>5, Counts DEF StackExclusive

LEMMA InitInv == Init => IInv
<1> SUFFICES ASSUME Init PROVE IInv
  OBVIOUS
<1>1. /\ Pushing = {} /\ Pushed = {} /\ InPush = {} /\ Popping = {} /\ ToPop = {} /\ InPop = {}
  BY DEF Init, Pushing, Pushed, InPush, Popping, ToPop, InPop, PAt, CAt
<1>2. SemaphoreBalance /\ StackExclusive
  BY <1>1, FS_EmptySet, Paster2Assumption DEF Init, SemaphoreBalance, StackExclusive
<1>3. TypeOK
  BY Counts, FS_CardinalityType, Paster2Assumption
     DEF Init, TypeOK, ProducerPC, ConsumerPC, Part
<1>4. NoHole
  BY DEF Init, NoHole
<1> QED
  BY <1>2, <1>3, <1>4 DEF IInv

(***************************************************************************)
(* The steps of a producer and of a consumer.                              *)
(***************************************************************************)
LEMMA ProducerBalances ==
  ASSUME IInv, NEW p \in Producer, ProducerStep(p)
  PROVE  SemaphoreBalance' /\ StackExclusive'
<1> USE DEF IInv, SemaphoreBalance, StackExclusive
<1>0. /\ sem_spaces \in Nat /\ sem_items \in Nat /\ pos \in Int /\ stack_mutex \in Int
  BY Paster2Assumption DEF TypeOK
<1>1. CASE NextSegment(p)
  <2>1. PGoto(p, "next", "fetch")
    BY <1>1 DEF NextSegment
  <2>2. /\ Cardinality(Pushing') = Cardinality(Pushing)
        /\ Cardinality(Pushed') = Cardinality(Pushed)
        /\ Cardinality(InPush') = Cardinality(InPush)
    BY <2>1, ProducerMoves, Counts DEF One
  <2>3. UNCHANGED <<Popping, ToPop, InPop>>
    BY <1>1, OthersStay DEF NextSegment
  <2> QED
    BY <1>0, <1>1, <2>2, <2>3, Counts, CountsNext DEF NextSegment, stack_vars
<1>2. CASE NoSegmentLeft(p)
  <2>1. PGoto(p, "next", "exited")
    BY <1>2 DEF NoSegmentLeft
  <2>2. /\ Cardinality(Pushing') = Cardinality(Pushing)
        /\ Cardinality(Pushed') = Cardinality(Pushed)
        /\ Cardinality(InPush') = Cardinality(InPush)
    BY <2>1, ProducerMoves, Counts DEF One
  <2>3. UNCHANGED <<Popping, ToPop, InPop>>
    BY <1>2, OthersStay DEF NoSegmentLeft
  <2> QED
    BY <1>0, <1>2, <2>2, <2>3, Counts, CountsNext DEF NoSegmentLeft, stack_vars
<1>3. CASE FetchFails(p)
  BY <1>3, OthersStay, Counts DEF FetchFails, stack_vars
<1>4. CASE Fetched(p)
  <2>1. PGoto(p, "fetch", "spaces")
    BY <1>4 DEF Fetched
  <2>2. /\ Cardinality(Pushing') = Cardinality(Pushing)
        /\ Cardinality(Pushed') = Cardinality(Pushed)
        /\ Cardinality(InPush') = Cardinality(InPush)
    BY <2>1, ProducerMoves, Counts DEF One
  <2>3. UNCHANGED <<Popping, ToPop, InPop>>
    BY <1>4, OthersStay DEF Fetched
  <2> QED
    BY <1>0, <1>4, <2>2, <2>3, Counts, CountsNext DEF Fetched, stack_vars
<1>5. CASE PWaitSpaces(p)
  <2>1. PGoto(p, "spaces", "lock")
    BY <1>5 DEF PWaitSpaces
  <2>2. /\ Cardinality(Pushing') = Cardinality(Pushing) + 1
        /\ Cardinality(Pushed') = Cardinality(Pushed)
        /\ Cardinality(InPush') = Cardinality(InPush)
    BY <2>1, ProducerMoves, Counts DEF One
  <2>3. UNCHANGED <<Popping, ToPop, InPop>>
    BY <1>5, OthersStay DEF PWaitSpaces
  <2> QED
    BY <1>0, <1>5, <2>2, <2>3, Counts, CountsNext DEF PWaitSpaces, stack_vars
<1>6. CASE PLock(p)
  <2>1. PGoto(p, "lock", "push")
    BY <1>6 DEF PLock
  <2>2. /\ Cardinality(Pushing') = Cardinality(Pushing)
        /\ Cardinality(Pushed') = Cardinality(Pushed)
        /\ Cardinality(InPush') = Cardinality(InPush) + 1
    BY <2>1, ProducerMoves, Counts DEF One
  <2>3. UNCHANGED <<Popping, ToPop, InPop>>
    BY <1>6, OthersStay DEF PLock
  <2> QED
    BY <1>0, <1>6, <2>2, <2>3, Counts, CountsNext DEF PLock, stack_vars
<1>7. CASE Push(p)
  <2>0. pos # B - 1
    BY <1>0, <1>7, Refusals, Paster2Assumption DEF Push, PGoto, NeverRefused
  <2>1. PGoto(p, "push", "copy") /\ pos' = pos + 1
    BY <1>7, <2>0 DEF Push
  <2>2. /\ Cardinality(Pushing') = Cardinality(Pushing)
        /\ Cardinality(Pushed') = Cardinality(Pushed) + 1
        /\ Cardinality(InPush') = Cardinality(InPush)
    BY <2>1, ProducerMoves, Counts DEF One
  <2>3. UNCHANGED <<Popping, ToPop, InPop>>
    BY <1>7, OthersStay DEF Push
  <2>4. UNCHANGED <<sem_spaces, sem_items, stack_mutex>>
    BY <1>7 DEF Push
  <2> QED
    BY <1>0, <2>1, <2>2, <2>3, <2>4, Counts, CountsNext
<1>8. CASE PushCopy(p)
  <2>1. PGoto(p, "copy", "unlock")
    BY <1>8 DEF PushCopy
  <2>2. /\ Cardinality(Pushing') = Cardinality(Pushing)
        /\ Cardinality(Pushed') = Cardinality(Pushed)
        /\ Cardinality(InPush') = Cardinality(InPush)
    BY <2>1, ProducerMoves, Counts DEF One
  <2>3. UNCHANGED <<Popping, ToPop, InPop>>
    BY <1>8, OthersStay DEF PushCopy
  <2> QED
    BY <1>0, <1>8, <2>2, <2>3, Counts, CountsNext DEF PushCopy, stack_vars
<1>9. CASE PUnlock(p)
  <2>1. PGoto(p, "unlock", "items")
    BY <1>9 DEF PUnlock
  <2>2. /\ Cardinality(Pushing') = Cardinality(Pushing)
        /\ Cardinality(Pushed') = Cardinality(Pushed)
        /\ Cardinality(InPush') = Cardinality(InPush) - 1
    BY <2>1, ProducerMoves, Counts DEF One
  <2>3. UNCHANGED <<Popping, ToPop, InPop>>
    BY <1>9, OthersStay DEF PUnlock
  <2> QED
    BY <1>0, <1>9, <2>2, <2>3, Counts, CountsNext DEF PUnlock, stack_vars
<1>10. CASE PPostItems(p)
  <2>1. PGoto(p, "items", "next")
    BY <1>10 DEF PPostItems
  <2>2. /\ Cardinality(Pushing') = Cardinality(Pushing) - 1
        /\ Cardinality(Pushed') = Cardinality(Pushed) - 1
        /\ Cardinality(InPush') = Cardinality(InPush)
    BY <2>1, ProducerMoves, Counts DEF One
  <2>3. UNCHANGED <<Popping, ToPop, InPop>>
    BY <1>10, OthersStay DEF PPostItems
  <2> QED
    BY <1>0, <1>10, <2>2, <2>3, Counts, CountsNext DEF PPostItems, stack_vars
<1> QED
  BY <1>1, <1>2, <1>3, <1>4, <1>5, <1>6, <1>7, <1>8, <1>9, <1>10 DEF ProducerStep

LEMMA ConsumerBalances ==
  ASSUME IInv, NEW c \in Consumer, ConsumerStep(c)
  PROVE  SemaphoreBalance' /\ StackExclusive'
<1> USE DEF IInv, SemaphoreBalance, StackExclusive
<1>0. /\ sem_spaces \in Nat /\ sem_items \in Nat /\ pos \in Int /\ stack_mutex \in Int
  BY Paster2Assumption DEF TypeOK
<1>1. CASE AllReserved(c)
  <2>1. CGoto(c, "check", "exited")
    BY <1>1 DEF AllReserved
  <2>2. /\ Cardinality(Popping') = Cardinality(Popping)
        /\ Cardinality(ToPop') = Cardinality(ToPop)
        /\ Cardinality(InPop') = Cardinality(InPop)
    BY <2>1, ConsumerMoves, Counts DEF One
  <2>3. UNCHANGED <<Pushing, Pushed, InPush>>
    BY <1>1, OthersStay DEF AllReserved
  <2> QED
    BY <1>0, <1>1, <2>2, <2>3, Counts, CountsNext DEF AllReserved, stack_vars
<1>2. CASE Reserve(c)
  <2>1. CGoto(c, "check", "items")
    BY <1>2 DEF Reserve
  <2>2. /\ Cardinality(Popping') = Cardinality(Popping)
        /\ Cardinality(ToPop') = Cardinality(ToPop)
        /\ Cardinality(InPop') = Cardinality(InPop)
    BY <2>1, ConsumerMoves, Counts DEF One
  <2>3. UNCHANGED <<Pushing, Pushed, InPush>>
    BY <1>2, OthersStay DEF Reserve
  <2> QED
    BY <1>0, <1>2, <2>2, <2>3, Counts, CountsNext DEF Reserve, stack_vars
<1>3. CASE CWaitItems(c)
  <2>1. CGoto(c, "items", "lock")
    BY <1>3 DEF CWaitItems
  <2>2. /\ Cardinality(Popping') = Cardinality(Popping) + 1
        /\ Cardinality(ToPop') = Cardinality(ToPop) + 1
        /\ Cardinality(InPop') = Cardinality(InPop)
    BY <2>1, ConsumerMoves, Counts DEF One
  <2>3. UNCHANGED <<Pushing, Pushed, InPush>>
    BY <1>3, OthersStay DEF CWaitItems
  <2> QED
    BY <1>0, <1>3, <2>2, <2>3, Counts, CountsNext DEF CWaitItems, stack_vars
<1>4. CASE CLock(c)
  <2>1. CGoto(c, "lock", "pop")
    BY <1>4 DEF CLock
  <2>2. /\ Cardinality(Popping') = Cardinality(Popping)
        /\ Cardinality(ToPop') = Cardinality(ToPop)
        /\ Cardinality(InPop') = Cardinality(InPop) + 1
    BY <2>1, ConsumerMoves, Counts DEF One
  <2>3. UNCHANGED <<Pushing, Pushed, InPush>>
    BY <1>4, OthersStay DEF CLock
  <2> QED
    BY <1>0, <1>4, <2>2, <2>3, Counts, CountsNext DEF CLock, stack_vars
<1>5. CASE Pop(c)
  <2>0. pos # -1
    BY <1>5, Refusals DEF Pop, CGoto, NeverRefused
  <2>1. CGoto(c, "pop", "drop")
    BY <1>5, <2>0 DEF Pop
  <2>2. /\ Cardinality(Popping') = Cardinality(Popping)
        /\ Cardinality(ToPop') = Cardinality(ToPop)
        /\ Cardinality(InPop') = Cardinality(InPop)
    BY <2>1, ConsumerMoves, Counts DEF One
  <2>3. UNCHANGED <<Pushing, Pushed, InPush>>
    BY <1>5, OthersStay DEF Pop
  <2> QED
    BY <1>0, <1>5, <2>0, <2>1, <2>2, <2>3, Counts, CountsNext DEF Pop, stack_vars
<1>6. CASE PopDrop(c)
  <2>1. CGoto(c, "drop", "unlock")
    BY <1>6 DEF PopDrop
  <2>2. /\ Cardinality(Popping') = Cardinality(Popping)
        /\ Cardinality(ToPop') = Cardinality(ToPop) - 1
        /\ Cardinality(InPop') = Cardinality(InPop)
    BY <2>1, ConsumerMoves, Counts DEF One
  <2>3. UNCHANGED <<Pushing, Pushed, InPush>>
    BY <1>6, OthersStay DEF PopDrop
  <2>4. pos' = pos - 1 /\ UNCHANGED <<sem_spaces, sem_items, stack_mutex>>
    BY <1>6 DEF PopDrop
  <2>5. SemaphoreBalance'
    <3>1. /\ Cardinality(Pushing') = Cardinality(Pushing)
          /\ Cardinality(Pushed') = Cardinality(Pushed)
      BY <2>3
    <3>2. (sem_spaces + sem_items + Cardinality(Pushing) + Cardinality(Popping) = B)'
      BY <2>2, <2>4, <3>1
    <3>3. /\ pos' = pos - 1 /\ sem_items' = sem_items
          /\ Cardinality(ToPop') = Cardinality(ToPop) - 1
      BY <2>2, <2>4
    <3>4. pos + 1 = sem_items + Cardinality(Pushed) + Cardinality(ToPop)
      OBVIOUS
    <3> HIDE DEF IInv, StackExclusive
    <3>5. pos' + 1 = sem_items' + Cardinality(Pushed') + Cardinality(ToPop')
      BY <1>0, <3>1, <3>3, <3>4, Counts
    <3> QED
      BY <3>2, <3>5
  <2>6. StackExclusive'
    BY <1>0, <2>2, <2>3, <2>4, Counts, CountsNext
  <2> QED
    BY <2>5, <2>6
<1>7. CASE CUnlock(c)
  <2>1. CGoto(c, "unlock", "spaces")
    BY <1>7 DEF CUnlock
  <2>2. /\ Cardinality(Popping') = Cardinality(Popping)
        /\ Cardinality(ToPop') = Cardinality(ToPop)
        /\ Cardinality(InPop') = Cardinality(InPop) - 1
    BY <2>1, ConsumerMoves, Counts DEF One
  <2>3. UNCHANGED <<Pushing, Pushed, InPush>>
    BY <1>7, OthersStay DEF CUnlock
  <2> QED
    BY <1>0, <1>7, <2>2, <2>3, Counts, CountsNext DEF CUnlock, stack_vars
<1>8. CASE CPostSpaces(c)
  <2>1. CGoto(c, "spaces", "store")
    BY <1>8 DEF CPostSpaces, CGoto, TypeOK
  <2>2. /\ Cardinality(Popping') = Cardinality(Popping) - 1
        /\ Cardinality(ToPop') = Cardinality(ToPop)
        /\ Cardinality(InPop') = Cardinality(InPop)
    BY <2>1, ConsumerMoves, Counts DEF One
  <2>3. UNCHANGED <<Pushing, Pushed, InPush>>
    BY <1>8, OthersStay DEF CPostSpaces
  <2> QED
    BY <1>0, <1>8, <2>2, <2>3, Counts, CountsNext DEF CPostSpaces, stack_vars
<1>9. CASE Store(c)
  <2>1. CGoto(c, "store", "check")
    BY <1>9 DEF Store
  <2>2. /\ Cardinality(Popping') = Cardinality(Popping)
        /\ Cardinality(ToPop') = Cardinality(ToPop)
        /\ Cardinality(InPop') = Cardinality(InPop)
    BY <2>1, ConsumerMoves, Counts DEF One
  <2>3. UNCHANGED <<Pushing, Pushed, InPush>>
    BY <1>9, OthersStay DEF Store
  <2> QED
    BY <1>0, <1>9, <2>2, <2>3, Counts, CountsNext DEF Store, stack_vars
<1>10. CASE Crash(c)
  <2>1. CGoto(c, "store", "crashed")
    BY <1>10 DEF Crash
  <2>2. /\ Cardinality(Popping') = Cardinality(Popping)
        /\ Cardinality(ToPop') = Cardinality(ToPop)
        /\ Cardinality(InPop') = Cardinality(InPop)
    BY <2>1, ConsumerMoves, Counts DEF One
  <2>3. UNCHANGED <<Pushing, Pushed, InPush>>
    BY <1>10, OthersStay DEF Crash
  <2> QED
    BY <1>0, <1>10, <2>2, <2>3, Counts, CountsNext DEF Crash, stack_vars
<1> QED
  BY <1>1, <1>2, <1>3, <1>4, <1>5, <1>6, <1>7, <1>8, <1>9, <1>10 DEF ConsumerStep
-----------------------------------------------------------------------------
(***************************************************************************)
(* The types.                                                              *)
(***************************************************************************)
LEMMA LimitsNext ==
  ASSUME SemaphoreBalance', sem_spaces' \in Nat, sem_items' \in Nat, pos' \in Int
  PROVE  /\ sem_spaces' \in 0 .. B /\ sem_items' \in 0 .. B
         /\ pos' \in -1 .. B - 1
<1>1. Cardinality(Pushed') <= Cardinality(Pushing')
  <2>1. Pushed' \in SUBSET Pushing' /\ Pushing' \in SUBSET Producer
    BY DEF Pushed, Pushing, PAt
  <2> QED
    BY <2>1, FS_Subset, Paster2Assumption
<1>2. Cardinality(ToPop') <= Cardinality(Popping')
  <2>1. ToPop' \in SUBSET Popping' /\ Popping' \in SUBSET Consumer
    BY DEF ToPop, Popping, CAt
  <2> QED
    BY <2>1, FS_Subset, Paster2Assumption
<1> QED
  BY <1>1, <1>2, CountsNext, Paster2Assumption DEF SemaphoreBalance

LEMMA MutexNext ==
  ASSUME StackExclusive', stack_mutex' \in Nat
  PROVE  stack_mutex' \in 0 .. 1
  BY CountsNext DEF StackExclusive

\* What the type invariant says of the variables no balance bounds.
Shape ==
  /\ slot \in [0 .. B - 1 -> Part \cup {None}]
  /\ png_array \in [Part -> Part \cup {None}]
  /\ png_count \in 0 .. NUM_SEGMENTS
  /\ downloaded_count \in 0 .. NUM_SEGMENTS
  /\ num_consumers \in 0 .. Cardinality(Consumer)
  /\ ppc \in [Producer -> ProducerPC]
  /\ part \in [Producer -> Part \cup {None}]
  /\ \A p \in Producer :
       part[p] # None <=> ppc[p] \notin {"unborn", "next", "exited", "reaped"}
  /\ cpc \in [Consumer -> ConsumerPC]
  /\ got \in [Consumer -> Part \cup {None}]
  /\ \A c \in Consumer :
       got[c] # None <=> cpc[c] \in {"drop", "unlock", "spaces", "store"}
  /\ main \in {"producers", "consumers", "wait", "collect", "written", "aborted"}
  /\ waited \in 0 .. Children
  /\ fetch_failures \in 0 .. MaxFetchFailures
  /\ fork_failures \in 0 .. MaxForkFailures

LEMMA TypesNext ==
  ASSUME Shape', SemaphoreBalance', StackExclusive',
         sem_spaces' \in Nat, sem_items' \in Nat, pos' \in Int, stack_mutex' \in Nat
  PROVE  TypeOK'
  BY LimitsNext, MutexNext DEF TypeOK, Shape

\* What pop is about to read is a part.
LEMMA TopIsThere ==
  ASSUME IInv, NEW c \in Consumer, cpc[c] = "pop"
  PROVE  pos \in 0 .. B - 1 /\ slot[pos] \in Part
<1>1. pos \in 0 .. B - 1
  BY Refusals, Paster2Assumption DEF IInv, TypeOK, NeverRefused
<1>2. PAt({"copy"}) = {}
  BY Alone DEF IInv, InPush, InPop, PAt, CAt
<1> QED
  BY <1>1, <1>2 DEF IInv, NoHole, TypeOK

LEMMA ProducerTypes ==
  ASSUME IInv, NEW p \in Producer, ProducerStep(p)
  PROVE  TypeOK'
<1> SUFFICES /\ Shape' /\ sem_spaces' \in Nat /\ sem_items' \in Nat
             /\ pos' \in Int /\ stack_mutex' \in Nat
  BY ProducerBalances, TypesNext
<1> USE Paster2Assumption DEF IInv, TypeOK, Shape, PGoto, ProducerPC, Part, stack_vars, counters, main_vars
<1>0. B \in Nat /\ NUM_SEGMENTS \in Nat /\ None \notin Int
  OBVIOUS
<1>1. CASE NextSegment(p)
  BY <1>1 DEF NextSegment
<1>2. CASE NoSegmentLeft(p)
  BY <1>2 DEF NoSegmentLeft
<1>3. CASE FetchFails(p)
  BY <1>3 DEF FetchFails
<1>4. CASE Fetched(p)
  BY <1>4 DEF Fetched
<1>5. CASE PWaitSpaces(p)
  BY <1>5 DEF PWaitSpaces
<1>6. CASE PLock(p)
  BY <1>6 DEF PLock
<1>7. CASE Push(p)
  BY <1>7 DEF Push
<1>8. CASE PushCopy(p)
  <2>1. slot' \in [0 .. B - 1 -> Part \cup {None}]
    BY <1>8 DEF PushCopy
  <2> QED
    BY <1>8, <2>1 DEF PushCopy
<1>9. CASE PUnlock(p)
  BY <1>9 DEF PUnlock
<1>10. CASE PPostItems(p)
  BY <1>10 DEF PPostItems
<1> QED
  BY <1>1, <1>2, <1>3, <1>4, <1>5, <1>6, <1>7, <1>8, <1>9, <1>10 DEF ProducerStep

LEMMA ConsumerTypes ==
  ASSUME IInv, NEW c \in Consumer, ConsumerStep(c)
  PROVE  TypeOK'
<1> SUFFICES /\ Shape' /\ sem_spaces' \in Nat /\ sem_items' \in Nat
             /\ pos' \in Int /\ stack_mutex' \in Nat
  BY ConsumerBalances, TypesNext
<1>0. Cardinality(Consumer) \in Nat
  BY FS_CardinalityType, Paster2Assumption
<1> USE <1>0, Paster2Assumption DEF IInv, TypeOK, Shape, CGoto, ConsumerPC, Part, stack_vars, counters, main_vars
<1>1. CASE AllReserved(c)
  BY <1>1 DEF AllReserved
<1>2. CASE Reserve(c)
  BY <1>2 DEF Reserve
<1>3. CASE CWaitItems(c)
  BY <1>3 DEF CWaitItems
<1>4. CASE CLock(c)
  BY <1>4 DEF CLock
<1>5. CASE Pop(c)
  <2>1. /\ pos \in 0 .. B - 1 /\ slot[pos] \in Part
        /\ slot[pos] # None /\ pos # -1
    BY <1>5, TopIsThere DEF Pop
  <2>2. got' = [got EXCEPT ![c] = slot[pos]] /\ cpc' = [cpc EXCEPT ![c] = "drop"]
    BY <1>5, <2>1 DEF Pop
  <2> QED
    BY <1>5, <2>1, <2>2 DEF Pop
<1>6. CASE PopDrop(c)
  BY <1>6 DEF PopDrop
<1>7. CASE CUnlock(c)
  BY <1>7 DEF CUnlock
<1>8. CASE CPostSpaces(c)
  BY <1>8 DEF CPostSpaces
<1>9. CASE Store(c)
  BY <1>9 DEF Store
<1>10. CASE Crash(c)
  BY <1>10 DEF Crash
<1> QED
  BY <1>1, <1>2, <1>3, <1>4, <1>5, <1>6, <1>7, <1>8, <1>9, <1>10 DEF ConsumerStep
-----------------------------------------------------------------------------
(***************************************************************************)
(* The stack has no hole.                                                  *)
(***************************************************************************)
LEMMA ProducerHoles ==
  ASSUME IInv, NEW p \in Producer, ProducerStep(p)
  PROVE  NoHole'
<1> USE DEF IInv, TypeOK, NoHole, PAt, PGoto
<1>1. CASE Push(p)
  <2>1. pos # B - 1
    BY <1>1, Refusals, Paster2Assumption DEF Push, NeverRefused
  <2>2. pos' = pos + 1 /\ UNCHANGED slot /\ p \in PAt({"copy"})'
    BY <1>1, <2>1 DEF Push
  <2>3. PAt({"copy"}) = {}
    BY <1>1, Alone DEF Push, InPush
  <2> QED
    BY <2>2, <2>3
<1>2. CASE PushCopy(p)
  <2>1. part[p] # None /\ UNCHANGED pos /\ slot' = [slot EXCEPT ![pos] = part[p]]
    BY <1>2 DEF PushCopy
  <2> QED
    BY <2>1
<1>3. CASE UNCHANGED <<pos, slot>> /\ ppc[p] # "copy"
  <2>1. PAt({"copy"}) \subseteq PAt({"copy"})'
    BY <1>3 DEF ProducerStep, NextSegment, NoSegmentLeft, FetchFails, Fetched, PWaitSpaces,
                PLock, Push, PushCopy, PUnlock, PPostItems
  <2> QED
    BY <1>3, <2>1
<1> QED
  BY <1>1, <1>2, <1>3
     DEF ProducerStep, NextSegment, NoSegmentLeft, FetchFails, Fetched, PWaitSpaces,
         PLock, PUnlock, PPostItems, stack_vars

LEMMA ConsumerHoles ==
  ASSUME IInv, NEW c \in Consumer, ConsumerStep(c)
  PROVE  NoHole'
<1> USE DEF IInv, TypeOK, NoHole, PAt
<1>1. UNCHANGED ppc
  BY DEF ConsumerStep, AllReserved, Reserve, CWaitItems, CLock, Pop, PopDrop, CUnlock,
         CPostSpaces, Store, Crash
<1>2. CASE PopDrop(c)
  BY <1>1, <1>2 DEF PopDrop
<1>3. CASE UNCHANGED <<pos, slot>>
  BY <1>1, <1>3
<1> QED
  BY <1>2, <1>3
     DEF ConsumerStep, AllReserved, Reserve, CWaitItems, CLock, Pop, CUnlock,
         CPostSpaces, Store, Crash, stack_vars
-----------------------------------------------------------------------------
(***************************************************************************)
(* The parent's steps: no process it forks or reaps is at work.            *)
(***************************************************************************)
LEMMA MainStep ==
  ASSUME IInv, Main
  PROVE  IInv'
<1>0. /\ UNCHANGED <<sem_spaces, sem_items, stack_vars, png_array, counters, part, got>>
      /\ UNCHANGED fetch_failures
  BY DEF Main, ForkProducer, ForkConsumer, MainGoto, ProducersForked, ConsumersForked,
         ForkFails, Reap, ReapNone, AllWaited, WriteImage, AbortOnHole
<1>1. \/ UNCHANGED ppc
      \/ \E p \in Producer : PGoto(p, "unborn", "next") \/ PGoto(p, "exited", "reaped")
  BY DEF Main, ForkProducer, ForkConsumer, MainGoto, ProducersForked, ConsumersForked,
         ForkFails, Reap, ReapNone, AllWaited, WriteImage, AbortOnHole
<1>2. \/ UNCHANGED cpc
      \/ \E c \in Consumer : \/ CGoto(c, "unborn", "check") \/ CGoto(c, "exited", "reaped")
                             \/ CGoto(c, "crashed", "reaped")
  BY DEF Main, ForkProducer, ForkConsumer, MainGoto, ProducersForked, ConsumersForked,
         ForkFails, Reap, ReapNone, AllWaited, WriteImage, AbortOnHole
<1>3. UNCHANGED <<Pushing, Pushed, InPush, PAt({"copy"})>>
  BY <1>1 DEF Pushing, Pushed, InPush, PAt, PGoto, IInv, TypeOK
<1>4. UNCHANGED <<Popping, ToPop, InPop>>
  BY <1>2 DEF Popping, ToPop, InPop, CAt, CGoto, IInv, TypeOK
<1>5. SemaphoreBalance' /\ StackExclusive' /\ NoHole'
  BY <1>0, <1>3, <1>4 DEF IInv, SemaphoreBalance, StackExclusive, NoHole, stack_vars
<1>6. /\ ppc' \in [Producer -> ProducerPC]
      /\ \A p \in Producer :
           part'[p] # None <=> ppc'[p] \notin {"unborn", "next", "exited", "reaped"}
  BY <1>0, <1>1 DEF IInv, TypeOK, PGoto, ProducerPC
<1>7. /\ cpc' \in [Consumer -> ConsumerPC]
      /\ \A c \in Consumer :
           got'[c] # None <=> cpc'[c] \in {"drop", "unlock", "spaces", "store"}
  BY <1>0, <1>2 DEF IInv, TypeOK, CGoto, ConsumerPC
<1>8. main' \in {"producers", "consumers", "wait", "collect", "written", "aborted"}
  BY DEF IInv, TypeOK, Main, main_vars, ForkProducer, ForkConsumer, MainGoto, ProducersForked,
         ConsumersForked, ForkFails, Reap, ReapNone, AllWaited, WriteImage, AbortOnHole
<1>9. waited' = waited \/ (waited < Children /\ waited' = waited + 1)
  BY DEF Main, main_vars, ForkProducer, ForkConsumer, MainGoto, ProducersForked,
         ConsumersForked, ForkFails, Reap, ReapNone, AllWaited, WriteImage, AbortOnHole
<1>10. \/ fork_failures' = fork_failures
       \/ fork_failures < MaxForkFailures /\ fork_failures' = fork_failures + 1
  BY DEF Main, main_vars, ForkProducer, ForkConsumer, MainGoto, ProducersForked,
         ConsumersForked, ForkFails, Reap, ReapNone, AllWaited, WriteImage, AbortOnHole
<1>11. waited' \in 0 .. Children /\ fork_failures' \in 0 .. MaxForkFailures
  BY <1>9, <1>10, Counts, Paster2Assumption DEF IInv, TypeOK
<1>12. TypeOK'
  BY <1>0, <1>6, <1>7, <1>8, <1>11 DEF IInv, TypeOK, stack_vars, counters
<1> QED
  BY <1>5, <1>12 DEF IInv

LEMMA NextInv == IInv /\ [Next]_vars => IInv'
<1> SUFFICES ASSUME IInv, [Next]_vars PROVE IInv'
  OBVIOUS
<1>1. CASE \E p \in Producer : ProducerStep(p)
  BY <1>1, ProducerBalances, ProducerTypes, ProducerHoles DEF IInv
<1>2. CASE \E c \in Consumer : ConsumerStep(c)
  BY <1>2, ConsumerBalances, ConsumerTypes, ConsumerHoles DEF IInv
<1>3. CASE Main
  BY <1>3, MainStep
<1>4. CASE UNCHANGED vars
  <2>1. UNCHANGED <<Pushing, Pushed, InPush, Popping, ToPop, InPop, PAt({"copy"})>>
    BY <1>4 DEF vars, Pushing, Pushed, InPush, Popping, ToPop, InPop, PAt, CAt
  <2> QED
    BY <1>4, <2>1 DEF vars, IInv, TypeOK, SemaphoreBalance, StackExclusive, NoHole,
                      stack_vars, counters, main_vars
<1> QED
  BY <1>1, <1>2, <1>3, <1>4 DEF Next, Finished

LEMMA Invariant == Spec => []IInv
  BY InitInv, NextInv, PTL DEF Spec
-----------------------------------------------------------------------------
\* Every variable has its type: the semaphores stay within the stack's
\* capacity and the stack pointer within its array.
THEOREM TypeCorrect == Spec => []TypeOK
  BY Invariant, PTL DEF IInv

\* The two counting semaphores account for every place of the stack at every
\* step of every process.
THEOREM Balanced == Spec => []SemaphoreBalance
  BY Invariant, PTL DEF IInv

\* sem_stack_mutex keeps all the processes but one off the stack.
THEOREM Exclusive == Spec => []StackExclusive
  BY Invariant, PTL DEF IInv

\* push never finds the stack full and pop never finds it empty, so the return
\* values their callers ignore are always 0.
THEOREM PushPopSucceed == Spec => []NeverRefused
<1>1. IInv => NeverRefused
  BY Refusals DEF IInv
<1> QED
  BY <1>1, Invariant, PTL
-----------------------------------------------------------------------------
(***************************************************************************)
(* Second part: Paster2 implements Pipeline, and collects every part that  *)
(* can be decoded.                                                         *)
(***************************************************************************)

(***************************************************************************)
(* Where parts are: with a producer, on the stack up to Top, or with a     *)
(* consumer.  No part is in two places, nor twice in one, nor in the array *)
(* before it has left them.                                                *)
(***************************************************************************)
Carrying == PAt({"fetch", "spaces", "lock", "push", "copy"})
Keeping  == CAt({"drop", "unlock", "spaces", "store"})

Unsettled == PAt({"copy"}) # {} \/ CAt({"drop"}) # {}

Top == IF Unsettled THEN pos - 1 ELSE pos

Distinct ==
  /\ \A p, q \in Carrying : part[p] = part[q] => p = q
  /\ \A j, k \in 0 .. Top : slot[j] = slot[k] => j = k
  /\ \A c, d \in Keeping : got[c] = got[d] => c = d

Apart ==
  /\ Assigned \cap Stacked = {} /\ Assigned \cap Taken = {} /\ Stacked \cap Taken = {}
  /\ \A i \in Assigned \cup Stacked \cup Taken :
       i \in Part /\ i < png_count /\ png_array[i] = None
  /\ \A i \in Part : png_array[i] # None => png_array[i] = i /\ i < png_count

Places == Distinct /\ Apart

(***************************************************************************)
(* What is counted: the parts that have been announced and not reserved,   *)
(* the consumers that have gone, and the children that were waited for.    *)
(***************************************************************************)
Lost == {i \in Part : PartStatus(i) = "lost"}

Loaded == PAt({"fetch", "spaces", "lock", "push", "copy", "unlock", "items"})

Announced ==
  png_count + Cardinality(CAt({"items"})) = sem_items + downloaded_count + Cardinality(Loaded)

AllTaken == PAt({"exited", "reaped"}) # {} => png_count = NUM_SEGMENTS

Registered ==
  Cardinality(CAt(ConsumerPC \ {"exited", "crashed", "reaped"})) <= num_consumers

AllReservedOrDead ==
  \/ downloaded_count = NUM_SEGMENTS
  \/ CAt({"exited"}) = {} /\ Cardinality(CAt({"crashed", "reaped"})) <= Cardinality(Lost)

WaitedFor ==
  /\ \/ waited = Cardinality(PAt({"reaped"})) + Cardinality(CAt({"reaped"}))
     \/ Gone /\ main \notin {"producers", "consumers"}
  /\ main \in {"collect", "written", "aborted"} => Gone

Ledger ==
  /\ Lost \subseteq Bad
  /\ Announced /\ AllTaken /\ Registered /\ AllReservedOrDead /\ WaitedFor
-----------------------------------------------------------------------------
(***************************************************************************)
(* What a step does to the places of the parts.                            *)
(***************************************************************************)
NothingMoves == UNCHANGED <<Assigned, Stacked, Taken, png_array, png_count>>

Assigns(x) ==
  /\ x = png_count /\ x \in Part
  /\ Assigned' = Assigned \cup {x} /\ png_count' = x + 1
  /\ UNCHANGED <<Stacked, Taken, png_array>>

Deposits(x) ==
  /\ x \in Assigned
  /\ Assigned' = Assigned \ {x} /\ Stacked' = Stacked \cup {x}
  /\ UNCHANGED <<Taken, png_array, png_count>>

Takes(x) ==
  /\ x \in Stacked
  /\ Stacked' = Stacked \ {x} /\ Taken' = Taken \cup {x}
  /\ UNCHANGED <<Assigned, png_array, png_count>>

Keeps(x) ==
  /\ x \in Taken
  /\ Taken' = Taken \ {x} /\ png_array' = [png_array EXCEPT ![x] = x]
  /\ UNCHANGED <<Assigned, Stacked, png_count>>

Loses(x) ==
  /\ x \in Taken /\ x \in Bad
  /\ Taken' = Taken \ {x}
  /\ UNCHANGED <<Assigned, Stacked, png_array, png_count>>

Becomes(x, s) == \A i \in Part : PartStatus(i)' = IF i = x THEN s ELSE PartStatus(i)

\* A part that is in one place has the status of that place.
LEMMA StatusIs ==
  ASSUME TypeOK, Apart, NEW i \in Part
  PROVE  /\ PartStatus(i) = "todo" <=> i >= png_count
         /\ PartStatus(i) = "assigned" <=> i \in Assigned
         /\ PartStatus(i) = "buffered" <=> i \in Stacked
         /\ PartStatus(i) = "taken" <=> i \in Taken
         /\ PartStatus(i) = "stored" <=> png_array[i] # None
         /\ PartStatus(i) = "lost" <=>
              /\ i < png_count /\ png_array[i] = None
              /\ i \notin Assigned \cup Stacked \cup Taken
<1> USE Paster2Assumption DEF Part
<1>1. i \in Int /\ png_count \in Int /\ i # None
  BY DEF TypeOK
<1> QED
  BY <1>1 DEF Apart, PartStatus

LEMMA MoveStatus ==
  ASSUME TypeOK, Apart, NEW x
  PROVE  /\ NothingMoves => Apart' /\ \A i \in Part : PartStatus(i)' = PartStatus(i)
         /\ Assigns(x)  => Apart' /\ PartStatus(x) = "todo" /\ Becomes(x, "assigned")
         /\ Deposits(x) => Apart' /\ PartStatus(x) = "assigned" /\ Becomes(x, "buffered")
         /\ Takes(x)    => Apart' /\ PartStatus(x) = "buffered" /\ Becomes(x, "taken")
         /\ Keeps(x)    => Apart' /\ PartStatus(x) = "taken" /\ Becomes(x, "stored")
         /\ Loses(x)    => Apart' /\ PartStatus(x) = "taken" /\ Becomes(x, "lost")
<1>0. /\ Part \subseteq Int /\ png_count \in Int /\ None \notin Part
      /\ png_array \in [Part -> Part \cup {None}]
  BY Paster2Assumption DEF TypeOK, Part
<1>1. ASSUME NothingMoves PROVE Apart' /\ \A i \in Part : PartStatus(i)' = PartStatus(i)
  BY <1>0, <1>1 DEF NothingMoves, Apart, PartStatus
<1>2. ASSUME Assigns(x) PROVE Apart' /\ PartStatus(x) = "todo" /\ Becomes(x, "assigned")
  <2>0. /\ x \in Part /\ x \in Int /\ x = png_count /\ x >= png_count /\ png_count' = x + 1
        /\ \A i \in Int : i < png_count => i < png_count' /\ i # x
        /\ x < png_count' /\ ~ (x < png_count)
    BY <1>0, <1>2 DEF Assigns
  <2>1. Apart'
    <3>1. png_array[x] = None /\ x \notin Assigned \cup Stacked \cup Taken
      BY <2>0 DEF Apart
    <3> QED
      BY <1>0, <1>2, <2>0, <3>1 DEF Assigns, Apart
  <2>2. PartStatus(x) = "todo"
    BY <2>0, StatusIs
  <2>3. Becomes(x, "assigned")
    BY <1>0, <1>2 DEF Assigns, Apart, PartStatus, Becomes
  <2> QED
    BY <2>1, <2>2, <2>3
<1>3. ASSUME Deposits(x) PROVE Apart' /\ PartStatus(x) = "assigned" /\ Becomes(x, "buffered")
  <2>1. Apart'
    BY <1>0, <1>3 DEF Deposits, Apart
  <2>2. PartStatus(x) = "assigned"
    BY <1>0, <1>3 DEF Deposits, PartStatus, Apart
  <2>3. Becomes(x, "buffered")
    BY <1>0, <1>3 DEF Deposits, Apart, PartStatus, Becomes
  <2> QED
    BY <2>1, <2>2, <2>3
<1>4. ASSUME Takes(x) PROVE Apart' /\ PartStatus(x) = "buffered" /\ Becomes(x, "taken")
  <2>1. Apart'
    BY <1>0, <1>4 DEF Takes, Apart
  <2>2. PartStatus(x) = "buffered"
    BY <1>0, <1>4 DEF Takes, PartStatus, Apart
  <2>3. Becomes(x, "taken")
    BY <1>0, <1>4 DEF Takes, Apart, PartStatus, Becomes
  <2> QED
    BY <2>1, <2>2, <2>3
<1>5. ASSUME Keeps(x) PROVE Apart' /\ PartStatus(x) = "taken" /\ Becomes(x, "stored")
  <2>1. Apart'
    BY <1>0, <1>5 DEF Keeps, Apart
  <2>2. PartStatus(x) = "taken"
    BY <1>0, <1>5 DEF Keeps, PartStatus, Apart
  <2>3. Becomes(x, "stored")
    BY <1>0, <1>5 DEF Keeps, Apart, PartStatus, Becomes
  <2> QED
    BY <2>1, <2>2, <2>3
<1>6. ASSUME Loses(x) PROVE Apart' /\ PartStatus(x) = "taken" /\ Becomes(x, "lost")
  <2>1. Apart'
    BY <1>0, <1>6 DEF Loses, Apart
  <2>2. PartStatus(x) = "taken"
    BY <1>0, <1>6 DEF Loses, PartStatus, Apart
  <2>3. Becomes(x, "lost")
    BY <1>0, <1>6 DEF Loses, Apart, PartStatus, Becomes
  <2> QED
    BY <2>1, <2>2, <2>3
<1> QED
  BY <1>1, <1>2, <1>3, <1>4, <1>5, <1>6
-----------------------------------------------------------------------------
(***************************************************************************)
(* Which actions move a part, and where to.                                *)
(***************************************************************************)
LEMMA PlacesAre ==
  /\ Assigned = {part[p] : p \in Carrying} /\ Assigned' = {part'[p] : p \in Carrying'}
  /\ Stacked = {slot[k] : k \in 0 .. Top} /\ Stacked' = {slot'[k] : k \in 0 .. Top'}
  /\ Taken = {got[c] : c \in Keeping} /\ Taken' = {got'[c] : c \in Keeping'}
  BY DEF Assigned, Carrying, Stacked, Top, Unsettled, Taken, Keeping

LEMMA AtRest ==
  ASSUME Distinct, UNCHANGED <<Carrying, Keeping, Top, png_array, png_count>>,
         \A p \in Carrying : part'[p] = part[p],
         \A k \in 0 .. Top : slot'[k] = slot[k],
         \A c \in Keeping : got'[c] = got[c]
  PROVE  NothingMoves /\ Distinct'
<1>1. Assigned' = Assigned /\ Stacked' = Stacked /\ Taken' = Taken
  BY PlacesAre
<1>2. NothingMoves
  BY <1>1 DEF NothingMoves
<1>3. Distinct'
  BY DEF Distinct
<1> QED
  BY <1>2, <1>3

LEMMA TopIs ==
  ASSUME IInv
  PROVE  /\ pos \in Int /\ Top \in Int /\ Top <= pos /\ pos <= B - 1
         /\ PAt({"copy"}) = {} /\ CAt({"drop"}) = {} => Top = pos
         /\ \A p \in Producer :
              /\ ppc[p] = "push" => PAt({"copy"}) = {} /\ CAt({"drop"}) = {}
              /\ ppc[p] = "copy" =>
                   Top = pos - 1 /\ pos >= 0 /\ PAt({"copy"}) = {p} /\ CAt({"drop"}) = {}
         /\ \A c \in Consumer :
              /\ cpc[c] = "pop" => PAt({"copy"}) = {} /\ CAt({"drop"}) = {}
              /\ cpc[c] = "drop" =>
                   Top = pos - 1 /\ pos >= 0 /\ PAt({"copy"}) = {} /\ CAt({"drop"}) = {c}
<1>1. pos \in Int /\ pos <= B - 1 /\ Top \in Int /\ Top <= pos
  BY Paster2Assumption DEF IInv, TypeOK, Top
<1>2. PAt({"copy"}) \in SUBSET InPush /\ CAt({"drop"}) \in SUBSET InPop
  BY DEF InPush, InPop, PAt, CAt
<1>3. /\ \A p, q \in InPush : p = q
      /\ \A c, d \in InPop : c = d
      /\ InPush = {} \/ InPop = {}
  BY Alone DEF IInv
<1>4. ASSUME NEW p \in Producer, ppc[p] = "push"
      PROVE  PAt({"copy"}) = {} /\ CAt({"drop"}) = {}
  BY <1>2, <1>3, <1>4 DEF InPush, PAt
<1>5. ASSUME NEW p \in Producer, ppc[p] = "copy"
      PROVE  Top = pos - 1 /\ pos >= 0 /\ PAt({"copy"}) = {p} /\ CAt({"drop"}) = {}
  <2>1. p \in InPush /\ p \in PAt({"copy"}) /\ p \in Pushed
    BY <1>5 DEF InPush, PAt, Pushed
  <2>2. PAt({"copy"}) = {p} /\ CAt({"drop"}) = {}
    BY <1>2, <1>3, <2>1
  <2>3. Cardinality(Pushed) \in Nat \ {0}
    BY <2>1, SomeAt, CountNat, Paster2Assumption DEF Pushed, PAt
  <2>4. pos >= 0
    BY <1>1, <2>3, Counts, Paster2Assumption DEF IInv, SemaphoreBalance, TypeOK
  <2> QED
    BY <2>1, <2>2, <2>4 DEF Top, Unsettled
<1>6. ASSUME NEW c \in Consumer, cpc[c] = "pop"
      PROVE  PAt({"copy"}) = {} /\ CAt({"drop"}) = {}
  BY <1>2, <1>3, <1>6 DEF InPop, CAt
<1>7. ASSUME NEW c \in Consumer, cpc[c] = "drop"
      PROVE  Top = pos - 1 /\ pos >= 0 /\ PAt({"copy"}) = {} /\ CAt({"drop"}) = {c}
  <2>1. c \in InPop /\ c \in CAt({"drop"}) /\ c \in ToPop
    BY <1>7 DEF InPop, CAt, ToPop
  <2>2. PAt({"copy"}) = {} /\ CAt({"drop"}) = {c}
    BY <1>2, <1>3, <2>1
  <2>3. Cardinality(ToPop) \in Nat \ {0}
    BY <2>1, SomeAt, CountNat, Paster2Assumption DEF ToPop, CAt
  <2>4. pos >= 0
    BY <1>1, <2>3, Counts, Paster2Assumption DEF IInv, SemaphoreBalance, TypeOK
  <2> QED
    BY <2>1, <2>2, <2>4 DEF Top, Unsettled
<1>8. PAt({"copy"}) = {} /\ CAt({"drop"}) = {} => Top = pos
  BY DEF Top, Unsettled
<1> QED
  BY <1>1, <1>4, <1>5, <1>6, <1>7, <1>8

LEMMA NextSegmentMoves ==
  ASSUME IInv, Places, NEW p \in Producer, NextSegment(p)
  PROVE  Assigns(png_count) /\ Distinct'
<1> DEFINE x == png_count
<1>0. /\ ppc \in [Producer -> ProducerPC] /\ part \in [Producer -> Part \cup {None}]
      /\ x \in Part /\ x \notin Assigned /\ png_count' = x + 1
  BY Paster2Assumption DEF NextSegment, IInv, TypeOK, Part, Places, Apart
<1>1. ppc[p] = "next" /\ ppc' = [ppc EXCEPT ![p] = "fetch"] /\ part' = [part EXCEPT ![p] = x]
      /\ UNCHANGED <<pos, slot, cpc, got, png_array>>
  BY DEF NextSegment, PGoto, stack_vars
<1>2. p \notin Carrying /\ Carrying' = Carrying \cup {p}
  BY <1>0, <1>1 DEF Carrying, PAt
<1>3. PAt({"copy"})' = PAt({"copy"}) /\ UNCHANGED <<CAt({"drop"}), Keeping>>
  BY <1>0, <1>1 DEF PAt, CAt, Keeping
<1>4. UNCHANGED Top
  BY <1>1, <1>3 DEF Top, Unsettled
<1>5. part'[p] = x /\ Carrying \in SUBSET Producer /\ \A q \in Carrying : part'[q] = part[q]
  BY <1>0, <1>1, <1>2 DEF Carrying, PAt
<1>6. Assigned' = Assigned \cup {x}
  BY <1>2, <1>5, PlacesAre
<1>7. Stacked' = Stacked /\ Taken' = Taken
  BY <1>1, <1>3, <1>4, PlacesAre
<1>8. Distinct'
  <2>1. \A q \in Carrying : part[q] # x
    BY <1>0, PlacesAre
  <2> QED
    BY <1>1, <1>2, <1>3, <1>4, <1>5, <2>1 DEF Places, Distinct
<1> QED
  BY <1>0, <1>1, <1>6, <1>7, <1>8 DEF Assigns

LEMMA PushCopyMoves ==
  ASSUME IInv, Places, NEW p \in Producer, PushCopy(p)
  PROVE  Deposits(part[p]) /\ Distinct'
<1> DEFINE x == part[p]
<1>1. ppc[p] = "copy" /\ ppc' = [ppc EXCEPT ![p] = "unlock"] /\ slot' = [slot EXCEPT ![pos] = x]
      /\ UNCHANGED <<pos, part, cpc, got, png_array, png_count>>
  BY DEF PushCopy, PGoto, stack_vars, counters
<1>2. /\ ppc \in [Producer -> ProducerPC] /\ slot \in [0 .. B - 1 -> Part \cup {None}]
  BY DEF IInv, TypeOK
<1>3. p \in Carrying /\ Carrying' = Carrying \ {p} /\ UNCHANGED Keeping
  BY <1>1, <1>2 DEF Carrying, Keeping, PAt, CAt
<1>4. Top = pos - 1 /\ pos \in 0 .. B - 1 /\ PAt({"copy"}) = {p} /\ CAt({"drop"}) = {}
  BY <1>1, TopIs, Paster2Assumption DEF IInv, TypeOK
<1>5. PAt({"copy"})' = {} /\ CAt({"drop"})' = {}
  BY <1>1, <1>2, <1>4 DEF PAt, CAt
<1>6. Top' = pos /\ 0 .. Top' = (0 .. Top) \cup {pos} /\ pos \notin 0 .. Top
  BY <1>1, <1>4, <1>5 DEF Top, Unsettled
<1>7. slot'[pos] = x /\ \A k \in 0 .. Top : slot'[k] = slot[k]
  BY <1>1, <1>2, <1>4
<1>8. x \in Assigned /\ Assigned' = Assigned \ {x}
  <2>1. \A q \in Carrying : part[q] = x <=> q = p
    BY <1>3 DEF Places, Distinct
  <2> QED
    BY <1>1, <1>3, <2>1, PlacesAre
<1>9. Stacked' = Stacked \cup {x} /\ Taken' = Taken
  BY <1>1, <1>3, <1>6, <1>7, PlacesAre
<1>10. Distinct'
  <2>1. \A k \in 0 .. Top : slot[k] # x
    BY <1>8, PlacesAre DEF Places, Apart
  <2>2. (\A j, k \in 0 .. Top : slot[j] = slot[k] => j = k)'
    BY <1>6, <1>7, <2>1 DEF Places, Distinct
  <2> QED
    BY <1>1, <1>3, <2>2 DEF Places, Distinct
<1> QED
  BY <1>1, <1>8, <1>9, <1>10 DEF Deposits

LEMMA ProducerPlaces ==
  ASSUME IInv, Places, NEW p \in Producer, ProducerStep(p)
  PROVE  /\ Distinct'
         /\ \/ NextSegment(p) /\ Assigns(png_count)
            \/ PushCopy(p) /\ Deposits(part[p])
            \/ NothingMoves
<1>1. CASE NextSegment(p)
  BY <1>1, NextSegmentMoves
<1>2. CASE PushCopy(p)
  BY <1>2, PushCopyMoves
<1>0. ppc \in [Producer -> ProducerPC] /\ part \in [Producer -> Part \cup {None}] /\ Distinct
  BY DEF IInv, TypeOK, Places
<1>3. CASE Push(p)
  <2>1. pos # B - 1
    BY <1>3, TopIs, Refusals, Paster2Assumption DEF Push, PGoto, NeverRefused, IInv
  <2>2. ppc[p] = "push" /\ ppc' = [ppc EXCEPT ![p] = "copy"] /\ pos' = pos + 1
        /\ UNCHANGED <<slot, part, cpc, got, png_array, png_count>>
    BY <1>3, <2>1 DEF Push, PGoto, counters
  <2>3. UNCHANGED Carrying /\ UNCHANGED Keeping /\ p \in PAt({"copy"})'
    BY <1>0, <2>2 DEF Carrying, Keeping, PAt, CAt
  <2>4. pos \in Int /\ Top = pos /\ Top' = pos' - 1
    BY <2>2, <2>3, TopIs DEF Top, Unsettled
  <2>5. Top' = Top
    BY <2>2, <2>4
  <2> QED
    BY <1>0, <2>2, <2>3, <2>5, AtRest
<1>4. CASE /\ UNCHANGED <<pos, slot, cpc, got, png_array, png_count>>
           /\ UNCHANGED Carrying /\ UNCHANGED PAt({"copy"})
           /\ \A q \in Carrying : part'[q] = part[q]
  <2>1. UNCHANGED Keeping /\ UNCHANGED Top
    BY <1>4 DEF Keeping, CAt, Top, Unsettled
  <2> QED
    BY <1>0, <1>4, <2>1, AtRest
<1>5. CASE NoSegmentLeft(p)
  BY <1>0, <1>4, <1>5 DEF NoSegmentLeft, PGoto, Carrying, PAt, stack_vars, counters
<1>6. CASE FetchFails(p)
  BY <1>0, <1>4, <1>6 DEF FetchFails, Carrying, PAt, stack_vars, counters
<1>7. CASE Fetched(p)
  BY <1>0, <1>4, <1>7 DEF Fetched, PGoto, Carrying, PAt, stack_vars, counters
<1>8. CASE PWaitSpaces(p)
  BY <1>0, <1>4, <1>8 DEF PWaitSpaces, PGoto, Carrying, PAt, stack_vars, counters
<1>9. CASE PLock(p)
  BY <1>0, <1>4, <1>9 DEF PLock, PGoto, Carrying, PAt, counters
<1>10. CASE PUnlock(p)
  BY <1>0, <1>4, <1>10 DEF PUnlock, PGoto, Carrying, PAt, counters
<1>11. CASE PPostItems(p)
  BY <1>0, <1>4, <1>11 DEF PPostItems, PGoto, Carrying, PAt, stack_vars, counters
<1> QED
  BY <1>1, <1>2, <1>3, <1>5, <1>6, <1>7, <1>8, <1>9, <1>10, <1>11 DEF ProducerStep

LEMMA PopMoves ==
  ASSUME IInv, Places, NEW c \in Consumer, Pop(c)
  PROVE  Takes(slot[pos]) /\ Distinct'
<1> DEFINE x == slot[pos]
<1>1. cpc[c] = "pop" /\ pos \in 0 .. B - 1 /\ x \in Part
  BY TopIsThere DEF Pop, CGoto
<1>2. cpc' = [cpc EXCEPT ![c] = "drop"] /\ got' = [got EXCEPT ![c] = x]
      /\ UNCHANGED <<pos, slot, ppc, part, png_array, png_count>>
  <2>1. pos # -1
    BY <1>1
  <2> QED
    BY <2>1 DEF Pop, CGoto, stack_vars, counters
<1>3. cpc \in [Consumer -> ConsumerPC] /\ got \in [Consumer -> Part \cup {None}]
  BY DEF IInv, TypeOK
<1>4. UNCHANGED Carrying /\ c \notin Keeping /\ Keeping' = Keeping \cup {c}
  BY <1>1, <1>2, <1>3 DEF Carrying, Keeping, PAt, CAt
<1>5. got'[c] = x /\ \A d \in Keeping : got'[d] = got[d]
  BY <1>2, <1>3, <1>4 DEF Keeping, CAt
<1>6. Top = pos
  BY <1>1, TopIs
<1>7. Top' = pos - 1
  <2>1. c \in CAt({"drop"})'
    BY <1>2, <1>3 DEF CAt
  <2> QED
    BY <1>2, <2>1 DEF Top, Unsettled
<1>8. 0 .. Top = (0 .. Top') \cup {pos} /\ pos \notin 0 .. Top'
  BY <1>1, <1>6, <1>7
<1>9. \A k \in 0 .. Top' : slot[k] # x
  BY <1>8 DEF Places, Distinct
<1>10. x \in Stacked /\ Stacked' = Stacked \ {x}
  BY <1>2, <1>8, <1>9, PlacesAre
<1>11. Assigned' = Assigned /\ Taken' = Taken \cup {x}
  BY <1>2, <1>4, <1>5, PlacesAre
<1>12. Distinct'
  <2>1. \A d \in Keeping : got[d] # x
    BY <1>10, PlacesAre DEF Places, Apart
  <2>2. (\A d, e \in Keeping : got[d] = got[e] => d = e)'
    BY <1>4, <1>5, <2>1 DEF Places, Distinct
  <2>3. (\A j, k \in 0 .. Top : slot[j] = slot[k] => j = k)'
    BY <1>2, <1>8 DEF Places, Distinct
  <2> QED
    BY <1>2, <1>4, <2>2, <2>3 DEF Places, Distinct
<1> QED
  BY <1>2, <1>10, <1>11, <1>12 DEF Takes

\* The part a consumer is done with.
LEMMA LetsGo ==
  ASSUME IInv, Places, NEW c \in Consumer, NEW to, to \notin {"drop", "unlock", "spaces", "store"},
         CGoto(c, "store", to), got' = [got EXCEPT ![c] = None],
         UNCHANGED <<ppc, part, pos, slot>>
  PROVE  /\ got[c] \in Taken /\ Taken' = Taken \ {got[c]}
         /\ UNCHANGED <<Assigned, Stacked>>
         /\ Distinct'
<1>1. /\ cpc \in [Consumer -> ConsumerPC] /\ got \in [Consumer -> Part \cup {None}]
      /\ cpc[c] = "store" /\ cpc' = [cpc EXCEPT ![c] = to]
  BY DEF IInv, TypeOK, CGoto
<1>2. UNCHANGED Carrying /\ c \in Keeping /\ Keeping' = Keeping \ {c}
      /\ UNCHANGED PAt({"copy"}) /\ UNCHANGED CAt({"drop"})
  BY <1>1 DEF Carrying, Keeping, PAt, CAt
<1>3. \A d \in Keeping' : got'[d] = got[d]
  BY <1>1, <1>2 DEF Keeping, CAt
<1>4. UNCHANGED Top
  BY <1>2 DEF Top, Unsettled
<1>5. Taken' = Taken \ {got[c]} /\ got[c] \in Taken
  <2>1. \A d \in Keeping : got[d] = got[c] <=> d = c
    BY <1>2 DEF Places, Distinct
  <2> QED
    BY <1>2, <1>3, <2>1, PlacesAre
<1>6. UNCHANGED <<Assigned, Stacked>>
  BY <1>2, <1>4, PlacesAre
<1>7. Distinct'
  BY <1>2, <1>3, <1>4 DEF Places, Distinct
<1> QED
  BY <1>5, <1>6, <1>7

LEMMA ConsumerPlaces ==
  ASSUME IInv, Places, NEW c \in Consumer, ConsumerStep(c)
  PROVE  /\ Distinct'
         /\ \/ Pop(c) /\ Takes(slot[pos])
            \/ Store(c) /\ Keeps(got[c])
            \/ Crash(c) /\ Loses(got[c])
            \/ ~ Crash(c) /\ NothingMoves
<1>0. cpc \in [Consumer -> ConsumerPC] /\ got \in [Consumer -> Part \cup {None}] /\ Distinct
  BY DEF IInv, TypeOK, Places
<1>1. CASE Pop(c)
  BY <1>1, PopMoves
<1>2. CASE Store(c)
  <2>1. CGoto(c, "store", "check") /\ got' = [got EXCEPT ![c] = None]
        /\ UNCHANGED <<ppc, part, pos, slot, png_count>>
        /\ png_array' = [png_array EXCEPT ![got[c]] = got[c]]
    BY <1>2 DEF Store, stack_vars, counters
  <2>2. /\ got[c] \in Taken /\ Taken' = Taken \ {got[c]}
        /\ UNCHANGED <<Assigned, Stacked>> /\ Distinct'
    BY <2>1, LetsGo
  <2> QED
    BY <1>2, <2>1, <2>2 DEF Keeps
<1>3. CASE Crash(c)
  <2>1. CGoto(c, "store", "crashed") /\ got' = [got EXCEPT ![c] = None]
        /\ UNCHANGED <<ppc, part, pos, slot, png_count, png_array>> /\ got[c] \in Bad
    BY <1>3 DEF Crash, stack_vars, counters
  <2>2. /\ got[c] \in Taken /\ Taken' = Taken \ {got[c]}
        /\ UNCHANGED <<Assigned, Stacked>> /\ Distinct'
    BY <2>1, LetsGo
  <2> QED
    BY <1>3, <2>1, <2>2 DEF Loses
<1>4. CASE PopDrop(c)
  <2>1. cpc[c] = "drop" /\ cpc' = [cpc EXCEPT ![c] = "unlock"] /\ pos' = pos - 1
        /\ UNCHANGED <<slot, ppc, part, got, png_array, png_count>>
    BY <1>4 DEF PopDrop, CGoto, counters
  <2>2. UNCHANGED Carrying /\ UNCHANGED Keeping
    BY <1>0, <2>1 DEF Carrying, Keeping, PAt, CAt
  <2>3. Top = pos - 1 /\ PAt({"copy"}) = {} /\ CAt({"drop"}) = {c}
    BY <2>1, TopIs
  <2>4. PAt({"copy"})' = {} /\ CAt({"drop"})' = {}
    BY <1>0, <2>1, <2>3 DEF PAt, CAt
  <2>5. Top' = Top
    BY <2>1, <2>3, <2>4 DEF Top, Unsettled
  <2>6. ~ Crash(c)
    BY <2>1 DEF Crash, CGoto
  <2> QED
    BY <1>0, <2>1, <2>2, <2>5, <2>6, AtRest
<1>5. CASE /\ UNCHANGED <<pos, slot, ppc, part, got, png_array, png_count>>
           /\ UNCHANGED Keeping /\ UNCHANGED CAt({"drop"})
           /\ cpc[c] # "store"
  <2>1. UNCHANGED Carrying /\ UNCHANGED Top
    BY <1>5 DEF Carrying, PAt, Top, Unsettled
  <2>2. ~ Crash(c)
    BY <1>5 DEF Crash, CGoto
  <2> QED
    BY <1>0, <1>5, <2>1, <2>2, AtRest
<1>6. CASE AllReserved(c)
  BY <1>0, <1>5, <1>6 DEF AllReserved, CGoto, Keeping, CAt, stack_vars
<1>7. CASE Reserve(c)
  BY <1>0, <1>5, <1>7 DEF Reserve, CGoto, Keeping, CAt, stack_vars
<1>8. CASE CWaitItems(c)
  BY <1>0, <1>5, <1>8 DEF CWaitItems, CGoto, Keeping, CAt, stack_vars, counters
<1>9. CASE CLock(c)
  BY <1>0, <1>5, <1>9 DEF CLock, CGoto, Keeping, CAt, counters
<1>10. CASE CUnlock(c)
  BY <1>0, <1>5, <1>10 DEF CUnlock, CGoto, Keeping, CAt, counters
<1>11. CASE CPostSpaces(c)
  <2>1. CGoto(c, "spaces", "store")
    BY <1>11 DEF CPostSpaces, CGoto, IInv, TypeOK
  <2> QED
    BY <1>0, <1>5, <1>11, <2>1 DEF CPostSpaces, CGoto, Keeping, CAt, stack_vars, counters
<1> QED
  BY <1>1, <1>2, <1>3, <1>4, <1>6, <1>7, <1>8, <1>9, <1>10, <1>11 DEF ConsumerStep

LEMMA MainPlaces ==
  ASSUME IInv, Places, Main \/ UNCHANGED vars
  PROVE  NothingMoves /\ Distinct'
<1>0. /\ ppc \in [Producer -> ProducerPC] /\ cpc \in [Consumer -> ConsumerPC] /\ Distinct
      /\ UNCHANGED <<pos, slot, png_array, png_count, part, got>>
  BY DEF IInv, TypeOK, Places, vars, stack_vars, counters, Main, ForkProducer, ForkConsumer,
         MainGoto, ProducersForked, ConsumersForked, ForkFails, Reap, ReapNone, AllWaited,
         WriteImage, AbortOnHole
<1>1. \/ UNCHANGED ppc
      \/ \E p \in Producer : PGoto(p, "unborn", "next") \/ PGoto(p, "exited", "reaped")
  BY DEF vars, Main, ForkProducer, ForkConsumer, MainGoto, ProducersForked, ConsumersForked,
         ForkFails, Reap, ReapNone, AllWaited, WriteImage, AbortOnHole
<1>2. \/ UNCHANGED cpc
      \/ \E c \in Consumer : \/ CGoto(c, "unborn", "check") \/ CGoto(c, "exited", "reaped")
                             \/ CGoto(c, "crashed", "reaped")
  BY DEF vars, Main, ForkProducer, ForkConsumer, MainGoto, ProducersForked, ConsumersForked,
         ForkFails, Reap, ReapNone, AllWaited, WriteImage, AbortOnHole
<1>3. UNCHANGED Carrying /\ UNCHANGED PAt({"copy"})
  BY <1>0, <1>1 DEF Carrying, PAt, PGoto
<1>4. UNCHANGED Keeping /\ UNCHANGED CAt({"drop"})
  BY <1>0, <1>2 DEF Keeping, CAt, CGoto
<1>5. UNCHANGED Top
  BY <1>0, <1>3, <1>4 DEF Top, Unsettled
<1> QED
  BY <1>0, <1>3, <1>4, <1>5, AtRest

LEMMA InitPlaces == Init => Places
<1> SUFFICES ASSUME Init PROVE Places
  OBVIOUS
<1>1. Carrying = {} /\ Keeping = {} /\ 0 .. Top = {}
  BY DEF Init, Carrying, Keeping, PAt, CAt, Top, Unsettled
<1>2. Assigned = {} /\ Stacked = {} /\ Taken = {}
  BY <1>1, PlacesAre
<1>3. Distinct
  BY <1>1 DEF Distinct
<1>4. Apart
  BY <1>2 DEF Apart, Init
<1> QED
  BY <1>3, <1>4 DEF Places

LEMMA NextPlaces == IInv /\ Places /\ [Next]_vars => Places'
<1> SUFFICES ASSUME IInv, Places, [Next]_vars PROVE Places'
  OBVIOUS
<1> USE MoveStatus DEF Places, IInv
<1>1. CASE \E p \in Producer : ProducerStep(p)
  BY <1>1, ProducerPlaces
<1>2. CASE \E c \in Consumer : ConsumerStep(c)
  BY <1>2, ConsumerPlaces
<1>3. CASE Main \/ UNCHANGED vars
  BY <1>3, MainPlaces
<1> QED
  BY <1>1, <1>2, <1>3 DEF Next, Finished
-----------------------------------------------------------------------------
(***************************************************************************)
(* Every step is a step of Pipeline or changes nothing there.              *)
(***************************************************************************)
StatusOf  == [i \in Part |-> PartStatus(i)]
OutcomeOf == IF main \in {"written", "aborted"} THEN main ELSE "running"

\* Pipeline counts as FiniteSets does.
LEMMA SameCount ==
  ASSUME NEW S
  PROVE  PipelineOf!Cardinality(S) = Cardinality(S)
  BY Zenon DEF PipelineOf!Cardinality, Cardinality, PipelineOf!IsFiniteSet, IsFiniteSet

LEMMA BecomesMove ==
  ASSUME NEW x \in Part, NEW s, Becomes(x, s)
  PROVE  StatusOf' = [StatusOf EXCEPT ![x] = s]
<1>1. StatusOf' = [i \in Part |-> PartStatus(i)']
  BY DEF StatusOf
<1> QED
  BY <1>1 DEF StatusOf, Becomes

LEMMA StaysMove ==
  ASSUME \A i \in Part : PartStatus(i)' = PartStatus(i)
  PROVE  StatusOf' = StatusOf
<1>1. StatusOf' = [i \in Part |-> PartStatus(i)']
  BY DEF StatusOf
<1> QED
  BY <1>1 DEF StatusOf

\* While a push is at its copy there is room in the buffer.
LEMMA Room ==
  ASSUME IInv, Places, NEW p \in Producer, ppc[p] = "copy"
  PROVE  Cardinality({i \in Part : StatusOf[i] = "buffered"}) < B
<1>1. Top = pos - 1 /\ pos \in 0 .. B - 1 /\ B \in Nat
  BY TopIs, Paster2Assumption DEF IInv, TypeOK
<1> DEFINE K == 0 .. pos - 1
<1>2. IsFiniteSet(K) /\ Cardinality(K) = pos
  BY <1>1, FS_Interval
<1> DEFINE f == [k \in K |-> slot[k]]
<1>3. f \in Surjection(K, Stacked)
  BY <1>1, PlacesAre DEF Surjection
<1>4. IsFiniteSet(Stacked) /\ Cardinality(Stacked) <= Cardinality(K)
  BY <1>2, <1>3, FS_Surjection
<1>5. {i \in Part : StatusOf[i] = "buffered"} = Stacked
  BY StatusIs DEF StatusOf, Places, Apart, IInv
<1> QED
  <2>1. Cardinality(Stacked) \in Nat /\ Cardinality(Stacked) <= pos
    BY <1>2, <1>4, FS_CardinalityType
  <2> QED
    BY <1>1, <1>5, <2>1

LEMMA ProducerRefines ==
  ASSUME IInv, Places, NEW p \in Producer, ProducerStep(p),
         main \in {"written", "aborted"} => png_count = NUM_SEGMENTS
  PROVE  [PipelineOf!Next]_<<StatusOf, OutcomeOf>>
<1>1. UNCHANGED OutcomeOf
  BY DEF OutcomeOf, ProducerStep, NextSegment, NoSegmentLeft, FetchFails, Fetched, PWaitSpaces,
         PLock, Push, PushCopy, PUnlock, PPostItems, main_vars
<1>2. TypeOK /\ Apart
  BY DEF IInv, Places
<1>3. CASE NextSegment(p) /\ Assigns(png_count)
  <2>1. png_count \in Part /\ png_count # NUM_SEGMENTS
    BY <1>3, <1>2 DEF Assigns, NextSegment, TypeOK
  <2>2. PartStatus(png_count) = "todo" /\ StatusOf' = [StatusOf EXCEPT ![png_count] = "assigned"]
    BY <1>2, <1>3, <2>1, MoveStatus, BecomesMove
  <2>3. OutcomeOf = "running"
    BY <2>1 DEF OutcomeOf
  <2>4. PipelineOf!Move(png_count, "todo", "assigned")
    BY <1>1, <2>1, <2>2 DEF PipelineOf!Move, StatusOf, OutcomeOf
  <2>5. PipelineOf!Assign(png_count)
    BY <2>3, <2>4 DEF PipelineOf!Assign, OutcomeOf
  <2> QED
    BY <2>1, <2>5 DEF PipelineOf!Next
<1>4. CASE PushCopy(p) /\ Deposits(part[p])
  <2>1. part[p] \in Part
    BY <1>2, <1>4 DEF Deposits, Apart
  <2>2. /\ PartStatus(part[p]) = "assigned"
        /\ StatusOf' = [StatusOf EXCEPT ![part[p]] = "buffered"]
    BY <1>2, <1>4, <2>1, MoveStatus, BecomesMove
  <2>3. Cardinality({i \in Part : StatusOf[i] = "buffered"}) < B
    BY <1>4, Room DEF PushCopy, PGoto
  <2>4. PipelineOf!Move(part[p], "assigned", "buffered")
    BY <1>1, <2>1, <2>2 DEF PipelineOf!Move, StatusOf, OutcomeOf
  <2>5. PipelineOf!Cardinality(PipelineOf!In("buffered")) < B
    BY <2>3, SameCount DEF PipelineOf!In, StatusOf
  <2>6. PipelineOf!Deposit(part[p])
    BY <2>4, <2>5 DEF PipelineOf!Deposit
  <2> QED
    BY <2>1, <2>6 DEF PipelineOf!Next
<1>5. CASE NothingMoves
  BY <1>1, <1>2, <1>5, MoveStatus, StaysMove
<1> QED
  BY <1>3, <1>4, <1>5, ProducerPlaces

LEMMA ConsumerRefines ==
  ASSUME IInv, Places, NEW c \in Consumer, ConsumerStep(c)
  PROVE  [PipelineOf!Next]_<<StatusOf, OutcomeOf>>
<1>1. UNCHANGED OutcomeOf
  BY DEF OutcomeOf, ConsumerStep, AllReserved, Reserve, CWaitItems, CLock, Pop, PopDrop, CUnlock,
         CPostSpaces, Store, Crash, main_vars
<1>2. TypeOK /\ Apart
  BY DEF IInv, Places
<1>3. CASE Takes(slot[pos])
  <2>1. slot[pos] \in Part
    BY <1>2, <1>3 DEF Takes, Apart
  <2>2. /\ PartStatus(slot[pos]) = "buffered"
        /\ StatusOf' = [StatusOf EXCEPT ![slot[pos]] = "taken"]
    BY <1>2, <1>3, <2>1, MoveStatus, BecomesMove
  <2> QED
    BY <1>1, <2>1, <2>2
       DEF PipelineOf!Next, PipelineOf!Take, PipelineOf!Move, StatusOf, OutcomeOf
<1>4. CASE Keeps(got[c])
  <2>1. got[c] \in Part
    BY <1>2, <1>4 DEF Keeps, Apart
  <2>2. /\ PartStatus(got[c]) = "taken"
        /\ StatusOf' = [StatusOf EXCEPT ![got[c]] = "stored"]
    BY <1>2, <1>4, <2>1, MoveStatus, BecomesMove
  <2> QED
    BY <1>1, <2>1, <2>2
       DEF PipelineOf!Next, PipelineOf!Keep, PipelineOf!Move, StatusOf, OutcomeOf
<1>5. CASE Loses(got[c])
  <2>1. got[c] \in Part /\ got[c] \in Bad
    BY <1>2, <1>5 DEF Loses, Apart
  <2>2. /\ PartStatus(got[c]) = "taken"
        /\ StatusOf' = [StatusOf EXCEPT ![got[c]] = "lost"]
    BY <1>2, <1>5, <2>1, MoveStatus, BecomesMove
  <2> QED
    BY <1>1, <2>1, <2>2
       DEF PipelineOf!Next, PipelineOf!Lose, PipelineOf!Move, StatusOf, OutcomeOf
<1>6. CASE NothingMoves
  BY <1>1, <1>2, <1>6, MoveStatus, StaysMove
<1> QED
  BY <1>3, <1>4, <1>5, <1>6, ConsumerPlaces

LEMMA MainRefines ==
  ASSUME IInv, Places, Main \/ UNCHANGED vars
  PROVE  [PipelineOf!Next]_<<StatusOf, OutcomeOf>>
<1>1. StatusOf' = StatusOf
  BY MainPlaces, MoveStatus, StaysMove DEF IInv, Places
<1>2. CASE main' = main
  BY <1>1, <1>2 DEF OutcomeOf
<1>3. {i \in Part : StatusOf[i] = "stored"} = Part <=> \A i \in Part : png_array[i] # None
  BY StatusIs DEF StatusOf, IInv, Places
<1>4. CASE WriteImage
  <2>1. OutcomeOf = "running" /\ OutcomeOf' = "written" /\ \A i \in Part : png_array[i] # None
    BY <1>4 DEF WriteImage, MainGoto, OutcomeOf
  <2> QED
    BY <1>1, <1>3, <2>1 DEF PipelineOf!Next, PipelineOf!Conclude, PipelineOf!In, StatusOf, OutcomeOf
<1>5. CASE AbortOnHole
  <2>1. OutcomeOf = "running" /\ OutcomeOf' = "aborted" /\ ~ \A i \in Part : png_array[i] # None
    BY <1>5 DEF AbortOnHole, MainGoto, OutcomeOf
  <2> QED
    BY <1>1, <1>3, <2>1 DEF PipelineOf!Next, PipelineOf!Conclude, PipelineOf!In, StatusOf, OutcomeOf
<1>6. CASE OutcomeOf = "running" /\ OutcomeOf' = "running"
  BY <1>1, <1>6
<1> QED
  BY <1>2, <1>4, <1>5, <1>6
     DEF Main, vars, main_vars, ForkProducer, ForkConsumer, MainGoto, ProducersForked,
         ConsumersForked, ForkFails, Reap, ReapNone, AllWaited, OutcomeOf
-----------------------------------------------------------------------------
(***************************************************************************)
(* The ledger.                                                             *)
(***************************************************************************)
LEMMA Sizes ==
  ASSUME NEW S
  PROVE  /\ Cardinality(PAt(S)) \in Nat /\ Cardinality(PAt(S)') \in Nat
         /\ Cardinality(CAt(S)) \in Nat /\ Cardinality(CAt(S)') \in Nat
<1>1. /\ PAt(S) \in SUBSET Producer /\ PAt(S)' \in SUBSET Producer
      /\ CAt(S) \in SUBSET Consumer /\ CAt(S)' \in SUBSET Consumer
  BY DEF PAt, CAt
<1> QED
  BY <1>1, CountNat, Paster2Assumption

LEMMA PMoves ==
  ASSUME TypeOK, NEW p \in Producer, NEW from, NEW to, PGoto(p, from, to), NEW S
  PROVE  /\ Cardinality(PAt(S)') = Cardinality(PAt(S)) + One(to \in S) - One(from \in S)
         /\ from \notin S /\ to \notin S => PAt(S)' = PAt(S)
         /\ from \in S /\ to \in S => PAt(S)' = PAt(S)
         /\ from \in S => p \in PAt(S)
         /\ UNCHANGED cpc => \A T : UNCHANGED CAt(T)
<1>1. IsFiniteSet(Producer) /\ ppc \in [Producer -> ProducerPC]
      /\ ppc[p] = from /\ ppc' = [ppc EXCEPT ![p] = to]
  BY Paster2Assumption DEF TypeOK, PGoto
<1>2. /\ PAt(S) \in SUBSET Producer /\ PAt(S)' \in SUBSET Producer
      /\ \A q \in Producer \ {p} : q \in PAt(S) <=> q \in PAt(S)'
      /\ p \in PAt(S) <=> from \in S
      /\ p \in PAt(S)' <=> to \in S
  BY <1>1 DEF PAt
<1>3. Cardinality(PAt(S)') = Cardinality(PAt(S)) + One(p \in PAt(S)') - One(p \in PAt(S))
  BY <1>1, <1>2, CountMove
<1> QED
  BY <1>2, <1>3 DEF One, CAt

LEMMA CMoves ==
  ASSUME TypeOK, NEW c \in Consumer, NEW from, NEW to, CGoto(c, from, to), NEW S
  PROVE  /\ Cardinality(CAt(S)') = Cardinality(CAt(S)) + One(to \in S) - One(from \in S)
         /\ from \notin S /\ to \notin S => CAt(S)' = CAt(S)
         /\ from \in S /\ to \in S => CAt(S)' = CAt(S)
         /\ from \in S => c \in CAt(S)
         /\ UNCHANGED ppc => \A T : UNCHANGED PAt(T)
<1>1. IsFiniteSet(Consumer) /\ cpc \in [Consumer -> ConsumerPC]
      /\ cpc[c] = from /\ cpc' = [cpc EXCEPT ![c] = to]
  BY Paster2Assumption DEF TypeOK, CGoto
<1>2. /\ CAt(S) \in SUBSET Consumer /\ CAt(S)' \in SUBSET Consumer
      /\ \A q \in Consumer \ {c} : q \in CAt(S) <=> q \in CAt(S)'
      /\ c \in CAt(S) <=> from \in S
      /\ c \in CAt(S)' <=> to \in S
  BY <1>1 DEF CAt
<1>3. Cardinality(CAt(S)') = Cardinality(CAt(S)) + One(c \in CAt(S)') - One(c \in CAt(S))
  BY <1>1, <1>2, CountMove
<1> QED
  BY <1>2, <1>3 DEF One, PAt

\* A part is lost when a consumer dies of it, and only then.
LEMMA LostStays ==
  ASSUME TypeOK, Apart, NothingMoves
  PROVE  Lost' = Lost
  BY MoveStatus DEF Lost

LEMMA LostMove ==
  ASSUME TypeOK, Apart, NEW x \in Part, NEW s, NEW t, PartStatus(x) = s, s # "lost", Becomes(x, t)
  PROVE  Lost' = IF t = "lost" THEN Lost \cup {x} ELSE Lost
<1>1. Lost' = {i \in Part : PartStatus(i)' = "lost"}
  BY DEF Lost
<1> QED
  BY <1>1 DEF Lost, Becomes

LEMMA ProducerLost ==
  ASSUME IInv, Places, NEW p \in Producer, ProducerStep(p)
  PROVE  Lost' = Lost
<1>1. TypeOK /\ Apart
  BY DEF IInv, Places
<1>2. CASE Assigns(png_count)
  <2>1. png_count \in Part /\ PartStatus(png_count) = "todo" /\ Becomes(png_count, "assigned")
    BY <1>1, <1>2, MoveStatus DEF Assigns
  <2> QED
    BY <1>1, <2>1, LostMove
<1>3. CASE Deposits(part[p])
  <2>1. part[p] \in Part /\ PartStatus(part[p]) = "assigned" /\ Becomes(part[p], "buffered")
    BY <1>1, <1>3, MoveStatus DEF Deposits, Apart
  <2> QED
    BY <1>1, <2>1, LostMove
<1>4. CASE NothingMoves
  BY <1>1, <1>4, LostStays
<1> QED
  BY <1>2, <1>3, <1>4, ProducerPlaces

LEMMA ConsumerLost ==
  ASSUME IInv, Places, NEW c \in Consumer, ConsumerStep(c)
  PROVE  \/ ~ Crash(c) /\ Lost' = Lost
         \/ Crash(c) /\ got[c] \in Bad /\ got[c] \notin Lost /\ Lost' = Lost \cup {got[c]}
<1>1. TypeOK /\ Apart
  BY DEF IInv, Places
<1>2. CASE Pop(c) /\ Takes(slot[pos])
  <2>1. slot[pos] \in Part /\ PartStatus(slot[pos]) = "buffered" /\ Becomes(slot[pos], "taken")
    BY <1>1, <1>2, MoveStatus DEF Takes, Apart
  <2>2. ~ Crash(c)
    BY <1>2 DEF Pop, Crash, CGoto
  <2> QED
    BY <1>1, <2>1, <2>2, LostMove
<1>3. CASE Store(c) /\ Keeps(got[c])
  <2>1. got[c] \in Part /\ PartStatus(got[c]) = "taken" /\ Becomes(got[c], "stored")
    BY <1>1, <1>3, MoveStatus DEF Keeps, Apart
  <2>2. ~ Crash(c)
    BY <1>1, <1>3 DEF Store, Crash, CGoto, TypeOK
  <2> QED
    BY <1>1, <2>1, <2>2, LostMove
<1>4. CASE Crash(c) /\ Loses(got[c])
  <2>1. got[c] \in Part /\ PartStatus(got[c]) = "taken" /\ Becomes(got[c], "lost")
    BY <1>1, <1>4, MoveStatus DEF Loses, Apart
  <2>2. Lost' = Lost \cup {got[c]}
    BY <1>1, <2>1, LostMove
  <2>3. got[c] \notin Lost
    BY <2>1 DEF Lost
  <2> QED
    BY <1>4, <2>2, <2>3 DEF Loses
<1>5. CASE ~ Crash(c) /\ NothingMoves
  BY <1>1, <1>5, LostStays
<1> QED
  BY <1>2, <1>3, <1>4, <1>5, ConsumerPlaces

LEMMA LostFinite ==
  ASSUME Lost \in SUBSET Bad
  PROVE  IsFiniteSet(Bad) /\ IsFiniteSet(Lost) /\ Cardinality(Lost) \in Nat
         /\ Cardinality(Bad) \in Nat /\ Cardinality(Lost) <= Cardinality(Bad)
<1>1. IsFiniteSet(Part) /\ Bad \in SUBSET Part
  BY FS_Interval, Paster2Assumption DEF Part
<1>2. IsFiniteSet(Bad)
  BY <1>1, FS_Subset
<1> QED
  BY <1>2, FS_Subset, FS_CardinalityType

\* A process that takes a step has not been waited for.
LEMMA NotGone ==
  /\ \A p \in Producer : ProducerStep(p) => ~ Gone
  /\ \A c \in Consumer : ConsumerStep(c) => ~ Gone
<1>1. ASSUME NEW p \in Producer, ProducerStep(p) PROVE ~ Gone
  BY <1>1 DEF Gone, PGoto, ProducerStep, NextSegment, NoSegmentLeft, FetchFails, Fetched,
              PWaitSpaces, PLock, Push, PushCopy, PUnlock, PPostItems
<1>2. ASSUME NEW c \in Consumer, ConsumerStep(c) PROVE ~ Gone
  BY <1>2 DEF Gone, CGoto, ConsumerStep, AllReserved, Reserve, CWaitItems, CLock, Pop, PopDrop,
              CUnlock, CPostSpaces, Store, Crash
<1> QED
  BY <1>1, <1>2

LEMMA ProducerLedger ==
  ASSUME IInv, Places, Ledger, NEW p \in Producer, ProducerStep(p)
  PROVE  Ledger'
<1> DEFINE End == {"exited", "reaped"}
           Load == {"fetch", "spaces", "lock", "push", "copy", "unlock", "items"}
<1>0. /\ TypeOK /\ png_count \in 0 .. NUM_SEGMENTS /\ sem_items \in Nat /\ NUM_SEGMENTS \in Nat
      /\ downloaded_count \in Nat /\ Loaded = PAt(Load) /\ Loaded' = PAt(Load)'
  BY Paster2Assumption DEF IInv, TypeOK, Loaded
<1>1. Lost' = Lost /\ ~ Gone
  BY ProducerLost, NotGone
<1>2. UNCHANGED <<cpc, num_consumers, downloaded_count, main, waited>>
  BY DEF ProducerStep, NextSegment, NoSegmentLeft, FetchFails, Fetched, PWaitSpaces,
         PLock, Push, PushCopy, PUnlock, PPostItems, counters, main_vars
<1>3. \A T : UNCHANGED CAt(T)
  BY <1>2 DEF CAt
<1>4. /\ waited = Cardinality(PAt({"reaped"})) + Cardinality(CAt({"reaped"}))
      /\ main \notin {"collect", "written", "aborted"}
      /\ Announced /\ AllTaken
  BY <1>1 DEF Ledger, WaitedFor
<1>5. /\ Cardinality(CAt({"items"})) \in Nat
      /\ Cardinality(PAt(Load)) \in Nat /\ Cardinality(PAt(Load)') \in Nat
  BY Sizes
<1> HIDE DEF End, Load
<1>6. CASE NextSegment(p)
  <2>1. PGoto(p, "next", "fetch") /\ png_count' = png_count + 1 /\ UNCHANGED sem_items
        /\ png_count < NUM_SEGMENTS
    BY <1>6 DEF NextSegment
  <2>2. /\ Cardinality(PAt(Load)') = Cardinality(PAt(Load)) + 1
        /\ PAt(End)' = PAt(End) /\ PAt({"reaped"})' = PAt({"reaped"})
    BY <1>0, <1>5, <2>1, PMoves DEF One, Load, End
  <2>3. Announced'
    BY <1>0, <1>2, <1>3, <1>4, <1>5, <2>1, <2>2 DEF Announced
  <2>4. PAt(End) = {}
    BY <1>0, <1>4, <2>1 DEF AllTaken, End
  <2>5. AllTaken'
    BY <2>2, <2>4 DEF AllTaken, End
  <2> QED
    BY <1>1, <1>2, <1>3, <1>4, <2>2, <2>3, <2>5
       DEF Ledger, Registered, AllReservedOrDead, WaitedFor
<1>7. CASE NoSegmentLeft(p)
  <2>1. PGoto(p, "next", "exited") /\ UNCHANGED <<png_count, sem_items>>
        /\ png_count = NUM_SEGMENTS
    BY <1>0, <1>7 DEF NoSegmentLeft, counters
  <2>2. PAt(Load)' = PAt(Load) /\ PAt({"reaped"})' = PAt({"reaped"})
    BY <1>0, <2>1, PMoves DEF Load
  <2>3. Announced' /\ AllTaken'
    BY <1>0, <1>2, <1>3, <1>4, <2>1, <2>2 DEF Announced, AllTaken
  <2> QED
    BY <1>1, <1>2, <1>3, <1>4, <2>2, <2>3
       DEF Ledger, Registered, AllReservedOrDead, WaitedFor
<1>8. CASE PPostItems(p)
  <2>1. PGoto(p, "items", "next") /\ UNCHANGED png_count /\ sem_items' = sem_items + 1
    BY <1>8 DEF PPostItems, counters
  <2>2. /\ Cardinality(PAt(Load)') = Cardinality(PAt(Load)) - 1
        /\ PAt(End)' = PAt(End) /\ PAt({"reaped"})' = PAt({"reaped"})
    BY <1>0, <1>5, <2>1, PMoves DEF One, Load, End
  <2>3. Announced'
    BY <1>0, <1>2, <1>3, <1>4, <1>5, <2>1, <2>2 DEF Announced
  <2>4. AllTaken'
    BY <1>4, <2>1, <2>2 DEF AllTaken, End
  <2> QED
    BY <1>1, <1>2, <1>3, <1>4, <2>2, <2>3, <2>4
       DEF Ledger, Registered, AllReservedOrDead, WaitedFor
<1>9. CASE /\ UNCHANGED <<png_count, sem_items>>
           /\ UNCHANGED <<PAt(Load), PAt(End), PAt({"reaped"})>>
  <2>1. Announced' /\ AllTaken'
    BY <1>0, <1>2, <1>3, <1>4, <1>9 DEF Announced, AllTaken, End
  <2> QED
    BY <1>1, <1>2, <1>3, <1>4, <1>9, <2>1
       DEF Ledger, Registered, AllReservedOrDead, WaitedFor
<1>10. CASE FetchFails(p)
  BY <1>9, <1>10 DEF FetchFails, PAt, stack_vars, counters
<1>11. ASSUME NEW from \in Load, NEW to \in Load, PGoto(p, from, to),
              UNCHANGED <<png_count, sem_items>>
       PROVE  Ledger'
  <2>1. UNCHANGED PAt(Load)
    BY <1>0, <1>11, PMoves
  <2>2. UNCHANGED PAt(End) /\ UNCHANGED PAt({"reaped"})
    BY <1>0, <1>11, PMoves DEF Load, End
  <2> QED
    BY <1>9, <1>11, <2>1, <2>2
<1>12. CASE Fetched(p)
  BY <1>11, <1>12 DEF Fetched, Load, counters
<1>13. CASE PWaitSpaces(p)
  BY <1>11, <1>13 DEF PWaitSpaces, Load, counters
<1>14. CASE PLock(p)
  BY <1>11, <1>14 DEF PLock, Load, counters
<1>15. CASE Push(p)
  BY <1>11, <1>15 DEF Push, Load, counters
<1>16. CASE PushCopy(p)
  BY <1>11, <1>16 DEF PushCopy, Load, counters
<1>17. CASE PUnlock(p)
  BY <1>11, <1>17 DEF PUnlock, Load, counters
<1> QED
  BY <1>6, <1>7, <1>8, <1>10, <1>12, <1>13, <1>14, <1>15, <1>16, <1>17 DEF ProducerStep

LEMMA ConsumerLedger ==
  ASSUME IInv, Places, Ledger, NEW c \in Consumer, ConsumerStep(c)
  PROVE  Ledger'
<1> DEFINE Work == ConsumerPC \ {"exited", "crashed", "reaped"}
           Died == {"crashed", "reaped"}
<1>0. /\ TypeOK /\ png_count \in Nat /\ sem_items \in Nat
      /\ downloaded_count \in 0 .. NUM_SEGMENTS /\ num_consumers \in Nat
      /\ NUM_SEGMENTS \in Nat
  BY FS_CardinalityType, Paster2Assumption DEF IInv, TypeOK
<1>1. ~ Gone
  BY NotGone
<1>2. UNCHANGED <<ppc, png_count, main, waited>>
  BY DEF ConsumerStep, AllReserved, Reserve, CWaitItems, CLock, Pop, PopDrop, CUnlock,
         CPostSpaces, Store, Crash, counters, main_vars
<1>3. (\A T : UNCHANGED PAt(T)) /\ UNCHANGED Loaded
  BY <1>2 DEF PAt, Loaded
<1>4. /\ waited = Cardinality(PAt({"reaped"})) + Cardinality(CAt({"reaped"}))
      /\ main \notin {"collect", "written", "aborted"}
      /\ Announced /\ AllTaken /\ Registered /\ AllReservedOrDead /\ Lost \in SUBSET Bad
  BY <1>1 DEF Ledger, WaitedFor
<1>5. AllTaken'
  BY <1>2, <1>3, <1>4 DEF AllTaken
<1>6. /\ Cardinality(CAt({"items"})) \in Nat /\ Cardinality(CAt({"items"})') \in Nat
      /\ Cardinality(CAt(Work)) \in Nat /\ Cardinality(CAt(Work)') \in Nat
      /\ Cardinality(CAt(Died)) \in Nat /\ Cardinality(CAt(Died)') \in Nat
      /\ Cardinality(Loaded) \in Nat
  BY Sizes DEF Loaded
<1> HIDE DEF Work, Died
<1>7. CASE AllReserved(c)
  <2>1. /\ CGoto(c, "check", "exited") /\ UNCHANGED <<sem_items, downloaded_count>>
        /\ num_consumers > 0 => downloaded_count >= NUM_SEGMENTS
        /\ num_consumers' = IF num_consumers > 0 THEN num_consumers - 1 ELSE num_consumers
    BY <1>7 DEF AllReserved
  <2>2. /\ Cardinality(CAt(Work)') = Cardinality(CAt(Work)) - 1
        /\ CAt({"items"})' = CAt({"items"}) /\ CAt({"reaped"})' = CAt({"reaped"})
    BY <1>0, <1>6, <2>1, CMoves DEF One, Work, ConsumerPC
  <2>3. num_consumers > 0
    BY <1>0, <1>4, <1>6, <2>2 DEF Registered, Work
  <2>4. downloaded_count' = NUM_SEGMENTS
    BY <1>0, <2>1, <2>3
  <2>5. Registered'
    BY <1>0, <1>4, <1>6, <2>1, <2>2, <2>3 DEF Registered, Work
  <2>6. Announced'
    BY <1>2, <1>3, <1>4, <2>1, <2>2 DEF Announced
  <2>7. Lost' = Lost
    BY <2>1, ConsumerLost DEF Crash, CGoto
  <2> QED
    BY <1>1, <1>2, <1>3, <1>4, <1>5, <2>2, <2>4, <2>5, <2>6, <2>7
       DEF Ledger, AllReservedOrDead, WaitedFor
<1>8. CASE Crash(c)
  <2>1. CGoto(c, "store", "crashed") /\ UNCHANGED <<sem_items, num_consumers, downloaded_count>>
    BY <1>8 DEF Crash, counters
  <2>2. /\ Cardinality(CAt(Work)') = Cardinality(CAt(Work)) - 1
        /\ Cardinality(CAt(Died)') = Cardinality(CAt(Died)) + 1
        /\ CAt({"items"})' = CAt({"items"}) /\ CAt({"reaped"})' = CAt({"reaped"})
        /\ CAt({"exited"})' = CAt({"exited"})
    BY <1>0, <1>6, <2>1, CMoves DEF One, Work, Died, ConsumerPC
  <2>3. got[c] \in Bad /\ got[c] \notin Lost /\ Lost' = Lost \cup {got[c]}
    BY <1>8, ConsumerLost
  <2>4. Cardinality(Lost') = Cardinality(Lost) + 1 /\ Cardinality(Lost) \in Nat
    BY <1>4, <2>3, LostFinite, FS_AddElement
  <2>5. Registered'
    BY <1>0, <1>4, <1>6, <2>1, <2>2 DEF Registered, Work
  <2>6. Announced'
    BY <1>2, <1>3, <1>4, <2>1, <2>2 DEF Announced
  <2>7. AllReservedOrDead'
    BY <1>4, <1>6, <2>1, <2>2, <2>4 DEF AllReservedOrDead, Died
  <2> QED
    BY <1>1, <1>2, <1>3, <1>4, <1>5, <2>2, <2>3, <2>5, <2>6, <2>7 DEF Ledger, WaitedFor
\* The steps that keep a consumer at work.
<1>9. ASSUME NEW from \in Work, NEW to \in Work, CGoto(c, from, to), UNCHANGED num_consumers,
             downloaded_count' >= downloaded_count, Announced', ~ Crash(c),
             downloaded_count' \in 0 .. NUM_SEGMENTS
      PROVE  Ledger'
  <2>1. CAt(Work)' = CAt(Work)
    BY <1>0, <1>9, CMoves
  <2>2. UNCHANGED CAt(Died) /\ UNCHANGED CAt({"reaped"}) /\ UNCHANGED CAt({"exited"})
    BY <1>0, <1>9, CMoves DEF Work, Died
  <2>3. Lost' = Lost
    BY <1>9, ConsumerLost
  <2>4. Registered' /\ AllReservedOrDead'
    BY <1>0, <1>4, <1>9, <2>1, <2>2, <2>3 DEF Registered, AllReservedOrDead, Work, Died
  <2> QED
    BY <1>1, <1>2, <1>3, <1>4, <1>5, <1>9, <2>2, <2>3, <2>4 DEF Ledger, WaitedFor
<1>10. CASE Reserve(c)
  <2>1. CGoto(c, "check", "items") /\ UNCHANGED <<sem_items, num_consumers>>
        /\ downloaded_count < NUM_SEGMENTS /\ downloaded_count' = downloaded_count + 1
    BY <1>10 DEF Reserve
  <2>2. Cardinality(CAt({"items"})') = Cardinality(CAt({"items"})) + 1
    BY <1>0, <1>6, <2>1, CMoves DEF One
  <2>3. Announced'
    BY <1>0, <1>2, <1>3, <1>4, <1>6, <2>1, <2>2 DEF Announced
  <2>4. ~ Crash(c)
    BY <2>1 DEF Crash, CGoto
  <2> QED
    BY <1>0, <1>9, <2>1, <2>3, <2>4 DEF Work, ConsumerPC
<1>11. CASE CWaitItems(c)
  <2>1. CGoto(c, "items", "lock") /\ UNCHANGED <<downloaded_count, num_consumers>>
        /\ sem_items' = sem_items - 1
    BY <1>11 DEF CWaitItems, counters
  <2>2. Cardinality(CAt({"items"})') = Cardinality(CAt({"items"})) - 1
    BY <1>0, <1>6, <2>1, CMoves DEF One
  <2>3. Announced'
    BY <1>0, <1>2, <1>3, <1>4, <1>6, <2>1, <2>2 DEF Announced
  <2>4. ~ Crash(c)
    BY <2>1 DEF Crash, CGoto
  <2> QED
    BY <1>0, <1>9, <2>1, <2>3, <2>4 DEF Work, ConsumerPC
<1>12. ASSUME NEW from \in Work \ {"items"}, NEW to \in Work \ {"items"}, CGoto(c, from, to),
              UNCHANGED <<counters, sem_items>>, ~ Crash(c)
       PROVE  Ledger'
  <2>1. UNCHANGED CAt({"items"})
    BY <1>0, <1>12, CMoves
  <2>2. Announced'
    BY <1>2, <1>3, <1>4, <1>12, <2>1 DEF Announced, counters
  <2> QED
    BY <1>0, <1>9, <1>12, <2>2 DEF counters
<1>13. CASE CLock(c)
  BY <1>12, <1>13 DEF CLock, Crash, CGoto, Work, ConsumerPC
<1>14. CASE Pop(c)
  BY <1>12, <1>14 DEF Pop, Crash, CGoto, Work, ConsumerPC
<1>15. CASE PopDrop(c)
  BY <1>12, <1>15 DEF PopDrop, Crash, CGoto, Work, ConsumerPC
<1>16. CASE CUnlock(c)
  BY <1>12, <1>16 DEF CUnlock, Crash, CGoto, Work, ConsumerPC
<1>17. CASE CPostSpaces(c)
  <2>1. CGoto(c, "spaces", "store")
    BY <1>0, <1>17 DEF CPostSpaces, CGoto, TypeOK
  <2> QED
    BY <1>12, <1>17, <2>1 DEF CPostSpaces, Crash, CGoto, Work, ConsumerPC
<1>18. CASE Store(c)
  <2>1. ~ Crash(c) /\ CGoto(c, "store", "check")
    BY <1>0, <1>18 DEF Store, Crash, CGoto, TypeOK
  <2> QED
    BY <1>12, <1>18, <2>1 DEF Store, Work, ConsumerPC
<1> QED
  BY <1>7, <1>8, <1>10, <1>11, <1>13, <1>14, <1>15, <1>16, <1>17, <1>18 DEF ConsumerStep

LEMMA MainLedger ==
  ASSUME IInv, Places, Ledger, Main \/ UNCHANGED vars
  PROVE  Ledger'
<1> DEFINE End  == {"exited", "reaped"}
           Load == {"fetch", "spaces", "lock", "push", "copy", "unlock", "items"}
           Work == ConsumerPC \ {"exited", "crashed", "reaped"}
           Died == {"crashed", "reaped"}
<1>0. /\ TypeOK /\ Lost' = Lost /\ waited \in Nat /\ Loaded = PAt(Load) /\ Loaded' = PAt(Load)'
  BY MainPlaces, LostStays, Counts DEF IInv, Places, Loaded, TypeOK
<1>1. UNCHANGED <<png_count, sem_items, downloaded_count, num_consumers>>
  BY DEF Main, vars, ForkProducer, ForkConsumer, MainGoto, ProducersForked, ConsumersForked,
         ForkFails, Reap, ReapNone, AllWaited, WriteImage, AbortOnHole, counters
<1>2. /\ \/ waited = Cardinality(PAt({"reaped"})) + Cardinality(CAt({"reaped"}))
         \/ Gone /\ main \notin {"producers", "consumers"}
      /\ main \in {"collect", "written", "aborted"} => Gone
      /\ Announced /\ AllTaken /\ Registered /\ AllReservedOrDead /\ Lost \in SUBSET Bad
  BY DEF Ledger, WaitedFor
<1>3. /\ Cardinality(PAt({"reaped"})) \in Nat /\ Cardinality(PAt({"reaped"})') \in Nat
      /\ Cardinality(CAt({"reaped"})) \in Nat /\ Cardinality(CAt({"reaped"})') \in Nat
  BY Sizes
<1> HIDE DEF End, Load, Work, Died
<1>4. ASSUME UNCHANGED <<PAt(Load), PAt(End), CAt({"items"}), CAt(Work), CAt(Died)>>,
             CAt({"exited"})' = CAt({"exited"}) \/ downloaded_count = NUM_SEGMENTS
      PROVE  Announced' /\ AllTaken' /\ Registered' /\ AllReservedOrDead'
  BY <1>0, <1>1, <1>2, <1>4
     DEF Announced, AllTaken, Registered, AllReservedOrDead, End, Work, Died
<1>5. ASSUME UNCHANGED <<ppc, cpc>>
      PROVE  Announced' /\ AllTaken' /\ Registered' /\ AllReservedOrDead'
             /\ (Gone => Gone') /\ UNCHANGED PAt({"reaped"}) /\ UNCHANGED CAt({"reaped"})
  BY <1>4, <1>5 DEF PAt, CAt, Gone
<1>6. CASE \E p \in Producer : ForkProducer(p)
  <2> PICK p \in Producer : ForkProducer(p)
    BY <1>6
  <2>1. PGoto(p, "unborn", "next") /\ main = "producers" /\ UNCHANGED <<cpc, main, waited>>
    BY DEF ForkProducer, main_vars
  <2>2. UNCHANGED <<PAt(Load), PAt(End), CAt({"items"}), CAt(Work), CAt(Died),
                    CAt({"exited"}), PAt({"reaped"}), CAt({"reaped"})>>
    <3>1. \A T : UNCHANGED CAt(T)
      BY <2>1 DEF CAt
    <3>2. UNCHANGED PAt(Load) /\ UNCHANGED PAt(End) /\ UNCHANGED PAt({"reaped"})
      BY <1>0, <2>1, PMoves DEF Load, End
    <3> QED
      BY <3>1, <3>2
  <2> QED
    BY <1>0, <1>2, <1>4, <2>1, <2>2 DEF Ledger, WaitedFor
<1>7. CASE \E c \in Consumer : ForkConsumer(c)
  <2> PICK c \in Consumer : ForkConsumer(c)
    BY <1>7
  <2>1. CGoto(c, "unborn", "check") /\ main = "consumers" /\ UNCHANGED <<ppc, main, waited>>
    BY DEF ForkConsumer, main_vars
  <2>2. UNCHANGED <<PAt(Load), PAt(End), PAt({"reaped"})>>
    BY <2>1 DEF PAt
  <2>3. UNCHANGED CAt(Work) /\ UNCHANGED CAt({"items"})
    BY <1>0, <2>1, CMoves DEF Work, ConsumerPC
  <2>4. UNCHANGED CAt(Died) /\ UNCHANGED CAt({"reaped"}) /\ UNCHANGED CAt({"exited"})
    BY <1>0, <2>1, CMoves DEF Died
  <2> QED
    BY <1>0, <1>2, <1>4, <2>1, <2>2, <2>3, <2>4 DEF Ledger, WaitedFor
<1>8. CASE Reap /\ \E p \in Producer : PGoto(p, "exited", "reaped") /\ UNCHANGED cpc
  <2> PICK p \in Producer : PGoto(p, "exited", "reaped") /\ UNCHANGED cpc
    BY <1>8
  <2>1. main = "wait" /\ waited' = waited + 1 /\ UNCHANGED main
    BY <1>8 DEF Reap
  <2>2. \A T : UNCHANGED CAt(T)
    BY DEF CAt
  <2>3. UNCHANGED PAt(Load) /\ UNCHANGED PAt(End)
        /\ Cardinality(PAt({"reaped"})') = Cardinality(PAt({"reaped"})) + 1
    BY <1>0, <1>3, PMoves DEF Load, End, One
  <2>4. ~ Gone
    BY DEF Gone, PGoto
  <2> QED
    BY <1>0, <1>2, <1>3, <1>4, <2>1, <2>2, <2>3, <2>4 DEF Ledger, WaitedFor
<1>9. CASE Reap /\ \E c \in Consumer : CGoto(c, "exited", "reaped") /\ UNCHANGED ppc
  <2> PICK c \in Consumer : CGoto(c, "exited", "reaped") /\ UNCHANGED ppc
    BY <1>9
  <2>1. main = "wait" /\ waited' = waited + 1 /\ UNCHANGED main
    BY <1>9 DEF Reap
  <2>2. UNCHANGED <<PAt(Load), PAt(End), PAt({"reaped"})>>
    BY DEF PAt
  <2>3. UNCHANGED CAt(Work) /\ UNCHANGED CAt({"items"}) /\ c \in CAt({"exited"})
        /\ Cardinality(CAt({"reaped"})') = Cardinality(CAt({"reaped"})) + 1
    BY <1>0, <1>3, CMoves DEF Work, One
  <2>4. ~ Gone /\ downloaded_count = NUM_SEGMENTS
    BY <1>2, <2>3 DEF Gone, CGoto, AllReservedOrDead
  <2>5. AllReservedOrDead' /\ Announced' /\ AllTaken' /\ Registered'
    BY <1>0, <1>1, <1>2, <2>2, <2>3, <2>4
       DEF AllReservedOrDead, Announced, AllTaken, Registered, Work, End
  <2> QED
    BY <1>0, <1>2, <1>3, <2>1, <2>2, <2>3, <2>4, <2>5 DEF Ledger, WaitedFor
<1>10. CASE Reap /\ \E c \in Consumer : CGoto(c, "crashed", "reaped") /\ UNCHANGED ppc
  <2> PICK c \in Consumer : CGoto(c, "crashed", "reaped") /\ UNCHANGED ppc
    BY <1>10
  <2>1. main = "wait" /\ waited' = waited + 1 /\ UNCHANGED main
    BY <1>10 DEF Reap
  <2>2. UNCHANGED <<PAt(Load), PAt(End), PAt({"reaped"})>>
    BY DEF PAt
  <2>3. UNCHANGED CAt(Work) /\ UNCHANGED CAt({"items"}) /\ UNCHANGED CAt({"exited"})
        /\ UNCHANGED CAt(Died)
        /\ Cardinality(CAt({"reaped"})') = Cardinality(CAt({"reaped"})) + 1
    BY <1>0, <1>3, CMoves DEF Work, Died, One
  <2>4. ~ Gone
    BY DEF Gone, CGoto
  <2> QED
    BY <1>0, <1>2, <1>3, <1>4, <2>1, <2>2, <2>3, <2>4 DEF Ledger, WaitedFor
<1>11. CASE ReapNone
  <2>1. Gone /\ UNCHANGED <<ppc, cpc, main>> /\ main = "wait"
    BY <1>11 DEF ReapNone, Gone
  <2> QED
    BY <1>0, <1>2, <1>5, <2>1 DEF Ledger, WaitedFor
<1>12. CASE AllWaited
  <2>1. waited = Children /\ UNCHANGED <<ppc, cpc, waited>> /\ main' = "collect"
    BY <1>12 DEF AllWaited, MainGoto
  <2>2. Gone
    <3>1. CASE waited = Cardinality(PAt({"reaped"})) + Cardinality(CAt({"reaped"}))
      <4>1. /\ PAt({"reaped"}) \in SUBSET Producer /\ CAt({"reaped"}) \in SUBSET Consumer
            /\ IsFiniteSet(Producer) /\ IsFiniteSet(Consumer)
        BY Paster2Assumption DEF PAt, CAt
      <4>2. /\ Cardinality(PAt({"reaped"})) <= Cardinality(Producer)
            /\ Cardinality(CAt({"reaped"})) <= Cardinality(Consumer)
            /\ Cardinality(Producer) \in Nat /\ Cardinality(Consumer) \in Nat
        BY <4>1, FS_Subset, FS_CardinalityType
      <4>3. /\ Cardinality(PAt({"reaped"})) = Cardinality(Producer)
            /\ Cardinality(CAt({"reaped"})) = Cardinality(Consumer)
        BY <1>3, <2>1, <3>1, <4>2 DEF Children
      <4>4. PAt({"reaped"}) = Producer /\ CAt({"reaped"}) = Consumer
        BY <4>1, <4>3, FS_Subset
      <4> QED
        BY <4>4 DEF PAt, CAt, Gone
    <3> QED
      BY <3>1, <1>2
  <2> QED
    BY <1>0, <1>2, <1>5, <2>1, <2>2 DEF Ledger, WaitedFor
<1>13. CASE /\ UNCHANGED <<ppc, cpc, waited>>
            /\ main' \in {"producers", "consumers"} <=> main \in {"producers", "consumers"}
            /\ main' \in {"collect", "written", "aborted"} <=>
                 main \in {"collect", "written", "aborted"}
  BY <1>0, <1>2, <1>5, <1>13 DEF Ledger, WaitedFor
<1>14. CASE ProducersForked \/ ConsumersForked \/ ForkFails
  <2>1. /\ UNCHANGED <<ppc, cpc, waited>> /\ main \in {"producers", "consumers"}
        /\ main' \in {"consumers", "wait"}
    BY <1>14 DEF ProducersForked, ConsumersForked, ForkFails, MainGoto
  <2> QED
    BY <1>0, <1>2, <1>5, <2>1 DEF Ledger, WaitedFor
<1>15. CASE WriteImage \/ AbortOnHole \/ UNCHANGED vars
  BY <1>13, <1>15 DEF WriteImage, AbortOnHole, MainGoto, vars, main_vars
<1>16. CASE Reap
  BY <1>8, <1>9, <1>10, <1>16 DEF Reap
<1> QED
  BY <1>6, <1>7, <1>11, <1>12, <1>14, <1>15, <1>16 DEF Main

LEMMA InitLedger == Init => Ledger
<1> SUFFICES ASSUME Init PROVE Ledger
  OBVIOUS
<1>1. /\ PAt({"exited", "reaped"}) = {} /\ PAt({"reaped"}) = {} /\ CAt({"reaped"}) = {}
      /\ CAt({"items"}) = {} /\ Loaded = {} /\ CAt({"exited"}) = {}
      /\ CAt({"crashed", "reaped"}) = {}
  BY DEF Init, PAt, CAt, Loaded
<1>2. Cardinality({}) = 0
  BY FS_EmptySet
<1>3. Lost = {}
  <2>1. Places /\ TypeOK /\ \A i \in Part : i >= png_count
    BY InitPlaces, InitInv DEF IInv, Init, Part
  <2> QED
    BY <2>1, StatusIs DEF Lost, Places
<1>4. CAt(ConsumerPC \ {"exited", "crashed", "reaped"}) = Consumer
      /\ Cardinality(Consumer) \in Nat
  BY FS_CardinalityType, Paster2Assumption DEF Init, CAt, ConsumerPC
<1>5. Announced /\ AllTaken
  <2>1. png_count = 0 /\ sem_items = 0 /\ downloaded_count = 0
    BY DEF Init
  <2>2. Cardinality(CAt({"items"})) = 0 /\ Cardinality(Loaded) = 0
    BY <1>1, <1>2
  <2>3. Announced
    BY <2>1, <2>2 DEF Announced
  <2> QED
    BY <1>1, <2>3 DEF AllTaken
<1>6. Registered
  BY <1>4 DEF Init, Registered
<1>7. AllReservedOrDead
  BY <1>1, <1>2, <1>3 DEF AllReservedOrDead
<1>8. WaitedFor
  <2>1. waited = 0 /\ main = "producers"
    BY DEF Init
  <2>2. Cardinality(PAt({"reaped"})) = 0 /\ Cardinality(CAt({"reaped"})) = 0
    BY <1>1, <1>2
  <2> QED
    BY <2>1, <2>2 DEF WaitedFor
<1> QED
  BY <1>3, <1>5, <1>6, <1>7, <1>8 DEF Ledger

LEMMA NextLedger == IInv /\ Places /\ Ledger /\ [Next]_vars => Ledger'
  BY ProducerLedger, ConsumerLedger, MainLedger DEF Next, Finished

LEMMA LedgerInvariant == Spec => [](IInv /\ Places /\ Ledger)
<1>1. Init => IInv /\ Places /\ Ledger
  BY InitInv, InitPlaces, InitLedger
<1>2. IInv /\ Places /\ Ledger /\ [Next]_vars => (IInv /\ Places /\ Ledger)'
  BY NextInv, NextPlaces, NextLedger
<1> QED
  BY <1>1, <1>2, PTL DEF Spec
-----------------------------------------------------------------------------
\* When no consumer is left to run, every part has been reserved, or more of
\* them would have died than there are bad parts.
LEMMA NoneLeftToRun ==
  ASSUME IInv, Places, Ledger, Staffed, \A c \in Consumer : cpc[c] \in {"unborn", "reaped"}
  PROVE  downloaded_count = NUM_SEGMENTS
<1> SUFFICES ASSUME downloaded_count # NUM_SEGMENTS PROVE FALSE
  OBVIOUS
<1>1. Cardinality(CAt({"crashed", "reaped"})) <= Cardinality(Lost) /\ Lost \in SUBSET Bad
  BY DEF Ledger, AllReservedOrDead
<1>2. Cardinality(Lost) <= Cardinality(Bad) /\ Cardinality(Lost) \in Nat
      /\ Cardinality(Bad) \in Nat
  BY <1>1, LostFinite
<1>3. Born = CAt({"crashed", "reaped"})
  BY DEF Born, CAt, ConsumerPC
<1>4. Cardinality(CAt({"crashed", "reaped"})) \in Nat
  BY Sizes
<1> QED
  BY <1>1, <1>2, <1>3, <1>4 DEF Staffed

LEMMA SomeProducerReaped ==
  ASSUME Ledger, Staffed, \A p \in Producer : ppc[p] \in {"unborn", "reaped"}
  PROVE  png_count = NUM_SEGMENTS
<1>1. PICK p \in Producer : ppc[p] # "unborn"
  BY DEF Staffed, PAt
<1>2. p \in PAt({"exited", "reaped"})
  BY <1>1 DEF PAt
<1> QED
  BY <1>2 DEF Ledger, AllTaken

LEMMA LedgerCollects == IInv /\ Places /\ Ledger => Collected
<1> SUFFICES ASSUME IInv, Places, Ledger,
                    main \in {"collect", "written", "aborted"}, Staffed,
                    NEW i \in Part \ Bad
             PROVE  png_array[i] = i
  BY DEF Collected
<1>0. /\ TypeOK /\ Apart /\ sem_items \in Nat /\ pos \in Int /\ NUM_SEGMENTS \in Nat
      /\ downloaded_count \in Nat
  BY Paster2Assumption DEF IInv, TypeOK, Places
<1>1. Gone
  BY DEF Ledger, WaitedFor
<1>2. png_count = NUM_SEGMENTS
  BY <1>1, SomeProducerReaped DEF Gone
<1>3. downloaded_count = NUM_SEGMENTS
  BY <1>1, NoneLeftToRun DEF Gone
<1>4. /\ CAt({"items"}) = {} /\ Loaded = {} /\ Pushed = {} /\ ToPop = {} /\ Carrying = {}
      /\ Keeping = {} /\ PAt({"copy"}) = {} /\ CAt({"drop"}) = {}
  BY <1>1 DEF Gone, CAt, PAt, Loaded, Pushed, ToPop, Carrying, Keeping
<1>5. sem_items = 0
  BY <1>0, <1>2, <1>3, <1>4, FS_EmptySet DEF Ledger, Announced
<1>6. pos = -1
  BY <1>0, <1>4, <1>5, FS_EmptySet DEF IInv, SemaphoreBalance
<1>7. Assigned = {} /\ Stacked = {} /\ Taken = {}
  <2>1. 0 .. Top = {}
    BY <1>4, <1>6 DEF Top, Unsettled
  <2> QED
    BY <1>4, <2>1, PlacesAre
<1>8. PartStatus(i) # "lost" /\ i < png_count
  BY <1>2, Paster2Assumption DEF Ledger, Lost, Part
<1>9. png_array[i] # None
  BY <1>0, <1>7, <1>8, StatusIs
<1> QED
  BY <1>0, <1>9 DEF Apart

\* When the parent has waited for its children, every part that can be decoded
\* is in its own element of the array: whichever transfers and forks failed,
\* in whatever order the processes ran, and however many consumers a bad part
\* killed, as long as there were more of them than bad parts.
THEOREM AllCollected == Spec => []Collected
  BY LedgerInvariant, LedgerCollects, PTL

-----------------------------------------------------------------------------
(***************************************************************************)
(* Deadlock.  If nobody can go, nobody is at work on the stack, and every  *)
(* child that has not been reaped is asleep on one of the two semaphores;  *)
(* the ledger leaves no room for either.                                   *)
(***************************************************************************)
LEMMA MutexIsFree ==
  ASSUME IInv, \A p \in Producer : ~ ProducerCanGo(p), \A c \in Consumer : ~ ConsumerCanGo(c)
  PROVE  stack_mutex = 1
<1>1. stack_mutex \in 0 .. 1 /\ Cardinality(InPush) + Cardinality(InPop) = 1 - stack_mutex
  BY DEF IInv, TypeOK, StackExclusive
<1>2. InPush = {} /\ InPop = {}
  BY DEF InPush, InPop, PAt, CAt, ProducerCanGo, ConsumerCanGo
<1> QED
  BY <1>1, <1>2, FS_EmptySet

ProducerAsleep(p) == ppc[p] \in {"unborn", "reaped"} \/ (ppc[p] = "spaces" /\ sem_spaces = 0)

ConsumerAsleep(c) == cpc[c] \in {"unborn", "reaped"} \/ (cpc[c] = "items" /\ sem_items = 0)

LEMMA AllAsleep ==
  ASSUME IInv, \A p \in Producer : ~ ProducerCanGo(p), \A c \in Consumer : ~ ConsumerCanGo(c),
         PAt({"exited"}) = {}, CAt({"exited", "crashed"}) = {}
  PROVE  /\ \A p \in Producer : ProducerAsleep(p)
         /\ \A c \in Consumer : ConsumerAsleep(c)
         /\ sem_spaces + sem_items = B
<1>1. stack_mutex = 1 /\ sem_spaces \in Nat /\ sem_items \in Nat
  BY MutexIsFree, Paster2Assumption DEF IInv, TypeOK
<1>2. ASSUME NEW p \in Producer PROVE ProducerAsleep(p)
  BY <1>1 DEF PAt, ProducerCanGo, ProducerAsleep
<1>3. ASSUME NEW c \in Consumer PROVE ConsumerAsleep(c)
  BY <1>1 DEF CAt, ConsumerCanGo, ConsumerAsleep
<1>4. Pushing = {} /\ Popping = {}
  BY <1>2, <1>3 DEF Pushing, Popping, PAt, CAt, ProducerAsleep, ConsumerAsleep
<1>5. sem_spaces + sem_items = B
  BY <1>1, <1>4, FS_EmptySet, Paster2Assumption DEF IInv, SemaphoreBalance
<1> QED
  BY <1>2, <1>3, <1>5

LEMMA LedgerGoes == IInv /\ Places /\ Ledger => NeverStuck
<1> SUFFICES ASSUME IInv, Places, Ledger, Staffed, ~ Ended, ~ ParentCanGo,
                    \A p \in Producer : ~ ProducerCanGo(p),
                    \A c \in Consumer : ~ ConsumerCanGo(c)
             PROVE  FALSE
  BY DEF NeverStuck
<1>1. ~ Gone /\ PAt({"exited"}) = {} /\ CAt({"exited", "crashed"}) = {}
  BY DEF ParentCanGo
<1>2. /\ png_count \in Nat /\ png_count <= NUM_SEGMENTS /\ sem_items \in Nat
      /\ downloaded_count \in Nat /\ downloaded_count <= NUM_SEGMENTS
      /\ NUM_SEGMENTS \in Nat /\ B \in Nat \ {0} /\ sem_spaces \in Nat
      /\ Cardinality(Loaded) \in Nat /\ Cardinality(CAt({"items"})) \in Nat
      /\ png_count + Cardinality(CAt({"items"}))
           = sem_items + downloaded_count + Cardinality(Loaded)
  BY Sizes, Paster2Assumption DEF IInv, TypeOK, Ledger, Announced, Loaded
<1>3. /\ \A p \in Producer : ProducerAsleep(p)
      /\ \A c \in Consumer : ConsumerAsleep(c)
      /\ sem_spaces + sem_items = B
  BY <1>1, AllAsleep
<1>4. CASE \E p \in Producer : ppc[p] = "spaces"
  <2>1. sem_items = B
    BY <1>2, <1>3, <1>4 DEF ProducerAsleep
  <2>2. \A c \in Consumer : cpc[c] \in {"unborn", "reaped"}
    BY <1>2, <1>3, <2>1 DEF ConsumerAsleep
  <2>3. CAt({"items"}) = {}
    BY <2>2 DEF CAt
  <2>4. downloaded_count = NUM_SEGMENTS
    BY <2>2, NoneLeftToRun
  <2> QED
    BY <1>2, <2>1, <2>3, <2>4, FS_EmptySet
<1>5. CASE \A p \in Producer : ppc[p] \in {"unborn", "reaped"}
  <2>1. png_count = NUM_SEGMENTS
    BY <1>5, SomeProducerReaped
  <2>2. Loaded = {}
    BY <1>5 DEF Loaded, PAt
  <2>3. PICK c \in Consumer : cpc[c] = "items" /\ sem_items = 0
    BY <1>1, <1>3, <1>5 DEF Gone, ConsumerAsleep
  <2>4. CAt({"items"}) # {}
    BY <2>3 DEF CAt
  <2>5. Cardinality(CAt({"items"})) \in Nat \ {0}
    BY <2>4, SomeAt, CountNat, Paster2Assumption DEF CAt
  <2> QED
    BY <1>2, <2>1, <2>2, <2>3, <2>5, FS_EmptySet
<1> QED
  BY <1>3, <1>4, <1>5 DEF ProducerAsleep

\* Until the parent has written all.png or aborted there is always a process
\* that can go on: for any number of producers, consumers, places and parts,
\* whatever fails, as long as some producer was forked and more consumers than
\* there are parts that kill one.
THEOREM DeadlockFree == Spec => []NeverStuck
  BY LedgerInvariant, LedgerGoes, PTL

-----------------------------------------------------------------------------
(***************************************************************************)
(* The steps left.  A process that moves changes its own share by the      *)
(* difference of two weights, and no other share.                          *)
(***************************************************************************)
Is(l, S) == IF l \in S THEN 1 ELSE 0

ProducerWeight(l) ==
  Is(l, {"exited"}) + 2 * Is(l, {"next"}) + 3 * Is(l, {"unborn", "items"})
    + 4 * Is(l, {"unlock"}) + 5 * Is(l, {"copy"}) + 6 * Is(l, {"push"})
    + 7 * Is(l, {"lock"}) + 8 * Is(l, {"spaces"}) + 9 * Is(l, {"fetch"})

ConsumerWeight(l) ==
  Is(l, {"exited", "crashed"}) + 2 * Is(l, {"check"}) + 3 * Is(l, {"unborn", "store"})
    + 4 * Is(l, {"spaces"}) + 5 * Is(l, {"unlock"}) + 6 * Is(l, {"drop"})
    + 7 * Is(l, {"pop"}) + 8 * Is(l, {"lock"}) + 9 * Is(l, {"items"})

LEMMA SharesNat ==
  /\ ProducerStepsLeft \in Nat /\ ProducerStepsLeft' \in Nat
  /\ ConsumerStepsLeft \in Nat /\ ConsumerStepsLeft' \in Nat
<1> DEFINE Counted(S) ==
             /\ Cardinality(PAt(S)) \in Nat /\ Cardinality(PAt(S)') \in Nat
             /\ Cardinality(CAt(S)) \in Nat /\ Cardinality(CAt(S)') \in Nat
<1>1. ASSUME NEW S PROVE Counted(S)
  BY Sizes
<1>2. /\ Counted({"exited"}) /\ Counted({"next"}) /\ Counted({"unborn", "items"})
      /\ Counted({"unlock"}) /\ Counted({"copy"}) /\ Counted({"push"})
      /\ Counted({"lock"}) /\ Counted({"spaces"}) /\ Counted({"fetch"})
  BY <1>1
<1>3. /\ Counted({"exited", "crashed"}) /\ Counted({"check"}) /\ Counted({"unborn", "store"})
      /\ Counted({"spaces"}) /\ Counted({"unlock"}) /\ Counted({"drop"})
      /\ Counted({"pop"}) /\ Counted({"lock"}) /\ Counted({"items"})
  BY <1>1
<1>4. ProducerStepsLeft \in Nat /\ ProducerStepsLeft' \in Nat
  BY <1>2 DEF ProducerStepsLeft
<1>5. ConsumerStepsLeft \in Nat /\ ConsumerStepsLeft' \in Nat
  BY <1>3 DEF ConsumerStepsLeft
<1> QED
  BY <1>4, <1>5

LEMMA ProducerShare ==
  ASSUME TypeOK, NEW p \in Producer, NEW from, NEW to, PGoto(p, from, to)
  PROVE  ProducerStepsLeft' = ProducerStepsLeft + ProducerWeight(to) - ProducerWeight(from)
<1> DEFINE Moved(S) ==
             /\ Cardinality(PAt(S)) \in Nat /\ Is(to, S) \in Nat /\ Is(from, S) \in Nat
             /\ Cardinality(PAt(S)') = Cardinality(PAt(S)) + Is(to, S) - Is(from, S)
<1>1. ASSUME NEW S PROVE Moved(S)
  BY Sizes, PMoves DEF One, Is
<1>2. /\ Moved({"exited"}) /\ Moved({"next"}) /\ Moved({"unborn", "items"})
      /\ Moved({"unlock"}) /\ Moved({"copy"}) /\ Moved({"push"})
      /\ Moved({"lock"}) /\ Moved({"spaces"}) /\ Moved({"fetch"})
  BY <1>1
<1> QED
  BY <1>2 DEF ProducerStepsLeft, ProducerWeight

LEMMA ConsumerShare ==
  ASSUME TypeOK, NEW c \in Consumer, NEW from, NEW to, CGoto(c, from, to)
  PROVE  ConsumerStepsLeft' = ConsumerStepsLeft + ConsumerWeight(to) - ConsumerWeight(from)
<1> DEFINE Moved(S) ==
             /\ Cardinality(CAt(S)) \in Nat /\ Is(to, S) \in Nat /\ Is(from, S) \in Nat
             /\ Cardinality(CAt(S)') = Cardinality(CAt(S)) + Is(to, S) - Is(from, S)
<1>1. ASSUME NEW S PROVE Moved(S)
  BY Sizes, CMoves DEF One, Is
<1>2. /\ Moved({"exited", "crashed"}) /\ Moved({"check"}) /\ Moved({"unborn", "store"})
      /\ Moved({"spaces"}) /\ Moved({"unlock"}) /\ Moved({"drop"})
      /\ Moved({"pop"}) /\ Moved({"lock"}) /\ Moved({"items"})
  BY <1>1
<1> QED
  BY <1>2 DEF ConsumerStepsLeft, ConsumerWeight

LEMMA OtherShare ==
  /\ UNCHANGED ppc => UNCHANGED ProducerStepsLeft
  /\ UNCHANGED cpc => UNCHANGED ConsumerStepsLeft
<1>1. ASSUME UNCHANGED ppc PROVE \A S : PAt(S)' = PAt(S)
  BY <1>1 DEF PAt
<1>2. ASSUME UNCHANGED cpc PROVE \A S : CAt(S)' = CAt(S)
  BY <1>2 DEF CAt
<1> QED
  BY <1>1, <1>2 DEF ProducerStepsLeft, ConsumerStepsLeft

LEMMA ParentShare ==
  ASSUME TypeOK
  PROVE  ParentStepsLeft \in Nat
<1>1. Children \in Nat /\ waited \in 0 .. Children
  BY Counts DEF TypeOK
<1> QED
  BY <1>1 DEF ParentStepsLeft

\* The sum is taken apart once.
LEMMA Fewer ==
  ASSUME TypeOK,
         NEW a \in Int, ProducerStepsLeft' = ProducerStepsLeft + a,
         NEW b \in Int, ConsumerStepsLeft' = ConsumerStepsLeft + b,
         NEW m \in Int, ParentStepsLeft' = ParentStepsLeft + m,
         NEW g \in Int, png_count' = png_count + g,
         NEW d \in Int, downloaded_count' = downloaded_count + d,
         NEW f \in Int, fetch_failures' = fetch_failures + f,
         a + b + m < 8 * g + 8 * d + f
  PROVE  StepsLeft' < StepsLeft
<1>1. /\ png_count \in Int /\ downloaded_count \in Int /\ fetch_failures \in Int
      /\ NUM_SEGMENTS \in Int /\ MaxFetchFailures \in Int
      /\ ProducerStepsLeft \in Int /\ ConsumerStepsLeft \in Int /\ ParentStepsLeft \in Int
  BY Paster2Assumption, SharesNat, ParentShare DEF TypeOK
<1> QED
  BY <1>1 DEF StepsLeft

LEMMA Weights ==
  /\ ProducerWeight("reaped") = 0 /\ ProducerWeight("exited") = 1 /\ ProducerWeight("next") = 2
  /\ ProducerWeight("unborn") = 3 /\ ProducerWeight("items") = 3 /\ ProducerWeight("unlock") = 4
  /\ ProducerWeight("copy") = 5 /\ ProducerWeight("push") = 6 /\ ProducerWeight("lock") = 7
  /\ ProducerWeight("spaces") = 8 /\ ProducerWeight("fetch") = 9
  /\ ConsumerWeight("reaped") = 0 /\ ConsumerWeight("exited") = 1 /\ ConsumerWeight("crashed") = 1
  /\ ConsumerWeight("check") = 2 /\ ConsumerWeight("unborn") = 3 /\ ConsumerWeight("store") = 3
  /\ ConsumerWeight("spaces") = 4 /\ ConsumerWeight("unlock") = 5 /\ ConsumerWeight("drop") = 6
  /\ ConsumerWeight("pop") = 7 /\ ConsumerWeight("lock") = 8 /\ ConsumerWeight("items") = 9
  BY DEF ProducerWeight, ConsumerWeight, Is

LEMMA ProducerNearer ==
  ASSUME TypeOK, NEW p \in Producer, NEW from, NEW to, PGoto(p, from, to),
         UNCHANGED <<cpc, main, waited, downloaded_count, fetch_failures>>,
         NEW g \in Int, png_count' = png_count + g,
         NEW w \in Int, ProducerWeight(from) = w, NEW v \in Int, ProducerWeight(to) = v,
         v < 8 * g + w
  PROVE  StepsLeft' < StepsLeft
<1>1. ProducerStepsLeft' = ProducerStepsLeft + v - w /\ ProducerStepsLeft \in Int
  BY ProducerShare, SharesNat
<1>2. ProducerStepsLeft' = ProducerStepsLeft + (v - w) /\ v - w \in Int /\ v - w < 8 * g
  BY <1>1
<1>3. ConsumerStepsLeft' = ConsumerStepsLeft + 0
  BY OtherShare, SharesNat
<1>4. ParentStepsLeft' = ParentStepsLeft + 0
  <2>1. ParentStepsLeft' = ParentStepsLeft
    BY DEF ParentStepsLeft, Children
  <2> QED
    BY <2>1, ParentShare
<1>5. downloaded_count' = downloaded_count + 0 /\ fetch_failures' = fetch_failures + 0
  BY Paster2Assumption DEF TypeOK
<1>6. (v - w) + 0 + 0 < 8 * g + 8 * 0 + 0
  BY <1>2
<1> QED
  BY <1>2, <1>3, <1>4, <1>5, <1>6, Fewer

LEMMA ConsumerNearer ==
  ASSUME TypeOK, NEW c \in Consumer, NEW from, NEW to, CGoto(c, from, to),
         UNCHANGED <<ppc, main, waited, png_count, fetch_failures>>,
         NEW d \in Int, downloaded_count' = downloaded_count + d,
         NEW w \in Int, ConsumerWeight(from) = w, NEW v \in Int, ConsumerWeight(to) = v,
         v < 8 * d + w
  PROVE  StepsLeft' < StepsLeft
<1>1. ConsumerStepsLeft' = ConsumerStepsLeft + v - w /\ ConsumerStepsLeft \in Int
  BY ConsumerShare, SharesNat
<1>2. ConsumerStepsLeft' = ConsumerStepsLeft + (v - w) /\ v - w \in Int /\ v - w < 8 * d
  BY <1>1
<1>3. ProducerStepsLeft' = ProducerStepsLeft + 0
  BY OtherShare, SharesNat
<1>4. ParentStepsLeft' = ParentStepsLeft + 0
  <2>1. ParentStepsLeft' = ParentStepsLeft
    BY DEF ParentStepsLeft, Children
  <2> QED
    BY <2>1, ParentShare
<1>5. png_count' = png_count + 0 /\ fetch_failures' = fetch_failures + 0
  BY Paster2Assumption DEF TypeOK
<1>6. 0 + (v - w) + 0 < 8 * 0 + 8 * d + 0
  BY <1>2
<1> QED
  BY <1>2, <1>3, <1>4, <1>5, <1>6, Fewer

LEMMA ProducerStepCounts ==
  ASSUME TypeOK, NEW p \in Producer, ProducerStep(p)
  PROVE  StepsLeft' < StepsLeft
<1>0. /\ png_count \in Int /\ UNCHANGED <<cpc, main, waited, downloaded_count>>
      /\ ~ FetchFails(p) => UNCHANGED fetch_failures
      /\ ~ NextSegment(p) => png_count' = png_count + 0
  BY DEF TypeOK, ProducerStep, NextSegment, NoSegmentLeft, FetchFails, Fetched, PWaitSpaces,
         PLock, Push, PushCopy, PUnlock, PPostItems, main_vars, counters
<1>1. CASE FetchFails(p)
  <2>1. /\ UNCHANGED <<ppc, cpc, main, waited, png_count, downloaded_count>>
        /\ fetch_failures' = fetch_failures + 1
        /\ downloaded_count \in Int
    BY <1>1 DEF TypeOK, FetchFails, main_vars, counters
  <2>2. /\ ProducerStepsLeft' = ProducerStepsLeft + 0 /\ ConsumerStepsLeft' = ConsumerStepsLeft + 0
        /\ png_count' = png_count + 0 /\ downloaded_count' = downloaded_count + 0
    BY <1>0, <2>1, OtherShare, SharesNat
  <2>3. ParentStepsLeft' = ParentStepsLeft
    BY <2>1 DEF ParentStepsLeft, Children
  <2>4. ParentStepsLeft' = ParentStepsLeft + 0
    BY <2>3, ParentShare
  <2>5. 0 + 0 + 0 < 8 * 0 + 8 * 0 + 1
    OBVIOUS
  <2> QED
    BY <2>1, <2>2, <2>4, <2>5, Fewer
<1>2. CASE NextSegment(p)
  <2>1. PGoto(p, "next", "fetch") /\ UNCHANGED fetch_failures /\ png_count' = png_count + 1
    BY <1>0, <1>2 DEF NextSegment, counters
  <2>2. 9 < 8 * 1 + 2
    OBVIOUS
  <2> QED
    BY <1>0, <2>1, <2>2, Weights, ProducerNearer
<1>3. CASE NoSegmentLeft(p)
  <2>1. PGoto(p, "next", "exited") /\ UNCHANGED fetch_failures /\ png_count' = png_count + 0
    BY <1>0, <1>3 DEF NoSegmentLeft, counters
  <2>2. 1 < 8 * 0 + 2
    OBVIOUS
  <2> QED
    BY <1>0, <2>1, <2>2, Weights, ProducerNearer
<1>4. CASE Fetched(p)
  <2>1. PGoto(p, "fetch", "spaces") /\ UNCHANGED fetch_failures /\ png_count' = png_count + 0
    BY <1>0, <1>4 DEF Fetched, counters
  <2>2. 8 < 8 * 0 + 9
    OBVIOUS
  <2> QED
    BY <1>0, <2>1, <2>2, Weights, ProducerNearer
<1>5. CASE PWaitSpaces(p)
  <2>1. PGoto(p, "spaces", "lock") /\ UNCHANGED fetch_failures /\ png_count' = png_count + 0
    BY <1>0, <1>5 DEF PWaitSpaces, counters
  <2>2. 7 < 8 * 0 + 8
    OBVIOUS
  <2> QED
    BY <1>0, <2>1, <2>2, Weights, ProducerNearer
<1>6. CASE PLock(p)
  <2>1. PGoto(p, "lock", "push") /\ UNCHANGED fetch_failures /\ png_count' = png_count + 0
    BY <1>0, <1>6 DEF PLock, counters
  <2>2. 6 < 8 * 0 + 7
    OBVIOUS
  <2> QED
    BY <1>0, <2>1, <2>2, Weights, ProducerNearer
<1>7. CASE Push(p)
  <2>1. \/ PGoto(p, "push", "copy") \/ PGoto(p, "push", "unlock")
    BY <1>7 DEF Push
  <2>2. UNCHANGED fetch_failures /\ png_count' = png_count + 0
    BY <1>0, <1>7 DEF Push, counters
  <2>3. 5 < 8 * 0 + 6 /\ 4 < 8 * 0 + 6
    OBVIOUS
  <2> QED
    BY <1>0, <2>1, <2>2, <2>3, Weights, ProducerNearer
<1>8. CASE PushCopy(p)
  <2>1. PGoto(p, "copy", "unlock") /\ UNCHANGED fetch_failures /\ png_count' = png_count + 0
    BY <1>0, <1>8 DEF PushCopy, counters
  <2>2. 4 < 8 * 0 + 5
    OBVIOUS
  <2> QED
    BY <1>0, <2>1, <2>2, Weights, ProducerNearer
<1>9. CASE PUnlock(p)
  <2>1. PGoto(p, "unlock", "items") /\ UNCHANGED fetch_failures /\ png_count' = png_count + 0
    BY <1>0, <1>9 DEF PUnlock, counters
  <2>2. 3 < 8 * 0 + 4
    OBVIOUS
  <2> QED
    BY <1>0, <2>1, <2>2, Weights, ProducerNearer
<1>10. CASE PPostItems(p)
  <2>1. PGoto(p, "items", "next") /\ UNCHANGED fetch_failures /\ png_count' = png_count + 0
    BY <1>0, <1>10 DEF PPostItems, counters
  <2>2. 2 < 8 * 0 + 3
    OBVIOUS
  <2> QED
    BY <1>0, <2>1, <2>2, Weights, ProducerNearer
<1> QED
  BY <1>1, <1>2, <1>3, <1>4, <1>5, <1>6, <1>7, <1>8, <1>9, <1>10 DEF ProducerStep

LEMMA ConsumerStepCounts ==
  ASSUME TypeOK, NEW c \in Consumer, ConsumerStep(c)
  PROVE  StepsLeft' < StepsLeft
<1>0. /\ downloaded_count \in Int /\ UNCHANGED <<ppc, main, waited, png_count, fetch_failures>>
      /\ ~ Reserve(c) => downloaded_count' = downloaded_count + 0
  BY DEF TypeOK, ConsumerStep, AllReserved, Reserve, CWaitItems, CLock, Pop, PopDrop, CUnlock,
         CPostSpaces, Store, Crash, main_vars, counters
<1>1. CASE AllReserved(c)
  <2>1. CGoto(c, "check", "exited") /\ downloaded_count' = downloaded_count + 0
    BY <1>0, <1>1 DEF AllReserved, counters
  <2>2. 1 < 8 * 0 + 2
    OBVIOUS
  <2> QED
    BY <1>0, <2>1, <2>2, Weights, ConsumerNearer
<1>2. CASE Reserve(c)
  <2>1. CGoto(c, "check", "items") /\ downloaded_count' = downloaded_count + 1
    BY <1>0, <1>2 DEF Reserve, counters
  <2>2. 9 < 8 * 1 + 2
    OBVIOUS
  <2> QED
    BY <1>0, <2>1, <2>2, Weights, ConsumerNearer
<1>3. CASE CWaitItems(c)
  <2>1. CGoto(c, "items", "lock") /\ downloaded_count' = downloaded_count + 0
    BY <1>0, <1>3 DEF CWaitItems, counters
  <2>2. 8 < 8 * 0 + 9
    OBVIOUS
  <2> QED
    BY <1>0, <2>1, <2>2, Weights, ConsumerNearer
<1>4. CASE CLock(c)
  <2>1. CGoto(c, "lock", "pop") /\ downloaded_count' = downloaded_count + 0
    BY <1>0, <1>4 DEF CLock, counters
  <2>2. 7 < 8 * 0 + 8
    OBVIOUS
  <2> QED
    BY <1>0, <2>1, <2>2, Weights, ConsumerNearer
<1>5. CASE Pop(c)
  <2>1. CGoto(c, "pop", "unlock") \/ CGoto(c, "pop", "drop")
    BY <1>5 DEF Pop
  <2>2. downloaded_count' = downloaded_count + 0
    BY <1>0, <1>5 DEF Pop, counters
  <2>3. 5 < 8 * 0 + 7 /\ 6 < 8 * 0 + 7
    OBVIOUS
  <2> QED
    BY <1>0, <2>1, <2>2, <2>3, Weights, ConsumerNearer
<1>6. CASE PopDrop(c)
  <2>1. CGoto(c, "drop", "unlock") /\ downloaded_count' = downloaded_count + 0
    BY <1>0, <1>6 DEF PopDrop, counters
  <2>2. 5 < 8 * 0 + 6
    OBVIOUS
  <2> QED
    BY <1>0, <2>1, <2>2, Weights, ConsumerNearer
<1>7. CASE CUnlock(c)
  <2>1. CGoto(c, "unlock", "spaces") /\ downloaded_count' = downloaded_count + 0
    BY <1>0, <1>7 DEF CUnlock, counters
  <2>2. 4 < 8 * 0 + 5
    OBVIOUS
  <2> QED
    BY <1>0, <2>1, <2>2, Weights, ConsumerNearer
<1>8. CASE CPostSpaces(c)
  <2>1. CGoto(c, "spaces", "exited") \/ CGoto(c, "spaces", "store")
    BY <1>8 DEF CPostSpaces
  <2>2. downloaded_count' = downloaded_count + 0
    BY <1>0, <1>8 DEF CPostSpaces, counters
  <2>3. 1 < 8 * 0 + 4 /\ 3 < 8 * 0 + 4
    OBVIOUS
  <2> QED
    BY <1>0, <2>1, <2>2, <2>3, Weights, ConsumerNearer
<1>9. CASE Store(c)
  <2>1. CGoto(c, "store", "check") /\ downloaded_count' = downloaded_count + 0
    BY <1>0, <1>9 DEF Store, counters
  <2>2. 2 < 8 * 0 + 3
    OBVIOUS
  <2> QED
    BY <1>0, <2>1, <2>2, Weights, ConsumerNearer
<1>10. CASE Crash(c)
  <2>1. CGoto(c, "store", "crashed") /\ downloaded_count' = downloaded_count + 0
    BY <1>0, <1>10 DEF Crash, counters
  <2>2. 1 < 8 * 0 + 3
    OBVIOUS
  <2> QED
    BY <1>0, <2>1, <2>2, Weights, ConsumerNearer
<1> QED
  BY <1>1, <1>2, <1>3, <1>4, <1>5, <1>6, <1>7, <1>8, <1>9, <1>10 DEF ConsumerStep

LEMMA ParentNearer ==
  ASSUME TypeOK, UNCHANGED <<ppc, cpc, png_count, downloaded_count, fetch_failures>>,
         ParentStepsLeft' = ParentStepsLeft - 1
  PROVE  StepsLeft' < StepsLeft
<1>1. /\ ProducerStepsLeft' = ProducerStepsLeft + 0 /\ ConsumerStepsLeft' = ConsumerStepsLeft + 0
      /\ png_count' = png_count + 0 /\ downloaded_count' = downloaded_count + 0
      /\ fetch_failures' = fetch_failures + 0
  BY OtherShare, SharesNat, Paster2Assumption DEF TypeOK
<1>2. ParentStepsLeft' = ParentStepsLeft + (-1)
  BY ParentShare
<1>3. 0 + 0 + (-1) < 8 * 0 + 8 * 0 + 0
  OBVIOUS
<1> QED
  BY <1>1, <1>2, <1>3, Fewer

LEMMA ParentStepCounts ==
  ASSUME TypeOK, Main
  PROVE  StepsLeft' < StepsLeft
<1>0. UNCHANGED <<png_count, downloaded_count, fetch_failures>> /\ png_count \in Int
      /\ downloaded_count \in Int /\ waited \in Int /\ Children \in Int
  BY Counts DEF TypeOK, Main, ForkProducer, ForkConsumer, MainGoto, ProducersForked, ConsumersForked,
         ForkFails, Reap, ReapNone, AllWaited, WriteImage, AbortOnHole, counters
<1>1. ASSUME NEW p \in Producer, ForkProducer(p) PROVE StepsLeft' < StepsLeft
  <2>1. /\ PGoto(p, "unborn", "next") /\ UNCHANGED <<cpc, main, waited>>
        /\ png_count' = png_count + 0
    BY <1>0, <1>1 DEF ForkProducer, main_vars
  <2>2. 2 < 8 * 0 + 3
    OBVIOUS
  <2> QED
    BY <1>0, <2>1, <2>2, Weights, ProducerNearer
<1>2. ASSUME NEW c \in Consumer, ForkConsumer(c) PROVE StepsLeft' < StepsLeft
  <2>1. /\ CGoto(c, "unborn", "check") /\ UNCHANGED <<ppc, main, waited>>
        /\ downloaded_count' = downloaded_count + 0
    BY <1>0, <1>2 DEF ForkConsumer, main_vars
  <2>2. 2 < 8 * 0 + 3
    OBVIOUS
  <2> QED
    BY <1>0, <2>1, <2>2, Weights, ConsumerNearer
<1>3. CASE ProducersForked \/ ConsumersForked \/ ForkFails \/ AllWaited \/ WriteImage \/ AbortOnHole
  <2>1. /\ UNCHANGED <<ppc, cpc, waited>>
        /\ \/ main = "producers" /\ main' = "consumers"
           \/ main = "consumers" /\ main' = "wait"
           \/ main = "wait" /\ main' = "collect"
           \/ main = "collect" /\ main' \in {"written", "aborted"}
    BY <1>3 DEF ProducersForked, ConsumersForked, ForkFails, AllWaited, WriteImage, AbortOnHole, MainGoto
  <2>2. UNCHANGED Children
    BY DEF Children
  <2>3. ParentStepsLeft' = ParentStepsLeft - 1
    BY <1>0, <2>1, <2>2 DEF ParentStepsLeft
  <2> QED
    BY <1>0, <2>1, <2>3, ParentNearer
<1>4. CASE Reap
  <2>1. waited' = waited + 1 /\ UNCHANGED main /\ UNCHANGED Children
    BY <1>4 DEF Reap, Children
  <2>2. ParentStepsLeft' = ParentStepsLeft + (-1) /\ ParentStepsLeft \in Int
    BY <1>0, <2>1, ParentShare DEF ParentStepsLeft
  <2>3. /\ png_count' = png_count + 0 /\ downloaded_count' = downloaded_count + 0
        /\ fetch_failures' = fetch_failures + 0
    BY <1>0 DEF TypeOK
  <2>4. 0 - 1 + (-1) < 8 * 0 + 8 * 0 + 0
    OBVIOUS
  <2>5. ASSUME NEW p \in Producer, PGoto(p, "exited", "reaped"), UNCHANGED cpc
        PROVE  StepsLeft' < StepsLeft
    <3>1. ProducerStepsLeft' = ProducerStepsLeft + (-1) /\ ConsumerStepsLeft' = ConsumerStepsLeft + 0
      BY <2>5, ProducerShare, OtherShare, SharesNat, Weights
    <3>2. (-1) + 0 + (-1) < 8 * 0 + 8 * 0 + 0
      OBVIOUS
    <3> QED
      BY <2>2, <2>3, <3>1, <3>2, Fewer
  <2>6. ASSUME NEW c \in Consumer, CGoto(c, "exited", "reaped") \/ CGoto(c, "crashed", "reaped"),
               UNCHANGED ppc
        PROVE  StepsLeft' < StepsLeft
    <3>1. ProducerStepsLeft' = ProducerStepsLeft + 0 /\ ConsumerStepsLeft' = ConsumerStepsLeft + (-1)
      BY <2>6, ConsumerShare, OtherShare, SharesNat, Weights
    <3>2. 0 + (-1) + (-1) < 8 * 0 + 8 * 0 + 0
      OBVIOUS
    <3> QED
      BY <2>2, <2>3, <3>1, <3>2, Fewer
  <2> QED
    BY <1>4, <2>5, <2>6 DEF Reap
<1>5. CASE ReapNone
  <2>1. waited' = waited + 1 /\ UNCHANGED <<main, ppc, cpc>> /\ UNCHANGED Children
    BY <1>5 DEF ReapNone, Children
  <2>2. ParentStepsLeft' = ParentStepsLeft - 1
    BY <1>0, <2>1 DEF ParentStepsLeft
  <2> QED
    BY <1>0, <2>1, <2>2, ParentNearer
<1> QED
  BY <1>1, <1>2, <1>3, <1>4, <1>5 DEF Main

LEMMA StepsLeftNat == TypeOK => StepsLeft \in Nat
<1> SUFFICES ASSUME TypeOK PROVE StepsLeft \in Nat
  OBVIOUS
<1> DEFINE r == NUM_SEGMENTS - png_count
           d == NUM_SEGMENTS - downloaded_count
           f == MaxFetchFailures - fetch_failures
<1>1. r \in Nat /\ d \in Nat /\ f \in Nat
  BY Paster2Assumption DEF TypeOK
<1>2. StepsLeft = 8 * r + 8 * d + ProducerStepsLeft + ConsumerStepsLeft + ParentStepsLeft + f
  BY DEF StepsLeft
<1> HIDE DEF r, d, f
<1> QED
  BY <1>1, <1>2, SharesNat, ParentShare

\* The number of steps left is a number, and every step of every process takes
\* at least one from it: however the processes interleave, paster2 stops after
\* finitely many steps, and by DeadlockFree it stops only when the parent ends.
THEOREM StepsRunOut == Spec => [](StepsLeft \in Nat) /\ EachStepCounts
<1>1. TypeOK /\ [Next]_vars => [StepsLeft' < StepsLeft]_vars
  BY ProducerStepCounts, ConsumerStepCounts, ParentStepCounts DEF Next, Finished
<1> QED
  BY <1>1, TypeCorrect, StepsLeftNat, PTL DEF Spec, EachStepCounts

\* How many steps that is: the loops of the consumers and of the producers are
\* gone round once for each part.
THEOREM StepsAtFirst ==
  Init => StepsLeft = 16 * NUM_SEGMENTS + 4 * Children + 4 + MaxFetchFailures
<1> SUFFICES ASSUME Init
             PROVE  StepsLeft = 16 * NUM_SEGMENTS + 4 * Children + 4 + MaxFetchFailures
  OBVIOUS
<1>1. /\ PAt({"unborn", "items"}) = Producer /\ PAt({"exited"}) = {} /\ PAt({"next"}) = {}
      /\ PAt({"unlock"}) = {} /\ PAt({"copy"}) = {} /\ PAt({"push"}) = {} /\ PAt({"lock"}) = {}
      /\ PAt({"spaces"}) = {} /\ PAt({"fetch"}) = {}
  BY DEF Init, PAt
<1>2. /\ CAt({"unborn", "store"}) = Consumer /\ CAt({"exited", "crashed"}) = {}
      /\ CAt({"check"}) = {} /\ CAt({"spaces"}) = {} /\ CAt({"unlock"}) = {} /\ CAt({"drop"}) = {}
      /\ CAt({"pop"}) = {} /\ CAt({"lock"}) = {} /\ CAt({"items"}) = {}
  BY DEF Init, CAt
<1>3. Cardinality(Producer) \in Nat /\ Cardinality(Consumer) \in Nat
  BY FS_CardinalityType, Paster2Assumption
<1>4. ProducerStepsLeft = 3 * Cardinality(Producer)
  BY <1>1, <1>3, FS_EmptySet DEF ProducerStepsLeft
<1>5. ConsumerStepsLeft = 3 * Cardinality(Consumer)
  <2>1. /\ Cardinality(CAt({"unborn", "store"})) = Cardinality(Consumer)
        /\ Cardinality(CAt({"exited", "crashed"})) = 0 /\ Cardinality(CAt({"check"})) = 0
        /\ Cardinality(CAt({"spaces"})) = 0 /\ Cardinality(CAt({"unlock"})) = 0
        /\ Cardinality(CAt({"drop"})) = 0 /\ Cardinality(CAt({"pop"})) = 0
        /\ Cardinality(CAt({"lock"})) = 0 /\ Cardinality(CAt({"items"})) = 0
    BY <1>2, FS_EmptySet
  <2> QED
    BY <2>1, <1>3 DEF ConsumerStepsLeft
<1>6. ParentStepsLeft = 4 + Children
  BY <1>3 DEF Init, ParentStepsLeft, Children
<1>7. png_count = 0 /\ downloaded_count = 0 /\ fetch_failures = 0
  BY DEF Init
<1> QED
  <2>1. Children = Cardinality(Producer) + Cardinality(Consumer)
    BY DEF Children
  <2>2. NUM_SEGMENTS \in Nat /\ MaxFetchFailures \in Nat
    BY Paster2Assumption
  <2>3. /\ NUM_SEGMENTS - png_count = NUM_SEGMENTS
        /\ NUM_SEGMENTS - downloaded_count = NUM_SEGMENTS
        /\ MaxFetchFailures - fetch_failures = MaxFetchFailures
    BY <1>7, <2>2
  <2> QED
    BY <1>3, <1>4, <1>5, <1>6, <2>1, <2>2, <2>3 DEF StepsLeft

\* The processes, the semaphores and the stack pointer of paster2 implement
\* the pipeline: no part is assigned twice, overwritten, read while it is
\* copied, popped twice or lost, but for those that cannot be decoded.
THEOREM Implements == Spec => ImplementsPipeline
<1>1. Init => PipelineOf!Init
  <2> SUFFICES ASSUME Init PROVE PipelineOf!Init
    OBVIOUS
  <2>1. TypeOK /\ Apart /\ \A i \in Part : i >= png_count
    BY InitPlaces, InitInv DEF IInv, Places, Init, Part
  <2>2. \A i \in Part : PartStatus(i) = "todo"
    BY <2>1, StatusIs
  <2> QED
    BY <2>2 DEF PipelineOf!Init, Init
<1>2. IInv /\ Places /\ Ledger /\ [Next]_vars => [PipelineOf!Next]_<<StatusOf, OutcomeOf>>
  <2> SUFFICES ASSUME IInv, Places, Ledger, [Next]_vars
               PROVE  [PipelineOf!Next]_<<StatusOf, OutcomeOf>>
    OBVIOUS
  <2>1. CASE \E p \in Producer : ProducerStep(p)
    BY <2>1, ProducerRefines, NotGone DEF Ledger, WaitedFor
  <2>2. CASE \E c \in Consumer : ConsumerStep(c)
    BY <2>2, ConsumerRefines
  <2>3. CASE Main \/ UNCHANGED vars
    BY <2>3, MainRefines
  <2> QED
    BY <2>1, <2>2, <2>3 DEF Next, Finished
<1> QED
  BY <1>1, <1>2, LedgerInvariant, PTL
     DEF Spec, ImplementsPipeline, PipelineOf!Spec, StatusOf, OutcomeOf
=============================================================================
