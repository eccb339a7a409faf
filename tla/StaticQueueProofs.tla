------------------------- MODULE StaticQueueProofs -------------------------
(***************************************************************************)
(* Theorems about StaticQueue, for every ring size, every set of values    *)
(* and either kind of producer.                                            *)
(***************************************************************************)
EXTENDS StaticQueue, SequenceTheorems, TLAPS

(* What add() knows about its slot while it holds it, and what the         *)
(* consumer knows about the slot it peeked at.                             *)
ProducerHolds ==
    /\ producer = "publish" => ptr = end /\ ~IsFull(start, end)
    /\ producer = "fill" => end = Increment(ptr)

ConsumerHolds ==
    consumer = "use" => held = start /\ ~IsEmpty(start, end)

(* An interrupt has frozen the consumer with its hands on another slot,    *)
(* and the slot it has published is still in the ring.                     *)
Frozen ==
    Preempts /\ producer = "fill" =>
        /\ start # end
        /\ consumer = "use" => ptr # start

IInv == TypeOK /\ ProducerHolds /\ ConsumerHolds /\ Frozen

USE MaxAssumption, PreemptsAssumption, MaxDroppedAssumption

-----------------------------------------------------------------------------
LEMMA IncrementInRange ==
    ASSUME NEW i \in Index
    PROVE  /\ Increment(i) \in Index
           /\ Increment(i) # i
           /\ i # Max - 1 => Increment(i) = i + 1
           /\ i = Max - 1 => Increment(i) = 0
  BY DEF Increment, Index

(* The ring holds at most Max - 1 elements, and that many exactly when it  *)
(* is full.                                                                *)
LEMMA SizeBounds ==
    ASSUME NEW s \in Index, NEW e \in Index
    PROVE  /\ Size(s, e) \in 0 .. Max - 1
           /\ IsFull(s, e) <=> Size(s, e) = Max - 1
           /\ IsEmpty(s, e) <=> Size(s, e) = 0
  BY DEF Size, IsFull, IsEmpty, Index

LEMMA SizeGrows ==
    ASSUME NEW s \in Index, NEW e \in Index, ~IsFull(s, e)
    PROVE  Size(s, Increment(e)) = Size(s, e) + 1
  BY DEF Size, IsFull, Increment, Index

LEMMA SizeShrinks ==
    ASSUME NEW s \in Index, NEW e \in Index, ~IsEmpty(s, e)
    PROVE  Size(Increment(s), e) = Size(s, e) - 1
  BY DEF Size, IsEmpty, Increment, Index

-----------------------------------------------------------------------------
LEMMA InitInv == Init => IInv
  BY DEF Init, IInv, TypeOK, ProducerHolds, ConsumerHolds, Frozen, Index

LEMMA NextInv == IInv /\ [Next]_vars => IInv'
<1> SUFFICES ASSUME IInv, [Next]_vars PROVE IInv'
  OBVIOUS
<1> USE DEF IInv, TypeOK, ProducerHolds, ConsumerHolds, Frozen
<1>1. CASE AddRefused
  BY <1>1 DEF AddRefused
<1>2. CASE AddClaim
  BY <1>2 DEF AddClaim
<1>3. CASE AddPublish
  BY <1>3 DEF AddPublish, Increment, IsFull, IsEmpty, Index
<1>4. ASSUME NEW v \in Value, Fill(v) PROVE IInv'
  BY <1>4 DEF Fill
<1>5. CASE Peek
  BY <1>5 DEF Peek, ConsumerMayRun
<1>6. CASE Pop
  BY <1>6 DEF Pop, ConsumerMayRun, Increment, IsFull, IsEmpty, Index
<1>7. CASE UNCHANGED vars
  BY <1>7 DEF vars
<1>8. QED
  BY <1>1, <1>2, <1>3, <1>4, <1>5, <1>6, <1>7 DEF Next

LEMMA Inductive == Spec => []IInv
  BY InitInv, NextInv, PTL DEF Spec

(* Every index stays inside the ring, so static_queue_get_element_ptr      *)
(* never points outside the allocation.                                    *)
THEOREM TypeCorrect == Spec => []TypeOK
  BY Inductive, PTL DEF IInv

(* With an interrupt as the producer the two sides never touch the same    *)
(* slot, for every size of the ring.                                       *)
THEOREM NoRace == Spec => []NoDataRace
<1>1. IInv => NoDataRace
  BY DEF IInv, TypeOK, ProducerHolds, ConsumerHolds, Frozen, NoDataRace, IsEmpty
<1>2. QED
  BY <1>1, Inductive, PTL

(* Neither kind of producer is handed the slot the consumer works on. *)
THEOREM ClaimIsFree == Spec => []ClaimedSlotIsFree
<1>1. IInv => ClaimedSlotIsFree
  BY DEF IInv, ProducerHolds, ConsumerHolds, ClaimedSlotIsFree, IsEmpty
<1>2. QED
  BY <1>1, Inductive, PTL

(* The element the consumer peeked at is the same until it pops it. *)
THEOREM HeldStable == Spec => HeldElementStable
<1>1. IInv /\ [Next]_vars =>
        [Preempts /\ consumer = "use" /\ consumer' = "use"
           => slots'[held] = slots[held]]_vars
  <2> SUFFICES ASSUME IInv, Next, Preempts, consumer = "use"
               PROVE  slots'[held] = slots[held]
    OBVIOUS
  <2>1. ASSUME NEW v \in Value, Fill(v) PROVE slots'[held] = slots[held]
    BY <2>1 DEF Fill, IInv, TypeOK, ProducerHolds, ConsumerHolds, Frozen, IsEmpty
  <2>2. CASE AddRefused \/ AddClaim \/ AddPublish \/ Peek \/ Pop
    BY <2>2 DEF AddRefused, AddClaim, AddPublish, Peek, Pop
  <2>3. QED
    BY <2>1, <2>2 DEF Next
<1>2. QED
  BY <1>1, Inductive, PTL DEF Spec, HeldElementStable

-----------------------------------------------------------------------------
(* The refinement: a step of the ring is a step of the FIFO, or none.      *)
-----------------------------------------------------------------------------
LEMMA FilledRange ==
    ASSUME IInv, Preempts
    PROVE  /\ Filled \in 0 .. Max - 1
           /\ Contents \in Seq(Value \cup {Garbage})
           /\ Len(Contents) = Filled
           /\ DOMAIN Contents = 1 .. Filled
<1>1. Filled \in 0 .. Max - 1
  BY SizeBounds DEF IInv, TypeOK, Frozen, IsEmpty, Filled
<1>2. ASSUME NEW i \in 1 .. Filled PROVE slots[Slot(i)] \in Value \cup {Garbage}
  BY <1>1, <1>2 DEF Slot, Index, IInv, TypeOK
<1>3. QED
  BY <1>1, <1>2 DEF Contents

(* The slot being filled is the one after the last that counts. *)
LEMMA FillSlot ==
    ASSUME IInv, Preempts, producer = "fill"
    PROVE  /\ Slot(Filled + 1) = ptr
           /\ \A i \in 1 .. Filled : Slot(i) # ptr
  BY DEF IInv, TypeOK, ProducerHolds, Frozen, Slot, Filled, Size, Increment, Index

LEMMA InitRefines == Init => Fifo!Init
  BY DEF Init, Fifo!Init, Contents, Filled, Size

LEMMA FillRefines ==
    ASSUME IInv, Preempts, NEW v \in Value, Fill(v)
    PROVE  Fifo!Put(v)
<1>1. Filled' = Filled + 1 /\ Filled < Max - 1
  BY SizeBounds DEF Fill, Filled, IInv, TypeOK, Frozen, IsEmpty
<1>2. \A i \in 1 .. Filled : Slot(i)' = Slot(i) /\ slots'[Slot(i)] = slots[Slot(i)]
  <2>1. \A i \in 1 .. Filled : Slot(i) \in Index
    BY FilledRange, SMT DEF Slot, Index, IInv, TypeOK
  <2>2. \A i \in 1 .. Filled : Slot(i)' = Slot(i)
    BY DEF Fill, Slot
  <2>3. producer = "fill" /\ slots \in [Index -> Value \cup {Garbage}]
        /\ slots' = [slots EXCEPT ![ptr] = v]
    BY DEF Fill, IInv, TypeOK
  <2>4. \A i \in 1 .. Filled : Slot(i) # ptr
    BY <2>3, FillSlot
  <2>5. QED
    BY <2>1, <2>2, <2>3, <2>4
<1>3. ASSUME NEW k, k = Filled + 1 PROVE slots'[Slot(k)'] = v
  <2>1. producer = "fill" /\ ptr \in Index /\ slots \in [Index -> Value \cup {Garbage}]
        /\ slots' = [slots EXCEPT ![ptr] = v]
    BY DEF Fill, IInv, TypeOK
  <2>2. Slot(k)' = Slot(k) /\ Slot(k) = ptr
    BY <1>3, <2>1, FillSlot DEF Fill, Slot
  <2>3. QED
    BY <2>1, <2>2
<1>4. Contents' = [i \in 1 .. Filled + 1 |-> slots'[Slot(i)']]
  BY <1>1 DEF Contents
<1>5. Contents' = Append(Contents, v)
  <2> DEFINE C == Contents
             n == Filled
             D == Contents'
  <2>1. n \in Nat /\ C \in Seq(Value \cup {Garbage}) /\ Len(C) = n
    BY FilledRange
  <2>2. D = [i \in 1 .. n + 1 |-> slots'[Slot(i)']]
    BY <1>4
  <2>3. ASSUME NEW i \in 1 .. n PROVE D[i] = C[i]
    <3>1. i \in 1 .. n + 1 /\ i \in 1 .. Filled
      BY <2>1, <2>3
    <3>2. D[i] = slots'[Slot(i)'] /\ C[i] = slots[Slot(i)]
      BY <2>2, <3>1 DEF Contents
    <3>3. QED
      BY <1>2, <3>1, <3>2
  <2>4. D[n + 1] = v
    BY <1>3, <2>1, <2>2
  <2>5. D \in Seq(Value \cup {Garbage}) /\ Len(D) = n + 1
    <3>1. \A i \in 1 .. n + 1 : D[i] \in Value \cup {Garbage}
      BY <2>1, <2>3, <2>4
    <3>2. QED
      BY <2>1, <2>2, <3>1
  <2> HIDE DEF C, n, D
  <2>6. /\ Append(C, v) \in Seq(Value \cup {Garbage})
        /\ Len(Append(C, v)) = n + 1
        /\ \A i \in 1 .. n : Append(C, v)[i] = C[i]
        /\ Append(C, v)[n + 1] = v
    BY <2>1, v \in Value \cup {Garbage}, AppendProperties
  <2>7. D = Append(C, v)
    BY <2>1, <2>3, <2>4, <2>5, <2>6, SeqEqual
  <2>8. QED
    BY <2>7 DEF C, D
<1>6. QED
  BY <1>1, <1>5, FilledRange DEF Fifo!Put, Fill

LEMMA PopRefines ==
    ASSUME IInv, Preempts, Pop
    PROVE  Fifo!Take
<1>1. producer = "idle" /\ Filled = Size(start, end) /\ Filled > 0 /\ Filled' = Filled - 1
  BY SizeShrinks, SizeBounds DEF Pop, ConsumerMayRun, Filled, IInv, TypeOK
<1>2. \A i \in 1 .. Filled - 1 : Slot(i)' = Slot(i + 1)
  BY <1>1, FilledRange DEF Slot, Pop, Increment, Index, IInv, TypeOK
<1>3. Contents' = [i \in 1 .. Filled - 1 |-> slots[Slot(i + 1)]]
  BY <1>1, <1>2 DEF Contents, Pop
<1>4. Contents' = Tail(Contents) /\ Contents # <<>>
  BY <1>1, <1>3, FilledRange DEF Contents
<1>5. QED
  BY <1>4 DEF Fifo!Take, Pop

LEMMA RefuseRefines ==
    ASSUME IInv, Preempts, AddRefused
    PROVE  Fifo!Refuse
<1>1. Filled = Max - 1
  BY SizeBounds DEF AddRefused, Filled, IInv, TypeOK
<1>2. Contents' = Contents
  BY DEF AddRefused, Contents, Filled, Slot
<1>3. QED
  BY <1>1, <1>2, FilledRange DEF AddRefused, Fifo!Refuse

LEMMA Stutters ==
    ASSUME IInv, Preempts, AddClaim \/ AddPublish \/ Peek \/ UNCHANGED vars
    PROVE  UNCHANGED Fifo!vars
<1>1. CASE AddClaim \/ Peek \/ UNCHANGED vars
  BY <1>1 DEF AddClaim, Peek, vars, Fifo!vars, Contents, Filled, Slot
<1>2. CASE AddPublish
  <2>1. Filled' = Filled
    BY <1>2, SizeGrows, SizeBounds
       DEF AddPublish, Filled, IInv, TypeOK, ProducerHolds
  <2>2. QED
    BY <1>2, <2>1 DEF AddPublish, Fifo!vars, Contents, Slot
<1>3. QED
  BY <1>1, <1>2

(* A ring filled by an interrupt is a bounded FIFO: the elements come out  *)
(* in the order they went in, none twice, and one is refused only when     *)
(* Max - 1 are waiting.                                                    *)
THEOREM Refinement == ASSUME Preempts PROVE Spec => ImplementsFifo
<1>1. IInv /\ [Next]_vars => [Fifo!Next]_(Fifo!vars)
  <2> SUFFICES ASSUME IInv, [Next]_vars PROVE [Fifo!Next]_(Fifo!vars)
    OBVIOUS
  <2>1. ASSUME NEW v \in Value, Fill(v) PROVE Fifo!Next
    BY <2>1, FillRefines DEF Fifo!Next
  <2>2. CASE Pop
    BY <2>2, PopRefines DEF Fifo!Next
  <2>3. CASE AddRefused
    BY <2>3, RefuseRefines DEF Fifo!Next
  <2>4. CASE AddClaim \/ AddPublish \/ Peek \/ UNCHANGED vars
    BY <2>4, Stutters
  <2>5. QED
    BY <2>1, <2>2, <2>3, <2>4 DEF Next
<1>2. QED
  BY <1>1, InitRefines, Inductive, PTL DEF Spec, ImplementsFifo, Fifo!Spec
=============================================================================
