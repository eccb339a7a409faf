---------------------------- MODULE StaticQueue ----------------------------
(***************************************************************************)
(* src/static_queue.c: a ring of Max slots with one producer, which calls  *)
(* static_queue_add and then fills the slot it was given, and one          *)
(* consumer, which peeks at the front slot, works on it through the        *)
(* pointer, and pops it when it is done (the use mitm.c makes of it).      *)
(*                                                                         *)
(* With Preempts the producer is an interrupt of the consumer's core, as   *)
(* in mitm.c: once it has started, the consumer does not move until it is  *)
(* done.  Without, producer and consumer are two cores and their steps     *)
(* interleave freely.                                                      *)
(***************************************************************************)
EXTENDS Integers, Sequences

CONSTANTS Max,          \* max_elements
          Value,        \* what the producer writes
          Garbage,      \* what malloc left in a slot nobody has filled
          Preempts,     \* the producer is an interrupt of the consumer's core
          MaxDropped    \* bound on the counter `dropped'

ASSUME MaxAssumption == Max \in Nat /\ Max >= 2
ASSUME GarbageAssumption == Garbage \notin Value
ASSUME PreemptsAssumption == Preempts \in BOOLEAN
ASSUME MaxDroppedAssumption == MaxDropped \in Nat

VARIABLES start,        \* _index_start
          end,          \* _index_end
          slots,        \* _data
          dropped,      \* dropped
          producer,     \* where the producer is: "idle", "publish", "fill"
          ptr,          \* index of the slot the producer was given
          consumer,     \* where the consumer is: "idle", "use"
          held          \* index of the slot the consumer peeked at

vars == <<start, end, slots, dropped, producer, ptr, consumer, held>>

Index == 0 .. Max - 1

TypeOK ==
    /\ start \in Index
    /\ end \in Index
    /\ slots \in [Index -> Value \cup {Garbage}]
    /\ dropped \in 0 .. MaxDropped
    /\ producer \in {"idle", "publish", "fill"}
    /\ ptr \in Index
    /\ consumer \in {"idle", "use"}
    /\ held \in Index

-----------------------------------------------------------------------------
(* The mutated forms come before what they replace. *)
Increment(i) == IF i >= Max - 1 THEN 0 ELSE i + 1

IsFull_NoWrap(s, e) == s = e + 1
IsFull_LastSlot(s, e) == s = e + 1 \/ (e = Max - 1 /\ s = 1)
IsFull(s, e) == s = e + 1 \/ (e = Max - 1 /\ s = 0)

IsEmpty(s, e) == s = e

Size_Swapped(s, e) ==
    IF s < e THEN e - s ELSE s - e
Size(s, e) ==
    IF s < e THEN e - s
    ELSE IF s > e THEN Max - s + e
    ELSE 0

-----------------------------------------------------------------------------
(* create_static_queue; the two sides have not called anything yet. *)
Init ==
    /\ start = 0
    /\ end = 0
    /\ slots = [i \in Index |-> Garbage]
    /\ dropped = 0
    /\ producer = "idle"
    /\ ptr = 0
    /\ consumer = "idle"
    /\ held = 0

(* static_queue_add finds the ring full: it counts and returns NULL. *)
AddRefused ==
    /\ producer = "idle"
    /\ IsFull(start, end)
    /\ dropped < MaxDropped
    /\ dropped' = dropped + 1
    /\ UNCHANGED <<start, end, slots, producer, ptr, consumer, held>>

(* static_queue_add passes its check and computes the pointer to return. *)
AddClaim ==
    /\ producer = "idle"
    /\ ~IsFull(start, end)
    /\ ptr' = end
    /\ producer' = "publish"
    /\ UNCHANGED <<start, end, slots, dropped, consumer, held>>

(* It moves the end index: the slot is in the queue from here on, and the *)
(* caller has not written to it yet.                                       *)
AddPublish ==
    /\ producer = "publish"
    /\ end' = Increment(end)
    /\ producer' = "fill"
    /\ UNCHANGED <<start, slots, dropped, ptr, consumer, held>>

(* The caller writes its element through the pointer. *)
Fill(v) ==
    /\ producer = "fill"
    /\ slots' = [slots EXCEPT ![ptr] = v]
    /\ producer' = "idle"
    /\ UNCHANGED <<start, end, dropped, ptr, consumer, held>>

ConsumerMayRun == Preempts => producer = "idle"

(* static_queue_peek; the caller keeps the pointer while it works. *)
Peek ==
    /\ ConsumerMayRun
    /\ consumer = "idle"
    /\ ~IsEmpty(start, end)
    /\ held' = start
    /\ consumer' = "use"
    /\ UNCHANGED <<start, end, slots, dropped, producer, ptr>>

(* static_queue_pop of an element the caller is done with, or, from "idle",*)
(* of one it throws away unread (the flush of mitm_loop).                  *)
Pop ==
    /\ ConsumerMayRun
    /\ ~IsEmpty(start, end)
    /\ start' = Increment(start)
    /\ consumer' = "idle"
    /\ UNCHANGED <<end, slots, dropped, producer, ptr, held>>

Next ==
    \/ AddRefused
    \/ AddClaim
    \/ AddPublish
    \/ \E v \in Value : Fill(v)
    \/ Peek
    \/ Pop

Spec == Init /\ [][Next]_vars

-----------------------------------------------------------------------------
(* The slot add() is about to hand to the producer is not one the consumer *)
(* still works on, whoever the producer is: peek leaves its slot in the    *)
(* queue until pop ("if queue additions may interrupt this consider using  *)
(* peek instead", static_queue.c:88).                                      *)
ClaimedSlotIsFree ==
    producer = "publish" /\ consumer = "use" => ptr # held

(* When the producer is an interrupt, producer and consumer never have     *)
(* their hands on the same slot, although add() publishes the slot before  *)
(* its caller has filled it (static_queue.c:71).                           *)
NoDataRace ==
    Preempts => ~(producer # "idle" /\ consumer = "use" /\ ptr = held)

(* What the consumer reads through its pointer does not change until it    *)
(* pops: mitm_loop reads transfer->event again after the whole of its work *)
(* on it (mitm.c:217 and mitm.c:333).                                      *)
HeldElementStable ==
    [][Preempts /\ consumer = "use" /\ consumer' = "use"
         => slots'[held] = slots[held]]_vars

(* The elements the queue holds, oldest first.  A slot that is published   *)
(* but not filled does not count yet: nobody can look at it before it is.  *)
Slot(i) == IF start + i - 1 < Max THEN start + i - 1 ELSE start + i - 1 - Max
Filled == IF producer = "fill" THEN Size(start, end) - 1 ELSE Size(start, end)
Contents == [i \in 1 .. Filled |-> slots[Slot(i)]]

Fifo == INSTANCE BoundedFifo
            WITH Capacity <- Max - 1, fifo <- Contents, lost <- dropped

(* The ring, filled by an interrupt, is a bounded FIFO of Max - 1 elements:*)
(* one slot is never used, nothing is lost or reordered at the wrap, and   *)
(* an element is refused only when Max - 1 are waiting.                    *)
ImplementsFifo == Fifo!Spec
=============================================================================
