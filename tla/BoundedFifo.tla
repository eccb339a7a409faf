---------------------------- MODULE BoundedFifo ----------------------------
(***************************************************************************)
(* What static_queue.c promises its users: a bounded first-in first-out    *)
(* buffer.  A value put into it is taken out once, in order, unless the    *)
(* buffer was full when it came, and then exactly that value is lost.      *)
(***************************************************************************)
EXTENDS Naturals, Sequences

CONSTANTS Value,     \* what the elements may be
          Capacity   \* how many elements it holds

VARIABLES fifo,      \* the elements, oldest first
          lost       \* how many were refused

vars == <<fifo, lost>>

Init == fifo = <<>> /\ lost = 0

Put(v) ==
    /\ Len(fifo) < Capacity
    /\ fifo' = Append(fifo, v)
    /\ UNCHANGED lost

Refuse ==
    /\ Len(fifo) = Capacity
    /\ lost' = lost + 1
    /\ UNCHANGED fifo

Take ==
    /\ fifo # <<>>
    /\ fifo' = Tail(fifo)
    /\ UNCHANGED lost

Next == (\E v \in Value : Put(v)) \/ Refuse \/ Take

Spec == Init /\ [][Next]_vars
=============================================================================
