---------------------------- MODULE ButtonEvents ----------------------------
(***************************************************************************)
(* What src/button.c promises to its callback for one button: a press, any *)
(* number of repeats, a release, and so on (enum button_event).            *)
(***************************************************************************)

VARIABLE told     \* the event the callback got last

Event == {"UP", "DOWN", "REPEAT"}

Follows(last, e) ==
    \/ last = "UP" /\ e = "DOWN"
    \/ last # "UP" /\ e \in {"UP", "REPEAT"}

Init == told = "UP"

Next == \E e \in Event : Follows(told, e) /\ told' = e

Spec == Init /\ [][Next]_told
=============================================================================
