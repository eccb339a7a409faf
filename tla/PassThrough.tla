---------------------------- MODULE PassThrough ----------------------------
(***************************************************************************)
(* What the man in the middle promises: "act as a pass-through to forward  *)
(* SMBus commands between the laptop and BMS" (README.md:35) and "intercept *)
(* specified SMBus commands" (README.md:36).  Symbols go in at one end and *)
(* come out at the other, each once, in order; several may come out in one *)
(* step.  An intercepted command comes out with the reads of whoever       *)
(* intercepts it, and the reads that follow it do not come out.  Before    *)
(* the stop of a read one more read comes out than went in.                *)
(*                                                                         *)
(* A symbol is a byte written, <<"w", byte, start>>, a byte asked for,     *)
(* <<"r", start>>, or a stop, <<"p">>.                                     *)
(***************************************************************************)
EXTENDS Naturals, Sequences

CONSTANTS Symbol,       \* what the two buses can carry
          Read,         \* those that ask for a byte
          Intercepted   \* what is heard when a command is intercepted

VARIABLES owed,      \* what the laptop has said and the battery not heard yet
          got,       \* what the battery heard last
          turn       \* flips at each delivery, so that a repeated one shows

vars == <<owed, got, turn>>

Stop == <<"p">>

Init == owed = <<>> /\ got = <<>> /\ turn = FALSE

Say(s) ==
    /\ owed' = Append(owed, s)
    /\ UNCHANGED <<got, turn>>

Hear(n) ==
    /\ n \in 1 .. Len(owed) /\ Head(owed) # Stop
    /\ got' = SubSeq(owed, 1, n)
    /\ owed' = SubSeq(owed, n + 1, Len(owed))
    /\ turn' = ~turn

(* A command is intercepted. *)
Consult ==
    /\ owed # <<>>
    /\ got' \in Intercepted /\ Head(got') = Head(owed)
    /\ owed' = Tail(owed)
    /\ turn' = ~turn

(* A read is answered without the battery. *)
Intercept ==
    /\ got \in Intercepted
    /\ owed # <<>> /\ Head(owed) \in Read
    /\ owed' = Tail(owed)
    /\ UNCHANGED <<got, turn>>

(* The stop of a read: one byte more is asked for, and needs a start of    *)
(* its own only when the command was intercepted and nothing asked since.  *)
EndRead ==
    /\ owed # <<>> /\ Head(owed) = Stop
    /\ got \in Intercepted \/ (got # <<>> /\ got[Len(got)] \in Read)
    /\ got' = <<<<"r", got[Len(got)] \notin Read>>, Stop>>
    /\ owed' = Tail(owed)
    /\ turn' = ~turn

Next ==
    \/ \E s \in Symbol : Say(s)
    \/ \E n \in 1 .. Len(owed) : Hear(n)
    \/ Consult
    \/ Intercept
    \/ EndRead

Spec == Init /\ [][Next]_vars
=============================================================================
