----------------------------- MODULE MitmProofs -----------------------------
(***************************************************************************)
(* Theorems about Mitm, for all sizes of the queue, the buffers and the    *)
(* receive FIFO.  Each states the assumptions it needs as members of       *)
(* Assumed and leaves the others open.  IInv needs none: interrupts and    *)
(* main loop may be as late as they like.  The invariants after it build   *)
(* on it, one property at a time, up to the refinement of PassThrough.     *)
(***************************************************************************)
EXTENDS Mitm, SequenceTheorems, FiniteSetTheorems, TLAPS

(* The events the loop still looks at, with the one it last handled before *)
(* them: previous_event, or the head of the queue while it is popped.      *)
First == IF pc = "pop" THEN 1 ELSE 0
Ev(i) == IF i = 0 THEN prev ELSE queue[i].event
Last == Ev(Len(queue))

Basic ==
    /\ TypeOK
    /\ pc = "pop" => queue # <<>>
    /\ "WRITE" \in irq => rx # <<>>

(* The peripheral and the handler's snapshot of it. *)
Peripheral ==
    /\ \A e \in irq : e # "WRITE" => e \in flags
    /\ "READ" \in flags => bus = "rwait"
    /\ bus \in {"w", "raddr", "rwait", "r"} => slaveOn
    /\ ~slaveOn => irq = {} /\ flags = {} /\ rx = <<>>
    /\ irq # {} /\ overflow => Len(queue) = Capacity
    /\ pc = "asleep" <=> ~slaveOn

(* The command buffer will not be empty when position i, a READ, is        *)
(* followed by a WRITE: a WRITE came before it, or has been handled.       *)
SafeAt(i) == IF i > First THEN Ev(i - 1) = "WRITE" ELSE cmdIdx >= 1

(* The handler queues a START before the next WRITE. *)
StartFirst ==
    IF "WRITE" \in irq THEN "START" \in irq ELSE "START" \in flags

FirstSafe == Ev(First) = "WRITE" => cmdIdx >= 1

PairsSafe ==
    \A i \in First .. Len(queue) - 1 :
        Ev(i) = "READ" /\ Ev(i + 1) = "WRITE" => SafeAt(i)

(* The same for a WRITE the handler has still to queue. *)
NextSafe ==
    Last = "READ" /\ rx # <<>> /\ ~overflow /\ ~StartFirst => SafeAt(Len(queue))

StartComes == bus = "w" /\ Last = "READ" => "START" \in flags \/ overflow

(* With bytes left over, a READ is queued right behind a WRITE. *)
WriteBeforeRead ==
    "READ" \in irq /\ "WRITE" \notin irq /\ rx # <<>> /\ ~overflow =>
        Last = "WRITE" /\ irq = {"READ"}

Windows == FirstSafe /\ PairsSafe /\ NextSafe /\ StartComes /\ WriteBeforeRead

Noticed ==
    /\ overflow /\ pc = "pop" => Len(queue) >= 2
    /\ overflow /\ pc = "loop" => Len(queue) >= 1

(* Position i holds a READ nobody has answered. *)
Waits(i) == queue[i].event = "READ" /\ (pc = "pop" => i > 1)

Awaited ==
    \A i \in 1 .. Len(queue) : Waits(i) =>
        /\ bus = "rwait"
        /\ "READ" \notin flags
        /\ \A j \in 1 .. Len(queue) : Waits(j) => i = j

IInv == Basic /\ Peripheral /\ Windows /\ Noticed /\ Awaited

-----------------------------------------------------------------------------
(* Type correctness.  An event is popped only when one was peeked at.      *)

LEMMA BasicInit == Init => Basic
<1> SUFFICES ASSUME Init PROVE Basic
  OBVIOUS
<1> USE DEF Init
<1>0. Capacity \in Nat /\ RxDepth \in Nat /\ CmdSize \in Nat /\ CmdSize >= 2
      /\ ReplySize \in Nat /\ ReplySize >= 1
  BY ConstantsAssumption DEF ConstantsAssumption
<1>1. WireTypeOK
  BY <1>0 DEF WireTypeOK, Nothing
<1>2. HandlerTypeOK /\ LoopTypeOK /\ pc # "pop" /\ irq = {}
  BY <1>0 DEF HandlerTypeOK, LoopTypeOK, Event
<1>3. CmdTypeOK
  BY <1>0 DEF CmdTypeOK
<1>4. ReplyTypeOK /\ BmsTypeOK
  BY <1>0 DEF ReplyTypeOK, Provenance, BmsTypeOK, Open
<1>5. QED
  BY <1>1, <1>2, <1>3, <1>4 DEF Basic, TypeOK

(* What a step leaves alone stays typed. *)
LEMMA Keeps ==
    /\ WireTypeOK /\ UNCHANGED <<bus, msg, flags, slaveOn>> => WireTypeOK'
    /\ HandlerTypeOK /\ UNCHANGED <<rx, irq, queue, overflow>> => HandlerTypeOK'
    /\ LoopTypeOK /\ UNCHANGED <<pc, prev>> => LoopTypeOK'
    /\ CmdTypeOK /\ UNCHANGED <<cmd, cmdIdx>> => CmdTypeOK'
    /\ ReplyTypeOK /\ UNCHANGED <<reply, replyIdx, override, extent, trash, answer, within>>
          => ReplyTypeOK'
    /\ BmsTypeOK /\ UNCHANGED bms => BmsTypeOK'
  BY DEF WireTypeOK, HandlerTypeOK, LoopTypeOK, CmdTypeOK, ReplyTypeOK, BmsTypeOK

LEMMA Queued ==
    ASSUME HandlerTypeOK, NEW t \in Transfer, Len(queue) # Capacity
    PROVE  /\ Append(queue, t) \in Seq(Transfer)
           /\ Len(Append(queue, t)) = Len(queue) + 1
           /\ Len(queue) + 1 <= Capacity
           /\ Append(queue, t) # <<>>
  BY AppendProperties, ConstantsAssumption DEF HandlerTypeOK

LEMMA BasicLaptop == ASSUME Basic, Laptop PROVE Basic'
<1>1. UNCHANGED <<irq, queue, overflow, pc, prev, cmd, cmdIdx, reply, replyIdx, override,
                  extent, trash, answer, within, bms>>
  BY DEF Laptop, LaptopStart, LaptopWrite, LaptopRead, LaptopStop, SlaveAborts,
         handlerVars, mainVars
<1>2. WireTypeOK'
  <2> USE ConstantsAssumption DEF Basic, TypeOK, WireTypeOK, Raise, Nothing
  <2>1. ASSUME NEW to \in {"w", "raddr", "other"}, LaptopStart(to) PROVE WireTypeOK'
    BY <2>1 DEF LaptopStart
  <2>2. ASSUME NEW b \in Byte, LaptopWrite(b) PROVE WireTypeOK'
    BY <2>2 DEF LaptopWrite, Written
  <2>3. CASE LaptopRead
    <3>1. ReadOnce(msg) \in [len : 0 .. CmdSize, cmd : Byte \cup {NoByte}, read : 0 .. ReplySize]
      BY DEF ReadOnce
    <3>2. QED
      BY <2>3, <3>1 DEF LaptopRead
  <2>4. CASE LaptopStop
    BY <2>4 DEF LaptopStop
  <2>5. CASE SlaveAborts
    BY <2>5 DEF SlaveAborts
  <2>6. QED
    BY <2>1, <2>2, <2>3, <2>4, <2>5 DEF Laptop
<1>3. rx' = rx \/ \E b \in Byte : rx' = Append(rx, b) /\ Len(rx) < RxDepth
  BY DEF Laptop, LaptopStart, LaptopWrite, LaptopRead, LaptopStop, SlaveAborts
<1>4. HandlerTypeOK' /\ ("WRITE" \in irq => rx' # <<>>)
  BY <1>1, <1>3, ConstantsAssumption DEF Basic, TypeOK, HandlerTypeOK
<1>5. QED
  BY <1>1, <1>2, <1>4, Keeps DEF Basic, TypeOK

LEMMA BasicHandler == ASSUME Basic, Handler PROVE Basic'
<1>1. UNCHANGED <<bus, msg, slaveOn, pc, prev, cmd, cmdIdx, reply, replyIdx, override,
                  extent, trash, answer, within, bms>>
  BY DEF Handler, IrqEnter, IrqReturns, Service, laptopVars, mainVars, vars
<1>2. flags' \subseteq flags
  BY DEF Handler, IrqEnter, IrqReturns, Service, OnFlag, vars
<1>3. WireTypeOK'
  BY <1>1, <1>2 DEF Basic, TypeOK, WireTypeOK
<1> DEFINE Good == HandlerTypeOK' /\ (pc' = "pop" => queue' # <<>>)
                   /\ ("WRITE" \in irq' => rx' # <<>>)
<1>4. Good
  <2> USE DEF Basic, TypeOK, HandlerTypeOK
  <2>1. CASE IrqEnter
    <3>1. Raised \subseteq Event /\ ("WRITE" \in Raised => rx # <<>>)
      BY DEF Raised, Event, WireTypeOK
    <3>2. QED
      BY <1>1, <2>1, <3>1 DEF IrqEnter
  <2>2. CASE IrqReturns
    BY <2>2 DEF IrqReturns, vars, handlerVars, mainVars
  <2>3. ASSUME NEW e \in Event, Service(e) PROVE Good
    <3>1. irq' \subseteq Event /\ (e # "WRITE" => UNCHANGED rx) /\ (e = "WRITE" => "WRITE" \notin irq')
      BY <2>3 DEF Service
    <3>2. \/ overflow' = TRUE /\ UNCHANGED queue
          \/ /\ UNCHANGED overflow /\ Len(queue) # Capacity
             /\ \E t \in Transfer : queue' = Append(queue, t)
      <4>1. e = "WRITE" => [event |-> "WRITE", data |-> Head(rx)] \in Transfer
        BY <2>3 DEF Service, Transfer, Event
      <4>2. [event |-> e, data |-> NoByte] \in Transfer
        BY DEF Transfer
      <4>3. QED
        BY <2>3, <4>1, <4>2 DEF Service, OnWrite, OnFlag
    <3>3. rx' \in Seq(Byte) /\ Len(rx') <= RxDepth
      <4>1. e = "WRITE" => rx \in Seq(Byte) /\ rx # <<>>
        BY <2>3 DEF Service
      <4>2. rx # <<>> => Tail(rx) \in Seq(Byte) /\ Len(Tail(rx)) = Len(rx) - 1
        BY HeadTailProperties
      <4>3. rx' = rx \/ (rx # <<>> /\ rx' = Tail(rx))
        BY <2>3, <4>1 DEF Service, OnWrite
      <4>4. QED
        BY <4>2, <4>3, ConstantsAssumption
    <3>4. queue' \in Seq(Transfer) /\ Len(queue') <= Capacity /\ (queue # <<>> => queue' # <<>>)
      BY <3>2, Queued
    <3>5. QED
      BY <1>1, <2>3, <3>1, <3>2, <3>3, <3>4 DEF Service
  <2>4. QED
    BY <2>1, <2>2, <2>3 DEF Handler
<1>5. QED
  BY <1>1, <1>3, <1>4, Keeps DEF Basic, TypeOK

(* The handling of an event, and the events it may be. *)
Process == ProcessWrite \/ ProcessRead \/ ProcessStop \/ ProcessStart

LEMMA ProcessFrame ==
    ASSUME Process
    PROVE  /\ UNCHANGED <<msg, flags, rx, slaveOn, irq, queue, overflow, prev>>
           /\ pc = "loop" /\ pc' = "pop" /\ queue # <<>> /\ ~overflow /\ Running
  BY DEF Process, ProcessWrite, ProcessRead, ProcessStop, ProcessStart, Handle, laptopVars,
         handlerVars

BmsType == [open : Open, restart : BOOLEAN]

LEMMA BmsStates ==
    /\ \A r \in BOOLEAN : Closed(r) \in BmsType
    /\ \A how : AfterWrite(how) \in BmsType
    /\ [open |-> "r", restart |-> FALSE] \in BmsType
    /\ [open |-> "w", restart |-> TRUE] \in BmsType
<1>1. \A r \in BOOLEAN : Closed(r) \in BmsType
  BY DEF Closed, BmsType, Open
<1>2. ASSUME NEW how PROVE AfterWrite(how) \in BmsType
  <2>1. (how = "hold") \in BOOLEAN
    OBVIOUS
  <2>2. [open |-> "w", restart |-> how = "hold"] \in BmsType
    BY <2>1 DEF BmsType, Open
  <2>3. QED
    BY <1>1, <2>2 DEF AfterWrite
<1>3. QED
  BY <1>1, <1>2 DEF BmsType, Open

LEMMA PutTyped ==
    ASSUME NEW b, NEW how, BmsWrite(b, how) \/ BmsWriteFails(how)
    PROVE  bms' \in BmsType
<1>1. (how = "hold") \in BOOLEAN
  OBVIOUS
<1>2. CASE BmsWrite(b, how)
  BY <1>2, BmsStates DEF BmsWrite
<1>3. CASE BmsWriteFails(how)
  BY <1>1, <1>3, BmsStates DEF BmsWriteFails
<1>4. QED
  BY <1>2, <1>3

LEMMA BmsProcess == ASSUME BmsTypeOK, Process PROVE BmsTypeOK'
<1>1. SUFFICES bms' = bms \/ bms' \in BmsType
  BY DEF BmsTypeOK, BmsType
<1>2. CASE ProcessWrite
  BY <1>2, PutTyped DEF ProcessWrite, PassOn, BmsPut, BmsQuiet
<1>3. CASE ProcessRead
  BY <1>3, BmsStates DEF ProcessRead, AnswerZero, AnswerOverride, AnswerBms, AnswerStale,
                         BmsQuiet
<1>4. CASE ProcessStop
  BY <1>4, PutTyped, BmsStates DEF ProcessStop, BmsPut, BmsStopRead, BmsQuiet
<1>5. CASE ProcessStart
  <2>1. CASE prev = "WRITE"
    <3>1. CASE BmsWrite(LastByte, "hold") \/ BmsWriteFails("hold")
      BY <3>1, PutTyped
    <3>2. CASE ~(BmsWrite(LastByte, "hold") \/ BmsWriteFails("hold"))
      BY <1>5, <2>1, <3>2, BmsStates DEF ProcessStart, SwitchToRead, AfterAsks
    <3>3. QED
      BY <3>1, <3>2
  <2>2. CASE prev # "WRITE"
    BY <1>5, <2>2 DEF ProcessStart, BmsQuiet
  <2>3. QED
    BY <2>1, <2>2
<1>6. QED
  BY <1>2, <1>3, <1>4, <1>5 DEF Process

LEMMA AgedTyped == ASSUME ReplyTypeOK PROVE Aged \in [0 .. ReplySize - 1 -> Provenance]
  BY DEF ReplyTypeOK, Aged, Provenance

LEMMA OverTyped ==
    ASSUME NEW buffer \in [0 .. ReplySize - 1 -> Provenance], NEW n, NEW by \in Provenance
    PROVE  Over(buffer, n, by) \in [0 .. ReplySize - 1 -> Provenance]
  BY DEF Over

LEMMA NoOverrideTyped ==
    ASSUME ReplyTypeOK, NoOverride
    PROVE  /\ reply' \in [0 .. ReplySize - 1 -> Provenance]
           /\ override' \in BOOLEAN /\ extent' \in 0 .. ReplySize /\ trash' \in BOOLEAN
<1>1. reply' \in [0 .. ReplySize - 1 -> Provenance]
  <2>1. reply' = Aged
    BY DEF NoOverride
  <2>2. QED
    BY <2>1, AgedTyped
<1>2. override' \in BOOLEAN /\ trash' \in BOOLEAN
  BY DEF NoOverride
<1>3. extent' \in 0 .. ReplySize
  BY ConstantsAssumption DEF NoOverride
<1>4. QED
  BY <1>1, <1>2, <1>3

LEMMA OverridesTyped ==
    ASSUME ReplyTypeOK, OverrideReplies \/ OverrideFails
    PROVE  /\ reply' \in [0 .. ReplySize - 1 -> Provenance]
           /\ override' \in BOOLEAN /\ extent' \in 0 .. ReplySize /\ trash' \in BOOLEAN
<1>1. CASE OverrideReplies
  <2>1. PICK n \in 0 .. ReplySize :
            reply' = Over(Aged, n, "override") /\ override' /\ extent' = n /\ ~trash'
    BY <1>1 DEF OverrideReplies
  <2>2. "override" \in Provenance
    BY DEF Provenance
  <2>3. Over(Aged, n, "override") \in [0 .. ReplySize - 1 -> Provenance]
    BY <2>2, AgedTyped, OverTyped
  <2>4. override' \in BOOLEAN /\ trash' \in BOOLEAN
    BY <1>1 DEF OverrideReplies
  <2>5. QED
    BY <2>1, <2>3, <2>4
<1>2. CASE OverrideFails
  BY <1>2, ConstantsAssumption DEF OverrideFails, ReplyTypeOK, Provenance
<1>3. QED
  BY <1>1, <1>2

LEMMA ReplyProcess == ASSUME ReplyTypeOK, Process PROVE ReplyTypeOK'
<1> USE ConstantsAssumption
<1>1. CASE ProcessWrite
  BY <1>1, Keeps DEF ProcessWrite, NoReplyChange
<1>2. CASE ProcessRead
  <2>1. (replyIdx < extent) \in BOOLEAN
    OBVIOUS
  <2>2. CASE AnswerZero
    BY <1>2, <2>1, <2>2 DEF ProcessRead, AnswerZero, Answer, ReplyTypeOK, Provenance
  <2>3. CASE ~ReplyFull /\ (AnswerOverride \/ AnswerStale)
    <3>1. answer' = reply[replyIdx] /\ replyIdx' = replyIdx + 1
          /\ UNCHANGED <<reply, override, extent, trash>>
          /\ within' = (replyIdx < extent)
      BY <1>2, <2>3 DEF ProcessRead, AnswerOverride, AnswerStale, Answer
    <3>2. QED
      BY <2>1, <2>3, <3>1 DEF ReplyFull, ReplyTypeOK
  <2>4. CASE ~ReplyFull /\ AnswerBms
    BY <1>2, <2>1, <2>4 DEF ProcessRead, ReplyFull, AnswerBms, Answer, ReplyTypeOK, Provenance
  <2>5. QED
    BY <1>2, <2>2, <2>3, <2>4 DEF ProcessRead
<1>3. CASE ProcessStop \/ ProcessStart
  <2>1. NoOverride \/ OverrideReplies \/ OverrideFails
    BY <1>3 DEF ProcessStop, ProcessStart, SwitchToRead
  <2>2. /\ reply' \in [0 .. ReplySize - 1 -> Provenance]
        /\ override' \in BOOLEAN /\ extent' \in 0 .. ReplySize /\ trash' \in BOOLEAN
    BY <2>1, NoOverrideTyped, OverridesTyped
  <2>3. replyIdx' = 0 /\ UNCHANGED <<answer, within>>
    BY <1>3 DEF ProcessStop, ProcessStart
  <2>4. QED
    BY <2>2, <2>3 DEF ReplyTypeOK
<1>4. QED
  BY <1>1, <1>2, <1>3 DEF Process

LEMMA CmdProcess == ASSUME CmdTypeOK, HandlerTypeOK, Process PROVE CmdTypeOK'
<1>1. CASE ProcessWrite
  <2>1. Head(queue).data \in Byte \cup {NoByte}
    <3>1. Head(queue) \in Transfer
      BY <1>1, HeadTailProperties DEF ProcessWrite, Handle, HandlerTypeOK
    <3>2. QED
      BY <3>1 DEF Transfer
  <2>2. QED
    BY <1>1, <2>1, ConstantsAssumption DEF ProcessWrite, CmdFull, CmdTypeOK
<1>2. CASE ProcessRead
  BY <1>2, Keeps DEF ProcessRead
<1>3. CASE ProcessStop \/ ProcessStart
  BY <1>3, ConstantsAssumption DEF ProcessStop, ProcessStart, CmdTypeOK
<1>4. QED
  BY <1>1, <1>2, <1>3 DEF Process

LEMMA BasicProcess == ASSUME Basic, Process PROVE Basic'
<1>1. BmsTypeOK' /\ ReplyTypeOK' /\ CmdTypeOK'
  BY BmsProcess, ReplyProcess, CmdProcess DEF Basic, TypeOK
<1>2. HandlerTypeOK' /\ LoopTypeOK'
  BY ProcessFrame, Keeps DEF Basic, TypeOK, LoopTypeOK
<1>3. bus' = bus \/ bus' = "r"
  BY DEF Process, ProcessWrite, ProcessRead, ProcessStop, ProcessStart, laptopVars, AnswerZero,
         AnswerOverride, AnswerBms, AnswerStale, Answer
<1>4. WireTypeOK'
  BY <1>3, ProcessFrame DEF Basic, TypeOK, WireTypeOK
<1>5. QED
  BY <1>1, <1>2, <1>4, ProcessFrame DEF Basic, TypeOK

LEMMA BasicRest ==
    ASSUME Basic,
           \/ Pop \/ Enter \/ DropOff \/ ComeBack \/ LoopExit \/ LoopBreak \/ UpdateDone
           \/ \E c \in Byte : GuiRead(c)
    PROVE  Basic'
<1> USE Keeps DEF Basic, TypeOK, laptopVars, handlerVars, NoReplyChange
<1>1. CASE Pop
  <2>1. Head(queue) \in Transfer /\ Tail(queue) \in Seq(Transfer)
        /\ Len(Tail(queue)) = Len(queue) - 1
    BY <1>1, HeadTailProperties DEF Pop, Popped, HandlerTypeOK
  <2>2. HandlerTypeOK'
    <3>1. Len(queue) \in Nat /\ Len(queue) <= Capacity /\ Capacity \in Nat
      BY LenProperties, ConstantsAssumption DEF HandlerTypeOK
    <3>2. Len(Tail(queue)) <= Capacity
      BY <2>1, <3>1
    <3>3. queue' = Tail(queue) /\ UNCHANGED <<rx, irq, overflow>>
      BY <1>1 DEF Pop, Popped
    <3>4. QED
      BY <2>1, <3>2, <3>3 DEF HandlerTypeOK
  <2>3. LoopTypeOK'
    BY <1>1, <2>1 DEF Pop, Popped, Becomes, LoopTypeOK, Transfer
  <2>4. QED
    BY <1>1, <2>2, <2>3 DEF Pop, Popped
<1>2. CASE Enter \/ LoopExit \/ LoopBreak \/ UpdateDone
  BY <1>2 DEF Enter, LoopExit, LoopBreak, UpdateDone, MainOnly, LoopTypeOK
<1>3. CASE DropOff
  <2>1. WireTypeOK' /\ LoopTypeOK'
    BY <1>3 DEF DropOff, WireTypeOK, LoopTypeOK
  <2>2. HandlerTypeOK' /\ irq' = {}
    BY <1>3, ConstantsAssumption DEF DropOff, Running, HandlerTypeOK
  <2>3. BmsTypeOK'
    BY <1>3, BmsStates DEF DropOff, BmsTypeOK, BmsType
  <2>4. QED
    BY <1>3, <2>1, <2>2, <2>3 DEF DropOff
<1>4. CASE ComeBack
  BY <1>4 DEF ComeBack, OverflowAfter, WireTypeOK, HandlerTypeOK, LoopTypeOK
<1>5. ASSUME NEW c \in Byte, GuiRead(c) PROVE Basic'
  <2>1. BmsTypeOK'
    BY <1>5, BmsStates DEF GuiRead, BmsTypeOK, BmsType
  <2>2. CmdTypeOK'
    BY <1>5, ConstantsAssumption DEF GuiRead, CmdTypeOK
  <2>3. ReplyTypeOK'
    <3>1. reply' \in [0 .. ReplySize - 1 -> Provenance]
      <4>1. CASE UNCHANGED reply
        BY <4>1 DEF ReplyTypeOK
      <4>2. ASSUME NEW n, reply' = Over(reply, n, "gui")
            PROVE  reply' \in [0 .. ReplySize - 1 -> Provenance]
        <5>1. reply \in [0 .. ReplySize - 1 -> Provenance]
          BY DEF ReplyTypeOK
        <5>2. "gui" \in Provenance
          BY DEF Provenance
        <5>3. QED
          BY <4>2, <5>1, <5>2, OverTyped
      <4>3. QED
        BY <1>5, <4>1, <4>2 DEF GuiRead
    <3>2. UNCHANGED <<replyIdx, override, extent, trash, answer, within>>
      BY <1>5 DEF GuiRead
    <3>3. QED
      BY <3>1, <3>2 DEF ReplyTypeOK
  <2>4. QED
    BY <1>5, <2>1, <2>2, <2>3 DEF GuiRead
<1>6. QED
  BY <1>1, <1>2, <1>3, <1>4, <1>5

LEMMA BasicNext == Basic /\ [Next]_vars => Basic'
<1>1. ASSUME Basic, UNCHANGED vars PROVE Basic'
  BY <1>1, Keeps DEF Basic, TypeOK, vars, laptopVars, handlerVars, mainVars
<1>2. QED
  BY <1>1, BasicLaptop, BasicHandler, BasicProcess, BasicRest
     DEF Next, Main, MainStep, Process

(* Every variable keeps its type: no index leaves its buffer, and nothing  *)
(* is popped that was not peeked at.                                       *)
THEOREM TypeCorrect == Spec => []TypeOK
<1>1. Basic => TypeOK
  BY DEF Basic
<1>2. QED
  BY <1>1, BasicInit, BasicNext, PTL DEF Spec

-----------------------------------------------------------------------------
(* The inductive invariant.  What a step of each party does to the state   *)
(* the invariant speaks of comes first.                                    *)

LEMMA LaptopEffect ==
    ASSUME Laptop
    PROVE  /\ UNCHANGED <<slaveOn, irq, queue, overflow, pc, prev, cmdIdx>>
           /\ \/ /\ bus # "rwait" /\ Raise("START") /\ rx' = rx
                 /\ bus' \in {"w", "raddr", "other"} /\ (~slaveOn => bus' = "other")
              \/ /\ bus = "w" /\ bus' = "w" /\ flags' = flags
                 /\ \E b \in Byte : rx' = Append(rx, b)
              \/ /\ bus \in {"raddr", "r"} /\ bus' = "rwait" /\ Raise("READ") /\ rx' = rx
              \/ /\ bus \in {"w", "r", "other"} /\ bus' \in {"idle", "other"} /\ rx' = rx
                 /\ Raise("STOP") \/ Raise("ABORT")
  BY DEF Laptop, LaptopStart, LaptopWrite, LaptopRead, LaptopStop, SlaveAborts, handlerVars,
         mainVars

(* A condition is served: it leaves its place, and it is queued or lost. *)
LEMMA ServiceEffect ==
    ASSUME Basic, NEW e \in Event, Service(e)
    PROVE  /\ UNCHANGED <<bus, slaveOn, pc, prev, cmdIdx>>
           /\ e \in irq /\ irq' = irq \ {e} /\ MayServe(e)
           /\ flags' = flags \ {e}
           /\ e = "WRITE" => rx # <<>>
           /\ e # "WRITE" => rx' = rx
           /\ \/ Len(queue) = Capacity /\ overflow' = TRUE /\ queue' = queue /\ rx' = rx
              \/ /\ Len(queue) # Capacity /\ overflow' = overflow
                 /\ \E t \in Transfer : t.event = e /\ queue' = Append(queue, t)
<1>1. /\ UNCHANGED <<bus, slaveOn, pc, prev, cmdIdx>>
      /\ e \in irq /\ irq' = irq \ {e} /\ MayServe(e)
      /\ e = "WRITE" => rx # <<>>
      /\ e # "WRITE" => rx' = rx
  BY DEF Service, laptopVars, mainVars, Basic
<1>2. flags' = flags \ {e}
  BY DEF Service, OnFlag, Basic, TypeOK, WireTypeOK
<1>3. CASE e = "WRITE"
  <2>1. Head(rx) \in Byte
    BY <1>1, <1>3, HeadTailProperties DEF Basic, TypeOK, HandlerTypeOK
  <2>2. [event |-> "WRITE", data |-> Head(rx)] \in Transfer
    BY <2>1 DEF Transfer, Event
  <2>3. QED
    BY <1>1, <1>2, <1>3, <2>2 DEF Service, OnWrite
<1>4. CASE e # "WRITE"
  <2>1. [event |-> e, data |-> NoByte] \in Transfer
    BY DEF Transfer
  <2>2. QED
    BY <1>1, <1>2, <1>4, <2>1 DEF Service, OnFlag
<1>5. QED
  BY <1>3, <1>4

(* Queueing adds one event behind the others and moves none. *)
LEMMA EvAppend ==
    ASSUME Basic, NEW t \in Transfer, queue' = Append(queue, t), pc' = pc, prev' = prev
    PROVE  /\ Len(queue) \in Nat
           /\ First \in {0, 1} /\ First <= Len(queue) /\ First' = First
           /\ Len(queue') = Len(queue) + 1
           /\ \A i \in First .. Len(queue) : Ev(i)' = Ev(i)
           /\ \A i \in 1 .. Len(queue) : queue'[i] = queue[i]
           /\ queue'[Len(queue) + 1] = t
           /\ \A n : n = Len(queue) + 1 => Ev(n)' = t.event
<1>1. queue \in Seq(Transfer) /\ Len(queue) \in Nat
  BY LenProperties DEF Basic, TypeOK, HandlerTypeOK
<1>2. /\ Len(queue') = Len(queue) + 1
      /\ \A i \in 1 .. Len(queue) : queue'[i] = queue[i]
      /\ queue'[Len(queue) + 1] = t
  BY <1>1, AppendProperties
<1>3. First \in {0, 1} /\ First <= Len(queue) /\ First' = First
  <2>1. queue # <<>> => Len(queue) >= 1
    BY <1>1, EmptySeq
  <2>2. QED
    BY <1>1, <2>1 DEF First, Basic
<1>4. QED
  BY <1>1, <1>2, <1>3 DEF Ev

(* Popping moves every event one place down and the first out of sight;    *)
(* `First' follows.                                                        *)
LEMMA EvPop ==
    ASSUME Basic, Pop
    PROVE  /\ Len(queue) \in Nat /\ Len(queue) >= 1 /\ Len(queue') = Len(queue) - 1
           /\ First = 1 /\ First' = 0
           /\ \A i \in 0 .. Len(queue') : \A n : n = i + 1 => Ev(i)' = Ev(n)
           /\ \A i \in 1 .. Len(queue') : queue'[i] = queue[i + 1]
           /\ UNCHANGED <<bus, flags, rx, slaveOn, irq, overflow, cmdIdx>>
           /\ pc = "pop" /\ pc' = "loop"
<1>1. /\ pc = "pop" /\ pc' = "loop" /\ queue' = Tail(queue) /\ prev' = Head(queue).event
      /\ UNCHANGED <<bus, flags, rx, slaveOn, irq, overflow, cmdIdx>>
  BY DEF Pop, Popped, Becomes, laptopVars
<1>2. queue \in Seq(Transfer) /\ Len(queue) \in Nat /\ queue # <<>> /\ Len(queue) >= 1
  BY <1>1, LenProperties, EmptySeq DEF Basic, TypeOK, HandlerTypeOK
<1>3. /\ Len(queue') = Len(queue) - 1
      /\ \A i \in 1 .. Len(queue') : queue'[i] = queue[i + 1]
      /\ Head(queue) = queue[1]
  BY <1>1, <1>2, HeadTailProperties
<1>4. QED
  BY <1>1, <1>2, <1>3 DEF Ev, First

LEMMA InitIInv == Init => IInv
<1> SUFFICES ASSUME Init PROVE IInv
  OBVIOUS
<1>1. Basic
  BY BasicInit
<1>2. Len(queue) = 0 /\ queue = <<>> /\ First = 0 /\ prev = "ABORT"
  BY DEF Init, First
<1>3. Last = "ABORT"
  BY <1>2 DEF Last, Ev
<1>4. Peripheral
  BY DEF Init, Peripheral
<1>5. Windows
  <2>1. FirstSafe
    BY <1>2 DEF FirstSafe, Ev
  <2>2. PairsSafe
    BY <1>2 DEF PairsSafe
  <2>3. NextSafe /\ StartComes /\ WriteBeforeRead
    BY <1>3 DEF Init, NextSafe, StartComes, WriteBeforeRead
  <2>4. QED
    BY <2>1, <2>2, <2>3 DEF Windows
<1>6. Noticed /\ Awaited
  BY <1>2 DEF Init, Noticed, Awaited
<1>7. QED
  BY <1>1, <1>4, <1>5, <1>6 DEF IInv

(* Steps that leave the events where they are. *)
LEMMA EvSame ==
    ASSUME queue' = queue, prev' = prev
    PROVE  /\ \A i : Ev(i)' = Ev(i)
           /\ Len(queue') = Len(queue)
           /\ Last' = Last
<1>1. \A i : Ev(i)' = Ev(i)
  BY DEF Ev
<1>2. QED
  BY <1>1 DEF Last, Ev

LEMMA LaptopPeripheral == ASSUME Basic, Peripheral, Laptop PROVE Peripheral'
  BY LaptopEffect DEF Peripheral, Raise

LEMMA LaptopWindows == ASSUME Basic, Peripheral, Windows, Laptop PROVE Windows'
<1>1. \A i : Ev(i)' = Ev(i)
  BY LaptopEffect, EvSame
<1>2. Len(queue') = Len(queue) /\ First' = First /\ Last' = Last
  BY LaptopEffect, EvSame DEF First
<1>3. \A i : SafeAt(i)' <=> SafeAt(i)
  BY <1>1, <1>2, LaptopEffect DEF SafeAt
<1>4. FirstSafe'
  BY <1>1, <1>2, LaptopEffect DEF Windows, FirstSafe
<1>5. PairsSafe'
  BY <1>1, <1>2, <1>3 DEF Windows, PairsSafe
<1>6. NextSafe'
  <2>1. SUFFICES ASSUME Last = "READ", rx' # <<>>, ~overflow, ~StartFirst'
                 PROVE  SafeAt(Len(queue))
    BY <1>2, <1>3, LaptopEffect DEF NextSafe
  <2>2. ~StartFirst
    BY <2>1, LaptopEffect DEF StartFirst, Raise
  <2>3. CASE rx # <<>>
    BY <2>1, <2>2, <2>3 DEF Windows, NextSafe
  <2>4. CASE rx = <<>>
    <3>1. bus = "w"
      BY <2>1, <2>4, LaptopEffect
    <3>2. "START" \in flags
      BY <2>1, <3>1 DEF Windows, StartComes
    <3>3. QED
      BY <2>2, <2>4, <3>2 DEF Basic, StartFirst
  <2>5. QED
    BY <2>3, <2>4
<1>7. StartComes'
  BY <1>2, LaptopEffect DEF Windows, StartComes, Raise
<1>8. WriteBeforeRead'
  BY <1>2, LaptopEffect DEF Windows, WriteBeforeRead, Peripheral
<1>9. QED
  BY <1>4, <1>5, <1>6, <1>7, <1>8 DEF Windows

LEMMA LaptopAwaited == ASSUME Peripheral, Noticed, Awaited, Laptop PROVE Noticed' /\ Awaited'
<1>1. Noticed'
  BY LaptopEffect DEF Noticed
<1>2. bus # "rwait"
  BY LaptopEffect
<1>3. \A i \in 1 .. Len(queue) : ~Waits(i)
  BY <1>2 DEF Awaited
<1>4. Awaited'
  BY <1>3, LaptopEffect DEF Awaited, Waits
<1>5. QED
  BY <1>1, <1>4

(* A condition is served before the queue has overflowed, or on a full one. *)
LEMMA ServedInTime ==
    ASSUME Peripheral, irq # {}, Len(queue) # Capacity
    PROVE  ~overflow
  BY DEF Peripheral

LEMMA ServicePeripheral ==
    ASSUME Basic, Peripheral, NEW e \in Event, Service(e)
    PROVE  Peripheral'
  BY ServiceEffect, ServedInTime DEF Peripheral

LEMMA ServiceWindows ==
    ASSUME Basic, Peripheral, Windows, NEW e \in Event, Service(e)
    PROVE  Windows'
<1>0. PICK n \in Nat : n = Len(queue)
  BY LenProperties DEF Basic, TypeOK, HandlerTypeOK
<1> USE <1>0
<1>1. UNCHANGED <<bus, slaveOn, pc, prev, cmdIdx>> /\ e \in irq /\ irq' = irq \ {e}
      /\ MayServe(e) /\ flags' = flags \ {e} /\ (e # "WRITE" => rx' = rx)
      /\ (e = "WRITE" => rx # <<>>)
  BY ServiceEffect
<1>2. CASE n = Capacity
  <2>1. overflow' = TRUE /\ queue' = queue
    BY <1>2, ServiceEffect
  <2>2. \A i : Ev(i)' = Ev(i)
    BY <1>1, <2>1, EvSame
  <2>3. First' = First /\ Len(queue') = n
    BY <1>1, <2>1 DEF First
  <2>4. \A i : SafeAt(i)' <=> SafeAt(i)
    BY <1>1, <2>2, <2>3 DEF SafeAt
  <2>5. FirstSafe' /\ PairsSafe'
    BY <1>1, <2>2, <2>3, <2>4 DEF Windows, FirstSafe, PairsSafe
  <2>6. QED
    BY <2>1, <2>5 DEF Windows, NextSafe, StartComes, WriteBeforeRead
<1>3. CASE n # Capacity
  <2>1. PICK t \in Transfer : t.event = e /\ queue' = Append(queue, t)
    BY <1>3, ServiceEffect
  <2>2. ~overflow /\ ~overflow'
    BY <1>1, <1>3, ServedInTime, ServiceEffect
  <2>3. /\ n \in Nat /\ First \in {0, 1} /\ First <= n /\ First' = First
        /\ Len(queue') = n + 1
        /\ \A i \in First .. n : Ev(i)' = Ev(i)
        /\ \A k : k = n + 1 => Ev(k)' = e
    BY <1>1, <2>1, EvAppend
  <2>4. Last' = e
    BY <2>3 DEF Last, Ev
  <2>5. \A i \in First .. n : SafeAt(i) => SafeAt(i)'
    BY <1>1, <2>3 DEF SafeAt
  <2>6. FirstSafe'
    BY <1>1, <2>3 DEF Windows, FirstSafe
  <2>7. PairsSafe'
    <3>1. SUFFICES ASSUME NEW i \in First .. n, Ev(i)' = "READ", Ev(i + 1)' = "WRITE"
                   PROVE  SafeAt(i)'
      BY <2>3 DEF PairsSafe
    <3>2. Ev(i) = "READ"
      BY <2>3, <3>1
    <3>3. CASE i < n
      <4>1. i + 1 \in First .. n /\ i \in First .. n - 1
        BY <2>3, <3>3
      <4>2. Ev(i + 1) = "WRITE"
        BY <2>3, <3>1, <4>1
      <4>3. SafeAt(i)
        BY <3>2, <4>1, <4>2 DEF Windows, PairsSafe
      <4>4. QED
        BY <2>5, <4>3
    <3>4. CASE i = n
      <4>1. e = "WRITE" /\ Last = "READ"
        BY <2>3, <3>1, <3>2, <3>4 DEF Last
      <4>2. ~StartFirst
        BY <1>1, <4>1 DEF MayServe, StartFirst
      <4>3. SafeAt(n)
        BY <1>1, <2>2, <4>1, <4>2 DEF Windows, NextSafe
      <4>4. QED
        BY <2>5, <3>4, <4>3
    <3>5. QED
      BY <2>3, <3>3, <3>4
  <2>8. NextSafe'
    <3>1. SUFFICES ASSUME e = "READ", rx' # <<>> PROVE SafeAt(n + 1)'
      BY <2>3, <2>4 DEF NextSafe
    <3>2. Last = "WRITE"
      BY <1>1, <2>2, <3>1 DEF MayServe, Windows, WriteBeforeRead
    <3>3. Ev(n)' = "WRITE"
      BY <2>3, <3>2 DEF Last
    <3>4. QED
      BY <2>3, <3>3 DEF SafeAt
  <2>9. StartComes'
    BY <1>1, <2>4 DEF StartComes, Peripheral
  <2>10. WriteBeforeRead'
    <3>1. SUFFICES ASSUME "READ" \in irq', "WRITE" \notin irq', rx' # <<>>
                   PROVE  e = "WRITE" /\ irq' = {"READ"}
      BY <2>4 DEF WriteBeforeRead
    <3>2. e = "WRITE"
      BY <1>1, <2>2, <3>1 DEF Windows, WriteBeforeRead
    <3>3. QED
      BY <1>1, <3>1, <3>2 DEF MayServe, Basic, TypeOK, HandlerTypeOK, Event
  <2>11. QED
    BY <2>6, <2>7, <2>8, <2>9, <2>10 DEF Windows
<1>4. QED
  BY <1>2, <1>3

LEMMA ServiceAwaited ==
    ASSUME Basic, Peripheral, Noticed, Awaited, NEW e \in Event, Service(e)
    PROVE  Noticed' /\ Awaited'
<1>0. PICK n \in Nat : n = Len(queue)
  BY LenProperties DEF Basic, TypeOK, HandlerTypeOK
<1> USE <1>0
<1>1. UNCHANGED <<bus, pc, prev>> /\ e \in irq /\ flags' = flags \ {e}
  BY ServiceEffect
<1>2. CASE n = Capacity
  <2>1. queue' = queue
    BY <1>2, ServiceEffect
  <2>2. Noticed'
    <3>1. Len(queue') = Capacity
      BY <1>2, <2>1
    <3>2. Len(queue') >= 2
      BY <3>1, ConstantsAssumption
    <3>3. QED
      BY <3>2, ConstantsAssumption DEF Noticed
  <2>3. Awaited'
    BY <1>1, <2>1 DEF Awaited, Waits
  <2>4. QED
    BY <2>2, <2>3
<1>3. CASE n # Capacity
  <2>1. PICK t \in Transfer : t.event = e /\ queue' = Append(queue, t)
    BY <1>3, ServiceEffect
  <2>2. /\ Len(queue') = n + 1
        /\ \A i \in 1 .. n : queue'[i] = queue[i]
        /\ queue'[n + 1].event = e
    BY <1>1, <2>1, EvAppend
  <2>3. overflow' = overflow
    BY <1>3, ServiceEffect
  <2>4. Noticed'
    BY <1>1, <2>2, <2>3 DEF Noticed
  <2>5. \A i \in 1 .. n : Waits(i)' <=> Waits(i)
    BY <1>1, <2>2 DEF Waits
  <2>6. CASE e = "READ"
    <3>1. "READ" \in flags /\ bus = "rwait" /\ "READ" \notin flags'
      BY <1>1, <2>6 DEF Peripheral
    <3>2. \A i \in 1 .. n : ~Waits(i)'
      BY <2>5, <3>1 DEF Awaited
    <3>3. \A i \in 1 .. n + 1 : Waits(i)' => i = n + 1
      BY <3>2
    <3>4. \A i \in 1 .. Len(queue') : Waits(i)' => i = n + 1
      BY <2>2, <3>3
    <3>5. bus' = "rwait"
      BY <1>1, <3>1
    <3>6. QED
      BY <2>4, <3>1, <3>4, <3>5 DEF Awaited
  <2>7. CASE e # "READ"
    <3>1. ~Waits(n + 1)'
      BY <2>2, <2>7 DEF Waits
    <3>2. \A i \in 1 .. n + 1 : Waits(i)' => i \in 1 .. n /\ Waits(i)
      BY <2>5, <3>1
    <3>3. Awaited'
      BY <1>1, <2>2, <3>2 DEF Awaited
    <3>4. QED
      BY <2>4, <3>3
  <2>8. QED
    BY <2>6, <2>7
<1>4. QED
  BY <1>2, <1>3

LEMMA EnterKeeps ==
    ASSUME IInv, IrqEnter
    PROVE  (Peripheral /\ Windows /\ Noticed /\ Awaited)'
<1>1. /\ UNCHANGED <<bus, flags, rx, slaveOn, queue, overflow, pc, prev, cmdIdx>>
      /\ slaveOn /\ irq = {} /\ irq' = Raised /\ ~overflow
  BY DEF IrqEnter, laptopVars, mainVars
<1>2. /\ \A i : Ev(i)' = Ev(i)
      /\ Last' = Last /\ First' = First
  BY <1>1, EvSame DEF First
<1>3. \A i : SafeAt(i)' <=> SafeAt(i)
  BY <1>1, <1>2 DEF SafeAt
<1>4. Peripheral'
  BY <1>1 DEF IInv, Peripheral, Raised
<1>5. FirstSafe' /\ PairsSafe'
  BY <1>1, <1>2, <1>3 DEF IInv, Windows, FirstSafe, PairsSafe
<1>6. StartFirst' => rx = <<>> \/ StartFirst
  BY <1>1 DEF StartFirst, Raised
<1>7. rx # <<>> /\ StartFirst => StartFirst'
  BY <1>1 DEF StartFirst, Raised
<1>8. NextSafe'
  BY <1>1, <1>2, <1>3, <1>7 DEF IInv, Windows, NextSafe
<1>9. StartComes' /\ WriteBeforeRead'
  BY <1>1, <1>2 DEF IInv, Windows, StartComes, WriteBeforeRead, Raised
<1>10. Noticed' /\ Awaited'
  BY <1>1 DEF IInv, Noticed, Awaited, Waits
<1>11. QED
  BY <1>4, <1>5, <1>8, <1>9, <1>10 DEF Windows

-----------------------------------------------------------------------------
(* The main loop. *)

(* Between interrupts a disabled peripheral and an idle one look the same. *)
LEMMA Quiet ==
    ASSUME Peripheral, Running
    PROVE  irq = {} /\ flags = {} /\ rx = <<>>
  BY DEF Running, Raised, Peripheral

(* Then nothing is on its way to the queue. *)
LEMMA QuietWindows ==
    ASSUME irq' = {}, flags' = {}, rx' = <<>>, ~(bus' = "w" /\ Last' = "READ" /\ ~overflow')
    PROVE  NextSafe' /\ StartComes' /\ WriteBeforeRead'
  BY DEF NextSafe, StartComes, WriteBeforeRead

LEMMA ProcessIndex ==
    ASSUME Basic, Process
    PROVE  /\ queue[1].event = "READ" => cmdIdx' = cmdIdx
           /\ queue[1].event = "WRITE" => IF prev = "READ" THEN cmdIdx' = cmdIdx ELSE cmdIdx' >= 1
           /\ queue[1].event # "READ" => bus' = bus
           /\ bus' = bus \/ (bus = "rwait" /\ bus' = "r")
<1> USE DEF Process, Handle
<1>1. Head(queue) = queue[1]
  BY ProcessFrame, HeadTailProperties DEF Basic, TypeOK, HandlerTypeOK
<1>2. CASE ProcessWrite
  <2>1. cmdIdx \in Nat
    BY DEF Basic, TypeOK, CmdTypeOK
  <2>2. IF prev = "READ" THEN cmdIdx' = cmdIdx ELSE cmdIdx' >= 1
    BY <1>2, <2>1, ConstantsAssumption DEF ProcessWrite, CmdFull
  <2>3. QED
    BY <1>1, <1>2, <2>2 DEF ProcessWrite, laptopVars
<1>3. CASE ProcessRead
  BY <1>1, <1>3 DEF ProcessRead, AnswerZero, AnswerOverride, AnswerBms, AnswerStale, Answer
<1>4. CASE ProcessStop \/ ProcessStart
  BY <1>1, <1>4 DEF ProcessStop, ProcessStart, laptopVars
<1>5. QED
  BY <1>2, <1>3, <1>4

LEMMA ProcessKeeps ==
    ASSUME IInv, Process
    PROVE  (Peripheral /\ Windows /\ Noticed /\ Awaited)'
<1> DEFINE n == Len(queue)
<1>1. /\ UNCHANGED <<flags, rx, slaveOn, irq, queue, overflow, prev>>
      /\ pc = "loop" /\ pc' = "pop" /\ queue # <<>> /\ ~overflow
      /\ irq = {} /\ flags = {} /\ rx = <<>>
  BY ProcessFrame, Quiet DEF IInv
<1>2. First = 0 /\ First' = 1
  BY <1>1 DEF First
<1>3. n \in Nat /\ n >= 1
  BY <1>1, LenProperties, EmptySeq DEF IInv, Basic, TypeOK, HandlerTypeOK
<1>4. /\ \A i : Ev(i)' = Ev(i)
      /\ Last' = Last /\ Len(queue') = n
  BY <1>1, EvSame
<1>5. Ev(1) = queue[1].event /\ Ev(0) = prev
  BY DEF Ev
<1>6. /\ Ev(1) = "READ" => cmdIdx' = cmdIdx
      /\ Ev(1) = "WRITE" => IF prev = "READ" THEN cmdIdx' = cmdIdx ELSE cmdIdx' >= 1
      /\ Ev(1) # "READ" => bus' = bus
      /\ bus' = bus \/ (bus = "rwait" /\ bus' = "r")
  BY <1>5, ProcessIndex DEF IInv
<1>7. Peripheral'
  BY <1>1, <1>6 DEF IInv, Peripheral
<1>8. FirstSafe'
  <2>1. SUFFICES ASSUME Ev(1) = "WRITE" PROVE cmdIdx' >= 1
    BY <1>2, <1>4 DEF FirstSafe
  <2>2. CASE prev = "READ"
    <3>1. SafeAt(0)
      BY <1>2, <1>3, <1>5, <2>1, <2>2 DEF IInv, Windows, PairsSafe
    <3>2. QED
      BY <1>2, <1>6, <2>1, <2>2, <3>1 DEF SafeAt
  <2>3. QED
    BY <1>6, <2>1, <2>2
<1>9. PairsSafe'
  <2>1. SUFFICES ASSUME NEW i \in 1 .. n - 1, Ev(i) = "READ", Ev(i + 1) = "WRITE"
                 PROVE  SafeAt(i)'
    BY <1>2, <1>4 DEF PairsSafe
  <2>2. i \in 0 .. n - 1 /\ i > 0
    BY <1>3
  <2>3. Ev(i - 1) = "WRITE"
    BY <1>2, <2>1, <2>2 DEF IInv, Windows, PairsSafe, SafeAt
  <2>4. CASE i > 1
    BY <1>2, <1>4, <2>3, <2>4 DEF SafeAt
  <2>5. CASE i = 1
    <3>1. cmdIdx >= 1
      BY <1>2, <2>3, <2>5 DEF IInv, Windows, FirstSafe
    <3>2. QED
      BY <1>2, <1>6, <2>1, <2>5, <3>1 DEF SafeAt
  <2>6. QED
    BY <2>2, <2>4, <2>5
<1>10. NextSafe' /\ StartComes' /\ WriteBeforeRead'
  BY <1>1, <1>4, <1>6, QuietWindows DEF IInv, Windows, StartComes
<1>11. Noticed'
  BY <1>1 DEF Noticed
<1>12. Awaited'
  <2>1. \A i \in 1 .. n : Waits(i)' => i > 1 /\ Waits(i)
    BY <1>1 DEF Waits
  <2>2. ASSUME NEW i \in 1 .. n, Waits(i)' PROVE queue[1].event # "READ"
    <3>1. ~Waits(1)
      BY <1>3, <2>1, <2>2 DEF IInv, Awaited
    <3>2. QED
      BY <1>1, <3>1 DEF Waits
  <2>3. ASSUME NEW i \in 1 .. n, Waits(i)' PROVE bus' = "rwait"
    BY <1>5, <1>6, <2>1, <2>2, <2>3 DEF IInv, Awaited
  <2>4. QED
    BY <1>1, <1>4, <2>1, <2>3 DEF IInv, Awaited
<1>13. QED
  BY <1>7, <1>8, <1>9, <1>10, <1>11, <1>12 DEF Windows

LEMMA PopKeeps ==
    ASSUME IInv, Pop
    PROVE  (Peripheral /\ Windows /\ Noticed /\ Awaited)'
<1>0. PICK n \in Nat : n = Len(queue)
  BY LenProperties DEF IInv, Basic, TypeOK, HandlerTypeOK
<1> USE <1>0
<1>1. /\ UNCHANGED <<bus, flags, rx, slaveOn, irq, overflow, cmdIdx>>
      /\ pc = "pop" /\ pc' = "loop" /\ First = 1 /\ First' = 0
      /\ n >= 1 /\ Len(queue') = n - 1
      /\ \A i \in 0 .. n - 1 : \A k : k = i + 1 => Ev(i)' = Ev(k)
      /\ \A i \in 1 .. n - 1 : queue'[i] = queue[i + 1]
  BY EvPop DEF IInv
<1>2. irq = {} /\ flags = {} /\ rx = <<>>
  BY Quiet DEF IInv, Pop, Popped
<1>3. Last' = Last
  BY <1>1 DEF Last, Ev
<1>4. Peripheral'
  BY <1>1, <1>2 DEF IInv, Peripheral
<1>5. FirstSafe'
  BY <1>1 DEF IInv, Windows, FirstSafe
<1>6. PairsSafe'
  <2>1. SUFFICES ASSUME NEW i \in 0 .. n - 2, Ev(i)' = "READ", Ev(i + 1)' = "WRITE"
                 PROVE  SafeAt(i)'
    BY <1>1 DEF PairsSafe
  <2>2. i \in 0 .. n - 1 /\ i + 1 \in 0 .. n - 1 /\ i + 1 \in 1 .. n - 1
    OBVIOUS
  <2>3. Ev(i + 1) = "READ" /\ Ev(i + 2) = "WRITE"
    BY <1>1, <2>1, <2>2
  <2>4. SafeAt(i + 1)
    <3>1. \A j \in 1 .. n - 1 : Ev(j) = "READ" /\ Ev(j + 1) = "WRITE" => SafeAt(j)
      BY <1>1 DEF IInv, Windows, PairsSafe
    <3>2. \A k : k = i + 2 => Ev(k) = "WRITE"
      BY <2>3
    <3>3. (i + 1) + 1 = i + 2
      OBVIOUS
    <3>4. QED
      BY <2>2, <2>3, <3>1, <3>2, <3>3
  <2>5. CASE i = 0
    BY <1>1, <2>4, <2>5 DEF SafeAt
  <2>6. CASE i > 0
    <3>1. Ev(i) = "WRITE"
      BY <1>1, <2>4, <2>6 DEF SafeAt
    <3>2. i - 1 \in 0 .. n - 1 /\ i = (i - 1) + 1
      BY <2>6
    <3>3. Ev(i - 1)' = "WRITE"
      BY <1>1, <3>1, <3>2
    <3>4. QED
      BY <1>1, <2>6, <3>3 DEF SafeAt
  <2>7. QED
    BY <2>2, <2>5, <2>6
<1>7. NextSafe' /\ StartComes' /\ WriteBeforeRead'
  BY <1>1, <1>2, <1>3, QuietWindows DEF IInv, Windows, StartComes
<1>8. Noticed'
  BY <1>1 DEF IInv, Noticed
<1>9. Awaited'
  <2>1. \A i \in 1 .. n - 1 : i + 1 \in 1 .. n /\ (Waits(i)' => Waits(i + 1))
    <3>1. SUFFICES ASSUME NEW i \in 1 .. n - 1, Waits(i)' PROVE Waits(i + 1)
      OBVIOUS
    <3>2. queue[i + 1].event = "READ" /\ i + 1 > 1
      BY <1>1, <3>1 DEF Waits
    <3>3. QED
      BY <3>2 DEF Waits
  <2>2. SUFFICES ASSUME NEW i \in 1 .. n - 1, Waits(i)'
                 PROVE  /\ bus = "rwait" /\ "READ" \notin flags
                        /\ \A j \in 1 .. n - 1 : Waits(j)' => i = j
    BY <1>1 DEF Awaited
  <2>3. Waits(i + 1) /\ i + 1 \in 1 .. n
    BY <2>1, <2>2
  <2>4. ASSUME NEW j \in 1 .. n - 1, Waits(j)' PROVE i = j
    <3>1. i + 1 = j + 1
      BY <2>1, <2>3, <2>4 DEF IInv, Awaited
    <3>2. QED
      BY <3>1
  <2>5. QED
    BY <2>3, <2>4 DEF IInv, Awaited
<1>10. QED
  BY <1>4, <1>5, <1>6, <1>7, <1>8, <1>9 DEF Windows

(* What the other steps of the main loop have in common: they move neither *)
(* the events nor the place of the first one, and never lower the index    *)
(* from one to zero.                                                       *)
LEMMA StillKeeps ==
    ASSUME IInv, Running, UNCHANGED <<bus, flags, rx, irq, queue, prev>>,
           pc # "pop", pc' # "pop", cmdIdx >= 1 => cmdIdx' >= 1,
           pc' = "asleep" <=> ~slaveOn', slaveOn => slaveOn',
           overflow' = overflow \/ (pc = "asleep" /\ overflow' = FALSE),
           overflow' /\ pc' = "loop" => pc = "loop"
    PROVE  (Peripheral /\ Windows /\ Noticed /\ Awaited)'
<1>1. irq = {} /\ flags = {} /\ rx = <<>>
  BY Quiet DEF IInv
<1>2. /\ \A i : Ev(i)' = Ev(i)
      /\ Last' = Last /\ Len(queue') = Len(queue) /\ First = 0 /\ First' = 0
  BY EvSame DEF First
<1>3. \A i \in 0 .. Len(queue) : SafeAt(i) => SafeAt(i)'
  BY <1>2 DEF SafeAt
<1>4. Peripheral'
  BY <1>1 DEF IInv, Peripheral
<1>5. FirstSafe'
  BY <1>2 DEF IInv, Windows, FirstSafe
<1>6. PairsSafe'
  BY <1>2, <1>3 DEF IInv, Windows, PairsSafe
<1>7. NextSafe' /\ StartComes' /\ WriteBeforeRead'
  <2>1. bus = "w" => pc # "asleep"
    BY DEF IInv, Peripheral
  <2>2. ~(bus = "w" /\ Last = "READ" /\ ~overflow')
    BY <1>1, <2>1 DEF IInv, Windows, StartComes
  <2>3. QED
    BY <1>1, <1>2, <2>2, QuietWindows
<1>8. Noticed'
  BY DEF IInv, Noticed
<1>9. Awaited'
  BY DEF IInv, Awaited, Waits
<1>10. QED
  BY <1>4, <1>5, <1>6, <1>7, <1>8, <1>9 DEF Windows

LEMMA DropOffKeeps ==
    ASSUME IInv, DropOff
    PROVE  (Peripheral /\ Windows /\ Noticed /\ Awaited)'
<1>1. /\ queue' = <<>> /\ slaveOn' = FALSE /\ flags' = {} /\ rx' = <<>> /\ irq' = {}
      /\ bus' \in {"idle", "other"} /\ pc = "enter" /\ pc' = "asleep"
      /\ UNCHANGED <<prev, cmdIdx, overflow>> /\ overflow
  BY DEF DropOff, Running
<1>2. Len(queue') = 0 /\ First = 0 /\ First' = 0
  BY <1>1 DEF First
<1>3. Peripheral'
  BY <1>1 DEF Peripheral
<1>4. FirstSafe'
  BY <1>1, <1>2 DEF IInv, Windows, FirstSafe, Ev
<1>5. PairsSafe'
  BY <1>2 DEF PairsSafe
<1>6. NextSafe' /\ StartComes' /\ WriteBeforeRead'
  BY <1>1, QuietWindows
<1>7. Noticed' /\ Awaited'
  BY <1>1, <1>2 DEF Noticed, Awaited
<1>8. QED
  BY <1>3, <1>4, <1>5, <1>6, <1>7 DEF Windows

LEMMA RestKeeps ==
    ASSUME IInv,
           \/ Enter \/ ComeBack \/ LoopExit \/ LoopBreak \/ UpdateDone
           \/ \E c \in Byte : GuiRead(c)
    PROVE  (Peripheral /\ Windows /\ Noticed /\ Awaited)'
<1> USE DEF laptopVars, handlerVars
<1>1. CASE Enter \/ LoopExit \/ LoopBreak \/ UpdateDone
  <2>1. pc # "asleep" /\ slaveOn
    BY <1>1 DEF Enter, LoopExit, LoopBreak, UpdateDone, IInv, Peripheral, Basic, TypeOK,
                WireTypeOK
  <2>2. Running /\ MainOnly /\ pc # "pop" /\ pc' \in {"loop", "update", "enter"}
        /\ (overflow => pc' # "loop")
    BY <1>1 DEF Enter, LoopExit, LoopBreak, UpdateDone
  <2>3. QED
    BY <2>1, <2>2, StillKeeps DEF MainOnly
<1>2. CASE ComeBack
  BY <1>2, StillKeeps DEF ComeBack, OverflowAfter
<1>3. ASSUME NEW c \in Byte, GuiRead(c)
      PROVE  (Peripheral /\ Windows /\ Noticed /\ Awaited)'
  BY <1>3, StillKeeps DEF GuiRead, IInv, Peripheral
<1>4. QED
  BY <1>1, <1>2, <1>3

LEMMA NextIInv == IInv /\ [Next]_vars => IInv'
<1> SUFFICES ASSUME IInv, [Next]_vars PROVE IInv'
  OBVIOUS
<1> DEFINE Goal == (Peripheral /\ Windows /\ Noticed /\ Awaited)'
<1>1. SUFFICES Goal
  BY BasicNext DEF IInv
<1>2. CASE Laptop
  BY <1>2, LaptopPeripheral, LaptopWindows, LaptopAwaited DEF IInv
<1>3. CASE IrqEnter
  BY <1>3, EnterKeeps
<1>4. ASSUME NEW e \in Event, Service(e) PROVE Goal
  BY <1>4, ServicePeripheral, ServiceWindows, ServiceAwaited DEF IInv
<1>5. CASE Process
  BY <1>5, ProcessKeeps
<1>6. CASE Pop
  BY <1>6, PopKeeps
<1>7. CASE DropOff
  BY <1>7, DropOffKeeps
<1>8. CASE \/ Enter \/ ComeBack \/ LoopExit \/ LoopBreak \/ UpdateDone
           \/ \E c \in Byte : GuiRead(c)
  BY <1>8, RestKeeps
<1>9. CASE UNCHANGED vars
  <2>1. UNCHANGED <<bus, flags, rx, slaveOn, irq, queue, overflow, pc, prev, cmdIdx>>
    BY <1>9 DEF vars, laptopVars, handlerVars, mainVars
  <2>2. QED
    BY <2>1 DEF IInv, Peripheral, Windows, FirstSafe, PairsSafe, NextSafe, StartComes,
                WriteBeforeRead, Noticed, Awaited, Waits, SafeAt, StartFirst, Last, Ev, First
<1>10. CASE IrqReturns
  BY <1>9, <1>10 DEF IrqReturns
<1>11. QED
  BY <1>2, <1>3, <1>4, <1>5, <1>6, <1>7, <1>8, <1>9, <1>10
     DEF Next, Handler, Main, MainStep, Process

(* The inductive invariant holds in every reachable state: what the         *)
(* handler's order (mitm.c:83-106), the flushing of the queue and the      *)
(* loop's tests keep true between them.                                    *)
THEOREM Inductive == Spec => []IInv
  BY InitIInv, NextIInv, PTL DEF Spec

-----------------------------------------------------------------------------

(* mitm_cmd_buffer[mitm_cmd_buffer_index - 1] is a cell of the buffer      *)
(* whenever mitm_loop reads it: with any sizes, any lateness, any loss.    *)
THEOREM NoUnderrunHolds == Spec => []NoUnderrun
<1>1. IInv => NoUnderrun
  BY DEF IInv, Windows, FirstSafe, First, Ev, NoUnderrun
<1>2. QED
  BY <1>1, Inductive, PTL

(* A READ the loop has still to handle is one the laptop is held in: every *)
(* byte the loop hands to the peripheral is asked for.                     *)
THEOREM ReadIsAwaitedHolds == Spec => []ReadIsAwaited
<1>1. IInv => ReadIsAwaited
  BY DEF IInv, Awaited, Waits, ReadIsAwaited
<1>2. QED
  BY <1>1, Inductive, PTL

(* The queue does not run empty behind a set overflow flag while the loop  *)
(* spins on it, which would be for ever.                                   *)
THEOREM OverflowNoticedHolds == Spec => []OverflowNoticed
<1>1. IInv => OverflowNoticed
  BY LenProperties, EmptySeq DEF IInv, Noticed, OverflowNoticed
<1>2. QED
  BY <1>1, Inductive, PTL

-----------------------------------------------------------------------------
(* No answer is stale.  What taints the reply buffer while an override is  *)
(* set is wiped by the START the laptop has to send before it reads again. *)

(* What the loop has still to handle. *)
Still(i, e) == queue[i].event = e /\ i > First

StartQueued == \E j \in 1 .. Len(queue) : Still(j, "START")

(* The loop leaves off after a transaction, or because of an overflow; the *)
(* buses are dropped with nothing queued.                                  *)
Handover ==
    /\ pc \in {"update", "enter"} /\ ~overflow => prev \in {"STOP", "ABORT"}
    /\ pc = "asleep" => overflow /\ queue = <<>> /\ bms.open = "none"

Unset == Ev(First) \in {"STOP", "ABORT"} => ~override

(* The handler has seen every start that came before a read it has seen.   *)
Snapshot == "READ" \in irq /\ "START" \in flags => "START" \in irq

(* A start is handled before the reads that came after it ...              *)
Order ==
    /\ \A i \in 1 .. Len(queue) : Still(i, "READ") =>
          /\ "START" \notin flags
          /\ \A j \in 1 .. Len(queue) : Still(j, "START") => j < i
    /\ bus = "r" => "START" \notin flags /\ ~StartQueued

(* ... which is what resets an override whose reply the display has        *)
(* written over: it only gets to do so after an overflow.                  *)
Own(p) == p = "zero" \/ (p = "override" /\ ~trash)
Tainted == override /\ ~(\A i \in DOMAIN reply : i < extent => Own(reply[i]))

Trashed == trash => override /\ extent = ReplySize

Renewed ==
    /\ \A i \in 1 .. Len(queue) : Still(i, "READ") =>
          \E j \in 1 .. Len(queue) : j < i /\ Still(j, "START")
    /\ bus \in {"raddr", "rwait", "r"} => "START" \in flags \/ StartQueued

Renews == Tainted => overflow \/ Renewed

Clean ==
    /\ Unset
    /\ Trashed
    /\ Snapshot
    /\ Order
    /\ Renews
    /\ NoStaleAnswer

LEMMA QueueIsSeq == ASSUME Basic PROVE queue \in Seq(Transfer) /\ Len(queue) \in Nat
  BY LenProperties DEF Basic, TypeOK, HandlerTypeOK

(* The laptop and the handler leave the loop's variables alone. *)
LEMMA Apart == ASSUME Laptop \/ Handler PROVE UNCHANGED mainVars
  BY DEF Laptop, LaptopStart, LaptopWrite, LaptopRead, LaptopStop, SlaveAborts, Handler,
         IrqEnter, IrqReturns, Service, vars

LEMMA HandoverInit == Init => Handover
  BY DEF Init, Handover

LEMMA HandoverNext == ASSUME IInv, Handover, [Next]_vars PROVE Handover'
<1>1. CASE Laptop
  BY <1>1, Apart, LaptopEffect DEF Handover, mainVars
<1>2. CASE IrqEnter \/ IrqReturns \/ UNCHANGED vars
  BY <1>2 DEF Handover, IrqEnter, IrqReturns, vars, handlerVars, mainVars
<1>3. ASSUME NEW e \in Event, Service(e) PROVE Handover'
  <2>1. UNCHANGED mainVars
    BY <1>3, Apart DEF Handler
  <2>2. pc # "asleep" /\ (overflow => overflow')
    BY <1>3, ServiceEffect DEF IInv, Peripheral
  <2>3. QED
    BY <2>1, <2>2 DEF Handover, mainVars
<1>4. CASE Process
  BY <1>4, ProcessFrame DEF Handover
<1>5. CASE Pop
  BY <1>5 DEF Pop, Handover
<1>6. CASE Enter \/ LoopExit \/ LoopBreak \/ UpdateDone
  BY <1>6 DEF Enter, LoopExit, LoopBreak, UpdateDone, MainOnly, handlerVars, Ended, Handover
<1>7. CASE DropOff \/ ComeBack
  BY <1>7 DEF DropOff, ComeBack, Closed, Handover
<1>8. ASSUME NEW c \in Byte, GuiRead(c) PROVE Handover'
  BY <1>8 DEF GuiRead, handlerVars, Handover
<1>9. QED
  BY <1>1, <1>2, <1>3, <1>4, <1>5, <1>6, <1>7, <1>8 DEF Next, Handler, Main, MainStep, Process

LEMMA HandoverInductive == Spec => []Handover
<1>1. IInv /\ Handover /\ [Next]_vars => Handover'
  BY HandoverNext
<1>2. QED
  BY <1>1, HandoverInit, Inductive, PTL DEF Spec

LEMMA CleanInit == Init => Clean
  BY DEF Init, Clean, Unset, Trashed, Snapshot, Order, Renews, Tainted, NoStaleAnswer,
         StartQueued, Ev, First

LEMMA StillSame ==
    ASSUME queue' = queue, First' = First
    PROVE  /\ \A i, e : Still(i, e)' <=> Still(i, e)
           /\ Len(queue') = Len(queue)
           /\ StartQueued' <=> StartQueued
  BY DEF Still, StartQueued

(* Clean's conjuncts about the loop alone. *)
LEMMA LoopSame ==
    ASSUME Clean, UNCHANGED mainVars, Ev(First)' = Ev(First)
    PROVE  Unset' /\ Trashed' /\ (Tainted' <=> Tainted)
<1>1. Tainted' <=> Tainted
  BY DEF mainVars, Tainted, Own
<1>2. QED
  BY <1>1 DEF mainVars, Clean, Unset, Trashed

LEMMA CleanLaptop == ASSUME IInv, Clean, Laptop PROVE Clean'
<1>1. UNCHANGED mainVars /\ UNCHANGED <<slaveOn, irq, queue, overflow, pc, prev>>
  BY Apart, LaptopEffect DEF mainVars
<1>2. First' = First /\ (\A i : Ev(i)' = Ev(i))
  BY <1>1, EvSame DEF First
<1>3. /\ \A i, e : Still(i, e)' <=> Still(i, e)
      /\ Len(queue') = Len(queue)
      /\ StartQueued' <=> StartQueued
  BY <1>1, <1>2, StillSame
<1>4. Unset' /\ Trashed' /\ (Tainted' <=> Tainted)
  BY <1>1, <1>2, LoopSame
<1>5. \/ /\ bus # "rwait" /\ Raise("START") /\ bus' \in {"w", "raddr", "other"}
         /\ ~slaveOn => bus' = "other"
      \/ "START" \in flags' <=> "START" \in flags
  BY LaptopEffect DEF Raise
<1>6. Snapshot'
  BY <1>1, <1>5 DEF Clean, Snapshot, IInv, Peripheral, Raise
<1>7. Order'
  <2>1. \A i \in 1 .. Len(queue) : Still(i, "READ") => bus = "rwait"
    BY DEF IInv, Awaited, Waits, Still, First
  <2>2. bus' = "r" => FALSE
    BY LaptopEffect
  <2>3. QED
    BY <1>3, <1>5, <2>1, <2>2 DEF Clean, Order
<1>8. Renews'
  <2>1. bus' \in {"raddr", "rwait", "r"} =>
           \/ bus \in {"raddr", "rwait", "r"} /\ ("START" \in flags => "START" \in flags')
           \/ "START" \in flags'
    BY LaptopEffect DEF Raise
  <2>2. Renewed => Renewed'
    BY <1>3, <2>1 DEF Renewed
  <2>3. QED
    BY <1>1, <1>4, <2>2 DEF Clean, Renews
<1>9. NoStaleAnswer'
  BY <1>1, LaptopEffect DEF NoStaleAnswer
<1>10. QED
  BY <1>4, <1>6, <1>7, <1>8, <1>9 DEF Clean

LEMMA StillAppend ==
    ASSUME Basic, NEW t \in Transfer, queue' = Append(queue, t), pc' = pc, prev' = prev
    PROVE  /\ Len(queue) \in Nat /\ Len(queue') = Len(queue) + 1
           /\ First' = First /\ First <= Len(queue)
           /\ \A e : \A i \in 1 .. Len(queue) : Still(i, e)' <=> Still(i, e)
           /\ \A e, k : k = Len(queue) + 1 => (Still(k, e)' <=> t.event = e)
           /\ StartQueued' <=> StartQueued \/ t.event = "START"
<1>1. /\ Len(queue) \in Nat
      /\ First \in {0, 1} /\ First <= Len(queue) /\ First' = First
      /\ Len(queue') = Len(queue) + 1
      /\ \A i \in 1 .. Len(queue) : queue'[i] = queue[i]
      /\ queue'[Len(queue) + 1] = t
  BY EvAppend
<1>2. \A e : \A i \in 1 .. Len(queue) : Still(i, e)' <=> Still(i, e)
  BY <1>1 DEF Still
<1>3. \A e, k : k = Len(queue) + 1 => (Still(k, e)' <=> t.event = e)
  BY <1>1 DEF Still
<1>4. StartQueued' <=> StartQueued \/ t.event = "START"
  BY <1>1, <1>2, <1>3 DEF StartQueued
<1>5. QED
  BY <1>1, <1>2, <1>3, <1>4

LEMMA CleanService ==
    ASSUME IInv, Clean, NEW e \in Event, Service(e)
    PROVE  Clean'
<1>1. UNCHANGED mainVars /\ UNCHANGED <<bus, pc, prev>> /\ irq' = irq \ {e}
      /\ flags' = flags \ {e} /\ e \in irq /\ MayServe(e)
  BY Apart, ServiceEffect DEF mainVars, IInv, Handler
<1>2. NoStaleAnswer'
  BY <1>1 DEF NoStaleAnswer, mainVars, Clean
<1>3. Snapshot'
  BY <1>1 DEF Clean, Snapshot
<1>5. CASE overflow' = TRUE /\ queue' = queue
  <2>1. First' = First /\ (\A i : Ev(i)' = Ev(i))
    BY <1>1, <1>5, EvSame DEF First
  <2>2. Unset' /\ Trashed'
    BY <1>1, <1>5, <2>1, LoopSame
  <2>3. Order'
    BY <1>1, <1>5, <2>1, StillSame DEF Clean, Order
  <2>4. Renews'
    BY <1>5 DEF Renews
  <2>5. QED
    BY <1>2, <1>3, <2>2, <2>3, <2>4 DEF Clean
<1>6. ASSUME overflow' = overflow, NEW t \in Transfer, t.event = e, queue' = Append(queue, t)
      PROVE  Clean'
  <2>0. PICK n \in Nat : n = Len(queue)
    BY QueueIsSeq DEF IInv
  <2>1. /\ Len(queue') = n + 1
        /\ First' = First /\ First <= n
        /\ \A f : \A i \in 1 .. n : Still(i, f)' <=> Still(i, f)
        /\ \A f : Still(n + 1, f)' <=> e = f
        /\ StartQueued' <=> StartQueued \/ e = "START"
    BY <1>1, <1>6, <2>0, StillAppend DEF IInv
  <2>2. Ev(First)' = Ev(First)
    BY <1>1, <1>6, EvAppend DEF IInv
  <2>3. Unset' /\ Trashed' /\ (Tainted' <=> Tainted)
    BY <1>1, <1>6, <2>2, LoopSame
  <2>4. e = "READ" => "START" \notin flags /\ bus = "rwait"
    BY <1>1 DEF MayServe, Clean, Snapshot, IInv, Peripheral
  <2>5. e = "START" => "START" \in flags
    BY <1>1 DEF IInv, Peripheral
  <2>6. Order'
    BY <1>1, <2>0, <2>1, <2>4, <2>5 DEF Clean, Order, StartQueued
  <2>7. Renewed => Renewed'
    <3>1. SUFFICES ASSUME Renewed PROVE Renewed'
      OBVIOUS
    <3>2. bus' \in {"raddr", "rwait", "r"} => "START" \in flags' \/ StartQueued'
      BY <1>1, <2>1, <3>1 DEF Renewed
    <3>3. \A i \in 1 .. n : Still(i, "READ")' =>
            \E j \in 1 .. Len(queue') : j < i /\ Still(j, "START")'
      BY <2>0, <2>1, <3>1 DEF Renewed
    <3>4. Still(n + 1, "READ")' =>
            \E j \in 1 .. Len(queue') : j < n + 1 /\ Still(j, "START")'
      BY <2>0, <2>1, <2>4, <3>1 DEF Renewed, StartQueued
    <3>5. QED
      BY <2>1, <3>2, <3>3, <3>4 DEF Renewed
  <2>8. QED
    BY <1>2, <1>3, <1>6, <2>3, <2>6, <2>7 DEF Clean, Renews
<1>7. QED
  BY <1>5, <1>6, ServiceEffect DEF IInv

LEMMA CleanEnter == ASSUME IInv, Clean, IrqEnter PROVE Clean'
<1>1. /\ UNCHANGED mainVars /\ UNCHANGED <<bus, flags, queue, overflow, pc, prev>>
      /\ irq' = Raised
  BY DEF IrqEnter, laptopVars, mainVars
<1>2. First' = First /\ (\A i : Ev(i)' = Ev(i))
  BY <1>1, EvSame DEF First
<1>3. Unset' /\ Trashed' /\ (Tainted' <=> Tainted)
  BY <1>1, <1>2, LoopSame
<1>4. Snapshot'
  BY <1>1 DEF Snapshot, Raised
<1>5. Order' /\ Renews'
  BY <1>1, <1>2, <1>3, StillSame DEF Clean, Order, Renews, Renewed
<1>6. NoStaleAnswer'
  BY <1>1 DEF NoStaleAnswer, mainVars, Clean
<1>7. QED
  BY <1>3, <1>4, <1>5, <1>6 DEF Clean

(* What the loop does to the reply, the battery answering everything. *)
LEMMA ReplyEffect ==
    ASSUME "healthy" \in Assumed, Basic, Process
    PROVE  \/ /\ queue[1].event = "WRITE"
              /\ UNCHANGED <<reply, override, extent, trash, answer, within, bus>>
           \/ /\ queue[1].event = "READ" /\ UNCHANGED <<override, extent, trash>>
              /\ within' = (replyIdx < extent)
              /\ bus' = IF bus = "rwait" THEN "r" ELSE bus
              /\ \/ answer' = "zero" /\ reply' = [reply EXCEPT ![0] = "zero"]
                 \/ override /\ answer' = reply[replyIdx] /\ reply' = reply
                 \/ ~override /\ answer' = "bms"
           \/ /\ queue[1].event \in {"STOP", "ABORT"}
              /\ ~override' /\ ~trash' /\ UNCHANGED <<answer, within, bus>>
           \/ /\ queue[1].event = "START" /\ UNCHANGED <<answer, within, bus>>
              /\ Trashed'
              /\ ~Tainted'
<1> USE DEF Process, Handle
<1>1. Head(queue) = queue[1]
  BY ProcessFrame, HeadTailProperties DEF Basic, TypeOK, HandlerTypeOK
<1>2. CASE ProcessWrite
  BY <1>1, <1>2 DEF ProcessWrite, NoReplyChange, laptopVars
<1>3. CASE ProcessRead
  BY <1>1, <1>3 DEF ProcessRead, AnswerZero, AnswerOverride, AnswerBms, AnswerStale, Answer
<1>4. CASE ProcessStop
  BY <1>1, <1>4 DEF ProcessStop, NoOverride, laptopVars
<1>5. CASE ProcessStart
  <2>1. NoOverride \/ OverrideReplies \/ OverrideFails
    BY <1>5 DEF ProcessStart, SwitchToRead
  <2>2. Trashed' /\ ~Tainted'
    BY <2>1 DEF NoOverride, OverrideReplies, OverrideFails, Over, Aged, Trashed, Tainted, Own
  <2>3. QED
    BY <1>1, <1>5, <2>2 DEF ProcessStart, laptopVars
<1>6. QED
  BY <1>2, <1>3, <1>4, <1>5

LEMMA StillProcess ==
    ASSUME Basic, Process
    PROVE  /\ Len(queue) \in Nat /\ Len(queue) >= 1 /\ Len(queue') = Len(queue)
           /\ \A i, e : i \in 1 .. Len(queue) => (Still(i, e)' <=> Still(i, e) /\ i # 1)
           /\ \A e : Still(1, e) <=> queue[1].event = e
           /\ First = 0 /\ First' = 1
<1>1. queue' = queue /\ First = 0 /\ First' = 1 /\ queue # <<>>
  BY ProcessFrame DEF First
<1>2. Len(queue) \in Nat /\ Len(queue) >= 1
  BY <1>1, QueueIsSeq, EmptySeq
<1>3. QED
  BY <1>1, <1>2 DEF Still

(* A read that is handled now has no start ahead of it. *)
LEMMA ReadIsClean ==
    ASSUME IInv, Clean, Process, queue[1].event = "READ"
    PROVE  ~Tainted
<1>1. ~overflow
  BY ProcessFrame
<1>2. ~Renewed
  BY StillProcess DEF Renewed, IInv
<1>3. QED
  BY <1>1, <1>2 DEF Clean, Renews

LEMMA CleanProcess ==
    ASSUME "healthy" \in Assumed, IInv, Clean, Process
    PROVE  Clean'
<1>1. /\ UNCHANGED <<msg, flags, rx, slaveOn, irq, queue, overflow, prev>>
      /\ pc = "loop" /\ pc' = "pop" /\ queue # <<>> /\ ~overflow
      /\ irq = {} /\ flags = {} /\ rx = <<>>
  BY ProcessFrame, Quiet DEF IInv
<1>2. /\ Len(queue) \in Nat /\ Len(queue) >= 1 /\ Len(queue') = Len(queue)
      /\ \A i, e : i \in 1 .. Len(queue) => (Still(i, e)' <=> Still(i, e) /\ i # 1)
      /\ \A e : Still(1, e) <=> queue[1].event = e
      /\ First = 0 /\ First' = 1
  BY StillProcess DEF IInv
<1>3. Snapshot'
  BY <1>1 DEF Snapshot
<1> DEFINE event == queue[1].event
<1>4. Ev(First)' = event
  BY <1>1, <1>2 DEF Ev
<1>5. ~StartQueued => ~StartQueued'
  BY <1>2 DEF StartQueued
<1>6. \A i \in 1 .. Len(queue) : Still(i, "READ") => bus = "rwait"
  BY <1>1, <1>2 DEF IInv, Awaited, Waits, Still
<1>7. CASE event = "READ"
  <2>1. /\ UNCHANGED <<override, extent, trash>>
        /\ within' = (replyIdx < extent)
        /\ \/ answer' = "zero" /\ reply' = [reply EXCEPT ![0] = "zero"]
           \/ override /\ answer' = reply[replyIdx] /\ reply' = reply
           \/ ~override /\ answer' = "bms"
        /\ bus = "rwait" /\ bus' = "r"
    BY <1>2, <1>6, <1>7, ReplyEffect DEF IInv
  <2>2. ~Tainted
    BY <1>7, ReadIsClean
  <2>3. ~Tainted'
    BY <2>1, <2>2 DEF Tainted, Own, IInv, Basic, TypeOK, ReplyTypeOK
  <2>4. Unset' /\ Trashed'
    BY <1>4, <1>7, <2>1 DEF Clean, Unset, Trashed
  <2>5. ~StartQueued'
    BY <1>2, <1>7 DEF StartQueued, Clean, Order
  <2>6. Order'
    BY <1>1, <1>2, <2>5 DEF Clean, Order
  <2>7. NoStaleAnswer'
    <3>1. replyIdx \in DOMAIN reply /\ replyIdx < ReplySize
      BY ConstantsAssumption DEF IInv, Basic, TypeOK, ReplyTypeOK
    <3>2. CASE answer' = "zero"
      BY <3>2 DEF NoStaleAnswer
    <3>3. CASE override /\ answer' = reply[replyIdx]
      <4>1. replyIdx < extent => Own(reply[replyIdx])
        BY <2>2, <3>1, <3>3 DEF Tainted
      <4>2. trash => replyIdx < extent
        BY <3>1 DEF Clean, Trashed
      <4>3. QED
        BY <2>1, <3>3, <4>1, <4>2 DEF NoStaleAnswer, Own
    <3>4. CASE ~override /\ answer' = "bms"
      BY <2>1, <3>4 DEF NoStaleAnswer, Clean, Trashed
    <3>5. QED
      BY <2>1, <3>2, <3>3, <3>4
  <2>8. QED
    BY <1>3, <2>3, <2>4, <2>6, <2>7 DEF Clean, Renews
<1>8. CASE event = "WRITE"
  <2>1. UNCHANGED <<reply, override, extent, trash, answer, within, bus>>
    BY <1>8, ReplyEffect DEF IInv
  <2>2. Unset' /\ Trashed' /\ (Tainted' <=> Tainted)
    BY <1>4, <1>8, <2>1 DEF Clean, Unset, Tainted, Own, Trashed
  <2>3. Order'
    BY <1>1, <1>2, <1>5, <2>1 DEF Clean, Order
  <2>4. StartQueued' <=> StartQueued
    BY <1>2, <1>8 DEF StartQueued
  <2>5. Renewed => Renewed'
    BY <1>1, <1>2, <1>8, <2>1, <2>4 DEF Renewed
  <2>6. NoStaleAnswer'
    BY <2>1 DEF NoStaleAnswer, Clean
  <2>7. QED
    BY <1>1, <1>3, <2>2, <2>3, <2>5, <2>6 DEF Clean, Renews
<1>9. CASE event \in {"STOP", "ABORT", "START"}
  <2>1. /\ event # "START" => ~override' /\ ~trash'
        /\ event = "START" => ~Tainted'
        /\ Trashed'
        /\ UNCHANGED <<answer, within, bus>>
    BY <1>9, ReplyEffect DEF IInv, Trashed
  <2>2. ~Tainted'
    BY <1>9, <2>1 DEF Tainted
  <2>3. Unset'
    BY <1>4, <2>1 DEF Unset
  <2>4. Order'
    BY <1>1, <1>2, <1>5, <2>1 DEF Clean, Order
  <2>5. NoStaleAnswer'
    <3>1. event = "START" => bus # "r"
      BY <1>2 DEF Clean, Order, StartQueued
    <3>2. QED
      BY <1>9, <2>1, <3>1 DEF NoStaleAnswer, Clean
  <2>6. QED
    BY <1>3, <2>1, <2>2, <2>3, <2>4, <2>5 DEF Clean, Renews
<1>10. event \in Event
  <2>1. queue[1] \in Transfer
    BY <1>2, QueueIsSeq, ElementOfSeq DEF IInv
  <2>2. QED
    BY <2>1 DEF Transfer
<1>11. QED
  BY <1>7, <1>8, <1>9, <1>10 DEF Event

LEMMA CleanPop == ASSUME IInv, Clean, Pop PROVE Clean'
<1>0. PICK n \in Nat : n = Len(queue)
  BY QueueIsSeq DEF IInv
<1>1. /\ UNCHANGED <<bus, flags, irq, overflow, reply, override, extent, trash,
                  answer, within>>
      /\ pc = "pop" /\ pc' = "loop" /\ First = 1 /\ First' = 0
      /\ n >= 1 /\ Len(queue') = n - 1
      /\ \A i \in 0 .. n - 1 : \A k : k = i + 1 => Ev(i)' = Ev(k)
      /\ \A i \in 1 .. n - 1 : queue'[i] = queue[i + 1]
  BY <1>0, EvPop DEF IInv, Pop, NoReplyChange
<1>2. Ev(First)' = Ev(First)
  BY <1>1
<1>3. Unset' /\ Trashed' /\ Snapshot' /\ (Tainted' <=> Tainted)
      /\ NoStaleAnswer'
  BY <1>1, <1>2 DEF Clean, Unset, Snapshot, Tainted, Own, NoStaleAnswer, Trashed
<1>4. \A e : \A i \in 1 .. n - 1 : Still(i, e)' <=> Still(i + 1, e)
  BY <1>1 DEF Still
<1>5. \A e : \A j \in 1 .. n : Still(j, e) => j - 1 \in 1 .. n - 1 /\ j = (j - 1) + 1
  BY <1>1 DEF Still
<1>6. \A e : \A j \in 1 .. n : Still(j, e) => Still(j - 1, e)'
  BY <1>4, <1>5
<1>7. StartQueued' <=> StartQueued
  <2>1. StartQueued => StartQueued'
    BY <1>0, <1>1, <1>5, <1>6 DEF StartQueued
  <2>2. StartQueued' => StartQueued
    <3>1. ASSUME NEW j \in 1 .. n - 1, Still(j, "START")' PROVE StartQueued
      BY <1>0, <1>4, <3>1 DEF StartQueued
    <3>2. QED
      BY <1>1, <3>1 DEF StartQueued
  <2>3. QED
    BY <2>1, <2>2
<1>8. Order'
  <2>1. ASSUME NEW i \in 1 .. n - 1, Still(i, "READ")'
        PROVE  "START" \notin flags /\ \A j \in 1 .. n - 1 : Still(j, "START")' => j < i
    <3>1. i + 1 \in 1 .. n /\ Still(i + 1, "READ")
      BY <1>4, <2>1
    <3>2. \A j \in 1 .. n : Still(j, "START") => j < i + 1
      BY <1>0, <3>1 DEF Clean, Order
    <3>3. ASSUME NEW j \in 1 .. n - 1, Still(j, "START")' PROVE j < i
      <4>1. j + 1 \in 1 .. n /\ Still(j + 1, "START")
        BY <1>4, <3>3
      <4>2. j + 1 < i + 1
        BY <3>2, <4>1
      <4>3. QED
        BY <4>2
    <3>4. QED
      BY <1>0, <3>1, <3>3 DEF Clean, Order
  <2>2. QED
    BY <1>1, <1>7, <2>1 DEF Clean, Order
<1>9. Renewed => Renewed'
  <2>1. ASSUME Renewed, NEW i \in 1 .. n - 1, Still(i, "READ")'
        PROVE  \E j \in 1 .. n - 1 : j < i /\ Still(j, "START")'
    <3>1. i + 1 \in 1 .. n /\ Still(i + 1, "READ")
      BY <1>4, <2>1
    <3>2. PICK j \in 1 .. n : j < i + 1 /\ Still(j, "START")
      BY <1>0, <2>1, <3>1 DEF Renewed
    <3>3. j - 1 \in 1 .. n - 1 /\ j - 1 < i /\ Still(j - 1, "START")'
      BY <1>5, <1>6, <3>2
    <3>4. QED
      BY <3>3
  <2>2. QED
    BY <1>1, <1>7, <2>1 DEF Renewed
<1>10. QED
  BY <1>1, <1>3, <1>8, <1>9 DEF Clean, Renews

(* The rest of the loop neither handles nor queues anything. *)
LEMMA CleanStill ==
    ASSUME IInv, Handover, Clean,
           Enter \/ LoopExit \/ LoopBreak \/ UpdateDone \/ \E c \in Byte : GuiRead(c)
    PROVE  Clean'
<1>1. /\ UNCHANGED <<bus, flags, irq, queue, overflow, prev, override, extent, trash,
                  answer, within>>
      /\ pc \in {"enter", "loop", "update"} /\ pc' \in {"enter", "loop", "update"}
  BY DEF Enter, LoopExit, LoopBreak, UpdateDone, GuiRead, MainOnly, laptopVars, handlerVars
<1>2. First = 0 /\ First' = 0 /\ (\A i : Ev(i)' = Ev(i))
  BY <1>1, EvSame DEF First
<1>3. Unset' /\ Trashed' /\ Snapshot' /\ NoStaleAnswer'
  BY <1>1, <1>2 DEF Clean, Unset, Snapshot, NoStaleAnswer, Trashed
<1>4. Order' /\ (Renewed' <=> Renewed)
  BY <1>1, <1>2, StillSame DEF Clean, Order, Renewed
<1>5. Renews'
  <2>1. CASE UNCHANGED reply
    BY <1>1, <1>4, <2>1 DEF Clean, Renews, Tainted, Own
  <2>2. ASSUME NEW c \in Byte, GuiRead(c) PROVE Renews'
    <3>1. pc = "update" /\ Ev(First) = prev
      BY <1>2, <2>2 DEF GuiRead, Ev
    <3>2. override => overflow
      BY <3>1 DEF Handover, Clean, Unset
    <3>3. QED
      BY <1>1, <3>2 DEF Renews, Tainted
  <2>3. QED
    BY <2>1, <2>2 DEF Enter, LoopExit, LoopBreak, UpdateDone, MainOnly
<1>6. QED
  BY <1>3, <1>4, <1>5 DEF Clean

LEMMA CleanDrop == ASSUME IInv, Handover, Clean, DropOff \/ ComeBack PROVE Clean'
<1>1. /\ queue' = <<>> /\ UNCHANGED <<prev, override, extent, trash, reply, answer, within>>
      /\ flags' = {}
      /\ bus' \in {"idle", "other"}
      /\ pc # "pop" /\ pc' # "pop" /\ irq' = {}
  <2>1. CASE DropOff
    BY <2>1 DEF DropOff, NoReplyChange, Running
  <2>2. CASE ComeBack
    BY <2>2, Quiet DEF ComeBack, NoReplyChange, laptopVars, Handover, IInv, Peripheral,
                       Basic, TypeOK, WireTypeOK
  <2>3. QED
    BY <2>1, <2>2
<1>2. Len(queue') = 0 /\ First = 0 /\ First' = 0 /\ Ev(First)' = Ev(First)
  BY <1>1 DEF First, Ev
<1>3. Unset' /\ Trashed' /\ Snapshot' /\ NoStaleAnswer'
  BY <1>1, <1>2 DEF Clean, Unset, Snapshot, NoStaleAnswer, Trashed
<1>4. Order' /\ Renewed'
  BY <1>1, <1>2 DEF Order, Renewed, StartQueued
<1>5. QED
  BY <1>3, <1>4 DEF Clean, Renews

LEMMA CleanNext ==
    ASSUME "healthy" \in Assumed, IInv, Handover, Clean, [Next]_vars
    PROVE  Clean'
<1>1. CASE UNCHANGED vars
  <2>1. UNCHANGED mainVars /\ UNCHANGED <<bus, flags, irq, queue, overflow, pc, prev>>
    BY <1>1 DEF vars, laptopVars, handlerVars, mainVars
  <2>2. First' = First /\ (\A i : Ev(i)' = Ev(i))
    BY <2>1, EvSame DEF First
  <2>3. Order' /\ (Renewed' <=> Renewed)
    BY <2>1, <2>2, StillSame DEF Clean, Order, Renewed
  <2>4. QED
    BY <2>1, <2>2, <2>3, LoopSame DEF Clean, Snapshot, Renews, NoStaleAnswer, mainVars
<1>2. CASE IrqReturns
  BY <1>1, <1>2 DEF IrqReturns
<1>3. QED
  BY <1>1, <1>2, CleanLaptop, CleanEnter, CleanService, CleanProcess, CleanPop, CleanStill,
     CleanDrop DEF Next, Handler, Main, MainStep, Process

LEMMA CleanInductive == "healthy" \in Assumed => (Spec => []Clean)
<1> SUFFICES ASSUME "healthy" \in Assumed PROVE Spec => []Clean
  OBVIOUS
<1>1. IInv /\ Handover /\ Clean /\ [Next]_vars => Clean'
  BY CleanNext
<1>2. QED
  BY <1>1, CleanInit, Inductive, HandoverInductive, PTL DEF Spec

(* No answer the laptop gets is a byte of an earlier reply or of one the   *)
(* display asked for, unless it reads further than an override has         *)
(* written, and after a failed override it gets zeroes, however late the   *)
(* interrupts and the main loop are, whatever is lost and however the      *)
(* laptop behaves, as long as the battery answers what it is asked.        *)
THEOREM NoStaleAnswerHolds == "healthy" \in Assumed => (Spec => []NoStaleAnswer)
<1> SUFFICES ASSUME "healthy" \in Assumed PROVE Spec => []NoStaleAnswer
  OBVIOUS
<1>1. Clean => NoStaleAnswer
  BY DEF Clean
<1>2. Spec => []Clean
  BY CleanInductive
<1>3. QED
  BY <1>1, <1>2, PTL

-----------------------------------------------------------------------------
(* In step.  A laptop that keeps to SMBus and a handler in time put the    *)
(* events in the queue in the order of the protocol.                       *)

(* What may come behind what: b is at position i + 1.  A stop right behind *)
(* a start is what is left of a transaction the buses were dropped in.     *)
Follows(a, b, i) ==
    /\ b # "ABORT"
    /\ b = "WRITE" => a \in {"START", "WRITE"}
    /\ b = "READ" => a \in {"START", "READ"}
    /\ b = "STOP" /\ a = "START" => i = 0 /\ bms.open = "none"

Adjacent == \A i \in First .. Len(queue) - 1 : Follows(Ev(i), Ev(i + 1), i)

(* Before an overflow the peripheral has at most one condition to report.  *)
Alone ==
    ~overflow =>
        /\ Len(rx) <= 1
        /\ rx # <<>> => flags = {}
        /\ \A e, f \in flags : e = f

Pending == ~overflow => \A e \in Raised : Follows(Last, e, Len(queue))

(* The last thing that happened on the laptop's bus. *)
Tip(e) == IF Raised # {} THEN e \in Raised ELSE Last = e

OnTheBus ==
    ~overflow =>
        /\ bus = "w" => Tip(IF msg.len = 0 THEN "START" ELSE "WRITE")
        /\ bus = "raddr" => Tip("START")
        /\ bus \in {"rwait", "r"} => Tip("READ")
        /\ bus = "other" =>
              Raised = {} /\ (Last = "START" => queue = <<>> /\ bms.open = "none")

Released == Ev(First) \in {"STOP", "ABORT"} => bms.open = "none"

InStep == Adjacent /\ Alone /\ Pending /\ OnTheBus /\ Released

LEMMA InStepInit == Init => InStep
<1> SUFFICES ASSUME Init PROVE InStep
  OBVIOUS
<1>1. Len(queue) = 0 /\ Len(rx) = 0 /\ Raised = {} /\ First = 0
  BY DEF Init, Raised, First
<1>2. QED
  BY <1>1 DEF Init, InStep, Adjacent, Alone, Pending, OnTheBus, Released

(* A laptop that waits for the handler and keeps to the protocol. *)
LEMMA PoliteEffect ==
    ASSUME {"prompt", "smbus"} \subseteq Assumed, IInv, Handover, ~overflow, Laptop
    PROVE  /\ slaveOn /\ irq = {} /\ Raised = {}
           /\ \/ /\ bus = "idle" /\ bus' \in {"w", "raddr"} /\ msg' = Nothing
                 /\ Raised' = {"START"}
              \/ /\ bus = "w" /\ bus' = "raddr" /\ msg.len > 0 /\ msg' = msg
                 /\ Raised' = {"START"}
              \/ /\ bus = "w" /\ bus' = "w" /\ Raised' = {"WRITE"}
                 /\ \E b \in Byte : msg' = Written(msg, b) /\ rx' = Append(rx, b)
              \/ /\ bus \in {"raddr", "r"} /\ bus' = "rwait" /\ msg' = ReadOnce(msg)
                 /\ Raised' = {"READ"}
              \/ /\ bus \in {"w", "r", "other"} /\ bus' = "idle" /\ Raised' = {"STOP"}
                 /\ bus = "w" => msg.len > 0
           /\ Len(rx') <= 1 /\ (rx' # <<>> => flags' = {}) /\ \A e, f \in flags' : e = f
<1>1. slaveOn /\ irq = {} /\ Raised = {}
  <2>1. slaveOn
    BY DEF IInv, Peripheral, Handover, Basic, TypeOK, WireTypeOK
  <2>2. LaptopMay
    BY DEF Laptop, LaptopStart, LaptopWrite, LaptopRead, LaptopStop, SlaveAborts
  <2>3. QED
    BY <2>1, <2>2 DEF LaptopMay
<1>2. flags = {} /\ rx = <<>> /\ Len(rx) = 0
  BY <1>1 DEF Raised
<1>3. ASSUME NEW to \in {"w", "raddr", "other"}, LaptopStart(to)
      PROVE  /\ \/ bus = "idle" /\ bus' \in {"w", "raddr"} /\ msg' = Nothing
                \/ bus = "w" /\ bus' = "raddr" /\ msg.len > 0 /\ msg' = msg
             /\ flags' = {"START"} /\ rx' = rx
  BY <1>1, <1>2, <1>3 DEF LaptopStart, Raise
<1>4. ASSUME NEW b \in Byte, LaptopWrite(b)
      PROVE  /\ bus = "w" /\ bus' = "w" /\ flags' = {}
             /\ msg' = Written(msg, b) /\ rx' = Append(rx, b)
             /\ Len(rx') = 1 /\ rx' # <<>>
  <2>1. rx \in Seq(Byte)
    BY DEF IInv, Basic, TypeOK, HandlerTypeOK
  <2>2. Len(Append(rx, b)) = 1 /\ Append(rx, b) # <<>>
    BY <1>2, <2>1, AppendProperties
  <2>3. QED
    BY <1>2, <1>4, <2>2 DEF LaptopWrite
<1>5. CASE LaptopRead
  BY <1>1, <1>2, <1>5 DEF LaptopRead, Raise, Raised
<1>6. CASE LaptopStop
  BY <1>1, <1>2, <1>6 DEF LaptopStop, Raise, Raised
<1>7. ~SlaveAborts
  BY DEF SlaveAborts
<1>8. ASSUME NEW to \in {"w", "raddr", "other"}, LaptopStart(to)
      PROVE  Raised' = {"START"} /\ Len(rx') = 0 /\ flags' = {"START"} /\ rx' = <<>>
  BY <1>2, <1>3, <1>8 DEF Raised
<1>9. ASSUME NEW b \in Byte, LaptopWrite(b) PROVE Raised' = {"WRITE"}
  BY <1>4, <1>9 DEF Raised
<1>10. CASE \E to \in {"w", "raddr", "other"} : LaptopStart(to)
  BY <1>1, <1>3, <1>8, <1>10
<1>11. CASE \E b \in Byte : LaptopWrite(b)
  BY <1>1, <1>4, <1>9, <1>11
<1>12. QED
  BY <1>5, <1>6, <1>7, <1>10, <1>11 DEF Laptop

(* What is known of the events alone. *)
LEMMA AdjacentSame ==
    ASSUME InStep, UNCHANGED <<queue, prev, pc>>, bms.open = "none" => bms'.open = "none"
    PROVE  Adjacent' /\ First' = First /\ (\A i : Ev(i)' = Ev(i)) /\ Last' = Last
           /\ Len(queue') = Len(queue)
<1>1. First' = First /\ (\A i : Ev(i)' = Ev(i)) /\ Last' = Last /\ Len(queue') = Len(queue)
  BY EvSame DEF First
<1>2. QED
  BY <1>1 DEF InStep, Adjacent, Follows

LEMMA InStepLaptop ==
    ASSUME {"prompt", "smbus"} \subseteq Assumed, IInv, Handover, InStep, Laptop
    PROVE  InStep'
<1>1. UNCHANGED mainVars /\ UNCHANGED <<queue, overflow, pc, prev, bms>>
  BY Apart, LaptopEffect DEF mainVars
<1>2. /\ Adjacent' /\ First' = First /\ (\A i : Ev(i)' = Ev(i)) /\ Last' = Last
      /\ Len(queue') = Len(queue)
  BY <1>1, AdjacentSame
<1>3. Released'
  BY <1>1, <1>2 DEF InStep, Released
<1>4. CASE overflow
  BY <1>1, <1>2, <1>3, <1>4 DEF InStep, Alone, Pending, OnTheBus
<1>5. CASE ~overflow
  <2>1. Alone'
    BY <1>5, PoliteEffect DEF Alone
  <2>2. Pending'
    <3>1. SUFFICES ASSUME NEW e \in Raised' PROVE Follows(Last, e, Len(queue))'
      BY DEF Pending
    <3>2. Follows(Last, e, Len(queue))' <=> Follows(Last, e, Len(queue))
      BY <1>1, <1>2 DEF Follows
    <3>3. CASE bus = "w"
      BY <1>5, <3>2, <3>3, PoliteEffect DEF InStep, OnTheBus, Tip, Follows
    <3>4. CASE bus \in {"raddr", "r"}
      BY <1>5, <3>2, <3>4, PoliteEffect DEF InStep, OnTheBus, Tip, Follows
    <3>5. CASE bus = "other"
      <4>1. e = "STOP" /\ (Last = "START" => queue = <<>> /\ bms.open = "none")
        BY <1>5, <3>5, PoliteEffect DEF InStep, OnTheBus
      <4>2. QED
        BY <3>2, <4>1 DEF Follows
    <3>6. CASE bus \notin {"w", "raddr", "r", "other"}
      BY <1>5, <3>2, <3>6, PoliteEffect DEF Follows
    <3>7. QED
      BY <3>3, <3>4, <3>5, <3>6
  <2>3. OnTheBus'
    <3>1. bus' = "w" => Tip(IF msg.len = 0 THEN "START" ELSE "WRITE")'
      <4>1. msg.len \in Nat /\ CmdSize \in Nat /\ CmdSize > 0
        BY ConstantsAssumption DEF IInv, Basic, TypeOK, WireTypeOK
      <4>2. Nothing.len = 0 /\ \A b \in Byte : Written(msg, b).len > 0
        BY <4>1 DEF Nothing, Written
      <4>3. QED
        BY <1>5, <4>2, PoliteEffect DEF Tip
    <3>2. QED
      BY <1>5, <3>1, PoliteEffect DEF OnTheBus, Tip
  <2>4. QED
    BY <1>2, <1>3, <2>1, <2>2, <2>3 DEF InStep
<1>6. QED
  BY <1>4, <1>5

(* What the handler finds room for is all there was to report. *)
LEMMA ServiceMoves ==
    ASSUME IInv, InStep, ~overflow, NEW e \in Event, Service(e), Len(queue) # Capacity
    PROVE  /\ Raised = {e} /\ Raised' = {} /\ rx' = <<>> /\ flags' = {}
           /\ e = "WRITE" => rx # <<>> /\ queue' = Append(queue, [event |-> e, data |-> Head(rx)])
<1>1. e \in irq /\ flags' = flags \ {e} /\ (e # "WRITE" => rx' = rx)
  BY ServiceEffect DEF IInv
<1>2. Raised = {e}
  BY <1>1 DEF IInv, Basic, Peripheral, InStep, Alone, Raised
<1>3. CASE e = "WRITE"
  <2>1. rx' = Tail(rx) /\ rx # <<>> /\ queue' = Append(queue, [event |-> e, data |-> Head(rx)])
    BY <1>1, <1>3 DEF Service, OnWrite, IInv, Basic
  <2>2. rx \in Seq(Byte) /\ Len(rx) <= 1
    BY DEF IInv, Basic, TypeOK, HandlerTypeOK, InStep, Alone
  <2>3. Tail(rx) \in Seq(Byte) /\ Len(Tail(rx)) = Len(rx) - 1 /\ Len(rx) \in Nat
    BY <2>1, <2>2, HeadTailProperties, LenProperties
  <2>4. Len(Tail(rx)) = 0
    BY <2>2, <2>3, LenProperties
  <2>5. rx' = <<>>
    BY <2>1, <2>3, <2>4, EmptySeq
  <2>6. QED
    BY <1>1, <1>2, <1>3, <2>1, <2>5 DEF InStep, Alone, Raised
<1>4. CASE e # "WRITE"
  <2>1. rx = <<>>
    BY <1>2, <1>4 DEF Raised
  <2>2. QED
    BY <1>1, <1>2, <1>4, <2>1 DEF Raised
<1>5. QED
  BY <1>3, <1>4

(* Events moving into the queue. *)
LEMMA InStepService ==
    ASSUME IInv, InStep, NEW e \in Event, Service(e)
    PROVE  InStep'
<1>1. UNCHANGED mainVars /\ UNCHANGED <<bus, msg, pc, prev, bms>> /\ e \in irq
      /\ flags' = flags \ {e} /\ (e # "WRITE" => rx' = rx)
  BY Apart, ServiceEffect DEF mainVars, IInv, Handler, Service, laptopVars
<1>2. CASE overflow' = TRUE /\ queue' = queue
  <2>1. Adjacent' /\ Released'
    BY <1>1, <1>2, AdjacentSame DEF InStep, Released
  <2>2. QED
    BY <1>2, <2>1 DEF InStep, Alone, Pending, OnTheBus
<1>3. ASSUME overflow' = overflow, Len(queue) # Capacity,
             NEW t \in Transfer, t.event = e, queue' = Append(queue, t)
      PROVE  InStep'
  <2>0. PICK n \in Nat : n = Len(queue)
    BY QueueIsSeq DEF IInv
  <2>1. ~overflow
    BY <1>1, <1>3 DEF IInv, Peripheral
  <2>2. Raised = {e} /\ e \in Raised /\ Raised' = {} /\ rx' = <<>> /\ flags' = {}
    BY <1>3, <2>1, ServiceMoves
  <2>4. /\ First' = First /\ First <= n /\ First \in {0, 1} /\ Len(queue') = n + 1
        /\ \A i \in First .. n : Ev(i)' = Ev(i)
        /\ Ev(n + 1)' = e
    BY <1>1, <1>3, <2>0, EvAppend DEF IInv
  <2>5. Last' = e
    BY <2>4 DEF Last, Ev
  <2>6. Adjacent'
    <3>1. Follows(Ev(n), e, n)
      BY <2>0, <2>1, <2>2 DEF InStep, Pending, Last
    <3>2. \A i \in First .. n - 1 : Follows(Ev(i), Ev(i + 1), i)'
      BY <1>1, <2>0, <2>4 DEF InStep, Adjacent, Follows
    <3>3. Follows(Ev(n), Ev(n + 1), n)'
      BY <1>1, <2>4, <3>1 DEF Follows
    <3>4. QED
      BY <2>4, <3>2, <3>3 DEF Adjacent
  <2>7. Alone' /\ Pending'
    BY <2>2 DEF Alone, Pending
  <2>8. OnTheBus'
    BY <1>1, <2>1, <2>2, <2>5 DEF InStep, OnTheBus, Tip
  <2>9. Released'
    BY <1>1, <2>4 DEF InStep, Released
  <2>10. QED
    BY <2>6, <2>7, <2>8, <2>9 DEF InStep
<1>4. QED
  BY <1>2, <1>3, ServiceEffect DEF IInv

LEMMA InStepEnter == ASSUME IInv, InStep, IrqEnter \/ IrqReturns \/ UNCHANGED vars PROVE InStep'
<1>1. UNCHANGED mainVars /\ UNCHANGED <<bus, msg, flags, rx, queue, overflow, prev, pc, bms>>
  BY DEF IrqEnter, IrqReturns, vars, laptopVars, handlerVars, mainVars
<1>2. /\ Adjacent' /\ First' = First /\ (\A i : Ev(i)' = Ev(i)) /\ Last' = Last
      /\ Len(queue') = Len(queue)
  BY <1>1, AdjacentSame
<1>3. Raised' = Raised
  BY <1>1 DEF Raised
<1>4. Alone' /\ Released' /\ OnTheBus'
  BY <1>1, <1>2, <1>3 DEF InStep, Alone, Released, OnTheBus, Tip
<1>5. Pending'
  BY <1>1, <1>2, <1>3 DEF InStep, Pending, Follows
<1>6. QED
  BY <1>2, <1>4, <1>5 DEF InStep

(* The battery's bus at the end of a transaction. *)
LEMMA StopReleases ==
    ASSUME ProcessStop, prev \in {"WRITE", "READ"}
    PROVE  bms'.open = "none"
  BY DEF ProcessStop, BmsPut, BmsWrite, BmsWriteFails, BmsStopRead, AfterWrite, Closed

LEMMA InStepProcess ==
    ASSUME IInv, InStep, Process
    PROVE  InStep'
<1>1. /\ UNCHANGED <<msg, flags, rx, slaveOn, irq, queue, overflow, prev>>
      /\ pc = "loop" /\ pc' = "pop" /\ queue # <<>> /\ ~overflow
      /\ irq = {} /\ flags = {} /\ rx = <<>> /\ Raised = {} /\ Raised' = {}
  BY ProcessFrame, Quiet DEF IInv, Raised
<1>2. First = 0 /\ First' = 1 /\ (\A i : Ev(i)' = Ev(i)) /\ Last' = Last /\ Len(queue') = Len(queue)
  BY <1>1, EvSame DEF First
<1>3. Len(queue) \in Nat /\ Len(queue) >= 1
  BY <1>1, QueueIsSeq, EmptySeq DEF IInv
<1>4. Adjacent'
  <2>1. \A i \in 1 .. Len(queue) - 1 : Follows(Ev(i), Ev(i + 1), i)
    BY <1>2 DEF InStep, Adjacent
  <2>2. \A i \in 1 .. Len(queue) - 1 : Follows(Ev(i), Ev(i + 1), i)'
    BY <1>2, <2>1 DEF Follows
  <2>3. QED
    BY <1>2, <2>2 DEF Adjacent
<1>5. Alone' /\ Pending'
  BY <1>1 DEF InStep, Alone, Pending
<1>6. OnTheBus'
  <2>1. bus' = bus \/ (bus = "rwait" /\ bus' = "r")
    BY ProcessIndex DEF IInv
  <2>2. QED
    BY <1>1, <1>2, <2>1 DEF InStep, OnTheBus, Tip
<1>7. Released'
  <2>1. SUFFICES ASSUME queue[1].event \in {"STOP", "ABORT"} PROVE bms'.open = "none"
    BY <1>1, <1>2 DEF Released, Ev
  <2>2. Head(queue).event \in {"STOP", "ABORT"}
    BY <1>1, <2>1, HeadTailProperties, QueueIsSeq DEF IInv
  <2>3. ProcessStop
    BY <2>2 DEF Process, ProcessWrite, ProcessRead, ProcessStart, Handle
  <2>4. CASE prev \in {"WRITE", "READ"}
    BY <2>3, <2>4, StopReleases
  <2>5. CASE prev \notin {"WRITE", "READ"}
    <3>1. bms' = bms
      BY <2>3, <2>5 DEF ProcessStop, BmsQuiet
    <3>2. Follows(Ev(0), Ev(1), 0) /\ Ev(0) = prev /\ Ev(1) = queue[1].event
      BY <1>2, <1>3 DEF InStep, Adjacent, Ev
    <3>3. prev = "START" => bms.open = "none"
      BY <2>1, <3>2 DEF Follows
    <3>4. prev \in {"STOP", "ABORT"} => bms.open = "none"
      BY <1>2, <3>2 DEF InStep, Released
    <3>5. QED
      BY <2>5, <3>1, <3>3, <3>4 DEF IInv, Basic, TypeOK, LoopTypeOK, Event
  <2>6. QED
    BY <2>4, <2>5
<1>8. QED
  BY <1>4, <1>5, <1>6, <1>7 DEF InStep

LEMMA InStepPop == ASSUME IInv, InStep, Pop PROVE InStep'
<1>0. PICK n \in Nat : n = Len(queue)
  BY QueueIsSeq DEF IInv
<1>1. /\ UNCHANGED <<bus, msg, flags, rx, slaveOn, irq, overflow, bms>>
      /\ pc = "pop" /\ pc' = "loop" /\ First = 1 /\ First' = 0
      /\ n >= 1 /\ Len(queue') = n - 1
      /\ \A i \in 0 .. n - 1 : \A k : k = i + 1 => Ev(i)' = Ev(k)
      /\ Running
  BY <1>0, EvPop DEF IInv, Pop, laptopVars
<1>2. Raised = {} /\ Raised' = {}
  BY <1>1, Quiet DEF IInv, Raised
<1>3. Last' = Last
  BY <1>0, <1>1 DEF Last, Ev
<1>4. Adjacent'
  <2>1. ASSUME NEW i \in 0 .. n - 2 PROVE Follows(Ev(i), Ev(i + 1), i)'
    <3>1. i + 1 \in 1 .. n - 1 /\ i \in 0 .. n - 1 /\ i + 1 \in 0 .. n - 1
      OBVIOUS
    <3>2. PICK k \in 1 .. n - 1 : k = i + 1
      BY <3>1
    <3>3. Follows(Ev(k), Ev(k + 1), k)
      BY <1>0, <1>1 DEF InStep, Adjacent
    <3>4. Ev(i)' = Ev(k) /\ Ev(i + 1)' = Ev(k + 1)
      BY <1>1, <3>1, <3>2
    <3>5. QED
      BY <3>3, <3>4 DEF Follows
  <2>2. QED
    BY <1>1, <2>1 DEF Adjacent
<1>5. Alone' /\ Pending'
  BY <1>1, <1>2 DEF InStep, Alone, Pending
<1>6. OnTheBus'
  BY <1>1, <1>2, <1>3 DEF InStep, OnTheBus, Tip, IInv, Basic
<1>7. Released'
  BY <1>1 DEF InStep, Released
<1>8. QED
  BY <1>4, <1>5, <1>6, <1>7 DEF InStep

LEMMA InStepStill ==
    ASSUME IInv, Handover, InStep,
           Enter \/ LoopExit \/ LoopBreak \/ UpdateDone \/ \E c \in Byte : GuiRead(c)
    PROVE  InStep'
<1>1. /\ UNCHANGED <<bus, msg, flags, rx, queue, overflow, prev>>
      /\ pc # "pop" /\ pc' # "pop"
      /\ bms' = bms \/ bms'.open = "none"
      /\ Running
  BY DEF Enter, LoopExit, LoopBreak, UpdateDone, GuiRead, MainOnly, Closed, laptopVars,
         handlerVars
<1>2. First = 0 /\ First' = 0 /\ (\A i : Ev(i)' = Ev(i)) /\ Last' = Last /\ Len(queue') = Len(queue)
  BY <1>1, EvSame DEF First
<1>3. Raised' = Raised
  BY <1>1 DEF Raised
<1>4. Adjacent' /\ Released'
  BY <1>1, <1>2 DEF InStep, Adjacent, Released, Follows
<1>5. Pending'
  BY <1>1, <1>2, <1>3 DEF InStep, Pending, Follows
<1>6. Alone' /\ OnTheBus'
  BY <1>1, <1>2, <1>3 DEF InStep, Alone, OnTheBus, Tip
<1>7. QED
  BY <1>4, <1>5, <1>6 DEF InStep

(* The buses are dropped and taken up again. *)
LEMMA InStepDrop == ASSUME IInv, Handover, InStep, DropOff \/ ComeBack PROVE InStep'
<1>1. /\ queue' = <<>> /\ flags' = {} /\ rx' = <<>> /\ prev' = prev
      /\ bus' \in {"idle", "other"}
      /\ pc # "pop" /\ pc' # "pop" /\ bms'.open = "none"
  <2>1. CASE DropOff
    BY <2>1 DEF DropOff, Closed
  <2>2. CASE ComeBack
    BY <2>2, Quiet DEF ComeBack, laptopVars, Handover, IInv, Peripheral, Basic, TypeOK,
                       WireTypeOK
  <2>3. QED
    BY <2>1, <2>2
<1>2. Len(queue') = 0 /\ First' = 0 /\ Raised' = {} /\ Len(rx') = 0
  BY <1>1 DEF First, Raised
<1>3. QED
  BY <1>1, <1>2 DEF InStep, Adjacent, Alone, Pending, OnTheBus, Released

LEMMA InStepNext ==
    ASSUME {"prompt", "smbus"} \subseteq Assumed, IInv, Handover, InStep, [Next]_vars
    PROVE  InStep'
  BY InStepLaptop, InStepEnter, InStepService, InStepProcess, InStepPop, InStepStill, InStepDrop
     DEF Next, Handler, Main, MainStep, Process

LEMMA InStepInductive == {"prompt", "smbus"} \subseteq Assumed => (Spec => []InStep)
<1> SUFFICES ASSUME {"prompt", "smbus"} \subseteq Assumed PROVE Spec => []InStep
  OBVIOUS
<1>1. IInv /\ Handover /\ InStep /\ [Next]_vars => InStep'
  BY InStepNext
<1>2. QED
  BY <1>1, InStepInit, Inductive, HandoverInductive, PTL DEF Spec

(* The two places marked "this should never happen" are not reached by a   *)
(* laptop that keeps to SMBus and a handler in time, even if the queue     *)
(* overflows and the buses are dropped in the middle of a transaction.     *)
THEOREM NeverHappensHolds ==
    {"prompt", "smbus"} \subseteq Assumed => (Spec => []NeverHappens)
<1> SUFFICES ASSUME {"prompt", "smbus"} \subseteq Assumed PROVE Spec => []NeverHappens
  OBVIOUS
<1>1. IInv /\ InStep => NeverHappens
  <2>1. SUFFICES ASSUME IInv, InStep, pc = "loop", queue # <<>>
                 PROVE  <<prev, Head(queue).event>>
                            \notin {<<"READ", "WRITE">>, <<"WRITE", "READ">>}
    BY DEF NeverHappens
  <2>2. Len(queue) \in Nat /\ Len(queue) >= 1 /\ Head(queue) = queue[1] /\ First = 0
    BY <2>1, QueueIsSeq, EmptySeq, HeadTailProperties DEF IInv, First
  <2>3. Follows(prev, queue[1].event, 0)
    BY <2>1, <2>2 DEF InStep, Adjacent, Ev
  <2>4. QED
    BY <2>2, <2>3 DEF Follows
<1>2. QED
  BY <1>1, Inductive, InStepInductive, PTL

(* The display is not handed a battery's bus with a transaction of the     *)
(* laptop's on it, unless an overflow hands it over.                       *)
THEOREM BatteryReleasedHolds ==
    {"prompt", "smbus"} \subseteq Assumed => (Spec => []BatteryReleased)
<1> SUFFICES ASSUME {"prompt", "smbus"} \subseteq Assumed PROVE Spec => []BatteryReleased
  OBVIOUS
<1>1. Handover /\ InStep => BatteryReleased
  BY DEF Handover, InStep, Released, BatteryReleased, Ev, First
<1>2. QED
  BY <1>1, HandoverInductive, InStepInductive, PTL

-----------------------------------------------------------------------------
(* Nothing lost.  With a queue that never fills and a battery that always  *)
(* answers, a message reaches the loop as the laptop wrote it.             *)

Room == ~overflow /\ (Raised # {} => Len(queue) < Capacity)

Begun == Ev(First) = "START" => cmdIdx = 0

Whole == Ev(First) = "WRITE" /\ cmdIdx >= 2 => bms = [open |-> "w", restart |-> FALSE]

(* A message that is one overridden command, followed from the laptop's    *)
(* write of it to the answer it gets: in the handler, in the queue and, at *)
(* position First, in the loop.                                            *)
Sole == msg.len = 1 /\ msg.cmd \in Overrides

CmdAt(i) ==
    /\ Ev(i) = "WRITE"
    /\ IF i = First THEN cmdIdx = 1 /\ cmd[0] = msg.cmd
                    ELSE queue[i].data = msg.cmd /\ Ev(i - 1) = "START"

TurnAt(i) == Ev(i) = "START" /\ IF i = First THEN override ELSE CmdAt(i - 1)

GoesOn == Len(queue) = First /\ Last = "READ" /\ override

ReadAt(i) ==
    /\ Ev(i) = "READ"
    /\ IF i = First THEN override
                    ELSE TurnAt(i - 1) \/ (i - 1 = First /\ Ev(First) = "READ" /\ override)

Kept ==
    Sole =>
        /\ bus = "w" => IF rx # <<>> THEN Head(rx) = msg.cmd /\ Last = "START"
                                     ELSE CmdAt(Len(queue))
        /\ bus = "raddr" => IF flags # {} THEN CmdAt(Len(queue)) ELSE TurnAt(Len(queue))
        /\ bus = "rwait" => IF flags # {} THEN TurnAt(Len(queue)) \/ GoesOn
                                          ELSE ReadAt(Len(queue))
        /\ bus = "r" => GoesOn /\ answer # "bms"

Lossless == Room /\ Begun /\ Whole /\ Kept

InTime == {"prompt", "paced", "smbus", "healthy"} \subseteq Assumed

(* While a command is overridden, no byte of the battery's is in the      *)
(* buffer: the loop puts one there only in answering without an override.  *)
NoneOfIts == override => \A i \in DOMAIN reply : reply[i] # "bms"

Known == IInv /\ Handover /\ InStep /\ Clean /\ NoneOfIts

LEMMA NoneOfItsInit == Init => NoneOfIts
  BY DEF Init, NoneOfIts

LEMMA NoneOfItsNext == ASSUME IInv, NoneOfIts, [Next]_vars PROVE NoneOfIts'
<1>1. CASE UNCHANGED <<reply, override>>
  BY <1>1 DEF NoneOfIts
<1>2. CASE ProcessRead
  <2>1. reply \in [0 .. ReplySize - 1 -> Provenance] /\ override' = override
    BY <1>2 DEF ProcessRead, IInv, Basic, TypeOK, ReplyTypeOK
  <2>2. CASE AnswerZero
    BY <2>1, <2>2 DEF AnswerZero, NoneOfIts
  <2>3. CASE AnswerOverride \/ AnswerStale
    BY <2>1, <2>3 DEF AnswerOverride, AnswerStale, NoneOfIts
  <2>4. CASE AnswerBms
    BY <2>1, <2>4 DEF AnswerBms, NoneOfIts
  <2>5. QED
    BY <1>2, <2>2, <2>3, <2>4 DEF ProcessRead
<1>3. CASE NoOverride
  BY <1>3 DEF NoOverride, NoneOfIts
<1>4. CASE OverrideReplies \/ OverrideFails
  BY <1>4 DEF OverrideReplies, OverrideFails, Over, Aged, NoneOfIts
<1>5. ASSUME NEW c \in Byte, GuiRead(c) PROVE NoneOfIts'
  <2>1. override' = override
    BY <1>5 DEF GuiRead
  <2>2. ASSUME NEW n \in 0 .. ReplySize, reply' = Over(reply, n, "gui") PROVE NoneOfIts'
    BY <2>1, <2>2 DEF Over, NoneOfIts
  <2>3. QED
    BY <1>1, <1>5, <2>1, <2>2 DEF GuiRead
<1>6. CASE Process
  <2>1. CASE ProcessStop \/ ProcessStart
    BY <1>3, <1>4, <2>1 DEF ProcessStop, ProcessStart, SwitchToRead
  <2>2. CASE ProcessWrite
    BY <1>1, <2>2 DEF ProcessWrite, NoReplyChange
  <2>3. QED
    BY <1>2, <1>6, <2>1, <2>2 DEF Process
<1>7. CASE Laptop \/ Handler
  BY <1>1, <1>7, Apart DEF mainVars
<1>8. CASE Pop \/ Enter \/ LoopExit \/ LoopBreak \/ UpdateDone \/ DropOff \/ ComeBack
  BY <1>1, <1>8 DEF Pop, Enter, LoopExit, LoopBreak, UpdateDone, DropOff, ComeBack, MainOnly,
                    NoReplyChange
<1>9. QED
  BY <1>1, <1>5, <1>6, <1>7, <1>8 DEF Next, Main, MainStep, Process, vars, mainVars

LEMMA LosslessInit == Init => Lossless
<1> SUFFICES ASSUME Init PROVE Lossless
  OBVIOUS
<1>1. Raised = {} /\ Ev(First) = "ABORT" /\ bus = "idle" /\ ~overflow
  BY DEF Init, Raised, First, Ev
<1>2. QED
  BY <1>1 DEF Lossless, Room, Begun, Whole, Kept

(* A step that moves no event and leaves the loop its position. *)
LEMMA KeptSame ==
    ASSUME UNCHANGED <<queue, prev, override>>, First' = First, msg'.cmd = msg.cmd,
           Ev(First) = "WRITE" => cmdIdx' = cmdIdx /\ cmd'[0] = cmd[0]
    PROVE  /\ \A i : CmdAt(i) => CmdAt(i)'
           /\ \A i : TurnAt(i) => TurnAt(i)'
           /\ \A i : ReadAt(i) => ReadAt(i)'
           /\ Len(queue') = Len(queue) /\ Last' = Last /\ (GoesOn => GoesOn')
           /\ Ev(First)' = Ev(First)
<1>1. (\A i : Ev(i)' = Ev(i)) /\ Last' = Last /\ Len(queue') = Len(queue)
  BY EvSame
<1>2. \A i : CmdAt(i) => CmdAt(i)'
  BY <1>1 DEF CmdAt
<1>3. \A i : TurnAt(i) => TurnAt(i)'
  BY <1>1, <1>2 DEF TurnAt
<1>4. \A i : ReadAt(i) => ReadAt(i)'
  BY <1>1, <1>3 DEF ReadAt
<1>5. QED
  BY <1>1, <1>2, <1>3, <1>4 DEF GoesOn

LEMMA LosslessLaptop ==
    ASSUME InTime, Known, Lossless, Laptop
    PROVE  Lossless'
<1>1. /\ {"prompt", "smbus"} \subseteq Assumed /\ "paced" \in Assumed
      /\ IInv /\ Handover /\ ~overflow
  BY DEF InTime, Known, Lossless, Room
<1>2. UNCHANGED mainVars /\ UNCHANGED <<queue, overflow, pc, prev, cmdIdx, cmd, override, bms,
                                       answer>> /\ First' = First
  BY Apart, LaptopEffect DEF mainVars, First
<1>3. Room'
  <2>1. Raised = {}
    BY <1>1, PoliteEffect
  <2>2. Backlog < Capacity
    BY <1>1, <2>1 DEF Laptop, LaptopStart, LaptopWrite, LaptopRead, LaptopStop, SlaveAborts,
                      LaptopMay
  <2>3. Len(rx) = 0 /\ Cardinality(flags) = 0 /\ Len(queue) \in Nat
    <3>1. rx = <<>> /\ flags = {}
      BY <2>1 DEF Raised
    <3>2. QED
      BY <1>1, <3>1, FS_EmptySet, QueueIsSeq DEF IInv
  <2>4. QED
    BY <1>1, <1>2, <2>2, <2>3 DEF Room, Backlog
<1>4. (\A i : Ev(i)' = Ev(i)) /\ Last' = Last /\ Len(queue') = Len(queue)
  BY <1>2, EvSame
<1>5. Begun' /\ Whole'
  BY <1>2, <1>4 DEF Lossless, Begun, Whole
<1>6. Kept'
  <2>1. SUFFICES ASSUME Sole'
                 PROVE  /\ bus' = "w" => IF rx' # <<>> THEN Head(rx') = msg'.cmd /\ Last = "START"
                                                      ELSE CmdAt(Len(queue))'
                        /\ bus' = "raddr" => IF flags' # {} THEN CmdAt(Len(queue))' ELSE TurnAt(Len(queue))'
                        /\ bus' = "rwait" => IF flags' # {} THEN TurnAt(Len(queue))' \/ GoesOn'
                                                           ELSE ReadAt(Len(queue))'
                        /\ bus' = "r" => GoesOn' /\ answer' # "bms"
    BY <1>4 DEF Kept
  <2>2. Nothing.len = 0 /\ ReadOnce(msg).cmd = msg.cmd /\ ReadOnce(msg).len = msg.len
    BY <1>1 DEF Nothing, ReadOnce, IInv, Basic, TypeOK, WireTypeOK
  <2>3. Raised = {} /\ rx = <<>> /\ flags = {}
    BY <1>1, PoliteEffect DEF Raised
  <2>4. CASE bus = "w" /\ bus' = "raddr" /\ msg' = msg /\ Raised' = {"START"}
    <3>1. Sole /\ CmdAt(Len(queue))
      BY <2>1, <2>3, <2>4 DEF Sole, Lossless, Kept
    <3>2. flags' # {}
      BY <2>4 DEF Raised
    <3>3. CmdAt(Len(queue))'
      BY <1>2, <2>4, <3>1, KeptSame
    <3>4. QED
      BY <2>4, <3>2, <3>3
  <2>5. ASSUME bus = "w", bus' = "w", NEW b \in Byte, msg' = Written(msg, b), rx' = Append(rx, b)
        PROVE  rx' # <<>> /\ Head(rx') = msg'.cmd /\ Last = "START"
    <3>1. msg.len \in Nat /\ CmdSize \in Nat /\ CmdSize >= 2
      BY <1>1, ConstantsAssumption DEF IInv, Basic, TypeOK, WireTypeOK
    <3>2. msg.len = 0 /\ msg'.cmd = b
      BY <2>1, <2>5, <3>1 DEF Sole, Written
    <3>3. Last = "START"
      BY <1>1, <2>3, <2>5, <3>2 DEF Known, InStep, OnTheBus, Tip
    <3>4. rx' = <<b>>
      BY <2>3, <2>5
    <3>5. QED
      BY <3>2, <3>3, <3>4
  <2>6. CASE bus \in {"raddr", "r"} /\ bus' = "rwait" /\ msg' = ReadOnce(msg) /\ Raised' = {"READ"}
    <3>1. Sole /\ msg'.cmd = msg.cmd
      BY <2>1, <2>2, <2>6 DEF Sole
    <3>2. TurnAt(Len(queue)) \/ GoesOn
      BY <2>3, <2>6, <3>1 DEF Lossless, Kept
    <3>3. flags' # {}
      BY <2>6 DEF Raised
    <3>4. TurnAt(Len(queue))' \/ GoesOn'
      BY <1>2, <3>1, <3>2, KeptSame
    <3>5. QED
      BY <2>6, <3>3, <3>4
  <2>7. QED
    BY <1>1, <2>1, <2>2, <2>4, <2>5, <2>6, PoliteEffect DEF Sole
<1>7. QED
  BY <1>3, <1>5, <1>6 DEF Lossless

(* An event appended leaves the ones before it what they are. *)
LEMMA KeptAppend ==
    ASSUME Basic, NEW t \in Transfer, queue' = Append(queue, t),
           UNCHANGED <<pc, prev, cmdIdx, cmd, override, msg>>
    PROVE  /\ \A i \in First .. Len(queue) : CmdAt(i) => CmdAt(i)'
           /\ \A i \in First .. Len(queue) : TurnAt(i) => TurnAt(i)'
<1>1. /\ Len(queue) \in Nat /\ First' = First /\ First \in {0, 1}
      /\ \A i \in First .. Len(queue) : Ev(i)' = Ev(i)
      /\ \A i \in 1 .. Len(queue) : queue'[i] = queue[i]
  BY EvAppend
<1>2. \A i \in First .. Len(queue) : CmdAt(i) => CmdAt(i)'
  <2>1. SUFFICES ASSUME NEW i \in First .. Len(queue), CmdAt(i) PROVE CmdAt(i)'
    OBVIOUS
  <2>2. CASE i = First
    BY <1>1, <2>1, <2>2 DEF CmdAt
  <2>3. CASE i # First
    <3>1. i \in 1 .. Len(queue) /\ i - 1 \in First .. Len(queue)
      BY <1>1, <2>3
    <3>2. QED
      BY <1>1, <2>1, <2>3, <3>1 DEF CmdAt
  <2>4. QED
    BY <2>2, <2>3
<1>3. \A i \in First .. Len(queue) : TurnAt(i) => TurnAt(i)'
  <2>1. SUFFICES ASSUME NEW i \in First .. Len(queue), TurnAt(i) PROVE TurnAt(i)'
    OBVIOUS
  <2>2. i # First => i - 1 \in First .. Len(queue)
    BY <1>1
  <2>3. QED
    BY <1>1, <1>2, <2>1, <2>2 DEF TurnAt
<1>4. QED
  BY <1>2, <1>3

LEMMA LosslessService ==
    ASSUME Known, Lossless, NEW e \in Event, Service(e)
    PROVE  Lossless'
<1>1. /\ UNCHANGED mainVars /\ UNCHANGED <<bus, msg, pc, prev, cmdIdx, cmd, override, bms, answer>>
      /\ e \in irq
  BY Apart, ServiceEffect DEF mainVars, Known, IInv, Handler, Service, laptopVars
<1>2. IInv /\ InStep /\ ~overflow /\ Len(queue) < Capacity
  <2>1. Raised # {}
    BY <1>1 DEF Known, IInv, Basic, Peripheral, Raised
  <2>2. QED
    BY <2>1 DEF Known, Lossless, Room
<1>3. Basic /\ Len(queue) \in Nat /\ Capacity \in Nat
  BY <1>2, QueueIsSeq, ConstantsAssumption DEF IInv
<1>4. Len(queue) # Capacity
  BY <1>2, <1>3
<1>5. PICK t \in Transfer : overflow' = overflow /\ t.event = e /\ queue' = Append(queue, t)
  BY <1>2, <1>4, ServiceEffect DEF IInv
<1>6. /\ Raised = {e} /\ Raised' = {} /\ rx' = <<>> /\ flags' = {}
      /\ e = "WRITE" => rx # <<>> /\ queue' = Append(queue, [event |-> e, data |-> Head(rx)])
  BY <1>2, <1>4, ServiceMoves
<1>7. PICK n \in Nat : n = Len(queue)
  BY <1>3
<1>8. /\ First' = First /\ First <= n /\ First \in {0, 1} /\ Len(queue') = n + 1
      /\ \A i \in First .. n : Ev(i)' = Ev(i)
      /\ queue'[n + 1] = t
      /\ Ev(n + 1)' = e
  BY <1>1, <1>3, <1>5, <1>7, EvAppend
<1>9. Ev(First)' = Ev(First) /\ Last' = e
  BY <1>8 DEF Last, Ev
<1>10. Room' /\ Begun' /\ Whole'
  BY <1>1, <1>2, <1>5, <1>6, <1>9 DEF Lossless, Room, Begun, Whole
<1>11. Kept'
  <2>1. SUFFICES ASSUME Sole
                 PROVE  /\ bus = "w" => CmdAt(n + 1)'
                        /\ bus = "raddr" => TurnAt(n + 1)'
                        /\ bus = "rwait" => ReadAt(n + 1)'
                        /\ bus # "r"
    BY <1>1, <1>6, <1>8 DEF Kept, Sole
  <2>2. /\ \A i \in First .. n : CmdAt(i) => CmdAt(i)'
        /\ \A i \in First .. n : TurnAt(i) => TurnAt(i)'
    BY <1>1, <1>3, <1>5, <1>7, KeptAppend
  <2>3. n + 1 # First' /\ n \in First .. n /\ (n + 1) - 1 = n
    BY <1>8
  <2>4. CASE bus = "w"
    <3>1. msg.len # 0 /\ e = "WRITE"
      BY <1>2, <1>6, <2>1, <2>4 DEF InStep, OnTheBus, Tip, Sole
    <3>2. Head(rx) = msg.cmd /\ Last = "START"
      BY <1>6, <2>1, <2>4, <3>1 DEF Lossless, Kept
    <3>3. queue'[n + 1] = [event |-> e, data |-> Head(rx)]
      <4>1. [event |-> e, data |-> Head(rx)] \in Transfer
        <5>1. Head(rx) \in Byte
          BY <1>3, <1>6, <3>1, HeadTailProperties DEF Basic, TypeOK, HandlerTypeOK
        <5>2. QED
          BY <5>1 DEF Transfer
      <4>2. QED
        BY <1>1, <1>3, <1>6, <1>7, <3>1, <4>1, EvAppend
    <3>4. queue'[n + 1].data = msg'.cmd
      BY <1>1, <3>2, <3>3
    <3>5. Ev(n)' = "START"
      BY <1>7, <1>8, <2>3, <3>2 DEF Last
    <3>6. CmdAt(n + 1)'
      BY <1>8, <2>3, <3>1, <3>4, <3>5 DEF CmdAt
    <3>7. QED
      BY <2>4, <3>6
  <2>5. CASE bus = "raddr"
    <3>1. e = "START"
      BY <1>2, <1>6, <2>5 DEF InStep, OnTheBus, Tip
    <3>2. flags # {}
      BY <1>1, <1>2, <3>1 DEF IInv, Peripheral
    <3>3. CmdAt(n)'
      BY <1>7, <2>1, <2>2, <2>3, <2>5, <3>2 DEF Lossless, Kept
    <3>4. TurnAt(n + 1)'
      BY <1>8, <2>3, <3>1, <3>3 DEF TurnAt
    <3>5. QED
      BY <2>5, <3>4
  <2>6. CASE bus \in {"rwait", "r"}
    <3>1. e = "READ"
      BY <1>2, <1>6, <2>6 DEF InStep, OnTheBus, Tip
    <3>2. flags # {} /\ bus = "rwait"
      BY <1>1, <1>2, <3>1 DEF IInv, Peripheral
    <3>3. TurnAt(n)' \/ (n = First /\ Ev(First) = "READ" /\ override)
      BY <1>7, <2>1, <2>2, <2>3, <3>2 DEF Lossless, Kept, GoesOn, Last
    <3>4. ReadAt(n + 1)'
      BY <1>1, <1>8, <1>9, <2>3, <3>1, <3>3 DEF ReadAt
    <3>5. QED
      BY <3>2, <3>4
  <2>7. QED
    BY <2>4, <2>5, <2>6
<1>12. QED
  BY <1>10, <1>11 DEF Lossless

(* What the loop does with the events, the battery acknowledging them. *)
LEMMA WriteEffect ==
    ASSUME "healthy" \in Assumed, Basic, ProcessWrite, prev # "READ",
           prev = "WRITE" => cmdIdx >= 1, prev # "WRITE" => cmdIdx = 0
    PROVE  /\ prev # "WRITE" => cmdIdx' = 1 /\ cmd'[0] = queue[1].data
           /\ prev = "WRITE" =>
                 \/ cmdIdx' = cmdIdx /\ bms' = bms
                 \/ cmdIdx' = cmdIdx + 1 /\ bms' = [open |-> "w", restart |-> FALSE]
<1>1. Head(queue) = queue[1]
  BY QueueIsSeq, HeadTailProperties DEF ProcessWrite, Handle
<1>2. cmdIdx \in Nat /\ CmdSize \in Nat /\ CmdSize >= 2
      /\ cmd \in [0 .. CmdSize - 1 -> Byte \cup {NoByte}]
  BY ConstantsAssumption DEF Basic, TypeOK, CmdTypeOK
<1>3. CASE prev # "WRITE"
  <2>1. ~CmdFull
    BY <1>2, <1>3 DEF CmdFull
  <2>2. QED
    BY <1>1, <1>2, <1>3, <2>1 DEF ProcessWrite
<1>4. CASE prev = "WRITE"
  <2>1. \/ cmdIdx' = cmdIdx /\ bms' = bms
        \/ cmdIdx' = cmdIdx + 1 /\ PassOn(LastByte)
    BY <1>2, <1>4 DEF ProcessWrite, BmsQuiet
  <2>2. PassOn(LastByte) => bms' = [open |-> "w", restart |-> FALSE]
    BY DEF PassOn, BmsPut, BmsWrite, BmsWriteFails, AfterWrite
  <2>3. QED
    BY <1>4, <2>1, <2>2
<1>5. QED
  BY <1>3, <1>4

LEMMA StartEffect ==
    ASSUME "healthy" \in Assumed, ProcessStart, prev = "WRITE", Overridden
    PROVE  override'
  BY DEF ProcessStart, SwitchToRead, BmsWriteFails, OverrideReplies, OverrideFails

LEMMA LosslessProcess ==
    ASSUME "healthy" \in Assumed, Known, Lossless, Process
    PROVE  Lossless'
<1>0. IInv /\ InStep /\ Clean /\ Basic
  BY DEF Known, IInv
<1>1. /\ UNCHANGED <<msg, flags, rx, slaveOn, irq, queue, overflow, prev>>
      /\ pc = "loop" /\ pc' = "pop" /\ queue # <<>> /\ ~overflow
      /\ irq = {} /\ flags = {} /\ rx = <<>> /\ Raised' = {}
  BY <1>0, ProcessFrame, Quiet DEF IInv, Raised
<1>2. PICK n \in Nat : n = Len(queue)
  BY <1>0, QueueIsSeq
<1>3. n >= 1
  BY <1>0, <1>1, <1>2, QueueIsSeq, EmptySeq
<1>4. /\ First = 0 /\ First' = 1 /\ (\A i : Ev(i)' = Ev(i)) /\ Last' = Last /\ Len(queue') = n
      /\ Ev(0) = prev /\ Ev(1) = queue[1].event /\ Ev(n) = Last
  BY <1>1, <1>2, EvSame DEF First, Ev, Last
<1>5. /\ prev = "WRITE" => cmdIdx >= 1
      /\ prev = "START" => cmdIdx = 0
      /\ Follows(Ev(0), Ev(1), 0)
  BY <1>0, <1>2, <1>3, <1>4 DEF IInv, Windows, FirstSafe, Lossless, Begun, InStep, Adjacent
<1>6. Head(queue) = queue[1]
  BY <1>0, <1>1, QueueIsSeq, HeadTailProperties
<1>7. /\ Ev(1) = "WRITE" => ProcessWrite
      /\ Ev(1) = "START" => ProcessStart
      /\ Ev(1) = "READ" => ProcessRead
  BY <1>4, <1>6 DEF Process, ProcessWrite, ProcessRead, ProcessStop, ProcessStart, Handle
<1>8. Ev(1) = "WRITE" =>
        /\ prev \in {"START", "WRITE"}
        /\ prev = "START" => cmdIdx' = 1 /\ cmd'[0] = queue[1].data
        /\ prev = "WRITE" => \/ cmdIdx' = cmdIdx /\ bms' = bms
                             \/ cmdIdx' = cmdIdx + 1 /\ bms' = [open |-> "w", restart |-> FALSE]
  <2>1. SUFFICES ASSUME Ev(1) = "WRITE" PROVE prev \in {"START", "WRITE"}
                 /\ ProcessWrite /\ (prev # "WRITE" => cmdIdx = 0)
    BY <1>0, <1>5, WriteEffect
  <2>2. QED
    BY <1>4, <1>5, <1>7, <2>1 DEF Follows
<1>9. Room'
  BY <1>1 DEF Lossless, Room
<1>10. Begun'
  BY <1>4, <1>7 DEF Begun, ProcessStart
<1>11. Whole'
  BY <1>4, <1>5, <1>8 DEF Whole, Lossless
<1>12. Kept'
  <2>1. SUFFICES ASSUME Sole
                 PROVE  /\ bus' = "w" => CmdAt(n)'
                        /\ bus' = "raddr" => TurnAt(n)'
                        /\ bus' = "rwait" => ReadAt(n)'
                        /\ bus' = "r" => GoesOn' /\ answer' # "bms"
    BY <1>1, <1>4 DEF Kept, Sole
  <2>2. \A i \in 1 .. n : CmdAt(i) => CmdAt(i)'
    <3>1. SUFFICES ASSUME NEW i \in 1 .. n, CmdAt(i) PROVE CmdAt(i)'
      OBVIOUS
    <3>2. queue[i].data = msg.cmd /\ Ev(i - 1) = "START" /\ Ev(i) = "WRITE"
      BY <1>4, <3>1 DEF CmdAt
    <3>3. CASE i = 1
      BY <1>1, <1>4, <1>8, <3>2, <3>3 DEF CmdAt
    <3>4. CASE i # 1
      BY <1>1, <1>4, <3>2, <3>4 DEF CmdAt
    <3>5. QED
      BY <3>3, <3>4
  <2>3. \A i \in 1 .. n : TurnAt(i) => TurnAt(i)'
    <3>1. SUFFICES ASSUME NEW i \in 1 .. n, TurnAt(i) PROVE TurnAt(i)'
      OBVIOUS
    <3>2. Ev(i) = "START" /\ CmdAt(i - 1)
      BY <1>4, <3>1 DEF TurnAt
    <3>3. CASE i = 1
      <4>1. prev = "WRITE" /\ cmdIdx = 1 /\ cmd[0] = msg.cmd
        BY <1>4, <3>2, <3>3 DEF CmdAt
      <4>2. override'
        BY <1>7, <2>1, <3>2, <3>3, <4>1, StartEffect DEF Overridden, Sole
      <4>3. QED
        BY <1>4, <3>2, <3>3, <4>2 DEF TurnAt
    <3>4. CASE i # 1
      BY <1>4, <2>2, <3>2, <3>4 DEF TurnAt
    <3>5. QED
      BY <3>3, <3>4
  <2>4. Kept
    BY DEF Lossless
  <2>5. CASE Ev(1) = "READ"
    <3>1. Waits(1) /\ bus = "rwait"
      BY <1>0, <1>1, <1>2, <1>3, <1>4, <2>5 DEF Waits, IInv, Awaited
    <3>2. Last = "READ" /\ ReadAt(n)
      BY <1>0, <1>1, <1>2, <2>1, <2>4, <3>1 DEF Kept, InStep, OnTheBus, Tip, Raised, ReadAt, Last
    <3>3. n = 1
      <4>1. Waits(n)
        BY <1>1, <1>2, <1>3, <1>4, <3>2 DEF Waits, Last, Ev
      <4>2. QED
        BY <1>0, <1>2, <1>3, <3>1, <4>1 DEF IInv, Awaited
    <3>4. override
      BY <1>4, <3>2, <3>3 DEF ReadAt, TurnAt
    <3>5. override' /\ bus' = "r" /\ answer' # "bms"
      <4>1. /\ UNCHANGED override
            /\ bus' = IF bus = "rwait" THEN "r" ELSE bus
            /\ \/ answer' = "zero"
               \/ answer' = reply[replyIdx]
               \/ ~override /\ answer' = "bms"
        BY <1>0, <1>4, <2>5, ReplyEffect
      <4>2. QED
        BY <1>0, <3>1, <3>4, <4>1 DEF Known, NoneOfIts, Basic, TypeOK, ReplyTypeOK
    <3>6. QED
      BY <1>4, <3>2, <3>3, <3>5 DEF GoesOn
  <2>6. CASE Ev(1) # "READ"
    <3>1. bus' = bus
      BY <1>0, <1>4, <2>6, ProcessIndex
    <3>2. bus # "r"
      BY <1>2, <1>3, <1>4, <2>1, <2>4 DEF Kept, GoesOn
    <3>3. bus = "w" => CmdAt(n)'
      BY <1>1, <1>2, <1>3, <2>1, <2>2, <2>4 DEF Kept
    <3>4. bus = "raddr" => TurnAt(n)'
      BY <1>1, <1>2, <1>3, <2>1, <2>3, <2>4 DEF Kept
    <3>5. bus = "rwait" => ReadAt(n)'
      <4>1. SUFFICES ASSUME bus = "rwait" PROVE ReadAt(n)'
        OBVIOUS
      <4>2. ReadAt(n) /\ Ev(n) = "READ"
        BY <1>1, <1>2, <2>1, <2>4, <4>1 DEF Kept, ReadAt
      <4>3. n # 1
        BY <2>6, <4>2
      <4>4. TurnAt(n - 1) /\ n - 1 \in 1 .. n
        BY <1>3, <1>4, <4>2, <4>3 DEF ReadAt
      <4>5. TurnAt(n - 1)'
        BY <2>3, <4>4
      <4>6. QED
        BY <1>4, <4>2, <4>3, <4>5 DEF ReadAt
    <3>6. QED
      BY <3>1, <3>2, <3>3, <3>4, <3>5
  <2>7. QED
    BY <2>5, <2>6
<1>13. QED
  BY <1>9, <1>10, <1>11, <1>12 DEF Lossless

LEMMA LosslessPop == ASSUME Known, Lossless, Pop PROVE Lossless'
<1>0. IInv /\ Basic
  BY DEF Known, IInv
<1>1. PICK n \in Nat : n = Len(queue)
  BY <1>0, QueueIsSeq
<1>2. /\ UNCHANGED <<bus, msg, flags, rx, slaveOn, irq, overflow, cmdIdx, cmd, bms, override, answer>>
      /\ First = 1 /\ First' = 0 /\ n >= 1 /\ Len(queue') = n - 1 /\ Running
      /\ \A i \in 0 .. n - 1 : \A k : k = i + 1 => Ev(i)' = Ev(k)
      /\ \A i \in 1 .. n - 1 : queue'[i] = queue[i + 1]
  BY <1>0, <1>1, EvPop DEF Pop, laptopVars, NoReplyChange
<1>3. Raised' = {}
  BY <1>0, <1>2, Quiet DEF IInv, Raised
<1>4. Ev(First)' = Ev(First) /\ Last' = Last
  BY <1>1, <1>2 DEF Last, Ev
<1>5. Room' /\ Begun' /\ Whole'
  BY <1>2, <1>3, <1>4 DEF Lossless, Room, Begun, Whole
<1>6. ASSUME NEW i \in 1 .. n, CmdAt(i), NEW k, k = i - 1 PROVE CmdAt(k)'
  <2>1. k \in 0 .. n - 1 /\ k + 1 = i
    BY <1>6
  <2>2. Ev(k)' = "WRITE"
    BY <1>2, <1>6, <2>1 DEF CmdAt
  <2>3. CASE i = 1
    BY <1>2, <1>6, <2>2, <2>3 DEF CmdAt
  <2>4. CASE i # 1
    <3>1. k \in 1 .. n - 1 /\ k - 1 \in 0 .. n - 1 /\ (k - 1) + 1 = i - 1
      BY <2>1, <2>4
    <3>2. queue[i].data = msg.cmd /\ Ev(i - 1) = "START"
      BY <1>2, <1>6, <2>4 DEF CmdAt
    <3>3. queue'[k].data = msg.cmd /\ Ev(k - 1)' = "START"
      BY <1>2, <2>1, <3>1, <3>2
    <3>4. QED
      BY <1>2, <2>2, <3>1, <3>3 DEF CmdAt
  <2>5. QED
    BY <2>3, <2>4
<1>7. ASSUME NEW i \in 1 .. n, TurnAt(i), NEW k, k = i - 1 PROVE TurnAt(k)'
  <2>1. k \in 0 .. n - 1 /\ k + 1 = i
    BY <1>7
  <2>2. Ev(k)' = "START"
    BY <1>2, <1>7, <2>1 DEF TurnAt
  <2>3. CASE i = 1
    BY <1>2, <1>7, <2>2, <2>3 DEF TurnAt
  <2>4. CASE i # 1
    <3>1. CmdAt(i - 1) /\ i - 1 \in 1 .. n
      BY <1>2, <1>7, <2>4 DEF TurnAt
    <3>2. CmdAt(k - 1)'
      BY <1>6, <2>1, <3>1
    <3>3. QED
      BY <1>2, <2>1, <2>2, <2>4, <3>2 DEF TurnAt
  <2>5. QED
    BY <2>3, <2>4
<1>8. ASSUME ReadAt(n) PROVE ReadAt(n - 1)'
  <2>1. PICK k \in 0 .. n - 1 : k = n - 1
    BY <1>2
  <2>2. Ev(k)' = "READ"
    BY <1>2, <1>8, <2>1 DEF ReadAt
  <2>3. CASE n = 1
    BY <1>2, <1>8, <2>1, <2>2, <2>3 DEF ReadAt
  <2>4. CASE n # 1
    <3>1. n - 1 \in 1 .. n /\ (TurnAt(n - 1) \/ (n - 1 = 1 /\ Ev(1) = "READ" /\ override))
      BY <1>2, <1>8, <2>4 DEF ReadAt
    <3>2. TurnAt(k - 1)' \/ (k - 1 = 0 /\ Ev(0)' = "READ" /\ override)
      BY <1>2, <1>7, <2>1, <3>1
    <3>3. QED
      BY <1>2, <2>1, <2>2, <2>4, <3>2 DEF ReadAt
  <2>5. QED
    BY <2>1, <2>3, <2>4
<1>9. Kept'
  <2>1. SUFFICES ASSUME Sole
                 PROVE  /\ bus = "w" => CmdAt(n - 1)'
                        /\ bus = "raddr" => TurnAt(n - 1)'
                        /\ bus = "rwait" => ReadAt(n - 1)'
                        /\ bus = "r" => GoesOn' /\ answer # "bms"
    <3>1. flags' = {} /\ rx' = <<>>
      BY <1>3 DEF Raised
    <3>2. QED
      BY <1>2, <2>1, <3>1 DEF Kept, Sole
  <2>2. flags = {} /\ rx = <<>> /\ Kept
    BY <1>2, <1>3 DEF Raised, Lossless
  <2>3. n \in 1 .. n
    BY <1>2
  <2>4. QED
    BY <1>1, <1>2, <1>4, <1>6, <1>7, <1>8, <2>1, <2>2, <2>3 DEF Kept, GoesOn
<1>10. QED
  BY <1>5, <1>9 DEF Lossless

LEMMA LosslessStill ==
    ASSUME Known, Lossless,
           \/ IrqEnter \/ IrqReturns \/ UNCHANGED vars
           \/ Enter \/ LoopExit \/ LoopBreak \/ UpdateDone \/ \E c \in Byte : GuiRead(c)
    PROVE  Lossless'
<1>1. /\ UNCHANGED <<bus, msg, flags, rx, queue, overflow, prev, override, answer>>
      /\ First' = First
  BY DEF IrqEnter, IrqReturns, Enter, LoopExit, LoopBreak, UpdateDone, GuiRead, MainOnly, vars,
         laptopVars, handlerVars, mainVars, First
<1>2. (\A i : Ev(i)' = Ev(i)) /\ Last' = Last /\ Len(queue') = Len(queue)
  BY <1>1, EvSame
<1>3. Ev(First) \in {"START", "WRITE"} => UNCHANGED <<cmd, cmdIdx, bms>>
  <2>1. ASSUME NEW c \in Byte, GuiRead(c) PROVE Ev(First) \in {"STOP", "ABORT"}
    BY <2>1 DEF GuiRead, Known, Handover, Lossless, Room, Ev, First
  <2>2. CASE \E c \in Byte : GuiRead(c)
    BY <2>1, <2>2
  <2>3. CASE ~\E c \in Byte : GuiRead(c)
    BY <2>3 DEF IrqEnter, IrqReturns, Enter, LoopExit, LoopBreak, UpdateDone, MainOnly, vars,
                mainVars
  <2>4. QED
    BY <2>2, <2>3
<1>4. Room' /\ Begun' /\ Whole'
  <2>1. Raised' = Raised
    BY <1>1 DEF Raised
  <2>2. QED
    BY <1>1, <1>2, <1>3, <2>1 DEF Lossless, Room, Begun, Whole
<1>5. Kept'
  <2>1. /\ \A i : CmdAt(i) => CmdAt(i)'
        /\ \A i : TurnAt(i) => TurnAt(i)'
        /\ \A i : ReadAt(i) => ReadAt(i)'
        /\ GoesOn => GoesOn'
    BY <1>1, <1>3, KeptSame
  <2>2. QED
    BY <1>1, <1>2, <2>1 DEF Lossless, Kept, Sole
<1>6. QED
  BY <1>4, <1>5 DEF Lossless

LEMMA LosslessNext == ASSUME InTime, Known, Lossless, [Next]_vars PROVE Lossless'
<1>1. ~DropOff /\ ~ComeBack
  BY DEF DropOff, ComeBack, Known, Handover, Lossless, Room
<1>2. "healthy" \in Assumed
  BY DEF InTime
<1>3. QED
  BY <1>1, <1>2, LosslessLaptop, LosslessService, LosslessProcess, LosslessPop, LosslessStill
     DEF Next, Handler, Main, MainStep, Process

LEMMA KnownAlways == InTime => (Spec => []Known)
<1> SUFFICES ASSUME InTime PROVE Spec => []Known
  OBVIOUS
<1>1. "healthy" \in Assumed /\ {"prompt", "smbus"} \subseteq Assumed
  BY DEF InTime
<1>2. Spec => []Clean /\ []InStep
  BY <1>1, CleanInductive, InStepInductive
<1>3. Spec => []NoneOfIts
  <2>1. IInv /\ NoneOfIts /\ [Next]_vars => NoneOfIts'
    BY NoneOfItsNext
  <2>2. QED
    BY <2>1, NoneOfItsInit, Inductive, PTL DEF Spec
<1>4. IInv /\ Handover /\ InStep /\ Clean /\ NoneOfIts => Known
  BY DEF Known
<1>5. QED
  BY <1>2, <1>3, <1>4, Inductive, HandoverInductive, PTL

LEMMA LosslessInductive == InTime => (Spec => []Lossless)
<1> SUFFICES ASSUME InTime PROVE Spec => []Lossless
  OBVIOUS
<1>1. Known /\ Lossless /\ [Next]_vars => Lossless'
  BY LosslessNext
<1>2. Spec => []Known
  BY KnownAlways
<1>3. QED
  BY <1>1, <1>2, LosslessInit, PTL DEF Spec

(* The bytes of one write of the laptop's stay in one write: once the      *)
(* first is on its way the battery's bus is held for the rest.             *)
THEOREM WholeMessagesHolds == InTime => (Spec => []WholeMessages)
<1> SUFFICES ASSUME InTime PROVE Spec => []WholeMessages
  OBVIOUS
<1>1. Lossless => WholeMessages
  BY DEF Lossless, Whole, WholeMessages, First, Ev
<1>2. Spec => []Lossless
  BY LosslessInductive
<1>3. QED
  BY <1>1, <1>2, PTL

(* A command that is overridden never gets the battery's own reply: it     *)
(* keeps its override all the way through handler, queue and loop.         *)
THEOREM OverrideNotBypassedHolds == InTime => (Spec => []OverrideNotBypassed)
<1> SUFFICES ASSUME InTime PROVE Spec => []OverrideNotBypassed
  OBVIOUS
<1>1. Lossless => OverrideNotBypassed
  BY DEF Lossless, Kept, Sole, OverrideNotBypassed
<1>2. Spec => []Lossless
  BY LosslessInductive
<1>3. QED
  BY <1>1, <1>2, PTL

-----------------------------------------------------------------------------
(* Nothing cut.  With messages that fit, neither buffer is ever full when  *)
(* the loop has a byte for it.                                             *)

InFull == InTime /\ "fits" \in Assumed

Sound == Known /\ Lossless

(* Nothing is lost, so that a transaction ends with a stop and starts once. *)
Continues(a, b) ==
    /\ b = "STOP" => a \in {"WRITE", "READ"}
    /\ b = "START" => a \notin {"START", "READ"}

Sequel ==
    /\ \A i \in First .. Len(queue) - 1 : Continues(Ev(i), Ev(i + 1))
    /\ \A e \in Raised : Continues(Last, e)
    /\ bus # "other"
    /\ bus = "idle" => Tip("STOP") \/ (Raised = {} /\ Last = "ABORT")

LEMMA SequelInit == Init => Sequel
<1> SUFFICES ASSUME Init PROVE Sequel
  OBVIOUS
<1>1. Len(queue) = 0 /\ Raised = {} /\ First = 0
  BY DEF Init, Raised, First
<1>2. QED
  BY <1>1 DEF Init, Sequel, Last, Ev

LEMMA SequelLaptop == ASSUME InTime, Sound, Sequel, Laptop PROVE Sequel'
<1>1. /\ {"prompt", "smbus"} \subseteq Assumed /\ IInv /\ Handover /\ InStep /\ ~overflow
  BY DEF InTime, Sound, Known, Lossless, Room
<1>2. UNCHANGED <<queue, prev>> /\ First' = First
  BY LaptopEffect DEF First
<1>3. (\A i : Ev(i)' = Ev(i)) /\ Last' = Last /\ Len(queue') = Len(queue)
  BY <1>2, EvSame
<1>4. \A i \in First .. Len(queue) - 1 : Continues(Ev(i), Ev(i + 1))'
  BY <1>3 DEF Sequel, Continues
<1>5. Raised = {} /\ (bus = "idle" => Last \in {"STOP", "ABORT"})
      /\ (bus = "w" => Last = IF msg.len = 0 THEN "START" ELSE "WRITE")
      /\ (bus = "r" => Last = "READ")
  BY <1>1, PoliteEffect DEF InStep, OnTheBus, Sequel, Tip
<1>6. msg.len \in Nat
  BY <1>1 DEF IInv, Basic, TypeOK, WireTypeOK
<1>7. \A e \in Raised' : Continues(Last, e)
  BY <1>1, <1>5, <1>6, PoliteEffect DEF Continues, Sequel
<1>8. bus' # "other" /\ (bus' = "idle" => Tip("STOP")')
  BY <1>1, PoliteEffect DEF Tip
<1>9. QED
  BY <1>2, <1>3, <1>4, <1>7, <1>8 DEF Sequel, Continues

(* Between the loop's steps nothing but events moves. *)
LEMMA Appended ==
    ASSUME Sound, NEW e \in Event, Service(e)
    PROVE  /\ Raised = {e} /\ Raised' = {} /\ e \in irq
           /\ e = "WRITE" => rx # <<>>
           /\ UNCHANGED <<bus, msg, pc, prev, cmdIdx, cmd, replyIdx, override, bms>>
           /\ UNCHANGED ghostVars
           /\ First' = First /\ First \in {0, 1} /\ First <= Len(queue)
           /\ Len(queue) \in Nat /\ Len(queue') = Len(queue) + 1
           /\ \A i \in First .. Len(queue) : Ev(i)' = Ev(i)
           /\ \A i \in 1 .. Len(queue) : queue'[i] = queue[i]
           /\ \A n : n = Len(queue) + 1 =>
                 /\ Ev(n)' = e
                 /\ e = "WRITE" => queue'[n].data = Head(rx)
           /\ Last' = e
<1>1. UNCHANGED mainVars /\ e \in irq
      /\ UNCHANGED <<bus, msg, pc, prev, cmdIdx, cmd, replyIdx, override, bms>>
      /\ UNCHANGED ghostVars
  BY Apart DEF mainVars, Handler, Service, laptopVars
<1>2. IInv /\ InStep /\ ~overflow /\ Basic /\ Len(queue) \in Nat /\ Len(queue) # Capacity
  <2>1. Raised # {}
    BY <1>1 DEF Sound, Known, IInv, Basic, Peripheral, Raised
  <2>2. QED
    BY <2>1, QueueIsSeq, ConstantsAssumption DEF Sound, Known, IInv, Lossless, Room
<1>3. PICK t \in Transfer : t.event = e /\ queue' = Append(queue, t)
  BY <1>2, ServiceEffect
<1>4. /\ Raised = {e} /\ Raised' = {}
      /\ e = "WRITE" => rx # <<>> /\ queue' = Append(queue, [event |-> e, data |-> Head(rx)])
  BY <1>2, ServiceMoves
<1>5. PICK n \in Nat : n = Len(queue)
  BY <1>2
<1>6. /\ First' = First /\ First <= n /\ First \in {0, 1} /\ Len(queue') = n + 1
      /\ \A i \in First .. n : Ev(i)' = Ev(i)
      /\ \A i \in 1 .. n : queue'[i] = queue[i]
      /\ queue'[n + 1] = t
      /\ Ev(n + 1)' = e
  BY <1>1, <1>2, <1>3, <1>5, EvAppend
<1>7. e = "WRITE" => queue'[n + 1].data = Head(rx)
  <2>1. SUFFICES ASSUME e = "WRITE" PROVE queue'[n + 1] = [event |-> e, data |-> Head(rx)]
    OBVIOUS
  <2>2. Head(rx) \in Byte
    BY <1>2, <1>4, <2>1, HeadTailProperties DEF Basic, TypeOK, HandlerTypeOK
  <2>3. [event |-> e, data |-> Head(rx)] \in Transfer
    BY <2>2 DEF Transfer
  <2>4. QED
    BY <1>2, <1>4, <1>5, <2>1, <2>3, AppendProperties
<1>8. Last' = e
  BY <1>6 DEF Last, Ev
<1>9. QED
  BY <1>1, <1>4, <1>5, <1>6, <1>7, <1>8

LEMMA SequelService ==
    ASSUME Sound, Sequel, NEW e \in Event, Service(e)
    PROVE  Sequel'
<1>1. PICK n \in Nat : n = Len(queue)
  BY Appended
<1>2. /\ Raised = {e} /\ Raised' = {} /\ bus' = bus /\ Last' = e
      /\ First' = First /\ First \in {0, 1} /\ First <= n /\ Len(queue') = n + 1
      /\ \A i \in First .. n : Ev(i)' = Ev(i)
      /\ Ev(n + 1)' = e
  BY <1>1, Appended
<1>3. Continues(Ev(n), e)
  BY <1>1, <1>2 DEF Sequel, Last
<1>4. \A i \in First .. n : Continues(Ev(i), Ev(i + 1))'
  <2>1. \A i \in First .. n - 1 : Continues(Ev(i), Ev(i + 1))'
    BY <1>1, <1>2 DEF Sequel, Continues
  <2>2. Continues(Ev(n), Ev(n + 1))'
    BY <1>2, <1>3 DEF Continues
  <2>3. QED
    BY <1>2, <2>1, <2>2
<1>5. QED
  BY <1>2, <1>4 DEF Sequel, Tip

(* What every handling of an event has in common. *)
LEMMA Handled ==
    ASSUME Sound, Process
    PROVE  /\ UNCHANGED <<msg, flags, rx, queue, prev>> /\ Running
           /\ Raised = {} /\ Raised' = {}
           /\ Len(queue) \in Nat /\ Len(queue) >= 1 /\ Len(queue') = Len(queue)
           /\ First = 0 /\ First' = 1 /\ (\A i : Ev(i)' = Ev(i)) /\ Last' = Last
           /\ Ev(0) = prev /\ Ev(1) = queue[1].event /\ Ev(Len(queue)) = Last
           /\ bus' = bus \/ (bus = "rwait" /\ bus' = "r")
           /\ Head(queue) = queue[1]
           /\ Ev(1) = "WRITE" => ProcessWrite
           /\ Ev(1) = "READ" => ProcessRead
           /\ Ev(1) = "START" => ProcessStart
           /\ Ev(1) = "STOP" => ProcessStop
           /\ Ev(1) \in Event \ {"ABORT"}
<1>1. IInv /\ Basic /\ InStep
  BY DEF Sound, Known, IInv
<1>2. /\ UNCHANGED <<msg, flags, rx, queue, prev>> /\ Running
      /\ pc = "loop" /\ pc' = "pop" /\ queue # <<>>
      /\ Raised = {} /\ Raised' = {}
  BY <1>1, ProcessFrame, Quiet DEF IInv, Raised
<1>3. Len(queue) \in Nat /\ Len(queue) >= 1 /\ Head(queue) = queue[1] /\ queue[1] \in Transfer
  BY <1>1, <1>2, QueueIsSeq, EmptySeq, HeadTailProperties, ElementOfSeq
<1>4. First = 0 /\ First' = 1 /\ (\A i : Ev(i)' = Ev(i)) /\ Last' = Last /\ Len(queue') = Len(queue)
  BY <1>2, EvSame DEF First
<1>5. Ev(0) = prev /\ Ev(1) = queue[1].event /\ Ev(Len(queue)) = Last
  BY DEF Ev, Last
<1>6. Ev(1) \in Event \ {"ABORT"}
  <2>1. Follows(Ev(0), Ev(1), 0)
    BY <1>1, <1>3, <1>4 DEF InStep, Adjacent
  <2>2. QED
    BY <1>3, <1>5, <2>1 DEF Follows, Transfer
<1>7. /\ Ev(1) = "WRITE" => ProcessWrite
      /\ Ev(1) = "READ" => ProcessRead
      /\ Ev(1) = "START" => ProcessStart
      /\ Ev(1) = "STOP" => ProcessStop
  BY <1>3, <1>5 DEF Process, ProcessWrite, ProcessRead, ProcessStop, ProcessStart, Handle
<1>8. QED
  BY <1>1, <1>2, <1>3, <1>4, <1>5, <1>6, <1>7, ProcessIndex

LEMMA SequelProcess == ASSUME Sound, Sequel, Process PROVE Sequel'
<1>1. \A i \in 1 .. Len(queue) - 1 : Continues(Ev(i), Ev(i + 1))
  BY Handled DEF Sequel
<1>2. QED
  BY <1>1, Handled DEF Sequel, Continues, Tip

LEMMA PopEffect ==
    ASSUME Sound, Pop
    PROVE  /\ UNCHANGED <<bus, msg, cmdIdx, cmd, replyIdx, override, bms>>
           /\ UNCHANGED ghostVars
           /\ Raised = {} /\ Raised' = {}
           /\ Len(queue) \in Nat /\ Len(queue) >= 1 /\ Len(queue') = Len(queue) - 1
           /\ First = 1 /\ First' = 0 /\ Last' = Last
           /\ \A i \in 0 .. Len(queue) - 1 : \A k : k = i + 1 => Ev(i)' = Ev(k)
           /\ \A i \in 1 .. Len(queue) - 1 : queue'[i] = queue[i + 1]
<1>1. IInv /\ Basic
  BY DEF Sound, Known, IInv
<1>2. PICK n \in Nat : n = Len(queue)
  BY <1>1, QueueIsSeq
<1>3. /\ UNCHANGED <<bus, msg, flags, rx, slaveOn, cmdIdx, cmd, replyIdx, override, bms>>
      /\ UNCHANGED ghostVars
      /\ First = 1 /\ First' = 0 /\ n >= 1 /\ Len(queue') = n - 1 /\ Running
      /\ \A i \in 0 .. n - 1 : \A k : k = i + 1 => Ev(i)' = Ev(k)
      /\ \A i \in 1 .. n - 1 : queue'[i] = queue[i + 1]
  BY <1>1, <1>2, EvPop DEF Pop, laptopVars, NoReplyChange
<1>4. Raised = {} /\ Raised' = {}
  BY <1>1, <1>3, Quiet DEF IInv, Raised
<1>5. Last' = Last
  BY <1>2, <1>3 DEF Last, Ev
<1>6. QED
  BY <1>2, <1>3, <1>4, <1>5

LEMMA SequelPop == ASSUME Sound, Sequel, Pop PROVE Sequel'
<1>1. PICK n \in Nat : n = Len(queue)
  BY PopEffect
<1>2. /\ Raised = {} /\ Raised' = {} /\ bus' = bus /\ Last' = Last
      /\ n >= 1 /\ Len(queue') = n - 1 /\ First = 1 /\ First' = 0
      /\ \A i \in 0 .. n - 1 : \A k : k = i + 1 => Ev(i)' = Ev(k)
  BY <1>1, PopEffect
<1>3. ASSUME NEW i \in 0 .. n - 2 PROVE Continues(Ev(i), Ev(i + 1))'
  <2>1. i \in 0 .. n - 1 /\ i + 1 \in 0 .. n - 1
    OBVIOUS
  <2>2. PICK k \in 1 .. n - 1 : k = i + 1
    OBVIOUS
  <2>3. Continues(Ev(k), Ev(k + 1))
    BY <1>1, <1>2 DEF Sequel
  <2>4. Ev(i)' = Ev(k) /\ Ev(i + 1)' = Ev(k + 1)
    BY <1>2, <2>1, <2>2
  <2>5. QED
    BY <2>3, <2>4 DEF Continues
<1>4. QED
  BY <1>2, <1>3 DEF Sequel, Tip

(* The display reads only when the last event was a stop; the loop's       *)
(* other steps move its program counter only.                              *)
LEMMA Idles ==
    ASSUME InTime, Sound,
           \/ IrqEnter \/ IrqReturns \/ UNCHANGED vars
           \/ Enter \/ LoopExit \/ LoopBreak \/ UpdateDone \/ \E c \in Byte : GuiRead(c)
    PROVE  /\ UNCHANGED <<bus, msg, flags, rx, queue, prev, override, replyIdx>>
           /\ UNCHANGED ghostVars /\ First' = First /\ Raised' = Raised
           /\ (\A i : Ev(i)' = Ev(i)) /\ Last' = Last /\ Len(queue') = Len(queue)
           /\ Ev(First) \in {"START", "WRITE", "READ"} => UNCHANGED <<cmd, cmdIdx, bms>>
<1>1. UNCHANGED <<bus, msg, flags, rx, queue, prev, override, replyIdx>> /\ UNCHANGED ghostVars
      /\ First' = First
  BY DEF IrqEnter, IrqReturns, Enter, LoopExit, LoopBreak, UpdateDone, GuiRead, MainOnly, vars,
         laptopVars, handlerVars, mainVars, First
<1>2. (\A i : Ev(i)' = Ev(i)) /\ Last' = Last /\ Len(queue') = Len(queue) /\ Raised' = Raised
  BY <1>1, EvSame DEF Raised
<1>3. ASSUME NEW c \in Byte, GuiRead(c) PROVE Ev(First) \in {"STOP", "ABORT"}
  BY <1>3 DEF GuiRead, Sound, Known, Handover, Lossless, Room, Ev, First
<1>4. (\E c \in Byte : GuiRead(c)) => Ev(First) \in {"STOP", "ABORT"}
  BY <1>3
<1>5. ~(\E c \in Byte : GuiRead(c)) => UNCHANGED <<cmd, cmdIdx, bms>>
  BY DEF IrqEnter, IrqReturns, Enter, LoopExit, LoopBreak, UpdateDone, MainOnly, vars, mainVars
<1>6. QED
  BY <1>1, <1>2, <1>4, <1>5

LEMMA SequelNext == ASSUME InTime, Sound, Sequel, [Next]_vars PROVE Sequel'
<1>1. ~DropOff /\ ~ComeBack
  BY DEF DropOff, ComeBack, Sound, Known, Handover, Lossless, Room
<1>2. CASE \/ IrqEnter \/ IrqReturns \/ UNCHANGED vars
           \/ Enter \/ LoopExit \/ LoopBreak \/ UpdateDone \/ \E c \in Byte : GuiRead(c)
  BY <1>2, Idles DEF Sequel, Continues, Tip
<1>3. QED
  BY <1>1, <1>2, SequelLaptop, SequelService, SequelProcess, SequelPop
     DEF Next, Handler, Main, MainStep, Process

(* nth[i]: which byte of its message the event at position i is. *)
NumberFirst(nth) ==
    /\ Ev(First) = "WRITE" => nth[First] = cmdIdx
    /\ Ev(First) = "READ" => nth[First] = replyIdx
    /\ Ev(First) \notin {"WRITE", "READ"} => nth[First] = 0

NumberNext(nth) ==
    \A i \in First + 1 .. Len(queue) :
        nth[i] = IF Ev(i) \in {"WRITE", "READ"} THEN nth[i - 1] + 1 ELSE 0

NumberBound(nth) ==
    \A i \in First .. Len(queue) :
        /\ Ev(i) = "WRITE" => nth[i] < CmdSize
        /\ Ev(i) = "READ" => nth[i] < ReplySize

NumberLast(nth) ==
    /\ bus = "w" /\ "START" \notin Raised =>
          msg.len = nth[Len(queue)] + (IF "WRITE" \in Raised THEN 1 ELSE 0)
    /\ bus \in {"rwait", "r"} =>
          msg.read = nth[Len(queue)] + (IF "READ" \in Raised THEN 1 ELSE 0)

Numbers(nth) ==
    /\ nth \in [First .. Len(queue) -> Nat]
    /\ NumberFirst(nth)
    /\ NumberNext(nth)
    /\ NumberBound(nth)
    /\ NumberLast(nth)

Fitting ==
    /\ Ev(First) = "START" => replyIdx = 0
    /\ bus = "w" => msg.len < CmdSize
    /\ bus \in {"w", "raddr"} => msg.read = 0
    /\ bus \in {"rwait", "r"} => msg.read < ReplySize

Fits == Fitting /\ \E nth : Numbers(nth)

LEMMA FitsInit == Init => Fits
<1> SUFFICES ASSUME Init PROVE Fits
  OBVIOUS
<1>1. Len(queue) = 0 /\ First = 0 /\ Ev(First) = "ABORT" /\ bus = "idle"
  BY DEF Init, First, Ev
<1>2. Numbers([i \in 0 .. 0 |-> 0])
  BY <1>1 DEF Numbers, NumberFirst, NumberNext, NumberBound, NumberLast
<1>3. QED
  BY <1>1, <1>2 DEF Fits, Fitting

LEMMA FitsLaptop == ASSUME InFull, Sound, Sequel, Fits, Laptop PROVE Fits'
<1>1. /\ {"prompt", "smbus"} \subseteq Assumed /\ IInv /\ Handover /\ InStep /\ ~overflow
      /\ "smbus" \in Assumed /\ "fits" \in Assumed
  BY DEF InFull, InTime, Sound, Known, Lossless, Room
<1>2. UNCHANGED <<queue, prev, cmdIdx, replyIdx>> /\ First' = First
  BY Apart, LaptopEffect DEF First, mainVars
<1>3. (\A i : Ev(i)' = Ev(i)) /\ Last' = Last /\ Len(queue') = Len(queue)
  BY <1>2, EvSame
<1>4. /\ Raised = {} /\ bus # "other"
      /\ bus = "raddr" => Last = "START"
  BY <1>1, PoliteEffect DEF InStep, OnTheBus, Sequel, Tip
<1>5. /\ msg.len \in 0 .. CmdSize /\ msg.read \in 0 .. ReplySize
      /\ CmdSize \in Nat /\ ReplySize \in Nat /\ CmdSize >= 2 /\ ReplySize >= 1
      /\ msg \in [len : 0 .. CmdSize, cmd : Byte \cup {NoByte}, read : 0 .. ReplySize]
  BY <1>1, ConstantsAssumption DEF IInv, Basic, TypeOK, WireTypeOK
<1>6. bus' = "w" /\ bus = "w" => msg.len < CmdSize - 1
  BY <1>1 DEF Laptop, LaptopStart, LaptopWrite, LaptopRead, LaptopStop, SlaveAborts
<1>7. bus' = "rwait" => msg.read < ReplySize - 1
  BY <1>1, <1>4 DEF Laptop, LaptopStart, LaptopWrite, LaptopRead, LaptopStop, SlaveAborts
<1>8. Nothing.len = 0 /\ Nothing.read = 0
  BY DEF Nothing
<1>9. ASSUME NEW b \in Byte, msg.len < CmdSize
      PROVE  Written(msg, b).len = msg.len + 1 /\ Written(msg, b).read = msg.read
  BY <1>9 DEF Written
<1>10. msg.read < ReplySize => ReadOnce(msg).len = msg.len /\ ReadOnce(msg).read = msg.read + 1
  BY <1>5 DEF ReadOnce
<1>11. \/ /\ bus = "idle" /\ bus' \in {"w", "raddr"} /\ msg'.len = 0 /\ msg'.read = 0
          /\ Raised' = {"START"}
       \/ /\ bus = "w" /\ bus' = "raddr" /\ msg' = msg
          /\ Raised' = {"START"}
       \/ /\ bus = "w" /\ bus' = "w" /\ Raised' = {"WRITE"}
          /\ msg'.len = msg.len + 1 /\ msg'.read = msg.read /\ msg'.len < CmdSize
       \/ /\ bus \in {"raddr", "r"} /\ bus' = "rwait" /\ Raised' = {"READ"}
          /\ msg'.read = msg.read + 1 /\ msg'.read < ReplySize
       \/ /\ bus' = "idle" /\ Raised' = {"STOP"}
  <2>1. CASE bus = "w" /\ bus' = "w"
    <3>1. PICK b \in Byte : msg' = Written(msg, b) /\ Raised' = {"WRITE"}
      BY <1>1, <2>1, PoliteEffect
    <3>2. msg.len < CmdSize /\ msg.len + 1 < CmdSize
      BY <1>5, <1>6, <2>1
    <3>3. QED
      BY <1>9, <2>1, <3>1, <3>2
  <2>2. CASE bus' = "rwait"
    <3>1. msg' = ReadOnce(msg) /\ Raised' = {"READ"} /\ bus \in {"raddr", "r"}
      BY <1>1, <2>2, PoliteEffect
    <3>2. QED
      BY <1>5, <1>7, <1>10, <2>2, <3>1
  <2>3. CASE bus' # "rwait" /\ ~(bus = "w" /\ bus' = "w")
    BY <1>1, <1>8, <2>3, PoliteEffect
  <2>4. QED
    BY <2>1, <2>2, <2>3
<1>12. Fitting'
  BY <1>2, <1>3, <1>5, <1>11 DEF Fits, Fitting
<1>13. PICK nth : Numbers(nth)
  BY DEF Fits
<1>14. PICK n \in Nat : n = Len(queue)
  BY <1>1, QueueIsSeq DEF IInv
<1>15. nth \in [First .. n -> Nat] /\ First \in {0, 1} /\ First <= n
  <2>1. queue # <<>> => n >= 1
    BY <1>1, <1>14, QueueIsSeq, EmptySeq DEF IInv
  <2>2. QED
    BY <1>1, <1>13, <1>14, <2>1 DEF Numbers, First, IInv, Basic
<1>16. Last = "START" => nth[n] = 0
  <2>1. CASE n = First
    BY <1>13, <1>14, <2>1 DEF Numbers, NumberFirst, Last
  <2>2. CASE n # First
    <3>1. n \in First + 1 .. n
      BY <1>15, <2>2
    <3>2. QED
      BY <1>13, <1>14, <3>1 DEF Numbers, NumberNext, Last
  <2>3. QED
    BY <2>1, <2>2
<1>17. bus' = "w" /\ "START" \notin Raised' =>
          msg'.len = nth[n] + (IF "WRITE" \in Raised' THEN 1 ELSE 0)
  <2>1. bus = "w" => msg.len = nth[n] + 0
    BY <1>4, <1>13, <1>14 DEF Numbers, NumberLast
  <2>2. nth[n] \in Nat
    BY <1>15
  <2>3. QED
    BY <1>11, <2>1, <2>2
<1>18. bus' \in {"rwait", "r"} =>
          msg'.read = nth[n] + (IF "READ" \in Raised' THEN 1 ELSE 0)
  <2>1. bus \in {"rwait", "r"} => msg.read = nth[n] + 0
    BY <1>4, <1>13, <1>14 DEF Numbers, NumberLast
  <2>2. nth[n] \in Nat
    BY <1>15
  <2>3. bus = "raddr" => msg.read = 0 /\ nth[n] = 0
    BY <1>4, <1>16 DEF Fits, Fitting
  <2>4. QED
    BY <1>11, <2>1, <2>2, <2>3
<1>19. NumberFirst(nth)' /\ NumberNext(nth)' /\ NumberBound(nth)'
  BY <1>2, <1>3, <1>13 DEF Numbers, NumberFirst, NumberNext, NumberBound
<1>20. NumberLast(nth)'
  BY <1>3, <1>14, <1>17, <1>18 DEF NumberLast
<1>21. nth \in [First' .. Len(queue') -> Nat]
  BY <1>2, <1>3, <1>14, <1>15
<1>22. QED
  BY <1>12, <1>19, <1>20, <1>21 DEF Fits, Numbers

LEMMA FitsService ==
    ASSUME InTime, Sound, Sequel, Fits, NEW e \in Event, Service(e)
    PROVE  Fits'
<1>1. PICK n \in Nat : n = Len(queue)
  BY Appended
<1>2. /\ Raised = {e} /\ Raised' = {} /\ UNCHANGED <<bus, msg, cmdIdx, replyIdx>>
      /\ First' = First /\ First \in {0, 1} /\ First <= n /\ Len(queue') = n + 1
      /\ \A i \in First .. n : Ev(i)' = Ev(i)
      /\ Ev(n + 1)' = e
  BY <1>1, Appended
<1>3. PICK nth : Numbers(nth)
  BY DEF Fits
<1>4. nth \in [First .. n -> Nat]
  BY <1>1, <1>3 DEF Numbers
<1>5. PICK next \in [First .. n + 1 -> Nat] :
         /\ \A i \in First .. n : next[i] = nth[i]
         /\ next[n + 1] = IF e \in {"WRITE", "READ"} THEN nth[n] + 1 ELSE 0
  <2> DEFINE longer == [i \in First .. n + 1 |->
                           IF i <= n THEN nth[i]
                           ELSE IF e \in {"WRITE", "READ"} THEN nth[n] + 1 ELSE 0]
  <2>1. /\ longer \in [First .. n + 1 -> Nat]
        /\ \A i \in First .. n : longer[i] = nth[i]
        /\ longer[n + 1] = IF e \in {"WRITE", "READ"} THEN nth[n] + 1 ELSE 0
    BY <1>2, <1>4
  <2> HIDE DEF longer
  <2>2. QED
    BY <2>1
<1>6. /\ bus = "w" => msg.len = (IF e = "WRITE" THEN nth[n] + 1 ELSE 0) /\ e \in {"WRITE", "START"}
      /\ bus \in {"rwait", "r"} => msg.read = nth[n] + 1 /\ e = "READ"
      /\ e = "WRITE" => bus = "w"
      /\ e = "READ" => bus \in {"rwait", "r"}
      /\ bus \in {"w", "raddr", "rwait", "r", "idle"}
  <2>1. OnTheBus /\ ~overflow /\ msg.len \in Nat
        /\ bus \in {"idle", "w", "raddr", "rwait", "r", "other"}
    BY DEF Sound, Known, InStep, Lossless, Room, IInv, Basic, TypeOK, WireTypeOK
  <2>2. /\ bus = "w" => e = IF msg.len = 0 THEN "START" ELSE "WRITE"
        /\ bus = "raddr" => e = "START"
        /\ bus \in {"rwait", "r"} => e = "READ"
        /\ bus = "idle" => e = "STOP"
        /\ bus # "other"
    BY <1>2, <2>1 DEF OnTheBus, Tip, Sequel
  <2>3. bus = "w" /\ e = "WRITE" => msg.len = nth[n] + 1
    BY <1>1, <1>2, <1>3 DEF Numbers, NumberLast
  <2>4. bus \in {"rwait", "r"} => msg.read = nth[n] + 1
    BY <1>1, <1>2, <1>3, <2>2 DEF Numbers, NumberLast
  <2>5. QED
    BY <2>1, <2>2, <2>3, <2>4
<1>7. Fitting'
  BY <1>2 DEF Fits, Fitting
<1>8. First' .. Len(queue') = First .. n + 1 /\ First' + 1 .. Len(queue') = First + 1 .. n + 1
  BY <1>2
<1>9. NumberNext(next)'
  <2>1. \A i \in First + 1 .. n :
           next[i] = IF Ev(i)' \in {"WRITE", "READ"} THEN next[i - 1] + 1 ELSE 0
    <3>1. SUFFICES ASSUME NEW i \in First + 1 .. n
                   PROVE  next[i] = IF Ev(i)' \in {"WRITE", "READ"} THEN next[i - 1] + 1 ELSE 0
      OBVIOUS
    <3>2. i \in First .. n /\ i - 1 \in First .. n
      BY <1>2
    <3>3. nth[i] = IF Ev(i) \in {"WRITE", "READ"} THEN nth[i - 1] + 1 ELSE 0
      BY <1>1, <1>3 DEF Numbers, NumberNext
    <3>4. next[i] = nth[i] /\ next[i - 1] = nth[i - 1] /\ Ev(i)' = Ev(i)
      BY <1>2, <1>5, <3>2
    <3>5. QED
      BY <3>3, <3>4
  <2>2. next[n + 1] = IF Ev(n + 1)' \in {"WRITE", "READ"} THEN next[n] + 1 ELSE 0
    BY <1>2, <1>5
  <2>3. ASSUME NEW i \in First + 1 .. n + 1
        PROVE  next[i] = IF Ev(i)' \in {"WRITE", "READ"} THEN next[i - 1] + 1 ELSE 0
    <3>1. CASE i = n + 1
      <4>1. i - 1 = n
        BY <3>1
      <4>2. QED
        BY <2>2, <3>1, <4>1
    <3>2. CASE i # n + 1
      <4>1. i \in First + 1 .. n
        BY <1>2, <3>2
      <4>2. QED
        BY <2>1, <4>1
    <3>3. QED
      BY <3>1, <3>2
  <2>4. QED
    BY <1>8, <2>3 DEF NumberNext
<1>10. NumberBound(next)'
  <2>1. \A i \in First .. n :
           /\ Ev(i)' = "WRITE" => next[i] < CmdSize
           /\ Ev(i)' = "READ" => next[i] < ReplySize
    BY <1>1, <1>2, <1>3, <1>5 DEF Numbers, NumberBound
  <2>2. /\ e = "WRITE" => next[n + 1] < CmdSize
        /\ e = "READ" => next[n + 1] < ReplySize
    BY <1>5, <1>6 DEF Fits, Fitting
  <2>3. \A i \in First .. n + 1 :
           /\ Ev(i)' = "WRITE" => next[i] < CmdSize
           /\ Ev(i)' = "READ" => next[i] < ReplySize
    BY <1>2, <2>1, <2>2
  <2>4. QED
    BY <1>8, <2>3 DEF NumberBound
<1>11. NumberFirst(next)'
  <2>1. First \in First .. n
    BY <1>2
  <2>2. Ev(First)' = Ev(First) /\ next[First] = nth[First]
    BY <1>2, <1>5, <2>1
  <2>3. QED
    BY <1>2, <1>3, <2>2 DEF Numbers, NumberFirst
<1>12. NumberLast(next)'
  <2>1. /\ bus' = "w" => msg'.len = next[n + 1]
        /\ bus' \in {"rwait", "r"} => msg'.read = next[n + 1]
    BY <1>2, <1>5, <1>6
  <2>2. next[n + 1] \in Nat
    BY <1>2, <1>5
  <2>3. QED
    BY <1>2, <2>1, <2>2 DEF NumberLast
<1>13. next \in [First' .. Len(queue') -> Nat]
  BY <1>5, <1>8
<1>14. QED
  BY <1>7, <1>9, <1>10, <1>11, <1>12, <1>13 DEF Fits, Numbers

(* Neither buffer is full when an event that fills it is handled. *)
LEMMA NeverFull ==
    ASSUME Sound, Sequel, Fitting, NEW nth, Numbers(nth), Process
    PROVE  /\ Follows(prev, Ev(1), 0)
           /\ Ev(1) = "WRITE" => nth[1] = cmdIdx + 1 /\ prev # "READ" /\ ~CmdFull
           /\ Ev(1) = "READ" => nth[1] = replyIdx + 1 /\ prev # "WRITE" /\ ~ReplyFull
           /\ Ev(1) \notin {"WRITE", "READ"} => nth[1] = 0
<1>1. First = 0 /\ 1 \in First .. Len(queue) /\ 1 \in First + 1 .. Len(queue)
  BY Handled
<1>2. /\ nth[1] = IF Ev(1) \in {"WRITE", "READ"} THEN nth[0] + 1 ELSE 0
      /\ Ev(1) = "WRITE" => nth[1] < CmdSize
      /\ Ev(1) = "READ" => nth[1] < ReplySize
  BY <1>1 DEF Numbers, NumberNext, NumberBound
<1>3. /\ prev = "WRITE" => nth[0] = cmdIdx
      /\ prev = "READ" => nth[0] = replyIdx
      /\ prev = "START" => nth[0] = 0 /\ cmdIdx = 0 /\ replyIdx = 0
      /\ Follows(prev, Ev(1), 0)
  <2>1. Ev(0) = prev
    BY DEF Ev
  <2>2. 0 \in First .. Len(queue) - 1
    BY Handled
  <2>3. Follows(Ev(0), Ev(0 + 1), 0)
    BY <2>2 DEF Sound, Known, InStep, Adjacent
  <2>4. QED
    BY <1>1, <2>1, <2>3 DEF Numbers, NumberFirst, Sound, Lossless, Begun, Fitting
<1>4. cmdIdx \in Nat /\ replyIdx \in Nat /\ CmdSize \in Nat /\ ReplySize \in Nat
  BY ConstantsAssumption DEF Sound, Known, IInv, Basic, TypeOK, CmdTypeOK, ReplyTypeOK
<1>5. Ev(1) = "WRITE" => nth[1] = cmdIdx + 1 /\ prev # "READ" /\ ~CmdFull
  BY <1>2, <1>3, <1>4 DEF Follows, CmdFull
<1>6. Ev(1) = "READ" => nth[1] = replyIdx + 1 /\ prev # "WRITE" /\ ~ReplyFull
  BY <1>2, <1>3, <1>4 DEF Follows, ReplyFull
<1>7. QED
  BY <1>2, <1>3, <1>5, <1>6

LEMMA FitsProcess == ASSUME InFull, Sound, Sequel, Fits, Process PROVE Fits'
<1>1. PICK n \in Nat : n = Len(queue) /\ n >= 1
  BY Handled
<1>2. /\ UNCHANGED <<msg, queue, prev>> /\ Raised = {} /\ Raised' = {}
      /\ First = 0 /\ First' = 1 /\ (\A i : Ev(i)' = Ev(i)) /\ Len(queue') = n
      /\ bus' = bus \/ (bus = "rwait" /\ bus' = "r")
  BY <1>1, Handled
<1>3. PICK nth : Numbers(nth)
  BY DEF Fits
<1>4. nth \in [0 .. n -> Nat] /\ nth[0] \in Nat /\ nth[1] \in Nat
  BY <1>1, <1>2, <1>3 DEF Numbers
<1>5. PICK next \in [1 .. n -> Nat] : \A i \in 1 .. n : next[i] = nth[i]
  <2> DEFINE shorter == [i \in 1 .. n |-> nth[i]]
  <2>1. shorter \in [1 .. n -> Nat] /\ \A i \in 1 .. n : shorter[i] = nth[i]
    BY <1>4
  <2> HIDE DEF shorter
  <2>2. QED
    BY <2>1
<1>6. /\ Ev(1) = "WRITE" => nth[1] = cmdIdx + 1 /\ prev # "READ" /\ ~CmdFull
      /\ Ev(1) = "READ" => nth[1] = replyIdx + 1 /\ prev # "WRITE" /\ ~ReplyFull
      /\ Ev(1) \notin {"WRITE", "READ"} => nth[1] = 0
  BY <1>3, NeverFull DEF Fits
<1>7. Ev(1) = "WRITE" => nth[1] = cmdIdx'
  BY <1>6, Handled DEF ProcessWrite
<1>8. Ev(1) = "READ" => nth[1] = replyIdx'
  <2>1. ~AnswerStale
    BY DEF AnswerStale, InFull, InTime
  <2>2. QED
    BY <1>6, <2>1, Handled DEF ProcessRead, AnswerOverride, AnswerBms
<1>9. Ev(1) = "START" => replyIdx' = 0
  BY Handled DEF ProcessStart
<1>10. Fitting'
  BY <1>2, <1>9 DEF Fits, Fitting
<1>11. NumberFirst(next)'
  <2>1. next[1] = nth[1] /\ Ev(1)' = Ev(1)
    BY <1>1, <1>2, <1>5
  <2>2. QED
    BY <1>2, <1>6, <1>7, <1>8, <2>1 DEF NumberFirst
<1>12. NumberNext(next)'
  <2>1. ASSUME NEW i \in 2 .. n
        PROVE  next[i] = IF Ev(i)' \in {"WRITE", "READ"} THEN next[i - 1] + 1 ELSE 0
    <3>1. i \in 1 .. n /\ i - 1 \in 1 .. n /\ i \in First + 1 .. Len(queue)
      BY <1>1, <1>2
    <3>2. nth[i] = IF Ev(i) \in {"WRITE", "READ"} THEN nth[i - 1] + 1 ELSE 0
      BY <1>3, <3>1 DEF Numbers, NumberNext
    <3>3. next[i] = nth[i] /\ next[i - 1] = nth[i - 1] /\ Ev(i)' = Ev(i)
      BY <1>2, <1>5, <3>1
    <3>4. QED
      BY <3>2, <3>3
  <2>2. First' + 1 .. Len(queue') = 2 .. n
    BY <1>2
  <2>3. QED
    BY <2>1, <2>2 DEF NumberNext
<1>13. NumberBound(next)'
  <2>1. ASSUME NEW i \in 1 .. n
        PROVE  /\ Ev(i)' = "WRITE" => next[i] < CmdSize
               /\ Ev(i)' = "READ" => next[i] < ReplySize
    <3>1. i \in First .. Len(queue)
      BY <1>1, <1>2
    <3>2. next[i] = nth[i] /\ Ev(i)' = Ev(i)
      BY <1>2, <1>5
    <3>3. QED
      BY <1>3, <3>1, <3>2 DEF Numbers, NumberBound
  <2>2. First' .. Len(queue') = 1 .. n
    BY <1>2
  <2>3. QED
    BY <2>1, <2>2 DEF NumberBound
<1>14. NumberLast(next)'
  <2>1. next[n] = nth[n]
    BY <1>1, <1>5
  <2>2. QED
    BY <1>1, <1>2, <1>3, <2>1 DEF Numbers, NumberLast
<1>15. next \in [First' .. Len(queue') -> Nat]
  BY <1>2, <1>5
<1>16. QED
  BY <1>10, <1>11, <1>12, <1>13, <1>14, <1>15 DEF Fits, Numbers

LEMMA FitsPop == ASSUME InFull, Sound, Sequel, Fits, Pop PROVE Fits'
<1>1. PICK n \in Nat : n = Len(queue) /\ n >= 1
  BY PopEffect
<1>2. /\ UNCHANGED <<bus, msg, cmdIdx, replyIdx>> /\ Raised = {} /\ Raised' = {}
      /\ First = 1 /\ First' = 0 /\ Len(queue') = n - 1
      /\ \A i \in 0 .. n - 1 : \A k : k = i + 1 => Ev(i)' = Ev(k)
  BY <1>1, PopEffect
<1>3. PICK nth : Numbers(nth)
  BY DEF Fits
<1>4. nth \in [1 .. n -> Nat]
  BY <1>1, <1>2, <1>3 DEF Numbers
<1>5. PICK next \in [0 .. n - 1 -> Nat] : \A i \in 0 .. n - 1 : \A k : k = i + 1 => next[i] = nth[k]
  <2> DEFINE moved == [i \in 0 .. n - 1 |-> nth[i + 1]]
  <2>1. moved \in [0 .. n - 1 -> Nat] /\ \A i \in 0 .. n - 1 : \A k : k = i + 1 => moved[i] = nth[k]
    BY <1>4
  <2> HIDE DEF moved
  <2>2. QED
    BY <2>1
<1>6. Ev(0)' = Ev(1) /\ next[0] = nth[1]
  BY <1>1, <1>2, <1>5
<1>7. Fitting'
  BY <1>2, <1>6 DEF Fits, Fitting
<1>8. NumberFirst(next)'
  BY <1>2, <1>3, <1>6 DEF Numbers, NumberFirst
<1>9. NumberNext(next)'
  <2>1. ASSUME NEW i \in 1 .. n - 1
        PROVE  next[i] = IF Ev(i)' \in {"WRITE", "READ"} THEN next[i - 1] + 1 ELSE 0
    <3>1. PICK k \in 2 .. n : k = i + 1
      OBVIOUS
    <3>2. k \in First + 1 .. Len(queue)
      BY <1>1, <1>2
    <3>3. nth[k] = IF Ev(k) \in {"WRITE", "READ"} THEN nth[k - 1] + 1 ELSE 0
      BY <1>3, <3>2 DEF Numbers, NumberNext
    <3>4. next[i] = nth[k] /\ Ev(i)' = Ev(k)
      <4>1. i \in 0 .. n - 1
        OBVIOUS
      <4>2. QED
        BY <1>2, <1>5, <3>1, <4>1
    <3>5. next[i - 1] = nth[k - 1]
      <4>1. i - 1 \in 0 .. n - 1 /\ k - 1 = (i - 1) + 1
        BY <3>1
      <4>2. QED
        BY <1>5, <4>1
    <3>6. QED
      BY <3>3, <3>4, <3>5
  <2>2. First' + 1 .. Len(queue') = 1 .. n - 1
    BY <1>2
  <2>3. QED
    BY <2>1, <2>2 DEF NumberNext
<1>10. NumberBound(next)'
  <2>1. ASSUME NEW i \in 0 .. n - 1
        PROVE  /\ Ev(i)' = "WRITE" => next[i] < CmdSize
               /\ Ev(i)' = "READ" => next[i] < ReplySize
    <3>1. PICK k \in First .. Len(queue) : k = i + 1
      BY <1>1, <1>2
    <3>2. next[i] = nth[k] /\ Ev(i)' = Ev(k)
      BY <1>2, <1>5, <3>1
    <3>3. QED
      BY <1>3, <3>2 DEF Numbers, NumberBound
  <2>2. First' .. Len(queue') = 0 .. n - 1
    BY <1>2
  <2>3. QED
    BY <2>1, <2>2 DEF NumberBound
<1>11. NumberLast(next)'
  <2>1. next[n - 1] = nth[n]
    BY <1>1, <1>5
  <2>2. QED
    BY <1>1, <1>2, <1>3, <2>1 DEF Numbers, NumberLast
<1>12. next \in [First' .. Len(queue') -> Nat]
  BY <1>2, <1>5
<1>13. QED
  BY <1>7, <1>8, <1>9, <1>10, <1>11, <1>12 DEF Fits, Numbers

LEMMA FitsNext == ASSUME InFull, Sound, Sequel, Fits, [Next]_vars PROVE Fits'
<1>1. ~DropOff /\ ~ComeBack
  BY DEF DropOff, ComeBack, Sound, Known, Handover, Lossless, Room
<1>2. CASE \/ IrqEnter \/ IrqReturns \/ UNCHANGED vars
           \/ Enter \/ LoopExit \/ LoopBreak \/ UpdateDone \/ \E c \in Byte : GuiRead(c)
  <2>1. PICK nth : Numbers(nth)
    BY DEF Fits
  <2>2. /\ UNCHANGED <<bus, msg, queue, replyIdx>> /\ First' = First /\ Raised' = Raised
        /\ (\A i : Ev(i)' = Ev(i)) /\ Len(queue') = Len(queue)
        /\ Ev(First) = "WRITE" => UNCHANGED cmdIdx
    BY <1>2, Idles DEF InFull
  <2>3. Fitting'
    BY <2>2 DEF Fits, Fitting
  <2>4. NumberFirst(nth)' /\ NumberNext(nth)' /\ NumberBound(nth)' /\ NumberLast(nth)'
    BY <2>1, <2>2 DEF Numbers, NumberFirst, NumberNext, NumberBound, NumberLast
  <2>5. nth \in [First' .. Len(queue') -> Nat]
    BY <2>1, <2>2 DEF Numbers
  <2>6. QED
    BY <2>3, <2>4, <2>5 DEF Fits, Numbers
<1>3. QED
  BY <1>1, <1>2, FitsLaptop, FitsService, FitsProcess, FitsPop
     DEF Next, Handler, Main, MainStep, Process, InFull

-----------------------------------------------------------------------------
(* Everything is forwarded.  What the laptop has said and the battery has  *)
(* not heard is the byte held back, the queue and the condition raised.    *)

(* s is what event e, with byte d and behind event a, says on the wire. *)
Says(s, e, d, a) ==
    /\ e = "WRITE" /\ a = "START" => s = <<"w", d, TRUE>>
    /\ e = "WRITE" /\ a # "START" => s = <<"w", d, FALSE>>
    /\ e = "READ" /\ a = "START" => s = <<"r", TRUE>>
    /\ e = "READ" /\ a # "START" => s = <<"r", FALSE>>
    /\ e = "STOP" => s = <<"p">>

(* The last thing the battery has heard is a read. *)
Asked == got # <<>> /\ got[Len(got)] \in Read

(* The battery's bus is where the next symbol needs it. *)
Listening ==
    /\ Ev(First) = "WRITE" /\ cmdIdx = 1 => Starts("w")
    /\ Ev(First) = "START" => Starts("w") /\ (~override => Starts("r"))
    /\ Ev(First) = "READ" /\ ~override => bms = [open |-> "r", restart |-> FALSE] /\ Asked
    /\ Ev(First) \in {"START", "READ"} /\ override =>
          got \in Intercepted /\ (Starts("r") <=> ~Asked)

(* The byte the loop holds back is the first symbol owed. *)
Held ==
    Ev(First) = "WRITE" =>
        /\ cmdIdx = 1 => owed[1] = <<"w", LastByte, TRUE>>
        /\ cmdIdx # 1 => owed[1] = <<"w", LastByte, FALSE>>

(* at[i]: how many of the symbols owed come no later than event i.  A      *)
(* start is no symbol of its own, it shows in the one behind it.           *)
PlaceFirst(at) == at[First] = IF Ev(First) = "WRITE" THEN 1 ELSE 0

PlaceNext(at) ==
    \A i \in First + 1 .. Len(queue) :
        at[i] = IF Ev(i) = "START" THEN at[i - 1] ELSE at[i - 1] + 1

PlaceOrder(at) == \A i, j \in First .. Len(queue) : i <= j => at[i] <= at[j]

PlaceLast(at) ==
    Len(owed) = IF Raised \subseteq {"START"} THEN at[Len(queue)] ELSE at[Len(queue)] + 1

InQueue(at) ==
    \A i \in First + 1 .. Len(queue) :
        Ev(i) # "START" => Says(owed[at[i]], Ev(i), queue[i].data, Ev(i - 1))

Places(at) ==
    /\ at \in [First .. Len(queue) -> Nat]
    /\ PlaceFirst(at)
    /\ PlaceNext(at)
    /\ PlaceOrder(at)
    /\ PlaceLast(at)
    /\ InQueue(at)

(* What the handler has not taken up yet is the last symbol owed. *)
Waiting == \A e \in Raised : e # "START" => Says(owed[Len(owed)], e, Head(rx), Last)

Owes ==
    /\ owed \in Seq(Symbol)
    /\ Listening
    /\ Held
    /\ Waiting
    /\ \E at : Places(at)

LEMMA OwesInit == Init => Owes
<1> SUFFICES ASSUME Init PROVE Owes
  OBVIOUS
<1>1. Len(queue) = 0 /\ First = 0 /\ Ev(First) = "ABORT" /\ Raised = {}
  BY DEF Init, First, Ev, Raised
<1>2. owed \in Seq(Symbol) /\ Len(owed) = 0
  BY DEF Init
<1>3. Places([i \in 0 .. 0 |-> 0])
  BY <1>1, <1>2 DEF Places, PlaceFirst, PlaceNext, PlaceOrder, PlaceLast, InQueue
<1>4. QED
  BY <1>1, <1>2, <1>3 DEF Owes, Listening, Held, Waiting

LEMMA Within ==
    ASSUME Sound, Owes, NEW at, Places(at)
    PROVE  /\ Len(queue) \in Nat /\ First \in {0, 1} /\ First <= Len(queue)
           /\ Len(owed) \in Nat /\ at[First] \in Nat /\ at[Len(queue)] \in Nat
           /\ at[Len(queue)] <= Len(owed)
           /\ Ev(First) = "WRITE" => Len(owed) >= 1
           /\ \A i \in First + 1 .. Len(queue) : Ev(i) # "START" => at[i] \in 1 .. Len(owed)
<1>1. PICK n \in Nat : n = Len(queue)
  BY QueueIsSeq DEF Sound, Known, IInv
<1>2. First \in {0, 1} /\ First <= n
  <2>1. queue # <<>> => n >= 1
    BY <1>1, QueueIsSeq, EmptySeq DEF Sound, Known, IInv
  <2>2. QED
    BY <1>1, <2>1 DEF First, Sound, Known, IInv, Basic
<1>3. Len(owed) \in Nat
  BY LenProperties DEF Owes
<1>4. at \in [First .. n -> Nat] /\ at[First] \in Nat /\ at[n] \in Nat
  BY <1>1, <1>2 DEF Places
<1>5. at[n] <= Len(owed)
  BY <1>1, <1>3, <1>4 DEF Places, PlaceLast
<1>6. Ev(First) = "WRITE" => Len(owed) >= 1
  <2>1. at[First] <= at[n]
    BY <1>1, <1>2 DEF Places, PlaceOrder
  <2>2. QED
    BY <1>3, <1>4, <1>5, <2>1 DEF Places, PlaceFirst
<1>7. ASSUME NEW i \in First + 1 .. n, Ev(i) # "START" PROVE at[i] \in 1 .. Len(owed)
  <2>1. i \in First .. n /\ i - 1 \in First .. n /\ n \in First .. n
    BY <1>2
  <2>2. at[i] = at[i - 1] + 1
    BY <1>1, <1>7 DEF Places, PlaceNext
  <2>3. at[i] <= at[n]
    BY <1>1, <2>1 DEF Places, PlaceOrder
  <2>4. at[i] \in Nat /\ at[i - 1] \in Nat
    BY <1>4, <2>1
  <2>5. QED
    BY <1>3, <1>4, <1>5, <2>2, <2>3, <2>4
<1>8. QED
  BY <1>1, <1>2, <1>3, <1>4, <1>5, <1>6, <1>7

(* What the laptop says goes to the end of what is owed. *)
LEMMA LaptopSays ==
    ASSUME InTime, Track = TRUE, Sound, Sequel, Laptop
    PROVE  /\ Raised = {} /\ UNCHANGED <<got, turn>>
           /\ \/ Raised' = {"START"} /\ UNCHANGED owed
              \/ \E s \in Symbol, e \in {"WRITE", "READ", "STOP"} :
                    /\ Raised' = {e}
                    /\ Wire!Say(s)
                    /\ Says(s, e, Head(rx'), Last)
<1>1. /\ {"prompt", "smbus"} \subseteq Assumed /\ IInv /\ Handover /\ ~overflow /\ InStep
  BY DEF InTime, Sound, Known, Lossless, Room
<1>2. slaveOn /\ Raised = {} /\ flags = {} /\ rx = <<>>
  BY <1>1, PoliteEffect DEF Raised
<1>3. /\ bus = "w" => Last = IF msg.len = 0 THEN "START" ELSE "WRITE"
      /\ bus = "raddr" => Last = "START"
      /\ bus = "r" => Last = "READ"
      /\ bus # "other"
  BY <1>1, <1>2 DEF InStep, OnTheBus, Tip, Sequel
<1>4. ASSUME NEW to \in {"w", "raddr", "other"}, LaptopStart(to)
      PROVE  Raised' = {"START"} /\ UNCHANGED <<owed, got, turn>>
  BY <1>2, <1>4 DEF LaptopStart, Raise, Raised, ghostVars
<1>5. ASSUME NEW b \in Byte, LaptopWrite(b)
      PROVE  \E s \in Symbol : Raised' = {"WRITE"} /\ Wire!Say(s) /\ Says(s, "WRITE", Head(rx'), Last)
  <2>1. rx' = <<b>> /\ flags' = {} /\ bus = "w" /\ UNCHANGED <<got, turn>>
    BY <1>2, <1>5 DEF LaptopWrite
  <2>2. Raised' = {"WRITE"} /\ Head(rx') = b
    BY <2>1 DEF Raised
  <2>3. CASE msg.len = 0
    <3>1. owed' = Append(owed, <<"w", b, TRUE>>)
      BY <1>5, <2>3 DEF LaptopWrite, Said
    <3>2. <<"w", b, TRUE>> \in Symbol
      BY DEF Symbol
    <3>3. QED
      BY <1>3, <2>1, <2>2, <2>3, <3>1, <3>2 DEF Wire!Say, Says
  <2>4. CASE msg.len # 0
    <3>1. owed' = Append(owed, <<"w", b, FALSE>>)
      BY <1>5, <2>4 DEF LaptopWrite, Said
    <3>2. <<"w", b, FALSE>> \in Symbol
      BY DEF Symbol
    <3>3. QED
      BY <1>3, <2>1, <2>2, <2>4, <3>1, <3>2 DEF Wire!Say, Says
  <2>5. QED
    BY <2>3, <2>4
<1>6. CASE LaptopRead
  <2>1. Raised' = {"READ"} /\ UNCHANGED <<got, turn>> /\ bus \in {"raddr", "r"}
    BY <1>2, <1>6 DEF LaptopRead, Raise, Raised
  <2>2. CASE bus = "raddr"
    <3>1. owed' = Append(owed, <<"r", TRUE>>)
      BY <1>6, <2>2 DEF LaptopRead, Said
    <3>2. <<"r", TRUE>> \in Symbol
      BY DEF Symbol, Read
    <3>3. QED
      BY <1>2, <1>3, <2>1, <2>2, <3>1, <3>2 DEF Wire!Say, Says
  <2>3. CASE bus = "r"
    <3>1. owed' = Append(owed, <<"r", FALSE>>)
      BY <1>6, <2>3 DEF LaptopRead, Said
    <3>2. <<"r", FALSE>> \in Symbol
      BY DEF Symbol, Read
    <3>3. QED
      BY <1>2, <1>3, <2>1, <2>3, <3>1, <3>2 DEF Wire!Say, Says
  <2>4. QED
    BY <2>1, <2>2, <2>3
<1>7. CASE LaptopStop
  <2>1. Raised' = {"STOP"} /\ UNCHANGED <<got, turn>> /\ owed' = Append(owed, <<"p">>)
    BY <1>2, <1>3, <1>7 DEF LaptopStop, Raise, Raised, Said
  <2>2. <<"p">> \in Symbol
    BY DEF Symbol
  <2>3. QED
    BY <1>2, <2>1, <2>2 DEF Wire!Say, Says
<1>8. ~SlaveAborts
  BY <1>1 DEF SlaveAborts
<1>9. UNCHANGED <<got, turn>>
  BY <1>4, <1>5, <1>6, <1>7, <1>8 DEF Laptop, LaptopRead, LaptopStop, LaptopWrite
<1>10. QED
  BY <1>2, <1>4, <1>5, <1>6, <1>7, <1>8, <1>9 DEF Laptop

LEMMA OwesLaptop ==
    ASSUME InTime, Track = TRUE, Sound, Sequel, Owes, Laptop
    PROVE  Owes'
<1>1. /\ {"prompt", "smbus"} \subseteq Assumed /\ IInv /\ Handover /\ ~overflow
  BY DEF InTime, Sound, Known, Lossless, Room
<1>2. UNCHANGED <<queue, prev, cmd, cmdIdx, override, bms, got>> /\ First' = First
  BY Apart, LaptopEffect, LaptopSays DEF First, mainVars
<1>3. (\A i : Ev(i)' = Ev(i)) /\ Last' = Last /\ Len(queue') = Len(queue)
  BY <1>2, EvSame
<1>4. Listening'
  BY <1>2, <1>3 DEF Owes, Listening, Starts, Asked
<1>5. PICK at : Places(at)
  BY DEF Owes
<1>6. Raised = {} /\ Len(owed) = at[Len(queue)]
  BY <1>5, LaptopSays DEF Places, PlaceLast
<1>7. PlaceFirst(at)' /\ PlaceNext(at)' /\ PlaceOrder(at)' /\ at \in [First' .. Len(queue') -> Nat]
  BY <1>2, <1>3, <1>5 DEF Places, PlaceFirst, PlaceNext, PlaceOrder
<1>8. CASE Raised' = {"START"} /\ UNCHANGED owed
  <2>1. Held' /\ InQueue(at)'
    BY <1>2, <1>3, <1>5, <1>8 DEF Owes, Held, LastByte, Places, InQueue
  <2>2. PlaceLast(at)' /\ Waiting'
    BY <1>3, <1>6, <1>8 DEF PlaceLast, Waiting
  <2>3. QED
    BY <1>4, <1>7, <1>8, <2>1, <2>2 DEF Owes, Places
<1>9. ASSUME NEW s \in Symbol, NEW e \in {"WRITE", "READ", "STOP"},
             Raised' = {e}, Wire!Say(s), Says(s, e, Head(rx'), Last)
      PROVE  Owes'
  <2>1. PICK m \in Nat : m = Len(owed)
    BY <1>5, Within
  <2>2. /\ owed' \in Seq(Symbol) /\ Len(owed') = m + 1 /\ owed'[m + 1] = s
        /\ \A j \in 1 .. m : owed'[j] = owed[j]
    BY <1>9, <2>1, AppendProperties DEF Owes, Wire!Say
  <2>3. Held'
    <3>1. Ev(First) = "WRITE" => owed'[1] = owed[1]
      BY <1>5, <2>1, <2>2, Within
    <3>2. QED
      BY <1>2, <1>3, <3>1 DEF Owes, Held, LastByte
  <2>4. InQueue(at)'
    <3>1. ASSUME NEW i \in First + 1 .. Len(queue), Ev(i) # "START"
          PROVE  Says(owed'[at[i]], Ev(i), queue[i].data, Ev(i - 1))
      <4>1. at[i] \in 1 .. m
        BY <1>5, <2>1, <3>1, Within
      <4>2. QED
        BY <1>5, <2>2, <3>1, <4>1 DEF Places, InQueue
    <3>2. QED
      BY <1>2, <1>3, <3>1 DEF InQueue
  <2>5. PlaceLast(at)'
    BY <1>3, <1>6, <1>9, <2>1, <2>2 DEF PlaceLast
  <2>6. Waiting'
    BY <1>3, <1>9, <2>2 DEF Waiting
  <2>7. QED
    BY <1>4, <1>7, <2>2, <2>3, <2>4, <2>5, <2>6 DEF Owes, Places
<1>10. QED
  BY <1>8, <1>9, LaptopSays

LEMMA OwesService ==
    ASSUME Sound, Owes, NEW e \in Event, Service(e)
    PROVE  Owes'
<1>1. PICK n \in Nat : n = Len(queue)
  BY Appended
<1>2. /\ UNCHANGED <<bms, cmd, cmdIdx, override, owed, got>>
      /\ Raised = {e} /\ Raised' = {} /\ Last = Ev(n)
      /\ First' = First /\ First \in {0, 1} /\ First <= n /\ Len(queue') = n + 1
      /\ \A i \in First .. n : Ev(i)' = Ev(i)
      /\ \A i \in 1 .. n : queue'[i] = queue[i]
      /\ Ev(n + 1)' = e
      /\ e = "WRITE" => queue'[n + 1].data = Head(rx)
  BY <1>1, Appended DEF ghostVars, Last
<1>3. Ev(First)' = Ev(First)
  BY <1>2
<1>4. Listening' /\ Held' /\ Waiting'
  BY <1>2, <1>3 DEF Owes, Listening, Starts, Asked, Held, LastByte, Waiting
<1>5. PICK at : Places(at)
  BY DEF Owes
<1>6. at \in [First .. n -> Nat] /\ at[n] \in Nat
  BY <1>1, <1>2, <1>5 DEF Places
<1>7. PICK next \in [First .. n + 1 -> Nat] :
         /\ \A i \in First .. n : next[i] = at[i]
         /\ next[n + 1] = IF e = "START" THEN at[n] ELSE at[n] + 1
  <2> DEFINE longer == [i \in First .. n + 1 |->
                           IF i <= n THEN at[i] ELSE IF e = "START" THEN at[n] ELSE at[n] + 1]
  <2>1. /\ longer \in [First .. n + 1 -> Nat]
        /\ \A i \in First .. n : longer[i] = at[i]
        /\ longer[n + 1] = IF e = "START" THEN at[n] ELSE at[n] + 1
    BY <1>2, <1>6
  <2> HIDE DEF longer
  <2>2. QED
    BY <2>1
<1>8. Len(owed) = next[n + 1]
  BY <1>1, <1>2, <1>5, <1>7 DEF Places, PlaceLast
<1>9. First' .. Len(queue') = First .. n + 1 /\ First' + 1 .. Len(queue') = First + 1 .. n + 1
  BY <1>2
<1>10. PlaceFirst(next)'
  <2>1. next[First] = at[First]
    BY <1>2, <1>7
  <2>2. QED
    BY <1>2, <1>3, <1>5, <2>1 DEF Places, PlaceFirst
<1>11. PlaceNext(next)'
  <2>1. ASSUME NEW i \in First + 1 .. n + 1
        PROVE  next[i] = IF Ev(i)' = "START" THEN next[i - 1] ELSE next[i - 1] + 1
    <3>1. CASE i = n + 1
      <4>1. i - 1 = n /\ n \in First .. n
        BY <1>2, <3>1
      <4>2. QED
        BY <1>2, <1>7, <3>1, <4>1
    <3>2. CASE i # n + 1
      <4>1. i \in First + 1 .. n /\ i \in First .. n /\ i - 1 \in First .. n
        BY <1>2, <3>2
      <4>2. at[i] = IF Ev(i) = "START" THEN at[i - 1] ELSE at[i - 1] + 1
        BY <1>1, <1>5, <4>1 DEF Places, PlaceNext
      <4>3. next[i] = at[i] /\ next[i - 1] = at[i - 1] /\ Ev(i)' = Ev(i)
        BY <1>2, <1>7, <4>1
      <4>4. QED
        BY <4>2, <4>3
    <3>3. QED
      BY <3>1, <3>2
  <2>2. QED
    BY <1>9, <2>1 DEF PlaceNext
<1>12. PlaceOrder(next)'
  <2>1. ASSUME NEW i \in First .. n + 1, NEW j \in First .. n + 1, i <= j
        PROVE  next[i] <= next[j]
    <3>1. ASSUME NEW k \in First .. n PROVE at[k] \in Nat /\ at[k] <= at[n] /\ next[k] = at[k]
      <4>1. n \in First .. n /\ k <= n
        BY <1>2
      <4>2. at[k] <= at[n]
        BY <1>1, <1>5, <4>1 DEF Places, PlaceOrder
      <4>3. QED
        BY <1>6, <1>7, <4>2
    <3>2. CASE j = n + 1
      <4>1. i \in First .. n \/ i = n + 1
        BY <1>2
      <4>2. QED
        BY <1>6, <1>7, <3>1, <3>2, <4>1
    <3>3. CASE j # n + 1
      <4>1. i \in First .. n /\ j \in First .. n
        BY <1>2, <2>1, <3>3
      <4>2. at[i] <= at[j]
        BY <1>1, <1>5, <2>1, <4>1 DEF Places, PlaceOrder
      <4>3. QED
        BY <3>1, <4>1, <4>2
    <3>4. QED
      BY <3>2, <3>3
  <2>2. QED
    BY <1>9, <2>1 DEF PlaceOrder
<1>13. PlaceLast(next)'
  BY <1>2, <1>8 DEF PlaceLast
<1>14. InQueue(next)'
  <2>1. ASSUME NEW i \in First + 1 .. n + 1, Ev(i)' # "START"
        PROVE  Says(owed[next[i]], Ev(i)', queue'[i].data, Ev(i - 1)')
    <3>1. CASE i = n + 1
      <4>1. i - 1 = n /\ Ev(n)' = Last
        BY <1>2, <3>1
      <4>2. Says(owed[next[n + 1]], e, Head(rx), Last)
        BY <1>2, <1>8, <2>1, <3>1 DEF Owes, Waiting
      <4>3. QED
        BY <1>2, <3>1, <4>1, <4>2 DEF Says
    <3>2. CASE i # n + 1
      <4>1. i \in First + 1 .. n /\ i \in First .. n /\ i - 1 \in First .. n /\ i \in 1 .. n
        BY <1>2, <3>2
      <4>2. Ev(i)' = Ev(i) /\ Ev(i - 1)' = Ev(i - 1) /\ queue'[i] = queue[i] /\ next[i] = at[i]
        BY <1>2, <1>7, <4>1
      <4>3. Says(owed[at[i]], Ev(i), queue[i].data, Ev(i - 1))
        BY <1>1, <1>5, <2>1, <4>1, <4>2 DEF Places, InQueue
      <4>4. QED
        BY <4>2, <4>3
    <3>3. QED
      BY <3>1, <3>2
  <2>2. QED
    BY <1>2, <1>9, <2>1 DEF InQueue
<1>15. next \in [First' .. Len(queue') -> Nat]
  BY <1>7, <1>9
<1>16. Places(next)'
  BY <1>10, <1>11, <1>12, <1>13, <1>14, <1>15 DEF Places
<1>17. QED
  BY <1>2, <1>4, <1>16 DEF Owes

LEMMA OwesPop == ASSUME Sound, Owes, Pop PROVE Owes'
<1>1. PICK n \in Nat : n = Len(queue) /\ n >= 1
  BY PopEffect
<1>2. /\ UNCHANGED <<bms, cmd, cmdIdx, override, owed, got>>
      /\ Raised = {} /\ Raised' = {}
      /\ First = 1 /\ First' = 0 /\ Len(queue') = n - 1
      /\ \A i \in 0 .. n - 1 : \A k : k = i + 1 => Ev(i)' = Ev(k)
      /\ \A i \in 1 .. n - 1 : queue'[i] = queue[i + 1]
  BY <1>1, PopEffect DEF ghostVars
<1>3. Ev(0)' = Ev(1)
  BY <1>1, <1>2
<1>4. Listening' /\ Held' /\ Waiting'
  BY <1>2, <1>3 DEF Owes, Listening, Starts, Asked, Held, LastByte, Waiting
<1>5. PICK at : Places(at)
  BY DEF Owes
<1>6. at \in [1 .. n -> Nat]
  BY <1>1, <1>2, <1>5 DEF Places
<1>7. PICK next \in [0 .. n - 1 -> Nat] : \A i \in 0 .. n - 1 : \A k : k = i + 1 => next[i] = at[k]
  <2> DEFINE moved == [i \in 0 .. n - 1 |-> at[i + 1]]
  <2>1. moved \in [0 .. n - 1 -> Nat] /\ \A i \in 0 .. n - 1 : \A k : k = i + 1 => moved[i] = at[k]
    BY <1>6
  <2> HIDE DEF moved
  <2>2. QED
    BY <2>1
<1>8. PlaceFirst(next)'
  <2>1. next[0] = at[1]
    BY <1>1, <1>7
  <2>2. QED
    BY <1>2, <1>3, <1>5, <2>1 DEF Places, PlaceFirst
<1>9. First' .. Len(queue') = 0 .. n - 1 /\ First' + 1 .. Len(queue') = 1 .. n - 1
  BY <1>2
<1>10. ASSUME NEW i \in 1 .. n - 1, NEW k, k = i + 1
       PROVE  /\ k \in First + 1 .. Len(queue) /\ k - 1 = i
              /\ next[i] = at[k] /\ next[i - 1] = at[k - 1]
              /\ Ev(i)' = Ev(k) /\ Ev(i - 1)' = Ev(k - 1) /\ queue'[i] = queue[k]
  <2>1. i \in 0 .. n - 1 /\ i - 1 \in 0 .. n - 1 /\ k - 1 = (i - 1) + 1
    BY <1>10
  <2>2. QED
    BY <1>1, <1>2, <1>7, <1>10, <2>1
<1>11. PlaceNext(next)'
  <2>1. ASSUME NEW i \in 1 .. n - 1
        PROVE  next[i] = IF Ev(i)' = "START" THEN next[i - 1] ELSE next[i - 1] + 1
    <3>1. PICK k : k = i + 1
      OBVIOUS
    <3>2. at[k] = IF Ev(k) = "START" THEN at[k - 1] ELSE at[k - 1] + 1
      BY <1>5, <1>10, <3>1 DEF Places, PlaceNext
    <3>3. QED
      BY <1>10, <3>1, <3>2
  <2>2. QED
    BY <1>9, <2>1 DEF PlaceNext
<1>12. PlaceOrder(next)'
  <2>1. ASSUME NEW i \in 0 .. n - 1, NEW j \in 0 .. n - 1, i <= j
        PROVE  next[i] <= next[j]
    <3>1. PICK k \in First .. Len(queue), l \in First .. Len(queue) : k = i + 1 /\ l = j + 1
      BY <1>1, <1>2
    <3>2. at[k] <= at[l]
      BY <1>5, <2>1, <3>1 DEF Places, PlaceOrder
    <3>3. QED
      BY <1>7, <3>1, <3>2
  <2>2. QED
    BY <1>9, <2>1 DEF PlaceOrder
<1>13. PlaceLast(next)'
  <2>1. next[n - 1] = at[n]
    BY <1>1, <1>7
  <2>2. QED
    BY <1>1, <1>2, <1>5, <2>1 DEF Places, PlaceLast
<1>14. InQueue(next)'
  <2>1. ASSUME NEW i \in 1 .. n - 1, Ev(i)' # "START"
        PROVE  Says(owed[next[i]], Ev(i)', queue'[i].data, Ev(i - 1)')
    <3>1. PICK k : k = i + 1
      OBVIOUS
    <3>2. Says(owed[at[k]], Ev(k), queue[k].data, Ev(k - 1))
      BY <1>5, <1>10, <2>1, <3>1 DEF Places, InQueue
    <3>3. QED
      BY <1>10, <3>1, <3>2
  <2>2. QED
    BY <1>2, <1>9, <2>1 DEF InQueue
<1>15. next \in [First' .. Len(queue') -> Nat]
  BY <1>7, <1>9
<1>16. Places(next)'
  BY <1>8, <1>11, <1>12, <1>13, <1>14, <1>15 DEF Places
<1>17. QED
  BY <1>2, <1>4, <1>16 DEF Owes

LEMMA OwesStill ==
    ASSUME InTime, Sound, Owes,
           \/ IrqEnter \/ IrqReturns \/ UNCHANGED vars
           \/ Enter \/ LoopExit \/ LoopBreak \/ UpdateDone \/ \E c \in Byte : GuiRead(c)
    PROVE  Owes' /\ UNCHANGED ghostVars
<1>1. PICK at : Places(at)
  BY DEF Owes
<1>2. /\ UNCHANGED <<queue, rx, override, owed, got>> /\ UNCHANGED ghostVars
      /\ First' = First /\ Raised' = Raised
      /\ (\A i : Ev(i)' = Ev(i)) /\ Last' = Last /\ Len(queue') = Len(queue)
      /\ Ev(First) \in {"START", "WRITE", "READ"} => UNCHANGED <<cmd, cmdIdx, bms>>
  BY Idles DEF ghostVars
<1>3. Listening' /\ Held' /\ Waiting'
  BY <1>2 DEF Owes, Listening, Starts, Asked, Held, LastByte, Waiting
<1>4. PlaceFirst(at)' /\ PlaceNext(at)' /\ PlaceOrder(at)' /\ PlaceLast(at)' /\ InQueue(at)'
  BY <1>1, <1>2 DEF Places, PlaceFirst, PlaceNext, PlaceOrder, PlaceLast, InQueue
<1>5. at \in [First' .. Len(queue') -> Nat]
  BY <1>1, <1>2 DEF Places
<1>6. Places(at)'
  BY <1>4, <1>5 DEF Places
<1>7. QED
  BY <1>2, <1>3, <1>6 DEF Owes

-----------------------------------------------------------------------------
(* What the battery hears is what is owed next. *)

LEMMA FirstOne ==
    ASSUME NEW S, NEW s \in Seq(S), Len(s) >= 1
    PROVE  SubSeq(s, 1, 1) = <<s[1]>>
<1>1. s[1] \in S /\ \A i \in 1 .. 1 : s[i] \in S
  BY ElementOfSeq
<1>2. SubSeq(s, 1, 1) \in Seq(S) /\ Len(SubSeq(s, 1, 1)) = 1 /\ SubSeq(s, 1, 1)[1] = s[1]
  BY <1>1, SubSeqProperties
<1>3. <<s[1]>> \in Seq(S) /\ Len(<<s[1]>>) = 1 /\ <<s[1]>>[1] = s[1]
  BY <1>1
<1>4. \A i \in 1 .. 1 : i = 1
  OBVIOUS
<1>5. QED
  BY <1>2, <1>3, <1>4, SeqEqual

LEMMA FirstTwo ==
    ASSUME NEW S, NEW s \in Seq(S), Len(s) >= 2
    PROVE  SubSeq(s, 1, 2) = <<s[1], s[2]>>
<1>1. s[1] \in S /\ s[2] \in S /\ \A i \in 1 .. 2 : s[i] \in S
  BY ElementOfSeq
<1>2. /\ SubSeq(s, 1, 2) \in Seq(S) /\ Len(SubSeq(s, 1, 2)) = 2
      /\ SubSeq(s, 1, 2)[1] = s[1] /\ SubSeq(s, 1, 2)[2] = s[2]
  BY <1>1, SubSeqProperties
<1>3. /\ <<s[1], s[2]>> \in Seq(S) /\ Len(<<s[1], s[2]>>) = 2
      /\ <<s[1], s[2]>>[1] = s[1] /\ <<s[1], s[2]>>[2] = s[2]
  BY <1>1
<1>4. \A i \in 1 .. 2 : i = 1 \/ i = 2
  OBVIOUS
<1>5. QED
  BY <1>2, <1>3, <1>4, SeqEqual

(* The first k symbols owed are owed no longer. *)
Paid(k) ==
    /\ k \in 0 .. Len(owed)
    /\ owed' \in Seq(Symbol)
    /\ Len(owed') = Len(owed) - k
    /\ \A j \in 1 .. Len(owed) - k : owed'[j] = owed[j + k]

LEMMA Owing ==
    ASSUME Track = TRUE, owed \in Seq(Symbol),
           NEW k \in {1, 2}, k <= Len(owed), NEW s, Told(s, k)
    PROVE  Paid(k) /\ got' = s /\ turn' = ~turn /\ owed' = SubSeq(owed, k + 1, Len(owed))
<1>1. PICK m \in Nat : m = Len(owed)
  OBVIOUS
<1>2. got' = s /\ turn' = ~turn /\ owed' = SubSeq(owed, k + 1, m)
  BY <1>1 DEF Told
<1>3. /\ owed' \in Seq(Symbol) /\ Len(owed') = m - k
      /\ \A j \in 1 .. m - k : owed'[j] = owed[j + k]
  <2>1. \A i \in k + 1 .. m : owed[i] \in Symbol
    BY <1>1, ElementOfSeq
  <2>2. /\ SubSeq(owed, k + 1, m) \in Seq(Symbol)
        /\ Len(SubSeq(owed, k + 1, m)) = IF k + 1 <= m THEN m - (k + 1) + 1 ELSE 0
        /\ \A i \in 1 .. m - (k + 1) + 1 : SubSeq(owed, k + 1, m)[i] = owed[k + 1 + i - 1]
    BY <2>1, SubSeqProperties
  <2>3. QED
    BY <1>1, <1>2, <2>2
<1>4. QED
  BY <1>1, <1>2, <1>3 DEF Paid

(* Nothing but the laptop's own symbols ... *)
LEMMA Telling ==
    ASSUME Track = TRUE, owed \in Seq(Symbol), owed[1] # <<"p">>,
           NEW k \in {1, 2}, k <= Len(owed), Told(SubSeq(owed, 1, k), k)
    PROVE  Paid(k) /\ Wire!Next
<1>1. /\ Paid(k) /\ got' = SubSeq(owed, 1, k) /\ turn' = ~turn
      /\ owed' = SubSeq(owed, k + 1, Len(owed))
  BY Owing
<1>2. k \in 1 .. Len(owed)
  OBVIOUS
<1>3. Head(owed) # Wire!Stop
  BY <1>2 DEF Wire!Stop
<1>4. QED
  BY <1>1, <1>2, <1>3 DEF Wire!Next, Wire!Hear

LEMMA Behind ==
    ASSUME NEW S, NEW s \in Seq(S), Len(s) >= 1
    PROVE  SubSeq(s, 2, Len(s)) = Tail(s)
<1>1. PICK m \in Nat : m = Len(s) /\ m >= 1 /\ s # <<>>
  OBVIOUS
<1>2. \A i \in 2 .. m : s[i] \in S
  BY <1>1, ElementOfSeq
<1>3. /\ SubSeq(s, 2, m) \in Seq(S) /\ Len(SubSeq(s, 2, m)) = m - 1
      /\ \A i \in 1 .. m - 1 : SubSeq(s, 2, m)[i] = s[i + 1]
  <2>1. /\ SubSeq(s, 2, m) \in Seq(S)
        /\ Len(SubSeq(s, 2, m)) = IF 2 <= m THEN m - 2 + 1 ELSE 0
        /\ \A i \in 1 .. m - 2 + 1 : SubSeq(s, 2, m)[i] = s[2 + i - 1]
    BY <1>1, <1>2, SubSeqProperties
  <2>2. QED
    BY <1>1, <2>1
<1>4. /\ Tail(s) \in Seq(S) /\ Len(Tail(s)) = m - 1
      /\ \A i \in 1 .. Len(Tail(s)) : Tail(s)[i] = s[i + 1]
  BY <1>1, HeadTailProperties
<1>5. QED
  BY <1>1, <1>3, <1>4, SeqEqual

(* ... or, for the first of them, what an override or a stop makes of it.  *)
LEMMA TellingMore ==
    ASSUME Track = TRUE, owed \in Seq(Symbol), Len(owed) >= 1, NEW s, Told(s, 1),
           \/ s \in Intercepted /\ Head(s) = owed[1]
           \/ /\ owed[1] = <<"p">>
              /\ got \in Intercepted \/ Asked
              /\ s = <<<<"r", got[Len(got)] \notin Read>>, <<"p">>>>
    PROVE  Paid(1) /\ Wire!Next
<1>1. Paid(1) /\ got' = s /\ turn' = ~turn /\ owed' = SubSeq(owed, 2, Len(owed))
  <2>1. 1 \in {1, 2} /\ 1 + 1 = 2
    OBVIOUS
  <2>2. QED
    BY <2>1, Owing
<1>2. owed # <<>> /\ Head(owed) = owed[1] /\ owed' = Tail(owed)
  BY <1>1, Behind
<1>3. CASE s \in Intercepted /\ Head(s) = owed[1]
  BY <1>1, <1>2, <1>3 DEF Wire!Next, Wire!Consult
<1>4. CASE /\ owed[1] = <<"p">>
           /\ got \in Intercepted \/ Asked
           /\ s = <<<<"r", got[Len(got)] \notin Read>>, <<"p">>>>
  BY <1>1, <1>2, <1>4 DEF Wire!Next, Wire!EndRead, Wire!Stop, Asked
<1>5. QED
  BY <1>3, <1>4

LEMMA OneBefore ==
    ASSUME NEW S, NEW x \in S, NEW a \in Seq(S), NEW k \in Nat, Len(a) = k
    PROVE  /\ <<x>> \o a # <<>> /\ Head(<<x>> \o a) = x
           /\ Len(<<x>> \o a) = 1 + k
           /\ (<<x>> \o a)[1 + k] = IF k = 0 THEN x ELSE a[k]
<1>1. PICK y \in Seq(S) : y = <<x>> /\ Len(y) = 1 /\ y[1] = x
  <2>1. <<x>> \in Seq(S) /\ Len(<<x>>) = 1 /\ <<x>>[1] = x
    OBVIOUS
  <2>2. QED
    BY <2>1
<1>2. PICK s \in Seq(S) :
         /\ s = y \o a /\ Len(s) = 1 + k
         /\ \A i \in 1 .. 1 + k : s[i] = IF i <= 1 THEN y[i] ELSE a[i - 1]
  <2>1. /\ y \o a \in Seq(S) /\ Len(y \o a) = 1 + k
        /\ \A i \in 1 .. 1 + k : (y \o a)[i] = IF i <= 1 THEN y[i] ELSE a[i - 1]
    BY <1>1, ConcatProperties
  <2>2. QED
    BY <2>1
<1>3. s[1] = x /\ s[1 + k] = IF k = 0 THEN x ELSE a[k]
  BY <1>1, <1>2
<1>4. s # <<>> /\ Head(s) = x
  BY <1>2, <1>3
<1>5. QED
  BY <1>1, <1>2, <1>3, <1>4

(* A command, and what its override asks the battery for. *)
Intercept(c, k) == <<<<"w", c, TRUE>>>> \o Asks(k)

LEMMA InterceptedIs ==
    \A s : s \in Intercepted <=> \E c \in Overrides, k \in 0 .. ReplySize : s = Intercept(c, k)
<1>1. Intercepted = {Intercept(c, k) : c \in Overrides, k \in 0 .. ReplySize}
  BY DEF Intercepted, Intercept
<1>2. QED
  BY <1>1

LEMMA AsksLast ==
    ASSUME NEW c \in Byte, NEW k \in Nat
    PROVE  /\ Intercept(c, k) # <<>> /\ Head(Intercept(c, k)) = <<"w", c, TRUE>>
           /\ Intercept(c, k)[Len(Intercept(c, k))] \in Read <=> k # 0
<1>1. Asks(k) \in Seq(Symbol) /\ Len(Asks(k)) = k /\ \A i \in 1 .. k : Asks(k)[i] \in Read
  <2> DEFINE asked(i) == <<"r", i = 1>>
  <2>1. \A i : asked(i) \in Read
    <3>1. \A x \in BOOLEAN : <<"r", x>> \in Read
      BY DEF Read
    <3>2. QED
      BY <3>1
  <2>2. Asks(k) = [i \in 1 .. k |-> asked(i)]
    BY DEF Asks
  <2> HIDE DEF asked
  <2>3. \A i : asked(i) \in Symbol
    BY <2>1 DEF Symbol
  <2>4. QED
    BY <2>1, <2>2, <2>3
<1>2. PICK x : x = <<"w", c, TRUE>>
  OBVIOUS
<1>3. x \in Symbol /\ x \notin Read
  <2>1. x \in {"w"} \X Byte \X BOOLEAN
    BY <1>2
  <2>2. x \notin Read
    BY <1>2 DEF Read
  <2>3. QED
    BY <2>1, <2>2 DEF Symbol
<1>4. PICK a \in Seq(Symbol) : a = Asks(k) /\ Len(a) = k /\ (k # 0 => a[k] \in Read)
  BY <1>1
<1>5. Intercept(c, k) = <<x>> \o a
  BY <1>2, <1>4 DEF Intercept
<1>6. PICK s : s = <<x>> \o a
  OBVIOUS
<1>7. s # <<>> /\ Head(s) = x /\ Len(s) = 1 + k /\ s[1 + k] = IF k = 0 THEN x ELSE a[k]
  BY <1>3, <1>4, <1>6, OneBefore
<1>8. (s[Len(s)] \in Read) <=> k # 0
  BY <1>3, <1>4, <1>7
<1>9. Intercept(c, k) = s
  BY <1>5, <1>6
<1>10. QED
  BY <1>2, <1>7, <1>8, <1>9, Zenon

(* What handling an event takes: k symbols, and the event's own byte is    *)
(* the next to be held back.                                               *)
Takes(at, k) ==
    /\ Paid(k)
    /\ at[1] = IF Ev(1) = "WRITE" THEN k + 1 ELSE k
    /\ Listening'
    /\ Ev(1) = "WRITE" => LastByte' = queue[1].data /\ (cmdIdx' = 1 <=> prev = "START")
    /\ Wire!Next \/ UNCHANGED ghostVars

LEMMA NextOwed ==
    ASSUME InFull, Sound, Sequel, Fits, Owes, NEW at, Places(at), Process
    PROVE  /\ Len(owed) \in Nat /\ owed \in Seq(Symbol)
           /\ at[1] = IF Ev(1) = "START" THEN at[0] ELSE at[0] + 1
           /\ at[0] = IF prev = "WRITE" THEN 1 ELSE 0
           /\ at[1] <= Len(owed)
           /\ Ev(1) # "START" => Says(owed[at[1]], Ev(1), queue[1].data, prev)
           /\ prev = "WRITE" => cmdIdx \in 1 .. CmdSize - 1 /\ owed[1] = <<"w", LastByte, Starts("w")>>
           /\ Follows(prev, Ev(1), 0) /\ Continues(prev, Ev(1))
           /\ Ev(1) = "WRITE" => prev # "READ" /\ ~CmdFull
           /\ Ev(1) = "READ" => prev # "WRITE" /\ ~ReplyFull
           /\ prev = "START" => cmdIdx = 0
<1>1. PICK n \in Nat : n = Len(queue) /\ n >= 1
  BY Handled
<1>2. First = 0 /\ Ev(0) = prev /\ 0 \in First .. n - 1 /\ 1 \in First + 1 .. n
  BY <1>1, Handled
<1>3. Len(owed) \in Nat /\ owed \in Seq(Symbol) /\ at[n] <= Len(owed)
  BY <1>1, Within DEF Owes
<1>4. at[1] = IF Ev(1) = "START" THEN at[0] ELSE at[0] + 1
  BY <1>1, <1>2 DEF Places, PlaceNext
<1>5. at[0] = IF prev = "WRITE" THEN 1 ELSE 0
  BY <1>2 DEF Places, PlaceFirst
<1>6. at[1] <= Len(owed)
  <2>1. at[1] <= at[n]
    BY <1>1, <1>2 DEF Places, PlaceOrder
  <2>2. at[1] \in Nat /\ at[n] \in Nat
    BY <1>1, <1>2 DEF Places
  <2>3. QED
    BY <1>3, <2>1, <2>2
<1>7. Ev(1) # "START" => Says(owed[at[1]], Ev(1), queue[1].data, prev)
  <2>1. Ev(1) # "START" => Says(owed[at[1]], Ev(1), queue[1].data, Ev(1 - 1))
    BY <1>1, <1>2 DEF Places, InQueue
  <2>2. QED
    BY <1>2, <2>1
<1>8. PICK nth : Numbers(nth)
  BY DEF Fits
<1>9. /\ Follows(prev, Ev(1), 0)
      /\ Ev(1) = "WRITE" => prev # "READ" /\ ~CmdFull
      /\ Ev(1) = "READ" => prev # "WRITE" /\ ~ReplyFull
  BY <1>8, NeverFull DEF Fits
<1>10. Continues(prev, Ev(1))
  <2>1. Continues(Ev(0), Ev(0 + 1))
    BY <1>1, <1>2 DEF Sequel
  <2>2. QED
    BY <1>2, <2>1
<1>11. prev = "START" => cmdIdx = 0
  BY <1>2 DEF Sound, Lossless, Begun
<1>12. ASSUME prev = "WRITE"
       PROVE  cmdIdx \in 1 .. CmdSize - 1 /\ owed[1] = <<"w", LastByte, Starts("w")>>
  <2>1. cmdIdx \in 1 .. CmdSize - 1
    BY <1>2, <1>12, ConstantsAssumption
       DEF Sound, Known, IInv, Windows, FirstSafe, Basic, TypeOK, CmdTypeOK
  <2>2. CASE cmdIdx = 1
    <3>1. Starts("w") /\ owed[1] = <<"w", LastByte, TRUE>>
      BY <1>2, <1>12, <2>2 DEF Owes, Listening, Held
    <3>2. QED
      BY <2>1, <3>1
  <2>3. CASE cmdIdx # 1
    <3>1. Starts("w") = FALSE
      BY <1>2, <1>12, <2>1, <2>3 DEF Sound, Lossless, Whole, Starts
    <3>2. owed[1] = <<"w", LastByte, FALSE>>
      BY <1>2, <1>12, <2>3 DEF Owes, Held
    <3>3. QED
      BY <2>1, <3>1, <3>2
  <2>4. QED
    BY <2>2, <2>3
<1>13. QED
  BY <1>3, <1>4, <1>5, <1>6, <1>7, <1>9, <1>10, <1>11, <1>12

LEMMA Silent ==
    ASSUME Owes, UNCHANGED ghostVars
    PROVE  Paid(0)
<1>1. PICK m \in Nat : m = Len(owed)
  BY LenProperties DEF Owes
<1>2. owed' = owed
  BY DEF ghostVars
<1>3. QED
  BY <1>1, <1>2 DEF Owes, Paid

LEMMA TakesWrite ==
    ASSUME InFull, Track = TRUE, Sound, Sequel, Fits, Owes, NEW at, Places(at),
           Process, Ev(1) = "WRITE"
    PROVE  \E k \in 0 .. 2 : Takes(at, k)
<1>1. ProcessWrite /\ First = 0 /\ First' = 1 /\ Ev(0) = prev /\ Ev(1)' = "WRITE"
      /\ Head(queue) = queue[1] /\ UNCHANGED <<queue, prev>>
  BY Handled
<1>2. prev \in {"START", "WRITE"} /\ ~CmdFull
  BY NextOwed DEF Follows
<1>3. /\ cmd' = [cmd EXCEPT ![cmdIdx] = Head(queue).data]
      /\ cmdIdx' = cmdIdx + 1
      /\ IF cmdIdx > 0 THEN PassOn(LastByte) ELSE BmsQuiet
  BY <1>1, <1>2 DEF ProcessWrite
<1>4. cmdIdx \in Nat /\ LastByte' = queue[1].data
  <2>1. cmdIdx \in 0 .. CmdSize - 1 /\ cmd \in [0 .. CmdSize - 1 -> Byte \cup {NoByte}]
        /\ CmdSize \in Nat
    BY ConstantsAssumption DEF Sound, Known, IInv, Basic, TypeOK, CmdTypeOK
  <2>2. LastByte' = cmd'[cmdIdx' - 1]
    BY DEF LastByte
  <2>3. cmdIdx' - 1 = cmdIdx
    BY <1>3, <2>1
  <2>4. QED
    BY <1>1, <1>3, <2>1, <2>2, <2>3
<1>5. CASE prev = "START"
  <2>1. cmdIdx = 0 /\ cmdIdx' = 1 /\ BmsQuiet
    BY <1>3, <1>5, NextOwed
  <2>2. Paid(0) /\ UNCHANGED ghostVars /\ UNCHANGED bms
    BY <2>1, Silent DEF BmsQuiet
  <2>3. Listening'
    BY <1>1, <1>5, <2>2 DEF Owes, Listening, Starts
  <2>4. at[1] = 1
    BY <1>5, NextOwed
  <2>5. Takes(at, 0)
    BY <1>4, <1>5, <2>1, <2>2, <2>3, <2>4 DEF Takes
  <2>6. QED
    BY <2>5
<1>6. CASE prev = "WRITE"
  <2>1. cmdIdx >= 1 /\ owed[1] = <<"w", LastByte, Starts("w")>> /\ at[1] = 2 /\ Len(owed) \in Nat
        /\ Len(owed) >= 2 /\ owed \in Seq(Symbol)
    BY <1>6, NextOwed
  <2>2. BmsWrite(LastByte, "burst")
    BY <1>3, <1>4, <2>1 DEF PassOn, BmsPut, BmsWriteFails, InFull, InTime
  <2>3. Told(<<owed[1]>>, 1)
    BY <2>1, <2>2 DEF BmsWrite
  <2>4. Told(SubSeq(owed, 1, 1), 1) /\ owed[1] # <<"p">>
    <3>1. owed[1] # <<"p">>
      BY <2>1
    <3>2. Len(owed) >= 1 /\ owed \in Seq(Symbol)
      BY <2>1
    <3>3. SubSeq(owed, 1, 1) = <<owed[1]>>
      BY <3>2, FirstOne
    <3>4. QED
      BY <2>3, <3>1, <3>3
  <2>5. Paid(1) /\ Wire!Next
    BY <2>1, <2>4, Telling
  <2>6. cmdIdx' # 1 /\ Listening'
    BY <1>1, <1>3, <1>4, <2>1 DEF Listening
  <2>7. Takes(at, 1)
    BY <1>4, <1>6, <2>1, <2>5, <2>6 DEF Takes
  <2>8. QED
    BY <2>7
<1>7. QED
  BY <1>2, <1>5, <1>6

LEMMA TakesRead ==
    ASSUME InFull, Track = TRUE, Sound, Sequel, Fits, Owes, NEW at, Places(at),
           Process, Ev(1) = "READ"
    PROVE  \E k \in 0 .. 2 : Takes(at, k)
<1>1. ProcessRead /\ First = 0 /\ First' = 1 /\ Ev(0) = prev /\ Ev(1)' = "READ"
  BY Handled
<1>2. prev \in {"START", "READ"} /\ ~ReplyFull
  BY NextOwed DEF Follows
<1>3. /\ AnswerOverride \/ AnswerBms
      /\ override' = override
  BY <1>1, <1>2 DEF ProcessRead, AnswerStale, InFull, InTime
<1>4. at[1] = 1 /\ Len(owed) \in Nat /\ Len(owed) >= 1 /\ owed \in Seq(Symbol)
      /\ Says(owed[1], "READ", queue[1].data, prev)
  BY <1>2, NextOwed
<1>5. CASE AnswerOverride
  <2>1. override /\ owed' = Tail(owed) /\ UNCHANGED <<got, turn>>
    <3>1. owed # <<>>
      BY <1>4
    <3>2. QED
      BY <1>5, <3>1 DEF AnswerOverride, Withheld
  <2>2. Paid(1)
    <3>1. owed # <<>>
      BY <1>4
    <3>2. /\ Tail(owed) \in Seq(Symbol) /\ Len(Tail(owed)) = Len(owed) - 1
          /\ \A j \in 1 .. Len(Tail(owed)) : Tail(owed)[j] = owed[j + 1]
      BY <1>4, <3>1, HeadTailProperties
    <3>3. QED
      BY <1>4, <2>1, <3>2 DEF Paid
  <2>3. got \in Intercepted
    BY <1>1, <1>2, <2>1 DEF Owes, Listening
  <2>4. Wire!Next
    <3>1. owed[1] \in Read
      <4>1. owed[1] = <<"r", TRUE>> \/ owed[1] = <<"r", FALSE>>
        BY <1>2, <1>4 DEF Says
      <4>2. <<"r", TRUE>> \in Read /\ <<"r", FALSE>> \in Read
        BY DEF Read
      <4>3. QED
        BY <4>1, <4>2
    <3>2. owed # <<>> /\ Head(owed) = owed[1]
      BY <1>4
    <3>3. QED
      BY <2>1, <2>3, <3>1, <3>2 DEF Wire!Next, Wire!Intercept
  <2>5. Listening'
    <3>1. Starts("r") <=> ~Asked
      BY <1>1, <1>2, <2>1 DEF Owes, Listening
    <3>2. UNCHANGED bms
      BY <1>5 DEF AnswerOverride
    <3>3. QED
      BY <1>1, <1>3, <2>1, <2>3, <3>1, <3>2 DEF Listening, Starts, Asked
  <2>6. Takes(at, 1)
    BY <1>4, <2>2, <2>4, <2>5 DEF Takes
  <2>7. QED
    BY <2>6
<1>6. CASE AnswerBms
  <2>1. ~override /\ bms' = [open |-> "r", restart |-> FALSE]
        /\ Told(<<<<"r", Starts("r")>>>>, 1)
    BY <1>6 DEF AnswerBms
  <2>2. owed[1] = <<"r", Starts("r")>>
    <3>1. CASE prev = "START"
      <4>1. Starts("r") /\ owed[1] = <<"r", TRUE>>
        BY <1>1, <1>4, <2>1, <3>1 DEF Owes, Listening, Says
      <4>2. QED
        BY <4>1
    <3>2. CASE prev = "READ"
      <4>1. bms = [open |-> "r", restart |-> FALSE]
        BY <1>1, <2>1, <3>2 DEF Owes, Listening
      <4>2. Starts("r") = FALSE
        BY <4>1 DEF Starts
      <4>3. owed[1] = <<"r", FALSE>>
        BY <1>4, <3>2 DEF Says
      <4>4. QED
        BY <4>2, <4>3
    <3>3. QED
      BY <1>2, <3>1, <3>2
  <2>3. Told(SubSeq(owed, 1, 1), 1) /\ owed[1] # <<"p">>
    <3>1. owed[1] # <<"p">>
      BY <2>2
    <3>2. SubSeq(owed, 1, 1) = <<owed[1]>>
      BY <1>4, FirstOne
    <3>3. QED
      BY <2>1, <2>2, <3>1, <3>2
  <2>4. Paid(1) /\ Wire!Next
    BY <1>4, <2>3, Telling
  <2>5. Listening'
    <3>1. got' = <<owed[1]>>
      BY <1>4, <2>1, <2>2 DEF Told
    <3>2. owed[1] \in Read
      <4>1. owed[1] = <<"r", TRUE>> \/ owed[1] = <<"r", FALSE>>
        BY <1>2, <1>4 DEF Says
      <4>2. <<"r", TRUE>> \in Read /\ <<"r", FALSE>> \in Read
        BY DEF Read
      <4>3. QED
        BY <4>1, <4>2
    <3>3. Asked'
      BY <3>1, <3>2 DEF Asked
    <3>4. QED
      BY <1>1, <1>3, <2>1, <3>3 DEF Listening
  <2>6. Takes(at, 1)
    BY <1>4, <2>4, <2>5 DEF Takes
  <2>7. QED
    BY <2>6
<1>7. QED
  BY <1>3, <1>5, <1>6

LEMMA TakesStop ==
    ASSUME InFull, Track = TRUE, Sound, Sequel, Fits, Owes, NEW at, Places(at),
           Process, Ev(1) = "STOP"
    PROVE  \E k \in 0 .. 2 : Takes(at, k)
<1>1. ProcessStop /\ First = 0 /\ First' = 1 /\ Ev(0) = prev /\ Ev(1)' = "STOP"
  BY Handled
<1>2. prev \in {"WRITE", "READ"}
  BY NextOwed DEF Continues
<1>3. Listening'
  BY <1>1 DEF Listening
<1>4. /\ Len(owed) \in Nat /\ owed \in Seq(Symbol) /\ at[1] <= Len(owed)
      /\ owed[at[1]] = <<"p">>
      /\ at[1] = IF prev = "WRITE" THEN 2 ELSE 1
  <2>1. /\ Len(owed) \in Nat /\ owed \in Seq(Symbol) /\ at[1] <= Len(owed)
        /\ at[1] = at[0] + 1 /\ at[0] = IF prev = "WRITE" THEN 1 ELSE 0
        /\ Says(owed[at[1]], "STOP", queue[1].data, prev)
    BY NextOwed
  <2>2. QED
    BY <2>1 DEF Says
<1>5. CASE prev = "WRITE"
  <2>1. owed[1] = <<"w", LastByte, Starts("w")>>
    BY <1>5, NextOwed
  <2>2. BmsWrite(LastByte, "stop")
    BY <1>1, <1>5 DEF ProcessStop, BmsPut, BmsWriteFails, InFull, InTime
  <2>3. Told(<<owed[1], owed[2]>>, 2)
    BY <1>4, <1>5, <2>1, <2>2 DEF BmsWrite
  <2>4. Told(SubSeq(owed, 1, 2), 2) /\ owed[1] # <<"p">>
    <3>1. owed[1] # <<"p">>
      BY <2>1
    <3>2. SubSeq(owed, 1, 2) = <<owed[1], owed[2]>>
      BY <1>4, <1>5, FirstTwo
    <3>3. QED
      BY <2>3, <3>1, <3>2
  <2>5. Paid(2) /\ Wire!Next
    BY <1>4, <1>5, <2>4, Telling
  <2>6. Takes(at, 2)
    BY <1>3, <1>4, <1>5, <2>5 DEF Takes
  <2>7. QED
    BY <2>6
<1>6. CASE prev = "READ"
  <2>1. Told(<<<<"r", Starts("r")>>, <<"p">>>>, 1)
    BY <1>1, <1>6 DEF ProcessStop, BmsStopRead, InFull, InTime
  <2>2. (got \in Intercepted \/ Asked) /\ (Starts("r") <=> ~Asked)
    BY <1>1, <1>6 DEF Owes, Listening, Starts
  <2>3. Asked <=> got[Len(got)] \in Read
    <3>1. CASE Asked
      BY <3>1 DEF Asked
    <3>2. CASE got \in Intercepted
      <4>1. PICK c \in Overrides, k \in 0 .. ReplySize : got = Intercept(c, k)
        BY <3>2, InterceptedIs
      <4>2. c \in Byte /\ k \in Nat
        BY ConstantsAssumption
      <4>3. got # <<>>
        BY <4>1, <4>2, AsksLast
      <4>4. QED
        BY <4>3 DEF Asked
    <3>3. QED
      BY <2>2, <3>1, <3>2
  <2>4. <<"r", Starts("r")>> = <<"r", got[Len(got)] \notin Read>>
    <3>1. Starts("r") \in BOOLEAN
      BY DEF Starts
    <3>2. QED
      BY <2>2, <2>3, <3>1
  <2>5. Paid(1) /\ Wire!Next
    <3>1. Told(<<<<"r", got[Len(got)] \notin Read>>, <<"p">>>>, 1)
      BY <2>1, <2>4
    <3>2. QED
      BY <1>4, <1>6, <2>2, <3>1, TellingMore
  <2>6. Takes(at, 1)
    BY <1>3, <1>4, <1>6, <2>5 DEF Takes
  <2>7. QED
    BY <2>6
<1>7. QED
  BY <1>2, <1>5, <1>6

LEMMA TakesStart ==
    ASSUME InFull, Track = TRUE, Sound, Sequel, Fits, Owes, NEW at, Places(at),
           Process, Ev(1) = "START"
    PROVE  \E k \in 0 .. 2 : Takes(at, k)
<1>1. ProcessStart /\ First = 0 /\ First' = 1 /\ Ev(0) = prev /\ Ev(1)' = "START"
  BY Handled
<1>2. /\ Len(owed) \in Nat /\ owed \in Seq(Symbol) /\ at[1] <= Len(owed)
      /\ at[1] = IF prev = "WRITE" THEN 1 ELSE 0
  BY NextOwed
<1>3. CASE prev # "WRITE"
  <2>1. UNCHANGED bms /\ UNCHANGED ghostVars /\ override' = FALSE
    BY <1>1, <1>3 DEF ProcessStart, BmsQuiet, NoOverride
  <2>2. prev \in {"STOP", "ABORT"}
    BY <1>3, NextOwed DEF Continues, Sound, Known, IInv, Basic, TypeOK, LoopTypeOK, Event
  <2>3. bms.open = "none"
    BY <1>1, <2>2 DEF Sound, Known, InStep, Released
  <2>4. Listening'
    BY <1>1, <2>1, <2>3 DEF Listening, Starts
  <2>5. Takes(at, 0)
    BY <1>2, <1>3, <2>1, <2>4, Silent DEF Takes
  <2>6. QED
    BY <2>5
<1>4. CASE prev = "WRITE"
  <2>1. owed[1] = <<"w", LastByte, Starts("w")>> /\ cmdIdx \in 1 .. CmdSize - 1
    BY <1>4, NextOwed
  <2>2. SwitchToRead
    BY <1>1, <1>4 DEF ProcessStart
  <2>3. Paid(1) /\ Wire!Next /\ Listening'
    <3>1. CASE ~Overridden /\ BmsWrite(LastByte, "hold") /\ override' = FALSE
      <4>1. Told(<<owed[1]>>, 1) /\ bms' = [open |-> "w", restart |-> TRUE]
        BY <2>1, <3>1 DEF BmsWrite, AfterWrite
      <4>2. Told(SubSeq(owed, 1, 1), 1) /\ owed[1] # <<"p">>
        <5>1. owed[1] # <<"p">>
          BY <2>1
        <5>2. SubSeq(owed, 1, 1) = <<owed[1]>>
          BY <1>2, <1>4, FirstOne
        <5>3. QED
          BY <4>1, <5>1, <5>2
      <4>3. Listening'
        BY <1>1, <3>1, <4>1 DEF Listening, Starts
      <4>4. QED
        BY <1>2, <1>4, <4>2, <4>3, Telling
    <3>2. ASSUME Overridden, override' = TRUE,
                 NEW k \in 0 .. ReplySize, bms' = AfterAsks(k),
                 Told(<<<<"w", LastByte, Starts("w")>>>> \o Asks(k), 1)
          PROVE  Paid(1) /\ Wire!Next /\ Listening'
      <4>1. cmdIdx = 1 /\ LastByte \in Overrides /\ LastByte \in Byte /\ k \in Nat
        BY <3>2, ConstantsAssumption DEF Overridden, LastByte
      <4>2. owed[1] = <<"w", LastByte, TRUE>>
        BY <1>1, <1>4, <4>1 DEF Owes, Held
      <4>3. PICK s : s = Intercept(LastByte, k)
        OBVIOUS
      <4>4. s \in Intercepted
        BY <4>1, <4>3, InterceptedIs
      <4>5. s # <<>> /\ Head(s) = owed[1] /\ (s[Len(s)] \in Read <=> k # 0)
        BY <4>1, <4>2, <4>3, AsksLast
      <4>6. Told(s, 1)
        <5>1. <<"w", LastByte, Starts("w")>> = <<"w", LastByte, TRUE>>
          BY <2>1, <4>2
        <5>2. QED
          BY <3>2, <4>3, <5>1, Zenon DEF Intercept
      <4>7. Paid(1) /\ Wire!Next
        BY <1>2, <1>4, <4>4, <4>5, <4>6, TellingMore
      <4>8. got' = s
        BY <4>6 DEF Told
      <4>9. Asked' <=> k # 0
        BY <4>5, <4>8 DEF Asked
      <4>10. Starts("w")' /\ (Starts("r")' <=> k = 0)
        BY <3>2 DEF AfterAsks, Starts
      <4>11. Listening'
        BY <1>1, <3>2, <4>4, <4>8, <4>9, <4>10 DEF Listening
      <4>12. QED
        BY <4>7, <4>11
    <3>3. QED
      BY <2>2, <3>1, <3>2
         DEF SwitchToRead, NoOverride, OverrideReplies, OverrideFails, BmsWriteFails, InFull, InTime
  <2>4. Takes(at, 1)
    BY <1>2, <1>4, <2>3 DEF Takes
  <2>5. QED
    BY <2>4
<1>5. QED
  BY <1>3, <1>4

LEMMA OwesProcess ==
    ASSUME InFull, Track = TRUE, Sound, Sequel, Fits, Owes, Process
    PROVE  Owes' /\ (Wire!Next \/ UNCHANGED ghostVars)
<1>1. PICK at : Places(at)
  BY DEF Owes
<1>2. PICK n \in Nat : n = Len(queue) /\ n >= 1
  BY Handled
<1>3. /\ UNCHANGED queue /\ Raised = {} /\ Raised' = {}
      /\ First = 0 /\ First' = 1 /\ (\A i : Ev(i)' = Ev(i)) /\ Len(queue') = n /\ Ev(0) = prev
      /\ Ev(1) \in {"WRITE", "READ", "START", "STOP"}
  BY <1>2, Handled DEF Event
<1>4. PICK k \in 0 .. 2 : Takes(at, k)
  BY <1>1, <1>3, TakesWrite, TakesRead, TakesStop, TakesStart
<1>5. PICK m \in Nat : m = Len(owed)
  BY LenProperties DEF Owes
<1>6. /\ owed' \in Seq(Symbol) /\ Len(owed') = m - k /\ k <= m
      /\ \A j \in 1 .. m - k : owed'[j] = owed[j + k]
      /\ at[1] = IF Ev(1) = "WRITE" THEN k + 1 ELSE k
      /\ Listening'
      /\ Ev(1) = "WRITE" => LastByte' = queue[1].data /\ (cmdIdx' = 1 <=> prev = "START")
  BY <1>4, <1>5 DEF Takes, Paid
<1>7. at \in [0 .. n -> Nat]
  BY <1>1, <1>2, <1>3 DEF Places
<1>8. \A i \in 1 .. n : at[i] - k \in Nat
  <2>1. ASSUME NEW i \in 1 .. n PROVE at[i] - k \in Nat
    <3>1. at[1] <= at[i]
      BY <1>1, <1>2, <1>3 DEF Places, PlaceOrder
    <3>2. at[1] \in Nat /\ at[i] \in Nat /\ k \in Nat /\ at[1] >= k
      BY <1>2, <1>6, <1>7
    <3>3. QED
      BY <3>1, <3>2
  <2>2. QED
    BY <2>1
<1>9. PICK next \in [1 .. n -> Nat] : \A i \in 1 .. n : next[i] = at[i] - k
  <2> DEFINE less == [i \in 1 .. n |-> at[i] - k]
  <2>1. less \in [1 .. n -> Nat] /\ \A i \in 1 .. n : less[i] = at[i] - k
    BY <1>8
  <2> HIDE DEF less
  <2>2. QED
    BY <2>1
<1>10. First' .. Len(queue') = 1 .. n /\ First' + 1 .. Len(queue') = 2 .. n
  BY <1>3
<1>11. ASSUME NEW i \in 2 .. n
       PROVE  /\ i \in First + 1 .. Len(queue)
              /\ at[i] = IF Ev(i) = "START" THEN at[i - 1] ELSE at[i - 1] + 1
              /\ next[i] = at[i] - k /\ next[i - 1] = at[i - 1] - k
              /\ at[i] \in Nat /\ at[i - 1] \in Nat /\ next[i - 1] \in Nat
  <2>1. i \in First + 1 .. Len(queue) /\ i \in 1 .. n /\ i - 1 \in 1 .. n
    BY <1>2, <1>3
  <2>2. at[i] = IF Ev(i) = "START" THEN at[i - 1] ELSE at[i - 1] + 1
    BY <1>1, <2>1 DEF Places, PlaceNext
  <2>3. at[i] \in Nat /\ at[i - 1] \in Nat
    BY <1>7, <2>1
  <2>4. QED
    BY <1>9, <2>1, <2>2, <2>3
<1>12. Held'
  <2>1. SUFFICES ASSUME Ev(1) = "WRITE"
                 PROVE  /\ cmdIdx' = 1 => owed'[1] = <<"w", LastByte', TRUE>>
                        /\ cmdIdx' # 1 => owed'[1] = <<"w", LastByte', FALSE>>
    BY <1>3 DEF Held
  <2>2. at[1] = k + 1 /\ at[1] \in 1 .. m
    <3>1. 1 \in First + 1 .. Len(queue)
      BY <1>2, <1>3
    <3>2. QED
      BY <1>1, <1>5, <1>6, <2>1, <3>1, Within
  <2>3. owed'[1] = owed[at[1]]
    <3>1. 1 \in 1 .. m - k /\ at[1] = 1 + k
      BY <2>2
    <3>2. QED
      BY <1>6, <3>1
  <2>4. Says(owed[at[1]], "WRITE", queue[1].data, prev)
    BY <1>1, <1>3, <2>1, NextOwed
  <2>5. QED
    BY <1>6, <2>1, <2>3, <2>4 DEF Says
<1>13. Waiting'
  BY <1>3 DEF Waiting
<1>14. PlaceFirst(next)'
  <2>1. next[1] = at[1] - k
    BY <1>2, <1>9
  <2>2. QED
    BY <1>3, <1>6, <2>1 DEF PlaceFirst
<1>15. PlaceNext(next)'
  <2>1. ASSUME NEW i \in 2 .. n
        PROVE  next[i] = IF Ev(i)' = "START" THEN next[i - 1] ELSE next[i - 1] + 1
    <3>1. k \in Nat /\ Ev(i)' = Ev(i)
      BY <1>3
    <3>2. CASE Ev(i) = "START"
      BY <1>11, <3>1, <3>2
    <3>3. CASE Ev(i) # "START"
      <4>1. next[i] = (at[i - 1] + 1) - k
        BY <1>11, <3>3
      <4>2. QED
        BY <1>11, <3>1, <3>3, <4>1
    <3>4. QED
      BY <3>2, <3>3
  <2>2. QED
    BY <1>10, <2>1 DEF PlaceNext
<1>16. PlaceOrder(next)'
  <2>1. ASSUME NEW i \in 1 .. n, NEW j \in 1 .. n, i <= j
        PROVE  next[i] <= next[j]
    <3>1. at[i] <= at[j]
      BY <1>1, <1>2, <1>3, <2>1 DEF Places, PlaceOrder
    <3>2. at[i] \in Nat /\ at[j] \in Nat
      BY <1>7
    <3>3. QED
      BY <1>9, <3>1, <3>2
  <2>2. QED
    BY <1>10, <2>1 DEF PlaceOrder
<1>17. PlaceLast(next)'
  <2>1. m = at[n]
    BY <1>1, <1>2, <1>3, <1>5 DEF Places, PlaceLast
  <2>2. next[n] = at[n] - k
    BY <1>2, <1>9
  <2>3. QED
    BY <1>3, <1>6, <2>1, <2>2 DEF PlaceLast
<1>18. InQueue(next)'
  <2>1. ASSUME NEW i \in 2 .. n, Ev(i) # "START"
        PROVE  Says(owed'[next[i]], Ev(i), queue[i].data, Ev(i - 1))
    <3>1. Says(owed[at[i]], Ev(i), queue[i].data, Ev(i - 1)) /\ at[i] \in 1 .. m
      BY <1>1, <1>5, <1>11, <2>1, Within DEF Places, InQueue
    <3>2. next[i] \in 1 .. m - k /\ at[i] = next[i] + k
      <4>1. at[i] = at[i - 1] + 1 /\ k \in Nat /\ k <= m
        BY <1>6, <1>11, <2>1
      <4>2. next[i] = at[i] - k /\ next[i - 1] = at[i - 1] - k /\ next[i - 1] \in Nat
            /\ at[i] \in Nat /\ at[i - 1] \in Nat
        BY <1>11
      <4>3. next[i] >= 1 /\ next[i] <= m - k /\ next[i] \in Nat
        BY <3>1, <4>1, <4>2
      <4>4. QED
        BY <4>1, <4>2, <4>3
    <3>3. QED
      BY <1>6, <3>1, <3>2
  <2>2. QED
    BY <1>3, <1>10, <2>1 DEF InQueue
<1>19. next \in [First' .. Len(queue') -> Nat]
  BY <1>9, <1>10
<1>20. Places(next)'
  BY <1>14, <1>15, <1>16, <1>17, <1>18, <1>19 DEF Places
<1>21. QED
  BY <1>4, <1>6, <1>12, <1>13, <1>20 DEF Owes, Takes

LEMMA OwesNext ==
    ASSUME InFull, Track = TRUE, Sound, Sequel, Fits, Owes, [Next]_vars
    PROVE  Owes' /\ (Wire!Next \/ UNCHANGED ghostVars)
<1>1. ~DropOff /\ ~ComeBack /\ InTime
  BY DEF DropOff, ComeBack, Sound, Known, Handover, Lossless, Room, InFull
<1>2. CASE \/ IrqEnter \/ IrqReturns \/ UNCHANGED vars
           \/ Enter \/ LoopExit \/ LoopBreak \/ UpdateDone \/ \E c \in Byte : GuiRead(c)
  BY <1>1, <1>2, OwesStill
<1>3. CASE Laptop
  <2>1. Wire!Next \/ UNCHANGED ghostVars
    BY <1>1, <1>3, LaptopSays DEF Wire!Next, ghostVars
  <2>2. QED
    BY <1>1, <1>3, <2>1, OwesLaptop
<1>4. CASE \E e \in Event : Service(e)
  BY <1>4, Appended, OwesService
<1>5. CASE Process
  BY <1>5, OwesProcess
<1>6. CASE Pop
  BY <1>6, OwesPop, PopEffect
<1>7. QED
  BY <1>1, <1>2, <1>3, <1>4, <1>5, <1>6 DEF Next, Handler, Main, MainStep, Process

(* Everything the laptop says reaches the battery, in order and once,      *)
(* except the reads that follow an overridden command; what it hears       *)
(* besides are the reads of an override and a byte before the stop of a    *)
(* read.  What is owed is exactly the byte held back, the events in the    *)
(* queue and the condition still raised, and the loop tells the battery    *)
(* the first of it.                                                        *)
THEOREM ForwardsEverythingHolds == InFull /\ Track = TRUE => (Spec => ForwardsEverything)
<1> SUFFICES ASSUME InFull, Track = TRUE
             PROVE  Spec => ForwardsEverything
  OBVIOUS
<1>1. InTime
  BY DEF InFull
<1>2. Spec => []Known
  BY <1>1, KnownAlways
<1>3. Spec => []Lossless
  BY <1>1, LosslessInductive
<1>4. Init => Sequel /\ Fits /\ Owes
  BY SequelInit, FitsInit, OwesInit
<1>5. Known /\ Lossless /\ Sequel /\ Fits /\ Owes /\ [Next]_vars => Sequel' /\ Fits' /\ Owes'
  BY <1>1, SequelNext, FitsNext, OwesNext DEF Sound
<1>6. Known /\ Lossless /\ Sequel /\ Fits /\ Owes /\ [Next]_vars => [Wire!Next]_(Wire!vars)
  BY OwesNext DEF Sound, Wire!vars, ghostVars
<1>7. Init => Wire!Init
  BY DEF Init, Wire!Init
<1>8. QED
  BY <1>2, <1>3, <1>4, <1>5, <1>6, <1>7, PTL DEF Spec, ForwardsEverything, Wire!Spec
=============================================================================
