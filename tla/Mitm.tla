-------------------------------- MODULE Mitm --------------------------------
(***************************************************************************)
(* src/mitm.c on core 0, between two buses.  The laptop is the master of   *)
(* one; its peripheral raises an interrupt whose handler turns what it     *)
(* finds into events of a queue.  The main loop takes the events one by    *)
(* one and drives the other bus, the battery's, one byte behind.  Between  *)
(* two transactions of the laptop the main loop reads the battery for the  *)
(* display.                                                                *)
(*                                                                         *)
(* The queue is the FIFO StaticQueue implements.  Core 1 never comes near  *)
(* this state.                                                             *)
(***************************************************************************)
EXTENDS Integers, Sequences, FiniteSets

CONSTANTS Byte,        \* what a byte on the bus can be
          Overrides,   \* commands config_override.h maps to an override
          NoByte,      \* no byte, or a cell of the buffer nobody wrote
          CmdSize,     \* MITM_CMD_BUFFER_SIZE
          ReplySize,   \* MITM_REPLY_BUFFER_SIZE
          Capacity,    \* MITM_QUEUE_MAX_ELEMENTS - 1
          RxDepth,     \* depth of the peripheral's receive FIFO
          Assumed,     \* what is assumed of the laptop, the battery and time
          Track        \* keep owed, got and turn, which no code reads

(* "prompt":  the interrupt handler is done before the next thing happens  *)
(*            on the laptop's bus.                                         *)
(* "paced":   the main loop keeps up: the queue never overflows.           *)
(* "healthy": the battery acknowledges everything.                         *)
(* "smbus":   the laptop writes at least a byte, repeats the start only to *)
(*            turn a write into a read, and talks to the battery only.     *)
(* "fits":    its messages fit the two buffers.                            *)
ASSUME ConstantsAssumption ==
    /\ Overrides \subseteq Byte /\ NoByte \notin Byte
    /\ CmdSize \in Nat /\ CmdSize >= 2
    /\ ReplySize \in Nat /\ ReplySize >= 1
    /\ Capacity \in Nat /\ Capacity >= 2
    /\ RxDepth \in Nat /\ RxDepth >= 1
    /\ Assumed \subseteq {"prompt", "paced", "healthy", "smbus", "fits"}
    /\ Track \in BOOLEAN

VARIABLES
    \* the laptop's bus and its peripheral
    bus,           \* where the laptop is in its transaction
    msg,           \* its last write, and how much it has read since
    flags,         \* interrupt conditions other than RX_FULL
    rx,            \* the receive FIFO
    slaveOn,       \* the peripheral and its interrupt are enabled
    \* the interrupt handler
    irq,           \* what is left to serve of the `stat' it read
    queue,         \* mitm_transfer_queue
    overflow,      \* mitm_transfer_queue_overflow
    \* the main loop
    pc,            \* where it is
    prev,          \* previous_event
    cmd, cmdIdx,   \* mitm_cmd_buffer and its index
    reply,         \* mitm_reply_buffer: where each byte came from
    replyIdx,      \* its index
    override,      \* reply_override
    extent,        \* how much of the reply buffer is this reply's: what its
                   \* override wrote, all without one
    trash,         \* the override failed and its reply was trashed
    answer,        \* where the laptop's last answer came from
    within,        \* it was one of the bytes the extent goes for
    \* the battery's bus
    bms,           \* the transaction open on it
    owed, got, turn   \* see PassThrough

laptopVars == <<bus, msg>>
handlerVars == <<irq, queue, overflow>>
ghostVars == <<owed, got, turn>>
mainVars == <<pc, prev, cmd, cmdIdx, reply, replyIdx, override, extent, trash, answer,
              within, bms>>
vars == <<laptopVars, flags, rx, slaveOn, handlerVars, mainVars, ghostVars>>

Event == {"ABORT", "START", "STOP", "WRITE", "READ"}
Transfer == [event : Event, data : Byte \cup {NoByte}]
Provenance == {"zero", "old", "bms", "override", "gui"}
Read == {"r"} \X BOOLEAN
Symbol == ({"w"} \X Byte \X BOOLEAN) \cup Read \cup {<<"p">>}
Open == {"none", "w", "r"}

WireTypeOK ==
    /\ bus \in {"idle", "w", "raddr", "rwait", "r", "other"}
    /\ msg \in [len : 0 .. CmdSize, cmd : Byte \cup {NoByte}, read : 0 .. ReplySize]
    /\ flags \subseteq {"ABORT", "START", "STOP", "READ"}
    /\ slaveOn \in BOOLEAN

HandlerTypeOK ==
    /\ rx \in Seq(Byte) /\ Len(rx) <= RxDepth
    /\ irq \subseteq Event
    /\ queue \in Seq(Transfer) /\ Len(queue) <= Capacity
    /\ overflow \in BOOLEAN

LoopTypeOK ==
    /\ pc \in {"enter", "loop", "pop", "asleep", "update"}
    /\ prev \in Event

CmdTypeOK ==
    /\ cmd \in [0 .. CmdSize - 1 -> Byte \cup {NoByte}]
    /\ cmdIdx \in 0 .. CmdSize - 1

ReplyTypeOK ==
    /\ reply \in [0 .. ReplySize - 1 -> Provenance]
    /\ replyIdx \in 0 .. ReplySize - 1
    /\ override \in BOOLEAN
    /\ extent \in 0 .. ReplySize
    /\ trash \in BOOLEAN
    /\ answer \in Provenance \cup {"none"}
    /\ within \in BOOLEAN

BmsTypeOK == bms \in [open : Open, restart : BOOLEAN]

TypeOK ==
    /\ WireTypeOK
    /\ HandlerTypeOK
    /\ LoopTypeOK
    /\ CmdTypeOK
    /\ ReplyTypeOK
    /\ BmsTypeOK

(* What the laptop says, as far as it matters later: the bytes written (up *)
(* to CmdSize), the first of them, the bytes read (up to ReplySize).       *)
Nothing == [len |-> 0, cmd |-> NoByte, read |-> 0]
Written(m, b) == [len  |-> IF m.len < CmdSize THEN m.len + 1 ELSE m.len,
                  cmd  |-> IF m.len = 0 THEN b ELSE m.cmd,
                  read |-> m.read]
ReadOnce(m) == [m EXCEPT !.read = IF @ < ReplySize THEN @ + 1 ELSE @]

Init ==
    /\ bus = "idle"
    /\ msg = Nothing
    /\ flags = {}
    /\ rx = <<>>
    /\ slaveOn = TRUE
    /\ irq = {}
    /\ queue = <<>>
    /\ overflow = FALSE
    /\ pc = "enter"
    /\ prev = "ABORT"
    /\ cmd = [i \in 0 .. CmdSize - 1 |-> NoByte]
    /\ cmdIdx = 0
    /\ reply = [i \in 0 .. ReplySize - 1 |-> "zero"]
    /\ replyIdx = 0
    /\ override = FALSE
    /\ extent = ReplySize
    /\ trash = FALSE
    /\ answer = "none"
    /\ within = TRUE
    /\ bms = [open |-> "none", restart |-> FALSE]
    /\ owed = <<>> /\ got = <<>> /\ turn = FALSE

-----------------------------------------------------------------------------
(* The laptop and the peripheral.  A condition whose flag is already set   *)
(* leaves no second trace.                                                 *)

Raised == flags \cup (IF rx # <<>> THEN {"WRITE"} ELSE {})
Backlog == Len(queue) + Len(rx) + Cardinality(flags)

LaptopMay ==
    /\ "prompt" \in Assumed => irq = {} /\ (~slaveOn \/ Raised = {} \/ overflow)
    /\ "paced" \in Assumed => Backlog < Capacity

Raise(e) == flags' = IF slaveOn THEN flags \cup {e} ELSE flags

Said(s) == owed' = IF Track THEN Append(owed, s) ELSE owed

(* A start condition, or a repeated one.  Our address is acknowledged only *)
(* when the peripheral is on; to = "other" addresses another device.       *)
LaptopStart(to) ==
    /\ LaptopMay
    /\ bus \in {"idle", "w", "r", "other"}
    /\ "smbus" \in Assumed =>
          \/ bus = "idle" /\ to # "other"
          \/ bus = "w" /\ to = "raddr" /\ msg.len > 0
    /\ bus' = IF slaveOn THEN to ELSE "other"
    /\ Raise("START")
    /\ msg' = IF to = "raddr" /\ bus = "w" THEN msg ELSE Nothing
    /\ UNCHANGED <<rx, slaveOn, handlerVars, mainVars, ghostVars>>

(* The laptop writes a byte; with the receive FIFO full it is held. *)
LaptopWrite(b) ==
    /\ LaptopMay
    /\ bus = "w"
    /\ Len(rx) < RxDepth
    /\ rx' = Append(rx, b)
    /\ "fits" \in Assumed => msg.len < CmdSize - 1
    /\ msg' = Written(msg, b)
    /\ Said(<<"w", b, msg.len = 0>>)
    /\ UNCHANGED <<bus, flags, slaveOn, handlerVars, mainVars, got, turn>>

(* It asks for a byte and is held (RD_REQ) until somebody answers. *)
LaptopRead ==
    /\ LaptopMay
    /\ bus \in {"raddr", "r"}
    /\ "fits" \in Assumed => msg.read < ReplySize - 1
    /\ bus' = "rwait"
    /\ msg' = ReadOnce(msg)
    /\ Raise("READ")
    /\ Said(<<"r", bus = "raddr">>)
    /\ UNCHANGED <<rx, slaveOn, handlerVars, mainVars, got, turn>>

LaptopStop ==
    /\ LaptopMay
    /\ bus \in {"w", "r", "other"}
    /\ "smbus" \in Assumed /\ bus = "w" => msg.len > 0
    /\ bus' = "idle"
    /\ Raise("STOP")
    /\ msg' = Nothing
    /\ IF bus = "other" THEN UNCHANGED owed ELSE Said(<<"p">>)
    /\ UNCHANGED <<rx, slaveOn, handlerVars, mainVars, got, turn>>

(* The peripheral loses the bus while it sends (TX_ABRT). *)
SlaveAborts ==
    /\ LaptopMay
    /\ "smbus" \notin Assumed
    /\ bus = "r"
    /\ bus' = "other"
    /\ msg' = Nothing
    /\ Raise("ABORT")
    /\ UNCHANGED <<rx, slaveOn, handlerVars, mainVars, ghostVars>>

-----------------------------------------------------------------------------
(* mitm_laptop_irq_handler: it reads the raised conditions once, and then  *)
(* serves those in the order of its text, the receive FIFO one byte per    *)
(* run.                                                                    *)

IrqEnter ==
    /\ slaveOn
    /\ irq = {}
    /\ Raised # {}
    /\ ~overflow
    /\ irq' = Raised
    /\ UNCHANGED <<laptopVars, flags, rx, slaveOn, queue, overflow, mainVars, ghostVars>>

(* While `overflow' is set it returns without clearing anything.  The      *)
(* conditions stay raised, so it is entered again before the thread gets   *)
(* to execute anything: see Running.                                       *)
IrqReturns ==
    /\ slaveOn
    /\ irq = {}
    /\ Raised # {}
    /\ overflow
    /\ UNCHANGED vars

(* Nothing the handler serves before e is left. *)
MayServe_ReadFirst(e) ==
    /\ e # "ABORT" => "ABORT" \notin irq
    /\ e \in {"STOP", "WRITE", "READ"} => "START" \notin irq
    /\ e \in {"WRITE", "READ"} => "STOP" \notin irq
    /\ e = "WRITE" => "READ" \notin irq

MayServe(e) ==
    /\ e # "ABORT" => "ABORT" \notin irq
    /\ e \in {"STOP", "WRITE", "READ"} => "START" \notin irq
    /\ e \in {"WRITE", "READ"} => "STOP" \notin irq
    /\ e = "READ" => "WRITE" \notin irq

(* mitm_laptop_on_i2c_event(WRITE): a byte nobody has room for stays in    *)
(* the receive FIFO, and RX_FULL stays raised.                             *)
OnWrite ==
    IF Len(queue) = Capacity
    THEN overflow' = TRUE /\ UNCHANGED <<queue, rx>>
    ELSE /\ queue' = Append(queue, [event |-> "WRITE", data |-> Head(rx)])
         /\ rx' = Tail(rx)
         /\ UNCHANGED overflow

(* mitm_laptop_on_i2c_event of the others: the condition is cleared first, *)
(* so that without room the event is gone.                                 *)
OnFlag_NotCleared(e) ==
    /\ flags' = IF e = "READ" THEN flags ELSE flags \ {e}
    /\ IF Len(queue) = Capacity
       THEN overflow' = TRUE /\ UNCHANGED queue
       ELSE /\ queue' = Append(queue, [event |-> e, data |-> NoByte])
            /\ UNCHANGED overflow

OnFlag(e) ==
    /\ flags' = flags \ {e}
    /\ IF Len(queue) = Capacity
       THEN overflow' = TRUE /\ UNCHANGED queue
       ELSE /\ queue' = Append(queue, [event |-> e, data |-> NoByte])
            /\ UNCHANGED overflow

Service(e) ==
    /\ e \in irq
    /\ MayServe(e)
    /\ irq' = irq \ {e}
    /\ \/ e = "WRITE" /\ OnWrite /\ UNCHANGED flags
       \/ e # "WRITE" /\ OnFlag(e) /\ UNCHANGED rx
    /\ UNCHANGED <<laptopVars, slaveOn, mainVars, ghostVars>>

-----------------------------------------------------------------------------
(* The battery's bus, as the SDK's controller drives it. *)

(* The thread runs only when the handler has nothing to do. *)
Running == irq = {} /\ ~(slaveOn /\ Raised # {})

Starts(dir) == bms.open # dir \/ bms.restart

(* The battery has heard s; n symbols of it are the laptop's. *)
Told(s, n) ==
    IF Track
    THEN /\ got' = s
         /\ turn' = ~turn
         /\ owed' = SubSeq(owed, n + 1, Len(owed))
    ELSE UNCHANGED ghostVars

(* A read the battery is not asked leaves it too. *)
Withheld ==
    /\ owed' = IF Track /\ owed # <<>> THEN Tail(owed) ELSE owed
    /\ UNCHANGED <<got, turn>>

Closed(r) == [open |-> "none", restart |-> r]

AfterWrite(how) ==
    IF how = "stop" THEN Closed(FALSE)
    ELSE [open |-> "w", restart |-> how = "hold"]

(* i2c_write_burst_blocking (how = "burst"), i2c_write_timeout_us with     *)
(* nostop ("hold") or without ("stop").  A byte that is not acknowledged   *)
(* ends the transaction.                                                   *)
BmsWrite(b, how) ==
    /\ bms' = AfterWrite(how)
    /\ IF how = "stop"
       THEN Told(<<<<"w", b, Starts("w")>>, <<"p">>>>, 2)
       ELSE Told(<<<<"w", b, Starts("w")>>>>, 1)

BmsWriteFails(how) ==
    /\ "healthy" \notin Assumed
    /\ bms' = Closed(how = "hold")
    /\ UNCHANGED ghostVars

BmsPut(b, how) == BmsWrite(b, how) \/ BmsWriteFails(how)

(* i2c_stop_read_blocking: one more byte, thrown away, and the stop.  The  *)
(* read starts anew if none is open, as after an override that has asked   *)
(* the battery for nothing.                                                *)
BmsStopRead ==
    /\ bms' = Closed(FALSE)
    /\ \/ Told(<<<<"r", Starts("r")>>, <<"p">>>>, 1)
       \/ "healthy" \notin Assumed /\ UNCHANGED ghostVars

BmsQuiet == UNCHANGED <<bms, ghostVars>>

-----------------------------------------------------------------------------
(* mitm_loop, one event at a time.  An event is handled (pc "loop"), and   *)
(* then it becomes previous_event and is popped (pc "pop").                *)

Handle(e) ==
    /\ Running
    /\ pc = "loop"
    /\ queue # <<>>
    /\ Head(queue).event = e
    /\ ~overflow
    /\ pc' = "pop"

NoReplyChange == UNCHANGED <<reply, replyIdx, override, extent, trash, answer, within>>

LastByte_First == cmd[0]
LastByte == cmd[cmdIdx - 1]

CmdFull_OffByOne == cmdIdx >= CmdSize
CmdFull == cmdIdx + 1 >= CmdSize

(* Without a start or a stop: a byte in the middle of a write. *)
PassOn_Blocking(b) == BmsPut(b, "hold")
PassOn(b) == BmsPut(b, "burst")

(* case I2C_WRITE: the byte before this one goes out now. *)
ProcessWrite ==
    /\ Handle("WRITE")
    /\ IF prev = "READ" \/ CmdFull
       THEN UNCHANGED <<cmd, cmdIdx>> /\ BmsQuiet
       ELSE /\ IF cmdIdx > 0 THEN PassOn(LastByte) ELSE BmsQuiet
            /\ cmd' = [cmd EXCEPT ![cmdIdx] = Head(queue).data]
            /\ cmdIdx' = cmdIdx + 1
    /\ NoReplyChange
    /\ UNCHANGED <<laptopVars, flags, rx, slaveOn, handlerVars, prev>>

(* i2c_write_raw_blocking to the laptop, which lets go of the clock. *)
Answer(from) ==
    /\ answer' = from
    /\ within' = (replyIdx < extent)
    /\ bus' = IF bus = "rwait" THEN "r" ELSE bus

ReplyFull == replyIdx + 1 >= ReplySize

AnswerZero ==
    /\ reply' = [reply EXCEPT ![0] = "zero"]
    /\ Answer("zero")
    /\ UNCHANGED replyIdx
    /\ BmsQuiet

AnswerOverride ==
    /\ override
    /\ Answer(reply[replyIdx])
    /\ replyIdx' = replyIdx + 1
    /\ Withheld
    /\ UNCHANGED <<reply, bms>>

AnswerBms ==
    /\ ~override
    /\ Answer("bms")
    /\ reply' = [reply EXCEPT ![replyIdx] = "bms"]
    /\ replyIdx' = replyIdx + 1
    /\ bms' = [open |-> "r", restart |-> FALSE]
    /\ Told(<<<<"r", Starts("r")>>>>, 1)

(* The battery does not answer: whatever the buffer held goes out. *)
AnswerStale ==
    /\ "healthy" \notin Assumed
    /\ ~override
    /\ Answer(reply[replyIdx])
    /\ replyIdx' = replyIdx + 1
    /\ UNCHANGED reply
    /\ bms' = Closed(FALSE)
    /\ UNCHANGED ghostVars

(* case I2C_READ *)
ProcessRead ==
    /\ Handle("READ")
    /\ IF prev = "WRITE" \/ ReplyFull
       THEN AnswerZero
       ELSE AnswerOverride \/ AnswerBms \/ AnswerStale
    /\ UNCHANGED <<msg, flags, rx, slaveOn, handlerVars, prev, cmd, cmdIdx,
                   override, extent, trash>>

(* What is in the reply buffer belongs to an earlier transaction now. *)
Aged == [i \in DOMAIN reply |-> IF reply[i] = "zero" THEN "zero" ELSE "old"]

(* The first n bytes of the buffer are written, the others stay. *)
Over(buffer, n, by) == [i \in DOMAIN buffer |-> IF i < n THEN by ELSE buffer[i]]

NoOverride_StillSet ==
    /\ extent' = ReplySize
    /\ trash' = FALSE
    /\ reply' = Aged
    /\ UNCHANGED override

NoOverride ==
    /\ override' = FALSE
    /\ extent' = ReplySize
    /\ trash' = FALSE
    /\ reply' = Aged

(* case I2C_ABORT and I2C_STOP *)
ProcessStop ==
    /\ Handle("STOP") \/ Handle("ABORT")
    /\ CASE prev = "WRITE" -> BmsPut(LastByte, "stop")
         [] prev = "READ"  -> BmsStopRead
         [] OTHER          -> BmsQuiet
    /\ cmdIdx' = 0
    /\ replyIdx' = 0
    /\ NoOverride
    /\ UNCHANGED <<laptopVars, flags, rx, slaveOn, handlerVars, prev, cmd, answer, within>>

(* The override function has replied: it has written the first bytes of    *)
(* the buffer.                                                             *)
OverrideReplies ==
    \E n \in 0 .. ReplySize :
        /\ override' = TRUE
        /\ extent' = n
        /\ trash' = FALSE
        /\ reply' = Over(Aged, n, "override")

OverrideFails_Keep ==
    \E n \in 0 .. ReplySize :
        /\ override' = TRUE
        /\ extent' = ReplySize
        /\ trash' = TRUE
        /\ reply' = Over(Aged, n, "override")

(* It has returned a negative value: the buffer is trashed, all of it. *)
OverrideFails ==
    /\ override' = TRUE
    /\ extent' = ReplySize
    /\ trash' = TRUE
    /\ reply' = [i \in DOMAIN reply |-> "zero"]

Overridden_AfterReset == cmdIdx = 0 /\ cmd[0] \in Overrides
Overridden == cmdIdx = 1 /\ cmd[0] \in Overrides

(* The k bytes an override reads from the battery (mitm_read_batt_reply). *)
Asks(k) == [i \in 1 .. k |-> <<"r", i = 1>>]

AfterAsks(k) == IF k = 0 THEN [open |-> "w", restart |-> TRUE]
                ELSE [open |-> "r", restart |-> FALSE]

(* case I2C_START with a command byte to pass on and then, perhaps, an     *)
(* override of its reply, which reads from the battery or not.             *)
SwitchToRead ==
    \/ /\ ~Overridden
       /\ BmsWrite(LastByte, "hold")
       /\ NoOverride
    \/ /\ Overridden
       /\ \E k \in 0 .. ReplySize :
            /\ \/ bms' = AfterAsks(k)
               \/ "healthy" \notin Assumed /\ bms' = Closed(FALSE)
            /\ Told(<<<<"w", LastByte, Starts("w")>>>> \o Asks(k), 1)
       /\ OverrideReplies \/ OverrideFails
    \/ BmsWriteFails("hold") /\ NoOverride

(* case I2C_START *)
ProcessStart ==
    /\ Handle("START")
    /\ IF prev = "WRITE"
       THEN SwitchToRead
       ELSE BmsQuiet /\ NoOverride
    /\ cmdIdx' = 0
    /\ replyIdx' = 0
    /\ UNCHANGED <<laptopVars, flags, rx, slaveOn, handlerVars, prev, cmd, answer, within>>

(* previous_event = transfer->event; static_queue_pop *)
Becomes_NotStart(e) == IF e = "START" THEN prev ELSE e
Becomes(e) == e

Popped_UnlessFull == IF ReplyFull THEN queue ELSE Tail(queue)
Popped == Tail(queue)

Pop ==
    /\ Running
    /\ pc = "pop"
    /\ prev' = Becomes(Head(queue).event)
    /\ queue' = Popped
    /\ pc' = "loop"
    /\ UNCHANGED <<laptopVars, flags, rx, slaveOn, irq, overflow, cmd, cmdIdx, bms, ghostVars>>
    /\ NoReplyChange

MainOnly == UNCHANGED <<laptopVars, flags, rx, slaveOn, handlerVars, prev, cmd, cmdIdx,
                        reply, replyIdx, override, extent, trash, answer, within, bms,
                        ghostVars>>

Ended_Always == TRUE
Ended_StopOnly == prev = "STOP"
Ended == prev \in {"STOP", "ABORT"}

(* The loop ends only between transactions, as far as it knows; on an      *)
(* empty queue it spins otherwise.                                         *)
LoopExit ==
    /\ Running
    /\ pc = "loop"
    /\ queue = <<>>
    /\ Ended
    /\ pc' = "update"
    /\ MainOnly

(* ... or when the queue has overflowed and it looks at the next event. *)
LoopBreak ==
    /\ Running
    /\ pc = "loop"
    /\ queue # <<>>
    /\ overflow
    /\ pc' = "update"
    /\ MainOnly

(* mitm_loop is called and nothing is wrong. *)
Enter ==
    /\ Running
    /\ pc = "enter"
    /\ ~overflow
    /\ pc' = "loop"
    /\ MainOnly

(* It is called after an overflow: it flushes the queue and drops off both *)
(* buses (first half of mitm_reinit_i2c).  The handler adds nothing before *)
(* its interrupt is off.                                                   *)
DropOff ==
    /\ Running
    /\ pc = "enter"
    /\ overflow
    /\ queue' = <<>>
    /\ slaveOn' = FALSE
    /\ flags' = {}
    /\ rx' = <<>>
    /\ bus' = IF bus = "idle" THEN "idle" ELSE "other"
    /\ bms' = Closed(FALSE)
    /\ pc' = "asleep"
    /\ UNCHANGED <<msg, irq, overflow, prev, cmd, cmdIdx, ghostVars>>
    /\ NoReplyChange

OverflowAfter_Kept == overflow
OverflowAfter == FALSE

(* A second later (second half of mitm_reinit_i2c). *)
ComeBack ==
    /\ Running
    /\ pc = "asleep"
    /\ overflow' = OverflowAfter
    /\ slaveOn' = TRUE
    /\ pc' = "loop"
    /\ UNCHANGED <<laptopVars, flags, rx, irq, queue, prev, cmd, cmdIdx, bms, ghostVars>>
    /\ NoReplyChange

(* battery_update_cache reads command c, and the battery's bus is free     *)
(* again after it.  With an override it goes through                       *)
(* mitm_smbus_read_with_override and the same two buffers, of which the    *)
(* override writes the first bytes, or none.                               *)
GuiRead(c) ==
    /\ Running
    /\ pc = "update"
    /\ bms' \in {Closed(FALSE)} \cup IF "healthy" \in Assumed THEN {} ELSE {Closed(TRUE)}
    /\ IF c \in Overrides
       THEN /\ cmd' = [cmd EXCEPT ![0] = c]
            /\ cmdIdx' = 1
            /\ \E n \in 0 .. ReplySize : reply' = Over(reply, n, "gui")
       ELSE UNCHANGED <<cmd, cmdIdx, reply>>
    /\ UNCHANGED <<laptopVars, flags, rx, slaveOn, handlerVars, pc, prev,
                   replyIdx, override, extent, trash, answer, within, ghostVars>>

UpdateDone ==
    /\ Running
    /\ pc = "update"
    /\ pc' = "enter"
    /\ MainOnly

-----------------------------------------------------------------------------
Laptop ==
    \/ \E to \in {"w", "raddr", "other"} : LaptopStart(to)
    \/ \E b \in Byte : LaptopWrite(b)
    \/ LaptopRead
    \/ LaptopStop
    \/ SlaveAborts

Handler == IrqEnter \/ IrqReturns \/ \E e \in Event : Service(e)

MainStep ==
    \/ Enter \/ DropOff \/ ComeBack
    \/ ProcessWrite \/ ProcessRead \/ ProcessStop \/ ProcessStart \/ Pop
    \/ LoopExit \/ LoopBreak
    \/ UpdateDone

Main == MainStep \/ \E c \in Byte : GuiRead(c)

Next == Laptop \/ Handler \/ Main

Spec == Init /\ [][Next]_vars

(* The core executes: a pending interrupt is served and a thread that may  *)
(* run does.  Nothing is assumed of the laptop, nor that the display ever  *)
(* asks for anything; it asks a finite number of things at a time.         *)
Fairness == WF_vars(Handler) /\ WF_vars(MainStep)
FairSpec == Spec /\ Fairness

-----------------------------------------------------------------------------
(* Safety *)

(* mitm_cmd_buffer[mitm_cmd_buffer_index - 1] exists whenever an event may *)
(* be handled after a WRITE (mitm.c:233, 278 and 300), however late the    *)
(* interrupts and the main loop are and whatever is lost on the way.       *)
NoUnderrun == prev = "WRITE" /\ pc = "loop" => cmdIdx >= 1

(* A READ still to be handled is one the laptop is waiting on: the handler *)
(* never leaves behind a byte for nobody in the transmit FIFO, not even    *)
(* when the buses are dropped and taken up again (mitm.c:248, 255, 261,    *)
(* 266).                                                                   *)
ReadIsAwaited ==
    \A i \in 1 .. Len(queue) :
        queue[i].event = "READ" /\ (pc = "pop" => i > 1) => bus = "rwait"

(* Once the queue has overflowed the loop cannot find it empty: it would   *)
(* not reach the test of mitm.c:213, and with the handler deaf nothing     *)
(* would ever arrive again.                                                *)
OverflowNoticed == overflow /\ pc = "loop" => queue # <<>>

(* "this should never happen" (mitm.c:220 and mitm.c:244).                 *)
NeverHappens ==
    pc = "loop" /\ queue # <<>> =>
        <<prev, Head(queue).event>> \notin {<<"READ", "WRITE">>, <<"WRITE", "READ">>}

(* When the loop hands over to battery_update_cache and no overflow made   *)
(* it, the battery's bus carries no transaction of the laptop's.           *)
BatteryReleased == pc = "update" /\ ~overflow => bms.open = "none"

(* A byte from the middle of a write goes out as a byte from the middle of *)
(* a write, never as the command byte of a new one: what the laptop sent   *)
(* is forwarded whole or cut short (README.md:35).                         *)
WholeMessages ==
    pc = "loop" /\ prev = "WRITE" /\ cmdIdx >= 2 => bms = [open |-> "w", restart |-> FALSE]

(* No answer is a byte of an earlier reply, or of one the display asked    *)
(* for: "return their responses" (README.md:35), as long as the laptop     *)
(* reads no further than the override of its command has written: an       *)
(* override cannot "know how many bytes the laptop will read"              *)
(* (config_override.h:60), and what follows is what the buffer held.  And  *)
(* if an override fails, nothing of the battery's or of its own reply gets *)
(* out, however far the laptop reads: "return a negative value to trash    *)
(* the response if an error occurs" (config_override.h:55).                *)
NoStaleAnswer ==
    bus = "r" =>
        /\ within => answer \notin {"old", "gui"}
        /\ trash => answer = "zero"

(* The laptop never gets the battery's own reply to a command that is      *)
(* overridden: "return a custom response instead of forwarding them"       *)
(* (README.md:36).                                                         *)
OverrideNotBypassed ==
    bus = "r" /\ msg.len = 1 /\ msg.cmd \in Overrides => answer # "bms"

(* Refinement *)

(* Everything the laptop says, the battery hears, in order and once, with  *)
(* starts and stops where the laptop put them.  Only the reads that follow *)
(* an overridden command are kept from it, while those of the override     *)
(* itself are added, and so is one byte before the stop of every read.     *)
Intercepted == {<<<<"w", c, TRUE>>>> \o Asks(k) : c \in Overrides, k \in 0 .. ReplySize}
Wire == INSTANCE PassThrough
ForwardsEverything == Wire!Spec

(* Liveness *)

(* A laptop held in a read is let go. *)
ReadIsAnswered == bus = "rwait" ~> bus # "rwait"

(* When the laptop falls silent the display gets the battery for good.     *)
DisplayIsServed == <>[](bus = "idle") => []<>(pc = "update")

(* An overflow passes: "flush the queue", "drop off the bus temporarily"   *)
(* (mitm.c:201 and mitm.c:206).                                            *)
OverflowPasses == overflow ~> ~overflow
=============================================================================
