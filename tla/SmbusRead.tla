----------------------------- MODULE SmbusRead -----------------------------
(***************************************************************************)
(* One update of a cached stat (battery_update_stat): the reads of         *)
(* src/smbus.c, or, where config_override.h maps the command to one of its *)
(* examples, the override run the way the laptop would see it              *)
(* (mitm_smbus_read_with_override).  The battery may refuse any transfer   *)
(* and the wire may corrupt any byte.  Updates follow one another, and     *)
(* leave what they leave in mitm_reply_buffer and in the cache.            *)
(***************************************************************************)
EXTENDS Integers, Sequences, FiniteSets

CONSTANTS Value,      \* bytes of replies, with NUL, A and O among them
          Lengths,    \* length bytes the battery or the noise may come up with
          MaxLength,  \* max_result_length of the stats that are no uint16
          ReplySize,  \* MITM_REPLY_BUFFER_SIZE
          Stats,      \* the stats there are
          Sharing     \* how many of them are updated in one behaviour

NUL == 0
A == 1
O == 2
CustomSerial == <<O, A>>
CustomName == <<O, NUL>>     \* sizeof counts the terminator

(* Beyond the bytes: a checksum the wire has broken, and good ones. *)
Broken == 100
Base == 1 + CHOOSE n \in Value \cup Lengths : \A m \in Value \cup Lengths : m <= n

ASSUME ConstantsAssumption ==
    /\ {NUL, A, O} \subseteq Value /\ Value \subseteq 0 .. Broken - 1
    /\ Lengths \subseteq 0 .. Broken - 1
    /\ MaxLength \in Nat /\ MaxLength >= 2
    /\ ReplySize \in Nat /\ ReplySize >= 4
    /\ Sharing \in 1 .. Cardinality(Stats)
    /\ Stats \subseteq {"SERIAL_NUMBER", "MANUFACTURER_NAME", "MANUFACTURER_DATA"}

VARIABLES
    updated,   \* the stats that are updated
    override,  \* what the command of each stat is mapped to
    pc,        \* the transfer that comes next
    stat,      \* the stat that is updated
    bus,       \* the battery's bus: "free", or "held" for more of a transaction
    replyBuf,  \* mitm_reply_buffer
    ret,       \* what the override returned
    cache,     \* of each stat: the bytes, how many of them, result_valid
    heard,     \* the bytes received in the last update of each stat
    intact     \* they are those the battery sent, to the last

vars == <<updated, override, pc, stat, bus, replyBuf, ret, cache, heard, intact>>

Type(s) == CASE s = "SERIAL_NUMBER"     -> "BYTES"
             [] s = "MANUFACTURER_NAME" -> "STRING"
             [] s = "MANUFACTURER_DATA" -> "BLOCK"

Room(s) == IF Type(s) = "BYTES" THEN 2 ELSE MaxLength

(* What the switch of config_override.h can be made to return. *)
Mappings(s) == {"none"} \cup
    CASE s = "SERIAL_NUMBER"     -> {"serial"}
      [] s = "MANUFACTURER_NAME" -> {"name", "modify"}
      [] s = "MANUFACTURER_DATA" -> {}

-----------------------------------------------------------------------------
(* A checksum nothing else collides with: SmbusCrc has the real one. *)
Crc(s, bytes, block) ==
    LET seed == Cardinality(Mappings(s)) * 2 + IF block THEN 1 ELSE 0
        code[n \in 0 .. Len(bytes)] ==
            IF n = 0 THEN seed ELSE Base * code[n - 1] + bytes[n]
    IN  Broken + 1 + code[Len(bytes)]

Cells(buffer, from, n) == [k \in 1 .. n |-> buffer[from + k - 1]]

(* What n bytes may be.  Those of a block too long for any result are told *)
(* apart only as a whole.                                                  *)
Contents(n) == IF n <= MaxLength THEN [1 .. n -> Value]
               ELSE {[k \in 1 .. n |-> v] : v \in Value}

(* A C array with bytes stored from index `at', in it or past its end. *)
Put(array, at, bytes) ==
    [i \in DOMAIN array \cup (at .. at + Len(bytes) - 1) |->
        IF i \in at .. at + Len(bytes) - 1 THEN bytes[i - at + 1] ELSE array[i]]

(* The checks validate and generate share: is this a reply, and complete? *)
WellFormed(buffer, i, block) == block => i >= 1 /\ buffer[0] = i - 1

ReplyCrc(s, buffer, i, block) ==
    IF block THEN Crc(s, Cells(buffer, 1, buffer[0]), TRUE)
             ELSE Crc(s, Cells(buffer, 0, i), FALSE)

MitmValidate(s, buffer, i, block) ==
    WellFormed(buffer, i, block) /\ buffer[i] = ReplyCrc(s, buffer, i, block)

MitmGenerate(s, buffer, i, block) == Put(buffer, i, <<ReplyCrc(s, buffer, i, block)>>)

(* The text ends at its first NUL. *)
TextLength_Whole(bytes, n) == n
TextLength(bytes, n) ==
    LET nuls == {i \in 0 .. n - 1 : bytes[i] = NUL}
    IN  IF nuls = {} THEN n ELSE CHOOSE i \in nuls : \A j \in nuls : i <= j

-----------------------------------------------------------------------------
TypeOK ==
    /\ updated \subseteq Stats
    /\ override \in [Stats -> {"none", "serial", "name", "modify"}]
    /\ pc \in {"rest", "write", "bytes", "length", "block", "crc", "override", "rest-of-block", "stop"}
    /\ stat \in Stats
    /\ bus \in {"free", "held"}
    /\ ret \in {"ok", "error"}
    /\ \A s \in Stats :
        /\ cache[s].length \in 0 .. Room(s)
        /\ cache[s].valid \in BOOLEAN
        /\ intact[s] \in BOOLEAN
        /\ heard[s] \in Seq(Nat)

Init ==
    /\ updated \in SUBSET Stats /\ Cardinality(updated) = Sharing
    /\ override \in [Stats -> {"none", "serial", "name", "modify"}]
    /\ \A s \in Stats : override[s] \in IF s \in updated THEN Mappings(s) ELSE {"none"}
    /\ pc = "rest"
    /\ stat \in updated
    /\ bus = "free"
    /\ replyBuf = [i \in 0 .. ReplySize - 1 |-> 0]
    /\ ret = "ok"
    /\ cache = [s \in Stats |-> [bytes |-> [i \in 0 .. Room(s) - 1 |-> NUL],
                                 length |-> 0, valid |-> FALSE]]
    /\ heard = [s \in Stats |-> <<>>]
    /\ intact = [s \in Stats |-> FALSE]

IsBlock == Type(stat) # "BYTES"
Line == heard[stat]

(* battery_update_stat, what follows the read.  The history forgets what   *)
(* came of a read that failed.                                             *)
Failed(bytes) ==
    /\ cache' = [cache EXCEPT ![stat] = [@ EXCEPT !.bytes = bytes, !.valid = FALSE]]
    /\ pc' = "rest"

Forget ==
    /\ heard' = [heard EXCEPT ![stat] = <<>>]
    /\ intact' = [intact EXCEPT ![stat] = FALSE]

Succeeded(bytes, n) ==
    /\ cache' = [cache EXCEPT ![stat] = [bytes |-> bytes, length |-> n, valid |-> TRUE]]
    /\ pc' = "rest"

(* What was received goes down in the history, faithful or not. *)
Hears(bytes, faithful) ==
    /\ heard' = [heard EXCEPT ![stat] = @ \o bytes]
    /\ intact' = [intact EXCEPT ![stat] = @ /\ faithful]

Begin(s) ==
    /\ pc = "rest"
    /\ s \in updated
    /\ stat' = s
    /\ pc' = "write"
    /\ heard' = [heard EXCEPT ![s] = <<>>]
    /\ intact' = [intact EXCEPT ![s] = FALSE]
    /\ UNCHANGED <<updated, override, bus, replyBuf, ret, cache>>

(* mitm_smbus_read_with_override does not start on a stat with more room   *)
(* than its buffer has.                                                    *)
TurnedDown == override[stat] # "none" /\ Room(stat) > ReplySize - 1

(* i2c_write_timeout_us with nostop, in all four functions. *)
WriteCmd ==
    /\ pc = "write"
    /\ IF TurnedDown
       THEN Forget /\ Failed(cache[stat].bytes) /\ UNCHANGED bus
       ELSE /\ bus' = "held"
            /\ pc' = IF override[stat] # "none" THEN "override"
                     ELSE IF IsBlock THEN "length" ELSE "bytes"
            /\ intact' = [intact EXCEPT ![stat] = TRUE]
            /\ UNCHANGED <<cache, heard>>
    /\ UNCHANGED <<updated, override, stat, replyBuf, ret>>

(* A transfer the battery refuses is aborted, and its stop releases the    *)
(* bus; some of the bytes may have arrived.                                *)
TransferFails ==
    /\ pc \in {"write", "bytes", "length", "block", "crc"}
    /\ ~(pc = "write" /\ TurnedDown)
    /\ bus' = "free"
    /\ \E n \in 0 .. IF pc = "bytes" THEN 1
                     ELSE IF pc = "block" /\ Line[1] > 0 THEN Line[1] - 1 ELSE 0 :
       \E bytes \in Contents(n) : Failed(Put(cache[stat].bytes, 0, bytes))
    /\ Forget
    /\ UNCHANGED <<updated, override, stat, replyBuf, ret>>

(* smbus_read, its burst into the cache itself. *)
ReadBytes ==
    /\ pc = "bytes"
    /\ \E bytes \in Contents(2), faithful \in BOOLEAN :
        /\ cache' = [cache EXCEPT ![stat].bytes = Put(@, 0, bytes)]
        /\ Hears(bytes, faithful)
    /\ pc' = "crc"
    /\ UNCHANGED <<updated, override, stat, bus, replyBuf, ret>>

(* smbus_read_block: a block that does not fit is not read; reading a byte *)
(* of it, with a stop, ends the transaction.                               *)
StopRead_Dropped(b) == b
StopRead(b) == "free"

Fits(n) == n <= MaxLength

ReadLength ==
    /\ pc = "length"
    /\ \E n \in Lengths, faithful \in BOOLEAN :
        IF Fits(n)
        THEN Hears(<<n>>, faithful) /\ pc' = "block" /\ UNCHANGED <<bus, cache>>
        ELSE Forget /\ bus' = StopRead(bus) /\ Failed(cache[stat].bytes)
    /\ UNCHANGED <<updated, override, stat, replyBuf, ret>>

ReadBlock ==
    /\ pc = "block"
    /\ \E bytes \in Contents(Line[1]), faithful \in BOOLEAN :
        /\ cache' = [cache EXCEPT ![stat].bytes = Put(@, 0, bytes)]
        /\ Hears(bytes, faithful)
    /\ pc' = "crc"
    /\ UNCHANGED <<updated, override, stat, bus, replyBuf, ret>>

(* The checksum the battery sent, as it arrives. *)
SentCrc(data, faithful) ==
    IF faithful /\ intact[stat] THEN Crc(stat, data, IsBlock) ELSE Broken

(* The end of smbus_read, smbus_read_block and smbus_read_text. *)
Accepts(crc, data) == crc = Crc(stat, data, IsBlock)

ReadCrc ==
    /\ pc = "crc"
    /\ bus' = "free"
    /\ LET bytes == cache[stat].bytes
           n     == IF IsBlock THEN Line[1] ELSE 2
           data  == Cells(bytes, 0, n)
       IN  \E faithful \in BOOLEAN :
            IF Accepts(SentCrc(data, faithful), data)
            THEN /\ Hears(<<>>, faithful)
                 /\ Succeeded(bytes, IF Type(stat) = "STRING" THEN TextLength(bytes, n) ELSE n)
            ELSE Forget /\ Failed(bytes)
    /\ UNCHANGED <<updated, override, stat, replyBuf, ret>>

-----------------------------------------------------------------------------
(* The examples of config_override.h. *)
Serial == MitmGenerate(stat, Put(replyBuf, 0, CustomSerial), 2, FALSE)

Name ==
    LET n == Len(CustomName)
    IN  MitmGenerate(stat, Put(replyBuf, 0, <<n>> \o CustomName), n + 1, TRUE)

Replace ==
    /\ pc = "override"
    /\ \/ override[stat] = "serial" /\ replyBuf' = Serial
       \/ override[stat] = "name" /\ replyBuf' = Name
    /\ ret' = "ok"
    /\ pc' = "stop"
    /\ UNCHANGED <<updated, override, stat, bus, cache, heard, intact>>

FitsReply_NoCrc(n) == n + 1 <= ReplySize
FitsReply(n) == n + 2 <= ReplySize

ModifyReadsLength ==
    /\ pc = "override" /\ override[stat] = "modify"
    /\ \E n \in Lengths, faithful \in BOOLEAN :
        /\ Hears(<<n>>, faithful)
        /\ replyBuf' = Put(replyBuf, 0, <<n>>)
        /\ IF FitsReply(n)
           THEN pc' = "rest-of-block" /\ UNCHANGED ret
           ELSE pc' = "stop" /\ ret' = "error"
    /\ UNCHANGED <<updated, override, stat, bus, cache>>

AsToOs(buffer, n) == [i \in DOMAIN buffer |->
    IF i \in 1 .. n /\ buffer[i] = A THEN O ELSE buffer[i]]

ModifyReadsRest ==
    /\ pc = "rest-of-block"
    /\ LET n == replyBuf[0] IN
       \E bytes \in Contents(n), faithful \in BOOLEAN :
        LET crc == IF faithful /\ intact[stat]
                   THEN Crc(stat, bytes, TRUE) ELSE Broken
            received == Put(replyBuf, 1, Append(bytes, crc))
            modified == AsToOs(received, n)
        IN  /\ Hears(bytes, faithful)
            /\ IF MitmValidate(stat, received, n + 1, TRUE)
               THEN replyBuf' = MitmGenerate(stat, modified, n + 1, TRUE) /\ ret' = "ok"
               ELSE replyBuf' = received /\ ret' = "error"
    /\ pc' = "stop"
    /\ UNCHANGED <<updated, override, stat, bus, cache>>

(* Either of the two bursts is refused: the bus is released then, and the  *)
(* bytes that arrived are in mitm_reply_buffer.                            *)
ModifyFails ==
    /\ \/ pc = "override" /\ override[stat] = "modify" /\ UNCHANGED replyBuf
       \/ /\ pc = "rest-of-block"
          /\ \E n \in 0 .. replyBuf[0] : \E bytes \in Contents(n) :
                replyBuf' = Put(replyBuf, 1, bytes)
    /\ ret' = "error"
    /\ bus' = "free"
    /\ pc' = "stop"
    /\ intact' = [intact EXCEPT ![stat] = FALSE]
    /\ UNCHANGED <<updated, override, stat, cache, heard>>

(* mitm_smbus_read_with_override once the override is back: the stop, then *)
(* the reply is read from the buffer as the laptop would.                  *)
ReadBack(buffer) ==
    /\ IsBlock => buffer[0] <= ReplySize - 2 /\ buffer[0] <= Room(stat)
    /\ MitmValidate(stat, buffer, IF IsBlock THEN buffer[0] + 1 ELSE Room(stat), IsBlock)

FinishOverride ==
    /\ pc = "stop"
    /\ bus' = StopRead(bus)
    /\ IF ret = "ok" /\ ReadBack(replyBuf)
       THEN LET n == IF IsBlock THEN replyBuf[0] ELSE Room(stat)
                data == Cells(replyBuf, IF IsBlock THEN 1 ELSE 0, n)
            IN  /\ Succeeded(Put(cache[stat].bytes, 0, data), n)
                /\ UNCHANGED <<heard, intact>>
       ELSE Forget /\ Failed(cache[stat].bytes)
    /\ ret' = "ok"
    /\ UNCHANGED <<updated, override, stat, replyBuf>>

Next ==
    \/ \E s \in Stats : Begin(s)
    \/ WriteCmd
    \/ TransferFails
    \/ ReadBytes
    \/ ReadLength
    \/ ReadBlock
    \/ ReadCrc
    \/ Replace
    \/ ModifyReadsLength
    \/ ModifyReadsRest
    \/ ModifyFails
    \/ FinishOverride

Spec == Init /\ [][Next]_vars

-----------------------------------------------------------------------------
(* What the reply the battery sent, or its override, amounts to. *)
UpToNUL(bytes) ==
    LET ends == {i \in 1 .. Len(bytes) : bytes[i] = NUL}
    IN  IF ends = {} THEN bytes
        ELSE SubSeq(bytes, 1, (CHOOSE i \in ends : \A j \in ends : i <= j) - 1)

Meaning(s) ==
    CASE override[s] = "serial" -> CustomSerial
      [] override[s] = "name"   -> CustomName
      [] override[s] = "modify" -> [i \in 1 .. heard[s][1] |->
                                        IF heard[s][i + 1] = A THEN O ELSE heard[s][i + 1]]
      [] override[s] = "none"   ->
            CASE Type(s) = "BYTES"  -> heard[s]
              [] Type(s) = "BLOCK"  -> Tail(heard[s])
              [] Type(s) = "STRING" -> UpToNUL(Tail(heard[s]))

Result(s) == Cells(cache[s].bytes, 0, cache[s].length)

(* A result that is valid is the whole reply of the last update of its     *)
(* stat, and the battery sent it so: a refused transfer, a broken checksum *)
(* or what an earlier update left in either buffer never leaves a result   *)
(* valid with other bytes (smbus.c:94-174, mitm.c:342-390,                 *)
(* battery.c:119-126).                                                     *)
ValidMeansReply ==
    \A s \in Stats : cache[s].valid /\ (pc = "rest" \/ s # stat) =>
        intact[s] /\ Result(s) = Meaning(s)

(* No length the battery sends, and no combination of override and type,   *)
(* makes a read write past the end of mitm_reply_buffer or of the bytes a  *)
(* stat has room for.                                                      *)
NoOverrun ==
    /\ DOMAIN replyBuf = 0 .. ReplySize - 1
    /\ \A s \in Stats : DOMAIN cache[s].bytes = 0 .. Room(s) - 1

(* Every way out of a read leaves the battery's bus free, the ones in the  *)
(* middle of a reply too: the laptop's next message begins with a start.   *)
BusReleased == pc = "rest" => bus = "free"
=============================================================================
