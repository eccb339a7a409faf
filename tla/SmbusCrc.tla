------------------------------ MODULE SmbusCrc ------------------------------
(***************************************************************************)
(* The checksum of src/smbus.c, for reads, which are all its callers ask   *)
(* it for (is_read is TRUE).  A byte is the set of its bits that are one,  *)
(* so that exclusive-or is symmetric difference.  One frame is sent by the *)
(* battery, bits of it flip on the way, and it is validated.               *)
(***************************************************************************)
EXTENDS Integers, Sequences, FiniteSets

CONSTANTS Address,      \* BATT_I2C_ADDR
          Commands,     \* commands, and
          Bytes,        \* bytes of replies, that are tried
          MaxReply,     \* bound: the bytes of a reply
          MaxFlips      \* bound: the bits that flip

Bit == 0 .. 7
Byte == SUBSET Bit

ASSUME CrcAssumption ==
    /\ Address \in Byte /\ 7 \notin Address
    /\ Commands \subseteq Byte /\ Bytes \subseteq Byte
    /\ MaxReply \in 0 .. 255 /\ MaxFlips \in Nat

VARIABLES
    cmd,       \* the command
    isBlock,   \* a block read, with the length before the bytes
    reply,     \* the bytes of the reply
    crc,       \* its checksum
    flips,     \* the bits that have flipped: <<byte, bit>>, byte 0 is crc
    verdict    \* what validate_smbus_crc says: "accepted" or "refused"

crcVars == <<cmd, isBlock, reply, crc, flips, verdict>>

Xor(a, b) == (a \ b) \cup (b \ a)

(* uint8_t <<= 1 *)
Shift(c) == {k + 1 : k \in c \ {7}}

ToByte(n) == {k \in Bit : (n \div 2^k) % 2 = 1}

-----------------------------------------------------------------------------
(* One round of the loop of generate_crc. *)
CrcBit_Plain(c, bit) == IF bit # (7 \in c) THEN Xor(Shift(c), {0}) ELSE Shift(c)
CrcBit(c, bit) == IF bit # (7 \in c) THEN Xor(Shift(c), {0, 1, 2}) ELSE Shift(c)

(* generate_crc: the most significant bit first. *)
GenerateCrc(c, byte) ==
    LET after[n \in 0 .. 8] ==
            IF n = 0 THEN c
            ELSE LET before == after[n - 1] IN CrcBit(before, (8 - n) \in byte)
    IN  after[8]

(* (address << 1) + flag *)
AddressByte(address, flag) == Shift(address) \cup IF flag THEN {0} ELSE {}

(* The bytes generate_smbus_crc covers. *)
Covered_NoLength(c, bytes, block, read) ==
    <<AddressByte(Address, ~read), c>>
        \o (IF read THEN <<AddressByte(Address, read)>> ELSE <<>>)
        \o bytes

Covered(c, bytes, block, read) ==
    <<AddressByte(Address, ~read), c>>
        \o (IF read THEN <<AddressByte(Address, read)>> ELSE <<>>)
        \o (IF block THEN <<ToByte(Len(bytes))>> ELSE <<>>)
        \o bytes

GenerateSmbusCrc(c, bytes, block, read) ==
    LET covered == Covered(c, bytes, block, read)
        after[n \in 0 .. Len(covered)] ==
            IF n = 0 THEN {}
            ELSE LET before == after[n - 1] IN GenerateCrc(before, covered[n])
    IN  after[Len(covered)]

ValidateSmbusCrc(c, bytes, received, block, read) ==
    received = GenerateSmbusCrc(c, bytes, block, read)

-----------------------------------------------------------------------------
CrcInit ==
    /\ cmd \in Commands
    /\ isBlock \in BOOLEAN
    /\ reply = <<>>
    /\ crc = GenerateSmbusCrc(cmd, reply, isBlock, TRUE)
    /\ flips = {}
    /\ verdict = "none"

(* One more byte in the reply of the battery, which computes the checksum. *)
Extend(b) ==
    /\ flips = {} /\ verdict = "none"
    /\ Len(reply) < MaxReply
    /\ reply' = Append(reply, b)
    /\ crc' = GenerateSmbusCrc(cmd, reply', isBlock, TRUE)
    /\ UNCHANGED <<cmd, isBlock, flips, verdict>>

(* Noise, but not on the length of a block. *)
Flip(i, k) ==
    /\ verdict = "none"
    /\ Cardinality(flips) < MaxFlips
    /\ <<i, k>> \notin flips
    /\ flips' = flips \cup {<<i, k>>}
    /\ UNCHANGED <<cmd, isBlock, reply, crc, verdict>>

Noise(i) == {k \in Bit : <<i, k>> \in flips}

Validate ==
    /\ verdict = "none"
    /\ verdict' = IF ValidateSmbusCrc(cmd, [i \in 1 .. Len(reply) |-> Xor(reply[i], Noise(i))],
                                      Xor(crc, Noise(0)), isBlock, TRUE)
                  THEN "accepted" ELSE "refused"
    /\ UNCHANGED <<cmd, isBlock, reply, crc, flips>>

CrcNext ==
    \/ \E b \in Bytes : Extend(b)
    \/ \E i \in 0 .. Len(reply), k \in Bit : Flip(i, k)
    \/ Validate

CrcSpec == CrcInit /\ [][CrcNext]_crcVars

-----------------------------------------------------------------------------
(* The reference: the remainder of the frame, read as a polynomial over    *)
(* the two-element field and multiplied by x^8, modulo x^8 + x^2 + x + 1,  *)
(* by long division from the highest degree down.                          *)
Generator == {8, 2, 1, 0}

Polynomial(bytes) ==
    UNION {{8 * (Len(bytes) - j) + k + 8 : k \in bytes[j]} : j \in 1 .. Len(bytes)}

CancelDegree(p, d) ==
    IF d \in p THEN Xor(p, {d - 8 + g : g \in Generator}) ELSE p

Remainder(bytes) ==
    LET degree == 8 * (Len(bytes) + 1) - 1
        below[n \in 0 .. degree - 7] ==
            IF n = 0 THEN Polynomial(bytes)
            ELSE LET above == below[n - 1] IN CancelDegree(above, degree + 1 - n)
    IN  below[degree - 7]

(* What goes over the wire for a read: the write of the command, the       *)
(* repeated start and the reply.                                           *)
WriteAddress == Shift(Address)
ReadAddress == Shift(Address) \cup {0}

Frame ==
    <<WriteAddress, cmd, ReadAddress>>
        \o (IF isBlock THEN <<ToByte(Len(reply))>> ELSE <<>>) \o reply

(* The checksum made a bit at a time, over pieces that are put together    *)
(* for the purpose (smbus.c:46-73), is the CRC-8 of what is on the wire.   *)
ChecksumIsSmbus == crc = Remainder(Frame)

(* A reply is accepted exactly when none of its bits has flipped.          *)
AcceptedIffIntact == verdict # "none" => (verdict = "accepted" <=> flips = {})
=============================================================================
