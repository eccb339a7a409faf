---------------------------- MODULE SmbusProofs -----------------------------
(***************************************************************************)
(* Theorems about SmbusRead, for buffers and results of any size, whatever *)
(* lengths the battery sends and wherever it refuses; and, in the second   *)
(* part, about SmbusCrc, for any address, commands and replies.            *)
(***************************************************************************)
EXTENDS SmbusRead, SmbusCrc, SequenceTheorems, FiniteSetTheorems, WellFoundedInduction, TLAPS

-----------------------------------------------------------------------------
(* What is stored where.                                                   *)
LEMMA Rooms ==
  ASSUME NEW s \in Stats
  PROVE  /\ Room(s) \in Nat /\ Room(s) >= 2
         /\ Type(s) = "BYTES" => Room(s) = 2
         /\ Type(s) # "BYTES" => Room(s) = MaxLength
  BY ConstantsAssumption DEF ConstantsAssumption, Room

LEMMA BytesAreNat == Value \subseteq Nat /\ Lengths \subseteq Nat
  BY ConstantsAssumption DEF ConstantsAssumption, Broken

LEMMA ContentsAre ==
  ASSUME NEW n \in Nat, NEW bytes \in Contents(n)
  PROVE  bytes \in Seq(Nat) /\ Len(bytes) = n
<1>1. bytes \in [1 .. n -> Value]
  BY DEF Contents
<1>2. bytes \in [1 .. n -> Nat]
  BY <1>1, BytesAreNat
<1>3. bytes \in Seq(Nat)
  BY <1>2, SeqDef
<1>4. QED
  BY <1>2, <1>3, LenProperties

LEMMA CellsAre ==
  ASSUME NEW n \in Nat, NEW buffer, NEW from \in Nat
  PROVE  Len(Cells(buffer, from, n)) = n
  BY DEF Cells

(* A store within an array leaves its bounds, and what is elsewhere.       *)
LEMMA PutWithin ==
  ASSUME NEW array, NEW at \in Nat, NEW bytes, NEW m \in Nat,
         Len(bytes) \in Nat, at + Len(bytes) <= m, DOMAIN array = 0 .. m - 1
  PROVE  /\ DOMAIN Put(array, at, bytes) = 0 .. m - 1
         /\ \A i \in 0 .. m - 1 : i < at => Put(array, at, bytes)[i] = array[i]
<1>1. DOMAIN array \cup (at .. at + Len(bytes) - 1) = 0 .. m - 1
  OBVIOUS
<1>2. DOMAIN Put(array, at, bytes) = 0 .. m - 1
  BY <1>1 DEF Put
<1>3. ASSUME NEW i \in 0 .. m - 1, i < at PROVE Put(array, at, bytes)[i] = array[i]
  <2>1. i \notin at .. at + Len(bytes) - 1
    BY <1>3
  <2>2. i \in DOMAIN array \cup (at .. at + Len(bytes) - 1)
    BY <1>1
  <2> QED
    BY <2>1, <2>2 DEF Put
<1> QED
  BY <1>2, <1>3

LEMMA Least ==
  ASSUME NEW S, S \subseteq Nat, S # {}
  PROVE  \E i \in S : \A j \in S : i <= j
<1>1. PICK i \in S : \A j \in S : ~(<<j, i>> \in OpToRel(<, Nat))
  BY NatLessThanWellFounded, WFMin
<1>2. \A j, k \in Nat : <<j, k>> \in OpToRel(<, Nat) <=> j < k
  BY DEF OpToRel
<1>3. ASSUME NEW j \in S PROVE i <= j
  <2>1. i \in Nat /\ j \in Nat
    OBVIOUS
  <2>2. ~(j < i)
    BY <1>1, <1>2, <2>1
  <2> QED
    BY <2>1, <2>2
<1> QED
  BY <1>3

(* A text is no longer than the block it is in.                            *)
LEMMA TextLengthIs ==
  ASSUME NEW bytes, NEW n \in Nat
  PROVE  TextLength(bytes, n) \in 0 .. n
<1> DEFINE nuls == {i \in 0 .. n - 1 : bytes[i] = NUL}
<1>1. CASE nuls = {}
  BY <1>1 DEF TextLength
<1>2. CASE nuls # {}
  <2>1. nuls \subseteq Nat
    OBVIOUS
  <2>2. \E i \in nuls : \A j \in nuls : i <= j
    BY <1>2, <2>1, Least
  <2>3. (CHOOSE i \in nuls : \A j \in nuls : i <= j) \in nuls
    BY <2>2
  <2> QED
    BY <1>2, <2>3 DEF TextLength
<1> QED
  BY <1>1, <1>2

-----------------------------------------------------------------------------
(* The invariant.  The types, with what TypeOK leaves open.                *)
Types ==
    /\ updated \subseteq Stats
    /\ override \in [Stats -> {"none", "serial", "name", "modify"}]
    /\ pc \in {"rest", "write", "bytes", "length", "block", "crc", "override", "rest-of-block", "stop"}
    /\ stat \in Stats
    /\ bus \in {"free", "held"}
    /\ ret \in {"ok", "error"}
    /\ heard \in [Stats -> Seq(Nat)]
    /\ intact \in [Stats -> BOOLEAN]

Entry(s) == [bytes : {cache[s].bytes}, length : 0 .. Room(s), valid : BOOLEAN]

CacheFits ==
    /\ DOMAIN cache = Stats
    /\ \A s \in Stats : cache[s] \in Entry(s) /\ DOMAIN cache[s].bytes = 0 .. Room(s) - 1

(* Which read a stat is in, and that a length that was accepted fits.      *)
ReadFits ==
    /\ pc = "bytes" => ~IsBlock
    /\ pc \in {"length", "block"} => IsBlock
    /\ pc \in {"write", "bytes", "length", "override"} => Line = <<>>
    /\ pc \in {"block", "crc"} /\ IsBlock => Line # <<>> /\ Line[1] \in 0 .. MaxLength

(* The same of the override that asks the battery.                         *)
ReplyFits ==
    /\ DOMAIN replyBuf = 0 .. ReplySize - 1
    /\ replyBuf[0] \in Nat
    /\ pc = "rest-of-block" => replyBuf[0] + 2 <= ReplySize

IInv == Types /\ CacheFits /\ ReadFits /\ ReplyFits

LEMMA IInvSuffices == IInv => TypeOK /\ NoOverrun
<1> SUFFICES ASSUME IInv PROVE TypeOK /\ NoOverrun
  OBVIOUS
<1>1. ASSUME NEW s \in Stats
      PROVE  cache[s].length \in 0 .. Room(s) /\ cache[s].valid \in BOOLEAN
  BY DEF IInv, CacheFits, Entry
<1>2. TypeOK
  BY <1>1 DEF IInv, Types, TypeOK
<1>3. NoOverrun
  BY DEF IInv, CacheFits, ReplyFits, NoOverrun
<1> QED
  BY <1>2, <1>3

LEMMA InitIInv == Init => IInv
<1> SUFFICES ASSUME Init PROVE IInv
  OBVIOUS
<1>1. updated \subseteq Stats /\ stat \in Stats
  BY DEF Init
<1>2. \A s \in Stats : cache[s] = [bytes |-> [i \in 0 .. Room(s) - 1 |-> NUL],
                                   length |-> 0, valid |-> FALSE]
  BY DEF Init
<1>3. ASSUME NEW s \in Stats
      PROVE  cache[s] \in Entry(s) /\ DOMAIN cache[s].bytes = 0 .. Room(s) - 1
  <2>1. PICK b : b = [i \in 0 .. Room(s) - 1 |-> NUL]
    OBVIOUS
  <2>2. cache[s] = [bytes |-> b, length |-> 0, valid |-> FALSE]
    BY <1>2, <2>1, Zenon
  <2>3. 0 \in 0 .. Room(s)
    BY Rooms
  <2>4. DOMAIN b = 0 .. Room(s) - 1
    BY <2>1
  <2> HIDE <2>1
  <2> QED
    BY <2>2, <2>3, <2>4 DEF Entry
<1>4. CacheFits
  BY <1>3 DEF Init, CacheFits
<1>5. heard \in [Stats -> Seq(Nat)] /\ intact \in [Stats -> BOOLEAN]
  <2>1. <<>> \in Seq(Nat)
    OBVIOUS
  <2> QED
    BY <2>1 DEF Init
<1>6. Types
  BY <1>1, <1>5 DEF Init, Types
<1>7. ReadFits
  BY DEF Init, ReadFits
<1>8. ReplyFits
  BY ConstantsAssumption DEF Init, ReplyFits, ConstantsAssumption
<1> QED
  BY <1>4, <1>6, <1>7, <1>8 DEF IInv

-----------------------------------------------------------------------------
(* The three ways the cache changes.                                       *)
LEMMA EntryFits ==
  ASSUME CacheFits, stat \in Stats, NEW e, cache' = [cache EXCEPT ![stat] = e],
         e \in [bytes : {e.bytes}, length : 0 .. Room(stat), valid : BOOLEAN],
         DOMAIN e.bytes = 0 .. Room(stat) - 1
  PROVE  CacheFits'
<1>1. DOMAIN cache' = Stats
  BY DEF CacheFits
<1>2. ASSUME NEW s \in Stats
      PROVE  cache'[s] \in Entry(s)' /\ DOMAIN cache'[s].bytes = 0 .. Room(s) - 1
  <2>1. CASE s = stat
    <3>1. cache'[s] = e
      BY <2>1 DEF CacheFits
    <3> QED
      BY <2>1, <3>1 DEF Entry
  <2>2. CASE s # stat
    <3>1. cache'[s] = cache[s]
      BY <2>2 DEF CacheFits
    <3> QED
      BY <3>1 DEF CacheFits, Entry
  <2> QED
    BY <2>1, <2>2
<1> QED
  BY <1>1, <1>2 DEF CacheFits

LEMMA StoredFits ==
  ASSUME CacheFits, stat \in Stats, NEW bytes, DOMAIN bytes = 0 .. Room(stat) - 1,
         cache' = [cache EXCEPT ![stat] = [@ EXCEPT !.bytes = bytes]]
  PROVE  CacheFits'
<1> DEFINE e == [cache[stat] EXCEPT !.bytes = bytes]
<1>1. cache[stat] \in Entry(stat)
  BY DEF CacheFits
<1>2. e.bytes = bytes /\ e \in [bytes : {bytes}, length : 0 .. Room(stat), valid : BOOLEAN]
  BY <1>1 DEF Entry
<1>3. cache' = [cache EXCEPT ![stat] = e]
  OBVIOUS
<1> HIDE DEF e
<1> QED
  BY <1>2, <1>3, EntryFits

LEMMA FailedFits ==
  ASSUME CacheFits, stat \in Stats, NEW bytes, DOMAIN bytes = 0 .. Room(stat) - 1, Failed(bytes)
  PROVE  CacheFits'
<1> DEFINE e == [cache[stat] EXCEPT !.bytes = bytes, !.valid = FALSE]
<1>1. cache[stat] \in Entry(stat)
  BY DEF CacheFits
<1>2. e.bytes = bytes /\ e \in [bytes : {bytes}, length : 0 .. Room(stat), valid : BOOLEAN]
  BY <1>1 DEF Entry
<1>3. cache' = [cache EXCEPT ![stat] = e]
  BY DEF Failed
<1> HIDE DEF e
<1> QED
  BY <1>2, <1>3, EntryFits

LEMMA SucceededFits ==
  ASSUME CacheFits, stat \in Stats, NEW bytes, DOMAIN bytes = 0 .. Room(stat) - 1,
         NEW n \in 0 .. Room(stat), Succeeded(bytes, n)
  PROVE  CacheFits'
<1> DEFINE e == [bytes |-> bytes, length |-> n, valid |-> TRUE]
<1>1. e.bytes = bytes /\ e \in [bytes : {bytes}, length : 0 .. Room(stat), valid : BOOLEAN]
  OBVIOUS
<1>2. cache' = [cache EXCEPT ![stat] = e]
  BY DEF Succeeded
<1> HIDE DEF e
<1> QED
  BY <1>1, <1>2, EntryFits

-----------------------------------------------------------------------------
(* The history, and the reply buffer.                                      *)
LEMMA HearsTyped ==
  ASSUME Types, NEW bytes \in Seq(Nat), NEW faithful \in BOOLEAN, Hears(bytes, faithful)
  PROVE  /\ heard' \in [Stats -> Seq(Nat)] /\ intact' \in [Stats -> BOOLEAN]
         /\ heard'[stat] = Line \o bytes
<1>1. Line \in Seq(Nat) /\ Line \o bytes \in Seq(Nat)
  BY DEF Types, Line
<1>2. heard' = [heard EXCEPT ![stat] = Line \o bytes]
  BY DEF Hears, Line
<1>3. heard' \in [Stats -> Seq(Nat)] /\ heard'[stat] = Line \o bytes
  BY <1>1, <1>2 DEF Types
<1>4. intact' \in [Stats -> BOOLEAN]
  BY DEF Types, Hears
<1> QED
  BY <1>3, <1>4

LEMMA ForgetTyped ==
  ASSUME Types, Forget
  PROVE  heard' \in [Stats -> Seq(Nat)] /\ intact' \in [Stats -> BOOLEAN]
<1>1. <<>> \in Seq(Nat)
  OBVIOUS
<1> QED
  BY <1>1 DEF Types, Forget

LEMMA FirstCell ==
  ASSUME NEW array, NEW bytes, Len(bytes) \in Nat, Len(bytes) > 0
  PROVE  Put(array, 0, bytes)[0] = bytes[1]
<1>1. 0 \in 0 .. 0 + Len(bytes) - 1
  OBVIOUS
<1> QED
  BY <1>1 DEF Put

(* A checksum behind the reply stays in the buffer if there is room.       *)
LEMMA ChecksumFits ==
  ASSUME NEW buffer, DOMAIN buffer = 0 .. ReplySize - 1, NEW n \in Nat, n > 0, n + 1 <= ReplySize,
         NEW check
  PROVE  /\ DOMAIN Put(buffer, n, <<check>>) = 0 .. ReplySize - 1
         /\ Put(buffer, n, <<check>>)[0] = buffer[0]
<1> DEFINE bytes == <<check>>
<1>1. Len(bytes) \in Nat /\ n + Len(bytes) <= ReplySize
  OBVIOUS
<1>2. ReplySize \in Nat /\ 0 \in 0 .. ReplySize - 1
  BY ConstantsAssumption DEF ConstantsAssumption
<1> HIDE DEF bytes
<1>3. /\ DOMAIN Put(buffer, n, bytes) = 0 .. ReplySize - 1
      /\ \A i \in 0 .. ReplySize - 1 : i < n => Put(buffer, n, bytes)[i] = buffer[i]
  BY <1>1, <1>2, PutWithin
<1>4. Put(buffer, n, bytes)[0] = buffer[0]
  BY <1>2, <1>3
<1> QED
  BY <1>3, <1>4 DEF bytes

(* A reply stored from the front of the buffer.                            *)
LEMMA FrontFits ==
  ASSUME ReplyFits, NEW bytes, Len(bytes) \in 1 .. ReplySize
  PROVE  /\ DOMAIN Put(replyBuf, 0, bytes) = 0 .. ReplySize - 1
         /\ Put(replyBuf, 0, bytes)[0] = bytes[1]
<1>1. ReplySize \in Nat /\ Len(bytes) \in Nat /\ Len(bytes) > 0 /\ 0 + Len(bytes) <= ReplySize
  BY ConstantsAssumption DEF ConstantsAssumption
<1>2. DOMAIN replyBuf = 0 .. ReplySize - 1
  BY DEF ReplyFits
<1>3. DOMAIN Put(replyBuf, 0, bytes) = 0 .. ReplySize - 1
  BY <1>1, <1>2, PutWithin
<1> QED
  BY <1>1, <1>3, FirstCell

LEMMA SerialFits ==
  ASSUME ReplyFits
  PROVE  DOMAIN Serial = 0 .. ReplySize - 1 /\ Serial[0] \in Nat
<1> DEFINE buffer == Put(replyBuf, 0, CustomSerial)
<1>1. Len(CustomSerial) = 2 /\ CustomSerial[1] = 2
  BY DEF CustomSerial, O, A
<1>2. ReplySize \in Nat /\ ReplySize >= 4
  BY ConstantsAssumption DEF ConstantsAssumption
<1>3. Len(CustomSerial) \in 1 .. ReplySize
  BY <1>1, <1>2
<1>4. DOMAIN buffer = 0 .. ReplySize - 1 /\ buffer[0] = 2
  BY <1>1, <1>3, FrontFits
<1>5. 2 \in Nat /\ 2 > 0 /\ 2 + 1 <= ReplySize
  BY <1>2
<1>6. PICK check : Serial = Put(buffer, 2, <<check>>)
  BY DEF Serial, MitmGenerate
<1> HIDE DEF buffer
<1> QED
  BY <1>4, <1>5, <1>6, ChecksumFits

LEMMA NameFits ==
  ASSUME ReplyFits
  PROVE  DOMAIN Name = 0 .. ReplySize - 1 /\ Name[0] \in Nat
<1> DEFINE bytes == <<Len(CustomName)>> \o CustomName
           buffer == Put(replyBuf, 0, bytes)
<1>1. Len(CustomName) = 2 /\ Len(bytes) = 3 /\ bytes[1] = 2
  BY DEF CustomName, O, NUL
<1>2. ReplySize \in Nat /\ ReplySize >= 4
  BY ConstantsAssumption DEF ConstantsAssumption
<1> HIDE DEF bytes
<1>3. Len(bytes) \in 1 .. ReplySize
  BY <1>1, <1>2
<1>4. DOMAIN buffer = 0 .. ReplySize - 1 /\ buffer[0] = 2
  BY <1>1, <1>3, FrontFits
<1>5. 3 \in Nat /\ 3 > 0 /\ 3 + 1 <= ReplySize
  BY <1>2
<1>6. Name = MitmGenerate(stat, buffer, 3, TRUE)
  BY <1>1 DEF Name, bytes
<1> HIDE DEF buffer
<1>7. PICK check : Name = Put(buffer, 3, <<check>>)
  BY <1>6 DEF MitmGenerate
<1>8. DOMAIN Name = 0 .. ReplySize - 1 /\ Name[0] = buffer[0]
  BY <1>4, <1>5, <1>7, ChecksumFits
<1> QED
  BY <1>4, <1>8

(* What the override that asks the battery stores behind the length.       *)
LEMMA BehindFits ==
  ASSUME ReplyFits, NEW bytes, Len(bytes) \in Nat, 1 + Len(bytes) <= ReplySize
  PROVE  /\ DOMAIN Put(replyBuf, 1, bytes) = 0 .. ReplySize - 1
         /\ Put(replyBuf, 1, bytes)[0] = replyBuf[0]
<1>1. ReplySize \in Nat /\ 1 \in Nat /\ 0 \in 0 .. ReplySize - 1
  BY ConstantsAssumption DEF ConstantsAssumption
<1>2. DOMAIN replyBuf = 0 .. ReplySize - 1
  BY DEF ReplyFits
<1> QED
  BY <1>1, <1>2, PutWithin
-----------------------------------------------------------------------------
(* The steps, in the order of Next.                                        *)
LEMMA SameCache == CacheFits /\ UNCHANGED cache => CacheFits'
  BY DEF CacheFits, Entry

LEMMA SameReply ==
  ASSUME ReplyFits, UNCHANGED replyBuf, pc' # "rest-of-block"
  PROVE  ReplyFits'
  BY DEF ReplyFits

(* Bytes from the front of a stat's own, as many as it has room for.       *)
LEMMA BytesFit ==
  ASSUME CacheFits, stat \in Stats, NEW bytes, Len(bytes) \in 0 .. Room(stat)
  PROVE  DOMAIN Put(cache[stat].bytes, 0, bytes) = 0 .. Room(stat) - 1
<1>1. Room(stat) \in Nat /\ Len(bytes) \in Nat /\ 0 + Len(bytes) <= Room(stat)
  BY Rooms
<1>2. DOMAIN cache[stat].bytes = 0 .. Room(stat) - 1
  BY DEF CacheFits
<1> QED
  BY <1>1, <1>2, PutWithin

LEMMA BeginIInv ==
  ASSUME IInv, NEW s \in Stats, Begin(s)
  PROVE  IInv'
<1> USE DEF IInv
<1>1. heard' = [heard EXCEPT ![s] = <<>>] /\ intact' = [intact EXCEPT ![s] = FALSE]
  BY DEF Begin
<1>2. heard' \in [Stats -> Seq(Nat)] /\ intact' \in [Stats -> BOOLEAN] /\ heard'[s] = <<>>
  <2>1. <<>> \in Seq(Nat)
    OBVIOUS
  <2> QED
    BY <1>1, <2>1 DEF Types
<1>3. Types'
  BY <1>2 DEF Types, Begin
<1>4. ReadFits'
  BY <1>2 DEF ReadFits, Line, Begin
<1>5. CacheFits' /\ ReplyFits'
  BY SameCache, SameReply DEF Begin
<1> QED
  BY <1>3, <1>4, <1>5

(* Whatever a read has left, it is over.                                   *)
LEMMA RestIInv ==
  ASSUME IInv, CacheFits', pc' = "rest", bus' \in {"free", "held"}, ret' \in {"ok", "error"},
         heard' \in [Stats -> Seq(Nat)], intact' \in [Stats -> BOOLEAN],
         UNCHANGED <<updated, override, stat, replyBuf>>
  PROVE  IInv'
<1>1. Types'
  BY DEF IInv, Types
<1>2. ReadFits'
  BY DEF ReadFits
<1>3. ReplyFits'
  BY SameReply DEF IInv
<1> QED
  BY <1>1, <1>2, <1>3 DEF IInv

LEMMA WriteCmdIInv ==
  ASSUME IInv, WriteCmd
  PROVE  IInv'
<1> USE DEF IInv
<1>1. CASE TurnedDown
  <2>1. stat \in Stats /\ DOMAIN cache[stat].bytes = 0 .. Room(stat) - 1
    BY DEF Types, CacheFits
  <2>2. Forget /\ Failed(cache[stat].bytes) /\ UNCHANGED bus
    BY <1>1 DEF WriteCmd
  <2>3. CacheFits'
    BY <2>1, <2>2, FailedFits
  <2>4. heard' \in [Stats -> Seq(Nat)] /\ intact' \in [Stats -> BOOLEAN]
    BY <2>2, ForgetTyped
  <2> QED
    BY <2>2, <2>3, <2>4, RestIInv DEF WriteCmd, Failed, Types
<1>2. CASE ~TurnedDown
  <2>1. Types'
    BY <1>2 DEF Types, WriteCmd
  <2>2. ReadFits'
    BY <1>2 DEF ReadFits, Line, IsBlock, WriteCmd
  <2>3. CacheFits' /\ ReplyFits'
    BY <1>2, SameCache, SameReply DEF WriteCmd
  <2> QED
    BY <2>1, <2>2, <2>3
<1> QED
  BY <1>1, <1>2

LEMMA TransferFailsIInv ==
  ASSUME IInv, TransferFails
  PROVE  IInv'
<1> USE DEF IInv
<1>1. stat \in Stats
  BY DEF Types
<1> DEFINE most == IF pc = "bytes" THEN 1
                   ELSE IF pc = "block" /\ Line[1] > 0 THEN Line[1] - 1 ELSE 0
<1>2. most \in 0 .. Room(stat)
  BY <1>1, Rooms DEF ReadFits, IsBlock
<1>3. PICK n \in 0 .. most : \E bytes \in Contents(n) : Failed(Put(cache[stat].bytes, 0, bytes))
  BY DEF TransferFails
<1>4. PICK bytes \in Contents(n) : Failed(Put(cache[stat].bytes, 0, bytes))
  BY <1>3
<1> HIDE DEF most
<1>5. Len(bytes) \in 0 .. Room(stat)
  BY <1>1, <1>2, ContentsAre, Rooms
<1>6. CacheFits'
  BY <1>1, <1>4, <1>5, BytesFit, FailedFits
<1>7. heard' \in [Stats -> Seq(Nat)] /\ intact' \in [Stats -> BOOLEAN]
  BY ForgetTyped DEF TransferFails
<1> QED
  BY <1>4, <1>6, <1>7, RestIInv DEF TransferFails, Failed, Types

(* A burst into the cache, the checksum to come.                           *)
LEMMA BurstIInv ==
  ASSUME IInv, NEW n \in 0 .. Room(stat), NEW bytes \in Contents(n), NEW faithful \in BOOLEAN,
         cache' = [cache EXCEPT ![stat].bytes = Put(@, 0, bytes)],
         Hears(bytes, faithful), pc' = "crc",
         IsBlock => Line # <<>> /\ Line[1] \in 0 .. MaxLength,
         UNCHANGED <<updated, override, stat, bus, replyBuf, ret>>
  PROVE  IInv'
<1> USE DEF IInv
<1>1. stat \in Stats /\ Line \in Seq(Nat)
  BY DEF Types, Line
<1>2. bytes \in Seq(Nat) /\ Len(bytes) \in 0 .. Room(stat)
  BY <1>1, ContentsAre, Rooms
<1>3. CacheFits'
  <2> DEFINE stored == Put(cache[stat].bytes, 0, bytes)
  <2>1. DOMAIN stored = 0 .. Room(stat) - 1
    BY <1>1, <1>2, BytesFit
  <2>2. cache' = [cache EXCEPT ![stat] = [@ EXCEPT !.bytes = stored]]
    OBVIOUS
  <2> HIDE DEF stored
  <2> QED
    BY <1>1, <2>1, <2>2, StoredFits
<1>4. /\ heard' \in [Stats -> Seq(Nat)] /\ intact' \in [Stats -> BOOLEAN]
      /\ heard'[stat] = Line \o bytes
  BY <1>2, HearsTyped
<1>5. Types'
  BY <1>4 DEF Types
<1>6. ReadFits'
  <2>1. IsBlock => Line \o bytes # <<>> /\ (Line \o bytes)[1] = Line[1]
    BY <1>1, <1>2
  <2> QED
    BY <1>4, <2>1 DEF ReadFits, Line, IsBlock
<1>7. ReplyFits'
  BY SameReply
<1> QED
  BY <1>3, <1>5, <1>6, <1>7

LEMMA ReadBytesIInv ==
  ASSUME IInv, ReadBytes
  PROVE  IInv'
<1>1. PICK bytes \in Contents(2), faithful \in BOOLEAN :
        /\ cache' = [cache EXCEPT ![stat].bytes = Put(@, 0, bytes)]
        /\ Hears(bytes, faithful)
  BY DEF ReadBytes
<1>2. 2 \in 0 .. Room(stat) /\ ~IsBlock
  BY Rooms DEF IInv, Types, ReadFits, ReadBytes
<1> QED
  BY <1>1, <1>2, BurstIInv DEF ReadBytes

LEMMA ReadBlockIInv ==
  ASSUME IInv, ReadBlock
  PROVE  IInv'
<1>1. PICK bytes \in Contents(Line[1]), faithful \in BOOLEAN :
        /\ cache' = [cache EXCEPT ![stat].bytes = Put(@, 0, bytes)]
        /\ Hears(bytes, faithful)
  BY DEF ReadBlock
<1>2. Line # <<>> /\ Line[1] \in 0 .. MaxLength /\ IsBlock
  BY DEF IInv, ReadFits, ReadBlock
<1>3. Line[1] \in 0 .. Room(stat)
  BY <1>2, Rooms DEF IInv, Types, IsBlock
<1> QED
  BY <1>1, <1>2, <1>3, BurstIInv DEF ReadBlock

LEMMA ReadLengthIInv ==
  ASSUME IInv, ReadLength
  PROVE  IInv'
<1> USE DEF IInv
<1>1. stat \in Stats
  BY DEF Types
<1>2. PICK n \in Lengths, faithful \in BOOLEAN :
        IF Fits(n)
        THEN Hears(<<n>>, faithful) /\ pc' = "block" /\ UNCHANGED <<bus, cache>>
        ELSE Forget /\ bus' = StopRead(bus) /\ Failed(cache[stat].bytes)
  BY DEF ReadLength
<1>3. CASE Fits(n)
  <2>1. n \in 0 .. MaxLength /\ <<n>> \in Seq(Nat)
    BY <1>3, BytesAreNat, ConstantsAssumption DEF Fits, ConstantsAssumption
  <2>2. /\ heard' \in [Stats -> Seq(Nat)] /\ intact' \in [Stats -> BOOLEAN]
        /\ heard'[stat] = Line \o <<n>>
    BY <1>2, <1>3, <2>1, HearsTyped
  <2>3. Line = <<>> /\ IsBlock
    BY DEF ReadFits, ReadLength
  <2>4. heard'[stat] = <<n>>
    BY <2>1, <2>2, <2>3
  <2>5. Types'
    BY <1>2, <1>3, <2>2 DEF Types, ReadLength
  <2>6. ReadFits'
    BY <1>2, <1>3, <2>1, <2>3, <2>4 DEF ReadFits, Line, IsBlock, ReadLength
  <2>7. CacheFits' /\ ReplyFits'
    BY <1>2, <1>3, SameCache, SameReply DEF ReadLength
  <2> QED
    BY <2>5, <2>6, <2>7
<1>4. CASE ~Fits(n)
  <2>1. DOMAIN cache[stat].bytes = 0 .. Room(stat) - 1
    BY <1>1 DEF CacheFits
  <2>2. CacheFits'
    BY <1>1, <1>2, <1>4, <2>1, FailedFits
  <2>3. heard' \in [Stats -> Seq(Nat)] /\ intact' \in [Stats -> BOOLEAN]
    BY <1>2, <1>4, ForgetTyped
  <2> QED
    BY <1>2, <1>4, <2>2, <2>3, RestIInv DEF ReadLength, Failed, StopRead, Types
<1> QED
  BY <1>3, <1>4

LEMMA ReadCrcIInv ==
  ASSUME IInv, ReadCrc
  PROVE  IInv'
<1> USE DEF IInv
<1>1. stat \in Stats /\ DOMAIN cache[stat].bytes = 0 .. Room(stat) - 1
  BY DEF Types, CacheFits
<1> DEFINE bytes == cache[stat].bytes
           n     == IF IsBlock THEN Line[1] ELSE 2
           m     == IF Type(stat) = "STRING" THEN TextLength(bytes, n) ELSE n
<1>2. n \in 0 .. Room(stat)
  BY <1>1, Rooms DEF ReadFits, ReadCrc, IsBlock
<1>3. m \in 0 .. Room(stat)
  <2>1. n \in Nat
    BY <1>1, <1>2, Rooms
  <2> HIDE DEF n, bytes
  <2>2. TextLength(bytes, n) \in 0 .. n
    BY <2>1, TextLengthIs
  <2> QED
    BY <1>1, <1>2, <2>1, <2>2, Rooms
<1>4. \/ \E faithful \in BOOLEAN : Hears(<<>>, faithful) /\ Succeeded(bytes, m)
      \/ Forget /\ Failed(bytes)
  BY DEF ReadCrc
<1> HIDE DEF m, n
<1>5. CacheFits' /\ pc' = "rest"
  BY <1>1, <1>3, <1>4, SucceededFits, FailedFits DEF Succeeded, Failed
<1>6. heard' \in [Stats -> Seq(Nat)] /\ intact' \in [Stats -> BOOLEAN]
  <2>1. <<>> \in Seq(Nat)
    OBVIOUS
  <2> QED
    BY <1>4, <2>1, HearsTyped, ForgetTyped
<1> QED
  BY <1>5, <1>6, RestIInv DEF ReadCrc, Types
(* The steps of an override leave the cache to the end.                    *)
LEMMA OverrideIInv ==
  ASSUME IInv, ReplyFits', pc' \in {"rest-of-block", "stop"},
         bus' \in {"free", "held"}, ret' \in {"ok", "error"},
         heard' \in [Stats -> Seq(Nat)], intact' \in [Stats -> BOOLEAN],
         UNCHANGED <<updated, override, stat, cache>>
  PROVE  IInv'
<1>1. Types'
  BY DEF IInv, Types
<1>2. ReadFits'
  BY DEF ReadFits
<1>3. CacheFits'
  BY SameCache DEF IInv
<1> QED
  BY <1>1, <1>2, <1>3 DEF IInv

LEMMA ReplaceIInv ==
  ASSUME IInv, Replace
  PROVE  IInv'
<1>1. replyBuf' = Serial \/ replyBuf' = Name
  BY DEF Replace
<1>2. DOMAIN replyBuf' = 0 .. ReplySize - 1 /\ replyBuf'[0] \in Nat
  BY <1>1, SerialFits, NameFits DEF IInv
<1>3. ReplyFits'
  BY <1>2 DEF ReplyFits, Replace
<1> QED
  BY <1>3, OverrideIInv DEF Replace, IInv, Types

LEMMA ModifyReadsLengthIInv ==
  ASSUME IInv, ModifyReadsLength
  PROVE  IInv'
<1> USE DEF IInv
<1>1. PICK n \in Lengths, faithful \in BOOLEAN :
        /\ Hears(<<n>>, faithful)
        /\ replyBuf' = Put(replyBuf, 0, <<n>>)
        /\ IF FitsReply(n)
           THEN pc' = "rest-of-block" /\ UNCHANGED ret
           ELSE pc' = "stop" /\ ret' = "error"
  BY DEF ModifyReadsLength
<1>2. n \in Nat /\ <<n>> \in Seq(Nat) /\ Len(<<n>>) \in 1 .. ReplySize
  BY BytesAreNat, ConstantsAssumption DEF ConstantsAssumption
<1>3. heard' \in [Stats -> Seq(Nat)] /\ intact' \in [Stats -> BOOLEAN]
  BY <1>1, <1>2, HearsTyped
<1>4. DOMAIN replyBuf' = 0 .. ReplySize - 1 /\ replyBuf'[0] = n
  BY <1>1, <1>2, FrontFits
<1>5. ReplyFits'
  BY <1>1, <1>2, <1>4 DEF ReplyFits, FitsReply
<1> QED
  BY <1>1, <1>3, <1>5, OverrideIInv DEF ModifyReadsLength, Types

LEMMA ModifyReadsRestIInv ==
  ASSUME IInv, ModifyReadsRest
  PROVE  IInv'
<1> USE DEF IInv
<1> DEFINE n == replyBuf[0]
           check(bytes, faithful) ==
               IF faithful /\ intact[stat] THEN Crc(stat, bytes, TRUE) ELSE Broken
           received(bytes, faithful) ==
               Put(replyBuf, 1, Append(bytes, check(bytes, faithful)))
<1>1. n \in Nat /\ n + 2 <= ReplySize /\ ReplySize \in Nat
  BY ConstantsAssumption DEF ReplyFits, ModifyReadsRest, ConstantsAssumption
<1>2. PICK bytes \in Contents(n), faithful \in BOOLEAN :
        /\ Hears(bytes, faithful)
        /\ \/ /\ replyBuf' = MitmGenerate(stat, AsToOs(received(bytes, faithful), n), n + 1, TRUE)
              /\ ret' = "ok"
           \/ replyBuf' = received(bytes, faithful) /\ ret' = "error"
  BY DEF ModifyReadsRest
<1>3. bytes \in Seq(Nat) /\ Len(bytes) = n
  BY <1>1, ContentsAre
<1>4. heard' \in [Stats -> Seq(Nat)] /\ intact' \in [Stats -> BOOLEAN]
  BY <1>2, <1>3, HearsTyped
<1>5. PICK stored : stored = received(bytes, faithful)
  OBVIOUS
<1>6. DOMAIN stored = 0 .. ReplySize - 1 /\ stored[0] = n
  <2>1. PICK sent : sent = check(bytes, faithful)
    OBVIOUS
  <2>2. Len(Append(bytes, sent)) = n + 1
    <3> DEFINE S == Nat \cup {sent}
    <3>1. bytes \in Seq(S)
      <4>1. bytes \in [1 .. n -> S]
        BY <1>3, LenProperties
      <4> QED
        BY <1>1, <4>1, SeqDef
    <3>2. sent \in S
      OBVIOUS
    <3> HIDE DEF S
    <3> QED
      BY <1>3, <3>1, <3>2, AppendProperties
  <2>3. stored = Put(replyBuf, 1, Append(bytes, sent))
    BY <1>5, <2>1
  <2> HIDE DEF n
  <2>4. Len(Append(bytes, sent)) \in Nat /\ 1 + Len(Append(bytes, sent)) <= ReplySize
    BY <1>1, <2>2
  <2> USE DEF n
  <2> QED
    BY <2>3, <2>4, BehindFits
<1>7. DOMAIN AsToOs(stored, n) = 0 .. ReplySize - 1 /\ AsToOs(stored, n)[0] = n
  BY <1>1, <1>6 DEF AsToOs
<1>8. DOMAIN replyBuf' = 0 .. ReplySize - 1 /\ replyBuf'[0] = n
  <2>1. CASE replyBuf' = stored
    BY <1>6, <2>1
  <2>2. CASE replyBuf' = MitmGenerate(stat, AsToOs(stored, n), n + 1, TRUE)
    <3>1. PICK sum : replyBuf' = Put(AsToOs(stored, n), n + 1, <<sum>>)
      BY <2>2 DEF MitmGenerate
    <3> DEFINE last == n + 1
               modified == AsToOs(stored, n)
    <3>2. last \in Nat /\ last > 0 /\ last + 1 <= ReplySize
      BY <1>1
    <3>3. replyBuf' = Put(modified, last, <<sum>>)
      BY <3>1
    <3>4. DOMAIN modified = 0 .. ReplySize - 1 /\ modified[0] = n
      BY <1>7
    <3> HIDE DEF last, modified, n
    <3> QED
      BY <3>2, <3>3, <3>4, ChecksumFits
  <2> QED
    BY <1>2, <1>5, <2>1, <2>2
<1>9. ReplyFits'
  BY <1>1, <1>8 DEF ReplyFits, ModifyReadsRest
<1> QED
  BY <1>2, <1>4, <1>9, OverrideIInv DEF ModifyReadsRest, Types

LEMMA ModifyFailsIInv ==
  ASSUME IInv, ModifyFails
  PROVE  IInv'
<1> USE DEF IInv
<1>1. DOMAIN replyBuf' = 0 .. ReplySize - 1 /\ replyBuf'[0] \in Nat
  <2>1. CASE UNCHANGED replyBuf
    BY <2>1 DEF ReplyFits
  <2>2. CASE pc = "rest-of-block" /\ \E n \in 0 .. replyBuf[0] : \E bytes \in Contents(n) :
                replyBuf' = Put(replyBuf, 1, bytes)
    <3>1. PICK n \in 0 .. replyBuf[0] : \E bytes \in Contents(n) :
                replyBuf' = Put(replyBuf, 1, bytes)
      BY <2>2
    <3>2. PICK bytes \in Contents(n) : replyBuf' = Put(replyBuf, 1, bytes)
      BY <3>1
    <3>3. n \in Nat /\ 1 + n <= ReplySize
      BY <2>2, ConstantsAssumption DEF ReplyFits, ConstantsAssumption
    <3>4. Len(bytes) = n
      BY <3>3, ContentsAre
    <3> QED
      BY <3>2, <3>3, <3>4, BehindFits DEF ReplyFits
  <2> QED
    BY <2>1, <2>2 DEF ModifyFails
<1>2. ReplyFits'
  BY <1>1 DEF ReplyFits, ModifyFails
<1>3. heard' \in [Stats -> Seq(Nat)] /\ intact' \in [Stats -> BOOLEAN]
  BY DEF ModifyFails, Types
<1> QED
  BY <1>2, <1>3, OverrideIInv DEF ModifyFails

LEMMA FinishOverrideIInv ==
  ASSUME IInv, FinishOverride
  PROVE  IInv'
<1> USE DEF IInv
<1>1. stat \in Stats /\ DOMAIN cache[stat].bytes = 0 .. Room(stat) - 1
  BY DEF Types, CacheFits
<1>2. CASE ret = "ok" /\ ReadBack(replyBuf)
  <2> DEFINE n == IF IsBlock THEN replyBuf[0] ELSE Room(stat)
             data == Cells(replyBuf, IF IsBlock THEN 1 ELSE 0, n)
             bytes == Put(cache[stat].bytes, 0, data)
  <2>1. n \in 0 .. Room(stat)
    BY <1>1, <1>2, Rooms DEF ReadBack, ReplyFits
  <2>2. Len(data) \in 0 .. Room(stat)
    <3>1. n \in Nat
      BY <1>1, <2>1, Rooms
    <3> HIDE DEF n
    <3>2. Len(data) = n
      BY <3>1, CellsAre
    <3> QED
      BY <2>1, <3>2
  <2>3. Succeeded(bytes, n) /\ UNCHANGED <<heard, intact>>
    BY <1>2 DEF FinishOverride
  <2> HIDE DEF data, n
  <2>4. DOMAIN bytes = 0 .. Room(stat) - 1
    BY <1>1, <2>2, BytesFit
  <2> HIDE DEF bytes
  <2>5. CacheFits'
    BY <1>1, <2>1, <2>3, <2>4, SucceededFits
  <2> QED
    BY <2>3, <2>5, RestIInv DEF FinishOverride, Succeeded, StopRead, Types
<1>3. CASE ~(ret = "ok" /\ ReadBack(replyBuf))
  <2>1. Forget /\ Failed(cache[stat].bytes)
    BY <1>3 DEF FinishOverride
  <2>2. CacheFits'
    BY <1>1, <2>1, FailedFits
  <2>3. heard' \in [Stats -> Seq(Nat)] /\ intact' \in [Stats -> BOOLEAN]
    BY <2>1, ForgetTyped
  <2> QED
    BY <2>1, <2>2, <2>3, RestIInv DEF FinishOverride, Failed, StopRead, Types
<1> QED
  BY <1>2, <1>3

LEMMA NextIInv == IInv /\ [Next]_vars => IInv'
<1>1. IInv /\ Next => IInv'
  BY BeginIInv, WriteCmdIInv, TransferFailsIInv, ReadBytesIInv, ReadLengthIInv, ReadBlockIInv,
     ReadCrcIInv, ReplaceIInv, ModifyReadsLengthIInv, ModifyReadsRestIInv, ModifyFailsIInv,
     FinishOverrideIInv DEF Next
<1>2. IInv /\ UNCHANGED vars => IInv'
  BY DEF IInv, Types, CacheFits, Entry, ReadFits, ReplyFits, Line, IsBlock, vars
<1> QED
  BY <1>1, <1>2

-----------------------------------------------------------------------------
(* Every variable keeps its type: of each stat, the length never passes    *)
(* the room the stat has, and the history holds bytes (smbus.c:94-174).    *)
THEOREM TypeCorrect == Spec => []TypeOK
<1>1. IInv => TypeOK
  BY IInvSuffices
<1> QED
  BY <1>1, InitIInv, NextIInv, PTL DEF Spec

(* No length the battery sends and no override writes past the end of      *)
(* mitm_reply_buffer or of a stat's bytes, for buffers of any size         *)
(* (smbus.c:137-150, mitm.c:360-386, config_override.h).                   *)
THEOREM NoOverrunHolds == Spec => []NoOverrun
<1>1. IInv => NoOverrun
  BY IInvSuffices
<1> QED
  BY <1>1, InitIInv, NextIInv, PTL DEF Spec

(* A read that is over has released the battery's bus, whichever of its    *)
(* transfers was refused and wherever it gave up (smbus.c:100-174).        *)
THEOREM BusReleasedHolds == Spec => []BusReleased
<1> DEFINE Free == pc \in {"rest", "write"} => bus = "free"
<1>1. Init => Free
  BY DEF Init
<1>2. Free /\ [Next]_vars => Free'
  BY DEF Next, vars, Begin, WriteCmd, TransferFails, ReadBytes, ReadLength, ReadBlock,
     ReadCrc, Replace, ModifyReadsLength, ModifyReadsRest, ModifyFails, FinishOverride, Failed,
     Succeeded, StopRead
<1>3. Free => BusReleased
  BY DEF BusReleased
<1> QED
  BY <1>1, <1>2, <1>3, PTL DEF Spec

-----------------------------------------------------------------------------
(* Checksums.  A code is defined by recursion over the bytes; that there   *)
(* is such a function, and that it yields numbers, takes induction up to   *)
(* the number of bytes.                                                    *)
LEMMA UpTo ==
  ASSUME NEW n \in Nat, NEW S, 0 \in S, \A i \in 0 .. n - 1 : i \in S => i + 1 \in S
  PROVE  0 .. n \subseteq S
<1> DEFINE out == {i \in 0 .. n : i \notin S}
<1>1. CASE out = {}
  BY <1>1
<1>2. CASE out # {}
  <2>1. out \subseteq Nat
    OBVIOUS
  <2>2. PICK i \in out : \A j \in out : i <= j
    BY <1>2, <2>1, Least
  <2>3. i \in 0 .. n /\ i \notin S /\ i # 0
    OBVIOUS
  <2>4. i - 1 \in 0 .. n - 1 /\ i - 1 \in 0 .. n /\ ~(i <= i - 1) /\ (i - 1) + 1 = i
    BY <2>3
  <2>5. i - 1 \in S
    BY <2>2, <2>4
  <2> QED
    BY <2>3, <2>4, <2>5
<1> QED
  BY <1>1, <1>2

(* Maps of a set to itself, one applied after the other: there is a        *)
(* function of what they yield, which is what a recursive definition needs.*)
Maps(T, n, D) == \A i \in 1 .. n : T[i] \in [D -> D]

Applied(f, n, a, T, D) ==
    /\ f \in [0 .. n -> D]
    /\ f[0] = a
    /\ \A i \in 1 .. n : f[i] = T[i][f[i - 1]]

LEMMA Recursion ==
  ASSUME NEW n \in Nat, NEW D, NEW a \in D, NEW T, Maps(T, n, D)
  PROVE  \E f : Applied(f, n, a, T, D)
<1> DEFINE Made(m, f) == /\ f \in [0 .. m -> D]
                         /\ f[0] = a /\ \A i \in 1 .. m : f[i] = T[i][f[i - 1]]
           S == {m \in Nat : \E f : Made(m, f)}
<1>1. 0 \in S
  <2> DEFINE f == [i \in 0 .. 0 |-> a]
  <2>1. Made(0, f)
    OBVIOUS
  <2> HIDE DEF Made, f
  <2> QED
    BY <2>1
<1>2. ASSUME NEW m \in 0 .. n - 1, m \in S PROVE m + 1 \in S
  <2>1. PICK f : Made(m, f)
    BY <1>2
  <2>0. \A i \in 1 .. n : T[i] \in [D -> D]
    BY DEF Maps
  <2>2. m \in Nat /\ m + 1 \in Nat /\ m + 1 \in 1 .. n
    OBVIOUS
  <2> DEFINE last == T[m + 1][f[m]]
             g == [i \in 0 .. m + 1 |-> IF i \in 0 .. m THEN f[i] ELSE last]
  <2>3. last \in D
    <3>1. f[m] \in D
      BY <2>1, <2>2
    <3>2. T[m + 1] \in [D -> D]
      BY <2>0, <2>2
    <3> QED
      BY <3>1, <3>2
  <2>4. g \in [0 .. m + 1 -> D]
    <3>1. \A i \in 0 .. m : f[i] \in D
      BY <2>1
    <3> HIDE DEF last
    <3> QED
      BY <2>3, <3>1
  <2>5. ASSUME NEW i \in 1 .. m + 1 PROVE g[i] = T[i][g[i - 1]]
    <3>1. i \in 0 .. m + 1 /\ i - 1 \in 0 .. m /\ i - 1 \in 0 .. m + 1
      BY <2>2
    <3>2. g[i - 1] = f[i - 1]
      BY <3>1
    <3>3. CASE i \in 1 .. m
      <4>1. g[i] = f[i]
        BY <3>1, <3>3
      <4>2. f[i] = T[i][f[i - 1]]
        BY <2>1, <3>3
      <4> QED
        BY <3>2, <4>1, <4>2, Zenon
    <3>4. CASE i = m + 1
      <4>1. i - 1 = m /\ i \notin 0 .. m
        BY <2>2, <3>4
      <4>2. g[i] = last
        BY <3>1, <4>1
      <4> QED
        BY <3>2, <3>4, <4>1, <4>2, Zenon
    <3> QED
      BY <2>2, <3>3, <3>4
  <2>6. g[0] = a
    BY <2>1, <2>2
  <2>7. Made(m + 1, g)
    BY <2>4, <2>5, <2>6
  <2> HIDE DEF Made, g
  <2> QED
    BY <2>2, <2>7
<1>3. n \in S
  <2> HIDE DEF S
  <2>1. 0 .. n \subseteq S
    BY <1>1, <1>2, UpTo
  <2> QED
    BY <2>1
<1>4. \E f : Made(n, f)
  BY <1>3
<1> QED
  BY <1>4 DEF Applied

LEMMA BaseIsNat == Base \in Nat
<1> DEFINE V == Value \cup Lengths
           above == {k \in 0 .. 99 : 99 - k \in V}
<1>1. V \subseteq 0 .. 99 /\ 0 \in V
  BY ConstantsAssumption DEF ConstantsAssumption, Broken, NUL
<1> HIDE DEF V
<1>2. above \subseteq Nat /\ above # {}
  <2>1. 99 \in 0 .. 99 /\ 99 - 99 = 0
    OBVIOUS
  <2>2. 99 \in above
    BY <1>1, <2>1
  <2> QED
    BY <2>2
<1>3. PICK k \in above : \A j \in above : k <= j
  BY <1>2, Least
<1>4. 99 - k \in V /\ k \in 0 .. 99
  OBVIOUS
<1>5. ASSUME NEW m \in V PROVE m <= 99 - k
  <2>1. m \in 0 .. 99 /\ 99 - m \in 0 .. 99 /\ 99 - (99 - m) = m
    BY <1>1
  <2>2. 99 - m \in above
    BY <2>1
  <2>3. k <= 99 - m
    BY <1>3, <2>2
  <2> HIDE DEF above
  <2> QED
    BY <1>4, <2>1, <2>3
<1>6. PICK top : top = CHOOSE n \in V : \A m \in V : m <= n
  OBVIOUS
<1>7. top \in V
  BY <1>4, <1>5, <1>6
<1>8. top \in Nat
  BY <1>1, <1>7
<1> QED
  BY <1>6, <1>8 DEF Base, V

LEMMA MappingsCounted ==
  ASSUME NEW s \in Stats
  PROVE  Cardinality(Mappings(s)) \in Nat
<1>1. IsFiniteSet({}) /\ IsFiniteSet({"none"}) /\ IsFiniteSet({"serial"}) /\ IsFiniteSet({"name"})
      /\ IsFiniteSet({"modify"})
  BY FS_EmptySet, FS_Singleton
<1>2. {"name", "modify"} = {"name"} \cup {"modify"}
  OBVIOUS
<1>3. IsFiniteSet({"name", "modify"})
  BY <1>1, <1>2, FS_Union
<1>4. \/ Mappings(s) = {"none"} \cup {"serial"}
      \/ Mappings(s) = {"none"} \cup {"name", "modify"}
      \/ Mappings(s) = {"none"} \cup {}
  <2>1. s \in {"SERIAL_NUMBER", "MANUFACTURER_NAME", "MANUFACTURER_DATA"}
    BY ConstantsAssumption DEF ConstantsAssumption
  <2> QED
    BY <2>1 DEF Mappings
<1>5. IsFiniteSet(Mappings(s))
  BY <1>1, <1>3, <1>4, FS_Union
<1> QED
  BY <1>5, FS_CardinalityType

(* What a code is at each byte, and that there are such functions.         *)
Coded(f, n, seed, bytes) ==
    f = [i \in 0 .. n |-> IF i = 0 THEN seed ELSE Base * f[i - 1] + bytes[i]]

LEMMA CodeExists ==
  ASSUME NEW seed \in Nat, NEW bytes \in Seq(Nat)
  PROVE  \E f : Coded(f, Len(bytes), seed, bytes)
<1> DEFINE T == [i \in 1 .. Len(bytes) |-> [d \in Nat |-> Base * d + bytes[i]]]
<1>1. Len(bytes) \in Nat /\ \A i \in 1 .. Len(bytes) : bytes[i] \in Nat
  BY LenProperties, ElementOfSeq
<1>2. ASSUME NEW i \in 1 .. Len(bytes), NEW d \in Nat PROVE T[i][d] = Base * d + bytes[i] /\ T[i][d] \in Nat
  <2>1. \A x, y, z \in Nat : x * y + z \in Nat
    OBVIOUS
  <2> QED
    BY <1>1, <2>1, BaseIsNat
<1>3. Maps(T, Len(bytes), Nat)
  BY <1>2 DEF Maps
<1> HIDE DEF T
<1>4. \E f : Applied(f, Len(bytes), seed, T, Nat)
  BY <1>1, <1>3, Recursion
<1>5. PICK f \in [0 .. Len(bytes) -> Nat] :
         f[0] = seed /\ \A i \in 1 .. Len(bytes) : f[i] = T[i][f[i - 1]]
  BY <1>4, Zenon DEF Applied
<1>6. ASSUME NEW i \in 0 .. Len(bytes)
      PROVE  f[i] = IF i = 0 THEN seed ELSE Base * f[i - 1] + bytes[i]
  <2>1. CASE i = 0
    BY <1>5, <2>1
  <2>2. CASE i # 0
    <3>1. i \in 1 .. Len(bytes) /\ i - 1 \in 0 .. Len(bytes)
      BY <1>1, <2>2
    <3>2. f[i - 1] \in Nat
      BY <3>1
    <3>3. f[i] = Base * f[i - 1] + bytes[i]
      BY <1>2, <1>5, <3>1, <3>2
    <3> QED
      BY <2>2, <3>3
  <2> QED
    BY <2>1, <2>2
<1>7. f = [i \in 0 .. Len(bytes) |-> IF i = 0 THEN seed ELSE Base * f[i - 1] + bytes[i]]
  BY <1>6
<1> QED
  BY <1>7 DEF Coded

LEMMA CodeIsNat ==
  ASSUME NEW seed \in Nat, NEW bytes \in Seq(Nat), NEW f, Coded(f, Len(bytes), seed, bytes)
  PROVE  f[Len(bytes)] \in Nat
<1> DEFINE S == {n \in 0 .. Len(bytes) : f[n] \in Nat}
<1>1. Len(bytes) \in Nat /\ \A i \in 1 .. Len(bytes) : bytes[i] \in Nat
  BY LenProperties, ElementOfSeq
<1>2. \A i \in 0 .. Len(bytes) :
          f[i] = IF i = 0 THEN seed ELSE Base * f[i - 1] + bytes[i]
  BY DEF Coded
<1>3. 0 \in S
  BY <1>1, <1>2
<1>4. ASSUME NEW n \in 0 .. Len(bytes) - 1, n \in S PROVE n + 1 \in S
  <2>1. n + 1 \in 0 .. Len(bytes) /\ n + 1 # 0 /\ (n + 1) - 1 = n /\ n + 1 \in 1 .. Len(bytes)
    BY <1>1
  <2>2. f[n + 1] = Base * f[n] + bytes[n + 1]
    BY <1>2, <2>1
  <2>3. f[n] \in Nat /\ bytes[n + 1] \in Nat
    BY <1>1, <1>4, <2>1
  <2>4. \A x, y, z \in Nat : x * y + z \in Nat
    OBVIOUS
  <2>5. f[n + 1] \in Nat
    BY <2>2, <2>3, <2>4, BaseIsNat
  <2> QED
    BY <2>1, <2>5
<1> HIDE DEF S
<1>5. 0 .. Len(bytes) \subseteq S
  BY <1>1, <1>3, <1>4, UpTo
<1> QED
  BY <1>1, <1>5 DEF S

(* Whatever it is the checksum of, a good one is not a broken one.         *)
LEMMA GoodIsNotBroken ==
  ASSUME NEW s \in Stats, NEW bytes \in Seq(Nat), NEW block \in BOOLEAN
  PROVE  Crc(s, bytes, block) \in Nat /\ Crc(s, bytes, block) # Broken
<1> DEFINE seed == Cardinality(Mappings(s)) * 2 + IF block THEN 1 ELSE 0
           code[n \in 0 .. Len(bytes)] ==
               IF n = 0 THEN seed ELSE Base * code[n - 1] + bytes[n]
<1>1. Crc(s, bytes, block) = Broken + 1 + code[Len(bytes)]
  BY DEF Crc
<1>2. seed \in Nat
  BY MappingsCounted
<1>3. code = CHOOSE f : f = [n \in 0 .. Len(bytes) |->
                                IF n = 0 THEN seed ELSE Base * f[n - 1] + bytes[n]]
  OBVIOUS
<1> HIDE DEF code, seed
<1>4. code = CHOOSE f : Coded(f, Len(bytes), seed, bytes)
  BY <1>3 DEF Coded
<1>5. Coded(code, Len(bytes), seed, bytes)
  BY <1>2, <1>4, CodeExists
<1>6. code[Len(bytes)] \in Nat
  BY <1>2, <1>5, CodeIsNat
<1> QED
  BY <1>1, <1>6 DEF Broken
-----------------------------------------------------------------------------
(* What was heard, on its way into the cache and the reply buffer.  An     *)
(* override is one its command can be mapped to.                           *)
Mapped == \A s \in Stats : override[s] \in Mappings(s)

Routed ==
    /\ pc \in {"bytes", "length", "block", "crc"} => override[stat] = "none"
    /\ pc \in {"override", "stop"} => override[stat] # "none"
    /\ pc = "rest-of-block" => override[stat] = "modify"

(* The length byte of a block is heard, and not stored.                    *)
Prefix == IF IsBlock THEN 1 ELSE 0
Count == IF IsBlock THEN Line[1] ELSE 2

Copied ==
    /\ pc = "block" => Len(Line) = 1
    /\ pc = "crc" =>
          /\ Len(Line) = Prefix + Count
          /\ \A k \in 1 .. Count : cache[stat].bytes[k - 1] = Line[Prefix + k]

(* The reply an override that succeeded has left, its checksum apart.      *)
Holds ==
    /\ override[stat] = "serial" => replyBuf[0] = O /\ replyBuf[1] = A
    /\ override[stat] = "name" => replyBuf[0] = 2 /\ replyBuf[1] = O /\ replyBuf[2] = NUL
    /\ override[stat] = "modify" =>
          /\ Len(Line) = 1 + Line[1] /\ replyBuf[0] = Line[1]
          /\ \A k \in 1 .. Line[1] : replyBuf[k] = IF Line[k + 1] = A THEN O ELSE Line[k + 1]

Replied ==
    /\ pc = "override" => intact[stat]
    /\ pc = "rest-of-block" => Len(Line) = 1 /\ Line[1] = replyBuf[0]
    /\ pc = "stop" /\ ret = "ok" => intact[stat] /\ Holds

Underway == Mapped /\ Routed /\ Copied /\ Replied

Actual(s) == cache[s].valid => intact[s] /\ Result(s) = Meaning(s)

LEMMA InitUnderway == Init => Underway /\ ValidMeansReply
<1> SUFFICES ASSUME Init PROVE Underway /\ ValidMeansReply
  OBVIOUS
<1>1. Mapped
  BY DEF Init, Mapped, Mappings
<1>2. Routed /\ Copied /\ Replied
  BY DEF Init, Routed, Copied, Replied
<1>3. \A s \in Stats : ~cache[s].valid
  BY DEF Init
<1> QED
  BY <1>1, <1>2, <1>3 DEF Underway, ValidMeansReply

LEMMA MappedNext == Mapped /\ [Next]_vars => Mapped'
  BY DEF Mapped, Mappings, Next, vars, Begin, WriteCmd, TransferFails, ReadBytes, ReadLength,
     ReadBlock, ReadCrc, Replace, ModifyReadsLength, ModifyReadsRest, ModifyFails, FinishOverride

LEMMA RoutedNext == Routed /\ [Next]_vars => Routed'
<1> SUFFICES ASSUME Routed, [Next]_vars PROVE Routed'
  OBVIOUS
<1>1. CASE (\E s \in Stats : Begin(s)) \/ WriteCmd \/ UNCHANGED vars
  BY <1>1 DEF Routed, Begin, WriteCmd, Failed, vars
<1>2. CASE TransferFails \/ ReadBytes \/ ReadLength \/ ReadBlock \/ ReadCrc
  BY <1>2 DEF Routed, TransferFails, ReadBytes, ReadLength, ReadBlock, ReadCrc, Failed, Succeeded
<1>3. CASE Replace \/ ModifyReadsLength \/ ModifyReadsRest \/ ModifyFails \/ FinishOverride
  BY <1>3 DEF Routed, Replace, ModifyReadsLength, ModifyReadsRest, ModifyFails, FinishOverride,
     Failed, Succeeded
<1> QED
  BY <1>1, <1>2, <1>3 DEF Next

(* What is stored is there.                                                *)
LEMMA PutCells ==
  ASSUME NEW array, NEW at \in Nat, NEW bytes, Len(bytes) \in Nat,
         NEW i \in at .. at + Len(bytes) - 1
  PROVE  Put(array, at, bytes)[i] = bytes[i - at + 1]
BY DEF Put

LEMMA CellsOfPut ==
  ASSUME NEW array, NEW n \in Nat, NEW data, Len(data) = n, data = [k \in 1 .. n |-> data[k]]
  PROVE  Cells(Put(array, 0, data), 0, n) = data
<1>1. ASSUME NEW k \in 1 .. n PROVE Put(array, 0, data)[0 + k - 1] = data[k]
  <2>1. PICK i \in 0 .. 0 + Len(data) - 1 : i = k - 1 /\ i = 0 + k - 1 /\ i - 0 + 1 = k
    OBVIOUS
  <2>2. Put(array, 0, data)[i] = data[i - 0 + 1]
    BY PutCells
  <2> QED
    BY <2>1, <2>2
<1>2. Cells(Put(array, 0, data), 0, n) = [k \in 1 .. n |-> Put(array, 0, data)[0 + k - 1]]
  BY DEF Cells
<1> QED
  BY <1>1, <1>2, Zenon

LEMMA HearsIs ==
  ASSUME IInv, NEW bytes \in Seq(Nat), NEW faithful \in BOOLEAN, Hears(bytes, faithful)
  PROVE  /\ Line \in Seq(Nat) /\ Len(Line) \in Nat /\ heard'[stat] = Line \o bytes
         /\ Len(heard'[stat]) = Len(Line) + Len(bytes) /\ Len(bytes) \in Nat
         /\ \A k \in 1 .. Len(Line) : heard'[stat][k] = Line[k]
         /\ \A k \in 1 .. Len(bytes) : heard'[stat][Len(Line) + k] = bytes[k]
         /\ intact'[stat] = (intact[stat] /\ faithful)
<1>1. Line \in Seq(Nat) /\ heard'[stat] = Line \o bytes
  BY HearsTyped DEF IInv, Types, Line
<1>2. /\ Len(Line) \in Nat /\ Len(bytes) \in Nat
      /\ Len(Line \o bytes) = Len(Line) + Len(bytes)
      /\ \A k \in 1 .. Len(Line) + Len(bytes) :
            (Line \o bytes)[k] = IF k <= Len(Line) THEN Line[k] ELSE bytes[k - Len(Line)]
  BY <1>1, ConcatProperties, LenProperties
<1>3. ASSUME NEW k \in 1 .. Len(bytes) PROVE (Line \o bytes)[Len(Line) + k] = bytes[k]
  <2>1. Len(Line) + k \in 1 .. Len(Line) + Len(bytes) /\ ~(Len(Line) + k <= Len(Line))
        /\ (Len(Line) + k) - Len(Line) = k
    BY <1>2
  <2> QED
    BY <1>2, <2>1
<1>4. ASSUME NEW k \in 1 .. Len(Line) PROVE (Line \o bytes)[k] = Line[k]
  BY <1>2
<1>5. intact'[stat] = (intact[stat] /\ faithful)
  BY DEF IInv, Types, Hears
<1> QED
  BY <1>1, <1>2, <1>3, <1>4, <1>5

(* A burst into the cache.                                                 *)
LEMMA BurstCopied ==
  ASSUME IInv, NEW n \in Nat, NEW bytes \in Contents(n), NEW faithful \in BOOLEAN,
         cache' = [cache EXCEPT ![stat].bytes = Put(@, 0, bytes)],
         Hears(bytes, faithful), stat' = stat, pc' = "crc",
         Len(Line) = Prefix, n = Count
  PROVE  Copied'
<1>1. bytes \in Seq(Nat) /\ Len(bytes) = n
  BY ContentsAre
<1>2. /\ Len(heard'[stat]) = Prefix + n
      /\ IsBlock => heard'[stat][1] = Line[1]
      /\ \A k \in 1 .. n : heard'[stat][Prefix + k] = bytes[k]
  BY <1>1, HearsIs DEF Prefix
<1>3. Prefix' = Prefix /\ Count' = n /\ Line' = heard'[stat]
  BY <1>2 DEF Prefix, Count, IsBlock, Line
<1>4. cache'[stat].bytes = Put(cache[stat].bytes, 0, bytes)
  BY DEF IInv, CacheFits, Types, Entry
<1>5. ASSUME NEW k \in 1 .. n PROVE cache'[stat].bytes[k - 1] = bytes[k]
  <2>1. k - 1 \in 0 .. 0 + Len(bytes) - 1 /\ (k - 1) - 0 + 1 = k
    BY <1>1
  <2>2. Put(cache[stat].bytes, 0, bytes)[k - 1] = bytes[(k - 1) - 0 + 1]
    BY <1>1, <2>1, PutCells
  <2> QED
    BY <1>4, <2>1, <2>2
<1> QED
  BY <1>2, <1>3, <1>5 DEF Copied

LEMMA CopiedNext == IInv /\ Copied /\ [Next]_vars => Copied'
<1> SUFFICES ASSUME IInv, Copied, [Next]_vars PROVE Copied'
  OBVIOUS
<1>1. CASE ReadLength
  <2>1. PICK n \in Lengths, faithful \in BOOLEAN :
          IF Fits(n)
          THEN Hears(<<n>>, faithful) /\ pc' = "block" /\ UNCHANGED <<bus, cache>>
          ELSE Forget /\ bus' = StopRead(bus) /\ Failed(cache[stat].bytes)
    BY <1>1 DEF ReadLength
  <2>2. CASE Fits(n)
    <3>1. <<n>> \in Seq(Nat) /\ Len(<<n>>) = 1
      BY BytesAreNat
    <3>2. Len(heard'[stat]) = Len(Line) + 1
      BY <2>1, <2>2, <3>1, HearsIs
    <3>3. Line = <<>> /\ stat' = stat
      BY <1>1 DEF IInv, ReadFits, ReadLength
    <3> QED
      BY <2>1, <2>2, <3>2, <3>3 DEF Copied, Line
  <2>3. CASE ~Fits(n)
    BY <2>1, <2>3 DEF Failed, Copied
  <2> QED
    BY <2>2, <2>3
<1>2. CASE ReadBytes
  <2>1. PICK bytes \in Contents(2), faithful \in BOOLEAN :
          /\ cache' = [cache EXCEPT ![stat].bytes = Put(@, 0, bytes)]
          /\ Hears(bytes, faithful)
    BY <1>2 DEF ReadBytes
  <2>2. Len(Line) = Prefix /\ 2 = Count
    BY <1>2 DEF IInv, ReadFits, ReadBytes, Prefix, Count
  <2> QED
    BY <1>2, <2>1, <2>2, BurstCopied DEF ReadBytes
<1>3. CASE ReadBlock
  <2>1. PICK bytes \in Contents(Line[1]), faithful \in BOOLEAN :
          /\ cache' = [cache EXCEPT ![stat].bytes = Put(@, 0, bytes)]
          /\ Hears(bytes, faithful)
    BY <1>3 DEF ReadBlock
  <2>2. Line[1] \in Nat /\ IsBlock /\ Len(Line) = 1
    BY <1>3, ConstantsAssumption DEF ConstantsAssumption, IInv, ReadFits, ReadBlock, Copied
  <2>3. Len(Line) = Prefix /\ Line[1] = Count
    BY <2>2 DEF Prefix, Count
  <2> QED
    BY <1>3, <2>1, <2>2, <2>3, BurstCopied DEF ReadBlock
<1>4. CASE (\E s \in Stats : Begin(s)) \/ WriteCmd
  BY <1>4 DEF Copied, Begin, WriteCmd, Failed
<1>5. CASE TransferFails \/ ReadCrc \/ FinishOverride
  BY <1>5 DEF Copied, TransferFails, ReadCrc, FinishOverride, Failed, Succeeded
<1>6. CASE Replace \/ ModifyReadsLength \/ ModifyReadsRest \/ ModifyFails
  BY <1>6 DEF Copied, Replace, ModifyReadsLength, ModifyReadsRest, ModifyFails
<1>7. CASE UNCHANGED vars
  BY <1>7 DEF Copied, vars, Prefix, Count, IsBlock, Line
<1> QED
  BY <1>1, <1>2, <1>3, <1>4, <1>5, <1>6, <1>7 DEF Next

-----------------------------------------------------------------------------
(* The reply buffer.  An array of the buffer's size keeps what is before a *)
(* checksum that is stored in it.                                          *)
LEMMA ChecksumBehind ==
  ASSUME NEW buffer, DOMAIN buffer = 0 .. ReplySize - 1, NEW at \in Nat, at + 1 <= ReplySize,
         NEW check
  PROVE  \A i \in Nat : i < at => Put(buffer, at, <<check>>)[i] = buffer[i]
<1> DEFINE bytes == <<check>>
<1>1. Len(bytes) \in Nat /\ at + Len(bytes) <= ReplySize
  OBVIOUS
<1>2. ReplySize \in Nat /\ \A i \in Nat : i < at => i \in 0 .. ReplySize - 1
  BY ConstantsAssumption DEF ConstantsAssumption
<1> HIDE DEF bytes
<1>3. \A i \in 0 .. ReplySize - 1 : i < at => Put(buffer, at, bytes)[i] = buffer[i]
  BY <1>1, <1>2, PutWithin
<1>4. \A i \in Nat : i < at => Put(buffer, at, bytes)[i] = buffer[i]
  BY <1>2, <1>3
<1> QED
  BY <1>4 DEF bytes

LEMMA SerialHolds ==
  ASSUME IInv
  PROVE  Serial[0] = O /\ Serial[1] = A
<1> DEFINE buffer == Put(replyBuf, 0, CustomSerial)
<1>1. Len(CustomSerial) = 2 /\ CustomSerial[1] = O /\ CustomSerial[2] = A
  BY DEF CustomSerial
<1>2. ReplySize \in Nat /\ ReplySize >= 4
  BY ConstantsAssumption DEF ConstantsAssumption
<1>3. Len(CustomSerial) \in 1 .. ReplySize /\ 2 \in Nat /\ 2 + 1 <= ReplySize
  BY <1>1, <1>2
<1>4. DOMAIN buffer = 0 .. ReplySize - 1
  BY <1>3, FrontFits DEF IInv
<1>5. buffer[0] = O /\ buffer[1] = A
  <2>1. 0 \in 0 .. 0 + Len(CustomSerial) - 1 /\ 1 \in 0 .. 0 + Len(CustomSerial) - 1
        /\ 0 - 0 + 1 = 1 /\ 1 - 0 + 1 = 2
    BY <1>1
  <2> QED
    BY <1>1, <2>1, PutCells
<1>6. PICK check : Serial = Put(buffer, 2, <<check>>)
  BY DEF Serial, MitmGenerate
<1>7. 0 \in Nat /\ 0 < 2 /\ 1 \in Nat /\ 1 < 2
  OBVIOUS
<1> HIDE DEF buffer
<1>8. \A i \in Nat : i < 2 => Serial[i] = buffer[i]
  BY <1>3, <1>4, <1>6, ChecksumBehind
<1> QED
  BY <1>5, <1>6, <1>7, <1>8

LEMMA NameHolds ==
  ASSUME IInv
  PROVE  Name[0] = 2 /\ Name[1] = O /\ Name[2] = NUL
<1> DEFINE bytes == <<Len(CustomName)>> \o CustomName
           buffer == Put(replyBuf, 0, bytes)
<1>1. Len(CustomName) = 2 /\ Len(bytes) = 3 /\ bytes[1] = 2 /\ bytes[2] = O /\ bytes[3] = NUL
  BY DEF CustomName
<1>2. ReplySize \in Nat /\ ReplySize >= 4
  BY ConstantsAssumption DEF ConstantsAssumption
<1>3. Name = MitmGenerate(stat, buffer, 3, TRUE)
  BY <1>1 DEF Name, bytes
<1> HIDE DEF bytes
<1>4. Len(bytes) \in 1 .. ReplySize /\ 3 \in Nat /\ 3 + 1 <= ReplySize
  BY <1>1, <1>2
<1>5. DOMAIN buffer = 0 .. ReplySize - 1
  BY <1>4, FrontFits DEF IInv
<1>6. buffer[0] = 2 /\ buffer[1] = O /\ buffer[2] = NUL
  <2>1. /\ 0 \in 0 .. 0 + Len(bytes) - 1 /\ 1 \in 0 .. 0 + Len(bytes) - 1
        /\ 2 \in 0 .. 0 + Len(bytes) - 1 /\ 0 - 0 + 1 = 1 /\ 1 - 0 + 1 = 2 /\ 2 - 0 + 1 = 3
    BY <1>1
  <2> QED
    BY <1>1, <2>1, PutCells
<1>7. PICK check : Name = Put(buffer, 3, <<check>>)
  BY <1>3 DEF MitmGenerate
<1>8. 0 \in Nat /\ 0 < 3 /\ 1 \in Nat /\ 1 < 3 /\ 2 \in Nat /\ 2 < 3
  OBVIOUS
<1> HIDE DEF buffer
<1>9. \A i \in Nat : i < 3 => Name[i] = buffer[i]
  BY <1>4, <1>5, <1>7, ChecksumBehind
<1> QED
  BY <1>6, <1>7, <1>8, <1>9

LEMMA ReplaceReplied ==
  ASSUME IInv, Replied, Replace
  PROVE  Replied'
<1>1. /\ pc' = "stop" /\ intact'[stat'] /\ override' = override /\ stat' = stat
      /\ \/ override[stat] = "serial" /\ replyBuf' = Serial
         \/ override[stat] = "name" /\ replyBuf' = Name
  BY DEF Replied, Replace
<1>2. Holds'
  BY <1>1, SerialHolds, NameHolds DEF Holds
<1> QED
  BY <1>1, <1>2 DEF Replied

LEMMA ModifyReadsLengthReplied ==
  ASSUME IInv, Replied, ModifyReadsLength
  PROVE  Replied'
<1>1. PICK n \in Lengths, faithful \in BOOLEAN :
        /\ Hears(<<n>>, faithful)
        /\ replyBuf' = Put(replyBuf, 0, <<n>>)
        /\ IF FitsReply(n)
           THEN pc' = "rest-of-block" /\ UNCHANGED ret
           ELSE pc' = "stop" /\ ret' = "error"
  BY DEF ModifyReadsLength
<1>2. Line = <<>> /\ stat' = stat
  BY DEF IInv, ReadFits, ModifyReadsLength
<1>3. <<n>> \in Seq(Nat) /\ Len(<<n>>) = 1 /\ <<n>>[1] = n /\ Len(<<n>>) \in 1 .. ReplySize
  BY BytesAreNat, ConstantsAssumption DEF ConstantsAssumption
<1>4. heard'[stat] = Line \o <<n>>
  BY <1>1, <1>3, HearsIs
<1>5. heard'[stat] = <<n>>
  BY <1>2, <1>3, <1>4
<1>6. replyBuf'[0] = n
  BY <1>1, <1>3, FrontFits DEF IInv
<1> QED
  BY <1>1, <1>2, <1>3, <1>5, <1>6 DEF Replied, Line

(* A reply that passes the validation came as the battery sent it.         *)
LEMMA ModifyReadsRestReplied ==
  ASSUME IInv, Routed, Replied, ModifyReadsRest
  PROVE  Replied'
<1>1. PICK n \in Nat : n = replyBuf[0]
  BY DEF IInv, ReplyFits
<1>2. /\ n + 2 <= ReplySize /\ ReplySize \in Nat
      /\ Len(Line) = 1 /\ Line[1] = n /\ override[stat] = "modify"
      /\ stat' = stat /\ override' = override /\ pc' = "stop"
  BY <1>1, ConstantsAssumption
     DEF ConstantsAssumption, IInv, ReplyFits, Replied, Routed, ModifyReadsRest
<1>3. PICK bytes \in Contents(n), faithful \in BOOLEAN :
        LET check == IF faithful /\ intact[stat] THEN Crc(stat, bytes, TRUE) ELSE Broken
            received == Put(replyBuf, 1, Append(bytes, check))
            modified == AsToOs(received, n)
        IN  /\ Hears(bytes, faithful)
            /\ IF MitmValidate(stat, received, n + 1, TRUE)
               THEN replyBuf' = MitmGenerate(stat, modified, n + 1, TRUE) /\ ret' = "ok"
               ELSE replyBuf' = received /\ ret' = "error"
  BY <1>1 DEF ModifyReadsRest
<1> DEFINE c == IF faithful /\ intact[stat] THEN Crc(stat, bytes, TRUE) ELSE Broken
<1>4. PICK check : check = c
  OBVIOUS
<1>5. PICK received : received = Put(replyBuf, 1, Append(bytes, check))
  OBVIOUS
<1>6. /\ Hears(bytes, faithful)
      /\ IF MitmValidate(stat, received, n + 1, TRUE)
         THEN replyBuf' = MitmGenerate(stat, AsToOs(received, n), n + 1, TRUE) /\ ret' = "ok"
         ELSE replyBuf' = received /\ ret' = "error"
  BY <1>3, <1>4, <1>5
<1>7. bytes \in Seq(Nat) /\ Len(bytes) = n /\ \A k \in 1 .. n : bytes[k] \in Nat
  BY ContentsAre, ElementOfSeq
<1>8. stat \in Stats
  BY DEF IInv, Types
<1>9. check \in Nat
  BY <1>4, <1>7, <1>8, GoodIsNotBroken DEF Broken
<1>10. PICK sent : sent = Append(bytes, check)
  OBVIOUS
<1>11. Len(sent) = n + 1 /\ sent[n + 1] = check /\ \A k \in 1 .. n : sent[k] = bytes[k]
  BY <1>7, <1>9, <1>10, AppendProperties
<1>12. /\ DOMAIN received = 0 .. ReplySize - 1 /\ received[0] = n
       /\ \A k \in 1 .. n + 1 : received[k] = sent[k]
  <2>1. Len(sent) \in Nat /\ 1 + Len(sent) <= ReplySize /\ received = Put(replyBuf, 1, sent)
    BY <1>2, <1>5, <1>10, <1>11
  <2>2. ASSUME NEW k \in 1 .. n + 1 PROVE received[k] = sent[k]
    <3>1. k \in 1 .. 1 + Len(sent) - 1 /\ k - 1 + 1 = k
      BY <1>11
    <3> QED
      BY <2>1, <3>1, PutCells
  <2> QED
    BY <1>1, <2>1, <2>2, BehindFits DEF IInv
<1>13. CASE MitmValidate(stat, received, n + 1, TRUE)
  <2>1. PICK data : data = Cells(received, 1, n)
    OBVIOUS
  <2>2. data \in Seq(Nat)
    <3>1. \A k \in 1 .. n : received[1 + k - 1] \in Nat
      <4>1. ASSUME NEW k \in 1 .. n PROVE received[1 + k - 1] \in Nat
        <5>1. 1 + k - 1 = k /\ k \in 1 .. n + 1
          OBVIOUS
        <5> QED
          BY <1>7, <1>11, <1>12, <5>1
      <4> QED
        BY <4>1
    <3>2. data \in [1 .. n -> Nat]
      BY <2>1, <3>1 DEF Cells
    <3> QED
      BY <3>2, SeqDef
  <2>3. check = Crc(stat, data, TRUE)
    <3>1. n + 1 \in 1 .. n + 1
      OBVIOUS
    <3>2. received[n + 1] = check
      BY <1>11, <1>12, <3>1
    <3>3. received[n + 1] = ReplyCrc(stat, received, n + 1, TRUE)
      BY <1>13 DEF MitmValidate
    <3>4. ReplyCrc(stat, received, n + 1, TRUE) = Crc(stat, Cells(received, 1, received[0]), TRUE)
      BY DEF ReplyCrc
    <3> QED
      BY <1>12, <2>1, <3>2, <3>3, <3>4
  <2>4. faithful /\ intact[stat]
    BY <1>4, <1>8, <2>2, <2>3, GoodIsNotBroken
  <2>5. /\ intact'[stat] /\ Len(heard'[stat]) = 1 + n /\ heard'[stat][1] = n
        /\ \A k \in 1 .. n : heard'[stat][1 + k] = bytes[k]
    <3>1. Hears(bytes, faithful) /\ 1 \in 1 .. Len(Line)
      BY <1>2, <1>6
    <3>2. /\ Len(heard'[stat]) = Len(Line) + Len(bytes)
          /\ \A k \in 1 .. Len(Line) : heard'[stat][k] = Line[k]
          /\ \A k \in 1 .. Len(bytes) : heard'[stat][Len(Line) + k] = bytes[k]
          /\ intact'[stat] = (intact[stat] /\ faithful)
      BY <1>7, <3>1, HearsIs
    <3> QED
      BY <1>2, <1>7, <2>4, <3>1, <3>2
  <2>6. PICK modified : modified = AsToOs(received, n)
    OBVIOUS
  <2>7. /\ DOMAIN modified = 0 .. ReplySize - 1 /\ modified[0] = n
        /\ \A k \in 1 .. n : modified[k] = IF bytes[k] = A THEN O ELSE bytes[k]
    <3>1. DOMAIN modified = 0 .. ReplySize - 1 /\ modified[0] = n
      BY <1>2, <1>12, <2>6 DEF AsToOs
    <3>2. ASSUME NEW k \in 1 .. n
          PROVE  modified[k] = IF bytes[k] = A THEN O ELSE bytes[k]
      <4>1. k \in 0 .. ReplySize - 1 /\ k \in 1 .. n + 1
        BY <1>2
      <4>2. received[k] = bytes[k]
        BY <1>11, <1>12, <4>1
      <4> QED
        BY <1>12, <2>6, <4>1, <4>2 DEF AsToOs
    <3> QED
      BY <3>1, <3>2
  <2>8. PICK at \in Nat : at = n + 1 /\ at + 1 <= ReplySize
    BY <1>2
  <2>9. PICK sum : replyBuf' = Put(modified, at, <<sum>>)
    BY <1>6, <1>13, <2>6, <2>8 DEF MitmGenerate
  <2>10. \A k \in 0 .. n : replyBuf'[k] = modified[k]
    <3>1. \A k \in Nat : k < at => replyBuf'[k] = modified[k]
      <4>1. DOMAIN modified = 0 .. ReplySize - 1 /\ at + 1 <= ReplySize
        BY <2>7, <2>8
      <4>2. \A k \in Nat : k < at => Put(modified, at, <<sum>>)[k] = modified[k]
        BY <4>1, ChecksumBehind
      <4> QED
        BY <2>9, <4>2
    <3> QED
      BY <2>8, <3>1
  <2>11. replyBuf'[0] = n
    BY <2>7, <2>10
  <2>12. ASSUME NEW k \in 1 .. n
         PROVE  replyBuf'[k] = IF heard'[stat][k + 1] = A THEN O ELSE heard'[stat][k + 1]
    <3>1. k \in 0 .. n /\ k + 1 = 1 + k
      OBVIOUS
    <3> QED
      BY <2>5, <2>7, <2>10, <3>1
  <2>13. Holds'
    <3>1. Line' = heard'[stat] /\ override'[stat'] = "modify"
      BY <1>2 DEF Line
    <3>2. Len(Line') = 1 + Line'[1] /\ replyBuf'[0] = Line'[1]
      BY <2>5, <2>11, <3>1
    <3>3. \A k \in 1 .. Line'[1] :
            replyBuf'[k] = IF Line'[k + 1] = A THEN O ELSE Line'[k + 1]
      BY <2>5, <2>12, <3>1
    <3> QED
      BY <3>1, <3>2, <3>3 DEF Holds
  <2> QED
    BY <1>2, <2>5, <2>13 DEF Replied
<1>14. CASE ~MitmValidate(stat, received, n + 1, TRUE)
  BY <1>2, <1>6, <1>14 DEF Replied
<1> QED
  BY <1>13, <1>14

LEMMA RepliedNext == IInv /\ Routed /\ Replied /\ [Next]_vars => Replied'
<1> SUFFICES ASSUME IInv, Routed, Replied, [Next]_vars PROVE Replied'
  OBVIOUS
<1>1. CASE WriteCmd
  <2>1. CASE TurnedDown
    BY <1>1, <2>1 DEF Replied, WriteCmd, Failed
  <2>2. CASE ~TurnedDown
    <3>1. intact'[stat]
      BY <1>1, <2>2 DEF IInv, Types, WriteCmd
    <3> QED
      BY <1>1, <2>2, <3>1 DEF Replied, WriteCmd
  <2> QED
    BY <2>1, <2>2
<1>2. CASE (\E s \in Stats : Begin(s)) \/ TransferFails \/ ReadBytes \/ ReadBlock
  BY <1>2 DEF Replied, Begin, TransferFails, ReadBytes, ReadBlock, Failed
<1>3. CASE ReadLength \/ ReadCrc \/ FinishOverride
  BY <1>3 DEF Replied, ReadLength, ReadCrc, FinishOverride, Failed, Succeeded
<1>4. CASE ModifyFails
  BY <1>4 DEF Replied, ModifyFails
<1>5. CASE UNCHANGED vars
  BY <1>5 DEF Replied, Holds, Line, vars
<1> QED
  BY <1>1, <1>2, <1>3, <1>4, <1>5, ReplaceReplied, ModifyReadsLengthReplied,
     ModifyReadsRestReplied DEF Next

-----------------------------------------------------------------------------
(* The results.                                                            *)
LEMMA ActualSame ==
  ASSUME NEW s, Actual(s), cache'[s] = cache[s], heard'[s] = heard[s], intact'[s] = intact[s],
         override' = override
  PROVE  Actual(s)'
BY DEF Actual, Result, Meaning

LEMMA FirstAre ==
  ASSUME NEW bytes, NEW text \in Seq(Nat), NEW m \in 0 .. Len(text),
         \A k \in 1 .. Len(text) : bytes[k - 1] = text[k]
  PROVE  Cells(bytes, 0, m) = SubSeq(text, 1, m)
<1>1. Len(text) \in Nat /\ m \in Nat /\ m <= Len(text) /\ 1 \in Int /\ m \in Int
  BY LenProperties
<1>2. \A i \in 1 .. m : text[i] \in Nat
  BY <1>1, ElementOfSeq
<1>3. PICK first : first = SubSeq(text, 1, m)
  OBVIOUS
<1>4. /\ first \in Seq(Nat)
      /\ Len(first) = IF 1 <= m THEN m - 1 + 1 ELSE 0
      /\ \A i \in 1 .. m - 1 + 1 : first[i] = text[1 + i - 1]
  BY <1>1, <1>2, <1>3, SubSeqProperties
<1>5. Len(first) = m /\ \A i \in 1 .. m : first[i] = text[i]
  <2>1. m - 1 + 1 = m /\ (~(1 <= m) => m = 0) /\ \A i \in 1 .. m : 1 + i - 1 = i
    BY <1>1
  <2> QED
    BY <1>4, <2>1
<1>6. first = [i \in 1 .. m |-> first[i]]
  BY <1>4, <1>5, LenProperties
<1>7. ASSUME NEW k \in 1 .. m PROVE bytes[0 + k - 1] = first[k]
  <2>1. k \in 1 .. Len(text) /\ 0 + k - 1 = k - 1
    BY <1>1
  <2> QED
    BY <1>5, <2>1
<1>8. Cells(bytes, 0, m) = [k \in 1 .. m |-> bytes[0 + k - 1]]
  BY DEF Cells
<1> QED
  BY <1>3, <1>6, <1>7, <1>8

(* The bytes up to the first NUL are the text.                             *)
LEMMA TextIs ==
  ASSUME NEW bytes, NEW text \in Seq(Nat),
         \A k \in 1 .. Len(text) : bytes[k - 1] = text[k]
  PROVE  Cells(bytes, 0, TextLength(bytes, Len(text))) = UpToNUL(text)
<1>1. PICK n \in Nat : n = Len(text)
  BY LenProperties
<1> DEFINE nuls == {i \in 0 .. n - 1 : bytes[i] = NUL}
           ends == {i \in 1 .. n : text[i] = NUL}
<1>2. ASSUME NEW i \in 0 .. n - 1 PROVE i \in nuls <=> i + 1 \in ends
  <2>1. i + 1 \in 1 .. Len(text) /\ (i + 1) - 1 = i
    BY <1>1
  <2>2. bytes[i] = text[i + 1]
    BY <2>1
  <2> QED
    BY <1>1, <2>1, <2>2
<1>3. nuls \subseteq 0 .. n - 1 /\ ends \subseteq 1 .. n
  OBVIOUS
<1>4. TextLength(bytes, n) = IF nuls = {} THEN n ELSE CHOOSE i \in nuls : \A j \in nuls : i <= j
  BY DEF TextLength
<1>5. UpToNUL(text) = IF ends = {} THEN text
                      ELSE SubSeq(text, 1, (CHOOSE i \in ends : \A j \in ends : i <= j) - 1)
  BY <1>1 DEF UpToNUL
<1>6. CASE nuls = {}
  <2>1. ends = {}
    <3>1. ASSUME NEW e \in ends PROVE FALSE
      <4> HIDE DEF nuls, ends
      <4>1. e - 1 \in 0 .. n - 1 /\ (e - 1) + 1 = e
        BY <1>3
      <4> QED
        BY <1>2, <1>6, <4>1
    <3> QED
      BY <3>1
  <2>2. SubSeq(text, 1, n) = text
    BY <1>1, SubSeqFull
  <2>3. n \in 0 .. Len(text)
    BY <1>1
  <2>4. TextLength(bytes, n) = n /\ UpToNUL(text) = text
    BY <1>4, <1>5, <1>6, <2>1
  <2>5. Cells(bytes, 0, n) = SubSeq(text, 1, n)
    BY <2>3, FirstAre
  <2> QED
    BY <1>1, <2>2, <2>4, <2>5
<1>7. CASE nuls # {}
  <2> HIDE DEF nuls, ends
  <2>1. PICK m \in nuls : \A j \in nuls : m <= j
    <3>1. nuls \subseteq Nat
      BY <1>3
    <3> QED
      BY <1>7, <3>1, Least
  <2>2. PICK l : l = (CHOOSE i \in nuls : \A j \in nuls : i <= j)
    OBVIOUS
  <2>3. l \in nuls /\ \A j \in nuls : l <= j
    BY <2>1, <2>2
  <2>4. l \in 0 .. n - 1 /\ l + 1 \in ends
    BY <1>2, <1>3, <2>3
  <2>5. ASSUME NEW e \in ends PROVE l + 1 <= e
    <3>1. e - 1 \in 0 .. n - 1 /\ (e - 1) + 1 = e /\ e \in Int
      BY <1>3
    <3>2. l <= e - 1
      BY <1>2, <2>3, <3>1
    <3> QED
      BY <2>4, <3>1, <3>2
  <2>6. PICK f : f = (CHOOSE i \in ends : \A j \in ends : i <= j)
    OBVIOUS
  <2>7. f \in ends /\ \A j \in ends : f <= j
    BY <2>4, <2>5, <2>6
  <2>8. f - 1 = l
    <3>1. f \in Int /\ l \in Int
      BY <1>3, <2>4, <2>7
    <3> QED
      BY <2>4, <2>5, <2>7, <3>1
  <2>9. TextLength(bytes, n) = l /\ UpToNUL(text) = SubSeq(text, 1, l) /\ l \in 0 .. Len(text)
    <3>1. TextLength(bytes, n) = l
      BY <1>4, <1>7, <2>2
    <3>2. UpToNUL(text) = SubSeq(text, 1, f - 1)
      BY <1>5, <2>4, <2>6
    <3> QED
      BY <1>1, <2>4, <2>8, <3>1, <3>2
  <2> QED
    BY <1>1, <2>9, FirstAre
<1> QED
  BY <1>6, <1>7

(* Of the stats an action is not about nothing changes.                    *)
LEMMA OthersActual ==
  ASSUME ValidMeansReply, NEW t \in Stats, t = stat', override' = override,
         pc = "rest" \/ stat = t,
         \A s \in Stats : s # t =>
             cache'[s] = cache[s] /\ heard'[s] = heard[s] /\ intact'[s] = intact[s],
         pc' = "rest" => Actual(t)'
  PROVE  ValidMeansReply'
<1>1. ASSUME NEW s \in Stats, pc' = "rest" \/ s # stat' PROVE Actual(s)'
  <2>1. CASE s = t
    BY <1>1, <2>1
  <2>2. CASE s # t
    <3>1. Actual(s)
      BY <2>2 DEF ValidMeansReply, Actual
    <3> QED
      BY <2>2, <3>1, ActualSame
  <2> QED
    BY <2>1, <2>2
<1> QED
  BY <1>1 DEF ValidMeansReply, Actual

LEMMA FailedIsNot ==
  ASSUME IInv, NEW bytes, Failed(bytes)
  PROVE  ~cache'[stat].valid
<1>1. stat \in DOMAIN cache /\ cache[stat] \in Entry(stat)
  BY DEF IInv, Types, CacheFits
<1> QED
  BY <1>1 DEF Failed, Entry

(* A read whose checksum agrees.                                           *)
LEMMA ReadActual ==
  ASSUME IInv, Underway, ReadCrc
  PROVE  Actual(stat)'
<1>1. PICK n \in Nat : n = Count
  BY BytesAreNat, ConstantsAssumption DEF ConstantsAssumption, IInv, ReadFits, ReadCrc, Count
<1>2. /\ stat \in Stats /\ override[stat] = "none" /\ stat' = stat /\ override' = override
      /\ Line \in Seq(Nat) /\ Len(Line) = Prefix + n
      /\ \A k \in 1 .. n : cache[stat].bytes[k - 1] = Line[Prefix + k]
  BY <1>1 DEF IInv, Types, Underway, Routed, Copied, ReadCrc, Line
<1>3. PICK bytes : bytes = cache[stat].bytes
  OBVIOUS
<1>4. PICK data : data = Cells(bytes, 0, n)
  OBVIOUS
<1>5. PICK faithful \in BOOLEAN :
        IF Accepts(SentCrc(data, faithful), data)
        THEN /\ Hears(<<>>, faithful)
             /\ Succeeded(bytes, IF Type(stat) = "STRING" THEN TextLength(bytes, n) ELSE n)
        ELSE Forget /\ Failed(bytes)
  BY <1>1, <1>3, <1>4 DEF ReadCrc, Count
<1>6. Prefix \in {0, 1} /\ \A k \in 1 .. n : Line[Prefix + k] \in Nat
  <2>1. Prefix \in {0, 1} /\ \A k \in 1 .. n : Prefix + k \in 1 .. Len(Line)
    BY <1>2 DEF Prefix
  <2> QED
    BY <1>2, <2>1, ElementOfSeq
<1>7. CASE Accepts(SentCrc(data, faithful), data)
  <2>1. data \in Seq(Nat)
    <3>1. ASSUME NEW k \in 1 .. n PROVE bytes[0 + k - 1] \in Nat
      <4>1. 0 + k - 1 = k - 1
        OBVIOUS
      <4> QED
        BY <1>2, <1>3, <1>6, <4>1
    <3>2. data \in [1 .. n -> Nat]
      BY <1>4, <3>1 DEF Cells
    <3> QED
      BY <3>2, SeqDef
  <2>2. faithful /\ intact[stat]
    <3>1. IsBlock \in BOOLEAN
      BY DEF IsBlock
    <3> QED
      BY <1>2, <1>7, <2>1, <3>1, GoodIsNotBroken DEF Accepts, SentCrc
  <2>3. <<>> \in Seq(Nat) /\ Line \o <<>> = Line
    BY <1>2, ConcatEmptySeq
  <2>4. heard'[stat] = Line /\ intact'[stat]
    BY <1>5, <1>7, <2>2, <2>3, HearsIs
  <2>5. PICK m : m = IF Type(stat) = "STRING" THEN TextLength(bytes, n) ELSE n
    OBVIOUS
  <2>6. cache'[stat] = [bytes |-> bytes, length |-> m, valid |-> TRUE]
    BY <1>2, <1>5, <1>7, <2>5 DEF Succeeded, IInv, CacheFits
  <2>7. Result(stat)' = Cells(bytes, 0, m)
    BY <1>2, <2>6 DEF Result, Cells
  <2>8. Meaning(stat)' = CASE Type(stat) = "BYTES"  -> Line
                           [] Type(stat) = "BLOCK"  -> Tail(Line)
                           [] Type(stat) = "STRING" -> UpToNUL(Tail(Line))
    BY <1>2, <2>4 DEF Meaning
  <2>9. PICK text \in Seq(Nat) : text = IF IsBlock THEN Tail(Line) ELSE Line
    <3>1. IsBlock => Line # <<>>
      BY DEF IInv, ReadFits, ReadCrc
    <3> QED
      BY <1>2, <3>1, HeadTailProperties
  <2>10. Len(text) = n /\ \A k \in 1 .. n : bytes[k - 1] = text[k]
    <3>1. CASE IsBlock
      <4>1. Line # <<>> /\ Prefix = 1
        BY <3>1 DEF IInv, ReadFits, ReadCrc, Prefix
      <4>2. /\ Len(Tail(Line)) = Len(Line) - 1
            /\ \A k \in 1 .. Len(Tail(Line)) : Tail(Line)[k] = Line[k + 1]
        BY <1>2, <4>1, HeadTailProperties
      <4>3. text = Tail(Line)
        BY <2>9, <3>1
      <4> QED
        BY <1>2, <1>3, <4>1, <4>2, <4>3
    <3>2. CASE ~IsBlock
      <4>1. Prefix = 0 /\ text = Line
        BY <2>9, <3>2 DEF Prefix
      <4> QED
        BY <1>2, <1>3, <4>1
    <3> QED
      BY <3>1, <3>2
  <2>11. Cells(bytes, 0, n) = text
    <3>1. n \in 0 .. Len(text) /\ SubSeq(text, 1, n) = text
      BY <2>10, SubSeqFull
    <3> QED
      BY <2>10, <3>1, FirstAre
  <2>12. Cells(bytes, 0, TextLength(bytes, n)) = UpToNUL(text)
    BY <2>10, TextIs
  <2>13. Result(stat)' = Meaning(stat)'
    <3>1. stat \in {"SERIAL_NUMBER", "MANUFACTURER_NAME", "MANUFACTURER_DATA"}
      BY <1>2, ConstantsAssumption DEF ConstantsAssumption
    <3>2. CASE Type(stat) = "BYTES"
      BY <2>5, <2>7, <2>8, <2>9, <2>11, <3>2 DEF IsBlock
    <3>3. CASE Type(stat) = "BLOCK"
      BY <2>5, <2>7, <2>8, <2>9, <2>11, <3>3 DEF IsBlock
    <3>4. CASE Type(stat) = "STRING"
      BY <2>5, <2>7, <2>8, <2>9, <2>12, <3>4 DEF IsBlock
    <3> QED
      BY <3>1, <3>2, <3>3, <3>4 DEF Type
  <2> QED
    BY <1>2, <2>4, <2>13 DEF Actual
<1>8. CASE ~Accepts(SentCrc(data, faithful), data)
  <2>1. ~cache'[stat].valid
    BY <1>5, <1>8, FailedIsNot
  <2> QED
    BY <1>2, <2>1 DEF Actual
<1> QED
  BY <1>7, <1>8

(* What an override has left is what it means.                             *)
LEMMA OverrideActual ==
  ASSUME IInv, Underway, FinishOverride
  PROVE  Actual(stat)'
<1>1. /\ stat \in Stats /\ stat' = stat /\ override' = override /\ pc = "stop"
      /\ override[stat] # "none" /\ override[stat] \in Mappings(stat)
      /\ override[stat] \in {"none", "serial", "name", "modify"}
  BY DEF IInv, Types, Underway, Mapped, Routed, FinishOverride
<1>2. CASE ret = "ok" /\ ReadBack(replyBuf)
  <2>1. PICK n \in Nat : n = IF IsBlock THEN replyBuf[0] ELSE Room(stat)
    BY <1>1, Rooms DEF IInv, ReplyFits
  <2>2. PICK data : data = Cells(replyBuf, IF IsBlock THEN 1 ELSE 0, n)
    OBVIOUS
  <2>3. PICK bytes : bytes = Put(cache[stat].bytes, 0, data)
    OBVIOUS
  <2>4. Succeeded(bytes, n) /\ heard' = heard /\ intact' = intact
    BY <1>2, <2>1, <2>2, <2>3 DEF FinishOverride
  <2>5. cache'[stat] = [bytes |-> bytes, length |-> n, valid |-> TRUE]
    BY <1>1, <2>4 DEF Succeeded, IInv, CacheFits
  <2>6. Len(data) = n /\ data = [k \in 1 .. n |-> data[k]]
    <3>1. PICK from \in Nat : from = IF IsBlock THEN 1 ELSE 0
      OBVIOUS
    <3>2. data = Cells(replyBuf, from, n)
      BY <2>2, <3>1
    <3> QED
      BY <3>2, CellsAre DEF Cells
  <2>7. Result(stat)' = data
    <3>1. Result(stat)' = Cells(bytes, 0, n)
      BY <1>1, <2>5 DEF Result, Cells
    <3> QED
      BY <2>3, <2>6, <3>1, CellsOfPut
  <2>8. intact'[stat] /\ Holds
    BY <1>1, <1>2, <2>4 DEF Underway, Replied
  <2>9. Meaning(stat)' = Meaning(stat)
    BY <1>1, <2>4 DEF Meaning
  <2>10. stat \in {"SERIAL_NUMBER", "MANUFACTURER_NAME", "MANUFACTURER_DATA"}
    BY <1>1, ConstantsAssumption DEF ConstantsAssumption
  <2>11. data = Meaning(stat)
    <3>1. CASE override[stat] = "serial"
      <4>1. ~IsBlock /\ n = 2
        BY <1>1, <2>1, <2>10, <3>1, Rooms DEF IsBlock, Type, Mappings
      <4>2. \A k \in 1 .. 2 : data[k] = CustomSerial[k]
        <5>1. data = [k \in 1 .. 2 |-> replyBuf[0 + k - 1]]
          BY <2>2, <4>1 DEF Cells
        <5>2. replyBuf[0] = CustomSerial[1] /\ replyBuf[1] = CustomSerial[2]
          BY <2>8, <3>1 DEF Holds, CustomSerial
        <5>3. \A k \in 1 .. 2 : k = 1 \/ k = 2
          OBVIOUS
        <5>4. 0 + 1 - 1 = 0 /\ 0 + 2 - 1 = 1 /\ 1 \in 1 .. 2 /\ 2 \in 1 .. 2
          OBVIOUS
        <5> QED
          BY <5>1, <5>2, <5>3, <5>4
      <4>3. CustomSerial = [k \in 1 .. 2 |-> CustomSerial[k]]
        BY DEF CustomSerial
      <4>4. data = CustomSerial
        BY <2>6, <4>1, <4>2, <4>3
      <4> QED
        BY <3>1, <4>4 DEF Meaning
    <3>2. CASE override[stat] = "name"
      <4>1. IsBlock /\ n = 2
        BY <1>1, <2>1, <2>8, <2>10, <3>2 DEF IsBlock, Type, Mappings, Holds
      <4>2. \A k \in 1 .. 2 : data[k] = CustomName[k]
        <5>1. data = [k \in 1 .. 2 |-> replyBuf[1 + k - 1]]
          BY <2>2, <4>1 DEF Cells
        <5>2. replyBuf[1] = CustomName[1] /\ replyBuf[2] = CustomName[2]
          BY <2>8, <3>2 DEF Holds, CustomName
        <5>3. \A k \in 1 .. 2 : k = 1 \/ k = 2
          OBVIOUS
        <5>4. 1 + 1 - 1 = 1 /\ 1 + 2 - 1 = 2 /\ 1 \in 1 .. 2 /\ 2 \in 1 .. 2
          OBVIOUS
        <5> QED
          BY <5>1, <5>2, <5>3, <5>4
      <4>3. CustomName = [k \in 1 .. 2 |-> CustomName[k]]
        BY DEF CustomName
      <4>4. data = CustomName
        BY <2>6, <4>1, <4>2, <4>3
      <4> QED
        BY <3>2, <4>4 DEF Meaning
    <3>3. CASE override[stat] = "modify"
      <4>1. IsBlock /\ n = Line[1]
        BY <1>1, <2>1, <2>8, <2>10, <3>3 DEF IsBlock, Type, Mappings, Holds
      <4>2. data = [k \in 1 .. n |-> replyBuf[1 + k - 1]]
        BY <2>2, <4>1 DEF Cells
      <4>3. \A k \in 1 .. n : replyBuf[1 + k - 1] = IF Line[k + 1] = A THEN O ELSE Line[k + 1]
        <5>1. \A k \in 1 .. n : 1 + k - 1 = k
          OBVIOUS
        <5>2. \A k \in 1 .. n : replyBuf[k] = IF Line[k + 1] = A THEN O ELSE Line[k + 1]
          BY <2>8, <3>3, <4>1 DEF Holds
        <5> QED
          BY <5>1, <5>2
      <4>4. Meaning(stat) = [k \in 1 .. n |-> IF Line[k + 1] = A THEN O ELSE Line[k + 1]]
        BY <3>3, <4>1 DEF Meaning, Line
      <4> QED
        BY <4>2, <4>3, <4>4
    <3> QED
      BY <1>1, <3>1, <3>2, <3>3
  <2> QED
    BY <1>1, <2>7, <2>8, <2>9, <2>11 DEF Actual
<1>3. CASE ~(ret = "ok" /\ ReadBack(replyBuf))
  <2>1. ~cache'[stat].valid
    BY <1>3, FailedIsNot DEF FinishOverride
  <2> QED
    BY <1>1, <2>1 DEF Actual
<1> QED
  BY <1>2, <1>3

LEMMA ValidNext == IInv /\ Underway /\ ValidMeansReply /\ [Next]_vars => ValidMeansReply'
<1> SUFFICES ASSUME IInv, Underway, ValidMeansReply, [Next]_vars PROVE ValidMeansReply'
  OBVIOUS
<1>1. /\ stat \in Stats /\ DOMAIN cache = Stats
      /\ heard \in [Stats -> Seq(Nat)] /\ intact \in [Stats -> BOOLEAN]
  BY DEF IInv, Types, CacheFits
<1>2. ASSUME NEW s \in Stats, Begin(s) PROVE ValidMeansReply'
  <2>1. /\ stat' = s /\ pc = "rest" /\ pc' # "rest" /\ override' = override /\ cache' = cache
        /\ \A t \in Stats : t # s => heard'[t] = heard[t] /\ intact'[t] = intact[t]
    BY <1>1, <1>2 DEF Begin
  <2> QED
    BY <2>1, OthersActual
<1>3. ASSUME \/ WriteCmd /\ ~TurnedDown
             \/ ReadBytes \/ ReadBlock \/ Replace
             \/ ModifyReadsLength \/ ModifyReadsRest \/ ModifyFails
      PROVE  ValidMeansReply'
  <2>1. stat' = stat /\ override' = override /\ pc' # "rest"
    BY <1>3 DEF WriteCmd, ReadBytes, ReadBlock, Replace, ModifyReadsLength, ModifyReadsRest,
       ModifyFails
  <2>2. \A t \in Stats : t # stat => cache'[t] = cache[t]
    BY <1>1, <1>3 DEF WriteCmd, ReadBytes, ReadBlock, Replace, ModifyReadsLength,
       ModifyReadsRest, ModifyFails
  <2>3. \A t \in Stats : t # stat => heard'[t] = heard[t] /\ intact'[t] = intact[t]
    BY <1>1, <1>3 DEF WriteCmd, ReadBytes, ReadBlock, Replace, ModifyReadsLength,
       ModifyReadsRest, ModifyFails, Hears
  <2> QED
    BY <1>1, <2>1, <2>2, <2>3, OthersActual
<1>4. ASSUME \/ WriteCmd /\ TurnedDown
             \/ TransferFails \/ ReadLength \/ ReadCrc \/ FinishOverride
      PROVE  ValidMeansReply'
  <2>1. stat' = stat /\ override' = override
    BY <1>4 DEF WriteCmd, TransferFails, ReadLength, ReadCrc, FinishOverride
  <2>2. \A t \in Stats : t # stat => cache'[t] = cache[t]
    BY <1>1, <1>4 DEF WriteCmd, TransferFails, ReadLength, ReadCrc, FinishOverride, Failed,
       Succeeded
  <2>3. \A t \in Stats : t # stat => heard'[t] = heard[t] /\ intact'[t] = intact[t]
    BY <1>1, <1>4 DEF WriteCmd, TransferFails, ReadLength, ReadCrc, FinishOverride, Hears,
       Forget
  <2>4. pc' = "rest" => Actual(stat)'
    <3>1. CASE TransferFails \/ (WriteCmd /\ TurnedDown)
      <4>1. ~cache'[stat].valid
        BY <3>1, FailedIsNot DEF TransferFails, WriteCmd
      <4> QED
        BY <2>1, <4>1 DEF Actual
    <3>2. CASE ReadLength
      <4>1. pc' = "rest" => ~cache'[stat].valid
        BY <3>2, FailedIsNot DEF ReadLength
      <4> QED
        BY <2>1, <4>1 DEF Actual
    <3> QED
      BY <1>4, <3>1, <3>2, ReadActual, OverrideActual
  <2> QED
    BY <1>1, <2>1, <2>2, <2>3, <2>4, OthersActual
<1>5. CASE UNCHANGED vars
  BY <1>5 DEF vars, ValidMeansReply, Result, Meaning
<1> QED
  BY <1>2, <1>3, <1>4, <1>5 DEF Next

(* A valid result is the whole reply of the last update of its stat, as    *)
(* the battery sent it or its override replaced it, for buffers of any     *)
(* size and whatever bytes and lengths the battery sends                   *)
(* (smbus.c:94-174, mitm.c:342-390, battery.c:119-126).                    *)
THEOREM ValidMeansReplyHolds == Spec => []ValidMeansReply
<1>1. IInv /\ Underway /\ [Next]_vars => Underway'
  BY MappedNext, RoutedNext, CopiedNext, RepliedNext DEF Underway
<1> QED
  BY <1>1, InitIInv, NextIInv, InitUnderway, ValidNext, PTL DEF Spec

-----------------------------------------------------------------------------
(* SmbusCrc: exclusive-or, and one round of the loop over the bits.        *)
LEMMA XorHas ==
  ASSUME NEW a, NEW b, NEW x
  PROVE  x \in Xor(a, b) <=> ~(x \in a <=> x \in b)
BY DEF Xor

LEMMA ShiftHas ==
  ASSUME NEW c \in SUBSET Int, NEW x \in Int
  PROVE  x \in Shift(c) <=> x - 1 \in c /\ x # 8
<1>1. Shift(c) = {k + 1 : k \in c \ {7}}
  BY DEF Shift
<1>2. ASSUME x \in Shift(c) PROVE x - 1 \in c /\ x # 8
  <2>1. PICK k \in c \ {7} : x = k + 1
    BY <1>1, <1>2
  <2>2. k \in Int /\ x - 1 = k
    BY <2>1
  <2> QED
    BY <2>1, <2>2
<1>3. ASSUME x - 1 \in c, x # 8 PROVE x \in Shift(c)
  <2>1. PICK k \in Int : k = x - 1
    OBVIOUS
  <2>2. k \in c \ {7} /\ x = k + 1
    BY <1>3, <2>1
  <2> QED
    BY <1>1, <2>2
<1> QED
  BY <1>2, <1>3

LEMMA CrcBitHas ==
  ASSUME NEW c \in SUBSET Int, NEW bit \in BOOLEAN, NEW x \in Int
  PROVE  x \in CrcBit(c, bit) <=> IF bit <=> 7 \in c THEN x - 1 \in c /\ x # 8
                                  ELSE ~(x - 1 \in c /\ x # 8 <=> x \in {0, 1, 2})
<1>1. CASE bit <=> 7 \in c
  <2>1. CrcBit(c, bit) = Shift(c)
    BY <1>1 DEF CrcBit, Shift
  <2> QED
    BY <1>1, <2>1, ShiftHas
<1>2. CASE ~(bit <=> 7 \in c)
  <2>1. CrcBit(c, bit) = Xor(Shift(c), {0, 1, 2})
    BY <1>2 DEF CrcBit, Shift, Xor
  <2>2. x \in CrcBit(c, bit) <=> ~(x \in Shift(c) <=> x \in {0, 1, 2})
    BY <2>1, XorHas
  <2> QED
    BY <1>2, <2>2, ShiftHas
<1> QED
  BY <1>1, <1>2

LEMMA CrcBitByte ==
  ASSUME NEW c \in Byte, NEW bit
  PROVE  CrcBit(c, bit) \in Byte
<1>1. c \in SUBSET Int /\ c \subseteq 0 .. 7 /\ Byte = SUBSET (0 .. 7)
  BY DEF Byte, Bit
<1>2. Shift(c) \subseteq 0 .. 7
  BY <1>1 DEF Shift
<1>3. CrcBit(c, bit) \subseteq Shift(c) \cup {0, 1, 2}
  BY DEF CrcBit, Shift, Xor
<1> QED
  BY <1>1, <1>2, <1>3

(* A polynomial up to degree e, with a register under its highest degrees. *)
Over(p, c, e) == Xor({d \in p : d <= e}, {e - 7 + k : k \in c})

LEMMA OverHas ==
  ASSUME NEW p \in SUBSET Int, NEW c \in SUBSET Int, NEW e \in Int, NEW x \in Int
  PROVE  x \in Over(p, c, e) <=> ~(x \in p /\ x <= e <=> x - e + 7 \in c)
<1> DEFINE low == {d \in p : d <= e}
           high == {e - 7 + k : k \in c}
<1>1. x \in low <=> x \in p /\ x <= e
  OBVIOUS
<1>2. x \in high <=> x - e + 7 \in c
  <2>1. ASSUME x \in high PROVE x - e + 7 \in c
    <3>1. PICK k \in c : x = e - 7 + k
      BY <2>1
    <3>2. k \in Int /\ x - e + 7 = k
      BY <3>1
    <3> QED
      BY <3>1, <3>2
  <2>2. ASSUME x - e + 7 \in c PROVE x \in high
    <3>1. PICK k \in Int : k = x - e + 7
      OBVIOUS
    <3>2. k \in c /\ x = e - 7 + k
      BY <2>2, <3>1
    <3> QED
      BY <3>2
  <2> QED
    BY <2>1, <2>2
<1>3. Over(p, c, e) = Xor(low, high)
  BY DEF Over
<1> HIDE DEF low, high
<1> QED
  BY <1>1, <1>2, <1>3, XorHas

LEMMA OverInt ==
  ASSUME NEW p \in SUBSET Int, NEW c \in SUBSET Int, NEW e \in Int
  PROVE  Over(p, c, e) \in SUBSET Int
<1>1. {d \in p : d <= e} \subseteq Int /\ {e - 7 + k : k \in c} \subseteq Int
  <2>1. p \subseteq Int /\ \A k \in c : e - 7 + k \in Int
    OBVIOUS
  <2>2. {e - 7 + k : k \in c} \subseteq Int
    BY <2>1
  <2>3. {d \in p : d <= e} \subseteq p
    OBVIOUS
  <2> QED
    BY <2>1, <2>2, <2>3
<1>2. \A a, b : Xor(a, b) = (a \ b) \cup (b \ a)
  BY DEF Xor
<1>3. \A a, b : a \subseteq Int /\ b \subseteq Int => Xor(a, b) \subseteq Int
  BY <1>2
<1> QED
  BY <1>1, <1>3 DEF Over

LEMMA CancelStep ==
  ASSUME NEW p \in SUBSET Int, NEW c \in SUBSET Int, NEW e \in Int
  PROVE  CancelDegree(Over(p, c, e), e) = Over(p, CrcBit(c, e \in p), e - 1)
<1> DEFINE above == Over(p, c, e)
           next == CrcBit(c, e \in p)
           below == Over(p, next, e - 1)
           shifted == {e - 8 + g : g \in {8, 2, 1, 0}}
<1>1. above \in SUBSET Int
  BY OverInt
<1>2. next \in SUBSET Int
  <2>1. Shift(c) \in SUBSET Int
    BY DEF Shift
  <2>2. next \subseteq Shift(c) \cup {0, 1, 2}
    BY DEF CrcBit, Shift, Xor
  <2> QED
    BY <2>1, <2>2
<1>3. below \in SUBSET Int
  BY <1>2, OverInt
<1>4. CancelDegree(above, e) = IF e \in above THEN Xor(above, shifted) ELSE above
  BY DEF CancelDegree, Generator, Xor
<1>5. e \in above <=> ~(e \in p <=> 7 \in c)
  <2>1. e - e + 7 = 7 /\ e <= e
    OBVIOUS
  <2> QED
    BY <2>1, OverHas
<1>6. ASSUME NEW x \in Int
      PROVE  x \in below <=> ~(x \in p /\ x <= e - 1 <=> x - e + 8 \in next)
  <2>1. x - (e - 1) + 7 = x - e + 8 /\ e - 1 \in Int
    OBVIOUS
  <2> QED
    BY <1>2, <2>1, OverHas
<1>7. ASSUME NEW x \in Int
      PROVE  x - e + 8 \in next <=> IF e \in p <=> 7 \in c THEN x - e + 7 \in c /\ x # e
                                    ELSE ~(x - e + 7 \in c /\ x # e <=> x \in {e - 8, e - 7, e - 6})
  <2>1. PICK y \in Int : y = x - e + 8
    OBVIOUS
  <2>2. y - 1 = x - e + 7 /\ (y # 8 <=> x # e) /\ (y \in {0, 1, 2} <=> x \in {e - 8, e - 7, e - 6})
    BY <2>1
  <2>3. (e \in p) \in BOOLEAN
    OBVIOUS
  <2>4. y \in next <=> IF e \in p <=> 7 \in c THEN y - 1 \in c /\ y # 8
                       ELSE ~(y - 1 \in c /\ y # 8 <=> y \in {0, 1, 2})
    BY <2>3, CrcBitHas
  <2> HIDE DEF next
  <2> QED
    BY <2>1, <2>2, <2>4
<1>8. ASSUME NEW x \in Int
      PROVE  x \in above <=> ~(x \in p /\ x <= e <=> x - e + 7 \in c)
  BY OverHas
<1>9. shifted \in SUBSET Int /\ \A x \in Int : x \in shifted <=> x = e \/ x \in {e - 8, e - 7, e - 6}
  OBVIOUS
<1> HIDE DEF above, below, next, shifted
<1>10. CASE e \in p <=> 7 \in c
  <2>1. CancelDegree(above, e) = above
    BY <1>4, <1>5, <1>10
  <2>2. ASSUME NEW x \in Int PROVE x \in above <=> x \in below
    <3>1. x \in below <=> ~(x \in p /\ x <= e - 1 <=> x - e + 7 \in c /\ x # e)
      BY <1>6, <1>7, <1>10
    <3>2. CASE x = e
      <4>1. x \notin above
        BY <1>5, <1>10, <3>2
      <4>2. ~(x <= e - 1)
        BY <3>2
      <4> QED
        BY <3>1, <3>2, <4>1, <4>2
    <3>3. CASE x # e
      <4>1. x <= e - 1 <=> x <= e
        BY <3>3
      <4> QED
        BY <1>8, <3>1, <3>3, <4>1
    <3> QED
      BY <3>2, <3>3
  <2> QED
    BY <1>1, <1>3, <2>1, <2>2 DEF above, below, next
<1>11. CASE ~(e \in p <=> 7 \in c)
  <2>1. CancelDegree(above, e) = Xor(above, shifted)
    BY <1>4, <1>5, <1>11
  <2>2. Xor(above, shifted) \in SUBSET Int
    BY <1>1, <1>9 DEF Xor
  <2>3. ASSUME NEW x \in Int PROVE x \in Xor(above, shifted) <=> x \in below
    <3>1. x \in below <=> ~(x \in p /\ x <= e - 1
                              <=> ~(x - e + 7 \in c /\ x # e <=> x \in {e - 8, e - 7, e - 6}))
      BY <1>6, <1>7, <1>11
    <3>2. x \in Xor(above, shifted) <=> ~(x \in above <=> x \in shifted)
      BY XorHas
    <3>3. CASE x = e
      <4>1. x \in above
        BY <1>5, <1>11, <3>3
      <4>2. ~(x <= e - 1) /\ x \notin {e - 8, e - 7, e - 6} /\ x \in shifted
        BY <1>9, <3>3
      <4> QED
        BY <3>1, <3>2, <3>3, <4>1, <4>2
    <3>4. CASE x # e
      <4>1. x <= e - 1 <=> x <= e
        BY <3>4
      <4>2. x \in shifted <=> x \in {e - 8, e - 7, e - 6}
        BY <1>9, <3>4
      <4> QED
        BY <1>8, <3>1, <3>2, <3>4, <4>1, <4>2
    <3> QED
      BY <3>3, <3>4
  <2> QED
    BY <1>3, <2>1, <2>2, <2>3 DEF above, below, next
<1> QED
  BY <1>10, <1>11 DEF above, below, next

Words == Seq(Byte)

(* The register after each bit of a byte.                                  *)
LEMMA GenerateIs ==
  ASSUME NEW c \in Byte, NEW byte \in Byte
  PROVE  \E f \in [0 .. 8 -> Byte] :
            /\ f[0] = c
            /\ \A b \in 0 .. 7 : f[b + 1] = CrcBit(f[b], (7 - b) \in byte)
            /\ GenerateCrc(c, byte) = f[8]
<1> DEFINE P(f) == f = [n \in 0 .. 8 |-> IF n = 0 THEN c ELSE CrcBit(f[n - 1], (8 - n) \in byte)]
           T == [n \in 1 .. 8 |-> [d \in Byte |-> CrcBit(d, (8 - n) \in byte)]]
<1>1. \E f : P(f)
  <2>1. \A n \in 1 .. 8 : T[n] \in [Byte -> Byte]
    <3>1. ASSUME NEW n \in 1 .. 8 PROVE T[n] \in [Byte -> Byte]
      <4>1. \A d \in Byte : CrcBit(d, (8 - n) \in byte) \in Byte
        BY CrcBitByte
      <4> QED
        BY <4>1
    <3> QED
      BY <3>1
  <2>2. \E f : Applied(f, 8, c, T, Byte)
    <3> HIDE DEF T
    <3>1. PICK m \in Nat : m = 8
      OBVIOUS
    <3>2. Maps(T, m, Byte)
      BY <2>1, <3>1 DEF Maps
    <3>3. \E f : Applied(f, m, c, T, Byte)
      BY <3>2, Recursion
    <3> QED
      BY <3>1, <3>3
  <2>3. PICK f \in [0 .. 8 -> Byte] : f[0] = c /\ \A i \in 1 .. 8 : f[i] = T[i][f[i - 1]]
    BY <2>2, Zenon DEF Applied
  <2>4. \A n \in 0 .. 8 : n # 0 => n \in 1 .. 8 /\ n - 1 \in 0 .. 8
    OBVIOUS
  <2>5. \A n \in 1 .. 8 : f[n] = CrcBit(f[n - 1], (8 - n) \in byte)
    BY <2>3, <2>4
  <2>6. \A n \in 0 .. 8 : f[n] = IF n = 0 THEN c ELSE CrcBit(f[n - 1], (8 - n) \in byte)
    BY <2>3, <2>4, <2>5
  <2>7. P(f)
    BY <2>6
  <2> HIDE DEF P
  <2> QED
    BY <2>7
<1> DEFINE f == CHOOSE g : P(g)
<1>2. P(f)
  <2> HIDE DEF P
  <2> QED
    BY <1>1
<1>3. GenerateCrc(c, byte) = f[8]
  BY DEF GenerateCrc
<1> HIDE DEF f
<1>4. f[0] = c /\ f = [n \in 0 .. 8 |-> f[n]]
  BY <1>2
<1>5. ASSUME NEW b \in 0 .. 7 PROVE f[b + 1] = CrcBit(f[b], (7 - b) \in byte)
  <2>1. PICK n \in 1 .. 8 : n = b + 1
    OBVIOUS
  <2>2. n \in 0 .. 8 /\ n # 0 /\ n - 1 = b /\ 8 - n = 7 - b
    BY <2>1
  <2>3. f[n] = CrcBit(f[n - 1], (8 - n) \in byte)
    BY <1>2, <2>2
  <2> QED
    BY <2>1, <2>2, <2>3
<1>6. f \in [0 .. 8 -> Byte]
  <2> DEFINE S == {b \in 0 .. 8 : f[b] \in Byte}
  <2>1. 0 \in S
    BY <1>4
  <2>2. ASSUME NEW b \in 0 .. 7, b \in S PROVE b + 1 \in S
    BY <1>5, <2>2, CrcBitByte
  <2>3. 0 .. 8 \subseteq S
    <3> HIDE DEF S
    <3>1. 8 \in Nat /\ 0 .. 8 - 1 = 0 .. 7
      OBVIOUS
    <3> QED
      BY <2>1, <2>2, <3>1, UpTo
  <2>4. \A n \in 0 .. 8 : f[n] \in Byte
    BY <2>3
  <2> QED
    BY <1>4, <2>4
<1> QED
  BY <1>3, <1>4, <1>5, <1>6

LEMMA GenerateByte ==
  ASSUME NEW c \in Byte, NEW byte \in Byte
  PROVE  GenerateCrc(c, byte) \in Byte
<1>1. PICK f \in [0 .. 8 -> Byte] : GenerateCrc(c, byte) = f[8]
  BY GenerateIs, Zenon
<1> QED
  BY <1>1

(* The register after each byte that is covered.                           *)
CrcOver(w) ==
    LET after[n \in 0 .. Len(w)] ==
            IF n = 0 THEN {}
            ELSE LET before == after[n - 1] IN GenerateCrc(before, w[n])
    IN  after[Len(w)]

LEMMA CrcIs ==
  ASSUME NEW w \in Words
  PROVE  \E f \in [0 .. Len(w) -> Byte] :
            /\ f[0] = {}
            /\ \A j \in 0 .. Len(w) - 1 : f[j + 1] = GenerateCrc(f[j], w[j + 1])
            /\ CrcOver(w) = f[Len(w)]
<1> DEFINE L == Len(w)
           P(f) == f = [n \in 0 .. L |-> IF n = 0 THEN {} ELSE GenerateCrc(f[n - 1], w[n])]
           T == [n \in 1 .. L |-> [d \in Byte |-> GenerateCrc(d, w[n])]]
<1>0. L \in Nat /\ {} \in Byte /\ \A n \in 1 .. L : w[n] \in Byte
  <2>1. {} \in Byte
    BY DEF Byte
  <2> QED
    BY <2>1 DEF Words
<1>7. CrcOver(w) = (CHOOSE g : P(g))[L]
  BY DEF CrcOver
<1> HIDE DEF L
<1>1. \E f : P(f)
  <2>1. \A n \in 1 .. L : T[n] \in [Byte -> Byte]
    <3>1. ASSUME NEW n \in 1 .. L PROVE T[n] \in [Byte -> Byte]
      <4>1. \A d \in Byte : GenerateCrc(d, w[n]) \in Byte
        BY <1>0, GenerateByte
      <4> QED
        BY <4>1
    <3> QED
      BY <3>1
  <2>2. \E f : Applied(f, L, {}, T, Byte)
    <3> HIDE DEF T
    <3>1. PICK m \in Nat : m = L
      BY <1>0
    <3>2. Maps(T, m, Byte)
      BY <2>1, <3>1 DEF Maps
    <3>3. \E f : Applied(f, m, {}, T, Byte)
      BY <1>0, <3>2, Recursion
    <3> QED
      BY <3>1, <3>3
  <2>3. PICK f \in [0 .. L -> Byte] : f[0] = {} /\ \A i \in 1 .. L : f[i] = T[i][f[i - 1]]
    BY <2>2, Zenon DEF Applied
  <2>4. \A n \in 0 .. L : n # 0 => n \in 1 .. L /\ n - 1 \in 0 .. L
    BY <1>0
  <2>5. \A n \in 1 .. L : f[n] = GenerateCrc(f[n - 1], w[n])
    <3>1. ASSUME NEW n \in 1 .. L PROVE f[n] = GenerateCrc(f[n - 1], w[n])
      <4>1. f[n - 1] \in Byte
        BY <1>0, <2>3
      <4>2. T[n][f[n - 1]] = GenerateCrc(f[n - 1], w[n])
        BY <4>1
      <4> QED
        BY <2>3, <4>2
    <3> QED
      BY <3>1
  <2>6. \A n \in 0 .. L : f[n] = IF n = 0 THEN {} ELSE GenerateCrc(f[n - 1], w[n])
    BY <2>3, <2>4, <2>5
  <2>7. P(f)
    BY <2>6
  <2> HIDE DEF P
  <2> QED
    BY <2>7
<1> DEFINE f == CHOOSE g : P(g)
<1>2. P(f)
  <2> HIDE DEF P
  <2> QED
    BY <1>1
<1>3. CrcOver(w) = f[L]
  BY <1>7
<1> HIDE DEF f
<1>4. f[0] = {} /\ f = [n \in 0 .. L |-> f[n]]
  BY <1>0, <1>2
<1>5. ASSUME NEW j \in 0 .. L - 1 PROVE f[j + 1] = GenerateCrc(f[j], w[j + 1])
  <2>1. PICK n \in 1 .. L : n = j + 1
    BY <1>0
  <2>2. n \in 0 .. L /\ n # 0 /\ n - 1 = j
    BY <1>0, <2>1
  <2>3. f[n] = GenerateCrc(f[n - 1], w[n])
    BY <1>2, <2>2
  <2> QED
    BY <2>1, <2>2, <2>3
<1>6. f \in [0 .. L -> Byte]
  <2> DEFINE S == {b \in 0 .. L : f[b] \in Byte}
  <2>1. 0 \in S
    <3>1. 0 \in 0 .. L /\ f[0] \in Byte
      BY <1>0, <1>4
    <3> QED
      BY <3>1
  <2>2. ASSUME NEW b \in 0 .. L - 1, b \in S PROVE b + 1 \in S
    <3>1. b + 1 \in 1 .. L /\ b + 1 \in 0 .. L
      BY <1>0
    <3>2. f[b] \in Byte /\ w[b + 1] \in Byte
      BY <1>0, <2>2, <3>1
    <3>3. f[b + 1] \in Byte
      BY <1>5, <3>2, GenerateByte
    <3> QED
      BY <3>1, <3>3
  <2>3. 0 .. L \subseteq S
    <3> HIDE DEF S
    <3> QED
      BY <1>0, <2>1, <2>2, UpTo
  <2>4. \A n \in 0 .. L : f[n] \in Byte
    BY <2>3
  <2> QED
    BY <1>4, <2>4
<1> QED
  BY <1>3, <1>4, <1>5, <1>6 DEF L

-----------------------------------------------------------------------------
(* The polynomial of a sequence of bytes.                                  *)
LEMMA InPolynomial ==
  ASSUME NEW w \in Words, NEW j \in 1 .. Len(w), NEW k \in 0 .. 7
  PROVE  8 * (Len(w) - j) + k + 8 \in Polynomial(w) <=> k \in w[j]
<1> DEFINE at(i) == {8 * (Len(w) - i) + m + 8 : m \in w[i]}
<1>1. Len(w) \in Nat /\ \A i \in 1 .. Len(w) : w[i] \subseteq 0 .. 7
  BY DEF Words, Byte, Bit
<1>2. Polynomial(w) = UNION {at(i) : i \in 1 .. Len(w)}
  BY DEF Polynomial
<1>3. ASSUME k \in w[j] PROVE 8 * (Len(w) - j) + k + 8 \in Polynomial(w)
  <2>1. 8 * (Len(w) - j) + k + 8 \in at(j)
    BY <1>3
  <2> HIDE DEF at
  <2> QED
    BY <1>2, <2>1
<1>4. ASSUME 8 * (Len(w) - j) + k + 8 \in Polynomial(w) PROVE k \in w[j]
  <2>1. PICK i \in 1 .. Len(w) : 8 * (Len(w) - j) + k + 8 \in at(i)
    <3> HIDE DEF at
    <3> QED
      BY <1>2, <1>4
  <2>2. PICK m \in w[i] : 8 * (Len(w) - j) + k + 8 = 8 * (Len(w) - i) + m + 8
    BY <2>1
  <2>3. m \in 0 .. 7
    BY <1>1, <2>2
  <2>4. PICK l \in Nat : l = Len(w)
    BY <1>1
  <2>5. i = j /\ m = k
    BY <2>2, <2>3, <2>4
  <2> QED
    BY <2>2, <2>5
<1> QED
  BY <1>3, <1>4

LEMMA PolynomialIs ==
  ASSUME NEW w \in Words
  PROVE  Polynomial(w) \subseteq 8 .. 8 * Len(w) + 7
<1>1. Len(w) \in Nat /\ \A i \in 1 .. Len(w) : w[i] \subseteq 0 .. 7
  BY DEF Words, Byte, Bit
<1>2. ASSUME NEW d \in Polynomial(w) PROVE d \in 8 .. 8 * Len(w) + 7
  <2>1. PICK i \in 1 .. Len(w) : \E m \in w[i] : d = 8 * (Len(w) - i) + m + 8
    BY <1>2 DEF Polynomial
  <2>2. PICK m \in w[i] : d = 8 * (Len(w) - i) + m + 8
    BY <2>1
  <2>3. m \in 0 .. 7
    BY <1>1, <2>2
  <2> QED
    BY <1>1, <2>2, <2>3
<1> QED
  BY <1>2

(* What is left of a polynomial after each step of its division.           *)
LEMMA RemainderIs ==
  ASSUME NEW w \in Words
  PROVE  \E f : /\ f[0] = Polynomial(w)
                /\ \A n \in 0 .. 8 * Len(w) - 1 :
                      f[n + 1] = CancelDegree(f[n], 8 * Len(w) + 7 - n)
                /\ Remainder(w) = f[8 * Len(w)]
<1> DEFINE top == 8 * (Len(w) + 1) - 1
           p == Polynomial(w)
           P(f) == f = [n \in 0 .. top - 7 |->
                          IF n = 0 THEN p ELSE CancelDegree(f[n - 1], top + 1 - n)]
           T == [n \in 1 .. top - 7 |-> [q \in SUBSET Int |-> CancelDegree(q, top + 1 - n)]]
<1>0. Len(w) \in Nat /\ p \in SUBSET Int
  <2>1. Len(w) \in Nat
    BY DEF Words
  <2>2. 8 .. 8 * Len(w) + 7 \subseteq Int
    BY <2>1
  <2> QED
    BY <2>1, <2>2, PolynomialIs
<1>1. Remainder(w) = (CHOOSE g : P(g))[top - 7]
  BY DEF Remainder
<1>2. top \in Int /\ top - 7 \in Nat /\ top - 7 = 8 * Len(w)
  BY <1>0
<1> HIDE DEF top, p
<1>3. \E f : P(f)
  <2>1. \A n \in 1 .. top - 7 : T[n] \in [SUBSET Int -> SUBSET Int]
    <3>1. ASSUME NEW n \in 1 .. top - 7 PROVE T[n] \in [SUBSET Int -> SUBSET Int]
      <4>1. ASSUME NEW q \in SUBSET Int PROVE CancelDegree(q, top + 1 - n) \in SUBSET Int
        <5>1. PICK d \in Int : d = top + 1 - n
          BY <1>2
        <5>2. {d - 8 + g : g \in {8, 2, 1, 0}} \subseteq Int
          OBVIOUS
        <5>3. CancelDegree(q, d) \subseteq q \cup {d - 8 + g : g \in {8, 2, 1, 0}}
          BY DEF CancelDegree, Generator, Xor
        <5> QED
          BY <5>1, <5>2, <5>3
      <4> QED
        BY <4>1
    <3> QED
      BY <3>1
  <2>2. \E f : Applied(f, top - 7, p, T, SUBSET Int)
    <3> HIDE DEF T
    <3>1. PICK m \in Nat : m = top - 7
      BY <1>2
    <3>2. Maps(T, m, SUBSET Int)
      BY <2>1, <3>1 DEF Maps
    <3>3. \E f : Applied(f, m, p, T, SUBSET Int)
      BY <1>0, <3>2, Recursion
    <3> QED
      BY <3>1, <3>3
  <2>3. PICK f \in [0 .. top - 7 -> SUBSET Int] :
           f[0] = p /\ \A i \in 1 .. top - 7 : f[i] = T[i][f[i - 1]]
    BY <2>2, Zenon DEF Applied
  <2>4. \A n \in 0 .. top - 7 : n # 0 => n \in 1 .. top - 7 /\ n - 1 \in 0 .. top - 7
    BY <1>2
  <2>5. ASSUME NEW n \in 1 .. top - 7 PROVE f[n] = CancelDegree(f[n - 1], top + 1 - n)
    <3>1. n - 1 \in 0 .. top - 7
      BY <1>2
    <3>2. f[n - 1] \in SUBSET Int
      BY <2>3, <3>1
    <3>3. T[n][f[n - 1]] = CancelDegree(f[n - 1], top + 1 - n)
      BY <3>2
    <3> QED
      BY <2>3, <3>3
  <2>6. \A n \in 0 .. top - 7 : f[n] = IF n = 0 THEN p ELSE CancelDegree(f[n - 1], top + 1 - n)
    BY <2>3, <2>4, <2>5
  <2>7. P(f)
    BY <2>3, <2>6
  <2> HIDE DEF P
  <2> QED
    BY <2>7
<1> DEFINE f == CHOOSE g : P(g)
<1>4. P(f)
  <2> HIDE DEF P
  <2> QED
    BY <1>3
<1>5. Remainder(w) = f[top - 7]
  BY <1>1
<1> HIDE DEF f
<1>6. f[0] = p
  BY <1>2, <1>4
<1>7. ASSUME NEW n \in 0 .. 8 * Len(w) - 1 PROVE f[n + 1] = CancelDegree(f[n], 8 * Len(w) + 7 - n)
  <2>1. PICK m \in 1 .. top - 7 : m = n + 1
    BY <1>0, <1>2
  <2>2. m \in 0 .. top - 7 /\ m # 0 /\ m - 1 = n /\ top + 1 - m = 8 * Len(w) + 7 - n
    BY <1>0, <1>2, <2>1
  <2>3. f[m] = CancelDegree(f[m - 1], top + 1 - m)
    BY <1>4, <2>2
  <2> QED
    BY <2>1, <2>2, <2>3
<1> QED
  BY <1>2, <1>5, <1>6, <1>7 DEF p

-----------------------------------------------------------------------------
(* After j bytes and b bits the register is over what is left of the       *)
(* polynomial after the degrees it has covered.                            *)
LEMMA BitDivides ==
  ASSUME NEW w \in Words, NEW j \in 0 .. Len(w) - 1, NEW b \in 0 .. 7,
         NEW c \in Byte, NEW e \in Int, e = 8 * Len(w) + 7 - (8 * j + b)
  PROVE  CancelDegree(Over(Polynomial(w), c, e), e)
            = Over(Polynomial(w), CrcBit(c, (7 - b) \in w[j + 1]), e - 1)
<1>1. Len(w) \in Nat /\ Polynomial(w) \in SUBSET Int /\ c \in SUBSET Int
  <2>1. Len(w) \in Nat
    BY DEF Words
  <2>2. 8 .. 8 * Len(w) + 7 \subseteq Int
    BY <2>1
  <2>3. c \in SUBSET Int
    BY DEF Byte, Bit
  <2> QED
    BY <2>1, <2>2, <2>3, PolynomialIs
<1>2. e \in Polynomial(w) <=> 7 - b \in w[j + 1]
  <2>1. PICK i \in 1 .. Len(w) : i = j + 1
    BY <1>1
  <2>2. PICK k \in 0 .. 7 : k = 7 - b
    OBVIOUS
  <2>3. 8 * (Len(w) - i) + k + 8 = e
    BY <1>1, <2>1, <2>2
  <2>4. 8 * (Len(w) - i) + k + 8 \in Polynomial(w) <=> k \in w[i]
    BY InPolynomial
  <2> QED
    BY <2>1, <2>2, <2>3, <2>4
<1>3. CrcBit(c, e \in Polynomial(w)) = CrcBit(c, (7 - b) \in w[j + 1])
  <2>1. CASE e \in Polynomial(w)
    BY <1>2, <2>1 DEF CrcBit
  <2>2. CASE e \notin Polynomial(w)
    BY <1>2, <2>2 DEF CrcBit
  <2> QED
    BY <2>1, <2>2
<1>4. CancelDegree(Over(Polynomial(w), c, e), e)
        = Over(Polynomial(w), CrcBit(c, e \in Polynomial(w)), e - 1)
  BY <1>1, CancelStep
<1> QED
  BY <1>3, <1>4

(* The loop of generate_crc over bytes computes the remainder of their     *)
(* long division.                                                          *)
LEMMA CrcDivides ==
  ASSUME NEW w \in Words
  PROVE  CrcOver(w) = Remainder(w)
<1> DEFINE p == Polynomial(w)
<1>1. PICK L \in Nat : L = Len(w)
  BY DEF Words
<1>2. PICK g \in [0 .. L -> Byte] :
         /\ g[0] = {}
         /\ \A j \in 0 .. L - 1 : g[j + 1] = GenerateCrc(g[j], w[j + 1])
         /\ CrcOver(w) = g[L]
  BY <1>1, CrcIs, Zenon
<1>3. PICK h : /\ h[0] = p
               /\ \A n \in 0 .. 8 * L - 1 : h[n + 1] = CancelDegree(h[n], 8 * L + 7 - n)
               /\ Remainder(w) = h[8 * L]
  BY <1>1, RemainderIs, Zenon
<1>4. p \subseteq 8 .. 8 * L + 7 /\ p \in SUBSET Int
  <2>1. 8 .. 8 * L + 7 \subseteq Int
    OBVIOUS
  <2> QED
    BY <1>1, <2>1, PolynomialIs
<1> DEFINE S == {j \in 0 .. L : h[8 * j] = Over(p, g[j], 8 * L + 7 - 8 * j)}
<1>5. 0 \in S
  <2>1. Over(p, {}, 8 * L + 7) = p
    <3>1. PICK e \in Int : e = 8 * L + 7
      OBVIOUS
    <3>2. ASSUME NEW x \in Int PROVE x \in Over(p, {}, e) <=> x \in p /\ x <= e
      <4>1. PICK c \in SUBSET Int : c = {}
        OBVIOUS
      <4>2. x \in Over(p, c, e) <=> ~(x \in p /\ x <= e <=> x - e + 7 \in c)
        BY <1>4, OverHas
      <4> QED
        BY <4>1, <4>2
    <3>3. Over(p, {}, e) \in SUBSET Int
      BY <1>4, OverInt
    <3>4. \A x \in p : x <= e
      BY <1>4, <3>1
    <3> QED
      BY <1>4, <3>1, <3>2, <3>3, <3>4
  <2>2. 0 \in 0 .. L /\ 8 * 0 = 0 /\ 8 * L + 7 - 8 * 0 = 8 * L + 7
    OBVIOUS
  <2> QED
    BY <1>2, <1>3, <2>1, <2>2
<1>6. ASSUME NEW j \in 0 .. L - 1, j \in S PROVE j + 1 \in S
  <2>1. g[j] \in Byte /\ w[j + 1] \in Byte
    <3>1. j \in 0 .. L /\ j + 1 \in 1 .. Len(w)
      BY <1>1
    <3> QED
      BY <3>1 DEF Words
  <2>2. PICK f \in [0 .. 8 -> Byte] :
           /\ f[0] = g[j]
           /\ \A b \in 0 .. 7 : f[b + 1] = CrcBit(f[b], (7 - b) \in w[j + 1])
           /\ GenerateCrc(g[j], w[j + 1]) = f[8]
    BY <2>1, GenerateIs, Zenon
  <2> DEFINE R == {b \in 0 .. 8 : h[8 * j + b] = Over(p, f[b], 8 * L + 7 - (8 * j + b))}
  <2>3. 0 \in R
    <3>1. 0 \in 0 .. 8 /\ 8 * j + 0 = 8 * j
      OBVIOUS
    <3>2. h[8 * j] = Over(p, g[j], 8 * L + 7 - 8 * j)
      BY <1>6
    <3> QED
      BY <2>2, <3>1, <3>2
  <2>4. ASSUME NEW b \in 0 .. 7, b \in R PROVE b + 1 \in R
    <3>1. PICK n \in 0 .. 8 * L - 1 : n = 8 * j + b
      OBVIOUS
    <3>2. PICK e \in Int : e = 8 * L + 7 - n
      OBVIOUS
    <3>3. h[n] = Over(p, f[b], e)
      BY <2>4, <3>1, <3>2
    <3>4. f[b] \in Byte
      OBVIOUS
    <3>5. CancelDegree(Over(p, f[b], e), e) = Over(p, CrcBit(f[b], (7 - b) \in w[j + 1]), e - 1)
      <4>1. j \in 0 .. Len(w) - 1 /\ e = 8 * Len(w) + 7 - (8 * j + b)
        BY <1>1, <3>1, <3>2
      <4> QED
        BY <3>4, <4>1, BitDivides
    <3>6. h[n + 1] = CancelDegree(h[n], e)
      BY <1>3, <3>2
    <3>7. f[b + 1] = CrcBit(f[b], (7 - b) \in w[j + 1])
      BY <2>2
    <3>8. n + 1 = 8 * j + (b + 1) /\ e - 1 = 8 * L + 7 - (8 * j + (b + 1)) /\ b + 1 \in 0 .. 8
      BY <3>1, <3>2
    <3>9. h[n + 1] = Over(p, f[b + 1], e - 1)
      BY <3>3, <3>5, <3>6, <3>7, Zenon
    <3> HIDE DEF p
    <3> QED
      BY <3>8, <3>9
  <2>5. 0 .. 8 \subseteq R
    <3> HIDE DEF R
    <3>1. PICK m \in Nat : m = 8
      OBVIOUS
    <3>2. \A b \in 0 .. m - 1 : b \in R => b + 1 \in R
      BY <2>4, <3>1
    <3> QED
      BY <2>3, <3>1, <3>2, UpTo
  <2>6. h[8 * j + 8] = Over(p, f[8], 8 * L + 7 - (8 * j + 8))
    <3>1. 8 \in 0 .. 8
      OBVIOUS
    <3> QED
      BY <2>5, <3>1
  <2>7. g[j + 1] = f[8]
    BY <1>2, <2>2
  <2>8. 8 * j + 8 = 8 * (j + 1) /\ j + 1 \in 0 .. L
    OBVIOUS
  <2> HIDE DEF p
  <2> QED
    BY <2>6, <2>7, <2>8
<1>7. L \in S
  <2> HIDE DEF S
  <2>1. 0 .. L \subseteq S
    BY <1>5, <1>6, UpTo
  <2> QED
    BY <2>1
<1>8. Remainder(w) = Over(p, g[L], 7)
  <2>1. 8 * L + 7 - 8 * L = 7
    OBVIOUS
  <2> HIDE DEF p
  <2> QED
    BY <1>3, <1>7, <2>1
<1>9. Over(p, g[L], 7) = g[L]
  <2>1. g[L] \in SUBSET Int
    BY DEF Byte, Bit
  <2>2. \A x \in Int : x \in Over(p, g[L], 7) <=> ~(x \in p /\ x <= 7 <=> x - 7 + 7 \in g[L])
    BY <1>4, <2>1, OverHas
  <2>3. \A x \in p : ~(x <= 7)
    BY <1>4
  <2>4. \A x \in Int : x - 7 + 7 = x
    OBVIOUS
  <2>5. Over(p, g[L], 7) \in SUBSET Int
    BY <1>4, <2>1, OverInt
  <2> HIDE DEF p
  <2>6. \A x \in Int : x \in Over(p, g[L], 7) <=> x \in g[L]
    BY <2>2, <2>3, <2>4
  <2> QED
    BY <2>1, <2>5, <2>6
<1> QED
  BY <1>2, <1>8, <1>9

-----------------------------------------------------------------------------
(* What the battery has sent.                                              *)
Sent == /\ cmd \in Byte
        /\ reply \in Words
        /\ crc = GenerateSmbusCrc(cmd, reply, isBlock, TRUE)

LEMMA SentInit == CrcInit => Sent
<1> SUFFICES ASSUME CrcInit PROVE Sent
  OBVIOUS
<1>1. cmd \in Byte /\ reply = << >>
  BY CrcAssumption DEF CrcAssumption, CrcInit
<1>2. reply \in Words
  BY <1>1 DEF Words
<1> QED
  BY <1>1, <1>2 DEF Sent, CrcInit

LEMMA SentNext == Sent /\ [CrcNext]_crcVars => Sent'
<1> SUFFICES ASSUME Sent, [CrcNext]_crcVars PROVE Sent'
  OBVIOUS
<1>1. ASSUME NEW b \in Bytes, Extend(b) PROVE Sent'
  <2>1. b \in Byte
    BY CrcAssumption DEF CrcAssumption
  <2>2. reply' \in Words
    BY <1>1, <2>1 DEF Sent, Words, Extend
  <2> QED
    BY <1>1, <2>2 DEF Sent, Extend
<1>2. ASSUME UNCHANGED <<cmd, isBlock, reply, crc>> PROVE Sent'
  BY <1>2 DEF Sent
<1> QED
  BY <1>1, <1>2 DEF CrcNext, Flip, Validate, crcVars

LEMMA TwoAndOne ==
  ASSUME NEW S, NEW a \in S, NEW b \in S, NEW c \in S
  PROVE  <<a, b>> \o <<c>> = <<a, b, c>>
<1> DEFINE s == <<a, b>>
           t == <<c>>
           u == <<a, b, c>>
<1>1. s \in Seq(S) /\ t \in Seq(S) /\ u \in Seq(S)
  OBVIOUS
<1>2. /\ Len(s) = 2 /\ s[1] = a /\ s[2] = b
      /\ Len(t) = 1 /\ t[1] = c
      /\ Len(u) = 3 /\ u[1] = a /\ u[2] = b /\ u[3] = c
  OBVIOUS
<1> HIDE DEF s, t, u
<1>3. /\ s \o t \in Seq(S)
      /\ Len(s \o t) = Len(s) + Len(t)
      /\ \A i \in 1 .. Len(s) + Len(t) : (s \o t)[i] = IF i <= Len(s) THEN s[i] ELSE t[i - Len(s)]
  BY <1>1, ConcatProperties
<1>4. ASSUME NEW i \in 1 .. 3 PROVE (s \o t)[i] = u[i]
  <2>1. i = 1 \/ i = 2 \/ i = 3
    OBVIOUS
  <2>2. (s \o t)[i] = IF i <= 2 THEN s[i] ELSE t[i - 2]
    BY <1>2, <1>3
  <2> QED
    BY <1>2, <2>1, <2>2
<1>5. s \o t = u
  BY <1>1, <1>2, <1>3, <1>4, SeqEqual
<1> QED
  BY <1>5 DEF s, t, u

LEMMA SentIsFrame == Sent => ChecksumIsSmbus
<1> SUFFICES ASSUME Sent PROVE ChecksumIsSmbus
  OBVIOUS
<1> DEFINE w == Frame
<1>0. WriteAddress \in Byte /\ ReadAddress \in Byte /\ cmd \in Byte
  <2>1. Shift(Address) \in Byte /\ 0 \in 0 .. 7
    <3>1. Address \in SUBSET Int /\ \A x \in Address : x \in 0 .. 7
      BY CrcAssumption DEF CrcAssumption, Byte, Bit
    <3>2. Shift(Address) \subseteq 0 .. 7
      BY <3>1 DEF Shift
    <3> QED
      BY <3>2 DEF Byte, Bit
  <2>2. WriteAddress \in Byte /\ ReadAddress \in Byte
    BY <2>1 DEF Byte, Bit, Shift, WriteAddress, ReadAddress
  <2>3. cmd \in Byte
    BY DEF Sent
  <2> QED
    BY <2>2, <2>3
<1>1. w = Covered(cmd, reply, isBlock, TRUE)
  <2>1. AddressByte(Address, ~TRUE) = WriteAddress
    BY DEF AddressByte, WriteAddress
  <2>2. AddressByte(Address, TRUE) = ReadAddress
    BY DEF AddressByte, ReadAddress
  <2>3. <<WriteAddress, cmd>> \o <<ReadAddress>>
          = <<WriteAddress, cmd, ReadAddress>>
    BY <1>0, TwoAndOne
  <2> QED
    BY <2>1, <2>2, <2>3 DEF Covered, Frame
<1>2. w \in Words
  <2>3. ToByte(Len(reply)) \in Byte
    BY DEF Byte, Bit, ToByte
  <2>4. reply \in Seq(Byte)
    BY DEF Sent, Words
  <2> DEFINE first == <<WriteAddress, cmd, ReadAddress>>
             length == IF isBlock THEN <<ToByte(Len(reply))>> ELSE << >>
  <2>5. first \in Seq(Byte)
    BY <1>0
  <2>6. length \in Seq(Byte)
    BY <2>3
  <2>7. w = first \o length \o reply
    BY DEF Frame
  <2> HIDE DEF w, first, length
  <2>8. first \o length \in Seq(Byte)
    BY <2>5, <2>6, ConcatProperties
  <2> QED
    BY <2>4, <2>7, <2>8, ConcatProperties DEF Words
<1>3. crc = CrcOver(w)
  BY <1>1 DEF Sent, GenerateSmbusCrc, CrcOver
<1>4. CrcOver(w) = Remainder(w)
  <2> HIDE DEF w
  <2> QED
    BY <1>2, CrcDivides
<1> QED
  BY <1>3, <1>4 DEF ChecksumIsSmbus

(* The checksum of a read, made a bit at a time over pieces that are put   *)
(* together for the purpose, is the CRC-8 of what is on the wire, for any  *)
(* address, command and reply (smbus.c:19-73).                             *)
THEOREM ChecksumIsSmbusHolds == CrcSpec => []ChecksumIsSmbus
<1>1. CrcInit => Sent
  BY SentInit
<1>2. Sent /\ [CrcNext]_crcVars => Sent'
  BY SentNext
<1>3. Sent => ChecksumIsSmbus
  BY SentIsFrame
<1> QED
  BY <1>1, <1>2, <1>3, PTL DEF CrcSpec

-----------------------------------------------------------------------------
(* No round of the loop forgets a difference between two registers.        *)
LEMMA ByteIs ==
  /\ Byte = SUBSET (0 .. 7)
  /\ \A c \in Byte : c \in SUBSET Int /\ c \subseteq 0 .. 7
BY DEF Byte, Bit

LEMMA Truth ==
  ASSUME NEW x, NEW S
  PROVE  \E bit \in BOOLEAN : bit = (x \in S)
<1>1. CASE x \in S
  <2>1. (x \in S) = TRUE
    BY <1>1
  <2> QED
    BY <2>1, Zenon
<1>2. CASE x \notin S
  <2>1. (x \in S) = FALSE
    BY <1>2
  <2> QED
    BY <2>1, Zenon
<1> QED
  BY <1>1, <1>2

LEMMA BitKeeps ==
  ASSUME NEW c \in Byte, NEW d \in Byte, c # d, NEW bit \in BOOLEAN
  PROVE  CrcBit(c, bit) # CrcBit(d, bit)
<1>1. c \in SUBSET Int /\ d \in SUBSET Int /\ c \subseteq 0 .. 7 /\ d \subseteq 0 .. 7
  BY ByteIs
<1>2. CASE ~(7 \in c <=> 7 \in d)
  <2>1. ASSUME NEW r \in SUBSET Int, r \subseteq 0 .. 7
        PROVE  0 \in CrcBit(r, bit) <=> ~(bit <=> 7 \in r)
    <3>1. 0 \in Int /\ 0 - 1 \notin r
      BY <2>1
    <3> QED
      BY <3>1, CrcBitHas
  <2> QED
    BY <1>1, <1>2, <2>1
<1>3. CASE 7 \in c <=> 7 \in d
  <2>1. PICK k \in 0 .. 7 : ~(k \in c <=> k \in d)
    BY <1>1
  <2>2. PICK x \in Int : x = k + 1
    OBVIOUS
  <2>3. x - 1 = k /\ x # 8
    BY <1>3, <2>1, <2>2
  <2>4. x \in CrcBit(c, bit) <=> IF bit <=> 7 \in c THEN x - 1 \in c /\ x # 8
                                 ELSE ~(x - 1 \in c /\ x # 8 <=> x \in {0, 1, 2})
    BY <1>1, CrcBitHas
  <2>5. x \in CrcBit(d, bit) <=> IF bit <=> 7 \in d THEN x - 1 \in d /\ x # 8
                                 ELSE ~(x - 1 \in d /\ x # 8 <=> x \in {0, 1, 2})
    BY <1>1, CrcBitHas
  <2> QED
    BY <1>3, <2>1, <2>3, <2>4, <2>5
<1> QED
  BY <1>2, <1>3

LEMMA GenerateKeeps ==
  ASSUME NEW c \in Byte, NEW d \in Byte, c # d, NEW byte \in Byte
  PROVE  GenerateCrc(c, byte) # GenerateCrc(d, byte)
<1>1. PICK f \in [0 .. 8 -> Byte] :
         /\ f[0] = c
         /\ \A b \in 0 .. 7 : f[b + 1] = CrcBit(f[b], (7 - b) \in byte)
         /\ GenerateCrc(c, byte) = f[8]
  BY GenerateIs, Zenon
<1>2. PICK g \in [0 .. 8 -> Byte] :
         /\ g[0] = d
         /\ \A b \in 0 .. 7 : g[b + 1] = CrcBit(g[b], (7 - b) \in byte)
         /\ GenerateCrc(d, byte) = g[8]
  BY GenerateIs, Zenon
<1> DEFINE S == {b \in 0 .. 8 : f[b] # g[b]}
<1>3. 0 \in S
  <2>1. 0 \in 0 .. 8
    OBVIOUS
  <2>2. f[0] = c /\ g[0] = d
    BY <1>1, <1>2, Zenon
  <2>3. f[0] # g[0]
    BY <2>2
  <2> QED
    BY <2>1, <2>3
<1>4. ASSUME NEW b \in 0 .. 7, b \in S PROVE b + 1 \in S
  <2>1. PICK bit \in BOOLEAN : bit = ((7 - b) \in byte)
    BY Truth
  <2>2. f[b + 1] = CrcBit(f[b], bit) /\ g[b + 1] = CrcBit(g[b], bit)
    BY <1>1, <1>2, <2>1, Zenon
  <2>3. f[b] \in Byte /\ g[b] \in Byte /\ f[b] # g[b] /\ b + 1 \in 0 .. 8
    BY <1>4
  <2> QED
    BY <2>2, <2>3, BitKeeps
<1>5. 0 .. 8 \subseteq S
  <2> HIDE DEF S
  <2>1. PICK m \in Nat : m = 8
    OBVIOUS
  <2>2. \A b \in 0 .. m - 1 : b \in S => b + 1 \in S
    BY <1>4, <2>1
  <2> QED
    BY <1>3, <2>1, <2>2, UpTo
<1>6. 8 \in S
  <2>1. 8 \in 0 .. 8
    OBVIOUS
  <2> QED
    BY <1>5, <2>1
<1> QED
  BY <1>1, <1>2, <1>6

(* The bits of a byte can as well be put in the register before.           *)
LEMMA BitFolds ==
  ASSUME NEW r \in SUBSET Int, NEW q \in SUBSET Int,
         NEW bit \in BOOLEAN, bit <=> 7 \in q
  PROVE  CrcBit(Xor(r, q), FALSE) = Xor(CrcBit(r, bit), Shift(q))
<1> DEFINE left == CrcBit(Xor(r, q), FALSE)
           right == Xor(CrcBit(r, bit), Shift(q))
<1>1. \A a, b \in SUBSET Int : Xor(a, b) \in SUBSET Int
  BY DEF Xor
<1>2. \A a \in SUBSET Int : Shift(a) \in SUBSET Int
  BY DEF Shift
<1>3. ASSUME NEW a \in SUBSET Int, NEW b PROVE CrcBit(a, b) \in SUBSET Int
  <2>1. CrcBit(a, b) \subseteq Shift(a) \cup {0, 1, 2}
    BY DEF CrcBit, Shift, Xor
  <2>2. Shift(a) \in SUBSET Int
    BY <1>2
  <2> QED
    BY <2>1, <2>2
<1>4. left \in SUBSET Int /\ right \in SUBSET Int
  BY <1>1, <1>2, <1>3
<1>5. 7 \in Xor(r, q) <=> ~(7 \in r <=> bit)
  BY XorHas
<1>6. ASSUME NEW x \in Int PROVE x \in left <=> x \in right
  <2>1. PICK s \in SUBSET Int : s = Xor(r, q)
    BY <1>1
  <2>2. PICK y \in Int : y = x - 1
    OBVIOUS
  <2>3. y \in s <=> ~(y \in r <=> y \in q)
    BY <2>1, XorHas
  <2>4. x \in CrcBit(s, FALSE) <=> IF FALSE <=> 7 \in s THEN x - 1 \in s /\ x # 8
                                   ELSE ~(x - 1 \in s /\ x # 8 <=> x \in {0, 1, 2})
    BY CrcBitHas
  <2>5. x \in CrcBit(r, bit) <=> IF bit <=> 7 \in r THEN x - 1 \in r /\ x # 8
                                 ELSE ~(x - 1 \in r /\ x # 8 <=> x \in {0, 1, 2})
    BY CrcBitHas
  <2>6. x \in Shift(q) <=> x - 1 \in q /\ x # 8
    BY ShiftHas
  <2>7. x \in right <=> ~(x \in CrcBit(r, bit) <=> x \in Shift(q))
    BY XorHas
  <2>8. x \in left <=> x \in CrcBit(s, FALSE)
    BY <2>1
  <2>9. 7 \in s <=> ~(7 \in r <=> bit)
    BY <1>5, <2>1
  <2> HIDE DEF left, right
  <2> QED
    BY <2>2, <2>3, <2>4, <2>5, <2>6, <2>7, <2>8, <2>9
<1> HIDE DEF left, right
<1>7. left = right
  BY <1>4, <1>6
<1> QED
  BY <1>7 DEF left, right

LEMMA GenerateFolds ==
  ASSUME NEW c \in Byte, NEW byte \in Byte
  PROVE  GenerateCrc(c, byte) = GenerateCrc(Xor(c, byte), {})
<1>1. {} \in Byte /\ Xor(c, byte) \in Byte
  BY ByteIs DEF Xor
<1>2. PICK f \in [0 .. 8 -> Byte] :
         /\ f[0] = c
         /\ \A b \in 0 .. 7 : f[b + 1] = CrcBit(f[b], (7 - b) \in byte)
         /\ GenerateCrc(c, byte) = f[8]
  BY GenerateIs, Zenon
<1>3. PICK z \in [0 .. 8 -> Byte] :
         /\ z[0] = Xor(c, byte)
         /\ \A b \in 0 .. 7 : z[b + 1] = CrcBit(z[b], (7 - b) \in {})
         /\ GenerateCrc(Xor(c, byte), {}) = z[8]
  BY <1>1, GenerateIs, Zenon
<1> DEFINE left(b) == {k + b : k \in {m \in byte : m + b <= 7}}
           S == {b \in 0 .. 8 : z[b] = Xor(f[b], left(b))}
<1>4. byte \in SUBSET Int /\ byte \subseteq 0 .. 7
  BY ByteIs
<1>5. ASSUME NEW b \in 0 .. 8, NEW x \in Int PROVE x \in left(b) <=> x - b \in byte /\ x <= 7
  <2>1. ASSUME x \in left(b) PROVE x - b \in byte /\ x <= 7
    <3>1. PICK k \in byte : x = k + b /\ k + b <= 7
      BY <2>1
    <3>2. k \in Int /\ x - b = k
      BY <1>4, <3>1
    <3> QED
      BY <3>1, <3>2
  <2>2. ASSUME x - b \in byte, x <= 7 PROVE x \in left(b)
    <3>1. PICK k \in Int : k = x - b
      OBVIOUS
    <3>2. k \in byte /\ x = k + b /\ k + b <= 7
      BY <2>2, <3>1
    <3> QED
      BY <3>2
  <2> QED
    BY <2>1, <2>2
<1>6. ASSUME NEW b \in 0 .. 8 PROVE left(b) \in SUBSET Int
  <2>1. \A m \in byte : m + b \in Int
    BY <1>4
  <2> QED
    BY <2>1
<1> HIDE DEF left
<1>7. 0 \in S
  <2>1. \A x \in Int : x \in left(0) <=> x \in byte
    <3>1. ASSUME NEW x \in Int PROVE x \in left(0) <=> x \in byte
      <4>1. x \in left(0) <=> x - 0 \in byte /\ x <= 7
        BY <1>5
      <4>2. x \in byte => x <= 7
        BY <1>4
      <4>3. x - 0 = x
        OBVIOUS
      <4> QED
        BY <4>1, <4>2, <4>3
    <3> QED
      BY <3>1
  <2>2. 0 \in 0 .. 8
    OBVIOUS
  <2>3. left(0) \in SUBSET Int
    BY <1>6, <2>2
  <2>4. left(0) = byte
    BY <1>4, <2>1, <2>3
  <2>5. z[0] = Xor(c, byte) /\ f[0] = c
    BY <1>2, <1>3, Zenon
  <2>6. z[0] = Xor(f[0], left(0))
    BY <2>4, <2>5
  <2> QED
    BY <2>2, <2>6
<1>8. ASSUME NEW b \in 0 .. 7, b \in S PROVE b + 1 \in S
  <2>1. PICK bit \in BOOLEAN : bit = ((7 - b) \in byte)
    BY Truth
  <2>2. f[b + 1] = CrcBit(f[b], bit)
    BY <1>2, <2>1, Zenon
  <2>3. z[b + 1] = CrcBit(z[b], FALSE)
    <3>1. ((7 - b) \in {}) = FALSE
      OBVIOUS
    <3> QED
      BY <1>3, <3>1, Zenon
  <2>4. z[b] = Xor(f[b], left(b))
    BY <1>8
  <2>5. PICK q \in SUBSET Int : q = left(b)
    BY <1>6
  <2>6. bit <=> 7 \in q
    <3>1. b \in 0 .. 8 /\ 7 \in Int /\ 7 <= 7
      OBVIOUS
    <3> QED
      BY <1>5, <2>1, <2>5, <3>1
  <2>7. f[b] \in SUBSET Int
    BY ByteIs
  <2>8. CrcBit(Xor(f[b], q), FALSE) = Xor(CrcBit(f[b], bit), Shift(q))
    BY <2>6, <2>7, BitFolds
  <2>9. Shift(q) = left(b + 1)
    <3>1. Shift(q) \in SUBSET Int /\ left(b + 1) \in SUBSET Int
      <4>1. b + 1 \in 0 .. 8
        OBVIOUS
      <4> QED
        BY <1>6, <4>1 DEF Shift
    <3>2. ASSUME NEW x \in Int PROVE x \in Shift(q) <=> x \in left(b + 1)
      <4>1. x \in Shift(q) <=> x - 1 \in q /\ x # 8
        BY ShiftHas
      <4>2. PICK y \in Int : y = x - 1
        OBVIOUS
      <4>3. y \in q <=> y - b \in byte /\ y <= 7
        BY <1>5, <2>5
      <4>4. x \in left(b + 1) <=> x - (b + 1) \in byte /\ x <= 7
        BY <1>5
      <4>5. y - b = x - (b + 1) /\ (y <= 7 /\ x # 8 <=> x <= 7)
        BY <4>2
      <4> QED
        BY <4>1, <4>2, <4>3, <4>4, <4>5
    <3> QED
      BY <3>1, <3>2
  <2>10. z[b + 1] = Xor(f[b + 1], left(b + 1))
    BY <2>2, <2>3, <2>4, <2>5, <2>8, <2>9, Zenon
  <2> QED
    BY <2>10
<1>9. 0 .. 8 \subseteq S
  <2> HIDE DEF S
  <2>1. PICK m \in Nat : m = 8
    OBVIOUS
  <2>2. \A b \in 0 .. m - 1 : b \in S => b + 1 \in S
    BY <1>8, <2>1
  <2> QED
    BY <1>7, <2>1, <2>2, UpTo
<1>10. z[8] = Xor(f[8], left(8))
  <2>1. 8 \in 0 .. 8
    OBVIOUS
  <2> QED
    BY <1>9, <2>1
<1>11. left(8) = {}
  <2>1. ASSUME NEW x \in Int PROVE x \notin left(8)
    <3>1. x \in left(8) <=> x - 8 \in byte /\ x <= 7
      BY <1>5
    <3>2. x - 8 \in byte => x - 8 >= 0
      BY <1>4
    <3> QED
      BY <3>1, <3>2
  <2> QED
    BY <1>6, <2>1
<1>12. z[8] = f[8]
  BY <1>10, <1>11 DEF Xor
<1> QED
  BY <1>2, <1>3, <1>12

LEMMA GenerateDiffers ==
  ASSUME NEW c \in Byte, NEW a \in Byte, NEW b \in Byte, a # b
  PROVE  GenerateCrc(c, a) # GenerateCrc(c, b)
<1>1. {} \in Byte /\ Xor(c, a) \in Byte /\ Xor(c, b) \in Byte
  BY ByteIs DEF Xor
<1>2. Xor(c, a) # Xor(c, b)
  <2>1. PICK x : ~(x \in a <=> x \in b)
    BY ByteIs
  <2>2. ~(x \in Xor(c, a) <=> x \in Xor(c, b))
    BY <2>1, XorHas
  <2> QED
    BY <2>2
<1>3. GenerateCrc(Xor(c, a), {}) # GenerateCrc(Xor(c, b), {})
  BY <1>1, <1>2, GenerateKeeps
<1> QED
  BY <1>3, GenerateFolds

(* The checksum of bytes that differ in one of them.                       *)
LEMMA CrcDiffers ==
  ASSUME NEW w \in Words, NEW v \in Words, Len(w) = Len(v),
         NEW q \in 1 .. Len(w), w[q] # v[q],
         \A j \in 1 .. Len(w) : j # q => w[j] = v[j]
  PROVE  CrcOver(w) # CrcOver(v)
<1>1. PICK L \in Nat : L = Len(w) /\ L = Len(v)
  BY DEF Words
<1>2. PICK f \in [0 .. L -> Byte] :
         /\ f[0] = {}
         /\ \A j \in 0 .. L - 1 : f[j + 1] = GenerateCrc(f[j], w[j + 1])
         /\ CrcOver(w) = f[L]
  BY <1>1, CrcIs, Zenon
<1>3. PICK g \in [0 .. L -> Byte] :
         /\ g[0] = {}
         /\ \A j \in 0 .. L - 1 : g[j + 1] = GenerateCrc(g[j], v[j + 1])
         /\ CrcOver(v) = g[L]
  BY <1>1, CrcIs, Zenon
<1> DEFINE S == {j \in 0 .. L : IF j < q THEN f[j] = g[j] ELSE f[j] # g[j]}
<1>4. 0 \in S
  <2>1. 0 \in 0 .. L /\ 0 < q
    BY <1>1
  <2>2. f[0] = g[0]
    BY <1>2, <1>3
  <2> QED
    BY <2>1, <2>2
<1>5. ASSUME NEW j \in 0 .. L - 1, j \in S PROVE j + 1 \in S
  <2>1. PICK i \in 1 .. L : i = j + 1
    OBVIOUS
  <2>2. f[i] = GenerateCrc(f[j], w[i]) /\ g[i] = GenerateCrc(g[j], v[i])
    BY <1>2, <1>3, <2>1
  <2>3. f[j] \in Byte /\ g[j] \in Byte /\ w[i] \in Byte /\ v[i] \in Byte
    <3>1. j \in 0 .. L
      OBVIOUS
    <3> QED
      BY <1>1, <3>1 DEF Words
  <2>4. CASE i < q
    <3>1. w[i] = v[i] /\ j < q
      BY <1>1, <2>1, <2>4
    <3>2. f[i] = g[i]
      BY <1>5, <2>2, <3>1
    <3> QED
      BY <2>1, <2>4, <3>2
  <2>5. CASE i = q
    <3>1. f[j] = g[j]
      BY <1>5, <2>1, <2>5
    <3>2. f[i] # g[i]
      BY <2>2, <2>3, <2>5, <3>1, GenerateDiffers
    <3> QED
      BY <2>1, <2>5, <3>2
  <2>6. CASE q < i
    <3>1. w[i] = v[i] /\ ~(j < q)
      BY <1>1, <2>1, <2>6
    <3>2. f[j] # g[j]
      BY <1>5, <3>1
    <3>3. f[i] # g[i]
      BY <2>2, <2>3, <3>1, <3>2, GenerateKeeps
    <3> QED
      BY <2>1, <2>6, <3>3
  <2>7. i < q \/ i = q \/ q < i
    BY <1>1
  <2> QED
    BY <2>4, <2>5, <2>6, <2>7
<1>6. L \in S
  <2> HIDE DEF S
  <2>1. 0 .. L \subseteq S
    BY <1>4, <1>5, UpTo
  <2> QED
    BY <2>1
<1>7. ~(L < q)
  BY <1>1
<1> QED
  BY <1>2, <1>3, <1>6, <1>7

-----------------------------------------------------------------------------
(* Two flipped bits.  What a single bit becomes as zeros are shifted in    *)
(* behind it: the powers of x modulo the generator.                        *)
Powers(f, n) ==
    /\ f \in [0 .. n -> Byte]
    /\ f[0] = {0}
    /\ \A i \in 0 .. n - 1 : f[i + 1] = CrcBit(f[i], FALSE)

LEMMA PowersExist ==
  ASSUME NEW n \in Nat
  PROVE  \E f : Powers(f, n)
<1> DEFINE T == [i \in 1 .. n |-> [d \in Byte |-> CrcBit(d, FALSE)]]
<1>1. {0} \in Byte
  BY ByteIs
<1>2. \A i \in 1 .. n : T[i] \in [Byte -> Byte] /\ \A d \in Byte : T[i][d] = CrcBit(d, FALSE)
  BY CrcBitByte
<1> HIDE DEF T
<1>3. Maps(T, n, Byte)
  BY <1>2 DEF Maps
<1>4. \E f : Applied(f, n, {0}, T, Byte)
  BY <1>1, <1>3, Recursion
<1>5. PICK f \in [0 .. n -> Byte] : f[0] = {0} /\ \A i \in 1 .. n : f[i] = T[i][f[i - 1]]
  BY <1>4, Zenon DEF Applied
<1>6. ASSUME NEW i \in 0 .. n - 1 PROVE f[i + 1] = CrcBit(f[i], FALSE)
  <2>1. PICK j \in 1 .. n : j = i + 1
    OBVIOUS
  <2>2. j - 1 = i /\ f[i] \in Byte
    BY <2>1
  <2>3. f[j] = T[j][f[j - 1]]
    BY <1>5
  <2>4. T[j][f[i]] = CrcBit(f[i], FALSE)
    BY <1>2, <2>2
  <2> QED
    BY <2>1, <2>2, <2>3, <2>4
<1> QED
  BY <1>5, <1>6 DEF Powers

(* One round with a zero, bit by bit.                                      *)
LEMMA ShiftedBits ==
  ASSUME NEW c \in Byte
  PROVE  /\ CrcBit(c, FALSE) \in Byte
         /\ 0 \in CrcBit(c, FALSE) <=> 7 \in c
         /\ 1 \in CrcBit(c, FALSE) <=> ~(0 \in c <=> 7 \in c)
         /\ 2 \in CrcBit(c, FALSE) <=> ~(1 \in c <=> 7 \in c)
         /\ \A k \in 3 .. 7 : k \in CrcBit(c, FALSE) <=> k - 1 \in c
<1>1. c \in SUBSET Int /\ -1 \notin c
  BY ByteIs
<1>2. ASSUME NEW x \in Int
      PROVE  x \in CrcBit(c, FALSE) <=> IF 7 \in c THEN ~(x - 1 \in c /\ x # 8 <=> x \in {0, 1, 2})
                                        ELSE x - 1 \in c /\ x # 8
  <2>1. x \in CrcBit(c, FALSE) <=> IF FALSE <=> 7 \in c THEN x - 1 \in c /\ x # 8
                                   ELSE ~(x - 1 \in c /\ x # 8 <=> x \in {0, 1, 2})
    BY <1>1, CrcBitHas
  <2> QED
    BY <2>1
<1>3. 0 \in CrcBit(c, FALSE) <=> 7 \in c
  <2>1. 0 \in Int /\ 0 - 1 = -1 /\ 0 # 8 /\ 0 \in {0, 1, 2}
    OBVIOUS
  <2> QED
    BY <1>1, <1>2, <2>1
<1>4. 1 \in CrcBit(c, FALSE) <=> ~(0 \in c <=> 7 \in c)
  <2>1. 1 \in Int /\ 1 - 1 = 0 /\ 1 # 8 /\ 1 \in {0, 1, 2}
    OBVIOUS
  <2> QED
    BY <1>2, <2>1
<1>5. 2 \in CrcBit(c, FALSE) <=> ~(1 \in c <=> 7 \in c)
  <2>1. 2 \in Int /\ 2 - 1 = 1 /\ 2 # 8 /\ 2 \in {0, 1, 2}
    OBVIOUS
  <2> QED
    BY <1>2, <2>1
<1>6. ASSUME NEW k \in 3 .. 7 PROVE k \in CrcBit(c, FALSE) <=> k - 1 \in c
  <2>1. k \in Int /\ k # 8 /\ k \notin {0, 1, 2}
    OBVIOUS
  <2> QED
    BY <1>2, <2>1
<1> QED
  BY <1>3, <1>4, <1>5, <1>6, CrcBitByte

LEMMA BytesEqual ==
  ASSUME NEW c \in Byte, NEW d \in Byte,
         0 \in c <=> 0 \in d, 1 \in c <=> 1 \in d, 2 \in c <=> 2 \in d, 3 \in c <=> 3 \in d,
         4 \in c <=> 4 \in d, 5 \in c <=> 5 \in d, 6 \in c <=> 6 \in d, 7 \in c <=> 7 \in d
  PROVE  c = d
<1>1. \A k \in 0 .. 7 : k = 0 \/ k = 1 \/ k = 2 \/ k = 3 \/ k = 4 \/ k = 5 \/ k = 6 \/ k = 7
  OBVIOUS
<1>2. \A k \in 0 .. 7 : k \in c <=> k \in d
  BY <1>1
<1> QED
  BY <1>2, ByteIs

(* The square of a polynomial, modulo the generator.                       *)
Odd(a, b) == ~(a <=> b)

Square(c) ==
    {k \in 0 .. 7 :
        \/ k = 0 /\ Odd(0 \in c, Odd(4 \in c, 7 \in c))
        \/ k = 1 /\ Odd(4 \in c, 7 \in c)
        \/ k = 2 /\ Odd(Odd(1 \in c, 4 \in c), Odd(5 \in c, 7 \in c))
        \/ k = 3 /\ 5 \in c
        \/ k = 4 /\ Odd(2 \in c, Odd(5 \in c, 6 \in c))
        \/ k = 5 /\ 6 \in c
        \/ k = 6 /\ Odd(3 \in c, Odd(6 \in c, 7 \in c))
        \/ k = 7 /\ 7 \in c}

LEMMA SquareBits ==
  ASSUME NEW c
  PROVE  /\ Square(c) \in Byte
         /\ 0 \in Square(c) <=> Odd(0 \in c, Odd(4 \in c, 7 \in c))
         /\ 1 \in Square(c) <=> Odd(4 \in c, 7 \in c)
         /\ 2 \in Square(c) <=> Odd(Odd(1 \in c, 4 \in c), Odd(5 \in c, 7 \in c))
         /\ 3 \in Square(c) <=> 5 \in c
         /\ 4 \in Square(c) <=> Odd(2 \in c, Odd(5 \in c, 6 \in c))
         /\ 5 \in Square(c) <=> 6 \in c
         /\ 6 \in Square(c) <=> Odd(3 \in c, Odd(6 \in c, 7 \in c))
         /\ 7 \in Square(c) <=> 7 \in c
<1>1. Square(c) \in Byte
  BY ByteIs DEF Square
<1>2. /\ 0 \in Square(c) <=> Odd(0 \in c, Odd(4 \in c, 7 \in c))
      /\ 1 \in Square(c) <=> Odd(4 \in c, 7 \in c)
      /\ 2 \in Square(c) <=> Odd(Odd(1 \in c, 4 \in c), Odd(5 \in c, 7 \in c))
      /\ 3 \in Square(c) <=> 5 \in c
  BY DEF Square, Odd
<1>3. /\ 4 \in Square(c) <=> Odd(2 \in c, Odd(5 \in c, 6 \in c))
      /\ 5 \in Square(c) <=> 6 \in c
      /\ 6 \in Square(c) <=> Odd(3 \in c, Odd(6 \in c, 7 \in c))
      /\ 7 \in Square(c) <=> 7 \in c
  BY DEF Square, Odd
<1> QED
  BY <1>1, <1>2, <1>3

LEMMA SquareShifts ==
  ASSUME NEW c \in Byte
  PROVE  Square(CrcBit(c, FALSE)) = CrcBit(CrcBit(Square(c), FALSE), FALSE)
<1> DEFINE d == CrcBit(c, FALSE)
           s == Square(c)
           t == CrcBit(s, FALSE)
           u == CrcBit(t, FALSE)
           v == Square(d)
<1>1. d \in Byte /\ s \in Byte /\ t \in Byte /\ u \in Byte /\ v \in Byte
  BY ShiftedBits, SquareBits
<1>3. ASSUME NEW r \in Byte
      PROVE  /\ 3 \in CrcBit(r, FALSE) <=> 2 \in r
             /\ 4 \in CrcBit(r, FALSE) <=> 3 \in r
             /\ 5 \in CrcBit(r, FALSE) <=> 4 \in r
             /\ 6 \in CrcBit(r, FALSE) <=> 5 \in r
             /\ 7 \in CrcBit(r, FALSE) <=> 6 \in r
  <2>1. \A k \in 3 .. 7 : k \in CrcBit(r, FALSE) <=> k - 1 \in r
    BY ShiftedBits
  <2>2. 3 - 1 = 2 /\ 4 - 1 = 3 /\ 5 - 1 = 4 /\ 6 - 1 = 5 /\ 7 - 1 = 6
    OBVIOUS
  <2>3. 3 \in 3 .. 7 /\ 4 \in 3 .. 7 /\ 5 \in 3 .. 7 /\ 6 \in 3 .. 7 /\ 7 \in 3 .. 7
    OBVIOUS
  <2> QED
    BY <2>1, <2>2, <2>3
<1>4. ASSUME NEW r \in Byte
      PROVE  /\ 0 \in CrcBit(r, FALSE) <=> 7 \in r
             /\ 1 \in CrcBit(r, FALSE) <=> Odd(0 \in r, 7 \in r)
             /\ 2 \in CrcBit(r, FALSE) <=> Odd(1 \in r, 7 \in r)
  BY ShiftedBits DEF Odd
<1>5. /\ 0 \in s <=> Odd(0 \in c, Odd(4 \in c, 7 \in c))
      /\ 1 \in s <=> Odd(4 \in c, 7 \in c)
      /\ 2 \in s <=> Odd(Odd(1 \in c, 4 \in c), Odd(5 \in c, 7 \in c))
      /\ 3 \in s <=> 5 \in c
      /\ 4 \in s <=> Odd(2 \in c, Odd(5 \in c, 6 \in c))
      /\ 5 \in s <=> 6 \in c
      /\ 6 \in s <=> Odd(3 \in c, Odd(6 \in c, 7 \in c))
      /\ 7 \in s <=> 7 \in c
  BY SquareBits
<1>6. /\ 0 \in v <=> Odd(0 \in d, Odd(4 \in d, 7 \in d))
      /\ 1 \in v <=> Odd(4 \in d, 7 \in d)
      /\ 2 \in v <=> Odd(Odd(1 \in d, 4 \in d), Odd(5 \in d, 7 \in d))
      /\ 3 \in v <=> 5 \in d
      /\ 4 \in v <=> Odd(2 \in d, Odd(5 \in d, 6 \in d))
      /\ 5 \in v <=> 6 \in d
      /\ 6 \in v <=> Odd(3 \in d, Odd(6 \in d, 7 \in d))
      /\ 7 \in v <=> 7 \in d
  BY SquareBits
<1>7. /\ 0 \in d <=> 7 \in c
      /\ 1 \in d <=> Odd(0 \in c, 7 \in c)
      /\ 2 \in d <=> Odd(1 \in c, 7 \in c)
      /\ 3 \in d <=> 2 \in c
      /\ 4 \in d <=> 3 \in c
      /\ 5 \in d <=> 4 \in c
      /\ 6 \in d <=> 5 \in c
      /\ 7 \in d <=> 6 \in c
  BY <1>3, <1>4
<1>8. /\ 0 \in t <=> 7 \in s
      /\ 1 \in t <=> Odd(0 \in s, 7 \in s)
      /\ 2 \in t <=> Odd(1 \in s, 7 \in s)
      /\ 3 \in t <=> 2 \in s
      /\ 4 \in t <=> 3 \in s
      /\ 5 \in t <=> 4 \in s
      /\ 6 \in t <=> 5 \in s
      /\ 7 \in t <=> 6 \in s
  <2> HIDE DEF s
  <2> QED
    BY <1>1, <1>3, <1>4
<1>9. /\ 0 \in u <=> 7 \in t
      /\ 1 \in u <=> Odd(0 \in t, 7 \in t)
      /\ 2 \in u <=> Odd(1 \in t, 7 \in t)
      /\ 3 \in u <=> 2 \in t
      /\ 4 \in u <=> 3 \in t
      /\ 5 \in u <=> 4 \in t
      /\ 6 \in u <=> 5 \in t
      /\ 7 \in u <=> 6 \in t
  <2> HIDE DEF t
  <2> QED
    BY <1>1, <1>3, <1>4
<1> HIDE DEF d, s, t, u, v
<1>10. 0 \in u <=> 0 \in v
  BY <1>5, <1>6, <1>7, <1>8, <1>9 DEF Odd
<1>11. 1 \in u <=> 1 \in v
  BY <1>5, <1>6, <1>7, <1>8, <1>9 DEF Odd
<1>12. 2 \in u <=> 2 \in v
  BY <1>5, <1>6, <1>7, <1>8, <1>9 DEF Odd
<1>13. 3 \in u <=> 3 \in v
  BY <1>5, <1>6, <1>7, <1>8, <1>9 DEF Odd
<1>14. 4 \in u <=> 4 \in v
  BY <1>5, <1>6, <1>7, <1>8, <1>9 DEF Odd
<1>15. 5 \in u <=> 5 \in v
  BY <1>5, <1>6, <1>7, <1>8, <1>9 DEF Odd
<1>16. 6 \in u <=> 6 \in v
  BY <1>5, <1>6, <1>7, <1>8, <1>9 DEF Odd
<1>17. 7 \in u <=> 7 \in v
  BY <1>5, <1>6, <1>7, <1>8, <1>9 DEF Odd
<1>18. u = v
  BY <1>1, <1>10, <1>11, <1>12, <1>13, <1>14, <1>15, <1>16, <1>17, BytesEqual
<1> QED
  BY <1>18 DEF d, s, t, u, v

LEMMA SquareTable ==
  /\ Square({0}) = {0} /\ Square({1}) = {2} /\ Square({2}) = {4} /\ Square({4}) = {0, 1, 2}
  /\ Square({0, 1, 2}) = {0, 2, 4} /\ Square({0, 2, 4}) = {1, 2, 4}
  /\ Square({1, 2, 4}) = {0, 1, 4} /\ Square({0, 1, 4}) = {1}
<1>1. Square({0}) = {0}
  BY DEF Square, Odd
<1>2. Square({1}) = {2}
  BY DEF Square, Odd
<1>3. Square({2}) = {4}
  BY DEF Square, Odd
<1>4. Square({4}) = {0, 1, 2}
  BY DEF Square, Odd
<1>5. Square({0, 1, 2}) = {0, 2, 4}
  BY DEF Square, Odd
<1>6. Square({0, 2, 4}) = {1, 2, 4}
  BY DEF Square, Odd
<1>7. Square({1, 2, 4}) = {0, 1, 4}
  BY DEF Square, Odd
<1>8. Square({0, 1, 4}) = {1}
  BY DEF Square, Odd
<1> QED
  BY <1>1, <1>2, <1>3, <1>4, <1>5, <1>6, <1>7, <1>8

LEMMA PowerStep ==
  ASSUME NEW n \in Nat, NEW f, Powers(f, n), NEW i \in 0 .. n - 1
  PROVE  f[i] \in Byte /\ f[i + 1] \in Byte /\ f[i + 1] = CrcBit(f[i], FALSE)
<1>1. i \in 0 .. n /\ i + 1 \in 0 .. n
  OBVIOUS
<1>2. f \in [0 .. n -> Byte]
  BY DEF Powers
<1>3. f[i + 1] = CrcBit(f[i], FALSE)
  BY DEF Powers
<1> QED
  BY <1>1, <1>2, <1>3

LEMMA PowersDouble ==
  ASSUME NEW n \in Nat, NEW f, Powers(f, n), NEW m \in Nat, 2 * m <= n
  PROVE  f[2 * m] = Square(f[m])
<1> DEFINE S == {a \in 0 .. m : f[2 * a] = Square(f[a])}
<1>1. 0 \in S
  <2>1. f[0] = {0} /\ 2 * 0 = 0 /\ 0 \in 0 .. m
    BY DEF Powers
  <2>2. f[2 * 0] = Square(f[0])
    BY <2>1, SquareTable
  <2> QED
    BY <2>1, <2>2
<1>2. ASSUME NEW a \in 0 .. m - 1, a \in S PROVE a + 1 \in S
  <2>1. PICK b \in Nat : b = 2 * a
    OBVIOUS
  <2>2. a \in 0 .. n - 1 /\ b \in 0 .. n - 1 /\ b + 1 \in 0 .. n - 1
    BY <2>1
  <2>3. (b + 1) + 1 = 2 * (a + 1) /\ a + 1 \in 0 .. m
    BY <2>1
  <2>4. f[a] \in Byte /\ f[a + 1] = CrcBit(f[a], FALSE)
    BY <2>2, PowerStep
  <2>5. f[b + 1] = CrcBit(f[b], FALSE)
    BY <2>2, PowerStep
  <2>6. f[(b + 1) + 1] = CrcBit(f[b + 1], FALSE)
    BY <2>2, PowerStep
  <2>7. f[b] = Square(f[a])
    BY <1>2, <2>1
  <2>8. PICK c \in Byte : c = f[a]
    BY <2>4
  <2>9. Square(CrcBit(c, FALSE)) = CrcBit(CrcBit(Square(c), FALSE), FALSE)
    BY SquareShifts
  <2>10. f[(b + 1) + 1] = Square(f[a + 1])
    BY <2>4, <2>5, <2>6, <2>7, <2>8, <2>9
  <2>11. f[2 * (a + 1)] = Square(f[a + 1])
    BY <2>3, <2>10
  <2> QED
    BY <2>3, <2>11
<1>3. 0 .. m \subseteq S
  <2> HIDE DEF S
  <2> QED
    BY <1>1, <1>2, UpTo
<1>4. m \in S
  BY <1>3
<1> QED
  BY <1>4

LEMMA OneBitShifts ==
  ASSUME NEW k \in 0 .. 6
  PROVE  CrcBit({k}, FALSE) = {k + 1}
<1>1. 7 \notin {k}
  OBVIOUS
<1>2. CrcBit({k}, FALSE) = Shift({k})
  <2>1. (7 \in {k}) = FALSE
    BY <1>1
  <2> QED
    BY <2>1 DEF CrcBit
<1>3. {k} \ {7} = {k}
  OBVIOUS
<1> QED
  BY <1>2, <1>3 DEF Shift

LEMMA FirstPowers ==
  ASSUME NEW n \in Nat, NEW f, Powers(f, n), n >= 7
  PROVE  \A k \in 0 .. 7 : f[k] = {k}
<1> DEFINE S == {k \in 0 .. 7 : f[k] = {k}}
<1>1. 0 \in S
  BY DEF Powers
<1>2. ASSUME NEW k \in 0 .. 6, k \in S PROVE k + 1 \in S
  <2>1. k \in 0 .. n - 1
    OBVIOUS
  <2>2. f[k + 1] = CrcBit(f[k], FALSE)
    BY <2>1, PowerStep
  <2>3. CrcBit({k}, FALSE) = {k + 1}
    BY OneBitShifts
  <2>4. f[k] = {k} /\ k + 1 \in 0 .. 7
    BY <1>2
  <2>5. f[k + 1] = {k + 1}
    BY <2>2, <2>3, <2>4, Zenon
  <2> QED
    BY <2>4, <2>5
<1>3. 0 .. 7 \subseteq S
  <2> HIDE DEF S
  <2>1. PICK m \in Nat : m = 7
    OBVIOUS
  <2>2. \A k \in 0 .. m - 1 : k \in S => k + 1 \in S
    BY <1>2, <2>1
  <2> QED
    BY <1>1, <2>1, <2>2, UpTo
<1> QED
  BY <1>3

(* The order of x divides 127 ...                                          *)
LEMMA PowersReturn ==
  ASSUME NEW n \in Nat, NEW f, Powers(f, n), n >= 128
  PROVE  f[127] = {0}
<1>1. ASSUME NEW m \in Nat, NEW b \in Nat, b = 2 * m, b <= n PROVE f[b] = Square(f[m])
  BY <1>1, PowersDouble
<1>2. f[1] = {1}
  BY FirstPowers
<1>3. f[2] = {2}
  BY FirstPowers
<1>4. f[4] = {4}
  BY FirstPowers
<1>5. f[8] = {0, 1, 2}
  <2>1. f[8] = Square(f[4])
    BY <1>1
  <2> QED
    BY <1>4, <2>1, SquareTable
<1>6. f[16] = {0, 2, 4}
  <2>1. f[16] = Square(f[8])
    BY <1>1
  <2> QED
    BY <1>5, <2>1, SquareTable
<1>7. f[32] = {1, 2, 4}
  <2>1. f[32] = Square(f[16])
    BY <1>1
  <2> QED
    BY <1>6, <2>1, SquareTable
<1>8. f[64] = {0, 1, 4}
  <2>1. f[64] = Square(f[32])
    BY <1>1
  <2> QED
    BY <1>7, <2>1, SquareTable
<1>9. f[128] = {1}
  <2>1. f[128] = Square(f[64])
    BY <1>1
  <2> QED
    BY <1>8, <2>1, SquareTable
<1>10. PICK i \in 0 .. n - 1 : i = 127
  OBVIOUS
<1>11. f[i] \in Byte /\ f[i + 1] = CrcBit(f[i], FALSE)
  BY PowerStep
<1>12. i + 1 = 128
  BY <1>10
<1>13. CrcBit({0}, FALSE) = {1} /\ {0} \in Byte
  <2>1. PICK k \in 0 .. 6 : k = 0
    OBVIOUS
  <2>2. CrcBit({k}, FALSE) = {k + 1}
    BY OneBitShifts
  <2>3. k + 1 = 1
    BY <2>1
  <2>4. {k} = {0} /\ {k + 1} = {1}
    BY <2>1, <2>3
  <2>5. CrcBit({0}, FALSE) = {1}
    BY <2>2, <2>4, Zenon
  <2>6. {0} \in Byte
    BY ByteIs
  <2> QED
    BY <2>5, <2>6
<1>14. f[i] = {0}
  <2>1. CrcBit(f[i], FALSE) = CrcBit({0}, FALSE)
    BY <1>9, <1>11, <1>12, <1>13
  <2>2. PICK bit \in BOOLEAN : bit = FALSE
    OBVIOUS
  <2>3. PICK c \in Byte : c = f[i]
    BY <1>11
  <2>4. PICK d \in Byte : d = {0}
    BY <1>13
  <2>5. CrcBit(c, bit) = CrcBit(d, bit)
    BY <2>1, <2>2, <2>3, <2>4, Zenon
  <2>6. c = d
    BY <2>5, BitKeeps
  <2> QED
    BY <2>3, <2>4, <2>6
<1> QED
  BY <1>10, <1>14

(* ... which is prime.                                                     *)
LEMMA PrimeOrder ==
  ASSUME NEW m \in 2 .. 126, NEW q \in Nat
  PROVE  q * m # 127
<1>1. CASE m <= 11
  <2>1. m = 2 \/ m = 3 \/ m = 4 \/ m = 5 \/ m = 6 \/ m = 7 \/ m = 8 \/ m = 9 \/ m = 10 \/ m = 11
    BY <1>1
  <2>2. /\ q * 2 # 127 /\ q * 3 # 127 /\ q * 4 # 127 /\ q * 5 # 127 /\ q * 6 # 127
        /\ q * 7 # 127 /\ q * 8 # 127 /\ q * 9 # 127 /\ q * 10 # 127 /\ q * 11 # 127
    OBVIOUS
  <2> QED
    BY <2>1, <2>2
<1>2. CASE q <= 11
  <2>1. \/ q = 0 \/ q = 1 \/ q = 2 \/ q = 3 \/ q = 4 \/ q = 5
        \/ q = 6 \/ q = 7 \/ q = 8 \/ q = 9 \/ q = 10 \/ q = 11
    BY <1>2
  <2>2. /\ 0 * m # 127 /\ 1 * m # 127 /\ 2 * m # 127 /\ 3 * m # 127 /\ 4 * m # 127 /\ 5 * m # 127
        /\ 6 * m # 127 /\ 7 * m # 127 /\ 8 * m # 127 /\ 9 * m # 127 /\ 10 * m # 127 /\ 11 * m # 127
    OBVIOUS
  <2> QED
    BY <2>1, <2>2
<1>3. CASE m > 11 /\ q > 11
  <2>1. PICK r \in Nat : q = r + 12
    <3>1. q - 12 \in Nat /\ q = (q - 12) + 12
      BY <1>3
    <3> QED
      BY <3>1
  <2>2. PICK p \in Nat : p = r * m
    OBVIOUS
  <2>3. q * m = p + 12 * m
    BY <2>1, <2>2
  <2> QED
    BY <1>3, <2>3
<1> QED
  BY <1>1, <1>2, <1>3

LEMMA PowersPeriodic ==
  ASSUME NEW n \in Nat, NEW f, Powers(f, n), NEW m \in 0 .. n, f[m] = {0}
  PROVE  \A j \in 0 .. n - m : f[m + j] = f[j]
<1> DEFINE S == {j \in 0 .. n - m : f[m + j] = f[j]}
<1>1. 0 \in S
  <2>1. 0 \in 0 .. n - m /\ m + 0 = m
    OBVIOUS
  <2>2. f[m + 0] = f[0]
    BY <2>1 DEF Powers
  <2> QED
    BY <2>1, <2>2
<1>2. ASSUME NEW j \in 0 .. (n - m) - 1, j \in S PROVE j + 1 \in S
  <2>1. PICK a \in 0 .. n - 1 : a = m + j
    OBVIOUS
  <2>2. j \in 0 .. n - 1 /\ a + 1 = m + (j + 1) /\ j + 1 \in 0 .. n - m
    BY <2>1
  <2>3. f[a + 1] = CrcBit(f[a], FALSE)
    BY PowerStep
  <2>4. f[j + 1] = CrcBit(f[j], FALSE)
    BY <2>2, PowerStep
  <2>5. f[a] = f[j]
    BY <1>2, <2>1
  <2>6. f[m + (j + 1)] = f[j + 1]
    BY <2>2, <2>3, <2>4, <2>5, Zenon
  <2> QED
    BY <2>2, <2>6
<1>3. 0 .. n - m \subseteq S
  <2> HIDE DEF S
  <2>1. PICK l \in Nat : l = n - m
    OBVIOUS
  <2>2. \A j \in 0 .. l - 1 : j \in S => j + 1 \in S
    BY <1>2, <2>1
  <2> QED
    BY <1>1, <2>1, <2>2, UpTo
<1> QED
  BY <1>3

LEMMA NoReturn ==
  ASSUME NEW n \in Nat, NEW f, Powers(f, n), n >= 128, NEW i \in 1 .. 126
  PROVE  f[i] # {0}
<1> DEFINE R == {j \in 1 .. 127 : f[j] = {0}}
<1>1. 127 \in R
  BY PowersReturn
<1>2. PICK m \in R : \A j \in R : m <= j
  <2>1. R \in SUBSET Nat /\ R # {}
    BY <1>1
  <2> HIDE DEF R
  <2> QED
    BY <2>1, Least
<1>3. m \in 1 .. 127 /\ f[m] = {0} /\ m \in 0 .. n
  BY <1>2
<1>4. \A j \in 0 .. n - m : f[m + j] = f[j]
  BY <1>3, PowersPeriodic
<1>5. m # 1
  <2>1. f[1] = {1}
    BY FirstPowers
  <2> QED
    BY <1>3, <2>1
<1> DEFINE Left(j) == \E q \in Nat : 127 = j + q * m
           Q == {j \in 0 .. 127 : f[j] = {0} /\ Left(j)}
<1>6. 127 \in Q
  <2>1. 127 = 127 + 0 * m
    BY <1>3
  <2> QED
    BY <1>1, <2>1
<1>7. ASSUME NEW j \in Nat, NEW k \in Nat, j = m + k, Left(j) PROVE Left(k)
  <2>1. PICK q \in Nat : 127 = j + q * m
    BY <1>7
  <2>2. PICK p \in Nat : p = q * m
    BY <1>3
  <2>3. (q + 1) * m = p + m
    BY <1>3, <2>2
  <2>4. 127 = k + (q + 1) * m
    BY <1>3, <1>7, <2>1, <2>2, <2>3
  <2>5. PICK r \in Nat : r = q + 1
    OBVIOUS
  <2>6. 127 = k + r * m
    BY <2>4, <2>5, Zenon
  <2> QED
    BY <2>6, Zenon
<1>8. ASSUME NEW j \in Nat, j = 0, Left(j), m # 127 PROVE FALSE
  <2>1. PICK q \in Nat : 127 = j + q * m
    BY <1>8
  <2>2. PICK p \in Nat : p = q * m
    BY <1>3
  <2>3. p = 127
    BY <1>8, <2>1, <2>2
  <2>4. m \in 2 .. 126
    BY <1>3, <1>5, <1>8
  <2> QED
    BY <2>2, <2>3, <2>4, PrimeOrder
<1> HIDE DEF Left
<1>9. PICK j \in Q : \A k \in Q : j <= k
  <2>1. Q \in SUBSET Nat
    OBVIOUS
  <2> HIDE DEF Q
  <2> QED
    BY <1>6, <2>1, Least
<1>10. j \in 0 .. 127 /\ j \in Nat /\ f[j] = {0} /\ Left(j)
  BY <1>9
<1>11. m = 127
  <2>1. SUFFICES ASSUME m # 127 PROVE FALSE
    OBVIOUS
  <2>2. CASE ~(j < m)
    <3>1. PICK k \in 0 .. 127 : j = m + k
      <4>1. j - m \in 0 .. 127 /\ j = m + (j - m)
        BY <1>3, <1>10, <2>2
      <4> QED
        BY <4>1
    <3>2. k \in 0 .. n - m /\ k < j
      BY <1>3, <1>10, <3>1
    <3>3. f[k] = {0}
      BY <1>4, <1>10, <3>1, <3>2
    <3>4. Left(k)
      BY <1>3, <1>7, <1>10, <3>1
    <3>5. k \in Q
      BY <3>3, <3>4
    <3>6. ~(j <= k)
      BY <1>10, <3>2
    <3> HIDE DEF Q
    <3> QED
      BY <1>9, <3>5, <3>6
  <2>3. CASE j < m /\ j # 0
    <3>1. j \in R
      BY <1>10, <2>3
    <3> QED
      BY <1>2, <1>3, <1>10, <2>3, <3>1
  <2>4. CASE j = 0
    BY <1>8, <1>10, <2>1, <2>4
  <2> QED
    BY <2>2, <2>3, <2>4
<1> HIDE DEF Q
<1>12. ASSUME f[i] = {0} PROVE FALSE
  <2>1. i \in R
    BY <1>12
  <2> QED
    BY <1>2, <1>11, <2>1
<1> QED
  BY <1>12

(* So no two powers at most 126 apart are equal.                           *)
LEMMA PowersDiffer ==
  ASSUME NEW n \in Nat, NEW f, Powers(f, n), n >= 128,
         NEW d \in 1 .. 126, NEW b \in Nat, b + d <= n
  PROVE  f[b] # f[b + d]
<1> DEFINE S == {a \in 0 .. b : f[a] # f[a + d]}
<1>1. 0 \in S
  <2>1. f[d] # {0}
    BY NoReturn
  <2>2. f[0] = {0} /\ 0 + d = d /\ 0 \in 0 .. b
    BY DEF Powers
  <2> QED
    BY <2>1, <2>2
<1>2. ASSUME NEW a \in 0 .. b - 1, a \in S PROVE a + 1 \in S
  <2>1. PICK e \in 0 .. n - 1 : e = a + d
    OBVIOUS
  <2>2. a \in 0 .. n - 1 /\ e + 1 = (a + 1) + d /\ a + 1 \in 0 .. b
    BY <2>1
  <2>3. PICK c \in Byte : c = f[a]
    BY <2>2, PowerStep
  <2>4. PICK g \in Byte : g = f[e]
    BY PowerStep
  <2>5. c # g
    BY <1>2, <2>1, <2>3, <2>4
  <2>6. PICK bit \in BOOLEAN : bit = FALSE
    OBVIOUS
  <2>7. f[a + 1] = CrcBit(f[a], FALSE)
    BY <2>2, PowerStep
  <2>8. f[e + 1] = CrcBit(f[e], FALSE)
    BY PowerStep
  <2>9. f[a + 1] = CrcBit(c, bit) /\ f[e + 1] = CrcBit(g, bit)
    BY <2>3, <2>4, <2>6, <2>7, <2>8, Zenon
  <2>10. f[a + 1] # f[e + 1]
    BY <2>5, <2>9, BitKeeps
  <2>11. f[a + 1] # f[(a + 1) + d]
    BY <2>2, <2>10
  <2> QED
    BY <2>2, <2>11
<1>3. b \in S
  <2> HIDE DEF S
  <2>1. 0 .. b \subseteq S
    BY <1>1, <1>2, UpTo
  <2> QED
    BY <2>1
<1> QED
  BY <1>3

(* Exclusive-or goes through a round, and through the rounds of a byte.    *)
LEMMA XorByte ==
  ASSUME NEW c \in Byte, NEW d \in Byte
  PROVE  Xor(c, d) \in Byte
BY ByteIs DEF Xor

LEMMA BitLinear ==
  ASSUME NEW c \in Byte, NEW d \in Byte
  PROVE  CrcBit(Xor(c, d), FALSE) = Xor(CrcBit(c, FALSE), CrcBit(d, FALSE))
<1>1. PICK x \in Byte : x = Xor(c, d)
  BY XorByte
<1>2. PICK u \in Byte : u = CrcBit(c, FALSE)
  BY CrcBitByte
<1>3. PICK v \in Byte : v = CrcBit(d, FALSE)
  BY CrcBitByte
<1>4. PICK l \in Byte : l = CrcBit(x, FALSE)
  BY CrcBitByte
<1>5. PICK r \in Byte : r = Xor(u, v)
  BY XorByte
<1>6. \A k : k \in x <=> ~(k \in c <=> k \in d)
  BY <1>1, XorHas
<1>7. \A k : k \in r <=> ~(k \in u <=> k \in v)
  BY <1>5, XorHas
<1>8. 0 \in l <=> 0 \in r
  <2>1. (0 \in l <=> 7 \in x) /\ (0 \in u <=> 7 \in c) /\ (0 \in v <=> 7 \in d)
    BY <1>2, <1>3, <1>4, ShiftedBits
  <2> QED
    BY <1>6, <1>7, <2>1
<1>9. 1 \in l <=> 1 \in r
  <2>1. /\ 1 \in l <=> ~(0 \in x <=> 7 \in x)
        /\ 1 \in u <=> ~(0 \in c <=> 7 \in c)
        /\ 1 \in v <=> ~(0 \in d <=> 7 \in d)
    BY <1>2, <1>3, <1>4, ShiftedBits
  <2> QED
    BY <1>6, <1>7, <2>1
<1>10. 2 \in l <=> 2 \in r
  <2>1. /\ 2 \in l <=> ~(1 \in x <=> 7 \in x)
        /\ 2 \in u <=> ~(1 \in c <=> 7 \in c)
        /\ 2 \in v <=> ~(1 \in d <=> 7 \in d)
    BY <1>2, <1>3, <1>4, ShiftedBits
  <2> QED
    BY <1>6, <1>7, <2>1
<1>11. ASSUME NEW k \in 3 .. 7 PROVE k \in l <=> k \in r
  <2>1. k \in l <=> k - 1 \in x
    BY <1>4, ShiftedBits
  <2>2. k \in u <=> k - 1 \in c
    BY <1>2, ShiftedBits
  <2>3. k \in v <=> k - 1 \in d
    BY <1>3, ShiftedBits
  <2> QED
    BY <1>6, <1>7, <2>1, <2>2, <2>3
<1>12. \A k \in 0 .. 7 : k \in l <=> k \in r
  <2>1. \A k \in 0 .. 7 : k = 0 \/ k = 1 \/ k = 2 \/ k \in 3 .. 7
    OBVIOUS
  <2> QED
    BY <1>8, <1>9, <1>10, <1>11, <2>1
<1>13. l = r
  BY <1>12, ByteIs
<1> QED
  BY <1>1, <1>2, <1>3, <1>4, <1>5, <1>13

LEMMA GenerateZeros ==
  ASSUME NEW c \in Byte
  PROVE  \E f \in [0 .. 8 -> Byte] :
            /\ f[0] = c
            /\ \A b \in 0 .. 7 : f[b + 1] = CrcBit(f[b], FALSE)
            /\ GenerateCrc(c, {}) = f[8]
<1>1. {} \in Byte
  BY ByteIs
<1>2. PICK f \in [0 .. 8 -> Byte] :
         /\ f[0] = c
         /\ \A b \in 0 .. 7 : f[b + 1] = CrcBit(f[b], (7 - b) \in {})
         /\ GenerateCrc(c, {}) = f[8]
  BY <1>1, GenerateIs, Zenon
<1>3. \A b \in 0 .. 7 : ((7 - b) \in {}) = FALSE
  OBVIOUS
<1>4. \A b \in 0 .. 7 : f[b + 1] = CrcBit(f[b], FALSE)
  BY <1>2, <1>3, Zenon
<1> QED
  BY <1>2, <1>4, Zenon

LEMMA GenerateLinear ==
  ASSUME NEW c \in Byte, NEW d \in Byte
  PROVE  GenerateCrc(Xor(c, d), {}) = Xor(GenerateCrc(c, {}), GenerateCrc(d, {}))
<1>1. PICK x \in Byte : x = Xor(c, d)
  BY XorByte
<1>2. PICK f \in [0 .. 8 -> Byte] :
         /\ f[0] = c
         /\ \A b \in 0 .. 7 : f[b + 1] = CrcBit(f[b], FALSE)
         /\ GenerateCrc(c, {}) = f[8]
  BY GenerateZeros, Zenon
<1>3. PICK g \in [0 .. 8 -> Byte] :
         /\ g[0] = d
         /\ \A b \in 0 .. 7 : g[b + 1] = CrcBit(g[b], FALSE)
         /\ GenerateCrc(d, {}) = g[8]
  BY GenerateZeros, Zenon
<1>4. PICK h \in [0 .. 8 -> Byte] :
         /\ h[0] = x
         /\ \A b \in 0 .. 7 : h[b + 1] = CrcBit(h[b], FALSE)
         /\ GenerateCrc(x, {}) = h[8]
  BY GenerateZeros, Zenon
<1> DEFINE S == {b \in 0 .. 8 : h[b] = Xor(f[b], g[b])}
<1>5. 0 \in S
  <2>1. h[0] = Xor(f[0], g[0])
    BY <1>1, <1>2, <1>3, <1>4, Zenon
  <2>2. 0 \in 0 .. 8
    OBVIOUS
  <2> QED
    BY <2>1, <2>2
<1>6. ASSUME NEW b \in 0 .. 7, b \in S PROVE b + 1 \in S
  <2>1. PICK p \in Byte : p = f[b]
    OBVIOUS
  <2>2. PICK q \in Byte : q = g[b]
    OBVIOUS
  <2>3. h[b] = Xor(f[b], g[b])
    BY <1>6
  <2>4. CrcBit(Xor(p, q), FALSE) = Xor(CrcBit(p, FALSE), CrcBit(q, FALSE))
    BY BitLinear
  <2>5. h[b + 1] = Xor(f[b + 1], g[b + 1])
    BY <1>2, <1>3, <1>4, <2>1, <2>2, <2>3, <2>4, Zenon
  <2>6. b + 1 \in 0 .. 8
    OBVIOUS
  <2> QED
    BY <2>5, <2>6
<1>7. h[8] = Xor(f[8], g[8])
  <2> HIDE DEF S
  <2>1. PICK m \in Nat : m = 8
    OBVIOUS
  <2>2. \A b \in 0 .. m - 1 : b \in S => b + 1 \in S
    BY <1>6, <2>1
  <2>3. 0 .. m \subseteq S /\ 8 \in 0 .. m
    BY <1>5, <2>1, <2>2, UpTo
  <2>4. 8 \in S
    BY <2>3
  <2> QED
    BY <2>4 DEF S
<1> QED
  BY <1>1, <1>2, <1>3, <1>4, <1>7, Zenon

(* What a byte makes of the difference between two registers.              *)
LEMMA RegistersDiffer ==
  ASSUME NEW c \in Byte, NEW d \in Byte, NEW a \in Byte, NEW b \in Byte
  PROVE  Xor(GenerateCrc(c, a), GenerateCrc(d, b)) = GenerateCrc(Xor(Xor(c, d), Xor(a, b)), {})
<1>1. PICK x \in Byte : x = Xor(c, a)
  BY XorByte
<1>2. PICK y \in Byte : y = Xor(d, b)
  BY XorByte
<1>3. GenerateCrc(c, a) = GenerateCrc(x, {}) /\ GenerateCrc(d, b) = GenerateCrc(y, {})
  BY <1>1, <1>2, GenerateFolds
<1>4. GenerateCrc(Xor(x, y), {}) = Xor(GenerateCrc(x, {}), GenerateCrc(y, {}))
  BY GenerateLinear
<1>5. Xor(x, y) = Xor(Xor(c, d), Xor(a, b))
  BY <1>1, <1>2 DEF Xor
<1> QED
  BY <1>3, <1>4, <1>5, Zenon

LEMMA GeneratePower ==
  ASSUME NEW n \in Nat, NEW f, Powers(f, n), NEW k \in Nat, k + 8 <= n
  PROVE  GenerateCrc(f[k], {}) = f[k + 8]
<1>1. PICK c \in Byte : c = f[k]
  <2>1. k \in 0 .. n - 1
    OBVIOUS
  <2> QED
    BY <2>1, PowerStep
<1>2. PICK g \in [0 .. 8 -> Byte] :
         /\ g[0] = c
         /\ \A b \in 0 .. 7 : g[b + 1] = CrcBit(g[b], FALSE)
         /\ GenerateCrc(c, {}) = g[8]
  BY GenerateZeros, Zenon
<1> DEFINE S == {b \in 0 .. 8 : g[b] = f[k + b]}
<1>3. 0 \in S
  <2>1. 0 \in 0 .. 8 /\ k + 0 = k
    OBVIOUS
  <2>2. g[0] = f[k + 0]
    BY <1>1, <1>2, <2>1, Zenon
  <2> QED
    BY <2>1, <2>2
<1>4. ASSUME NEW b \in 0 .. 7, b \in S PROVE b + 1 \in S
  <2>1. PICK e \in 0 .. n - 1 : e = k + b
    OBVIOUS
  <2>2. e + 1 = k + (b + 1) /\ b + 1 \in 0 .. 8
    BY <2>1
  <2>3. f[e + 1] = CrcBit(f[e], FALSE)
    BY PowerStep
  <2>4. g[b] = f[e]
    BY <1>4, <2>1
  <2>5. g[b + 1] = f[k + (b + 1)]
    BY <1>2, <2>2, <2>3, <2>4, Zenon
  <2> QED
    BY <2>2, <2>5
<1>5. g[8] = f[k + 8]
  <2> HIDE DEF S
  <2>1. PICK m \in Nat : m = 8
    OBVIOUS
  <2>2. \A b \in 0 .. m - 1 : b \in S => b + 1 \in S
    BY <1>4, <2>1
  <2>3. 0 .. m \subseteq S /\ 8 \in 0 .. m
    BY <1>3, <2>1, <2>2, UpTo
  <2>4. 8 \in S
    BY <2>3
  <2> QED
    BY <2>4 DEF S
<1> QED
  BY <1>1, <1>2, <1>5, Zenon

LEMMA PowersApart ==
  ASSUME NEW n \in Nat, NEW f, Powers(f, n), n >= 128,
         NEW e \in 0 .. n, NEW l \in 0 .. 7, e - l \in 1 .. 126
  PROVE  f[e] # {l}
<1>1. PICK d \in 1 .. 126 : d = e - l
  OBVIOUS
<1>2. l + d = e /\ l \in Nat /\ l + d <= n /\ n >= 7
  BY <1>1
<1>3. f[l] # f[l + d]
  BY <1>2, PowersDiffer
<1>4. f[l] = {l}
  BY <1>2, FirstPowers
<1> QED
  BY <1>2, <1>3, <1>4

(* The registers of two runs, behind bytes that differ in one bit.         *)
Registers(w, f) ==
    /\ f \in [0 .. Len(w) -> Byte]
    /\ f[0] = {}
    /\ \A j \in 0 .. Len(w) - 1 : f[j + 1] = GenerateCrc(f[j], w[j + 1])

LEMMA RegistersOf ==
  ASSUME NEW w \in Words
  PROVE  \E f : Registers(w, f) /\ CrcOver(w) = f[Len(w)]
<1>1. PICK f \in [0 .. Len(w) -> Byte] :
         /\ f[0] = {}
         /\ \A j \in 0 .. Len(w) - 1 : f[j + 1] = GenerateCrc(f[j], w[j + 1])
         /\ CrcOver(w) = f[Len(w)]
  BY CrcIs, Zenon
<1> QED
  BY <1>1, Zenon DEF Registers

LEMMA RegisterStep ==
  ASSUME NEW w \in Words, NEW f, Registers(w, f), NEW i \in 1 .. Len(w)
  PROVE  /\ f[i - 1] \in Byte /\ w[i] \in Byte /\ f[i] \in Byte
         /\ f[i] = GenerateCrc(f[i - 1], w[i])
<1>1. Len(w) \in Nat /\ w[i] \in Byte
  BY DEF Words
<1>2. PICK j \in 0 .. Len(w) - 1 : j = i - 1
  BY <1>1
<1>3. j + 1 = i /\ j \in 0 .. Len(w) /\ i \in 0 .. Len(w)
  BY <1>1, <1>2
<1>4. f[j + 1] = GenerateCrc(f[j], w[j + 1])
  BY DEF Registers
<1>5. f[j] \in Byte /\ f[i] \in Byte
  BY <1>3 DEF Registers
<1> QED
  BY <1>1, <1>2, <1>3, <1>4, <1>5

DifferInOne(w, v, m, p, k) ==
    /\ w \in Words /\ v \in Words /\ Len(w) = Len(v)
    /\ p \in 1 .. m /\ m \in 1 .. Len(w) /\ k \in 0 .. 7
    /\ Xor(w[p], v[p]) = {k}
    /\ \A j \in 1 .. m : j # p => w[j] = v[j]

LEMMA OneBitBehind ==
  ASSUME NEW w, NEW v, NEW m, NEW p, NEW k, DifferInOne(w, v, m, p, k),
         NEW F, Registers(w, F), NEW G, Registers(v, G),
         NEW n \in Nat, NEW f, Powers(f, n), NEW e \in 0 .. n, e = k + 8 * (m - p + 1)
  PROVE  Xor(F[m], G[m]) = f[e]
<1>1. PICK L \in Nat : L = Len(w) /\ L = Len(v) /\ m \in 1 .. L
  BY DEF DifferInOne, Words
<1>2. /\ w \in Words /\ v \in Words /\ m \in Nat /\ p \in 1 .. m /\ p \in 1 .. L /\ k \in 0 .. 7
      /\ Xor(w[p], v[p]) = {k} /\ k + 8 * (m - p + 1) <= n
  BY <1>1 DEF DifferInOne
<1>3. \A j \in 1 .. m : j # p => w[j] = v[j]
  BY DEF DifferInOne
<1> DEFINE S == {j \in 0 .. m : IF j < p THEN F[j] = G[j]
                                ELSE Xor(F[j], G[j]) = f[k + 8 * (j - p + 1)]}
<1>4. 0 \in S
  <2>1. F[0] = G[0] /\ 0 \in 0 .. m /\ 0 < p
    BY <1>2 DEF Registers
  <2> QED
    BY <2>1
<1>5. ASSUME NEW j \in 0 .. m - 1, j \in S PROVE j + 1 \in S
  <2>1. PICK i \in 1 .. m : i = j + 1
    BY <1>2
  <2>2. i \in 1 .. L /\ i - 1 = j /\ i \in 0 .. m
    BY <1>1, <2>1
  <2>3. F[j] \in Byte /\ w[i] \in Byte /\ F[i] = GenerateCrc(F[j], w[i])
    BY <1>1, <1>2, <2>2, RegisterStep
  <2>4. G[j] \in Byte /\ v[i] \in Byte /\ G[i] = GenerateCrc(G[j], v[i])
    BY <1>1, <1>2, <2>2, RegisterStep
  <2>5. Xor(F[i], G[i]) = GenerateCrc(Xor(Xor(F[j], G[j]), Xor(w[i], v[i])), {})
    BY <2>3, <2>4, RegistersDiffer
  <2>6. CASE i < p
    <3>1. j < p /\ i # p
      BY <1>2, <2>1, <2>6
    <3>2. F[j] = G[j] /\ w[i] = v[i]
      BY <1>5, <1>3, <3>1
    <3>3. F[i] = G[i]
      BY <2>3, <2>4, <3>2
    <3>4. i \in S
      BY <2>2, <2>6, <3>3
    <3> QED
      BY <2>1, <3>4
  <2>7. CASE i = p
    <3>1. F[j] = G[j] /\ Xor(w[i], v[i]) = {k}
      BY <1>5, <1>2, <2>1, <2>7
    <3>2. Xor(Xor(F[j], G[j]), Xor(w[i], v[i])) = {k}
      BY <3>1 DEF Xor
    <3>3. k \in Nat /\ k + 8 <= n /\ n >= 7
      BY <1>2
    <3>4. f[k] = {k}
      BY <1>2, <3>3, FirstPowers
    <3>5. GenerateCrc(f[k], {}) = f[k + 8]
      BY <3>3, GeneratePower
    <3>6. k + 8 * (i - p + 1) = k + 8
      BY <1>2, <2>7
    <3>7. Xor(F[i], G[i]) = f[k + 8 * (i - p + 1)]
      BY <2>5, <3>2, <3>4, <3>5, <3>6, Zenon
    <3>8. i \in S
      BY <2>2, <2>7, <3>7
    <3> QED
      BY <2>1, <3>8
  <2>8. CASE p < i
    <3>1. ~(j < p) /\ i # p /\ ~(i < p)
      BY <1>2, <2>1, <2>8
    <3>2. PICK d \in Nat : d = k + 8 * (j - p + 1)
      <4>1. k + 8 * (j - p + 1) \in Nat
        BY <1>2, <3>1
      <4> QED
        BY <4>1
    <3>3. Xor(F[j], G[j]) = f[d]
      BY <1>5, <3>1, <3>2
    <3>4. w[i] = v[i]
      BY <1>3, <3>1
    <3>5. Xor(Xor(F[j], G[j]), Xor(w[i], v[i])) = f[d]
      BY <3>3, <3>4 DEF Xor
    <3>6. d + 8 = k + 8 * (i - p + 1)
      BY <1>2, <2>1, <3>2
    <3>7. d + 8 <= n
      BY <1>2, <2>2, <3>6
    <3>8. GenerateCrc(f[d], {}) = f[d + 8]
      BY <3>7, GeneratePower
    <3>9. Xor(F[i], G[i]) = f[k + 8 * (i - p + 1)]
      BY <2>5, <3>5, <3>6, <3>8, Zenon
    <3>10. i \in S
      BY <2>2, <3>1, <3>9
    <3> QED
      BY <2>1, <3>10
  <2> QED
    BY <1>2, <2>6, <2>7, <2>8
<1>6. m \in S
  <2> HIDE DEF S
  <2>1. 0 .. m \subseteq S
    BY <1>4, <1>5, <1>2, UpTo
  <2> QED
    BY <1>2, <2>1
<1>7. ~(m < p)
  BY <1>2
<1> QED
  BY <1>6, <1>7

LEMMA NearBits ==
  ASSUME NEW w, NEW v, NEW m, NEW p, NEW k, DifferInOne(w, v, m, p, k),
         NEW F, Registers(w, F), NEW G, Registers(v, G),
         NEW l \in 0 .. 7, k + 8 * (m - p + 1) - l \in 1 .. 126
  PROVE  Xor(F[m], G[m]) # {l}
<1>1. m \in Nat /\ p \in 1 .. m /\ k \in 0 .. 7
  BY DEF DifferInOne, Words
<1>2. PICK n \in Nat : n = 200 + 8 * m
  BY <1>1
<1>3. PICK f : Powers(f, n)
  BY PowersExist
<1>4. PICK e \in 0 .. n : e = k + 8 * (m - p + 1)
  <2>1. k + 8 * (m - p + 1) \in 0 .. n
    BY <1>1, <1>2
  <2> QED
    BY <2>1
<1>5. Xor(F[m], G[m]) = f[e]
  BY <1>3, <1>4, OneBitBehind
<1>6. e - l \in 1 .. 126 /\ n >= 128
  BY <1>1, <1>2, <1>4
<1>7. f[e] # {l}
  BY <1>3, <1>6, PowersApart
<1> QED
  BY <1>5, <1>7

(* One bit of the bytes and one of the checksum.                           *)
LEMMA CrcBitAndChecksum ==
  ASSUME NEW w, NEW v, NEW p, NEW k, DifferInOne(w, v, Len(w), p, k),
         NEW l \in 0 .. 7, k + 8 * (Len(w) - p + 1) - l \in 1 .. 126
  PROVE  Xor(CrcOver(w), CrcOver(v)) # {l}
<1>1. w \in Words /\ v \in Words /\ Len(w) = Len(v)
  BY DEF DifferInOne
<1>2. PICK F : Registers(w, F) /\ CrcOver(w) = F[Len(w)]
  BY <1>1, RegistersOf
<1>3. PICK G : Registers(v, G) /\ CrcOver(v) = G[Len(v)]
  BY <1>1, RegistersOf
<1>4. Xor(F[Len(w)], G[Len(w)]) # {l}
  BY <1>2, <1>3, NearBits
<1> QED
  BY <1>1, <1>2, <1>3, <1>4

LEMMA RegistersKeep ==
  ASSUME NEW w \in Words, NEW v \in Words, Len(w) = Len(v), NEW i \in 1 .. Len(w), w[i] = v[i],
         NEW F, Registers(w, F), NEW G, Registers(v, G), F[i - 1] # G[i - 1]
  PROVE  F[i] # G[i]
<1>1. F[i - 1] \in Byte /\ w[i] \in Byte /\ F[i] = GenerateCrc(F[i - 1], w[i])
  BY RegisterStep
<1>2. G[i - 1] \in Byte /\ G[i] = GenerateCrc(G[i - 1], w[i])
  BY RegisterStep
<1>3. PICK c \in Byte : c = F[i - 1]
  BY <1>1
<1>4. PICK d \in Byte : d = G[i - 1]
  BY <1>2
<1>5. GenerateCrc(c, w[i]) # GenerateCrc(d, w[i])
  BY <1>1, <1>3, <1>4, GenerateKeeps
<1> QED
  BY <1>1, <1>2, <1>3, <1>4, <1>5, Zenon

(* Two bits of the bytes.                                                  *)
LEMMA CrcTwoBits ==
  ASSUME NEW w, NEW v, NEW p, NEW q \in 1 .. Len(w), NEW k, DifferInOne(w, v, q - 1, p, k),
         NEW l \in 0 .. 7, Xor(w[q], v[q]) = {l},
         \A j \in q + 1 .. Len(w) : w[j] = v[j],
         k + 8 * (q - p) - l \in 1 .. 126
  PROVE  CrcOver(w) # CrcOver(v)
<1>1. w \in Words /\ v \in Words /\ q - 1 \in 1 .. Len(w) /\ p \in 1 .. q - 1 /\ k \in 0 .. 7
  BY DEF DifferInOne
<1>2. PICK L \in Nat : L = Len(w) /\ L = Len(v)
  BY DEF DifferInOne, Words
<1>3. PICK F : Registers(w, F) /\ CrcOver(w) = F[L]
  BY <1>1, <1>2, RegistersOf
<1>4. PICK G : Registers(v, G) /\ CrcOver(v) = G[L]
  BY <1>1, <1>2, RegistersOf
<1>5. PICK m \in 1 .. L : m = q - 1
  BY <1>1, <1>2
<1>6. k + 8 * (m - p + 1) - l \in 1 .. 126
  <2>1. 8 * (q - p) = 8 * (m - p + 1)
    BY <1>1, <1>2, <1>5
  <2> QED
    BY <2>1
<1>7. DifferInOne(w, v, m, p, k)
  BY <1>5
<1>8. Xor(F[m], G[m]) # {l}
  BY <1>3, <1>4, <1>6, <1>7, NearBits
<1>9. F[q] # G[q]
  <2>1. q \in 1 .. L /\ q - 1 = m
    BY <1>2, <1>5
  <2>2. F[m] \in Byte /\ w[q] \in Byte /\ F[q] = GenerateCrc(F[m], w[q])
    BY <1>1, <1>2, <1>3, <2>1, RegisterStep
  <2>3. G[m] \in Byte /\ v[q] \in Byte /\ G[q] = GenerateCrc(G[m], v[q])
    BY <1>1, <1>2, <1>4, <2>1, RegisterStep
  <2>4. PICK x \in Byte : x = Xor(F[m], w[q])
    BY <2>2, XorByte
  <2>5. PICK y \in Byte : y = Xor(G[m], v[q])
    BY <2>3, XorByte
  <2>6. x # y
    <3>1. SUFFICES ASSUME x = y PROVE FALSE
      OBVIOUS
    <3>2. Xor(F[m], G[m]) = Xor(w[q], v[q])
      BY <2>4, <2>5, <3>1 DEF Xor
    <3> QED
      BY <1>8, <3>2
  <2>7. F[q] = GenerateCrc(x, {}) /\ G[q] = GenerateCrc(y, {})
    BY <2>2, <2>3, <2>4, <2>5, GenerateFolds
  <2>8. {} \in Byte
    BY ByteIs
  <2> QED
    BY <2>6, <2>7, <2>8, GenerateKeeps
<1> DEFINE S == {j \in 0 .. L : j < q \/ F[j] # G[j]}
<1>10. 0 \in S
  BY <1>2
<1>11. ASSUME NEW j \in 0 .. L - 1, j \in S PROVE j + 1 \in S
  <2>1. PICK i \in 1 .. L : i = j + 1
    BY <1>2
  <2>2. i - 1 = j /\ i \in 0 .. L
    BY <2>1
  <2>3. CASE i < q
    BY <2>1, <2>2, <2>3
  <2>4. CASE i = q
    BY <1>9, <2>1, <2>2, <2>4
  <2>5. CASE q < i
    <3>1. w[i] = v[i] /\ F[i - 1] # G[i - 1] /\ i \in 1 .. Len(w) /\ Len(w) = Len(v)
      BY <1>2, <1>11, <2>1, <2>2, <2>5
    <3>2. F[i] # G[i]
      BY <1>1, <1>3, <1>4, <3>1, RegistersKeep
    <3> QED
      BY <2>1, <2>2, <3>2
  <2> QED
    BY <2>3, <2>4, <2>5
<1>12. L \in S
  <2> HIDE DEF S
  <2>1. 0 .. L \subseteq S
    BY <1>10, <1>11, UpTo
  <2> QED
    BY <2>1
<1>13. ~(L < q)
  BY <1>2
<1> QED
  BY <1>3, <1>4, <1>12, <1>13

-----------------------------------------------------------------------------
(* What the bytes are when they arrive, and what is said of them.          *)
Received == [i \in 1 .. Len(reply) |-> Xor(reply[i], Noise(i))]

Judged ==
    /\ flips \subseteq (0 .. Len(reply)) \X Bit
    /\ verdict # "none" =>
          (verdict = "accepted" <=>
              ValidateSmbusCrc(cmd, Received, Xor(crc, Noise(0)), isBlock, TRUE))

LEMMA JudgedInit == CrcInit => Judged
BY DEF Judged, CrcInit

LEMMA JudgedNext == Sent /\ Judged /\ [CrcNext]_crcVars => Judged'
<1> SUFFICES ASSUME Sent, Judged, [CrcNext]_crcVars PROVE Judged'
  OBVIOUS
<1>1. ASSUME NEW b \in Bytes, Extend(b) PROVE Judged'
  <2>1. flips' = {} /\ verdict' = "none"
    BY <1>1 DEF Extend
  <2> QED
    BY <2>1 DEF Judged
<1>2. ASSUME NEW i \in 0 .. Len(reply), NEW k \in Bit, Flip(i, k) PROVE Judged'
  <2>1. flips' = flips \cup {<<i, k>>} /\ verdict' = "none" /\ reply' = reply
    BY <1>2 DEF Flip
  <2> QED
    BY <2>1 DEF Judged
<1>3. ASSUME Validate PROVE Judged'
  <2>1. UNCHANGED <<cmd, isBlock, reply, crc, flips>>
    BY <1>3 DEF Validate
  <2>2. Received' = Received /\ Noise(0)' = Noise(0)
    BY <2>1 DEF Received, Noise
  <2>3. verdict' = "accepted" <=>
           ValidateSmbusCrc(cmd, Received, Xor(crc, Noise(0)), isBlock, TRUE)
    BY <1>3 DEF Validate, Received, Xor
  <2> QED
    BY <2>1, <2>2, <2>3 DEF Judged, ValidateSmbusCrc
<1>4. ASSUME UNCHANGED crcVars PROVE Judged'
  BY <1>4 DEF Judged, Received, crcVars, Noise, ValidateSmbusCrc
<1> QED
  BY <1>1, <1>2, <1>3, <1>4 DEF CrcNext

(* The flips are all in one byte, of the reply or the checksum.            *)
InOneByte == \E i \in 0 .. Len(reply) : \A flip \in flips : flip[1] = i

(* They are two, less than 127 bits apart on the wire: Place counts from   *)
(* the last bit of the checksum.                                           *)
Place(flip) == IF flip[1] = 0 THEN flip[2] ELSE 8 * (Len(reply) + 1 - flip[1]) + flip[2]

TwoNear == \E a, b \in flips : flips = {a, b} /\ Place(a) - Place(b) \in 1 .. 126

LEMMA CoveredIs ==
  ASSUME Sent, NEW bytes \in Words, Len(bytes) = Len(reply)
  PROVE  \E first \in Words :
            /\ first \o reply \in Words /\ first \o bytes \in Words
            /\ GenerateSmbusCrc(cmd, reply, isBlock, TRUE) = CrcOver(first \o reply)
            /\ GenerateSmbusCrc(cmd, bytes, isBlock, TRUE) = CrcOver(first \o bytes)
<1> DEFINE head == <<AddressByte(Address, FALSE), cmd>>
           again == <<AddressByte(Address, TRUE)>>
           length == IF isBlock THEN <<ToByte(Len(reply))>> ELSE << >>
           first == head \o again \o length
<1>1. Shift(Address) \in Byte /\ 0 \in 0 .. 7
  <2>1. Address \in SUBSET Int /\ \A x \in Address : x \in 0 .. 7
    BY CrcAssumption, ByteIs DEF CrcAssumption
  <2>2. Shift(Address) \subseteq 0 .. 7
    BY <2>1 DEF Shift
  <2> QED
    BY <2>2, ByteIs
<1>2. AddressByte(Address, FALSE) \in Byte /\ AddressByte(Address, TRUE) \in Byte
  BY <1>1, ByteIs DEF Shift, AddressByte
<1>3. ToByte(Len(reply)) \in Byte
  BY ByteIs DEF Bit, ToByte
<1>4. head \in Seq(Byte) /\ again \in Seq(Byte)
  <2>1. \A a, b \in Byte : <<a, b>> \in Seq(Byte) /\ <<a>> \in Seq(Byte)
    OBVIOUS
  <2>2. cmd \in Byte
    BY DEF Sent
  <2> QED
    BY <1>2, <2>1, <2>2, Zenon
<1>6. length \in Seq(Byte)
  BY <1>3
<1>7. ASSUME NEW w \in Words, Len(w) = Len(reply)
      PROVE  GenerateSmbusCrc(cmd, w, isBlock, TRUE) = CrcOver(first \o w)
  <2>1. Covered(cmd, w, isBlock, TRUE) = head \o again \o length \o w
    BY <1>7 DEF Covered
  <2> HIDE DEF head, again, length
  <2> QED
    BY <2>1 DEF GenerateSmbusCrc, CrcOver
<1> HIDE DEF head, again, length
<1>8. first \in Words
  BY <1>4, <1>6, ConcatProperties DEF Words
<1>9. reply \in Words
  BY DEF Sent
<1> HIDE DEF first
<1>10. first \o reply \in Words /\ first \o bytes \in Words
  BY <1>8, <1>9, ConcatProperties DEF Words
<1> QED
  BY <1>7, <1>8, <1>9, <1>10

(* What was sent and what arrived, behind m bytes that the master knows.   *)
Wire(w, v, m) ==
    /\ w \in Words /\ v \in Words /\ m \in Nat
    /\ Len(w) = m + Len(reply) /\ Len(v) = Len(w)
    /\ \A j \in 1 .. m : w[j] = v[j]
    /\ \A i \in 1 .. Len(reply) : Xor(w[m + i], v[m + i]) = Noise(i)
    /\ verdict # "none" => (verdict = "accepted" <=> Xor(CrcOver(w), CrcOver(v)) = Noise(0))

LEMMA Arrived == Sent /\ Judged => \E w, v, m : Wire(w, v, m)
<1> SUFFICES ASSUME Sent, Judged PROVE \E w, v, m : Wire(w, v, m)
  OBVIOUS
<1> DEFINE noise(i) == Noise(i)
<1>1. reply \in Words /\ Len(reply) \in Nat /\ \A i \in 1 .. Len(reply) : reply[i] \in Byte
  BY DEF Sent, Words
<1>2. ASSUME NEW i PROVE noise(i) \in Byte
  BY ByteIs DEF Noise, Bit
<1>3. /\ Received \in Words /\ Len(Received) = Len(reply)
      /\ \A i \in 1 .. Len(reply) : Received[i] = Xor(reply[i], noise(i))
  <2>1. \A i \in 1 .. Len(reply) : Xor(reply[i], noise(i)) \in Byte
    BY <1>1, <1>2, XorByte
  <2>2. Received \in [1 .. Len(reply) -> Byte]
    BY <2>1 DEF Received
  <2>3. Received \in Seq(Byte)
    BY <1>1, <2>2, SeqDef
  <2>4. Len(Received) = Len(reply)
    BY <1>1, <2>2, <2>3, LenProperties
  <2> QED
    BY <2>3, <2>4 DEF Received, Words
<1>4. PICK first \in Words :
         /\ first \o reply \in Words /\ first \o Received \in Words
         /\ GenerateSmbusCrc(cmd, reply, isBlock, TRUE) = CrcOver(first \o reply)
         /\ GenerateSmbusCrc(cmd, Received, isBlock, TRUE) = CrcOver(first \o Received)
  BY <1>3, CoveredIs
<1>5. PICK w \in Words : w = first \o reply
  BY <1>4
<1>6. PICK v \in Words : v = first \o Received
  BY <1>4
<1>7. PICK m \in Nat : m = Len(first)
  BY DEF Words
<1>8. verdict # "none" => (verdict = "accepted" <=> Xor(CrcOver(w), CrcOver(v)) = Noise(0))
  <2>1. crc = CrcOver(w) /\ GenerateSmbusCrc(cmd, Received, isBlock, TRUE) = CrcOver(v)
    BY <1>4, <1>5, <1>6 DEF Sent
  <2>2. verdict # "none" => (verdict = "accepted" <=> Xor(crc, Noise(0)) = CrcOver(v))
    BY <2>1 DEF Judged, ValidateSmbusCrc
  <2>3. ASSUME NEW a, NEW b, NEW c PROVE Xor(a, b) = c <=> Xor(a, c) = b
    BY DEF Xor
  <2> QED
    BY <2>1, <2>2, <2>3
<1>9. first \in Seq(Byte) /\ reply \in Seq(Byte) /\ Received \in Seq(Byte)
  BY <1>1, <1>3 DEF Words
<1>10. /\ Len(w) = Len(first) + Len(reply)
       /\ \A j \in 1 .. Len(first) + Len(reply) :
             w[j] = IF j <= Len(first) THEN first[j] ELSE reply[j - Len(first)]
  BY <1>5, <1>9, ConcatProperties
<1>11. /\ Len(v) = Len(first) + Len(Received)
       /\ \A j \in 1 .. Len(first) + Len(Received) :
             v[j] = IF j <= Len(first) THEN first[j] ELSE Received[j - Len(first)]
  BY <1>6, <1>9, ConcatProperties
<1>12. Len(w) = m + Len(reply) /\ Len(v) = Len(w)
  BY <1>3, <1>7, <1>10, <1>11
<1> HIDE DEF noise
<1>13. ASSUME NEW j \in 1 .. m PROVE w[j] = v[j]
  <2>1. j \in 1 .. Len(first) + Len(reply) /\ j <= Len(first)
    BY <1>1, <1>7
  <2> QED
    BY <1>3, <1>10, <1>11, <2>1
<1>14. ASSUME NEW i \in 1 .. Len(reply) PROVE Xor(w[m + i], v[m + i]) = noise(i)
  <2>1. PICK j \in 1 .. Len(first) + Len(reply) : j = m + i
    BY <1>1, <1>7
  <2>2. ~(j <= Len(first)) /\ j - Len(first) = i
    BY <1>1, <1>7, <2>1
  <2>3. w[j] = reply[i] /\ v[j] = Received[i]
    BY <1>3, <1>10, <1>11, <2>1, <2>2
  <2>4. v[j] = Xor(w[j], noise(i))
    BY <1>3, <2>3
  <2>5. Xor(w[j], v[j]) = noise(i)
    BY <2>4 DEF Xor
  <2> QED
    BY <2>1, <2>5
<1>15. \A i \in 1 .. Len(reply) : Xor(w[m + i], v[m + i]) = Noise(i)
  BY <1>14 DEF noise
<1> QED
  BY <1>8, <1>12, <1>13, <1>15 DEF Wire

(* They agree where there is no noise.                                     *)
LEMMA WireAgrees ==
  ASSUME NEW w, NEW v, NEW m, Wire(w, v, m),
         NEW j \in 1 .. Len(w), \A i \in 1 .. Len(reply) : j = m + i => Noise(i) = {}
  PROVE  w[j] = v[j]
<1>1. m \in Nat /\ Len(reply) \in Nat /\ Len(w) = m + Len(reply)
  BY DEF Wire, Words
<1>2. CASE j <= m
  <2>1. j \in 1 .. m
    BY <1>1, <1>2
  <2> QED
    BY <2>1 DEF Wire
<1>3. CASE ~(j <= m)
  <2>1. PICK i \in 1 .. Len(reply) : j = m + i
    <3>1. j - m \in 1 .. Len(reply) /\ j = m + (j - m)
      BY <1>1, <1>3
    <3> QED
      BY <3>1
  <2>2. Xor(w[j], v[j]) = {}
    BY <2>1 DEF Wire
  <2>3. w[j] \in Byte /\ v[j] \in Byte
    BY <1>1 DEF Wire, Words
  <2> QED
    BY <2>2, <2>3, ByteIs DEF Xor
<1> QED
  BY <1>2, <1>3

LEMMA NoFlips == Judged => (flips = {} <=> \A i \in 0 .. Len(reply) : Noise(i) = {})
<1> SUFFICES ASSUME Judged PROVE flips = {} <=> \A i \in 0 .. Len(reply) : Noise(i) = {}
  OBVIOUS
<1>1. ASSUME flips # {} PROVE \E i \in 0 .. Len(reply) : Noise(i) # {}
  <2>1. PICK flip \in flips : flip \in (0 .. Len(reply)) \X Bit
    BY <1>1 DEF Judged
  <2>2. flip = <<flip[1], flip[2]>> /\ flip[1] \in 0 .. Len(reply) /\ flip[2] \in Bit
    BY <2>1
  <2>3. Noise(flip[1]) # {}
    BY <2>1, <2>2 DEF Noise
  <2> QED
    BY <2>2, <2>3
<1>2. ASSUME flips = {}, NEW i \in 0 .. Len(reply) PROVE Noise(i) = {}
  BY <1>2 DEF Noise
<1> QED
  BY <1>1, <1>2

LEMMA CrcsDiffer ==
  ASSUME NEW w \in Words, NEW v \in Words, CrcOver(w) # CrcOver(v)
  PROVE  Xor(CrcOver(w), CrcOver(v)) # {}
<1>1. PICK f \in [0 .. Len(w) -> Byte] : CrcOver(w) = f[Len(w)]
  BY CrcIs, Zenon
<1>2. PICK g \in [0 .. Len(v) -> Byte] : CrcOver(v) = g[Len(v)]
  BY CrcIs, Zenon
<1>3. Len(w) \in 0 .. Len(w) /\ Len(v) \in 0 .. Len(v)
  BY DEF Words
<1>4. CrcOver(w) \in Byte /\ CrcOver(v) \in Byte
  BY <1>1, <1>2, <1>3
<1> QED
  BY <1>4, ByteIs DEF Xor

LEMMA JudgedRight == Sent /\ Judged /\ InOneByte => AcceptedIffIntact
<1> SUFFICES ASSUME Sent, Judged, InOneByte, verdict # "none"
             PROVE  verdict = "accepted" <=> flips = {}
  BY DEF AcceptedIffIntact
<1>1. PICK q \in 0 .. Len(reply) : \A flip \in flips : flip[1] = q
  BY DEF InOneByte
<1>2. ASSUME NEW i, i # q PROVE Noise(i) = {}
  BY <1>1, <1>2 DEF Noise
<1>3. flips = {} <=> Noise(q) = {}
  BY <1>2, NoFlips
<1>4. PICK w, v, m : Wire(w, v, m)
  BY Arrived
<1>5. /\ w \in Words /\ v \in Words /\ m \in Nat /\ Len(reply) \in Nat
      /\ Len(w) = m + Len(reply) /\ Len(v) = Len(w)
  BY <1>4 DEF Wire, Sent, Words
<1>6. verdict = "accepted" <=> Xor(CrcOver(w), CrcOver(v)) = Noise(0)
  BY <1>4 DEF Wire
<1>7. CASE q = 0 \/ flips = {}
  <2>1. \A i \in 1 .. Len(reply) : Noise(i) = {}
    BY <1>2, <1>7, NoFlips
  <2>2. \A j \in 1 .. Len(w) : w[j] = v[j]
    BY <1>4, <2>1, WireAgrees
  <2>3. w = v
    BY <1>5, <2>2, SeqEqual DEF Words
  <2>4. Xor(CrcOver(w), CrcOver(v)) = {}
    BY <2>3 DEF Xor
  <2>5. flips = {} <=> Noise(0) = {}
    BY <1>2, <1>3, <1>7
  <2> QED
    BY <1>6, <2>4, <2>5
<1>8. CASE q # 0 /\ flips # {}
  <2>1. q \in 1 .. Len(reply) /\ Noise(0) = {} /\ Noise(q) # {}
    BY <1>2, <1>3, <1>5, <1>8
  <2>2. PICK at \in 1 .. Len(w) : at = m + q
    BY <1>5, <2>1
  <2>3. w[at] # v[at]
    <3>1. Xor(w[at], v[at]) = Noise(q)
      BY <1>4, <2>1, <2>2 DEF Wire
    <3> QED
      BY <2>1, <3>1 DEF Xor
  <2>4. ASSUME NEW j \in 1 .. Len(w), j # at PROVE w[j] = v[j]
    <3>1. ASSUME NEW i \in 1 .. Len(reply), j = m + i PROVE Noise(i) = {}
      BY <1>2, <1>5, <2>2, <2>4, <3>1
    <3> QED
      BY <1>4, <3>1, WireAgrees
  <2>5. CrcOver(w) # CrcOver(v)
    BY <1>5, <2>3, <2>4, CrcDiffers
  <2>6. Xor(CrcOver(w), CrcOver(v)) # {}
    BY <1>5, <2>5, CrcsDiffer
  <2> QED
    BY <1>6, <1>8, <2>1, <2>6
<1> QED
  BY <1>7, <1>8

LEMMA JudgedNear == Sent /\ Judged /\ TwoNear => AcceptedIffIntact
<1> SUFFICES ASSUME Sent, Judged, TwoNear, ~InOneByte, verdict # "none"
             PROVE  verdict = "accepted" <=> flips = {}
  BY JudgedRight DEF AcceptedIffIntact
<1>1. PICK a, b \in flips : flips = {a, b} /\ Place(a) - Place(b) \in 1 .. 126
  BY DEF TwoNear
<1>2. PICK n \in Nat : n = Len(reply)
  BY DEF Sent, Words
<1>3. a \in (0 .. n) \X Bit /\ b \in (0 .. n) \X Bit
  BY <1>1, <1>2 DEF Judged
<1>4. PICK i \in 0 .. n, k \in 0 .. 7 : a = <<i, k>>
  BY <1>3 DEF Bit
<1>5. PICK h \in 0 .. n, l \in 0 .. 7 : b = <<h, l>>
  BY <1>3 DEF Bit
<1>6. Place(a) = IF i = 0 THEN k ELSE 8 * (n + 1 - i) + k
  BY <1>2, <1>4 DEF Place
<1>7. Place(b) = IF h = 0 THEN l ELSE 8 * (n + 1 - h) + l
  BY <1>2, <1>5 DEF Place
<1>8. i # h
  <2>1. SUFFICES ASSUME i = h PROVE InOneByte
    OBVIOUS
  <2>2. \A flip \in flips : flip[1] = i
    BY <1>1, <1>4, <1>5, <2>1
  <2> QED
    BY <1>2, <2>2 DEF InOneByte
<1>9. i # 0
  <2>1. SUFFICES ASSUME i = 0 PROVE FALSE
    OBVIOUS
  <2>2. Place(a) = k /\ Place(b) = 8 * (n + 1 - h) + l /\ h \in 1 .. n
    BY <1>6, <1>7, <1>8, <2>1
  <2> QED
    BY <1>1, <2>2
<1>10. ASSUME NEW x \in 0 .. 7, NEW y
       PROVE  x \in Noise(y) <=> (y = i /\ x = k) \/ (y = h /\ x = l)
  <2>1. flips = {<<i, k>>, <<h, l>>}
    BY <1>1, <1>4, <1>5
  <2>2. x \in Noise(y) <=> <<y, x>> \in flips
    BY DEF Noise, Bit
  <2> QED
    BY <2>1, <2>2
<1>11. \A y : Noise(y) \subseteq 0 .. 7
  BY DEF Noise, Bit
<1>12. Noise(i) = {k} /\ Noise(h) = {l}
  BY <1>8, <1>10, <1>11
<1>13. ASSUME NEW y, y # i, y # h PROVE Noise(y) = {}
  BY <1>10, <1>11, <1>13
<1>14. PICK w, v, m : Wire(w, v, m)
  BY Arrived
<1>15. w \in Words /\ v \in Words /\ m \in Nat /\ Len(w) = m + n /\ Len(v) = m + n
  BY <1>2, <1>14 DEF Wire
<1>16. \A j \in 1 .. n : Xor(w[m + j], v[m + j]) = Noise(j)
  BY <1>2, <1>14 DEF Wire
<1>17. PICK p \in 1 .. m + n : p = m + i
  BY <1>9, <1>15
<1>18. Xor(w[p], v[p]) = {k}
  BY <1>9, <1>12, <1>16, <1>17
<1>19. ASSUME NEW j \in 1 .. m + n, j # m + i, h = 0 \/ j # m + h PROVE w[j] = v[j]
  <2>1. ASSUME NEW y \in 1 .. Len(reply), j = m + y PROVE Noise(y) = {}
    <3>1. y # i /\ y # h
      BY <1>19, <2>1
    <3> QED
      BY <1>13, <3>1
  <2>2. j \in 1 .. Len(w)
    BY <1>15
  <2> QED
    BY <1>14, <2>1, <2>2, WireAgrees
<1>20. CASE h = 0
  <2>1. \A j \in 1 .. m + n : j # p => w[j] = v[j]
    BY <1>17, <1>19, <1>20
  <2>2. DifferInOne(w, v, Len(w), p, k)
    <3>1. p \in 1 .. Len(w) /\ Len(w) \in 1 .. Len(w)
      BY <1>15
    <3> QED
      BY <1>15, <1>18, <2>1, <3>1 DEF DifferInOne
  <2>3. k + 8 * (Len(w) - p + 1) - l \in 1 .. 126
    <3>1. Place(a) - Place(b) = k + 8 * (Len(w) - p + 1) - l
      BY <1>6, <1>7, <1>9, <1>15, <1>17, <1>20
    <3> QED
      BY <1>1, <3>1
  <2>4. Xor(CrcOver(w), CrcOver(v)) # {l}
    BY <2>2, <2>3, CrcBitAndChecksum
  <2> QED
    BY <1>1, <1>12, <1>14, <1>20, <2>4 DEF Wire
<1>21. CASE h # 0
  <2>1. i < h /\ k + 8 * (h - i) - l \in 1 .. 126
    <3>1. Place(a) - Place(b) = k + 8 * (h - i) - l
      BY <1>6, <1>7, <1>9, <1>21
    <3> QED
      BY <1>1, <1>8, <3>1
  <2>2. PICK q \in 1 .. m + n : q = m + h
    BY <1>15, <1>21
  <2>3. Xor(w[q], v[q]) = {l}
    BY <1>12, <1>16, <1>21, <2>2
  <2>4. DifferInOne(w, v, q - 1, p, k)
    <3>1. q - 1 \in 1 .. Len(w) /\ p \in 1 .. q - 1
      BY <1>15, <1>17, <2>1, <2>2
    <3>2. \A j \in 1 .. q - 1 : j # p => w[j] = v[j]
      <4>1. \A j \in 1 .. q - 1 : j \in 1 .. m + n /\ j # m + h
        BY <1>15, <2>2
      <4> QED
        BY <1>17, <1>19, <4>1
    <3> QED
      BY <1>15, <1>18, <3>1, <3>2 DEF DifferInOne
  <2>5. ASSUME NEW j \in q + 1 .. Len(w) PROVE w[j] = v[j]
    <3>1. j \in 1 .. m + n /\ j # m + i /\ j # m + h
      BY <1>15, <2>1, <2>2
    <3> QED
      BY <1>19, <3>1
  <2>6. k + 8 * (q - p) - l \in 1 .. 126
    <3>1. q - p = h - i
      BY <1>15, <1>17, <2>2
    <3> QED
      BY <2>1, <3>1
  <2>7. q \in 1 .. Len(w)
    BY <1>15
  <2>8. CrcOver(w) # CrcOver(v)
    BY <2>3, <2>4, <2>5, <2>6, <2>7, CrcTwoBits
  <2>9. Xor(CrcOver(w), CrcOver(v)) # {}
    BY <1>15, <2>8, CrcsDiffer
  <2>10. Noise(0) = {}
    BY <1>9, <1>13, <1>21
  <2>11. flips # {}
    BY <1>1
  <2>12. verdict = "accepted" <=> Xor(CrcOver(w), CrcOver(v)) = Noise(0)
    BY <1>14 DEF Wire
  <2> QED
    BY <2>9, <2>10, <2>11, <2>12
<1> QED
  BY <1>20, <1>21

(* A reply is accepted exactly when it is intact, as long as the noise is  *)
(* in one byte of it or of its checksum, or is two bits less than 127      *)
(* apart: an intact one is never refused, and one with such noise never    *)
(* accepted, whatever its length (smbus.c:19-91).                          *)
THEOREM NoiseIsNoticed ==
    CrcSpec => [](InOneByte \/ TwoNear => AcceptedIffIntact)
<1>1. CrcInit => Sent /\ Judged
  BY SentInit, JudgedInit
<1>2. Sent /\ Judged /\ [CrcNext]_crcVars => (Sent /\ Judged)'
  BY SentNext, JudgedNext
<1>3. Sent /\ Judged => (InOneByte \/ TwoNear => AcceptedIffIntact)
  BY JudgedRight, JudgedNear
<1> QED
  BY <1>1, <1>2, <1>3, PTL DEF CrcSpec

(* Two flips at most, in a reply of at most 14 bytes, are such noise.      *)
Few ==
    /\ Len(reply) <= 14
    /\ \/ flips = {}
       \/ \E a : flips = {a}
       \/ \E a, b : a # b /\ flips = {a, b}

LEMMA FewInit == CrcInit /\ MaxReply <= 14 => Few
BY DEF CrcInit, Few

LEMMA FewNext ==
  Sent /\ Few /\ MaxReply <= 14 /\ MaxFlips <= 2 /\ [CrcNext]_crcVars => Few'
<1> SUFFICES ASSUME Sent, Few, MaxReply <= 14, MaxFlips <= 2, [CrcNext]_crcVars PROVE Few'
  OBVIOUS
<1>1. ASSUME NEW b \in Bytes, Extend(b) PROVE Few'
  <2>1. flips' = {} /\ Len(reply) < MaxReply /\ reply' = Append(reply, b)
    BY <1>1 DEF Extend
  <2>2. Len(reply') = Len(reply) + 1 /\ Len(reply) \in Nat /\ MaxReply \in Int
    <3>1. reply \in Seq(Byte) /\ b \in Byte
      BY CrcAssumption DEF CrcAssumption, Sent, Words
    <3> QED
      BY <2>1, <3>1, CrcAssumption DEF CrcAssumption
  <2> QED
    BY <2>1, <2>2 DEF Few
<1>2. ASSUME NEW i \in 0 .. Len(reply), NEW k \in Bit, Flip(i, k) PROVE Few'
  <2>1. /\ Cardinality(flips) < MaxFlips /\ <<i, k>> \notin flips
        /\ flips' = flips \cup {<<i, k>>} /\ reply' = reply
    BY <1>2 DEF Flip
  <2>2. CASE flips = {}
    <3>1. flips' = {<<i, k>>}
      BY <2>1, <2>2
    <3> QED
      BY <2>1, <3>1 DEF Few
  <2>3. CASE \E a : flips = {a}
    <3>1. PICK a : flips = {a}
      BY <2>3
    <3>2. flips' = {a, <<i, k>>} /\ a # <<i, k>>
      BY <2>1, <3>1
    <3> QED
      BY <2>1, <3>2 DEF Few
  <2>4. CASE \E a, b : a # b /\ flips = {a, b}
    <3>1. PICK a, b : a # b /\ flips = {a, b}
      BY <2>4
    <3>2. IsFiniteSet({a}) /\ Cardinality({a}) = 1
      BY FS_Singleton
    <3>3. {a, b} = {a} \cup {b} /\ b \notin {a}
      BY <3>1
    <3>4. PICK S : S = {a}
      OBVIOUS
    <3>5. Cardinality(S \cup {b}) = IF b \in S THEN Cardinality(S) ELSE Cardinality(S) + 1
      BY <3>2, <3>4, FS_AddElement
    <3>6. Cardinality({a, b}) = 1 + 1
      BY <3>2, <3>3, <3>4, <3>5, Zenon
    <3>7. MaxFlips \in Int
      BY CrcAssumption DEF CrcAssumption
    <3> QED
      BY <2>1, <3>1, <3>6, <3>7
  <2> QED
    BY <2>2, <2>3, <2>4 DEF Few
<1>3. ASSUME UNCHANGED <<reply, flips>> PROVE Few'
  BY <1>3 DEF Few
<1> QED
  BY <1>1, <1>2, <1>3 DEF CrcNext, Validate, crcVars

LEMMA PlaceWithin ==
  ASSUME NEW n \in 0 .. 14, NEW i \in 0 .. n, NEW k \in 0 .. 7
  PROVE  (IF i = 0 THEN k ELSE 8 * (n + 1 - i) + k) \in 0 .. 119
<1>1. CASE i = 0
  BY <1>1
<1>2. CASE i # 0
  <2>1. n + 1 - i \in 1 .. 14
    BY <1>2
  <2> QED
    BY <1>2, <2>1
<1> QED
  BY <1>1, <1>2

LEMMA FewAreNear == Sent /\ Judged /\ Few => InOneByte \/ TwoNear
<1> SUFFICES ASSUME Sent, Judged, Few PROVE InOneByte \/ TwoNear
  OBVIOUS
<1>1. PICK n \in 0 .. 14 : n = Len(reply)
  <2>1. PICK m \in Nat : m = Len(reply)
    BY DEF Sent, Words
  <2>2. m <= 14
    BY <2>1 DEF Few
  <2>3. m \in 0 .. 14
    BY <2>2
  <2> QED
    BY <2>1, <2>3
<1>2. flips \subseteq (0 .. n) \X Bit
  BY <1>1 DEF Judged
<1>3. CASE flips = {}
  <2>1. 0 \in 0 .. Len(reply)
    BY <1>1
  <2> QED
    BY <1>3, <2>1 DEF InOneByte
<1>4. CASE \E a : flips = {a}
  <2>1. PICK a : flips = {a}
    BY <1>4
  <2>2. a[1] \in 0 .. Len(reply)
    BY <1>1, <1>2, <2>1
  <2> QED
    BY <2>1, <2>2 DEF InOneByte
<1>5. CASE \E a, b : a # b /\ flips = {a, b}
  <2>1. PICK a, b : a # b /\ flips = {a, b}
    BY <1>5
  <2>2. PICK i \in 0 .. n, k \in 0 .. 7 : a = <<i, k>>
    BY <1>2, <2>1 DEF Bit
  <2>3. PICK h \in 0 .. n, l \in 0 .. 7 : b = <<h, l>>
    BY <1>2, <2>1 DEF Bit
  <2>4. Place(a) = IF i = 0 THEN k ELSE 8 * (n + 1 - i) + k
    BY <1>1, <2>2 DEF Place
  <2>5. Place(b) = IF h = 0 THEN l ELSE 8 * (n + 1 - h) + l
    BY <1>1, <2>3 DEF Place
  <2>6. CASE i = h
    <3>1. \A flip \in flips : flip[1] = i
      BY <2>1, <2>2, <2>3, <2>6
    <3> QED
      BY <1>1, <3>1 DEF InOneByte
  <2>7. CASE i # h
    <3>1. PICK x \in 0 .. 119 : x = Place(a)
      BY <2>4, PlaceWithin, Zenon
    <3>2. PICK y \in 0 .. 119 : y = Place(b)
      BY <2>5, PlaceWithin, Zenon
    <3>3. x # y
      BY <1>1, <2>4, <2>5, <2>7, <3>1, <3>2
    <3>4. x - y \in 1 .. 126 \/ y - x \in 1 .. 126
      BY <3>3
    <3>5. a \in flips /\ b \in flips /\ flips = {b, a}
      BY <2>1
    <3> QED
      BY <2>1, <3>1, <3>2, <3>4, <3>5 DEF TwoNear
  <2> QED
    BY <2>6, <2>7
<1> QED
  BY <1>3, <1>4, <1>5 DEF Few

(* So with two flips at most, in replies of at most 14 bytes, a reply is   *)
(* accepted exactly when it is intact (smbus.c:19-91).                     *)
THEOREM AcceptedIffIntactHolds ==
  ASSUME MaxReply <= 14, MaxFlips <= 2
  PROVE  CrcSpec => []AcceptedIffIntact
<1>1. CrcInit => Sent /\ Judged /\ Few
  BY SentInit, JudgedInit, FewInit
<1>2. Sent /\ Judged /\ Few /\ [CrcNext]_crcVars => (Sent /\ Judged /\ Few)'
  BY SentNext, JudgedNext, FewNext
<1>3. Sent /\ Judged /\ Few => AcceptedIffIntact
  BY FewAreNear, JudgedRight, JudgedNear
<1> QED
  BY <1>1, <1>2, <1>3, PTL DEF CrcSpec
=============================================================================
