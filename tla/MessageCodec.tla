---------------------------- MODULE MessageCodec ----------------------------
(***************************************************************************)
(* The binary form of a ClientMessage (message/clientmessage.go, types.go, *)
(* readers.go, writers.go): a message is serialised, the frame travels and *)
(* may arrive cut short or altered, is deserialised and validated.         *)
(*                                                                         *)
(* Byte counts and the number of values of a byte are constants, so that   *)
(* the ends of every range are within TLC's reach.  A byte array is a      *)
(* sequence, and offsets count from 0 as in the code.                      *)
(***************************************************************************)
EXTENDS Integers, Sequences, FiniteSetsExt, SafeInt

CONSTANTS
    Byte,               \* how many values a byte has
    IntegerLength,      \* of int32 and uint32, in bytes
    LongLength,         \* of int64 and uint64
    MessageTypeLength,
    DigestLength,
    Digest(_),          \* SHA-256
    Publications,       \* the message types start_ and pause_publication
    Messages            \* the messages to serialise

VARIABLES
    message,    \* the ClientMessage that is sent
    frame,      \* its bytes
    damaged,    \* what of the frame did not arrive as sent: "no", "cut" or a field
    decoded,    \* the ClientMessage that was read from the frame
    step

frameVars == <<message, frame, damaged, decoded, step>>

-----------------------------------------------------------------------------
(* types.go: lengths and offsets of the fields *)

HLOffset == 0
MessageTypeOffset == HLOffset + IntegerLength
SchemaVersionOffset == MessageTypeOffset + MessageTypeLength
CreatedDateOffset == SchemaVersionOffset + IntegerLength
SequenceNumberOffset == CreatedDateOffset + LongLength

\* Mutant of FlagsOffset: the length of an integer where a long precedes.
FlagsOffset_Integer == SequenceNumberOffset + IntegerLength

FlagsOffset == SequenceNumberOffset + LongLength

MessageIDOffset == FlagsOffset + LongLength
PayloadDigestOffset == MessageIDOffset + 2 * LongLength
PayloadTypeOffset == PayloadDigestOffset + DigestLength
PayloadLengthOffset == PayloadTypeOffset + IntegerLength
PayloadOffset == PayloadLengthOffset + IntegerLength

Bytes == 0 .. (Byte - 1)

Nul == 0
Space == Byte - 1

\* uuid.Nil
NilUUID == [i \in 1 .. 2 * LongLength |-> 0]

-----------------------------------------------------------------------------
(* Numbers: big-endian two's complement *)

\* What a digit counts that has k digits behind it.
Place[k \in Nat] == IF k = 0 THEN 1 ELSE Byte * Place[k - 1]

ASSUME CodecAssumption ==
    /\ Byte \in Nat \ {0, 1}
    /\ {IntegerLength, LongLength, MessageTypeLength, DigestLength} \subseteq Nat \ {0}
    /\ 2 * Int32Limit = Place[IntegerLength]
    /\ 2 * Int64Limit = Place[LongLength]
    /\ PayloadOffset <= Int32Limit

ToBytes(v, length) == [i \in 1 .. length |-> (v \div Place[length - i]) % Byte]

Unsigned(b) ==
    LET value[i \in 0 .. Len(b)] == IF i = 0 THEN 0 ELSE value[i - 1] * Byte + b[i]
    IN  value[Len(b)]

FromBytes(b) ==
    IF 2 * Unsigned(b) >= Place[Len(b)] THEN Unsigned(b) - Place[Len(b)] ELSE Unsigned(b)

-----------------------------------------------------------------------------
(* writers.go.  Put... says what is written where in an array of n bytes,  *)
(* and whether the writer accepts the value.                               *)

PutInteger(n, offset, v) ==
    [ok |-> offset + IntegerLength <= n, at |-> offset, bytes |-> ToBytes(v, IntegerLength)]

PutUInteger(n, offset, v) ==
    LET safe == SafeInt32(v) IN
    [PutInteger(n, offset, safe.value) EXCEPT !.ok = @ /\ safe.ok]

PutLong(n, offset, v) ==
    [ok |-> offset + LongLength <= n, at |-> offset, bytes |-> ToBytes(v, LongLength)]

PutULong(n, offset, v) ==
    LET safe == SafeInt64(v) IN
    [PutLong(n, offset, safe.value) EXCEPT !.ok = @ /\ safe.ok]

\* The rest of the field is filled with spaces.
PutString(n, start, end, s) ==
    [ok |-> start <= end /\ end < n /\ Len(s) <= end - start + 1,
     at |-> start,
     bytes |-> [i \in 1 .. (end - start + 1) |-> IF i <= Len(s) THEN s[i] ELSE Space]]

\* No bytes at all are refused, too: start is then behind end.
PutBytes(n, start, end, b) ==
    [ok |-> start <= end /\ end < n /\ Len(b) = end - start + 1, at |-> start, bytes |-> b]

\* The least significant half is written first.
PutUUID(n, offset, id) ==
    LET least == FromBytes(SubSeq(id, LongLength + 1, 2 * LongLength))
        most == FromBytes(SubSeq(id, 1, LongLength))
    IN  [ok |-> id # NilUUID /\ offset + 2 * LongLength <= n,
         at |-> offset,
         bytes |-> ToBytes(least, LongLength) \o ToBytes(most, LongLength)]

(* readers.go.  Get... returns a record: ok, and what was read. *)

Got(b, offset, length) ==
    IF offset + length <= Len(b)
    THEN [ok |-> TRUE, value |-> SubSeq(b, offset + 1, offset + length)]
    ELSE [ok |-> FALSE, value |-> <<>>]

GetBytes(b, offset, length) == Got(b, offset, length)

GetNumber(b, offset, length) ==
    LET got == Got(b, offset, length) IN [ok |-> got.ok, value |-> FromBytes(got.value)]

NotNegative(got) == IF got.ok /\ got.value >= 0 THEN got ELSE [ok |-> FALSE, value |-> 0]

GetUInteger(b, offset) == NotNegative(GetNumber(b, offset, IntegerLength))
GetLong(b, offset) == GetNumber(b, offset, LongLength)
GetULong(b, offset) == NotNegative(GetLong(b, offset))

\* What is left between the first and the last byte outside the set.
Trim(b, set) ==
    LET kept == {i \in DOMAIN b : b[i] \notin set} IN
    IF kept = {} THEN <<>> ELSE SubSeq(b, Min(kept), Max(kept))

\* Nulls are trimmed first, then white space.
GetString(b, offset, length) ==
    LET got == Got(b, offset, length) IN
    [ok |-> got.ok, value |-> Trim(Trim(got.value, {Nul}), {Space})]

GetUUID(b, offset) ==
    LET least == GetLong(b, offset)
        most == GetLong(b, offset + LongLength)
    IN  [ok |-> least.ok /\ most.ok,
         value |-> ToBytes(most.value, LongLength) \o ToBytes(least.value, LongLength)]

-----------------------------------------------------------------------------
(* clientmessage.go *)

\* The writes of SerializeClientMessage, in its order, into n bytes.
Writes(m, n) ==
    <<PutUInteger(n, HLOffset, PayloadLengthOffset),
      PutString(n, MessageTypeOffset, MessageTypeOffset + MessageTypeLength - 1, m.messageType),
      PutUInteger(n, SchemaVersionOffset, m.schemaVersion),
      PutULong(n, CreatedDateOffset, m.createdDate),
      PutLong(n, SequenceNumberOffset, m.sequenceNumber),
      PutULong(n, FlagsOffset, m.flags),
      PutUUID(n, MessageIDOffset, m.messageID),
      PutBytes(n, PayloadDigestOffset, PayloadDigestOffset + DigestLength - 1, Digest(m.payload)),
      PutUInteger(n, PayloadTypeOffset, m.payloadType),
      PutUInteger(n, PayloadLengthOffset, SafeUint32(Len(m.payload)).value),
      PutBytes(n, PayloadOffset, PayloadOffset + Len(m.payload) - 1, m.payload)>>

\* An array of n zeros after the writes, of which the last one counts.
Written(writes, n) ==
    [i \in 1 .. n |->
        LET here == {k \in DOMAIN writes : i - writes[k].at \in DOMAIN writes[k].bytes} IN
        IF here = {} THEN 0 ELSE writes[Max(here)].bytes[i - writes[Max(here)].at]]

\* The sum of the lengths is computed in uint32.
SerializeClientMessage(m) ==
    LET n == (PayloadLengthOffset + IntegerLength + Len(m.payload)) % (2 * Int32Limit)
        writes == Writes(m, n)
    IN  IF /\ SafeUint32(Len(m.payload)).ok
           /\ \A i \in DOMAIN writes : writes[i].ok
        THEN [ok |-> TRUE, value |-> Written(writes, n)]
        ELSE [ok |-> FALSE, value |-> <<>>]

\* The reads of DeserializeClientMessage.
Fields(b) ==
    [messageType |-> GetString(b, MessageTypeOffset, MessageTypeLength),
     schemaVersion |-> GetUInteger(b, SchemaVersionOffset),
     createdDate |-> GetULong(b, CreatedDateOffset),
     sequenceNumber |-> GetLong(b, SequenceNumberOffset),
     flags |-> GetULong(b, FlagsOffset),
     messageID |-> GetUUID(b, MessageIDOffset),
     payloadDigest |-> GetBytes(b, PayloadDigestOffset, DigestLength),
     payloadType |-> GetUInteger(b, PayloadTypeOffset),
     payloadLength |-> GetUInteger(b, PayloadLengthOffset),
     headerLength |-> GetUInteger(b, HLOffset)]

\* The payload is sliced off behind the header length that was read, without a
\* look at the length of the input.
DeserializeClientMessage(b) ==
    LET fields == Fields(b)
        start == fields.headerLength.value + IntegerLength
    IN  [ok |-> \A f \in DOMAIN fields : fields[f].ok,
         inRange |-> start <= Len(b),
         value |-> [f \in DOMAIN fields \cup {"payload"} |->
                       IF f = "payload" THEN SubSeq(b, start + 1, Len(b)) ELSE fields[f].value]]

\* Mutant of Validate: the payload's length stands in for its digest.
Validate_LengthOnly(m) ==
    \/ m.messageType \in Publications
    \/ /\ m.headerLength # 0
       /\ m.messageType # <<>>
       /\ m.createdDate # 0
       /\ m.payloadLength # 0 => Len(m.payload) = m.payloadLength

\* The digest is the payload's alone, and the payload's length is not compared
\* with payloadLength.
Validate(m) ==
    \/ m.messageType \in Publications
    \/ /\ m.headerLength # 0
       /\ m.messageType # <<>>
       /\ m.createdDate # 0
       /\ m.payloadLength # 0 => Digest(m.payload) = m.payloadDigest

-----------------------------------------------------------------------------
(* Messages *)

ClientMessage ==
    [messageType : Seq(Bytes), schemaVersion : 0 .. (2 * Int32Limit - 1),
     createdDate : 0 .. (2 * Int64Limit - 1),
     sequenceNumber : (-Int64Limit) .. (Int64Limit - 1),
     flags : 0 .. (2 * Int64Limit - 1), messageID : [1 .. 2 * LongLength -> Bytes],
     payloadType : 0 .. (2 * Int32Limit - 1), payload : Seq(Bytes)]

\* Every field has a value that the frame can hold.  Unsigned fields lose half
\* of their range, because they are written as signed numbers.
Fits(m) ==
    /\ Len(m.messageType) <= MessageTypeLength
    /\ m.schemaVersion < Int32Limit /\ m.payloadType < Int32Limit
    /\ m.createdDate < Int64Limit /\ m.flags < Int64Limit
    /\ m.messageID # NilUUID
    /\ m.payload # <<>> /\ Len(m.payload) < Int32Limit

\* The message types of types.go neither start nor end with a blank.
ASSUME MessagesAssumption ==
    /\ Messages \subseteq ClientMessage
    /\ \A m \in Messages : m.messageType # <<>> =>
           {m.messageType[1], m.messageType[Len(m.messageType)]} \cap {Nul, Space} = {}

\* The frame as the lengths and the order of types.go's constants give it: field
\* after field, the message ID as 16 bytes with its least significant half first.
\* (The comment above those constants speaks of a string of 40 bytes.)
Layout(m) ==
    LET integer(v) == ToBytes(v, IntegerLength)
        long(v) == ToBytes(v, LongLength)
        padding == [i \in 1 .. (MessageTypeLength - Len(m.messageType)) |-> Space]
    IN  integer(PayloadLengthOffset) \o (m.messageType \o padding)
            \o integer(m.schemaVersion) \o long(m.createdDate) \o long(m.sequenceNumber)
            \o long(m.flags) \o (SubSeq(m.messageID, LongLength + 1, 2 * LongLength)
                                   \o SubSeq(m.messageID, 1, LongLength))
            \o Digest(m.payload) \o integer(m.payloadType) \o integer(Len(m.payload))
            \o m.payload

\* A payload that was cut, or in which a byte was altered,
DamagedPayloads(p) ==
    {SubSeq(p, 1, n) : n \in 0 .. (Len(p) - 1)}
        \cup {[p EXCEPT ![i] = v] : i \in DOMAIN p, v \in Bytes}

\* and all that may be taken for the payload of a damaged frame: also the tail of
\* the frame from a place that an altered header length names.
Misread(m) ==
    DamagedPayloads(m.payload)
        \cup {SubSeq(Layout(m), n, Len(Layout(m))) : n \in 1 .. (Len(Layout(m)) + 1)}

\* SHA-256 tells a payload from what is misread for it.
ASSUME DigestAssumption ==
    \A m \in Messages : Fits(m) =>
        /\ Digest(m.payload) \in [1 .. DigestLength -> Bytes]
        /\ \A p \in Misread(m) : p # m.payload => Digest(p) # Digest(m.payload)

-----------------------------------------------------------------------------
(* A message, from the sender to the receiver *)

FrameInit ==
    /\ message \in Messages
    /\ frame = <<>>
    /\ damaged = "no"
    /\ decoded = <<>>
    /\ step = "new"

Serialize ==
    /\ step = "new"
    /\ LET result == SerializeClientMessage(message) IN
           /\ frame' = result.value
           /\ step' = IF result.ok THEN "sent" ELSE "refused"
    /\ UNCHANGED <<message, damaged, decoded>>

\* The fields of a frame of n bytes, and the bytes that they take.
Extent(n) ==
    [headerLength |-> (HLOffset + 1) .. MessageTypeOffset,
     messageType |-> (MessageTypeOffset + 1) .. SchemaVersionOffset,
     schemaVersion |-> (SchemaVersionOffset + 1) .. CreatedDateOffset,
     createdDate |-> (CreatedDateOffset + 1) .. SequenceNumberOffset,
     sequenceNumber |-> (SequenceNumberOffset + 1) .. FlagsOffset,
     flags |-> (FlagsOffset + 1) .. MessageIDOffset,
     messageID |-> (MessageIDOffset + 1) .. PayloadDigestOffset,
     payloadDigest |-> (PayloadDigestOffset + 1) .. PayloadTypeOffset,
     payloadType |-> (PayloadTypeOffset + 1) .. PayloadLengthOffset,
     payloadLength |-> (PayloadLengthOffset + 1) .. PayloadOffset,
     payload |-> (PayloadOffset + 1) .. n]

\* The network: the frame is cut short, or a byte of any of its fields is altered.
Cut ==
    /\ \E n \in 0 .. (Len(frame) - 1) : frame' = SubSeq(frame, 1, n)
    /\ damaged' = "cut"

Alter(field) ==
    /\ \E i \in Extent(Len(frame))[field] : \E v \in Bytes \ {frame[i]} :
           frame' = [frame EXCEPT ![i] = v]
    /\ damaged' = field

Damage ==
    /\ step = "sent"
    /\ damaged = "no"
    /\ Cut \/ \E field \in DOMAIN Extent(Len(frame)) : Alter(field)
    /\ UNCHANGED <<message, decoded, step>>

\* readMessage hands the frame to outputMessageHandler.  A slice out of range is
\* a panic, which nothing recovers: the process ends.
Deserialize ==
    /\ step = "sent"
    /\ LET result == DeserializeClientMessage(frame) IN
           \/ /\ ~result.ok
              /\ step' = "unreadable" /\ UNCHANGED decoded
           \/ /\ result.ok /\ ~result.inRange
              /\ step' = "panicked" /\ UNCHANGED decoded
           \/ /\ result.ok /\ result.inRange
              /\ step' = "decoded" /\ decoded' = result.value
    /\ UNCHANGED <<message, frame, damaged>>

ValidateDecoded ==
    /\ step = "decoded"
    /\ step' = IF Validate(decoded) THEN "valid" ELSE "invalid"
    /\ UNCHANGED <<message, frame, damaged, decoded>>

FrameNext == Serialize \/ Damage \/ Deserialize \/ ValidateDecoded

FrameSpec == FrameInit /\ [][FrameNext]_frameVars

-----------------------------------------------------------------------------
(* Properties *)

\* SerializeClientMessage, which writes each field at an offset of its own,
\* leaves no gap and no overlap between the fields of a message that fits, and
\* returns an error for every other message: a value at the end of its range is
\* never written as another one.
FrameIsLayout ==
    /\ (step = "sent" /\ damaged = "no") => Fits(message) /\ frame = Layout(message)
    /\ step = "refused" => ~Fits(message)

\* What damage to a frame can do, as DeserializeClientMessage and Validate stand.
\* A message that passes was not cut, and its header length, digest and payload
\* arrived as sent: only one of the header's other fields can be another one (the
\* digest does not cover them), and then all fields but that one are the original
\* ones.  Only an altered header length makes Deserialize panic.  A frame that
\* arrives as sent is read back, and is invalid only without a type or a date.
\* Of the two publication types, which Validate lets pass unseen, this is shown
\* for frames that arrive as sent.
DamageContained ==
    /\ (step = "valid" /\ (damaged # "no" => message.messageType \notin Publications)) =>
           /\ damaged \notin {"cut", "headerLength", "payloadDigest", "payload"}
           /\ \A f \in DOMAIN message \ {damaged} : decoded[f] = message[f]
    /\ step = "panicked" => damaged = "headerLength"
    /\ (damaged = "no" /\ step \in {"unreadable", "invalid"}) =>
           step = "invalid" /\ (message.messageType = <<>> \/ message.createdDate = 0)
=============================================================================
