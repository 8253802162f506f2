--------------------------- MODULE MCMessageCodec ---------------------------
(* A model-checking instance of MessageCodec: bytes of 8 values, integers  *)
(* of 2 and longs of 3 bytes, and messages at the ends of every range.     *)
EXTENDS MessageCodec

\* The length in the first and the last byte, and the sum of the bytes.
MCDigest(payload) ==
    LET sum[i \in 0 .. Len(payload)] == IF i = 0 THEN 0 ELSE sum[i - 1] + payload[i]
    IN  <<Len(payload) % Byte, sum[Len(payload)] % Byte, (Len(payload) \div Byte) % Byte>>

MCPublications == {<<5>>}

\* Payloads around the ends of int32 and of uint32.
LongMessages ==
    {[messageType |-> <<1>>, schemaVersion |-> 1, createdDate |-> 1, sequenceNumber |-> 0,
      flags |-> 0, messageID |-> <<0, 0, 0, 0, 0, 1>>, payloadType |-> 1,
      payload |-> [i \in 1 .. n |-> 1]] :
        n \in {Int32Limit, 2 * Int32Limit - PayloadOffset, 2 * Int32Limit - 1, 2 * Int32Limit}}

MCMessages ==
    [messageType : {<<>>, <<1>>, <<5>>, <<1, 2>>, <<1, 2, 3>>},
     schemaVersion : {1, Int32Limit - 1, Int32Limit},
     createdDate : {0, 1, Int64Limit - 1, Int64Limit},
     sequenceNumber : {-Int64Limit, -1, 0, Int64Limit - 1},
     flags : {0, 3, 2 * Int64Limit - 1},
     messageID : {NilUUID, <<0, 0, 0, 0, 0, 1>>, <<7, 1, 2, 4, 7, 3>>},
     payloadType : {1, Int32Limit},
     payload : {<<>>, <<0>>, <<6, 7>>}]
    \cup LongMessages
=============================================================================
