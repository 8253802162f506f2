------------------------ MODULE IncomingStreamProofs ------------------------
(***************************************************************************)
(* Theorems about IncomingStream for any agent, capacity and length of the *)
(* session: what is acknowledged is kept, the buffer holds only what is to *)
(* come, the session never sees ciphertext, and the module implements      *)
(* OrderedDelivery.                                                        *)
(***************************************************************************)
EXTENDS IncomingStream, SequenceTheorems, FiniteSetTheorems, TLAPS

Handed == [seq : Nat, plain : BOOLEAN]

TypeOK ==
    /\ stream \in Streams
    /\ produced \in Seq(BOOLEAN)
    /\ Len(produced) <= Len(stream)
    /\ expectedSequenceNumber \in 0 .. Len(produced)
    /\ acked \subseteq 0 .. (Len(produced) - 1)
    /\ incomingMessageBuffer \subseteq 0 .. (Len(produced) - 1)
    /\ listener \in {"reading", "completing", "draining", "closed"}
    /\ listener = "completing" => expectedSequenceNumber < Len(produced)
    /\ encryptionEnabled \in BOOLEAN
    /\ isSessionTypeSet \in Seq(BOOLEAN)
    /\ handed \in Seq(Handed)

-----------------------------------------------------------------------------
(* Types *)

\* What message n is, for a message the agent has sent.
LEMMA SentMessage ==
    ASSUME TypeOK, NEW n \in Nat, n < Len(produced)
    PROVE  /\ Message(n) \in AgentMessage
           /\ Payload(n) \in PayloadTypes
           /\ n + 1 \in 1 .. Len(produced)
           /\ produced[n + 1] \in BOOLEAN
<1>1. stream \in Seq(AgentMessage) /\ Len(stream) \in Nat
  BY ConstantsAssumption, LenProperties DEF TypeOK
<1>2. Len(produced) \in Nat /\ n + 1 \in 1 .. Len(produced) /\ n + 1 \in 1 .. Len(stream)
  BY <1>1, LenProperties DEF TypeOK
<1>3. stream[n + 1] \in AgentMessage
  BY <1>1, <1>2, ElementOfSeq
<1>4. produced[n + 1] \in BOOLEAN
  BY <1>2, ElementOfSeq DEF TypeOK
<1> QED
  BY <1>2, <1>3, <1>4 DEF Message, Payload, AgentMessage

\* The handlers add at most one entry to handed, which stays a sequence of its
\* type, and at most one to isSessionTypeSet.
LEMMA ProcessTypes ==
    ASSUME TypeOK, NEW n \in Nat, n < Len(produced), ProcessOutputMessageWithHandlers(n)
    PROVE  /\ Plain(n) \in BOOLEAN
           /\ handed' \in Seq(Handed)
           /\ isSessionTypeSet' \in Seq(BOOLEAN)
<1>1. Plain(n) \in BOOLEAN
  BY DEF Plain
<1>2. [seq |-> n, plain |-> Plain(n)] \in Handed
  BY <1>1 DEF Handed
<1>3. Append(handed, [seq |-> n, plain |-> Plain(n)]) \in Seq(Handed)
  BY <1>2, AppendProperties DEF TypeOK
<1>4. Append(isSessionTypeSet, TRUE) \in Seq(BOOLEAN)
  BY AppendProperties DEF TypeOK
<1> QED
  BY <1>1, <1>3, <1>4 DEF ProcessOutputMessageWithHandlers, TypeOK

\* Every step keeps the types.
LEMMA NextTypeOK == TypeOK /\ [Next]_vars => TypeOK'
<1> SUFFICES ASSUME TypeOK, [Next]_vars PROVE TypeOK'
  OBVIOUS
<1> USE DEF agentVars, handlerVars, mainVars
<1>0. Len(produced) \in Nat
  BY LenProperties DEF TypeOK
<1>1. CASE AgentProduce
  <2> DEFINE encrypted == /\ Payload(Len(produced)) \in DataTypes
                          /\ \E r \in answered : "KMSEncryption" \in ToSet(Message(r).actions)
  <2>1. encrypted \in BOOLEAN
    OBVIOUS
  <2>2. Append(produced, encrypted) \in Seq(BOOLEAN)
        /\ Len(Append(produced, encrypted)) = Len(produced) + 1
    BY <2>1, AppendProperties DEF TypeOK
  <2>3. produced' = Append(produced, encrypted) /\ Len(produced) < Len(stream)
    BY <1>1 DEF AgentProduce
  <2>4. Len(stream) \in Nat
    BY ConstantsAssumption, LenProperties DEF TypeOK
  <2> HIDE DEF encrypted
  <2> QED
    BY <1>0, <1>1, <2>2, <2>3, <2>4 DEF AgentProduce, TypeOK
<1>2. ASSUME NEW n \in 0 .. (Len(produced) - 1), Receive(n) PROVE TypeOK'
  <2>0. n \in Nat /\ n < Len(produced) /\ n + 1 \in 0 .. Len(produced)
    BY <1>0
  <2> DEFINE Settled == /\ expectedSequenceNumber' \in 0 .. Len(produced)
                        /\ listener' \in {"reading", "completing", "draining", "closed"}
                        /\ listener' = "completing" => expectedSequenceNumber' < Len(produced)
                        /\ incomingMessageBuffer' = incomingMessageBuffer
  <2>a. ASSUME n = expectedSequenceNumber, Processed, UNCHANGED incomingMessageBuffer
        PROVE  Settled
    BY <2>0, <2>a DEF Processed
  <2>b. ASSUME CloseOnError PROVE Settled
    BY <2>b DEF CloseOnError, TypeOK
  <2>1. ASSUME NEW kmsOk \in BOOLEAN, NEW sendOk \in BOOLEAN,
               ReceiveHandshakeRequest(n, kmsOk, sendOk)
        PROVE  TypeOK'
    <3>1. encryptionEnabled' \in BOOLEAN
      BY <2>1 DEF ReceiveHandshakeRequest
    <3>2. acked' = acked \cup {n} /\ UNCHANGED <<stream, produced, isSessionTypeSet, handed>>
      BY <2>1 DEF ReceiveHandshakeRequest
    <3>3. Settled
      BY <2>1, <2>a, <2>b DEF ReceiveHandshakeRequest
    <3> QED
      BY <3>1, <3>2, <3>3 DEF TypeOK
  <2>2. ASSUME NEW sendOk \in BOOLEAN, ReceiveEncChallengeRequest(n, sendOk) PROVE TypeOK'
    <3>1. acked' = acked \cup {n}
          /\ UNCHANGED <<stream, produced, encryptionEnabled, isSessionTypeSet, handed>>
      BY <2>2 DEF ReceiveEncChallengeRequest
    <3>2. Settled
      BY <2>2, <2>a, <2>b DEF ReceiveEncChallengeRequest
    <3> QED
      BY <3>1, <3>2 DEF TypeOK
  <2>3. CASE ReceiveHandshakeComplete(n)
    BY <2>0, <2>3 DEF ReceiveHandshakeComplete, TypeOK
  <2>4. ASSUME NEW ackOk \in BOOLEAN, ReceiveData(n, ackOk) PROVE TypeOK'
    <3>1. handed' \in Seq(Handed) /\ isSessionTypeSet' \in Seq(BOOLEAN)
      BY <2>0, <2>4, ProcessTypes DEF ReceiveData
    <3>2. acked' \subseteq acked \cup {n} /\ UNCHANGED <<stream, produced, encryptionEnabled>>
      BY <2>4 DEF ReceiveData
    <3>3. Settled
      BY <2>4, <2>a, <2>b DEF ReceiveData
    <3> QED
      BY <3>1, <3>2, <3>3 DEF TypeOK
  <2>5. CASE ReceiveAhead(n)
    BY <2>0, <2>5 DEF ReceiveAhead, TypeOK
  <2>6. CASE AckFails(n) \/ DataFails(n)
    <3>1. CloseOnError /\ UNCHANGED <<stream, produced, acked, encryptionEnabled,
                                     isSessionTypeSet, handed>>
      BY <2>6 DEF AckFails, DataFails
    <3> QED
      BY <2>b, <3>1 DEF TypeOK
  <2> QED
    BY <1>2, <2>1, <2>2, <2>3, <2>4, <2>5, <2>6 DEF Receive
<1>3. CASE CompleteHandshake
  <2>1. isSessionTypeSet' \in Seq(BOOLEAN)
    BY <1>3, AppendProperties DEF CompleteHandshake, TypeOK
  <2>2. expectedSequenceNumber \in 0 .. Len(produced) /\ expectedSequenceNumber < Len(produced)
    BY <1>3 DEF CompleteHandshake, TypeOK
  <2>3. expectedSequenceNumber + 1 \in 0 .. Len(produced)
    BY <1>0, <2>2
  <2> QED
    BY <1>3, <2>1, <2>3 DEF CompleteHandshake, Processed, TypeOK
<1>4. CASE DrainOne
  <2> DEFINE n == expectedSequenceNumber
  <2>1. /\ n \in incomingMessageBuffer /\ ProcessOutputMessageWithHandlers(n)
        /\ listener = "draining" /\ n' = n + 1
        /\ incomingMessageBuffer' = incomingMessageBuffer \ {n}
        /\ UNCHANGED <<stream, produced, acked, listener, encryptionEnabled>>
    BY <1>4 DEF DrainOne
  <2>2. n \in Nat /\ n < Len(produced) /\ n + 1 \in 0 .. Len(produced)
    BY <1>0, <2>1 DEF TypeOK
  <2>3. handed' \in Seq(Handed) /\ isSessionTypeSet' \in Seq(BOOLEAN)
    BY <2>1, <2>2, ProcessTypes
  <2> QED
    BY <2>1, <2>2, <2>3 DEF TypeOK
<1>5. CASE DrainStop
  BY <1>5 DEF DrainStop, TypeOK
<1>6. CASE Main
  <2>1. CASE EstablishSessionType
    BY <2>1, HeadTailProperties DEF EstablishSessionType, TypeOK
  <2>2. CASE RegisterFlag \/ RegisterRead \/ RegisterAppend \/ InitializeStreams
    BY <2>2 DEF RegisterFlag, RegisterRead, RegisterAppend, InitializeStreams, TypeOK
  <2> QED
    BY <1>6, <2>1, <2>2 DEF Main
<1>7. CASE UNCHANGED vars
  BY <1>7 DEF vars, TypeOK
<1> QED
  BY <1>1, <1>2, <1>3, <1>4, <1>5, <1>6, <1>7 DEF Next, Drain

-----------------------------------------------------------------------------
(* Acknowledgements and the buffer *)

BufferInv ==
    /\ IsFiniteSet(incomingMessageBuffer)
    /\ BufferAhead
    /\ AckedKept

\* The expected message has been processed: it is counted, and nothing that
\* waits in the buffer or was acknowledged is behind that should not be.
LEMMA ProcessedKeeps ==
    ASSUME TypeOK, BufferInv, listener \in {"reading", "completing"}, Processed,
           UNCHANGED incomingMessageBuffer,
           acked' \subseteq acked \cup {expectedSequenceNumber}
    PROVE  BufferInv'
<1>1. expectedSequenceNumber \in Nat /\ incomingMessageBuffer \subseteq Int /\ acked \subseteq Int
  BY DEF TypeOK
<1>2. BufferAhead'
  BY <1>1 DEF BufferInv, BufferAhead, Processed
<1>3. AckedKept'
  BY <1>1 DEF BufferInv, AckedKept, Processed
<1> QED
  BY <1>2, <1>3 DEF BufferInv

\* Once the channel is closed nothing more is promised of acknowledged messages,
\* and the buffer stays as it was.
LEMMA CloseKeeps ==
    ASSUME BufferInv, CloseOnError PROVE BufferInv'
  BY DEF BufferInv, BufferAhead, AckedKept, CloseOnError

\* Every step keeps them.
LEMMA NextBuffer == TypeOK /\ BufferInv /\ [Next]_vars => BufferInv'
<1> SUFFICES ASSUME TypeOK, BufferInv, [Next]_vars PROVE BufferInv'
  OBVIOUS
<1> USE DEF agentVars, handlerVars, mainVars
<1>0. /\ Len(produced) \in Nat
      /\ expectedSequenceNumber \in Nat
      /\ incomingMessageBuffer \subseteq Int
      /\ acked \subseteq Int
  BY LenProperties DEF TypeOK
<1>1. CASE UNCHANGED <<acked, listener, expectedSequenceNumber, incomingMessageBuffer>>
  BY <1>1 DEF BufferInv, BufferAhead, AckedKept
<1>2. ASSUME NEW n \in 0 .. (Len(produced) - 1), Receive(n) PROVE BufferInv'
  <2>1. ASSUME NEW kmsOk \in BOOLEAN, NEW sendOk \in BOOLEAN,
               ReceiveHandshakeRequest(n, kmsOk, sendOk)
        PROVE  BufferInv'
    BY <2>1, ProcessedKeeps, CloseKeeps DEF ReceiveHandshakeRequest, Arrives
  <2>2. ASSUME NEW sendOk \in BOOLEAN, ReceiveEncChallengeRequest(n, sendOk) PROVE BufferInv'
    BY <2>2, ProcessedKeeps, CloseKeeps DEF ReceiveEncChallengeRequest, Arrives
  <2>3. CASE ReceiveHandshakeComplete(n)
    BY <2>3 DEF ReceiveHandshakeComplete, Arrives, BufferInv, BufferAhead, AckedKept
  <2>4. ASSUME NEW ackOk \in BOOLEAN, ReceiveData(n, ackOk) PROVE BufferInv'
    <3>1. CASE IsHandlerReady /\ ~ackOk
      BY <2>4, <3>1, CloseKeeps DEF ReceiveData
    <3>2. CASE ~(IsHandlerReady /\ ~ackOk)
      BY <2>4, <3>2, ProcessedKeeps DEF ReceiveData, Arrives
    <3> QED
      BY <3>1, <3>2
  <2>5. CASE ReceiveAhead(n)
    <3>1. /\ IsFiniteSet(incomingMessageBuffer')
          /\ Cardinality(incomingMessageBuffer) \in Nat
          /\ Cardinality(incomingMessageBuffer') <= Cardinality(incomingMessageBuffer) + 1
      BY <2>5, FS_AddElement, FS_CardinalityType DEF ReceiveAhead, BufferInv
    <3>2. Cardinality(incomingMessageBuffer') \in Nat
      BY <3>1, FS_CardinalityType
    <3>3. Cardinality(incomingMessageBuffer') <= Capacity
      BY <2>5, <3>1, <3>2, ConstantsAssumption DEF ReceiveAhead, IsFull, BufferInv, BufferAhead
    <3>4. BufferAhead'
      BY <1>0, <2>5, <3>3 DEF ReceiveAhead, BufferInv, BufferAhead
    <3>5. AckedKept'
      BY <1>0, <2>5 DEF ReceiveAhead, BufferInv, AckedKept
    <3> QED
      BY <3>1, <3>4, <3>5 DEF BufferInv
  <2>6. CASE AckFails(n) \/ DataFails(n)
    BY <2>6, CloseKeeps DEF AckFails, DataFails
  <2> QED
    BY <1>2, <2>1, <2>2, <2>3, <2>4, <2>5, <2>6 DEF Receive
<1>3. CASE CompleteHandshake
  BY <1>3, ProcessedKeeps DEF CompleteHandshake
<1>4. CASE DrainOne
  <2>1. /\ listener = "draining" /\ listener' = listener
        /\ expectedSequenceNumber' = expectedSequenceNumber + 1
        /\ incomingMessageBuffer' = incomingMessageBuffer \ {expectedSequenceNumber}
        /\ acked' = acked
    BY <1>4 DEF DrainOne
  <2>2. /\ IsFiniteSet(incomingMessageBuffer')
        /\ Cardinality(incomingMessageBuffer') <= Cardinality(incomingMessageBuffer)
        /\ Cardinality(incomingMessageBuffer) \in Nat
    BY <2>1, FS_Subset, FS_CardinalityType DEF BufferInv
  <2>3. Cardinality(incomingMessageBuffer') \in Nat
    BY <2>2, FS_CardinalityType
  <2>4. BufferAhead'
    BY <1>0, <2>1, <2>2, <2>3, ConstantsAssumption DEF BufferInv, BufferAhead
  <2>5. AckedKept'
    BY <1>0, <2>1 DEF BufferInv, AckedKept
  <2> QED
    BY <2>2, <2>4, <2>5 DEF BufferInv
<1>5. CASE DrainStop
  BY <1>0, <1>5 DEF DrainStop, BufferInv, BufferAhead, AckedKept
<1>6. CASE AgentProduce \/ Main \/ UNCHANGED vars
  BY <1>1, <1>6 DEF AgentProduce, Main, EstablishSessionType, RegisterFlag, RegisterRead,
       RegisterAppend, InitializeStreams, vars
<1> QED
  BY <1>2, <1>3, <1>4, <1>5, <1>6 DEF Next, Drain

-----------------------------------------------------------------------------
(* Encryption *)

\* The agent encrypts only after it got the good answer that the client gives
\* when its encrypter is in place, and the encrypter is never taken away.
KeyInv ==
    /\ \A r \in answered : "KMSEncryption" \in ToSet(Message(r).actions) => encryptionEnabled
    /\ \A i \in DOMAIN produced : produced[i] => encryptionEnabled
    /\ HandedPlain

\* Whatever the handlers get is plain text.
LEMMA ProcessPlain ==
    ASSUME TypeOK, KeyInv, NEW n \in Nat, n < Len(produced), ProcessOutputMessageWithHandlers(n)
    PROVE  HandedPlain'
<1>1. n + 1 \in DOMAIN produced
  BY SentMessage, LenProperties DEF TypeOK
<1>2. Plain(n)
  BY <1>1 DEF KeyInv, Plain
<1>3. CASE UNCHANGED handed
  BY <1>3 DEF KeyInv, HandedPlain
<1>4. CASE handed' = Append(handed, [seq |-> n, plain |-> Plain(n)])
  <2>1. [seq |-> n, plain |-> Plain(n)] \in Handed
    BY <1>2 DEF Handed
  <2>2. /\ DOMAIN handed = 1 .. Len(handed) /\ DOMAIN handed' = 1 .. Len(handed')
        /\ Len(handed) \in Nat
        /\ Len(handed') = Len(handed) + 1
        /\ \A i \in 1 .. Len(handed) : handed'[i] = handed[i]
        /\ handed'[Len(handed) + 1] = [seq |-> n, plain |-> Plain(n)]
    BY <1>4, <2>1, AppendProperties, LenProperties DEF TypeOK
  <2> QED
    BY <1>2, <2>2 DEF KeyInv, HandedPlain
<1> QED
  BY <1>3, <1>4 DEF ProcessOutputMessageWithHandlers

\* Every step keeps the secret.
LEMMA NextKey == TypeOK /\ KeyInv /\ [Next]_vars => KeyInv'
<1> SUFFICES ASSUME TypeOK, KeyInv, [Next]_vars PROVE KeyInv'
  OBVIOUS
<1> USE DEF agentVars, handlerVars, mainVars
<1>0. Len(produced) \in Nat /\ DOMAIN produced = 1 .. Len(produced)
  BY LenProperties DEF TypeOK
<1>1. CASE UNCHANGED <<stream, produced, answered, encryptionEnabled, handed>>
  BY <1>1 DEF KeyInv, HandedPlain, Message
<1>2. ASSUME NEW n \in Nat, n < Len(produced), ProcessOutputMessageWithHandlers(n),
             UNCHANGED <<stream, produced, answered, encryptionEnabled>>
      PROVE  KeyInv'
  BY <1>2, ProcessPlain DEF KeyInv, Message
<1>3. CASE AgentProduce
  <2> DEFINE encrypted == /\ Payload(Len(produced)) \in DataTypes
                          /\ \E r \in answered : "KMSEncryption" \in ToSet(Message(r).actions)
  <2>1. encrypted \in BOOLEAN /\ (encrypted => encryptionEnabled)
    BY DEF KeyInv
  <2>2. produced' = Append(produced, encrypted)
        /\ UNCHANGED <<stream, answered, encryptionEnabled, handed>>
    BY <1>3 DEF AgentProduce
  <2> HIDE DEF encrypted
  <2>3. /\ DOMAIN produced' = 1 .. (Len(produced) + 1)
        /\ \A i \in 1 .. Len(produced) : produced'[i] = produced[i]
        /\ produced'[Len(produced) + 1] = encrypted
    BY <2>1, <2>2, AppendProperties, LenProperties DEF TypeOK
  <2>4. \A i \in DOMAIN produced' : produced'[i] => encryptionEnabled'
    <3> SUFFICES ASSUME NEW i \in DOMAIN produced', produced'[i] PROVE encryptionEnabled
      BY <2>2
    <3>1. i \in 1 .. Len(produced) \/ i = Len(produced) + 1
      BY <1>0, <2>3
    <3> QED
      BY <1>0, <2>1, <2>3, <3>1 DEF KeyInv
  <2> QED
    BY <2>2, <2>4 DEF KeyInv, HandedPlain, Message
<1>4. ASSUME NEW n \in 0 .. (Len(produced) - 1), Receive(n) PROVE KeyInv'
  <2>0. n \in Nat /\ n < Len(produced)
    BY <1>0
  <2>1. ASSUME NEW kmsOk \in BOOLEAN, NEW sendOk \in BOOLEAN,
               ReceiveHandshakeRequest(n, kmsOk, sendOk)
        PROVE  KeyInv'
    <3> DEFINE actions == Message(n).actions
               response == [i \in DOMAIN actions |-> StatusOf(actions[i], kmsOk)]
    <3>1. UNCHANGED <<stream, produced, handed>>
          /\ (encryptionEnabled => encryptionEnabled')
          /\ (KMSEnabled(actions, kmsOk) => encryptionEnabled')
      BY <2>1 DEF ReceiveHandshakeRequest
    <3>2. ASSUME n \in answered' \ answered, "KMSEncryption" \in ToSet(actions)
          PROVE  encryptionEnabled'
      <4>1. ToSet(response) \subseteq {Success}
        BY <2>1, <3>2 DEF ReceiveHandshakeRequest
      <4>2. PICK i \in DOMAIN actions : actions[i] = "KMSEncryption"
        BY <3>2 DEF ToSet
      <4>3. StatusOf("KMSEncryption", kmsOk) = Success
        BY <4>1, <4>2 DEF ToSet
      <4>4. kmsOk
        BY <4>3 DEF StatusOf, Success, Failed
      <4> QED
        BY <3>1, <3>2, <4>4 DEF KMSEnabled
    <3>3. answered' \subseteq answered \cup {n}
      BY <2>1 DEF ReceiveHandshakeRequest
    <3> QED
      BY <3>1, <3>2, <3>3 DEF KeyInv, HandedPlain, Message
  <2>2. ASSUME NEW sendOk \in BOOLEAN, ReceiveEncChallengeRequest(n, sendOk) PROVE KeyInv'
    BY <2>2 DEF ReceiveEncChallengeRequest, KeyInv, HandedPlain, Message
  <2>3. CASE ReceiveHandshakeComplete(n) \/ ReceiveAhead(n) \/ AckFails(n) \/ DataFails(n)
    BY <1>1, <2>3 DEF ReceiveHandshakeComplete, ReceiveAhead, AckFails, DataFails
  <2>4. ASSUME NEW ackOk \in BOOLEAN, ReceiveData(n, ackOk) PROVE KeyInv'
    BY <1>2, <2>0, <2>4 DEF ReceiveData
  <2> QED
    BY <1>4, <2>1, <2>2, <2>3, <2>4 DEF Receive
<1>5. CASE DrainOne
  <2>1. expectedSequenceNumber \in Nat /\ expectedSequenceNumber < Len(produced)
    BY <1>0, <1>5 DEF DrainOne, TypeOK
  <2> QED
    BY <1>2, <1>5, <2>1 DEF DrainOne
<1>6. CASE CompleteHandshake \/ DrainStop \/ Main \/ UNCHANGED vars
  BY <1>1, <1>6 DEF CompleteHandshake, DrainStop, Main, EstablishSessionType, RegisterFlag,
       RegisterRead, RegisterAppend, InitializeStreams, vars
<1> QED
  BY <1>3, <1>4, <1>5, <1>6 DEF Next, Drain

-----------------------------------------------------------------------------
(* The order of the session's data *)

\* What the agent has an answer to has been processed, it went on only with the
\* answer, and so no part of the handshake ever waits in the buffer.
HandshakeInv ==
    /\ \A r \in answered : r \in Nat /\ r < expectedSequenceNumber
    /\ \A n \in 1 .. (Len(produced) - 1) : Payload(n - 1) \in AnsweredTypes => n - 1 \in answered
    /\ \A n \in incomingMessageBuffer : Payload(n) \in DataTypes
    /\ listener = "completing" => Payload(expectedSequenceNumber) = "HandshakeComplete"

\* Where main has been told of the session type,
Typed == {"typed", "flagged", "appending", "registered", "streaming"}

\* and where it has set the flag.
Flagged == {"flagged", "appending", "registered", "streaming"}

\* The handshake is over when main is told so: the session type that it was told
\* of stays, and only main adds the session's handler.
SessionInv ==
    /\ (main # "opening" \/ isSessionTypeSet # <<>>) =>
           \A n \in expectedSequenceNumber .. (Len(stream) - 1) : Payload(n) \in DataTypes
    /\ \A i \in DOMAIN isSessionTypeSet : isSessionTypeSet[i] => sessionType # ""
    /\ main \in Typed => sessionType # ""
    /\ main \in Flagged => isSessionSpecificHandlerSet
    /\ "session" \in handlers => main \in {"registered", "streaming"}

\* Everything handed over was counted, except the last one when its
\* acknowledgement failed.
HandedBehind ==
    \A i \in DOMAIN handed :
        \/ handed[i].seq < expectedSequenceNumber
        \/ listener = "closed" /\ i = Len(handed) /\ handed[i].seq = expectedSequenceNumber

OrderInv == HandshakeInv /\ SessionInv /\ HandedBehind

\* A control message the agent has sent is never ahead of the expected one.
LEMMA NoControlAhead ==
    ASSUME TypeOK, HandshakeInv, NEW n \in Nat, n < Len(produced), expectedSequenceNumber < n
    PROVE  Payload(n) \in DataTypes
<1> SUFFICES ASSUME Payload(n) \notin DataTypes PROVE FALSE
  OBVIOUS
<1>0. expectedSequenceNumber \in Nat /\ n >= 1 /\ Len(produced) \in Nat
  BY LenProperties DEF TypeOK
<1>1. n \in DOMAIN stream /\ n + 1 \in DOMAIN stream
  BY <1>0, ConstantsAssumption, LenProperties DEF TypeOK
<1>2. stream[n].payloadType \in AnsweredTypes
  BY <1>0, <1>1, HandshakeFirst DEF TypeOK, Payload, Message
<1>3. Payload(n - 1) \in AnsweredTypes
  BY <1>0, <1>2 DEF Payload, Message
<1>4. n - 1 \in answered
  BY <1>0, <1>3 DEF HandshakeInv
<1> QED
  BY <1>0, <1>4 DEF HandshakeInv

\* After a message that is not answered there is only data.
LEMMA DataFollows ==
    ASSUME TypeOK, NEW n \in Nat, n < Len(stream), Payload(n) \notin AnsweredTypes
    PROVE  \A m \in (n + 1) .. (Len(stream) - 1) : Payload(m) \in DataTypes
<1> SUFFICES ASSUME NEW m \in (n + 1) .. (Len(stream) - 1) PROVE Payload(m) \in DataTypes
  OBVIOUS
<1>1. Len(stream) \in Nat /\ DOMAIN stream = 1 .. Len(stream)
  BY ConstantsAssumption, LenProperties DEF TypeOK
<1>2. n + 1 \in DOMAIN stream /\ m + 1 \in DOMAIN stream /\ n + 1 < m + 1
  BY <1>1
<1> QED
  BY <1>2, HandshakeFirst DEF TypeOK, Payload, Message

\* What the handlers do to the session's state, when they process the expected
\* message, which is data, and count it or not.
LEMMA ProcessSession ==
    ASSUME TypeOK, SessionInv, NEW n \in Nat, n = expectedSequenceNumber, n < Len(produced),
           Payload(n) \in DataTypes, ProcessOutputMessageWithHandlers(n),
           expectedSequenceNumber' \in {n, n + 1},
           UNCHANGED <<stream, produced, isSessionSpecificHandlerSet, main>>
    PROVE  SessionInv'
<1>0. Len(produced) \in Nat /\ Len(stream) \in Nat /\ n < Len(stream)
      /\ expectedSequenceNumber \in Nat
  BY ConstantsAssumption, LenProperties DEF TypeOK
<1>1. "session" \in handlers' => main' \in {"registered", "streaming"}
  BY DEF ProcessOutputMessageWithHandlers, SessionInv
<1>2. main' \in Flagged => isSessionSpecificHandlerSet'
  BY DEF SessionInv
<1>3. main' \in Typed => sessionType' # ""
  BY DEF ProcessOutputMessageWithHandlers, SessionInv
<1>4. \A i \in DOMAIN isSessionTypeSet' : isSessionTypeSet'[i] => sessionType' # ""
  BY DEF ProcessOutputMessageWithHandlers, SessionInv
<1>5. ASSUME main' # "opening" \/ isSessionTypeSet' # <<>>,
             NEW m \in expectedSequenceNumber' .. (Len(stream) - 1)
      PROVE  Payload(m) \in DataTypes
  <2>1. m = n \/ m \in (n + 1) .. (Len(stream) - 1)
    BY <1>0
  <2>2. Payload(n) \notin AnsweredTypes
    BY DEF DataTypes, AnsweredTypes
  <2> QED
    BY <1>0, <2>1, <2>2, DataFollows
<1> QED
  BY <1>1, <1>2, <1>3, <1>4, <1>5 DEF SessionInv, Payload, Message

\* At most the expected message is added to handed.
LEMMA ProcessHanded ==
    ASSUME TypeOK, HandedBehind, listener # "closed",
           NEW n \in Nat, n = expectedSequenceNumber, n < Len(produced),
           ProcessOutputMessageWithHandlers(n),
           \/ expectedSequenceNumber' = n + 1
           \/ expectedSequenceNumber' = n /\ listener' = "closed"
    PROVE  HandedBehind'
<1> DEFINE entry == [seq |-> n, plain |-> Plain(n)]
<1>1. /\ DOMAIN handed = 1 .. Len(handed) /\ Len(handed) \in Nat
      /\ \A i \in DOMAIN handed : handed[i].seq \in Nat /\ handed[i].seq < n
  <2>1. /\ DOMAIN handed = 1 .. Len(handed) /\ Len(handed) \in Nat
        /\ \A i \in DOMAIN handed : handed[i] \in Handed
    BY LenProperties DEF TypeOK
  <2> QED
    BY <2>1 DEF HandedBehind, Handed
<1>2. CASE handed' = handed
  BY <1>1, <1>2 DEF HandedBehind
<1>3. CASE handed' = Append(handed, entry)
  <2>1. entry \in Handed
    BY ProcessTypes DEF Handed
  <2>2. /\ DOMAIN handed' = 1 .. (Len(handed) + 1)
        /\ Len(handed') = Len(handed) + 1
        /\ \A i \in 1 .. Len(handed) : handed'[i] = handed[i]
        /\ handed'[Len(handed) + 1] = entry
    BY <1>3, <2>1, AppendProperties, LenProperties DEF TypeOK
  <2>3. ASSUME NEW i \in DOMAIN handed'
        PROVE  \/ handed'[i].seq < expectedSequenceNumber'
               \/ listener' = "closed" /\ i = Len(handed') /\ handed'[i].seq = expectedSequenceNumber'
    <3>1. CASE i \in 1 .. Len(handed)
      BY <1>1, <2>2, <3>1
    <3>2. CASE i = Len(handed) + 1
      BY <2>2, <3>2
    <3> QED
      BY <1>1, <2>2, <3>1, <3>2
  <2> QED
    BY <2>3 DEF HandedBehind
<1> QED
  BY <1>2, <1>3 DEF ProcessOutputMessageWithHandlers

\* Steps that hand nothing over and leave the session as it is.
LEMMA HandedKeeps ==
    ASSUME TypeOK, HandedBehind, listener # "closed", handed' = handed,
           expectedSequenceNumber' \in {expectedSequenceNumber, expectedSequenceNumber + 1}
    PROVE  HandedBehind'
<1>1. \A i \in DOMAIN handed : handed[i] \in Handed
  BY LenProperties DEF TypeOK
<1>2. expectedSequenceNumber \in Nat
  BY LenProperties DEF TypeOK
<1>3. \A i \in DOMAIN handed : handed[i].seq \in Nat /\ handed[i].seq < expectedSequenceNumber
  BY <1>1 DEF HandedBehind, Handed
<1> QED
  BY <1>2, <1>3 DEF HandedBehind

LEMMA SessionKeeps ==
    ASSUME TypeOK, SessionInv,
           UNCHANGED <<stream, handlerVars, mainVars>>,
           expectedSequenceNumber' \in {expectedSequenceNumber, expectedSequenceNumber + 1}
    PROVE  SessionInv'
<1> USE DEF handlerVars, mainVars
<1>1. expectedSequenceNumber \in Nat /\ Len(stream) \in Nat
  BY ConstantsAssumption, LenProperties DEF TypeOK
<1>2. ASSUME NEW n \in expectedSequenceNumber' .. (Len(stream) - 1)
      PROVE  n \in expectedSequenceNumber .. (Len(stream) - 1)
  BY <1>1
<1>3. (main' # "opening" \/ isSessionTypeSet' # <<>>) =>
           \A n \in expectedSequenceNumber' .. (Len(stream') - 1) : Payload(n)' \in DataTypes
  BY <1>2 DEF SessionInv, Payload, Message
<1> QED
  BY <1>3 DEF SessionInv

\* A step of the listener that processes or refuses a message of the handshake.
LEMMA ControlKeeps ==
    ASSUME TypeOK, OrderInv, listener = "reading",
           NEW n \in Nat, n = expectedSequenceNumber, n < Len(produced),
           UNCHANGED <<stream, produced, incomingMessageBuffer, handed>>,
           answered' \subseteq answered \cup {n},
           \/ Processed
           \/ (CloseOnError /\ answered' = answered),
           answered \subseteq answered',
           SessionInv'
    PROVE  OrderInv'
<1>1. expectedSequenceNumber \in Nat /\ Len(produced) \in Nat
  BY LenProperties DEF TypeOK
<1>2. expectedSequenceNumber' \in {n, n + 1} /\ listener' # "completing"
  BY DEF Processed, CloseOnError
<1>3. \A r \in answered' : r \in Nat /\ r < expectedSequenceNumber'
  BY <1>1 DEF OrderInv, HandshakeInv, Processed, CloseOnError
<1>4. HandshakeInv'
  BY <1>2, <1>3 DEF OrderInv, HandshakeInv, Payload, Message
<1>5. HandedBehind'
  BY <1>2, HandedKeeps DEF OrderInv
<1> QED
  BY <1>4, <1>5 DEF OrderInv

\* A step that processes the expected message as data.
LEMMA DataKeeps ==
    ASSUME TypeOK, OrderInv, listener # "closed",
           NEW n \in Nat, n = expectedSequenceNumber, n < Len(produced),
           Payload(n) \in DataTypes, ProcessOutputMessageWithHandlers(n),
           UNCHANGED <<agentVars, mainVars>>,
           incomingMessageBuffer' \subseteq incomingMessageBuffer,
           \/ expectedSequenceNumber' = n + 1 /\ listener' = "draining"
           \/ expectedSequenceNumber' = n /\ listener' = "closed"
    PROVE  OrderInv'
<1> USE DEF agentVars, mainVars
<1>1. expectedSequenceNumber' \in {n, n + 1} /\ listener' # "completing"
  OBVIOUS
<1>2. SessionInv'
  BY <1>1, ProcessSession DEF OrderInv
<1>3. HandedBehind'
  BY ProcessHanded DEF OrderInv
<1>4. \A r \in answered' : r \in Nat /\ r < expectedSequenceNumber'
  BY <1>1 DEF OrderInv, HandshakeInv
<1>5. HandshakeInv'
  BY <1>1, <1>4 DEF OrderInv, HandshakeInv, Payload, Message
<1> QED
  BY <1>2, <1>3, <1>5 DEF OrderInv

\* Every message of the handshake reaches the client before main knows the
\* session type.
LEMMA ControlWhileOpening ==
    ASSUME TypeOK, SessionInv, expectedSequenceNumber < Len(produced),
           Payload(expectedSequenceNumber) \notin DataTypes
    PROVE  main = "opening" /\ isSessionTypeSet = <<>>
<1>1. expectedSequenceNumber \in expectedSequenceNumber .. (Len(stream) - 1)
  BY ConstantsAssumption, LenProperties DEF TypeOK
<1> QED
  BY <1>1 DEF SessionInv

\* The only entry of a sequence that was empty.
LEMMA FirstEntry ==
    ASSUME NEW e \in BOOLEAN
    PROVE  \A i \in DOMAIN Append(<<>>, e) : Append(<<>>, e)[i] = e
<1>1. <<>> \in Seq(BOOLEAN) /\ Len(<<>>) = 0
  BY EmptySeq
<1>2. /\ Append(<<>>, e) \in Seq(BOOLEAN)
      /\ Len(Append(<<>>, e)) = Len(<<>>) + 1
      /\ Append(<<>>, e)[Len(<<>>) + 1] = e
  BY <1>1, AppendProperties, Zenon
<1> DEFINE s == Append(<<>>, e)
<1>3. s \in Seq(BOOLEAN) /\ Len(s) = 1 /\ s[1] = e
  BY <1>1, <1>2
<1> HIDE DEF s
<1>4. DOMAIN s = 1 .. 1
  BY <1>3, LenProperties
<1>5. \A i \in DOMAIN s : s[i] = e
  BY <1>3, <1>4
<1> QED
  BY <1>5 DEF s

\* Every step keeps the order.
LEMMA NextOrder == TypeOK /\ OrderInv /\ [Next]_vars => OrderInv'
<1> SUFFICES ASSUME TypeOK, OrderInv, [Next]_vars PROVE OrderInv'
  OBVIOUS
<1> USE DEF agentVars, handlerVars, mainVars
<1>0. Len(produced) \in Nat /\ expectedSequenceNumber \in Nat
  BY LenProperties DEF TypeOK
<1>1. CASE AgentProduce
  <2>1. /\ UNCHANGED <<stream, answered, listener, expectedSequenceNumber,
                      incomingMessageBuffer, handlerVars, mainVars>>
        /\ Len(produced') = Len(produced) + 1
    <3> DEFINE encrypted == /\ Payload(Len(produced)) \in DataTypes
                            /\ \E r \in answered : "KMSEncryption" \in ToSet(Message(r).actions)
    <3>1. encrypted \in BOOLEAN
      OBVIOUS
    <3>2. produced' = Append(produced, encrypted)
      BY <1>1 DEF AgentProduce
    <3> HIDE DEF encrypted
    <3> QED
      BY <1>1, <3>1, <3>2, AppendProperties DEF AgentProduce, TypeOK
  <2>2. ASSUME NEW n \in 1 .. (Len(produced') - 1), Payload(n - 1) \in AnsweredTypes
        PROVE  n - 1 \in answered
    <3>1. CASE n = Len(produced)
      BY <1>0, <1>1, <2>2, <3>1 DEF AgentProduce
    <3>2. CASE n \in 1 .. (Len(produced) - 1)
      BY <2>2, <3>2 DEF OrderInv, HandshakeInv
    <3> QED
      BY <1>0, <2>1, <3>1, <3>2
  <2>3. HandshakeInv'
    BY <2>1, <2>2 DEF OrderInv, HandshakeInv, Payload, Message
  <2>4. SessionInv' /\ HandedBehind'
    BY <2>1 DEF OrderInv, SessionInv, HandedBehind, Payload, Message
  <2> QED
    BY <2>3, <2>4 DEF OrderInv
<1>2. ASSUME NEW n \in 0 .. (Len(produced) - 1), Receive(n) PROVE OrderInv'
  <2>0. n \in Nat /\ n < Len(produced)
    BY <1>0
  <2>1. ASSUME NEW kmsOk \in BOOLEAN, NEW sendOk \in BOOLEAN,
               ReceiveHandshakeRequest(n, kmsOk, sendOk)
        PROVE  OrderInv'
    <3>1. main = "opening" /\ isSessionTypeSet = <<>>
      BY <2>0, <2>1, ControlWhileOpening
           DEF ReceiveHandshakeRequest, DataTypes, OrderInv
    <3>2. "session" \notin handlers
      BY <3>1 DEF OrderInv, SessionInv
    <3>3. UNCHANGED <<stream, produced, isSessionTypeSet, handlers, handed, mainVars>>
      BY <2>1 DEF ReceiveHandshakeRequest
    <3>4. SessionInv'
      BY <3>1, <3>2, <3>3 DEF SessionInv, Typed, Flagged
    <3>5. /\ listener = "reading" /\ n = expectedSequenceNumber
          /\ answered' \subseteq answered \cup {n} /\ answered \subseteq answered'
      BY <2>1 DEF ReceiveHandshakeRequest, Arrives
    <3>6. Processed \/ (CloseOnError /\ answered' = answered)
      BY <2>1 DEF ReceiveHandshakeRequest
    <3>7. incomingMessageBuffer' = incomingMessageBuffer
      BY <2>1 DEF ReceiveHandshakeRequest, CloseOnError
    <3> QED
      BY <2>0, <3>3, <3>4, <3>5, <3>6, <3>7, ControlKeeps
  <2>2. ASSUME NEW sendOk \in BOOLEAN, ReceiveEncChallengeRequest(n, sendOk) PROVE OrderInv'
    <3>1. /\ listener = "reading" /\ n = expectedSequenceNumber
          /\ answered' \subseteq answered \cup {n} /\ answered \subseteq answered'
          /\ UNCHANGED <<stream, produced, handlerVars, mainVars>>
      BY <2>2 DEF ReceiveEncChallengeRequest, Arrives
    <3>2. Processed \/ (CloseOnError /\ answered' = answered)
      BY <2>2 DEF ReceiveEncChallengeRequest
    <3>3. incomingMessageBuffer' = incomingMessageBuffer
      BY <2>2 DEF ReceiveEncChallengeRequest, CloseOnError
    <3>4. SessionInv'
      BY <3>1, <3>2, SessionKeeps DEF Processed, CloseOnError, OrderInv
    <3> QED
      BY <2>0, <3>1, <3>2, <3>3, <3>4, ControlKeeps
  <2>3. CASE ReceiveHandshakeComplete(n)
    <3>1. SessionInv' /\ HandedBehind'
      BY <2>3, SessionKeeps, HandedKeeps DEF ReceiveHandshakeComplete, Arrives, OrderInv
    <3>2. HandshakeInv'
      BY <2>3 DEF ReceiveHandshakeComplete, OrderInv, HandshakeInv, Payload, Message
    <3> QED
      BY <3>1, <3>2 DEF OrderInv
  <2>4. ASSUME NEW ackOk \in BOOLEAN, ReceiveData(n, ackOk) PROVE OrderInv'
    <3>1. /\ listener = "reading" /\ n = expectedSequenceNumber /\ Payload(n) \in DataTypes
          /\ ProcessOutputMessageWithHandlers(n)
          /\ UNCHANGED <<agentVars, mainVars, incomingMessageBuffer>>
          /\ Processed \/ CloseOnError
      BY <2>4 DEF ReceiveData, Arrives, CloseOnError
    <3> QED
      BY <2>0, <3>1, DataKeeps DEF Processed, CloseOnError
  <2>5. CASE ReceiveAhead(n)
    <3>1. Payload(n) \in DataTypes
      BY <1>0, <2>0, <2>5, NoControlAhead DEF ReceiveAhead, OrderInv
    <3>2. SessionInv' /\ HandedBehind'
      BY <2>5, SessionKeeps, HandedKeeps DEF ReceiveAhead, Arrives, OrderInv
    <3>3. HandshakeInv'
      BY <2>5, <3>1 DEF ReceiveAhead, Arrives, OrderInv, HandshakeInv, Payload, Message
    <3> QED
      BY <3>2, <3>3 DEF OrderInv
  <2>6. CASE AckFails(n) \/ DataFails(n)
    <3>1. /\ CloseOnError /\ listener # "closed"
          /\ UNCHANGED <<agentVars, handlerVars, mainVars>>
      BY <2>6 DEF AckFails, DataFails, Arrives
    <3>2. SessionInv' /\ HandedBehind'
      BY <3>1, SessionKeeps, HandedKeeps DEF CloseOnError, OrderInv
    <3>3. HandshakeInv'
      BY <3>1 DEF CloseOnError, OrderInv, HandshakeInv, Payload, Message
    <3> QED
      BY <3>2, <3>3 DEF OrderInv
  <2> QED
    BY <1>2, <2>1, <2>2, <2>3, <2>4, <2>5, <2>6 DEF Receive
<1>3. CASE CompleteHandshake
  <2> DEFINE n == expectedSequenceNumber
  <2>1. /\ listener = "completing" /\ listener' = "draining"
        /\ expectedSequenceNumber' = n + 1
        /\ isSessionTypeSet = <<>>
        /\ UNCHANGED <<agentVars, incomingMessageBuffer, sessionType, handlers, handed, mainVars>>
    BY <1>3 DEF CompleteHandshake, Processed
  <2>a. n < Len(produced) /\ Len(produced) <= Len(stream)
    BY <2>1 DEF TypeOK
  <2>b. Len(stream) \in Nat
    BY ConstantsAssumption, LenProperties DEF TypeOK
  <2>2. n < Len(stream)
    BY <1>0, <2>a, <2>b
  <2>3. \A m \in (n + 1) .. (Len(stream) - 1) : Payload(m) \in DataTypes
    BY <1>0, <2>1, <2>2, DataFollows DEF OrderInv, HandshakeInv, AnsweredTypes
  <2>4. \A i \in DOMAIN isSessionTypeSet' : isSessionTypeSet'[i] => sessionType' # ""
    <3> DEFINE told == sessionType # ""
    <3>1. told \in BOOLEAN /\ (told => sessionType' # "")
      BY <2>1
    <3>2. isSessionTypeSet' = Append(isSessionTypeSet, told)
      BY <1>3 DEF CompleteHandshake
    <3> HIDE DEF told
    <3>3. \A i \in DOMAIN isSessionTypeSet' : isSessionTypeSet'[i] = told
      BY <2>1, <3>1, <3>2, FirstEntry
    <3> QED
      BY <3>1, <3>3, Zenon
  <2>5. SessionInv'
    BY <2>1, <2>3, <2>4 DEF OrderInv, SessionInv, Payload, Message
  <2>6. HandedBehind'
    BY <2>1, HandedKeeps DEF OrderInv
  <2>7. \A r \in answered' : r \in Nat /\ r < expectedSequenceNumber'
    BY <1>0, <2>1 DEF OrderInv, HandshakeInv
  <2>8. HandshakeInv'
    BY <2>1, <2>7 DEF OrderInv, HandshakeInv, Payload, Message
  <2> QED
    BY <2>5, <2>6, <2>8 DEF OrderInv
<1>4. CASE DrainOne
  <2>1. /\ listener = "draining" /\ listener' = "draining"
        /\ expectedSequenceNumber \in incomingMessageBuffer
        /\ ProcessOutputMessageWithHandlers(expectedSequenceNumber)
        /\ expectedSequenceNumber' = expectedSequenceNumber + 1
        /\ incomingMessageBuffer' \subseteq incomingMessageBuffer
        /\ UNCHANGED <<agentVars, mainVars>>
    BY <1>4 DEF DrainOne
  <2>2. expectedSequenceNumber < Len(produced)
    BY <1>0, <2>1 DEF TypeOK
  <2>3. Payload(expectedSequenceNumber) \in DataTypes
    BY <2>1 DEF OrderInv, HandshakeInv
  <2> QED
    BY <1>0, <2>1, <2>2, <2>3, DataKeeps
<1>5. CASE DrainStop
  BY <1>5 DEF DrainStop, OrderInv, HandshakeInv, SessionInv, HandedBehind, Payload, Message
<1>6. CASE Main
  <2>1. /\ HandshakeInv' /\ HandedBehind' /\ UNCHANGED <<stream, expectedSequenceNumber>>
    BY <1>6 DEF Main, EstablishSessionType, RegisterFlag, RegisterRead, RegisterAppend,
         InitializeStreams, OrderInv, HandshakeInv, HandedBehind, Payload, Message
  <2>2. CASE EstablishSessionType
    <3>a. isSessionTypeSet # <<>> /\ isSessionTypeSet' = Tail(isSessionTypeSet)
      BY <2>2 DEF EstablishSessionType
    <3>b. /\ Len(isSessionTypeSet) \in Nat \ {0}
          /\ DOMAIN isSessionTypeSet = 1 .. Len(isSessionTypeSet)
      BY <3>a, LenProperties, EmptySeq DEF TypeOK
    <3>c. /\ DOMAIN isSessionTypeSet' = 1 .. (Len(isSessionTypeSet) - 1)
          /\ \A i \in DOMAIN isSessionTypeSet' : isSessionTypeSet'[i] = isSessionTypeSet[i + 1]
      BY <3>a, HeadTailProperties, LenProperties DEF TypeOK
    <3>1. /\ Head(isSessionTypeSet) = isSessionTypeSet[1] /\ 1 \in DOMAIN isSessionTypeSet
          /\ \A i \in DOMAIN isSessionTypeSet' :
                 i + 1 \in DOMAIN isSessionTypeSet /\ isSessionTypeSet'[i] = isSessionTypeSet[i + 1]
      BY <3>b, <3>c
    <3>2. main' \in Typed => sessionType' # ""
      BY <2>2, <3>1 DEF EstablishSessionType, OrderInv, SessionInv, Typed
    <3>3. \A i \in DOMAIN isSessionTypeSet' : isSessionTypeSet'[i] => sessionType' # ""
      BY <2>2, <3>1 DEF EstablishSessionType, OrderInv, SessionInv
    <3> QED
      BY <2>1, <2>2, <3>2, <3>3 DEF EstablishSessionType, OrderInv, SessionInv, Flagged, Payload,
           Message
  <2>3. CASE RegisterFlag \/ RegisterRead \/ RegisterAppend \/ InitializeStreams
    BY <2>1, <2>3 DEF RegisterFlag, RegisterRead, RegisterAppend, InitializeStreams, OrderInv,
         SessionInv, Typed, Flagged, Payload, Message
  <2> QED
    BY <1>6, <2>2, <2>3 DEF Main
<1>7. CASE UNCHANGED vars
  BY <1>7 DEF vars, OrderInv, HandshakeInv, SessionInv, HandedBehind, Payload, Message
<1> QED
  BY <1>1, <1>2, <1>3, <1>4, <1>5, <1>6, <1>7 DEF Next, Drain

-----------------------------------------------------------------------------
(* The refinement of OrderedDelivery *)

\* What was handed over has a number.
LEMMA HandedNumbers ==
    ASSUME NEW s \in Seq(Handed)
    PROVE  \A i \in DOMAIN s : s[i].seq \in Nat
<1>1. \A i \in DOMAIN s : s[i] \in Handed
  BY LenProperties
<1> QED
  BY <1>1 DEF Handed

\* Consumed counts one more only if the last message handed over is not counted.
LEMMA LastBehind ==
    ASSUME NEW s \in Seq(Handed), NEW k \in Nat, \A i \in DOMAIN s : s[i].seq < k
    PROVE  ~(s # <<>> /\ Last(s).seq = k)
<1> SUFFICES ASSUME s # <<>>, s[Len(s)].seq = k PROVE FALSE
  BY DEF Last
<1>1. Len(s) \in Nat \ {0} /\ DOMAIN s = 1 .. Len(s)
  BY EmptySeq, LenProperties
<1>2. s[Len(s)].seq < k
  BY <1>1
<1> QED
  BY <1>2

\* While the listener runs, everything handed over is counted.
LEMMA AllBehind ==
    ASSUME TypeOK, HandedBehind, listener # "closed"
    PROVE  /\ \A i \in DOMAIN handed : handed[i].seq < expectedSequenceNumber
           /\ Consumed = expectedSequenceNumber
           /\ expectedSequenceNumber \in Nat
<1>1. \A i \in DOMAIN handed : handed[i].seq < expectedSequenceNumber
  BY DEF HandedBehind
<1>2. expectedSequenceNumber \in Nat
  BY LenProperties DEF TypeOK
<1>3. ~(handed # <<>> /\ Last(handed).seq = expectedSequenceNumber)
  BY <1>1, <1>2, LastBehind DEF TypeOK
<1> QED
  BY <1>1, <1>2, <1>3 DEF Consumed

\* The abstract state changes at most in ready, and that only from FALSE to TRUE.
LEMMA OnlyReady ==
    ASSUME UNCHANGED <<stream, handed, expectedSequenceNumber>>,
           SessionReady => SessionReady'
    PROVE  [Abstract!Next]_Abstract!vars
<1>1. UNCHANGED <<Consumed, {n \in 0 .. (Len(stream) - 1) : Payload(n) \in DataTypes},
                  [i \in DOMAIN handed |-> handed[i].seq]>>
  BY DEF Consumed, Payload, Message
<1>2. CASE SessionReady' = SessionReady
  BY <1>1, <1>2 DEF Abstract!vars
<1>3. CASE SessionReady' = TRUE
  BY <1>1, <1>3 DEF Abstract!Next, Abstract!BecomeReady
<1>4. SessionReady \in BOOLEAN /\ SessionReady' \in BOOLEAN
  BY DEF SessionReady
<1> QED
  BY <1>2, <1>3, <1>4

\* A message is counted and not handed over.
LEMMA SkipsOne ==
    ASSUME TypeOK, HandedBehind, listener # "closed",
           UNCHANGED <<stream, handed>>,
           expectedSequenceNumber' = expectedSequenceNumber + 1,
           SessionReady' = SessionReady,
           Payload(expectedSequenceNumber) \in DataTypes => ~SessionReady
    PROVE  [Abstract!Next]_Abstract!vars
<1>1. UNCHANGED <<{n \in 0 .. (Len(stream) - 1) : Payload(n) \in DataTypes},
                  [i \in DOMAIN handed |-> handed[i].seq]>>
  BY DEF Payload, Message
<1>a. \A i \in DOMAIN handed : handed[i].seq \in Nat
  BY HandedNumbers DEF TypeOK
<1>b. \A i \in DOMAIN handed' : handed'[i].seq < expectedSequenceNumber'
  BY <1>a, AllBehind
<1>c. ~(handed' # <<>> /\ Last(handed').seq = expectedSequenceNumber')
  BY <1>b, AllBehind, LastBehind DEF TypeOK
<1>2. Consumed = expectedSequenceNumber /\ Consumed' = expectedSequenceNumber + 1
  BY <1>c, AllBehind DEF Consumed
<1> QED
  BY <1>1, <1>2 DEF Abstract!Next, Abstract!Skip

\* What Append does to the numbers of what was handed over.
LEMMA NumbersAppend ==
    ASSUME NEW s \in Seq(Handed), NEW e \in Handed
    PROVE  [i \in DOMAIN Append(s, e) |-> Append(s, e)[i].seq]
             = Append([i \in DOMAIN s |-> s[i].seq], e.seq)
<1>1. /\ Append(s, e) \in Seq(Handed)
      /\ Len(Append(s, e)) = Len(s) + 1
      /\ \A i \in 1 .. Len(s) : Append(s, e)[i] = s[i]
      /\ Append(s, e)[Len(s) + 1] = e
  BY AppendProperties
<1>2. /\ Len(s) \in Nat /\ DOMAIN s = 1 .. Len(s)
      /\ DOMAIN Append(s, e) = 1 .. (Len(s) + 1)
  BY <1>1, LenProperties
<1> DEFINE out == [i \in DOMAIN s |-> s[i].seq]
<1>3. \A i \in DOMAIN s : s[i].seq \in Nat
  BY HandedNumbers
<1>4. out \in Seq(Nat) /\ Len(out) = Len(s)
  BY <1>2, <1>3
<1>5. e.seq \in Nat
  BY DEF Handed
<1>6. /\ Append(out, e.seq) \in Seq(Nat)
      /\ Len(Append(out, e.seq)) = Len(s) + 1
      /\ \A i \in 1 .. Len(s) : Append(out, e.seq)[i] = out[i]
      /\ Append(out, e.seq)[Len(s) + 1] = e.seq
  BY <1>4, <1>5, AppendProperties
<1> DEFINE longer == [i \in DOMAIN Append(s, e) |-> Append(s, e)[i].seq]
<1>7. longer = [i \in 1 .. (Len(s) + 1) |-> IF i = Len(s) + 1 THEN e.seq ELSE s[i].seq]
  BY <1>1, <1>2
<1>8. longer \in Seq(Nat) /\ Len(longer) = Len(s) + 1
  BY <1>2, <1>3, <1>5, <1>7
<1>9. \A i \in 1 .. (Len(s) + 1) : longer[i] = Append(out, e.seq)[i]
  BY <1>2, <1>6, <1>7
<1> HIDE DEF longer, out
<1>10. longer = Append(out, e.seq)
  BY <1>6, <1>8, <1>9, SeqEqual
<1> QED
  BY <1>10 DEF longer, out

\* The expected message is handed over, and counted or not.
LEMMA DeliversOne ==
    ASSUME TypeOK, HandedBehind, listener # "closed",
           NEW n \in Nat, n = expectedSequenceNumber, n < Len(produced),
           Payload(n) \in DataTypes,
           handed' = Append(handed, [seq |-> n, plain |-> Plain(n)]),
           stream' = stream,
           expectedSequenceNumber' \in {n, n + 1},
           SessionReady' = SessionReady
    PROVE  [Abstract!Next]_Abstract!vars
<1> DEFINE entry == [seq |-> n, plain |-> Plain(n)]
<1>1. entry \in Handed /\ entry.seq = n
  BY DEF Handed, Plain
<1> HIDE DEF entry
<1>2. handed' = Append(handed, entry)
  BY DEF entry
<1>3. [i \in DOMAIN handed' |-> handed'[i].seq] = Append([i \in DOMAIN handed |-> handed[i].seq], n)
  BY <1>1, <1>2, NumbersAppend DEF TypeOK
<1>4. Consumed = n
  BY AllBehind
<1>5. handed' # <<>> /\ Last(handed').seq = n
  <2>1. /\ handed' # <<>> /\ Len(handed') = Len(handed) + 1
        /\ handed'[Len(handed) + 1] = entry
    BY <1>1, <1>2, AppendProperties DEF TypeOK
  <2> QED
    BY <1>1, <2>1 DEF Last
<1>6. Consumed' = n + 1
  BY <1>5 DEF Consumed
<1>7. n \in {m \in 0 .. (Len(stream) - 1) : Payload(m) \in DataTypes}
  <2>1. Len(produced) \in Nat /\ Len(stream) \in Nat /\ Len(produced) <= Len(stream)
    BY ConstantsAssumption, LenProperties DEF TypeOK
  <2> QED
    BY <2>1
<1>8. UNCHANGED {m \in 0 .. (Len(stream) - 1) : Payload(m) \in DataTypes}
  BY DEF Payload, Message
<1> QED
  BY <1>3, <1>4, <1>6, <1>7, <1>8 DEF Abstract!Next, Abstract!Deliver

\* The handlers make no session ready or unready, and a ready session gets
\* whatever they process.
LEMMA ProcessReady ==
    ASSUME SessionInv, NEW n, ProcessOutputMessageWithHandlers(n), main' = main
    PROVE  /\ SessionReady' = SessionReady
           /\ SessionReady => IsHanded(n)
<1>1. "session" \in handlers' <=> "session" \in handlers
  BY DEF ProcessOutputMessageWithHandlers
<1>2. "session" \in handlers => sessionType # "" /\ isSessionSpecificHandlerSet
  BY DEF SessionInv, Typed, Flagged
<1>3. "session" \in handlers => sessionType' = sessionType
  BY <1>2 DEF ProcessOutputMessageWithHandlers, FirstSetsType
<1>4. SessionReady' = SessionReady
  BY <1>1, <1>3 DEF SessionReady, StreamSet
<1>5. SessionReady => IsHanded(n)
  BY <1>2 DEF SessionReady, IsHanded, SessionRuns, HandlersRun
<1> QED
  BY <1>4, <1>5

\* Processing the expected message as data delivers it, passes over it, or
\* leaves everything when it could not be acknowledged.
LEMMA ProcessRefines ==
    ASSUME TypeOK, OrderInv, listener # "closed",
           NEW n \in Nat, n = expectedSequenceNumber, n < Len(produced),
           Payload(n) \in DataTypes, ProcessOutputMessageWithHandlers(n),
           UNCHANGED <<stream, main>>,
           expectedSequenceNumber' \in {n, n + 1}
    PROVE  [Abstract!Next]_Abstract!vars
<1>1. SessionReady' = SessionReady /\ (SessionReady => IsHanded(n))
  BY ProcessReady DEF OrderInv
<1>2. CASE IsHanded(n)
  BY <1>1, <1>2, DeliversOne DEF ProcessOutputMessageWithHandlers, OrderInv
<1>3. CASE ~IsHanded(n)
  <2>1. handed' = handed /\ ~SessionReady
    BY <1>1, <1>3 DEF ProcessOutputMessageWithHandlers
  <2>2. CASE expectedSequenceNumber' = n
    BY <1>1, <2>1, <2>2, OnlyReady
  <2>3. CASE expectedSequenceNumber' = n + 1
    BY <1>1, <2>1, <2>3, SkipsOne DEF OrderInv
  <2> QED
    BY <2>2, <2>3
<1> QED
  BY <1>2, <1>3

\* A message of the handshake is passed over, or ends the listener.
LEMMA ControlRefines ==
    ASSUME TypeOK, OrderInv, listener # "closed",
           Payload(expectedSequenceNumber) \notin DataTypes,
           UNCHANGED <<stream, handed>>,
           SessionReady' = SessionReady,
           Processed \/ CloseOnError
    PROVE  [Abstract!Next]_Abstract!vars
<1>1. CASE Processed
  BY <1>1, SkipsOne DEF Processed, OrderInv
<1>2. CASE CloseOnError
  BY <1>2, OnlyReady DEF CloseOnError
<1> QED
  BY <1>1, <1>2

\* Every step is a step of OrderedDelivery or leaves its state alone.
LEMMA NextRefines == TypeOK /\ OrderInv /\ [Next]_vars => [Abstract!Next]_Abstract!vars
<1> SUFFICES ASSUME TypeOK, OrderInv, [Next]_vars PROVE [Abstract!Next]_Abstract!vars
  OBVIOUS
<1> USE DEF agentVars, handlerVars, mainVars
<1>0. Len(produced) \in Nat /\ expectedSequenceNumber \in Nat
  BY LenProperties DEF TypeOK
<1>1. ASSUME UNCHANGED <<stream, handed, expectedSequenceNumber, handlers, sessionType, main>>
      PROVE  [Abstract!Next]_Abstract!vars
  BY <1>1, OnlyReady DEF SessionReady, StreamSet
<1>2. ASSUME NEW n \in 0 .. (Len(produced) - 1), Receive(n)
      PROVE  [Abstract!Next]_Abstract!vars
  <2>0. n \in Nat /\ n < Len(produced)
    BY <1>0
  <2>1. ASSUME NEW kmsOk \in BOOLEAN, NEW sendOk \in BOOLEAN,
               ReceiveHandshakeRequest(n, kmsOk, sendOk)
        PROVE  [Abstract!Next]_Abstract!vars
    <3>1. /\ listener # "closed" /\ n = expectedSequenceNumber /\ Payload(n) \notin DataTypes
          /\ UNCHANGED <<stream, handed, handlers>>
      BY <2>1 DEF ReceiveHandshakeRequest, Arrives, DataTypes
    <3>2. Processed \/ CloseOnError
      BY <2>1 DEF ReceiveHandshakeRequest
    <3>3. main = "opening"
      BY <2>0, <3>1, ControlWhileOpening DEF OrderInv
    <3>4. ~SessionReady /\ ~SessionReady'
      BY <3>1, <3>3 DEF OrderInv, SessionInv, SessionReady
    <3>5. SessionReady' = SessionReady
      BY <3>4 DEF SessionReady
    <3> QED
      BY <3>1, <3>2, <3>5, ControlRefines
  <2>2. ASSUME NEW sendOk \in BOOLEAN, ReceiveEncChallengeRequest(n, sendOk)
        PROVE  [Abstract!Next]_Abstract!vars
    <3>1. /\ listener # "closed" /\ n = expectedSequenceNumber /\ Payload(n) \notin DataTypes
          /\ UNCHANGED <<stream, handed, handlers, sessionType, main>>
      BY <2>2 DEF ReceiveEncChallengeRequest, Arrives, DataTypes
    <3>2. Processed \/ CloseOnError
      BY <2>2 DEF ReceiveEncChallengeRequest
    <3>3. SessionReady' = SessionReady
      BY <3>1 DEF SessionReady, StreamSet
    <3> QED
      BY <3>1, <3>2, <3>3, ControlRefines
  <2>3. CASE ReceiveHandshakeComplete(n) \/ ReceiveAhead(n) \/ AckFails(n) \/ DataFails(n)
    BY <1>1, <2>3 DEF ReceiveHandshakeComplete, ReceiveAhead, AckFails, DataFails, CloseOnError
  <2>4. ASSUME NEW ackOk \in BOOLEAN, ReceiveData(n, ackOk)
        PROVE  [Abstract!Next]_Abstract!vars
    <3>1. /\ listener # "closed" /\ n = expectedSequenceNumber /\ Payload(n) \in DataTypes
          /\ ProcessOutputMessageWithHandlers(n)
          /\ UNCHANGED <<stream, main>>
      BY <2>4 DEF ReceiveData, Arrives
    <3>2. expectedSequenceNumber' \in {n, n + 1}
      BY <2>4 DEF ReceiveData, Processed, CloseOnError
    <3> QED
      BY <2>0, <3>1, <3>2, ProcessRefines
  <2> QED
    BY <1>2, <2>1, <2>2, <2>3, <2>4 DEF Receive
<1>3. CASE CompleteHandshake
  <2>1. /\ listener = "completing" /\ Processed
        /\ UNCHANGED <<stream, handed, handlers, sessionType, main>>
    BY <1>3 DEF CompleteHandshake
  <2>2. Payload(expectedSequenceNumber) \notin DataTypes
    BY <2>1 DEF OrderInv, HandshakeInv, DataTypes
  <2>3. SessionReady' = SessionReady
    BY <2>1 DEF SessionReady, StreamSet
  <2> QED
    BY <2>1, <2>2, <2>3, ControlRefines
<1>4. CASE DrainOne
  <2>1. /\ listener # "closed" /\ expectedSequenceNumber \in incomingMessageBuffer
        /\ ProcessOutputMessageWithHandlers(expectedSequenceNumber)
        /\ expectedSequenceNumber' = expectedSequenceNumber + 1
        /\ UNCHANGED <<stream, main>>
    BY <1>4 DEF DrainOne
  <2>2. expectedSequenceNumber < Len(produced)
    BY <1>0, <2>1 DEF TypeOK
  <2>3. Payload(expectedSequenceNumber) \in DataTypes
    BY <2>1 DEF OrderInv, HandshakeInv
  <2> QED
    BY <1>0, <2>1, <2>2, <2>3, ProcessRefines
<1>5. CASE RegisterAppend \/ InitializeStreams
  <2>1. SessionReady => SessionReady'
    BY <1>5 DEF RegisterAppend, InitializeStreams, SessionReady, StreamSet, OrderInv, SessionInv
  <2>2. UNCHANGED <<stream, handed, expectedSequenceNumber>>
    BY <1>5 DEF RegisterAppend, InitializeStreams
  <2> QED
    BY <2>1, <2>2, OnlyReady
<1>6. CASE EstablishSessionType \/ RegisterFlag \/ RegisterRead
  <2>1. SessionReady' = SessionReady
    BY <1>6 DEF EstablishSessionType, RegisterFlag, RegisterRead, SessionReady, StreamSet,
         OrderInv, SessionInv
  <2>2. UNCHANGED <<stream, handed, expectedSequenceNumber>>
    BY <1>6 DEF EstablishSessionType, RegisterFlag, RegisterRead
  <2> QED
    BY <2>1, <2>2, OnlyReady
<1>7. CASE AgentProduce \/ DrainStop \/ UNCHANGED vars
  BY <1>1, <1>7 DEF AgentProduce, DrainStop, vars
<1> QED
  BY <1>2, <1>3, <1>4, <1>5, <1>6, <1>7 DEF Next, Drain, Main

-----------------------------------------------------------------------------
(* The theorems *)

\* Nothing has been sent at first.
LEMMA InitIncoming == Init => TypeOK /\ BufferInv /\ KeyInv /\ OrderInv /\ Abstract!Init
<1> SUFFICES ASSUME Init PROVE TypeOK /\ BufferInv /\ KeyInv /\ OrderInv /\ Abstract!Init
  OBVIOUS
<1>a. /\ stream \in Streams /\ produced = <<>> /\ answered = {} /\ acked = {}
      /\ listener = "reading" /\ expectedSequenceNumber = 0
      /\ incomingMessageBuffer = {} /\ isSessionTypeSet = <<>> /\ handed = <<>>
      /\ encryptionEnabled = FALSE /\ main = "opening" /\ handlers = {"first"}
  BY DEF Init
<1>b. Len(produced) = 0 /\ produced \in Seq(BOOLEAN) /\ isSessionTypeSet \in Seq(BOOLEAN)
  BY <1>a, EmptySeq
<1>c. handed \in Seq(Handed) /\ Len(handed) = 0
  BY <1>a, EmptySeq
<1>d. DOMAIN produced = {} /\ DOMAIN isSessionTypeSet = {} /\ DOMAIN handed = {}
  BY <1>a
<1>e. Len(stream) \in Nat
  BY <1>a, ConstantsAssumption, LenProperties
<1>1. TypeOK
  <2>1. Len(produced) <= Len(stream) /\ expectedSequenceNumber \in 0 .. Len(produced)
    BY <1>a, <1>b, <1>e
  <2>2. /\ acked \subseteq 0 .. (Len(produced) - 1)
        /\ incomingMessageBuffer \subseteq 0 .. (Len(produced) - 1)
    BY <1>a
  <2>3. encryptionEnabled \in BOOLEAN
    BY <1>a
  <2>4. /\ listener \in {"reading", "completing", "draining", "closed"}
        /\ listener = "completing" => expectedSequenceNumber < Len(produced)
    BY <1>a
  <2> QED
    BY <1>a, <1>b, <1>c, <2>1, <2>2, <2>3, <2>4, Zenon DEF TypeOK
<1>2. BufferInv
  <2>1. IsFiniteSet(incomingMessageBuffer) /\ Cardinality(incomingMessageBuffer) = 0
    BY <1>a, FS_EmptySet
  <2> QED
    BY <1>a, <2>1, ConstantsAssumption DEF BufferInv, BufferAhead, AckedKept
<1>3. KeyInv
  BY <1>a, <1>d DEF KeyInv, HandedPlain
<1>4. OrderInv
  <2>1. HandshakeInv
    BY <1>a, <1>b DEF HandshakeInv
  <2>2. SessionInv
    BY <1>a, <1>d DEF SessionInv, Typed, Flagged
  <2>3. HandedBehind
    BY <1>d DEF HandedBehind
  <2> QED
    BY <2>1, <2>2, <2>3 DEF OrderInv
<1>5. Abstract!Init
  <2>1. Consumed = 0
    BY <1>a DEF Consumed
  <2>2. SessionReady = FALSE
    BY <1>a DEF SessionReady
  <2>3. [i \in DOMAIN handed |-> handed[i].seq] = <<>>
    BY <1>a
  <2>4. {n \in 0 .. (Len(stream) - 1) : Payload(n) \in DataTypes} \subseteq Nat
    BY <1>e
  <2> QED
    BY <2>1, <2>2, <2>3, <2>4 DEF Abstract!Init
<1> QED
  BY <1>1, <1>2, <1>3, <1>4, <1>5

\* The conjunction of the invariants holds in every reachable state.
LEMMA IncomingCorrect == Spec => [](TypeOK /\ BufferInv /\ KeyInv /\ OrderInv)
  BY InitIncoming, NextTypeOK, NextBuffer, NextKey, NextOrder, PTL DEF Spec

\* An acknowledged message was consumed, is being consumed or waits in
\* incomingMessageBuffer, as long as the listener runs: what
\* handleUnexpectedSequenceMessage acknowledges it has room for.
THEOREM AckedKeptCorrect == Spec => []AckedKept
<1>1. BufferInv => AckedKept
  BY DEF BufferInv
<1> QED
  BY <1>1, IncomingCorrect, PTL

\* incomingMessageBuffer never holds more than Capacity messages, nor one that
\* was consumed: processIncomingMessageBufferItems consumes nothing twice.
THEOREM BufferAheadCorrect == Spec => []BufferAhead
<1>1. BufferInv => BufferAhead
  BY DEF BufferInv
<1> QED
  BY <1>1, IncomingCorrect, PTL

\* Whatever agents ask for in their handshake and however messages are delayed,
\* processOutputMessageWithHandlers is given plain text only.
THEOREM HandedPlainCorrect == Spec => []HandedPlain
<1>1. KeyInv => HandedPlain
  BY DEF KeyInv
<1> QED
  BY <1>1, IncomingCorrect, PTL

\* The listener, the registration of the handler and the handshake together
\* implement OrderedDelivery: data in order, at most once, and without a gap
\* from the moment the session is ready.
THEOREM OrderedDeliveryCorrect == Spec => ImplementsOrderedDelivery
  BY InitIncoming, NextRefines, IncomingCorrect, PTL
     DEF Spec, ImplementsOrderedDelivery, Abstract!Spec
=============================================================================
