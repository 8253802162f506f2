--------------------------- MODULE OutgoingProofs ---------------------------
(***************************************************************************)
(* Theorems about OutgoingStream and OutgoingTiming, for any capacity, any *)
(* number of messages and any sequence of round trips.  For any number of  *)
(* senders: the type invariant, that only messages that went through       *)
(* SendInputDataMessage are on the wire, in the buffer or acknowledged,    *)
(* and that no accepted message is lost silently.  For one sender: the     *)
(* sequence numbers are contiguous and the buffer is in their order.  The  *)
(* timed data channel is a data channel of OutgoingStream, and nothing is  *)
(* resent early.                                                           *)
(***************************************************************************)
EXTENDS OutgoingTiming, SequenceTheorems, WellFoundedInduction, TLAPS

-----------------------------------------------------------------------------
(* Sequences *)

\* A nonempty set of naturals has a least element, and Min finds it.
LEMMA MinOfNaturals ==
    ASSUME NEW I \in SUBSET Nat, I # {}
    PROVE  /\ Min(I) \in I
           /\ \A i \in I : Min(I) <= i
<1> DEFINE R == {ss \in Nat \X Nat : ss[1] < ss[2]}
<1>1. IsWellFoundedOn(R, Nat)
  BY NatLessThanWellFounded DEF OpToRel
<1> HIDE DEF R
<1>2. PICK x \in I : \A y \in I : ~(<<y, x>> \in R)
  BY <1>1, WFMin
<1>3. ASSUME NEW y \in I
      PROVE  x <= y
  <2>1. ~(y < x)
    <3>1. <<y, x>>[1] = y /\ <<y, x>>[2] = x /\ <<y, x>> \in Nat \X Nat
      OBVIOUS
    <3> QED
      BY <1>2, <3>1 DEF R
  <2> QED
    BY <2>1
<1> QED
  BY <1>3 DEF Min

\* Removing one position of a sequence keeps every other element and adds none.
LEMMA RemoveAtProperties ==
    ASSUME NEW S, NEW s \in Seq(S), NEW k \in 1..Len(s)
    PROVE  /\ RemoveAt(s, k) \in Seq(S)
           /\ Len(RemoveAt(s, k)) = Len(s) - 1
           /\ \A i \in 1..(k - 1) : RemoveAt(s, k)[i] = s[i]
           /\ \A i \in k..(Len(s) - 1) : RemoveAt(s, k)[i] = s[i + 1]
<1> DEFINE left == SubSeq(s, 1, k - 1)
           right == SubSeq(s, k + 1, Len(s))
<1>1. /\ Len(s) \in Nat /\ k \in Int
      /\ \A i \in 1..Len(s) : s[i] \in S
  BY LenProperties, ElementOfSeq
<1>2. /\ left \in Seq(S)
      /\ Len(left) = k - 1
      /\ \A i \in 1..(k - 1) : left[i] = s[i]
  <2>1. \A i \in 1..(k - 1) : s[i] \in S
    BY <1>1
  <2>2. /\ left \in Seq(S)
        /\ Len(left) = IF 1 <= k - 1 THEN k - 1 - 1 + 1 ELSE 0
        /\ \A i \in 1..(k - 1 - 1 + 1) : left[i] = s[1 + i - 1]
    BY <1>1, <2>1, SubSeqProperties
  <2> QED
    BY <1>1, <2>2
<1>3. /\ right \in Seq(S)
      /\ Len(right) = Len(s) - k
      /\ \A i \in 1..(Len(s) - k) : right[i] = s[k + i]
  <2>1. \A i \in (k + 1)..Len(s) : s[i] \in S
    BY <1>1
  <2>2. /\ right \in Seq(S)
        /\ Len(right) = IF k + 1 <= Len(s) THEN Len(s) - (k + 1) + 1 ELSE 0
        /\ \A i \in 1..(Len(s) - (k + 1) + 1) : right[i] = s[k + 1 + i - 1]
    BY <1>1, <2>1, SubSeqProperties
  <2> QED
    BY <1>1, <2>2
<1> HIDE DEF left, right
<1>4. /\ left \o right \in Seq(S)
      /\ Len(left \o right) = Len(left) + Len(right)
      /\ \A i \in 1..(Len(left) + Len(right)) :
             (left \o right)[i] = IF i <= Len(left) THEN left[i] ELSE right[i - Len(left)]
  BY <1>2, <1>3, ConcatProperties
<1>5. RemoveAt(s, k) = left \o right
  BY DEF RemoveAt, left, right
<1>6. \A i \in 1..(k - 1) : RemoveAt(s, k)[i] = s[i]
  BY <1>1, <1>2, <1>3, <1>4, <1>5
<1>7. ASSUME NEW i \in k..(Len(s) - 1)
      PROVE  RemoveAt(s, k)[i] = s[i + 1]
  <2>1. (left \o right)[i] = right[i - Len(left)]
    BY <1>1, <1>2, <1>3, <1>4
  <2>2. /\ i - Len(left) \in 1..(Len(s) - k)
        /\ k + (i - Len(left)) = i + 1
    BY <1>1, <1>2
  <2>3. right[i - Len(left)] = s[k + (i - Len(left))]
    BY <1>3, <2>2
  <2> QED
    BY <1>5, <2>1, <2>2, <2>3
<1> QED
  BY <1>1, <1>2, <1>3, <1>4, <1>5, <1>6, <1>7

-----------------------------------------------------------------------------
(* ListMessageBuffer *)

\* RemoveIf leaves the buffer alone, or takes out one position that carries
\* the acknowledged sequence number.
LEMMA RemoveIfCases ==
    ASSUME outgoingMessageBuffer \in Seq(StreamingMessage), NEW n
    PROVE  \/ RemoveIf(n) = outgoingMessageBuffer
           \/ \E k \in 1..Len(outgoingMessageBuffer) :
                  /\ outgoingMessageBuffer[k].msg.seq = n
                  /\ RemoveIf(n) = RemoveAt(outgoingMessageBuffer, k)
<1> DEFINE b == outgoingMessageBuffer
           I == {i \in 1..Len(b) : b[i].msg.seq = n}
<1>1. CASE I = {}
  BY <1>1 DEF RemoveIf, RemoveFirstMatch
<1>2. CASE I # {}
  <2>1. I \in SUBSET Nat
    BY LenProperties
  <2>2. Min(I) \in I
    BY <1>2, <2>1, MinOfNaturals
  <2>3. RemoveIf(n) = RemoveAt(b, Min(I))
    BY <1>2 DEF RemoveIf, RemoveFirstMatch, SelectInSeq
  <2> QED
    BY <2>2, <2>3
<1> QED
  BY <1>1, <1>2

\* An acknowledgement shortens the buffer at most, adds nothing to it and takes
\* out no message with another sequence number.
LEMMA RemoveIfBuffered ==
    ASSUME outgoingMessageBuffer \in Seq(StreamingMessage), NEW n,
           outgoingMessageBuffer' = RemoveIf(n)
    PROVE  /\ outgoingMessageBuffer' \in Seq(StreamingMessage)
           /\ Len(outgoingMessageBuffer') <= Len(outgoingMessageBuffer)
           /\ Buffered' \subseteq Buffered
           /\ \A m \in Buffered : m \in Buffered' \/ m.seq = n
<1> DEFINE b == outgoingMessageBuffer
<1>0. Len(b) \in Nat /\ DOMAIN b = 1..Len(b)
  BY LenProperties
<1>1. CASE b' = b
  BY <1>0, <1>1 DEF Buffered
<1>2. ASSUME NEW k \in 1..Len(b), b[k].msg.seq = n, b' = RemoveAt(b, k)
      PROVE  /\ b' \in Seq(StreamingMessage)
             /\ Len(b') <= Len(b)
             /\ Buffered' \subseteq Buffered
             /\ \A m \in Buffered : m \in Buffered' \/ m.seq = n
  <2>1. /\ b' \in Seq(StreamingMessage)
        /\ Len(b') = Len(b) - 1
        /\ \A i \in 1..(k - 1) : b'[i] = b[i]
        /\ \A i \in k..(Len(b) - 1) : b'[i] = b[i + 1]
    BY <1>2, RemoveAtProperties
  <2>2. DOMAIN b' = 1..(Len(b) - 1)
    BY <2>1, LenProperties
  <2>3. \A i \in DOMAIN b' : \E j \in DOMAIN b : b'[i] = b[j]
    <3> TAKE i \in DOMAIN b'
    <3>1. CASE i < k
      BY <1>0, <2>1, <2>2, <3>1
    <3>2. CASE i >= k
      <4>1. i \in k..(Len(b) - 1) /\ i + 1 \in DOMAIN b
        BY <1>0, <2>2, <3>2
      <4> QED
        BY <2>1, <4>1
    <3> QED
      BY <1>0, <2>2, <3>1, <3>2
  <2>4. \A j \in DOMAIN b : j = k \/ \E i \in DOMAIN b' : b'[i] = b[j]
    <3> TAKE j \in DOMAIN b
    <3>1. CASE j < k
      BY <1>0, <2>1, <2>2, <3>1
    <3>2. CASE j > k
      <4>1. j - 1 \in DOMAIN b' /\ b'[j - 1] = b[j - 1 + 1]
        BY <1>0, <2>1, <2>2, <3>2
      <4> QED
        BY <1>0, <4>1
    <3> QED
      BY <1>0, <3>1, <3>2
  <2>5. Buffered' \subseteq Buffered
    BY <2>3 DEF Buffered
  <2>6. \A m \in Buffered : m \in Buffered' \/ m.seq = n
    BY <1>2, <2>4 DEF Buffered
  <2> QED
    BY <1>0, <2>1, <2>5, <2>6
<1> QED
  BY <1>1, <1>2, RemoveIfCases

\* The messages of a buffer.
MessagesOf(b) == {b[i].msg : i \in DOMAIN b}

\* Appending adds exactly the new message.
LEMMA MessagesOfAppend ==
    ASSUME NEW b \in Seq(StreamingMessage), NEW item \in StreamingMessage
    PROVE  /\ Append(b, item) \in Seq(StreamingMessage)
           /\ Len(Append(b, item)) = Len(b) + 1
           /\ MessagesOf(Append(b, item)) = MessagesOf(b) \cup {item.msg}
<1> DEFINE c == Append(b, item)
<1>1. /\ c \in Seq(StreamingMessage)
      /\ Len(c) = Len(b) + 1
      /\ \A i \in 1..Len(b) : c[i] = b[i]
      /\ c[Len(b) + 1] = item
  BY AppendProperties
<1> HIDE DEF c
<1>2. Len(b) \in Nat /\ DOMAIN b = 1..Len(b) /\ DOMAIN c = 1..(Len(b) + 1)
  BY <1>1, LenProperties
<1>3. MessagesOf(c) \subseteq MessagesOf(b) \cup {item.msg}
  <2> SUFFICES ASSUME NEW i \in 1..(Len(b) + 1)
               PROVE  c[i].msg \in MessagesOf(b) \cup {item.msg}
    BY <1>2 DEF MessagesOf
  <2>1. CASE i = Len(b) + 1
    BY <1>1, <2>1
  <2>2. CASE i \in 1..Len(b)
    BY <1>1, <1>2, <2>2 DEF MessagesOf
  <2> QED
    BY <1>2, <2>1, <2>2
<1>4. MessagesOf(b) \subseteq MessagesOf(c)
  <2>1. \A i \in DOMAIN b : i \in DOMAIN c /\ c[i] = b[i]
    BY <1>1, <1>2
  <2> QED
    BY <2>1 DEF MessagesOf
<1>5. item.msg \in MessagesOf(c)
  BY <1>1, <1>2 DEF MessagesOf
<1> QED
  BY <1>1, <1>3, <1>4, <1>5 DEF c

\* Dropping the front loses the front's message at most.
LEMMA MessagesOfTail ==
    ASSUME NEW b \in Seq(StreamingMessage), b # <<>>
    PROVE  /\ Tail(b) \in Seq(StreamingMessage)
           /\ Len(Tail(b)) = Len(b) - 1
           /\ MessagesOf(Tail(b)) \subseteq MessagesOf(b)
           /\ MessagesOf(b) \subseteq MessagesOf(Tail(b)) \cup {Head(b).msg}
           /\ Head(b).msg \in MessagesOf(b)
<1> DEFINE c == Tail(b)
<1>1. /\ c \in Seq(StreamingMessage)
      /\ Len(c) = Len(b) - 1
      /\ \A i \in 1..(Len(b) - 1) : c[i] = b[i + 1]
  BY HeadTailProperties
<1>2. Head(b) = b[1]
  OBVIOUS
<1> HIDE DEF c
<1>3. /\ Len(b) \in Nat /\ Len(b) > 0
      /\ DOMAIN b = 1..Len(b) /\ DOMAIN c = 1..(Len(b) - 1)
  BY <1>1, LenProperties, EmptySeq
<1>4. MessagesOf(c) \subseteq MessagesOf(b)
  <2>1. \A i \in DOMAIN c : i + 1 \in DOMAIN b /\ c[i] = b[i + 1]
    BY <1>1, <1>3
  <2> QED
    BY <2>1 DEF MessagesOf
<1>5. ASSUME NEW j \in DOMAIN b
      PROVE  b[j].msg \in MessagesOf(c) \cup {Head(b).msg}
  <2>1. CASE j = 1
    BY <1>2, <2>1
  <2>2. CASE j # 1
    <3>1. j - 1 \in DOMAIN c /\ j - 1 \in 1..(Len(b) - 1) /\ j - 1 + 1 = j
      BY <1>3, <2>2
    <3>2. c[j - 1] = b[j]
      BY <1>1, <3>1
    <3> QED
      BY <3>1, <3>2 DEF MessagesOf
  <2> QED
    BY <2>1, <2>2
<1>6. MessagesOf(b) \subseteq MessagesOf(c) \cup {Head(b).msg}
  BY <1>5 DEF MessagesOf
<1>7. Head(b).msg \in MessagesOf(b)
  BY <1>2, <1>3 DEF MessagesOf
<1> QED
  BY <1>1, <1>4, <1>6, <1>7 DEF c

\* A push keeps the buffer within its capacity; what a full buffer loses is
\* recorded as evicted, and nothing but the new message is added.
LEMMA ForcePushBackBuffered ==
    ASSUME outgoingMessageBuffer \in Seq(StreamingMessage),
           Len(outgoingMessageBuffer) <= Capacity,
           NEW item \in StreamingMessage,
           ForcePushBack(item)
    PROVE  /\ outgoingMessageBuffer' \in Seq(StreamingMessage)
           /\ Len(outgoingMessageBuffer') <= Capacity
           /\ item.msg \in Buffered'
           /\ Buffered' \subseteq Buffered \cup {item.msg}
           /\ Buffered \subseteq Buffered' \cup evicted'
           /\ evicted \subseteq evicted'
           /\ evicted' \subseteq evicted \cup Buffered
<1> DEFINE b == outgoingMessageBuffer
<1>1. Len(b) \in Nat /\ Capacity \in Nat /\ Capacity > 0
  BY LenProperties, ConstantsAssumption
<1>2. Buffered = MessagesOf(b) /\ Buffered' = MessagesOf(b')
  BY DEF Buffered, MessagesOf
<1>3. CASE IsFull
  <2>1. b # <<>> /\ Len(b) = Capacity
    BY <1>1, <1>3 DEF IsFull
  <2>2. /\ b' = Append(Tail(b), item)
        /\ evicted' = evicted \cup {Head(b).msg}
    BY <1>3 DEF ForcePushBack
  <2>3. /\ Tail(b) \in Seq(StreamingMessage)
        /\ Len(Tail(b)) = Len(b) - 1
        /\ MessagesOf(Tail(b)) \subseteq MessagesOf(b)
        /\ MessagesOf(b) \subseteq MessagesOf(Tail(b)) \cup {Head(b).msg}
        /\ Head(b).msg \in MessagesOf(b)
    BY <2>1, MessagesOfTail
  <2>4. /\ b' \in Seq(StreamingMessage)
        /\ Len(b') = Len(Tail(b)) + 1
        /\ MessagesOf(b') = MessagesOf(Tail(b)) \cup {item.msg}
    BY <2>2, <2>3, MessagesOfAppend
  <2>5. Len(b') <= Capacity
    BY <1>1, <2>1, <2>3, <2>4
  <2> QED
    BY <1>2, <2>2, <2>3, <2>4, <2>5
<1>4. CASE ~IsFull
  <2>1. b' = Append(b, item) /\ evicted' = evicted
    BY <1>4 DEF ForcePushBack
  <2>2. /\ b' \in Seq(StreamingMessage)
        /\ Len(b') = Len(b) + 1
        /\ MessagesOf(b') = MessagesOf(b) \cup {item.msg}
    BY <2>1, MessagesOfAppend
  <2>3. Len(b') <= Capacity
    BY <1>1, <1>4, <2>2 DEF IsFull
  <2> QED
    BY <1>2, <2>1, <2>2, <2>3
<1> QED
  BY <1>3, <1>4

-----------------------------------------------------------------------------
(* The type invariant *)

\* A fresh data channel has empty buffers and idle senders, all of the right type.
LEMMA InitTypeOK == Init => TypeOK
<1> SUFFICES ASSUME Init PROVE TypeOK
  OBVIOUS
<1>1. NoMessage \in Message
  BY DEF NoMessage, Message
<1>2. outgoingMessageBuffer \in Seq(StreamingMessage) /\ Len(outgoingMessageBuffer) <= Capacity
  BY ConstantsAssumption, EmptySeq DEF Init
<1>3. streamMessage \in StreamingMessage
  BY <1>1 DEF Init, StreamingMessage
<1>4. sending \in [Senders -> Message] /\ pc \in [Senders -> {"idle", "loaded", "written", "added"}]
  BY <1>1 DEF Init
<1> QED
  BY <1>2, <1>3, <1>4 DEF Init, TypeOK

\* Every step of a sender, the scheduler, the listener, the agent or the network
\* keeps the types.
LEMMA NextTypeOK == TypeOK /\ [Next]_vars => TypeOK'
<1> SUFFICES ASSUME TypeOK, [Next]_vars PROVE TypeOK'
  OBVIOUS
<1>1. ASSUME NEW s \in Senders, SendLoad(s) PROVE TypeOK'
  <2>1. [id |-> created + 1, seq |-> streamDataSequenceNumber] \in Message
    BY DEF TypeOK, Message
  <2> QED
    BY <1>1, <2>1 DEF TypeOK, SendLoad, bufferVars, schedulerVars, agentVars
<1>2. ASSUME NEW s \in Senders, SendWrite(s) PROVE TypeOK'
  BY <1>2 DEF TypeOK, SendWrite, bufferVars, schedulerVars
<1>3. ASSUME NEW s \in Senders, SendFail(s) PROVE TypeOK'
  BY <1>3 DEF TypeOK, SendFail, bufferVars, schedulerVars, agentVars
<1>4. ASSUME NEW s \in Senders, SendAdd(s) PROVE TypeOK'
  BY <1>4 DEF TypeOK, SendAdd, bufferVars, schedulerVars, agentVars
<1>5. ASSUME NEW s \in Senders, SendPush(s) PROVE TypeOK'
  <2> DEFINE item == [msg |-> sending[s], resendAttempt |-> 0]
  <2>1. sending[s] \in Message /\ item \in StreamingMessage
    BY DEF TypeOK, StreamingMessage
  <2>2. ForcePushBack(item)
    BY <1>5 DEF SendPush
  <2>3. /\ outgoingMessageBuffer' \in Seq(StreamingMessage)
        /\ Len(outgoingMessageBuffer') <= Capacity
        /\ evicted' \subseteq evicted \cup Buffered
    BY <2>1, <2>2, ForcePushBackBuffered DEF TypeOK
  <2>4. Buffered \subseteq Message
    <3>1. \A i \in DOMAIN outgoingMessageBuffer : outgoingMessageBuffer[i] \in StreamingMessage
      BY LenProperties, ElementOfSeq DEF TypeOK
    <3> QED
      BY <3>1 DEF Buffered, StreamingMessage
  <2>5. evicted' \subseteq Message
    BY <2>3, <2>4 DEF TypeOK
  <2> QED
    BY <1>5, <2>1, <2>3, <2>5 DEF TypeOK, SendPush, schedulerVars, agentVars
<1>6. CASE ResendFront
  <2>1. Head(outgoingMessageBuffer) \in StreamingMessage
    BY <1>6, HeadTailProperties DEF TypeOK, ResendFront
  <2>2. [Head(outgoingMessageBuffer) EXCEPT !.resendAttempt = @ + 1] \in StreamingMessage
    BY <2>1 DEF StreamingMessage
  <2>3. streamMessage' \in StreamingMessage /\ scheduler' \in {"sleeping", "resending", "timedOut"}
    BY <1>6, <2>2 DEF TypeOK, ResendFront
  <2> QED
    BY <1>6, <2>3 DEF TypeOK, ResendFront, senderVars, bufferVars, agentVars
<1>7. CASE ResendWrite
  BY <1>7 DEF TypeOK, ResendWrite, StreamingMessage, senderVars, bufferVars
<1>8. CASE ResendFail
  BY <1>8 DEF TypeOK, ResendFail, senderVars, bufferVars, agentVars
<1>9. ASSUME NEW n \in acks, HandleAcknowledge(n) PROVE TypeOK'
  <2>1. /\ outgoingMessageBuffer' \in Seq(StreamingMessage)
        /\ Len(outgoingMessageBuffer') <= Len(outgoingMessageBuffer)
    BY <1>9, RemoveIfBuffered DEF TypeOK, HandleAcknowledge, ProcessAcknowledgedMessage
  <2>2. Len(outgoingMessageBuffer') <= Capacity
    BY <2>1, LenProperties, ConstantsAssumption DEF TypeOK
  <2> QED
    BY <1>9, <2>1, <2>2 DEF TypeOK, HandleAcknowledge, senderVars, schedulerVars
<1>10. ASSUME NEW n \in acks, LoseAck(n) PROVE TypeOK'
  BY <1>10 DEF TypeOK, LoseAck, senderVars, bufferVars, schedulerVars
<1>11. ASSUME NEW m \in inFlight, AgentReceive(m) PROVE TypeOK'
  <2>1. m \in Message /\ m.seq \in Nat
    BY DEF TypeOK, Message
  <2> QED
    BY <1>11, <2>1 DEF TypeOK, AgentReceive, senderVars, bufferVars, schedulerVars
<1>12. ASSUME NEW m \in inFlight, LoseMessage(m) PROVE TypeOK'
  BY <1>12 DEF TypeOK, LoseMessage, senderVars, bufferVars, schedulerVars
<1>13. CASE UNCHANGED vars
  BY <1>13 DEF TypeOK, vars, senderVars, bufferVars, schedulerVars, agentVars
<1> QED
  BY <1>1, <1>2, <1>3, <1>4, <1>5, <1>6, <1>7, <1>8, <1>9, <1>10, <1>11, <1>12, <1>13
     DEF Next, SendInputDataMessage, ResendScheduler

\* Every variable keeps its type and the buffer its capacity, for any number
\* of concurrent senders (ForcePushBack, RemoveIf).
THEOREM TypeCorrect == Spec => []TypeOK
  BY InitTypeOK, NextTypeOK, PTL DEF Spec

-----------------------------------------------------------------------------
(* What is on the wire *)

\* No step takes a message back: what has been written stays written, and a
\* message between Load and its write does not count yet.
LEMMA WrittenGrows == TypeOK /\ [Next]_vars => Written \subseteq Written'
<1> SUFFICES ASSUME TypeOK, [Next]_vars, NEW m \in Written
             PROVE  m \in Written'
  OBVIOUS
<1>1. CASE m \in accepted
  <2>1. accepted \subseteq accepted'
    BY DEF Next, SendInputDataMessage, SendLoad, SendWrite, SendFail, SendAdd, SendPush,
           ResendScheduler, ResendFront, ResendWrite, ResendFail, HandleAcknowledge,
           LoseAck, AgentReceive, LoseMessage, vars, senderVars
  <2> QED
    BY <1>1, <2>1 DEF Written, Counted
<1>2. ASSUME NEW t \in Senders, pc[t] \in {"written", "added"}, m = sending[t]
      PROVE  m \in Written'
  <2>1. ASSUME NEW s \in Senders, SendInputDataMessage(s)
        PROVE  m \in Written'
    <3>1. CASE s = t
      <4>1. \/ SendAdd(t) /\ pc'[t] = "added" /\ sending'[t] = m
            \/ SendPush(t) /\ m \in accepted'
        BY <1>2, <2>1, <3>1 DEF TypeOK, SendInputDataMessage, SendLoad, SendWrite, SendFail,
                                SendAdd, SendPush
      <4> QED
        BY <4>1 DEF Written, Counted
    <3>2. CASE s # t
      <4>1. pc'[t] = pc[t] /\ sending'[t] = sending[t]
        BY <1>2, <2>1, <3>2 DEF TypeOK, SendInputDataMessage, SendLoad, SendWrite, SendFail,
                                SendAdd, SendPush
      <4> QED
        BY <1>2, <4>1 DEF Written, Counted
    <3> QED
      BY <3>1, <3>2
  <2>2. CASE UNCHANGED <<pc, sending>>
    BY <1>2, <2>2 DEF Written, Counted
  <2> QED
    BY <2>1, <2>2 DEF Next, ResendScheduler, ResendFront, ResendWrite, ResendFail,
           HandleAcknowledge, LoseAck, AgentReceive, LoseMessage, vars, senderVars
<1> QED
  BY <1>1, <1>2 DEF Written, Counted

\* Initially nothing is on the wire.
LEMMA InitOnlyWritten == Init => OnlyWrittenOnWire
  BY DEF Init, OnlyWrittenOnWire, Buffered

\* Each step puts on the wire, in the buffer or into the scheduler's copy only
\* what a websocket write has sent before.
LEMMA NextOnlyWritten ==
    TypeOK /\ OnlyWrittenOnWire /\ [Next]_vars => OnlyWrittenOnWire'
<1> SUFFICES ASSUME TypeOK, OnlyWrittenOnWire, [Next]_vars
             PROVE  OnlyWrittenOnWire'
  OBVIOUS
<1>0. Written \subseteq Written'
  BY WrittenGrows
<1>a. /\ inFlight \subseteq Written /\ received \subseteq Written
      /\ Buffered \subseteq Written /\ evicted \subseteq Written
      /\ scheduler = "resending" => streamMessage.msg \in Written
      /\ \A n \in acks : \E r \in received : r.seq = n
  BY DEF OnlyWrittenOnWire
<1> DEFINE Goal == /\ inFlight' \subseteq Written' /\ received' \subseteq Written'
                   /\ Buffered' \subseteq Written' /\ evicted' \subseteq Written'
                   /\ scheduler' = "resending" => streamMessage'.msg \in Written'
                   /\ \A n \in acks' : \E r \in received' : r.seq = n
<1> SUFFICES Goal
  BY DEF OnlyWrittenOnWire
<1>b. UNCHANGED outgoingMessageBuffer => Buffered' = Buffered
  BY DEF Buffered
<1>1. ASSUME NEW s \in Senders, SendLoad(s) PROVE Goal
  BY <1>0, <1>a, <1>b, <1>1 DEF SendLoad, bufferVars, schedulerVars, agentVars
<1>2. ASSUME NEW s \in Senders, SendWrite(s) PROVE Goal
  <2>1. sending[s] \in Written'
    <3>1. pc'[s] = "written" /\ sending'[s] = sending[s]
      BY <1>2 DEF TypeOK, SendWrite
    <3> QED
      BY <3>1 DEF Written
  <2> QED
    BY <1>0, <1>a, <1>b, <1>2, <2>1 DEF SendWrite, bufferVars, schedulerVars
<1>3. ASSUME NEW s \in Senders, SendFail(s) PROVE Goal
  BY <1>0, <1>a, <1>b, <1>3 DEF SendFail, bufferVars, schedulerVars, agentVars
<1>4. ASSUME NEW s \in Senders, SendAdd(s) PROVE Goal
  BY <1>0, <1>a, <1>b, <1>4 DEF SendAdd, bufferVars, schedulerVars, agentVars
<1>5. ASSUME NEW s \in Senders, SendPush(s) PROVE Goal
  <2> DEFINE item == [msg |-> sending[s], resendAttempt |-> 0]
  <2>1. item \in StreamingMessage /\ item.msg = sending[s]
    BY DEF TypeOK, StreamingMessage
  <2>2. ForcePushBack(item)
    BY <1>5 DEF SendPush
  <2>3. /\ Buffered' \subseteq Buffered \cup {item.msg}
        /\ evicted' \subseteq evicted \cup Buffered
    BY <2>1, <2>2, ForcePushBackBuffered DEF TypeOK
  <2>4. sending[s] \in Written'
    BY <1>5 DEF SendPush, Written, Counted
  <2>5. /\ Buffered' \subseteq Written' /\ evicted' \subseteq Written'
    BY <1>0, <1>a, <2>1, <2>3, <2>4
  <2> QED
    BY <1>0, <1>a, <1>5, <2>5 DEF SendPush, schedulerVars, agentVars
<1>6. CASE ResendFront
  <2>1. Head(outgoingMessageBuffer) \in StreamingMessage
    BY <1>6, HeadTailProperties DEF TypeOK, ResendFront
  <2>2. Head(outgoingMessageBuffer).msg \in Written
    BY <1>6, <1>a, MessagesOfTail DEF TypeOK, ResendFront, MessagesOf, Buffered
  <2>3. scheduler' = "resending" => streamMessage'.msg = Head(outgoingMessageBuffer).msg
    BY <1>6, <2>1 DEF ResendFront, StreamingMessage
  <2> QED
    BY <1>0, <1>a, <1>b, <1>6, <2>2, <2>3 DEF ResendFront, senderVars, bufferVars, agentVars
<1>7. CASE ResendWrite
  BY <1>0, <1>a, <1>b, <1>7 DEF ResendWrite, senderVars, bufferVars
<1>8. CASE ResendFail
  BY <1>0, <1>a, <1>b, <1>8 DEF ResendFail, senderVars, bufferVars, agentVars
<1>9. ASSUME NEW n \in acks, HandleAcknowledge(n) PROVE Goal
  <2>1. Buffered' \subseteq Buffered
    BY <1>9, RemoveIfBuffered DEF TypeOK, HandleAcknowledge, ProcessAcknowledgedMessage
  <2> QED
    BY <1>0, <1>a, <1>9, <2>1 DEF HandleAcknowledge, senderVars, schedulerVars
<1>10. ASSUME NEW n \in acks, LoseAck(n) PROVE Goal
  BY <1>0, <1>a, <1>b, <1>10 DEF LoseAck, senderVars, bufferVars, schedulerVars
<1>11. ASSUME NEW m \in inFlight, AgentReceive(m) PROVE Goal
  BY <1>0, <1>a, <1>b, <1>11 DEF AgentReceive, senderVars, bufferVars, schedulerVars
<1>12. ASSUME NEW m \in inFlight, LoseMessage(m) PROVE Goal
  BY <1>0, <1>a, <1>b, <1>12 DEF LoseMessage, senderVars, bufferVars, schedulerVars
<1>13. CASE UNCHANGED vars
  BY <1>0, <1>a, <1>b, <1>13 DEF vars, senderVars, bufferVars, schedulerVars, agentVars
<1> QED
  BY <1>1, <1>2, <1>3, <1>4, <1>5, <1>6, <1>7, <1>8, <1>9, <1>10, <1>11, <1>12, <1>13
     DEF Next, SendInputDataMessage, ResendScheduler

\* The wire, the buffer, the scheduler's copy and the agent only ever hold
\* messages that went through the websocket write of SendInputDataMessage, and
\* every acknowledgement answers a message that the agent has received.
THEOREM OnlyWrittenCorrect == Spec => []OnlyWrittenOnWire
<1>1. Init => TypeOK /\ OnlyWrittenOnWire
  BY InitTypeOK, InitOnlyWritten
<1>2. (TypeOK /\ OnlyWrittenOnWire) /\ [Next]_vars => (TypeOK /\ OnlyWrittenOnWire)'
  BY NextTypeOK, NextOnlyWritten
<1> QED
  BY <1>1, <1>2, PTL DEF Spec

-----------------------------------------------------------------------------
(* No accepted message is lost silently *)

\* Initially no message has been accepted.
LEMMA InitNoSilentLoss == Init => NoSilentLoss
  BY DEF Init, NoSilentLoss

\* NoSilentLoss is not inductive alone: an acknowledgement may remove a message
\* only because OnlyWrittenOnWire ties it to a message the agent has received.
LEMMA NextNoSilentLoss ==
    TypeOK /\ OnlyWrittenOnWire /\ NoSilentLoss /\ [Next]_vars => NoSilentLoss'
<1> SUFFICES ASSUME TypeOK, OnlyWrittenOnWire, NoSilentLoss, [Next]_vars,
                    NEW m \in accepted'
             PROVE  \/ m \in Buffered'
                    \/ m \in evicted'
                    \/ \E r \in received' : r.seq = m.seq
  BY DEF NoSilentLoss
<1> DEFINE Safe == \/ m \in Buffered
                   \/ m \in evicted
                   \/ \E r \in received : r.seq = m.seq
<1>0. m \in accepted => Safe
  BY DEF NoSilentLoss
<1>1. received \subseteq received'
  BY DEF Next, SendInputDataMessage, SendLoad, SendWrite, SendFail, SendAdd, SendPush,
         ResendScheduler, ResendFront, ResendWrite, ResendFail, HandleAcknowledge,
         LoseAck, AgentReceive, LoseMessage, vars, agentVars
<1>2. ASSUME NEW s \in Senders, SendPush(s)
      PROVE  \/ m \in Buffered'
             \/ m \in evicted'
             \/ \E r \in received' : r.seq = m.seq
  <2> DEFINE item == [msg |-> sending[s], resendAttempt |-> 0]
  <2>1. item \in StreamingMessage /\ item.msg = sending[s]
    BY DEF TypeOK, StreamingMessage
  <2>2. ForcePushBack(item)
    BY <1>2 DEF SendPush
  <2>3. /\ item.msg \in Buffered'
        /\ Buffered \subseteq Buffered' \cup evicted'
        /\ evicted \subseteq evicted'
    BY <2>1, <2>2, ForcePushBackBuffered DEF TypeOK
  <2>4. m \in accepted \/ m = sending[s]
    BY <1>2 DEF SendPush
  <2> QED
    BY <1>0, <1>1, <2>1, <2>3, <2>4
<1>3. ASSUME NEW n \in acks, HandleAcknowledge(n)
      PROVE  \/ m \in Buffered'
             \/ m \in evicted'
             \/ \E r \in received' : r.seq = m.seq
  <2>1. \A x \in Buffered : x \in Buffered' \/ x.seq = n
    BY <1>3, RemoveIfBuffered DEF TypeOK, HandleAcknowledge, ProcessAcknowledgedMessage
  <2>2. \E r \in received : r.seq = n
    BY DEF OnlyWrittenOnWire
  <2>3. m \in accepted /\ evicted' = evicted
    BY <1>3 DEF HandleAcknowledge, senderVars
  <2> QED
    BY <1>0, <1>1, <2>1, <2>2, <2>3
<1>4. CASE UNCHANGED <<bufferVars, accepted>>
  <2>1. Buffered' = Buffered /\ evicted' = evicted /\ m \in accepted
    BY <1>4 DEF Buffered, bufferVars
  <2> QED
    BY <1>0, <1>1, <2>1
<1> QED
  BY <1>2, <1>3, <1>4
     DEF Next, SendInputDataMessage, SendLoad, SendWrite, SendFail, SendAdd,
         ResendScheduler, ResendFront, ResendWrite, ResendFail,
         LoseAck, AgentReceive, LoseMessage, vars, senderVars, bufferVars

\* A message whose SendInputDataMessage returned nil stays buffered until it is
\* evicted by a full buffer or the agent has received a message with its
\* sequence number, whatever is lost, delayed or acknowledged early.
THEOREM NoSilentLossCorrect == Spec => []NoSilentLoss
<1> DEFINE IInv == TypeOK /\ OnlyWrittenOnWire /\ NoSilentLoss
<1>1. Init => IInv
  BY InitTypeOK, InitOnlyWritten, InitNoSilentLoss
<1>2. IInv /\ [Next]_vars => IInv'
  BY NextTypeOK, NextOnlyWritten, NextNoSilentLoss
<1>3. IInv => NoSilentLoss
  OBVIOUS
<1> HIDE DEF IInv
<1> QED
  BY <1>1, <1>2, <1>3, PTL DEF Spec

-----------------------------------------------------------------------------
(* One sending goroutine *)

\* Only one goroutine calls SendInputDataMessage, as when the handshake is over
\* and all input comes from one reader: the code does not enforce it.
OneSender == \E s : Senders = {s}

\* The messages of a buffer are in the order of their sequence numbers.
Ordered(b) == \A i, j \in DOMAIN b : i < j => b[i].msg.seq < b[j].msg.seq

\* A message with a larger number than all others keeps the order at the end.
LEMMA OrderedAppend ==
    ASSUME NEW b \in Seq(StreamingMessage), NEW item \in StreamingMessage,
           Ordered(b), \A m \in MessagesOf(b) : m.seq < item.msg.seq
    PROVE  Ordered(Append(b, item))
<1> DEFINE c == Append(b, item)
<1>1. /\ c \in Seq(StreamingMessage)
      /\ Len(c) = Len(b) + 1
      /\ \A i \in 1..Len(b) : c[i] = b[i]
      /\ c[Len(b) + 1] = item
  BY AppendProperties
<1> HIDE DEF c
<1>2. Len(b) \in Nat /\ DOMAIN b = 1..Len(b) /\ DOMAIN c = 1..(Len(b) + 1)
  BY <1>1, LenProperties
<1>3. ASSUME NEW i \in DOMAIN c, NEW j \in DOMAIN c, i < j
      PROVE  c[i].msg.seq < c[j].msg.seq
  <2>1. i \in 1..Len(b) /\ c[i] = b[i]
    BY <1>1, <1>2, <1>3
  <2>2. CASE j = Len(b) + 1
    BY <1>1, <1>2, <2>1, <2>2 DEF MessagesOf
  <2>3. CASE j \in 1..Len(b)
    BY <1>1, <1>2, <1>3, <2>1, <2>3 DEF Ordered
  <2> QED
    BY <1>2, <2>2, <2>3
<1> QED
  BY <1>3 DEF Ordered, c

\* The front is older than all that is left when it goes.
LEMMA OrderedTail ==
    ASSUME NEW b \in Seq(StreamingMessage), b # <<>>, Ordered(b)
    PROVE  /\ Ordered(Tail(b))
           /\ \A m \in MessagesOf(Tail(b)) : Head(b).msg.seq < m.seq
<1> DEFINE c == Tail(b)
<1>1. /\ c \in Seq(StreamingMessage)
      /\ Len(c) = Len(b) - 1
      /\ \A i \in 1..(Len(b) - 1) : c[i] = b[i + 1]
  BY HeadTailProperties
<1>2. Head(b) = b[1]
  OBVIOUS
<1> HIDE DEF c
<1>3. /\ Len(b) \in Nat /\ Len(b) > 0
      /\ DOMAIN b = 1..Len(b) /\ DOMAIN c = 1..(Len(b) - 1)
  BY <1>1, LenProperties, EmptySeq
<1>4. \A i \in DOMAIN c : i \in Nat /\ i + 1 \in DOMAIN b /\ 1 < i + 1 /\ c[i] = b[i + 1]
  BY <1>1, <1>3
<1>5. ASSUME NEW i \in DOMAIN c, NEW j \in DOMAIN c, i < j
      PROVE  c[i].msg.seq < c[j].msg.seq
  <2>1. i + 1 < j + 1
    BY <1>4, <1>5
  <2> QED
    BY <1>4, <2>1 DEF Ordered
<1>6. ASSUME NEW j \in DOMAIN c
      PROVE  Head(b).msg.seq < c[j].msg.seq
  <2>1. 1 \in DOMAIN b
    BY <1>3
  <2> QED
    BY <1>2, <1>4, <2>1 DEF Ordered
<1> QED
  BY <1>5, <1>6 DEF Ordered, MessagesOf, c

\* An element taken out of the middle leaves the others in order.
LEMMA OrderedRemoveAt ==
    ASSUME NEW b \in Seq(StreamingMessage), NEW k \in 1..Len(b), Ordered(b)
    PROVE  Ordered(RemoveAt(b, k))
<1> DEFINE c == RemoveAt(b, k)
           old(i) == IF i < k THEN i ELSE i + 1
<1>1. /\ c \in Seq(StreamingMessage)
      /\ Len(c) = Len(b) - 1
      /\ \A i \in 1..(k - 1) : c[i] = b[i]
      /\ \A i \in k..(Len(b) - 1) : c[i] = b[i + 1]
  BY RemoveAtProperties
<1> HIDE DEF c
<1>2. Len(b) \in Nat /\ DOMAIN b = 1..Len(b) /\ DOMAIN c = 1..(Len(b) - 1)
  BY <1>1, LenProperties
<1>3. ASSUME NEW i \in DOMAIN c
      PROVE  old(i) \in DOMAIN b /\ c[i] = b[old(i)]
  <2>1. CASE i < k
    BY <1>1, <1>2, <2>1
  <2>2. CASE i >= k
    <3>1. i \in k..(Len(b) - 1) /\ i + 1 \in DOMAIN b /\ old(i) = i + 1
      BY <1>2, <2>2
    <3> QED
      BY <1>1, <3>1
  <2> QED
    BY <1>2, <2>1, <2>2
<1>4. ASSUME NEW i \in DOMAIN c, NEW j \in DOMAIN c, i < j
      PROVE  c[i].msg.seq < c[j].msg.seq
  <2>1. old(i) < old(j)
    BY <1>2, <1>4
  <2>2. /\ old(i) \in DOMAIN b /\ c[i] = b[old(i)]
        /\ old(j) \in DOMAIN b /\ c[j] = b[old(j)]
    BY <1>3
  <2> HIDE DEF old
  <2> QED
    BY <2>1, <2>2 DEF Ordered
<1> QED
  BY <1>4 DEF Ordered, c

\* The number of messages that are accepted: a message that is counted and not
\* pushed yet is the one after these.
Pushed(s) == IF pc[s] = "added" THEN streamDataSequenceNumber - 1 ELSE streamDataSequenceNumber

\* What makes the two properties of one sender inductive: the message at work
\* carries the number that comes next, the accepted ones all the numbers before,
\* and the buffer and the evicted ones are accepted.
OneSenderInv ==
    /\ \A s \in Senders :
           /\ Pushed(s) \in Nat
           /\ pc[s] # "idle" => sending[s].seq = Pushed(s)
           /\ \A m \in accepted : m.seq < Pushed(s)
           /\ \A n \in 0 .. (Pushed(s) - 1) : \E m \in accepted : m.seq = n
    /\ \A m1, m2 \in accepted : m1.seq = m2.seq => m1 = m2
    /\ Buffered \cup evicted \subseteq accepted
    /\ BufferOrdered

\* Nothing is sent yet.
LEMMA InitOneSender == Init => OneSenderInv
<1> SUFFICES ASSUME Init PROVE OneSenderInv
  OBVIOUS
<1>1. Buffered = {} /\ BufferOrdered
  BY DEF Init, Buffered, BufferOrdered
<1> QED
  BY <1>1 DEF Init, OneSenderInv, Pushed

\* Each step of the one sender, and whatever the scheduler, the listener and
\* the network do meanwhile, keeps the numbers and the order.
LEMMA NextOneSender ==
    ASSUME OneSender, TypeOK, OneSenderInv, [Next]_vars
    PROVE  OneSenderInv'
<1> PICK s : Senders = {s}
  BY DEF OneSender
<1> DEFINE b == outgoingMessageBuffer
<1>1. /\ Pushed(s) \in Nat
      /\ pc[s] # "idle" => sending[s].seq = Pushed(s)
      /\ \A m \in accepted : m.seq < Pushed(s)
      /\ \A n \in 0 .. (Pushed(s) - 1) : \E m \in accepted : m.seq = n
      /\ \A m1, m2 \in accepted : m1.seq = m2.seq => m1 = m2
      /\ Buffered \subseteq accepted /\ evicted \subseteq accepted
      /\ Ordered(b)
      /\ \A e \in evicted, m \in Buffered : e.seq < m.seq
  BY DEF OneSenderInv, BufferOrdered, Ordered
<1> DEFINE Numbers == /\ Pushed(s)' \in Nat
                      /\ pc'[s] # "idle" => sending'[s].seq = Pushed(s)'
                      /\ \A m \in accepted' : m.seq < Pushed(s)'
                      /\ \A n \in 0 .. (Pushed(s)' - 1) : \E m \in accepted' : m.seq = n
                      /\ \A m1, m2 \in accepted' : m1.seq = m2.seq => m1 = m2
           Order == /\ Buffered' \subseteq accepted' /\ evicted' \subseteq accepted'
                    /\ Ordered(b')
                    /\ \A e \in evicted', m \in Buffered' : e.seq < m.seq
<1> SUFFICES Numbers /\ Order
  BY DEF OneSenderInv, BufferOrdered, Ordered
<1>a. UNCHANGED <<bufferVars, accepted>> => Order
  BY <1>1 DEF Buffered, bufferVars
<1>b. UNCHANGED senderVars => Numbers
  BY <1>1 DEF senderVars, Pushed
<1>2. CASE SendLoad(s)
  <2>1. pc[s] = "idle" /\ pc'[s] = "loaded" /\ sending'[s].seq = streamDataSequenceNumber
    BY <1>2 DEF SendLoad, TypeOK
  <2>2. Pushed(s)' = Pushed(s) /\ Pushed(s) = streamDataSequenceNumber
    BY <1>2, <2>1 DEF SendLoad, Pushed
  <2> QED
    BY <1>1, <1>2, <1>a, <2>1, <2>2 DEF SendLoad
<1>3. CASE SendWrite(s) \/ SendFail(s)
  <2>1. pc[s] = "loaded" /\ pc'[s] \in {"idle", "written"} /\ sending' = sending
    BY <1>3 DEF SendWrite, SendFail, TypeOK
  <2>2. Pushed(s)' = Pushed(s)
    BY <1>3, <2>1 DEF SendWrite, SendFail, Pushed
  <2> QED
    BY <1>1, <1>3, <1>a, <2>1, <2>2 DEF SendWrite, SendFail
<1>4. CASE SendAdd(s)
  <2>1. pc[s] = "written" /\ pc'[s] = "added" /\ sending' = sending
    BY <1>4 DEF SendAdd, TypeOK
  <2>2. Pushed(s)' = Pushed(s)
    BY <1>4, <2>1 DEF SendAdd, Pushed, TypeOK
  <2> QED
    BY <1>1, <1>4, <1>a, <2>1, <2>2 DEF SendAdd
<1>5. CASE SendPush(s)
  <2> DEFINE m0 == sending[s]
             item == [msg |-> m0, resendAttempt |-> 0]
  <2>1. /\ m0 \in Message /\ item \in StreamingMessage /\ item.msg = m0
        /\ m0.seq = Pushed(s)
        /\ accepted' = accepted \cup {m0}
        /\ \A m \in accepted : m.seq \in Nat
    BY <1>1, <1>5 DEF TypeOK, StreamingMessage, Message, SendPush
  <2>2. pc[s] = "added" /\ pc'[s] = "idle" /\ Pushed(s)' = Pushed(s) + 1
    BY <1>5 DEF SendPush, TypeOK, Pushed
  <2> HIDE DEF m0
  <2>3. Numbers
    <3>1. \A m \in accepted' : m.seq < Pushed(s)'
      BY <1>1, <2>1, <2>2
    <3>2. ASSUME NEW n \in 0 .. (Pushed(s)' - 1)
          PROVE  \E m \in accepted' : m.seq = n
      <4>1. n = Pushed(s) \/ n \in 0 .. (Pushed(s) - 1)
        BY <1>1, <2>2
      <4> QED
        BY <1>1, <2>1, <4>1
    <3>3. \A m1, m2 \in accepted' : m1.seq = m2.seq => m1 = m2
      BY <1>1, <2>1
    <3> QED
      BY <1>1, <2>2, <3>1, <3>2, <3>3
  <2>4. ForcePushBack(item)
    BY <1>5 DEF SendPush, m0
  <2>5. /\ Buffered' \subseteq Buffered \cup {m0}
        /\ evicted' \subseteq evicted \cup Buffered
    BY <2>1, <2>4, ForcePushBackBuffered DEF TypeOK
  <2>6. Buffered = MessagesOf(b) /\ Buffered' = MessagesOf(b')
    BY DEF Buffered, MessagesOf
  <2>7. b \in Seq(StreamingMessage)
    BY DEF TypeOK
  <2>8. \A m \in MessagesOf(b) : m.seq < m0.seq
    BY <1>1, <2>1, <2>6
  <2>9. CASE IsFull
    <3>1. b # <<>>
      BY <2>9, ConstantsAssumption DEF IsFull
    <3>2. b' = Append(Tail(b), item) /\ evicted' = evicted \cup {Head(b).msg}
      BY <2>4, <2>9 DEF ForcePushBack
    <3>3. /\ Tail(b) \in Seq(StreamingMessage)
          /\ MessagesOf(Tail(b)) \subseteq MessagesOf(b)
          /\ Head(b).msg \in MessagesOf(b)
      BY <2>7, <3>1, MessagesOfTail
    <3>4. /\ Ordered(Tail(b))
          /\ \A m \in MessagesOf(Tail(b)) : Head(b).msg.seq < m.seq
      BY <1>1, <2>7, <3>1, OrderedTail
    <3>5. Ordered(b')
      BY <2>1, <2>8, <3>2, <3>3, <3>4, OrderedAppend
    <3>6. Buffered' = MessagesOf(Tail(b)) \cup {m0}
      BY <2>1, <2>6, <3>2, <3>3, MessagesOfAppend
    <3>7. \A e \in evicted', m \in Buffered' : e.seq < m.seq
      BY <1>1, <2>1, <2>6, <2>8, <3>2, <3>3, <3>4, <3>6
    <3> QED
      BY <1>1, <2>1, <2>3, <2>5, <3>5, <3>7
  <2>10. CASE ~IsFull
    <3>1. b' = Append(b, item) /\ evicted' = evicted
      BY <2>4, <2>10 DEF ForcePushBack
    <3>2. Ordered(b')
      BY <1>1, <2>1, <2>7, <2>8, <3>1, OrderedAppend
    <3>3. \A e \in evicted', m \in Buffered' : e.seq < m.seq
      BY <1>1, <2>1, <2>5, <3>1
    <3> QED
      BY <1>1, <2>1, <2>3, <2>5, <3>1, <3>2, <3>3
  <2> QED
    BY <2>3, <2>9, <2>10
<1>6. ASSUME NEW n \in acks, HandleAcknowledge(n)
      PROVE  Numbers /\ Order
  <2>1. b' = RemoveIf(n) /\ evicted' = evicted /\ accepted' = accepted
    BY <1>6 DEF HandleAcknowledge, ProcessAcknowledgedMessage, senderVars
  <2>2. Buffered' \subseteq Buffered
    BY <2>1, RemoveIfBuffered DEF TypeOK
  <2>3. Ordered(b')
    BY <1>1, <2>1, RemoveIfCases, OrderedRemoveAt DEF TypeOK
  <2>4. Order
    BY <1>1, <2>1, <2>2, <2>3
  <2>5. Numbers
    BY <1>6, <1>b DEF HandleAcknowledge
  <2> QED
    BY <2>4, <2>5
<1>7. CASE UNCHANGED <<senderVars, bufferVars>>
  BY <1>7, <1>a, <1>b DEF senderVars
<1>8. \/ SendLoad(s) \/ SendWrite(s) \/ SendFail(s) \/ SendAdd(s) \/ SendPush(s)
      \/ \E n \in acks : HandleAcknowledge(n)
      \/ UNCHANGED <<senderVars, bufferVars>>
  BY DEF Next, SendInputDataMessage, ResendScheduler, ResendFront, ResendWrite, ResendFail,
         LoseAck, AgentReceive, LoseMessage, vars
<1> QED
  BY <1>2, <1>3, <1>4, <1>5, <1>6, <1>7, <1>8

\* The counted messages are the accepted ones and the one between its counter
\* increment and its push, which has the next number.
LEMMA OneSenderContiguous ==
    ASSUME OneSender, TypeOK, OneSenderInv
    PROVE  SequenceContiguous
<1> PICK s : Senders = {s}
  BY DEF OneSender
<1>1. /\ Pushed(s) \in Nat
      /\ pc[s] # "idle" => sending[s].seq = Pushed(s)
      /\ \A m \in accepted : m.seq < Pushed(s)
      /\ \A n \in 0 .. (Pushed(s) - 1) : \E m \in accepted : m.seq = n
      /\ \A m1, m2 \in accepted : m1.seq = m2.seq => m1 = m2
  BY DEF OneSenderInv
<1>2. \A m \in accepted : m.seq \in Nat
  BY DEF TypeOK, Message
<1>3. Written \subseteq accepted \cup {sending[s]} /\ (pc[s] = "idle" => Written = accepted)
  BY DEF Written, Counted
<1>4. \A m1, m2 \in Written : m1.seq = m2.seq => m1 = m2
  BY <1>1, <1>2, <1>3
<1>5. CASE pc[s] = "added"
  <2>1. Counted = accepted \cup {sending[s]}
    BY <1>5 DEF Counted
  <2>2. streamDataSequenceNumber = Pushed(s) + 1
    BY <1>5 DEF Pushed, TypeOK
  <2>3. ASSUME NEW m \in Counted
        PROVE  m.seq \in 0 .. (streamDataSequenceNumber - 1)
    BY <1>1, <1>2, <1>5, <2>1, <2>2
  <2>4. ASSUME NEW n \in 0 .. (streamDataSequenceNumber - 1)
        PROVE  \E m \in Counted : m.seq = n
    <3>1. n = Pushed(s) \/ n \in 0 .. (Pushed(s) - 1)
      BY <1>1, <2>2
    <3> QED
      BY <1>1, <1>5, <2>1, <3>1
  <2> QED
    BY <1>4, <2>3, <2>4 DEF SequenceContiguous
<1>6. CASE pc[s] # "added"
  <2>1. Counted = accepted /\ streamDataSequenceNumber = Pushed(s)
    BY <1>6 DEF Counted, Pushed
  <2> QED
    BY <1>1, <1>2, <1>4, <2>1 DEF SequenceContiguous
<1> QED
  BY <1>5, <1>6

\* When one goroutine sends, the counted messages carry the numbers from 0 to
\* the counter, each once, whatever fails, is lost, or is acknowledged early
\* (streamDataSequenceNumber in SendInputDataMessage).
THEOREM SequenceContiguousCorrect == OneSender => (Spec => []SequenceContiguous)
<1> SUFFICES ASSUME OneSender PROVE Spec => []SequenceContiguous
  OBVIOUS
<1> DEFINE IInv == TypeOK /\ OneSenderInv
<1>1. Init => IInv
  BY InitTypeOK, InitOneSender
<1>2. IInv /\ [Next]_vars => IInv'
  BY NextTypeOK, NextOneSender
<1>3. IInv => SequenceContiguous
  BY OneSenderContiguous
<1> HIDE DEF IInv
<1> QED
  BY <1>1, <1>2, <1>3, PTL DEF Spec

\* When one goroutine sends, the buffer is in the order of the numbers and what
\* was evicted is older than all that is left: the front is what the agent can
\* be missing first (Front in resendStreamDataMessageScheduler).
THEOREM BufferOrderedCorrect == OneSender => (Spec => []BufferOrdered)
<1> SUFFICES ASSUME OneSender PROVE Spec => []BufferOrdered
  OBVIOUS
<1> DEFINE IInv == TypeOK /\ OneSenderInv
<1>1. Init => IInv
  BY InitTypeOK, InitOneSender
<1>2. IInv /\ [Next]_vars => IInv'
  BY NextTypeOK, NextOneSender
<1>3. IInv => BufferOrdered
  BY DEF OneSenderInv
<1> HIDE DEF IInv
<1> QED
  BY <1>1, <1>2, <1>3, PTL DEF Spec

-----------------------------------------------------------------------------
(* The timed channel is a channel *)

\* Adding the clock adds no behaviour: each timed step is a step of
\* OutgoingStream or leaves its variables alone.
LEMMA TimedStep == [TimedNext]_timedVars => [Next]_vars
<1> SUFFICES ASSUME [TimedNext]_timedVars PROVE [Next]_vars
  OBVIOUS
<1>1. CASE \E n \in acks : TimedAcknowledge(n)
  BY <1>1 DEF TimedAcknowledge, Next
<1>2. CASE CapTimeout
  BY <1>2 DEF CapTimeout
<1>3. CASE TimedResendFront
  BY <1>3 DEF TimedResendFront, Next, ResendScheduler
<1>4. CASE Tick
  BY <1>4 DEF Tick
<1>5. CASE Untimed
  BY <1>5 DEF Untimed, Next, ResendScheduler
<1>6. CASE UNCHANGED timedVars
  BY <1>6 DEF timedVars
<1> QED
  BY <1>1, <1>2, <1>3, <1>4, <1>5, <1>6 DEF TimedNext

\* OutgoingTiming implements OutgoingStream, so that all that is proved of the
\* untimed channel holds of the timed one.
THEOREM TimedImplementsUntimed == TimedSpec => Spec
<1>1. TimedInit => Init
  BY DEF TimedInit
<1> QED
  BY <1>1, TimedStep, PTL DEF TimedSpec, Spec

-----------------------------------------------------------------------------
(* Every message that matters has an age *)

\* The UUIDs that have been drawn are within the bound.
IdsInv ==
    /\ created \in 0 .. MaxMessages
    /\ \A s \in Senders : pc[s] # "idle" => sending[s].id \in 1 .. MaxMessages
    /\ \A m \in accepted : m.id \in 1 .. MaxMessages

\* Initially no UUID has been drawn.
LEMMA InitIds == Init => IdsInv
  BY ConstantsAssumption DEF Init, IdsInv

\* Only SendLoad draws a UUID, below the bound.
LEMMA NextIds == TypeOK /\ IdsInv /\ [Next]_vars => IdsInv'
<1> SUFFICES ASSUME TypeOK, IdsInv, [Next]_vars PROVE IdsInv'
  OBVIOUS
<1> USE ConstantsAssumption
<1>1. ASSUME NEW s \in Senders, SendLoad(s) PROVE IdsInv'
  BY <1>1 DEF TypeOK, IdsInv, SendLoad
<1>2. ASSUME NEW s \in Senders, SendWrite(s) PROVE IdsInv'
  BY <1>2 DEF TypeOK, IdsInv, SendWrite
<1>3. ASSUME NEW s \in Senders, SendFail(s) PROVE IdsInv'
  BY <1>3 DEF TypeOK, IdsInv, SendFail
<1>4. ASSUME NEW s \in Senders, SendAdd(s) PROVE IdsInv'
  BY <1>4 DEF TypeOK, IdsInv, SendAdd
<1>5. ASSUME NEW s \in Senders, SendPush(s) PROVE IdsInv'
  BY <1>5 DEF TypeOK, IdsInv, SendPush
<1>6. CASE UNCHANGED senderVars
  BY <1>6 DEF IdsInv, senderVars
<1> QED
  BY <1>1, <1>2, <1>3, <1>4, <1>5, <1>6
     DEF Next, SendInputDataMessage, ResendScheduler, ResendFront, ResendWrite, ResendFail,
         HandleAcknowledge, LoseAck, AgentReceive, LoseMessage, vars

\* A buffered message has an age.
LEMMA BufferedIds ==
    ASSUME TypeOK, OnlyWrittenOnWire, IdsInv, NEW i \in DOMAIN outgoingMessageBuffer
    PROVE  outgoingMessageBuffer[i].msg.id \in 1 .. MaxMessages
<1>1. outgoingMessageBuffer[i].msg \in Written
  BY DEF OnlyWrittenOnWire, Buffered
<1> QED
  BY <1>1 DEF IdsInv, Written, Counted

-----------------------------------------------------------------------------
(* The estimates *)

\* Multiplication by a positive number keeps the order.
LEMMA MultOrder ==
    ASSUME NEW a \in Nat, NEW b \in Nat, NEW d \in Nat, a * d > b * d
    PROVE  a > b
<1> SUFFICES ASSUME a <= b PROVE FALSE
  OBVIOUS
<1>1. PICK k \in Nat : b = a + k
  <2>1. b - a \in Nat /\ b = a + (b - a)
    OBVIOUS
  <2> QED
    BY <2>1
<1>2. b * d = a * d + k * d
  BY <1>1
<1>3. k * d >= 0 /\ k * d \in Nat /\ a * d \in Nat
  OBVIOUS
<1> QED
  BY <1>2, <1>3

\* The heart of the matter: seven eighths of the old round trip r, one eighth of
\* the new one n and four times the variation v, of which a quarter is the
\* deviation of the new from the old, are never less than the new one.
LEMMA EstimateCovers ==
    ASSUME NEW r \in Nat, NEW v \in Nat, NEW n \in Nat, NEW g \in Nat
    PROVE  /\ 7 * r + n \in Nat
           /\ 6 * v + 2 * Abs(r - n) \in Nat
           /\ 7 * r + n + Larger(g, 4 * (6 * v + 2 * Abs(r - n))) \in Nat
           /\ 7 * r + n + Larger(g, 4 * (6 * v + 2 * Abs(r - n))) >= 8 * n
<1>1. PICK a \in Nat : a = Abs(r - n) /\ a >= n - r
  <2>1. Abs(r - n) \in Nat /\ Abs(r - n) >= n - r
    BY DEF Abs
  <2> QED
    BY <2>1
<1>2. PICK l \in Nat : l = Larger(g, 4 * (6 * v + 2 * a)) /\ l >= 24 * v + 8 * a
  BY DEF Larger
<1>3. 7 * r + n + l >= 8 * n
  BY <1>1, <1>2
<1> QED
  BY <1>1, <1>2, <1>3

\* The timeout covers the round trip measured last, or is at least the maximum.
\* The three estimates are natural numerators over one denominator.
TimingInv ==
    /\ age \in [1 .. MaxMessages -> Nat]
    /\ denominator \in Nat \ {0}
    /\ roundTripTime \in Nat
    /\ roundTripTimeVariation \in Nat
    /\ retransmissionTimeout \in Nat
    /\ sample \in Nat
    /\ \/ retransmissionTimeout >= sample * denominator
       \/ retransmissionTimeout >= MaxTransmissionTimeout * denominator

\* The default timeout covers the round trip of nothing.
LEMMA InitTiming == TimedInit => TimingInv
  BY TimingAssumption DEF TimedInit, TimingInv

\* After a sample the estimates are natural numbers and the timeout covers it.
LEMMA TimeoutCovers ==
    ASSUME TimingInv, NEW new \in Nat, CalculateRetransmissionTimeout(new)
    PROVE  /\ denominator' \in Nat \ {0}
           /\ roundTripTime' \in Nat
           /\ roundTripTimeVariation' \in Nat
           /\ retransmissionTimeout' \in Nat
           /\ retransmissionTimeout' >= new * denominator'
<1>1. /\ denominator \in Nat \ {0}
      /\ roundTripTime \in Nat
      /\ roundTripTimeVariation \in Nat
  BY DEF TimingInv
<1>2. PICK n \in Nat : n = new * denominator
  BY <1>1
<1>3. PICK d \in Nat \ {0} : d = 8 * denominator
  BY <1>1
<1>4. PICK g \in Nat : g = ClockGranularity * d
  BY <1>3, TimingAssumption
<1>5. new * d = 8 * n
  BY <1>1, <1>2, <1>3
<1>6. /\ denominator' = d
      /\ roundTripTimeVariation' = 6 * roundTripTimeVariation + 2 * Abs(roundTripTime - n)
      /\ roundTripTime' = 7 * roundTripTime + n
      /\ retransmissionTimeout' = roundTripTime' + Larger(g, 4 * roundTripTimeVariation')
  BY <1>2, <1>3, <1>4 DEF CalculateRetransmissionTimeout
<1> QED
  BY <1>1, <1>5, <1>6, EstimateCovers

\* Acknowledgements, capping and time keep the timeout above the last round trip.
LEMMA NextTiming ==
    TypeOK /\ OnlyWrittenOnWire /\ IdsInv /\ TimingInv /\ [TimedNext]_timedVars => TimingInv'
<1> SUFFICES ASSUME TypeOK, OnlyWrittenOnWire, IdsInv, TimingInv, [TimedNext]_timedVars
             PROVE  TimingInv'
  OBVIOUS
<1>1. ASSUME NEW n \in acks, TimedAcknowledge(n) PROVE TimingInv'
  <2>1. CASE Acknowledged(n) = {}
    BY <1>1, <2>1 DEF TimedAcknowledge, TimingInv, timingVars, estimateVars
  <2>2. CASE Acknowledged(n) # {}
    <3> DEFINE k == Min(Acknowledged(n))
               id == outgoingMessageBuffer[k].msg.id
    <3>1. Acknowledged(n) \in SUBSET Nat
      BY LenProperties DEF TypeOK, Acknowledged
    <3>2. k \in DOMAIN outgoingMessageBuffer
      BY <2>2, <3>1, MinOfNaturals DEF Acknowledged
    <3>3. id \in 1 .. MaxMessages
      BY <3>2, BufferedIds
    <3>4. age[id] \in Nat
      BY <3>3 DEF TimingInv
    <3>5. /\ CalculateRetransmissionTimeout(age[id])
          /\ sample' = age[id]
          /\ age' = [age EXCEPT ![id] = 0]
      BY <1>1, <2>2 DEF TimedAcknowledge
    <3>6. age' \in [1 .. MaxMessages -> Nat]
      BY <3>3, <3>5 DEF TimingInv
    <3> HIDE DEF id
    <3> QED
      BY <3>4, <3>5, <3>6, TimeoutCovers DEF TimingInv
  <2> QED
    BY <2>1, <2>2
<1>2. CASE CapTimeout
  <2>1. MaxTransmissionTimeout * denominator \in Nat
    BY TimingAssumption DEF TimingInv
  <2> QED
    BY <1>2, <2>1 DEF CapTimeout, TimingInv
<1>3. CASE TimedResendFront
  BY <1>3 DEF TimedResendFront, TimingInv, timingVars, estimateVars
<1>4. CASE Tick
  BY <1>4 DEF Tick, TimingInv, timingVars, estimateVars
<1>5. CASE Untimed
  BY <1>5 DEF Untimed, TimingInv, timingVars, estimateVars
<1>6. CASE UNCHANGED timedVars
  BY <1>6 DEF timedVars, TimingInv, timingVars, estimateVars
<1> QED
  BY <1>1, <1>2, <1>3, <1>4, <1>5, <1>6 DEF TimedNext

\* A step that resends the front finds its age above the timeout.
LEMMA StepIsLate ==
    TypeOK /\ OnlyWrittenOnWire /\ IdsInv /\ TimingInv /\ [TimedNext]_timedVars
        => [ResendIsLate]_timedVars
<1> SUFFICES ASSUME TypeOK, OnlyWrittenOnWire, IdsInv, TimingInv, TimedNext,
                    scheduler = "sleeping", scheduler' # "sleeping"
             PROVE  ResendIsLate
  BY DEF ResendIsLate
<1>1. TimedResendFront
  BY DEF TimedNext, TimedAcknowledge, HandleAcknowledge, CapTimeout, Tick, Untimed,
         SendInputDataMessage, SendLoad, SendWrite, SendFail, SendAdd, SendPush, ResendWrite,
         ResendFail, LoseAck, AgentReceive, LoseMessage, vars, schedulerVars
<1> DEFINE waited == age[Head(outgoingMessageBuffer).msg.id]
<1>2. waited * denominator > retransmissionTimeout
  BY <1>1 DEF TimedResendFront
<1>3. waited \in Nat
  <2>1. /\ Head(outgoingMessageBuffer) = outgoingMessageBuffer[1]
        /\ 1 \in DOMAIN outgoingMessageBuffer
    BY <1>1, HeadTailProperties, LenProperties, EmptySeq DEF TimedResendFront, TypeOK
  <2> QED
    BY <2>1, BufferedIds DEF TimingInv
<1> HIDE DEF waited
<1>4. /\ sample \in Nat /\ denominator \in Nat /\ MaxTransmissionTimeout \in Nat
      /\ retransmissionTimeout \in Nat
  BY TimingAssumption DEF TimingInv
<1>5. /\ sample * denominator \in Nat /\ MaxTransmissionTimeout * denominator \in Nat
      /\ waited * denominator \in Nat
  BY <1>3, <1>4
<1>6. \/ waited * denominator > sample * denominator
      \/ waited * denominator > MaxTransmissionTimeout * denominator
  BY <1>2, <1>4, <1>5 DEF TimingInv
<1>7. waited > sample \/ waited > MaxTransmissionTimeout
  BY <1>3, <1>4, <1>6, MultOrder
<1> QED
  BY <1>7 DEF ResendIsLate, waited

\* Whatever the round trips are and whenever the scheduler reads the timeout,
\* it resends nothing that has been under way for no longer than the last round
\* trip measured or than MaxTransmissionTimeout.
THEOREM NoEarlyResendCorrect == TimedSpec => NoEarlyResend
<1> DEFINE IInv == TypeOK /\ OnlyWrittenOnWire /\ IdsInv /\ TimingInv
<1>1. TimedInit => IInv
  BY InitTypeOK, InitOnlyWritten, InitIds, InitTiming DEF TimedInit
<1>2. IInv /\ [TimedNext]_timedVars => IInv'
  BY TimedStep, NextTypeOK, NextOnlyWritten, NextIds, NextTiming
<1>3. IInv /\ [TimedNext]_timedVars => [ResendIsLate]_timedVars
  BY StepIsLate
<1> QED
  BY <1>1, <1>2, <1>3, PTL DEF TimedSpec, NoEarlyResend
=============================================================================
