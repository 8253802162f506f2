--------------------------- MODULE OutgoingStream ---------------------------
(***************************************************************************)
(* The client-to-agent half of the data channel                            *)
(* (datachannel/datachannel.go, datachannel/listmessagebuffer.go).         *)
(*                                                                         *)
(* SendInputDataMessage is called by several goroutines (keyboard, resize, *)
(* signals, port readers, and the listener itself while it answers the     *)
(* handshake).  It takes no lock around its four visible steps:            *)
(*                                                                         *)
(*   load streamDataSequenceNumber; write to the websocket;                *)
(*   add 1 to streamDataSequenceNumber; push on outgoingMessageBuffer      *)
(*                                                                         *)
(* so each of them is an action of its own here.  The listener processes   *)
(* acknowledgements, and the resend scheduler works on a copy of the       *)
(* buffer's front.  The network and the agent are the environment: a       *)
(* message or an acknowledgement can be delayed, reordered or lost.        *)
(* Time is abstracted: a tick of the scheduler that finds the front not    *)
(* yet due is a stuttering step.                                           *)
(***************************************************************************)
EXTENDS Naturals, Sequences, SequencesExt

CONSTANTS
    Senders,          \* the goroutines that call SendInputDataMessage
    Listener,         \* the goroutine that runs DataChannel.listen
    Capacity,         \* config.OutgoingMessageBufferCapacity
    ResendMaxAttempt, \* config.ResendMaxAttempt
    MaxMessages       \* bound: calls of SendInputDataMessage that get as far as Load

ASSUME ConstantsAssumption ==
    /\ Capacity \in Nat \ {0}
    /\ ResendMaxAttempt \in Nat
    /\ MaxMessages \in Nat

VARIABLES
    streamDataSequenceNumber,  \* the atomic counter of the DataChannel
    outgoingMessageBuffer,     \* the ListMessageBuffer, oldest first
    pc,                        \* where each sender is in SendInputDataMessage
    sending,                   \* the clientMessage a sender is working on
    created,                   \* how many message UUIDs have been drawn
    scheduler,                 \* where the resend scheduler is in its loop
    streamMessage,             \* the scheduler's copy of the buffer's front
    inFlight,                  \* messages on the wire to the agent
    acks,                      \* acknowledged sequence numbers on their way back
    received,                  \* messages the agent has received
    accepted,                  \* history: messages whose send returned nil
    evicted                    \* history: messages ForcePushBack threw out

senderVars == <<streamDataSequenceNumber, pc, sending, created, accepted>>
bufferVars == <<outgoingMessageBuffer, evicted>>
schedulerVars == <<scheduler, streamMessage>>
agentVars == <<inFlight, acks, received>>
vars == <<senderVars, bufferVars, schedulerVars, agentVars>>

\* What identifies a clientMessage: its UUID and its sequence number.
Message == [id : Nat, seq : Nat]

\* A StreamingMessage: Content is the message; LastSentTime is abstracted.
StreamingMessage == [msg : Message, resendAttempt : Nat]

NoMessage == [id |-> 0, seq |-> 0]

Buffered == {outgoingMessageBuffer[i].msg : i \in DOMAIN outgoingMessageBuffer}

\* Messages whose write succeeded and whose counter increment is done.
Counted == accepted \cup {sending[s] : s \in {t \in Senders : pc[t] = "added"}}

\* Messages handed to the websocket by SendInputDataMessage.
Written == Counted \cup {sending[s] : s \in {t \in Senders : pc[t] = "written"}}

-----------------------------------------------------------------------------
(* ListMessageBuffer *)

IsFull == Len(outgoingMessageBuffer) = Capacity

\* Mutant of ForcePushBack: the item goes to the wrong end of the list.
ForcePushBack_Front(item) ==
    /\ outgoingMessageBuffer' =
           <<item>> \o (IF IsFull THEN Tail(outgoingMessageBuffer)
                                  ELSE outgoingMessageBuffer)
    /\ evicted' = IF IsFull THEN evicted \cup {Head(outgoingMessageBuffer).msg}
                            ELSE evicted

\* ForcePushBack: a full buffer first loses its front.
ForcePushBack(item) ==
    /\ outgoingMessageBuffer' =
           Append(IF IsFull THEN Tail(outgoingMessageBuffer)
                            ELSE outgoingMessageBuffer, item)
    /\ evicted' = IF IsFull THEN evicted \cup {Head(outgoingMessageBuffer).msg}
                            ELSE evicted

\* Mutant of RemoveIf: acknowledgements taken as cumulative.
RemoveIf_Cumulative(n) ==
    SelectSeq(outgoingMessageBuffer, LAMBDA item : item.msg.seq > n)

\* RemoveIf with the predicate of processAcknowledgedMessage: at most one
\* element goes, the first that carries the sequence number.
RemoveIf(n) ==
    RemoveFirstMatch(outgoingMessageBuffer, LAMBDA item : item.msg.seq = n)

-----------------------------------------------------------------------------
Init ==
    /\ streamDataSequenceNumber = 0
    /\ outgoingMessageBuffer = <<>>
    /\ pc = [s \in Senders |-> "idle"]
    /\ sending = [s \in Senders |-> NoMessage]
    /\ created = 0
    /\ scheduler = "sleeping"
    /\ streamMessage = [msg |-> NoMessage, resendAttempt |-> 0]
    /\ inFlight = {}
    /\ acks = {}
    /\ received = {}
    /\ accepted = {}
    /\ evicted = {}

(* SendInputDataMessage *)

\* Mutant of SendLoad: the message is buffered before it is written.
SendLoad_PushFirst(s) ==
    /\ pc[s] = "idle"
    /\ created < MaxMessages
    /\ created' = created + 1
    /\ sending' = [sending EXCEPT ![s] = [id |-> created + 1,
                                          seq |-> streamDataSequenceNumber]]
    /\ pc' = [pc EXCEPT ![s] = "loaded"]
    /\ ForcePushBack([msg |-> sending'[s], resendAttempt |-> 0])
    /\ UNCHANGED <<streamDataSequenceNumber, accepted, schedulerVars, agentVars>>

\* Draw the UUID, encrypt and serialise with the sequence number just loaded.
SendLoad(s) ==
    /\ pc[s] = "idle"
    /\ created < MaxMessages
    /\ created' = created + 1
    /\ sending' = [sending EXCEPT ![s] = [id |-> created + 1,
                                          seq |-> streamDataSequenceNumber]]
    /\ pc' = [pc EXCEPT ![s] = "loaded"]
    /\ UNCHANGED <<streamDataSequenceNumber, accepted, bufferVars, schedulerVars, agentVars>>

\* The websocket write succeeds.
SendWrite(s) ==
    /\ pc[s] = "loaded"
    /\ inFlight' = inFlight \cup {sending[s]}
    /\ pc' = [pc EXCEPT ![s] = "written"]
    /\ UNCHANGED <<streamDataSequenceNumber, sending, created, accepted, acks,
                   received, bufferVars, schedulerVars>>

\* Mutant of SendFail: the counter moves although the write failed.
SendFail_Counts(s) ==
    /\ pc[s] = "loaded"
    /\ pc' = [pc EXCEPT ![s] = "idle"]
    /\ streamDataSequenceNumber' = streamDataSequenceNumber + 1
    /\ UNCHANGED <<sending, created, accepted, bufferVars, schedulerVars, agentVars>>

\* Encrypting, serialising or the write fails: return without counting or
\* buffering the message.
SendFail(s) ==
    /\ pc[s] = "loaded"
    /\ pc' = [pc EXCEPT ![s] = "idle"]
    /\ UNCHANGED <<streamDataSequenceNumber, sending, created, accepted,
                   bufferVars, schedulerVars, agentVars>>

SendAdd(s) ==
    /\ pc[s] = "written"
    /\ streamDataSequenceNumber' = streamDataSequenceNumber + 1
    /\ pc' = [pc EXCEPT ![s] = "added"]
    /\ UNCHANGED <<sending, created, accepted, bufferVars, schedulerVars, agentVars>>

SendPush(s) ==
    /\ pc[s] = "added"
    /\ ForcePushBack([msg |-> sending[s], resendAttempt |-> 0])
    /\ accepted' = accepted \cup {sending[s]}
    /\ pc' = [pc EXCEPT ![s] = "idle"]
    /\ UNCHANGED <<streamDataSequenceNumber, sending, created, schedulerVars, agentVars>>

(* resendStreamDataMessageScheduler *)

\* Front returns a copy, and the attempt is counted on that copy only.
ResendFront ==
    /\ scheduler = "sleeping"
    /\ outgoingMessageBuffer # <<>>
    /\ LET front == Head(outgoingMessageBuffer) IN
           IF front.resendAttempt >= ResendMaxAttempt
           THEN /\ scheduler' = "timedOut"
                /\ UNCHANGED streamMessage
           ELSE /\ scheduler' = "resending"
                /\ streamMessage' = [front EXCEPT !.resendAttempt = @ + 1]
    /\ UNCHANGED <<senderVars, bufferVars, agentVars>>

ResendWrite ==
    /\ scheduler = "resending"
    /\ inFlight' = inFlight \cup {streamMessage.msg}
    /\ scheduler' = "sleeping"
    /\ UNCHANGED <<senderVars, bufferVars, streamMessage, acks, received>>

\* Mutant of ResendFail: a failed write ends the scheduler.
ResendFail_Returns ==
    /\ scheduler = "resending"
    /\ scheduler' = "timedOut"
    /\ UNCHANGED <<senderVars, bufferVars, streamMessage, agentVars>>

\* A failed write is logged and the scheduler goes on.
ResendFail ==
    /\ scheduler = "resending"
    /\ scheduler' = "sleeping"
    /\ UNCHANGED <<senderVars, bufferVars, streamMessage, agentVars>>

(* listener: handleAcknowledgeMessage *)

\* The listener reads the socket only between two messages, so not while it
\* is itself inside SendInputDataMessage.
ListenerReading == Listener \in Senders => pc[Listener] = "idle"

ProcessAcknowledgedMessage(n) == outgoingMessageBuffer' = RemoveIf(n)

HandleAcknowledge(n) ==
    /\ ListenerReading
    /\ n \in acks
    /\ acks' = acks \ {n}
    /\ ProcessAcknowledgedMessage(n)
    /\ UNCHANGED <<senderVars, schedulerVars, inFlight, received, evicted>>

(* environment: the network and the agent *)

\* The agent receives a copy and acknowledges its sequence number.
AgentReceive(m) ==
    /\ m \in inFlight
    /\ inFlight' = inFlight \ {m}
    /\ received' = received \cup {m}
    /\ acks' = acks \cup {m.seq}
    /\ UNCHANGED <<senderVars, bufferVars, schedulerVars>>

LoseMessage(m) ==
    /\ m \in inFlight
    /\ inFlight' = inFlight \ {m}
    /\ UNCHANGED <<senderVars, bufferVars, schedulerVars, acks, received>>

LoseAck(n) ==
    /\ n \in acks
    /\ acks' = acks \ {n}
    /\ UNCHANGED <<senderVars, bufferVars, schedulerVars, inFlight, received>>

-----------------------------------------------------------------------------
SendInputDataMessage(s) ==
    SendLoad(s) \/ SendWrite(s) \/ SendFail(s) \/ SendAdd(s) \/ SendPush(s)

ResendScheduler == ResendFront \/ ResendWrite \/ ResendFail

Next ==
    \/ \E s \in Senders : SendInputDataMessage(s)
    \/ ResendScheduler
    \/ \E n \in acks : HandleAcknowledge(n) \/ LoseAck(n)
    \/ \E m \in inFlight : AgentReceive(m) \/ LoseMessage(m)

Spec == Init /\ [][Next]_vars

(***************************************************************************)
(* Fairness.  LocalFairness is what the code gives: a goroutine inside     *)
(* SendInputDataMessage goes on, and the scheduler keeps ticking (its loop *)
(* has no exit but the timeout).  NetworkFairness is an assumption on the  *)
(* environment: writes, deliveries and acknowledgements that are attempted *)
(* again and again succeed again and again.                                *)
(***************************************************************************)
LocalFairness ==
    /\ \A s \in Senders : WF_vars(SendWrite(s) \/ SendFail(s) \/ SendAdd(s) \/ SendPush(s))
    /\ WF_vars(ResendScheduler)

NetworkFairness ==
    /\ SF_vars(ResendWrite)
    /\ \A id \in 1..MaxMessages : SF_vars(\E m \in inFlight : m.id = id /\ AgentReceive(m))
    /\ \A n \in 0..MaxMessages : SF_vars(HandleAcknowledge(n))

LocalFairSpec == Spec /\ LocalFairness

FairSpec == LocalFairSpec /\ NetworkFairness

-----------------------------------------------------------------------------
(* Properties *)

\* Every variable has its type; in particular the buffer never exceeds the
\* capacity that ForcePushBack enforces.
TypeOK ==
    /\ streamDataSequenceNumber \in Nat
    /\ outgoingMessageBuffer \in Seq(StreamingMessage)
    /\ Len(outgoingMessageBuffer) <= Capacity
    /\ pc \in [Senders -> {"idle", "loaded", "written", "added"}]
    /\ sending \in [Senders -> Message]
    /\ created \in Nat
    /\ scheduler \in {"sleeping", "resending", "timedOut"}
    /\ streamMessage \in StreamingMessage
    /\ inFlight \subseteq Message
    /\ acks \subseteq Nat
    /\ received \subseteq Message
    /\ accepted \subseteq Message
    /\ evicted \subseteq Message

\* A message whose send returned nil is still buffered for resending, or was
\* evicted by a full buffer, or the agent has received a message with its
\* sequence number: acknowledgements, however late, repeated or early, never
\* drop anything else (processAcknowledgedMessage, RemoveIf, ForcePushBack).
NoSilentLoss ==
    \A m \in accepted : \/ m \in Buffered
                        \/ m \in evicted
                        \/ \E r \in received : r.seq = m.seq

\* Whatever the scheduler resends, and whatever the agent sees, went through
\* SendInputDataMessage first; an acknowledgement answers such a message.
OnlyWrittenOnWire ==
    /\ inFlight \cup received \cup Buffered \cup evicted \subseteq Written
    /\ scheduler = "resending" => streamMessage.msg \in Written
    /\ \A n \in acks : \E r \in received : r.seq = n

\* With one sending goroutine the counted messages carry exactly the sequence
\* numbers 0 .. counter-1, each once, also after failed writes: the agent never
\* waits for a number that nobody sends (streamDataSequenceNumber).
SequenceContiguous ==
    /\ {m.seq : m \in Counted} = 0 .. (streamDataSequenceNumber - 1)
    /\ \A m1, m2 \in Written : m1.seq = m2.seq => m1 = m2

\* With one sending goroutine the buffer is in sequence order and what was
\* evicted is older than all that is left, so the front, the only element the
\* scheduler resends, is the first number the agent can be missing.
BufferOrdered ==
    /\ \A i, j \in DOMAIN outgoingMessageBuffer :
           i < j => outgoingMessageBuffer[i].msg.seq < outgoingMessageBuffer[j].msg.seq
    /\ \A e \in evicted, m \in Buffered : e.seq < m.seq

\* When the network and the agent keep answering, every buffered message is
\* eventually acknowledged and leaves the buffer, although only the front is
\* ever resent and an acknowledgement may arrive before its message is pushed.
BufferDrains ==
    \A id \in 1..MaxMessages :
        (\E m \in Buffered : m.id = id) ~> ~(\E m \in Buffered : m.id = id)

\* config.ResendMaxAttempt "defines the maximum number of message resend
\* attempts": a front that stays unacknowledged makes the scheduler time out.
ResendGivesUp ==
    \A id \in 1..MaxMessages :
        (outgoingMessageBuffer # <<>> /\ Head(outgoingMessageBuffer).msg.id = id)
            ~> \/ scheduler = "timedOut"
               \/ ~(\E m \in Buffered : m.id = id)
=============================================================================
