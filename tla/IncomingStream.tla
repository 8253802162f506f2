--------------------------- MODULE IncomingStream ---------------------------
(***************************************************************************)
(* The agent-to-client half of the data channel                            *)
(* (datachannel/datachannel.go, datachannel/mapmessagebuffer.go): the      *)
(* listener goroutine receives output stream messages, answers the         *)
(* handshake, reorders what arrives early and hands session data to the    *)
(* registered handlers, while the main goroutine waits for the session     *)
(* type in Open and then registers the session's handler.                  *)
(*                                                                         *)
(* The agent and the network are the environment: the agent's messages are *)
(* numbered from 0, and a message once produced can arrive at any time, in *)
(* any order and any number of times.  A message below the expected number,*)
(* or above it when incomingMessageBuffer is full, changes nothing and is  *)
(* a stuttering step.                                                      *)
(***************************************************************************)
EXTENDS Naturals, FiniteSets, Sequences, SequencesExt

CONSTANTS
    Streams,   \* the message sequences an agent may send
    Capacity   \* config.IncomingMessageBufferCapacity

\* Actions a HandshakeRequest can ask for: a session type the client knows, one
\* it does not, KMS encryption, or an action type it does not know.
ActionTypes == {"Shell", "Port", "UnknownType", "KMSEncryption", "UnknownAction"}

PayloadTypes == {"HandshakeRequest", "EncChallengeRequest", "HandshakeComplete",
                 "Output", "StdErr", "ExitCode"}

AgentMessage == [payloadType : PayloadTypes, actions : Seq(ActionTypes)]

\* Payload types the agent encrypts and the client decrypts.
DataTypes == {"Output", "StdErr", "ExitCode"}

\* Payload types whose answer the agent waits for.
AnsweredTypes == {"HandshakeRequest", "EncChallengeRequest"}

ASSUME ConstantsAssumption ==
    /\ Streams \subseteq Seq(AgentMessage)
    /\ Capacity \in Nat

\* The agent's protocol: the handshake comes first, and each part of it after
\* the answer to the one before.  The client relies on it, since it looks for
\* handshake messages only among those that arrive in order.
ASSUME HandshakeFirst ==
    \A s \in Streams : \A m, n \in DOMAIN s :
        (m < n /\ s[n].payloadType \notin DataTypes) => s[m].payloadType \in AnsweredTypes

VARIABLES
    stream,                      \* what this agent has to say; never changes
    produced,                    \* for each message sent so far: is it encrypted
    answered,                    \* handshake messages the agent has a good answer to
    acked,                       \* sequence numbers the client has acknowledged
    listener,                    \* where the listener goroutine is
    expectedSequenceNumber,
    incomingMessageBuffer,       \* keys of the map; the content is the raw message
    sessionType,
    encryptionEnabled,
    isSessionTypeSet,            \* the Go channel of capacity 1
    handlers,                    \* outputStreamHandlers; "first" precedes "session"
    isSessionSpecificHandlerSet,
    main,                        \* where the main goroutine is
    appendFrom,                  \* the outputStreamHandlers that append has read
    handed                       \* history: what reached the session, in order

agentVars == <<stream, produced, answered>>
handlerVars == <<sessionType, isSessionTypeSet, handlers, handed>>
mainVars == <<isSessionSpecificHandlerSet, main, appendFrom>>
vars == <<agentVars, acked, listener, expectedSequenceNumber, incomingMessageBuffer,
          encryptionEnabled, handlerVars, mainVars>>

Message(n) == stream[n + 1]
Payload(n) == Message(n).payloadType

Success == 1
Failed == 2
\* The zero value of ActionStatus.
Unset == 0

-----------------------------------------------------------------------------
(* MapMessageBuffer *)

IsFull == Cardinality(incomingMessageBuffer) = Capacity

-----------------------------------------------------------------------------
(* Handlers *)

\* IsStreamNotSet of the session: a shell can always print, a port session
\* needs its local connection.
StreamSet == sessionType = "Shell" \/ main = "streaming"

\* A session type without its specific handler suppresses all handlers.
HandlersRun == sessionType = "" \/ isSessionSpecificHandlerSet

FirstRuns == HandlersRun /\ "first" \in handlers

SessionRuns == HandlersRun /\ "session" \in handlers

\* firstMessageHandler takes the session to be a shell if nobody said otherwise.
FirstSetsType(n) == FirstRuns /\ sessionType = "" /\ Payload(n) = "Output"

\* What processOutputMessageWithHandlers returns: the verdict of the last
\* handler, FALSE when there is none.
IsHandlerReady == HandlersRun /\ handlers # {} /\ ("session" \in handlers => StreamSet)

\* The message reaches the user: through displayMessages or the session handler.
IsHanded(n) == FirstSetsType(n) \/ (SessionRuns /\ StreamSet)

\* What the decryption step leaves of message n.
Plain(n) == encryptionEnabled \/ ~produced[n + 1]

\* Decrypt rejects a payload that was never encrypted.
DecryptFails(n) == encryptionEnabled /\ Payload(n) \in DataTypes /\ ~produced[n + 1]

ProcessOutputMessageWithHandlers(n) ==
    /\ FirstSetsType(n) => isSessionTypeSet = <<>>
    /\ handlers' = IF FirstRuns THEN handlers \ {"first"} ELSE handlers
    /\ sessionType' = IF FirstSetsType(n) THEN "Shell" ELSE sessionType
    /\ isSessionTypeSet' = IF FirstSetsType(n) THEN Append(isSessionTypeSet, TRUE)
                                               ELSE isSessionTypeSet
    /\ handed' = IF IsHanded(n) THEN Append(handed, [seq |-> n, plain |-> Plain(n)])
                                ELSE handed

\* WriteStream of a port session can fail.
HandlerCanFail == SessionRuns /\ sessionType = "Port" /\ StreamSet

-----------------------------------------------------------------------------
Init ==
    /\ stream \in Streams
    /\ produced = <<>>
    /\ answered = {}
    /\ acked = {}
    /\ listener = "reading"
    /\ expectedSequenceNumber = 0
    /\ incomingMessageBuffer = {}
    /\ sessionType = ""
    /\ encryptionEnabled = FALSE
    /\ isSessionTypeSet = <<>>
    /\ handlers = {"first"}
    /\ isSessionSpecificHandlerSet = FALSE
    /\ main = "opening"
    /\ appendFrom = {}
    /\ handed = <<>>

(* Agent *)

\* The agent waits for a good answer to a handshake message before it goes on,
\* and encrypts data once the KMS action was answered with success.
AgentProduce ==
    LET n == Len(produced) IN
    /\ n < Len(stream)
    /\ (n > 0 /\ Payload(n - 1) \in AnsweredTypes)
           => n - 1 \in answered
    /\ produced' = Append(produced,
           /\ Payload(n) \in DataTypes
           /\ \E r \in answered : "KMSEncryption" \in ToSet(Message(r).actions))
    /\ UNCHANGED <<stream, answered, acked, listener, expectedSequenceNumber,
                   incomingMessageBuffer, encryptionEnabled, handlerVars, mainVars>>

(* Listener *)

Arrives(n) == listener = "reading" /\ n < Len(produced)

\* The expected message was processed: count it and look into the buffer.
Processed ==
    /\ expectedSequenceNumber' = expectedSequenceNumber + 1
    /\ listener' = "draining"

\* listen closes the channel and returns on any error.
CloseOnError ==
    /\ listener' = "closed"
    /\ UNCHANGED <<expectedSequenceNumber, incomingMessageBuffer>>

\* The session type a HandshakeRequest leaves: the last known one wins.
RequestedType(actions) ==
    LET known == {i \in DOMAIN actions : actions[i] \in {"Shell", "Port"}}
    IN IF known = {} THEN sessionType ELSE actions[Max(known)]

\* ActionStatus reported for an action; an unknown action gets its status
\* stored in ActionResult, so that ActionStatus keeps its zero value.
StatusOf(action, kmsOk) ==
    CASE action \in {"Shell", "Port"} -> Success
      [] action = "UnknownType" -> Failed
      [] action = "KMSEncryption" -> IF kmsOk THEN Success ELSE Failed
      [] action = "UnknownAction" -> Unset

\* ProcessKMSEncryptionHandshakeAction: the encrypter is built with a KMS call.
KMSEnabled(actions, kmsOk) == kmsOk /\ "KMSEncryption" \in ToSet(actions)

ReceiveHandshakeRequest(n, kmsOk, sendOk) ==
    LET actions == Message(n).actions
        response == [i \in DOMAIN actions |-> StatusOf(actions[i], kmsOk)]
    IN
    /\ Arrives(n)
    /\ n = expectedSequenceNumber
    /\ Payload(n) = "HandshakeRequest"
    /\ acked' = acked \cup {n}
    /\ sessionType' = RequestedType(actions)
    /\ encryptionEnabled' = (encryptionEnabled \/ KMSEnabled(actions, kmsOk))
    /\ IF sendOk
       THEN /\ answered' = IF ToSet(response) \subseteq {Success} THEN answered \cup {n}
                                                                  ELSE answered
            /\ Processed
            /\ UNCHANGED incomingMessageBuffer
       ELSE /\ CloseOnError
            /\ UNCHANGED answered
    /\ UNCHANGED <<stream, produced, isSessionTypeSet, handlers, handed, mainVars>>

\* Without an encrypter the nil dereference ends the process.
ReceiveEncChallengeRequest(n, sendOk) ==
    /\ Arrives(n)
    /\ n = expectedSequenceNumber
    /\ Payload(n) = "EncChallengeRequest"
    /\ acked' = acked \cup {n}
    /\ IF encryptionEnabled /\ sendOk
       THEN /\ answered' = answered \cup {n}
            /\ Processed
            /\ UNCHANGED incomingMessageBuffer
       ELSE /\ CloseOnError
            /\ UNCHANGED answered
    /\ UNCHANGED <<stream, produced, encryptionEnabled, handlerVars, mainVars>>

ReceiveHandshakeComplete(n) ==
    /\ Arrives(n)
    /\ n = expectedSequenceNumber
    /\ Payload(n) = "HandshakeComplete"
    /\ acked' = acked \cup {n}
    /\ listener' = "completing"
    /\ UNCHANGED <<agentVars, expectedSequenceNumber, incomingMessageBuffer,
                   encryptionEnabled, handlerVars, mainVars>>

\* Mutant of CompleteHandshake: nobody is told that the handshake is over.
CompleteHandshake_Silent ==
    /\ listener = "completing"
    /\ Processed
    /\ UNCHANGED <<agentVars, acked, incomingMessageBuffer, encryptionEnabled, handlerVars,
                   mainVars>>

\* The send on isSessionTypeSet blocks while the channel is full.
CompleteHandshake ==
    /\ listener = "completing"
    /\ isSessionTypeSet = <<>>
    /\ isSessionTypeSet' = Append(isSessionTypeSet, sessionType # "")
    /\ Processed
    /\ UNCHANGED <<agentVars, acked, incomingMessageBuffer, encryptionEnabled, sessionType,
                   handlers, handed, mainVars>>

\* Mutant of ReceiveData: the sequence number is not compared.
ReceiveData_AnySequence(n, ackOk) ==
    /\ Arrives(n)
    /\ Payload(n) \in DataTypes
    /\ ~DecryptFails(n)
    /\ ProcessOutputMessageWithHandlers(n)
    /\ acked' = IF IsHandlerReady /\ ackOk THEN acked \cup {n} ELSE acked
    /\ IF IsHandlerReady /\ ~ackOk
       THEN CloseOnError
       ELSE Processed /\ UNCHANGED incomingMessageBuffer
    /\ UNCHANGED <<agentVars, encryptionEnabled, mainVars>>

\* handleDefaultOutputMessage: acknowledged only if the handlers were ready,
\* but counted in either case.
ReceiveData(n, ackOk) ==
    /\ Arrives(n)
    /\ n = expectedSequenceNumber
    /\ Payload(n) \in DataTypes
    /\ ~DecryptFails(n)
    /\ ProcessOutputMessageWithHandlers(n)
    /\ acked' = IF IsHandlerReady /\ ackOk THEN acked \cup {n} ELSE acked
    /\ IF IsHandlerReady /\ ~ackOk
       THEN CloseOnError
       ELSE Processed /\ UNCHANGED incomingMessageBuffer
    /\ UNCHANGED <<agentVars, encryptionEnabled, mainVars>>

\* Mutant of ReceiveAhead: acknowledged without looking at the capacity.
ReceiveAhead_AckWhenFull(n) ==
    /\ Arrives(n)
    /\ n > expectedSequenceNumber
    /\ acked' = acked \cup {n}
    /\ incomingMessageBuffer' = IF IsFull THEN incomingMessageBuffer
                                         ELSE incomingMessageBuffer \cup {n}
    /\ UNCHANGED <<agentVars, listener, expectedSequenceNumber, encryptionEnabled,
                   handlerVars, mainVars>>

\* A message from the future is acknowledged and buffered if there is room.
ReceiveAhead(n) ==
    /\ Arrives(n)
    /\ n > expectedSequenceNumber
    /\ ~IsFull
    /\ acked' = acked \cup {n}
    /\ incomingMessageBuffer' = incomingMessageBuffer \cup {n}
    /\ UNCHANGED <<agentVars, listener, expectedSequenceNumber, encryptionEnabled,
                   handlerVars, mainVars>>

\* An acknowledgement that precedes the processing cannot be written.
AckFails(n) ==
    /\ Arrives(n)
    /\ \/ n = expectedSequenceNumber /\ Payload(n) \notin DataTypes
       \/ n > expectedSequenceNumber /\ ~IsFull
    /\ CloseOnError
    /\ UNCHANGED <<agentVars, acked, encryptionEnabled, handlerVars, mainVars>>

\* Decryption or the session's handler fails, for a fresh or a buffered message.
DataFails(n) ==
    /\ n = expectedSequenceNumber
    /\ \/ Arrives(n) /\ Payload(n) \in DataTypes
       \/ listener = "draining" /\ n \in incomingMessageBuffer
    /\ DecryptFails(n) \/ HandlerCanFail
    /\ CloseOnError
    /\ UNCHANGED <<agentVars, acked, encryptionEnabled, handlerVars, mainVars>>

\* Mutants of DrainOne: the message stays in the buffer; it is not counted; it
\* is not decrypted.
DrainOne_Keep ==
    LET n == expectedSequenceNumber IN
    /\ listener = "draining"
    /\ n \in incomingMessageBuffer
    /\ ~DecryptFails(n)
    /\ ProcessOutputMessageWithHandlers(n)
    /\ expectedSequenceNumber' = n + 1
    /\ UNCHANGED <<agentVars, acked, listener, incomingMessageBuffer, encryptionEnabled, mainVars>>

DrainOne_NotCounted ==
    LET n == expectedSequenceNumber IN
    /\ listener = "draining"
    /\ n \in incomingMessageBuffer
    /\ ~DecryptFails(n)
    /\ ProcessOutputMessageWithHandlers(n)
    /\ incomingMessageBuffer' = incomingMessageBuffer \ {n}
    /\ UNCHANGED <<agentVars, acked, listener, expectedSequenceNumber, encryptionEnabled,
                   mainVars>>

DrainOne_Raw ==
    LET n == expectedSequenceNumber IN
    /\ listener = "draining"
    /\ n \in incomingMessageBuffer
    /\ handed' = IF IsHanded(n) THEN Append(handed, [seq |-> n, plain |-> ~produced[n + 1]])
                                ELSE handed
    /\ expectedSequenceNumber' = n + 1
    /\ incomingMessageBuffer' = incomingMessageBuffer \ {n}
    /\ UNCHANGED <<agentVars, acked, listener, encryptionEnabled, sessionType,
                   isSessionTypeSet, handlers, mainVars>>

\* processBufferedMessage: the handlers' verdict is ignored.
DrainOne ==
    LET n == expectedSequenceNumber IN
    /\ listener = "draining"
    /\ n \in incomingMessageBuffer
    /\ ~DecryptFails(n)
    /\ ProcessOutputMessageWithHandlers(n)
    /\ expectedSequenceNumber' = n + 1
    /\ incomingMessageBuffer' = incomingMessageBuffer \ {n}
    /\ UNCHANGED <<agentVars, acked, listener, encryptionEnabled, mainVars>>

DrainStop ==
    /\ listener = "draining"
    /\ expectedSequenceNumber \notin incomingMessageBuffer
    /\ listener' = "reading"
    /\ UNCHANGED <<agentVars, acked, expectedSequenceNumber, incomingMessageBuffer,
                   encryptionEnabled, handlerVars, mainVars>>

(* Main goroutine *)

\* establishSessionType returns the type, or an error if none was set.
EstablishSessionType ==
    /\ main = "opening"
    /\ isSessionTypeSet # <<>>
    /\ main' = IF Head(isSessionTypeSet) THEN "typed" ELSE "failed"
    /\ isSessionTypeSet' = Tail(isSessionTypeSet)
    /\ UNCHANGED <<agentVars, acked, listener, expectedSequenceNumber,
                   incomingMessageBuffer, encryptionEnabled, sessionType, handlers, handed,
                   isSessionSpecificHandlerSet, appendFrom>>

\* RegisterOutputStreamHandler takes no lock: the flag first,
RegisterFlag ==
    /\ main = "typed"
    /\ isSessionSpecificHandlerSet' = TRUE
    /\ main' = "flagged"
    /\ UNCHANGED <<agentVars, acked, listener, expectedSequenceNumber, appendFrom,
                   incomingMessageBuffer, encryptionEnabled, handlerVars>>

\* and then the handler: read the slice
RegisterRead ==
    /\ main = "flagged"
    /\ appendFrom' = handlers
    /\ main' = "appending"
    /\ UNCHANGED <<agentVars, acked, listener, expectedSequenceNumber,
                   incomingMessageBuffer, encryptionEnabled, handlerVars,
                   isSessionSpecificHandlerSet>>

\* and store the longer one.  When deregisterOutputStreamHandler ran in between,
\* on the listener, the two stores race and either may be the last.
RegisterAppend ==
    /\ main = "appending"
    /\ \/ handlers' = appendFrom \cup {"session"}
       \/ handlers # appendFrom /\ UNCHANGED handlers
    /\ main' = "registered"
    /\ UNCHANGED <<agentVars, acked, listener, expectedSequenceNumber, appendFrom,
                   incomingMessageBuffer, encryptionEnabled, sessionType, isSessionTypeSet,
                   handed, isSessionSpecificHandlerSet>>

\* SetSessionHandlers: InitializeStreams got the local connection.
InitializeStreams ==
    /\ main = "registered"
    /\ main' = "streaming"
    /\ UNCHANGED <<agentVars, acked, listener, expectedSequenceNumber,
                   incomingMessageBuffer, encryptionEnabled, handlerVars,
                   isSessionSpecificHandlerSet, appendFrom>>

-----------------------------------------------------------------------------
Receive(n) ==
    \/ \E kmsOk, sendOk \in BOOLEAN : ReceiveHandshakeRequest(n, kmsOk, sendOk)
    \/ \E sendOk \in BOOLEAN : ReceiveEncChallengeRequest(n, sendOk)
    \/ ReceiveHandshakeComplete(n)
    \/ \E ackOk \in BOOLEAN : ReceiveData(n, ackOk)
    \/ ReceiveAhead(n)
    \/ AckFails(n)
    \/ DataFails(n)

Drain == CompleteHandshake \/ DrainOne \/ DrainStop

Main ==
    \/ EstablishSessionType
    \/ RegisterFlag
    \/ RegisterRead
    \/ RegisterAppend
    \/ InitializeStreams

Next ==
    \/ AgentProduce
    \/ \E n \in 0 .. (Len(produced) - 1) : Receive(n)
    \/ Drain
    \/ Main

Spec == Init /\ [][Next]_vars

(***************************************************************************)
(* Fairness: both goroutines run, and the agent sends what it has to say   *)
(* and retransmits what it has no acknowledgement for.  Nothing is assumed *)
(* of InitializeStreams, which may wait for the user to connect.           *)
(***************************************************************************)
Fairness ==
    /\ WF_vars(AgentProduce)
    /\ WF_vars(Drain)
    /\ WF_vars(EstablishSessionType \/ RegisterFlag \/ RegisterRead \/ RegisterAppend)
    /\ WF_vars(\E n \in 0 .. (Len(produced) - 1) :
                   n = expectedSequenceNumber /\ n \notin acked /\ Receive(n))

FairSpec == Spec /\ Fairness

-----------------------------------------------------------------------------
(* Properties *)

\* An acknowledged message is never forgotten while the listener runs: it was
\* consumed, is being consumed, or waits in incomingMessageBuffer, which is why
\* the agent may drop it (handleUnexpectedSequenceMessage acknowledges first).
AckedKept ==
    listener # "closed" =>
        \A n \in acked : \/ n < expectedSequenceNumber
                         \/ n \in incomingMessageBuffer
                         \/ n = expectedSequenceNumber /\ listener = "completing"

\* The buffer holds at most Capacity messages and only such as are still to
\* come; the expected one itself is there only between two draining steps, so
\* that no message can be consumed twice.
BufferAhead ==
    /\ Cardinality(incomingMessageBuffer) <= Capacity
    /\ \A n \in incomingMessageBuffer :
           /\ n >= expectedSequenceNumber
           /\ n = expectedSequenceNumber => listener \in {"draining", "closed"}

\* The session never sees ciphertext, whether a message was processed at once
\* or decrypted after it had waited in the buffer.
HandedPlain == \A i \in DOMAIN handed : handed[i].plain

\* The session is ready for data: its handler is in place and can accept it.
SessionReady == "session" \in handlers /\ StreamSet

\* Consumed in the abstract sense: counted, or handed over by the step that
\* then failed to acknowledge.
Consumed ==
    IF handed # <<>> /\ Last(handed).seq = expectedSequenceNumber
    THEN expectedSequenceNumber + 1
    ELSE expectedSequenceNumber

Abstract == INSTANCE OrderedDelivery WITH
    data <- {n \in 0 .. (Len(stream) - 1) : Payload(n) \in DataTypes},
    next <- Consumed,
    ready <- SessionReady,
    out <- [i \in DOMAIN handed |-> handed[i].seq]

\* The incoming half implements OrderedDelivery: whatever the network repeats,
\* reorders or delays, the session gets data in order, at most once, and without
\* a gap from the moment it is ready.
ImplementsOrderedDelivery == Abstract!Spec

MaxStreamLength == Max({Len(s) : s \in Streams})

\* Everything the agent produces is eventually consumed, unless the channel
\* fails: a full buffer never blocks the message that is needed next.
EverythingConsumed ==
    \A n \in 0 .. (MaxStreamLength - 1) :
        n < Len(produced) ~> (n < expectedSequenceNumber \/ listener = "closed")

\* The first-message handler was removed while append had read the slice with it:
\* the race in which a store of outputStreamHandlers is lost.
AppendRaced == "first" \in appendFrom /\ "first" \notin handlers

\* Once the agent has said all and a session type is known, Open has returned and
\* the registration has, unless the channel or Open failed (establishSessionType
\* waits on isSessionTypeSet, which only the listener fills); and the session's
\* handler is then installed, but for the race of RegisterOutputStreamHandler with
\* deregisterOutputStreamHandler, which may lose it.
SessionStarts ==
    (sessionType # "" /\ Len(produced) = Len(stream))
        ~> \/ main = "failed" \/ listener = "closed"
           \/ /\ main \in {"registered", "streaming"}
              /\ "session" \in handlers \/ AppendRaced
=============================================================================
