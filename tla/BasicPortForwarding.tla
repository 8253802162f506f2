------------------------ MODULE BasicPortForwarding ------------------------
(***************************************************************************)
(* A port session of a single client connection                            *)
(* (session/portsession/basicportforwarding.go, driven by                  *)
(* session/portsession/portsession.go).                                    *)
(*                                                                         *)
(* Three goroutines meet on the mutex mu that guards the client's stream:  *)
(*                                                                         *)
(*   reader     InitializeStreams, then ReadStream.  Each holds mu while   *)
(*              it waits for the client, and ReadStream gives it back only *)
(*              when it returns;                                           *)
(*   signals    HandleControlSignals: on a control signal it tells the     *)
(*              agent and calls Stop;                                      *)
(*   listener   DataChannel.listen: for every message it first calls       *)
(*              IsStreamNotSet, then writes output to the stream or, on    *)
(*              channel_closed, calls Stop.                                *)
(*                                                                         *)
(* The critical sections of signals and listener do not block, so each is  *)
(* one step that needs mu free.  The two long ones of reader are a Lock    *)
(* step and the steps up to the unlock.  The client and the agent are the  *)
(* environment; a client that hangs up leaves the stream "dropped", a      *)
(* Close by this program leaves it "closed".                               *)
(***************************************************************************)
EXTENDS Naturals, Sequences

CONSTANTS
    MaxClients,         \* bound: clients that connect to the local port
    MaxSent,            \* bound: messages handed to the data channel
    MaxMessages,        \* bound: messages that the listener reads
    MaxSignals          \* bound: control signals the user sends

ASSUME ConstantsAssumption ==
    /\ MaxClients \in Nat
    /\ MaxSent \in Nat
    /\ MaxMessages \in Nat
    /\ MaxSignals \in Nat

VARIABLES
    mu,         \* "free" or "reader"
    stream,     \* the net.Conn: "nil", "open", "dropped" or "closed"
    client,     \* how many clients have been accepted
    reader,     \* where reader is
    signals,    \* where HandleControlSignals is
    notified,   \* the signal channel (capacity 1) holds a signal
    signalled,  \* how many signals have arrived
    terminateSupported, \* DoesAgentSupportTerminateSessionFlag, fixed by the handshake
    ctxDone,    \* the errgroup's context is cancelled
    listener,   \* where the listener is
    kind,       \* what it is handling: "output", "channelClosed" or "other"
    messages,   \* how many messages it has read
    sent,       \* history: what reader and signals sent to the agent
    stopped     \* history: Stop has closed a stream

readerVars == <<reader, client>>
signalVars == <<signals, notified, signalled, terminateSupported>>
listenerVars == <<listener, kind, messages>>
vars == <<mu, stream, readerVars, signalVars, ctxDone, listenerVars, sent, stopped>>

Kinds == {"output", "channelClosed", "other"}

\* A listener that fails closes the data channel, and then no send succeeds.
CanSend == listener # "dead" /\ Len(sent) < MaxSent

Data(c) == [flag |-> "none", client |-> c]

Flag(f) == [flag |-> f, client |-> 0]

SessionReturned == reader = "returned" /\ signals = "returned"

Init ==
    /\ mu = "free"
    /\ stream = "nil"
    /\ client = 0
    /\ reader = "start"
    /\ signals = "waiting"
    /\ notified = FALSE
    /\ signalled = 0
    /\ terminateSupported \in BOOLEAN
    /\ ctxDone = FALSE
    /\ listener = "idle"
    /\ kind = "other"
    /\ messages = 0
    /\ sent = <<>>
    /\ stopped = FALSE

-----------------------------------------------------------------------------
(* reader: the second goroutine of SetSessionHandlers *)

Lock(from, to) ==
    /\ reader = from
    /\ mu = "free"
    /\ mu' = "reader"
    /\ reader' = to
    /\ UNCHANGED <<stream, client, signalVars, ctxDone, listenerVars, sent, stopped>>

\* Mutant of ReaderReturns: the deferred unlock is missing.
ReaderReturns_KeepsLock ==
    /\ reader' = "returned"
    /\ ctxDone' = TRUE
    /\ UNCHANGED <<mu, stream, client, signalVars, listenerVars, sent, stopped>>

\* Every way out of InitializeStreams or ReadStream but the accepted
\* connection is an error: unlock, and the errgroup cancels its context.
ReaderReturns ==
    /\ reader' = "returned"
    /\ mu' = "free"
    /\ ctxDone' = TRUE
    /\ UNCHANGED <<stream, client, signalVars, listenerVars, sent, stopped>>

InitializeStreams == Lock("start", "binding")

\* startLocalListener.
StartLocalListener ==
    /\ reader = "binding"
    /\ reader' = "accepting"
    /\ UNCHANGED <<mu, stream, client, signalVars, ctxDone, listenerVars, sent, stopped>>

StartLocalListenerFails == reader = "binding" /\ ReaderReturns

\* startLocalConn: a client connects; InitializeStreams returns and unlocks.
StartLocalConn ==
    /\ reader = "accepting"
    /\ client < MaxClients
    /\ client' = client + 1
    /\ stream' = "open"
    /\ mu' = "free"
    /\ reader' = "connected"
    /\ UNCHANGED <<signalVars, ctxDone, listenerVars, sent, stopped>>

AcceptFails == reader \in {"accepting", "reaccepting"} /\ ReaderReturns

ReadStream == Lock("connected", "reading")

\* The client sends data and it goes to the agent.
ReadData ==
    /\ reader = "reading"
    /\ stream = "open"
    /\ CanSend
    /\ sent' = Append(sent, Data(client))
    /\ UNCHANGED <<mu, stream, readerVars, signalVars, ctxDone, listenerVars, stopped>>

SendDataFails == reader = "reading" /\ stream = "open" /\ ReaderReturns

\* Mutant of ReadError: the agent is not told that the client is gone.
ReadError_NoFlag ==
    /\ reader = "reading"
    /\ stream \in {"dropped", "closed"}
    /\ reader' = "reconnecting"
    /\ UNCHANGED <<mu, stream, client, signalVars, ctxDone, listenerVars, sent, stopped>>

\* The read fails, and the DisconnectToPort flag is sent.
ReadError ==
    /\ reader = "reading"
    /\ stream \in {"dropped", "closed"}
    /\ CanSend
    /\ sent' = Append(sent, Flag("DisconnectToPort"))
    /\ reader' = "reconnecting"
    /\ UNCHANGED <<mu, stream, client, signalVars, ctxDone, listenerVars, stopped>>

ReadErrorFlagFails ==
    /\ reader = "reading"
    /\ stream \in {"dropped", "closed"}
    /\ ReaderReturns

\* reconnect: closing a stream that is already closed is an error.
ReconnectCloses ==
    /\ reader = "reconnecting"
    /\ stream = "dropped"
    /\ stream' = "closed"
    /\ reader' = "reaccepting"
    /\ UNCHANGED <<mu, client, signalVars, ctxDone, listenerVars, sent, stopped>>

\* Mutant of ReconnectCloseFails: the error of Close is ignored.
ReconnectCloseFails_Ignored ==
    /\ reader = "reconnecting"
    /\ stream = "closed"
    /\ reader' = "reaccepting"
    /\ UNCHANGED <<mu, stream, client, signalVars, ctxDone, listenerVars, sent, stopped>>

ReconnectCloseFails ==
    /\ reader = "reconnecting"
    /\ stream = "closed"
    /\ ReaderReturns

\* reconnect: another client is accepted, still under mu.
ReconnectAccepts ==
    /\ reader = "reaccepting"
    /\ client < MaxClients
    /\ client' = client + 1
    /\ stream' = "open"
    /\ reader' = "reading"
    /\ UNCHANGED <<mu, signalVars, ctxDone, listenerVars, sent, stopped>>

-----------------------------------------------------------------------------
(* Stop *)

\* stream.Close fails on a stream that is already closed.
StopSucceeds ==
    /\ mu = "free"
    /\ stream # "closed"
    /\ stream' = IF stream = "nil" THEN "nil" ELSE "closed"
    /\ stopped' = (stopped \/ stream # "nil")

StopFails == mu = "free" /\ stream = "closed"

-----------------------------------------------------------------------------
(* signals: HandleControlSignals *)

\* A goroutine of the errgroup that fails cancels the context.
SignalsFail ==
    /\ signals' = "returned"
    /\ ctxDone' = TRUE
    /\ UNCHANGED <<mu, stream, readerVars, notified, signalled, terminateSupported,
                   listenerVars, sent, stopped>>

\* signal.Notify drops a signal that finds the channel full.
Notify ==
    /\ signals # "returned"
    /\ signalled < MaxSignals
    /\ signalled' = signalled + 1
    /\ notified' = TRUE
    /\ UNCHANGED <<mu, stream, readerVars, signals, terminateSupported, ctxDone, listenerVars, sent, stopped>>

TakeSignal ==
    /\ signals = "waiting"
    /\ notified
    /\ notified' = FALSE
    /\ signals' = IF terminateSupported THEN "flagging" ELSE "terminating"
    /\ UNCHANGED <<mu, stream, readerVars, signalled, terminateSupported, ctxDone, listenerVars, sent, stopped>>

SendTerminateFlag ==
    /\ signals = "flagging"
    /\ CanSend
    /\ sent' = Append(sent, Flag("TerminateSession"))
    /\ signals' = "stopping"
    /\ UNCHANGED <<mu, stream, readerVars, notified, signalled, terminateSupported,
                   ctxDone, listenerVars, stopped>>

SendTerminateFlagFails == signals = "flagging" /\ SignalsFail

\* After Stop the loop goes back to the select: only the cancelled context
\* makes HandleControlSignals return.
SignalStops ==
    /\ signals = "stopping"
    /\ StopSucceeds
    /\ signals' = "waiting"
    /\ UNCHANGED <<mu, readerVars, notified, signalled, terminateSupported, ctxDone,
                   listenerVars, sent>>

SignalStopFails == signals = "stopping" /\ StopFails /\ SignalsFail

\* Session.TerminateSession for an agent without the flag; nothing local
\* is closed.
TerminateSession ==
    /\ signals = "terminating"
    /\ signals' = "waiting"
    /\ UNCHANGED <<mu, stream, readerVars, notified, signalled, terminateSupported,
                   ctxDone, listenerVars, sent, stopped>>

TerminateSessionFails == signals = "terminating" /\ SignalsFail

SignalsCancelled ==
    /\ signals = "waiting"
    /\ ctxDone
    /\ signals' = "returned"
    /\ UNCHANGED <<mu, stream, readerVars, notified, signalled, terminateSupported,
                   ctxDone, listenerVars, sent, stopped>>

-----------------------------------------------------------------------------
(* listener *)

ListenerTo(state) ==
    /\ listener' = state
    /\ UNCHANGED <<mu, readerVars, signalVars, ctxDone, kind, messages, sent>>

\* ReadMessage returns; the message is at first in the incoming message
\* handler of NewPortSession.
ReadMessage(k) ==
    /\ listener = "idle"
    /\ messages < MaxMessages
    /\ messages' = messages + 1
    /\ kind' = k
    /\ listener' = "peeking"
    /\ UNCHANGED <<mu, stream, readerVars, signalVars, ctxDone, sent, stopped>>

\* The incoming message handler only takes mu, looks, and warns.
IncomingMessageHandler ==
    /\ listener = "peeking"
    /\ mu = "free"
    /\ ListenerTo(CASE kind = "output" -> "checking"
                    [] kind = "channelClosed" -> "stopping"
                    [] OTHER -> "idle")
    /\ UNCHANGED <<stream, stopped>>

\* Mutant of ProcessStreamMessagePayload: the stream is not checked.
ProcessStreamMessagePayload_NoCheck ==
    /\ listener = "checking"
    /\ mu = "free"
    /\ ListenerTo("writing")
    /\ UNCHANGED <<stream, stopped>>

\* ProcessStreamMessagePayload: without a stream the handler is not ready
\* and the message is skipped.
ProcessStreamMessagePayload ==
    /\ listener = "checking"
    /\ mu = "free"
    /\ ListenerTo(IF stream = "nil" THEN "idle" ELSE "writing")
    /\ UNCHANGED <<stream, stopped>>

\* Writing to a client that has hung up may still succeed.
WriteStream ==
    /\ listener = "writing"
    /\ mu = "free"
    /\ stream \in {"open", "dropped"}
    /\ ListenerTo("idle")
    /\ UNCHANGED <<stream, stopped>>

\* A failed write ends the listener, which closes the data channel; writing
\* to a nil stream is a panic.
WriteStreamFails ==
    /\ listener = "writing"
    /\ mu = "free"
    /\ ListenerTo(IF stream = "nil" THEN "panicked" ELSE "dead")
    /\ UNCHANGED <<stream, stopped>>

ChannelClosedStops ==
    /\ listener = "stopping"
    /\ StopSucceeds
    /\ ListenerTo("idle")

ChannelClosedStopFails ==
    /\ listener = "stopping"
    /\ StopFails
    /\ ListenerTo("dead")
    /\ UNCHANGED <<stream, stopped>>

-----------------------------------------------------------------------------
(* environment *)

ClientDrops ==
    /\ stream = "open"
    /\ stream' = "dropped"
    /\ UNCHANGED <<mu, readerVars, signalVars, ctxDone, listenerVars, sent, stopped>>

-----------------------------------------------------------------------------
\* The steps of reader that do not wait for the client.
ReaderRuns ==
    \/ InitializeStreams \/ StartLocalListener \/ StartLocalListenerFails
    \/ ReadStream \/ ReadError \/ ReadErrorFlagFails
    \/ ReconnectCloses \/ ReconnectCloseFails

ReaderWaits ==
    StartLocalConn \/ AcceptFails \/ ReadData \/ SendDataFails \/ ReconnectAccepts

SignalsRun ==
    \/ TakeSignal \/ SendTerminateFlag \/ SendTerminateFlagFails
    \/ SignalStops \/ SignalStopFails
    \/ TerminateSession \/ TerminateSessionFails
    \/ SignalsCancelled

ListenerRuns ==
    \/ IncomingMessageHandler \/ ProcessStreamMessagePayload
    \/ WriteStream \/ WriteStreamFails
    \/ ChannelClosedStops \/ ChannelClosedStopFails

Next ==
    \/ ReaderRuns \/ ReaderWaits
    \/ Notify \/ SignalsRun
    \/ ListenerRuns \/ \E k \in Kinds : ReadMessage(k)
    \/ ClientDrops

Spec == Init /\ [][Next]_vars

(***************************************************************************)
(* Fairness: a goroutine that can go on does, and one that waits for mu    *)
(* gets it if mu is free again and again (Go's mutex hands over to a       *)
(* waiter).  Nothing is assumed of the client, the agent or the user.      *)
(***************************************************************************)
FairSpec ==
    /\ Spec
    /\ SF_vars(ReaderRuns)
    /\ SF_vars(SignalsRun)
    /\ SF_vars(ListenerRuns)

-----------------------------------------------------------------------------
(* Properties *)

\* Every variable has its type, and only the goroutine inside one of the two
\* long critical sections holds mu.
TypeOK ==
    /\ mu \in {"free", "reader"}
    /\ stream \in {"nil", "open", "dropped", "closed"}
    /\ client \in 0..MaxClients
    /\ reader \in {"start", "binding", "accepting", "connected", "reading",
                   "reconnecting", "reaccepting", "returned"}
    /\ mu = "reader" <=> reader \notin {"start", "connected", "returned"}
    /\ signals \in {"waiting", "flagging", "stopping", "terminating", "returned"}
    /\ notified \in BOOLEAN
    /\ signalled \in 0..MaxSignals
    /\ terminateSupported \in BOOLEAN
    /\ ctxDone \in BOOLEAN
    /\ listener \in {"idle", "peeking", "checking", "writing", "stopping", "dead", "panicked"}
    /\ kind \in Kinds
    /\ messages \in 0..MaxMessages
    /\ sent \in Seq([flag : {"none", "DisconnectToPort", "TerminateSession"},
                     client : 0..MaxClients])
    /\ Len(sent) <= MaxSent
    /\ stopped \in BOOLEAN

\* The listener never writes to a stream that is not there: IsStreamNotSet and
\* WriteStream lock mu separately, and the stream set in between is never
\* taken away again.
NeverWritesNil == listener # "panicked"

\* "Send DisconnectToPort flag to agent when client tcp connection drops to
\* ensure agent closes tcp connection too with server port": between the data
\* of two different clients there is the flag, so the agent never feeds a new
\* client's bytes into its predecessor's connection (ReadStream, reconnect).
ClientsSeparated ==
    \A i, j \in DOMAIN sent :
        (i < j /\ sent[i].flag = "none" /\ sent[j].flag = "none"
               /\ sent[i].client # sent[j].client)
            => \E k \in i..j : sent[k].flag = "DisconnectToPort"

\* Once Stop has closed the stream, whoever called it and wherever the reader
\* was, no further client is accepted: reading fails, and so does the Close in
\* reconnect.
NoClientAfterStop == stopped => stream = "closed"

\* When the reader gives up, the session returns to its caller: the other
\* goroutine of the errgroup gets mu for its Stop and sees the cancelled
\* context, at whatever point of HandleControlSignals it was.
ReaderEndsSession == reader = "returned" ~> SessionReturned

\* A Stop that closed the stream ends the session, although
\* HandleControlSignals itself goes back to its loop.
StopEndsSession == stopped ~> SessionReturned
=============================================================================
