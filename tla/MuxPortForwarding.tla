------------------------- MODULE MuxPortForwarding -------------------------
(***************************************************************************)
(* The multiplexing port session                                           *)
(* (session/portsession/muxportforwarding.go and the parts of              *)
(* portsession.go that drive it).                                          *)
(*                                                                         *)
(* Local clients talk through smux streams to muxClient, one end of a unix *)
(* socket; mgsConn is the other end, whose bytes go to the agent.          *)
(*                                                                         *)
(*   reader    InitializeStreams (with the acceptor and the dialler of     *)
(*             initialize) and then ReadStream, which waits for            *)
(*   transfer  transferDataToServer and                                    *)
(*   clients   handleClientConnections, with one acceptConnection and two  *)
(*             copying goroutines for each client                          *)
(*   signals   HandleControlSignals                                        *)
(*   listener  the data channel's listener: WriteStream, and Stop for a    *)
(*             channel_closed message                                      *)
(*                                                                         *)
(* Nothing but contexts and closed connections synchronises them.  The     *)
(* behaviour of smux is that of the library: closing its session closes    *)
(* the connection below it, and reading from a closed stream gives         *)
(* io.ErrClosedPipe.  Data is not modelled.                                *)
(***************************************************************************)
EXTENDS Naturals

CONSTANT Clients   \* the local clients, each connects at most once

VARIABLES
    socketFile,     \* the unix socket's file exists
    mgsConn,        \* p.mgsConn: "nil", "open" or "closed"
    muxClient,      \* p.muxClient: "nil", "open" or "closed"
    reader, acceptor, dialler,
    transfer,
    clients,
    localListener,  \* the port or socket the clients connect to
    readErr,        \* first error of ReadStream's errgroup
    conn,           \* each client's connection
    stream,         \* each client's smux stream
    up, down,       \* the copying goroutines: conn to stream, stream to conn
    cancelled,      \* which contexts were cancelled directly
    signals,
    listener,
    stopAt,         \* where each caller of Stop is
    stopErr         \* it has met an error

endVars == <<socketFile, mgsConn, muxClient>>
initPc == <<reader, acceptor, dialler>>
initVars == <<endVars, initPc>>
readVars == <<transfer, clients, localListener, readErr>>
copyVars == <<conn, stream, up, down>>
stopVars == <<stopAt, stopErr>>
controlVars == <<signals, listener, stopVars>>
vars == <<initVars, readVars, copyVars, cancelled, controlVars>>

Stoppers == {"signals", "listener"}

\* Contexts: session is SetSessionHandlers', read is ReadStream's below it,
\* and serve is handleClientConnections' below that.
Done(c) ==
    CASE c = "session" -> "session" \in cancelled
      [] c = "read" -> cancelled \cap {"session", "read"} # {}
      [] c = "serve" -> cancelled # {}

\* A listener that fails closes the data channel, and then no send succeeds.
CanSend == listener # "dead"

SessionReturned == reader = "returned" /\ signals = "returned"

Init ==
    /\ socketFile = FALSE
    /\ mgsConn = "nil"
    /\ muxClient = "nil"
    /\ reader = "start"
    /\ acceptor = "off"
    /\ dialler = "off"
    /\ transfer = "off"
    /\ clients = "off"
    /\ localListener = "none"
    /\ readErr = "none"
    /\ conn = [c \in Clients |-> "none"]
    /\ stream = [c \in Clients |-> "none"]
    /\ up = [c \in Clients |-> "off"]
    /\ down = [c \in Clients |-> "off"]
    /\ cancelled = {}
    /\ signals = "waiting"
    /\ listener = "idle"
    /\ stopAt = [a \in Stoppers |-> "off"]
    /\ stopErr = [a \in Stoppers |-> FALSE]

-----------------------------------------------------------------------------
(* reader: InitializeStreams *)

\* Mutant of InitializeFails: the socket's file stays.
InitializeFails_NoCleanUp ==
    /\ reader' = "returned"
    /\ cancelled' = cancelled \cup {"session"}
    /\ UNCHANGED <<endVars, acceptor, dialler, readVars, copyVars, controlVars>>

\* initialize failed: remove the socket's file and return the error.
InitializeFails ==
    /\ reader' = "returned"
    /\ socketFile' = FALSE
    /\ cancelled' = cancelled \cup {"session"}
    /\ UNCHANGED <<mgsConn, muxClient, acceptor, dialler, readVars, copyVars, controlVars>>

\* The listener on the unix socket, and the two goroutines of initialize.
NewListener ==
    /\ reader = "start"
    /\ socketFile' = TRUE
    /\ reader' = "initializing"
    /\ acceptor' = "accepting"
    /\ dialler' = "dialling"
    /\ UNCHANGED <<mgsConn, muxClient, readVars, copyVars, cancelled, controlVars>>

NewListenerFails == reader = "start" /\ InitializeFails

Accept ==
    /\ acceptor = "accepting"
    /\ dialler \in {"dialled", "done"}
    /\ acceptor' = "done"
    /\ mgsConn' = "open"
    /\ UNCHANGED <<socketFile, muxClient, reader, dialler, readVars, copyVars, cancelled,
                    controlVars>>

AcceptFails ==
    /\ acceptor = "accepting"
    /\ acceptor' = "failed"
    /\ UNCHANGED <<endVars, reader, dialler, readVars, copyVars, cancelled, controlVars>>

\* The file is gone if Stop has cleaned up in the meantime.
Dial ==
    /\ dialler = "dialling"
    /\ socketFile
    /\ dialler' = "dialled"
    /\ UNCHANGED <<endVars, reader, acceptor, readVars, copyVars, cancelled, controlVars>>

DialFails ==
    /\ dialler = "dialling"
    /\ dialler' = "failed"
    /\ UNCHANGED <<endVars, reader, acceptor, readVars, copyVars, cancelled, controlVars>>

\* smux.Client accepts its default configuration.
NewMuxClient ==
    /\ dialler = "dialled"
    /\ dialler' = "done"
    /\ muxClient' = "open"
    /\ UNCHANGED <<socketFile, mgsConn, reader, acceptor, readVars, copyVars, cancelled,
                    controlVars>>

\* Mutant of Initialized: the acceptor is not waited for.
Initialized_DiallerOnly ==
    /\ reader = "initializing"
    /\ dialler = "done"
    /\ reader' = "streaming"
    /\ transfer' = "top"
    /\ clients' = "setup"
    /\ UNCHANGED <<endVars, acceptor, dialler, localListener, readErr, copyVars,
                    cancelled, controlVars>>

\* initialize has waited for both; ReadStream starts its two goroutines.
Initialized ==
    /\ reader = "initializing"
    /\ acceptor = "done"
    /\ dialler = "done"
    /\ reader' = "streaming"
    /\ transfer' = "top"
    /\ clients' = "setup"
    /\ UNCHANGED <<endVars, acceptor, dialler, localListener, readErr, copyVars,
                    cancelled, controlVars>>

\* errgroup.Wait returns only when both goroutines have.
InitializationFailed ==
    /\ reader = "initializing"
    /\ acceptor \in {"done", "failed"}
    /\ dialler \in {"done", "failed"}
    /\ "failed" \in {acceptor, dialler}
    /\ InitializeFails

(* reader: ReadStream *)

\* A goroutine of ReadStream returns an error: the first one counts.
ReadGoroutineReturns(err) ==
    /\ readErr' = IF readErr = "none" THEN err ELSE readErr
    /\ cancelled' = cancelled \cup {"read"}
    /\ UNCHANGED <<initVars, copyVars, controlVars>>

\* Mutant of ReadStreamReturns: only the transfer is waited for.
ReadStreamReturns_TransferOnly ==
    /\ reader = "streaming"
    /\ transfer = "returned"
    /\ reader' = "returned"
    /\ cancelled' = IF readErr = "eof" THEN cancelled ELSE cancelled \cup {"session"}
    /\ UNCHANGED <<endVars, acceptor, dialler, readVars, copyVars, controlVars>>

\* io.EOF is not an error, so that it does not cancel the session.
ReadStreamReturns ==
    /\ reader = "streaming"
    /\ transfer = "returned"
    /\ clients = "returned"
    /\ reader' = "returned"
    /\ cancelled' = IF readErr = "eof" THEN cancelled ELSE cancelled \cup {"session"}
    /\ UNCHANGED <<endVars, acceptor, dialler, readVars, copyVars, controlVars>>

-----------------------------------------------------------------------------
(* transfer: transferDataToServer *)

TransferReturns(err) ==
    /\ transfer' = "returned"
    /\ ReadGoroutineReturns(err)
    /\ UNCHANGED <<clients, localListener>>

TransferGoesOn(state) ==
    /\ transfer' = state
    /\ UNCHANGED <<initVars, clients, localListener, readErr, copyVars, cancelled,
                    controlVars>>

\* The context is looked at between two reads only.
TransferChecks ==
    /\ transfer = "top"
    /\ IF Done("read") THEN TransferReturns("other") ELSE TransferGoesOn("reading")

BytesArrive == transfer = "reading" /\ mgsConn = "open" /\ muxClient = "open"

\* Bytes of a client, or a keep-alive of smux where the agent has it on.
TransferData == BytesArrive /\ CanSend /\ TransferGoesOn("top")

TransferSendFails == BytesArrive /\ TransferReturns("other")

\* A closed mgsConn gives net.ErrClosed, a closed peer io.EOF.
TransferReadFails ==
    /\ transfer = "reading"
    /\ \/ mgsConn = "closed" /\ TransferReturns("other")
       \/ mgsConn = "open" /\ muxClient = "closed" /\ TransferReturns("eof")

-----------------------------------------------------------------------------
(* clients: handleClientConnections *)

ClientsGoOn(state) ==
    /\ clients' = state
    /\ UNCHANGED <<initVars, transfer, readErr, copyVars, controlVars>>

SetupListener ==
    /\ clients = "setup"
    /\ ClientsGoOn("serving")
    /\ localListener' = "open"
    /\ UNCHANGED cancelled

ClientsReturn(from) ==
    /\ clients = from
    /\ clients' = "returned"
    /\ ReadGoroutineReturns("other")
    /\ UNCHANGED <<transfer, localListener>>

SetupListenerFails == ClientsReturn("setup")

\* serve: a client connects.
Serve(c) ==
    /\ clients = "serving"
    /\ localListener = "open"
    /\ conn[c] = "none"
    /\ conn' = [conn EXCEPT ![c] = "open"]
    /\ up' = [up EXCEPT ![c] = "accepted"]
    /\ UNCHANGED <<initVars, readVars, stream, down, cancelled, controlVars>>

\* serve returns the error of Accept, and the errgroup cancels its context.
ServeFails ==
    /\ clients = "serving"
    /\ ClientsGoOn("served")
    /\ cancelled' = cancelled \cup {"serve"}
    /\ UNCHANGED localListener

\* Mutant of CloseListener: it looks at its own context only.
CloseListener_OwnContext ==
    /\ clients \in {"serving", "served"}
    /\ localListener = "open"
    /\ "serve" \in cancelled
    /\ localListener' = "closed"
    /\ ClientsGoOn(clients)
    /\ UNCHANGED cancelled

\* "Close the listener when the context is done".
CloseListener ==
    /\ clients \in {"serving", "served"}
    /\ localListener = "open"
    /\ Done("serve")
    /\ localListener' = "closed"
    /\ ClientsGoOn(clients)
    /\ UNCHANGED cancelled

ServeReturns ==
    /\ clients = "serving"
    /\ localListener = "closed"
    /\ ClientsGoOn("served")
    /\ cancelled' = cancelled \cup {"serve"}
    /\ UNCHANGED localListener

HandleClientConnectionsReturns == localListener = "closed" /\ ClientsReturn("served")

(* acceptConnection and handleDataTransfer *)

OpenStream(c) ==
    /\ up[c] = "accepted"
    /\ muxClient = "open"
    /\ stream' = [stream EXCEPT ![c] = "open"]
    /\ up' = [up EXCEPT ![c] = "running"]
    /\ down' = [down EXCEPT ![c] = "running"]
    /\ UNCHANGED <<initVars, readVars, conn, cancelled, controlVars>>

\* The client's connection is left open.
OpenStreamFails(c) ==
    /\ up[c] = "accepted"
    /\ muxClient = "closed" \/ mgsConn = "closed"
    /\ up' = [up EXCEPT ![c] = "off"]
    /\ cancelled' = cancelled \cup {"serve"}
    /\ UNCHANGED <<initVars, readVars, conn, stream, down, controlVars>>

\* Copying to the stream has ended well: close the stream.
CloseStream(c) ==
    /\ stream' = [stream EXCEPT ![c] = "closed"]
    /\ up' = [up EXCEPT ![c] = IF muxClient = "open" THEN "ok" ELSE "error"]
    /\ UNCHANGED <<initVars, readVars, conn, down, cancelled, controlVars>>

\* The client has hung up.
CopyUpEnds(c) == up[c] = "running" /\ conn[c] = "eof" /\ CloseStream(c)

\* The client sends to a stream that has been closed.
CopyUpWrites(c) ==
    /\ up[c] = "running"
    /\ conn[c] = "open"
    /\ stream[c] = "eof" \/ muxClient = "closed"
    /\ CloseStream(c)

\* Reading fails with the client's reset, or with net.ErrClosed after the other
\* goroutine has closed the connection; neither is one of the excused errors.
CopyUpFails(c) ==
    /\ up[c] = "running"
    /\ conn[c] \in {"reset", "closed"}
    /\ up' = [up EXCEPT ![c] = "error"]
    /\ UNCHANGED <<initVars, readVars, conn, stream, down, cancelled, controlVars>>

\* The stream has ended: close the client's connection.
CopyDownEnds(c) ==
    /\ down[c] = "running"
    /\ stream[c] \in {"eof", "closed"} \/ muxClient = "closed"
    /\ conn' = [conn EXCEPT ![c] = "closed"]
    /\ down' = [down EXCEPT ![c] = "ok"]
    /\ UNCHANGED <<initVars, readVars, stream, up, cancelled, controlVars>>

CopyDownFails(c) ==
    /\ down[c] = "running"
    /\ down' = [down EXCEPT ![c] = "error"]
    /\ UNCHANGED <<initVars, readVars, stream, up, cancelled, controlVars>>

\* Data comes for a client that is gone: the write is answered with a reset.
CopyDownWriteFails(c) ==
    /\ conn[c] \in {"eof", "reset"}
    /\ stream[c] = "open"
    /\ conn' = [conn EXCEPT ![c] = "reset"]
    /\ CopyDownFails(c)

\* smux reports that the socket below it is broken.
CopyDownReadFails(c) ==
    /\ muxClient = "closed" \/ mgsConn = "closed"
    /\ CopyDownFails(c)
    /\ UNCHANGED conn

\* An error of either goroutine cancels the context that all clients share.
AcceptConnectionReturns(c) ==
    /\ {up[c], down[c]} \subseteq {"ok", "error"}
    /\ cancelled' = IF "error" \in {up[c], down[c]} THEN cancelled \cup {"serve"} ELSE cancelled
    /\ up' = [up EXCEPT ![c] = "off"]
    /\ down' = [down EXCEPT ![c] = "off"]
    /\ UNCHANGED <<initVars, readVars, conn, stream, controlVars>>

-----------------------------------------------------------------------------
(* Stop, called by signals and by listener *)

StopGoesOn(a, state, failed) ==
    /\ stopAt' = [stopAt EXCEPT ![a] = state]
    /\ stopErr' = [stopErr EXCEPT ![a] = @ \/ failed]

\* MgsConn.close: closing the unix listener removes its file.
CloseMgsConn(a) ==
    /\ stopAt[a] = "mgsConn"
    /\ mgsConn' = IF mgsConn = "nil" THEN "nil" ELSE "closed"
    /\ socketFile' = (socketFile /\ mgsConn = "nil")
    /\ StopGoesOn(a, "muxClient", mgsConn = "closed")
    /\ UNCHANGED <<muxClient, initPc, readVars, copyVars, cancelled, signals, listener>>

\* MuxClient.close: the session closes the connection, so that closing the
\* connection once more fails.
CloseMuxClient(a) ==
    /\ stopAt[a] = "muxClient"
    /\ muxClient' = IF muxClient = "nil" THEN "nil" ELSE "closed"
    /\ StopGoesOn(a, "cleanUp", muxClient # "nil")
    /\ UNCHANGED <<socketFile, mgsConn, initPc, readVars, copyVars, cancelled, signals,
                    listener>>

CleanUp(a) ==
    /\ stopAt[a] = "cleanUp"
    /\ socketFile' = FALSE
    /\ stopAt' = [stopAt EXCEPT ![a] = "off"]
    /\ UNCHANGED <<mgsConn, muxClient, initPc, readVars, copyVars, stopErr>>

-----------------------------------------------------------------------------
(* signals: HandleControlSignals *)

\* The user sends a signal at any time.
TakeSignal ==
    /\ signals = "waiting"
    /\ signals' = "flagging"
    /\ UNCHANGED <<initVars, readVars, copyVars, cancelled, stopVars, listener>>

SendTerminateFlag ==
    /\ signals = "flagging"
    /\ CanSend
    /\ signals' = "stopping"
    /\ stopAt' = [stopAt EXCEPT !["signals"] = "mgsConn"]
    /\ UNCHANGED <<initVars, readVars, copyVars, cancelled, listener, stopErr>>

SendTerminateFlagFails ==
    /\ signals = "flagging"
    /\ signals' = "returned"
    /\ cancelled' = cancelled \cup {"session"}
    /\ UNCHANGED <<initVars, readVars, copyVars, stopVars, listener>>

\* Stop returns, and so does HandleControlSignals.
SignalStops ==
    /\ CleanUp("signals")
    /\ signals' = "returned"
    /\ cancelled' = IF stopErr["signals"] THEN cancelled \cup {"session"} ELSE cancelled
    /\ UNCHANGED listener

SignalsCancelled ==
    /\ signals = "waiting"
    /\ Done("session")
    /\ signals' = "returned"
    /\ UNCHANGED <<initVars, readVars, copyVars, cancelled, stopVars, listener>>

-----------------------------------------------------------------------------
(* listener *)

Kinds == {"output", "connectError", "channelClosed", "other"}

ListenerTo(state) ==
    /\ listener' = state
    /\ UNCHANGED <<initVars, readVars, copyVars, cancelled, signals>>

\* Any message is first shown to the handler of NewPortSession, which asks
\* IsStreamNotSet, and that dereferences muxClient.
IsStreamNotSet ==
    /\ listener = "idle"
    /\ muxClient = "nil"
    /\ ListenerTo("panicked")
    /\ UNCHANGED stopVars

ReadMessage(kind) ==
    /\ listener = "idle"
    /\ muxClient # "nil"
    /\ ListenerTo(CASE kind = "output" -> "writing"
                    [] kind = "connectError" -> "dead"
                    [] kind = "channelClosed" -> "stopping"
                    [] OTHER -> "idle")
    /\ stopAt' = IF kind = "channelClosed" THEN [stopAt EXCEPT !["listener"] = "mgsConn"]
                                           ELSE stopAt
    /\ stopErr' = [stopErr EXCEPT !["listener"] = FALSE]

\* WriteStream dereferences mgsConn, which another goroutine sets.
WriteStream ==
    /\ listener = "writing"
    /\ mgsConn # "closed"
    /\ ListenerTo(IF mgsConn = "nil" THEN "panicked" ELSE "idle")
    /\ UNCHANGED stopVars

\* A failed write ends the listener, which closes the data channel.
WriteStreamFails ==
    /\ listener = "writing"
    /\ mgsConn # "nil"
    /\ ListenerTo("dead")
    /\ UNCHANGED stopVars

ChannelClosedStops ==
    /\ CleanUp("listener")
    /\ listener' = IF stopErr["listener"] THEN "dead" ELSE "idle"
    /\ UNCHANGED <<cancelled, signals>>

-----------------------------------------------------------------------------
(* environment *)

ClientHangsUp(c) ==
    /\ conn[c] = "open"
    /\ \E state \in {"eof", "reset"} : conn' = [conn EXCEPT ![c] = state]
    /\ UNCHANGED <<initVars, readVars, stream, up, down, cancelled, controlVars>>

\* The agent closes the stream because the remote server has hung up.
RemoteHangsUp(c) ==
    /\ stream[c] = "open"
    /\ stream' = [stream EXCEPT ![c] = "eof"]
    /\ UNCHANGED <<initVars, readVars, conn, up, down, cancelled, controlVars>>

\* smux gives up when its keep-alives, where they are on, are not answered.
KeepAliveTimeout ==
    /\ muxClient = "open"
    /\ muxClient' = "closed"
    /\ UNCHANGED <<socketFile, mgsConn, initPc, readVars, copyVars, cancelled, controlVars>>

-----------------------------------------------------------------------------
\* A panic ends the process.
Running == listener # "panicked"

ReaderRuns == NewListener \/ NewListenerFails \/ Initialized \/ InitializationFailed
                  \/ ReadStreamReturns

DiallerRuns == Dial \/ DialFails \/ NewMuxClient

TransferRuns == TransferChecks \/ TransferReadFails

ClientsRun ==
    \/ SetupListener \/ SetupListenerFails \/ CloseListener \/ ServeReturns
    \/ HandleClientConnectionsReturns

StopRuns(a) == CloseMgsConn(a) \/ CloseMuxClient(a)

SignalsRun ==
    \/ SendTerminateFlag \/ SendTerminateFlagFails \/ StopRuns("signals")
    \/ SignalStops \/ SignalsCancelled

ListenerRuns == WriteStream \/ WriteStreamFails \/ StopRuns("listener") \/ ChannelClosedStops

CopiesRun(c) ==
    \/ OpenStream(c) \/ OpenStreamFails(c) \/ CopyUpEnds(c) \/ CopyUpFails(c)
    \/ CopyDownEnds(c) \/ CopyDownReadFails(c) \/ AcceptConnectionReturns(c)

Environment ==
    \/ AcceptFails \/ TransferData \/ TransferSendFails \/ ServeFails \/ TakeSignal
    \/ KeepAliveTimeout
    \/ IsStreamNotSet \/ \E kind \in Kinds : ReadMessage(kind)
    \/ \E c \in Clients : \/ Serve(c) \/ CopyUpWrites(c) \/ CopyDownWriteFails(c)
                         \/ ClientHangsUp(c) \/ RemoteHangsUp(c)

Next ==
    /\ Running
    /\ \/ ReaderRuns \/ Accept \/ DiallerRuns \/ TransferRuns \/ ClientsRun
       \/ SignalsRun \/ ListenerRuns \/ \E c \in Clients : CopiesRun(c)
       \/ Environment

Spec == Init /\ [][Next]_vars

(***************************************************************************)
(* Fairness: a goroutine that can go on does.  Nothing is assumed of the   *)
(* clients, the agent or the user.                                         *)
(***************************************************************************)
FairSpec ==
    /\ Spec
    /\ WF_vars(Running /\ ReaderRuns)
    /\ WF_vars(Running /\ Accept)
    /\ WF_vars(Running /\ DiallerRuns)
    /\ WF_vars(Running /\ TransferRuns)
    /\ WF_vars(Running /\ ClientsRun)
    /\ WF_vars(Running /\ SignalsRun)
    /\ WF_vars(Running /\ ListenerRuns)
    /\ \A c \in Clients : WF_vars(Running /\ CopiesRun(c))

-----------------------------------------------------------------------------
(* Properties *)

\* The goroutines of ReadStream find both ends of the unix socket in place,
\* whatever Stop, called at the same time, has closed of them: neither
\* transferDataToServer nor acceptConnection dereferences nil.
StreamsReady ==
    (transfer # "off" \/ \E c \in Clients : up[c] # "off")
        => mgsConn # "nil" /\ muxClient # "nil"

\* The unix socket's file does not outlive a failed initialisation, nor a
\* connection that Stop has closed, also when two goroutines call Stop at once.
SocketFileGone ==
    (mgsConn = "closed" \/ ("failed" \in {acceptor, dialler} /\ reader = "returned"))
        => ~socketFile

\* When SetSessionHandlers returns nobody listens on the local port any more,
\* whichever goroutine failed first and whichever context was cancelled.
PortClosedAtEnd == SessionReturned => localListener # "open"

\* A Stop that found the connection ends the session: the transfer fails, its
\* error cancels the contexts, the closed listener wakes serve, and no
\* goroutine that ReadStream or SetSessionHandlers waits for is left behind.
\* The exception is a ReadStream that had already ended with io.EOF.
StopEndsSession ==
    mgsConn = "closed" ~> (SessionReturned \/ readErr = "eof" \/ ~Running)
=============================================================================
