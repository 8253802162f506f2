---------------------- MODULE MuxPortForwardingProofs ----------------------
(***************************************************************************)
(* Theorems about MuxPortForwarding for any set of clients: the goroutines *)
(* of ReadStream never dereference a connection that is nil, the file of   *)
(* the unix socket is removed with its connection, and the local port is   *)
(* closed when the session returns.                                        *)
(***************************************************************************)
EXTENDS MuxPortForwarding, TLAPS

-----------------------------------------------------------------------------
(* The inductive invariant *)

TypeOK ==
    /\ mgsConn \in {"nil", "open", "closed"}
    /\ muxClient \in {"nil", "open", "closed"}
    /\ reader \in {"start", "initializing", "streaming", "returned"}
    /\ acceptor \in {"off", "accepting", "done", "failed"}
    /\ dialler \in {"off", "dialling", "dialled", "done", "failed"}
    /\ DOMAIN up = Clients

\* The goroutines of initialize run only inside initialize, and the end of the
\* socket that each of them sets is there as soon as it is done, and for good.
EndsSet ==
    /\ mgsConn # "nil" <=> acceptor = "done"
    /\ muxClient # "nil" <=> dialler = "done"
    /\ reader = "start" => acceptor = "off" /\ dialler = "off"
    /\ acceptor = "accepting" \/ dialler \in {"dialling", "dialled"} => reader = "initializing"

\* ReadStream starts its goroutines when both ends are set, and it returns after
\* handleClientConnections.
Started ==
    /\ transfer = "off" <=> clients = "off"
    /\ transfer # "off" => acceptor = "done" /\ dialler = "done" /\ reader # "initializing"
    /\ reader = "streaming" => transfer # "off"
    /\ clients \in {"setup", "serving", "served"} => reader = "streaming"
    /\ \A c \in Clients : up[c] # "off" => clients # "off"

\* The local port is open only as long as handleClientConnections runs.
PortServed == localListener = "open" => clients \in {"serving", "served"}

MuxInv == TypeOK /\ EndsSet /\ Started /\ SocketFileGone /\ PortServed

-----------------------------------------------------------------------------
(* Steps by process *)

\* InitializeStreams and the end of ReadStream.
LEMMA ReaderKeeps == MuxInv /\ (ReaderRuns \/ Accept \/ AcceptFails \/ DiallerRuns) => MuxInv'
<1> SUFFICES ASSUME MuxInv, ReaderRuns \/ Accept \/ AcceptFails \/ DiallerRuns PROVE MuxInv'
  OBVIOUS
<1> USE DEF MuxInv, TypeOK, EndsSet, Started, SocketFileGone, PortServed, endVars, readVars, copyVars
<1>1. CASE NewListener
  BY <1>1 DEF NewListener
<1>2. CASE NewListenerFails
  BY <1>2 DEF NewListenerFails, InitializeFails
<1>3. CASE Initialized
  BY <1>3 DEF Initialized
<1>4. CASE InitializationFailed
  BY <1>4 DEF InitializationFailed, InitializeFails
<1>5. CASE ReadStreamReturns
  BY <1>5 DEF ReadStreamReturns
<1>6. CASE Accept
  BY <1>6 DEF Accept
<1>7. CASE AcceptFails
  BY <1>7 DEF AcceptFails
<1>8. CASE Dial
  BY <1>8 DEF Dial
<1>9. CASE DialFails
  BY <1>9 DEF DialFails
<1>10. CASE NewMuxClient
  BY <1>10 DEF NewMuxClient
<1> QED
  BY <1>1, <1>2, <1>3, <1>4, <1>5, <1>6, <1>7, <1>8, <1>9, <1>10 DEF ReaderRuns, DiallerRuns

\* transferDataToServer and handleClientConnections.
LEMMA ReadStreamKeeps ==
    MuxInv /\ (TransferRuns \/ TransferData \/ TransferSendFails \/ ClientsRun \/ ServeFails)
        => MuxInv'
<1> SUFFICES ASSUME MuxInv,
                    TransferRuns \/ TransferData \/ TransferSendFails \/ ClientsRun \/ ServeFails
             PROVE  MuxInv'
  OBVIOUS
<1> USE DEF initVars, endVars, initPc, copyVars
<1>1. CASE TransferRuns \/ TransferData \/ TransferSendFails
  <2>1. transfer \in {"top", "reading"} /\ transfer' \in {"top", "reading", "returned"}
    BY <1>1 DEF TransferRuns, TransferChecks, TransferReadFails, TransferData, TransferSendFails,
         BytesArrive, TransferReturns, TransferGoesOn
  <2>2. UNCHANGED <<socketFile, mgsConn, muxClient, reader, acceptor, dialler, clients,
                    localListener, up>>
    BY <1>1 DEF TransferRuns, TransferChecks, TransferReadFails, TransferData, TransferSendFails,
         TransferReturns, TransferGoesOn, ReadGoroutineReturns
  <2> QED
    BY <2>1, <2>2 DEF MuxInv, TypeOK, EndsSet, Started, SocketFileGone, PortServed
<1>2. CASE ClientsRun \/ ServeFails
  <2>1. /\ clients \in {"setup", "serving", "served"}
        /\ clients' \in {"serving", "served", "returned"}
    BY <1>2 DEF ClientsRun, ServeFails, SetupListener, SetupListenerFails, CloseListener,
         ServeReturns, HandleClientConnectionsReturns, ClientsGoOn, ClientsReturn
  <2>2. UNCHANGED <<socketFile, mgsConn, muxClient, reader, acceptor, dialler, transfer, up>>
    BY <1>2 DEF ClientsRun, ServeFails, SetupListener, SetupListenerFails, CloseListener,
         ServeReturns, HandleClientConnectionsReturns, ClientsGoOn, ClientsReturn,
         ReadGoroutineReturns
  <2>3. PortServed'
    BY <1>2 DEF ClientsRun, ServeFails, SetupListener, SetupListenerFails, CloseListener,
         ServeReturns, HandleClientConnectionsReturns, ClientsGoOn, ClientsReturn, MuxInv,
         PortServed
  <2> QED
    BY <2>1, <2>2, <2>3 DEF MuxInv, TypeOK, EndsSet, Started, SocketFileGone
<1> QED
  BY <1>1, <1>2

\* The copying goroutines, and what clients and the agent do to them.
LEMMA CopiesKeep ==
    ASSUME MuxInv, NEW c \in Clients,
           \/ CopiesRun(c) \/ Serve(c) \/ CopyUpWrites(c) \/ CopyDownWriteFails(c)
           \/ ClientHangsUp(c) \/ RemoteHangsUp(c)
    PROVE  MuxInv'
<1> USE DEF initVars, endVars, initPc, readVars
<1>1. UNCHANGED <<socketFile, mgsConn, muxClient, reader, acceptor, dialler, transfer, clients,
                  localListener>>
  BY DEF CopiesRun, Serve, CopyUpWrites, CopyDownWriteFails, CopyDownFails, ClientHangsUp,
       RemoteHangsUp, OpenStream, OpenStreamFails, CopyUpEnds, CopyUpFails, CloseStream,
       CopyDownEnds, CopyDownReadFails, AcceptConnectionReturns
<1>2. \/ UNCHANGED up
      \/ (clients # "off" \/ up[c] # "off") /\ \E state : up' = [up EXCEPT ![c] = state]
  <2>1. CASE Serve(c)
    BY <2>1 DEF Serve
  <2>2. CASE OpenStream(c) \/ OpenStreamFails(c) \/ CopyUpFails(c)
    BY <2>2 DEF OpenStream, OpenStreamFails, CopyUpFails
  <2>3. CASE CopyUpEnds(c) \/ CopyUpWrites(c)
    BY <2>3 DEF CopyUpEnds, CopyUpWrites, CloseStream
  <2>4. CASE AcceptConnectionReturns(c)
    BY <2>4 DEF AcceptConnectionReturns
  <2>5. CASE CopyDownEnds(c) \/ CopyDownReadFails(c) \/ CopyDownWriteFails(c)
    BY <2>5 DEF CopyDownEnds, CopyDownReadFails, CopyDownWriteFails, CopyDownFails
  <2>6. CASE ClientHangsUp(c) \/ RemoteHangsUp(c)
    BY <2>6 DEF ClientHangsUp, RemoteHangsUp
  <2> QED
    BY <2>1, <2>2, <2>3, <2>4, <2>5, <2>6 DEF CopiesRun
<1>3. DOMAIN up' = Clients /\ \A d \in Clients : up'[d] # "off" => clients # "off"
  BY <1>2 DEF MuxInv, TypeOK, Started
<1> QED
  BY <1>1, <1>3 DEF MuxInv, TypeOK, EndsSet, Started, SocketFileGone, PortServed

\* Stop, which signals and listener may call at the same time.
LEMMA StopKeeps ==
    ASSUME MuxInv, NEW a \in Stoppers, StopRuns(a) \/ CleanUp(a)
    PROVE  MuxInv'
<1> USE DEF initPc, readVars, copyVars
<1>1. UNCHANGED <<reader, acceptor, dialler, transfer, clients, localListener, up>>
  BY DEF StopRuns, CloseMgsConn, CloseMuxClient, CleanUp
<1>2. /\ mgsConn' # "nil" <=> mgsConn # "nil"
      /\ muxClient' # "nil" <=> muxClient # "nil"
      /\ mgsConn' \in {"nil", "open", "closed"}
      /\ muxClient' \in {"nil", "open", "closed"}
      /\ socketFile' => socketFile
      /\ mgsConn' # mgsConn => ~socketFile'
  <2>1. CASE CloseMgsConn(a)
    <3>1. socketFile' => socketFile /\ mgsConn = "nil"
      BY <2>1, Zenon DEF CloseMgsConn
    <3>2. /\ mgsConn' = IF mgsConn = "nil" THEN "nil" ELSE "closed"
          /\ muxClient' = muxClient
      BY <2>1 DEF CloseMgsConn
    <3> QED
      BY <3>1, <3>2 DEF MuxInv, TypeOK
  <2>2. CASE CloseMuxClient(a)
    BY <2>2 DEF CloseMuxClient, MuxInv, TypeOK
  <2>3. CASE CleanUp(a)
    BY <2>3 DEF CleanUp, MuxInv, TypeOK
  <2> QED
    BY <2>1, <2>2, <2>3 DEF StopRuns
<1> QED
  BY <1>1, <1>2 DEF MuxInv, TypeOK, EndsSet, Started, SocketFileGone, PortServed

\* The other steps of signals and listener, and smux's own end.
LEMMA ControlKeeps ==
    ASSUME MuxInv,
           \/ SendTerminateFlag \/ SendTerminateFlagFails \/ SignalsCancelled \/ TakeSignal
           \/ WriteStream \/ WriteStreamFails \/ IsStreamNotSet
           \/ \E kind \in Kinds : ReadMessage(kind)
           \/ KeepAliveTimeout \/ UNCHANGED vars
    PROVE  MuxInv'
<1> USE DEF initVars, endVars, initPc, readVars, copyVars
<1>1. UNCHANGED <<socketFile, mgsConn, reader, acceptor, dialler, transfer, clients,
                  localListener, up>>
  BY DEF SendTerminateFlag, SendTerminateFlagFails, SignalsCancelled, TakeSignal, WriteStream,
       WriteStreamFails, IsStreamNotSet, ReadMessage, ListenerTo, KeepAliveTimeout, vars
<1>2. /\ muxClient' # "nil" <=> muxClient # "nil"
      /\ muxClient' \in {"nil", "open", "closed"}
  BY DEF SendTerminateFlag, SendTerminateFlagFails, SignalsCancelled, TakeSignal, WriteStream,
       WriteStreamFails, IsStreamNotSet, ReadMessage, ListenerTo, KeepAliveTimeout, vars,
       MuxInv, TypeOK
<1> QED
  BY <1>1, <1>2 DEF MuxInv, TypeOK, EndsSet, Started, SocketFileGone, PortServed

-----------------------------------------------------------------------------
(* The theorems *)

\* Nothing runs and nothing is set at first.
LEMMA InitMux == Init => MuxInv
  BY DEF Init, MuxInv, TypeOK, EndsSet, Started, SocketFileGone, PortServed

\* Every step of any goroutine keeps the invariant.
LEMMA NextMux == MuxInv /\ [Next]_vars => MuxInv'
<1> SUFFICES ASSUME MuxInv, [Next]_vars PROVE MuxInv'
  OBVIOUS
<1>1. CASE ReaderRuns \/ Accept \/ AcceptFails \/ DiallerRuns
  BY <1>1, ReaderKeeps
<1>2. CASE TransferRuns \/ TransferData \/ TransferSendFails \/ ClientsRun \/ ServeFails
  BY <1>2, ReadStreamKeeps
<1>3. ASSUME NEW c \in Clients,
             \/ CopiesRun(c) \/ Serve(c) \/ CopyUpWrites(c) \/ CopyDownWriteFails(c)
             \/ ClientHangsUp(c) \/ RemoteHangsUp(c)
      PROVE  MuxInv'
  BY <1>3, CopiesKeep
<1>4. ASSUME NEW a \in Stoppers, StopRuns(a) \/ CleanUp(a) PROVE MuxInv'
  BY <1>4, StopKeeps
<1>5. CASE SignalsRun
  BY <1>4, <1>5, ControlKeeps DEF SignalsRun, SignalStops, Stoppers
<1>6. CASE ListenerRuns
  BY <1>4, <1>6, ControlKeeps DEF ListenerRuns, ChannelClosedStops, Stoppers
<1>7. CASE Environment
  BY <1>1, <1>2, <1>3, <1>7, ControlKeeps DEF Environment
<1>8. CASE UNCHANGED vars
  BY <1>8, ControlKeeps
<1> QED
  BY <1>1, <1>2, <1>3, <1>5, <1>6, <1>7, <1>8 DEF Next

\* The invariant holds in every reachable state.
LEMMA MuxCorrect == Spec => []MuxInv
  BY InitMux, NextMux, PTL DEF Spec

\* transferDataToServer and acceptConnection run only when initialize has set
\* mgsConn and muxClient, and no Stop makes them nil again.
THEOREM StreamsReadyCorrect == Spec => []StreamsReady
<1>1. MuxInv => StreamsReady
  BY DEF MuxInv, EndsSet, Started, StreamsReady
<1> QED
  BY <1>1, MuxCorrect, PTL

\* The unix socket's file is gone when mgsConn is closed or initialize failed,
\* in whatever order the two callers of Stop and initialize come to it.
THEOREM SocketFileGoneCorrect == Spec => []SocketFileGone
<1>1. MuxInv => SocketFileGone
  BY DEF MuxInv
<1> QED
  BY <1>1, MuxCorrect, PTL

\* When SetSessionHandlers returns handleClientConnections has closed the port.
THEOREM PortClosedAtEndCorrect == Spec => []PortClosedAtEnd
<1>1. MuxInv => PortClosedAtEnd
  BY DEF MuxInv, Started, PortServed, PortClosedAtEnd, SessionReturned
<1> QED
  BY <1>1, MuxCorrect, PTL
=============================================================================
