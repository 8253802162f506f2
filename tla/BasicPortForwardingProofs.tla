--------------------- MODULE BasicPortForwardingProofs ---------------------
(***************************************************************************)
(* Theorems about BasicPortForwarding for any number of clients, messages  *)
(* and signals: the type invariant with the ownership of mu, that the      *)
(* listener never writes to a nil stream, that no client is accepted after *)
(* Stop, and that the agent is told between the data of two clients.       *)
(***************************************************************************)
EXTENDS BasicPortForwarding, SequenceTheorems, TLAPS

\* The entries of sent.
SentMessage == [flag : {"none", "DisconnectToPort", "TerminateSession"},
                client : 0..MaxClients]

\* Appending to sent keeps its type and, before the bound, its length.
LEMMA SentAppend ==
    ASSUME TypeOK, CanSend, NEW e \in SentMessage
    PROVE  /\ Append(sent, e) \in Seq(SentMessage)
           /\ Len(Append(sent, e)) <= MaxSent
<1>1. sent \in Seq(SentMessage) /\ Len(sent) \in Nat /\ Len(sent) < MaxSent
  BY LenProperties DEF TypeOK, SentMessage, CanSend
<1>2. /\ Append(sent, e) \in Seq(SentMessage)
      /\ Len(Append(sent, e)) = Len(sent) + 1
  BY <1>1, AppendProperties
<1> QED
  BY <1>1, <1>2, ConstantsAssumption

\* Every step of the reader, the signal handler, the listener or the client keeps
\* the types and the ownership of mu.
LEMMA NextTypeOK == TypeOK /\ [Next]_vars => TypeOK'
<1> SUFFICES ASSUME TypeOK, [Next]_vars PROVE TypeOK'
  OBVIOUS
<1> USE ConstantsAssumption
<1>1. CASE ReaderRuns
  <2>1. CASE InitializeStreams
    BY <2>1 DEF InitializeStreams, Lock, TypeOK, signalVars, listenerVars
  <2>2. CASE StartLocalListener
    BY <2>2 DEF StartLocalListener, TypeOK, signalVars, listenerVars
  <2>3. CASE StartLocalListenerFails
    BY <2>3 DEF StartLocalListenerFails, ReaderReturns, TypeOK, signalVars, listenerVars
  <2>4. CASE ReadStream
    BY <2>4 DEF ReadStream, Lock, TypeOK, signalVars, listenerVars
  <2>5. CASE ReadError
    <3>1. Flag("DisconnectToPort") \in SentMessage
      BY DEF Flag, SentMessage
    <3>2. sent' \in Seq(SentMessage) /\ Len(sent') <= MaxSent
      BY <2>5, <3>1, SentAppend DEF ReadError
    <3> QED
      BY <2>5, <3>2 DEF ReadError, TypeOK, SentMessage, signalVars, listenerVars
  <2>6. CASE ReadErrorFlagFails
    BY <2>6 DEF ReadErrorFlagFails, ReaderReturns, TypeOK, signalVars, listenerVars
  <2>7. CASE ReconnectCloses
    BY <2>7 DEF ReconnectCloses, TypeOK, signalVars, listenerVars
  <2>8. CASE ReconnectCloseFails
    BY <2>8 DEF ReconnectCloseFails, ReaderReturns, TypeOK, signalVars, listenerVars
  <2> QED
    BY <1>1, <2>1, <2>2, <2>3, <2>4, <2>5, <2>6, <2>7, <2>8 DEF ReaderRuns
<1>2. CASE ReaderWaits
  <2>1. CASE StartLocalConn
    BY <2>1 DEF StartLocalConn, TypeOK, signalVars, listenerVars
  <2>2. CASE AcceptFails
    BY <2>2 DEF AcceptFails, ReaderReturns, TypeOK, signalVars, listenerVars
  <2>3. CASE ReadData
    <3>1. Data(client) \in SentMessage
      BY DEF Data, SentMessage, TypeOK
    <3>2. sent' \in Seq(SentMessage) /\ Len(sent') <= MaxSent
      BY <2>3, <3>1, SentAppend DEF ReadData
    <3> QED
      BY <2>3, <3>2 DEF ReadData, TypeOK, SentMessage, readerVars, signalVars, listenerVars
  <2>4. CASE SendDataFails
    BY <2>4 DEF SendDataFails, ReaderReturns, TypeOK, signalVars, listenerVars
  <2>5. CASE ReconnectAccepts
    BY <2>5 DEF ReconnectAccepts, TypeOK, signalVars, listenerVars
  <2> QED
    BY <1>2, <2>1, <2>2, <2>3, <2>4, <2>5 DEF ReaderWaits
<1>3. CASE Notify
  BY <1>3 DEF Notify, TypeOK, readerVars, listenerVars
<1>4. CASE SignalsRun
  <2>1. CASE TakeSignal
    BY <2>1 DEF TakeSignal, TypeOK, readerVars, listenerVars
  <2>2. CASE SendTerminateFlag
    <3>1. Flag("TerminateSession") \in SentMessage
      BY DEF Flag, SentMessage
    <3>2. sent' \in Seq(SentMessage) /\ Len(sent') <= MaxSent
      BY <2>2, <3>1, SentAppend DEF SendTerminateFlag
    <3> QED
      BY <2>2, <3>2 DEF SendTerminateFlag, TypeOK, SentMessage, readerVars, listenerVars
  <2>3. CASE SendTerminateFlagFails \/ SignalStopFails \/ TerminateSessionFails
    <3>1. SignalsFail
      BY <2>3 DEF SendTerminateFlagFails, SignalStopFails, TerminateSessionFails
    <3> QED
      BY <3>1 DEF SignalsFail, TypeOK, readerVars, listenerVars
  <2>4. CASE SignalStops
    <3>1. stopped' \in BOOLEAN
      BY <2>4 DEF SignalStops, StopSucceeds, TypeOK
    <3>2. stream' \in {"nil", "closed"}
      BY <2>4 DEF SignalStops, StopSucceeds
    <3> QED
      BY <2>4, <3>1, <3>2 DEF SignalStops, TypeOK, readerVars, listenerVars
  <2>5. CASE TerminateSession
    BY <2>5 DEF TerminateSession, TypeOK, readerVars, listenerVars
  <2>6. CASE SignalsCancelled
    BY <2>6 DEF SignalsCancelled, TypeOK, readerVars, listenerVars
  <2> QED
    BY <1>4, <2>1, <2>2, <2>3, <2>4, <2>5, <2>6 DEF SignalsRun
<1>5. CASE ListenerRuns
  <2>1. CASE IncomingMessageHandler
    BY <2>1 DEF IncomingMessageHandler, ListenerTo, Kinds, TypeOK, readerVars, signalVars
  <2>2. CASE ProcessStreamMessagePayload
    BY <2>2 DEF ProcessStreamMessagePayload, ListenerTo, TypeOK, readerVars, signalVars
  <2>3. CASE WriteStream
    BY <2>3 DEF WriteStream, ListenerTo, TypeOK, readerVars, signalVars
  <2>4. CASE WriteStreamFails
    BY <2>4 DEF WriteStreamFails, ListenerTo, TypeOK, readerVars, signalVars
  <2>5. CASE ChannelClosedStops
    BY <2>5 DEF ChannelClosedStops, StopSucceeds, ListenerTo, TypeOK, readerVars, signalVars
  <2>6. CASE ChannelClosedStopFails
    BY <2>6 DEF ChannelClosedStopFails, ListenerTo, TypeOK, readerVars, signalVars
  <2> QED
    BY <1>5, <2>1, <2>2, <2>3, <2>4, <2>5, <2>6 DEF ListenerRuns
<1>6. ASSUME NEW k \in Kinds, ReadMessage(k) PROVE TypeOK'
  BY <1>6 DEF ReadMessage, TypeOK, readerVars, signalVars
<1>7. CASE ClientDrops
  BY <1>7 DEF ClientDrops, TypeOK, readerVars, signalVars, listenerVars
<1>8. CASE UNCHANGED vars
  BY <1>8 DEF vars, TypeOK, readerVars, signalVars, listenerVars
<1> QED
  BY <1>1, <1>2, <1>3, <1>4, <1>5, <1>6, <1>7, <1>8 DEF Next

\* NewBasicPortForwarding leaves mu free and the stream nil.
LEMMA InitTypeOK == Init => TypeOK
<1> SUFFICES ASSUME Init PROVE TypeOK
  OBVIOUS
<1>1. sent \in Seq(SentMessage) /\ Len(sent) <= MaxSent
  BY ConstantsAssumption, EmptySeq DEF Init
<1>2. terminateSupported \in BOOLEAN /\ notified \in BOOLEAN /\ ctxDone \in BOOLEAN /\ stopped \in BOOLEAN
  BY DEF Init
<1>3. client \in 0..MaxClients /\ signalled \in 0..MaxSignals /\ messages \in 0..MaxMessages
  BY ConstantsAssumption DEF Init
<1> QED
  BY <1>1, <1>2, <1>3 DEF Init, TypeOK, SentMessage, Kinds

\* Every variable keeps its type, and mu is held exactly while the reader is
\* between the Lock and the deferred Unlock of InitializeStreams or ReadStream.
THEOREM TypeCorrect == Spec => []TypeOK
  BY InitTypeOK, NextTypeOK, PTL DEF Spec

-----------------------------------------------------------------------------
(***************************************************************************)
(* Where the reader is determines what the stream can be: it is set once,  *)
(* by the accept of InitializeStreams, and only the reader, which holds mu *)
(* then, replaces a stream that it has itself found broken and closed.     *)
(***************************************************************************)
StreamInv ==
    /\ NoClientAfterStop
    /\ NeverWritesNil
    /\ reader \in {"start", "binding", "accepting"} => stream = "nil"
    /\ reader \in {"connected", "reading", "reconnecting"} => stream # "nil"
    /\ reader = "reaccepting" => ~stopped
    /\ listener = "writing" => stream # "nil"

\* Initially there is no stream, and nobody has stopped it.
LEMMA InitStreamInv == Init => StreamInv
  BY DEF Init, StreamInv, NoClientAfterStop, NeverWritesNil

\* Stop, called by the signal handler or the listener, needs mu, so it does
\* not run while the reader is reaccepting.
LEMMA StopKeepsStreamInv ==
    ASSUME TypeOK, StreamInv, StopSucceeds, UNCHANGED reader,
           listener' = listener \/ listener' = "idle"
    PROVE  StreamInv'
<1>1. reader \in {"start", "connected", "returned"}
  BY DEF TypeOK, StopSucceeds
<1>2. CASE stream = "nil"
  <2>1. ~stopped
    BY <1>2 DEF StreamInv, NoClientAfterStop
  <2>2. stream' = "nil" /\ ~stopped'
    BY <1>2, <2>1 DEF StopSucceeds
  <2> QED
    BY <1>1, <1>2, <2>2 DEF StreamInv, NoClientAfterStop, NeverWritesNil
<1>3. CASE stream # "nil"
  <2>1. stream' = "closed"
    BY <1>3 DEF StopSucceeds
  <2> QED
    BY <1>1, <1>3, <2>1 DEF StreamInv, NoClientAfterStop, NeverWritesNil
<1> QED
  BY <1>2, <1>3

\* Each step of every goroutine preserves StreamInv.
LEMMA NextStreamInv == TypeOK /\ StreamInv /\ [Next]_vars => StreamInv'
<1> SUFFICES ASSUME TypeOK, StreamInv, [Next]_vars PROVE StreamInv'
  OBVIOUS
<1> USE DEF StreamInv, NoClientAfterStop, NeverWritesNil
<1>1. CASE ReaderRuns
  BY <1>1 DEF ReaderRuns, InitializeStreams, StartLocalListener, StartLocalListenerFails,
       ReadStream, Lock, ReadError, ReadErrorFlagFails, ReconnectCloses, ReconnectCloseFails,
       ReaderReturns, signalVars, listenerVars
<1>2. CASE ReaderWaits
  BY <1>2 DEF ReaderWaits, StartLocalConn, AcceptFails, ReadData, SendDataFails,
       ReconnectAccepts, ReaderReturns, readerVars, signalVars, listenerVars
<1>3. CASE Notify
  BY <1>3 DEF Notify, readerVars, listenerVars
<1>4. CASE SignalsRun
  <2>1. CASE SignalStops
    BY <2>1, StopKeepsStreamInv DEF SignalStops, readerVars, listenerVars
  <2>2. CASE UNCHANGED <<stream, reader, stopped, listener>>
    BY <2>2
  <2> QED
    BY <1>4, <2>1, <2>2 DEF SignalsRun, TakeSignal, SendTerminateFlag, SendTerminateFlagFails,
       SignalStopFails, TerminateSession, TerminateSessionFails, SignalsCancelled, SignalsFail,
       readerVars, listenerVars
<1>5. CASE ListenerRuns
  <2>1. CASE ChannelClosedStops
    BY <2>1, StopKeepsStreamInv DEF ChannelClosedStops, ListenerTo, readerVars
  <2>2. CASE IncomingMessageHandler
    BY <2>2 DEF IncomingMessageHandler, ListenerTo, readerVars
  <2>3. CASE ProcessStreamMessagePayload
    BY <2>3 DEF ProcessStreamMessagePayload, ListenerTo, readerVars
  <2>4. CASE WriteStream \/ WriteStreamFails
    BY <2>4 DEF WriteStream, WriteStreamFails, ListenerTo, readerVars
  <2>5. CASE ChannelClosedStopFails
    BY <2>5 DEF ChannelClosedStopFails, ListenerTo, readerVars
  <2> QED
    BY <1>5, <2>1, <2>2, <2>3, <2>4, <2>5 DEF ListenerRuns
<1>6. ASSUME NEW k \in Kinds, ReadMessage(k) PROVE StreamInv'
  BY <1>6 DEF ReadMessage, readerVars
<1>7. CASE ClientDrops
  BY <1>7 DEF ClientDrops, readerVars, listenerVars
<1>8. CASE UNCHANGED vars
  BY <1>8 DEF vars, readerVars, listenerVars
<1> QED
  BY <1>1, <1>2, <1>3, <1>4, <1>5, <1>6, <1>7, <1>8 DEF Next

\* StreamInv holds in every reachable state.
LEMMA StreamInvCorrect == Spec => []StreamInv
<1>1. Init => TypeOK /\ StreamInv
  BY InitTypeOK, InitStreamInv
<1>2. (TypeOK /\ StreamInv) /\ [Next]_vars => (TypeOK /\ StreamInv)'
  BY NextTypeOK, NextStreamInv
<1> QED
  BY <1>1, <1>2, PTL DEF Spec

\* Once Stop has closed the stream no further client is accepted, from any
\* state of the reader and whoever called Stop.
THEOREM NoClientAfterStopCorrect == Spec => []NoClientAfterStop
<1>1. StreamInv => NoClientAfterStop
  BY DEF StreamInv
<1> QED
  BY <1>1, StreamInvCorrect, PTL

\* IsStreamNotSet and WriteStream lock mu separately, and still WriteStream
\* always finds a stream.
THEOREM NeverWritesNilCorrect == Spec => []NeverWritesNil
<1>1. StreamInv => NeverWritesNil
  BY DEF StreamInv
<1> QED
  BY <1>1, StreamInvCorrect, PTL

-----------------------------------------------------------------------------
(* The data of different clients *)

\* Between the data of two different clients in s there is the flag.
Separated(s) ==
    \A i, j \in DOMAIN s :
        (i < j /\ s[i].flag = "none" /\ s[j].flag = "none" /\ s[i].client # s[j].client)
            => \E k \in i..j : s[k].flag = "DisconnectToPort"

\* The flag follows the entry i of s.
Ended(s, i) == \E k \in i..Len(s) : s[k].flag = "DisconnectToPort"

\* The flag follows the data of every client.
AllEnded(s) == \A i \in DOMAIN s : s[i].flag = "none" => Ended(s, i)

\* The flag follows the data of every client but c.
OthersEnded(s, c) ==
    \A i \in DOMAIN s : s[i].flag = "none" => s[i].client = c \/ Ended(s, i)

\* A message sent later takes no flag away.
LEMMA EndedAppend ==
    ASSUME NEW s \in Seq(SentMessage), NEW e \in SentMessage, NEW i \in DOMAIN s
    PROVE  /\ Append(s, e)[i] = s[i]
           /\ Ended(s, i) => Ended(Append(s, e), i)
           /\ e.flag = "DisconnectToPort" => Ended(Append(s, e), i)
<1> DEFINE t == Append(s, e)
<1>1. /\ Len(s) \in Nat /\ DOMAIN s = 1..Len(s)
      /\ Len(t) = Len(s) + 1
      /\ \A k \in 1..Len(s) : t[k] = s[k]
      /\ t[Len(s) + 1] = e
  BY LenProperties, AppendProperties
<1> HIDE DEF t
<1>2. Ended(s, i) => Ended(t, i)
  <2>1. \A k \in i..Len(s) : k \in i..Len(t) /\ t[k] = s[k]
    BY <1>1
  <2> QED
    BY <2>1 DEF Ended
<1>3. e.flag = "DisconnectToPort" => Ended(t, i)
  <2>1. Len(s) + 1 \in i..Len(t)
    BY <1>1
  <2> QED
    BY <1>1, <2>1 DEF Ended
<1> QED
  BY <1>1, <1>2, <1>3 DEF t

\* A flag separates nothing that was not, and DisconnectToPort ends all data.
LEMMA SendFlag ==
    ASSUME NEW s \in Seq(SentMessage), NEW e \in SentMessage, e.flag # "none", Separated(s)
    PROVE  /\ Separated(Append(s, e))
           /\ AllEnded(s) => AllEnded(Append(s, e))
           /\ e.flag = "DisconnectToPort" => AllEnded(Append(s, e))
           /\ \A c : OthersEnded(s, c) => OthersEnded(Append(s, e), c)
<1> DEFINE t == Append(s, e)
<1>1. /\ Len(s) \in Nat /\ DOMAIN s = 1..Len(s) /\ DOMAIN t = 1..(Len(s) + 1)
      /\ t[Len(s) + 1] = e
  BY LenProperties, AppendProperties
<1>2. \A i \in DOMAIN s : /\ t[i] = s[i]
                          /\ Ended(s, i) => Ended(t, i)
                          /\ e.flag = "DisconnectToPort" => Ended(t, i)
  BY EndedAppend
<1> HIDE DEF t
<1>3. \A i \in DOMAIN t : t[i].flag = "none" => i \in DOMAIN s
  BY <1>1
<1>4. ASSUME NEW i \in DOMAIN t, NEW j \in DOMAIN t, i < j,
             t[i].flag = "none", t[j].flag = "none", t[i].client # t[j].client
      PROVE  \E k \in i..j : t[k].flag = "DisconnectToPort"
  <2>1. i \in DOMAIN s /\ j \in DOMAIN s
    BY <1>3, <1>4
  <2>2. PICK k \in i..j : s[k].flag = "DisconnectToPort"
    BY <1>2, <1>4, <2>1 DEF Separated
  <2>3. k \in DOMAIN s
    BY <1>1, <2>1
  <2> QED
    BY <1>2, <2>2, <2>3
<1>5. Separated(t)
  BY <1>4 DEF Separated
<1> QED
  BY <1>2, <1>3, <1>5 DEF AllEnded, OthersEnded, t

\* Data of the present client may follow when the others' is ended.
LEMMA SendData ==
    ASSUME NEW s \in Seq(SentMessage), NEW e \in SentMessage, e.flag = "none",
           Separated(s), OthersEnded(s, e.client)
    PROVE  Separated(Append(s, e)) /\ OthersEnded(Append(s, e), e.client)
<1> DEFINE t == Append(s, e)
<1>1. /\ Len(s) \in Nat /\ DOMAIN s = 1..Len(s) /\ DOMAIN t = 1..(Len(s) + 1)
      /\ t[Len(s) + 1] = e
  BY LenProperties, AppendProperties
<1>2. \A i \in DOMAIN s : /\ t[i] = s[i]
                          /\ Ended(s, i) => Ended(t, i)
  BY EndedAppend
<1> HIDE DEF t
<1>3. ASSUME NEW i \in DOMAIN t, NEW j \in DOMAIN t, i < j,
             t[i].flag = "none", t[j].flag = "none", t[i].client # t[j].client
      PROVE  \E k \in i..j : t[k].flag = "DisconnectToPort"
  <2>1. i \in DOMAIN s
    BY <1>1, <1>3
  <2>2. CASE j \in DOMAIN s
    <3>1. PICK k \in i..j : s[k].flag = "DisconnectToPort"
      BY <1>2, <1>3, <2>1, <2>2 DEF Separated
    <3>2. k \in DOMAIN s
      BY <1>1, <2>1, <2>2
    <3> QED
      BY <1>2, <3>1, <3>2
  <2>3. CASE j = Len(s) + 1
    <3>1. Ended(s, i)
      BY <1>1, <1>2, <1>3, <2>1, <2>3 DEF OthersEnded
    <3>2. PICK k \in i..Len(s) : s[k].flag = "DisconnectToPort"
      BY <3>1 DEF Ended
    <3>3. k \in DOMAIN s /\ k \in i..j
      BY <1>1, <2>1, <2>3
    <3> QED
      BY <1>2, <3>2, <3>3
  <2> QED
    BY <1>1, <2>2, <2>3
<1>4. OthersEnded(t, e.client)
  BY <1>1, <1>2 DEF OthersEnded
<1>5. Separated(t)
  BY <1>3 DEF Separated
<1> QED
  BY <1>4, <1>5 DEF t

\* ClientsSeparated is inductive with what the reader owes the agent: before it
\* accepts a client the data of all earlier ones is ended, and until then that
\* of all but the present one.
SeparationInv ==
    /\ Separated(sent)
    /\ OthersEnded(sent, client)
    /\ reader \in {"start", "binding", "accepting", "reconnecting", "reaccepting"}
           => AllEnded(sent)

\* Nothing has been sent.
LEMMA InitSeparation == Init => SeparationInv
  BY DEF Init, SeparationInv, Separated, OthersEnded, AllEnded

\* Whatever the signal handler sends in between, only the reader sends data, and
\* it tells the agent of a client's end before it lets the next one in.
LEMMA NextSeparation == TypeOK /\ SeparationInv /\ [Next]_vars => SeparationInv'
<1> SUFFICES ASSUME TypeOK, SeparationInv, [Next]_vars PROVE SeparationInv'
  OBVIOUS
<1>0. sent \in Seq(SentMessage) /\ client \in 0..MaxClients
  BY DEF TypeOK, SentMessage
<1>a. \A c : AllEnded(sent) => OthersEnded(sent, c)
  BY DEF AllEnded, OthersEnded
<1>1. CASE ReadError
  <2>1. Flag("DisconnectToPort") \in SentMessage /\ Flag("DisconnectToPort").flag = "DisconnectToPort"
    BY ConstantsAssumption DEF Flag, SentMessage
  <2> QED
    BY <1>0, <1>1, <2>1, SendFlag DEF ReadError, SeparationInv
<1>2. CASE SendTerminateFlag
  <2>1. Flag("TerminateSession") \in SentMessage /\ Flag("TerminateSession").flag = "TerminateSession"
    BY ConstantsAssumption DEF Flag, SentMessage
  <2> QED
    BY <1>0, <1>2, <2>1, SendFlag DEF SendTerminateFlag, SeparationInv, readerVars
<1>3. CASE ReadData
  <2>1. /\ Data(client) \in SentMessage
        /\ Data(client).flag = "none" /\ Data(client).client = client
    BY <1>0 DEF Data, SentMessage
  <2> QED
    BY <1>0, <1>3, <2>1, SendData DEF ReadData, SeparationInv, readerVars
<1>4. CASE StartLocalConn \/ ReconnectAccepts
  BY <1>4, <1>a DEF StartLocalConn, ReconnectAccepts, SeparationInv
<1>5. CASE ReconnectCloses \/ InitializeStreams \/ StartLocalListener \/ ReadStream
  BY <1>5 DEF ReconnectCloses, InitializeStreams, StartLocalListener, ReadStream, Lock,
              SeparationInv
<1>6. CASE sent' = sent /\ client' = client /\ reader' \in {reader, "returned"}
  BY <1>6 DEF SeparationInv
<1>7. \/ ReadError \/ SendTerminateFlag \/ ReadData \/ StartLocalConn \/ ReconnectAccepts
      \/ ReconnectCloses \/ InitializeStreams \/ StartLocalListener \/ ReadStream
      \/ sent' = sent /\ client' = client /\ reader' \in {reader, "returned"}
  <2>1. CASE ReaderRuns
    BY <2>1 DEF ReaderRuns, StartLocalListenerFails, ReadErrorFlagFails, ReconnectCloseFails,
                ReaderReturns
  <2>2. CASE ReaderWaits
    BY <2>2 DEF ReaderWaits, AcceptFails, SendDataFails, ReaderReturns
  <2>3. CASE SignalsRun \/ Notify
    BY <2>3 DEF SignalsRun, Notify, TakeSignal, SendTerminateFlagFails, SignalStops,
                SignalStopFails, TerminateSession, TerminateSessionFails, SignalsCancelled,
                SignalsFail, readerVars
  <2>4. CASE ListenerRuns
    BY <2>4 DEF ListenerRuns, IncomingMessageHandler, ProcessStreamMessagePayload, WriteStream,
                WriteStreamFails, ChannelClosedStops, ChannelClosedStopFails, ListenerTo, readerVars
  <2>5. CASE (\E k \in Kinds : ReadMessage(k)) \/ ClientDrops \/ UNCHANGED vars
    BY <2>5 DEF ReadMessage, ClientDrops, vars, readerVars
  <2> QED
    BY <2>1, <2>2, <2>3, <2>4, <2>5 DEF Next
<1> QED
  BY <1>1, <1>2, <1>3, <1>4, <1>5, <1>6, <1>7

\* Between the data of two clients the agent always gets the DisconnectToPort
\* flag, however signals, Stop and lost clients fall between ReadStream's steps.
THEOREM ClientsSeparatedCorrect == Spec => []ClientsSeparated
<1>1. Init => TypeOK /\ SeparationInv
  BY InitTypeOK, InitSeparation
<1>2. (TypeOK /\ SeparationInv) /\ [Next]_vars => (TypeOK /\ SeparationInv)'
  BY NextTypeOK, NextSeparation
<1>3. SeparationInv => ClientsSeparated
  BY DEF SeparationInv, Separated, ClientsSeparated
<1> QED
  BY <1>1, <1>2, <1>3, PTL DEF Spec
=============================================================================
