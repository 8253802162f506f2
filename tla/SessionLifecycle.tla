-------------------------- MODULE SessionLifecycle --------------------------
(***************************************************************************)
(* A session from the call of AttachShellSession or                        *)
(* AttachPortForwardingSession (cluster/cluster.go) to its result:         *)
(* executor/executor.go, session/session.go, the choice of the plugin in   *)
(* session/portsession/portsession.go, and the forwarding of standard      *)
(* streams (standardstreamforwarding.go) in full.                          *)
(*                                                                         *)
(* The shell and the two other kinds of port forwarding have modules of    *)
(* their own; here they run and return.  The main goroutine waits for the  *)
(* plugin; the listener runs beside it as soon as the data channel is      *)
(* open, and calls the handlers that the main goroutine registers.         *)
(***************************************************************************)
EXTENDS AgentVersion

CONSTANTS
    MaxChunks,    \* bound: pieces of input that stdin delivers
    MaxMessages   \* bound: output and channel_closed messages from the agent

VARIABLES
    main, result,            \* the main goroutine and what it returns
    remote,                  \* AWS has started the session
    channel,                 \* the websocket: "new", "open" or "closed"
    sessionType, portType,   \* from the handshake
    agentVersion,
    plugin,                  \* the ISessionPlugin, and the handlers it registered
    outputHandler, stopHandler,
    inputStream, outputStream,   \* "nil", "open" or "closed"
    reader,                  \* the goroutine that runs ReadStream
    listener, stopErrs,      \* the listener; errors that Stop has collected
    chunks, messages,        \* input and output that there was
    lost                     \* history: input was read and not sent

handshakeVars == <<sessionType, portType, agentVersion>>
pluginVars == <<plugin, outputHandler, stopHandler>>
streamVars == <<inputStream, outputStream>>
listenerVars == <<listener, stopErrs, messages>>
readerVars == <<reader, chunks, lost>>
mainVars == <<main, result, remote>>
vars == <<mainVars, channel, handshakeVars, pluginVars, streamVars, readerVars, listenerVars>>

\* Versions around the three that the code compares with.
AgentVersions ==
    {<<>>, <<3, 1>>, <<Junk, 1, 0, 0>>}
        \cup {<<major, minor, patch, build>> :
                 major \in {2, 3}, minor \in {0, 1, 3, Junk},
                 patch \in {196, 722, 1511, Junk}, build \in {0, 1, Junk}}

Init ==
    /\ main = "describing"
    /\ result = "none"
    /\ remote = FALSE
    /\ channel = "new"
    /\ sessionType = "" /\ portType = "" /\ agentVersion = <<>>
    /\ plugin = "none"
    /\ outputHandler = FALSE
    /\ stopHandler = FALSE
    /\ inputStream = "nil" /\ outputStream = "nil"
    /\ reader = "none"
    /\ listener = "none"
    /\ stopErrs = FALSE
    /\ chunks = 0
    /\ messages = 0
    /\ lost = FALSE

-----------------------------------------------------------------------------
(* The main goroutine *)

Return(r) == main' = "returned" /\ result' = r

\* getContainerRuntimeID, buildTargetID, StartSession or ExecuteCommand,
\* newSession, OpenDataChannel and the constructor of the plugin return in this
\* order; each can fail.  Nothing undoes what was done before.  A listener that
\* ends before the session type is known leaves OpenDataChannel waiting.
MainFails ==
    /\ main \in {"describing", "targeting", "starting", "creating", "opening", "constructing"}
    /\ main = "opening" => channel # "closed"
    /\ plugin = "none"
    /\ Return("error")
    /\ UNCHANGED <<remote, channel, handshakeVars, pluginVars, streamVars, readerVars,
                   listenerVars>>

\* The task is found and has a container of that name with a runtime ID.
GetContainerRuntimeID ==
    /\ main = "describing"
    /\ main' = "targeting"
    /\ UNCHANGED <<result, remote, channel, handshakeVars, pluginVars, streamVars,
                   readerVars, listenerVars>>

\* The task's ARN is in the long format.
BuildTargetID ==
    /\ main = "targeting"
    /\ main' = "starting"
    /\ UNCHANGED <<result, remote, channel, handshakeVars, pluginVars, streamVars,
                   readerVars, listenerVars>>

\* StartSession and ExecuteCommand; the answer may be lost.
StartSession ==
    /\ main = "starting"
    /\ remote' = TRUE
    /\ \/ main' = "creating" /\ UNCHANGED result
       \/ Return("error")
    /\ UNCHANGED <<channel, handshakeVars, pluginVars, streamVars, readerVars, listenerVars>>

NewSession ==
    /\ main = "creating"
    /\ main' = "opening"
    /\ UNCHANGED <<result, remote, channel, handshakeVars, pluginVars, streamVars,
                   readerVars, listenerVars>>

\* The websocket is open and the listener reads it.
OpenDataChannel ==
    /\ main = "opening"
    /\ channel = "new"
    /\ channel' = "open"
    /\ listener' = "reading"
    /\ UNCHANGED <<mainVars, handshakeVars, pluginVars, streamVars, readerVars, stopErrs, messages>>

\* establishSessionType: what the handshake, or the first message, has set.
SessionTypeSet ==
    /\ main = "opening"
    /\ listener = "reading"
    /\ main' = "constructing"
    /\ \E type \in {"Shell", "Port", "other"} :
           /\ sessionType' = type
           /\ portType' \in IF type = "Port" THEN {"LocalPortForwarding", "Standard"} ELSE {""}
           /\ agentVersion' \in IF portType' = "LocalPortForwarding" THEN AgentVersions ELSE {<<>>}
    /\ UNCHANGED <<result, remote, channel, pluginVars, streamVars, readerVars, listenerVars>>

\* Mutant of ChoosePlugin: a version that cannot be compared counts as new.
ChoosePlugin_ErrorIsNew ==
    CASE sessionType = "Shell" -> "shell"
      [] portType = "LocalPortForwarding" ->
             IF agentVersion = <<>> \/ Compare(agentVersion, TCPMultiplexingSupportedAfter)
                                           \in {"greater", "error"}
             THEN "mux" ELSE "basic"
      [] OTHER -> "standard"

\* initSession and NewPortSession.
ChoosePlugin ==
    CASE sessionType = "Shell" -> "shell"
      [] portType = "LocalPortForwarding" ->
             IF DoesAgentSupportTCPMultiplexing(agentVersion) THEN "mux" ELSE "basic"
      [] OTHER -> "standard"

\* The constructor makes the plugin and registers its handlers one by one.
NewPlugin ==
    /\ main = "constructing"
    /\ sessionType # "other"
    /\ plugin = "none"
    /\ plugin' = ChoosePlugin
    /\ outputHandler' = TRUE
    /\ UNCHANGED <<mainVars, channel, handshakeVars, stopHandler, streamVars, readerVars,
                   listenerVars>>

RegisterStopHandler ==
    /\ main = "constructing"
    /\ plugin # "none"
    /\ stopHandler' = TRUE
    /\ main' = "running"
    /\ reader' = IF plugin = "standard" THEN "initialising" ELSE "elsewhere"
    /\ UNCHANGED <<result, remote, channel, handshakeVars, plugin, outputHandler, streamVars,
                   chunks, lost, listenerVars>>

\* SetSessionHandlers returned: net.ErrClosed is not an error.
SessionEnds ==
    /\ main = "running"
    /\ reader \in {"nil", "error", "net.ErrClosed"}
    /\ Return(IF reader = "error" THEN "error" ELSE "nil")
    /\ UNCHANGED <<remote, channel, handshakeVars, pluginVars, streamVars, readerVars,
                   listenerVars>>

\* The other plugins: see ShellSession, BasicPortForwarding, MuxPortForwarding.
OtherPluginReturns ==
    /\ reader = "elsewhere"
    /\ reader' \in {"nil", "error", "net.ErrClosed"}
    /\ UNCHANGED <<mainVars, channel, handshakeVars, pluginVars, streamVars, chunks, lost,
                   listenerVars>>

-----------------------------------------------------------------------------
(* StandardStreamForwarding: InitializeStreams and ReadStream *)

\* Two assignments, in any order for another goroutine.
InitializeInput ==
    /\ reader = "initialising"
    /\ inputStream = "nil"
    /\ inputStream' = "open"
    /\ UNCHANGED <<mainVars, channel, handshakeVars, pluginVars, outputStream, readerVars,
                   listenerVars>>

InitializeOutput ==
    /\ reader = "initialising"
    /\ outputStream = "nil"
    /\ outputStream' = "open"
    /\ UNCHANGED <<mainVars, channel, handshakeVars, pluginVars, inputStream, readerVars,
                   listenerVars>>

InitializeStreams ==
    /\ reader = "initialising"
    /\ inputStream # "nil" /\ outputStream # "nil"
    /\ reader' = "calling"
    /\ UNCHANGED <<mainVars, channel, handshakeVars, pluginVars, streamVars, chunks, lost,
                   listenerVars>>

\* Mutant of Read: a closed stream is read again and again.
Read_Retries ==
    /\ reader = "calling"
    /\ reader' = IF inputStream = "closed" THEN "calling" ELSE "blocked"
    /\ UNCHANGED <<mainVars, channel, handshakeVars, pluginVars, streamVars, chunks, lost,
                   listenerVars>>

\* Read of a file that is closed fails with os.ErrClosed, which is not
\* net.ErrClosed; otherwise the goroutine waits for input.
Read ==
    /\ reader = "calling"
    /\ reader' = IF inputStream = "closed" THEN "error" ELSE "blocked"
    /\ UNCHANGED <<mainVars, channel, handshakeVars, pluginVars, streamVars, chunks, lost,
                   listenerVars>>

\* Closing the file does not wake a Read of stdin that is under way.
StdinDelivers ==
    /\ reader = "blocked"
    /\ chunks < MaxChunks
    /\ chunks' = chunks + 1
    /\ reader' = "sending"
    /\ UNCHANGED <<mainVars, channel, handshakeVars, pluginVars, streamVars, lost, listenerVars>>

\* The end of the input (nil), or a read error.
StdinEnds ==
    /\ reader = "blocked"
    /\ reader' \in {"nil", "error"}
    /\ UNCHANGED <<mainVars, channel, handshakeVars, pluginVars, streamVars, chunks, lost,
                   listenerVars>>

\* SendInputDataMessage: the websocket is asked whether it is open ...
SendChecks ==
    /\ reader = "sending"
    /\ reader' = IF channel = "open" THEN "writing" ELSE "error"
    /\ lost' = (lost \/ channel # "open")
    /\ UNCHANGED <<mainVars, channel, handshakeVars, pluginVars, streamVars, chunks, listenerVars>>

\* Mutant of SendWrites: an error is ignored.
SendWrites_Ignores ==
    /\ reader = "writing"
    /\ \/ channel = "open" /\ reader' = "calling" /\ UNCHANGED lost
       \/ reader' = "calling" /\ lost' = TRUE
    /\ UNCHANGED <<mainVars, channel, handshakeVars, pluginVars, streamVars, chunks, listenerVars>>

\* ... and is written to; it may have been closed in between, or fail.
SendWrites ==
    /\ reader = "writing"
    /\ \/ channel = "open" /\ reader' = "calling" /\ UNCHANGED lost
       \/ channel = "closed" /\ reader' = "net.ErrClosed" /\ lost' = TRUE
       \/ channel = "open" /\ reader' = "error" /\ lost' = TRUE
    /\ UNCHANGED <<mainVars, channel, handshakeVars, pluginVars, streamVars, chunks, listenerVars>>

-----------------------------------------------------------------------------
(* The listener *)

CloseAndReturn == channel' = "closed" /\ listener' = "none"

\* Mutant of IsStreamNotSet: one of the two streams is asked for.
IsStreamNotSet_Input == inputStream = "nil"

IsStreamNotSet == inputStream = "nil" \/ outputStream = "nil"

\* An output message: ProcessStreamMessagePayload asks for the streams first,
\* and is not ready without.  Other plugins take it elsewhere.
OutputMessage ==
    /\ listener = "reading"
    /\ messages < MaxMessages
    /\ messages' = messages + 1
    /\ listener' = IF outputHandler /\ plugin = "standard" /\ ~IsStreamNotSet
                   THEN "writing" ELSE "reading"
    /\ UNCHANGED <<mainVars, channel, handshakeVars, pluginVars, streamVars, readerVars, stopErrs>>

WriteStream ==
    /\ listener = "writing"
    /\ outputStream = "open"
    /\ listener' = "reading"
    /\ UNCHANGED <<mainVars, channel, handshakeVars, pluginVars, streamVars, readerVars,
                   stopErrs, messages>>

\* The handler's error ends the listener.
WriteStreamFails ==
    /\ listener = "writing"
    /\ CloseAndReturn
    /\ UNCHANGED <<mainVars, handshakeVars, pluginVars, streamVars, readerVars, stopErrs, messages>>

\* channel_closed: before the plugin registers, the stop handler does nothing.
ChannelClosedMessage ==
    /\ listener = "reading"
    /\ messages < MaxMessages
    /\ messages' = messages + 1
    /\ listener' = IF stopHandler /\ plugin = "standard" THEN "closingInput" ELSE "reading"
    /\ stopErrs' = FALSE
    /\ UNCHANGED <<mainVars, channel, handshakeVars, pluginVars, streamVars, readerVars>>

\* Stop: closing a file that is nil or closed fails, and both are closed anyway.
StopInput ==
    /\ listener = "closingInput"
    /\ listener' = "closingOutput"
    /\ stopErrs' = (inputStream # "open")
    /\ inputStream' = IF inputStream = "open" THEN "closed" ELSE inputStream
    /\ UNCHANGED <<mainVars, channel, handshakeVars, pluginVars, outputStream, readerVars, messages>>

StopOutput ==
    /\ listener = "closingOutput"
    /\ outputStream' = IF outputStream = "open" THEN "closed" ELSE outputStream
    /\ IF stopErrs \/ outputStream # "open"
       THEN CloseAndReturn
       ELSE listener' = "reading" /\ UNCHANGED channel
    /\ UNCHANGED <<mainVars, handshakeVars, pluginVars, inputStream, readerVars, stopErrs, messages>>

\* The connection is lost for good, or a message cannot be handled.
ListenerFails ==
    /\ listener = "reading"
    /\ CloseAndReturn
    /\ UNCHANGED <<mainVars, handshakeVars, pluginVars, streamVars, readerVars, stopErrs, messages>>

-----------------------------------------------------------------------------
Main == \/ GetContainerRuntimeID \/ BuildTargetID \/ StartSession \/ NewSession
        \/ OpenDataChannel \/ SessionTypeSet \/ NewPlugin \/ RegisterStopHandler
        \/ SessionEnds \/ MainFails

Reader == \/ InitializeInput \/ InitializeOutput \/ InitializeStreams \/ Read
          \/ StdinDelivers \/ StdinEnds \/ SendChecks \/ SendWrites \/ OtherPluginReturns

Listener == \/ OutputMessage \/ WriteStream \/ WriteStreamFails \/ ChannelClosedMessage
            \/ StopInput \/ StopOutput \/ ListenerFails

Next == Main \/ Reader \/ Listener

Spec == Init /\ [][Next]_vars

(***************************************************************************)
(* Fairness: the main goroutine and the reader go on.  That the reader     *)
(* goes on while it waits for stdin is an assumption on the user: a key is *)
(* pressed some time, or the input ends.                                   *)
(***************************************************************************)
FairSpec == Spec /\ WF_vars(Reader) /\ WF_vars(SessionEnds)

-----------------------------------------------------------------------------
(* Properties *)

\* The multiplexing forwarder, which always ends a session with the
\* TerminateSession flag, is only chosen for agents that know the flag: the two
\* version thresholds are compared with the same code, in which malformed parts
\* and early returns decide differently (NewPortSession, compare, config.go).
MuxKnowsTerminateFlag ==
    plugin = "mux" => DoesAgentSupportTerminateSessionFlag(agentVersion)

\* The listener never writes to a stream that InitializeStreams has not set yet
\* (IsStreamNotSet, WriteStream); its error would close the whole channel.
WriteHasStream == listener = "writing" => outputStream # "nil"

\* A session that returns nil has sent all the input it read from stdin, unless
\* the channel was closed on this side while a write was under way
\* (initSession's net.ErrClosed, SendMessage's isOpen, handleReadError).
LossIsReported ==
    (main = "returned" /\ result = "nil" /\ lost) =>
        channel = "closed" /\ reader = "net.ErrClosed"

\* Once a channel_closed message has closed the streams, the session ends as
\* soon as stdin delivers anything or ends (Stop, ReadStream).
StopEndsSession ==
    (main = "running" /\ inputStream = "closed") ~> (main = "returned")
=============================================================================
