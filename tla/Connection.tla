----------------------------- MODULE Connection -----------------------------
(***************************************************************************)
(* The life of the websocket connection: DataChannel.Open, listen,         *)
(* reconnect and Close (datachannel/datachannel.go), the WebSocketChannel  *)
(* they drive (communicator/websocketchannel.go) and the retry loop around *)
(* them (retry/retryer.go).                                                *)
(*                                                                         *)
(* Two goroutines open or close the channel: main inside Open, and the     *)
(* listener from then on, on which the stop handler of a shell session     *)
(* runs too.  (The stop handlers of port sessions leave the channel        *)
(* alone.)  The pingers only look at isOpen.  Connections are numbered in  *)
(* the order in which they were dialled.  Messages whose handling succeeds *)
(* change nothing here and are stuttering steps.                           *)
(***************************************************************************)
EXTENDS Naturals

CONSTANTS
    MaxAttempts,   \* config.DataChannelNumMaxRetries
    RetryAttempt   \* config.RetryAttempt

ASSUME ConstantsAssumption ==
    /\ MaxAttempts \in Nat
    /\ RetryAttempt \in Nat \ {0}

VARIABLES
    isOpen,      \* WebSocketChannel.isOpen
    connection,  \* number of the connection in WebSocketChannel.connection, 0: none
    closed,      \* connections this side has closed
    broken,      \* connections that have failed
    pingers,     \* running startPings goroutines
    pc,          \* where each goroutine is
    calls,       \* calls of CallableFunc in the current Retryer.Call
    readErrors,  \* retryCount of ReadMessage
    stopped      \* the shell's stop handler has closed the channel

socketVars == <<isOpen, connection, closed, broken, pingers>>
vars == <<socketVars, pc, calls, readErrors, stopped>>

Goroutines == {"main", "listener"}

Usable == connection \notin closed \cup broken

\* WebSocketChannel.SendMessage can succeed.
CanSend == isOpen /\ Usable

-----------------------------------------------------------------------------
Init ==
    /\ isOpen = FALSE
    /\ connection = 0
    /\ closed = {}
    /\ broken = {}
    /\ pingers = 0
    /\ pc = [g \in Goroutines |-> IF g = "main" THEN "open" ELSE "idle"]
    /\ calls = [g \in Goroutines |-> 0]
    /\ readErrors = 0
    /\ stopped = FALSE

(* RepeatableExponentialRetryer.Call; the sleeps are abstracted *)

\* Mutant of FirstStep: Open retries without closing first.
FirstStep_NoClose(g) == IF g = "main" THEN "open" ELSE "refresh"

\* The first thing each retried function does.
FirstStep(g) == IF g = "main" THEN "reconnect" ELSE "refresh"

\* Mutant of GiveUp: listen returns without closing.
GiveUp_NoClose(g) == IF g = "main" THEN "failed" ELSE "dead"

\* What follows when the last attempt failed.
GiveUp(g) == IF g = "main" THEN "failed" ELSE "shut"

\* One more call, unless it was call number MaxAttempts + 1.
RetryOrGiveUp(g) ==
    IF calls[g] = MaxAttempts + 1
    THEN /\ pc' = [pc EXCEPT ![g] = GiveUp(g)]
         /\ UNCHANGED calls
    ELSE /\ pc' = [pc EXCEPT ![g] = FirstStep(g)]
         /\ calls' = [calls EXCEPT ![g] = @ + 1]

(* WebSocketChannel.Close *)

\* The CompareAndSwap decides who closes the connection.
Close ==
    /\ isOpen' = FALSE
    /\ closed' = IF isOpen THEN closed \cup {connection} ELSE closed
    /\ UNCHANGED <<connection, broken, pingers>>

\* DataChannel.reconnect closes first and then opens.
Reconnect(g) ==
    /\ pc[g] = "reconnect"
    /\ Close
    /\ pc' = [pc EXCEPT ![g] = "open"]
    /\ UNCHANGED <<calls, readErrors, stopped>>

(* DataChannel.open *)

\* Mutant of Dial: pinging is started with the first connection only.
Dial_PingOnce(g) ==
    /\ pc[g] = "open"
    /\ connection' = connection + 1
    /\ isOpen' = TRUE
    /\ pingers' = IF connection = 0 THEN pingers + 1 ELSE pingers
    /\ pc' = [pc EXCEPT ![g] = "token"]
    /\ UNCHANGED <<closed, broken, calls, readErrors, stopped>>

\* WebSocketChannel.Open succeeds and starts a pinger.
Dial(g) ==
    /\ pc[g] = "open"
    /\ connection' = connection + 1
    /\ isOpen' = TRUE
    /\ pingers' = pingers + 1
    /\ pc' = [pc EXCEPT ![g] = "token"]
    /\ UNCHANGED <<closed, broken, calls, readErrors, stopped>>

\* Mutant of DialFails: a failed dial is not counted.
DialFails_NotCounted(g) ==
    /\ pc[g] = "open"
    /\ pc' = [pc EXCEPT ![g] = FirstStep(g)]
    /\ UNCHANGED <<socketVars, calls, readErrors, stopped>>

DialFails(g) ==
    /\ pc[g] = "open"
    /\ RetryOrGiveUp(g)
    /\ UNCHANGED <<socketVars, readErrors, stopped>>

\* finalizeDataChannelHandshake: Open then starts the listener, while listen
\* goes on to handle the message it has not read.
SendToken(g) ==
    /\ pc[g] = "token"
    /\ CanSend
    /\ pc' = IF g = "main" THEN [pc EXCEPT !["main"] = "waiting", !["listener"] = "reading"]
                           ELSE [pc EXCEPT !["listener"] = "handlingNil"]
    /\ UNCHANGED <<socketVars, calls, readErrors, stopped>>

SendTokenFails(g) ==
    /\ pc[g] = "token"
    /\ RetryOrGiveUp(g)
    /\ UNCHANGED <<socketVars, readErrors, stopped>>

(* listen *)

\* ReadMessage fails with something else than io.EOF: start errorRetrier.Call.
StartReconnect ==
    /\ pc' = [pc EXCEPT !["listener"] = "refresh"]
    /\ calls' = [calls EXCEPT !["listener"] = 1]
    /\ readErrors' = 0

\* Mutant of ReadOnClosed: a closed channel is taken for a lost connection.
ReadOnClosed_Reconnects ==
    /\ pc["listener"] = "reading"
    /\ ~isOpen
    /\ StartReconnect
    /\ UNCHANGED <<socketVars, stopped>>

\* ErrConnectionClosed wraps io.EOF: listen returns.
ReadOnClosed ==
    /\ pc["listener"] = "reading"
    /\ ~isOpen
    /\ pc' = [pc EXCEPT !["listener"] = "eof"]
    /\ UNCHANGED <<socketVars, calls, readErrors, stopped>>

\* A read fails: try again until the limit.
ReadFails ==
    /\ pc["listener"] = "reading"
    /\ isOpen /\ ~Usable
    /\ IF readErrors + 1 >= RetryAttempt
       THEN StartReconnect
       ELSE /\ readErrors' = readErrors + 1
            /\ UNCHANGED <<pc, calls>>
    /\ UNCHANGED <<socketVars, stopped>>

\* The last failed read was an io.EOF: listen returns without closing.
ReadEOF ==
    /\ pc["listener"] = "reading"
    /\ isOpen /\ ~Usable
    /\ readErrors + 1 >= RetryAttempt
    /\ pc' = [pc EXCEPT !["listener"] = "eof"]
    /\ UNCHANGED <<socketVars, calls, readErrors, stopped>>

\* outputMessageHandler returns an error: Close and return.
HandlerFails ==
    /\ pc["listener"] = "reading"
    /\ isOpen /\ Usable
    /\ pc' = [pc EXCEPT !["listener"] = "shut"]
    /\ UNCHANGED <<socketVars, calls, readErrors, stopped>>

\* A channel_closed message reaches ShellSession.Stop, which closes the data
\* channel.  If that goes well listen reads on; otherwise it gives up.
ChannelClosed(ok) ==
    /\ pc["listener"] = "reading"
    /\ isOpen /\ Usable
    /\ pc["main"] = "running"
    /\ Close
    /\ stopped' = TRUE
    /\ pc' = [pc EXCEPT !["listener"] = IF ok THEN "reading" ELSE "shut"]
    /\ UNCHANGED <<calls, readErrors>>

\* listen closes the channel and returns.
Shut ==
    /\ pc["listener"] = "shut"
    /\ Close
    /\ pc' = [pc EXCEPT !["listener"] = "dead"]
    /\ UNCHANGED <<calls, readErrors, stopped>>

\* refreshTokenHandler got a token by ResumeSession.
RefreshToken ==
    /\ pc["listener"] = "refresh"
    /\ pc' = [pc EXCEPT !["listener"] = "reconnect"]
    /\ UNCHANGED <<socketVars, calls, readErrors, stopped>>

\* ResumeSession failed or returned no token.
RefreshFails ==
    /\ pc["listener"] = "refresh"
    /\ RetryOrGiveUp("listener")
    /\ UNCHANGED <<socketVars, readErrors, stopped>>

\* After a successful reconnect rawMessage is still nil, and a nil message
\* does not deserialise.
HandleNil ==
    /\ pc["listener"] = "handlingNil"
    /\ pc' = [pc EXCEPT !["listener"] = "shut"]
    /\ UNCHANGED <<socketVars, calls, readErrors, stopped>>

(* the session *)

\* establishSessionType returned and the shell session registered its stop
\* handler.
SessionRuns ==
    /\ pc["main"] = "waiting"
    /\ pc' = [pc EXCEPT !["main"] = "running"]
    /\ UNCHANGED <<socketVars, calls, readErrors, stopped>>

(* startPings *)

\* A pinger ends only when it wakes up and finds the channel closed.
PingerExits ==
    /\ pingers > 0
    /\ ~isOpen
    /\ pingers' = pingers - 1
    /\ UNCHANGED <<isOpen, connection, closed, broken, pc, calls, readErrors, stopped>>

(* environment *)

ConnectionBreaks ==
    /\ connection > 0
    /\ Usable
    /\ broken' = broken \cup {connection}
    /\ UNCHANGED <<isOpen, connection, closed, pingers, pc, calls, readErrors, stopped>>

-----------------------------------------------------------------------------
Channel(g) ==
    \/ Reconnect(g)
    \/ Dial(g) \/ DialFails(g)
    \/ SendToken(g) \/ SendTokenFails(g)

Listen ==
    \/ ReadOnClosed \/ ReadFails \/ ReadEOF
    \/ RefreshToken \/ RefreshFails \/ HandleNil \/ Shut

Next ==
    \/ \E g \in Goroutines : Channel(g)
    \/ Listen
    \/ HandlerFails
    \/ \E ok \in BOOLEAN : ChannelClosed(ok)
    \/ SessionRuns
    \/ PingerExits
    \/ ConnectionBreaks

Spec == Init /\ [][Next]_vars

(***************************************************************************)
(* Fairness: a goroutine that can run runs, and a call into the network    *)
(* returns.  Nothing is assumed of what the peer sends.                    *)
(***************************************************************************)
FairSpec ==
    /\ Spec
    /\ \A g \in Goroutines : WF_vars(Channel(g))
    /\ WF_vars(Listen)
    /\ WF_vars(PingerExits)

-----------------------------------------------------------------------------
(* Properties *)

\* An open channel is kept alive: some pinger runs, also right after a
\* reconnect, whatever the pingers of earlier connections have done.
PingerAlive == isOpen => pingers > 0

\* The connections that main and the listener dialled and that are not the
\* current one are closed: no attempt to reconnect leaks a socket.
NoLeakedConnection == \A c \in 1 .. (connection - 1) : c \in closed

\* After the stop handler has run the channel is never opened again, although
\* the handler runs inside the listener, which reconnects when a read fails:
\* it reads on a channel that it finds closed, and that ends it.
StoppedStaysClosed == stopped => ~isOpen

\* The dialling of Open and of the listener is bounded: each is over after
\* MaxAttempts + 1 retries, with a connection or with an error.
RetriesEnd ==
    /\ <>(pc["main"] \in {"waiting", "running", "failed"})
    /\ pc["listener"] = "refresh" ~> pc["listener"] \in {"handlingNil", "dead"}

\* When the listener has given up the pingers die out.
PingersEnd == pc["listener"] = "dead" ~> pingers = 0

\* "reconnect calls ResumeSession API to reconnect datachannel when connection
\* is lost": after a successful reconnect the listener reads again.
ReconnectResumes == pc["listener"] = "handlingNil" ~> pc["listener"] = "reading"

=============================================================================
