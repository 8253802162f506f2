---------------------------- MODULE ShellSession ----------------------------
(***************************************************************************)
(* A shell session (session/shellsession): main constructs it and runs     *)
(* SetSessionHandlers, which puts the terminal into raw mode, runs three   *)
(* goroutines in an errgroup (resize, signals, keyboard) and restores the  *)
(* terminal when all of them have returned.  The data channel's listener   *)
(* calls Stop when a channel_closed message arrives.                       *)
(***************************************************************************)
EXTENDS Naturals

CONSTANTS
    Sizes,      \* terminal sizes
    MaxResizes  \* bound: how often the user resizes the window

ASSUME ConstantsAssumption == Sizes # {} /\ MaxResizes \in Nat

VARIABLES
    main,       \* where NewShellSession / SetSessionHandlers is
    tty,        \* the modes of the terminal that are on
    original,   \* the modes that were on when the session was constructed
    originalSttyState,  \* ShellSession.originalSttyState
    stopHandler,\* the handler registered with the data channel
    shutdown,   \* ShellSession.shutdown: nil until SetSessionHandlers sets it
    cancelled,  \* the context of the errgroup is done
    workers,    \* where each goroutine of the errgroup is
    sttyFailed, \* where main was when a run of stty failed, or "no"
    listener,   \* the data channel's listener
    channelOpen,\* the websocket is open, so that sends can succeed
    size,       \* the window's size
    sizeData,   \* ShellSession.SizeData
    agentSize,  \* the size the agent was told last
    resizes

sizeVars == <<size, sizeData, agentSize, resizes>>
ttyVars == <<tty, original, originalSttyState, sttyFailed>>
vars == <<main, ttyVars, stopHandler, shutdown, cancelled, workers, listener, channelOpen,
          sizeVars>>

Workers == {"resize", "signals", "keyboard"}

\* Of the modes, those that the session sets.
Modes == {"cbreak", "echo"}

\* No size: the zero value of SizeData.
NoSize == "none"

-----------------------------------------------------------------------------
Init ==
    /\ main = "constructing"
    /\ original \in SUBSET Modes
    /\ tty = original
    /\ originalSttyState = {}
    /\ stopHandler = "none"
    /\ shutdown = "nil"
    /\ cancelled = FALSE
    /\ workers = [w \in Workers |-> "idle"]
    /\ sttyFailed = "no"
    /\ listener = "reading"
    /\ channelOpen = TRUE
    /\ size \in Sizes
    /\ sizeData = NoSize
    /\ agentSize = NoSize
    /\ resizes = 0

(* main *)

\* NewShellSession registers Stop with the data channel.
NewShellSession ==
    /\ main = "constructing"
    /\ stopHandler' = "Stop"
    /\ main' = "constructed"
    /\ UNCHANGED <<ttyVars, shutdown, cancelled, workers, listener, channelOpen, sizeVars>>

\* Not after a panic of the listener, which can only come here and ends the process.
SetShutdown ==
    /\ main = "constructed"
    /\ listener # "panicked"
    /\ shutdown' = "cancel"
    /\ main' = "getState"
    /\ UNCHANGED <<ttyVars, stopHandler, cancelled, workers, listener, channelOpen, sizeVars>>

\* A run of stty that puts the terminal into the given modes.  A failing one
\* changes nothing, and SetSessionHandlers returns with its error.
Stty(modes, next) ==
    /\ \/ main' = next /\ tty' = modes /\ UNCHANGED sttyFailed
       \/ main' = "returned" /\ sttyFailed' = main /\ UNCHANGED tty
    /\ UNCHANGED <<original, stopHandler, shutdown, cancelled, workers, listener, channelOpen,
                   sizeVars>>

\* disableEchoAndInputBuffering: the modes are saved, then set.  The restoration
\* is deferred only behind the last of the three runs.
GetState ==
    /\ main = "getState"
    /\ Stty(tty, "cbreak")
    /\ originalSttyState' = IF sttyFailed' = "no" THEN tty ELSE originalSttyState

DisableEchoAndInputBuffering ==
    \/ GetState
    \/ main = "cbreak" /\ Stty(tty \cup {"cbreak"}, "noecho") /\ UNCHANGED originalSttyState
    \/ main = "noecho" /\ Stty(tty \ {"echo"}, "starting") /\ UNCHANGED originalSttyState

StartWorkers ==
    /\ main = "starting"
    /\ workers' = [w \in Workers |-> "running"]
    /\ main' = "waiting"
    /\ UNCHANGED <<ttyVars, stopHandler, shutdown, cancelled, listener, channelOpen, sizeVars>>

\* Mutant of WaitReturns: the first goroutine that returns ends the wait.
WaitReturns_Any ==
    /\ main = "waiting"
    /\ \E w \in Workers : workers[w] = "returned"
    /\ main' = "restore"
    /\ UNCHANGED <<ttyVars, stopHandler, shutdown, cancelled, workers, listener, channelOpen,
                   sizeVars>>

\* eg.Wait returns when every goroutine has, whatever they returned.
WaitReturns ==
    /\ main = "waiting"
    /\ \A w \in Workers : workers[w] = "returned"
    /\ main' = "restore"
    /\ UNCHANGED <<ttyVars, stopHandler, shutdown, cancelled, workers, listener, channelOpen,
                   sizeVars>>

\* Mutant of EnableEchoAndInputBuffering: the saved modes are not put back.
EnableEchoAndInputBuffering_EchoOnly ==
    /\ main = "restore"
    /\ Stty(tty \cup {"echo"}, "returned")
    /\ UNCHANGED originalSttyState

\* The deferred enableEchoAndInputBuffering: back to the saved modes, then echo,
\* whether it was on before or not.
EnableEchoAndInputBuffering ==
    /\ \/ main = "restore" /\ Stty(originalSttyState, "echo")
       \/ main = "echo" /\ Stty(tty \cup {"echo"}, "returned")
    /\ UNCHANGED originalSttyState

(* the goroutines of the errgroup *)

\* A goroutine that returns an error cancels the group's context.
WorkerFails(w) ==
    /\ workers' = [workers EXCEPT ![w] = "returned"]
    /\ cancelled' = TRUE

\* Mutant of WorkerDone: the keyboard is read without regard to the context.
WorkerDone_BlockingRead(w) ==
    /\ workers[w] = "running"
    /\ cancelled
    /\ w # "keyboard"
    /\ workers' = [workers EXCEPT ![w] = "returned"]
    /\ UNCHANGED <<main, ttyVars, stopHandler, shutdown, cancelled, listener, channelOpen,
                   sizeVars>>

\* ctx.Done: the select of each loop, and the context-aware read of stdin.
WorkerDone(w) ==
    /\ workers[w] = "running"
    /\ cancelled
    /\ workers' = [workers EXCEPT ![w] = "returned"]
    /\ UNCHANGED <<main, ttyVars, stopHandler, shutdown, cancelled, listener, channelOpen,
                   sizeVars>>

\* Mutant of HandleTerminalResize: only the first size is reported.
HandleTerminalResize_Once ==
    /\ workers["resize"] = "running"
    /\ sizeData = NoSize
    /\ sizeData' = size
    /\ agentSize' = size
    /\ UNCHANGED <<main, ttyVars, stopHandler, shutdown, cancelled, workers, listener,
                   channelOpen, size, resizes>>

\* handleTerminalResize: SizeData is set before the size is sent.
HandleTerminalResize ==
    /\ workers["resize"] = "running"
    /\ sizeData # size
    /\ sizeData' = size
    /\ \/ /\ channelOpen
          /\ agentSize' = size
          /\ UNCHANGED <<workers, cancelled>>
       \/ /\ WorkerFails("resize")
          /\ UNCHANGED agentSize
    /\ UNCHANGED <<main, ttyVars, stopHandler, shutdown, listener, channelOpen, size, resizes>>

SendFails(w) ==
    /\ workers[w] = "running"
    /\ WorkerFails(w)
    /\ UNCHANGED <<main, ttyVars, stopHandler, shutdown, listener, channelOpen, sizeVars>>

\* A signal arrived and cannot be sent.  (Sending it changes nothing here.)
HandleControlSignals == SendFails("signals")

\* Stdin failed, or a key was read and cannot be sent.
HandleKeyboardInput == SendFails("keyboard")

(* the listener: handleChannelClosedMessage *)

\* Stop: close the data channel, then call shutdown; closing may fail, which
\* ends the listener.  Calling shutdown while it is nil panics.
ChannelClosed ==
    /\ listener = "reading"
    /\ stopHandler = "Stop"
    /\ channelOpen
    /\ channelOpen' = FALSE
    /\ \/ /\ shutdown = "cancel"
          /\ cancelled' = TRUE
          /\ listener' = "stopped"
       \/ /\ shutdown = "nil"
          /\ listener' = "panicked"
          /\ UNCHANGED cancelled
       \/ /\ listener' = "failed"
          /\ UNCHANGED cancelled
    /\ UNCHANGED <<main, ttyVars, stopHandler, shutdown, workers, sizeVars>>

\* Before the registration the default stop handler does nothing.
ChannelClosedEarly ==
    /\ listener = "reading"
    /\ stopHandler = "none"
    /\ listener' = "ignored"
    /\ UNCHANGED <<main, ttyVars, stopHandler, shutdown, cancelled, workers, channelOpen,
                   sizeVars>>

\* The listener ends for another reason and closes the channel; nobody tells
\* the session.
ListenerDies ==
    /\ listener \in {"reading", "ignored"}
    /\ listener' = "failed"
    /\ channelOpen' = FALSE
    /\ UNCHANGED <<main, ttyVars, stopHandler, shutdown, cancelled, workers, sizeVars>>

(* environment: the user resizes the window *)

Resize(s) ==
    /\ listener # "panicked"
    /\ resizes < MaxResizes
    /\ size # s
    /\ size' = s
    /\ resizes' = resizes + 1
    /\ UNCHANGED <<main, ttyVars, stopHandler, shutdown, cancelled, workers, listener,
                   channelOpen, sizeData, agentSize>>

-----------------------------------------------------------------------------
Main ==
    \/ NewShellSession \/ SetShutdown \/ DisableEchoAndInputBuffering \/ StartWorkers
    \/ WaitReturns \/ EnableEchoAndInputBuffering

Next ==
    \/ Main
    \/ \E w \in Workers : WorkerDone(w)
    \/ HandleTerminalResize \/ HandleControlSignals \/ HandleKeyboardInput
    \/ ChannelClosed \/ ChannelClosedEarly \/ ListenerDies
    \/ \E s \in Sizes : Resize(s)

Spec == Init /\ [][Next]_vars

(***************************************************************************)
(* Fairness: main and the goroutines run; a goroutine notices that its     *)
(* context is done, and the resize loop polls.  Nothing is assumed of the  *)
(* user, of stdin or of the agent.                                         *)
(***************************************************************************)
FairSpec ==
    /\ Spec
    /\ WF_vars(Main)
    /\ \A w \in Workers : WF_vars(WorkerDone(w))
    /\ WF_vars(HandleTerminalResize)

-----------------------------------------------------------------------------
(* Properties *)

\* The modes that are on after the run of stty at the given point has failed, or
\* none has: nothing repairs what the runs before the failed one have done.
Left(failed) ==
    CASE failed = "no" -> original \cup {"echo"}
      [] failed \in {"getState", "cbreak", "echo"} -> original
      [] failed = "noecho" -> original \cup {"cbreak"}
      [] failed = "restore" -> (original \cup {"cbreak"}) \ {"echo"}

\* However SetSessionHandlers ends, by Stop, a failed send, an error of stdin or one
\* of stty, the terminal is left in the original modes with echo, or in those in
\* which the failed run of stty found it.
TerminalLeft == main = "returned" => tty = Left(sttyFailed)

\* While a goroutine of the session runs the terminal stays raw: it is restored
\* only after the last of them is gone, also when Stop or a failing goroutine
\* has already cancelled the session.
RawWhileRunning ==
    (\E w \in Workers : workers[w] = "running") => tty = (original \cup {"cbreak"}) \ {"echo"}

\* Once Stop has cancelled the session, or one goroutine has failed, the
\* session ends, although the keyboard goroutine may be blocked on stdin.
CancelEnds == cancelled ~> main = "returned"

\* A new window size reaches the agent, unless the session goes down.
SizeReaches ==
    main = "waiting" ~> (agentSize = size \/ cancelled \/ main # "waiting")
=============================================================================
