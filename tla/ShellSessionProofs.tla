------------------------- MODULE ShellSessionProofs -------------------------
(***************************************************************************)
(* Theorems about ShellSession for any window sizes and number of resizes: *)
(* the terminal is raw exactly while the session's goroutines run, and     *)
(* what is left of its modes.                                              *)
(***************************************************************************)
EXTENDS ShellSession, TLAPS

\* Where main is before the first mode is changed, and while the terminal is raw.
Untouched == {"constructing", "constructed", "getState", "cbreak"}
Raw == {"starting", "waiting", "restore"}

\* What the modes of the terminal are depends only on where main is, until it
\* returns, and on the original ones, which getState has saved when the first mode
\* is changed; and the goroutines run only while main waits for them.
ShellInv ==
    /\ main \in Untouched \cup Raw \cup {"noecho", "echo", "returned"}
    /\ main \in Untouched \cup {"echo"} => tty = original
    /\ main \notin {"constructing", "constructed", "getState", "returned"} =>
           originalSttyState = original
    /\ main = "noecho" => tty = original \cup {"cbreak"}
    /\ main \in Raw => tty = (original \cup {"cbreak"}) \ {"echo"}
    /\ main # "returned" => sttyFailed = "no"
    /\ TerminalLeft
    /\ DOMAIN workers = Workers
    /\ \A w \in Workers : workers[w] = "running" => main = "waiting"

\* The terminal is untouched and nothing runs at first.
LEMMA InitShell == Init => ShellInv
  BY DEF Init, ShellInv, TerminalLeft, Untouched, Raw

\* A step of the session's goroutines starts none and leaves main and the
\* terminal alone.
LEMMA WorkersKeep ==
    ASSUME ShellInv, UNCHANGED <<main, ttyVars>>,
           \/ UNCHANGED workers
           \/ \E w \in Workers : workers' = [workers EXCEPT ![w] = "returned"]
    PROVE  ShellInv'
  BY DEF ShellInv, TerminalLeft, Left, ttyVars

\* One step per action of main; the others do not change the terminal.
LEMMA NextShell == ShellInv /\ [Next]_vars => ShellInv'
<1> SUFFICES ASSUME ShellInv, [Next]_vars PROVE ShellInv'
  OBVIOUS
<1>1. CASE Main
  <2>1. CASE NewShellSession
    BY <2>1 DEF NewShellSession, ShellInv, TerminalLeft, ttyVars, Untouched, Raw
  <2>2. CASE SetShutdown
    BY <2>2 DEF SetShutdown, ShellInv, TerminalLeft, ttyVars, Untouched, Raw
  <2>3. CASE DisableEchoAndInputBuffering
    <3>1. CASE GetState
      BY <3>1 DEF GetState, Stty, ShellInv, TerminalLeft, Left, Untouched, Raw
    <3>2. CASE main = "cbreak" /\ Stty(tty \cup {"cbreak"}, "noecho") /\ UNCHANGED originalSttyState
      BY <3>2 DEF Stty, ShellInv, TerminalLeft, Left, Untouched, Raw
    <3>3. CASE main = "noecho" /\ Stty(tty \ {"echo"}, "starting") /\ UNCHANGED originalSttyState
      BY <3>3 DEF Stty, ShellInv, TerminalLeft, Left, Untouched, Raw
    <3> QED
      BY <2>3, <3>1, <3>2, <3>3 DEF DisableEchoAndInputBuffering
  <2>4. CASE StartWorkers
    BY <2>4 DEF StartWorkers, ShellInv, TerminalLeft, ttyVars, Untouched, Raw
  <2>5. CASE WaitReturns
    BY <2>5 DEF WaitReturns, ShellInv, TerminalLeft, ttyVars, Untouched, Raw
  <2>6. CASE EnableEchoAndInputBuffering
    <3>1. CASE main = "restore" /\ Stty(originalSttyState, "echo") /\ UNCHANGED originalSttyState
      BY <3>1 DEF Stty, ShellInv, TerminalLeft, Left, Untouched, Raw
    <3>2. CASE main = "echo" /\ Stty(tty \cup {"echo"}, "returned") /\ UNCHANGED originalSttyState
      BY <3>2 DEF Stty, ShellInv, TerminalLeft, Left, Untouched, Raw
    <3> QED
      BY <2>6, <3>1, <3>2 DEF EnableEchoAndInputBuffering
  <2> QED
    BY <1>1, <2>1, <2>2, <2>3, <2>4, <2>5, <2>6 DEF Main
<1>2. ASSUME NEW w \in Workers, WorkerDone(w) PROVE ShellInv'
  BY <1>2, WorkersKeep DEF WorkerDone
<1>3. CASE HandleTerminalResize
  BY <1>3, WorkersKeep DEF HandleTerminalResize, WorkerFails, Workers
<1>4. CASE HandleControlSignals \/ HandleKeyboardInput
  BY <1>4, WorkersKeep DEF HandleControlSignals, HandleKeyboardInput, SendFails, WorkerFails, Workers
<1>5. CASE ChannelClosed \/ ChannelClosedEarly \/ ListenerDies
  BY <1>5, WorkersKeep DEF ChannelClosed, ChannelClosedEarly, ListenerDies
<1>6. ASSUME NEW s \in Sizes, Resize(s) PROVE ShellInv'
  BY <1>6, WorkersKeep DEF Resize
<1>7. CASE UNCHANGED vars
  BY <1>7, WorkersKeep DEF vars
<1> QED
  BY <1>1, <1>2, <1>3, <1>4, <1>5, <1>6, <1>7 DEF Next

\* The invariant holds in every reachable state.
LEMMA ShellCorrect == Spec => []ShellInv
  BY InitShell, NextShell, PTL DEF Spec

\* SetSessionHandlers returns with the terminal in its original modes and echo on,
\* and after a failed run of stty with exactly what the runs before it have set.
THEOREM TerminalLeftCorrect == Spec => []TerminalLeft
<1>1. ShellInv => TerminalLeft
  BY DEF ShellInv
<1> QED
  BY <1>1, ShellCorrect, PTL

\* The terminal is raw while any of handleTerminalResize, handleControlSignals
\* and handleKeyboardInput runs: the restoration waits for all of them.
THEOREM RawWhileRunningCorrect == Spec => []RawWhileRunning
<1>1. ShellInv => RawWhileRunning
  BY DEF ShellInv, RawWhileRunning, Raw
<1> QED
  BY <1>1, ShellCorrect, PTL
=============================================================================
