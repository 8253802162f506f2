----------------------- MODULE SessionLifecycleProofs -----------------------
(***************************************************************************)
(* Theorems about AgentVersion and SessionLifecycle: an agent that knows   *)
(* multiplexing knows the TerminateSession flag, whatever its version      *)
(* string is, and so the plugin that always sends the flag is chosen only  *)
(* for such agents; output is written only to a stream that is set; and no *)
(* input is lost behind a nil result.                                      *)
(***************************************************************************)
EXTENDS SessionLifecycle, TLAPS

-----------------------------------------------------------------------------
(* Versions *)

\* What strings.Split of any version string gives.
Version == Seq(Nat \cup {Junk})

\* The first part decides whenever it can.
LEMMA MinIsOne ==
    ASSUME NEW S, S \subseteq Nat \ {0}, 1 \in S
    PROVE  Min(S) = 1
<1>1. \A y \in S : y \in Nat /\ 1 <= y
  OBVIOUS
<1> DEFINE m == Min(S)
<1>2. m \in S /\ \A y \in S : m <= y
  BY <1>1 DEF Min
<1> HIDE DEF m
<1>3. m \in Nat /\ 1 <= m /\ m <= 1
  BY <1>1, <1>2
<1>4. m = 1
  BY <1>3
<1> QED
  BY <1>4 DEF m

\* compare, when the first parts differ or this one is refused.
LEMMA CompareFirst ==
    ASSUME NEW v \in Version, NEW w \in Version, Len(v) = Len(w), Len(v) > 0,
           v[1] # w[1] \/ v[1] = Junk
    PROVE  Compare(v, w) = IF Junk \in {v[1], w[1]} THEN "error"
                           ELSE IF v[1] > w[1] THEN "greater" ELSE "less"
<1> DEFINE deciding == {i \in DOMAIN v : v[i] # w[i] \/ v[i] = Junk}
<1>1. deciding \subseteq Nat \ {0} /\ 1 \in deciding
  BY DEF Version
<1>2. Min(deciding) = 1 /\ deciding # {}
  BY <1>1, MinIsOne
<1>3. Compare(v, w) = IF Len(v) # Len(w) THEN "error"
                      ELSE IF deciding = {} THEN "equal"
                      ELSE IF Junk \in {v[Min(deciding)], w[Min(deciding)]} THEN "error"
                      ELSE IF v[Min(deciding)] > w[Min(deciding)] THEN "greater" ELSE "less"
  BY DEF Compare
<1> HIDE DEF deciding
<1> QED
  BY <1>2, <1>3

\* A version greater than one of four parts has four parts itself, and its first
\* part is a number that is not smaller.
LEMMA GreaterFirst ==
    ASSUME NEW v \in Version, NEW w \in Version, Len(w) > 0, w[1] \in Nat,
           Compare(v, w) = "greater"
    PROVE  Len(v) = Len(w) /\ v[1] \in Nat /\ v[1] >= w[1]
<1>1. Len(v) = Len(w)
  BY DEF Compare
<1>2. v[1] \in Nat \cup {Junk}
  BY <1>1 DEF Version
<1>3. CASE v[1] # w[1] \/ v[1] = Junk
  <2>1. Compare(v, w) = IF Junk \in {v[1], w[1]} THEN "error"
                        ELSE IF v[1] > w[1] THEN "greater" ELSE "less"
    BY <1>1, <1>3, CompareFirst
  <2>2. Junk \notin {v[1], w[1]} /\ v[1] > w[1]
    BY <2>1
  <2> QED
    BY <1>1, <1>2, <2>2
<1>4. CASE v[1] = w[1]
  BY <1>1, <1>4
<1> QED
  BY <1>3, <1>4

\* Every agent for which doesAgentSupportTCPMultiplexing holds is one for which
\* doesAgentSupportTerminateSessionFlag holds, for every version string: also
\* one with parts that are no numbers, or with too many or too few of them.
THEOREM MultiplexingImpliesTerminateFlag ==
    \A v \in Version :
        DoesAgentSupportTCPMultiplexing(v) => DoesAgentSupportTerminateSessionFlag(v)
<1> SUFFICES ASSUME NEW v \in Version, DoesAgentSupportTCPMultiplexing(v)
             PROVE  DoesAgentSupportTerminateSessionFlag(v)
  OBVIOUS
<1> DEFINE tcp == TCPMultiplexingSupportedAfter
           flag == TerminateSessionFlagSupportedAfter
<1>1. /\ tcp \in Version /\ Len(tcp) = 4 /\ tcp[1] = 3
      /\ flag \in Version /\ Len(flag) = 4 /\ flag[1] = 2
  BY DEF Version, TCPMultiplexingSupportedAfter, TerminateSessionFlagSupportedAfter
<1>2. v # <<>> /\ Compare(v, tcp) = "greater"
  BY DEF DoesAgentSupportTCPMultiplexing, IsGreater
<1>3. Len(v) = 4 /\ v[1] \in Nat /\ v[1] >= 3
  BY <1>1, <1>2, GreaterFirst
<1>4. v[1] # Junk /\ flag[1] # Junk
  BY <1>1, <1>3, JunkAssumption
<1>5. Compare(v, flag) = "greater"
  BY <1>1, <1>3, <1>4, CompareFirst
<1> QED
  BY <1>2, <1>5 DEF DoesAgentSupportTerminateSessionFlag, IsGreater

\* The versions that the model tells apart are versions.
LEMMA AgentVersionsAreVersions == AgentVersions \subseteq Version
<1>1. ASSUME NEW a \in Nat \cup {Junk}, NEW b \in Nat \cup {Junk},
             NEW c \in Nat \cup {Junk}, NEW d \in Nat \cup {Junk}
      PROVE  <<a, b, c, d>> \in Version
  BY DEF Version
<1>2. <<>> \in Version /\ <<3, 1>> \in Version
  BY DEF Version
<1> SUFFICES ASSUME NEW v \in AgentVersions PROVE v \in Version
  OBVIOUS
<1>3. CASE v \in {<<>>, <<3, 1>>, <<Junk, 1, 0, 0>>}
  BY <1>1, <1>2, <1>3
<1>4. CASE v \notin {<<>>, <<3, 1>>, <<Junk, 1, 0, 0>>}
  <2>1. PICK major \in {2, 3}, minor \in {0, 1, 3, Junk},
             patch \in {196, 722, 1511, Junk}, build \in {0, 1, Junk} :
                v = <<major, minor, patch, build>>
    BY <1>4 DEF AgentVersions
  <2>2. /\ major \in Nat \cup {Junk} /\ minor \in Nat \cup {Junk}
        /\ patch \in Nat \cup {Junk} /\ build \in Nat \cup {Junk}
    OBVIOUS
  <2> QED
    BY <1>1, <2>1, <2>2
<1> QED
  BY <1>3, <1>4

\* An agent of which nothing is known yet.
LEMMA UnknownVersion == <<>> \in AgentVersions
<1> DEFINE T == {<<major, minor, patch, build>> :
                    major \in {2, 3}, minor \in {0, 1, 3, Junk},
                    patch \in {196, 722, 1511, Junk}, build \in {0, 1, Junk}}
<1>1. AgentVersions = {<<>>, <<3, 1>>, <<Junk, 1, 0, 0>>} \cup T
  BY DEF AgentVersions
<1> HIDE DEF T
<1> QED
  BY <1>1

-----------------------------------------------------------------------------
(* The inductive invariant *)

\* A plugin exists only once the main goroutine constructs it, and after that
\* nothing changes the version that it was chosen by.
ChosenByVersion ==
    /\ agentVersion \in AgentVersions
    /\ plugin # "none" => main \in {"constructing", "running", "returned"}
    /\ plugin = "mux" => DoesAgentSupportTCPMultiplexing(agentVersion)

\* Input is lost only by the last thing that the reader does, which tells of it;
\* what it returns decides the result, and it starts once.
LossInv ==
    /\ main \in {"describing", "targeting", "starting", "creating", "opening", "constructing",
                 "running", "returned"}
    /\ main \notin {"running", "returned"} => reader = "none" /\ ~lost
    /\ lost => \/ reader = "error"
               \/ reader = "net.ErrClosed" /\ channel = "closed"
    /\ main = "returned" /\ result = "nil" => reader \in {"nil", "net.ErrClosed"}

SessionInv == ChosenByVersion /\ WriteHasStream /\ LossInv

\* A call that has not begun has no plugin, no streams and no input.
LEMMA InitSession == Init => SessionInv
  BY UnknownVersion DEF Init, SessionInv, ChosenByVersion, WriteHasStream, LossInv

\* The choice of the plugin.
LEMMA NextChosen == SessionInv /\ [Next]_vars => ChosenByVersion'
<1> SUFFICES ASSUME SessionInv, [Next]_vars PROVE ChosenByVersion'
  OBVIOUS
<1> USE DEF SessionInv, ChosenByVersion
<1>1. CASE SessionTypeSet
  <2>1. plugin = "none" /\ plugin' = "none" /\ main' = "constructing"
    BY <1>1 DEF SessionTypeSet, pluginVars
  <2>2. agentVersion' \in AgentVersions
    BY <1>1, UnknownVersion DEF SessionTypeSet
  <2> QED
    BY <2>1, <2>2
<1>2. CASE NewPlugin
  <2>1. plugin' = "mux" => DoesAgentSupportTCPMultiplexing(agentVersion)
    BY <1>2 DEF NewPlugin, ChoosePlugin
  <2> QED
    BY <1>2, <2>1 DEF NewPlugin, mainVars, handshakeVars
<1>3. CASE UNCHANGED <<agentVersion, plugin>> /\ (plugin # "none" => main' \in {"constructing", "running", "returned"})
  BY <1>3
<1>4. CASE Main /\ ~SessionTypeSet /\ ~NewPlugin
  BY <1>3, <1>4 DEF Main, GetContainerRuntimeID, BuildTargetID, StartSession, NewSession,
         OpenDataChannel, RegisterStopHandler, SessionEnds, MainFails, Return,
         mainVars, handshakeVars, pluginVars
<1>5. CASE Reader \/ Listener \/ UNCHANGED vars
  BY <1>3, <1>5 DEF Reader, InitializeInput, InitializeOutput, InitializeStreams, Read,
         StdinDelivers, StdinEnds, SendChecks, SendWrites, OtherPluginReturns,
         Listener, OutputMessage, WriteStream, WriteStreamFails, ChannelClosedMessage,
         StopInput, StopOutput, ListenerFails,
         vars, mainVars, handshakeVars, pluginVars
<1> QED
  BY <1>1, <1>2, <1>4, <1>5 DEF Next

\* The listener enters WriteStream only past IsStreamNotSet, and neither
\* InitializeStreams nor Stop makes a stream nil again.
LEMMA NextWriteHasStream == SessionInv /\ [Next]_vars => WriteHasStream'
<1> SUFFICES ASSUME SessionInv, [Next]_vars PROVE WriteHasStream'
  OBVIOUS
<1>1. outputStream # "nil" => outputStream' # "nil"
  BY DEF Next, Main, GetContainerRuntimeID, BuildTargetID, StartSession, NewSession,
         OpenDataChannel, SessionTypeSet, NewPlugin, RegisterStopHandler, SessionEnds, MainFails,
         Reader, InitializeInput, InitializeOutput, InitializeStreams, Read,
         StdinDelivers, StdinEnds, SendChecks, SendWrites, OtherPluginReturns,
         Listener, OutputMessage, WriteStream, WriteStreamFails, ChannelClosedMessage,
         StopInput, StopOutput, ListenerFails, vars, streamVars
<1>2. listener' = "writing" => listener = "writing" \/ outputStream # "nil"
  BY DEF Next, Main, GetContainerRuntimeID, BuildTargetID, StartSession, NewSession,
         OpenDataChannel, SessionTypeSet, NewPlugin, RegisterStopHandler, SessionEnds, MainFails,
         Reader, InitializeInput, InitializeOutput, InitializeStreams, Read,
         StdinDelivers, StdinEnds, SendChecks, SendWrites, OtherPluginReturns,
         Listener, OutputMessage, WriteStream, WriteStreamFails, ChannelClosedMessage,
         StopInput, StopOutput, ListenerFails, CloseAndReturn, IsStreamNotSet,
         vars, streamVars, listenerVars
<1> QED
  BY <1>1, <1>2 DEF SessionInv, WriteHasStream

\* The reader ends where it loses input, and the channel it found closed stays so.
LEMMA NextLoss == SessionInv /\ [Next]_vars => LossInv'
<1> SUFFICES ASSUME SessionInv, [Next]_vars PROVE LossInv'
  OBVIOUS
<1> USE DEF SessionInv, LossInv
<1>0. channel = "closed" => channel' = "closed"
  BY DEF Next, Main, GetContainerRuntimeID, BuildTargetID, StartSession, NewSession,
         OpenDataChannel, SessionTypeSet, NewPlugin, RegisterStopHandler, SessionEnds, MainFails,
         Reader, InitializeInput, InitializeOutput, InitializeStreams, Read,
         StdinDelivers, StdinEnds, SendChecks, SendWrites, OtherPluginReturns,
         Listener, OutputMessage, WriteStream, WriteStreamFails, ChannelClosedMessage,
         StopInput, StopOutput, ListenerFails, CloseAndReturn, vars
<1>1. CASE Main
  <2>1. CASE RegisterStopHandler
    BY <2>1 DEF RegisterStopHandler
  <2>2. CASE StartSession
    BY <2>2 DEF StartSession, Return, readerVars
  <2>3. CASE SessionEnds \/ MainFails
    BY <2>3 DEF SessionEnds, MainFails, Return, readerVars
  <2>4. CASE GetContainerRuntimeID \/ BuildTargetID \/ NewSession \/ SessionTypeSet
    <3>1. /\ main \notin {"running", "returned"}
          /\ main' \in {"targeting", "starting", "opening", "constructing"}
          /\ UNCHANGED <<reader, lost>>
      BY <2>4 DEF GetContainerRuntimeID, BuildTargetID, NewSession, SessionTypeSet, readerVars
    <3> QED
      BY <3>1
  <2>5. CASE OpenDataChannel \/ NewPlugin
    BY <1>0, <2>5 DEF OpenDataChannel, NewPlugin, readerVars, mainVars
  <2> QED
    BY <1>1, <2>1, <2>2, <2>3, <2>4, <2>5 DEF Main
<1>2. CASE Reader
  <2>1. main' = main /\ result' = result /\ channel' = channel
    BY <1>2 DEF Reader, InitializeInput, InitializeOutput, InitializeStreams, Read,
         StdinDelivers, StdinEnds, SendChecks, SendWrites, OtherPluginReturns, mainVars
  <2>2. reader \in {"initialising", "calling", "blocked", "sending", "writing", "elsewhere"}
    BY <1>2 DEF Reader, InitializeInput, InitializeOutput, InitializeStreams, Read,
         StdinDelivers, StdinEnds, SendChecks, SendWrites, OtherPluginReturns
  <2>3. ~lost /\ main \in {"running", "returned"} /\ (main = "returned" => result # "nil")
    BY <2>2
  <2>4. lost' => reader' = "error" \/ (reader' = "net.ErrClosed" /\ channel = "closed")
    BY <1>2, <2>3 DEF Reader, InitializeInput, InitializeOutput, InitializeStreams, Read,
         StdinDelivers, StdinEnds, SendChecks, SendWrites, OtherPluginReturns, readerVars
  <2> QED
    BY <2>1, <2>3, <2>4
<1>3. CASE Listener \/ UNCHANGED vars
  <2>1. UNCHANGED <<main, result, reader, lost>>
    BY <1>3 DEF Listener, OutputMessage, WriteStream, WriteStreamFails, ChannelClosedMessage,
         StopInput, StopOutput, ListenerFails, vars, mainVars, readerVars
  <2> QED
    BY <1>0, <2>1
<1> QED
  BY <1>1, <1>2, <1>3 DEF Next

\* The invariant holds in every reachable state.
LEMMA SessionCorrect == Spec => []SessionInv
<1>1. SessionInv /\ [Next]_vars => SessionInv'
  BY NextChosen, NextWriteHasStream, NextLoss DEF SessionInv
<1> QED
  BY <1>1, InitSession, PTL DEF Spec

\* The plugin that ends every session with the TerminateSession flag is chosen
\* only for agents that know it (NewPortSession).
THEOREM MuxKnowsTerminateFlagCorrect == Spec => []MuxKnowsTerminateFlag
<1>1. SessionInv => MuxKnowsTerminateFlag
  BY MultiplexingImpliesTerminateFlag, AgentVersionsAreVersions
     DEF SessionInv, ChosenByVersion, MuxKnowsTerminateFlag
<1> QED
  BY <1>1, SessionCorrect, PTL

\* The listener never writes to an output stream that InitializeStreams has not
\* set, although the two goroutines share it without a lock.
THEOREM WriteHasStreamCorrect == Spec => []WriteHasStream
<1>1. SessionInv => WriteHasStream
  BY DEF SessionInv
<1> QED
  BY <1>1, SessionCorrect, PTL

\* A session that returns nil has sent what it read, unless the channel was
\* closed on this side under a write (initSession, SendMessage).
THEOREM LossIsReportedCorrect == Spec => []LossIsReported
<1>1. SessionInv => LossIsReported
  BY DEF SessionInv, LossInv, LossIsReported
<1> QED
  BY <1>1, SessionCorrect, PTL
=============================================================================
