---------------------------- MODULE AgentVersion ----------------------------
(***************************************************************************)
(* Comparing agent versions (version/versionutil.go, versionvalidator.go). *)
(* A version string is the sequence of its parts between the dots, each a  *)
(* number or Junk, which strconv.Atoi refuses; the empty string is <<>>.   *)
(***************************************************************************)
EXTENDS Integers, Sequences, FiniteSetsExt

CONSTANT Junk

ASSUME JunkAssumption == Junk \notin Int

\* compare: the first part that differs or that Atoi refuses decides; later
\* parts are not looked at.  "error" stands for (-1, err).
Compare(this, other) ==
    LET deciding == {i \in DOMAIN this : this[i] # other[i] \/ this[i] = Junk}
        i == Min(deciding)
    IN  IF Len(this) # Len(other) THEN "error"
        ELSE IF deciding = {} THEN "equal"
        ELSE IF Junk \in {this[i], other[i]} THEN "error"
        ELSE IF this[i] > other[i] THEN "greater" ELSE "less"

\* isAgentVersionGreaterThanSupportedVersion: false for any error.
IsGreater(agentVersion, supportedVersion) ==
    /\ agentVersion # <<>>
    /\ Compare(agentVersion, supportedVersion) = "greater"

\* config.go
TerminateSessionFlagSupportedAfter == <<2, 3, 722, 0>>
TCPMultiplexingSupportedAfter == <<3, 0, 196, 0>>
SmuxKeepAliveDisabledAfter == <<3, 1, 1511, 0>>

DoesAgentSupportTCPMultiplexing(v) == IsGreater(v, TCPMultiplexingSupportedAfter)
DoesAgentSupportDisableSmuxKeepAlive(v) == IsGreater(v, SmuxKeepAliveDisabledAfter)
DoesAgentSupportTerminateSessionFlag(v) == IsGreater(v, TerminateSessionFlagSupportedAfter)
=============================================================================
