-------------------------- MODULE MCIncomingStream --------------------------
(* Model-checking instances of IncomingStream. *)
EXTENDS IncomingStream

Request(actions) == [payloadType |-> "HandshakeRequest", actions |-> actions]
Plainly(payloadType) == [payloadType |-> payloadType, actions |-> <<>>]

Challenge == Plainly("EncChallengeRequest")
Complete == Plainly("HandshakeComplete")
Out == Plainly("Output")
Err == Plainly("StdErr")
Exit == Plainly("ExitCode")

\* Agents that shake hands: a shell, and an encrypted shell and port session.
ShellStream == <<Request(<<"Shell">>), Complete, Out, Err, Out, Out>>
EncryptedShellStream ==
    <<Request(<<"KMSEncryption", "Shell">>), Challenge, Complete, Out, Out, Exit>>
PortStream == <<Request(<<"Port">>), Complete, Out, Out, Out, Out>>
EncryptedPortStream ==
    <<Request(<<"KMSEncryption", "Port">>), Challenge, Complete, Out, Out, Out>>

\* Older agents that send data at once, and one whose first data is not output.
LegacyStream == <<Out, Out, Err, Out, Out>>
LegacyErrStream == <<Err, Out, Out>>

\* Requests that leave the session type unset or that the client cannot meet.
UntypedStream == <<Request(<<>>), Complete, Out>>
UnknownTypeStream == <<Request(<<"UnknownType", "KMSEncryption">>), Complete, Out>>
UnknownActionStream == <<Request(<<"Shell", "UnknownAction">>), Complete, Out>>

AllStreams == {ShellStream, EncryptedShellStream, PortStream, EncryptedPortStream,
               LegacyStream, LegacyErrStream, UntypedStream, UnknownTypeStream,
               UnknownActionStream}
=============================================================================
