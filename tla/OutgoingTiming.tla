--------------------------- MODULE OutgoingTiming ---------------------------
(***************************************************************************)
(* The clock of the client-to-agent half of the data channel: the resend   *)
(* scheduler of OutgoingStream waits until the front of the buffer has     *)
(* been unacknowledged for longer than retransmissionTimeout, which        *)
(* calculateRetransmissionTimeout (datachannel/datachannel.go) derives     *)
(* from the round trips measured so far.                                   *)
(*                                                                         *)
(* A message has an age instead of a LastSentTime.  The floating-point     *)
(* values of the code are exact here: they are numerators over one common  *)
(* denominator, which every sample multiplies by 8, the denominator of     *)
(* RTTConstant (RTTVConstant is 2/8).                                      *)
(***************************************************************************)
EXTENDS Integers, OutgoingStream

CONSTANTS
    DefaultTransmissionTimeout, DefaultRoundTripTime, DefaultRoundTripTimeVariation,
    MaxTransmissionTimeout, ClockGranularity,
    MaxAge              \* bound: ages are told apart up to here

ASSUME TimingAssumption ==
    /\ {DefaultTransmissionTimeout, DefaultRoundTripTime, DefaultRoundTripTimeVariation,
        MaxTransmissionTimeout, ClockGranularity, MaxAge} \subseteq Nat
    /\ DefaultTransmissionTimeout <= MaxTransmissionTimeout

VARIABLES
    age,                    \* time since LastSentTime, of each message by its UUID
    roundTripTime, roundTripTimeVariation, retransmissionTimeout,
    denominator,            \* of these three
    capping,                \* the listener is before the last assignment
    sample                  \* history: the round trip measured last, 0 at first

estimateVars == <<roundTripTime, roundTripTimeVariation, retransmissionTimeout, denominator>>
timingVars == <<estimateVars, capping, sample>>
timedVars == <<vars, age, timingVars>>

Larger(a, b) == IF a > b THEN a ELSE b
Abs(n) == IF n < 0 THEN -n ELSE n

TimedInit ==
    /\ Init
    /\ age = [id \in 1 .. MaxMessages |-> 0]
    /\ roundTripTime = DefaultRoundTripTime
    /\ roundTripTimeVariation = DefaultRoundTripTimeVariation
    /\ retransmissionTimeout = DefaultTransmissionTimeout
    /\ denominator = 1
    /\ capping = FALSE
    /\ sample = 0

-----------------------------------------------------------------------------
\* Mutant of CalculateRetransmissionTimeout: the two constants are exchanged.
CalculateRetransmissionTimeout_Exchanged(new) ==
    /\ denominator' = 8 * denominator
    /\ roundTripTimeVariation' =
           7 * roundTripTimeVariation + Abs(roundTripTime - new * denominator)
    /\ roundTripTime' = 6 * roundTripTime + 2 * (new * denominator)
    /\ retransmissionTimeout' =
           roundTripTime' + Larger(ClockGranularity * denominator', 4 * roundTripTimeVariation')

\* calculateRetransmissionTimeout up to its first assignment of the timeout:
\* three quarters of the variation and one of the new deviation, seven eighths
\* of the round trip and one of the new.
CalculateRetransmissionTimeout(new) ==
    /\ denominator' = 8 * denominator
    /\ roundTripTimeVariation' =
           6 * roundTripTimeVariation + 2 * Abs(roundTripTime - new * denominator)
    /\ roundTripTime' = 7 * roundTripTime + new * denominator
    /\ retransmissionTimeout' =
           roundTripTime' + Larger(ClockGranularity * denominator', 4 * roundTripTimeVariation')

\* The elements of the buffer that an acknowledgement is for; the first goes.
Acknowledged(n) == {i \in DOMAIN outgoingMessageBuffer : outgoingMessageBuffer[i].msg.seq = n}

\* processAcknowledgedMessage measures the message it removes, if there is one.
TimedAcknowledge(n) ==
    /\ ~capping
    /\ HandleAcknowledge(n)
    /\ IF Acknowledged(n) = {} THEN UNCHANGED <<age, timingVars>>
       ELSE LET removed == outgoingMessageBuffer[Min(Acknowledged(n))].msg IN
            /\ CalculateRetransmissionTimeout(age[removed.id])
            /\ sample' = age[removed.id]
            /\ capping' = TRUE
            /\ age' = [age EXCEPT ![removed.id] = 0]

\* The second assignment; the scheduler may have read the first one's value.
CapTimeout ==
    /\ capping
    /\ capping' = FALSE
    /\ retransmissionTimeout' =
           IF retransmissionTimeout > MaxTransmissionTimeout * denominator
           THEN MaxTransmissionTimeout * denominator ELSE retransmissionTimeout
    /\ UNCHANGED <<vars, age, roundTripTime, roundTripTimeVariation, denominator, sample>>

\* A tick of the scheduler that finds the front overdue.  The new LastSentTime
\* goes to the copy, so that the front stays overdue.
TimedResendFront ==
    /\ outgoingMessageBuffer # <<>>
    /\ age[Head(outgoingMessageBuffer).msg.id] * denominator > retransmissionTimeout
    /\ ResendFront
    /\ UNCHANGED <<age, timingVars>>

\* The messages whose LastSentTime is set and still matters.
Timed == Buffered \cup {sending[s] : s \in {t \in Senders : pc[t] = "added"}}

Tick ==
    /\ Timed # {}
    /\ age' = [id \in 1 .. MaxMessages |->
                  IF (\E m \in Timed : m.id = id) /\ age[id] < MaxAge THEN age[id] + 1 ELSE age[id]]
    /\ UNCHANGED <<vars, timingVars>>

\* Everything else takes no time and leaves the estimates alone.
Untimed ==
    /\ \/ \E s \in Senders : (capping => s # Listener) /\ SendInputDataMessage(s)
       \/ ResendWrite
       \/ ResendFail
       \/ \E n \in acks : LoseAck(n)
       \/ \E m \in inFlight : AgentReceive(m) \/ LoseMessage(m)
    /\ UNCHANGED <<age, timingVars>>

TimedNext ==
    \/ \E n \in acks : TimedAcknowledge(n)
    \/ CapTimeout
    \/ TimedResendFront
    \/ Tick
    \/ Untimed

TimedSpec == TimedInit /\ [][TimedNext]_timedVars

-----------------------------------------------------------------------------
(* Properties *)

\* When the scheduler acts on the front, that has been under way for longer than
\* the round trip measured last, or than the maximum.
ResendIsLate ==
    (scheduler = "sleeping" /\ scheduler' # "sleeping") =>
        LET waited == age[Head(outgoingMessageBuffer).msg.id] IN
        waited > sample \/ waited > MaxTransmissionTimeout

\* The scheduler never resends a message that has been under way for no longer
\* than the last round trip measured, unless that was beyond the maximum: on a
\* network whose delay does not grow nothing is sent twice, also when the
\* scheduler reads the timeout between the listener's two assignments
\* (calculateRetransmissionTimeout, resendStreamDataMessageScheduler).
NoEarlyResend == [][ResendIsLate]_timedVars
=============================================================================
