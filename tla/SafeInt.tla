------------------------------- MODULE SafeInt -------------------------------
(***************************************************************************)
(* The integer conversions of util/safe.go.  Int32Limit and Int64Limit     *)
(* stand for 2^31 and 2^63, so that the ends of the ranges are within      *)
(* TLC's reach.  A conversion returns a record: ok, and the value if ok.   *)
(***************************************************************************)
EXTENDS Integers

CONSTANTS Int32Limit, Int64Limit

ASSUME SafeIntAssumption ==
    /\ Int32Limit \in Nat \ {0}
    /\ Int64Limit \in Nat \ {0}
    /\ Int32Limit <= Int64Limit

Converted(v) == [ok |-> TRUE, value |-> v]

Refused == [ok |-> FALSE, value |-> 0]

\* Go's conversion to a signed type of 2 * limit values keeps the low bits.
Wrap(v, limit) == ((v + limit) % (2 * limit)) - limit

SafeUint32(v) ==
    IF v < 0 \/ v >= 2 * Int32Limit THEN Refused ELSE Converted(v)

\* Only the upper end is checked: a value below the range is wrapped.
SafeInt32(v) ==
    IF v >= Int32Limit THEN Refused ELSE Converted(Wrap(v, Int32Limit))

\* Called with unsigned values only (message/writers.go), which are checked.
SafeInt64(v) ==
    IF v >= Int64Limit THEN Refused ELSE Converted(v)
=============================================================================
