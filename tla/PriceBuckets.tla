---------------------------- MODULE PriceBuckets ----------------------------
(***************************************************************************)
(* Time arithmetic of the historical-price use case: which granularity a   *)
(* transaction of a given age is priced at, and which bucket and which UTC *)
(* day it falls into.  Instants are integers counted from the Unix epoch   *)
(* in some unit; the code's literals 300 s, 3600 s and 86400 s are the     *)
(* constants FiveMinutes, Hour and Day, so that a model checker can use a  *)
(* day of a few units.                                                     *)
(***************************************************************************)
EXTENDS Integers

CONSTANTS
  FiveMinutes,  \* length of the finest bucket        (300 * time.Second)
  Hour,         \* length of the middle bucket        (3600 * time.Second)
  Day,          \* length of the coarsest bucket      (86400 * time.Second)
  FinePolicy,   \* granularity_policy["5minutes"] of config.yaml
  HourPolicy    \* granularity_policy["1hour"] of config.yaml

ASSUME BucketAssumption ==
  /\ {FiveMinutes, Hour, Day} \subseteq Nat \ {0}
  /\ FiveMinutes < Hour
  /\ Hour < Day
  /\ Hour % FiveMinutes = 0
  /\ Day % Hour = 0
  /\ {FinePolicy, HourPolicy} \subseteq Nat

Granularities == {FiveMinutes, Hour, Day}

(***************************************************************************)
(* The older a transaction is at the moment of the request, the coarser    *)
(* the bucket.  A transaction in the future has a negative age and gets    *)
(* the finest one.                                                         *)
(***************************************************************************)
GetGranularitySeconds(txTime, now) ==
  LET age == now - txTime
  IN  IF age < FinePolicy THEN FiveMinutes
      ELSE IF age < HourPolicy THEN Hour
      ELSE Day

\* Go's integer division rounds towards zero, TLA+'s towards minus infinity.
GoDiv(a, b) == IF a >= 0 THEN a \div b ELSE -((-a) \div b)

\* A bug of the kind the checks must notice: rounding to the nearest bucket.
WrongRoundToBucket(t, g) == GoDiv(t + g \div 2, g) * g

\* (sec / g) * g with Go's division: for an instant before the epoch the
\* result is not below the instant but above it.
floorToBucket(t, g) == GoDiv(t, g) * g

\* Midnight of the instant's calendar day: time.Date rounds down, always.
truncateDayUTC(t) == (t \div Day) * Day
=============================================================================
