---------------------------- MODULE ConservativeEta ----------------------------
(***************************************************************************)
(* The number of minutes the customer's page shows, and what it is made    *)
(* of: a route duration, the worker's own estimate as a ratio of it or the *)
(* load of the hour, the progress of the drive and the number shown last.  *)
(* Durations are fractions of seconds, so that nothing is rounded before   *)
(* the code rounds; 0 stands for a value that is missing.                  *)
(***************************************************************************)
EXTENDS Integers

LastMile     == 300   \* seconds of road below which the number may collapse
Buffer       == 180   \* parking and finding the door
LastBuffer   == 60
MinDisplay   == 3     \* minutes
RoundTo      == 5     \* minutes

NoRatio == [num |-> 0, den |-> 1]

Larger(a, b)  == IF a >= b THEN a ELSE b
CeilDiv(a, b) == (a + b - 1) \div b

\* The worker's estimate over the route at his departure; one that is off by
\* more than the sane range is discarded.
Calibrate(travel, base) ==
    IF base > 0 /\ 120 * travel >= base /\ 60 * travel <= 5 * base
    THEN [num |-> 60 * travel, den |-> base]
    ELSE NoRatio

\* Calibrated route, else the route under the load of the hour (in percent),
\* else what the worker said.
PickRawSeconds(base, ratio, load, travel) ==
    IF base = 0 THEN [num |-> 60 * travel, den |-> 1]
    ELSE IF ratio # NoRatio THEN [num |-> base * ratio.num, den |-> ratio.den]
    ELSE [num |-> base * load, den |-> 100]

IsLastMile(base) == 0 < base /\ base < LastMile

FloorMinutes(base) == IF IsLastMile(base) THEN 1 ELSE MinDisplay
Rounding(base)     == IF IsLastMile(base) THEN 1 ELSE RoundTo

\* The seconds before the cap, as a multiple of 1 / (4 * raw.den).
Composed(raw, base, slow) ==
    LET unit == 4 * raw.den
    IN  Larger(raw.num * (IF slow THEN 5 ELSE 4)
               + unit * (IF IsLastMile(base) THEN LastBuffer ELSE Buffer),
               60 * unit * FloorMinutes(base))

\* Half of the number shown last, in the same unit; none in the last mile.
Cap(raw, base, prev) ==
    IF IsLastMile(base) THEN 0 ELSE 30 * prev * 4 * raw.den

\* The minutes shown; prev is what was shown last.
ComputeConservativeEta(raw, base, slow, prev) ==
    LET seconds == Larger(Composed(raw, base, slow), Cap(raw, base, prev))
        step    == Rounding(base)
    IN  IF raw.num = 0 THEN 0
        ELSE Larger(FloorMinutes(base),
                    step * CeilDiv(seconds, 60 * step * 4 * raw.den))
=============================================================================
