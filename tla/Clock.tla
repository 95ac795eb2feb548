-------------------------------- MODULE Clock --------------------------------
(* The millisecond clock (now_ms), in ticks: an unsigned counter that       *)
(* wraps, read by every component that keeps deadlines.                     *)
EXTENDS Integers

CONSTANTS
    W,          \* the clock wraps here
    Start       \* clock at the start

ASSUME ClockAssumption == W \in Nat \ {0} /\ Start \in 0 .. (W - 1)

VARIABLE now
=============================================================================
