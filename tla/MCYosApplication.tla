-------------------------- MODULE MCYosApplication --------------------------
(* The two tasks that share the bus, a few measurements, for TLC. *)
EXTENDS YosApplication

MCUsers == {ahttsk, oledtak}
MCSlaves == {"aht20", "ssd1306"}

\* About -10, 20 and 30 degrees, 30, 50 and 70 percent.
MCReadings ==
  <<[h |-> 314573, t |-> 209716], [h |-> 524298, t |-> 367032],
    [h |-> 734103, t |-> 419528]>>

\* Any one or two of the 56 bits turned over, or none.
OneBit(b) == [k \in 1 .. 7 |-> IF b >= 0 /\ k = (b \div 8) + 1 THEN 2 ^ (b % 8) ELSE 0]
MCNoises ==
  {[k \in 1 .. 7 |-> Xor(OneBit(b)[k], OneBit(c)[k])] : b \in -1 .. 55, c \in 0 .. 55}
=============================================================================
