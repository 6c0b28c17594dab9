------------------------------- MODULE MCPort -------------------------------
(* Port for TLC: a port with an IO in each bank, pin 3 (whose bit fits in   *)
(* io->state) and pin 40 (whose bit does not); pin 48 belongs to the MMC    *)
(* and shares function select register 4 with pin 40.                       *)
EXTENDS Port, TLC

CONSTANTS t1, t2

SmallPort == <<3, 40>>
Mmc       == {48}
Boot      == [p \in {3, 40, 48} |-> IF p = 48 THEN 7 ELSE 0]
PullDown  == [p \in {3, 40, 48} |-> "DOWN"]
Outside   == {3}
BothWires == {3, 40}
PinMasks  == {{}, {3}}
LowMask   == {{3}}

ThreadSymmetry == Permutations({t1, t2})
=============================================================================
