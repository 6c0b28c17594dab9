----------------------------- MODULE MCSerialTx -----------------------------
(* SerialTx for TLC: clock on pin 3 and data on pin 4, the pins of the       *)
(* selftest, and words of both parities in every bit position.               *)
EXTENDS SerialTx

SelftestPins == <<3, 4>>
NoPins   == {}
Boot     == [p \in {3, 4} |-> 0]
PullUp   == [p \in {3, 4} |-> "UP"]
Patterns == {90, 165}
=============================================================================
