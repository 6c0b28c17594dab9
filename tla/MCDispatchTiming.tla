-------------------------- MODULE MCDispatchTiming --------------------------
(* DispatchTiming for TLC: a fast and a slow clock on a counter that has    *)
(* been running for some periods when the clocks are created.               *)
EXTENDS DispatchTiming, TLC

CONSTANTS fast, slow

Periods == [c \in Clocks |-> IF c = fast THEN 2 ELSE 3]
=============================================================================
