------------------------------ MODULE MCUartTx ------------------------------
(* UartTx for TLC: the configurations and bytes of the runs.  The bytes     *)
(* have odd and even parity and differ in every bit position.               *)
EXTENDS UartTx

\* The shortest and the longest frames there are, with every parity.
Extremes == [dataBits : {5, 8}, stopBits : 1..2, parity : Parities]

Patterns == {81, 238}

\* Eight data bits, no parity, one stop bit, the default of the Kotlin
\* wrapper; and the same with each computed parity.
Plain8N1  == [dataBits : {8}, stopBits : {1}, parity : {"NONE"}]
Computed8 == [dataBits : {8}, stopBits : {1}, parity : {"ODD", "EVEN"}]
=============================================================================
