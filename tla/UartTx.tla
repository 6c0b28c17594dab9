------------------------------- MODULE UartTx -------------------------------
(***************************************************************************)
(* libkraken/src/driver/kraken_uart_tx_driver.c: one UART transmitter.  An *)
(* application thread queues bytes and waits; the dispatcher's thread runs *)
(* the tick function, one bit per tick, and updates the port after it.     *)
(* One step is one access to the state the two threads share: the byte     *)
(* queue, state->byte, state->bit and the IO.                              *)
(***************************************************************************)
EXTENDS Integers, Sequences

CONSTANTS Configs,     \* the configurations the driver is created with
          Bytes,       \* the bytes that are written
          BufferSize,  \* config->buffer_size
          MaxBytes     \* bound: bytes written in a run

\* kraken_uart_config_t: the pin is the driver's IO and buffer_size a constant.
Parities    == {"NONE", "ODD", "EVEN", "MARK", "SPACE"}
UartConfigs == [dataBits : 5..8, stopBits : 1..2, parity : Parities]

ASSUME UartAssumption ==
    /\ Configs \subseteq UartConfigs
    /\ Bytes \subseteq 0..255
    /\ BufferSize \in Nat \ {0}
    /\ MaxBytes \in Nat

VARIABLES config,   \* state->config
          queue,    \* state->buffer
          bit,      \* state->bit: the bit of the frame the next tick sends
          byte,     \* state->byte
          ioState,  \* state->io->state, one bit
          wire,     \* the level of the pin
          tick,     \* the tick in progress: where it is, and its locals
          app,      \* where the application thread is
          written,  \* history: the bytes write has accepted
          sent      \* history: the level of the wire after each bit

vars == <<config, queue, bit, byte, ioState, wire, tick, app, written, sent>>

BitOf(b, k) == (b \div 2^k) % 2
Odd(b) == (BitOf(b, 0) + BitOf(b, 1) + BitOf(b, 2) + BitOf(b, 3)
           + BitOf(b, 4) + BitOf(b, 5) + BitOf(b, 6) + BitOf(b, 7)) % 2

-----------------------------------------------------------------------------
(* The layout kraken_uart_tx_driver_create computes.                       *)
HasParity    == config.parity # "NONE"
FrameSize    == 1 + config.dataBits + config.stopBits + IF HasParity THEN 1 ELSE 0
Idle         == -1                                     \* KRAKEN_UART_TX_STOP_BIT
StartBit     == 0
FirstDataBit == 1
LastDataBit  == config.dataBits + 1
ParityBit    == IF HasParity THEN LastDataBit + 1 ELSE -1
FirstStopBit == IF HasParity THEN ParityBit + 1 ELSE LastDataBit + 1
MutantNoStopBits == FirstStopBit
LastStopBit  == FirstStopBit + config.stopBits

ParityLevel(b) ==
    CASE config.parity = "ODD"   -> IF Odd(b) = 1 THEN 1 ELSE 0
      [] config.parity = "EVEN"  -> IF Odd(b) = 0 THEN 1 ELSE 0
      [] config.parity = "MARK"  -> 1
      [] config.parity = "SPACE" -> 0

\* What the tick function stores to the IO for a bit of the frame of b.
Level(b, k) ==
    CASE k = StartBit                           -> 0
      [] k \in FirstDataBit..LastDataBit        -> BitOf(b, k - FirstDataBit)
      [] HasParity /\ k = ParityBit             -> ParityLevel(b)
      [] k \in FirstStopBit..LastStopBit        -> 1

Between == [pc |-> "between", bit |-> 0, byte |-> 0]

\* After create: the line was driven high and nothing is queued.
Init ==
    /\ config \in Configs
    /\ queue = <<>>
    /\ bit = Idle
    /\ byte = 0
    /\ ioState \in {0, 1}
    /\ wire = 1
    /\ tick = Between
    /\ app = "idle"
    /\ written = <<>>
    /\ sent = <<>>

-----------------------------------------------------------------------------
(* The tick, in the dispatcher's thread.                                   *)
FrameDone(k) == k = Idle \/ k = LastStopBit

TickBegins ==
    /\ tick.pc = "between"
    /\ tick' = [pc |-> IF FrameDone(bit) THEN "fetch" ELSE "drive", bit |-> bit, byte |-> byte]
    /\ UNCHANGED <<config, queue, bit, byte, ioState, wire, app, written, sent>>

\* No data: the tick ends with an empty IO mask.
NothingToSend ==
    /\ tick.pc = "fetch" /\ queue = <<>>
    /\ tick' = [Between EXCEPT !.pc = "skip"]
    /\ UNCHANGED <<config, queue, bit, byte, ioState, wire, app, written, sent>>

MutantDequeuePeeks ==
    /\ tick.pc = "fetch" /\ queue # <<>>
    /\ tick' = [pc |-> "byte", bit |-> StartBit, byte |-> Head(queue)]
    /\ UNCHANGED <<config, queue, bit, byte, ioState, wire, app, written, sent>>

MutantDequeueFromTwo ==
    /\ tick.pc = "fetch" /\ Len(queue) > 1
    /\ queue' = Tail(queue)
    /\ tick' = [pc |-> "byte", bit |-> StartBit, byte |-> Head(queue)]
    /\ UNCHANGED <<config, bit, byte, ioState, wire, app, written, sent>>

Dequeue ==
    /\ tick.pc = "fetch" /\ queue # <<>>
    /\ queue' = Tail(queue)
    /\ tick' = [pc |-> "byte", bit |-> StartBit, byte |-> Head(queue)]
    /\ UNCHANGED <<config, bit, byte, ioState, wire, app, written, sent>>

StoreByte ==
    /\ tick.pc = "byte"
    /\ byte' = tick.byte
    /\ tick' = [tick EXCEPT !.pc = "bit"]
    /\ UNCHANGED <<config, queue, bit, ioState, wire, app, written, sent>>

ResetBit ==
    /\ tick.pc = "bit"
    /\ bit' = StartBit
    /\ tick' = [tick EXCEPT !.pc = "drive"]
    /\ UNCHANGED <<config, queue, byte, ioState, wire, app, written, sent>>

DriveIO ==
    /\ tick.pc = "drive"
    /\ ioState' = Level(tick.byte, tick.bit)
    /\ tick' = [tick EXCEPT !.pc = "next"]
    /\ UNCHANGED <<config, queue, bit, byte, wire, app, written, sent>>

NextBit ==
    /\ tick.pc = "next"
    /\ bit' = tick.bit + 1
    /\ tick' = [Between EXCEPT !.pc = "update"]
    /\ UNCHANGED <<config, queue, byte, ioState, wire, app, written, sent>>

\* kraken_port_update_masked with the tick's mask: the pin takes the IO's
\* state, and the device overwrites that state with what it makes of it.  With
\* an empty mask it overwrites the state all the same.
UpdatePort ==
    /\ \/ /\ tick.pc = "update"
          /\ wire' = ioState
          /\ sent' = Append(sent, ioState)
       \/ tick.pc = "skip" /\ UNCHANGED <<wire, sent>>
    /\ ioState' \in {0, 1}
    /\ tick' = Between
    /\ UNCHANGED <<config, queue, bit, byte, app, written>>

TickStep ==
    \/ TickBegins \/ NothingToSend \/ Dequeue \/ StoreByte \/ ResetBit
    \/ DriveIO \/ NextBit \/ UpdatePort

-----------------------------------------------------------------------------
(* The application thread.                                                 *)

\* kraken_uart_tx_driver_write of one byte: push spins while the queue is full.
WriteByte(b) ==
    /\ app \in {"idle", "returned"} /\ Len(written) < MaxBytes
    /\ Len(queue) < BufferSize
    /\ queue' = Append(queue, b)
    /\ written' = Append(written, b)
    /\ app' = "idle"
    /\ UNCHANGED <<config, bit, byte, ioState, wire, tick, sent>>

CallWait ==
    /\ app \in {"idle", "returned"}
    /\ app' = "waitEmpty"
    /\ UNCHANGED <<config, queue, bit, byte, ioState, wire, tick, written, sent>>

MutantQueueNotAwaited ==
    /\ app = "waitEmpty"
    /\ app' = "waitBit"
    /\ UNCHANGED <<config, queue, bit, byte, ioState, wire, tick, written, sent>>

\* "Wait until bytes are consumed"
QueueSeenEmpty ==
    /\ app = "waitEmpty" /\ queue = <<>>
    /\ app' = "waitBit"
    /\ UNCHANGED <<config, queue, bit, byte, ioState, wire, tick, written, sent>>

MutantBeyondLastBit ==
    /\ app = "waitBit" /\ bit > LastStopBit
    /\ app' = "returned"
    /\ UNCHANGED <<config, queue, bit, byte, ioState, wire, tick, written, sent>>

\* "Wait until we reached last bit"
LastBitSeen ==
    /\ app = "waitBit" /\ bit >= LastStopBit
    /\ app' = "returned"
    /\ UNCHANGED <<config, queue, bit, byte, ioState, wire, tick, written, sent>>

WaitStep == QueueSeenEmpty \/ LastBitSeen

Next ==
    \/ TickStep
    \/ \E b \in Bytes : WriteByte(b)
    \/ CallWait
    \/ WaitStep

\* The driver's clock is registered and running, so tick follows tick; the
\* waiting thread yields between its reads and goes on reading.
Spec == Init /\ [][Next]_vars /\ WF_vars(TickStep) /\ WF_vars(WaitStep)

-----------------------------------------------------------------------------
TypeOK ==
    /\ bit \in -1..LastStopBit /\ byte \in 0..255
    /\ ioState \in {0, 1} /\ wire \in {0, 1}
    /\ Len(queue) <= BufferSize
    /\ app \in {"idle", "waitEmpty", "waitBit", "returned"}

\* The levels the driver drives for a byte: one more than the frame has.
Ticks == FrameSize + 1

\* A level at place p, counted from 0, of a frame of n levels for the byte b:
\* start bit, data bits from the lowest, a fixed parity bit, stop bits.
Fits(level, b, n, p) ==
    /\ p = 0 => level = 0
    /\ p \in 1..config.dataBits => level = BitOf(b, p - 1)
    /\ p = n - config.stopBits - 1 =>
          /\ config.parity = "MARK" => level = 1
          /\ config.parity = "SPACE" => level = 0
    /\ p >= n - config.stopBits => level = 1

\* The wire has shown the bytes written in frames of n levels, back to back.
Framed(n) ==
    /\ Len(sent) <= n * Len(written)
    /\ \A k \in 1..Len(sent) :
          Fits(sent[k], written[(k - 1) \div n + 1], n, (k - 1) % n)

\* The wire carries a frame for every byte written, in the order of the
\* writes, none lost, repeated, torn or mixed with the next, however the ticks
\* interleave with the writes (kraken_uart_tx_driver.c 32-87, 152-164).  The
\* frames may have a place between data and parity that nobody configured;
\* that it is there, and what ODD and EVEN send, are properties of their own.
WireCarriesFrames == \E n \in {FrameSize, Ticks} : Framed(n)

\* "Number of data bits" (kraken_uart.h 33): a frame has exactly the places
\* its configuration asks for, as the diagram in kraken_uart_tx_driver.c 24-30
\* draws it.  Known to be violated, by the bounds of lines 107 and 56.
FramesAreAsConfigured == Framed(FrameSize)

\* "The parity bit is set so that the total number of 1s in the data bits plus
\* the parity bit is odd", or even (kraken_uart.h 24-25): the level at the
\* place of the parity bit, for eight data bits.  Known to be violated, by
\* kraken_uart_tx_driver.c 65-72.
ParityIsAsConfigured ==
    \A k \in 1..Len(sent) : (k - 1) % Ticks = ParityBit =>
        LET ones == Odd(written[(k - 1) \div Ticks + 1]) + sent[k]
        IN  /\ config.parity = "ODD" => ones % 2 = 1
            /\ config.parity = "EVEN" => ones % 2 = 0

\* The line rests at logic high while no frame is under way
\* (kraken_uart_tx_driver.c 29, 81-83, 126).
IdleLineIsHigh == (tick.pc = "between" /\ FrameDone(bit)) => wire = 1

\* "Wait until internal TX buffer is empty and last bit was sent" (the self
\* test's Main.kt 109): when wait returns, all levels are on the wire, but for
\* the one whose tick is under way.  Known to be violated: wait may see the
\* queue empty and then the count the previous frame left.
WaitMeansSent ==
    app = "returned" => queue = <<>> /\ Len(sent) >= Ticks * Len(written) - 1

\* That is the only way to return early: wait returns with the queue empty and
\* every level on the wire, but for the one of a port update under way, unless
\* the tick is between its fetch of a byte and its reset of the count
\* (kraken_uart_tx_driver.c 45-50, 166-183).
WaitIsExactOutsideFetch ==
    [][(app = "waitBit" /\ app' = "returned" /\ tick.pc \notin {"byte", "bit"}) =>
          /\ queue = <<>>
          /\ Ticks * Len(written) = Len(sent) + IF tick.pc = "update" THEN 1 ELSE 0]_vars

\* The three promises together, at wait's return: every byte written has gone
\* out to its last bit, in the frame its configuration describes (kraken_uart.h
\* 22-35, Main.kt 109).  Known to be violated by each of the three.
TransferIsAsDocumented ==
    app = "returned" => FramesAreAsConfigured /\ ParityIsAsConfigured /\ WaitMeansSent

\* Every byte accepted by write is sent (kraken_uart_tx_driver.c 40-51).
EveryByteIsSent ==
    \A n \in 1..MaxBytes : (Len(written) >= n) ~> (Len(sent) >= Ticks * n)

\* Once something was written, wait returns (kraken_uart_tx_driver.c 172-181).
WaitReturns ==
    (app \in {"waitEmpty", "waitBit"} /\ written # <<>>) ~> (app = "returned")
=============================================================================
