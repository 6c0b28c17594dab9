------------------------------ MODULE SerialTx ------------------------------
(***************************************************************************)
(* libkraken/src/driver/kraken_serial_tx_driver.c on a GPIO port: one      *)
(* serial transmitter with a clock and a data pin.  An application thread  *)
(* queues words and waits; the dispatcher's thread runs the tick function  *)
(* and, after each tick, the masked update of Port, register by register.  *)
(* One step is one access to shared state, but for two definitions that    *)
(* take two: ToggleClock loads and stores the clock IO's state, which      *)
(* nobody else stores between them, and DriveData counts the bit with the  *)
(* store of its level.                                                     *)
(***************************************************************************)
EXTENDS Port

CONSTANTS ClockPin, DataPin,
          WordSizes,    \* config->word_size of the runs
          Words,        \* the words that are written
          BufferSize,   \* config->buffer_size
          MaxWords,     \* bound: words written in a run
          Dispatcher    \* the thread that ticks and updates

ASSUME SerialAssumption ==
    /\ {ClockPin, DataPin} \subseteq PortPins /\ ClockPin # DataPin
    \* With a size of 0 or 1 the bit counter never meets last_bit in time.
    /\ WordSizes \subseteq 2..8
    /\ Words \subseteq 0..255
    /\ BufferSize \in Nat \ {0} /\ MaxWords \in Nat
    /\ Dispatcher \in Threads

VARIABLES wordSize,  \* config->word_size
          queue,     \* state->buffer
          bit,       \* state->bit: the bit of the word the next tick sends
          byte,      \* state->byte
          tick,      \* the tick in progress: where it is, its local current_byte and
                     \* mask; history: the clock's level before it, and whether the
                     \* tick before it had no data
          app,       \* where the application thread is
          written,   \* history: the words write has accepted
          sent       \* history: per bit sent, the data level, whether the clock pin
                     \* moved, and whether a tick without data went before

serialVars == <<wordSize, queue, bit, byte, tick, app, written, sent>>
allVars    == <<vars, serialVars>>

StopBit == -1                                    \* KRAKEN_SERIAL_TX_STOP_BIT
LastBit == wordSize - 1
BitOf(b, k) == (b \div 2^k) % 2
IsHigh(p)   == p \in gpio.output

Between == [pc |-> "between", byte |-> 0, bits |-> FALSE, clock |-> FALSE, gap |-> FALSE]

\* After create, on a port that was reinitialised with both pins as outputs.
SerialInit ==
    /\ io = [p \in PortPins |-> [state |-> 0, mode |-> ModeOut, pud |-> "OFF"]]
    /\ gpio = [gpfsel |-> [p \in Pins |-> IF p \in PortPins THEN FselOut ELSE BootFsel[p]],
               output |-> Foreign, gppud |-> "OFF", gppudclk |-> {}, pull |-> BootPull]
    /\ wires = {} /\ calls = 0 /\ sets = 0
    /\ call = [t \in Threads |-> Idle]
    /\ epoch = NoEpoch
    /\ wordSize \in WordSizes
    /\ queue = <<>> /\ bit = StopBit /\ byte = 0
    /\ tick = Between
    /\ app = "idle" /\ written = <<>> /\ sent = <<>>

-----------------------------------------------------------------------------
(* The tick, in the dispatcher's thread.                                   *)

\* The index of the last bit counts as done: the word's top bit is not sent.
WordDone == bit = StopBit \/ bit = LastBit

TickBegins ==
    /\ tick.pc = "between"
    /\ tick' = [tick EXCEPT !.pc = IF WordDone THEN "fetch" ELSE "clock", !.byte = byte,
                            !.clock = IsHigh(ClockPin)]
    /\ UNCHANGED <<vars, wordSize, queue, bit, byte, app, written, sent>>

\* Mutant: one word alone counts as no data.
MutantNothingBelowTwo ==
    /\ tick.pc = "fetch" /\ Len(queue) < 2
    /\ tick' = [tick EXCEPT !.pc = "update"]
    /\ UNCHANGED <<vars, wordSize, queue, bit, byte, app, written, sent>>

\* No data: the tick ends with an empty mask, and the port is updated with it.
NothingToSend ==
    /\ tick.pc = "fetch" /\ queue = <<>>
    /\ tick' = [tick EXCEPT !.pc = "update"]
    /\ UNCHANGED <<vars, wordSize, queue, bit, byte, app, written, sent>>

\* Mutant: the newest word is sent first.
MutantDequeueLast ==
    /\ tick.pc = "fetch" /\ queue # <<>>
    /\ tick' = [tick EXCEPT !.pc = "byte", !.byte = queue[Len(queue)]]
    /\ queue' = SubSeq(queue, 1, Len(queue) - 1)
    /\ UNCHANGED <<vars, wordSize, bit, byte, app, written, sent>>

Dequeue ==
    /\ tick.pc = "fetch" /\ queue # <<>>
    /\ tick' = [tick EXCEPT !.pc = "byte", !.byte = Head(queue)]
    /\ queue' = Tail(queue)
    /\ UNCHANGED <<vars, wordSize, bit, byte, app, written, sent>>

StoreByte ==
    /\ tick.pc = "byte"
    /\ byte' = tick.byte
    /\ tick' = [tick EXCEPT !.pc = "bit"]
    /\ UNCHANGED <<vars, wordSize, queue, bit, app, written, sent>>

ResetBit ==
    /\ tick.pc = "bit"
    /\ bit' = 0
    /\ tick' = [tick EXCEPT !.pc = "clock"]
    /\ UNCHANGED <<vars, wordSize, queue, byte, app, written, sent>>

\* Mutant: the clock is driven high for every bit.
MutantClockHigh ==
    /\ tick.pc = "clock"
    /\ io' = [io EXCEPT ![ClockPin].state = 1]
    /\ tick' = [tick EXCEPT !.pc = "data"]
    /\ UNCHANGED <<gpio, wires, call, calls, sets, epoch, wordSize, queue, bit, byte, app,
                   written, sent>>

\* The clock is the negation of what the last update left in its IO's state.
ToggleClock ==
    /\ tick.pc = "clock"
    /\ io' = [io EXCEPT ![ClockPin].state = IF @ = 0 THEN 1 ELSE 0]
    /\ tick' = [tick EXCEPT !.pc = "data"]
    /\ UNCHANGED <<gpio, wires, call, calls, sets, epoch, wordSize, queue, bit, byte, app,
                   written, sent>>

DriveData ==
    /\ tick.pc = "data"
    /\ io' = [io EXCEPT ![DataPin].state = BitOf(tick.byte, bit)]
    /\ bit' = bit + 1
    /\ tick' = [tick EXCEPT !.pc = "update", !.bits = TRUE]
    /\ UNCHANGED <<gpio, wires, call, calls, sets, epoch, wordSize, queue, byte, app,
                   written, sent>>

\* kraken_clock_tick updates the port with the mask the tick returned.
UpdateBegins ==
    /\ tick.pc = "update"
    /\ CallUpdate(Dispatcher, IF tick.bits THEN {ClockPin, DataPin} ELSE {})
    /\ tick' = [tick EXCEPT !.pc = "updating"]
    /\ UNCHANGED <<calls, wordSize, queue, bit, byte, app, written, sent>>

UpdateGoesOn ==
    /\ tick.pc = "updating" /\ UpdateStep(Dispatcher)
    /\ UNCHANGED serialVars

SentBit == [data |-> IsHigh(DataPin), edge |-> IsHigh(ClockPin) # tick.clock, gap |-> tick.gap]

UpdateEnds ==
    /\ tick.pc = "updating" /\ At(Dispatcher, "idle")
    /\ tick' = [Between EXCEPT !.gap = ~tick.bits]
    /\ sent' = IF tick.bits THEN Append(sent, SentBit) ELSE sent
    /\ UNCHANGED <<vars, wordSize, queue, bit, byte, app, written>>

TickStep ==
    \/ TickBegins \/ NothingToSend \/ Dequeue \/ StoreByte \/ ResetBit \/ ToggleClock
    \/ DriveData \/ UpdateBegins \/ UpdateGoesOn \/ UpdateEnds

-----------------------------------------------------------------------------
(* The application thread.                                                 *)

AppOnly == UNCHANGED <<vars, wordSize, bit, byte, tick, sent>>

\* kraken_serial_tx_driver_write of one word: push spins while the queue is full.
WriteWord(w) ==
    /\ app \in {"idle", "returned"} /\ Len(written) < MaxWords
    /\ Len(queue) < BufferSize
    /\ queue' = Append(queue, w)
    /\ written' = Append(written, w)
    /\ app' = "idle"
    /\ AppOnly

CallWait ==
    /\ app \in {"idle", "returned"}
    /\ app' = "waitEmpty"
    /\ AppOnly /\ UNCHANGED <<queue, written>>

\* Mutant: wait does not look at the queue.
MutantQueueNotAwaited ==
    /\ app = "waitEmpty"
    /\ app' = "waitBit"
    /\ AppOnly /\ UNCHANGED <<queue, written>>

\* "Wait until bytes are consumed"
QueueSeenEmpty ==
    /\ app = "waitEmpty" /\ queue = <<>>
    /\ app' = "waitBit"
    /\ AppOnly /\ UNCHANGED <<queue, written>>

\* "Wait until we reached last bit"
LastBitSeen ==
    /\ app = "waitBit" /\ bit >= LastBit
    /\ app' = "returned"
    /\ AppOnly /\ UNCHANGED <<queue, written>>

WaitStep == QueueSeenEmpty \/ LastBitSeen

SerialNext ==
    \/ TickStep
    \/ \E w \in Words : WriteWord(w)
    \/ CallWait
    \/ WaitStep

\* The driver's clock is registered and running, so tick follows tick; the
\* waiting thread yields between its reads and goes on reading.
SerialSpec ==
    SerialInit /\ [][SerialNext]_allVars /\ WF_allVars(TickStep) /\ WF_allVars(WaitStep)

-----------------------------------------------------------------------------
\* The data pin has shown the words written, the lowest n bits of each, lowest
\* first, back to back.
Framed(n) ==
    /\ Len(sent) <= n * Len(written)
    /\ \A k \in 1..Len(sent) :
          sent[k].data = (BitOf(written[(k - 1) \div n + 1], (k - 1) % n) = 1)

\* The data pin carries the words in the order of the writes, the same number
\* of bits of each, lowest first; none is lost, repeated or torn
\* (kraken_serial_tx_driver.c 19-46, bcm2835.c 38-58).  How many bits of a word
\* there are is the next property's.
WireCarriesWords == \E n \in 1..wordSize : Framed(n)

\* "The size of each serial word in bits" (kraken_serial_tx_driver.h 26): that
\* many bits of a word are sent.  Known to be violated: the index of the last bit
\* counts as done before that bit is sent (kraken_serial_tx_driver.c 27, 55).
WordsAreWhole == Framed(wordSize)

\* The clock pin moves once per bit, although the port rewrites the state the
\* tick negates: an edge is missing only where ticks without data went before,
\* whose update resets that state (kraken_serial_tx_driver.c 40-41, bcm2835.c 51).
\* It takes a clock pin among the first eight of its bank: the state holds no other.
EdgeMarksBit == \A k \in 1..Len(sent) : sent[k].edge \/ sent[k].gap

\* When the clock pin rises the data pin already has the bit of this tick, as
\* the registers are cleared before they are set (bcm2835.c 55-58).  It takes a data
\* pin whose bank is not above the clock pin's: bank 0 is set before bank 1 is cleared.
RisingEdgeMarksData ==
    [][(~IsHigh(ClockPin) /\ IsHigh(ClockPin)') =>
          IsHigh(DataPin)' = (BitOf(tick.byte, bit - 1) = 1)]_allVars

\* When wait returns every word has left the queue and all but the last were
\* sent (kraken_serial_tx_driver.c 111-126).
WaitLeavesOneWord ==
    app = "returned" => queue = <<>> /\ Len(sent) >= LastBit * (Len(written) - 1)

\* Every word accepted by write is sent (kraken_serial_tx_driver.c 27-37).
EveryWordIsSent ==
    \A n \in 1..MaxWords : (Len(written) >= n) ~> (Len(sent) >= LastBit * n)
=============================================================================
