--------------------------- MODULE UartTxProofs ----------------------------
(***************************************************************************)
(* What the UART transmitter puts on the wire, for every configuration,    *)
(* any bytes and any buffer: frames in order, a high line at rest, and     *)
(* what wait guarantees.  The argument counts: the bytes fetched so far    *)
(* and the place in the current frame tell how many bits were sent.        *)
(***************************************************************************)
EXTENDS UartTx, TLAPS

\* How many bytes the tick has fetched.
Fetched == Len(written) - Len(queue)

\* k bits of the frame of the byte fetched last were sent, or all of them.
InFrame(k) == Fetched >= 1 /\ Len(sent) = Ticks * (Fetched - 1) + k
AtEnd      == Len(sent) = Ticks * Fetched

\* The k-th level on the wire, counted from 0, when the bytes of s are sent in
\* the driver's own frames: a start bit, one data bit more than configured, the
\* parity bit as the driver computes it, the stop bits.
Reference(s, k) ==
    LET b == s[k \div Ticks + 1]
        p == k % Ticks
    IN  IF p = 0 THEN 0
        ELSE IF p <= config.dataBits + 1 THEN BitOf(b, p - 1)
        ELSE IF HasParity /\ p = config.dataBits + 2 THEN ParityLevel(b)
        ELSE 1

\* The IO holds the bit the wire shows next.
IOIsNext == ioState = Reference(written, Len(sent))

Locations == {"between", "fetch", "skip", "byte", "bit", "drive", "next", "update"}

Shapes ==
    /\ config \in Configs
    /\ written \in Seq(Bytes) /\ queue \in Seq(Bytes)
    /\ \E S : sent \in Seq(S)
    /\ tick.pc \in Locations /\ tick = [pc |-> tick.pc, bit |-> tick.bit, byte |-> tick.byte]

\* The queue holds the bytes written last.
QueueIsRest ==
    /\ Len(queue) <= Len(written)
    /\ \A j \in 1..Len(queue) : queue[j] = written[Fetched + j]

\* Between frames the line is high; within one, what is sent is the byte
\* fetched last.
Place ==
    /\ tick.pc \in {"fetch", "skip"} => FrameDone(bit)
    /\ (tick.pc \in {"between", "fetch", "skip"} /\ FrameDone(bit)) => AtEnd /\ wire = 1
    /\ (tick.pc = "between" /\ ~FrameDone(bit)) =>
          bit \in 1..(Ticks - 1) /\ InFrame(bit) /\ byte = written[Fetched]
    /\ tick.pc \in {"byte", "bit"} =>
          tick.bit = 0 /\ InFrame(0) /\ tick.byte = written[Fetched]
    /\ tick.pc = "bit" => byte = tick.byte
    /\ tick.pc \in {"drive", "next"} =>
          /\ tick.bit \in 0..(Ticks - 1) /\ bit = tick.bit /\ InFrame(tick.bit)
          /\ tick.byte = written[Fetched] /\ byte = tick.byte
    /\ tick.pc = "next" => IOIsNext
    /\ tick.pc = "update" =>
          bit \in 1..Ticks /\ InFrame(bit - 1) /\ byte = written[Fetched] /\ IOIsNext

SentIsReference == \A k \in 1..Len(sent) : sent[k] = Reference(written, k - 1)

WaitSawEmpty == app \in {"waitBit", "returned"} => queue = <<>>

UartInv == Shapes /\ QueueIsRest /\ Place /\ SentIsReference

-----------------------------------------------------------------------------
(* The layout of a frame.                                                  *)

\* The frame's length is the place of the last stop bit.
LEMMA Layout ==
    ASSUME config \in Configs
    PROVE  Ticks \in Nat /\ Ticks > 1 /\ LastStopBit = Ticks
<1>1. config.dataBits \in 5..8 /\ config.stopBits \in 1..2
  BY UartAssumption DEF UartConfigs
<1>2. QED
  BY <1>1 DEF Ticks, FrameSize, LastStopBit, FirstStopBit, ParityBit, LastDataBit

\* Places in a row of frames of t bits.
LEMMA FrameArithmetic ==
    ASSUME NEW t \in Nat, t > 1, NEW f \in Nat, NEW r \in 0..(t - 1)
    PROVE  (t * f + r) \div t = f /\ (t * f + r) % t = r
OBVIOUS

LEMMA FrameOrder ==
    ASSUME NEW t \in Nat, NEW f \in Nat, NEW n \in Nat, f <= n
    PROVE  t * f <= t * n
OBVIOUS

\* In the f-th frame, the level the tick drives for a bit is the reference's,
\* and the last one is a stop bit.
LEMMA LevelIsReference ==
    ASSUME config \in Configs, NEW f \in Nat \ {0}, NEW p \in 0..(Ticks - 1)
    PROVE  /\ Reference(written, Ticks * (f - 1) + p) = Level(written[f], p)
           /\ p = Ticks - 1 => Reference(written, Ticks * (f - 1) + p) = 1
<1>1. config.dataBits \in 5..8 /\ config.stopBits \in 1..2 /\ config.parity \in Parities
  BY UartAssumption DEF UartConfigs
<1>2. Ticks \in Nat /\ Ticks > 1
  BY Layout
<1>3. (Ticks * (f - 1) + p) \div Ticks = f - 1 /\ (Ticks * (f - 1) + p) % Ticks = p
  BY <1>2, FrameArithmetic
<1>4. Reference(written, Ticks * (f - 1) + p)
        = IF p = 0 THEN 0
          ELSE IF p <= config.dataBits + 1 THEN BitOf(written[f], p - 1)
          ELSE IF HasParity /\ p = config.dataBits + 2 THEN ParityLevel(written[f])
          ELSE 1
  BY <1>3 DEF Reference
<1>5. CASE HasParity
  <2>1. Level(written[f], p)
          = IF p = 0 THEN 0
            ELSE IF p <= config.dataBits + 1 THEN BitOf(written[f], p - 1)
            ELSE IF p = config.dataBits + 2 THEN ParityLevel(written[f])
            ELSE 1
    BY <1>1, <1>5 DEF Ticks, FrameSize, LastStopBit, FirstStopBit, ParityBit, LastDataBit,
       FirstDataBit, StartBit, Level
  <2>2. p = Ticks - 1 => p > config.dataBits + 2
    BY <1>1, <1>5 DEF Ticks, FrameSize
  <2>3. QED
    BY <1>1, <1>4, <1>5, <2>1, <2>2
<1>6. CASE ~HasParity
  <2>1. Level(written[f], p)
          = IF p = 0 THEN 0
            ELSE IF p <= config.dataBits + 1 THEN BitOf(written[f], p - 1)
            ELSE 1
    BY <1>1, <1>6 DEF Ticks, FrameSize, LastStopBit, FirstStopBit, LastDataBit,
       FirstDataBit, StartBit, Level
  <2>2. p = Ticks - 1 => p > config.dataBits + 1
    BY <1>1, <1>6 DEF Ticks, FrameSize
  <2>3. QED
    BY <1>1, <1>4, <1>6, <2>1, <2>2
<1>7. QED
  BY <1>5, <1>6

\* What holds of the lengths in a state of the invariant.
LEMMA Counts ==
    ASSUME Shapes, QueueIsRest
    PROVE  /\ Len(written) \in Nat /\ Len(queue) \in Nat /\ Len(sent) \in Nat
           /\ Fetched \in Nat /\ Fetched <= Len(written)
           /\ Ticks \in Nat /\ Ticks > 1 /\ LastStopBit = Ticks
<1>1. Len(written) \in Nat /\ Len(queue) \in Nat /\ Len(sent) \in Nat
  BY DEF Shapes
<1>2. QED
  BY <1>1, Layout DEF Shapes, QueueIsRest, Fetched

\* At most the frames of the bytes fetched were sent, and all but the last
\* whole.
LEMMA SentIsBounded ==
    ASSUME Shapes, QueueIsRest, Place
    PROVE  /\ Len(sent) <= Ticks * Fetched
           /\ Fetched >= 1 => Len(sent) >= Ticks * (Fetched - 1)
           /\ tick.pc \in {"drive", "next", "update"} => Len(sent) < Ticks * Fetched
<1> DEFINE t == Ticks
           f == Fetched
<1>1. t \in Nat /\ t > 1 /\ f \in Nat /\ Len(sent) \in Nat
  BY Counts
<1>2. f >= 1 => f - 1 \in Nat /\ t * f = t * (f - 1) + t /\ t * (f - 1) \in Nat /\ t * f \in Nat
  BY <1>1
<1>3. \/ Len(sent) = t * f /\ tick.pc \notin {"drive", "next", "update"}
      \/ f >= 1 /\ \E k \in 0..(t - 1) : Len(sent) = t * (f - 1) + k
  <2>1. tick.pc \in Locations
    BY DEF Shapes
  <2>2. CASE tick.pc \in {"between", "fetch", "skip"} /\ FrameDone(bit)
    BY <2>2 DEF Place, AtEnd
  <2>3. CASE tick.pc = "between" /\ ~FrameDone(bit)
    <3>1. bit \in 0..(t - 1) /\ Len(sent) = t * (f - 1) + bit /\ f >= 1
      BY <1>1, <2>3 DEF Place, InFrame
    <3>2. QED
      BY <3>1
  <2>4. CASE tick.pc \in {"byte", "bit"}
    <3>1. 0 \in 0..(t - 1) /\ Len(sent) = t * (f - 1) + 0 /\ f >= 1
      BY <1>1, <2>4 DEF Place, InFrame
    <3>2. QED
      BY <3>1
  <2>5. CASE tick.pc \in {"drive", "next"}
    <3>1. tick.bit \in 0..(t - 1) /\ Len(sent) = t * (f - 1) + tick.bit /\ f >= 1
      BY <1>1, <2>5 DEF Place, InFrame
    <3>2. QED
      BY <3>1
  <2>6. CASE tick.pc = "update"
    <3>1. bit - 1 \in 0..(t - 1) /\ Len(sent) = t * (f - 1) + (bit - 1) /\ f >= 1
      BY <1>1, <2>6 DEF Place, InFrame
    <3>2. QED
      BY <3>1
  <2>7. QED
    BY <2>1, <2>2, <2>3, <2>4, <2>5, <2>6 DEF Place, Locations
<1>4. CASE f >= 1
  <2>1. t * f = t * (f - 1) + t /\ t * (f - 1) \in Nat
    BY <1>2, <1>4
  <2> DEFINE a == t * (f - 1)
             z == t * f
  <2>2. z = a + t /\ a \in Nat
    BY <2>1
  <2>3. \/ Len(sent) = z /\ tick.pc \notin {"drive", "next", "update"}
        \/ \E k \in 0..(t - 1) : Len(sent) = a + k
    BY <1>3
  <2> HIDE DEF a, z, t, f
  <2>4. /\ Len(sent) <= z /\ Len(sent) >= a
        /\ tick.pc \in {"drive", "next", "update"} => Len(sent) < z
    BY <1>1, <2>2, <2>3
  <2>5. QED
    BY <2>4 DEF a, z, t, f
<1>5. CASE ~(f >= 1)
  BY <1>1, <1>3, <1>5
<1>6. QED
  BY <1>4, <1>5

\* The byte a place of the reference belongs to was fetched.
LEMMA PlaceOfFetched ==
    ASSUME NEW t \in Nat, t > 1, NEW f \in Nat, NEW k \in Nat, k < t * f
    PROVE  k \div t + 1 \in 1..f
<1> DEFINE d == k \div t
<1>1. d \in Nat /\ d * t <= k
  OBVIOUS
<1> HIDE DEF d
<1>2. d < f
  <2> SUFFICES ASSUME f <= d PROVE FALSE
    BY <1>1
  <2>1. t * f <= t * d
    BY <1>1, FrameOrder
  <2>2. t * d = d * t /\ t * d \in Nat /\ t * f \in Nat
    BY <1>1
  <2>3. QED
    BY <1>1, <2>1, <2>2
<1>3. QED
  BY <1>1, <1>2 DEF d

\* A step leaves the layout alone, and the reference at the places reached.
LEMMA ReferenceIsStable ==
    ASSUME Shapes, QueueIsRest, config' = config,
           \A j \in 1..Fetched : written'[j] = written[j]
    PROVE  /\ Ticks' = Ticks /\ LastStopBit' = LastStopBit
           /\ \A k \in Nat : k < Ticks * Fetched => Reference(written, k)' = Reference(written, k)
<1>1. Ticks' = Ticks /\ LastStopBit' = LastStopBit
  BY DEF Ticks, FrameSize, HasParity, LastStopBit, FirstStopBit, ParityBit, LastDataBit
<1>2. ASSUME NEW k \in Nat, k < Ticks * Fetched
      PROVE  Reference(written, k)' = Reference(written, k)
  <2>1. k \div Ticks + 1 \in 1..Fetched
    BY <1>2, Counts, PlaceOfFetched
  <2>2. written'[k \div Ticks + 1] = written[k \div Ticks + 1]
    BY <2>1
  <2>3. QED
    BY <1>1, <2>2 DEF Reference, HasParity, ParityLevel
<1>3. QED
  BY <1>1, <1>2

-----------------------------------------------------------------------------
(* Every step keeps the invariant.                                         *)

\* A step that sends nothing leaves what was sent, and what is next.
LEMMA NothingSent ==
    ASSUME UartInv, config' = config, sent' = sent, Fetched' >= Fetched,
           \A j \in 1..Fetched : written'[j] = written[j]
    PROVE  /\ Ticks' = Ticks /\ LastStopBit' = LastStopBit
           /\ SentIsReference'
           /\ (tick.pc \in {"next", "update"} /\ IOIsNext /\ ioState' = ioState) => IOIsNext'
<1> USE DEF UartInv
<1>1. /\ Ticks' = Ticks /\ LastStopBit' = LastStopBit
      /\ \A k \in Nat : k < Ticks * Fetched => Reference(written, k)' = Reference(written, k)
  BY ReferenceIsStable
<1>2. Len(sent) \in Nat /\ Len(sent) <= Ticks * Fetched
      /\ (tick.pc \in {"drive", "next", "update"} => Len(sent) < Ticks * Fetched)
      /\ Ticks * Fetched \in Nat
  BY Counts, SentIsBounded
<1>3. SentIsReference'
  <2> SUFFICES ASSUME NEW k \in 1..Len(sent)
               PROVE  sent[k] = Reference(written, k - 1)'
    BY DEF SentIsReference
  <2>1. k - 1 \in Nat /\ k - 1 < Ticks * Fetched
    BY <1>2
  <2>2. Reference(written, k - 1)' = Reference(written, k - 1)
    BY <1>1, <2>1
  <2>3. QED
    BY <2>2 DEF SentIsReference
<1>4. ASSUME tick.pc \in {"next", "update"}, IOIsNext, ioState' = ioState
      PROVE  IOIsNext'
  <2>1. Reference(written, Len(sent))' = Reference(written, Len(sent))
    BY <1>1, <1>2, <1>4
  <2>2. QED
    BY <1>4, <2>1 DEF IOIsNext
<1>5. QED
  BY <1>1, <1>3, <1>4

\* A frame under way goes on, else the tick looks for a byte.
LEMMA TickBeginsStep ==
    ASSUME UartInv, TickBegins PROVE UartInv'
<1> USE DEF UartInv
<1>1. config' = config /\ sent' = sent /\ written' = written /\ queue' = queue /\ Fetched' = Fetched
  BY DEF TickBegins, Fetched
<1>2. Ticks' = Ticks /\ LastStopBit' = LastStopBit /\ SentIsReference'
  BY <1>1, NothingSent, Counts
<1>3. Shapes' /\ QueueIsRest'
  BY <1>1 DEF TickBegins, Shapes, QueueIsRest, Locations, Between
<1>4. Place'
  BY <1>1, <1>2, Counts
  DEF TickBegins, Place, Shapes, FrameDone, InFrame, AtEnd, Idle, StartBit, Between
<1>5. QED
  BY <1>2, <1>3, <1>4

\* Nothing to send: the line keeps its level.
LEMMA NothingToSendStep ==
    ASSUME UartInv, NothingToSend PROVE UartInv'
<1> USE DEF UartInv
<1>1. config' = config /\ sent' = sent /\ written' = written /\ queue' = queue /\ Fetched' = Fetched
  BY DEF NothingToSend, Fetched
<1>2. Ticks' = Ticks /\ LastStopBit' = LastStopBit /\ SentIsReference'
  BY <1>1, NothingSent, Counts
<1>3. Shapes' /\ QueueIsRest'
  BY <1>1 DEF NothingToSend, Shapes, QueueIsRest, Locations, Between
<1>4. Place'
  BY <1>1, <1>2, Counts
  DEF NothingToSend, Place, Shapes, FrameDone, InFrame, AtEnd, Idle, StartBit, Between
<1>5. QED
  BY <1>2, <1>3, <1>4

\* The byte fetched is kept for the ticks to come.
LEMMA StoreByteStep ==
    ASSUME UartInv, StoreByte PROVE UartInv'
<1> USE DEF UartInv
<1>1. config' = config /\ sent' = sent /\ written' = written /\ queue' = queue /\ Fetched' = Fetched
  BY DEF StoreByte, Fetched
<1>2. Ticks' = Ticks /\ LastStopBit' = LastStopBit /\ SentIsReference'
  BY <1>1, NothingSent, Counts
<1>3. Shapes' /\ QueueIsRest'
  BY <1>1 DEF StoreByte, Shapes, QueueIsRest, Locations, Between
<1>4. Place'
  BY <1>1, <1>2, Counts
  DEF StoreByte, Place, Shapes, FrameDone, InFrame, AtEnd, Idle, StartBit, Between
<1>5. QED
  BY <1>2, <1>3, <1>4

\* The frame begins with the start bit.
LEMMA ResetBitStep ==
    ASSUME UartInv, ResetBit PROVE UartInv'
<1> USE DEF UartInv
<1>1. config' = config /\ sent' = sent /\ written' = written /\ queue' = queue /\ Fetched' = Fetched
  BY DEF ResetBit, Fetched
<1>2. Ticks' = Ticks /\ LastStopBit' = LastStopBit /\ SentIsReference'
  BY <1>1, NothingSent, Counts
<1>3. Shapes' /\ QueueIsRest'
  BY <1>1 DEF ResetBit, Shapes, QueueIsRest, Locations, Between
<1>4. Place'
  BY <1>1, <1>2, Counts
  DEF ResetBit, Place, Shapes, FrameDone, InFrame, AtEnd, Idle, StartBit, Between
<1>5. QED
  BY <1>2, <1>3, <1>4

\* The next tick sends the bit after the one driven.
LEMMA NextBitStep ==
    ASSUME UartInv, NextBit PROVE UartInv'
<1> USE DEF UartInv
<1>1. config' = config /\ sent' = sent /\ written' = written /\ queue' = queue /\ Fetched' = Fetched
  BY DEF NextBit, Fetched
<1>2. Ticks' = Ticks /\ LastStopBit' = LastStopBit /\ SentIsReference'
  BY <1>1, NothingSent, Counts
<1>3. Shapes' /\ QueueIsRest'
  BY <1>1 DEF NextBit, Shapes, QueueIsRest, Locations, Between
<1>4. Place'
  <2>1. IOIsNext'
    BY <1>1, NothingSent, Counts DEF NextBit, Place
  <2>2. QED
    BY <1>1, <1>2, <2>1, Counts DEF NextBit, Place, Shapes, InFrame, Between
<1>5. QED
  BY <1>2, <1>3, <1>4

\* The byte at the head of the queue is the next one written.
LEMMA DequeueStep ==
    ASSUME UartInv, Dequeue PROVE UartInv'
<1> USE DEF UartInv
<1>1. config' = config /\ sent' = sent /\ written' = written /\ queue' = Tail(queue)
      /\ Len(queue) \in Nat /\ Len(queue) > 0
  BY DEF Dequeue, Shapes
<1>2. Len(queue') = Len(queue) - 1 /\ queue' \in Seq(Bytes)
      /\ \A j \in 1..Len(queue') : queue'[j] = queue[j + 1]
  BY <1>1 DEF Shapes
<1>3. Fetched' = Fetched + 1
  BY <1>1, <1>2, Counts DEF Fetched
<1>4. Head(queue) = written[Fetched']
  BY <1>1, <1>3 DEF QueueIsRest, Shapes
<1>5. Ticks' = Ticks /\ LastStopBit' = LastStopBit /\ SentIsReference'
  BY <1>1, <1>3, NothingSent, Counts
<1>6. Shapes'
  BY <1>1, <1>2 DEF Dequeue, Shapes, Locations
<1>7. QueueIsRest'
  <2>1. Len(queue') <= Len(written')
    BY <1>1, <1>2, Counts DEF QueueIsRest
  <2>2. ASSUME NEW j \in 1..Len(queue') PROVE queue'[j] = written'[Fetched' + j]
    <3>1. j + 1 \in 1..Len(queue) /\ Fetched + (j + 1) = Fetched' + j
      BY <1>1, <1>2, <1>3, Counts
    <3>2. QED
      BY <1>1, <1>2, <3>1 DEF QueueIsRest
  <2>3. QED
    BY <2>1, <2>2 DEF QueueIsRest
<1>8. Place'
  <2>1. Fetched' - 1 = Fetched /\ Fetched' >= 1 /\ Len(sent) = Ticks * Fetched
    BY <1>3, Counts DEF Dequeue, Place, AtEnd
  <2>2. InFrame(0)'
    BY <1>1, <1>5, <2>1, Counts DEF InFrame
  <2>3. QED
    BY <1>1, <1>4, <1>5, <2>2 DEF Dequeue, Place, StartBit
<1>9. QED
  BY <1>5, <1>6, <1>7, <1>8

\* The tick drives the bit the reference has next.
LEMMA DriveIOStep ==
    ASSUME UartInv, DriveIO PROVE UartInv'
<1> USE DEF UartInv
<1>1. config' = config /\ sent' = sent /\ written' = written /\ queue' = queue /\ Fetched' = Fetched
  BY DEF DriveIO, Fetched
<1>2. Ticks' = Ticks /\ LastStopBit' = LastStopBit /\ SentIsReference'
  BY <1>1, NothingSent, Counts
<1>3. Shapes' /\ QueueIsRest'
  BY <1>1 DEF DriveIO, Shapes, QueueIsRest, Locations
<1>4. IOIsNext'
  <2>1. tick.bit \in 0..(Ticks - 1) /\ Fetched \in Nat \ {0} /\ tick.byte = written[Fetched]
        /\ Len(sent) = Ticks * (Fetched - 1) + tick.bit /\ Len(sent) < Ticks * Fetched
    <3>1. tick.bit \in 0..(Ticks - 1) /\ Fetched \in Nat \ {0} /\ tick.byte = written[Fetched]
          /\ Len(sent) = Ticks * (Fetched - 1) + tick.bit
      BY Counts DEF DriveIO, Place, InFrame
    <3>2. QED
      BY <3>1, SentIsBounded DEF DriveIO
  <2>2. Reference(written, Len(sent)) = Level(tick.byte, tick.bit)
    BY <2>1, LevelIsReference DEF Shapes
  <2>3. Reference(written, Len(sent))' = Reference(written, Len(sent))
    BY <1>1, <2>1, Counts, ReferenceIsStable
  <2>4. QED
    BY <1>1, <2>2, <2>3 DEF DriveIO, IOIsNext
<1>5. Place'
  BY <1>1, <1>2, <1>4, Counts DEF DriveIO, Place, Shapes, InFrame
<1>6. QED
  BY <1>2, <1>3, <1>4, <1>5

\* What the port shows on the wire is the reference's next bit; after the last
\* one the frame is whole and the line high.
LEMMA UpdatePortStep ==
    ASSUME UartInv, UpdatePort PROVE UartInv'
<1> USE DEF UartInv
<1>1. config' = config /\ written' = written /\ queue' = queue /\ bit' = bit /\ byte' = byte
      /\ Fetched' = Fetched /\ tick' = Between
  BY DEF UpdatePort, Fetched
<1>2. /\ Ticks' = Ticks /\ LastStopBit' = LastStopBit
      /\ \A k \in Nat : k < Ticks * Fetched => Reference(written, k)' = Reference(written, k)
  BY <1>1, ReferenceIsStable, Counts
<1>3. QueueIsRest'
  BY <1>1 DEF QueueIsRest
<1>4. CASE tick.pc = "skip"
  <2>1. sent' = sent /\ wire' = wire
    BY <1>4 DEF UpdatePort
  <2>2. SentIsReference'
    BY <1>1, <2>1, NothingSent, Counts
  <2>3. Shapes'
    BY <1>1, <2>1 DEF Shapes, UpdatePort, Between, Locations
  <2>4. Place'
    BY <1>1, <1>2, <1>4, <2>1, Counts DEF Place, FrameDone, AtEnd, Between, Idle
  <2>5. QED
    BY <1>3, <2>2, <2>3, <2>4
<1>5. CASE tick.pc = "update"
  <2>1. sent' = Append(sent, ioState) /\ wire' = ioState /\ ioState = Reference(written, Len(sent))
    BY <1>5 DEF UpdatePort, Place, IOIsNext
  <2>2. /\ Len(sent) \in Nat /\ Len(sent') = Len(sent) + 1 /\ \E S : sent' \in Seq(S)
        /\ \A k \in 1..Len(sent) : sent'[k] = sent[k]
        /\ sent'[Len(sent) + 1] = ioState
    <3>1. PICK S : sent \in Seq(S)
      BY DEF Shapes
    <3> DEFINE E == S \cup {ioState}
    <3>2. sent \in Seq(E) /\ ioState \in E
      BY <3>1
    <3>3. Append(sent, ioState) \in Seq(E)
      BY <3>2
    <3>4. /\ Len(sent) \in Nat /\ Len(Append(sent, ioState)) = Len(sent) + 1
          /\ \A k \in 1..Len(sent) : Append(sent, ioState)[k] = sent[k]
          /\ Append(sent, ioState)[Len(sent) + 1] = ioState
      BY <3>2
    <3>5. QED
      BY <2>1, <3>3, <3>4
  <2>3. SentIsReference'
    <3> SUFFICES ASSUME NEW k \in 1..(Len(sent) + 1)
                 PROVE  sent'[k] = Reference(written, k - 1)'
      BY <2>2 DEF SentIsReference
    <3>1. sent'[k] = Reference(written, k - 1)
      BY <2>1, <2>2 DEF SentIsReference
    <3>2. k - 1 \in Nat /\ k - 1 < Ticks * Fetched
      <4>1. Len(sent) < Ticks * Fetched /\ Ticks * Fetched \in Nat
        BY <1>5, SentIsBounded, Counts
      <4>2. QED
        BY <2>2, <4>1
    <3>3. QED
      BY <1>2, <3>1, <3>2
  <2>4. Shapes'
    BY <1>1, <2>2 DEF Shapes, UpdatePort, Between, Locations
  <2>5. bit \in 1..Ticks /\ Fetched \in Nat \ {0} /\ Len(sent) = Ticks * (Fetched - 1) + (bit - 1)
        /\ byte = written[Fetched]
    BY <1>5, Counts DEF Place, InFrame
  <2>6. Len(sent') = Ticks * (Fetched - 1) + bit
    <3> DEFINE a == Ticks * (Fetched - 1)
    <3>1. a \in Nat
      BY <2>5, Counts
    <3>2. Len(sent) = a + (bit - 1)
      BY <2>5
    <3> HIDE DEF a
    <3>3. Len(sent') = a + bit
      BY <2>2, <2>5, <3>1, <3>2, Counts
    <3>4. QED
      BY <3>3 DEF a
  <2>7. CASE bit = Ticks
    <3>1. Len(sent') = Ticks * Fetched
      BY <2>5, <2>6, <2>7, Counts
    <3>2. wire' = 1
      <4>1. bit - 1 \in 0..(Ticks - 1) /\ bit - 1 = Ticks - 1
        BY <2>5, <2>7, Counts
      <4>2. QED
        BY <2>1, <2>5, <4>1, LevelIsReference DEF Shapes
    <3>3. Place'
      BY <1>1, <1>2, <2>7, <3>1, <3>2, Counts DEF Place, FrameDone, AtEnd, Between
    <3>4. QED
      BY <1>3, <2>3, <2>4, <3>3
  <2>8. CASE bit # Ticks
    <3>1. bit \in 1..(Ticks - 1) /\ bit # Idle
      BY <2>5, <2>8, Counts DEF Idle
    <3>2. ~FrameDone(bit)' /\ InFrame(bit)'
      BY <1>1, <1>2, <2>5, <2>6, <2>8, <3>1, Counts DEF FrameDone, InFrame, Idle
    <3>3. Place'
      BY <1>1, <1>2, <2>5, <3>1, <3>2 DEF Place, Between
    <3>4. QED
      BY <1>3, <2>3, <2>4, <3>3
  <2>9. QED
    BY <2>7, <2>8
<1>6. QED
  BY <1>4, <1>5 DEF UpdatePort

\* A byte joins the queue's end: those fetched are the same.
LEMMA WriteByteStep ==
    ASSUME UartInv, NEW b \in Bytes, WriteByte(b) PROVE UartInv'
<1> USE DEF UartInv
<1>1. /\ config' = config /\ sent' = sent /\ tick' = tick /\ wire' = wire
      /\ bit' = bit /\ byte' = byte /\ ioState' = ioState
      /\ written' = Append(written, b) /\ queue' = Append(queue, b)
  BY DEF WriteByte
<1>2. /\ Len(written') = Len(written) + 1 /\ Len(queue') = Len(queue) + 1
      /\ written' \in Seq(Bytes) /\ queue' \in Seq(Bytes)
      /\ \A j \in 1..Len(written) : written'[j] = written[j]
      /\ \A j \in 1..Len(queue) : queue'[j] = queue[j]
      /\ written'[Len(written) + 1] = b /\ queue'[Len(queue) + 1] = b
  BY <1>1 DEF Shapes
<1>3. Fetched' = Fetched
  BY <1>2, Counts DEF Fetched
<1>4. \A j \in 1..Fetched : written'[j] = written[j]
  BY <1>2, Counts
<1>5. Ticks' = Ticks /\ LastStopBit' = LastStopBit /\ SentIsReference'
      /\ (tick.pc \in {"next", "update"} /\ IOIsNext => IOIsNext')
  BY <1>1, <1>3, <1>4, NothingSent, Counts
<1>6. Shapes'
  BY <1>1, <1>2 DEF Shapes
<1>7. QueueIsRest'
  <2>1. Len(queue') <= Len(written')
    BY <1>2, Counts DEF QueueIsRest
  <2>2. ASSUME NEW j \in 1..Len(queue') PROVE queue'[j] = written'[Fetched' + j]
    <3>1. CASE j = Len(queue) + 1
      <4>1. Fetched + j = Len(written) + 1
        BY <3>1, Counts DEF Fetched
      <4>2. QED
        BY <1>2, <1>3, <3>1, <4>1
    <3>2. CASE j \in 1..Len(queue)
      <4>1. Fetched + j \in 1..Len(written)
        BY <3>2, Counts DEF Fetched
      <4>2. QED
        BY <1>2, <1>3, <3>2, <4>1 DEF QueueIsRest
    <3>3. QED
      BY <1>2, <2>2, <3>1, <3>2, Counts
  <2>3. QED
    BY <2>1, <2>2 DEF QueueIsRest
<1>8. Place'
  <2>1. Fetched >= 1 => written'[Fetched] = written[Fetched]
    BY <1>4, Counts
  <2>2. QED
    BY <1>1, <1>3, <1>5, <2>1, Counts DEF Place, FrameDone, InFrame, AtEnd
<1>9. QED
  BY <1>5, <1>6, <1>7, <1>8

\* What wait does, and a stutter, touch none of it.
LEMMA QuietStep ==
    ASSUME UartInv,
           UNCHANGED <<config, queue, bit, byte, ioState, wire, tick, written, sent>>
    PROVE  UartInv'
<1> USE DEF UartInv
<1>1. Fetched' = Fetched
  BY DEF Fetched
<1>2. Ticks' = Ticks /\ LastStopBit' = LastStopBit /\ SentIsReference'
      /\ (tick.pc \in {"next", "update"} /\ IOIsNext => IOIsNext')
  BY <1>1, NothingSent, Counts
<1>3. Shapes' /\ QueueIsRest'
  BY <1>1 DEF Shapes, QueueIsRest
<1>4. Place'
  BY <1>1, <1>2 DEF Place, FrameDone, InFrame, AtEnd
<1>5. QED
  BY <1>2, <1>3, <1>4

-----------------------------------------------------------------------------
(* The theorems.                                                           *)
LEMMA UartInvHolds == Spec => []UartInv
<1>1. Init => UartInv
  <2> SUFFICES ASSUME Init PROVE UartInv
    OBVIOUS
  <2>1. Fetched = 0 /\ Len(sent) = 0 /\ Len(queue) = 0 /\ Len(written) = 0
    BY DEF Init, Fetched
  <2>2. Shapes
    <3>1. sent \in Seq({0}) /\ written \in Seq(Bytes) /\ queue \in Seq(Bytes)
      BY DEF Init
    <3>2. QED
      BY <3>1 DEF Init, Shapes, Locations, Between
  <2>3. QueueIsRest /\ SentIsReference
    BY <2>1 DEF QueueIsRest, SentIsReference
  <2>4. Place
    BY <2>1, <2>2, Layout DEF Init, Place, Between, FrameDone, Idle, AtEnd, Shapes
  <2>5. QED
    BY <2>2, <2>3, <2>4 DEF UartInv
<1>2. UartInv /\ [Next]_vars => UartInv'
  <2> SUFFICES ASSUME UartInv, [Next]_vars PROVE UartInv'
    OBVIOUS
  <2>1. CASE TickStep
    BY <2>1, TickBeginsStep, NothingToSendStep, DequeueStep, StoreByteStep, ResetBitStep,
       DriveIOStep, NextBitStep, UpdatePortStep DEF TickStep
  <2>2. CASE \E b \in Bytes : WriteByte(b)
    BY <2>2, WriteByteStep
  <2>3. CASE CallWait
    BY <2>3, QuietStep DEF CallWait
  <2>4. CASE WaitStep
    BY <2>4, QuietStep DEF WaitStep, QueueSeenEmpty, LastBitSeen
  <2>5. CASE UNCHANGED vars
    BY <2>5, QuietStep DEF vars
  <2>6. QED
    BY <2>1, <2>2, <2>3, <2>4, <2>5 DEF Next
<1>3. QED
  BY <1>1, <1>2, PTL DEF Spec

\* A level of the driver's own frames is one of a frame with a place more than
\* configured.
LEMMA ReferenceFits ==
    ASSUME config \in Configs, NEW k \in Nat
    PROVE  Fits(Reference(written, k), written[k \div Ticks + 1], Ticks, k % Ticks)
<1> DEFINE b == written[k \div Ticks + 1]
           p == k % Ticks
<1>1. config.dataBits \in 5..8 /\ config.stopBits \in 1..2 /\ config.parity \in Parities
  BY UartAssumption DEF UartConfigs
<1>2. Ticks = 2 + config.dataBits + config.stopBits + IF HasParity THEN 1 ELSE 0
  BY <1>1 DEF Ticks, FrameSize
<1>3. p \in 0..(Ticks - 1)
  BY <1>1, <1>2
<1>4. Reference(written, k) =
        IF p = 0 THEN 0
        ELSE IF p <= config.dataBits + 1 THEN BitOf(b, p - 1)
        ELSE IF HasParity /\ p = config.dataBits + 2 THEN ParityLevel(b)
        ELSE 1
  BY DEF Reference
<1>5. config.parity = "MARK" => HasParity /\ ParityLevel(b) = 1
  BY DEF HasParity, ParityLevel
<1>6. config.parity = "SPACE" => HasParity /\ ParityLevel(b) = 0
  BY DEF HasParity, ParityLevel
<1> HIDE DEF p, b
<1>7. Fits(Reference(written, k), b, Ticks, p)
  BY <1>1, <1>2, <1>3, <1>4, <1>5, <1>6 DEF Fits
<1>8. QED
  BY <1>7 DEF p, b

\* Whatever is written and however ticks and writes interleave, the wire shows
\* the frames of the bytes in order, each with one place more than configured
\* (kraken_uart_tx_driver.c 32-87, 152-164).
THEOREM WireShowsFrames == Spec => []WireCarriesFrames
<1>1. UartInv => WireCarriesFrames
  <2> SUFFICES ASSUME UartInv PROVE Framed(Ticks)
    BY DEF WireCarriesFrames
  <2>1. Len(sent) <= Ticks * Fetched
    BY SentIsBounded DEF UartInv
  <2>2. Ticks * Fetched <= Ticks * Len(written)
    BY Counts, FrameOrder DEF UartInv
  <2>3. Len(sent) \in Nat /\ Ticks * Fetched \in Nat /\ Ticks * Len(written) \in Nat
    BY Counts DEF UartInv
  <2>4. Len(sent) <= Ticks * Len(written)
    BY <2>1, <2>2, <2>3
  <2>5. ASSUME NEW k \in 1..Len(sent)
        PROVE  Fits(sent[k], written[(k - 1) \div Ticks + 1], Ticks, (k - 1) % Ticks)
    <3>1. k - 1 \in Nat /\ sent[k] = Reference(written, k - 1)
      BY <2>3 DEF UartInv, SentIsReference
    <3>2. QED
      BY <3>1, ReferenceFits DEF UartInv, Shapes
  <2>6. QED
    BY <2>4, <2>5 DEF Framed
<1>2. QED
  BY <1>1, UartInvHolds, PTL

\* Between frames the line is high (kraken_uart_tx_driver.c 29, 81-83, 126).
THEOREM LineRestsHigh == Spec => []IdleLineIsHigh
<1>1. UartInv => IdleLineIsHigh
  BY DEF UartInv, Place, IdleLineIsHigh
<1>2. QED
  BY <1>1, UartInvHolds, PTL

\* The queue wait saw empty stays so until the next write.
LEMMA WaitSawEmptyHolds == Spec => []WaitSawEmpty
<1>1. Init => WaitSawEmpty
  BY DEF Init, WaitSawEmpty
<1>2. WaitSawEmpty /\ [Next]_vars => WaitSawEmpty'
  BY DEF WaitSawEmpty, Next, TickStep, WaitStep, TickBegins, NothingToSend, Dequeue, StoreByte,
     ResetBit, DriveIO, NextBit, UpdatePort, WriteByte, CallWait, QueueSeenEmpty, LastBitSeen, vars
<1>3. QED
  BY <1>1, <1>2, PTL DEF Spec

\* Where wait returns outside of a fetch, the count it read is of the last
\* frame, and that frame is on the wire (kraken_uart_tx_driver.c 166-183).
THEOREM WaitExactOutsideFetch == Spec => WaitIsExactOutsideFetch
<1> DEFINE Exact ==
      (app = "waitBit" /\ app' = "returned" /\ tick.pc \notin {"byte", "bit"}) =>
          /\ queue = <<>>
          /\ Ticks * Len(written) = Len(sent) + IF tick.pc = "update" THEN 1 ELSE 0
<1>1. UartInv /\ WaitSawEmpty /\ [Next]_vars => [Exact]_vars
  <2> SUFFICES ASSUME UartInv, WaitSawEmpty, Next,
                      app = "waitBit", app' = "returned", tick.pc \notin {"byte", "bit"}
               PROVE  /\ queue = <<>>
                      /\ Ticks * Len(written) = Len(sent) + IF tick.pc = "update" THEN 1 ELSE 0
    OBVIOUS
  <2>1. bit >= LastStopBit
    BY DEF Next, TickStep, TickBegins, NothingToSend, Dequeue, StoreByte, ResetBit, DriveIO,
       NextBit, UpdatePort, WriteByte, CallWait, WaitStep, QueueSeenEmpty, LastBitSeen
  <2>2. queue = <<>> /\ Fetched = Len(written)
    BY Counts DEF WaitSawEmpty, Fetched, UartInv
  <2>3. Ticks \in Nat /\ Ticks > 1 /\ LastStopBit = Ticks /\ Fetched \in Nat
    BY Counts DEF UartInv
  <2>4. CASE tick.pc \in {"between", "fetch", "skip"}
    <3>1. Len(sent) = Ticks * Fetched
      BY <2>1, <2>3, <2>4 DEF UartInv, Place, AtEnd
    <3>2. QED
      BY <2>2, <2>3, <2>4, <3>1
  <2>5. CASE tick.pc = "update"
    <3>1. bit = Ticks /\ Fetched >= 1 /\ Len(sent) = Ticks * (Fetched - 1) + (Ticks - 1)
      BY <2>1, <2>3, <2>5 DEF UartInv, Place, InFrame
    <3>2. Ticks * Fetched = Ticks * (Fetched - 1) + Ticks /\ Ticks * (Fetched - 1) \in Nat
      BY <2>3, <3>1
    <3>3. Ticks * Fetched = Len(sent) + 1
      BY <2>3, <3>1, <3>2
    <3>4. QED
      BY <2>2, <2>5, <3>3
  <2>6. tick.pc \notin {"drive", "next"}
    BY <2>1, <2>3 DEF UartInv, Place
  <2>7. QED
    BY <2>4, <2>5, <2>6 DEF UartInv, Shapes, Locations
<1>2. QED
  BY <1>1, UartInvHolds, WaitSawEmptyHolds, PTL DEF Spec, WaitIsExactOutsideFetch
=============================================================================
