----------------------- MODULE DispatchTimingProofs ------------------------
(***************************************************************************)
(* The timing of kraken_dispatcher.c 22-56, for any clocks and periods, any *)
(* width of the counter, and any lateness and length of a tick: the catch-up*)
(* lands near and in phase, a clock is left alone for as long as its tick   *)
(* took, no event is slept away, and a registration starts its clock.  The  *)
(* bound MaxTime only says that the counter does not wrap.                  *)
(***************************************************************************)
EXTENDS DispatchTiming, TLAPS

Serving == {"start", "end", "add", "late", "missed", "catchup", "busy", "pause"}
Walk    == Serving \cup {"check", "next"}

DispType == [pc : Walk \cup {"top", "doze", "sleep", "asleep"}, n : Nat, i : Nat, now : Nat,
             next : Nat, from : Nat, start : Nat, end : Nat, missed : Nat, target : Nat]

RegType == [pc : {"idle", "store"}, clock : Clocks \cup {0}, now : Nat, calls : Nat,
            torn : SUBSET Clocks]

Shapes ==
    /\ time \in Uptime..MaxTime
    /\ nextEvent \in [Clocks -> 0..Max64]
    /\ order \in Seq(Clocks)
    /\ disp \in DispType
    /\ reg \in RegType /\ (reg.pc = "store" => reg.clock \in Clocks)
    /\ raced \in SUBSET Clocks

\* While it walks the thread is at one of the listed clocks.
InWalk(d, n) == d.pc \in Walk => d.n <= n /\ d.i \in 1..d.n

\* The locals were read from the counter in this order; end is 0 until the tick
\* has ended.
ReadInOrder(d, t) ==
    /\ d.pc \in Walk => d.now <= t
    /\ d.pc \in {"check", "start"} => d.end = 0
    /\ d.pc = "end" => d.now <= d.start /\ d.start <= t
    /\ (d.pc \in Serving \ {"start", "end"} \/ (d.pc = "next" /\ d.end # 0)) =>
          d.now <= d.start /\ d.start <= d.end /\ d.end <= t

\* What the event e, of a clock with period p, is at each location.
Served(d, e, p) ==
    LET pause == d.end + (d.end - d.start)
    IN  /\ d.pc \in {"start", "end", "add"} => e = d.from /\ e <= d.now
        /\ d.pc \in {"late", "missed", "catchup"} => e = d.from + p /\ d.from <= d.now
        /\ d.pc \in {"missed", "catchup"} => e <= d.end
        /\ d.pc = "catchup" => d.missed = (d.end - e) \div p + 1
        /\ d.pc \in {"busy", "pause"} => e > d.end /\ e <= d.end + p /\ (e - d.from) % p = 0
        /\ d.pc = "pause" => e < pause
        /\ (d.pc = "next" /\ d.end # 0) =>
              /\ e > d.end /\ e >= pause
              /\ e = pause \/ (e <= d.end + p /\ (e - d.from) % p = 0)

ClockServed(d, events, seq, r) ==
    LET c == seq[d.i]
    IN  (d.pc \in Walk /\ c \notin r) => Served(d, events[c], Period[c])

TimingInv ==
    /\ Shapes
    /\ InWalk(disp, Len(order))
    /\ ReadInOrder(disp, time)
    /\ ClockServed(disp, nextEvent, order, raced)

-----------------------------------------------------------------------------
LEMMA Constants ==
    /\ Modulus \in Nat /\ Max64 = Modulus - 1 /\ Modulus > 0
    /\ MaxTime \in Nat /\ Uptime \in Nat /\ Uptime <= MaxTime /\ 2 * MaxTime < Modulus
    /\ \A c \in Clocks : Period[c] \in Nat /\ Period[c] > 0 /\ Period[c] <= MaxTime
BY TimingAssumption DEF Max64

\* Sums and differences of unsigned integers are unsigned integers, and exact
\* unless they wrap.
LEMMA PlusWraps ==
    ASSUME NEW a \in Nat, NEW b \in Nat
    PROVE  Plus(a, b) \in 0..Max64 /\ (a + b < Modulus => Plus(a, b) = a + b)
<1>1. a + b \in Nat /\ Modulus \in Nat \ {0}
  BY Constants
<1>2. (a + b) % Modulus \in 0..(Modulus - 1)
  BY <1>1
<1>3. a + b < Modulus => (a + b) % Modulus = a + b
  BY <1>1
<1>4. QED
  BY <1>2, <1>3 DEF Plus, Max64

LEMMA MinusWraps ==
    ASSUME NEW a \in Nat, NEW b \in Nat
    PROVE  Minus(a, b) \in 0..Max64 /\ (b <= a /\ a < Modulus => Minus(a, b) = a - b)
<1>1. a - b \in Int /\ Modulus \in Nat \ {0}
  BY Constants
<1>2. (a - b) % Modulus \in 0..(Modulus - 1)
  BY <1>1
<1>3. b <= a /\ a < Modulus => (a - b) % Modulus = a - b
  BY <1>1
<1>4. QED
  BY <1>2, <1>3 DEF Minus, Max64

\* The multiple of the period that the catch-up adds goes just beyond a.
LEMMA MissedPeriods ==
    ASSUME NEW a \in Nat, NEW p \in Nat, p > 0
    PROVE  LET n == a \div p + 1 IN n \in Nat /\ n * p \in Nat /\ n * p > a /\ n * p <= a + p
<1>1. a \div p \in Nat /\ (a \div p) * p <= a /\ a < (a \div p) * p + p
  OBVIOUS
<1>2. (a \div p + 1) * p = (a \div p) * p + p
  BY <1>1
<1>3. QED
  BY <1>1, <1>2

LEMMA WholePeriods ==
    ASSUME NEW n \in Nat, NEW p \in Nat, p > 0
    PROVE  (n * p) % p = 0 /\ p % p = 0 /\ (p + n * p) % p = 0
<1>1. \A k \in Nat : (k * p) % p = 0
  OBVIOUS
<1>2. n + 1 \in Nat /\ (n + 1) * p = p + n * p /\ 1 * p = p
  OBVIOUS
<1>3. QED
  BY <1>1, <1>2

\* A step of the thread, to locals d, events and raced clocks.
LEMMA ThreadSteps ==
    ASSUME TimingInv, NEW d \in DispType, NEW events \in [Clocks -> 0..Max64],
           NEW r \in SUBSET Clocks, disp' = d, nextEvent' = events, raced' = r,
           UNCHANGED <<time, order, reg>>,
           InWalk(d, Len(order)), ReadInOrder(d, time), ClockServed(d, events, order, r)
    PROVE  TimingInv'
BY DEF TimingInv, Shapes

\* The clock at hand.
LEMMA ClockFacts ==
    ASSUME TimingInv, disp.pc \in Walk
    PROVE  /\ Clock \in Clocks /\ nextEvent[Clock] \in 0..Max64
           /\ Period[Clock] \in Nat /\ Period[Clock] > 0 /\ Period[Clock] <= MaxTime
           /\ disp.n <= Len(order) /\ disp.i \in 1..disp.n
           /\ Clock \notin raced => Served(disp, nextEvent[Clock], Period[Clock])
<1>1. disp.n <= Len(order) /\ disp.i \in 1..disp.n /\ order \in Seq(Clocks) /\ disp.n \in Nat
  BY DEF TimingInv, InWalk, Shapes, DispType
<1>2. Clock \in Clocks
  BY <1>1 DEF Clock
<1>3. QED
  BY <1>1, <1>2, Constants DEF TimingInv, ClockServed, Shapes, Clock

\* A step to d, of the same walk and clock, that leaves the events alone.
LEMMA SameClock ==
    ASSUME TimingInv, disp.pc \in Walk, NEW d \in DispType,
           d.n = disp.n, d.i = disp.i, disp' = d, UNCHANGED <<time, nextEvent, order, reg, raced>>,
           ReadInOrder(d, time),
           Clock \notin raced => Served(d, nextEvent[Clock], Period[Clock])
    PROVE  TimingInv'
BY ThreadSteps, ClockFacts DEF InWalk, ClockServed, Clock, TimingInv, Shapes

\* A step to d, of the same walk and clock, that stores the clock's event.
LEMMA SameClockWrites ==
    ASSUME TimingInv, disp.pc \in Walk, NEW d \in DispType, NEW e \in 0..Max64,
           d.n = disp.n, d.i = disp.i, disp' = d,
           nextEvent' = [nextEvent EXCEPT ![Clock] = e], UNCHANGED <<time, order, reg, raced>>,
           ReadInOrder(d, time),
           Clock \notin raced => Served(d, e, Period[Clock])
    PROVE  TimingInv'
<1> DEFINE events == [nextEvent EXCEPT ![Clock] = e]
<1>1. events \in [Clocks -> 0..Max64] /\ events[Clock] = e
  BY ClockFacts DEF TimingInv, Shapes
<1>2. InWalk(d, Len(order)) /\ ClockServed(d, events, order, raced)
  BY <1>1, ClockFacts DEF InWalk, ClockServed, Clock
<1> HIDE DEF events
<1>3. nextEvent' = events /\ raced \in SUBSET Clocks
  BY DEF events, TimingInv, Shapes
<1>4. QED
  BY <1>1, <1>2, <1>3, ThreadSteps

\* Outside a walk nothing is claimed.
LEMMA OutsideWalk ==
    ASSUME TimingInv, NEW d \in DispType, d.pc \notin Walk, disp' = d,
           UNCHANGED <<time, nextEvent, order, reg, raced>>
    PROVE  TimingInv'
BY ThreadSteps DEF InWalk, ReadInOrder, ClockServed, Walk, Serving, TimingInv, Shapes

LEMMA TopIsTyped == Top \in DispType /\ Top.pc = "top" /\ Top.end = 0
BY DEF Top, DispType

\* What the counter and the locals are bounded by.
LEMMA Readings ==
    ASSUME TimingInv
    PROVE  /\ disp \in DispType /\ time \in Nat /\ time <= MaxTime
           /\ ReadInOrder(disp, time)
BY Constants DEF TimingInv, Shapes

LEMMA StartWalkKeeps ==
    ASSUME TimingInv, StartWalk
    PROVE  TimingInv'
<1> DEFINE d == [Top EXCEPT !.pc = "check", !.n = Len(order), !.i = 1, !.now = time, !.next = Max64]
<1>1. Len(order) \in Nat
  BY DEF TimingInv, Shapes
<1>2. CASE Len(order) = 0
  BY <1>2 DEF StartWalk, Local, TimingInv, Shapes
<1>3. CASE Len(order) # 0
  <2>1. d \in DispType /\ d.pc = "check" /\ d.n = Len(order) /\ d.i = 1 /\ d.now = time /\ d.end = 0
    <3>1. Max64 \in Nat
      BY Constants
    <3>2. QED
      BY <1>1, <3>1, Readings DEF Top, DispType, Walk
  <2>2. disp' = d /\ UNCHANGED <<time, nextEvent, order, reg, raced>>
    BY <1>3 DEF StartWalk, Local
  <2> HIDE DEF d
  <2>3. InWalk(d, Len(order)) /\ ReadInOrder(d, time)
    BY <1>1, <1>3, <2>1, Readings DEF InWalk, ReadInOrder, Serving
  <2>4. ClockServed(d, nextEvent, order, raced)
    BY <2>1 DEF ClockServed, Served
  <2>5. QED
    BY <2>1, <2>2, <2>3, <2>4, ThreadSteps DEF TimingInv, Shapes
<1>4. QED
  BY <1>2, <1>3

LEMMA CheckDueKeeps ==
    ASSUME TimingInv, CheckDue
    PROVE  TimingInv'
<1>0. disp.pc = "check" /\ disp.pc \in Walk /\ disp.end = 0 /\ disp.now <= time
  BY Readings DEF CheckDue, Walk, ReadInOrder
<1>1. CASE nextEvent[Clock] <= disp.now
  <2> DEFINE d == [disp EXCEPT !.pc = "start", !.from = nextEvent[Clock]]
             r == raced \ {Clock}
  <2>1. d \in DispType /\ d.pc = "start" /\ d.n = disp.n /\ d.i = disp.i /\ d.now = disp.now
        /\ d.end = 0 /\ d.from = nextEvent[Clock]
    <3>1. nextEvent[Clock] \in Nat
      BY <1>0, ClockFacts, Constants
    <3>2. QED
      BY <1>0, <3>1, Readings DEF DispType, Walk, Serving
  <2>2. disp' = d /\ raced' = r /\ UNCHANGED <<time, nextEvent, order, reg>>
    BY <1>1 DEF CheckDue
  <2>3. r \in SUBSET Clocks
    BY DEF TimingInv, Shapes
  <2> HIDE DEF d, r
  <2>4. InWalk(d, Len(order)) /\ ReadInOrder(d, time)
    BY <1>0, <2>1, ClockFacts DEF InWalk, ReadInOrder, Serving
  <2>5. Served(d, nextEvent[Clock], Period[Clock])
    BY <1>1, <2>1 DEF Served
  <2>6. QED
    BY <2>1, <2>2, <2>3, <2>4, <2>5, ThreadSteps DEF ClockServed, Clock, TimingInv, Shapes
<1>2. CASE ~(nextEvent[Clock] <= disp.now)
  <2> DEFINE d == Goto("next")
  <2>1. d \in DispType /\ d.pc = "next" /\ d.n = disp.n /\ d.i = disp.i /\ d.end = 0 /\ d.now = disp.now
    BY <1>0, Readings DEF Goto, DispType, Walk
  <2>2. disp' = d /\ UNCHANGED <<time, nextEvent, order, reg, raced>>
    BY <1>2 DEF CheckDue
  <2> HIDE DEF d
  <2>3. QED
    BY <1>0, <2>1, <2>2, SameClock DEF ReadInOrder, Served, Serving
<1>3. QED
  BY <1>1, <1>2

\* The tick: the counter is read before and after it.
LEMMA TickKeeps ==
    ASSUME TimingInv, TickStart \/ TickEnd
    PROVE  TimingInv'
<1>1. CASE TickStart
  <2> DEFINE d == [disp EXCEPT !.pc = "end", !.start = time]
  <2>0. disp.pc = "start" /\ disp.pc \in Walk
    BY <1>1 DEF TickStart, Local, Walk, Serving
  <2>1. d \in DispType /\ d.pc = "end" /\ d.n = disp.n /\ d.i = disp.i /\ d.now = disp.now
        /\ d.start = time /\ d.from = disp.from
    BY Readings DEF DispType, Walk, Serving
  <2>2. disp' = d /\ UNCHANGED <<time, nextEvent, order, reg, raced>>
    BY <1>1 DEF TickStart, Local
  <2> HIDE DEF d
  <2>3. ReadInOrder(d, time)
    BY <2>0, <2>1, Readings DEF ReadInOrder, Serving
  <2>4. Clock \notin raced => Served(d, nextEvent[Clock], Period[Clock])
    BY <2>0, <2>1, ClockFacts DEF Served
  <2>5. QED
    BY <2>0, <2>1, <2>2, <2>3, <2>4, SameClock
<1>2. CASE TickEnd
  <2> DEFINE d == [disp EXCEPT !.pc = "add", !.end = time]
  <2>0. disp.pc = "end" /\ disp.pc \in Walk
    BY <1>2 DEF TickEnd, Walk, Serving
  <2>1. d \in DispType /\ d.pc = "add" /\ d.n = disp.n /\ d.i = disp.i /\ d.now = disp.now
        /\ d.start = disp.start /\ d.end = time /\ d.from = disp.from
    BY Readings DEF DispType, Walk, Serving
  <2>2. disp' = d /\ UNCHANGED <<time, nextEvent, order, reg, raced>>
    BY <1>2 DEF TickEnd
  <2> HIDE DEF d
  <2>3. ReadInOrder(d, time)
    BY <2>0, <2>1, Readings DEF ReadInOrder, Serving
  <2>4. Clock \notin raced => Served(d, nextEvent[Clock], Period[Clock])
    BY <2>0, <2>1, ClockFacts DEF Served
  <2>5. QED
    BY <2>0, <2>1, <2>2, <2>3, <2>4, SameClock
<1>3. QED
  BY <1>1, <1>2

\* After a tick end is the reading after it, and a duration is exact.
LEMMA AfterTick ==
    ASSUME TimingInv, disp.pc \in Serving \ {"start", "end"}
    PROVE  /\ disp.pc \in Walk
           /\ disp.now <= disp.start /\ disp.start <= disp.end /\ disp.end <= MaxTime
           /\ Duration = disp.end - disp.start
           /\ Plus(disp.end, Duration) = disp.end + (disp.end - disp.start)
           /\ Plus(disp.end, Duration) \in 0..Max64
<1>1. /\ disp.now \in Nat /\ disp.start \in Nat /\ disp.end \in Nat
      /\ disp.now <= disp.start /\ disp.start <= disp.end /\ disp.end <= MaxTime
  BY Readings, Constants DEF ReadInOrder, DispType
<1>2. Duration = disp.end - disp.start
  <2>1. disp.end < Modulus
    BY <1>1, Constants
  <2>2. QED
    BY <1>1, <2>1, MinusWraps DEF Duration
<1>3. disp.end - disp.start \in Nat /\ disp.end + (disp.end - disp.start) < Modulus
  BY <1>1, Constants
<1>4. QED
  BY <1>1, <1>2, <1>3, PlusWraps DEF Walk

\* Going on to pc keeps the order of the readings.
LEMMA Goes ==
    ASSUME TimingInv, disp.pc \in Serving \ {"start", "end"},
           NEW pc \in {"late", "missed", "catchup", "busy", "pause", "next"}
    PROVE  LET d == Goto(pc)
           IN  /\ d \in DispType /\ ReadInOrder(d, time)
               /\ d.pc = pc /\ d.n = disp.n /\ d.i = disp.i /\ d.now = disp.now /\ d.from = disp.from
               /\ d.start = disp.start /\ d.end = disp.end
<1> DEFINE d == Goto(pc)
<1>1. /\ d \in DispType
      /\ d.pc = pc /\ d.n = disp.n /\ d.i = disp.i /\ d.now = disp.now /\ d.from = disp.from
      /\ d.start = disp.start /\ d.end = disp.end
  BY Readings DEF DispType, Walk, Serving, Goto
<1> HIDE DEF d
<1>2. ReadInOrder(d, time)
  BY <1>1, Readings DEF ReadInOrder, Serving, Walk, DispType
<1>3. QED
  BY <1>1, <1>2 DEF d

LEMMA AddPeriodKeeps ==
    ASSUME TimingInv, AddPeriod
    PROVE  TimingInv'
<1> DEFINE d == Goto("late")
           e == Plus(nextEvent[Clock], Period[Clock])
<1>0. disp.pc = "add" /\ disp.pc \in Serving \ {"start", "end"} /\ disp.pc \in Walk
  BY DEF AddPeriod, Write, Serving, Walk
<1>1. d \in DispType /\ ReadInOrder(d, time) /\ d.pc = "late" /\ d.n = disp.n /\ d.i = disp.i
      /\ d.now = disp.now /\ d.from = disp.from
  BY <1>0, Goes
<1>2. e \in 0..Max64
  <2>1. nextEvent[Clock] \in Nat /\ Period[Clock] \in Nat
    BY <1>0, ClockFacts, Constants
  <2>2. QED
    BY <2>1, PlusWraps
<1>3. ASSUME Clock \notin raced PROVE Served(d, e, Period[Clock])
  <2>1. nextEvent[Clock] = disp.from /\ nextEvent[Clock] <= disp.now /\ nextEvent[Clock] \in Nat
    BY <1>0, <1>3, ClockFacts, Constants DEF Served
  <2>2. disp.now \in Nat /\ disp.now <= MaxTime
    BY <1>0, AfterTick, Readings, Constants DEF DispType
  <2>3. e = nextEvent[Clock] + Period[Clock]
    <3>1. Period[Clock] \in Nat /\ nextEvent[Clock] + Period[Clock] < Modulus
      BY <1>0, <2>1, <2>2, ClockFacts, Constants
    <3>2. QED
      BY <2>1, <3>1, PlusWraps
  <2> HIDE DEF d, e
  <2>4. QED
    BY <1>1, <2>1, <2>3 DEF Served
<1>4. disp' = d /\ nextEvent' = [nextEvent EXCEPT ![Clock] = e] /\ UNCHANGED <<time, order, reg, raced>>
  BY DEF AddPeriod, Write
<1> HIDE DEF d, e
<1>5. QED
  BY <1>0, <1>1, <1>2, <1>3, <1>4, SameClockWrites

LEMMA CheckLateKeeps ==
    ASSUME TimingInv, CheckLate
    PROVE  TimingInv'
<1>0. disp.pc = "late" /\ disp.pc \in Serving \ {"start", "end"} /\ disp.pc \in Walk
  BY DEF CheckLate, Local, Serving, Walk
<1> DEFINE pc == IF nextEvent[Clock] <= disp.end THEN "missed" ELSE "busy"
           d  == Goto(pc)
<1>1. pc \in {"missed", "busy"}
  OBVIOUS
<1>2. d \in DispType /\ ReadInOrder(d, time) /\ d.pc = pc /\ d.n = disp.n /\ d.i = disp.i
      /\ d.now = disp.now /\ d.from = disp.from /\ d.end = disp.end
  BY <1>0, <1>1, Goes
<1>3. ASSUME Clock \notin raced PROVE Served(d, nextEvent[Clock], Period[Clock])
  <2>1. /\ nextEvent[Clock] = disp.from + Period[Clock] /\ disp.from <= disp.now
        /\ Period[Clock] \in Nat /\ Period[Clock] > 0
    BY <1>0, <1>3, ClockFacts DEF Served
  <2>2. disp.from \in Nat /\ disp.now \in Nat /\ disp.end \in Nat /\ disp.now <= disp.end
    BY <1>0, AfterTick, Readings DEF DispType
  <2>3. nextEvent[Clock] - disp.from = Period[Clock] /\ Period[Clock] % Period[Clock] = 0
    BY <2>1, <2>2, WholePeriods
  <2> HIDE DEF d
  <2>4. CASE nextEvent[Clock] <= disp.end
    BY <1>2, <2>1, <2>4 DEF Served
  <2>5. CASE ~(nextEvent[Clock] <= disp.end)
    <3>1. d.pc = "busy"
      BY <1>2, <2>5
    <3>2. nextEvent[Clock] > d.end /\ nextEvent[Clock] <= d.end + Period[Clock]
      BY <1>2, <2>1, <2>2, <2>5
    <3>3. (nextEvent[Clock] - d.from) % Period[Clock] = 0
      BY <1>2, <2>3
    <3>4. QED
      BY <3>1, <3>2, <3>3 DEF Served
  <2>6. QED
    BY <2>4, <2>5
<1>4. disp' = d /\ UNCHANGED <<time, nextEvent, order, reg, raced>>
  BY DEF CheckLate, Local
<1> HIDE DEF d
<1>5. QED
  BY <1>0, <1>2, <1>3, <1>4, SameClock

LEMMA CountMissedKeeps ==
    ASSUME TimingInv, CountMissed
    PROVE  TimingInv'
<1>0. disp.pc = "missed" /\ disp.pc \in Serving \ {"start", "end"} /\ disp.pc \in Walk
  BY DEF CountMissed, Local, Serving, Walk
<1> DEFINE m == Minus(disp.end, nextEvent[Clock]) \div Period[Clock] + 1
           d == [disp EXCEPT !.pc = "catchup", !.missed = m]
<1>1. disp.end \in Nat /\ disp.end <= MaxTime /\ nextEvent[Clock] \in Nat
  BY <1>0, AfterTick, ClockFacts, Readings, Constants DEF DispType
<1>2. m \in Nat
  <2>1. Minus(disp.end, nextEvent[Clock]) \in Nat
    <3>1. Minus(disp.end, nextEvent[Clock]) \in 0..Max64
      BY <1>1, MinusWraps
    <3>2. QED
      BY <3>1, Constants
  <2>2. QED
    BY <1>0, <2>1, ClockFacts, MissedPeriods
<1>3. ASSUME Clock \notin raced PROVE m = (disp.end - nextEvent[Clock]) \div Period[Clock] + 1
  <2>1. nextEvent[Clock] <= disp.end
    BY <1>0, <1>3, ClockFacts DEF Served
  <2>2. Minus(disp.end, nextEvent[Clock]) = disp.end - nextEvent[Clock]
    <3>1. disp.end < Modulus
      BY <1>1, Constants
    <3>2. QED
      BY <1>1, <2>1, <3>1, MinusWraps
  <2>3. QED
    BY <2>2
<1>4. disp' = d /\ UNCHANGED <<time, nextEvent, order, reg, raced>>
  BY DEF CountMissed, Local
<1> HIDE DEF m
<1>5. /\ d \in DispType /\ ReadInOrder(d, time)
      /\ d.pc = "catchup" /\ d.n = disp.n /\ d.i = disp.i /\ d.now = disp.now /\ d.from = disp.from
      /\ d.start = disp.start /\ d.end = disp.end /\ d.missed = m
  <2> DEFINE g == Goto("catchup")
  <2>1. /\ g \in DispType /\ ReadInOrder(g, time)
        /\ g.pc = "catchup" /\ g.n = disp.n /\ g.i = disp.i /\ g.now = disp.now /\ g.from = disp.from
        /\ g.start = disp.start /\ g.end = disp.end
    BY <1>0, Goes
  <2>2. d = [g EXCEPT !.missed = m]
    BY <2>1, Readings DEF Goto, DispType
  <2> HIDE DEF d, g
  <2>3. QED
    BY <1>2, <2>1, <2>2 DEF DispType, ReadInOrder
<1> HIDE DEF d
<1>6. Clock \notin raced => Served(d, nextEvent[Clock], Period[Clock])
  BY <1>0, <1>3, <1>5, ClockFacts DEF Served
<1>7. QED
  BY <1>0, <1>4, <1>5, <1>6, SameClock

LEMMA CatchUpKeeps ==
    ASSUME TimingInv, CatchUp
    PROVE  TimingInv'
<1>0. disp.pc = "catchup" /\ disp.pc \in Serving \ {"start", "end"} /\ disp.pc \in Walk
  BY DEF CatchUp, Write, Serving, Walk
<1> DEFINE p == Period[Clock]
           e == nextEvent[Clock]
           m == disp.missed * p
           f == Plus(e, m)
           d == Goto("busy")
<1>1. /\ p \in Nat /\ p > 0 /\ p <= MaxTime /\ e \in Nat /\ disp.missed \in Nat
      /\ disp.end \in Nat /\ disp.end <= MaxTime /\ disp.from \in Nat
  BY <1>0, AfterTick, ClockFacts, Readings, Constants DEF DispType
<1>2. m \in Nat
  BY <1>1
<1>3. f \in 0..Max64
  BY <1>1, <1>2, PlusWraps
<1>4. d \in DispType /\ ReadInOrder(d, time) /\ d.pc = "busy" /\ d.n = disp.n /\ d.i = disp.i
      /\ d.from = disp.from /\ d.end = disp.end
  BY <1>0, Goes
<1>5. ASSUME Clock \notin raced PROVE Served(d, f, p)
  <2>1. e = disp.from + p /\ e <= disp.end /\ disp.missed = (disp.end - e) \div p + 1
    BY <1>0, <1>5, ClockFacts DEF Served
  <2>2. disp.end - e \in Nat
    BY <1>1, <2>1
  <2>3. m > disp.end - e /\ m <= (disp.end - e) + p
    BY <1>1, <2>1, <2>2, MissedPeriods
  <2>4. f = e + m
    <3> HIDE DEF m, p, e
    <3>1. e + m < Modulus
      BY <1>1, <1>2, <2>3, Constants
    <3>2. QED
      BY <1>1, <1>2, <3>1, PlusWraps
  <2>5. (p + m) % p = 0
    BY <1>1, WholePeriods
  <2> HIDE DEF m, p, e, f, d
  <2>6. f > disp.end /\ f <= disp.end + p /\ f - disp.from = p + m
    BY <1>1, <1>2, <2>1, <2>3, <2>4
  <2>7. QED
    BY <1>4, <2>5, <2>6 DEF Served
<1>6. disp' = d /\ nextEvent' = [nextEvent EXCEPT ![Clock] = f] /\ UNCHANGED <<time, order, reg, raced>>
  BY DEF CatchUp, Write
<1> HIDE DEF f, d, m
<1>7. QED
  BY <1>0, <1>3, <1>4, <1>5, <1>6, SameClockWrites

LEMMA CheckBusyKeeps ==
    ASSUME TimingInv, CheckBusy
    PROVE  TimingInv'
<1>0. disp.pc = "busy" /\ disp.pc \in Serving \ {"start", "end"} /\ disp.pc \in Walk
  BY DEF CheckBusy, Local, Serving, Walk
<1> DEFINE pc == IF nextEvent[Clock] < Plus(disp.end, Duration) THEN "pause" ELSE "next"
           d  == Goto(pc)
<1>1. pc \in {"pause", "next"}
  OBVIOUS
<1>2. d \in DispType /\ ReadInOrder(d, time) /\ d.pc = pc /\ d.n = disp.n /\ d.i = disp.i
      /\ d.from = disp.from /\ d.start = disp.start /\ d.end = disp.end
  BY <1>0, <1>1, Goes
<1>3. ASSUME Clock \notin raced PROVE Served(d, nextEvent[Clock], Period[Clock])
  <2>1. /\ nextEvent[Clock] > disp.end /\ nextEvent[Clock] <= disp.end + Period[Clock]
        /\ (nextEvent[Clock] - disp.from) % Period[Clock] = 0
    BY <1>0, <1>3, ClockFacts DEF Served
  <2>2. Plus(disp.end, Duration) = disp.end + (disp.end - disp.start)
    BY <1>0, AfterTick
  <2>3. nextEvent[Clock] \in Nat /\ disp.end + (disp.end - disp.start) \in Int
    BY <1>0, ClockFacts, Readings, Constants, SMTT(30) DEF DispType
  <2> HIDE DEF d
  <2>4. QED
    BY <1>2, <2>1, <2>2, <2>3 DEF Served
<1>4. disp' = d /\ UNCHANGED <<time, nextEvent, order, reg, raced>>
  BY DEF CheckBusy, Local
<1> HIDE DEF d
<1>5. QED
  BY <1>0, <1>2, <1>3, <1>4, SameClock

LEMMA PauseKeeps ==
    ASSUME TimingInv, Pause
    PROVE  TimingInv'
<1>0. disp.pc = "pause" /\ disp.pc \in Serving \ {"start", "end"} /\ disp.pc \in Walk
  BY DEF Pause, Write, Serving, Walk
<1> DEFINE d == Goto("next")
           e == Plus(disp.end, Duration)
<1>1. d \in DispType /\ ReadInOrder(d, time) /\ d.pc = "next" /\ d.n = disp.n /\ d.i = disp.i
      /\ d.start = disp.start /\ d.end = disp.end
  BY <1>0, Goes
<1>2. e \in 0..Max64 /\ e = disp.end + (disp.end - disp.start)
  BY <1>0, AfterTick
<1>3. ASSUME Clock \notin raced PROVE Served(d, e, Period[Clock])
  <2>1. nextEvent[Clock] > disp.end /\ nextEvent[Clock] < disp.end + (disp.end - disp.start)
    BY <1>0, <1>3, ClockFacts DEF Served
  <2>2. nextEvent[Clock] \in Nat /\ disp.end \in Nat /\ disp.start \in Nat
    BY <1>0, ClockFacts, Readings, Constants DEF DispType
  <2> HIDE DEF d, e
  <2>3. QED
    BY <1>1, <1>2, <2>1, <2>2 DEF Served
<1>4. disp' = d /\ nextEvent' = [nextEvent EXCEPT ![Clock] = e] /\ UNCHANGED <<time, order, reg, raced>>
  BY DEF Pause, Write
<1> HIDE DEF d, e
<1>5. QED
  BY <1>0, <1>1, <1>2, <1>3, <1>4, SameClockWrites

LEMMA NextClockKeeps ==
    ASSUME TimingInv, NextClock
    PROVE  TimingInv'
<1>0. disp.pc = "next" /\ disp.pc \in Walk
  BY DEF NextClock, Local, Walk
<1> DEFINE d == [disp EXCEPT !.pc = IF disp.i < disp.n THEN "check" ELSE "doze",
                             !.i = IF disp.i < disp.n THEN @ + 1 ELSE 0,
                             !.next = Min2(@, nextEvent[Clock]),
                             !.from = 0, !.start = 0, !.end = 0, !.missed = 0]
<1>1. disp' = d /\ UNCHANGED <<time, nextEvent, order, reg, raced>>
  BY DEF NextClock, Local
<1>2. Min2(disp.next, nextEvent[Clock]) \in Nat
  BY <1>0, ClockFacts, Readings, Constants DEF Min2, DispType
<1>3. d \in DispType
  <2>1. disp.i + 1 \in Nat /\ (IF disp.i < disp.n THEN disp.i + 1 ELSE 0) \in Nat
    BY Readings DEF DispType
  <2>2. (IF disp.i < disp.n THEN "check" ELSE "doze") \in {"check", "doze"}
    OBVIOUS
  <2>3. QED
    BY <1>2, <2>1, <2>2, Readings DEF DispType, Walk
<1>4. CASE disp.i < disp.n
  <2>1. d.pc = "check" /\ d.i = disp.i + 1 /\ d.n = disp.n /\ d.end = 0 /\ d.now = disp.now
    BY <1>4, Readings DEF DispType
  <2> HIDE DEF d
  <2>2. disp.i \in 1..disp.n /\ disp.n \in Nat /\ disp.n <= Len(order) /\ disp.now <= time
    BY <1>0, ClockFacts, Readings DEF ReadInOrder, DispType
  <2>3. InWalk(d, Len(order)) /\ ReadInOrder(d, time) /\ ClockServed(d, nextEvent, order, raced)
    BY <1>4, <2>1, <2>2 DEF InWalk, ReadInOrder, Serving, ClockServed, Served
  <2>4. QED
    BY <1>1, <1>3, <2>3, ThreadSteps DEF TimingInv, Shapes
<1>5. CASE ~(disp.i < disp.n)
  <2>1. d.pc = "doze"
    BY <1>5, Readings DEF DispType
  <2> HIDE DEF d
  <2>2. d.pc \notin Walk
    BY <2>1 DEF Walk, Serving
  <2>3. QED
    BY <1>1, <1>3, <2>2, OutsideWalk
<1>6. QED
  BY <1>4, <1>5

LEMMA SleepKeeps ==
    ASSUME TimingInv, Doze \/ EnterSleep \/ Wake
    PROVE  TimingInv'
<1>1. Top \in DispType /\ Top.pc \notin Walk
  BY TopIsTyped DEF Walk, Serving
<1>2. CASE Doze
  <2> DEFINE d == [disp EXCEPT !.pc = "sleep", !.now = time]
  <2>1. d \in DispType /\ d.pc \notin Walk
    BY Readings DEF DispType, Walk, Serving
  <2>2. (disp' = d \/ disp' = Top) /\ UNCHANGED <<time, nextEvent, order, reg, raced>>
    BY <1>2 DEF Doze, Local
  <2> HIDE DEF d
  <2>3. QED
    BY <1>1, <2>1, <2>2, OutsideWalk
<1>3. CASE EnterSleep
  <2> DEFINE target == Plus(time, Minus(disp.next, disp.now))
             d == [disp EXCEPT !.pc = "asleep", !.start = time, !.target = target]
  <2>1. target \in Nat
    <3>1. disp.next \in Nat /\ disp.now \in Nat /\ time \in Nat
      BY Readings DEF DispType
    <3>2. Minus(disp.next, disp.now) \in Nat
      <4>1. Minus(disp.next, disp.now) \in 0..Max64
        BY <3>1, MinusWraps
      <4>2. QED
        BY <4>1, Constants
    <3>3. target \in 0..Max64
      BY <3>1, <3>2, PlusWraps
    <3>4. QED
      BY <3>3, Constants
  <2> HIDE DEF target
  <2>2. d \in DispType /\ d.pc \notin Walk
    BY <2>1, Readings DEF DispType, Walk, Serving
  <2>3. disp' = d /\ UNCHANGED <<time, nextEvent, order, reg, raced>>
    BY <1>3 DEF EnterSleep, Local, target
  <2> HIDE DEF d
  <2>4. QED
    BY <2>2, <2>3, OutsideWalk
<1>4. CASE Wake
  BY <1>1, <1>4, OutsideWalk DEF Wake, Local
<1>5. QED
  BY <1>2, <1>3, <1>4

LEMMA AdvanceKeeps ==
    ASSUME TimingInv, Advance
    PROVE  TimingInv'
<1>1. time' = time + 1 /\ time' \in Uptime..MaxTime /\ UNCHANGED <<nextEvent, order, disp, reg, raced>>
  BY Constants DEF Advance, TimingInv, Shapes
<1>2. ReadInOrder(disp, time')
  BY <1>1, Readings DEF ReadInOrder, DispType
<1>3. QED
  BY <1>1, <1>2 DEF TimingInv, Shapes

\* The application's registrations append to the list, or reset the event of a
\* clock, which is raced from then on.
LEMMA RegisterKeeps ==
    ASSUME TimingInv, (\E c \in Clocks : RegisterClock(c) \/ RegisterReads(c)) \/ RegisterStores
    PROVE  TimingInv'
<1>1. ASSUME NEW c \in Clocks, RegisterClock(c) PROVE TimingInv'
  <2>1. order \in Seq(Clocks) /\ order' = Append(order, c) /\ UNCHANGED <<time, nextEvent, disp, reg, raced>>
    BY <1>1 DEF RegisterClock, TimingInv, Shapes
  <2>2. /\ order' \in Seq(Clocks) /\ Len(order') = Len(order) + 1 /\ Len(order) \in Nat
        /\ \A k \in 1..Len(order) : order'[k] = order[k]
    BY <2>1
  <2>3. InWalk(disp, Len(order'))
    BY <2>2, Readings DEF TimingInv, InWalk, DispType
  <2>4. ClockServed(disp, nextEvent, order', raced)
    <3>1. disp.pc \in Walk => disp.i \in 1..Len(order)
      BY <2>2, Readings DEF TimingInv, InWalk, DispType
    <3>2. QED
      BY <2>2, <3>1 DEF TimingInv, ClockServed
  <2>5. QED
    BY <2>1, <2>2, <2>3, <2>4 DEF TimingInv, Shapes
<1>2. ASSUME NEW c \in Clocks, RegisterReads(c) PROVE TimingInv'
  <2>1. reg' \in RegType /\ (reg'.pc = "store" => reg'.clock \in Clocks)
    <3>1. reg \in RegType /\ time \in Nat
      BY Readings DEF TimingInv, Shapes
    <3>2. reg.calls + 1 \in Nat
      BY <3>1 DEF RegType
    <3> DEFINE s == [reg EXCEPT !.pc = "store", !.clock = c, !.now = time, !.calls = reg.calls + 1]
    <3>3. reg' = s
      BY <1>2 DEF RegisterReads
    <3>4. s \in RegType /\ s.clock = c
      BY <3>1, <3>2 DEF RegType
    <3>5. QED
      BY <3>3, <3>4
  <2>2. QED
    BY <1>2, <2>1 DEF RegisterReads, TimingInv, Shapes
<1>3. CASE RegisterStores
  <2> DEFINE c == reg.clock
             e == Minus(reg.now, Period[c])
             events == [nextEvent EXCEPT ![c] = e]
             r == raced \cup {c}
  <2>1. c \in Clocks /\ reg \in RegType
    BY <1>3 DEF RegisterStores, TimingInv, Shapes
  <2>2. e \in 0..Max64
    BY <2>1, Constants, MinusWraps DEF RegType
  <2>3. nextEvent' = events /\ raced' = r /\ UNCHANGED <<time, order, disp>>
    BY <1>3 DEF RegisterStores
  <2>4. reg' \in RegType /\ reg'.pc = "idle"
    BY <1>3, <2>1 DEF RegisterStores, RegType
  <2> HIDE DEF c, e
  <2>5. events \in [Clocks -> 0..Max64] /\ r \in SUBSET Clocks
    BY <2>1, <2>2 DEF TimingInv, Shapes
  <2>6. \A b \in Clocks \ r : events[b] = nextEvent[b] /\ b \notin raced
    BY DEF TimingInv, Shapes
  <2>7. ClockServed(disp, events, order, r)
    <3>1. disp.pc \in Walk => order[disp.i] \in Clocks
      BY ClockFacts DEF Clock
    <3> HIDE DEF events, r
    <3>2. QED
      BY <2>6, <3>1 DEF TimingInv, ClockServed
  <2> HIDE DEF events, r
  <2>8. QED
    BY <2>3, <2>4, <2>5, <2>7 DEF TimingInv, Shapes
<1>4. QED
  BY <1>1, <1>2, <1>3

LEMMA TimingInvHolds == Spec => []TimingInv
<1>1. Init => TimingInv
  <2> SUFFICES ASSUME Init PROVE TimingInv
    OBVIOUS
  <2>1. disp \in DispType /\ disp.pc = "top" /\ disp.pc \notin Walk
    BY TopIsTyped DEF Init, Walk, Serving
  <2>2. /\ time \in Uptime..MaxTime /\ nextEvent \in [Clocks -> 0..Max64]
        /\ order \in Seq(Clocks) /\ raced = {}
    BY Constants DEF Init
  <2>3. reg \in RegType /\ reg.pc = "idle"
    BY DEF Init, RegType
  <2>4. QED
    <3>1. Shapes
      BY <2>1, <2>2, <2>3 DEF Shapes
    <3>2. InWalk(disp, Len(order)) /\ ReadInOrder(disp, time) /\ ClockServed(disp, nextEvent, order, raced)
      BY <2>1 DEF InWalk, ReadInOrder, ClockServed, Walk, Serving
    <3>3. QED
      BY <3>1, <3>2 DEF TimingInv
<1>2. TimingInv /\ [Next]_vars => TimingInv'
  <2> SUFFICES ASSUME TimingInv, [Next]_vars PROVE TimingInv'
    OBVIOUS
  <2>1. CASE UNCHANGED vars
    BY <2>1 DEF vars, TimingInv, Shapes
  <2>2. CASE Next
    BY <2>2, StartWalkKeeps, CheckDueKeeps, TickKeeps, AddPeriodKeeps, CheckLateKeeps, CountMissedKeeps,
       CatchUpKeeps, CheckBusyKeeps, PauseKeeps, NextClockKeeps, SleepKeeps, AdvanceKeeps, RegisterKeeps
       DEF Next, DispatcherStep
  <2>3. QED
    BY <2>1, <2>2
<1>3. QED
  BY <1>1, <1>2, PTL DEF Spec

\* When the clock at hand has been served, the readings and its event are those
\* the invariant tells.
LEMMA MovedFacts ==
    ASSUME TimingInv, Moved
    PROVE  /\ Duration = disp.end - disp.start
           /\ Served(disp, nextEvent[Clock], Period[Clock])
<1>1. disp.pc = "next" /\ disp.end # 0 /\ Clock \notin raced /\ disp.pc \in Walk
  BY DEF Moved, Walk
<1>2. disp.start \in Nat /\ disp.end \in Nat /\ disp.start <= disp.end /\ disp.end < Modulus
  BY <1>1, Readings, Constants DEF ReadInOrder, DispType
<1>3. QED
  BY <1>1, <1>2, MinusWraps, ClockFacts DEF Duration

\* For any clocks and periods, the event of a clock that was just served lies
\* in the future, leaves a pause as long as the tick, and is at most a period
\* or that pause away.
THEOREM ServedEventIsNear == Spec => []NextEventIsNear
<1>1. TimingInv => NextEventIsNear
  <2> SUFFICES ASSUME TimingInv, Moved
               PROVE  /\ nextEvent[Clock] > disp.end
                      /\ nextEvent[Clock] >= disp.end + Duration
                      /\ \/ nextEvent[Clock] <= disp.end + Period[Clock]
                         \/ nextEvent[Clock] = disp.end + Duration
    BY DEF NextEventIsNear
  <2>1. QED
    BY MovedFacts DEF Served, Moved
<1>2. QED
  BY <1>1, TimingInvHolds, PTL

\* For any clocks and periods, the event of a clock that was just served is a
\* whole number of periods after the one before it, unless the pause moved it.
THEOREM ServedEventKeepsPhase == Spec => []PhaseIsKept
<1>1. TimingInv => PhaseIsKept
  <2> SUFFICES ASSUME TimingInv, Moved
               PROVE  \/ (nextEvent[Clock] - disp.from) % Period[Clock] = 0
                      \/ nextEvent[Clock] = disp.end + Duration
    BY DEF PhaseIsKept
  <2>1. QED
    BY MovedFacts DEF Served, Moved
<1>2. QED
  BY <1>1, TimingInvHolds, PTL

-----------------------------------------------------------------------------
(* What holds between ticks.  The history variable last tells of the tick   *)
(* before, raced and reg.torn of registrations that interfered.             *)

LastType == [end : Nat, duration : Nat, known : BOOLEAN]

Ticked == Serving \ {"start", "end"}

\* The last tick of the clock at hand is the one that has just ended; of any
\* other clock whose event nobody reset, the event leaves the pause it asks for.
PaceInv ==
    /\ last \in [Clocks -> LastType]
    /\ disp.pc \in Ticked => /\ last[Clock].end = disp.end
                             /\ last[Clock].duration = disp.end - disp.start
    /\ \A c \in Clocks : last[c].known =>
          /\ c \notin raced
          /\ \/ disp.pc \in Ticked /\ Clock = c
             \/ nextEvent[c] >= last[c].end + last[c].duration

\* No two places of the list have the same clock, so serving one clock moves no
\* event of those walked over before.
Walked(d) == IF d.pc \in Walk THEN 1..(d.i - 1)
             ELSE IF d.pc \in {"doze", "sleep"} THEN 1..d.n ELSE {}

SleepInv ==
    /\ \A j, k \in 1..Len(order) : order[j] = order[k] => j = k
    /\ disp.pc \in {"doze", "sleep", "asleep"} => disp.n <= Len(order)
    /\ \A k \in Walked(disp) : order[k] \notin raced => disp.next <= nextEvent[order[k]]
    /\ disp.pc = "sleep" => disp.now <= time /\ disp.now < disp.next
    /\ NoEventSlept

\* What a registration leaves of the event e of a clock with period p, while
\* the dispatcher serves the clock, at d, and it is t.
Reset(d, e, p, t) ==
    /\ d.pc \in {"start", "end", "add"} => e + p <= t
    /\ d.pc = "late" => e <= t
    /\ d.pc = "catchup" => d.missed = Minus(d.end, e) \div p + 1
    /\ d.pc = "busy" => e <= t + p

StartInv ==
    /\ reg.pc = "store" => Uptime <= reg.now /\ reg.now <= time
    /\ \A c \in raced \ reg.torn :
          IF disp.pc \in Serving /\ Clock = c THEN Reset(disp, nextEvent[c], Period[c], time)
          ELSE \/ nextEvent[c] <= time + Period[c]
               \/ nextEvent[c] <= last[c].end + last[c].duration

\* A step that moves no event, and leaves the clock that was ticked at hand.
LEMMA SamePace ==
    ASSUME PaceInv, UNCHANGED <<nextEvent, last>>, raced' \subseteq raced,
           disp'.pc \in Ticked <=> disp.pc \in Ticked,
           disp.pc \in Ticked => Clock' = Clock /\ disp'.start = disp.start /\ disp'.end = disp.end
    PROVE  PaceInv'
BY DEF PaceInv

\* A step that stores the event of the clock at hand, which was ticked.
LEMMA TickedPace ==
    ASSUME TimingInv, PaceInv, disp.pc \in Ticked, NEW e \in 0..Max64,
           nextEvent' = [nextEvent EXCEPT ![Clock] = e], UNCHANGED <<last, raced>>,
           Clock' = Clock, disp'.start = disp.start, disp'.end = disp.end,
           \/ disp'.pc \in Ticked
           \/ disp'.pc = "next" /\ e >= disp.end + (disp.end - disp.start)
    PROVE  PaceInv'
<1>1. Clock \in Clocks /\ \A c \in Clocks : nextEvent'[c] = IF c = Clock THEN e ELSE nextEvent[c]
  BY ClockFacts DEF TimingInv, Shapes, Ticked, Walk
<1>2. "next" \notin Ticked
  BY DEF Ticked, Serving
<1>3. QED
  BY <1>1, <1>2 DEF PaceInv

LEMMA WalkKeepsPace ==
    ASSUME TimingInv, PaceInv,
           StartWalk \/ CheckDue \/ TickStart \/ NextClock \/ Doze \/ EnterSleep \/ Wake
    PROVE  PaceInv'
<1>1. UNCHANGED <<nextEvent, last>> /\ raced' \subseteq raced
  BY DEF StartWalk, CheckDue, TickStart, NextClock, Doze, EnterSleep, Wake, Local
<1>2. disp.pc \in {"top", "check", "start", "next", "doze", "sleep", "asleep"}
  BY DEF StartWalk, CheckDue, TickStart, NextClock, Doze, EnterSleep, Wake, Local
<1>3. disp'.pc \in {"top", "check", "start", "next", "end", "doze", "sleep", "asleep"}
  BY Readings, TopIsTyped
     DEF StartWalk, CheckDue, TickStart, NextClock, Doze, EnterSleep, Wake, Local, Goto, DispType, Top
<1>4. disp.pc \notin Ticked /\ disp'.pc \notin Ticked
  BY <1>2, <1>3 DEF Ticked, Serving
<1>5. QED
  BY <1>1, <1>4, SamePace

LEMMA TickEndKeepsPace ==
    ASSUME TimingInv, PaceInv, TickEnd
    PROVE  PaceInv'
<1> DEFINE tick == [end |-> time, duration |-> time - disp.start, known |-> Clock \notin raced]
<1>1. disp.pc = "end" /\ disp.pc \in Walk /\ disp.pc \notin Ticked
  BY DEF TickEnd, Walk, Serving, Ticked
<1>2. /\ time \in Nat /\ disp.start \in Nat /\ disp.start <= time /\ Clock \in Clocks
      /\ last \in [Clocks -> LastType]
  BY <1>1, ClockFacts, Readings DEF ReadInOrder, DispType, PaceInv
<1>3. /\ disp'.pc = "add" /\ disp'.start = disp.start /\ disp'.end = time /\ disp'.i = disp.i
      /\ disp'.pc \in Ticked
  BY Readings DEF TickEnd, DispType, Ticked, Serving
<1>4. Clock' = Clock /\ UNCHANGED <<nextEvent, raced>>
  BY <1>3 DEF TickEnd, Clock
<1>5. tick \in LastType /\ tick.end = time /\ tick.duration = time - disp.start
      /\ tick.known = (Clock \notin raced)
  BY <1>2 DEF LastType
<1>6. last' = [last EXCEPT ![Clock] = tick]
  BY DEF TickEnd
<1> HIDE DEF tick
<1>7. /\ last' \in [Clocks -> LastType] /\ last'[Clock] = tick
      /\ \A c \in Clocks : c # Clock => last'[c] = last[c]
  BY <1>2, <1>5, <1>6
<1>8. \A c \in Clocks : last'[c].known => c \notin raced /\
          (c = Clock \/ nextEvent[c] >= last'[c].end + last'[c].duration)
  BY <1>1, <1>5, <1>7 DEF PaceInv
<1>9. QED
  BY <1>3, <1>4, <1>5, <1>7, <1>8 DEF PaceInv

LEMMA ServingKeepsPace ==
    ASSUME TimingInv, PaceInv,
           AddPeriod \/ CheckLate \/ CountMissed \/ CatchUp \/ CheckBusy \/ Pause
    PROVE  PaceInv'
<1>1. /\ disp.pc \in {"add", "late", "missed", "catchup", "busy", "pause"} /\ disp.pc \in Ticked
      /\ disp.pc \in Walk /\ UNCHANGED <<order, last, raced>>
  BY DEF AddPeriod, CheckLate, CountMissed, CatchUp, CheckBusy, Pause, Local, Write, Ticked, Serving,
         Walk
<1>2. /\ disp'.start = disp.start /\ disp'.end = disp.end /\ disp'.i = disp.i /\ Clock' = Clock
  BY <1>1, Readings
     DEF AddPeriod, CheckLate, CountMissed, CatchUp, CheckBusy, Pause, Local, Write, Goto, DispType,
         Clock
<1>3. /\ Clock \in Clocks /\ nextEvent[Clock] \in 0..Max64 /\ Period[Clock] \in Nat
      /\ nextEvent[Clock] \in Nat /\ disp.missed \in Nat /\ nextEvent \in [Clocks -> 0..Max64]
  BY <1>1, ClockFacts, Readings, Constants DEF DispType, TimingInv, Shapes
<1>4. /\ Plus(disp.end, Duration) = disp.end + (disp.end - disp.start)
      /\ Plus(disp.end, Duration) \in 0..Max64
  BY <1>1, AfterTick DEF Ticked
<1>5. CASE AddPeriod
  <2> DEFINE e == Plus(nextEvent[Clock], Period[Clock])
  <2>1. e \in 0..Max64
    BY <1>3, PlusWraps
  <2>2. nextEvent' = [nextEvent EXCEPT ![Clock] = e]
    BY <1>5 DEF AddPeriod, Write
  <2>3. disp'.pc \in Ticked
    BY <1>5, Readings DEF AddPeriod, Write, Goto, DispType, Ticked, Serving
  <2> HIDE DEF e
  <2>4. QED
    BY <1>1, <1>2, <2>1, <2>2, <2>3, TickedPace
<1>6. CASE CheckLate \/ CountMissed
  <2>1. disp'.pc \in {"missed", "busy", "catchup"} /\ UNCHANGED nextEvent
    BY <1>6, Readings DEF CheckLate, CountMissed, Local, Goto, DispType
  <2>2. disp'.pc \in Ticked
    BY <2>1 DEF Ticked, Serving
  <2>3. QED
    BY <1>1, <1>2, <2>1, <2>2, SamePace
<1>7. CASE CatchUp
  <2> DEFINE m == disp.missed * Period[Clock]
             e == Plus(nextEvent[Clock], m)
  <2>1. m \in Nat
    BY <1>3
  <2>2. nextEvent' = [nextEvent EXCEPT ![Clock] = e]
    BY <1>7 DEF CatchUp, Write
  <2> HIDE DEF m
  <2>3. e \in 0..Max64
    BY <1>3, <2>1, PlusWraps
  <2>4. disp'.pc \in Ticked
    BY <1>7, Readings DEF CatchUp, Write, Goto, DispType, Ticked, Serving
  <2> HIDE DEF e
  <2>5. QED
    BY <1>1, <1>2, <2>2, <2>3, <2>4, TickedPace
<1>8. CASE CheckBusy
  <2>1. UNCHANGED nextEvent
    BY <1>8 DEF CheckBusy, Local
  <2>2. CASE nextEvent[Clock] < Plus(disp.end, Duration)
    <3>1. disp'.pc \in Ticked
      BY <1>8, <2>2, Readings DEF CheckBusy, Local, Goto, DispType, Ticked, Serving
    <3>2. QED
      BY <1>1, <1>2, <2>1, <3>1, SamePace
  <2>3. CASE ~(nextEvent[Clock] < Plus(disp.end, Duration))
    <3>1. disp'.pc = "next"
      BY <1>8, <2>3, Readings DEF CheckBusy, Local, Goto, DispType
    <3>2. nextEvent' = [nextEvent EXCEPT ![Clock] = nextEvent[Clock]]
      BY <1>3, <2>1
    <3>3. nextEvent[Clock] >= disp.end + (disp.end - disp.start)
      BY <1>3, <1>4, <2>3
    <3>4. QED
      BY <1>1, <1>2, <1>3, <3>1, <3>2, <3>3, TickedPace
  <2>4. QED
    BY <2>2, <2>3
<1>9. CASE Pause
  <2> DEFINE e == Plus(disp.end, Duration)
  <2>1. nextEvent' = [nextEvent EXCEPT ![Clock] = e]
    BY <1>9 DEF Pause, Write
  <2>2. disp'.pc = "next"
    BY <1>9, Readings DEF Pause, Write, Goto, DispType
  <2>3. e \in 0..Max64 /\ e >= disp.end + (disp.end - disp.start)
    <3>1. e \in Int
      BY <1>4, Constants
    <3>2. QED
      BY <1>4, <3>1
  <2> HIDE DEF e
  <2>4. QED
    BY <1>1, <1>2, <2>1, <2>2, <2>3, TickedPace
<1>10. QED
  BY <1>5, <1>6, <1>7, <1>8, <1>9

LEMMA OthersKeepPace ==
    ASSUME TimingInv, PaceInv,
           Advance \/ (\E c \in Clocks : RegisterClock(c) \/ RegisterReads(c)) \/ RegisterStores
    PROVE  PaceInv'
<1>1. CASE Advance \/ \E c \in Clocks : RegisterReads(c)
  BY <1>1, SamePace DEF Advance, RegisterReads, Clock
<1>2. ASSUME NEW c \in Clocks, RegisterClock(c) PROVE PaceInv'
  <2>1. order \in Seq(Clocks) /\ order' = Append(order, c) /\ UNCHANGED <<nextEvent, disp, last, raced>>
    BY <1>2 DEF RegisterClock, TimingInv, Shapes
  <2>2. disp.pc \in Walk => disp.i \in 1..Len(order)
    BY <2>1, ClockFacts, Readings DEF DispType
  <2>3. disp.pc \in Walk => Clock' = Clock
    BY <2>1, <2>2 DEF Clock
  <2>4. QED
    BY <2>1, <2>3, SamePace DEF Ticked, Walk
<1>3. CASE RegisterStores
  <2> DEFINE c == reg.clock
             v == Minus(reg.now, Period[c])
             tick == [last[c] EXCEPT !.known = FALSE]
  <2>1. c \in Clocks /\ nextEvent' = [nextEvent EXCEPT ![c] = v] /\ raced' = raced \cup {c}
        /\ last' = [last EXCEPT ![c] = tick] /\ UNCHANGED <<order, disp>>
    BY <1>3 DEF RegisterStores, TimingInv, Shapes
  <2> HIDE DEF c, v
  <2>2. last \in [Clocks -> LastType] /\ last[c] \in LastType
    BY <2>1 DEF PaceInv
  <2>3. tick \in LastType /\ tick.end = last[c].end /\ tick.duration = last[c].duration /\ ~tick.known
    BY <2>2 DEF LastType
  <2> HIDE DEF tick
  <2>4. /\ last' \in [Clocks -> LastType] /\ last'[c] = tick
        /\ \A b \in Clocks : b # c => last'[b] = last[b] /\ nextEvent'[b] = nextEvent[b]
    BY <2>1, <2>2, <2>3 DEF TimingInv, Shapes
  <2>5. Clock' = Clock /\ (disp.pc \in Ticked => Clock \in Clocks)
    BY <2>1, ClockFacts DEF Clock, Ticked, Walk
  <2>6. disp.pc \in Ticked => last'[Clock].end = disp.end /\ last'[Clock].duration = disp.end - disp.start
    BY <2>3, <2>4, <2>5 DEF PaceInv
  <2>7. \A b \in Clocks : last'[b].known => b # c /\ b \notin raced'
    BY <2>1, <2>3, <2>4 DEF PaceInv
  <2>8. QED
    BY <2>1, <2>4, <2>5, <2>6, <2>7 DEF PaceInv
<1>4. QED
  BY <1>1, <1>2, <1>3

LEMMA PaceInvHolds == Spec => []PaceInv
<1>1. Init => PaceInv
  BY DEF Init, PaceInv, NoTick, LastType, Top, Ticked, Serving
<1>2. TimingInv /\ PaceInv /\ [Next]_vars => PaceInv'
  <2> SUFFICES ASSUME TimingInv, PaceInv, [Next]_vars PROVE PaceInv'
    OBVIOUS
  <2>1. CASE UNCHANGED vars
    BY <2>1, SamePace DEF vars, Clock
  <2>2. CASE Next
    BY <2>2, WalkKeepsPace, TickEndKeepsPace, ServingKeepsPace, OthersKeepPace
       DEF Next, DispatcherStep
  <2>3. QED
    BY <2>1, <2>2
<1>3. QED
  BY <1>1, <1>2, TimingInvHolds, PTL DEF Spec

\* Whatever the dispatcher read, slept and served in between, it leaves a clock
\* alone for at least as long as its last tick took.
THEOREM TicksArePacedAlways == Spec => []TicksArePaced
<1>1. TimingInv /\ PaceInv => TicksArePaced
  <2> SUFFICES ASSUME TimingInv, PaceInv, disp.pc = "end", last[Clock].known
               PROVE  disp.start >= last[Clock].end + last[Clock].duration
    BY DEF TicksArePaced
  <2>1. disp.pc \in Walk /\ disp.pc \notin Ticked
    BY DEF Walk, Serving, Ticked
  <2>2. Clock \in Clocks /\ nextEvent[Clock] \in Nat
    BY <2>1, ClockFacts, Constants
  <2>3. last[Clock] \in LastType /\ Clock \notin raced
        /\ nextEvent[Clock] >= last[Clock].end + last[Clock].duration
    BY <2>1, <2>2 DEF PaceInv
  <2>4. nextEvent[Clock] <= disp.now /\ disp.now <= disp.start
    BY <2>1, <2>2, <2>3, ClockFacts, Readings DEF Served, ReadInOrder
  <2>5. QED
    BY <2>2, <2>3, <2>4, Readings DEF DispType, LastType
<1>2. QED
  BY <1>1, TimingInvHolds, PaceInvHolds, PTL

-----------------------------------------------------------------------------
\* Reducing a number modulo 2^Width does not make it larger.
LEMMA WrapsDown ==
    ASSUME NEW a \in Nat
    PROVE  a % Modulus \in Nat /\ a % Modulus <= a
<1>1. Modulus \in Nat \ {0}
  BY Constants
<1>2. QED
  BY <1>1

\* The clocks walked over have a place in the list before the one at hand.
LEMMA WalkedFacts ==
    ASSUME TimingInv, SleepInv
    PROVE  /\ \A k \in Walked(disp) : k \in Nat /\ k \in 1..Len(order) /\ order[k] \in Clocks
           /\ disp.pc \in Walk => \A k \in Walked(disp) : order[k] # Clock
<1>1. /\ order \in Seq(Clocks) /\ Len(order) \in Nat /\ disp.i \in Nat /\ disp.n \in Nat
      /\ disp.pc \in Walk => disp.n <= Len(order) /\ disp.i \in 1..disp.n
  BY Readings DEF TimingInv, Shapes, InWalk, DispType
<1>2. \A k \in Walked(disp) : k \in 1..Len(order) /\ (disp.pc \in Walk => k < disp.i)
  BY <1>1 DEF Walked, SleepInv
<1>3. \A k \in 1..Len(order) : order[k] \in Clocks
  BY <1>1
<1>4. ASSUME disp.pc \in Walk, NEW k \in Walked(disp) PROVE order[k] # Clock
  <2>1. k \in 1..Len(order) /\ disp.i \in 1..Len(order) /\ k # disp.i
    BY <1>1, <1>2, <1>4
  <2>2. QED
    BY <2>1 DEF SleepInv, Clock
<1>5. QED
  BY <1>2, <1>3, <1>4

\* A step within the walk over one clock, which moves no other clock's event.
LEMMA SameWalked ==
    ASSUME TimingInv, SleepInv, disp.pc \in Walk, disp'.pc \in Walk, disp'.i = disp.i,
           disp'.next = disp.next, UNCHANGED order,
           \A c \in Clocks : c # Clock /\ c \notin raced' => c \notin raced /\ nextEvent'[c] = nextEvent[c]
    PROVE  SleepInv'
<1>1. Walked(disp') = Walked(disp)
  BY DEF Walked
<1>2. \A k \in Walked(disp') : order'[k] \notin raced' => disp'.next <= nextEvent'[order'[k]]
  BY <1>1, WalkedFacts DEF SleepInv
<1>3. disp'.pc \notin {"doze", "sleep", "asleep"}
  BY DEF Walk, Serving
<1>4. QED
  BY <1>2, <1>3 DEF SleepInv, NoEventSlept

LEMMA ServingKeepsSleep ==
    ASSUME TimingInv, SleepInv,
           \/ CheckDue \/ TickStart \/ TickEnd
           \/ AddPeriod \/ CheckLate \/ CountMissed \/ CatchUp \/ CheckBusy \/ Pause
    PROVE  SleepInv'
<1>1. /\ disp.pc \in Walk /\ UNCHANGED order
  BY DEF CheckDue, TickStart, TickEnd, AddPeriod, CheckLate, CountMissed, CatchUp, CheckBusy, Pause,
         Local, Write, Serving, Walk
<1>2. /\ disp'.i = disp.i /\ disp'.next = disp.next /\ disp'.pc \in Walk
  BY <1>1, Readings
     DEF CheckDue, TickStart, TickEnd, AddPeriod, CheckLate, CountMissed, CatchUp, CheckBusy, Pause,
         Local, Write, Goto, DispType, Serving, Walk
<1>3. \A c \in Clocks : c # Clock /\ c \notin raced' => c \notin raced /\ nextEvent'[c] = nextEvent[c]
  <2>1. nextEvent \in [Clocks -> 0..Max64]
    BY DEF TimingInv, Shapes
  <2>2. CASE CheckDue \/ TickStart \/ TickEnd \/ CheckLate \/ CountMissed \/ CheckBusy
    BY <2>2 DEF CheckDue, TickStart, TickEnd, CheckLate, CountMissed, CheckBusy, Local
  <2>3. CASE AddPeriod \/ CatchUp \/ Pause
    BY <2>1, <2>3 DEF AddPeriod, CatchUp, Pause, Write
  <2>4. QED
    BY <2>2, <2>3
<1>4. QED
  BY <1>1, <1>2, <1>3, SameWalked

\* Starting a walk, or going back to the top, with nothing walked over.
LEMMA NothingWalked ==
    ASSUME SleepInv, UNCHANGED order, Walked(disp') = {}, disp'.pc \notin {"doze", "sleep", "asleep"}
    PROVE  SleepInv'
BY DEF SleepInv, NoEventSlept

LEMMA StartWalkKeepsSleep ==
    ASSUME TimingInv, SleepInv, StartWalk
    PROVE  SleepInv'
<1>1. disp.pc = "top" /\ UNCHANGED order
  BY DEF StartWalk, Local
<1>2. disp'.pc = "top" \/ (disp'.pc = "check" /\ disp'.i = 1)
  BY <1>1, Readings DEF StartWalk, Local, Top, DispType
<1>3. Walked(disp') = {}
  BY <1>2 DEF Walked, Walk, Serving
<1>4. QED
  BY <1>1, <1>2, <1>3, NothingWalked

\* The earliest of the events walked over is what the walk ends with.
LEMMA NextClockKeepsSleep ==
    ASSUME TimingInv, SleepInv, NextClock
    PROVE  SleepInv'
<1> DEFINE e == nextEvent[Clock]
           m == Min2(disp.next, e)
<1>1. disp.pc = "next" /\ disp.pc \in Walk /\ UNCHANGED <<order, nextEvent, raced>>
  BY DEF NextClock, Local, Walk
<1>2. /\ disp.i \in 1..disp.n /\ disp.n \in Nat /\ disp.n <= Len(order) /\ Len(order) \in Nat
      /\ disp.next \in Nat /\ e \in Nat /\ Clock = order[disp.i]
  BY <1>1, ClockFacts, Readings, Constants, SMTT(30) DEF DispType, Clock, TimingInv, Shapes
<1>3. m <= disp.next /\ m <= e /\ m \in Nat
  BY <1>2 DEF Min2
<1>4. /\ disp'.next = m /\ disp'.n = disp.n
      /\ \/ disp'.pc = "check" /\ disp.i < disp.n /\ disp'.i = disp.i + 1
         \/ disp'.pc = "doze" /\ ~(disp.i < disp.n)
  BY Readings DEF NextClock, Local, DispType
<1>5. Walked(disp) = 1..(disp.i - 1) /\ Walked(disp') = 1..disp.i
  <2>1. CASE disp'.pc = "check" /\ disp.i < disp.n /\ disp'.i = disp.i + 1
    BY <1>1, <1>2, <2>1 DEF Walked, Walk
  <2>2. CASE disp'.pc = "doze" /\ ~(disp.i < disp.n)
    <3>1. disp.n = disp.i
      BY <1>2, <2>2
    <3>2. QED
      BY <1>1, <1>4, <2>2, <3>1 DEF Walked, Walk, Serving
  <2>3. QED
    BY <1>4, <2>1, <2>2
<1> HIDE DEF m
<1>6. ASSUME NEW k \in 1..disp.i, order[k] \notin raced PROVE m <= nextEvent[order[k]]
  <2>1. CASE k = disp.i
    BY <1>2, <1>3, <2>1
  <2>2. CASE k # disp.i
    <3>1. k \in Walked(disp)
      BY <1>2, <1>5, <2>2
    <3>2. disp.next <= nextEvent[order[k]] /\ order[k] \in Clocks
      BY <1>6, <3>1, WalkedFacts DEF SleepInv
    <3>3. nextEvent[order[k]] \in Nat
      BY <3>2, Constants DEF TimingInv, Shapes
    <3>4. QED
      BY <1>2, <1>3, <3>2, <3>3
  <2>3. QED
    BY <2>1, <2>2
<1>7. disp'.pc \notin {"sleep", "asleep"}
  BY <1>4
<1>8. QED
  BY <1>1, <1>2, <1>4, <1>5, <1>6, <1>7 DEF SleepInv, NoEventSlept

LEMMA DozeKeepsSleep ==
    ASSUME TimingInv, SleepInv, Doze \/ EnterSleep \/ Wake
    PROVE  SleepInv'
<1>1. UNCHANGED <<time, order, nextEvent, raced>> /\ disp \in DispType /\ time \in Nat
  BY Readings DEF Doze, EnterSleep, Wake, Local
<1>2. CASE disp' = Top
  BY <1>1, <1>2, NothingWalked DEF Walked, Top, Walk, Serving
<1>3. CASE Doze /\ disp' # Top
  <2>1. disp' = [disp EXCEPT !.pc = "sleep", !.now = time] /\ disp.next > time /\ disp.pc = "doze"
    BY <1>3 DEF Doze, Local
  <2>2. disp'.pc = "sleep" /\ disp'.now = time /\ disp'.next = disp.next /\ disp'.n = disp.n
    BY <1>1, <2>1 DEF DispType
  <2>3. Walked(disp') = Walked(disp)
    BY <2>1, <2>2 DEF Walked, Walk, Serving
  <2>4. disp'.now <= time' /\ disp'.now < disp'.next
    BY <1>1, <2>1, <2>2 DEF DispType
  <2>5. QED
    BY <1>1, <2>1, <2>2, <2>3, <2>4 DEF SleepInv, NoEventSlept
<1>4. CASE EnterSleep
  <2> DEFINE gap == disp.next - disp.now
             target == Plus(time, Minus(disp.next, disp.now))
  <2>1. /\ disp.pc = "sleep" /\ disp.now \in Nat /\ disp.next \in Nat /\ disp.n \in Nat
        /\ disp.now < disp.next /\ disp.n <= Len(order)
    BY <1>1, <1>4 DEF EnterSleep, Local, SleepInv, DispType
  <2>2. /\ disp'.pc = "asleep" /\ disp'.start = time /\ disp'.target = target
        /\ disp'.now = disp.now /\ disp'.n = disp.n
    BY <1>1, <1>4 DEF EnterSleep, Local, DispType
  <2>3. target \in Nat /\ target <= time + gap
    <3>1. gap \in Nat /\ Minus(disp.next, disp.now) \in Nat /\ Minus(disp.next, disp.now) <= gap
      <4>1. gap \in Nat
        BY <2>1
      <4>2. Minus(disp.next, disp.now) = gap % Modulus
        BY DEF Minus
      <4> HIDE DEF gap
      <4>3. QED
        BY <4>1, <4>2, WrapsDown
    <3>2. time + Minus(disp.next, disp.now) \in Nat
      BY <1>1, <3>1
    <3>3. target \in Nat /\ target <= time + Minus(disp.next, disp.now)
      BY <3>2, WrapsDown DEF Plus
    <3> HIDE DEF gap, target
    <3>4. QED
      BY <1>1, <3>1, <3>3
  <2> HIDE DEF target
  <2>4. Walked(disp) = 1..disp.n /\ Walked(disp') = {}
    BY <2>1, <2>2 DEF Walked, Walk, Serving
  <2>5. ASSUME NEW k \in 1..disp.n, order[k] \notin raced
        PROVE  target <= nextEvent[order[k]] + (time - disp.now)
    <3>1. disp.next <= nextEvent[order[k]] /\ order[k] \in Clocks
      BY <2>4, <2>5, WalkedFacts DEF SleepInv
    <3>2. nextEvent[order[k]] \in Nat
      BY <3>1, Constants DEF TimingInv, Shapes
    <3>3. QED
      BY <1>1, <2>1, <2>3, <3>1, <3>2
  <2>6. NoEventSlept'
    BY <1>1, <2>2, <2>5 DEF NoEventSlept
  <2>7. QED
    BY <1>1, <2>1, <2>2, <2>4, <2>6 DEF SleepInv
<1>5. QED
  BY <1>2, <1>3, <1>4 DEF Doze, EnterSleep, Wake, Local

LEMMA OthersKeepSleep ==
    ASSUME TimingInv, SleepInv,
           Advance \/ (\E c \in Clocks : RegisterClock(c) \/ RegisterReads(c)) \/ RegisterStores
    PROVE  SleepInv'
<1>1. CASE Advance
  <2>1. time' = time + 1 /\ UNCHANGED <<nextEvent, order, disp, raced>>
    BY <1>1 DEF Advance
  <2>2. disp.pc = "sleep" => disp.now <= time'
    BY <2>1, Readings DEF SleepInv, DispType
  <2>3. QED
    BY <2>1, <2>2 DEF SleepInv, NoEventSlept
<1>2. CASE \E c \in Clocks : RegisterReads(c)
  BY <1>2 DEF RegisterReads, SleepInv, NoEventSlept
<1>3. ASSUME NEW c \in Clocks, RegisterClock(c) PROVE SleepInv'
  <2>1. /\ order \in Seq(Clocks) /\ order' = Append(order, c)
        /\ UNCHANGED <<time, nextEvent, disp, raced>>
        /\ \A k \in 1..Len(order) : order[k] # c
    BY <1>3 DEF RegisterClock, TimingInv, Shapes
  <2>2. /\ Len(order) \in Nat /\ Len(order') = Len(order) + 1 /\ order'[Len(order) + 1] = c
        /\ \A k \in 1..Len(order) : order'[k] = order[k]
    BY <2>1
  <2>3. \A j, k \in 1..Len(order') : order'[j] = order'[k] => j = k
    <3> SUFFICES ASSUME NEW j \in 1..Len(order'), NEW k \in 1..Len(order'), order'[j] = order'[k]
                 PROVE  j = k
      OBVIOUS
    <3>1. /\ j \in 1..Len(order) \/ j = Len(order) + 1
          /\ k \in 1..Len(order) \/ k = Len(order) + 1
      BY <2>2
    <3>2. QED
      BY <2>1, <2>2, <3>1 DEF SleepInv
  <2>4. \A k \in Walked(disp) : order'[k] = order[k]
    BY <2>2, WalkedFacts
  <2>5. disp.pc \in {"doze", "sleep", "asleep"} =>
            disp.n <= Len(order') /\ \A k \in 1..disp.n : order'[k] = order[k]
    BY <2>2, Readings DEF SleepInv, DispType
  <2>6. QED
    BY <2>1, <2>3, <2>4, <2>5 DEF SleepInv, NoEventSlept
<1>4. CASE RegisterStores
  <2> DEFINE v == Minus(reg.now, Period[reg.clock])
  <2>1. /\ reg.clock \in Clocks /\ nextEvent' = [nextEvent EXCEPT ![reg.clock] = v]
        /\ raced' = raced \cup {reg.clock} /\ UNCHANGED <<time, order, disp>>
    BY <1>4 DEF RegisterStores, TimingInv, Shapes
  <2> HIDE DEF v
  <2>2. nextEvent \in [Clocks -> 0..Max64]
    BY DEF TimingInv, Shapes
  <2>3. \A c : c \notin raced' => c \notin raced /\ nextEvent'[c] = nextEvent[c]
    BY <2>1, <2>2
  <2>4. QED
    BY <2>1, <2>3 DEF SleepInv, NoEventSlept
<1>5. QED
  BY <1>1, <1>2, <1>3, <1>4

LEMMA SleepInvHolds == Spec => []SleepInv
<1>1. Init => SleepInv
  BY DEF Init, SleepInv, NoEventSlept, Walked, Walk, Serving, Top
<1>2. TimingInv /\ SleepInv /\ [Next]_vars => SleepInv'
  <2> SUFFICES ASSUME TimingInv, SleepInv, [Next]_vars PROVE SleepInv'
    OBVIOUS
  <2>1. CASE UNCHANGED vars
    BY <2>1 DEF vars, SleepInv, NoEventSlept
  <2>2. CASE Next
    BY <2>2, StartWalkKeepsSleep, ServingKeepsSleep, NextClockKeepsSleep, DozeKeepsSleep,
       OthersKeepSleep DEF Next, DispatcherStep
  <2>3. QED
    BY <2>1, <2>2
<1>3. QED
  BY <1>1, <1>2, TimingInvHolds, PTL DEF Spec

\* The dispatcher sleeps past no event of a clock it walked over, whatever the
\* counter did between its readings.
THEOREM NoEventSleptAlways == Spec => []NoEventSlept
<1>1. SleepInv => NoEventSlept
  BY DEF SleepInv
<1>2. QED
  BY <1>1, SleepInvHolds, PTL

-----------------------------------------------------------------------------
\* However far beyond the end of its tick a registration moved the event of a
\* clock, or before it, the periods counted as missed bring it within one of it.
LEMMA ModulusOnce ==
    ASSUME NEW n \in Nat \ {0}, NEW x \in Nat, n <= x, x < n + n
    PROVE  x % n = x - n
<1>1. PICK q \in Nat : q = x - n /\ q < n /\ x = q + n
  OBVIOUS
<1>2. x % n = q
  BY <1>1
<1>3. QED
  BY <1>1, <1>2

LEMMA CatchUpAnyEvent ==
    ASSUME NEW e \in 0..Max64, NEW end \in Nat, end <= MaxTime,
           NEW p \in Nat, p > 0, p <= MaxTime
    PROVE  Plus(e, (Minus(end, e) \div p + 1) * p) <= end + p
<1> DEFINE gap == Minus(end, e)
           m == (gap \div p + 1) * p
<1>1. /\ e \in Nat /\ e < Modulus /\ Modulus \in Nat \ {0} /\ end < Modulus /\ end + p < Modulus
  BY Constants
<1>2. gap \in 0..Max64 /\ gap \in Nat
  BY <1>1, MinusWraps, Constants
<1>3. m \in Nat /\ m > gap /\ m <= gap + p
  BY <1>2, MissedPeriods
<1>4. CASE e <= end
  <2>1. gap = end - e
    BY <1>1, <1>4, MinusWraps
  <2> HIDE DEF gap, m
  <2>2. e + m \in Nat /\ e + m <= end + p
    BY <1>1, <1>2, <1>3, <2>1
  <2>3. e + m < Modulus
    BY <1>1, <2>2
  <2>4. Plus(e, m) = e + m
    BY <1>1, <1>3, <2>3, PlusWraps
  <2>5. QED
    BY <2>2, <2>4 DEF m, gap
<1>5. CASE e > end
  <2>1. gap = end - e + Modulus
    BY <1>1, <1>5 DEF Minus
  <2> HIDE DEF gap, m
  <2>2. e + m \in Nat /\ Modulus <= e + m /\ e + m - Modulus <= end + p
    BY <1>1, <1>2, <1>3, <2>1
  <2>3. (e + m) % Modulus = e + m - Modulus
    <3> DEFINE x == e + m
    <3>1. x \in Nat /\ Modulus <= x /\ x < Modulus + Modulus
      BY <1>1, <1>3, <2>2
    <3> HIDE DEF x
    <3>2. x % Modulus = x - Modulus
      BY <1>1, <3>1, ModulusOnce
    <3>3. QED
      BY <1>1, <1>3, <3>2 DEF x
  <2>4. QED
    BY <2>2, <2>3 DEF Plus, m, gap
<1>6. QED
  BY <1>1, <1>4, <1>5

\* What the invariant says of clock c.
Started(c) ==
    IF disp.pc \in Serving /\ Clock = c THEN Reset(disp, nextEvent[c], Period[c], time)
    ELSE \/ nextEvent[c] <= time + Period[c]
         \/ nextEvent[c] <= last[c].end + last[c].duration

\* A step that concerns one clock, the one at hand.
LEMMA OneClockStarted ==
    ASSUME TimingInv, StartInv, disp.pc \in Walk, Clock' = Clock,
           UNCHANGED <<time, reg>>, raced' \subseteq raced,
           \A c \in Clocks \ {Clock} : nextEvent'[c] = nextEvent[c] /\ last'[c] = last[c],
           Clock \in raced' \ reg.torn => Started(Clock)'
    PROVE  StartInv'
<1>1. ASSUME NEW c \in raced' \ reg.torn PROVE Started(c)'
  <2>1. CASE c = Clock
    BY <1>1, <2>1
  <2>2. CASE c # Clock
    <3>1. c \in Clocks /\ c \in raced \ reg.torn /\ nextEvent'[c] = nextEvent[c] /\ last'[c] = last[c]
      BY <1>1, <2>2 DEF TimingInv, Shapes
    <3>2. Started(c)
      BY <3>1 DEF StartInv, Started
    <3>3. QED
      BY <2>2, <3>1, <3>2 DEF Started
  <2>3. QED
    BY <2>1, <2>2
<1>2. QED
  BY <1>1 DEF StartInv, Started

\* A step outside the service of a clock that moves no event.
LEMMA NoneStarted ==
    ASSUME StartInv, disp.pc \notin Serving, disp'.pc \notin Serving,
           UNCHANGED <<time, nextEvent, reg, last, raced>>
    PROVE  StartInv'
BY DEF StartInv

LEMMA WalkKeepsStart ==
    ASSUME TimingInv, StartInv, StartWalk \/ NextClock \/ Doze \/ EnterSleep \/ Wake
    PROVE  StartInv'
<1>1. /\ UNCHANGED <<time, nextEvent, reg, last, raced>>
      /\ disp.pc \in {"top", "next", "doze", "sleep", "asleep"}
  BY DEF StartWalk, NextClock, Doze, EnterSleep, Wake, Local
<1>2. disp'.pc \in {"top", "check", "doze", "sleep", "asleep"}
  BY Readings, TopIsTyped DEF StartWalk, NextClock, Doze, EnterSleep, Wake, Local, Goto, DispType, Top
<1>3. disp.pc \notin Serving /\ disp'.pc \notin Serving
  BY <1>1, <1>2 DEF Serving
<1>4. QED
  BY <1>1, <1>3, NoneStarted

LEMMA CheckDueKeepsStart ==
    ASSUME TimingInv, StartInv, CheckDue
    PROVE  StartInv'
<1>1. disp.pc = "check" /\ disp.pc \in Walk /\ disp.pc \notin Serving /\ UNCHANGED <<time, nextEvent, order, reg, last>>
  BY DEF CheckDue, Walk, Serving
<1>2. CASE nextEvent[Clock] <= disp.now
  <2>1. raced' = raced \ {Clock} /\ disp'.i = disp.i
    BY <1>2, Readings DEF CheckDue, DispType
  <2>2. Clock' = Clock
    BY <1>1, <2>1 DEF Clock
  <2>3. QED
    BY <1>1, <2>1, <2>2, OneClockStarted
<1>3. CASE ~(nextEvent[Clock] <= disp.now)
  <2>1. UNCHANGED raced /\ disp'.pc = "next"
    BY <1>3, Readings DEF CheckDue, Goto, DispType
  <2>2. disp'.pc \notin Serving
    BY <2>1 DEF Serving
  <2>3. QED
    BY <1>1, <2>1, <2>2, NoneStarted
<1>4. QED
  BY <1>2, <1>3

\* The clock at hand, if a registration reset it and tore no catch-up.
LEMMA ResetFacts ==
    ASSUME TimingInv, StartInv, disp.pc \in Serving, Clock \in raced \ reg.torn
    PROVE  Reset(disp, nextEvent[Clock], Period[Clock], time)
BY DEF StartInv

LEMMA ServingKeepsStart ==
    ASSUME TimingInv, PaceInv, StartInv,
           \/ TickStart \/ TickEnd
           \/ AddPeriod \/ CheckLate \/ CountMissed \/ CatchUp \/ CheckBusy \/ Pause
    PROVE  StartInv'
<1> DEFINE e == nextEvent[Clock]
           p == Period[Clock]
<1>1. /\ disp.pc \in Serving /\ disp.pc \in Walk /\ UNCHANGED <<time, order, reg, raced>>
  BY DEF TickStart, TickEnd, AddPeriod, CheckLate, CountMissed, CatchUp, CheckBusy, Pause, Local,
         Write, Serving, Walk
<1>2. /\ disp'.i = disp.i /\ Clock' = Clock
  BY <1>1, Readings
     DEF TickStart, TickEnd, AddPeriod, CheckLate, CountMissed, CatchUp, CheckBusy, Pause, Local,
         Write, Goto, DispType, Clock
<1>3. /\ Clock \in Clocks /\ e \in 0..Max64 /\ e \in Nat /\ p \in Nat /\ p > 0 /\ p <= MaxTime
      /\ nextEvent \in [Clocks -> 0..Max64] /\ last \in [Clocks -> LastType] /\ time \in Nat
  BY <1>1, ClockFacts, Readings, Constants DEF TimingInv, Shapes, PaceInv
<1>4. \A c \in Clocks \ {Clock} : nextEvent'[c] = nextEvent[c] /\ last'[c] = last[c]
  BY <1>3 DEF TickStart, TickEnd, AddPeriod, CheckLate, CountMissed, CatchUp, CheckBusy, Pause, Local,
              Write
<1>5. SUFFICES ASSUME Clock \in raced \ reg.torn PROVE Started(Clock)'
  BY <1>1, <1>2, <1>4, OneClockStarted
<1>6. Reset(disp, e, p, time)
  BY <1>1, <1>5, ResetFacts
<1>7. CASE TickStart \/ TickEnd
  <2>1. disp'.pc \in {"end", "add"} /\ nextEvent' = nextEvent /\ disp.pc \in {"start", "end"}
    BY <1>7, Readings DEF TickStart, TickEnd, Local, DispType
  <2>2. QED
    BY <1>1, <1>2, <1>6, <2>1 DEF Started, Reset, Serving
<1>8. CASE AddPeriod
  <2>1. disp'.pc = "late" /\ nextEvent'[Clock] = Plus(e, p) /\ disp.pc = "add"
    BY <1>3, <1>8, Readings DEF AddPeriod, Write, Goto, DispType
  <2>2. e + p <= time /\ e + p \in Nat
    BY <1>3, <1>6, <2>1 DEF Reset
  <2>3. Plus(e, p) <= time
    <3>1. (e + p) % Modulus \in Nat /\ (e + p) % Modulus <= e + p
      BY <2>2, WrapsDown
    <3>2. QED
      BY <1>3, <2>2, <3>1 DEF Plus
  <2>4. QED
    BY <1>1, <1>2, <2>1, <2>3 DEF Started, Reset, Serving
<1>9. CASE CheckLate
  <2>1. disp'.pc \in {"missed", "busy"} /\ nextEvent' = nextEvent /\ disp.pc = "late"
    BY <1>9, Readings DEF CheckLate, Local, Goto, DispType
  <2>2. e <= time + p
    BY <1>3, <1>6, <2>1 DEF Reset
  <2>3. QED
    BY <1>1, <1>2, <2>1, <2>2 DEF Started, Reset, Serving
<1>10. CASE CountMissed
  <2>1. /\ disp'.pc = "catchup" /\ nextEvent' = nextEvent /\ disp'.end = disp.end
        /\ disp'.missed = Minus(disp.end, e) \div p + 1
    BY <1>10, Readings DEF CountMissed, Local, DispType
  <2>2. QED
    BY <1>1, <1>2, <2>1 DEF Started, Reset, Serving
<1>11. CASE CatchUp
  <2> DEFINE f == Plus(e, disp.missed * p)
  <2>1. disp'.pc = "busy" /\ nextEvent'[Clock] = f /\ disp.pc = "catchup"
    BY <1>3, <1>11, Readings DEF CatchUp, Write, Goto, DispType
  <2>2. disp.missed = Minus(disp.end, e) \div p + 1
    BY <1>6, <2>1 DEF Reset
  <2>3. disp.end \in Nat /\ disp.end <= MaxTime /\ disp.end <= time
    BY <1>1, <2>1, AfterTick, Readings DEF ReadInOrder, DispType, Serving
  <2>4. f <= disp.end + p
    BY <1>3, <2>2, <2>3, CatchUpAnyEvent
  <2>5. f \in Int
    <3>1. nextEvent'[Clock] \in 0..Max64
      <4>1. TimingInv'
        BY <1>11, CatchUpKeeps
      <4>2. QED
        BY <1>3, <4>1 DEF TimingInv, Shapes
    <3>2. QED
      BY <2>1, <3>1, Constants
  <2> HIDE DEF f, p
  <2>6. f <= time + p
    BY <1>3, <2>3, <2>4, <2>5
  <2>7. QED
    BY <1>1, <1>2, <2>1, <2>6 DEF Started, Reset, Serving, p
<1>12. CASE CheckBusy
  <2>1. disp'.pc \in {"pause", "next"} /\ nextEvent' = nextEvent /\ disp.pc = "busy"
    BY <1>12, Readings DEF CheckBusy, Local, Goto, DispType
  <2>2. e <= time + p
    BY <1>6, <2>1 DEF Reset
  <2>3. QED
    BY <1>1, <1>2, <2>1, <2>2 DEF Started, Reset, Serving
<1>13. CASE Pause
  <2>1. /\ disp'.pc = "next" /\ nextEvent'[Clock] = Plus(disp.end, Duration) /\ disp.pc = "pause"
        /\ UNCHANGED last
    BY <1>3, <1>13, Readings DEF Pause, Write, Goto, DispType
  <2>2. disp.pc \in Ticked
    BY <2>1 DEF Ticked, Serving
  <2>3. /\ Plus(disp.end, Duration) = disp.end + (disp.end - disp.start)
        /\ last[Clock].end = disp.end /\ last[Clock].duration = disp.end - disp.start
    BY <2>2, AfterTick DEF Ticked, PaceInv
  <2>4. nextEvent'[Clock] = last[Clock].end + last[Clock].duration /\ nextEvent'[Clock] \in Int
    <3>1. Plus(disp.end, Duration) \in 0..Max64
      BY <2>2, AfterTick DEF Ticked
    <3>2. QED
      BY <2>1, <2>3, <3>1, Constants
  <2>5. QED
    BY <1>2, <2>1, <2>4 DEF Started, Serving
<1>14. QED
  BY <1>7, <1>8, <1>9, <1>10, <1>11, <1>12, <1>13

LEMMA OthersKeepStart ==
    ASSUME TimingInv, PaceInv, StartInv,
           Advance \/ (\E c \in Clocks : RegisterClock(c) \/ RegisterReads(c)) \/ RegisterStores
    PROVE  StartInv'
<1>0. /\ time \in Nat /\ reg \in RegType /\ reg.torn \in SUBSET Clocks /\ reg.now \in Nat
      /\ nextEvent \in [Clocks -> 0..Max64] /\ \A c \in Clocks : nextEvent[c] \in Nat
      /\ raced \in SUBSET Clocks
  BY Readings, Constants DEF TimingInv, Shapes, RegType
<1>1. CASE Advance
  <2>1. time' = time + 1 /\ UNCHANGED <<nextEvent, order, disp, reg, last, raced>>
    BY <1>1 DEF Advance
  <2>2. reg.pc = "store" => Uptime <= reg.now /\ reg.now <= time'
    BY <1>0, <2>1 DEF StartInv
  <2>3. ASSUME NEW c \in raced \ reg.torn PROVE Started(c)'
    <3>1. Started(c) /\ nextEvent[c] \in Nat /\ Period[c] \in Nat
      BY <1>0, Constants DEF StartInv, Started
    <3>2. Clock' = Clock
      BY <2>1 DEF Clock
    <3>3. QED
      BY <1>0, <2>1, <3>1, <3>2 DEF Started, Reset
  <2>4. QED
    BY <2>1, <2>2, <2>3 DEF StartInv, Started
<1>2. ASSUME NEW c \in Clocks, RegisterClock(c) PROVE StartInv'
  <2>1. /\ order \in Seq(Clocks) /\ order' = Append(order, c)
        /\ UNCHANGED <<time, nextEvent, disp, reg, last, raced>>
    BY <1>2 DEF RegisterClock, TimingInv, Shapes
  <2>2. disp.pc \in Walk => disp.i \in 1..Len(order)
    BY <2>1, ClockFacts, Readings DEF DispType
  <2>3. disp.pc \in Serving => Clock' = Clock
    BY <2>1, <2>2 DEF Clock, Walk
  <2>4. QED
    BY <2>1, <2>3 DEF StartInv
<1>3. ASSUME NEW c \in Clocks, RegisterReads(c) PROVE StartInv'
  <2>1. reg'.now = time /\ reg'.torn = reg.torn /\ UNCHANGED <<time, nextEvent, order, disp, last, raced>>
    BY <1>0, <1>3 DEF RegisterReads, RegType
  <2>2. Uptime <= time
    BY Constants DEF TimingInv, Shapes
  <2>3. Clock' = Clock
    BY <2>1 DEF Clock
  <2>4. QED
    BY <1>0, <2>1, <2>2, <2>3 DEF StartInv
<1>4. CASE RegisterStores
  <2> DEFINE c == reg.clock
             v == Minus(reg.now, Period[c])
             tick == [last[c] EXCEPT !.known = FALSE]
  <2>1. /\ c \in Clocks /\ nextEvent' = [nextEvent EXCEPT ![c] = v] /\ raced' = raced \cup {c}
        /\ last' = [last EXCEPT ![c] = tick] /\ UNCHANGED <<time, order, disp>>
        /\ reg.pc = "store"
    BY <1>4 DEF RegisterStores, TimingInv, Shapes
  <2>2. /\ reg'.pc = "idle"
        /\ reg'.torn = IF disp.pc = "catchup" /\ Clock = c THEN reg.torn \cup {c} ELSE reg.torn \ {c}
    BY <1>0, <1>4 DEF RegisterStores, RegType
  <2>3. v \in Nat /\ v + Period[c] <= time
    <3>1. /\ Period[c] \in Nat /\ Period[c] <= Uptime /\ Uptime <= reg.now /\ reg.now <= time
          /\ reg.now < Modulus
      BY <1>0, <2>1, Constants, TimingAssumption DEF StartInv, TimingInv, Shapes
    <3>2. Period[c] <= reg.now
      BY <1>0, <3>1, Constants
    <3>3. v = reg.now - Period[c]
      BY <1>0, <3>1, <3>2, MinusWraps
    <3>4. QED
      BY <1>0, <3>1, <3>2, <3>3
  <2>4. last \in [Clocks -> LastType]
    BY DEF PaceInv
  <2> HIDE DEF c, v, tick
  <2>5. Clock' = Clock
    BY <2>1 DEF Clock
  <2>6. ASSUME NEW b \in raced' \ reg'.torn PROVE Started(b)'
    <3>1. CASE b = c
      <4>1. /\ nextEvent'[b] = v /\ Period[b] \in Nat /\ ~(disp.pc = "catchup" /\ Clock = b)
        BY <1>0, <2>1, <2>2, <2>6, <3>1, Constants
      <4>2. v <= time /\ v <= time + Period[b] /\ v + Period[b] <= time
        BY <1>0, <2>3, <3>1, <4>1
      <4>3. QED
        BY <2>1, <2>5, <4>1, <4>2 DEF Started, Reset
    <3>2. CASE b # c
      <4>1. b \in raced \ reg.torn
        BY <2>1, <2>2, <2>6, <3>2
      <4>2. nextEvent'[b] = nextEvent[b] /\ last'[b] = last[b] /\ Started(b)
        BY <1>0, <2>1, <2>4, <3>2, <4>1 DEF StartInv, Started
      <4>3. QED
        BY <2>1, <2>5, <4>2 DEF Started
    <3>3. QED
      BY <3>1, <3>2
  <2>7. QED
    BY <2>2, <2>6 DEF StartInv, Started
<1>5. QED
  BY <1>1, <1>2, <1>3, <1>4

LEMMA StartInvHolds == Spec => []StartInv
<1>1. Init => StartInv
  BY DEF Init, StartInv
<1>2. TimingInv /\ PaceInv /\ StartInv /\ [Next]_vars => StartInv'
  <2> SUFFICES ASSUME TimingInv, PaceInv, StartInv, [Next]_vars PROVE StartInv'
    OBVIOUS
  <2>1. CASE UNCHANGED vars
    <3>1. Clock' = Clock
      BY <2>1 DEF vars, Clock
    <3>2. QED
      BY <2>1, <3>1 DEF vars, StartInv
  <2>2. CASE Next
    BY <2>2, WalkKeepsStart, CheckDueKeepsStart, ServingKeepsStart, OthersKeepStart
       DEF Next, DispatcherStep
  <2>3. QED
    BY <2>1, <2>2
<1>3. QED
  BY <1>1, <1>2, TimingInvHolds, PaceInvHolds, PTL DEF Spec

\* A clock a driver was registered with is due within a period, or within the
\* pause after its last tick, unless the registration tore a catch-up.
THEOREM RegisteringStartsClockAlways == Spec => []RegisteringStartsClock
<1>1. StartInv => RegisteringStartsClock
  <2>0. SUFFICES ASSUME StartInv PROVE RegisteringStartsClock
    OBVIOUS
  <2> USE DEF RegisteringStartsClock
  <2> TAKE c \in raced \ reg.torn
  <2>1. Started(c)
    BY <2>0 DEF StartInv, Started
  <2>2. CASE disp.pc \in Serving /\ Clock = c
    BY <2>2 DEF Serving
  <2>3. CASE ~(disp.pc \in Serving /\ Clock = c)
    BY <2>1, <2>3 DEF Started
  <2>4. QED
    BY <2>2, <2>3
<1>2. QED
  BY <1>1, StartInvHolds, PTL
=============================================================================
