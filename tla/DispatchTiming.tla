-------------------------- MODULE DispatchTiming --------------------------
(***************************************************************************)
(* The timing of libkraken/src/kraken_dispatcher.c: when the dispatcher    *)
(* thread ticks a clock, how it moves the clock's next_event afterwards,   *)
(* and how long it sleeps, while an application thread registers clocks    *)
(* with the dispatcher and drivers with the clocks (kraken_clock_register  *)
(* resets next_event with no lock held).  One step is one access to the    *)
(* atomic next_event or one read of the CPU's counter, and the counter may *)
(* advance between any two steps.  The lists' mutex, which excludes nobody *)
(* (KrakenMutex), and the drivers themselves are left to ClockDispatch.    *)
(*                                                                         *)
(* Counter values and events are uint64_t in the code; here they are       *)
(* numbers of Width bits, with the same wrapping arithmetic.               *)
(***************************************************************************)
EXTENDS Integers, Sequences, FiniteSets

CONSTANTS Clocks,
          Period,    \* clock->period of each clock, in counter cycles
          Uptime,    \* the counter when the model starts
          Width,     \* bits of an unsigned integer; 64 in the code
          MaxTime,   \* bound: the counter stops here
          MaxRegs    \* bound: calls of kraken_clock_register

Modulus == 2^Width
Max64   == Modulus - 1       \* UINT64_MAX

ASSUME TimingAssumption ==
    /\ Period \in [Clocks -> Nat \ {0}]
    /\ MaxTime \in Nat /\ Uptime \in 0..MaxTime /\ MaxRegs \in Nat
    /\ Width \in Nat /\ Modulus \in Nat
    /\ 2 * MaxTime < Modulus            \* the counter is far from wrapping
    \* kraken_clock_register happens at least one period after power-on
    /\ \A c \in Clocks : Period[c] <= Uptime

VARIABLES time,       \* the CPU's counter
          nextEvent,  \* clock->next_event of each clock
          order,      \* dispatcher->clocks: the registered clocks in order
          disp,       \* the dispatcher thread: where it is, and its locals
          reg,        \* kraken_clock_register: where it is, and its local now;
                      \* history torn: clocks it reset between the dispatcher's
                      \* count of missed periods and its adding them
          last,       \* history: the last tick of each clock
          raced       \* history: clocks reset by kraken_clock_register since the
                      \* dispatcher last found them due

vars == <<time, nextEvent, order, disp, reg, last, raced>>

Plus(a, b)  == (a + b) % Modulus
Minus(a, b) == (a - b) % Modulus
Signed(a)   == IF 2 * a >= Modulus THEN a - Modulus ELSE a
Min2(a, b)  == IF a < b THEN a ELSE b

\* The locals of the loop between two walks.
Top == [pc |-> "top", n |-> 0, i |-> 0, now |-> 0, next |-> 0,
        from |-> 0, start |-> 0, end |-> 0, missed |-> 0, target |-> 0]

NoTick == [end |-> 0, duration |-> 0, known |-> FALSE]

Init ==
    /\ time = Uptime
    /\ nextEvent = [c \in Clocks |-> 0]         \* kraken_calloc
    /\ order = <<>>
    /\ disp = Top
    /\ reg = [pc |-> "idle", clock |-> 0, now |-> 0, calls |-> 0, torn |-> {}]
    /\ last = [c \in Clocks |-> NoTick]
    /\ raced = {}

-----------------------------------------------------------------------------
Advance ==
    /\ time < MaxTime
    /\ time' = time + 1
    /\ UNCHANGED <<nextEvent, order, disp, reg, last, raced>>

Clock    == order[disp.i]
Duration == Minus(disp.end, disp.start)

\* A step of the dispatcher that leaves the shared state alone.
Local(pc, locals) ==
    /\ disp.pc = pc
    /\ disp' = locals
    /\ UNCHANGED <<time, nextEvent, order, reg, last, raced>>

\* A step of the dispatcher that writes the clock's next_event.
Write(pc, value, locals) ==
    /\ disp.pc = pc
    /\ nextEvent' = [nextEvent EXCEPT ![Clock] = value]
    /\ disp' = locals
    /\ UNCHANGED <<time, order, reg, last, raced>>

Goto(pc) == [disp EXCEPT !.pc = pc]

\* An empty list is looked at again at once.
StartWalk ==
    LET n == Len(order)
    IN  Local("top", IF n = 0 THEN disp
                     ELSE [Top EXCEPT !.pc = "check", !.n = n, !.i = 1,
                                      !.now = time, !.next = Max64])

CheckDue ==
    LET due == nextEvent[Clock] <= disp.now
    IN  /\ disp.pc = "check"
        /\ disp' = IF due THEN [disp EXCEPT !.pc = "start", !.from = nextEvent[Clock]]
                          ELSE Goto("next")
        /\ raced' = IF due THEN raced \ {Clock} ELSE raced
        /\ UNCHANGED <<time, nextEvent, order, reg, last>>

TickStart == Local("start", [disp EXCEPT !.pc = "end", !.start = time])

TickEnd ==
    /\ disp.pc = "end"
    /\ disp' = [disp EXCEPT !.pc = "add", !.end = time]
    /\ last' = [last EXCEPT ![Clock] = [end |-> time, duration |-> time - disp.start,
                                        known |-> Clock \notin raced]]
    /\ UNCHANGED <<time, nextEvent, order, reg, raced>>

AddPeriod == Write("add", Plus(nextEvent[Clock], Period[Clock]), Goto("late"))

CheckLate == Local("late", IF nextEvent[Clock] <= disp.end THEN Goto("missed") ELSE Goto("busy"))

\* Mutant: the number of missed events is one short.
MutantCountMissedShort ==
    Local("missed",
          [disp EXCEPT !.pc = "catchup",
                       !.missed = Minus(disp.end, nextEvent[Clock]) \div Period[Clock]])

\* next_event is loaded a second time here.
CountMissed ==
    Local("missed",
          [disp EXCEPT !.pc = "catchup",
                       !.missed = Minus(disp.end, nextEvent[Clock]) \div Period[Clock] + 1])

\* Mutant: a late clock starts over from the end of its tick.
MutantCatchUpFromEnd == Write("catchup", Plus(disp.end, Period[Clock]), Goto("busy"))

CatchUp ==
    Write("catchup", Plus(nextEvent[Clock], disp.missed * Period[Clock]), Goto("busy"))

\* A tick that took long is followed by a pause of the same length.
CheckBusy ==
    Local("busy", IF nextEvent[Clock] < Plus(disp.end, Duration) THEN Goto("pause") ELSE Goto("next"))

\* Mutant: the pause ends where the tick ended.
MutantPauseEmpty == Write("pause", disp.end, Goto("next"))

Pause == Write("pause", Plus(disp.end, Duration), Goto("next"))

\* Mutant: the sleep is for the last clock of the walk.
MutantNextClockLast ==
    Local("next",
          [disp EXCEPT !.pc = IF disp.i < disp.n THEN "check" ELSE "doze",
                       !.i = IF disp.i < disp.n THEN @ + 1 ELSE 0,
                       !.next = nextEvent[Clock],
                       !.from = 0, !.start = 0, !.end = 0, !.missed = 0])

NextClock ==
    Local("next",
          [disp EXCEPT !.pc = IF disp.i < disp.n THEN "check" ELSE "doze",
                       !.i = IF disp.i < disp.n THEN @ + 1 ELSE 0,
                       !.next = Min2(@, nextEvent[Clock]),
                       !.from = 0, !.start = 0, !.end = 0, !.missed = 0])

\* now is read again; sleep only when the next event lies ahead.
Doze ==
    Local("doze", IF disp.next > time THEN [disp EXCEPT !.pc = "sleep", !.now = time] ELSE Top)

\* kraken_cpu_sleep_cycles reads the counter once more and adds the cycles.
EnterSleep ==
    Local("sleep",
          [disp EXCEPT !.pc = "asleep", !.start = time,
                       !.target = Plus(time, Minus(disp.next, disp.now))])

\* The loop's comparison is signed (b.lt).
Wake ==
    /\ ~(Signed(time) < Signed(disp.target))
    /\ Local("asleep", Top)

\* kraken_dispatcher_register, as far as the dispatcher's walks can tell.
RegisterClock(c) ==
    /\ reg.pc = "idle"
    /\ \A k \in 1..Len(order) : order[k] # c
    /\ order' = Append(order, c)
    /\ UNCHANGED <<time, nextEvent, disp, reg, last, raced>>

\* kraken_clock_register: read the counter, then make the clock due at once.
RegisterReads(c) ==
    /\ reg.pc = "idle" /\ reg.calls < MaxRegs
    /\ reg' = [reg EXCEPT !.pc = "store", !.clock = c, !.now = time, !.calls = @ + 1]
    /\ UNCHANGED <<time, nextEvent, order, disp, last, raced>>

\* Mutant: the clock is due a period after the next instead of at once.
MutantRegisterAddsPeriod ==
    /\ reg.pc = "store"
    /\ LET c == reg.clock
       IN  /\ nextEvent' = [nextEvent EXCEPT ![c] = Plus(reg.now, 2 * Period[c])]
           /\ raced' = raced \cup {c}
           /\ last' = [last EXCEPT ![c].known = FALSE]
    /\ reg' = [reg EXCEPT !.pc = "idle", !.clock = 0, !.now = 0]
    /\ UNCHANGED <<time, order, disp>>

RegisterStores ==
    /\ reg.pc = "store"
    /\ LET c == reg.clock
       IN  /\ nextEvent' = [nextEvent EXCEPT ![c] = Minus(reg.now, Period[c])]
           /\ raced' = raced \cup {c}
           /\ last' = [last EXCEPT ![c].known = FALSE]
    /\ reg' = [reg EXCEPT !.pc = "idle", !.clock = 0, !.now = 0,
                           !.torn = IF disp.pc = "catchup" /\ Clock = reg.clock
                                       THEN @ \cup {reg.clock} ELSE @ \ {reg.clock}]
    /\ UNCHANGED <<time, order, disp>>

DispatcherStep ==
    \/ StartWalk \/ CheckDue \/ TickStart \/ TickEnd \/ AddPeriod \/ CheckLate
    \/ CountMissed \/ CatchUp \/ CheckBusy \/ Pause \/ NextClock \/ Doze
    \/ EnterSleep \/ Wake

Next ==
    \/ Advance
    \/ DispatcherStep
    \/ \E c \in Clocks : RegisterClock(c) \/ RegisterReads(c)
    \/ RegisterStores

Spec == Init /\ [][Next]_vars

-----------------------------------------------------------------------------
TypeOK ==
    /\ time \in Uptime..MaxTime
    /\ nextEvent \in [Clocks -> 0..Max64]
    /\ Len(order) <= Cardinality(Clocks)
    /\ \A k \in 1..Len(order) : order[k] \in Clocks
    /\ disp.i \in 0..disp.n /\ disp.n \in 0..Len(order)
    /\ disp.now \in 0..MaxTime /\ disp.start \in 0..MaxTime /\ disp.end \in 0..MaxTime
    /\ disp.next \in 0..Max64 /\ disp.target \in 0..Max64

\* The dispatcher has ticked the clock at hand and is done moving its event,
\* and no registration came in between.
Moved == disp.pc = "next" /\ disp.end # 0 /\ Clock \notin raced

\* After a tick, however late it was and however long it took, the next event
\* lies in the future and leaves at least as long a pause as the tick took, yet
\* is at most one period (or that pause) away (kraken_dispatcher.c 44-52).
NextEventIsNear ==
    Moved =>
        LET e == nextEvent[Clock]
        IN  /\ e > disp.end
            /\ e >= disp.end + Duration
            /\ e <= disp.end + Period[Clock] \/ e = disp.end + Duration

\* Missed events are skipped, not shifted: unless the pause postponed it, the
\* next event is a whole number of periods after the one that was served
\* (kraken_dispatcher.c 45-49).
PhaseIsKept ==
    Moved => \/ (nextEvent[Clock] - disp.from) % Period[Clock] = 0
             \/ nextEvent[Clock] = disp.end + Duration

\* Between two ticks of a clock the dispatcher leaves it alone for at least as
\* long as the first of them took, whatever it read, slept and served in
\* between (kraken_dispatcher.c 40, 50-52, 61-67).
TicksArePaced ==
    (disp.pc = "end" /\ last[Clock].known) =>
        disp.start >= last[Clock].end + last[Clock].duration

\* The dispatcher sleeps past no event of the clocks it walked over, except by
\* the time that went by between its last two reads of the counter
\* (kraken_dispatcher.c 54-67, kraken_cpu.c 51-74).
NoEventSlept ==
    disp.pc = "asleep" =>
        \A k \in 1..disp.n :
            order[k] \notin raced =>
                disp.target <= nextEvent[order[k]] + (disp.start - disp.now)

\* A clock a driver was registered with is due within a period, or within the
\* pause after the tick that is under way, unless the registration fell between
\* the two halves of a catch-up, which then adds the periods missed before
\* (kraken_dispatcher.c 47-48, kraken_clock.c 47).
RegisteringStartsClock ==
    \A c \in raced \ reg.torn :
        \/ disp.pc \in {"check", "start", "end", "add", "late", "missed", "catchup", "busy",
                        "pause"} /\ Clock = c
        \/ nextEvent[c] <= time + Period[c]
        \/ nextEvent[c] <= last[c].end + last[c].duration
=============================================================================
