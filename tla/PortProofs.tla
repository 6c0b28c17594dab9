----------------------------- MODULE PortProofs -----------------------------
(***************************************************************************)
(* What every port can rely on in bcm2835.c, for any threads, pins, masks  *)
(* and any interleaving of their register accesses: the pins that are not  *)
(* the port's keep their function, their output and their pull; a pin      *)
(* moves only to a level that was asked for; an update and a reinit nobody *)
(* disturbs do exactly what they are for.                                  *)
(*                                                                         *)
(* None of it is inductive.  PortInv adds what the locals of the calls     *)
(* hold: a reinit writes back whole function select registers, and clears, *)
(* sets and clocks pins from masks it has gathered.  HistoryInv ties the   *)
(* calls in progress to the history the properties speak of.  On these     *)
(* rest AskedInv (what a call has gathered was asked for while it could    *)
(* see it), UpdateInv (how far a lone update has come, pin by pin), and    *)
(* ClockInv and ReinitInv (the same for a lone reinit).                    *)
(*                                                                         *)
(* The last part is about SerialTx, which drives two pins of such a port;  *)
(* the parts before it need nothing of SerialTx.  WordsInv counts the words*)
(* and bits on their way to the wire, PinsInv says that the updates are the*)
(* ticks' own and undisturbed, so that UpdateInv tells what each leaves on *)
(* the pins, and EdgeInv what the clock pin's IO tells the next tick.      *)
(***************************************************************************)
EXTENDS SerialTx, TLAPS

Locations == {"idle", "levels", "mode", "set", "clr", "again", "store", "clr0", "set0", "clr1",
              "set1", "fselRead", "fselMode", "clrMode", "fselWrite", "clear0", "clear1", "pud",
              "gppud", "clkRead", "clkWrite", "off", "zero"}

\* The locals of a call: it has gathered pins of the port only.
CallType == [pc : Locations, k : 1..Len(IOs), mask : SUBSET PortPins, left : SUBSET Int,
             lev : SUBSET PortPins, flag : BOOLEAN, set : SUBSET PortPins,
             clr : SUBSET PortPins, fsel : [Pins -> Functions], pud : PudModes,
             clk : SUBSET PortPins]

\* An IO, without the width of its state.
IOShape(i) == /\ i = [state |-> i.state, mode |-> i.mode, pud |-> i.pud]
              /\ i.mode \in {ModeIn, ModeOut} /\ i.pud \in PudModes

Shapes == /\ io = [p \in PortPins |-> io[p]] /\ \A p \in PortPins : IOShape(io[p])
          /\ gpio \in GpioRegisters /\ gpio.gppudclk \subseteq PortPins
          /\ call \in [Threads -> CallType]

\* What a reinit has read of the foreign pins' functions is what they had at boot.
ReadsBootFsel(c) ==
    \A p \in Foreign :
        /\ c.pc = "fselRead" /\ FselBank(p) \notin c.left => c.fsel[p] = BootFsel[p]
        /\ c.pc \in {"fselMode", "clrMode", "fselWrite"} => c.fsel[p] = BootFsel[p]

PortInv == /\ Shapes
           /\ ForeignPinsUntouched
           /\ \A t \in Threads : ReadsBootFsel(call[t])

-----------------------------------------------------------------------------
\* The pins of the port are pins of the chip, and no foreign pin is one of them.
LEMMA PinFacts ==
    /\ PortPins \subseteq Pins /\ Foreign \subseteq Pins /\ Foreign \cap PortPins = {}
    /\ Len(IOs) \in Nat /\ 1 \in 1..Len(IOs)
    /\ \A k \in 1..Len(IOs) : IOs[k] \in PortPins
    /\ Pins \subseteq BcmPins
<1>1. IOs \in Seq(BcmPins) /\ IOs # <<>> /\ Foreign \subseteq BcmPins \ PortPins
  BY PortAssumption
<1>2. Len(IOs) \in Nat /\ 1 \in 1..Len(IOs) /\ \A k \in 1..Len(IOs) : IOs[k] \in BcmPins
  BY <1>1
<1>3. QED
  BY <1>1, <1>2 DEF PortPins, Pins

\* The lowest eight pins of a bank have a bit that fits in a state.
LEMMA LowPinKeepsBit ==
    ASSUME NEW p \in PortPins, p % 32 < 8
    PROVE  StateByte(p) # 0
<1>1. p \in Int /\ p >= 0
  BY PinFacts DEF BcmPins
<1>2. p % 32 \in {0, 1, 2, 3, 4, 5, 6, 7}
  BY <1>1
<1>3. 2^0 = 1 /\ 2^1 = 2 /\ 2^2 = 4 /\ 2^3 = 8 /\ 2^4 = 16 /\ 2^5 = 32 /\ 2^6 = 64 /\ 2^7 = 128
  OBVIOUS
<1>4. \A k \in {0, 1, 2, 3, 4, 5, 6, 7} : p % 32 = k => StateByte(p) = 2^k
  BY Zenon DEF StateByte
<1> HIDE DEF StateByte
<1>5. StateByte(p) \in {1, 2, 4, 8, 16, 32, 64, 128}
  BY <1>2, <1>3, <1>4
<1>6. QED
  BY <1>5

LEMMA IdleIsTyped == Idle \in CallType /\ ReadsBootFsel(Idle)
BY PinFacts DEF Idle, CallType, Locations, ReadsBootFsel, FselIn, Functions, PudModes

\* Going on with the next IO changes where a call is, and nothing else of it.
LEMMA NextIOKeepsLocals ==
    ASSUME NEW c \in CallType, NEW again \in Locations, NEW done \in Locations
    PROVE  /\ NextIO(c, again, done) \in CallType
           /\ NextIO(c, again, done).pc \in {again, done}
           /\ NextIO(c, again, done).fsel = c.fsel
<1>1. Len(IOs) \in Nat /\ 1 \in 1..Len(IOs) /\ c.k \in 1..Len(IOs)
  BY PinFacts DEF CallType
<1>2. CASE c.k < Len(IOs)
  <2>1. NextIO(c, again, done) = [c EXCEPT !.pc = again, !.k = c.k + 1] /\ c.k + 1 \in 1..Len(IOs)
    BY <1>1, <1>2 DEF NextIO
  <2>2. QED
    BY <2>1 DEF CallType
<1>3. CASE ~(c.k < Len(IOs))
  <2>1. NextIO(c, again, done) = [c EXCEPT !.pc = done, !.k = 1]
    BY <1>1, <1>3 DEF NextIO
  <2>2. QED
    BY <1>1, <2>1 DEF CallType
<1>4. QED
  BY <1>2, <1>3

\* The registers after a step: nothing of the foreign pins changed.
KeepsForeign(g) ==
    /\ g \in GpioRegisters /\ g.gppudclk \subseteq PortPins
    /\ \A p \in Foreign : /\ g.gpfsel[p] = gpio.gpfsel[p] /\ g.pull[p] = gpio.pull[p]
                          /\ p \in g.output

\* A step of a call keeps the invariant if its new locals are typed and know the
\* foreign functions, and its store to a register keeps what is not the port's.
LEMMA CallStep ==
    ASSUME PortInv, NEW t \in Threads, NEW c \in CallType, ReadsBootFsel(c),
           call' = [call EXCEPT ![t] = c], UNCHANGED io, KeepsForeign(gpio')
    PROVE  PortInv'
<1>1. Shapes'
  BY DEF PortInv, Shapes, KeepsForeign
<1>2. ForeignPinsUntouched'
  BY DEF PortInv, ForeignPinsUntouched, KeepsForeign
<1>3. ASSUME NEW u \in Threads PROVE ReadsBootFsel(call'[u])
  <2>1. CASE u = t
    BY <2>1 DEF PortInv, Shapes
  <2>2. CASE u # t
    BY <2>2 DEF PortInv, Shapes
  <2>3. QED
    BY <2>1, <2>2
<1>4. QED
  BY <1>1, <1>2, <1>3 DEF PortInv

LEMMA NothingWritten == PortInv => KeepsForeign(gpio)
BY DEF PortInv, Shapes, KeepsForeign, ForeignPinsUntouched

\* A step that only reads shared state.
LEMMA ReadStep ==
    ASSUME PortInv, NEW t \in Threads, NEW pc, NEW c \in CallType, ReadsBootFsel(c), Reads(t, pc, c)
    PROVE  PortInv'
BY CallStep, NothingWritten DEF Reads

LEMMA WriteStep ==
    ASSUME PortInv, NEW t \in Threads, NEW pc, NEW c \in CallType, ReadsBootFsel(c),
           NEW g, KeepsForeign(g), Writes(t, pc, g, c)
    PROVE  PortInv'
BY CallStep DEF Writes

\* What a call has, and the IO it is at.
LEMMA CallFacts ==
    ASSUME PortInv, NEW t \in Threads
    PROVE  /\ call[t] \in CallType /\ ReadsBootFsel(call[t])
           /\ Pin(t) \in PortPins /\ Pin(t) \in Pins /\ Pin(t) \notin Foreign
           /\ IOShape(io[Pin(t)])
<1>1. call[t] \in CallType /\ ReadsBootFsel(call[t])
  BY DEF PortInv, Shapes
<1>2. Pin(t) \in PortPins
  BY <1>1, PinFacts DEF CallType, Pin
<1>3. QED
  BY <1>1, <1>2, PinFacts DEF PortInv, Shapes

\* Output stores of pins of the port.
LEMMA OutputStores ==
    ASSUME PortInv, NEW s \in SUBSET PortPins, NEW b
    PROVE  KeepsForeign(ClearPins(InBank(s, b))) /\ KeepsForeign(SetPins(InBank(s, b)))
BY PinFacts DEF PortInv, Shapes, ForeignPinsUntouched, KeepsForeign, GpioRegisters,
                ClearPins, SetPins, InBank

\* A store to a clock register that clocks pins of the port.
LEMMA ClockStores ==
    ASSUME PortInv, NEW s \in SUBSET PortPins, NEW b
    PROVE  KeepsForeign(Clocked(b, s))
BY PinFacts DEF PortInv, Shapes, ForeignPinsUntouched, KeepsForeign, GpioRegisters, Clocked, InBank

-----------------------------------------------------------------------------
LEMMA InitEstablishesPortInv == Init => PortInv
<1> SUFFICES ASSUME Init PROVE PortInv
  OBVIOUS
<1>1. ForeignPinsUntouched
  BY PinFacts DEF Init, ForeignPinsUntouched
<1>2. io \in [PortPins -> [state : {0, 1}, mode : {ModeIn, ModeOut}, pud : {"OFF"}]]
  BY DEF Init
<1>3. \A p \in PortPins : IOShape(io[p])
  BY <1>2 DEF IOShape, PudModes
<1>4. gpio \in GpioRegisters /\ gpio.gppudclk \subseteq PortPins
  <2>1. PICK high \in {{}, PortPins} :
           gpio = [gpfsel |-> BootFsel, output |-> high \cup Foreign, gppud |-> "OFF",
                   gppudclk |-> {}, pull |-> BootPull]
    BY DEF Init
  <2>2. QED
    BY <2>1, PinFacts, PortAssumption DEF GpioRegisters, PudModes
<1>5. call \in [Threads -> CallType] /\ \A t \in Threads : ReadsBootFsel(call[t])
  BY IdleIsTyped DEF Init
<1>6. QED
  BY <1>1, <1>2, <1>3, <1>4, <1>5 DEF PortInv, Shapes

\* Setting an IO touches no register.
LEMMA SetKeepsPortInv ==
    ASSUME PortInv, NEW p \in PortPins, Set(p) \/ SetMode(p) \/ SetPud(p)
    PROVE  PortInv'
<1>1. PICK new : IOShape(new) /\ SetsIO(p, new)
  <2>1. IOShape(io[p])
    BY DEF PortInv, Shapes
  <2>2. ASSUME NEW b, SetsIO(p, [io[p] EXCEPT !.state = b]) PROVE IOShape([io[p] EXCEPT !.state = b])
    BY <2>1 DEF IOShape
  <2>3. ASSUME NEW m \in {ModeIn, ModeOut} PROVE IOShape([io[p] EXCEPT !.mode = m])
    BY <2>1 DEF IOShape
  <2>4. ASSUME NEW d \in Pulls PROVE IOShape([io[p] EXCEPT !.pud = d])
    BY <2>1, PortAssumption DEF IOShape
  <2>5. QED
    BY <2>2, <2>3, <2>4 DEF Set, SetMode, SetPud
<1>2. io' = [io EXCEPT ![p] = new] /\ UNCHANGED <<gpio, call>>
  BY <1>1 DEF SetsIO
<1>3. QED
  BY <1>1, <1>2 DEF PortInv, Shapes, ForeignPinsUntouched, ReadsBootFsel

\* A call begins with locals of its own.
LEMMA BeginKeepsPortInv ==
    ASSUME PortInv, NEW t \in Threads, CallReinit(t) \/ \E mask \in SUBSET PortPins : CallUpdate(t, mask)
    PROVE  PortInv'
<1>1. \A n \in Pins : FselBank(n) \in Int /\ FselBank(n) \in UsedFselBanks
  BY PinFacts DEF FselBank, UsedFselBanks, BcmPins
<1>2. CASE CallReinit(t)
  <2> DEFINE c == [Idle EXCEPT !.pc = "fselRead", !.mask = PortPins, !.left = UsedFselBanks]
  <2>1. c \in CallType /\ ReadsBootFsel(c)
    <3>1. UsedFselBanks \in SUBSET Int
      BY <1>1 DEF UsedFselBanks
    <3>2. "fselRead" \in Locations /\ c.pc = "fselRead" /\ c.left = UsedFselBanks
      BY DEF Locations, Idle
    <3>3. c \in CallType
      BY <3>1, <3>2, IdleIsTyped DEF CallType
    <3>4. QED
      BY <1>1, <3>2, <3>3, PinFacts DEF ReadsBootFsel
  <2>2. call' = [call EXCEPT ![t] = c] /\ UNCHANGED <<io, gpio>>
    BY <1>2 DEF CallReinit, Begin
  <2>3. QED
    BY <2>1, <2>2, CallStep, NothingWritten
<1>3. ASSUME NEW mask \in SUBSET PortPins, CallUpdate(t, mask) PROVE PortInv'
  <2> DEFINE c == [Idle EXCEPT !.pc = "levels", !.mask = mask, !.left = Banks]
  <2>1. c \in CallType /\ ReadsBootFsel(c)
    <3>1. "levels" \in Locations /\ c.pc = "levels" /\ Banks \in SUBSET Int
      BY DEF Locations, Idle, Banks
    <3>2. c \in CallType
      BY <3>1, IdleIsTyped DEF CallType
    <3>3. QED
      BY <3>1, <3>2 DEF ReadsBootFsel
  <2>2. call' = [call EXCEPT ![t] = c] /\ UNCHANGED <<io, gpio>>
    BY <1>3 DEF CallUpdate, Begin
  <2>3. QED
    BY <2>1, <2>2, CallStep, NothingWritten
<1>4. QED
  BY <1>2, <1>3

-----------------------------------------------------------------------------
\* The steps of an update.
LEMMA UpdateKeepsPortInv ==
    ASSUME PortInv, NEW t \in Threads, UpdateStep(t)
    PROVE  PortInv'
<1> USE DEF ReadsBootFsel
<1>0. call[t] \in CallType /\ Pin(t) \in PortPins
  BY CallFacts
<1>1. CASE ReadLevels(t)
  <2>1. PICK b \in call[t].left :
           Reads(t, "levels",
                 [call[t] EXCEPT !.lev = @ \cup {p \in PortPins : Bank(p) = b /\ LevelIsHigh(p)},
                                 !.left = call[t].left \ {b},
                                 !.pc = IF call[t].left \ {b} = {} THEN "mode" ELSE "levels"])
    BY <1>1 DEF ReadLevels
  <2> DEFINE seen == {p \in PortPins : Bank(p) = b /\ LevelIsHigh(p)}
             c == [call[t] EXCEPT !.lev = @ \cup seen, !.left = call[t].left \ {b},
                                  !.pc = IF call[t].left \ {b} = {} THEN "mode" ELSE "levels"]
  <2>2. seen \in SUBSET PortPins
    OBVIOUS
  <2> HIDE DEF seen
  <2>3. c \in CallType /\ c.pc \in {"mode", "levels"}
    BY <1>0, <2>2 DEF CallType, Locations
  <2>4. QED
    BY <2>1, <2>3, ReadStep DEF seen
<1>2. CASE LoadMode(t)
  <2> DEFINE flag == io[Pin(t)].mode = ModeOut /\ Pin(t) \in call[t].mask
             c == [call[t] EXCEPT !.pc = "set", !.flag = flag]
  <2>1. flag \in BOOLEAN
    OBVIOUS
  <2> HIDE DEF flag
  <2>2. c \in CallType /\ c.pc = "set"
    BY <1>0, <2>1 DEF CallType, Locations
  <2>3. QED
    BY <1>2, <2>2, ReadStep DEF LoadMode, flag
<1>3. CASE LoadForSet(t)
  <2> DEFINE s == Gathered(call[t].set, t, 1)
             c == [call[t] EXCEPT !.pc = "clr", !.set = s]
  <2>1. s \in SUBSET PortPins
    BY <1>0 DEF Gathered, CallType
  <2> HIDE DEF s
  <2>2. c \in CallType /\ c.pc = "clr"
    BY <1>0, <2>1 DEF CallType, Locations
  <2>3. QED
    BY <1>3, <2>2, ReadStep DEF LoadForSet, s
<1>4. CASE LoadForClear(t)
  <2> DEFINE s == Gathered(call[t].clr, t, 0)
             c == [call[t] EXCEPT !.pc = "again", !.clr = s]
  <2>1. s \in SUBSET PortPins
    BY <1>0 DEF Gathered, CallType
  <2> HIDE DEF s
  <2>2. c \in CallType /\ c.pc = "again"
    BY <1>0, <2>1 DEF CallType, Locations
  <2>3. QED
    BY <1>4, <2>2, ReadStep DEF LoadForClear, s
<1>5. CASE LoadModeAgain(t)
  <2> DEFINE flag == /\ io[Pin(t)].mode = ModeIn
                     /\ Pin(t) \in call[t].mask \cap call[t].lev
             c == [call[t] EXCEPT !.pc = "store", !.flag = flag]
  <2>1. flag \in BOOLEAN
    OBVIOUS
  <2> HIDE DEF flag
  <2>2. c \in CallType /\ c.pc = "store"
    BY <1>0, <2>1 DEF CallType, Locations
  <2>3. QED
    BY <1>5, <2>2, ReadStep DEF LoadModeAgain, flag
<1>6. CASE StoreState(t)
  <2> DEFINE c == NextIO(call[t], "mode", "clr0")
  <2>1. c \in CallType /\ c.pc \in {"mode", "clr0"}
    BY <1>0, NextIOKeepsLocals DEF Locations
  <2>2. ReadsBootFsel(c)
    BY <2>1
  <2> HIDE DEF c
  <2>3. PICK state : io' = [io EXCEPT ![Pin(t)].state = state]
    BY <1>6 DEF StoreState
  <2>4. call' = [call EXCEPT ![t] = c] /\ UNCHANGED gpio
    BY <1>6 DEF StoreState, c
  <2>5. io' = [p \in PortPins |-> io'[p]] /\ \A p \in PortPins : IOShape(io'[p])
    BY <2>3, <1>0 DEF PortInv, Shapes, IOShape
  <2>6. Shapes'
    BY <2>1, <2>4, <2>5 DEF PortInv, Shapes
  <2>7. ForeignPinsUntouched'
    BY <2>4 DEF PortInv, ForeignPinsUntouched
  <2>8. \A u \in Threads : ReadsBootFsel(call'[u])
    BY <2>2, <2>4 DEF PortInv, Shapes
  <2>9. QED
    BY <2>6, <2>7, <2>8 DEF PortInv
<1>7. CASE Drive(t)
  <2>1. /\ call[t].clr \in SUBSET PortPins /\ call[t].set \in SUBSET PortPins
        /\ \A pc \in {"set0", "clr1", "set1"} :
              [call[t] EXCEPT !.pc = pc] \in CallType /\ ReadsBootFsel([call[t] EXCEPT !.pc = pc])
    BY <1>0 DEF CallType, Locations
  <2>2. QED
    BY <1>7, <2>1, OutputStores, WriteStep, IdleIsTyped DEF Drive
<1>8. QED
  BY <1>1, <1>2, <1>3, <1>4, <1>5, <1>6, <1>7 DEF UpdateStep

\* The steps of a reinit.
LEMMA ReinitKeepsPortInv ==
    ASSUME PortInv, NEW t \in Threads, ReinitStep(t)
    PROVE  PortInv'
<1>0. /\ call[t] \in CallType /\ ReadsBootFsel(call[t])
      /\ Pin(t) \in PortPins /\ IOShape(io[Pin(t)])
  BY CallFacts
<1>1. CASE ReadFsel(t)
  <2>1. PICK b \in call[t].left :
           LET left == call[t].left \ {b}
               read == [p \in Pins |-> IF FselBank(p) = b THEN gpio.gpfsel[p] ELSE call[t].fsel[p]]
           IN  Reads(t, "fselRead",
                  IF left = {} THEN [call[t] EXCEPT !.fsel = read, !.pc = "fselMode",
                                                    !.left = UsedFselBanks]
                               ELSE [call[t] EXCEPT !.fsel = read, !.left = left])
    BY <1>1 DEF ReadFsel
  <2> DEFINE left == call[t].left \ {b}
             read == [p \in Pins |-> IF FselBank(p) = b THEN gpio.gpfsel[p] ELSE call[t].fsel[p]]
             last == [call[t] EXCEPT !.fsel = read, !.pc = "fselMode", !.left = UsedFselBanks]
             more == [call[t] EXCEPT !.fsel = read, !.left = left]
  <2>2. call[t].pc = "fselRead"
    BY <2>1 DEF Reads, At
  <2>3. \A p \in Foreign : FselBank(p) \notin left => read[p] = BootFsel[p]
    BY <1>0, <2>2, PinFacts DEF PortInv, ForeignPinsUntouched, ReadsBootFsel
  <2>4. read \in [Pins -> Functions] /\ left \in SUBSET Int /\ UsedFselBanks \in SUBSET Int
    <3>1. \A n \in Pins : FselBank(n) \in Int
      BY PinFacts DEF FselBank, BcmPins
    <3>2. QED
      BY <1>0, <3>1 DEF CallType, PortInv, Shapes, GpioRegisters, UsedFselBanks
  <2>5. CASE left = {}
    <3>1. last \in CallType /\ last.pc = "fselMode" /\ last.fsel = read
      <4> HIDE DEF left, read
      <4>1. QED
        BY <1>0, <2>4 DEF CallType, Locations
    <3>2. ReadsBootFsel(last)
      <4> HIDE DEF read, last
      <4>1. QED
        BY <2>3, <2>5, <3>1 DEF ReadsBootFsel
    <3>3. QED
      BY <2>1, <2>5, <3>1, <3>2, ReadStep
  <2>6. CASE left # {}
    <3>1. more \in CallType /\ more.pc = "fselRead" /\ more.fsel = read /\ more.left = left
      <4> HIDE DEF left, read
      <4>1. QED
        BY <1>0, <2>2, <2>4 DEF CallType, Locations
    <3>2. ReadsBootFsel(more)
      <4> HIDE DEF read, more
      <4>1. QED
        BY <2>3, <3>1 DEF ReadsBootFsel
    <3>3. QED
      BY <2>1, <2>6, <3>1, <3>2, ReadStep
  <2>7. QED
    BY <2>5, <2>6
<1>2. CASE LoadModeForFsel(t)
  <2> DEFINE c == [call[t] EXCEPT !.pc = "clrMode", !.fsel[Pin(t)] = io[Pin(t)].mode]
  <2>1. call[t].pc = "fselMode"
    BY <1>2 DEF LoadModeForFsel, Reads, At
  <2>2. io[Pin(t)].mode \in Functions
    BY <1>0 DEF IOShape, ModeIn, ModeOut, Functions
  <2>3. c \in CallType /\ c.pc = "clrMode"
    BY <1>0, <2>2 DEF CallType, Locations
  <2>4. \A p \in Foreign : c.fsel[p] = call[t].fsel[p]
    BY <1>0, PinFacts DEF CallType
  <2>5. ReadsBootFsel(c)
    BY <1>0, <2>1, <2>3, <2>4 DEF ReadsBootFsel
  <2>6. QED
    BY <1>2, <2>3, <2>5, ReadStep DEF LoadModeForFsel
<1>3. CASE LoadModeForClear(t)
  <2> DEFINE s == IF io[Pin(t)].mode = ModeOut THEN call[t].clr \cup {Pin(t)} ELSE call[t].clr
             d == [call[t] EXCEPT !.clr = s]
             c == NextIO(d, "fselMode", "fselWrite")
  <2>1. call[t].pc = "clrMode"
    BY <1>3 DEF LoadModeForClear, Reads, At
  <2>2. s \in SUBSET PortPins
    BY <1>0 DEF CallType
  <2>3. d \in CallType /\ d.fsel = call[t].fsel
    <3> HIDE DEF s
    <3>1. QED
      BY <1>0, <2>2 DEF CallType
  <2>4. c \in CallType /\ c.pc \in {"fselMode", "fselWrite"} /\ c.fsel = call[t].fsel
    <3> HIDE DEF d
    <3>1. QED
      BY <2>3, NextIOKeepsLocals DEF Locations
  <2>5. ReadsBootFsel(c)
    <3> HIDE DEF c
    <3>1. QED
      BY <1>0, <2>1, <2>4 DEF ReadsBootFsel
  <2>6. QED
    BY <1>3, <2>4, <2>5, ReadStep DEF LoadModeForClear
<1>4. CASE WriteFsel(t)
  <2>1. PICK b \in call[t].left :
           Writes(t, "fselWrite",
                  [gpio EXCEPT !.gpfsel = [p \in Pins |-> IF FselBank(p) = b
                                              THEN call[t].fsel[p] ELSE @[p]]],
                  [call[t] EXCEPT !.left = call[t].left \ {b},
                                  !.pc = IF call[t].left \ {b} = {} THEN "clear0" ELSE "fselWrite"])
    BY <1>4 DEF WriteFsel
  <2> DEFINE fsel == [p \in Pins |-> IF FselBank(p) = b THEN call[t].fsel[p] ELSE gpio.gpfsel[p]]
             g == [gpio EXCEPT !.gpfsel = fsel]
             left == call[t].left \ {b}
             c == [call[t] EXCEPT !.left = left, !.pc = IF left = {} THEN "clear0" ELSE "fselWrite"]
  <2>2. call[t].pc = "fselWrite"
    BY <2>1 DEF Writes, At
  <2>3. \A p \in Foreign : fsel[p] = gpio.gpfsel[p]
    BY <1>0, <2>2, PinFacts DEF ReadsBootFsel, PortInv, ForeignPinsUntouched
  <2>4. fsel \in [Pins -> Functions]
    BY <1>0 DEF CallType, PortInv, Shapes, GpioRegisters
  <2>5. KeepsForeign(g)
    <3> HIDE DEF fsel
    <3>1. QED
      BY <2>3, <2>4 DEF KeepsForeign, PortInv, Shapes, ForeignPinsUntouched, GpioRegisters
  <2>6. c \in CallType /\ c.fsel = call[t].fsel /\ c.pc \in {"clear0", "fselWrite"}
    BY <1>0 DEF CallType, Locations
  <2>7. ReadsBootFsel(c)
    <3> HIDE DEF c
    <3>1. QED
      BY <1>0, <2>2, <2>6 DEF ReadsBootFsel
  <2>8. QED
    BY <2>1, <2>5, <2>6, <2>7, WriteStep
<1>5. ASSUME NEW pc \in {"clear1", "pud", "clkRead", "off", "zero"}
      PROVE  [call[t] EXCEPT !.pc = pc] \in CallType /\ ReadsBootFsel([call[t] EXCEPT !.pc = pc])
  BY <1>0 DEF CallType, Locations, ReadsBootFsel
<1>6. call[t].clr \in SUBSET PortPins /\ call[t].clk \in SUBSET PortPins /\ call[t].pud \in PudModes
  BY <1>0 DEF CallType
<1>7. \A d \in PudModes : KeepsForeign([gpio EXCEPT !.gppud = d])
  BY DEF KeepsForeign, PortInv, Shapes, ForeignPinsUntouched, GpioRegisters
<1>8. CASE ClearOutputs(t)
  BY <1>5, <1>6, <1>8, OutputStores, WriteStep DEF ClearOutputs
<1>9. CASE LoadPud(t)
  <2> DEFINE c == [call[t] EXCEPT !.pc = "gppud", !.pud = io[Pin(t)].pud]
  <2>1. c \in CallType /\ c.pc = "gppud"
    BY <1>0 DEF CallType, Locations, IOShape
  <2>2. QED
    BY <1>9, <2>1, ReadStep DEF LoadPud, ReadsBootFsel
<1>10. CASE WriteGppud(t)
  BY <1>5, <1>6, <1>7, <1>10, WriteStep DEF WriteGppud
<1>11. CASE ReadClock(t)
  <2> DEFINE s == InBank(gpio.gppudclk, Bank(Pin(t))) \cup {Pin(t)}
             c == [call[t] EXCEPT !.pc = "clkWrite", !.clk = s]
  <2>1. s \in SUBSET PortPins
    BY <1>0 DEF InBank, PortInv, Shapes
  <2> HIDE DEF s
  <2>2. c \in CallType /\ c.pc = "clkWrite"
    BY <1>0, <2>1 DEF CallType, Locations
  <2>3. QED
    BY <1>11, <2>2, ReadStep DEF ReadClock, ReadsBootFsel, s
<1>12. CASE WriteClock(t)
  BY <1>5, <1>6, <1>12, ClockStores, WriteStep DEF WriteClock
<1>13. CASE WriteOff(t)
  BY <1>5, <1>7, <1>13, WriteStep DEF WriteOff, PudModes
<1>14. CASE WriteZero(t)
  <2> DEFINE c == IF call[t].k < Len(IOs) THEN NextIO(call[t], "pud", "idle") ELSE Idle
  <2>1. NextIO(call[t], "pud", "idle") \in CallType /\ ReadsBootFsel(NextIO(call[t], "pud", "idle"))
    <3>1. "pud" \in Locations /\ "idle" \in Locations
      BY DEF Locations
    <3>2. /\ NextIO(call[t], "pud", "idle") \in CallType
          /\ NextIO(call[t], "pud", "idle").pc \in {"pud", "idle"}
      BY <1>0, <3>1, NextIOKeepsLocals
    <3>3. QED
      BY <3>2 DEF ReadsBootFsel
  <2>2. c \in CallType /\ ReadsBootFsel(c)
    BY <2>1, IdleIsTyped
  <2>3. KeepsForeign(Clocked(Bank(Pin(t)), {}))
    BY ClockStores
  <2>4. QED
    BY <1>14, <2>2, <2>3, WriteStep DEF WriteZero
<1>15. QED
  BY <1>1, <1>2, <1>3, <1>4, <1>8, <1>9, <1>10, <1>11, <1>12, <1>13, <1>14 DEF ReinitStep

-----------------------------------------------------------------------------
LEMMA NextKeepsPortInv == PortInv /\ [Next]_vars => PortInv'
<1> SUFFICES ASSUME PortInv, [Next]_vars PROVE PortInv'
  OBVIOUS
<1>1. CASE UNCHANGED vars
  BY <1>1 DEF vars, PortInv, Shapes, ForeignPinsUntouched, ReadsBootFsel
<1>2. ASSUME NEW p \in PortPins, Set(p) \/ SetMode(p) \/ SetPud(p) PROVE PortInv'
  BY <1>2, SetKeepsPortInv
<1>3. ASSUME NEW p \in Driven, WireChanges(p) PROVE PortInv'
  BY <1>3 DEF WireChanges, PortInv, Shapes, ForeignPinsUntouched, ReadsBootFsel
<1>4. ASSUME NEW t \in Threads,
             CallReinit(t) \/ CallUpdateAll(t) \/ \E mask \in Masks : CallUpdate(t, mask)
      PROVE  PortInv'
  BY <1>4, BeginKeepsPortInv, PortAssumption DEF CallUpdateAll
<1>5. ASSUME NEW t \in Threads, UpdateStep(t) PROVE PortInv'
  BY <1>5, UpdateKeepsPortInv
<1>6. ASSUME NEW t \in Threads, ReinitStep(t) PROVE PortInv'
  BY <1>6, ReinitKeepsPortInv
<1>7. QED
  BY <1>1, <1>2, <1>3, <1>4, <1>5, <1>6 DEF Next

\* Whatever threads update and reinitialise a port, in whatever order their
\* accesses to the registers fall, no pin outside the port changes its function,
\* its output or its pull (bcm2835.c 27-62, 64-136).
THEOREM PortForeignUntouched == Spec => []ForeignPinsUntouched
<1>1. PortInv /\ [Next]_vars => PortInv'
  BY NextKeepsPortInv
<1>2. PortInv => ForeignPinsUntouched
  BY DEF PortInv
<1>3. QED
  BY <1>1, <1>2, InitEstablishesPortInv, PTL DEF Spec

-----------------------------------------------------------------------------
(* The history: which calls are in progress, and what they can have seen.  *)

Reiniting == {"fselRead", "fselMode", "clrMode", "fselWrite", "clear0", "clear1", "pud", "gppud",
              "clkRead", "clkWrite", "off", "zero"}

EpochType == [n : Nat, quiet : BOOLEAN, reinit : BOOLEAN, mask : SUBSET PortPins,
              before : SUBSET Pins, asked : [PortPins -> SUBSET Int], drivable : SUBSET PortPins]

\* One call since no call was in progress, and nothing was set and no wire moved
\* since it began.
Alone == epoch.n = 1 /\ epoch.quiet

\* What the history knows of a call in progress; a lone call is all it tells of.
InHistory(c) ==
    /\ epoch.n > 0 /\ c.mask \subseteq epoch.mask
    /\ c.pc \in Reiniting => epoch.reinit /\ c.mask = PortPins
    /\ Alone => c.mask = epoch.mask /\ (epoch.reinit => c.pc \in Reiniting)

HistoryInv ==
    /\ epoch \in EpochType
    /\ \A t \in Threads : call[t].pc # "idle" => InHistory(call[t])
    /\ \A t, u \in Threads : t # u /\ call[t].pc # "idle" /\ call[u].pc # "idle" => epoch.n > 1
    /\ \A p \in epoch.mask : io[p].mode = ModeOut => p \in epoch.drivable
    /\ Alone => \A p \in epoch.drivable : p \in epoch.mask /\ io[p].mode = ModeOut
    /\ \A p \in PortPins : io[p].state \in Int

\* A pin's bit as it is kept in io->state.
LEMMA StateBytes ==
    ASSUME NEW p \in PortPins
    PROVE  /\ StateByte(p) \in Int
           /\ p % 32 # 0 => Level(StateByte(p)) = 0
<1>1. p \in Int /\ p >= 0 /\ p % 32 \in 0..31
  BY PinFacts DEF BcmPins
<1>2. 2^0 = 1 /\ 2^1 = 2 /\ 2^2 = 4 /\ 2^3 = 8 /\ 2^4 = 16 /\ 2^5 = 32 /\ 2^6 = 64 /\ 2^7 = 128
  OBVIOUS
<1>3. CASE p % 32 < 8
  <2>1. StateByte(p) = 2^(p % 32) /\ p % 32 \in {0, 1, 2, 3, 4, 5, 6, 7}
    BY <1>1, <1>3 DEF StateByte
  <2>2. \A k \in {0, 1, 2, 3, 4, 5, 6, 7} : p % 32 = k => StateByte(p) = 2^k
    BY <2>1, Zenon
  <2> HIDE DEF StateByte
  <2>3. /\ p % 32 = 0 => StateByte(p) = 1
        /\ p % 32 = 1 => StateByte(p) = 2
        /\ p % 32 = 2 => StateByte(p) = 4
        /\ p % 32 = 3 => StateByte(p) = 8
        /\ p % 32 = 4 => StateByte(p) = 16
        /\ p % 32 = 5 => StateByte(p) = 32
        /\ p % 32 = 6 => StateByte(p) = 64
        /\ p % 32 = 7 => StateByte(p) = 128
    BY <1>2, <2>2
  <2>4. /\ StateByte(p) \in {1, 2, 4, 8, 16, 32, 64, 128}
        /\ p % 32 # 0 => StateByte(p) \in {2, 4, 8, 16, 32, 64, 128}
    BY <2>1, <2>3
  <2>5. QED
    BY <2>4 DEF Level
<1>4. CASE ~(p % 32 < 8)
  BY <1>4 DEF StateByte, Level
<1>5. QED
  BY <1>3, <1>4

LEMMA StatesHaveALevel == HistoryInv => \A p \in PortPins : Level(io[p].state) \in {0, 1}
BY DEF HistoryInv, Level

Begins(t, mask, pc, left) ==
    Begin(t, mask, pc = "fselRead", [Idle EXCEPT !.pc = pc, !.mask = mask, !.left = left])

\* What it leaves: the first call starts the history anew, another adds to it.
Begun(t, mask, pc, left) ==
    /\ call[t].pc = "idle" /\ UNCHANGED <<io, gpio, wires>>
    /\ call'[t].pc = pc /\ call'[t].mask = mask /\ call'[t].left = left /\ call'[t].k = 1
    /\ call'[t].set = {} /\ call'[t].clr = {} /\ call'[t].lev = {} /\ ~call'[t].flag
    /\ \A u \in Threads : u # t => call'[u] = call[u]
    /\ epoch' \in EpochType
    /\ \A p \in PortPins : Level(io[p].state) \in epoch'.asked[p]
    /\ AllIdle => /\ epoch'.n = 1 /\ epoch'.quiet
                  /\ epoch'.reinit <=> pc = "fselRead"
                  /\ epoch'.mask = mask /\ epoch'.before = gpio.output
                  /\ \A p \in PortPins : epoch'.asked[p] = {Level(io[p].state)}
                  /\ epoch'.drivable = {p \in mask : io[p].mode = ModeOut}
    /\ ~AllIdle => /\ epoch.n > 0 /\ epoch'.n > 1
                   /\ epoch.reinit \/ pc = "fselRead" => epoch'.reinit
                   /\ epoch'.mask = epoch.mask \cup mask /\ epoch'.before = epoch.before
                   /\ \A p \in PortPins : epoch.asked[p] \subseteq epoch'.asked[p]
                   /\ epoch'.drivable =
                         epoch.drivable \cup {p \in mask : io[p].mode = ModeOut}

LEMMA BeginFacts ==
    ASSUME PortInv, HistoryInv, NEW t \in Threads, NEW mask \in SUBSET PortPins,
           NEW pc, NEW left, Begins(t, mask, pc, left)
    PROVE  Begun(t, mask, pc, left)
<1> DEFINE c == [Idle EXCEPT !.pc = pc, !.mask = mask, !.left = left]
           old == IF AllIdle THEN [NoEpoch EXCEPT !.quiet = TRUE, !.before = gpio.output] ELSE epoch
           asked == [p \in PortPins |-> old.asked[p] \cup {Level(io[p].state)}]
           driven == old.drivable \cup {p \in mask : io[p].mode = ModeOut}
           reinit == pc = "fselRead"
<1>1. /\ c.pc = pc /\ c.mask = mask /\ c.left = left /\ c.k = 1
      /\ c.set = {} /\ c.clr = {} /\ c.lev = {} /\ c.flag = FALSE
  BY DEF Idle
<1> HIDE DEF c
<1>2. /\ call[t].pc = "idle" /\ call' = [call EXCEPT ![t] = c] /\ UNCHANGED <<io, gpio, wires>>
      /\ epoch' = [old EXCEPT !.n = @ + 1, !.reinit = @ \/ reinit, !.mask = @ \cup mask,
                              !.asked = [p \in PortPins |-> @[p] \cup {Level(io[p].state)}],
                              !.drivable = @ \cup {p \in mask : io[p].mode = ModeOut}]
  BY DEF Begins, Begin, At, c
<1>3. call'[t] = c /\ \A u \in Threads : u # t => call'[u] = call[u]
  BY <1>2 DEF PortInv, Shapes
<1>4. old \in EpochType
  <2>1. gpio.output \in SUBSET Pins
    BY DEF PortInv, Shapes, GpioRegisters
  <2>2. [NoEpoch EXCEPT !.quiet = TRUE, !.before = gpio.output] \in EpochType
    BY <2>1 DEF NoEpoch, EpochType
  <2>3. QED
    BY <2>2 DEF HistoryInv
<1>5. AllIdle => /\ old.n = 0 /\ old.quiet = TRUE /\ old.reinit = FALSE /\ old.mask = {}
                 /\ old.before = gpio.output /\ old.drivable = {}
                 /\ \A p \in PortPins : old.asked[p] = {}
  BY DEF NoEpoch
<1>6. ~AllIdle => old = epoch /\ old.n > 0
  BY DEF AllIdle, HistoryInv, InHistory
<1>0. reinit \in BOOLEAN
  OBVIOUS
<1> HIDE DEF old, reinit
<1>7. /\ epoch'.n = old.n + 1 /\ epoch'.reinit = (old.reinit \/ reinit)
      /\ epoch'.mask = old.mask \cup mask /\ epoch'.before = old.before
      /\ epoch'.asked = asked /\ epoch'.drivable = driven /\ epoch'.quiet = old.quiet
      /\ epoch' = [n |-> old.n + 1, quiet |-> old.quiet, reinit |-> old.reinit \/ reinit,
                   mask |-> old.mask \cup mask, before |-> old.before, asked |-> asked,
                   drivable |-> driven]
  BY <1>2, <1>4 DEF EpochType
<1>8. /\ asked \in [PortPins -> SUBSET Int] /\ driven \in SUBSET PortPins
      /\ \A p \in PortPins : asked[p] = old.asked[p] \cup {Level(io[p].state)}
  BY <1>4, StatesHaveALevel DEF EpochType
<1> HIDE DEF asked
<1>9. epoch' \in EpochType /\ old.n \in Nat
  <2>1. old.n + 1 \in Nat /\ old.n \in Nat /\ (old.reinit \/ reinit) \in BOOLEAN
    BY <1>0, <1>4 DEF EpochType
  <2> HIDE DEF driven
  <2>2. QED
    BY <1>4, <1>7, <1>8, <2>1 DEF EpochType
<1>10. epoch'.reinit <=> old.reinit \/ reinit
  BY <1>7, Zenon
<1>11. CASE AllIdle
  <2>1. epoch'.n = 1 /\ epoch'.quiet /\ epoch'.mask = mask /\ epoch'.before = gpio.output
        /\ epoch'.drivable = {p \in mask : io[p].mode = ModeOut}
    BY <1>5, <1>7, <1>11
  <2>2. \A p \in PortPins : epoch'.asked[p] = {Level(io[p].state)}
    BY <1>5, <1>7, <1>8, <1>11
  <2>3. epoch'.reinit <=> reinit
    BY <1>5, <1>10, <1>11
  <2>4. QED
    BY <1>1, <1>2, <1>3, <1>9, <1>11, <2>1, <2>2, <2>3 DEF reinit, Begun
<1>12. CASE ~AllIdle
  <2>1. epoch'.n > 1 /\ epoch.n > 0 /\ epoch'.mask = epoch.mask \cup mask
        /\ epoch'.before = epoch.before
        /\ epoch'.drivable = epoch.drivable \cup {p \in mask : io[p].mode = ModeOut}
    BY <1>6, <1>7, <1>9, <1>12
  <2>2. \A p \in PortPins : /\ epoch.asked[p] \subseteq epoch'.asked[p]
                            /\ Level(io[p].state) \in epoch'.asked[p]
    BY <1>6, <1>7, <1>8, <1>12
  <2>3. epoch.reinit \/ reinit => epoch'.reinit
    BY <1>6, <1>10, <1>12
  <2>4. QED
    BY <1>1, <1>2, <1>3, <1>9, <1>12, <2>1, <2>2, <2>3 DEF reinit, Begun
<1>13. QED
  BY <1>11, <1>12

\* A set function or a change of a wire: nobody is alone any more, and the level
\* an IO is set to is asked for.
LEMMA DisturbFacts ==
    ASSUME PortInv, HistoryInv, NEW p,
           \/ p \in PortPins /\ (Set(p) \/ SetMode(p) \/ SetPud(p))
           \/ p \in Driven /\ WireChanges(p)
    PROVE  /\ UNCHANGED <<gpio, call>>
           /\ epoch' \in EpochType /\ ~epoch'.quiet
           /\ epoch'.n = epoch.n /\ epoch'.reinit = epoch.reinit
           /\ epoch'.mask = epoch.mask /\ epoch'.before = epoch.before
           /\ epoch.drivable \subseteq epoch'.drivable
           /\ \A q \in PortPins :
                 /\ epoch.asked[q] \subseteq epoch'.asked[q]
                 /\ io'[q] = io[q] \/ Level(io'[q].state) \in epoch'.asked[q]
                 /\ io'[q].state \in Int
                 /\ q \in epoch.mask /\ io'[q].mode = ModeOut => q \in epoch'.drivable
<1>0. /\ epoch \in EpochType /\ epoch.mask \subseteq PortPins
      /\ \A q \in epoch.mask : io[q].mode = ModeOut => q \in epoch.drivable
      /\ \A q \in PortPins : IOShape(io[q]) /\ io[q].state \in Int /\ Level(io[q].state) \in {0, 1}
  BY StatesHaveALevel DEF HistoryInv, EpochType, PortInv, Shapes
<1>1. CASE p \in PortPins /\ (Set(p) \/ SetMode(p) \/ SetPud(p))
  <2>0. /\ io[p].state \in Int
        /\ io[p] = [state |-> io[p].state, mode |-> io[p].mode, pud |-> io[p].pud]
    BY <1>0, <1>1 DEF IOShape
  <2>1. PICK new : new.state \in Int /\ SetsIO(p, new)
    <3>1. ASSUME NEW b \in {0, 1}, SetsIO(p, [io[p] EXCEPT !.state = b])
          PROVE  \E new : new.state \in Int /\ SetsIO(p, new)
      <4> DEFINE new == [io[p] EXCEPT !.state = b]
      <4>1. new.state \in Int /\ SetsIO(p, new)
        BY <2>0, <3>1
      <4> HIDE DEF new
      <4>2. QED
        BY <4>1
    <3>2. ASSUME NEW m, SetsIO(p, [io[p] EXCEPT !.mode = m])
          PROVE  \E new : new.state \in Int /\ SetsIO(p, new)
      <4> DEFINE new == [io[p] EXCEPT !.mode = m]
      <4>1. new.state \in Int /\ SetsIO(p, new)
        BY <2>0, <3>2
      <4> HIDE DEF new
      <4>2. QED
        BY <4>1
    <3>3. ASSUME NEW d, SetsIO(p, [io[p] EXCEPT !.pud = d])
          PROVE  \E new : new.state \in Int /\ SetsIO(p, new)
      <4> DEFINE new == [io[p] EXCEPT !.pud = d]
      <4>1. new.state \in Int /\ SetsIO(p, new)
        BY <2>0, <3>3
      <4> HIDE DEF new
      <4>2. QED
        BY <4>1
    <3>4. CASE Set(p)
      <4>1. PICK b \in {0, 1} : SetsIO(p, [io[p] EXCEPT !.state = b])
        BY <3>4 DEF Set
      <4>2. QED
        BY <3>1, <4>1
    <3>5. CASE SetMode(p)
      <4>1. PICK m \in {ModeIn, ModeOut} : SetsIO(p, [io[p] EXCEPT !.mode = m])
        BY <3>5 DEF SetMode
      <4>2. QED
        BY <3>2, <4>1
    <3>6. CASE SetPud(p)
      <4>1. PICK d \in Pulls : SetsIO(p, [io[p] EXCEPT !.pud = d])
        BY <3>6 DEF SetPud
      <4>2. QED
        BY <3>3, <4>1
    <3>7. QED
      BY <1>1, <3>4, <3>5, <3>6
  <2> DEFINE driven == IF new.mode = ModeOut THEN epoch.drivable \cup (epoch.mask \cap {p})
                                             ELSE epoch.drivable
             asked == [epoch.asked EXCEPT ![p] = @ \cup {Level(new.state)}]
  <2>2. io' = [io EXCEPT ![p] = new] /\ UNCHANGED <<gpio, wires, call>>
        /\ epoch' = [epoch EXCEPT !.quiet = FALSE, !.asked[p] = @ \cup {Level(new.state)},
                                  !.drivable = IF new.mode = ModeOut
                                                  THEN @ \cup (epoch.mask \cap {p}) ELSE @]
    BY <2>1 DEF SetsIO
  <2>3. /\ epoch'.n = epoch.n /\ epoch'.reinit = epoch.reinit /\ epoch'.mask = epoch.mask
        /\ epoch'.before = epoch.before /\ epoch'.quiet = FALSE
        /\ epoch'.asked = asked /\ epoch'.drivable = driven
        /\ epoch' = [n |-> epoch.n, quiet |-> FALSE, reinit |-> epoch.reinit, mask |-> epoch.mask,
                     before |-> epoch.before, asked |-> asked, drivable |-> driven]
    BY <1>0, <2>2 DEF EpochType
  <2>4. Level(new.state) \in Int
    BY <2>1 DEF Level
  <2>5. /\ asked \in [PortPins -> SUBSET Int] /\ driven \in SUBSET PortPins
        /\ \A q \in PortPins : epoch.asked[q] \subseteq asked[q]
        /\ Level(new.state) \in asked[p]
        /\ epoch.drivable \subseteq driven
        /\ new.mode = ModeOut /\ p \in epoch.mask => p \in driven
    BY <1>0, <1>1, <2>4 DEF EpochType
  <2> HIDE DEF asked, driven
  <2>6. io'[p] = new /\ \A q \in PortPins : q # p => io'[q] = io[q]
    BY <1>1, <2>2 DEF PortInv, Shapes
  <2>7. epoch' \in EpochType
    BY <1>0, <2>3, <2>5 DEF EpochType
  <2>8. ASSUME NEW q \in PortPins
        PROVE  /\ epoch.asked[q] \subseteq epoch'.asked[q]
               /\ io'[q] = io[q] \/ Level(io'[q].state) \in epoch'.asked[q]
               /\ io'[q].state \in Int
               /\ q \in epoch.mask /\ io'[q].mode = ModeOut => q \in epoch'.drivable
    <3>1. CASE q = p
      BY <2>1, <2>3, <2>5, <2>6, <3>1
    <3>2. CASE q # p
      BY <1>0, <2>3, <2>5, <2>6, <3>2
    <3>3. QED
      BY <3>1, <3>2
  <2>9. QED
    BY <2>2, <2>3, <2>5, <2>7, <2>8
<1>2. CASE p \in Driven /\ WireChanges(p)
  <2>1. epoch' = [epoch EXCEPT !.quiet = FALSE] /\ UNCHANGED <<io, gpio, call>>
    BY <1>2 DEF WireChanges
  <2>2. /\ epoch'.n = epoch.n /\ epoch'.reinit = epoch.reinit /\ epoch'.mask = epoch.mask
        /\ epoch'.before = epoch.before /\ epoch'.asked = epoch.asked
        /\ epoch'.drivable = epoch.drivable /\ ~epoch'.quiet /\ epoch' \in EpochType
    BY <1>0, <2>1 DEF EpochType
  <2>3. QED
    BY <1>0, <2>1, <2>2
<1>3. QED
  BY <1>1, <1>2

UpdatingAt == {"levels", "mode", "set", "clr", "again", "store", "clr0", "set0", "clr1", "set1"}

\* A step of an update changes of the IOs their states only, and goes on with the
\* same mask.
LEMMA UpdateStepFacts ==
    ASSUME PortInv, NEW t \in Threads, UpdateStep(t)
    PROVE  /\ call[t].pc \in UpdatingAt /\ call'[t].pc \in UpdatingAt \cup {"idle"}
           /\ call'[t].pc # "idle" => call'[t].mask = call[t].mask
           /\ \A u \in Threads : u # t => call'[u] = call[u]
           /\ UNCHANGED <<wires, epoch>>
           /\ \A p \in PortPins : /\ io'[p].mode = io[p].mode /\ io'[p].pud = io[p].pud
                                  /\ io'[p] = io[p] \/ io'[p].state \in Int
<1>0. /\ call[t] \in CallType /\ Pin(t) \in PortPins /\ call \in [Threads -> CallType]
      /\ io = [p \in PortPins |-> io[p]] /\ \A p \in PortPins : IOShape(io[p])
  BY CallFacts DEF PortInv, Shapes
<1>1. ASSUME NEW pc \in UpdatingAt, NEW c, c.pc \in UpdatingAt, c.mask = call[t].mask,
             Reads(t, pc, c)
      PROVE  /\ call[t].pc \in UpdatingAt /\ call'[t].pc \in UpdatingAt
             /\ call'[t].mask = call[t].mask
             /\ \A u \in Threads : u # t => call'[u] = call[u]
             /\ UNCHANGED <<wires, epoch, io>>
  BY <1>0, <1>1 DEF Reads, At
<1>2. CASE ReadLevels(t)
  <2>1. PICK b \in call[t].left :
           Reads(t, "levels",
                 [call[t] EXCEPT !.lev = @ \cup {p \in PortPins : Bank(p) = b /\ LevelIsHigh(p)},
                                 !.left = call[t].left \ {b},
                                 !.pc = IF call[t].left \ {b} = {} THEN "mode" ELSE "levels"])
    BY <1>2 DEF ReadLevels
  <2> DEFINE c == [call[t] EXCEPT !.lev = @ \cup {p \in PortPins : Bank(p) = b /\ LevelIsHigh(p)},
                                  !.left = call[t].left \ {b},
                                  !.pc = IF call[t].left \ {b} = {} THEN "mode" ELSE "levels"]
  <2>2. c.pc \in {"levels", "mode"} /\ c.mask = call[t].mask /\ Reads(t, "levels", c)
    BY <1>0, <2>1 DEF CallType
  <2> HIDE DEF c
  <2>3. QED
    BY <1>1, <2>2 DEF UpdatingAt
<1>3. CASE LoadMode(t)
  <2> DEFINE c == [call[t] EXCEPT !.pc = "set",
                                  !.flag = io[Pin(t)].mode = ModeOut /\ Pin(t) \in call[t].mask]
  <2>1. c.pc = "set" /\ c.mask = call[t].mask /\ Reads(t, "mode", c)
    BY <1>0, <1>3 DEF CallType, LoadMode
  <2> HIDE DEF c
  <2>2. QED
    BY <1>1, <2>1 DEF UpdatingAt
<1>4. CASE LoadForSet(t)
  <2> DEFINE c == [call[t] EXCEPT !.pc = "clr", !.set = Gathered(@, t, 1)]
  <2>1. c.pc = "clr" /\ c.mask = call[t].mask /\ Reads(t, "set", c)
    BY <1>0, <1>4 DEF CallType, LoadForSet
  <2> HIDE DEF c
  <2>2. QED
    BY <1>1, <2>1 DEF UpdatingAt
<1>5. CASE LoadForClear(t)
  <2> DEFINE c == [call[t] EXCEPT !.pc = "again", !.clr = Gathered(@, t, 0)]
  <2>1. c.pc = "again" /\ c.mask = call[t].mask /\ Reads(t, "clr", c)
    BY <1>0, <1>5 DEF CallType, LoadForClear
  <2> HIDE DEF c
  <2>2. QED
    BY <1>1, <2>1 DEF UpdatingAt
<1>6. CASE LoadModeAgain(t)
  <2> DEFINE c == [call[t] EXCEPT !.pc = "store",
                                  !.flag = /\ io[Pin(t)].mode = ModeIn
                                           /\ Pin(t) \in call[t].mask \cap call[t].lev]
  <2>1. c.pc = "store" /\ c.mask = call[t].mask /\ Reads(t, "again", c)
    BY <1>0, <1>6 DEF CallType, LoadModeAgain
  <2> HIDE DEF c
  <2>2. QED
    BY <1>1, <2>1 DEF UpdatingAt
<1>7. CASE StoreState(t)
  <2> DEFINE c == NextIO(call[t], "mode", "clr0")
             state == IF call[t].flag \/ Pin(t) \in call[t].set THEN StateByte(Pin(t)) ELSE 0
  <2>1. /\ call[t].pc = "store" /\ io' = [io EXCEPT ![Pin(t)].state = state]
        /\ call' = [call EXCEPT ![t] = c] /\ UNCHANGED <<wires, epoch>>
    BY <1>7 DEF StoreState, At
  <2>2. state \in Int
    BY <1>0, StateBytes
  <2> HIDE DEF state
  <2>3. c.pc \in {"mode", "clr0"} /\ c.mask = call[t].mask
    BY <1>0 DEF NextIO, CallType
  <2> HIDE DEF c
  <2>4. \A p \in PortPins : /\ io'[p].mode = io[p].mode /\ io'[p].pud = io[p].pud
                            /\ io'[p] = io[p] \/ io'[p].state \in Int
    BY <1>0, <2>1, <2>2 DEF IOShape
  <2>5. QED
    BY <1>0, <2>1, <2>3, <2>4 DEF UpdatingAt
<1>8. CASE Drive(t)
  <2>1. \A pc : [call[t] EXCEPT !.pc = pc].pc = pc /\ [call[t] EXCEPT !.pc = pc].mask = call[t].mask
    BY <1>0 DEF CallType
  <2>2. \E c : /\ call[t].pc \in UpdatingAt /\ call' = [call EXCEPT ![t] = c]
               /\ UNCHANGED <<wires, epoch, io>>
               /\ c.pc = "idle" \/ (c.pc \in UpdatingAt /\ c.mask = call[t].mask)
    <3> USE DEF Writes, At, UpdatingAt
    <3>1. CASE Writes(t, "clr0", ClearPins(InBank(call[t].clr, 0)), [call[t] EXCEPT !.pc = "set0"])
      BY <2>1, <3>1
    <3>2. CASE Writes(t, "set0", SetPins(InBank(call[t].set, 0)), [call[t] EXCEPT !.pc = "clr1"])
      BY <2>1, <3>2
    <3>3. CASE Writes(t, "clr1", ClearPins(InBank(call[t].clr, 1)), [call[t] EXCEPT !.pc = "set1"])
      BY <2>1, <3>3
    <3>4. CASE Writes(t, "set1", SetPins(InBank(call[t].set, 1)), Idle)
      <4>1. Idle.pc = "idle"
        BY DEF Idle
      <4>2. QED
        BY <3>4, <4>1
    <3>5. QED
      BY <1>8, <3>1, <3>2, <3>3, <3>4 DEF Drive
  <2>3. QED
    BY <1>0, <2>2
<1>9. QED
  BY <1>1, <1>2, <1>3, <1>4, <1>5, <1>6, <1>7, <1>8 DEF UpdateStep

\* A step of a reinit changes registers only.  It gathers outputs, and switches off
\* no other pin.
LEMMA ReinitStepFacts ==
    ASSUME PortInv, NEW t \in Threads, ReinitStep(t)
    PROVE  /\ call[t].pc \in Reiniting /\ call'[t].pc \in Reiniting \cup {"idle"}
           /\ call'[t].pc # "idle" =>
                 /\ call'[t].mask = call[t].mask /\ call'[t].set = call[t].set
                 /\ \A p \in call'[t].clr : p \in call[t].clr \/ io[p].mode = ModeOut
           /\ gpio'.output \subseteq gpio.output /\ gpio.output \subseteq gpio'.output \cup call[t].clr
           /\ \A u \in Threads : u # t => call'[u] = call[u]
           /\ UNCHANGED <<io, wires, epoch>>
<1>0. /\ call[t] \in CallType /\ Pin(t) \in PortPins /\ call \in [Threads -> CallType]
      /\ call[t].k \in 1..Len(IOs) /\ Len(IOs) \in Nat /\ gpio \in GpioRegisters
  BY CallFacts, PinFacts DEF PortInv, Shapes, CallType
<1> DEFINE Same(c) == /\ c.mask = call[t].mask /\ c.set = call[t].set
                      /\ \A p \in c.clr : p \in call[t].clr \/ io[p].mode = ModeOut
           Clear(g) == g.output \subseteq gpio.output /\ gpio.output \subseteq g.output \cup call[t].clr
           Goal == /\ call[t].pc \in Reiniting /\ call'[t].pc \in Reiniting \cup {"idle"}
                   /\ call'[t].pc # "idle" => Same(call'[t])
                   /\ Clear(gpio')
                   /\ \A u \in Threads : u # t => call'[u] = call[u]
                   /\ UNCHANGED <<io, wires, epoch>>
<1>1. ASSUME NEW pc \in Reiniting, NEW c, c.pc = "idle" \/ (c.pc \in Reiniting /\ Same(c)),
             call[t].pc = pc, call' = [call EXCEPT ![t] = c], UNCHANGED <<io, wires, epoch>>,
             Clear(gpio')
      PROVE  Goal
  BY <1>0, <1>1
<1>2. ASSUME NEW pc \in Reiniting, NEW c, c.pc \in Reiniting, Same(c), Reads(t, pc, c)
      PROVE  Goal
  BY <1>1, <1>2 DEF Reads, At
<1>3. ASSUME NEW pc \in Reiniting, NEW c, c.pc = "idle" \/ (c.pc \in Reiniting /\ Same(c)),
             NEW g, Clear(g), Writes(t, pc, g, c)
      PROVE  Goal
  BY <1>1, <1>3 DEF Writes, At
<1>4. CASE ReadFsel(t)
  <2>1. PICK b \in call[t].left :
           LET left == call[t].left \ {b}
               read == [p \in Pins |-> IF FselBank(p) = b THEN gpio.gpfsel[p] ELSE call[t].fsel[p]]
           IN  Reads(t, "fselRead",
                  IF left = {} THEN [call[t] EXCEPT !.fsel = read, !.pc = "fselMode",
                                                    !.left = UsedFselBanks]
                               ELSE [call[t] EXCEPT !.fsel = read, !.left = left])
    BY <1>4 DEF ReadFsel
  <2> DEFINE left == call[t].left \ {b}
             read == [p \in Pins |-> IF FselBank(p) = b THEN gpio.gpfsel[p] ELSE call[t].fsel[p]]
             last == [call[t] EXCEPT !.fsel = read, !.pc = "fselMode", !.left = UsedFselBanks]
             more == [call[t] EXCEPT !.fsel = read, !.left = left]
             c == IF left = {} THEN last ELSE more
  <2>2. call[t].pc = "fselRead" /\ Reads(t, "fselRead", c)
    BY <2>1 DEF Reads, At
  <2> HIDE DEF left, read
  <2>3. c.pc \in {"fselMode", "fselRead"} /\ Same(c)
    BY <1>0, <2>2 DEF CallType
  <2> HIDE DEF c
  <2>4. QED
    BY <1>2, <2>2, <2>3 DEF Reiniting
<1>5. CASE LoadModeForFsel(t)
  <2> DEFINE c == [call[t] EXCEPT !.pc = "clrMode", !.fsel[Pin(t)] = io[Pin(t)].mode]
  <2>1. c.pc = "clrMode" /\ Same(c) /\ Reads(t, "fselMode", c)
    BY <1>0, <1>5 DEF CallType, LoadModeForFsel
  <2> HIDE DEF c
  <2>2. QED
    BY <1>2, <2>1 DEF Reiniting
<1>6. CASE LoadModeForClear(t)
  <2> DEFINE s == IF io[Pin(t)].mode = ModeOut THEN call[t].clr \cup {Pin(t)} ELSE call[t].clr
             d == [call[t] EXCEPT !.clr = s]
             c == NextIO(d, "fselMode", "fselWrite")
  <2>1. Reads(t, "clrMode", c)
    BY <1>6 DEF LoadModeForClear
  <2>2. s \in SUBSET PortPins
    BY <1>0 DEF CallType
  <2> HIDE DEF s
  <2>3. d.mask = call[t].mask /\ d.set = call[t].set /\ d.clr = s /\ d \in CallType
    BY <1>0, <2>2 DEF CallType
  <2> HIDE DEF d
  <2>4. c.pc \in {"fselMode", "fselWrite"} /\ Same(c)
    BY <1>0, <2>3 DEF NextIO, CallType, s
  <2> HIDE DEF c
  <2>5. QED
    BY <1>2, <2>1, <2>4 DEF Reiniting
<1>7. CASE LoadPud(t)
  <2> DEFINE c == [call[t] EXCEPT !.pc = "gppud", !.pud = io[Pin(t)].pud]
  <2>1. c.pc = "gppud" /\ Same(c) /\ Reads(t, "pud", c)
    BY <1>0, <1>7 DEF CallType, LoadPud
  <2> HIDE DEF c
  <2>2. QED
    BY <1>2, <2>1 DEF Reiniting
<1>8. CASE ReadClock(t)
  <2> DEFINE c == [call[t] EXCEPT !.pc = "clkWrite",
                                  !.clk = InBank(gpio.gppudclk, Bank(Pin(t))) \cup {Pin(t)}]
  <2>1. c.pc = "clkWrite" /\ Same(c) /\ Reads(t, "clkRead", c)
    BY <1>0, <1>8 DEF CallType, ReadClock
  <2> HIDE DEF c
  <2>2. QED
    BY <1>2, <2>1 DEF Reiniting
<1>9. CASE WriteFsel(t)
  <2>1. PICK b \in call[t].left :
           Writes(t, "fselWrite",
                  [gpio EXCEPT !.gpfsel = [p \in Pins |-> IF FselBank(p) = b
                                              THEN call[t].fsel[p] ELSE @[p]]],
                  [call[t] EXCEPT !.left = call[t].left \ {b},
                                  !.pc = IF call[t].left \ {b} = {} THEN "clear0" ELSE "fselWrite"])
    BY <1>9 DEF WriteFsel
  <2> DEFINE g == [gpio EXCEPT !.gpfsel = [p \in Pins |-> IF FselBank(p) = b
                                              THEN call[t].fsel[p] ELSE @[p]]]
             c == [call[t] EXCEPT !.left = call[t].left \ {b},
                                  !.pc = IF call[t].left \ {b} = {} THEN "clear0" ELSE "fselWrite"]
  <2>2. Writes(t, "fselWrite", g, c) /\ Clear(g)
    BY <1>0, <2>1 DEF GpioRegisters
  <2> HIDE DEF g
  <2>3. c.pc \in {"clear0", "fselWrite"} /\ Same(c)
    BY <1>0 DEF CallType
  <2> HIDE DEF c
  <2>4. QED
    BY <1>3, <2>2, <2>3 DEF Reiniting
<1>10. ASSUME NEW pc \in Reiniting, NEW next \in Reiniting, NEW g, Clear(g),
              Writes(t, pc, g, [call[t] EXCEPT !.pc = next])
       PROVE  Goal
  <2> DEFINE c == [call[t] EXCEPT !.pc = next]
  <2>1. c.pc = next /\ Same(c) /\ Writes(t, pc, g, c)
    BY <1>0, <1>10 DEF CallType
  <2> HIDE DEF c
  <2>2. QED
    BY <1>3, <1>10, <2>1
<1>11. CASE ClearOutputs(t) \/ WriteGppud(t) \/ WriteClock(t) \/ WriteOff(t)
  <2>0. /\ \A b : Clear(ClearPins(InBank(call[t].clr, b)))
        /\ \A d : Clear([gpio EXCEPT !.gppud = d])
        /\ \A b, s : Clear(Clocked(b, s))
    BY <1>0 DEF ClearPins, InBank, Clocked, GpioRegisters
  <2> HIDE DEF Clear, Goal
  <2>1. PICK pc, next, g :
           /\ pc \in Reiniting /\ next \in Reiniting /\ Clear(g)
           /\ Writes(t, pc, g, [call[t] EXCEPT !.pc = next])
    <3>1. /\ "clear0" \in Reiniting /\ "clear1" \in Reiniting /\ "pud" \in Reiniting
          /\ "gppud" \in Reiniting /\ "clkRead" \in Reiniting /\ "clkWrite" \in Reiniting
          /\ "off" \in Reiniting /\ "zero" \in Reiniting
      BY DEF Reiniting
    <3>2. CASE ClearOutputs(t)
      BY <2>0, <3>1, <3>2, Zenon DEF ClearOutputs
    <3>3. CASE WriteGppud(t)
      BY <2>0, <3>1, <3>3, Zenon DEF WriteGppud
    <3>4. CASE WriteClock(t)
      BY <2>0, <3>1, <3>4, Zenon DEF WriteClock
    <3>5. CASE WriteOff(t)
      BY <2>0, <3>1, <3>5, Zenon DEF WriteOff
    <3>6. QED
      BY <1>11, <3>2, <3>3, <3>4, <3>5
  <2>2. Goal
    BY <1>10, <2>1
  <2>3. QED
    BY <2>2 DEF Goal, Clear
<1>12. CASE WriteZero(t)
  <2> DEFINE c == IF call[t].k < Len(IOs) THEN NextIO(call[t], "pud", "idle") ELSE Idle
  <2>1. Writes(t, "zero", Clocked(Bank(Pin(t)), {}), c) /\ Clear(Clocked(Bank(Pin(t)), {}))
    BY <1>0, <1>12 DEF WriteZero, Clocked, GpioRegisters
  <2>2. c.pc = "idle" \/ (c.pc = "pud" /\ Same(c))
    BY <1>0 DEF NextIO, CallType, Idle
  <2> HIDE DEF c
  <2>3. QED
    BY <1>3, <2>1, <2>2 DEF Reiniting
<1>13. QED
  BY <1>4, <1>5, <1>6, <1>7, <1>8, <1>9, <1>11, <1>12 DEF ReinitStep

\* Which steps there are, for the proofs that a step keeps an invariant.
LEMMA NextCases ==
    ASSUME [Next]_vars
    PROVE  \/ UNCHANGED vars
           \/ \E p \in PortPins : Set(p) \/ SetMode(p) \/ SetPud(p)
           \/ \E p \in Driven : WireChanges(p)
           \/ \E t \in Threads : \E mask \in SUBSET PortPins :
                 \/ Begins(t, mask, "levels", Banks)
                 \/ mask = PortPins /\ Begins(t, mask, "fselRead", UsedFselBanks)
           \/ \E t \in Threads : UpdateStep(t)
           \/ \E t \in Threads : ReinitStep(t)
<1>1. Masks \subseteq SUBSET PortPins
  BY PortAssumption
<1>2. QED
  BY <1>1 DEF Next, CallReinit, CallUpdateAll, CallUpdate, Begins

\* A call begins.
LEMMA BeginKeepsHistoryInv ==
    ASSUME PortInv, HistoryInv, NEW t \in Threads, NEW mask \in SUBSET PortPins,
           NEW pc, NEW left, pc = "levels" \/ (pc = "fselRead" /\ mask = PortPins),
           Begins(t, mask, pc, left)
    PROVE  HistoryInv'
<1>0. Begun(t, mask, pc, left)
  BY BeginFacts
<1>1. /\ call[t].pc = "idle" /\ UNCHANGED <<io, gpio, wires>>
      /\ call'[t].pc = pc /\ call'[t].mask = mask
      /\ \A u \in Threads : u # t => call'[u] = call[u]
      /\ epoch' \in EpochType
  BY <1>0 DEF Begun
<1>2. pc # "idle" /\ (pc \in Reiniting <=> pc = "fselRead")
  BY DEF Reiniting
<1>3. CASE AllIdle
  <2>1. /\ epoch'.n = 1 /\ epoch'.quiet /\ (epoch'.reinit <=> pc = "fselRead")
        /\ epoch'.mask = mask /\ epoch'.drivable = {p \in mask : io[p].mode = ModeOut}
    BY <1>0, <1>3 DEF Begun
  <2>2. \A u \in Threads : u # t => call'[u].pc = "idle"
    BY <1>1, <1>3 DEF AllIdle
  <2>3. InHistory(call[t])'
    BY <1>1, <1>2, <2>1 DEF InHistory
  <2>4. QED
    BY <1>1, <2>1, <2>2, <2>3 DEF HistoryInv
<1>4. CASE ~AllIdle
  <2>1. /\ epoch'.n > 1 /\ (epoch.reinit \/ pc = "fselRead" => epoch'.reinit)
        /\ epoch'.mask = epoch.mask \cup mask
        /\ epoch'.drivable = epoch.drivable \cup {p \in mask : io[p].mode = ModeOut}
    BY <1>0, <1>4 DEF Begun
  <2>2. epoch'.n \in Nat /\ epoch'.n > 0 /\ ~Alone'
    BY <1>1, <2>1 DEF EpochType, Alone
  <2>3. InHistory(call[t])'
    BY <1>1, <1>2, <2>1, <2>2 DEF InHistory
  <2>4. ASSUME NEW u \in Threads, u # t, call'[u].pc # "idle" PROVE InHistory(call[u])'
    BY <1>1, <2>1, <2>2, <2>4 DEF HistoryInv, InHistory
  <2>5. \A p \in epoch'.mask : io'[p].mode = ModeOut => p \in epoch'.drivable
    BY <1>1, <2>1 DEF HistoryInv
  <2>6. QED
    BY <1>1, <2>1, <2>2, <2>3, <2>4, <2>5 DEF HistoryInv
<1>5. QED
  BY <1>3, <1>4

LEMMA NextKeepsHistoryInv ==
    ASSUME PortInv, HistoryInv, [Next]_vars
    PROVE  HistoryInv'
<1>1. CASE UNCHANGED vars
  BY <1>1 DEF vars, HistoryInv, InHistory, Alone
<1>2. ASSUME NEW p,
             \/ p \in PortPins /\ (Set(p) \/ SetMode(p) \/ SetPud(p))
             \/ p \in Driven /\ WireChanges(p)
      PROVE  HistoryInv'
  <2>1. /\ UNCHANGED <<gpio, call>> /\ epoch' \in EpochType /\ ~epoch'.quiet
        /\ epoch'.n = epoch.n /\ epoch'.reinit = epoch.reinit /\ epoch'.mask = epoch.mask
        /\ \A q \in PortPins : /\ io'[q].state \in Int
                               /\ q \in epoch.mask /\ io'[q].mode = ModeOut => q \in epoch'.drivable
    BY <1>2, DisturbFacts
  <2>2. \A t \in Threads : (call[t].pc # "idle" => InHistory(call[t]))'
    BY <2>1 DEF HistoryInv, InHistory, Alone
  <2>3. epoch.mask \subseteq PortPins
    BY DEF HistoryInv, EpochType
  <2>4. QED
    BY <2>1, <2>2, <2>3 DEF HistoryInv, Alone
<1>3. ASSUME NEW t \in Threads, UpdateStep(t) \/ ReinitStep(t) PROVE HistoryInv'
  <2>1. /\ call[t].pc # "idle" /\ UNCHANGED epoch
        /\ call'[t].pc # "idle" => /\ call'[t].mask = call[t].mask
                                   /\ call'[t].pc \in Reiniting <=> call[t].pc \in Reiniting
        /\ \A u \in Threads : u # t => call'[u] = call[u]
        /\ \A p \in PortPins : io'[p].mode = io[p].mode /\ (io'[p] = io[p] \/ io'[p].state \in Int)
    <3>1. CASE UpdateStep(t)
      BY <3>1, UpdateStepFacts DEF UpdatingAt, Reiniting
    <3>2. CASE ReinitStep(t)
      BY <3>2, ReinitStepFacts DEF UpdatingAt, Reiniting
    <3>3. QED
      BY <1>3, <3>1, <3>2
  <2>2. \A u \in Threads : (call[u].pc # "idle" => InHistory(call[u]))'
    BY <2>1 DEF HistoryInv, InHistory, Alone
  <2>3. epoch.mask \subseteq PortPins /\ epoch.drivable \subseteq PortPins
    BY DEF HistoryInv, EpochType
  <2>4. QED
    BY <2>1, <2>2, <2>3 DEF HistoryInv, Alone
<1>4. QED
  BY <1>1, <1>2, <1>3, NextCases, BeginKeepsHistoryInv

LEMMA InitEstablishesHistoryInv == Init => HistoryInv
<1> SUFFICES ASSUME Init PROVE HistoryInv
  OBVIOUS
<1>1. epoch = NoEpoch /\ epoch \in EpochType
  BY DEF Init, NoEpoch, EpochType
<1>2. epoch.n = 0 /\ epoch.mask = {} /\ epoch.drivable = {}
  BY <1>1 DEF NoEpoch
<1>3. \A p \in PortPins : io[p].state \in Int
  <2>1. \A p \in PortPins : io[p].state \in {0, 1}
    BY DEF Init
  <2>2. QED
    BY <2>1
<1>4. \A t \in Threads : call[t].pc = "idle"
  BY DEF Init, Idle
<1>5. QED
  BY <1>1, <1>2, <1>3, <1>4 DEF HistoryInv, Alone

-----------------------------------------------------------------------------
(* A pin moves only to a level that was asked for.                         *)

\* The byte stored for a pin that is high reads as FALSE afterwards.  It does for
\* every pin but the first of a bank, and the V1B uses neither of these.
HighReadsLow == \A p \in PortPins : p % 32 # 0

\* Where an update goes through the IOs.
InLoop(c) == c.pc \in {"mode", "set", "clr", "again", "store"}

\* The IOs whose state an update has not stored yet.
Unstored(c) == IF c.pc = "levels" THEN 1..Len(IOs)
               ELSE IF InLoop(c) THEN c.k..Len(IOs) ELSE {}

\* A level p may be left at: 1 was asked for, or 0 was, or a call may have switched
\* it off that met another or was a reinit.
MaySet(p)   == p \in epoch.drivable /\ 1 \in epoch.asked[p]
MayClear(p) == p \in epoch.drivable /\ (0 \in epoch.asked[p] \/ epoch.n > 1 \/ epoch.reinit)

\* What a call in progress has gathered, and will, was asked for.
CallAsked(c) ==
    /\ \A p \in c.set : MaySet(p)
    /\ \A p \in c.clr : MayClear(p)
    /\ c.pc \in {"set", "clr"} /\ c.flag => IOs[c.k] \in epoch.drivable
    /\ epoch.n = 1 => \A j \in Unstored(c) : Level(io[IOs[j]].state) \in epoch.asked[IOs[j]]

AskedInv ==
    /\ epoch.n > 0 => \A p \in PortPins : Level(io[p].state) = 1 => 1 \in epoch.asked[p]
    /\ \A t \in Threads : call[t].pc # "idle" => CallAsked(call[t])
    /\ LevelsWereAsked

\* A step that changes neither the IOs nor the history: the call's new locals
\* are asked for, and so is every output it moves.
LEMMA AskedStep ==
    ASSUME PortInv, HistoryInv, AskedInv, NEW t \in Threads, call[t].pc # "idle",
           NEW c, c.pc = "idle" \/ CallAsked(c),
           call' = [call EXCEPT ![t] = c], UNCHANGED <<io, epoch>>,
           \A p \in PortPins : /\ p \in gpio'.output => p \in gpio.output \/ MaySet(p)
                               /\ p \in gpio.output => p \in gpio'.output \/ MayClear(p)
    PROVE  AskedInv'
<1>1. epoch.n > 0
  BY DEF HistoryInv, InHistory
<1>2. call'[t] = c /\ \A u \in Threads : u # t => call'[u] = call[u]
  BY DEF PortInv, Shapes
<1>3. LevelsWereAsked'
  <2> SUFFICES ASSUME NEW p \in PortPins, (p \in gpio'.output) # (p \in epoch.before)
               PROVE  /\ p \in epoch.drivable
                      /\ \/ (IF p \in gpio'.output THEN 1 ELSE 0) \in epoch.asked[p]
                         \/ p \notin gpio'.output /\ (epoch.n > 1 \/ epoch.reinit)
    BY DEF LevelsWereAsked
  <2>1. CASE (p \in gpio'.output) = (p \in gpio.output)
    BY <1>1, <2>1 DEF AskedInv, LevelsWereAsked
  <2>2. CASE p \in gpio'.output /\ p \notin gpio.output
    BY <2>2 DEF MaySet
  <2>3. CASE p \notin gpio'.output /\ p \in gpio.output
    BY <2>3 DEF MayClear
  <2>4. QED
    BY <2>1, <2>2, <2>3
<1>4. \A u \in Threads : (call[u].pc # "idle" => CallAsked(call[u]))'
  <2>1. \A d : CallAsked(d) => CallAsked(d)'
    BY DEF CallAsked, MaySet, MayClear, Unstored, InLoop
  <2>2. \A u \in Threads : call'[u].pc # "idle" => CallAsked(call'[u])
    BY <1>2 DEF AskedInv
  <2>3. QED
    BY <2>2 DEF CallAsked, MaySet, MayClear, Unstored, InLoop
<1>5. (epoch.n > 0 => \A p \in PortPins : Level(io[p].state) = 1 => 1 \in epoch.asked[p])'
  BY DEF AskedInv
<1>6. QED
  BY <1>3, <1>4, <1>5 DEF AskedInv

LEMMA AskedRead ==
    ASSUME PortInv, HistoryInv, AskedInv, NEW t \in Threads, NEW pc, pc # "idle",
           NEW c, CallAsked(c), Reads(t, pc, c)
    PROVE  AskedInv'
BY AskedStep DEF Reads, At

LEMMA AskedWrite ==
    ASSUME PortInv, HistoryInv, AskedInv, NEW t \in Threads, NEW pc, pc # "idle",
           NEW c, c.pc = "idle" \/ CallAsked(c), NEW g, Writes(t, pc, g, c),
           \A p \in PortPins : /\ p \in g.output => p \in gpio.output \/ MaySet(p)
                               /\ p \in gpio.output => p \in g.output \/ MayClear(p)
    PROVE  AskedInv'
BY AskedStep DEF Writes, At

LEMMA InitEstablishesAskedInv == Init => AskedInv
BY DEF Init, NoEpoch, Idle, AskedInv, LevelsWereAsked

\* Setting an IO adds the level it leaves to what is asked.
LEMMA DisturbKeepsAskedInv ==
    ASSUME PortInv, HistoryInv, AskedInv, NEW p,
           \/ p \in PortPins /\ (Set(p) \/ SetMode(p) \/ SetPud(p))
           \/ p \in Driven /\ WireChanges(p)
    PROVE  AskedInv'
<1>1. /\ UNCHANGED <<gpio, call>>
      /\ epoch'.n = epoch.n /\ epoch'.reinit = epoch.reinit /\ epoch'.before = epoch.before
      /\ epoch.drivable \subseteq epoch'.drivable
      /\ \A q \in PortPins : /\ epoch.asked[q] \subseteq epoch'.asked[q]
                             /\ io'[q] = io[q] \/ Level(io'[q].state) \in epoch'.asked[q]
  BY DisturbFacts
<1>2. (epoch.n > 0 => \A q \in PortPins : Level(io[q].state) = 1 => 1 \in epoch.asked[q])'
  <2> SUFFICES ASSUME epoch.n > 0, NEW q \in PortPins, Level(io'[q].state) = 1
               PROVE  1 \in epoch'.asked[q]
    BY <1>1 DEF Level
  <2>1. QED
    BY <1>1 DEF AskedInv
<1>3. ASSUME NEW u \in Threads, call[u].pc # "idle" PROVE CallAsked(call[u])'
  <2>1. CallAsked(call[u]) /\ call'[u] = call[u] /\ call[u] \in CallType
    BY <1>1, <1>3 DEF AskedInv, PortInv, Shapes
  <2>2. Unstored(call[u])' = Unstored(call[u])
    BY <1>1 DEF Unstored, InLoop
  <2>3. \A q \in PortPins : (MaySet(q) => MaySet(q)') /\ (MayClear(q) => MayClear(q)')
    BY <1>1 DEF MaySet, MayClear
  <2>4. epoch.n = 1 => \A j \in Unstored(call[u]) : Level(io'[IOs[j]].state) \in epoch'.asked[IOs[j]]
    <3>1. \A j \in Unstored(call[u]) : IOs[j] \in PortPins
      BY <2>1, PinFacts DEF Unstored, CallType
    <3>2. QED
      BY <1>1, <2>1, <3>1 DEF CallAsked
  <2>5. call[u].set \subseteq PortPins /\ call[u].clr \subseteq PortPins
    BY <2>1 DEF CallType
  <2>6. (\A q \in call[u].set : MaySet(q))' /\ (\A q \in call[u].clr : MayClear(q))'
    BY <1>1, <2>1, <2>3, <2>5 DEF CallAsked
  <2>7. (epoch.n = 1 => \A j \in Unstored(call[u]) : Level(io[IOs[j]].state) \in epoch.asked[IOs[j]])'
    BY <1>1, <2>2, <2>4 DEF Level
  <2>8. (call[u].pc \in {"set", "clr"} /\ call[u].flag => IOs[call[u].k] \in epoch.drivable)'
    BY <1>1, <2>1 DEF CallAsked
  <2>9. QED
    BY <2>6, <2>7, <2>8 DEF CallAsked
<1>4. LevelsWereAsked'
  <2> SUFFICES ASSUME NEW q \in PortPins, epoch.n > 0, (q \in gpio.output) # (q \in epoch.before)
               PROVE  /\ q \in epoch'.drivable
                      /\ \/ (IF q \in gpio.output THEN 1 ELSE 0) \in epoch'.asked[q]
                         \/ q \notin gpio.output /\ (epoch.n > 1 \/ epoch.reinit)
    BY <1>1 DEF LevelsWereAsked
  <2>1. QED
    BY <1>1 DEF AskedInv, LevelsWereAsked
<1>5. (\A u \in Threads : call[u].pc # "idle" => CallAsked(call[u]))'
  BY <1>1, <1>3
<1>6. QED
  BY <1>2, <1>4, <1>5 DEF AskedInv

\* A call that begins asks for the level each IO has, and has gathered nothing.
LEMMA BeginKeepsAskedInv ==
    ASSUME PortInv, HistoryInv, AskedInv, NEW t \in Threads, NEW mask \in SUBSET PortPins,
           NEW pc, NEW left, pc = "levels" \/ pc = "fselRead", Begins(t, mask, pc, left)
    PROVE  AskedInv'
<1>0. Begun(t, mask, pc, left)
  BY BeginFacts
<1>1. /\ UNCHANGED <<io, gpio>>
      /\ call'[t].pc = pc /\ call'[t].set = {} /\ call'[t].clr = {}
      /\ \A u \in Threads : u # t => call'[u] = call[u]
      /\ \A p \in PortPins : Level(io[p].state) \in epoch'.asked[p]
  BY <1>0 DEF Begun
<1>2. AllIdle => epoch'.before = gpio.output
  BY <1>0 DEF Begun
<1>3. ~AllIdle => /\ epoch.n > 0 /\ epoch'.n > 1 /\ epoch'.before = epoch.before
                  /\ epoch.drivable \subseteq epoch'.drivable
                  /\ \A p \in PortPins : epoch.asked[p] \subseteq epoch'.asked[p]
  BY <1>0 DEF Begun
<1>4. (epoch.n > 0 => \A p \in PortPins : Level(io[p].state) = 1 => 1 \in epoch.asked[p])'
  BY <1>1 DEF Level
<1>5. CallAsked(call[t])'
  <2>1. ~InLoop(call'[t]) /\ call'[t].pc \notin {"set", "clr"}
    BY <1>1 DEF InLoop
  <2>2. \A j \in 1..Len(IOs) : Level(io'[IOs[j]].state) \in epoch'.asked[IOs[j]]
    BY <1>1, PinFacts
  <2>3. (\A j \in Unstored(call[t]) : Level(io[IOs[j]].state) \in epoch.asked[IOs[j]])'
    BY <2>1, <2>2 DEF Unstored, InLoop
  <2>4. QED
    BY <1>1, <2>1, <2>3 DEF CallAsked
<1>6. ASSUME NEW u \in Threads, u # t, call[u].pc # "idle" PROVE CallAsked(call[u])'
  <2>1. ~AllIdle /\ CallAsked(call[u]) /\ call'[u] = call[u] /\ call[u] \in CallType
    BY <1>1, <1>6 DEF AllIdle, AskedInv, PortInv, Shapes
  <2>2. epoch'.n > 1 /\ epoch'.n \in Nat
    BY <1>0, <1>3, <2>1 DEF Begun, EpochType
  <2>3. \A p \in PortPins : (MaySet(p) => MaySet(p)') /\ (MayClear(p) => MayClear(p)')
    BY <1>3, <2>1, <2>2 DEF MaySet, MayClear
  <2>4. call[u].set \subseteq PortPins /\ call[u].clr \subseteq PortPins
    BY <2>1 DEF CallType
  <2>5. (\A p \in call[u].set : MaySet(p))' /\ (\A p \in call[u].clr : MayClear(p))'
    BY <2>1, <2>3, <2>4 DEF CallAsked
  <2>6. (call[u].pc \in {"set", "clr"} /\ call[u].flag => IOs[call[u].k] \in epoch.drivable)'
    BY <1>3, <2>1 DEF CallAsked
  <2>7. QED
    BY <2>2, <2>5, <2>6 DEF CallAsked
<1>7. LevelsWereAsked'
  <2>1. CASE AllIdle
    BY <1>1, <1>2, <2>1 DEF LevelsWereAsked
  <2>2. CASE ~AllIdle
    <3> SUFFICES ASSUME NEW p \in PortPins, (p \in gpio.output) # (p \in epoch.before)
                 PROVE  /\ p \in epoch'.drivable
                        /\ \/ (IF p \in gpio.output THEN 1 ELSE 0) \in epoch'.asked[p]
                           \/ p \notin gpio.output /\ (epoch'.n > 1 \/ epoch'.reinit)
      BY <1>1, <1>3, <2>2 DEF LevelsWereAsked
    <3>1. QED
      BY <1>3, <2>2 DEF AskedInv, LevelsWereAsked
  <2>3. QED
    BY <2>1, <2>2
<1>8. (\A u \in Threads : call[u].pc # "idle" => CallAsked(call[u]))'
  BY <1>1, <1>5, <1>6
<1>9. QED
  BY <1>4, <1>7, <1>8 DEF AskedInv

\* Outputs a call moves from masks it has gathered.
LEMMA StoresAreAsked ==
    ASSUME PortInv, AskedInv, NEW t \in Threads, call[t].pc # "idle", NEW b, NEW p \in PortPins
    PROVE  /\ p \in ClearPins(InBank(call[t].clr, b)).output => p \in gpio.output
           /\ p \in gpio.output => p \in ClearPins(InBank(call[t].clr, b)).output \/ MayClear(p)
           /\ p \in SetPins(InBank(call[t].set, b)).output => p \in gpio.output \/ MaySet(p)
           /\ p \in gpio.output => p \in SetPins(InBank(call[t].set, b)).output
<1>1. CallAsked(call[t]) /\ gpio \in GpioRegisters
  BY DEF PortInv, Shapes, AskedInv
<1>2. /\ ClearPins(InBank(call[t].clr, b)).output = gpio.output \ InBank(call[t].clr, b)
      /\ SetPins(InBank(call[t].set, b)).output = gpio.output \cup InBank(call[t].set, b)
  BY <1>1 DEF ClearPins, SetPins, GpioRegisters
<1>3. QED
  BY <1>1, <1>2 DEF InBank, CallAsked

LEMMA UpdateKeepsAskedInv ==
    ASSUME HighReadsLow, PortInv, HistoryInv, AskedInv, NEW t \in Threads, UpdateStep(t)
    PROVE  AskedInv'
<1>0. /\ call[t] \in CallType /\ Pin(t) \in PortPins /\ Pin(t) = IOs[call[t].k]
      /\ CallAsked(call[t]) /\ InHistory(call[t]) /\ call[t].pc # "idle"
      /\ Len(IOs) \in Nat /\ call[t].k \in 1..Len(IOs)
  BY CallFacts, PinFacts, UpdateStepFacts DEF AskedInv, HistoryInv, Pin, CallType, UpdatingAt
<1>1. CASE ReadLevels(t)
  <2>1. PICK b \in call[t].left :
           Reads(t, "levels",
                 [call[t] EXCEPT !.lev = @ \cup {p \in PortPins : Bank(p) = b /\ LevelIsHigh(p)},
                                 !.left = call[t].left \ {b},
                                 !.pc = IF call[t].left \ {b} = {} THEN "mode" ELSE "levels"])
    BY <1>1 DEF ReadLevels
  <2> DEFINE seen == {p \in PortPins : Bank(p) = b /\ LevelIsHigh(p)}
             c == [call[t] EXCEPT !.lev = @ \cup seen, !.left = call[t].left \ {b},
                                  !.pc = IF call[t].left \ {b} = {} THEN "mode" ELSE "levels"]
  <2>2. /\ c.pc \in {"mode", "levels"} /\ c.k = call[t].k /\ c.mask = call[t].mask
        /\ c.set = call[t].set /\ c.clr = call[t].clr
    BY <1>0 DEF CallType
  <2>3. call[t].pc = "levels" /\ Reads(t, "levels", c)
    BY <2>1 DEF Reads, At
  <2> HIDE DEF c
  <2>4. Unstored(c) \subseteq Unstored(call[t])
    BY <1>0, <2>2, <2>3 DEF Unstored, InLoop
  <2>5. CallAsked(c)
    BY <1>0, <2>2, <2>3, <2>4 DEF CallAsked
  <2>6. QED
    BY <2>3, <2>5, AskedRead
<1>2. CASE LoadMode(t)
  <2> DEFINE flag == io[Pin(t)].mode = ModeOut /\ Pin(t) \in call[t].mask
             c == [call[t] EXCEPT !.pc = "set", !.flag = flag]
  <2>1. /\ c.pc = "set" /\ c.k = call[t].k /\ c.mask = call[t].mask
        /\ c.set = call[t].set /\ c.clr = call[t].clr /\ c.flag = flag
    BY <1>0 DEF CallType
  <2>2. call[t].pc = "mode" /\ Reads(t, "mode", c)
    BY <1>2 DEF LoadMode, Reads, At
  <2> HIDE DEF c
  <2>3. Unstored(c) = Unstored(call[t])
    BY <2>1, <2>2 DEF Unstored, InLoop
  <2>4. flag => Pin(t) \in epoch.drivable
    BY <1>0 DEF InHistory, HistoryInv
  <2> HIDE DEF flag
  <2>5. CallAsked(c)
    BY <1>0, <2>1, <2>2, <2>3, <2>4 DEF CallAsked
  <2>6. QED
    BY <2>2, <2>5, AskedRead
<1>3. CASE LoadForSet(t)
  <2> DEFINE s == Gathered(call[t].set, t, 1)
             c == [call[t] EXCEPT !.pc = "clr", !.set = s]
  <2>1. /\ c.pc = "clr" /\ c.k = call[t].k /\ c.mask = call[t].mask
        /\ c.set = s /\ c.clr = call[t].clr /\ c.flag = call[t].flag
    BY <1>0 DEF CallType
  <2>2. call[t].pc = "set" /\ Reads(t, "set", c)
    BY <1>3 DEF LoadForSet, Reads, At
  <2> HIDE DEF c
  <2>3. Unstored(c) = Unstored(call[t])
    BY <2>1, <2>2 DEF Unstored, InLoop
  <2>4. call[t].flag /\ Level(io[Pin(t)].state) = 1 => MaySet(Pin(t))
    BY <1>0, <2>2 DEF CallAsked, AskedInv, InHistory, MaySet
  <2>5. \A p \in s : MaySet(p)
    BY <1>0, <2>4 DEF CallAsked, Gathered
  <2> HIDE DEF s
  <2>6. CallAsked(c)
    BY <1>0, <2>1, <2>2, <2>3, <2>5 DEF CallAsked
  <2>7. QED
    BY <2>2, <2>6, AskedRead
<1>4. CASE LoadForClear(t)
  <2> DEFINE s == Gathered(call[t].clr, t, 0)
             c == [call[t] EXCEPT !.pc = "again", !.clr = s]
  <2>1. /\ c.pc = "again" /\ c.k = call[t].k /\ c.mask = call[t].mask
        /\ c.set = call[t].set /\ c.clr = s
    BY <1>0 DEF CallType
  <2>2. call[t].pc = "clr" /\ Reads(t, "clr", c)
    BY <1>4 DEF LoadForClear, Reads, At
  <2> HIDE DEF c
  <2>3. Unstored(c) = Unstored(call[t]) /\ call[t].k \in Unstored(call[t])
    BY <1>0, <2>1, <2>2 DEF Unstored, InLoop
  <2>4. epoch.n \in Nat /\ epoch.n > 0
    BY <1>0 DEF HistoryInv, EpochType, InHistory
  <2>5. call[t].flag /\ Level(io[Pin(t)].state) = 0 => MayClear(Pin(t))
    BY <1>0, <2>2, <2>3, <2>4 DEF CallAsked, MayClear
  <2>6. \A p \in s : MayClear(p)
    BY <1>0, <2>5 DEF CallAsked, Gathered
  <2> HIDE DEF s
  <2>7. CallAsked(c)
    BY <1>0, <2>1, <2>2, <2>3, <2>6 DEF CallAsked
  <2>8. QED
    BY <2>2, <2>7, AskedRead
<1>5. CASE LoadModeAgain(t)
  <2> DEFINE flag == /\ io[Pin(t)].mode = ModeIn
                     /\ Pin(t) \in call[t].mask \cap call[t].lev
             c == [call[t] EXCEPT !.pc = "store", !.flag = flag]
  <2>1. /\ c.pc = "store" /\ c.k = call[t].k /\ c.mask = call[t].mask
        /\ c.set = call[t].set /\ c.clr = call[t].clr
    BY <1>0 DEF CallType
  <2>2. call[t].pc = "again" /\ Reads(t, "again", c)
    BY <1>5 DEF LoadModeAgain, Reads, At
  <2> HIDE DEF c
  <2>3. Unstored(c) = Unstored(call[t])
    BY <2>1, <2>2 DEF Unstored, InLoop
  <2>4. CallAsked(c)
    BY <1>0, <2>1, <2>2, <2>3 DEF CallAsked
  <2>5. QED
    BY <2>2, <2>4, AskedRead
<1>6. CASE StoreState(t)
  <2> DEFINE c == NextIO(call[t], "mode", "clr0")
             state == IF call[t].flag \/ Pin(t) \in call[t].set THEN StateByte(Pin(t)) ELSE 0
  <2>1. state \in Int /\ Level(state) = 0
    BY <1>0, StateBytes DEF HighReadsLow, Level
  <2>2. /\ call[t].pc = "store" /\ io' = [io EXCEPT ![Pin(t)].state = state]
        /\ call' = [call EXCEPT ![t] = c] /\ UNCHANGED <<gpio, epoch>>
    BY <1>6 DEF StoreState, At
  <2> HIDE DEF state
  <2>3. /\ io'[Pin(t)].state = state /\ io'[Pin(t)].mode = io[Pin(t)].mode
        /\ \A p \in PortPins : p # Pin(t) => io'[p] = io[p]
    BY <1>0, <2>2 DEF PortInv, Shapes, IOShape
  <2>4. /\ c.set = call[t].set /\ c.clr = call[t].clr
        /\ \/ c.pc = "mode" /\ c.k = call[t].k + 1
           \/ c.pc = "clr0"
    BY <1>0 DEF CallType, NextIO
  <2> HIDE DEF c
  <2>5. call \in [Threads -> CallType] /\ call'[t] = c
        /\ \A u \in Threads : u # t => call'[u] = call[u]
    BY <2>2 DEF PortInv, Shapes
  <2>6. \A j \in Unstored(c) : j \in Unstored(call[t]) /\ IOs[j] # Pin(t) /\ IOs[j] \in PortPins
    <3>1. \A j, k \in 1..Len(IOs) : IOs[j] = IOs[k] => j = k
      BY PortAssumption
    <3>2. \A j \in Unstored(c) : j \in 1..Len(IOs) /\ j > call[t].k /\ j \in Unstored(call[t])
      BY <1>0, <2>2, <2>4 DEF Unstored, InLoop
    <3>3. QED
      BY <1>0, <3>1, <3>2, PinFacts
  <2>7. CallAsked(call[t])'
    <3>1. epoch.n = 1 => \A j \in Unstored(c) : Level(io'[IOs[j]].state) \in epoch.asked[IOs[j]]
      BY <1>0, <2>3, <2>6 DEF CallAsked
    <3>2. Unstored(call[t])' = Unstored(c)
      BY <2>5 DEF Unstored, InLoop
    <3>3. (epoch.n = 1 => \A j \in Unstored(call[t]) : Level(io[IOs[j]].state) \in epoch.asked[IOs[j]])'
      BY <2>2, <3>1, <3>2 DEF Level
    <3>4. (/\ \A p \in call[t].set : MaySet(p)
           /\ \A p \in call[t].clr : MayClear(p))'
      BY <1>0, <2>2, <2>4, <2>5 DEF CallAsked, MaySet, MayClear
    <3>5. (call[t].pc \in {"set", "clr"} /\ call[t].flag => IOs[call[t].k] \in epoch.drivable)'
      BY <2>4, <2>5
    <3>6. QED
      BY <3>3, <3>4, <3>5 DEF CallAsked
  <2>8. ASSUME NEW u \in Threads, u # t, call[u].pc # "idle" PROVE CallAsked(call[u])'
    <3>1. CallAsked(call[u]) /\ call'[u] = call[u]
      BY <2>5, <2>8 DEF AskedInv
    <3>2. epoch.n > 1
      BY <1>0, <2>8 DEF HistoryInv
    <3>3. QED
      BY <2>2, <3>1, <3>2 DEF CallAsked, MaySet, MayClear
  <2>9. (epoch.n > 0 => \A p \in PortPins : Level(io[p].state) = 1 => 1 \in epoch.asked[p])'
    <3>1. epoch.n > 0 => \A p \in PortPins : Level(io'[p].state) = 1 => 1 \in epoch.asked[p]
      BY <2>1, <2>3 DEF AskedInv
    <3>2. QED
      BY <2>2, <3>1 DEF Level
  <2>10. LevelsWereAsked'
    BY <2>2 DEF AskedInv, LevelsWereAsked
  <2>11. (\A u \in Threads : call[u].pc # "idle" => CallAsked(call[u]))'
    BY <2>5, <2>7, <2>8
  <2>12. QED
    BY <2>9, <2>10, <2>11 DEF AskedInv
<1>7. CASE Drive(t)
  <2>1. ASSUME NEW pc \in {"set0", "clr1", "set1"}, call[t].pc \in {"clr0", "set0", "clr1"}
        PROVE  CallAsked([call[t] EXCEPT !.pc = pc])
    <3> DEFINE c == [call[t] EXCEPT !.pc = pc]
    <3>1. /\ c.pc = pc /\ c.mask = call[t].mask /\ c.set = call[t].set /\ c.clr = call[t].clr
      BY <1>0 DEF CallType
    <3> HIDE DEF c
    <3>2. CallAsked(c)
      BY <1>0, <2>1, <3>1 DEF CallAsked, Unstored, InLoop
    <3>3. QED
      BY <3>2 DEF c
  <2>2. CASE Writes(t, "clr0", ClearPins(InBank(call[t].clr, 0)), [call[t] EXCEPT !.pc = "set0"])
    <3>1. call[t].pc = "clr0"
      BY <2>2 DEF Writes, At
    <3>2. CallAsked([call[t] EXCEPT !.pc = "set0"])
      BY <2>1, <3>1
    <3>3. QED
      BY <1>0, <2>2, <3>2, StoresAreAsked, AskedWrite
  <2>3. CASE Writes(t, "set0", SetPins(InBank(call[t].set, 0)), [call[t] EXCEPT !.pc = "clr1"])
    <3>1. call[t].pc = "set0"
      BY <2>3 DEF Writes, At
    <3>2. CallAsked([call[t] EXCEPT !.pc = "clr1"])
      BY <2>1, <3>1
    <3>3. QED
      BY <1>0, <2>3, <3>2, StoresAreAsked, AskedWrite
  <2>4. CASE Writes(t, "clr1", ClearPins(InBank(call[t].clr, 1)), [call[t] EXCEPT !.pc = "set1"])
    <3>1. call[t].pc = "clr1"
      BY <2>4 DEF Writes, At
    <3>2. CallAsked([call[t] EXCEPT !.pc = "set1"])
      BY <2>1, <3>1
    <3>3. QED
      BY <1>0, <2>4, <3>2, StoresAreAsked, AskedWrite
  <2>5. CASE Writes(t, "set1", SetPins(InBank(call[t].set, 1)), Idle)
    <3>1. Idle.pc = "idle"
      BY DEF Idle
    <3>2. QED
      BY <1>0, <2>5, <3>1, StoresAreAsked, AskedWrite
  <2>6. QED
    BY <1>7, <2>2, <2>3, <2>4, <2>5 DEF Drive
<1>8. QED
  BY <1>1, <1>2, <1>3, <1>4, <1>5, <1>6, <1>7 DEF UpdateStep

\* A reinit gathers outputs only, and never changes an IO's state.
LEMMA ReinitKeepsAskedInv ==
    ASSUME PortInv, HistoryInv, AskedInv, NEW t \in Threads, ReinitStep(t)
    PROVE  AskedInv'
<1>1. /\ call[t].pc \in Reiniting /\ call'[t].pc \in Reiniting \cup {"idle"}
      /\ call'[t].pc # "idle" =>
            /\ call'[t].set = call[t].set
            /\ \A p \in call'[t].clr : p \in call[t].clr \/ io[p].mode = ModeOut
      /\ gpio'.output \subseteq gpio.output /\ gpio.output \subseteq gpio'.output \cup call[t].clr
      /\ \A u \in Threads : u # t => call'[u] = call[u]
      /\ UNCHANGED <<io, epoch>>
  BY ReinitStepFacts
<1>2. call[t].pc # "idle" /\ call[t].pc \notin {"levels", "set", "clr"} /\ ~InLoop(call[t])
  BY <1>1 DEF Reiniting, InLoop
<1>3. /\ CallAsked(call[t]) /\ epoch.reinit /\ epoch.mask = PortPins
      /\ \A p \in PortPins : io[p].mode = ModeOut => MayClear(p)
  BY <1>1, <1>2 DEF AskedInv, HistoryInv, InHistory, EpochType, MayClear
<1>4. call' \in [Threads -> CallType] /\ call \in [Threads -> CallType]
  <2>1. PortInv'
    BY ReinitKeepsPortInv
  <2>2. QED
    BY <2>1 DEF PortInv, Shapes
<1> DEFINE c == call'[t]
<1>5. c.pc # "idle" => CallAsked(c)
  <2> SUFFICES ASSUME c.pc # "idle" PROVE CallAsked(c)
    OBVIOUS
  <2>1. ~InLoop(c) /\ c.pc \notin {"levels", "set", "clr"}
    BY <1>1 DEF Reiniting, InLoop
  <2>2. c.set = call[t].set /\ \A p \in c.clr : p \in call[t].clr \/ io[p].mode = ModeOut
    BY <1>1
  <2>3. c.clr \subseteq PortPins
    BY <1>4 DEF CallType
  <2> HIDE DEF c
  <2>4. QED
    BY <1>3, <2>1, <2>2, <2>3 DEF CallAsked, Unstored
<1>6. call' = [call EXCEPT ![t] = c]
  BY <1>1, <1>4
<1>7. \A p \in PortPins : /\ p \in gpio'.output => p \in gpio.output \/ MaySet(p)
                          /\ p \in gpio.output => p \in gpio'.output \/ MayClear(p)
  BY <1>1, <1>3 DEF CallAsked
<1> HIDE DEF c
<1>8. QED
  BY <1>1, <1>2, <1>5, <1>6, <1>7, AskedStep

LEMMA NextKeepsAskedInv ==
    ASSUME HighReadsLow, PortInv, HistoryInv, AskedInv, [Next]_vars
    PROVE  AskedInv'
<1>1. CASE UNCHANGED vars
  BY <1>1 DEF vars, AskedInv, CallAsked, MaySet, MayClear, Unstored, InLoop, LevelsWereAsked
<1>2. QED
  BY <1>1, NextCases, DisturbKeepsAskedInv, BeginKeepsAskedInv, UpdateKeepsAskedInv,
     ReinitKeepsAskedInv

\* However updates, reinits and set calls of all threads overlap, a pin moves
\* only if it was an output in the mask of a call in progress, and only to a level
\* its IO was set to meanwhile, except that overlapping calls and reinits may
\* switch it off (bcm2835.c 38-58, 91-99).  It takes that a pin's high level is
\* not stored as a byte that reads as TRUE: see HighReadsLow.
THEOREM PortLevelsWereAsked ==
    ASSUME HighReadsLow
    PROVE  Spec => []LevelsWereAsked
<1>1. Init => PortInv /\ HistoryInv /\ AskedInv
  BY InitEstablishesPortInv, InitEstablishesHistoryInv, InitEstablishesAskedInv
<1>2. PortInv /\ HistoryInv /\ AskedInv /\ [Next]_vars => (PortInv /\ HistoryInv /\ AskedInv)'
  BY NextKeepsPortInv, NextKeepsHistoryInv, NextKeepsAskedInv
<1>3. AskedInv => LevelsWereAsked
  BY DEF AskedInv
<1>4. QED
  BY <1>1, <1>2, <1>3, PTL DEF Spec

-----------------------------------------------------------------------------
(* What an update leaves behind that nobody disturbs.                      *)

\* What it makes of a pin: its output, the level it reads of it, and the state it
\* stores.
Final(p)     == IF p \in epoch.drivable THEN epoch.asked[p] = {1} ELSE p \in epoch.before
On(p)        == IF p \in epoch.drivable THEN epoch.asked[p] = {1} ELSE LevelIsHigh(p)
Stored(p)    == io[p].state = IF On(p) /\ p \in epoch.mask THEN StateByte(p) ELSE 0
Untouched(p) == epoch.asked[p] = {Level(io[p].state)}

\* The pin is in the mask the update gathers for gpset, or gpclr, as it should be.
InSet(c, p) == p \in c.set <=> p \in epoch.drivable /\ epoch.asked[p] = {1}
InClr(c, p) == p \in c.clr <=> p \in epoch.drivable /\ epoch.asked[p] = {0}

\* An IO the loop has passed, one it has not come to, and the one it is at.
Passed(c, p) == Stored(p) /\ InSet(c, p) /\ InClr(c, p)
Ahead(c, p)  == Untouched(p) /\ p \notin c.set /\ p \notin c.clr
Current(c, p) ==
    /\ Untouched(p)
    /\ IF c.pc \in {"mode", "set"} THEN p \notin c.set ELSE InSet(c, p)
    /\ IF c.pc \in {"mode", "set", "clr"} THEN p \notin c.clr ELSE InClr(c, p)
    /\ c.pc \in {"set", "clr"} => (c.flag <=> p \in epoch.drivable)
    /\ c.pc = "store" => (c.flag <=> io[p].mode = ModeIn /\ p \in c.mask /\ p \in c.lev)

\* The stores to gpclr and gpset, and the outputs between them.
Driving(c) == c.pc \in {"clr0", "set0", "clr1", "set1"}
Output(c, p) ==
    p \in gpio.output <=>
        IF c.pc \in {"clr1", "set1"} /\ Bank(p) = 0 THEN Final(p)
        ELSE /\ p \in epoch.before
             /\ \/ c.pc = "set0" /\ Bank(p) = 0
                \/ c.pc = "set1"
                => p \notin c.clr

Updating(c) ==
    /\ c.pc = "levels" \/ InLoop(c) \/ Driving(c)
    /\ \A p \in PortPins : Output(c, p)
    /\ c.pc = "levels" => /\ c.k = 1
                          /\ \A p \in PortPins :
                                /\ Ahead(c, p)
                                /\ p \in c.lev <=> Bank(p) \notin c.left /\ LevelIsHigh(p)
    /\ InLoop(c) => /\ \A j \in 1..Len(IOs) : /\ j < c.k => Passed(c, IOs[j])
                                              /\ j > c.k => Ahead(c, IOs[j])
                    /\ Current(c, IOs[c.k])
                    /\ \A p \in PortPins : p \in c.lev <=> LevelIsHigh(p)
    /\ Driving(c) => \A p \in PortPins : Passed(c, p)

Updated == \A p \in PortPins : (p \in gpio.output <=> Final(p)) /\ Stored(p)

LoneUpdate == Alone /\ ~epoch.reinit

UpdateInv ==
    LoneUpdate =>
        /\ \A p \in PortPins : epoch.asked[p] \in {{0}, {1}}
        /\ \A t \in Threads : call[t].pc # "idle" => Updating(call[t])
        /\ AllIdle => Updated

-----------------------------------------------------------------------------
\* What a step of a lone update starts from.
LEMMA LoneUpdateFacts ==
    ASSUME PortInv, HistoryInv, UpdateInv, LoneUpdate, NEW t \in Threads, UpdateStep(t)
    PROVE  /\ Updating(call[t]) /\ call[t] \in CallType /\ call[t].mask = epoch.mask
           /\ Len(IOs) \in Nat /\ call[t].k \in 1..Len(IOs)
           /\ Pin(t) \in PortPins /\ Pin(t) = IOs[call[t].k]
           /\ \A u \in Threads : u # t => call'[u].pc = "idle"
           /\ \A p \in PortPins : /\ p \in epoch.drivable <=> p \in epoch.mask /\ io[p].mode = ModeOut
                                  /\ epoch.asked[p] \in {{0}, {1}}
                                  /\ io[p].mode \in {ModeIn, ModeOut}
<1>1. call[t].pc # "idle" /\ \A u \in Threads : u # t => call'[u] = call[u]
  BY UpdateStepFacts DEF UpdatingAt
<1>2. call[t] \in CallType /\ Pin(t) \in PortPins /\ Pin(t) = IOs[call[t].k]
  BY CallFacts DEF Pin
<1>3. Updating(call[t]) /\ call[t].mask = epoch.mask
  BY <1>1 DEF UpdateInv, LoneUpdate, HistoryInv, InHistory
<1>4. \A u \in Threads : u # t => call'[u].pc = "idle"
  BY <1>1 DEF HistoryInv, LoneUpdate, Alone
<1>5. \A p \in PortPins : /\ p \in epoch.drivable <=> p \in epoch.mask /\ io[p].mode = ModeOut
                          /\ epoch.asked[p] \in {{0}, {1}}
                          /\ io[p].mode \in {ModeIn, ModeOut}
  BY DEF HistoryInv, UpdateInv, LoneUpdate, PortInv, Shapes, IOShape
<1>6. QED
  BY <1>2, <1>3, <1>4, <1>5, PinFacts DEF CallType

\* A step that only reads.
LEMMA LoneUpdateReads ==
    ASSUME PortInv, NEW t \in Threads, UpdateStep(t), NEW pc, NEW c, Reads(t, pc, c), Updating(c)
    PROVE  Updating(call[t])'
<1>1. call'[t] = c /\ UNCHANGED <<io, gpio, wires, epoch>>
  BY DEF Reads, PortInv, Shapes
<1>2. \A p \in PortPins : LevelIsHigh(p)' = LevelIsHigh(p)
  BY <1>1 DEF LevelIsHigh
<1>3. \A p \in PortPins : /\ Passed(call[t], p)' <=> Passed(c, p)
                          /\ Ahead(call[t], p)' <=> Ahead(c, p)
                          /\ Current(call[t], p)' <=> Current(c, p)
                          /\ Output(call[t], p)' <=> Output(c, p)
  <2> TAKE p \in PortPins
  <2>1. (InSet(call[t], p)' <=> InSet(c, p)) /\ (InClr(call[t], p)' <=> InClr(c, p))
    BY <1>1 DEF InSet, InClr
  <2>2. (Stored(p)' <=> Stored(p)) /\ (Untouched(p)' <=> Untouched(p)) /\ (Final(p)' <=> Final(p))
    BY <1>1, <1>2 DEF Stored, Untouched, Final, On, Level
  <2>3. Output(call[t], p)' <=> Output(c, p)
    BY <1>1, <2>2 DEF Output
  <2>4. Current(call[t], p)' <=> Current(c, p)
    BY <1>1, <2>1, <2>2 DEF Current
  <2>5. QED
    BY <1>1, <2>1, <2>2, <2>3, <2>4 DEF Passed, Ahead
<1>4. (InLoop(call[t])' <=> InLoop(c)) /\ (Driving(call[t])' <=> Driving(c))
  BY <1>1 DEF InLoop, Driving
<1>5. CASE c.pc = "levels"
  BY <1>1, <1>2, <1>3, <1>5 DEF Updating, InLoop, Driving
<1>6. CASE InLoop(c)
  <2>1. \A j \in 1..Len(IOs) : IOs[j] \in PortPins
    BY PinFacts
  <2>2. c.k \in 1..Len(IOs)
    <3>1. PortInv'
      BY UpdateKeepsPortInv
    <3>2. QED
      BY <1>1, <3>1 DEF PortInv, Shapes, CallType
  <2>3. QED
    BY <1>1, <1>2, <1>3, <1>4, <1>6, <2>1, <2>2 DEF Updating, InLoop, Driving
<1>7. CASE Driving(c)
  BY <1>1, <1>2, <1>3, <1>4, <1>7 DEF Updating, InLoop, Driving
<1>8. QED
  BY <1>5, <1>6, <1>7 DEF Updating

\* The steps of the loop over the IOs, up to the store.
LEMMA LoneUpdateLoop ==
    ASSUME PortInv, HistoryInv, UpdateInv, LoneUpdate, NEW t \in Threads, UpdateStep(t),
           \/ ReadLevels(t) \/ LoadMode(t) \/ LoadForSet(t) \/ LoadForClear(t) \/ LoadModeAgain(t)
    PROVE  Updating(call[t])'
<1>0. /\ Updating(call[t]) /\ call[t] \in CallType /\ call[t].mask = epoch.mask
      /\ Len(IOs) \in Nat /\ call[t].k \in 1..Len(IOs)
      /\ Pin(t) \in PortPins /\ Pin(t) = IOs[call[t].k]
      /\ \A p \in PortPins : /\ p \in epoch.drivable <=> p \in epoch.mask /\ io[p].mode = ModeOut
                             /\ epoch.asked[p] \in {{0}, {1}}
      /\ \A j, k \in 1..Len(IOs) : IOs[j] = IOs[k] => j = k
      /\ \A j \in 1..Len(IOs) : IOs[j] \in PortPins
  BY LoneUpdateFacts, PinFacts, PortAssumption
<1>1. CASE ReadLevels(t)
  <2>1. PICK b \in call[t].left :
           Reads(t, "levels",
                 [call[t] EXCEPT !.lev = @ \cup {p \in PortPins : Bank(p) = b /\ LevelIsHigh(p)},
                                 !.left = call[t].left \ {b},
                                 !.pc = IF call[t].left \ {b} = {} THEN "mode" ELSE "levels"])
    BY <1>1 DEF ReadLevels
  <2> DEFINE seen == {p \in PortPins : Bank(p) = b /\ LevelIsHigh(p)}
             c == [call[t] EXCEPT !.lev = @ \cup seen, !.left = call[t].left \ {b},
                                  !.pc = IF call[t].left \ {b} = {} THEN "mode" ELSE "levels"]
  <2>2. /\ c.k = call[t].k /\ c.set = call[t].set /\ c.clr = call[t].clr
        /\ c.left = call[t].left \ {b} /\ c.lev = call[t].lev \cup seen
        /\ c.pc = IF c.left = {} THEN "mode" ELSE "levels"
    BY <1>0 DEF CallType
  <2>3. call[t].pc = "levels" /\ Reads(t, "levels", c)
    BY <2>1 DEF Reads, At
  <2>4. call[t].k = 1 /\ \A p \in PortPins : p \in seen <=> Bank(p) = b /\ LevelIsHigh(p)
    BY <1>0, <2>3 DEF Updating
  <2> HIDE DEF c, seen
  <2>5. \A p \in PortPins : /\ Ahead(c, p) /\ Output(c, p)
                            /\ p \in c.lev <=> Bank(p) \notin c.left /\ LevelIsHigh(p)
    <3> TAKE p \in PortPins
    <3>1. Ahead(c, p)
      BY <1>0, <2>2, <2>3 DEF Updating, Ahead
    <3>2. Output(c, p)
      BY <1>0, <2>2, <2>3 DEF Updating, Output
    <3>3. p \in c.lev <=> Bank(p) \notin c.left /\ LevelIsHigh(p)
      BY <1>0, <2>1, <2>2, <2>3, <2>4 DEF Updating
    <3>4. QED
      BY <3>1, <3>2, <3>3
  <2>6. Updating(c)
    <3>1. CASE c.left = {}
      <4>1. c.pc = "mode" /\ c.k = 1 /\ InLoop(c) /\ ~Driving(c)
        BY <2>2, <2>4, <3>1 DEF InLoop, Driving
      <4>2. \A p \in PortPins : Current(c, p)
        BY <2>5, <4>1 DEF Current, Ahead
      <4>3. QED
        BY <1>0, <2>5, <3>1, <4>1, <4>2 DEF Updating
    <3>2. CASE c.left # {}
      <4>1. c.pc = "levels" /\ c.k = 1 /\ ~InLoop(c) /\ ~Driving(c)
        BY <2>2, <2>4, <3>2 DEF InLoop, Driving
      <4>2. QED
        BY <2>5, <4>1 DEF Updating
    <3>3. QED
      BY <3>1, <3>2
  <2>7. QED
    BY <2>3, <2>6, LoneUpdateReads
<1>2. ASSUME NEW c, c.pc \in {"set", "clr", "again", "store"}, c.k = call[t].k,
             c.lev = call[t].lev, call[t].pc \in {"mode", "set", "clr", "again"},
             \A p \in PortPins : p # Pin(t) => /\ p \in c.set <=> p \in call[t].set
                                               /\ p \in c.clr <=> p \in call[t].clr,
             Current(c, Pin(t))
      PROVE  Updating(c)
  <2>1. InLoop(c) /\ InLoop(call[t]) /\ ~Driving(c) /\ c.pc # "levels"
    BY <1>2 DEF InLoop, Driving
  <2>2. \A p \in PortPins : Output(c, p)
    BY <1>0, <1>2 DEF Updating, Output
  <2>3. \A j \in 1..Len(IOs) : /\ j < c.k => Passed(c, IOs[j])
                               /\ j > c.k => Ahead(c, IOs[j])
    <3>1. ASSUME NEW j \in 1..Len(IOs), j # call[t].k
          PROVE  /\ Passed(call[t], IOs[j]) => Passed(c, IOs[j])
                 /\ Ahead(call[t], IOs[j]) => Ahead(c, IOs[j])
      <4>1. IOs[j] \in PortPins /\ IOs[j] # Pin(t)
        BY <1>0, <3>1
      <4>2. QED
        BY <1>2, <4>1 DEF Passed, Ahead, InSet, InClr
    <3>2. QED
      BY <1>0, <1>2, <2>1, <3>1 DEF Updating
  <2>4. QED
    BY <1>0, <1>2, <2>1, <2>2, <2>3 DEF Updating
<1>3. call[t].pc \in {"mode", "set", "clr", "again"} => Current(call[t], Pin(t))
  BY <1>0 DEF Updating, InLoop
<1>4. CASE LoadMode(t)
  <2> DEFINE flag == io[Pin(t)].mode = ModeOut /\ Pin(t) \in call[t].mask
             c == [call[t] EXCEPT !.pc = "set", !.flag = flag]
  <2>1. /\ c.pc = "set" /\ c.k = call[t].k /\ c.lev = call[t].lev
        /\ c.set = call[t].set /\ c.clr = call[t].clr /\ c.flag = flag
    BY <1>0 DEF CallType
  <2>2. call[t].pc = "mode" /\ Reads(t, "mode", c)
    BY <1>4 DEF LoadMode, Reads, At
  <2>3. c.flag <=> Pin(t) \in epoch.drivable
    BY <1>0, <2>1
  <2> HIDE DEF c, flag
  <2>4. Current(c, Pin(t))
    BY <1>3, <2>1, <2>2, <2>3 DEF Current
  <2>5. Updating(c)
    BY <1>2, <2>1, <2>2, <2>4
  <2>6. QED
    BY <2>2, <2>5, LoneUpdateReads
<1>5. CASE LoadForSet(t)
  <2> DEFINE s == Gathered(call[t].set, t, 1)
             c == [call[t] EXCEPT !.pc = "clr", !.set = s]
  <2>1. /\ c.pc = "clr" /\ c.k = call[t].k /\ c.lev = call[t].lev
        /\ c.set = s /\ c.clr = call[t].clr /\ c.flag = call[t].flag
    BY <1>0 DEF CallType
  <2>2. call[t].pc = "set" /\ Reads(t, "set", c)
    BY <1>5 DEF LoadForSet, Reads, At
  <2>3. /\ \A p \in PortPins : p # Pin(t) => (p \in s <=> p \in call[t].set)
        /\ Pin(t) \notin call[t].set =>
              (Pin(t) \in s <=> call[t].flag /\ Level(io[Pin(t)].state) = 1)
    BY DEF Gathered
  <2> HIDE DEF c, s
  <2>4. epoch.asked[Pin(t)] = {Level(io[Pin(t)].state)}
    BY <1>3, <2>2 DEF Current, Untouched
  <2>5. InSet(c, Pin(t))
    BY <1>3, <2>1, <2>2, <2>3, <2>4 DEF Current, InSet
  <2>6. Current(c, Pin(t))
    BY <1>3, <2>1, <2>2, <2>5 DEF Current
  <2>7. Updating(c)
    BY <1>2, <2>1, <2>2, <2>3, <2>6
  <2>8. QED
    BY <2>2, <2>7, LoneUpdateReads
<1>6. CASE LoadForClear(t)
  <2> DEFINE s == Gathered(call[t].clr, t, 0)
             c == [call[t] EXCEPT !.pc = "again", !.clr = s]
  <2>1. /\ c.pc = "again" /\ c.k = call[t].k /\ c.lev = call[t].lev
        /\ c.set = call[t].set /\ c.clr = s
    BY <1>0 DEF CallType
  <2>2. call[t].pc = "clr" /\ Reads(t, "clr", c)
    BY <1>6 DEF LoadForClear, Reads, At
  <2>3. /\ \A p \in PortPins : p # Pin(t) => (p \in s <=> p \in call[t].clr)
        /\ Pin(t) \notin call[t].clr =>
              (Pin(t) \in s <=> call[t].flag /\ Level(io[Pin(t)].state) = 0)
    BY DEF Gathered
  <2> HIDE DEF c, s
  <2>4. epoch.asked[Pin(t)] = {Level(io[Pin(t)].state)}
    BY <1>3, <2>2 DEF Current, Untouched
  <2>5. InClr(c, Pin(t))
    BY <1>3, <2>1, <2>2, <2>3, <2>4 DEF Current, InClr
  <2>6. Current(c, Pin(t))
    BY <1>3, <2>1, <2>2, <2>5 DEF Current, InSet
  <2>7. Updating(c)
    BY <1>2, <2>1, <2>2, <2>3, <2>6
  <2>8. QED
    BY <2>2, <2>7, LoneUpdateReads
<1>7. CASE LoadModeAgain(t)
  <2> DEFINE flag == /\ io[Pin(t)].mode = ModeIn
                     /\ Pin(t) \in call[t].mask \cap call[t].lev
             c == [call[t] EXCEPT !.pc = "store", !.flag = flag]
  <2>1. /\ c.pc = "store" /\ c.k = call[t].k /\ c.lev = call[t].lev /\ c.mask = call[t].mask
        /\ c.set = call[t].set /\ c.clr = call[t].clr /\ c.flag = flag
    BY <1>0 DEF CallType
  <2>2. call[t].pc = "again" /\ Reads(t, "again", c)
    BY <1>7 DEF LoadModeAgain, Reads, At
  <2>3. c.flag <=> io[Pin(t)].mode = ModeIn /\ Pin(t) \in c.mask /\ Pin(t) \in c.lev
    BY <2>1
  <2> HIDE DEF c, flag
  <2>4. Current(c, Pin(t))
    BY <1>3, <2>1, <2>2, <2>3 DEF Current, InSet, InClr
  <2>5. Updating(c)
    BY <1>2, <2>1, <2>2, <2>4
  <2>6. QED
    BY <2>2, <2>5, LoneUpdateReads
<1>8. QED
  BY <1>1, <1>4, <1>5, <1>6, <1>7

\* The store of an IO's state: it is the pin's level, and the loop goes on.
LEMMA LoneUpdateStore ==
    ASSUME PortInv, HistoryInv, UpdateInv, LoneUpdate, NEW t \in Threads, StoreState(t)
    PROVE  Updating(call[t])'
<1>0. /\ Updating(call[t]) /\ call[t] \in CallType /\ call[t].mask = epoch.mask
      /\ Len(IOs) \in Nat /\ call[t].k \in 1..Len(IOs)
      /\ Pin(t) \in PortPins /\ Pin(t) = IOs[call[t].k]
      /\ \A p \in PortPins : /\ p \in epoch.drivable <=> p \in epoch.mask /\ io[p].mode = ModeOut
                             /\ epoch.asked[p] \in {{0}, {1}}
                             /\ io[p].mode \in {ModeIn, ModeOut}
      /\ \A j, k \in 1..Len(IOs) : IOs[j] = IOs[k] => j = k
      /\ \A j \in 1..Len(IOs) : IOs[j] \in PortPins
      /\ \A p \in PortPins : \E j \in 1..Len(IOs) : p = IOs[j]
  <2>1. UpdateStep(t)
    BY DEF UpdateStep
  <2>2. QED
    BY <2>1, LoneUpdateFacts, PinFacts, PortAssumption DEF PortPins
<1>a. PICK n \in 1..Len(IOs) : n = call[t].k
  BY <1>0
<1>b. PICK p \in PortPins : p = Pin(t) /\ p = IOs[n]
  BY <1>0, <1>a
<1> DEFINE c == NextIO(call[t], "mode", "clr0")
           state == IF call[t].flag \/ p \in call[t].set THEN StateByte(p) ELSE 0
<1>1. /\ call[t].pc = "store" /\ io' = [io EXCEPT ![p].state = state]
      /\ call' = [call EXCEPT ![t] = c] /\ UNCHANGED <<gpio, wires, epoch>>
  BY <1>b DEF StoreState, At
<1>2. InLoop(call[t]) /\ Current(call[t], p)
  BY <1>0, <1>1, <1>a, <1>b DEF Updating, InLoop
<1>3. state = IF On(p) /\ p \in epoch.mask THEN StateByte(p) ELSE 0
  <2>1. InSet(call[t], p) /\ InClr(call[t], p)
    BY <1>1, <1>2 DEF Current
  <2>2. call[t].flag <=> io[p].mode = ModeIn /\ p \in epoch.mask /\ LevelIsHigh(p)
    BY <1>0, <1>1, <1>2 DEF Current, Updating
  <2>3. call[t].flag \/ p \in call[t].set <=> On(p) /\ p \in epoch.mask
    BY <1>0, <2>1, <2>2 DEF InSet, On, ModeIn, ModeOut
  <2>4. QED
    BY <2>3
<1> HIDE DEF state
<1>4. /\ c.set = call[t].set /\ c.clr = call[t].clr /\ c.lev = call[t].lev
      /\ \/ c.pc = "mode" /\ c.k = n + 1 /\ n < Len(IOs)
         \/ c.pc = "clr0" /\ n = Len(IOs)
  BY <1>0, <1>a DEF CallType, NextIO
<1> HIDE DEF c
<1>5. call'[t] = c
  BY <1>1 DEF PortInv, Shapes
<1>6. /\ io'[p].state = state
      /\ \A q \in PortPins : q # p => io'[q] = io[q]
  BY <1>0, <1>1 DEF PortInv, Shapes, IOShape
<1>7. \A q \in PortPins : /\ LevelIsHigh(q)' <=> LevelIsHigh(q)
                          /\ On(q)' <=> On(q)
                          /\ Final(q)' <=> Final(q)
  BY <1>1 DEF LevelIsHigh, On, Final
<1>8. \A q \in PortPins : /\ InSet(call[t], q)' <=> InSet(call[t], q)
                          /\ InClr(call[t], q)' <=> InClr(call[t], q)
  BY <1>1, <1>4, <1>5 DEF InSet, InClr
<1>9. Passed(call[t], p)'
  <2>1. Stored(p)'
    BY <1>1, <1>3, <1>6, <1>7 DEF Stored
  <2>2. InSet(call[t], p) /\ InClr(call[t], p)
    BY <1>1, <1>2 DEF Current
  <2>3. QED
    BY <1>8, <2>1, <2>2 DEF Passed
<1>10. ASSUME NEW q \in PortPins, q # p
       PROVE  /\ Passed(call[t], q) => Passed(call[t], q)'
              /\ Ahead(call[t], q) => Ahead(call[t], q)'
  <2>1. io'[q] = io[q]
    BY <1>6, <1>10
  <2>2. Stored(q) => Stored(q)'
    BY <1>1, <1>7, <2>1 DEF Stored
  <2>3. Untouched(q) => Untouched(q)'
    BY <1>1, <2>1 DEF Untouched, Level
  <2>4. QED
    BY <1>4, <1>5, <1>8, <2>2, <2>3 DEF Passed, Ahead
<1>11. \A q \in PortPins : Output(call[t], q)'
  <2>1. c.pc \notin {"set0", "clr1", "set1"}
    BY <1>4
  <2>2. \A q \in PortPins : q \in gpio.output <=> q \in epoch.before
    BY <1>0, <1>1 DEF Updating, Output
  <2>3. QED
    BY <1>1, <1>5, <2>1, <2>2 DEF Output
<1>12. /\ \A j \in 1..Len(IOs) : j < n => Passed(call[t], IOs[j])
       /\ \A j \in 1..Len(IOs) : j > n => Ahead(call[t], IOs[j])
  BY <1>0, <1>2, <1>a DEF Updating
<1>13. /\ \A j \in 1..Len(IOs) : j <= n => Passed(call[t], IOs[j])'
       /\ \A j \in 1..Len(IOs) : j > n => Ahead(call[t], IOs[j])'
  <2>1. ASSUME NEW j \in 1..Len(IOs), j <= n PROVE Passed(call[t], IOs[j])'
    <3>1. CASE j = n
      BY <1>9, <1>b, <3>1
    <3>2. CASE j < n
      <4>1. IOs[j] \in PortPins /\ IOs[j] # p /\ Passed(call[t], IOs[j])
        BY <1>0, <1>12, <1>b, <3>2
      <4>2. QED
        BY <1>10, <4>1
    <3>3. QED
      BY <1>0, <2>1, <3>1, <3>2
  <2>2. ASSUME NEW j \in 1..Len(IOs), j > n PROVE Ahead(call[t], IOs[j])'
    <3>1. IOs[j] \in PortPins /\ IOs[j] # p /\ Ahead(call[t], IOs[j])
      BY <1>0, <1>12, <1>b, <2>2
    <3>2. QED
      BY <1>10, <3>1
  <2>3. QED
    BY <2>1, <2>2
<1>14. CASE c.pc = "mode" /\ c.k = n + 1 /\ n < Len(IOs)
  <2>1. c.k \in 1..Len(IOs) /\ InLoop(call[t])' /\ ~Driving(call[t])' /\ call'[t].pc # "levels"
    BY <1>0, <1>5, <1>14 DEF InLoop, Driving
  <2>2. \A j \in 1..Len(IOs) : /\ j < c.k => Passed(call[t], IOs[j])'
                               /\ j > c.k => Ahead(call[t], IOs[j])'
    BY <1>0, <1>13, <1>14
  <2>3. Ahead(call[t], IOs[n + 1])'
    BY <1>0, <1>13, <1>14, <2>1
  <2>4. Current(call[t], IOs[n + 1])'
    BY <1>5, <1>14, <2>3 DEF Current, Ahead
  <2>5. \A q \in PortPins : q \in c.lev <=> LevelIsHigh(q)
    BY <1>0, <1>2, <1>4 DEF Updating
  <2>6. (\A q \in PortPins : q \in call[t].lev <=> LevelIsHigh(q))'
    BY <1>5, <1>7, <2>5
  <2>7. (\A j \in 1..Len(IOs) : /\ j < call[t].k => Passed(call[t], IOs[j])
                                /\ j > call[t].k => Ahead(call[t], IOs[j]))'
    BY <1>5, <2>2
  <2>8. QED
    BY <1>5, <1>11, <1>14, <2>1, <2>4, <2>6, <2>7 DEF Updating
<1>15. CASE c.pc = "clr0" /\ n = Len(IOs)
  <2>1. Driving(call[t])' /\ ~InLoop(call[t])' /\ call'[t].pc # "levels"
    BY <1>5, <1>15 DEF InLoop, Driving
  <2>2. (\A q \in PortPins : Passed(call[t], q))'
    <3> SUFFICES ASSUME NEW q \in PortPins PROVE Passed(call[t], q)'
      OBVIOUS
    <3>1. PICK j \in 1..Len(IOs) : q = IOs[j]
      BY <1>0
    <3>2. Passed(call[t], IOs[j])'
      BY <1>0, <1>13, <1>15
    <3>3. QED
      BY <3>1, <3>2
  <2>3. QED
    BY <1>11, <2>1, <2>2 DEF Updating
<1>16. QED
  BY <1>4, <1>14, <1>15

\* With both masks gathered, the four stores put every pin where it belongs.
LEMMA MasksGiveFinal ==
    ASSUME NEW c, NEW p, epoch.asked[p] \in {{0}, {1}}, InSet(c, p), InClr(c, p)
    PROVE  /\ Final(p) <=> (p \in epoch.before /\ p \notin c.clr) \/ p \in c.set
           /\ p \in c.clr => p \notin c.set
           /\ p \notin epoch.drivable => p \notin c.clr /\ p \notin c.set
<1>1. {0} # {1}
  <2>1. 0 \in {0} /\ 0 \notin {1}
    OBVIOUS
  <2>2. QED
    BY <2>1
<1>2. QED
  BY <1>1 DEF InSet, InClr, Final

\* The last step ends the call: Updated.  The others go on.
LEMMA LoneUpdateDrive ==
    ASSUME PortInv, HistoryInv, UpdateInv, LoneUpdate, NEW t \in Threads, Drive(t)
    PROVE  /\ call'[t].pc # "idle" => Updating(call[t])'
           /\ call'[t].pc = "idle" => Updated'
<1>0. /\ Updating(call[t]) /\ call[t] \in CallType
      /\ \A p \in PortPins : epoch.asked[p] \in {{0}, {1}}
  <2>1. UpdateStep(t)
    BY DEF UpdateStep
  <2>2. QED
    BY <2>1, LoneUpdateFacts
<1>1. Driving(call[t])
  BY DEF Drive, Writes, At, Driving
<1>2. \A p \in PortPins : Passed(call[t], p) /\ Output(call[t], p)
  BY <1>0, <1>1 DEF Updating
<1>3. \A p \in PortPins : Bank(p) \in {0, 1}
  BY PinFacts DEF Bank, BcmPins
<1>4. gpio \in GpioRegisters /\ call \in [Threads -> CallType]
  BY DEF PortInv, Shapes
<1>5. ASSUME NEW pc, NEW next, NEW g, g.gpfsel = gpio.gpfsel,
             call[t].pc = pc, next \in {"set0", "clr1", "set1"},
             Writes(t, pc, g, [call[t] EXCEPT !.pc = next]),
             \A p \in PortPins : p \notin epoch.drivable => (p \in g.output <=> p \in gpio.output),
             \A p \in PortPins :
                p \in g.output <=>
                   IF next \in {"clr1", "set1"} /\ Bank(p) = 0 THEN Final(p)
                   ELSE /\ p \in epoch.before
                        /\ \/ next = "set0" /\ Bank(p) = 0
                           \/ next = "set1"
                           => p \notin call[t].clr
      PROVE  call'[t].pc # "idle" /\ Updating(call[t])'
  <2> DEFINE c == [call[t] EXCEPT !.pc = next]
  <2>1. c.pc = next /\ c.set = call[t].set /\ c.clr = call[t].clr
    BY <1>0 DEF CallType
  <2>2. call' = [call EXCEPT ![t] = c] /\ gpio' = g /\ UNCHANGED <<io, wires, epoch>>
    BY <1>5 DEF Writes
  <2> HIDE DEF c
  <2>3. call'[t] = c
    BY <1>4, <2>2
  <2>4. Driving(call[t])' /\ ~InLoop(call[t])' /\ call'[t].pc \notin {"levels", "idle"}
    BY <1>5, <2>1, <2>3 DEF Driving, InLoop
  <2>5. (\A p \in PortPins : Output(call[t], p))'
    BY <1>5, <2>1, <2>2, <2>3 DEF Output, Final
  <2>6. (\A p \in PortPins : Passed(call[t], p))'
    <3> SUFFICES ASSUME NEW p \in PortPins PROVE Passed(call[t], p)'
      OBVIOUS
    <3>1. InSet(call[t], p)' /\ InClr(call[t], p)'
      BY <1>2, <2>1, <2>2, <2>3 DEF Passed, InSet, InClr
    <3>2. On(p)' <=> On(p)
      BY <1>5, <2>2 DEF On, LevelIsHigh
    <3>3. Stored(p)'
      BY <1>2, <2>2, <3>2 DEF Passed, Stored
    <3>4. QED
      BY <3>1, <3>3 DEF Passed
  <2>7. QED
    BY <2>4, <2>5, <2>6 DEF Updating
<1>6. \A p \in PortPins :
         /\ Final(p) <=> (p \in epoch.before /\ p \notin call[t].clr) \/ p \in call[t].set
         /\ p \in call[t].clr => p \notin call[t].set
         /\ p \notin epoch.drivable => p \notin call[t].clr /\ p \notin call[t].set
  BY <1>0, <1>2, MasksGiveFinal DEF Passed
<1>7. \A b : /\ ClearPins(InBank(call[t].clr, b)).gpfsel = gpio.gpfsel
             /\ SetPins(InBank(call[t].set, b)).gpfsel = gpio.gpfsel
             /\ \A p \in PortPins :
                   /\ p \in ClearPins(InBank(call[t].clr, b)).output <=>
                         p \in gpio.output /\ ~(p \in call[t].clr /\ Bank(p) = b)
                   /\ p \in SetPins(InBank(call[t].set, b)).output <=>
                         p \in gpio.output \/ (p \in call[t].set /\ Bank(p) = b)
  BY <1>4 DEF ClearPins, SetPins, InBank, GpioRegisters
<1>8. CASE Writes(t, "clr0", ClearPins(InBank(call[t].clr, 0)), [call[t] EXCEPT !.pc = "set0"])
  <2> DEFINE g == ClearPins(InBank(call[t].clr, 0))
  <2>1. call[t].pc = "clr0"
    BY <1>8 DEF Writes, At
  <2>2. \A p \in PortPins : p \in gpio.output <=> p \in epoch.before
    BY <1>2, <2>1 DEF Output
  <2>3. /\ g.gpfsel = gpio.gpfsel
        /\ \A p \in PortPins : p \in g.output <=> p \in gpio.output /\ ~(p \in call[t].clr /\ Bank(p) = 0)
    BY <1>7
  <2> HIDE DEF g
  <2>4. Writes(t, "clr0", g, [call[t] EXCEPT !.pc = "set0"])
    BY <1>8 DEF g
  <2>5. QED
    BY <1>5, <1>6, <2>1, <2>2, <2>3, <2>4
<1>9. CASE Writes(t, "set0", SetPins(InBank(call[t].set, 0)), [call[t] EXCEPT !.pc = "clr1"])
  <2> DEFINE g == SetPins(InBank(call[t].set, 0))
  <2>1. call[t].pc = "set0"
    BY <1>9 DEF Writes, At
  <2>2. \A p \in PortPins :
           p \in gpio.output <=> p \in epoch.before /\ (Bank(p) = 0 => p \notin call[t].clr)
    BY <1>2, <2>1 DEF Output
  <2>3. /\ g.gpfsel = gpio.gpfsel
        /\ \A p \in PortPins : p \in g.output <=> p \in gpio.output \/ (p \in call[t].set /\ Bank(p) = 0)
    BY <1>7
  <2> HIDE DEF g
  <2>4. Writes(t, "set0", g, [call[t] EXCEPT !.pc = "clr1"])
    BY <1>9 DEF g
  <2>5. QED
    BY <1>5, <1>6, <2>1, <2>2, <2>3, <2>4
<1>10. CASE Writes(t, "clr1", ClearPins(InBank(call[t].clr, 1)), [call[t] EXCEPT !.pc = "set1"])
  <2> DEFINE g == ClearPins(InBank(call[t].clr, 1))
  <2>1. call[t].pc = "clr1"
    BY <1>10 DEF Writes, At
  <2>2. \A p \in PortPins :
           p \in gpio.output <=> IF Bank(p) = 0 THEN Final(p) ELSE p \in epoch.before
    BY <1>2, <2>1 DEF Output
  <2>3. /\ g.gpfsel = gpio.gpfsel
        /\ \A p \in PortPins : p \in g.output <=> p \in gpio.output /\ ~(p \in call[t].clr /\ Bank(p) = 1)
    BY <1>7
  <2> HIDE DEF g
  <2>4. Writes(t, "clr1", g, [call[t] EXCEPT !.pc = "set1"])
    BY <1>10 DEF g
  <2>5. QED
    BY <1>3, <1>5, <1>6, <2>1, <2>2, <2>3, <2>4
<1>11. CASE Writes(t, "set1", SetPins(InBank(call[t].set, 1)), Idle)
  <2> DEFINE g == SetPins(InBank(call[t].set, 1))
  <2>1. call[t].pc = "set1" /\ call'[t].pc = "idle" /\ gpio' = g /\ UNCHANGED <<io, wires, epoch>>
    <3>1. Idle.pc = "idle"
      BY DEF Idle
    <3>2. QED
      BY <1>4, <1>11, <3>1 DEF Writes, At
  <2>2. \A p \in PortPins :
           p \in gpio.output <=> IF Bank(p) = 0 THEN Final(p)
                                 ELSE p \in epoch.before /\ p \notin call[t].clr
    BY <1>2, <2>1 DEF Output
  <2>3. /\ g.gpfsel = gpio.gpfsel
        /\ \A p \in PortPins : p \in g.output <=> p \in gpio.output \/ (p \in call[t].set /\ Bank(p) = 1)
    BY <1>7
  <2> HIDE DEF g
  <2>4. \A p \in PortPins : p \in gpio'.output <=> Final(p)
    BY <1>3, <1>6, <2>1, <2>2, <2>3
  <2>5. \A p \in PortPins : Stored(p)'
    <3> SUFFICES ASSUME NEW p \in PortPins PROVE Stored(p)'
      OBVIOUS
    <3>1. p \notin epoch.drivable => (p \in gpio'.output <=> p \in gpio.output)
      BY <1>6, <2>1, <2>3
    <3>2. On(p)' <=> On(p)
      BY <2>1, <2>3, <3>1 DEF On, LevelIsHigh
    <3>3. QED
      BY <1>2, <2>1, <3>2 DEF Passed, Stored
  <2>6. Updated'
    BY <2>1, <2>4, <2>5 DEF Updated, Final
  <2>7. QED
    BY <2>1, <2>6
<1>12. QED
  BY <1>8, <1>9, <1>10, <1>11 DEF Drive

\* A call that finds no other in progress: an update starts from the outputs and
\* the states there are.
LEMMA BeginKeepsUpdateInv ==
    ASSUME PortInv, HistoryInv, NEW t \in Threads, NEW mask \in SUBSET PortPins,
           NEW pc, NEW left, (pc = "levels" /\ left = Banks) \/ pc = "fselRead",
           Begins(t, mask, pc, left)
    PROVE  UpdateInv'
<1>0. Begun(t, mask, pc, left)
  BY BeginFacts
<1>1. CASE ~AllIdle
  BY <1>0, <1>1 DEF Begun, EpochType, UpdateInv, LoneUpdate, Alone
<1>2. CASE pc = "fselRead" /\ AllIdle
  BY <1>0, <1>2 DEF Begun, UpdateInv, LoneUpdate
<1>3. CASE pc = "levels" /\ left = Banks /\ AllIdle
  <2>1. /\ UNCHANGED <<io, gpio, wires>>
        /\ call'[t].pc = "levels" /\ call'[t].left = Banks /\ call'[t].k = 1
        /\ call'[t].set = {} /\ call'[t].clr = {} /\ call'[t].lev = {}
        /\ \A u \in Threads : u # t => call'[u] = call[u]
        /\ epoch'.before = gpio.output
        /\ \A p \in PortPins : epoch'.asked[p] = {Level(io[p].state)}
    BY <1>0, <1>3 DEF Begun
  <2>2. (\A p \in PortPins : epoch.asked[p] \in {{0}, {1}})'
    BY <2>1, StatesHaveALevel
  <2>3. \A p \in PortPins : Bank(p) \in Banks
    BY PinFacts DEF Bank, Banks, BcmPins
  <2>4. (\A p \in PortPins : Output(call[t], p) /\ Ahead(call[t], p))'
    BY <2>1 DEF Output, Ahead, Untouched, Level
  <2>5. (\A p \in PortPins : p \in call[t].lev <=> Bank(p) \notin call[t].left /\ LevelIsHigh(p))'
    BY <2>1, <2>3
  <2>6. Updating(call[t])'
    BY <2>1, <2>4, <2>5 DEF Updating, InLoop, Driving
  <2>7. (\A u \in Threads : call[u].pc # "idle" => Updating(call[u]))' /\ ~AllIdle'
    BY <1>3, <2>1, <2>6 DEF AllIdle
  <2>8. QED
    BY <2>2, <2>7 DEF UpdateInv
<1>4. QED
  BY <1>1, <1>2, <1>3

LEMMA NextKeepsUpdateInv ==
    ASSUME PortInv, HistoryInv, UpdateInv, [Next]_vars
    PROVE  UpdateInv'
<1>1. CASE UNCHANGED vars
  <2>1. UNCHANGED <<io, gpio, wires, call, epoch>>
    BY <1>1 DEF vars
  <2>2. LoneUpdate' => LoneUpdate
    BY <2>1 DEF LoneUpdate, Alone
  <2>3. (AllIdle => Updated)' <=> (AllIdle => Updated)
    BY <2>1 DEF AllIdle, Updated, Final, Stored, On, LevelIsHigh
  <2>4. \A t \in Threads : (call[t].pc # "idle" => Updating(call[t]))' <=>
                              (call[t].pc # "idle" => Updating(call[t]))
    BY <2>1 DEF Updating, InLoop, Driving, Passed, Ahead, Current, Output, InSet, InClr,
                Untouched, Level, Final, Stored, On, LevelIsHigh
  <2>5. QED
    BY <2>1, <2>2, <2>3, <2>4 DEF UpdateInv
<1>2. ASSUME NEW p,
             \/ p \in PortPins /\ (Set(p) \/ SetMode(p) \/ SetPud(p))
             \/ p \in Driven /\ WireChanges(p)
      PROVE  UpdateInv'
  BY <1>2, DisturbFacts DEF UpdateInv, LoneUpdate, Alone
<1>3. ASSUME NEW t \in Threads, ReinitStep(t) PROVE UpdateInv'
  <2>1. epoch' = epoch /\ call[t].pc \in Reiniting /\ call[t].pc # "idle"
    BY <1>3, ReinitStepFacts DEF Reiniting
  <2>2. epoch.reinit
    BY <2>1 DEF HistoryInv, InHistory
  <2>3. QED
    BY <2>1, <2>2 DEF UpdateInv, LoneUpdate
<1>4. ASSUME NEW t \in Threads, UpdateStep(t), LoneUpdate PROVE UpdateInv'
  <2>1. /\ epoch' = epoch
        /\ \A u \in Threads : u # t => call'[u].pc = "idle"
        /\ \A p \in PortPins : epoch.asked[p] \in {{0}, {1}}
    BY <1>4, UpdateStepFacts, LoneUpdateFacts
  <2>2. CASE ReadLevels(t) \/ LoadMode(t) \/ LoadForSet(t) \/ LoadForClear(t) \/ LoadModeAgain(t)
             \/ StoreState(t)
    <3>1. Updating(call[t])'
      BY <1>4, <2>2, LoneUpdateLoop, LoneUpdateStore
    <3>2. call'[t].pc # "idle"
      BY <3>1 DEF Updating, InLoop, Driving
    <3>3. QED
      BY <2>1, <3>1, <3>2 DEF UpdateInv, AllIdle
  <2>3. CASE Drive(t)
    <3>1. /\ call'[t].pc # "idle" => Updating(call[t])'
          /\ call'[t].pc = "idle" => Updated'
      BY <1>4, <2>3, LoneUpdateDrive
    <3>2. QED
      BY <2>1, <3>1 DEF UpdateInv, AllIdle
  <2>4. QED
    BY <1>4, <2>2, <2>3 DEF UpdateStep
<1>5. ASSUME NEW t \in Threads, UpdateStep(t), ~LoneUpdate PROVE UpdateInv'
  <2>1. epoch' = epoch
    BY <1>5, UpdateStepFacts
  <2>2. QED
    BY <1>5, <2>1 DEF UpdateInv, LoneUpdate, Alone
<1>6. QED
  BY <1>1, <1>2, <1>3, <1>4, <1>5, NextCases, BeginKeepsUpdateInv

\* An update nobody disturbs puts the outputs of its mask to their IOs' states,
\* moves no other pin, and afterwards the states tell the levels of the pins in
\* the mask as far as their bits fit in a byte (bcm2835.c 27-62).
THEOREM PortUpdateIsExact == Spec => []UpdateIsExact
<1>1. Init => PortInv /\ HistoryInv /\ UpdateInv
  <2>1. Init => UpdateInv
    BY DEF Init, NoEpoch, UpdateInv, LoneUpdate, Alone
  <2>2. QED
    BY <2>1, InitEstablishesPortInv, InitEstablishesHistoryInv
<1>2. PortInv /\ HistoryInv /\ UpdateInv /\ [Next]_vars => (PortInv /\ HistoryInv /\ UpdateInv)'
  BY NextKeepsPortInv, NextKeepsHistoryInv, NextKeepsUpdateInv
<1>3. UpdateInv => UpdateIsExact
  <2> SUFFICES ASSUME UpdateInv, Undisturbed, ~epoch.reinit, NEW p \in PortPins
               PROVE  LET driven == p \in epoch.drivable
                          on     == IF driven THEN epoch.asked[p] = {1} ELSE LevelIsHigh(p)
                      IN  /\ (p \in gpio.output) = (IF driven THEN on ELSE p \in epoch.before)
                          /\ (p \in epoch.mask /\ p % 32 < 8) => (io[p].state # 0) = on
    BY DEF UpdateIsExact
  <2>1. (p \in gpio.output <=> Final(p)) /\ Stored(p)
    BY DEF UpdateInv, Undisturbed, LoneUpdate, Alone, Updated
  <2>2. p % 32 < 8 => StateByte(p) # 0
    BY LowPinKeepsBit
  <2>3. QED
    BY <2>1, <2>2 DEF Final, Stored, On, LevelIsHigh
<1>4. QED
  BY <1>1, <1>2, <1>3, PTL DEF Spec

-----------------------------------------------------------------------------
(* What a reinit leaves behind that nobody disturbs.                       *)

\* A call that has clocked the pads of a bank and not stopped their clock.
Clocking(c, b) == c.pc \in {"off", "zero"} /\ Bank(IOs[c.k]) = b

\* A pad's clock is on only while a reinit is between the two stores to its bank's
\* clock register, and a reinit clocks pads of one bank at a time.
ClockInv ==
    /\ \A p \in gpio.gppudclk : \E t \in Threads : Clocking(call[t], Bank(p))
    /\ \A t \in Threads :
          call[t].pc = "clkWrite" => \A p \in call[t].clk : Bank(p) = Bank(IOs[call[t].k])

\* The IO's choices, in the locals of a reinit and in the registers.
Chosen(c, p)   == c.fsel[p] = io[p].mode
Clears(c, p)   == io[p].mode = ModeOut => p \in c.clr
Selected(g, p) == g.gpfsel[p] = io[p].mode
Low(g, p)      == io[p].mode = ModeOut => p \notin g.output
Pulled(g, p)   == g.pull[p] = io[p].pud

\* The phases of a reinit: it gathers what to write, writes the functions, clears
\* the outputs, and gives the pads their pulls one by one.
Gathering(c) ==
    /\ c.left = UsedFselBanks
    /\ \A j \in 1..Len(IOs) : j < c.k => Chosen(c, IOs[j]) /\ Clears(c, IOs[j])
    /\ c.pc = "clrMode" => Chosen(c, IOs[c.k])

Selecting(c, g) ==
    /\ c.k = 1
    /\ \A p \in PortPins : /\ Chosen(c, p) /\ Clears(c, p)
                           /\ FselBank(p) \notin c.left => Selected(g, p)

Clearing(c, g) ==
    /\ c.k = 1
    /\ \A p \in PortPins : /\ Selected(g, p) /\ Clears(c, p)
                           /\ c.pc = "clear1" /\ Bank(p) = 0 => Low(g, p)

Pulling(c, g) ==
    /\ \A p \in PortPins : Selected(g, p) /\ Low(g, p)
    /\ \A j \in 1..Len(IOs) : j < c.k => Pulled(g, IOs[j])
    /\ c.pc = "gppud" => c.pud = io[IOs[c.k]].pud
    /\ c.pc \in {"clkRead", "clkWrite"} => g.gppud = io[IOs[c.k]].pud
    /\ c.pc = "clkWrite" => c.clk = {IOs[c.k]}
    /\ c.pc \in {"off", "zero"} => Pulled(g, IOs[c.k])
    /\ c.pc = "zero" => g.gppud = "OFF"

Initing(c, g) ==
    /\ c.pc = "fselRead" => c.k = 1
    /\ c.pc \in {"fselMode", "clrMode"} => Gathering(c)
    /\ c.pc = "fselWrite" => Selecting(c, g)
    /\ c.pc \in {"clear0", "clear1"} => Clearing(c, g)
    /\ c.pc \in {"pud", "gppud", "clkRead", "clkWrite", "off", "zero"} => Pulling(c, g)

Reinited(g) ==
    /\ \A p \in PortPins : Selected(g, p) /\ Low(g, p) /\ Pulled(g, p)
    /\ g.gppud = "OFF"

LoneReinit == Alone /\ epoch.reinit

ReinitInv ==
    LoneReinit =>
        /\ \A t \in Threads : call[t].pc # "idle" => Initing(call[t], gpio)
        /\ AllIdle => Reinited(gpio)

-----------------------------------------------------------------------------
\* A step that switches no clock, by a call that has switched none on or still
\* has to switch it off.
LEMMA ClocksKept ==
    ASSUME ClockInv, NEW t \in Threads, gpio'.gppudclk = gpio.gppudclk,
           \A u \in Threads : u # t => call'[u] = call[u],
           \A b : Clocking(call[t], b) => Clocking(call'[t], b),
           call'[t].pc = "clkWrite" => \A p \in call'[t].clk : Bank(p) = Bank(IOs[call'[t].k])
    PROVE  ClockInv'
<1>1. ASSUME NEW p \in gpio'.gppudclk PROVE \E u \in Threads : Clocking(call'[u], Bank(p))
  <2>1. PICK u \in Threads : Clocking(call[u], Bank(p))
    BY <1>1 DEF ClockInv
  <2>2. Clocking(call'[u], Bank(p))
    BY <2>1
  <2>3. QED
    BY <2>2
<1>2. \A u \in Threads :
         call'[u].pc = "clkWrite" => \A p \in call'[u].clk : Bank(p) = Bank(IOs[call'[u].k])
  BY DEF ClockInv
<1>3. QED
  BY <1>1, <1>2 DEF ClockInv, Clocking

\* An update switches no clock.
LEMMA UpdateKeepsClocks ==
    ASSUME PortInv, ClockInv, NEW t \in Threads, UpdateStep(t)
    PROVE  ClockInv'
<1>1. /\ call[t].pc \in UpdatingAt /\ call'[t].pc \in UpdatingAt \cup {"idle"}
      /\ \A u \in Threads : u # t => call'[u] = call[u]
  BY UpdateStepFacts
<1>2. call[t].pc \notin {"off", "zero"} /\ call'[t].pc # "clkWrite"
  BY <1>1 DEF UpdatingAt
<1>3. gpio'.gppudclk = gpio.gppudclk
  <2>1. gpio \in GpioRegisters
    BY DEF PortInv, Shapes
  <2>2. CASE UNCHANGED gpio
    BY <2>2
  <2>3. CASE Drive(t)
    BY <2>1, <2>3 DEF Drive, Writes, ClearPins, SetPins, GpioRegisters
  <2>4. QED
    BY <2>2, <2>3 DEF UpdateStep, ReadLevels, LoadMode, LoadForSet, LoadForClear, LoadModeAgain,
                      StoreState, Reads
<1>4. QED
  BY <1>1, <1>2, <1>3, ClocksKept DEF Clocking

LEMMA ReinitKeepsClocks ==
    ASSUME PortInv, ClockInv, NEW t \in Threads, ReinitStep(t)
    PROVE  ClockInv'
<1>0. /\ call[t] \in CallType /\ call \in [Threads -> CallType] /\ gpio \in GpioRegisters
      /\ Pin(t) = IOs[call[t].k]
  BY CallFacts DEF PortInv, Shapes, Pin
<1>1. \A u \in Threads : u # t => call'[u] = call[u]
  BY ReinitStepFacts
<1>2. CASE \/ ReadFsel(t) \/ LoadModeForFsel(t) \/ LoadModeForClear(t) \/ LoadPud(t)
           \/ WriteFsel(t) \/ ClearOutputs(t) \/ WriteGppud(t)
  <2>1. call[t].pc \in {"fselRead", "fselMode", "clrMode", "pud", "fselWrite", "clear0", "clear1",
                        "gppud"}
    BY <1>2 DEF ReadFsel, LoadModeForFsel, LoadModeForClear, LoadPud, WriteFsel, ClearOutputs,
                WriteGppud, Reads, Writes, At
  <2>2. gpio'.gppudclk = gpio.gppudclk
    <3>1. CASE ReadFsel(t) \/ LoadModeForFsel(t) \/ LoadModeForClear(t) \/ LoadPud(t)
      BY <3>1 DEF ReadFsel, LoadModeForFsel, LoadModeForClear, LoadPud, Reads
    <3>2. CASE WriteFsel(t)
      BY <1>0, <3>2 DEF WriteFsel, Writes, GpioRegisters
    <3>3. CASE ClearOutputs(t) \/ WriteGppud(t)
      BY <1>0, <3>3 DEF ClearOutputs, WriteGppud, Writes, ClearPins, GpioRegisters
    <3>4. QED
      BY <1>2, <3>1, <3>2, <3>3
  <2>3. call'[t].pc # "clkWrite"
    <3>1. ASSUME NEW c, c.pc # "clkWrite", call' = [call EXCEPT ![t] = c]
          PROVE  call'[t].pc # "clkWrite"
      BY <1>0, <3>1
    <3>2. CASE ReadFsel(t)
      <4>1. PICK b \in call[t].left :
               LET left == call[t].left \ {b}
                   read == [p \in Pins |-> IF FselBank(p) = b THEN gpio.gpfsel[p]
                                           ELSE call[t].fsel[p]]
               IN  Reads(t, "fselRead",
                      IF left = {} THEN [call[t] EXCEPT !.fsel = read, !.pc = "fselMode",
                                                        !.left = UsedFselBanks]
                                   ELSE [call[t] EXCEPT !.fsel = read, !.left = left])
        BY <3>2 DEF ReadFsel
      <4> DEFINE left == call[t].left \ {b}
                 read == [p \in Pins |-> IF FselBank(p) = b THEN gpio.gpfsel[p] ELSE call[t].fsel[p]]
                 last == [call[t] EXCEPT !.fsel = read, !.pc = "fselMode", !.left = UsedFselBanks]
                 more == [call[t] EXCEPT !.fsel = read, !.left = left]
                 c == IF left = {} THEN last ELSE more
      <4>2. call[t].pc = "fselRead" /\ call' = [call EXCEPT ![t] = c]
        BY <4>1 DEF Reads, At
      <4> HIDE DEF left, read
      <4>3. c.pc \in {"fselRead", "fselMode"}
        BY <1>0, <4>2 DEF CallType
      <4> HIDE DEF c
      <4>4. QED
        BY <3>1, <4>2, <4>3
    <3>3. CASE \/ LoadModeForFsel(t) \/ LoadPud(t) \/ WriteFsel(t) \/ ClearOutputs(t)
               \/ WriteGppud(t)
      <4>1. /\ \A f : [call[t] EXCEPT !.pc = "clrMode", !.fsel[Pin(t)] = f].pc = "clrMode"
            /\ \A d : [call[t] EXCEPT !.pc = "gppud", !.pud = d].pc = "gppud"
            /\ \A l, pc : [call[t] EXCEPT !.left = l, !.pc = pc].pc = pc
            /\ \A pc : [call[t] EXCEPT !.pc = pc].pc = pc
        BY <1>0 DEF CallType
      <4>2. CASE LoadModeForFsel(t)
        BY <3>1, <4>1, <4>2 DEF LoadModeForFsel, Reads
      <4>3. CASE LoadPud(t)
        BY <3>1, <4>1, <4>3 DEF LoadPud, Reads
      <4>4. CASE WriteFsel(t)
        <5>1. PICK l : call' = [call EXCEPT ![t] = [call[t] EXCEPT
                                   !.left = l, !.pc = IF l = {} THEN "clear0" ELSE "fselWrite"]]
          BY <4>4 DEF WriteFsel, Writes
        <5> DEFINE c == [call[t] EXCEPT !.left = l, !.pc = IF l = {} THEN "clear0" ELSE "fselWrite"]
        <5>2. c.pc # "clkWrite" /\ call' = [call EXCEPT ![t] = c]
          BY <1>0, <5>1 DEF CallType
        <5> HIDE DEF c
        <5>3. QED
          BY <3>1, <5>2
      <4>5. CASE ClearOutputs(t)
        BY <3>1, <4>1, <4>5 DEF ClearOutputs, Writes
      <4>6. CASE WriteGppud(t)
        BY <3>1, <4>1, <4>6 DEF WriteGppud, Writes
      <4>7. QED
        BY <3>3, <4>2, <4>3, <4>4, <4>5, <4>6
    <3>4. CASE LoadModeForClear(t)
      <4> DEFINE s == IF io[Pin(t)].mode = ModeOut THEN call[t].clr \cup {Pin(t)} ELSE call[t].clr
                 d == [call[t] EXCEPT !.clr = s]
                 c == NextIO(d, "fselMode", "fselWrite")
      <4>1. call' = [call EXCEPT ![t] = c]
        BY <3>4 DEF LoadModeForClear, Reads
      <4> HIDE DEF s
      <4>2. \A pc, k : [d EXCEPT !.pc = pc, !.k = k].pc = pc
        BY <1>0 DEF CallType
      <4> HIDE DEF d
      <4>3. c.pc \in {"fselMode", "fselWrite"}
        BY <4>2 DEF NextIO
      <4> HIDE DEF c
      <4>4. QED
        BY <3>1, <4>1, <4>3
    <3>5. QED
      BY <1>2, <3>2, <3>3, <3>4
  <2>4. \A b : ~Clocking(call[t], b)
    BY <2>1 DEF Clocking
  <2>5. QED
    BY <1>1, <2>2, <2>3, <2>4, ClocksKept
<1>3. CASE ReadClock(t)
  <2>1. /\ call[t].pc = "clkRead" /\ gpio' = gpio /\ call'[t].k = call[t].k
        /\ call'[t].clk = InBank(gpio.gppudclk, Bank(Pin(t))) \cup {Pin(t)}
    BY <1>0, <1>3 DEF ReadClock, Reads, At, CallType
  <2>2. \A p \in call'[t].clk : Bank(p) = Bank(IOs[call'[t].k])
    BY <1>0, <2>1 DEF InBank
  <2>3. \A b : ~Clocking(call[t], b)
    BY <2>1 DEF Clocking
  <2>4. QED
    BY <1>1, <2>1, <2>2, <2>3, ClocksKept
<1>4. CASE WriteOff(t)
  <2>1. /\ call[t].pc = "off" /\ call'[t].pc = "zero" /\ call'[t].k = call[t].k
        /\ gpio'.gppudclk = gpio.gppudclk
    BY <1>0, <1>4 DEF WriteOff, Writes, At, CallType, GpioRegisters
  <2>2. \A b : Clocking(call[t], b) => Clocking(call'[t], b)
    BY <2>1 DEF Clocking
  <2>3. QED
    BY <1>1, <2>1, <2>2, ClocksKept
<1>5. CASE WriteClock(t) \/ WriteZero(t)
  <2> DEFINE b == Bank(IOs[call[t].k])
  <2>1. \E s : /\ gpio'.gppudclk = {p \in gpio.gppudclk : Bank(p) # b} \cup s
               /\ \A p \in s : Bank(p) = b /\ Clocking(call'[t], b)
    <3>1. CASE WriteClock(t)
      <4>1. /\ gpio'.gppudclk = {p \in gpio.gppudclk : Bank(p) # b} \cup call[t].clk
            /\ call[t].pc = "clkWrite" /\ call'[t].pc = "off" /\ call'[t].k = call[t].k
        BY <1>0, <3>1 DEF WriteClock, Writes, At, Clocked, InBank, CallType, GpioRegisters
      <4>2. \A p \in call[t].clk : Bank(p) = b
        BY <4>1 DEF ClockInv
      <4>3. Clocking(call'[t], b)
        BY <4>1 DEF Clocking
      <4> HIDE DEF b
      <4>4. QED
        BY <4>1, <4>2, <4>3
    <3>2. CASE WriteZero(t)
      <4> DEFINE s == {}
      <4>1. gpio'.gppudclk = {p \in gpio.gppudclk : Bank(p) # b} \cup s
        BY <1>0, <3>2 DEF WriteZero, Writes, Clocked, InBank, GpioRegisters
      <4>2. \A p \in s : Bank(p) = b /\ Clocking(call'[t], b)
        OBVIOUS
      <4> HIDE DEF b, s
      <4>3. QED
        BY <4>1, <4>2
    <3>3. QED
      BY <1>5, <3>1, <3>2
  <2>2. ASSUME NEW p \in gpio'.gppudclk PROVE \E u \in Threads : Clocking(call'[u], Bank(p))
    <3>1. CASE Bank(p) = b /\ Clocking(call'[t], b)
      BY <3>1
    <3>2. CASE p \in gpio.gppudclk /\ Bank(p) # b
      <4>1. PICK u \in Threads : Clocking(call[u], Bank(p))
        BY <3>2 DEF ClockInv
      <4>2. Clocking(call'[u], Bank(p))
        BY <1>1, <3>2, <4>1 DEF Clocking
      <4>3. QED
        BY <4>2
    <3>3. QED
      BY <2>1, <2>2, <3>1, <3>2
  <2>3. call'[t].pc # "clkWrite"
    <3>1. CASE WriteClock(t)
      BY <1>0, <3>1 DEF WriteClock, Writes, CallType
    <3>2. CASE WriteZero(t)
      <4>1. /\ Idle.pc = "idle"
            /\ \A pc, k : [call[t] EXCEPT !.pc = pc, !.k = k].pc = pc
        BY <1>0 DEF Idle, CallType
      <4>2. PICK c : call' = [call EXCEPT ![t] = c] /\ c.pc \in {"idle", "pud"}
        BY <3>2, <4>1 DEF WriteZero, Writes, NextIO
      <4>3. QED
        BY <1>0, <4>2
    <3>3. QED
      BY <1>5, <3>1, <3>2
  <2>4. \A u \in Threads :
           call'[u].pc = "clkWrite" => \A p \in call'[u].clk : Bank(p) = Bank(IOs[call'[u].k])
    BY <1>1, <2>3 DEF ClockInv
  <2>5. QED
    BY <2>2, <2>4 DEF ClockInv, Clocking
<1>6. QED
  BY <1>2, <1>3, <1>4, <1>5 DEF ReinitStep

LEMMA NextKeepsClockInv ==
    ASSUME PortInv, HistoryInv, ClockInv, [Next]_vars
    PROVE  ClockInv'
<1>1. CASE UNCHANGED <<gpio, call>>
  BY <1>1 DEF ClockInv, Clocking
<1>2. CASE UNCHANGED vars
  BY <1>1, <1>2 DEF vars
<1>3. ASSUME NEW p,
             \/ p \in PortPins /\ (Set(p) \/ SetMode(p) \/ SetPud(p))
             \/ p \in Driven /\ WireChanges(p)
      PROVE  ClockInv'
  BY <1>1, <1>3, DisturbFacts
<1>4. ASSUME NEW t \in Threads, NEW mask \in SUBSET PortPins, NEW pc, NEW left,
             pc \in {"levels", "fselRead"}, Begins(t, mask, pc, left)
      PROVE  ClockInv'
  <2>1. Begun(t, mask, pc, left)
    BY <1>4, BeginFacts
  <2>2. /\ call[t].pc = "idle" /\ UNCHANGED gpio /\ call'[t].pc = pc
        /\ \A u \in Threads : u # t => call'[u] = call[u]
    BY <2>1 DEF Begun
  <2>3. QED
    BY <1>4, <2>2, ClocksKept DEF Clocking
<1>5. QED
  BY <1>2, <1>3, <1>4, NextCases, UpdateKeepsClocks, ReinitKeepsClocks

-----------------------------------------------------------------------------
\* What a step of a lone reinit starts from: no pad's clock is on that it has not
\* switched on itself.
LEMMA LoneReinitFacts ==
    ASSUME PortInv, HistoryInv, ClockInv, ReinitInv, LoneReinit, NEW t \in Threads, ReinitStep(t)
    PROVE  /\ Initing(call[t], gpio) /\ call[t] \in CallType
           /\ Len(IOs) \in Nat /\ call[t].k \in 1..Len(IOs)
           /\ Pin(t) \in PortPins /\ Pin(t) \in Pins /\ Pin(t) = IOs[call[t].k]
           /\ \A u \in Threads : u # t => call'[u].pc = "idle"
           /\ call[t].pc \notin {"off", "zero"} => gpio.gppudclk = {}
           /\ gpio \in GpioRegisters /\ PortPins \subseteq Pins
<1>1. call[t].pc # "idle" /\ \A u \in Threads : u # t => call'[u] = call[u]
  BY ReinitStepFacts DEF Reiniting
<1>2. /\ call[t] \in CallType /\ Pin(t) \in PortPins /\ Pin(t) \in Pins /\ Pin(t) = IOs[call[t].k]
      /\ gpio \in GpioRegisters /\ PortPins \subseteq Pins
  BY CallFacts, PinFacts DEF Pin, PortInv, Shapes
<1>3. Initing(call[t], gpio)
  BY <1>1 DEF ReinitInv
<1>4. \A u \in Threads : u # t => call[u].pc = "idle" /\ call'[u].pc = "idle"
  BY <1>1 DEF HistoryInv, LoneReinit, Alone
<1>5. call[t].pc \notin {"off", "zero"} => gpio.gppudclk = {}
  <2>1. call[t].pc \notin {"off", "zero"} => \A u \in Threads : \A b : ~Clocking(call[u], b)
    BY <1>4 DEF Clocking
  <2>2. QED
    BY <2>1 DEF ClockInv
<1>6. QED
  BY <1>2, <1>3, <1>4, <1>5, PinFacts DEF CallType

\* A step that leaves the IOs alone.
LEMMA LoneReinitGoesOn ==
    ASSUME PortInv, NEW t \in Threads, NEW c, NEW g,
           call' = [call EXCEPT ![t] = c], gpio' = g, UNCHANGED io
    PROVE  /\ Initing(c, g) => Initing(call[t], gpio)'
           /\ Reinited(g) => Reinited(gpio)'
           /\ call'[t] = c
<1>1. call'[t] = c /\ io' = io /\ gpio' = g
  BY DEF PortInv, Shapes
<1>2. Initing(c, g) => Initing(call[t], gpio)'
  BY <1>1 DEF Initing, Gathering, Selecting, Clearing, Pulling, Chosen, Clears, Selected, Low, Pulled
<1>3. Reinited(g) => Reinited(gpio)'
  BY <1>1 DEF Reinited, Selected, Low, Pulled
<1>4. QED
  BY <1>1, <1>2, <1>3

\* Gathering and writing the functions.
LEMMA LoneReinitSelects ==
    ASSUME PortInv, HistoryInv, ClockInv, ReinitInv, LoneReinit, NEW t \in Threads, ReinitStep(t),
           ReadFsel(t) \/ LoadModeForFsel(t) \/ LoadModeForClear(t) \/ WriteFsel(t)
    PROVE  Initing(call[t], gpio)' /\ call'[t].pc # "idle"
<1>0. /\ Initing(call[t], gpio) /\ call[t] \in CallType
      /\ Len(IOs) \in Nat /\ call[t].k \in 1..Len(IOs)
      /\ Pin(t) \in PortPins /\ Pin(t) \in Pins /\ Pin(t) = IOs[call[t].k]
      /\ gpio \in GpioRegisters /\ PortPins \subseteq Pins
      /\ \A j, k \in 1..Len(IOs) : IOs[j] = IOs[k] => j = k
      /\ \A j \in 1..Len(IOs) : IOs[j] \in PortPins
      /\ \A p \in PortPins : \E j \in 1..Len(IOs) : p = IOs[j]
  BY LoneReinitFacts, PinFacts, PortAssumption DEF PortPins
<1>a. PICK n \in 1..Len(IOs) : n = call[t].k
  BY <1>0
<1>1. CASE ReadFsel(t)
  <2>1. PICK b \in call[t].left :
           LET left == call[t].left \ {b}
               read == [p \in Pins |-> IF FselBank(p) = b THEN gpio.gpfsel[p] ELSE call[t].fsel[p]]
           IN  Reads(t, "fselRead",
                  IF left = {} THEN [call[t] EXCEPT !.fsel = read, !.pc = "fselMode",
                                                    !.left = UsedFselBanks]
                               ELSE [call[t] EXCEPT !.fsel = read, !.left = left])
    BY <1>1 DEF ReadFsel
  <2> DEFINE left == call[t].left \ {b}
             read == [p \in Pins |-> IF FselBank(p) = b THEN gpio.gpfsel[p] ELSE call[t].fsel[p]]
             last == [call[t] EXCEPT !.fsel = read, !.pc = "fselMode", !.left = UsedFselBanks]
             more == [call[t] EXCEPT !.fsel = read, !.left = left]
             c == IF left = {} THEN last ELSE more
  <2>2. /\ call[t].pc = "fselRead" /\ call' = [call EXCEPT ![t] = c]
        /\ gpio' = gpio /\ UNCHANGED io
    BY <2>1 DEF Reads, At
  <2> HIDE DEF left, read
  <2>3. /\ c.pc = "fselRead" \/ (c.pc = "fselMode" /\ c.left = UsedFselBanks)
        /\ c.k = call[t].k
    BY <1>0, <2>2 DEF CallType
  <2> HIDE DEF c
  <2>4. call[t].k = 1
    BY <1>0, <2>2 DEF Initing
  <2>5. Initing(c, gpio)
    BY <1>0, <2>3, <2>4 DEF Initing, Gathering
  <2>6. QED
    BY <2>2, <2>3, <2>5, LoneReinitGoesOn
<1>2. CASE LoadModeForFsel(t)
  <2> DEFINE c == [call[t] EXCEPT !.pc = "clrMode", !.fsel[Pin(t)] = io[Pin(t)].mode]
  <2>1. /\ call[t].pc = "fselMode" /\ call' = [call EXCEPT ![t] = c]
        /\ gpio' = gpio /\ UNCHANGED io
    BY <1>2 DEF LoadModeForFsel, Reads, At
  <2>2. /\ c.pc = "clrMode" /\ c.k = n /\ c.left = call[t].left /\ c.clr = call[t].clr
        /\ c.fsel[IOs[n]] = io[IOs[n]].mode
        /\ \A p \in Pins : p # IOs[n] => c.fsel[p] = call[t].fsel[p]
    BY <1>0, <1>a DEF CallType
  <2> HIDE DEF c
  <2>3. \A j \in 1..Len(IOs) : j < n => Chosen(call[t], IOs[j]) /\ Clears(call[t], IOs[j])
    BY <1>0, <1>a, <2>1 DEF Initing, Gathering
  <2>4. \A j \in 1..Len(IOs) : j < n => Chosen(c, IOs[j]) /\ Clears(c, IOs[j])
    <3> SUFFICES ASSUME NEW j \in 1..Len(IOs), j < n PROVE Chosen(c, IOs[j]) /\ Clears(c, IOs[j])
      OBVIOUS
    <3>1. IOs[j] \in Pins /\ IOs[j] # IOs[n]
      BY <1>0
    <3>2. QED
      BY <2>2, <2>3, <3>1 DEF Chosen, Clears
  <2>5. Initing(c, gpio)
    BY <1>0, <2>1, <2>2, <2>4 DEF Initing, Gathering, Chosen
  <2>6. QED
    BY <2>1, <2>2, <2>5, LoneReinitGoesOn
<1>3. CASE LoadModeForClear(t)
  <2> DEFINE s == IF io[Pin(t)].mode = ModeOut THEN call[t].clr \cup {Pin(t)} ELSE call[t].clr
             d == [call[t] EXCEPT !.clr = s]
             c == NextIO(d, "fselMode", "fselWrite")
  <2>1. /\ call[t].pc = "clrMode" /\ call' = [call EXCEPT ![t] = c]
        /\ gpio' = gpio /\ UNCHANGED io
    BY <1>3 DEF LoadModeForClear, Reads, At
  <2>2. /\ \A p \in call[t].clr : p \in s
        /\ io[IOs[n]].mode = ModeOut => IOs[n] \in s
    BY <1>0, <1>a
  <2> HIDE DEF s
  <2>3. d.clr = s /\ d.fsel = call[t].fsel /\ d.left = call[t].left /\ d.k = n
    BY <1>0, <1>a DEF CallType
  <2>4. /\ c.clr = s /\ c.fsel = call[t].fsel /\ c.left = call[t].left
        /\ \/ c.pc = "fselMode" /\ c.k = n + 1 /\ n < Len(IOs)
           \/ c.pc = "fselWrite" /\ c.k = 1 /\ n = Len(IOs)
    <3>1. CASE n < Len(IOs)
      <4>1. c = [d EXCEPT !.pc = "fselMode", !.k = n + 1]
        BY <2>3, <3>1 DEF NextIO
      <4>2. /\ c.clr = s /\ c.fsel = call[t].fsel /\ c.left = call[t].left
            /\ c.pc = "fselMode" /\ c.k = n + 1
        <5> HIDE DEF c
        <5>1. QED
          BY <1>0, <4>1 DEF CallType
      <4>3. QED
        BY <3>1, <4>2
    <3>2. CASE ~(n < Len(IOs))
      <4>1. c = [d EXCEPT !.pc = "fselWrite", !.k = 1]
        BY <2>3, <3>2 DEF NextIO
      <4>2. /\ c.clr = s /\ c.fsel = call[t].fsel /\ c.left = call[t].left
            /\ c.pc = "fselWrite" /\ c.k = 1
        <5> HIDE DEF c
        <5>1. QED
          BY <1>0, <4>1 DEF CallType
      <4>3. QED
        BY <1>0, <3>2, <4>2
    <3>3. QED
      BY <3>1, <3>2
  <2> HIDE DEF c
  <2>5. /\ call[t].left = UsedFselBanks
        /\ \A j \in 1..Len(IOs) : j < n => Chosen(call[t], IOs[j]) /\ Clears(call[t], IOs[j])
        /\ Chosen(call[t], IOs[n])
    BY <1>0, <1>a, <2>1 DEF Initing, Gathering
  <2>6. \A j \in 1..Len(IOs) : j <= n => Chosen(c, IOs[j]) /\ Clears(c, IOs[j])
    <3> SUFFICES ASSUME NEW j \in 1..Len(IOs), j <= n PROVE Chosen(c, IOs[j]) /\ Clears(c, IOs[j])
      OBVIOUS
    <3>1. CASE j = n
      BY <2>2, <2>4, <2>5, <3>1 DEF Chosen, Clears
    <3>2. CASE j < n
      BY <2>2, <2>4, <2>5, <3>2 DEF Chosen, Clears
    <3>3. QED
      BY <3>1, <3>2
  <2>7. CASE c.pc = "fselMode" /\ c.k = n + 1 /\ n < Len(IOs)
    <3>1. \A j \in 1..Len(IOs) : j < c.k => j <= n
      BY <2>7
    <3>2. Initing(c, gpio)
      BY <2>4, <2>5, <2>6, <2>7, <3>1 DEF Initing, Gathering
    <3>3. QED
      BY <2>1, <2>7, <3>2, LoneReinitGoesOn
  <2>8. CASE c.pc = "fselWrite" /\ c.k = 1 /\ n = Len(IOs)
    <3>1. ASSUME NEW p \in PortPins PROVE Chosen(c, p) /\ Clears(c, p)
      <4>1. PICK j \in 1..Len(IOs) : p = IOs[j]
        BY <1>0
      <4>2. QED
        BY <2>6, <2>8, <4>1
    <3>2. ASSUME NEW p \in PortPins PROVE FselBank(p) \in c.left
      BY <1>0, <2>4, <2>5, <3>2 DEF UsedFselBanks
    <3>3. Initing(c, gpio)
      BY <2>8, <3>1, <3>2 DEF Initing, Selecting
    <3>4. QED
      BY <2>1, <2>8, <3>3, LoneReinitGoesOn
  <2>9. QED
    BY <2>4, <2>7, <2>8
<1>4. CASE WriteFsel(t)
  <2>1. PICK b \in call[t].left :
           Writes(t, "fselWrite",
                  [gpio EXCEPT !.gpfsel = [p \in Pins |-> IF FselBank(p) = b
                                              THEN call[t].fsel[p] ELSE @[p]]],
                  [call[t] EXCEPT !.left = call[t].left \ {b},
                                  !.pc = IF call[t].left \ {b} = {} THEN "clear0" ELSE "fselWrite"])
    BY <1>4 DEF WriteFsel
  <2> DEFINE g == [gpio EXCEPT !.gpfsel = [p \in Pins |-> IF FselBank(p) = b
                                              THEN call[t].fsel[p] ELSE gpio.gpfsel[p]]]
             c == [call[t] EXCEPT !.left = call[t].left \ {b},
                                  !.pc = IF call[t].left \ {b} = {} THEN "clear0" ELSE "fselWrite"]
  <2>2. /\ call[t].pc = "fselWrite" /\ call' = [call EXCEPT ![t] = c] /\ gpio' = g /\ UNCHANGED io
    BY <2>1 DEF Writes, At
  <2>3. /\ \A p \in PortPins : /\ FselBank(p) = b => g.gpfsel[p] = call[t].fsel[p]
                               /\ FselBank(p) # b => g.gpfsel[p] = gpio.gpfsel[p]
    BY <1>0 DEF GpioRegisters
  <2> HIDE DEF g
  <2>4. /\ c.k = call[t].k /\ c.left = call[t].left \ {b} /\ c.fsel = call[t].fsel
        /\ c.clr = call[t].clr /\ c.pc = IF c.left = {} THEN "clear0" ELSE "fselWrite"
    BY <1>0 DEF CallType
  <2> HIDE DEF c
  <2>5. Selecting(call[t], gpio)
    BY <1>0, <2>2 DEF Initing
  <2>6. Selecting(c, g)
    <3>1. ASSUME NEW p \in PortPins
          PROVE  Chosen(c, p) /\ Clears(c, p) /\ (FselBank(p) \notin c.left => Selected(g, p))
      <4>1. /\ Chosen(call[t], p) /\ Clears(call[t], p)
            /\ FselBank(p) \notin call[t].left => Selected(gpio, p)
        BY <2>5 DEF Selecting
      <4>2. QED
        BY <2>3, <2>4, <4>1 DEF Chosen, Clears, Selected
    <3>2. QED
      BY <2>4, <2>5, <3>1 DEF Selecting
  <2>7. Initing(c, g)
    BY <2>4, <2>6 DEF Initing, Selecting, Clearing
  <2>8. c.pc # "idle"
    BY <2>4
  <2>9. QED
    BY <2>2, <2>7, <2>8, LoneReinitGoesOn
<1>5. QED
  BY <1>1, <1>2, <1>3, <1>4

\* Clearing the outputs, and giving the pads their pulls.  The last store ends the
\* call.
LEMMA LoneReinitPulls ==
    ASSUME PortInv, HistoryInv, ClockInv, ReinitInv, LoneReinit, NEW t \in Threads, ReinitStep(t),
           \/ ClearOutputs(t) \/ LoadPud(t) \/ WriteGppud(t) \/ ReadClock(t) \/ WriteClock(t)
           \/ WriteOff(t) \/ WriteZero(t)
    PROVE  /\ call'[t].pc # "idle" => Initing(call[t], gpio)'
           /\ call'[t].pc = "idle" => Reinited(gpio)'
<1>0. /\ Initing(call[t], gpio) /\ call[t] \in CallType
      /\ Len(IOs) \in Nat /\ call[t].k \in 1..Len(IOs)
      /\ Pin(t) = IOs[call[t].k]
      /\ call[t].pc \notin {"off", "zero"} => gpio.gppudclk = {}
      /\ gpio \in GpioRegisters /\ PortPins \subseteq Pins
      /\ \A j, k \in 1..Len(IOs) : IOs[j] = IOs[k] => j = k
      /\ \A j \in 1..Len(IOs) : IOs[j] \in PortPins
      /\ \A p \in PortPins : \E j \in 1..Len(IOs) : p = IOs[j]
  BY LoneReinitFacts, PinFacts, PortAssumption DEF PortPins
<1>b. \A p \in PortPins : Bank(p) \in {0, 1}
  BY PinFacts DEF Bank, BcmPins
<1>a. PICK n \in 1..Len(IOs) : n = call[t].k
  BY <1>0
<1>1. \A pc : LET c == [call[t] EXCEPT !.pc = pc]
              IN  c.pc = pc /\ c.k = n /\ c.clr = call[t].clr /\ c.pud = call[t].pud
                  /\ c.clk = call[t].clk
  BY <1>0, <1>a DEF CallType
<1>2. ASSUME NEW c, NEW g, call' = [call EXCEPT ![t] = c], gpio' = g, UNCHANGED io,
             c.pc # "idle", Initing(c, g)
      PROVE  /\ call'[t].pc # "idle" => Initing(call[t], gpio)'
             /\ call'[t].pc = "idle" => Reinited(gpio)'
  BY <1>2, LoneReinitGoesOn
<1>3. CASE ClearOutputs(t)
  <2>1. PICK b, pc, next :
           /\ b \in {0, 1}
           /\ (b = 0 /\ pc = "clear0" /\ next = "clear1") \/ (b = 1 /\ pc = "clear1" /\ next = "pud")
           /\ Writes(t, pc, ClearPins(InBank(call[t].clr, b)), [call[t] EXCEPT !.pc = next])
    <3> DEFINE Clear(b, pc, next) ==
                 Writes(t, pc, ClearPins(InBank(call[t].clr, b)), [call[t] EXCEPT !.pc = next])
    <3>1. Clear(0, "clear0", "clear1") \/ Clear(1, "clear1", "pud")
      BY <1>3 DEF ClearOutputs
    <3> HIDE DEF Clear
    <3>2. \E b, pc, next :
             /\ b \in {0, 1}
             /\ (b = 0 /\ pc = "clear0" /\ next = "clear1") \/ (b = 1 /\ pc = "clear1" /\ next = "pud")
             /\ Clear(b, pc, next)
      BY <3>1
    <3>3. QED
      BY <3>2 DEF Clear
  <2> DEFINE c == [call[t] EXCEPT !.pc = next]
             g == ClearPins(InBank(call[t].clr, b))
  <2>2. call[t].pc = pc /\ call' = [call EXCEPT ![t] = c] /\ gpio' = g /\ UNCHANGED io
    BY <2>1 DEF Writes, At
  <2>3. c.pc = next /\ c.k = call[t].k /\ c.clr = call[t].clr
    BY <1>0 DEF CallType
  <2>4. /\ g.gpfsel = gpio.gpfsel
        /\ \A p : p \in g.output <=> p \in gpio.output /\ ~(p \in call[t].clr /\ Bank(p) = b)
    BY <1>0 DEF ClearPins, InBank, GpioRegisters
  <2> HIDE DEF c, g
  <2>5. Clearing(call[t], gpio)
    BY <1>0, <2>1, <2>2 DEF Initing
  <2>6. c.k = 1 /\ \A p \in PortPins : Selected(g, p) /\ Clears(c, p)
    BY <2>3, <2>4, <2>5 DEF Clearing, Selected, Clears
  <2>7. CASE b = 0 /\ pc = "clear0" /\ next = "clear1"
    <3>1. \A p \in PortPins : Bank(p) = 0 => Low(g, p)
      BY <2>4, <2>5, <2>7 DEF Clearing, Clears, Low
    <3>2. Initing(c, g) /\ c.pc # "idle"
      BY <2>3, <2>6, <2>7, <3>1 DEF Initing, Clearing
    <3>3. QED
      BY <1>2, <2>2, <3>2
  <2>8. CASE b = 1 /\ pc = "clear1" /\ next = "pud"
    <3>1. \A p \in PortPins : Low(g, p)
      <4> SUFFICES ASSUME NEW p \in PortPins PROVE Low(g, p)
        OBVIOUS
      <4>1. CASE Bank(p) = 0
        BY <2>2, <2>4, <2>5, <2>8, <4>1 DEF Clearing, Low
      <4>2. CASE Bank(p) = 1
        BY <2>4, <2>5, <2>8, <4>2 DEF Clearing, Clears, Low
      <4>3. QED
        BY <1>b, <4>1, <4>2
    <3>2. c.pc = "pud" /\ \A j \in 1..Len(IOs) : ~(j < c.k)
      BY <2>3, <2>6, <2>8
    <3>3. Initing(c, g) /\ c.pc # "idle"
      BY <2>6, <3>1, <3>2 DEF Initing, Pulling
    <3>4. QED
      BY <1>2, <2>2, <3>3
  <2>9. QED
    BY <2>1, <2>7, <2>8
<1>4. ASSUME LoadPud(t) \/ WriteGppud(t) \/ ReadClock(t) \/ WriteClock(t) \/ WriteOff(t) \/ WriteZero(t)
      PROVE  /\ Pulling(call[t], gpio)
             /\ \A p \in PortPins : Selected(gpio, p) /\ Low(gpio, p)
             /\ \A j \in 1..Len(IOs) : j < n => Pulled(gpio, IOs[j])
  <2>1. call[t].pc \in {"pud", "gppud", "clkRead", "clkWrite", "off", "zero"}
    BY <1>4 DEF LoadPud, WriteGppud, ReadClock, WriteClock, WriteOff, WriteZero, Reads, Writes, At
  <2>2. Pulling(call[t], gpio)
    BY <1>0, <2>1 DEF Initing
  <2>3. QED
    BY <1>a, <2>2 DEF Pulling
<1>5. CASE LoadPud(t)
  <2> DEFINE c == [call[t] EXCEPT !.pc = "gppud", !.pud = io[Pin(t)].pud]
  <2>1. call' = [call EXCEPT ![t] = c] /\ gpio' = gpio /\ UNCHANGED io
    BY <1>5 DEF LoadPud, Reads
  <2>2. c.pc = "gppud" /\ c.k = n /\ c.pud = io[IOs[n]].pud
    BY <1>0, <1>a DEF CallType
  <2> HIDE DEF c
  <2>3. Initing(c, gpio)
    BY <1>4, <1>5, <2>2 DEF Initing, Pulling
  <2>4. QED
    BY <1>2, <2>1, <2>2, <2>3
<1>6. CASE WriteGppud(t)
  <2> DEFINE c == [call[t] EXCEPT !.pc = "clkRead"]
             g == [gpio EXCEPT !.gppud = call[t].pud]
  <2>1. call[t].pc = "gppud" /\ call' = [call EXCEPT ![t] = c] /\ gpio' = g /\ UNCHANGED io
    BY <1>6 DEF WriteGppud, Writes, At
  <2>2. /\ c.pc = "clkRead" /\ c.k = n
        /\ g.gpfsel = gpio.gpfsel /\ g.output = gpio.output /\ g.pull = gpio.pull
        /\ g.gppud = call[t].pud
    BY <1>0, <1>a DEF CallType, GpioRegisters
  <2> HIDE DEF c, g
  <2>3. g.gppud = io[IOs[n]].pud
    BY <1>4, <1>6, <1>a, <2>1, <2>2 DEF Pulling
  <2>4. Initing(c, g)
    BY <1>4, <1>6, <2>2, <2>3 DEF Initing, Pulling, Selected, Low, Pulled
  <2>5. QED
    BY <1>2, <2>1, <2>2, <2>4
<1>7. CASE ReadClock(t)
  <2> DEFINE s == InBank(gpio.gppudclk, Bank(Pin(t))) \cup {Pin(t)}
             c == [call[t] EXCEPT !.pc = "clkWrite", !.clk = s]
  <2>1. /\ call[t].pc = "clkRead" /\ call' = [call EXCEPT ![t] = c] /\ gpio' = gpio /\ UNCHANGED io
    BY <1>7 DEF ReadClock, Reads, At
  <2>2. s = {IOs[n]}
    BY <1>0, <1>a, <2>1 DEF InBank
  <2> HIDE DEF s
  <2>3. c.pc = "clkWrite" /\ c.k = n /\ c.clk = {IOs[n]}
    BY <1>0, <1>a, <2>2 DEF CallType
  <2> HIDE DEF c
  <2>4. gpio.gppud = io[IOs[n]].pud
    BY <1>4, <1>7, <1>a, <2>1 DEF Pulling
  <2>5. Initing(c, gpio)
    BY <1>4, <1>7, <2>3, <2>4 DEF Initing, Pulling
  <2>6. QED
    BY <1>2, <2>1, <2>3, <2>5
<1>8. CASE WriteClock(t)
  <2> DEFINE c == [call[t] EXCEPT !.pc = "off"]
             g == Clocked(Bank(Pin(t)), call[t].clk)
  <2>1. call[t].pc = "clkWrite" /\ call' = [call EXCEPT ![t] = c] /\ gpio' = g /\ UNCHANGED io
    BY <1>8 DEF WriteClock, Writes, At
  <2>2. call[t].clk = {IOs[n]} /\ gpio.gppud = io[IOs[n]].pud
    BY <1>4, <1>8, <1>a, <2>1 DEF Pulling
  <2>3. /\ c.pc = "off" /\ c.k = n
        /\ g.gpfsel = gpio.gpfsel /\ g.output = gpio.output
        /\ \A p \in Pins : g.pull[p] = IF p = IOs[n] THEN gpio.gppud ELSE gpio.pull[p]
    BY <1>0, <1>a, <2>2 DEF CallType, GpioRegisters, Clocked
  <2> HIDE DEF c, g
  <2>4. /\ Pulled(g, IOs[n])
        /\ \A j \in 1..Len(IOs) : j < n => Pulled(g, IOs[j])
    BY <1>0, <1>4, <1>8, <2>2, <2>3 DEF Pulled
  <2>5. Initing(c, g)
    BY <1>4, <1>8, <2>3, <2>4 DEF Initing, Pulling, Selected, Low
  <2>6. QED
    BY <1>2, <2>1, <2>3, <2>5
<1>9. CASE WriteOff(t)
  <2> DEFINE c == [call[t] EXCEPT !.pc = "zero"]
             g == [gpio EXCEPT !.gppud = "OFF"]
  <2>1. call[t].pc = "off" /\ call' = [call EXCEPT ![t] = c] /\ gpio' = g /\ UNCHANGED io
    BY <1>9 DEF WriteOff, Writes, At
  <2>2. /\ c.pc = "zero" /\ c.k = n
        /\ g.gpfsel = gpio.gpfsel /\ g.output = gpio.output /\ g.pull = gpio.pull
        /\ g.gppud = "OFF"
    BY <1>0, <1>a DEF CallType, GpioRegisters
  <2> HIDE DEF c, g
  <2>3. Pulled(gpio, IOs[n])
    BY <1>4, <1>9, <1>a, <2>1 DEF Pulling
  <2>4. Initing(c, g)
    BY <1>4, <1>9, <2>2, <2>3 DEF Initing, Pulling, Selected, Low, Pulled
  <2>5. QED
    BY <1>2, <2>1, <2>2, <2>4
<1>10. CASE WriteZero(t)
  <2> DEFINE g == Clocked(Bank(Pin(t)), {})
  <2>1. /\ call[t].pc = "zero" /\ gpio' = g /\ UNCHANGED io
        /\ call' = [call EXCEPT ![t] = IF n < Len(IOs) THEN NextIO(call[t], "pud", "idle") ELSE Idle]
    BY <1>10, <1>a DEF WriteZero, Writes, At
  <2>2. /\ g.gpfsel = gpio.gpfsel /\ g.output = gpio.output /\ g.gppud = gpio.gppud
        /\ \A p \in Pins : g.pull[p] = gpio.pull[p]
    BY <1>0 DEF GpioRegisters, Clocked
  <2> HIDE DEF g
  <2>3. Pulled(gpio, IOs[n]) /\ gpio.gppud = "OFF"
    BY <1>4, <1>10, <1>a, <2>1 DEF Pulling
  <2>4. \A j \in 1..Len(IOs) : j <= n => Pulled(g, IOs[j])
    <3> SUFFICES ASSUME NEW j \in 1..Len(IOs), j <= n PROVE Pulled(g, IOs[j])
      OBVIOUS
    <3>1. CASE j = n
      BY <1>0, <2>2, <2>3, <3>1 DEF Pulled
    <3>2. CASE j < n
      BY <1>0, <1>4, <1>10, <2>2, <3>2 DEF Pulled
    <3>3. QED
      BY <3>1, <3>2
  <2>5. \A p \in PortPins : Selected(g, p) /\ Low(g, p)
    BY <1>4, <1>10, <2>2 DEF Selected, Low
  <2>6. CASE n < Len(IOs)
    <3> DEFINE c == NextIO(call[t], "pud", "idle")
    <3>1. c = [call[t] EXCEPT !.pc = "pud", !.k = n + 1]
      BY <1>a, <2>6 DEF NextIO
    <3> HIDE DEF c
    <3>2. c.pc = "pud" /\ c.k = n + 1
      BY <1>0, <3>1 DEF CallType
    <3>3. \A j \in 1..Len(IOs) : j < c.k => Pulled(g, IOs[j])
      BY <1>0, <2>4, <3>2
    <3>4. Initing(c, g)
      BY <2>5, <3>2, <3>3 DEF Initing, Pulling
    <3>5. call' = [call EXCEPT ![t] = c]
      BY <2>1, <2>6 DEF c
    <3>6. QED
      BY <1>2, <2>1, <3>2, <3>4, <3>5
  <2>7. CASE ~(n < Len(IOs))
    <3>1. \A p \in PortPins : Pulled(g, p)
      <4> SUFFICES ASSUME NEW p \in PortPins PROVE Pulled(g, p)
        OBVIOUS
      <4>1. PICK j \in 1..Len(IOs) : p = IOs[j]
        BY <1>0
      <4>2. QED
        BY <1>0, <2>4, <2>7, <4>1
    <3>2. Reinited(g)
      BY <2>2, <2>3, <2>5, <3>1 DEF Reinited
    <3>3. call' = [call EXCEPT ![t] = Idle]
      BY <2>1, <2>7
    <3>4. Idle.pc = "idle"
      BY DEF Idle
    <3>5. QED
      BY <2>1, <3>2, <3>3, <3>4, LoneReinitGoesOn
  <2>8. QED
    BY <2>6, <2>7
<1>11. QED
  BY <1>3, <1>5, <1>6, <1>7, <1>8, <1>9, <1>10

LEMMA NextKeepsReinitInv ==
    ASSUME PortInv, HistoryInv, ClockInv, ReinitInv, [Next]_vars
    PROVE  ReinitInv'
<1>1. CASE UNCHANGED vars
  <2>1. UNCHANGED <<io, gpio, call, epoch>>
    BY <1>1 DEF vars
  <2>2. LoneReinit' => LoneReinit
    BY <2>1 DEF LoneReinit, Alone
  <2>3. (AllIdle => Reinited(gpio))' <=> (AllIdle => Reinited(gpio))
    BY <2>1 DEF AllIdle, Reinited, Selected, Low, Pulled
  <2>4. \A t \in Threads : (call[t].pc # "idle" => Initing(call[t], gpio))' <=>
                              (call[t].pc # "idle" => Initing(call[t], gpio))
    BY <2>1 DEF Initing, Gathering, Selecting, Clearing, Pulling, Chosen, Clears, Selected, Low, Pulled
  <2>5. QED
    BY <2>1, <2>2, <2>3, <2>4 DEF ReinitInv
<1>2. ASSUME NEW p,
             \/ p \in PortPins /\ (Set(p) \/ SetMode(p) \/ SetPud(p))
             \/ p \in Driven /\ WireChanges(p)
      PROVE  ReinitInv'
  BY <1>2, DisturbFacts DEF ReinitInv, LoneReinit, Alone
<1>3. ASSUME NEW t \in Threads, UpdateStep(t) PROVE ReinitInv'
  <2>1. epoch' = epoch /\ call[t].pc \in UpdatingAt
    BY <1>3, UpdateStepFacts
  <2>2. call[t].pc # "idle" /\ call[t].pc \notin Reiniting
    BY <2>1 DEF UpdatingAt, Reiniting
  <2>3. ~LoneReinit
    BY <2>2 DEF HistoryInv, InHistory, LoneReinit
  <2>4. QED
    BY <2>1, <2>3 DEF ReinitInv, LoneReinit, Alone
<1>4. ASSUME NEW t \in Threads, NEW mask \in SUBSET PortPins, NEW pc, NEW left,
             pc \in {"levels", "fselRead"}, Begins(t, mask, pc, left)
      PROVE  ReinitInv'
  <2>0. Begun(t, mask, pc, left)
    BY <1>4, BeginFacts
  <2>1. CASE ~AllIdle
    BY <2>0, <2>1 DEF Begun, EpochType, ReinitInv, LoneReinit, Alone
  <2>2. CASE pc = "levels" /\ AllIdle
    BY <2>0, <2>2 DEF Begun, ReinitInv, LoneReinit
  <2>3. CASE pc = "fselRead" /\ AllIdle
    <3>1. call'[t].pc = "fselRead" /\ call'[t].k = 1 /\ \A u \in Threads : u # t => call'[u] = call[u]
      BY <2>0, <2>3 DEF Begun
    <3>2. Initing(call[t], gpio)'
      BY <3>1 DEF Initing
    <3>3. (\A u \in Threads : call[u].pc # "idle" => Initing(call[u], gpio))' /\ ~AllIdle'
      BY <2>3, <3>1, <3>2 DEF AllIdle
    <3>4. QED
      BY <3>3 DEF ReinitInv
  <2>4. QED
    BY <1>4, <2>1, <2>2, <2>3
<1>5. ASSUME NEW t \in Threads, ReinitStep(t), LoneReinit PROVE ReinitInv'
  <2>1. epoch' = epoch /\ \A u \in Threads : u # t => call'[u].pc = "idle"
    BY <1>5, ReinitStepFacts, LoneReinitFacts
  <2>2. /\ call'[t].pc # "idle" => Initing(call[t], gpio)'
        /\ call'[t].pc = "idle" => Reinited(gpio)'
    BY <1>5, LoneReinitSelects, LoneReinitPulls DEF ReinitStep
  <2>3. QED
    BY <2>1, <2>2 DEF ReinitInv, AllIdle
<1>6. ASSUME NEW t \in Threads, ReinitStep(t), ~LoneReinit PROVE ReinitInv'
  <2>1. epoch' = epoch
    BY <1>6, ReinitStepFacts
  <2>2. QED
    BY <1>6, <2>1 DEF ReinitInv, LoneReinit, Alone
<1>7. QED
  BY <1>1, <1>2, <1>3, <1>4, <1>5, <1>6, NextCases

\* A reinit nobody disturbs gives each pin of the port its IO's direction and pull,
\* with the outputs low, and leaves the pull control and every pad's clock switched
\* off (bcm2835.c 64-136).
THEOREM PortReinitIsExact == Spec => []ReinitIsExact
<1>1. Init => PortInv /\ HistoryInv /\ ClockInv /\ ReinitInv
  <2>1. Init => ReinitInv
    BY DEF Init, NoEpoch, ReinitInv, LoneReinit, Alone
  <2>2. Init => ClockInv
    <3> SUFFICES ASSUME Init PROVE ClockInv
      OBVIOUS
    <3>1. gpio.gppudclk = {}
      BY DEF Init
    <3>2. \A t \in Threads : call[t].pc = "idle"
      BY DEF Init, Idle
    <3>3. QED
      BY <3>1, <3>2 DEF ClockInv
  <2>3. QED
    BY <2>1, <2>2, InitEstablishesPortInv, InitEstablishesHistoryInv
<1>2. PortInv /\ HistoryInv /\ ClockInv /\ ReinitInv /\ [Next]_vars
        => (PortInv /\ HistoryInv /\ ClockInv /\ ReinitInv)'
  BY NextKeepsPortInv, NextKeepsHistoryInv, NextKeepsClockInv, NextKeepsReinitInv
<1>3. ClockInv /\ ReinitInv => ReinitIsExact
  <2> SUFFICES ASSUME ClockInv, ReinitInv, Undisturbed, epoch.reinit
               PROVE  /\ \A p \in PortPins : /\ gpio.gpfsel[p] = io[p].mode
                                             /\ gpio.pull[p] = io[p].pud
                                             /\ io[p].mode = ModeOut => p \notin gpio.output
                      /\ gpio.gppud = "OFF" /\ gpio.gppudclk = {}
    BY DEF ReinitIsExact
  <2>1. Reinited(gpio)
    BY DEF ReinitInv, LoneReinit, Alone, Undisturbed
  <2>2. gpio.gppudclk = {}
    BY DEF ClockInv, Clocking, Undisturbed, AllIdle
  <2>3. QED
    BY <2>1, <2>2 DEF Reinited, Selected, Low, Pulled
<1>4. QED
  BY <1>1, <1>2, <1>3, PTL DEF Spec

-----------------------------------------------------------------------------
(* A serial transmitter on a port: its words, and the port under its ticks. *)

\* The words the tick has fetched.
Fetched == Len(written) - Len(queue)

\* How far the wire is: n bits into the word fetched last; or nothing was sent yet.
Reached(n) == Fetched >= 1 /\ Len(sent) = LastBit * (Fetched - 1) + n
Unused     == bit = StopBit /\ Fetched = 0 /\ Len(sent) = 0

\* The byte, in the driver's state and in the tick's local, is that word.
ByteIsWord  == byte = written[Fetched]
LocalIsWord == tick.byte = written[Fetched]

\* The tick's update is to come or under way, of its bits or of none.
Sending == tick.pc \in {"update", "updating"} /\ tick.bits
Idling  == tick.pc = "fetch" \/ (tick.pc \in {"update", "updating"} /\ ~tick.bits)

TickInv ==
    /\ tick.bits => tick.pc \in {"update", "updating"}
    /\ tick.pc = "between" => Unused \/ (bit \in 1..LastBit /\ Reached(bit) /\ ByteIsWord)
    /\ Idling => Unused \/ (bit = LastBit /\ Reached(bit) /\ ByteIsWord)
    /\ tick.pc \in {"byte", "bit"} => Reached(0) /\ LocalIsWord
    /\ tick.pc = "bit" => ByteIsWord
    /\ tick.pc \in {"clock", "data"} =>
          bit \in 0..(LastBit - 1) /\ Reached(bit) /\ ByteIsWord /\ LocalIsWord
    /\ Sending => bit \in 1..LastBit /\ Reached(bit - 1) /\ ByteIsWord /\ LocalIsWord

TickType == [pc : {"between", "fetch", "byte", "bit", "clock", "data", "update", "updating"},
             byte : Int, bits : BOOLEAN, clock : BOOLEAN, gap : BOOLEAN]
SentType == [data : BOOLEAN, edge : BOOLEAN, gap : BOOLEAN]

WordTypes ==
    /\ wordSize \in WordSizes /\ bit \in Int /\ byte \in Int /\ tick \in TickType
    /\ queue \in Seq(Words) /\ written \in Seq(Words) /\ sent \in Seq(SentType)

QueueIsRest ==
    /\ Fetched >= 0
    /\ \A j \in 1..Len(queue) : queue[j] = written[Fetched + j]
    /\ app \in {"waitBit", "returned"} => queue = <<>>

DataIsBit(k) ==
    LET w == written[(k - 1) \div LastBit + 1]
    IN  sent[k].data = (BitOf(w, (k - 1) % LastBit) = 1)

WordsInv == WordTypes /\ QueueIsRest /\ TickInv /\ \A k \in 1..Len(sent) : DataIsBit(k)

\* Updates are the dispatcher's, and nobody disturbs them.
PinsInv ==
    /\ \A p \in PortPins : io[p].mode = ModeOut
    /\ \A t \in Threads : call[t].pc # "idle" => t = Dispatcher /\ tick.pc = "updating"
    /\ tick.pc = "update" /\ tick.bits => io[DataPin].state = BitOf(tick.byte, bit - 1)
    /\ tick.pc = "updating" =>
          /\ LoneUpdate /\ UpdateInv
          /\ epoch.mask = IF tick.bits THEN {ClockPin, DataPin} ELSE {}
          /\ tick.bits => epoch.asked[DataPin] = {BitOf(tick.byte, bit - 1)}

\* The state the tick negates tells the clock's level, after a tick with data.
EdgeInv ==
    /\ EdgeMarksBit
    /\ ~tick.gap =>
          /\ tick.pc = "between" => (io[ClockPin].state # 0 <=> IsHigh(ClockPin))
          /\ tick.pc \in {"fetch", "byte", "bit", "clock"} =>
                (io[ClockPin].state # 0 <=> tick.clock)
          /\ tick.pc \in {"data", "update"} /\ (tick.pc = "data" \/ tick.bits) =>
                io[ClockPin].state = IF tick.clock THEN 0 ELSE 1
          /\ tick.pc = "updating" /\ tick.bits => (epoch.asked[ClockPin] = {1} <=> ~tick.clock)

\* Of the bits sent the first one moves the clock pin, and no other.
ClockRisesOnce == \A k \in 1..Len(sent) : sent[k].edge <=> k = 1

\* Where a pin's state keeps no bit, the state is 0 again after every update, and
\* each tick with data raises the clock anew.
RiseInv ==
    /\ ClockRisesOnce
    /\ tick.pc \in {"between", "fetch", "byte", "bit", "clock"} => io[ClockPin].state = 0
    /\ (tick.pc = "data" \/ (tick.pc = "update" /\ tick.bits)) => io[ClockPin].state = 1
    /\ tick.pc # "between" => (tick.clock <=> Len(sent) > 0)
    /\ tick.pc # "updating" => (IsHigh(ClockPin) <=> Len(sent) > 0)
    /\ tick.pc = "updating" /\ tick.bits => epoch.asked[ClockPin] = {1}
    /\ tick.pc = "updating" /\ ~tick.bits => (ClockPin \in epoch.before <=> Len(sent) > 0)

-----------------------------------------------------------------------------
\* The bit of a word at a position of the wire.
LEMMA Positions ==
    ASSUME NEW last \in 1..7, NEW n \in Nat, NEW k \in 0..(last - 1)
    PROVE  (last * n + k) \div last = n /\ (last * n + k) % last = k
<1>1. last \in {1, 2, 3, 4, 5, 6, 7}
  OBVIOUS
<1>2. CASE last = 1
  BY <1>2
<1>3. CASE last = 2
  BY <1>3
<1>4. CASE last = 3
  BY <1>4
<1>5. CASE last = 4
  BY <1>5
<1>6. CASE last = 5
  BY <1>6
<1>7. CASE last = 6
  BY <1>7
<1>8. CASE last = 7
  BY <1>8
<1>9. QED
  BY <1>1, <1>2, <1>3, <1>4, <1>5, <1>6, <1>7, <1>8

\* A bit sent is of a word fetched.
LEMMA PositionIsFetched ==
    ASSUME NEW last \in 1..7, NEW n \in Nat, NEW k \in Nat, k < last * n
    PROVE  k \div last \in 0..(n - 1) /\ k % last \in 0..(last - 1)
<1>1. last \in {1, 2, 3, 4, 5, 6, 7}
  OBVIOUS
<1>2. CASE last = 1
  BY <1>2
<1>3. CASE last = 2
  BY <1>3
<1>4. CASE last = 3
  BY <1>4
<1>5. CASE last = 4
  BY <1>5
<1>6. CASE last = 5
  BY <1>6
<1>7. CASE last = 6
  BY <1>7
<1>8. CASE last = 7
  BY <1>8
<1>9. QED
  BY <1>1, <1>2, <1>3, <1>4, <1>5, <1>6, <1>7, <1>8

LEMMA BitsAreLevels ==
    ASSUME NEW b \in Int, NEW k \in 0..6
    PROVE  BitOf(b, k) \in {0, 1} /\ Level(BitOf(b, k)) = BitOf(b, k)
<1>1. 2^0 = 1 /\ 2^1 = 2 /\ 2^2 = 4 /\ 2^3 = 8 /\ 2^4 = 16 /\ 2^5 = 32 /\ 2^6 = 64
  OBVIOUS
<1>2. \A j \in {0, 1, 2, 3, 4, 5, 6} : k = j => BitOf(b, k) = (b \div 2^j) % 2
  BY Zenon DEF BitOf
<1>3. BitOf(b, k) \in {(b \div 1) % 2, (b \div 2) % 2, (b \div 4) % 2, (b \div 8) % 2,
                       (b \div 16) % 2, (b \div 32) % 2, (b \div 64) % 2}
  BY <1>1, <1>2
<1>4. BitOf(b, k) \in {0, 1}
  BY <1>3
<1>5. QED
  BY <1>4 DEF Level

LEMMA SerialFacts ==
    ASSUME WordTypes
    PROVE  /\ LastBit \in 1..7
           /\ ClockPin \in PortPins /\ DataPin \in PortPins /\ ClockPin # DataPin
           /\ Dispatcher \in Threads
           /\ Words \subseteq Int
           /\ Len(written) \in Nat /\ Len(queue) \in Nat /\ Len(sent) \in Nat
<1>1. wordSize \in 2..8
  BY SerialAssumption DEF WordTypes
<1>2. Words \subseteq Int
  BY SerialAssumption
<1>3. QED
  BY <1>1, <1>2, SerialAssumption DEF WordTypes, LastBit

\* The bits sent are those of the words fetched, but for the one in progress.
LEMMA SentBound ==
    ASSUME WordsInv
    PROVE  /\ Fetched \in Nat /\ Fetched <= Len(written)
           /\ Len(sent) <= LastBit * Fetched /\ Len(sent) >= LastBit * (Fetched - 1)
<1>1. /\ LastBit \in 1..7 /\ Len(written) \in Nat /\ Len(queue) \in Nat /\ Len(sent) \in Nat
      /\ tick \in TickType /\ bit \in Int
  BY SerialFacts DEF WordsInv, WordTypes
<1>2. Fetched \in Nat /\ Fetched <= Len(written)
  BY <1>1 DEF WordsInv, QueueIsRest, Fetched
<1>3. Unused \/ \E n \in 0..LastBit : Reached(n)
  <2>1. \/ tick.pc = "between" \/ Idling \/ tick.pc \in {"byte", "bit"}
        \/ tick.pc \in {"clock", "data"} \/ Sending
    BY <1>1 DEF TickType, Idling, Sending
  <2>2. QED
    BY <1>1, <2>1 DEF WordsInv, TickInv
<1>4. CASE Unused
  BY <1>1, <1>4 DEF Unused
<1>5. ASSUME NEW n \in 0..LastBit, Reached(n)
      PROVE  Len(sent) <= LastBit * Fetched /\ Len(sent) >= LastBit * (Fetched - 1)
  <2>1. LastBit * Fetched = LastBit * (Fetched - 1) + LastBit
    BY <1>1, <1>2
  <2>2. LastBit * (Fetched - 1) \in Int
    BY <1>1, <1>2
  <2>3. QED
    BY <1>1, <1>5, <2>1, <2>2 DEF Reached
<1>6. QED
  BY <1>2, <1>3, <1>4, <1>5

-----------------------------------------------------------------------------
\* A step of the tick that changes only where it is.
LEMMA TickMoves ==
    ASSUME WordsInv, UNCHANGED <<wordSize, queue, written, sent, app>>,
           bit' \in Int, byte' \in Int, tick' \in TickType, TickInv'
    PROVE  WordsInv'
<1>1. WordTypes' /\ QueueIsRest'
  BY DEF WordsInv, WordTypes, QueueIsRest, Fetched
<1>2. (\A k \in 1..Len(sent) : DataIsBit(k))'
  BY DEF WordsInv, DataIsBit, LastBit, BitOf
<1>3. QED
  BY <1>1, <1>2 DEF WordsInv

\* Where the wire and the words are the same, so is how far it is.
LEMMA SamePlace ==
    ASSUME UNCHANGED <<wordSize, queue, written, sent>>
    PROVE  /\ Fetched' = Fetched /\ LastBit' = LastBit
           /\ \A n : Reached(n)' <=> Reached(n)
BY DEF Fetched, LastBit, Reached

LEMMA TickMovesKeepWordsInv ==
    ASSUME WordsInv,
           \/ TickBegins \/ NothingToSend \/ StoreByte \/ ResetBit \/ ToggleClock
           \/ DriveData \/ UpdateBegins \/ UpdateGoesOn
    PROVE  WordsInv'
<1>1. UNCHANGED <<wordSize, queue, written, sent, app>>
  BY DEF TickBegins, NothingToSend, StoreByte, ResetBit, ToggleClock, DriveData, UpdateBegins,
         UpdateGoesOn, serialVars
<1>2. /\ Fetched' = Fetched /\ LastBit' = LastBit
      /\ \A n : Reached(n)' <=> Reached(n)
  BY <1>1, SamePlace
<1>3. LastBit \in 1..7 /\ bit \in Int /\ byte \in Int /\ tick \in TickType /\ TickInv
  BY SerialFacts DEF WordsInv, WordTypes
<1>4. CASE TickBegins
  <2>1. /\ tick.pc = "between" /\ bit' = bit /\ byte' = byte
        /\ tick' = [tick EXCEPT !.pc = IF WordDone THEN "fetch" ELSE "clock", !.byte = byte,
                                !.clock = IsHigh(ClockPin)]
    BY <1>4 DEF TickBegins
  <2> DEFINE high == IsHigh(ClockPin)
  <2>2. high \in BOOLEAN
    BY DEF IsHigh
  <2> HIDE DEF high
  <2>3. /\ tick' \in TickType /\ tick'.pc = (IF WordDone THEN "fetch" ELSE "clock")
        /\ tick'.byte = byte /\ tick'.bits = tick.bits
    BY <1>3, <2>1, <2>2 DEF TickType, high
  <2>4. TickInv'
    BY <1>1, <1>2, <1>3, <2>1, <2>3
       DEF TickInv, Idling, Sending, Unused, ByteIsWord, LocalIsWord, WordDone, StopBit
  <2>5. QED
    BY <1>1, <1>3, <2>1, <2>3, <2>4, TickMoves
<1>5. CASE NothingToSend
  <2>1. /\ tick.pc = "fetch" /\ bit' = bit /\ byte' = byte /\ tick' = [tick EXCEPT !.pc = "update"]
    BY <1>5 DEF NothingToSend
  <2>2. /\ tick' \in TickType /\ tick'.pc = "update" /\ tick'.bits = tick.bits
    BY <1>3, <2>1 DEF TickType
  <2>3. TickInv'
    BY <1>1, <1>2, <1>3, <2>1, <2>2 DEF TickInv, Idling, Sending, Unused, ByteIsWord, LocalIsWord
  <2>4. QED
    BY <1>1, <1>3, <2>1, <2>2, <2>3, TickMoves
<1>6. CASE StoreByte
  <2>1. tick.pc = "byte" /\ bit' = bit /\ byte' = tick.byte /\ tick' = [tick EXCEPT !.pc = "bit"]
    BY <1>6 DEF StoreByte
  <2>2. /\ tick' \in TickType /\ tick'.pc = "bit" /\ tick'.bits = tick.bits
        /\ tick'.byte = tick.byte /\ byte' \in Int
    BY <1>3, <2>1 DEF TickType
  <2>3. TickInv'
    BY <1>1, <1>2, <1>3, <2>1, <2>2 DEF TickInv, Idling, Sending, Unused, ByteIsWord, LocalIsWord
  <2>4. QED
    BY <1>1, <1>3, <2>1, <2>2, <2>3, TickMoves
<1>7. CASE ResetBit
  <2>1. tick.pc = "bit" /\ bit' = 0 /\ byte' = byte /\ tick' = [tick EXCEPT !.pc = "clock"]
    BY <1>7 DEF ResetBit
  <2>2. /\ tick' \in TickType /\ tick'.pc = "clock" /\ tick'.bits = tick.bits
        /\ tick'.byte = tick.byte
    BY <1>3, <2>1 DEF TickType
  <2>3. TickInv'
    BY <1>1, <1>2, <1>3, <2>1, <2>2 DEF TickInv, Idling, Sending, Unused, ByteIsWord, LocalIsWord
  <2>4. QED
    BY <1>1, <1>3, <2>1, <2>2, <2>3, TickMoves
<1>8. CASE ToggleClock
  <2>1. tick.pc = "clock" /\ bit' = bit /\ byte' = byte /\ tick' = [tick EXCEPT !.pc = "data"]
    BY <1>8 DEF ToggleClock
  <2>2. /\ tick' \in TickType /\ tick'.pc = "data" /\ tick'.bits = tick.bits
        /\ tick'.byte = tick.byte
    BY <1>3, <2>1 DEF TickType
  <2>3. TickInv'
    BY <1>1, <1>2, <1>3, <2>1, <2>2 DEF TickInv, Idling, Sending, Unused, ByteIsWord, LocalIsWord
  <2>4. QED
    BY <1>1, <1>3, <2>1, <2>2, <2>3, TickMoves
<1>9. CASE DriveData
  <2>1. /\ tick.pc = "data" /\ bit' = bit + 1 /\ byte' = byte
        /\ tick' = [tick EXCEPT !.pc = "update", !.bits = TRUE]
    BY <1>9 DEF DriveData
  <2>2. /\ tick' \in TickType /\ tick'.pc = "update" /\ tick'.bits
        /\ tick'.byte = tick.byte
    BY <1>3, <2>1 DEF TickType
  <2>3. bit' \in 1..LastBit /\ bit' - 1 = bit
    BY <1>3, <2>1 DEF TickInv
  <2>4. TickInv'
    BY <1>1, <1>2, <1>3, <2>1, <2>2, <2>3
       DEF TickInv, Idling, Sending, Unused, ByteIsWord, LocalIsWord
  <2>5. QED
    BY <1>1, <1>3, <2>1, <2>2, <2>3, <2>4, TickMoves
<1>10. CASE UpdateBegins
  <2>1. /\ tick.pc = "update" /\ bit' = bit /\ byte' = byte
        /\ tick' = [tick EXCEPT !.pc = "updating"]
    BY <1>10 DEF UpdateBegins
  <2>2. /\ tick' \in TickType /\ tick'.pc = "updating" /\ tick'.bits = tick.bits
        /\ tick'.byte = tick.byte
    BY <1>3, <2>1 DEF TickType
  <2>3. TickInv'
    BY <1>1, <1>2, <1>3, <2>1, <2>2 DEF TickInv, Idling, Sending, Unused, ByteIsWord, LocalIsWord
  <2>4. QED
    BY <1>1, <1>3, <2>1, <2>2, <2>3, TickMoves
<1>11. CASE UpdateGoesOn
  <2>1. UNCHANGED <<bit, byte, tick>>
    BY <1>11 DEF UpdateGoesOn, serialVars
  <2>2. TickInv'
    BY <1>1, <1>2, <1>3, <2>1 DEF TickInv, Idling, Sending, Unused, ByteIsWord, LocalIsWord
  <2>3. QED
    BY <1>1, <1>3, <2>1, <2>2, TickMoves
<1>12. QED
  BY <1>4, <1>5, <1>6, <1>7, <1>8, <1>9, <1>10, <1>11

\* The next word is fetched when all bits of those before it were sent.
LEMMA DequeueKeepsWordsInv ==
    ASSUME WordsInv, Dequeue
    PROVE  WordsInv'
<1>1. /\ LastBit \in 1..7 /\ bit \in Int /\ tick \in TickType /\ Words \subseteq Int
      /\ Len(written) \in Nat /\ Len(queue) \in Nat /\ Len(sent) \in Nat /\ Fetched \in Nat
      /\ queue \in Seq(Words)
  BY SerialFacts, SentBound DEF WordsInv, WordTypes
<1>2. /\ tick.pc = "fetch" /\ queue # <<>> /\ queue' = Tail(queue)
      /\ tick' = [tick EXCEPT !.pc = "byte", !.byte = Head(queue)]
      /\ UNCHANGED <<wordSize, bit, byte, app, written, sent>>
  BY DEF Dequeue
<1>3. /\ Len(queue) >= 1 /\ Head(queue) = queue[1] /\ queue[1] \in Words
      /\ queue' \in Seq(Words) /\ Len(queue') = Len(queue) - 1
      /\ \A j \in 1..Len(queue') : queue'[j] = queue[j + 1]
  BY <1>1, <1>2
<1>4. Fetched' = Fetched + 1 /\ LastBit' = LastBit
  BY <1>1, <1>2, <1>3 DEF Fetched, LastBit
<1>5. tick' \in TickType /\ tick'.pc = "byte" /\ tick'.byte = queue[1] /\ tick'.bits = tick.bits
  <2>1. Head(queue) \in Int
    BY <1>1, <1>3
  <2>2. QED
    BY <1>1, <1>2, <1>3, <2>1 DEF TickType
<1>6. WordTypes'
  BY <1>2, <1>3, <1>5 DEF WordsInv, WordTypes
<1>7. \A j \in 1..Len(queue) : queue[j] = written[Fetched + j]
  BY DEF WordsInv, QueueIsRest
<1>8. QueueIsRest'
  <2>1. \A j \in 1..Len(queue') : queue'[j] = written[Fetched' + j]
    <3> TAKE j \in 1..Len(queue')
    <3>1. j + 1 \in 1..Len(queue) /\ Fetched' + j = Fetched + (j + 1)
      BY <1>1, <1>3, <1>4
    <3>2. QED
      BY <1>3, <1>7, <3>1
  <2>2. app' \notin {"waitBit", "returned"}
    BY <1>2 DEF WordsInv, QueueIsRest
  <2>3. QED
    BY <1>1, <1>2, <1>4, <2>1, <2>2 DEF QueueIsRest
<1>9. Len(sent) = LastBit * Fetched
  <2>1. Unused \/ (bit = LastBit /\ Reached(bit))
    BY <1>2 DEF WordsInv, TickInv, Idling
  <2>2. LastBit * Fetched = LastBit * (Fetched - 1) + LastBit
    BY <1>1
  <2>3. Fetched = 0 => LastBit * Fetched = 0
    BY <1>1
  <2>4. QED
    BY <1>1, <2>1, <2>2, <2>3 DEF Unused, Reached
<1>10. Reached(0)'
  <2>1. Fetched' - 1 = Fetched /\ LastBit * Fetched + 0 = LastBit * Fetched
    BY <1>1, <1>4
  <2>2. QED
    BY <1>1, <1>2, <1>4, <1>9, <2>1 DEF Reached
<1>11. LocalIsWord'
  <2>1. queue[1] = written[Fetched + 1]
    BY <1>1, <1>3, <1>7
  <2>2. QED
    BY <1>2, <1>4, <1>5, <2>1 DEF LocalIsWord
<1>12. TickInv'
  BY <1>1, <1>2, <1>5, <1>10, <1>11 DEF TickInv, WordsInv, Idling, Sending
<1>13. (\A k \in 1..Len(sent) : DataIsBit(k))'
  BY <1>2 DEF WordsInv, DataIsBit, LastBit, BitOf
<1>14. QED
  BY <1>6, <1>8, <1>12, <1>13 DEF WordsInv

LEMMA WriteKeepsWordsInv ==
    ASSUME WordsInv, NEW w \in Words, WriteWord(w)
    PROVE  WordsInv'
<1>1. /\ LastBit \in 1..7 /\ bit \in Int /\ tick \in TickType
      /\ Len(written) \in Nat /\ Len(queue) \in Nat /\ Len(sent) \in Nat
      /\ Fetched \in Nat /\ Fetched <= Len(written) /\ Len(sent) <= LastBit * Fetched
      /\ queue \in Seq(Words) /\ written \in Seq(Words)
      /\ Fetched = Len(written) - Len(queue)
  BY SerialFacts, SentBound DEF WordsInv, WordTypes, Fetched
<1>2. /\ queue' = Append(queue, w) /\ written' = Append(written, w) /\ app' = "idle"
      /\ UNCHANGED <<wordSize, bit, byte, tick, sent>>
  BY DEF WriteWord, AppOnly
<1>3. /\ queue' \in Seq(Words) /\ Len(queue') = Len(queue) + 1 /\ queue'[Len(queue) + 1] = w
      /\ \A j \in 1..Len(queue) : queue'[j] = queue[j]
  BY <1>1, <1>2
<1>4. /\ written' \in Seq(Words) /\ Len(written') = Len(written) + 1
      /\ written'[Len(written) + 1] = w
      /\ \A j \in 1..Len(written) : written'[j] = written[j]
  BY <1>1, <1>2
<1>5. Fetched' = Fetched /\ LastBit' = LastBit /\ \A n : Reached(n)' <=> Reached(n)
  BY <1>1, <1>2, <1>3, <1>4 DEF Fetched, LastBit, Reached
<1>6. WordTypes'
  BY <1>2, <1>3, <1>4 DEF WordsInv, WordTypes
<1>7. QueueIsRest'
  <2>1. \A j \in 1..Len(queue') : queue'[j] = written'[Fetched' + j]
    <3> TAKE j \in 1..Len(queue')
    <3>1. CASE j = Len(queue) + 1
      <4>1. Fetched' + j = Len(written) + 1
        BY <1>1, <1>5, <3>1
      <4>2. QED
        BY <1>3, <1>4, <3>1, <4>1
    <3>2. CASE j # Len(queue) + 1
      <4>1. j \in 1..Len(queue) /\ Fetched + j \in 1..Len(written)
        BY <1>1, <1>3, <3>2
      <4>2. queue[j] = written[Fetched + j]
        BY <4>1 DEF WordsInv, QueueIsRest
      <4>3. QED
        BY <1>3, <1>4, <1>5, <4>1, <4>2
    <3>3. QED
      BY <3>1, <3>2
  <2>2. Fetched' >= 0 /\ app' \notin {"waitBit", "returned"}
    BY <1>1, <1>2, <1>5
  <2>3. QED
    BY <2>1, <2>2 DEF QueueIsRest
<1>8. TickInv'
  <2>1. Fetched >= 1 => written'[Fetched'] = written[Fetched]
    <3>1. Fetched >= 1 => Fetched \in 1..Len(written)
      BY <1>1
    <3>2. QED
      BY <1>4, <1>5, <3>1
  <2>2. QED
    BY <1>2, <1>5, <2>1
       DEF WordsInv, TickInv, Idling, Sending, Unused, Reached, ByteIsWord, LocalIsWord
<1>9. (\A k \in 1..Len(sent) : DataIsBit(k))'
  <2> SUFFICES ASSUME NEW k \in 1..Len(sent) PROVE DataIsBit(k)'
    BY <1>2
  <2>1. k - 1 \in Nat /\ k - 1 < LastBit * Fetched
    <3>1. LastBit * Fetched \in Int
      BY <1>1
    <3>2. QED
      BY <1>1, <3>1
  <2>2. (k - 1) \div LastBit \in 0..(Fetched - 1)
    BY <1>1, <2>1, PositionIsFetched
  <2> DEFINE n == (k - 1) \div LastBit
  <2>3. n + 1 \in 1..Len(written)
    <3> HIDE DEF n
    <3>1. n \in 0..(Fetched - 1)
      BY <2>2 DEF n
    <3>2. QED
      BY <1>1, <3>1
  <2>4. written'[n + 1] = written[n + 1]
    BY <1>4, <2>3
  <2>5. QED
    BY <1>2, <1>5, <2>4 DEF WordsInv, DataIsBit, BitOf
<1>10. QED
  BY <1>6, <1>7, <1>8, <1>9 DEF WordsInv

LEMMA WaitKeepsWordsInv ==
    ASSUME WordsInv, CallWait \/ WaitStep
    PROVE  WordsInv'
<1>1. UNCHANGED <<wordSize, bit, byte, tick, sent, queue, written>>
  BY DEF CallWait, WaitStep, QueueSeenEmpty, LastBitSeen, AppOnly
<1>2. app' \in {"waitBit", "returned"} => queue = <<>>
  BY DEF CallWait, WaitStep, QueueSeenEmpty, LastBitSeen, WordsInv, QueueIsRest
<1>3. Fetched' = Fetched /\ LastBit' = LastBit /\ \A n : Reached(n)' <=> Reached(n)
  BY <1>1, SamePlace
<1>4. WordTypes' /\ QueueIsRest'
  BY <1>1, <1>2, <1>3 DEF WordsInv, WordTypes, QueueIsRest
<1>5. TickInv'
  BY <1>1, <1>3 DEF WordsInv, TickInv, Idling, Sending, Unused, ByteIsWord, LocalIsWord
<1>6. (\A k \in 1..Len(sent) : DataIsBit(k))'
  BY <1>1 DEF WordsInv, DataIsBit, LastBit, BitOf
<1>7. QED
  BY <1>4, <1>5, <1>6 DEF WordsInv

\* An update with the tick's bits puts the next bit on the wire.
LEMMA UpdateEndKeepsWordsInv ==
    ASSUME WordsInv, UpdateEnds,
           tick.bits => IsHigh(DataPin) = (BitOf(tick.byte, bit - 1) = 1)
    PROVE  WordsInv'
<1>1. /\ LastBit \in 1..7 /\ bit \in Int /\ tick \in TickType
      /\ Len(written) \in Nat /\ Len(queue) \in Nat /\ Len(sent) \in Nat
      /\ Fetched \in Nat /\ Fetched <= Len(written) /\ sent \in Seq(SentType)
  BY SerialFacts, SentBound DEF WordsInv, WordTypes
<1>2. /\ tick.pc = "updating" /\ tick' = [Between EXCEPT !.gap = ~tick.bits]
      /\ sent' = IF tick.bits THEN Append(sent, SentBit) ELSE sent
      /\ UNCHANGED <<wordSize, queue, bit, byte, app, written>>
  BY DEF UpdateEnds
<1>3. tick' \in TickType /\ tick'.pc = "between" /\ ~tick'.bits
  <2> DEFINE gap == ~tick.bits
  <2>1. gap \in BOOLEAN
    OBVIOUS
  <2> HIDE DEF gap
  <2>2. tick' = [Between EXCEPT !.gap = gap]
    BY <1>2 DEF gap
  <2>3. tick' = [pc |-> "between", byte |-> 0, bits |-> FALSE, clock |-> FALSE, gap |-> gap]
    BY <2>2 DEF Between
  <2>4. QED
    BY <2>1, <2>3 DEF TickType
<1>4. Fetched' = Fetched /\ LastBit' = LastBit
  BY <1>2 DEF Fetched, LastBit
<1>5. QueueIsRest'
  BY <1>2, <1>4 DEF WordsInv, QueueIsRest
<1>6. CASE ~tick.bits
  <2>1. UNCHANGED <<wordSize, queue, written, sent>>
    BY <1>2, <1>6
  <2>2. \A n : Reached(n)' <=> Reached(n)
    BY <2>1, SamePlace
  <2>3. Idling /\ ~Sending
    BY <1>2, <1>6 DEF Idling, Sending
  <2>4. TickInv'
    BY <1>1, <1>2, <1>3, <1>4, <2>1, <2>2, <2>3
       DEF WordsInv, TickInv, Idling, Sending, Unused, ByteIsWord
  <2>5. QED
    BY <1>2, <1>3, <2>1, <2>4, TickMoves DEF WordsInv, WordTypes
<1>7. CASE tick.bits
  <2>1. bit \in 1..LastBit /\ Reached(bit - 1) /\ ByteIsWord /\ LocalIsWord
    BY <1>2, <1>7 DEF WordsInv, TickInv, Sending
  <2> DEFINE b == SentBit
  <2>2. b \in SentType /\ b.data = IsHigh(DataPin)
    BY <1>1 DEF SentBit, SentType, IsHigh, TickType
  <2> HIDE DEF b
  <2>3. /\ sent' \in Seq(SentType) /\ Len(sent') = Len(sent) + 1 /\ sent'[Len(sent) + 1] = b
        /\ \A k \in 1..Len(sent) : sent'[k] = sent[k]
    BY <1>1, <1>2, <1>7, <2>2 DEF b
  <2>4. WordTypes'
    BY <1>2, <1>3, <2>3 DEF WordsInv, WordTypes
  <2>5. /\ Fetched >= 1 /\ LastBit * (Fetched - 1) \in Int
        /\ Len(sent) = LastBit * (Fetched - 1) + (bit - 1)
    BY <1>1, <2>1 DEF Reached
  <2>6. Reached(bit)'
    <3>1. Len(sent') = LastBit * (Fetched - 1) + bit
      BY <1>1, <2>3, <2>5
    <3>2. QED
      BY <1>2, <1>4, <2>5, <3>1 DEF Reached
  <2>7. TickInv'
    BY <1>2, <1>3, <1>4, <2>1, <2>6 DEF TickInv, Idling, Sending, ByteIsWord
  <2>8. (\A k \in 1..Len(sent) : DataIsBit(k))'
    <3> SUFFICES ASSUME NEW k \in 1..Len(sent') PROVE DataIsBit(k)'
      OBVIOUS
    <3>1. CASE k = Len(sent) + 1
      <4>1. bit - 1 \in 0..(LastBit - 1) /\ Fetched - 1 \in Nat
        BY <1>1, <2>1, <2>5
      <4>2. /\ (LastBit * (Fetched - 1) + (bit - 1)) \div LastBit = Fetched - 1
            /\ (LastBit * (Fetched - 1) + (bit - 1)) % LastBit = bit - 1
        BY <1>1, <4>1, Positions
      <4>3. k - 1 = LastBit * (Fetched - 1) + (bit - 1)
        BY <1>1, <2>5, <3>1
      <4>4. (k - 1) \div LastBit + 1 = Fetched /\ (k - 1) % LastBit = bit - 1
        BY <1>1, <4>2, <4>3
      <4>5. tick.byte = written'[Fetched]
        BY <1>2, <2>1 DEF LocalIsWord
      <4>6. sent'[k].data = (BitOf(tick.byte, bit - 1) = 1)
        BY <1>7, <2>2, <2>3, <3>1
      <4>7. sent'[k].data = (BitOf(written'[(k - 1) \div LastBit + 1], (k - 1) % LastBit) = 1)
        BY <4>4, <4>5, <4>6
      <4>8. QED
        BY <1>4, <4>7 DEF DataIsBit, BitOf
    <3>2. CASE k # Len(sent) + 1
      <4>1. k \in 1..Len(sent)
        BY <1>1, <2>3, <3>2
      <4>2. QED
        BY <1>2, <1>4, <2>3, <4>1 DEF WordsInv, DataIsBit, BitOf
    <3>3. QED
      BY <3>1, <3>2
  <2>9. QED
    BY <1>5, <2>4, <2>7, <2>8 DEF WordsInv
<1>8. QED
  BY <1>6, <1>7

-----------------------------------------------------------------------------
\* What the steps change of the port.
LEMMA SerialCases ==
    ASSUME [SerialNext]_allVars
    PROVE  \/ UNCHANGED allVars
           \/ TickBegins \/ NothingToSend \/ Dequeue \/ StoreByte \/ ResetBit
           \/ ToggleClock \/ DriveData \/ UpdateBegins \/ UpdateGoesOn \/ UpdateEnds
           \/ \E w \in Words : WriteWord(w)
           \/ CallWait \/ WaitStep
BY DEF SerialNext, TickStep

\* Most steps leave the port alone.
LEMMA QuietSteps ==
    ASSUME \/ UNCHANGED allVars
           \/ TickBegins \/ NothingToSend \/ Dequeue \/ StoreByte \/ ResetBit \/ UpdateEnds
           \/ \E w \in Words : WriteWord(w)
           \/ CallWait \/ WaitStep
    PROVE  UNCHANGED vars
BY DEF allVars, TickBegins, NothingToSend, Dequeue, StoreByte, ResetBit, UpdateEnds, WriteWord,
       CallWait, WaitStep, QueueSeenEmpty, LastBitSeen, AppOnly

\* The tick sets an IO's state without a word to the history.
LEMMA StateStep ==
    ASSUME PortInv, HistoryInv, NEW p \in PortPins, NEW state \in Int,
           io' = [io EXCEPT ![p].state = state], UNCHANGED <<gpio, wires, call, epoch>>
    PROVE  /\ PortInv' /\ HistoryInv'
           /\ io'[p].state = state
           /\ \A q \in PortPins : /\ io'[q].mode = io[q].mode
                                  /\ q # p => io'[q] = io[q]
<1>1. io = [q \in PortPins |-> io[q]] /\ \A q \in PortPins : IOShape(io[q])
  BY DEF PortInv, Shapes
<1> DEFINE new == [io[p] EXCEPT !.state = state]
<1>2. new.state = state /\ new.mode = io[p].mode /\ new.pud = io[p].pud /\ IOShape(new)
  BY <1>1 DEF IOShape
<1> HIDE DEF new
<1>3. io' = [io EXCEPT ![p] = new]
  BY DEF new
<1>4. /\ io' = [q \in PortPins |-> io'[q]]
      /\ \A q \in PortPins : io'[q] = IF q = p THEN new ELSE io[q]
  BY <1>1, <1>3
<1>5. \A q \in PortPins : io'[q].mode = io[q].mode /\ IOShape(io'[q])
  BY <1>1, <1>2, <1>4
<1>6. PortInv'
  BY <1>4, <1>5 DEF PortInv, Shapes, ForeignPinsUntouched, ReadsBootFsel
<1>7. \A q \in PortPins : io'[q].state \in Int
  BY <1>2, <1>4 DEF HistoryInv
<1>8. HistoryInv'
  <2>1. epoch \in EpochType
    BY DEF HistoryInv
  <2>2. epoch.mask \subseteq PortPins /\ epoch.drivable \subseteq PortPins
    BY <2>1 DEF EpochType
  <2>3. /\ \A q \in epoch.mask : io'[q].mode = ModeOut => q \in epoch.drivable
        /\ Alone => \A q \in epoch.drivable : q \in epoch.mask /\ io'[q].mode = ModeOut
    BY <1>5, <2>2 DEF HistoryInv
  <2>4. QED
    BY <1>7, <2>1, <2>3 DEF HistoryInv, InHistory, Alone
<1>9. QED
  BY <1>2, <1>4, <1>5, <1>6, <1>8

LEMMA ClockStep ==
    ASSUME PortInv, HistoryInv, WordTypes, ToggleClock
    PROVE  /\ PortInv' /\ HistoryInv'
           /\ io'[ClockPin].state = IF io[ClockPin].state = 0 THEN 1 ELSE 0
           /\ \A q \in PortPins : io'[q].mode = io[q].mode
<1>1. ClockPin \in PortPins
  BY SerialFacts
<1>2. PICK state \in Int : /\ state = IF io[ClockPin].state = 0 THEN 1 ELSE 0
                           /\ io' = [io EXCEPT ![ClockPin].state = state]
  <2> DEFINE state == IF io[ClockPin].state = 0 THEN 1 ELSE 0
  <2>1. state \in Int /\ io' = [io EXCEPT ![ClockPin].state = state]
    BY DEF ToggleClock
  <2> HIDE DEF state
  <2>2. \E s \in Int : s = state /\ io' = [io EXCEPT ![ClockPin].state = s]
    BY <2>1
  <2>3. QED
    BY <2>2 DEF state
<1>3. UNCHANGED <<gpio, wires, call, epoch>>
  BY DEF ToggleClock
<1>4. QED
  BY <1>1, <1>2, <1>3, StateStep

LEMMA DataStep ==
    ASSUME PortInv, HistoryInv, WordsInv, DriveData
    PROVE  /\ PortInv' /\ HistoryInv'
           /\ io'[DataPin].state = BitOf(tick.byte, bit)
           /\ io'[ClockPin] = io[ClockPin]
           /\ \A q \in PortPins : io'[q].mode = io[q].mode
<1>1. /\ ClockPin \in PortPins /\ DataPin \in PortPins /\ ClockPin # DataPin
      /\ LastBit \in 1..7 /\ tick.byte \in Int
  BY SerialFacts DEF WordsInv, WordTypes, TickType
<1>2. bit \in 0..6
  BY <1>1 DEF DriveData, WordsInv, TickInv
<1>3. BitOf(tick.byte, bit) \in Int
  BY <1>1, <1>2, BitsAreLevels
<1>4. PICK state \in Int : /\ state = BitOf(tick.byte, bit)
                           /\ io' = [io EXCEPT ![DataPin].state = state]
  BY <1>3 DEF DriveData
<1>5. UNCHANGED <<gpio, wires, call, epoch>>
  BY DEF DriveData
<1>6. QED
  BY <1>1, <1>4, <1>5, StateStep

LEMMA UpdateGoesOnIsNext == UpdateGoesOn => UpdateStep(Dispatcher) /\ [Next]_vars /\ UNCHANGED serialVars
BY SerialAssumption DEF UpdateGoesOn, Next

LEMMA UpdateBeginsFacts ==
    ASSUME PortInv, HistoryInv, WordsInv, PinsInv, UpdateBegins
    PROVE  LET mask == IF tick.bits THEN {ClockPin, DataPin} ELSE {}
           IN  /\ mask \in SUBSET PortPins
               /\ Begins(Dispatcher, mask, "levels", Banks)
               /\ Begun(Dispatcher, mask, "levels", Banks) /\ AllIdle
               /\ tick.pc = "update" /\ tick'.pc = "updating"
               /\ tick'.byte = tick.byte /\ tick'.bits = tick.bits /\ tick'.gap = tick.gap
               /\ tick'.clock = tick.clock
               /\ UNCHANGED <<wordSize, queue, bit, byte, app, written, sent>>
<1> DEFINE mask == IF tick.bits THEN {ClockPin, DataPin} ELSE {}
<1>1. mask \in SUBSET PortPins /\ Dispatcher \in Threads /\ tick \in TickType
  BY SerialFacts DEF WordsInv, WordTypes
<1>2. /\ tick.pc = "update" /\ CallUpdate(Dispatcher, mask) /\ tick' = [tick EXCEPT !.pc = "updating"]
      /\ UNCHANGED <<wordSize, queue, bit, byte, app, written, sent>>
  BY DEF UpdateBegins
<1> HIDE DEF mask
<1>3. Begins(Dispatcher, mask, "levels", Banks)
  BY <1>2 DEF CallUpdate, Begins
<1>4. Begun(Dispatcher, mask, "levels", Banks)
  BY <1>1, <1>3, BeginFacts
<1>5. AllIdle
  BY <1>2 DEF PinsInv, AllIdle
<1>6. QED
  BY <1>1, <1>2, <1>3, <1>4, <1>5 DEF mask, TickType

LEMMA SerialKeepsPortInv ==
    ASSUME PortInv, HistoryInv, WordsInv, PinsInv, [SerialNext]_allVars
    PROVE  PortInv' /\ HistoryInv'
<1>1. ASSUME UNCHANGED vars PROVE PortInv' /\ HistoryInv'
  BY <1>1, NextKeepsPortInv, NextKeepsHistoryInv
<1>2. ASSUME UpdateGoesOn PROVE PortInv' /\ HistoryInv'
  BY <1>2, UpdateGoesOnIsNext, NextKeepsPortInv, NextKeepsHistoryInv
<1>3. ASSUME UpdateBegins PROVE PortInv' /\ HistoryInv'
  <2> DEFINE mask == IF tick.bits THEN {ClockPin, DataPin} ELSE {}
  <2>1. /\ mask \in SUBSET PortPins /\ Dispatcher \in Threads
        /\ Begins(Dispatcher, mask, "levels", Banks) /\ CallUpdate(Dispatcher, mask)
    BY <1>3, UpdateBeginsFacts, SerialAssumption DEF UpdateBegins
  <2> HIDE DEF mask
  <2>2. QED
    BY <2>1, BeginKeepsPortInv, BeginKeepsHistoryInv
<1>4. QED
  BY <1>1, <1>2, <1>3, SerialCases, QuietSteps, ClockStep, DataStep DEF WordsInv

\* When the update of a tick with bits has ended, its pins have the levels asked for.
LEMMA UpdateEndFacts ==
    ASSUME PortInv, HistoryInv, WordsInv, PinsInv, UpdateEnds
    PROVE  /\ AllIdle
           /\ tick.bits =>
                 /\ IsHigh(DataPin) = (BitOf(tick.byte, bit - 1) = 1)
                 /\ IsHigh(ClockPin) <=> epoch.asked[ClockPin] = {1}
                 /\ io[ClockPin].state = IF IsHigh(ClockPin) THEN StateByte(ClockPin) ELSE 0
           /\ ~tick.bits =>
                 /\ IsHigh(ClockPin) <=> ClockPin \in epoch.before
                 /\ io[ClockPin].state = 0
<1>1. tick.pc = "updating" /\ call[Dispatcher].pc = "idle"
  BY DEF UpdateEnds, At
<1>2. AllIdle
  BY <1>1 DEF PinsInv, AllIdle
<1>3. CASE tick.bits
  <2>1. /\ ClockPin \in PortPins /\ DataPin \in PortPins /\ LastBit \in 1..7
        /\ tick.byte \in Int
    BY SerialFacts DEF WordsInv, WordTypes, TickType
  <2>2. bit - 1 \in 0..6
    <3>1. bit \in 1..LastBit
      BY <1>1, <1>3 DEF WordsInv, TickInv, Sending
    <3>2. QED
      BY <2>1, <3>1
  <2>3. /\ Updated /\ epoch.mask = {ClockPin, DataPin}
        /\ epoch.asked[DataPin] = {BitOf(tick.byte, bit - 1)}
    BY <1>1, <1>2, <1>3 DEF PinsInv, UpdateInv
  <2>4. ClockPin \in epoch.drivable /\ DataPin \in epoch.drivable
    BY <2>1, <2>3 DEF PinsInv, HistoryInv
  <2>5. \A p \in {ClockPin, DataPin} :
           /\ IsHigh(p) <=> epoch.asked[p] = {1}
           /\ io[p].state = IF epoch.asked[p] = {1} THEN StateByte(p) ELSE 0
    BY <2>1, <2>3, <2>4 DEF Updated, Final, Stored, On, IsHigh
  <2>6. IsHigh(DataPin) = (BitOf(tick.byte, bit - 1) = 1)
    <3>1. \A n \in Int : {n} = {1} <=> n = 1
      OBVIOUS
    <3>2. BitOf(tick.byte, bit - 1) \in Int
      BY <2>1, <2>2, BitsAreLevels
    <3>3. (epoch.asked[DataPin] = {1}) <=> (BitOf(tick.byte, bit - 1) = 1)
      BY <2>3, <3>1, <3>2
    <3>4. IsHigh(DataPin) \in BOOLEAN
      BY DEF IsHigh
    <3>5. IsHigh(DataPin) <=> (BitOf(tick.byte, bit - 1) = 1)
      BY <2>5, <3>3
    <3>6. QED
      BY <3>4, <3>5
  <2>7. QED
    BY <1>2, <1>3, <2>5, <2>6
<1>4. CASE ~tick.bits
  <2>1. ClockPin \in PortPins /\ Updated /\ epoch.mask = {}
    BY <1>1, <1>2, <1>4, SerialFacts DEF PinsInv, UpdateInv, WordsInv
  <2>2. ClockPin \notin epoch.drivable
    BY <1>1, <2>1 DEF PinsInv, LoneUpdate, HistoryInv
  <2>3. QED
    BY <1>2, <1>4, <2>1, <2>2 DEF Updated, Final, Stored, IsHigh
<1>5. QED
  BY <1>3, <1>4

LEMMA SerialKeepsPinsInv ==
    ASSUME PortInv, HistoryInv, WordsInv, PinsInv, [SerialNext]_allVars
    PROVE  PinsInv'
<1>0. /\ ClockPin \in PortPins /\ DataPin \in PortPins /\ LastBit \in 1..7 /\ tick \in TickType
      /\ Dispatcher \in Threads /\ bit \in Int
  BY SerialFacts DEF WordsInv, WordTypes
\* Steps that leave the port and the tick alone.
<1>1. ASSUME UNCHANGED vars, UNCHANGED <<tick, bit>> PROVE PinsInv'
  <2>1. PinsInv /\ (tick.pc = "updating" => UpdateInv')
    BY <1>1, NextKeepsUpdateInv DEF PinsInv
  <2>2. UNCHANGED <<io, call, epoch>>
    BY <1>1 DEF vars
  <2>3. QED
    BY <1>1, <2>1, <2>2 DEF PinsInv, LoneUpdate, Alone, BitOf
\* Steps of the tick before its update.
<1>2. ASSUME UNCHANGED vars, tick.pc # "updating", tick'.pc # "updating",
             tick'.pc = "update" => ~tick'.bits
      PROVE  PinsInv'
  <2>1. UNCHANGED <<io, call>>
    BY <1>2 DEF vars
  <2>2. QED
    BY <1>2, <2>1 DEF PinsInv
<1>3. CASE TickBegins \/ Dequeue \/ StoreByte \/ ResetBit
  <2>1. tick'.pc \in {"fetch", "clock", "byte", "bit"} /\ tick.pc # "updating"
    BY <1>0, <1>3 DEF TickBegins, Dequeue, StoreByte, ResetBit, TickType
  <2>2. QED
    BY <1>2, <1>3, <2>1, QuietSteps
<1>4. CASE NothingToSend
  <2>1. tick.pc = "fetch" /\ tick'.pc = "update" /\ tick'.bits = tick.bits
    BY <1>0, <1>4 DEF NothingToSend, TickType
  <2>2. ~tick.bits
    BY <2>1 DEF WordsInv, TickInv
  <2>3. QED
    BY <1>2, <1>4, <2>1, <2>2, QuietSteps
<1>5. CASE \/ UNCHANGED allVars
           \/ \E w \in Words : WriteWord(w)
           \/ CallWait \/ WaitStep
  <2>1. UNCHANGED <<tick, bit>>
    BY <1>5 DEF allVars, serialVars, WriteWord, CallWait, WaitStep, QueueSeenEmpty, LastBitSeen, AppOnly
  <2>2. QED
    BY <1>1, <1>5, <2>1, QuietSteps
<1>6. CASE ToggleClock
  <2>1. tick.pc = "clock" /\ tick'.pc = "data" /\ UNCHANGED call
    BY <1>0, <1>6 DEF ToggleClock, TickType
  <2>2. \A q \in PortPins : io'[q].mode = io[q].mode
    BY <1>6, ClockStep DEF WordsInv
  <2>3. QED
    BY <2>1, <2>2 DEF PinsInv
<1>7. CASE DriveData
  <2>1. /\ tick.pc = "data" /\ tick'.pc = "update" /\ UNCHANGED call
        /\ tick'.byte = tick.byte /\ bit' = bit + 1
    BY <1>0, <1>7 DEF DriveData, TickType
  <2>2. /\ \A q \in PortPins : io'[q].mode = io[q].mode
        /\ io'[DataPin].state = BitOf(tick.byte, bit)
    BY <1>7, DataStep
  <2>3. bit' - 1 = bit
    BY <1>0, <2>1
  <2>4. QED
    BY <2>1, <2>2, <2>3 DEF PinsInv, BitOf
<1>8. CASE UpdateBegins
  <2> DEFINE mask == IF tick.bits THEN {ClockPin, DataPin} ELSE {}
  <2>1. /\ mask \in SUBSET PortPins /\ Begins(Dispatcher, mask, "levels", Banks)
        /\ Begun(Dispatcher, mask, "levels", Banks) /\ AllIdle
        /\ tick.pc = "update" /\ tick'.pc = "updating"
        /\ tick'.byte = tick.byte /\ tick'.bits = tick.bits /\ bit' = bit
    BY <1>8, UpdateBeginsFacts
  <2> HIDE DEF mask
  <2>2. UpdateInv'
    BY <1>0, <2>1, BeginKeepsUpdateInv
  <2>3. /\ epoch'.n = 1 /\ epoch'.quiet /\ ~epoch'.reinit /\ epoch'.mask = mask
        /\ \A p \in PortPins : epoch'.asked[p] = {Level(io[p].state)}
        /\ UNCHANGED io /\ \A u \in Threads : u # Dispatcher => call'[u] = call[u]
    BY <2>1 DEF Begun
  <2>4. LoneUpdate'
    BY <2>3 DEF LoneUpdate, Alone
  <2>5. tick.bits => epoch'.asked[DataPin] = {BitOf(tick.byte, bit - 1)}
    <3>1. SUFFICES ASSUME tick.bits PROVE epoch'.asked[DataPin] = {BitOf(tick.byte, bit - 1)}
      OBVIOUS
    <3>2. bit \in 1..LastBit /\ tick.byte \in Int
      BY <1>0, <2>1, <3>1 DEF WordsInv, TickInv, Sending, TickType
    <3>3. bit - 1 \in 0..6
      BY <1>0, <3>2
    <3>4. Level(BitOf(tick.byte, bit - 1)) = BitOf(tick.byte, bit - 1)
      BY <3>2, <3>3, BitsAreLevels
    <3>5. io[DataPin].state = BitOf(tick.byte, bit - 1)
      BY <2>1, <3>1 DEF PinsInv
    <3>6. QED
      BY <1>0, <2>3, <3>4, <3>5
  <2>6. \A t \in Threads : call'[t].pc # "idle" => t = Dispatcher
    BY <2>1, <2>3 DEF AllIdle
  <2>7. QED
    BY <2>1, <2>2, <2>3, <2>4, <2>5, <2>6 DEF PinsInv, mask, BitOf
<1>9. CASE UpdateGoesOn
  <2>1. /\ UpdateStep(Dispatcher) /\ [Next]_vars /\ UNCHANGED <<tick, bit>> /\ tick.pc = "updating"
    BY <1>9, UpdateGoesOnIsNext DEF UpdateGoesOn, serialVars
  <2>2. /\ UNCHANGED epoch /\ \A q \in PortPins : io'[q].mode = io[q].mode
        /\ \A u \in Threads : u # Dispatcher => call'[u] = call[u]
    BY <1>0, <2>1, UpdateStepFacts
  <2>3. UpdateInv'
    BY <2>1, NextKeepsUpdateInv DEF PinsInv
  <2>4. QED
    BY <2>1, <2>2, <2>3 DEF PinsInv, LoneUpdate, Alone, BitOf
<1>10. CASE UpdateEnds
  <2>1. AllIdle /\ UNCHANGED <<io, call>> /\ tick'.pc = "between"
    BY <1>10, UpdateEndFacts DEF UpdateEnds, vars, Between
  <2>2. QED
    BY <2>1 DEF PinsInv, AllIdle
<1>11. QED
  BY <1>3, <1>4, <1>5, <1>6, <1>7, <1>8, <1>9, <1>10, SerialCases

\* Where a pin's state keeps its bit, the clock's state tells its level.
LEMMA SerialKeepsEdgeInv ==
    ASSUME PortInv, HistoryInv, WordsInv, PinsInv, EdgeInv, ClockPin % 32 < 8,
           [SerialNext]_allVars
    PROVE  EdgeInv'
<1>0. /\ ClockPin \in PortPins /\ DataPin \in PortPins /\ tick \in TickType
      /\ Dispatcher \in Threads /\ sent \in Seq(SentType) /\ Len(sent) \in Nat
  BY SerialFacts DEF WordsInv, WordTypes
<1>1. StateByte(ClockPin) # 0
  BY <1>0, LowPinKeepsBit
<1>2. ASSUME UNCHANGED vars, sent' = sent, tick' = tick PROVE EdgeInv'
  <2>1. UNCHANGED <<io, gpio, epoch>>
    BY <1>2 DEF vars
  <2>2. QED
    BY <1>2, <2>1 DEF EdgeInv, EdgeMarksBit, IsHigh
<1>3. CASE \/ UNCHANGED allVars
           \/ \E w \in Words : WriteWord(w)
           \/ CallWait \/ WaitStep
  <2>1. UNCHANGED <<tick, sent>>
    BY <1>3 DEF allVars, serialVars, WriteWord, CallWait, WaitStep, QueueSeenEmpty, LastBitSeen, AppOnly
  <2>2. QED
    BY <1>2, <1>3, <2>1, QuietSteps
<1>4. CASE TickBegins
  <2>1. /\ tick.pc = "between" /\ tick'.pc \in {"fetch", "clock"} /\ tick'.gap = tick.gap
        /\ tick'.clock = IsHigh(ClockPin) /\ sent' = sent /\ UNCHANGED <<io, gpio>>
    BY <1>0, <1>4 DEF TickBegins, TickType, vars
  <2>2. QED
    BY <2>1 DEF EdgeInv, EdgeMarksBit
<1>5. CASE Dequeue \/ StoreByte \/ ResetBit
  <2>1. /\ tick.pc \in {"fetch", "byte", "bit"} /\ tick'.pc \in {"byte", "bit", "clock"}
        /\ tick'.gap = tick.gap /\ tick'.clock = tick.clock
        /\ sent' = sent /\ UNCHANGED <<io, gpio>>
    BY <1>0, <1>5 DEF Dequeue, StoreByte, ResetBit, TickType, vars
  <2>2. QED
    BY <2>1 DEF EdgeInv, EdgeMarksBit
<1>6. CASE NothingToSend
  <2>1. /\ tick.pc = "fetch" /\ tick'.pc = "update" /\ tick'.bits = tick.bits
        /\ sent' = sent
    BY <1>0, <1>6 DEF NothingToSend, TickType
  <2>2. ~tick.bits
    BY <2>1 DEF WordsInv, TickInv
  <2>3. QED
    BY <2>1, <2>2 DEF EdgeInv, EdgeMarksBit
<1>7. CASE ToggleClock
  <2>1. /\ tick.pc = "clock" /\ tick'.pc = "data" /\ tick'.gap = tick.gap
        /\ tick'.clock = tick.clock /\ sent' = sent
    BY <1>0, <1>7 DEF ToggleClock, TickType
  <2>2. io'[ClockPin].state = IF io[ClockPin].state = 0 THEN 1 ELSE 0
    BY <1>7, ClockStep DEF WordsInv
  <2>3. QED
    BY <2>1, <2>2 DEF EdgeInv, EdgeMarksBit
<1>8. CASE DriveData
  <2>1. /\ tick.pc = "data" /\ tick'.pc = "update" /\ tick'.gap = tick.gap
        /\ tick'.clock = tick.clock /\ sent' = sent /\ io'[ClockPin] = io[ClockPin]
    BY <1>0, <1>8, DataStep DEF DriveData, TickType
  <2>2. QED
    BY <2>1 DEF EdgeInv, EdgeMarksBit
<1>9. CASE UpdateBegins
  <2>1. /\ tick.pc = "update" /\ tick'.pc = "updating" /\ tick'.bits = tick.bits
        /\ tick'.gap = tick.gap /\ tick'.clock = tick.clock /\ sent' = sent
        /\ epoch'.asked[ClockPin] = {Level(io[ClockPin].state)}
    BY <1>0, <1>9, UpdateBeginsFacts DEF Begun
  <2>2. ASSUME ~tick.gap, tick.bits PROVE epoch'.asked[ClockPin] = {1} <=> ~tick.clock
    <3>1. io[ClockPin].state = IF tick.clock THEN 0 ELSE 1
      BY <2>1, <2>2 DEF EdgeInv
    <3>2. Level(io[ClockPin].state) = IF tick.clock THEN 0 ELSE 1
      BY <3>1 DEF Level
    <3>3. \A n \in Int : {n} = {1} <=> n = 1
      OBVIOUS
    <3>4. QED
      BY <2>1, <3>2, <3>3
  <2>3. QED
    BY <2>1, <2>2 DEF EdgeInv, EdgeMarksBit
<1>10. CASE UpdateGoesOn
  <2>1. UNCHANGED <<tick, sent, epoch>> /\ tick.pc = "updating"
    BY <1>0, <1>10, UpdateGoesOnIsNext, UpdateStepFacts DEF UpdateGoesOn, serialVars
  <2>2. QED
    BY <2>1 DEF EdgeInv, EdgeMarksBit
<1>11. CASE UpdateEnds
  <2>1. /\ tick.pc = "updating" /\ tick' = [Between EXCEPT !.gap = ~tick.bits]
        /\ sent' = IF tick.bits THEN Append(sent, SentBit) ELSE sent
        /\ UNCHANGED <<io, gpio>>
    BY <1>11 DEF UpdateEnds, vars
  <2>2. tick'.pc = "between" /\ (tick'.gap <=> ~tick.bits)
    BY <2>1 DEF Between
  <2>3. CASE ~tick.bits
    BY <2>1, <2>2, <2>3 DEF EdgeInv, EdgeMarksBit
  <2>4. CASE tick.bits
    <3>1. /\ IsHigh(ClockPin) <=> epoch.asked[ClockPin] = {1}
          /\ io[ClockPin].state = IF IsHigh(ClockPin) THEN StateByte(ClockPin) ELSE 0
      BY <1>11, <2>4, UpdateEndFacts
    <3>2. io'[ClockPin].state # 0 <=> IsHigh(ClockPin)'
      BY <1>1, <2>1, <3>1 DEF IsHigh
    <3> DEFINE b == SentBit
    <3>3. b.edge \/ b.gap
      BY <2>1, <2>4, <3>1 DEF SentBit, EdgeInv
    <3>4. b \in SentType
      BY <1>0 DEF SentBit, SentType, TickType, IsHigh
    <3> HIDE DEF b
    <3>5. /\ Len(sent') = Len(sent) + 1 /\ sent'[Len(sent) + 1] = b
          /\ \A k \in 1..Len(sent) : sent'[k] = sent[k]
      BY <1>0, <2>1, <2>4, <3>4 DEF b
    <3>6. EdgeMarksBit'
      <4> SUFFICES ASSUME NEW k \in 1..Len(sent') PROVE sent'[k].edge \/ sent'[k].gap
        BY DEF EdgeMarksBit
      <4>1. k = Len(sent) + 1 \/ k \in 1..Len(sent)
        BY <1>0, <3>5
      <4>2. QED
        BY <3>3, <3>5, <4>1 DEF EdgeInv, EdgeMarksBit
    <3>7. QED
      BY <2>2, <3>2, <3>6 DEF EdgeInv
  <2>5. QED
    BY <2>3, <2>4
<1>12. QED
  BY <1>3, <1>4, <1>5, <1>6, <1>7, <1>8, <1>9, <1>10, <1>11, SerialCases

\* For a pin whose state keeps no bit, the clock rises with the first bit sent.
LEMMA SerialKeepsRiseInv ==
    ASSUME PortInv, HistoryInv, WordsInv, PinsInv, RiseInv, ~(ClockPin % 32 < 8),
           [SerialNext]_allVars
    PROVE  RiseInv'
<1>0. /\ ClockPin \in PortPins /\ tick \in TickType
      /\ Dispatcher \in Threads /\ sent \in Seq(SentType) /\ Len(sent) \in Nat
  BY SerialFacts DEF WordsInv, WordTypes
<1>1. StateByte(ClockPin) = 0
  BY DEF StateByte
<1>2. CASE \/ UNCHANGED allVars
           \/ \E w \in Words : WriteWord(w)
           \/ CallWait \/ WaitStep
  <2>1. UNCHANGED <<tick, sent>>
    BY <1>2 DEF allVars, serialVars, WriteWord, CallWait, WaitStep, QueueSeenEmpty, LastBitSeen, AppOnly
  <2>2. UNCHANGED <<io, gpio, epoch>>
    BY <1>2, QuietSteps DEF vars
  <2>3. QED
    BY <2>1, <2>2 DEF RiseInv, ClockRisesOnce, IsHigh
<1>3. CASE TickBegins
  <2>1. /\ tick.pc = "between" /\ tick'.pc \in {"fetch", "clock"}
        /\ tick'.clock = IsHigh(ClockPin) /\ sent' = sent /\ UNCHANGED <<io, gpio>>
    BY <1>0, <1>3 DEF TickBegins, TickType, vars
  <2>2. QED
    BY <2>1 DEF RiseInv, ClockRisesOnce, IsHigh
<1>4. CASE Dequeue \/ StoreByte \/ ResetBit
  <2>1. /\ tick.pc \in {"fetch", "byte", "bit"} /\ tick'.pc \in {"byte", "bit", "clock"}
        /\ tick'.clock = tick.clock /\ sent' = sent /\ UNCHANGED <<io, gpio>>
    BY <1>0, <1>4 DEF Dequeue, StoreByte, ResetBit, TickType, vars
  <2>2. QED
    BY <2>1 DEF RiseInv, ClockRisesOnce, IsHigh
<1>5. CASE NothingToSend
  <2>1. /\ tick.pc = "fetch" /\ tick'.pc = "update" /\ tick'.bits = tick.bits
        /\ tick'.clock = tick.clock /\ sent' = sent /\ UNCHANGED <<io, gpio>>
    BY <1>0, <1>5 DEF NothingToSend, TickType, vars
  <2>2. ~tick.bits
    BY <2>1 DEF WordsInv, TickInv
  <2>3. QED
    BY <2>1, <2>2 DEF RiseInv, ClockRisesOnce, IsHigh
<1>6. CASE ToggleClock
  <2>1. /\ tick.pc = "clock" /\ tick'.pc = "data" /\ tick'.clock = tick.clock
        /\ sent' = sent /\ gpio' = gpio
    BY <1>0, <1>6 DEF ToggleClock, TickType
  <2>2. io'[ClockPin].state = IF io[ClockPin].state = 0 THEN 1 ELSE 0
    BY <1>6, ClockStep DEF WordsInv
  <2>3. QED
    BY <2>1, <2>2 DEF RiseInv, ClockRisesOnce, IsHigh
<1>7. CASE DriveData
  <2>1. /\ tick.pc = "data" /\ tick'.pc = "update" /\ tick'.clock = tick.clock
        /\ sent' = sent /\ gpio' = gpio /\ io'[ClockPin] = io[ClockPin]
    BY <1>0, <1>7, DataStep DEF DriveData, TickType
  <2>2. QED
    BY <2>1 DEF RiseInv, ClockRisesOnce, IsHigh
<1>8. CASE UpdateBegins
  <2>1. /\ tick.pc = "update" /\ tick'.pc = "updating" /\ tick'.bits = tick.bits
        /\ tick'.clock = tick.clock /\ sent' = sent
        /\ epoch'.asked[ClockPin] = {Level(io[ClockPin].state)}
        /\ epoch'.before = gpio.output
    BY <1>0, <1>8, UpdateBeginsFacts DEF Begun
  <2>2. io[ClockPin].state = 1 => Level(io[ClockPin].state) = 1
    BY DEF Level
  <2>3. QED
    BY <2>1, <2>2 DEF RiseInv, ClockRisesOnce, IsHigh
<1>9. CASE UpdateGoesOn
  <2>1. UNCHANGED <<tick, sent, epoch>> /\ tick.pc = "updating"
    BY <1>0, <1>9, UpdateGoesOnIsNext, UpdateStepFacts DEF UpdateGoesOn, serialVars
  <2>2. QED
    BY <2>1 DEF RiseInv, ClockRisesOnce
<1>10. CASE UpdateEnds
  <2>1. /\ tick.pc = "updating" /\ tick'.pc = "between"
        /\ sent' = IF tick.bits THEN Append(sent, SentBit) ELSE sent
        /\ UNCHANGED <<io, gpio>>
    BY <1>10 DEF UpdateEnds, vars, Between
  <2>2. CASE ~tick.bits
    <3>1. io[ClockPin].state = 0 /\ (IsHigh(ClockPin) <=> ClockPin \in epoch.before)
      BY <1>10, <2>2, UpdateEndFacts
    <3>2. QED
      BY <2>1, <2>2, <3>1 DEF RiseInv, ClockRisesOnce, IsHigh
  <2>3. CASE tick.bits
    <3>1. IsHigh(ClockPin) /\ io[ClockPin].state = 0
      BY <1>1, <1>10, <2>1, <2>3, UpdateEndFacts DEF RiseInv
    <3> DEFINE b == SentBit
    <3>2. b.edge <=> Len(sent) = 0
      <4>1. tick.clock \in BOOLEAN /\ (tick.clock <=> Len(sent) > 0)
        BY <1>0, <2>1 DEF RiseInv, TickType
      <4>2. b.edge <=> ~tick.clock
        BY <3>1, <4>1 DEF SentBit, IsHigh
      <4>3. QED
        BY <1>0, <4>1, <4>2
    <3>3. b \in SentType
      BY <1>0 DEF SentBit, SentType, TickType, IsHigh
    <3> HIDE DEF b
    <3>4. /\ Len(sent') = Len(sent) + 1 /\ sent'[Len(sent) + 1] = b
          /\ \A k \in 1..Len(sent) : sent'[k] = sent[k]
      BY <1>0, <2>1, <2>3, <3>3 DEF b
    <3>5. ClockRisesOnce'
      <4> SUFFICES ASSUME NEW k \in 1..Len(sent') PROVE sent'[k].edge <=> k = 1
        BY DEF ClockRisesOnce
      <4>1. CASE k = Len(sent) + 1
        BY <1>0, <3>2, <3>4, <4>1
      <4>2. CASE k \in 1..Len(sent)
        BY <3>4, <4>2 DEF RiseInv, ClockRisesOnce
      <4>3. QED
        BY <1>0, <3>4, <4>1, <4>2
    <3>6. QED
      BY <1>0, <2>1, <3>1, <3>4, <3>5 DEF RiseInv, IsHigh
  <2>4. QED
    BY <2>2, <2>3
<1>11. QED
  BY <1>2, <1>3, <1>4, <1>5, <1>6, <1>7, <1>8, <1>9, <1>10, SerialCases

-----------------------------------------------------------------------------
\* What the invariants of the port are for the transmitter.
SerialInv == PortInv /\ HistoryInv /\ WordsInv /\ PinsInv

LEMMA SerialInitFacts ==
    ASSUME SerialInit
    PROVE  SerialInv /\ EdgeInv /\ RiseInv
<1>1. /\ io = [p \in PortPins |-> [state |-> 0, mode |-> ModeOut, pud |-> "OFF"]]
      /\ gpio = [gpfsel |-> [p \in Pins |-> IF p \in PortPins THEN FselOut ELSE BootFsel[p]],
                 output |-> Foreign, gppud |-> "OFF", gppudclk |-> {}, pull |-> BootPull]
      /\ call = [t \in Threads |-> Idle] /\ epoch = NoEpoch
      /\ wordSize \in WordSizes /\ queue = <<>> /\ bit = -1 /\ byte = 0 /\ tick = Between
      /\ app = "idle" /\ written = <<>> /\ sent = <<>>
  BY DEF SerialInit, StopBit
<1>2. \A t \in Threads : call[t].pc = "idle"
  BY <1>1 DEF Idle
<1>3. PortInv
  <2>1. io = [p \in PortPins |-> io[p]] /\ \A p \in PortPins : IOShape(io[p])
    BY <1>1 DEF IOShape, ModeOut, PudModes
  <2>2. gpio \in GpioRegisters /\ gpio.gppudclk \subseteq PortPins
    <3> DEFINE fsel == [p \in Pins |-> IF p \in PortPins THEN FselOut ELSE BootFsel[p]]
    <3>1. fsel \in [Pins -> Functions]
      BY PortAssumption DEF FselOut, Functions
    <3> HIDE DEF fsel
    <3>2. gpio = [gpfsel |-> fsel, output |-> Foreign, gppud |-> "OFF", gppudclk |-> {},
                  pull |-> BootPull]
      BY <1>1 DEF fsel
    <3>3. QED
      BY <3>1, <3>2, PinFacts, PortAssumption DEF GpioRegisters, PudModes
  <2>3. ForeignPinsUntouched
    BY <1>1, PinFacts DEF ForeignPinsUntouched
  <2>4. call \in [Threads -> CallType] /\ \A t \in Threads : ReadsBootFsel(call[t])
    BY <1>1, IdleIsTyped
  <2>5. QED
    BY <2>1, <2>2, <2>3, <2>4 DEF PortInv, Shapes
<1>4. HistoryInv
  <2>1. epoch \in EpochType /\ epoch.n = 0 /\ epoch.mask = {}
    BY <1>1 DEF NoEpoch, EpochType
  <2>2. \A p \in PortPins : io[p].state \in Int
    BY <1>1
  <2>3. QED
    BY <1>2, <2>1, <2>2 DEF HistoryInv, Alone
<1>5. tick \in TickType /\ tick.pc = "between" /\ tick.bits = FALSE /\ tick.gap = FALSE
  BY <1>1 DEF Between, TickType
<1>6. /\ Len(queue) = 0 /\ Len(written) = 0 /\ Len(sent) = 0 /\ Fetched = 0
      /\ queue \in Seq(Words) /\ written \in Seq(Words) /\ sent \in Seq(SentType)
  BY <1>1 DEF Fetched
<1>7. WordsInv
  <2>1. WordTypes
    BY <1>1, <1>5, <1>6 DEF WordTypes
  <2>2. QueueIsRest
    BY <1>1, <1>6 DEF QueueIsRest
  <2>3. TickInv
    BY <1>1, <1>5, <1>6 DEF TickInv, Idling, Sending, Unused, StopBit
  <2>4. QED
    BY <1>6, <2>1, <2>2, <2>3 DEF WordsInv
<1>8. PinsInv
  <2>1. \A p \in PortPins : io[p].mode = ModeOut
    BY <1>1
  <2>2. QED
    BY <1>2, <1>5, <2>1 DEF PinsInv
<1>9. EdgeInv
  <2>1. ClockPin \in PortPins
    BY SerialAssumption
  <2>2. io[ClockPin].state = 0 /\ ~IsHigh(ClockPin)
    BY <1>1, <2>1, PinFacts DEF IsHigh
  <2>3. QED
    BY <1>5, <1>6, <2>2 DEF EdgeInv, EdgeMarksBit
<1>10. RiseInv
  <2>1. ClockPin \in PortPins
    BY SerialAssumption
  <2>2. io[ClockPin].state = 0 /\ ~IsHigh(ClockPin)
    BY <1>1, <2>1, PinFacts DEF IsHigh
  <2>3. QED
    BY <1>5, <1>6, <2>2 DEF RiseInv, ClockRisesOnce
<1>11. QED
  BY <1>3, <1>4, <1>7, <1>8, <1>9, <1>10 DEF SerialInv

LEMMA SerialNextKeepsInv ==
    ASSUME SerialInv, [SerialNext]_allVars
    PROVE  SerialInv'
<1>1. PortInv' /\ HistoryInv' /\ PinsInv'
  BY SerialKeepsPortInv, SerialKeepsPinsInv DEF SerialInv
<1>2. ASSUME UNCHANGED allVars PROVE WordsInv'
  <2>1. UNCHANGED <<wordSize, queue, written, sent, app, bit, byte, tick>>
    BY <1>2 DEF allVars, serialVars
  <2>2. TickInv'
    BY <2>1, SamePlace
       DEF SerialInv, WordsInv, TickInv, Idling, Sending, Unused, ByteIsWord, LocalIsWord
  <2>3. QED
    BY <2>1, <2>2, TickMoves DEF SerialInv, WordsInv, WordTypes
<1>3. ASSUME UpdateEnds PROVE WordsInv'
  BY <1>3, UpdateEndFacts, UpdateEndKeepsWordsInv DEF SerialInv
<1>4. WordsInv'
  BY <1>2, <1>3, SerialCases, TickMovesKeepWordsInv, DequeueKeepsWordsInv, WriteKeepsWordsInv,
     WaitKeepsWordsInv DEF SerialInv
<1>5. QED
  BY <1>1, <1>4 DEF SerialInv

\* When a store raises the clock, the data pin's store has been made, or is the same.
LEMMA ClockRisesOverData ==
    ASSUME SerialInv, [SerialNext]_allVars, Bank(DataPin) <= Bank(ClockPin),
           ~IsHigh(ClockPin), IsHigh(ClockPin)'
    PROVE  IsHigh(DataPin)' = (BitOf(tick.byte, bit - 1) = 1)
<1> DEFINE t == Dispatcher
           c == call[Dispatcher]
<1>0. /\ ClockPin \in PortPins /\ DataPin \in PortPins /\ t \in Threads
      /\ PortInv /\ HistoryInv /\ PinsInv /\ WordsInv
      /\ LastBit \in 1..7 /\ tick.byte \in Int
  BY SerialFacts DEF SerialInv, WordsInv, WordTypes, TickType
<1>1. gpio' # gpio
  BY DEF IsHigh
<1>2. UpdateGoesOn
  BY <1>1, SerialCases, QuietSteps
     DEF vars, ToggleClock, DriveData, UpdateBegins, CallUpdate, Begin
<1>3. UpdateStep(t) /\ tick.pc = "updating" /\ UNCHANGED epoch
  BY <1>0, <1>2, UpdateGoesOnIsNext, UpdateStepFacts DEF UpdateGoesOn
<1>4. Drive(t)
  BY <1>1, <1>3 DEF UpdateStep, ReadLevels, LoadMode, LoadForSet, LoadForClear, LoadModeAgain,
                    StoreState, Reads
<1>5. LoneUpdate /\ UpdateInv
  BY <1>0, <1>3 DEF PinsInv
<1>6. /\ call'[t].pc # "idle" => Updating(call[t])'
      /\ call'[t].pc = "idle" => Updated'
  BY <1>0, <1>4, <1>5, LoneUpdateDrive
<1>7. c.pc \in {"clr0", "set0", "clr1", "set1"}
  BY <1>4 DEF Drive, Writes, At
<1>8. Updating(c) /\ Driving(c) /\ c \in CallType
  BY <1>0, <1>3, <1>5, <1>7, LoneUpdateFacts DEF Driving
<1>9. InSet(c, ClockPin)
  BY <1>0, <1>8 DEF Updating, Passed
<1>10. gpio \in GpioRegisters /\ call \in [Threads -> CallType]
  BY <1>0 DEF PortInv, Shapes
<1>11. \/ c.pc = "set0" /\ call'[t].pc = "clr1" /\ ClockPin \in InBank(c.set, 0)
       \/ c.pc = "set1" /\ call'[t].pc = "idle" /\ ClockPin \in InBank(c.set, 1)
  <2>1. ASSUME NEW s, gpio' = ClearPins(s) PROVE FALSE
    BY <1>10, <2>1 DEF ClearPins, IsHigh, GpioRegisters
  <2>2. ASSUME NEW s, gpio' = SetPins(s) PROVE ClockPin \in s
    BY <1>10, <2>2 DEF SetPins, IsHigh, GpioRegisters
  <2>3. CASE Writes(t, "clr0", ClearPins(InBank(c.clr, 0)), [c EXCEPT !.pc = "set0"])
    BY <2>1, <2>3 DEF Writes
  <2>4. CASE Writes(t, "set0", SetPins(InBank(c.set, 0)), [c EXCEPT !.pc = "clr1"])
    <3>1. c.pc = "set0" /\ ClockPin \in InBank(c.set, 0)
      BY <2>2, <2>4 DEF Writes, At
    <3>2. call'[t] = [c EXCEPT !.pc = "clr1"]
      BY <1>0, <1>10, <2>4 DEF Writes
    <3>3. QED
      BY <1>8, <3>1, <3>2 DEF CallType
  <2>5. CASE Writes(t, "clr1", ClearPins(InBank(c.clr, 1)), [c EXCEPT !.pc = "set1"])
    BY <2>1, <2>5 DEF Writes
  <2>6. CASE Writes(t, "set1", SetPins(InBank(c.set, 1)), Idle)
    <3>1. c.pc = "set1" /\ ClockPin \in InBank(c.set, 1)
      BY <2>2, <2>6 DEF Writes, At
    <3>2. call'[t].pc = "idle"
      BY <1>0, <1>10, <2>6 DEF Writes, Idle
    <3>3. QED
      BY <3>1, <3>2
  <2>7. QED
    BY <1>4, <2>3, <2>4, <2>5, <2>6 DEF Drive
<1>12. /\ ClockPin \in epoch.drivable /\ DataPin \in epoch.drivable
       /\ epoch.asked[DataPin] = {BitOf(tick.byte, bit - 1)} /\ tick.bits
  <2>1. ClockPin \in epoch.drivable
    BY <1>9, <1>11 DEF InSet, InBank
  <2>2. ClockPin \in epoch.mask
    BY <1>0, <1>5, <2>1 DEF HistoryInv, LoneUpdate
  <2>3. /\ tick.bits /\ epoch.mask = {ClockPin, DataPin}
        /\ epoch.asked[DataPin] = {BitOf(tick.byte, bit - 1)}
    BY <1>0, <1>3, <2>2 DEF PinsInv
  <2>4. DataPin \in epoch.drivable
    BY <1>0, <2>3 DEF PinsInv, HistoryInv
  <2>5. QED
    BY <2>1, <2>3, <2>4
<1>13. DataPin \in gpio'.output <=> epoch.asked[DataPin] = {1}
  <2>1. Final(DataPin)' <=> epoch.asked[DataPin] = {1}
    BY <1>3, <1>12 DEF Final
  <2>2. CASE call'[t].pc = "idle"
    BY <1>0, <1>6, <2>1, <2>2 DEF Updated
  <2>3. CASE call'[t].pc = "clr1"
    <3>1. Bank(ClockPin) = 0
      BY <1>11, <2>3 DEF InBank
    <3>2. Bank(DataPin) \in {0, 1}
      BY <1>0, PinFacts DEF Bank, BcmPins
    <3>3. Bank(DataPin) = 0
      BY <3>1, <3>2
    <3>4. Output(call[t], DataPin)'
      BY <1>0, <1>6, <2>3 DEF Updating
    <3>5. QED
      BY <2>1, <2>3, <3>3, <3>4 DEF Output
  <2>4. QED
    BY <1>11, <2>2, <2>3
<1>14. (epoch.asked[DataPin] = {1}) <=> (BitOf(tick.byte, bit - 1) = 1)
  <2>1. \A n \in Int : {n} = {1} <=> n = 1
    OBVIOUS
  <2>2. bit \in 1..LastBit
    BY <1>3, <1>12, <1>0 DEF WordsInv, TickInv, Sending
  <2>3. bit - 1 \in 0..6
    BY <1>0, <2>2
  <2>4. BitOf(tick.byte, bit - 1) \in Int
    BY <1>0, <2>3, BitsAreLevels
  <2>5. QED
    BY <1>12, <2>1, <2>4
<1>15. IsHigh(DataPin)' <=> (BitOf(tick.byte, bit - 1) = 1)
  BY <1>13, <1>14 DEF IsHigh
<1>16. IsHigh(DataPin)' \in BOOLEAN
  BY DEF IsHigh
<1>17. QED
  BY <1>15, <1>16

-----------------------------------------------------------------------------
\* The words written go over the wire bit by bit, each without its top one,
\* whatever the words, the size of the buffer and the pins (kraken_serial_tx_driver.c 19-46, bcm2835.c 38-58).
THEOREM SerialWireCarriesWords == SerialSpec => []WireCarriesWords
<1>1. SerialInit => SerialInv
  BY SerialInitFacts
<1>2. SerialInv /\ [SerialNext]_allVars => SerialInv'
  BY SerialNextKeepsInv
<1>3. SerialInv => WireCarriesWords
  <2> SUFFICES ASSUME SerialInv PROVE WireCarriesWords
    OBVIOUS
  <2>0. LastBit \in 1..wordSize
    BY SerialFacts DEF SerialInv, WordsInv, WordTypes, LastBit
  <2>1. /\ LastBit \in 1..7 /\ Fetched \in Nat /\ Fetched <= Len(written)
        /\ Len(written) \in Nat /\ Len(sent) <= LastBit * Fetched /\ Len(sent) \in Nat
    BY SerialFacts, SentBound DEF SerialInv, WordsInv
  <2>2. LastBit * Fetched <= LastBit * Len(written)
    BY <2>1
  <2>3. Len(sent) <= LastBit * Len(written)
    <3>1. LastBit * Fetched \in Int /\ LastBit * Len(written) \in Int
      BY <2>1
    <3>2. QED
      BY <2>1, <2>2, <3>1
  <2>4. QED
    BY <2>0, <2>3 DEF SerialInv, WordsInv, DataIsBit, Framed, WireCarriesWords
<1>4. QED
  BY <1>1, <1>2, <1>3, PTL DEF SerialSpec

\* When wait returns one word at most is still to be sent
\* (kraken_serial_tx_driver.c 111-126).
THEOREM SerialWaitLeavesOneWord == SerialSpec => []WaitLeavesOneWord
<1>1. SerialInit => SerialInv
  BY SerialInitFacts
<1>2. SerialInv /\ [SerialNext]_allVars => SerialInv'
  BY SerialNextKeepsInv
<1>3. SerialInv => WaitLeavesOneWord
  <2> SUFFICES ASSUME SerialInv, app = "returned"
               PROVE  queue = <<>> /\ Len(sent) >= LastBit * (Len(written) - 1)
    BY DEF WaitLeavesOneWord
  <2>1. queue = <<>> /\ Len(written) \in Nat /\ Len(sent) >= LastBit * (Fetched - 1)
    BY SerialFacts, SentBound DEF SerialInv, WordsInv, QueueIsRest
  <2>2. Fetched = Len(written)
    BY <2>1 DEF Fetched
  <2>3. QED
    BY <2>1, <2>2
<1>4. QED
  BY <1>1, <1>2, <1>3, PTL DEF SerialSpec

\* What the clock line does, for every clock pin.  If the pin is one of the eight
\* of its bank whose level the IO's state can hold, every bit moves it but one
\* sent after an idle tick.  For any other pin, which are all GPIO pins of the
\* V1B, the state the tick negates is always 0: the first bit raises the clock
\* and no later one moves it (kraken_serial_tx_driver.c 38-41, bcm2835.c 51).
THEOREM SerialEdgeMarksBit ==
    SerialSpec => [](IF ClockPin % 32 < 8 THEN EdgeMarksBit ELSE ClockRisesOnce)
<1> DEFINE Inv == IF ClockPin % 32 < 8 THEN EdgeInv ELSE RiseInv
<1>1. SerialInit => SerialInv /\ Inv
  BY SerialInitFacts
<1>2. SerialInv /\ Inv /\ [SerialNext]_allVars => (SerialInv /\ Inv)'
  <2> SUFFICES ASSUME SerialInv, Inv, [SerialNext]_allVars PROVE SerialInv' /\ Inv'
    OBVIOUS
  <2>1. SerialInv'
    BY SerialNextKeepsInv
  <2>2. CASE ClockPin % 32 < 8
    BY <2>1, <2>2, SerialKeepsEdgeInv DEF SerialInv
  <2>3. CASE ~(ClockPin % 32 < 8)
    BY <2>1, <2>3, SerialKeepsRiseInv DEF SerialInv
  <2>4. QED
    BY <2>2, <2>3, <2>1
<1>3. Inv => (IF ClockPin % 32 < 8 THEN EdgeMarksBit ELSE ClockRisesOnce)
  BY DEF EdgeInv, RiseInv
<1>4. QED
  BY <1>1, <1>2, <1>3, PTL DEF SerialSpec

\* A rising clock finds the bit on the data pin, if the data pin's registers are
\* not written after the clock pin's: bank 0 is set before bank 1 is cleared
\* (bcm2835.c 55-58).
THEOREM SerialRisingEdgeMarksData ==
    ASSUME Bank(DataPin) <= Bank(ClockPin)
    PROVE  SerialSpec => RisingEdgeMarksData
<1>1. SerialInit => SerialInv
  BY SerialInitFacts
<1>2. SerialInv /\ [SerialNext]_allVars => SerialInv'
  BY SerialNextKeepsInv
<1>3. SerialInv /\ [SerialNext]_allVars =>
         [(~IsHigh(ClockPin) /\ IsHigh(ClockPin)') =>
             IsHigh(DataPin)' = (BitOf(tick.byte, bit - 1) = 1)]_allVars
  BY ClockRisesOverData
<1>4. QED
  BY <1>1, <1>2, <1>3, PTL DEF SerialSpec, RisingEdgeMarksData
=============================================================================
