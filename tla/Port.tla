-------------------------------- MODULE Port --------------------------------
(***************************************************************************)
(* A GPIO port: libkraken/src/kraken_io.c, port/kraken_port.c and          *)
(* device/bcm2835.c.  Threads (the dispatcher's and the application's)     *)
(* update and reinitialise one port while IOs are set by anybody.  One     *)
(* step is one access to an IO's atomic or to a device register.           *)
(*                                                                         *)
(* A register with a bit per pin is the set of pins whose bit is 1; two    *)
(* registers of 32 pins each form one such set, split by Bank.             *)
(***************************************************************************)
EXTENDS Integers, Sequences, FiniteSets

CONSTANTS IOs,       \* port->ios: the device_pin of each, in order
          Foreign,   \* pins of the chip that belong to somebody else
          BootFsel,  \* function select of each pin when the port is created
          BootPull,  \* pull of each pin when the port is created
          Pulls,     \* the pull modes applications choose
          Driven,    \* pins of the port that something outside drives
          Threads,
          Masks,     \* masks passed to kraken_port_update_masked
          MaxCalls,  \* bound: updates and reinits
          MaxSets    \* bound: calls of the set functions, and changes of wires

\* The GPIO pins of the V1B: the control lines, the power state and the LED.
V1bPins == <<13, 25, 24, 23, 22, 26, 27, 47>>

PortPins == {IOs[k] : k \in 1..Len(IOs)}
Pins     == PortPins \cup Foreign

BcmPins   == 0..53                         \* bcm2835_pin_t
Functions == 0..7                          \* bcm2835_fsel_t
FselIn    == 0
FselOut   == 1
ModeIn    == 0                             \* kraken_io_mode_t
ModeOut   == 1
PudModes  == {"OFF", "DOWN", "UP"}         \* kraken_io_pud_mode_t, bcm2835_pud_t

Banks       == {0, 1}
Bank(p)     == p \div 32                   \* GPIO_REGISTER_SIZE, GPPUDCLK_REGISTER_SIZE
FselBank(p) == p \div 10                   \* GPIO_FSEL_BANK_SIZE
FselBanks   == 0..5
InBank(s, b) == {p \in s : Bank(p) = b}

ASSUME PortAssumption ==
    /\ IOs \in Seq(BcmPins) /\ IOs # <<>>
    /\ \A j, k \in 1..Len(IOs) : IOs[j] = IOs[k] => j = k
    /\ Foreign \subseteq BcmPins \ PortPins
    /\ BootFsel \in [Pins -> Functions]
    /\ BootPull \in [Pins -> PudModes] /\ Pulls \subseteq PudModes
    /\ Driven \subseteq PortPins
    /\ Masks \subseteq SUBSET PortPins
    /\ MaxCalls \in Nat /\ MaxSets \in Nat

VARIABLES io,     \* per IO: its atomics state, mode and pud_mode
          gpio,   \* the registers, and what the chip keeps behind them
          wires,  \* pins that are driven high from outside
          call,   \* per thread: where it is in which call, and its locals
          calls,  \* how many calls were made
          sets,   \* how many set calls and changes of wires there were
          epoch   \* history of the calls since no call was in progress

vars == <<io, gpio, wires, call, calls, sets, epoch>>

\* struct kraken_io; kraken_bool_t is a byte.
IOStates == [state : 0..255, mode : {ModeIn, ModeOut}, pud : PudModes]

\* bcm2835_gpio_t as far as the port uses it.  Writes to gpset and gpclr act on
\* the output latch; a pad takes its pull from gppud when it is clocked.
GpioRegisters == [gpfsel : [Pins -> Functions], output : SUBSET Pins,
                  gppud : PudModes, gppudclk : SUBSET Pins, pull : [Pins -> PudModes]]

\* gplev0 and gplev1.
LevelIsHigh(p) == IF gpio.gpfsel[p] = FselIn THEN p \in wires ELSE p \in gpio.output

\* What is left of the pin's bit in io->state, which is 8 bits wide.
StateByte(p) == IF p % 32 < 8 THEN 2^(p % 32) ELSE 0

Idle == [pc |-> "idle", k |-> 1, mask |-> {}, left |-> {}, lev |-> {}, flag |-> FALSE,
         set |-> {}, clr |-> {}, fsel |-> [p \in Pins |-> FselIn],
         pud |-> "OFF", clk |-> {}]

AllIdle == \A t \in Threads : call[t].pc = "idle"

NoEpoch == [n |-> 0, quiet |-> FALSE, reinit |-> FALSE, mask |-> {}, before |-> {},
            asked |-> [p \in PortPins |-> {}], drivable |-> {}]

\* The IOs were set to anything since the port was created, and it may not have
\* been reinitialised since: modes and function selects need not agree.
Init ==
    /\ io \in [PortPins -> [state : {0, 1}, mode : {ModeIn, ModeOut}, pud : {"OFF"}]]
    /\ \E high \in {{}, PortPins} :
          gpio = [gpfsel |-> BootFsel, output |-> high \cup Foreign, gppud |-> "OFF",
                  gppudclk |-> {}, pull |-> BootPull]
    /\ wires = {}
    /\ call = [t \in Threads |-> Idle]
    /\ calls = 0
    /\ sets = 0
    /\ epoch = NoEpoch

-----------------------------------------------------------------------------
(* kraken_io.c: the set functions, called by anybody at any time.          *)

Level(state) == state % 2

SetsIO(p, new) ==
    /\ sets < MaxSets /\ new # io[p]
    /\ sets' = sets + 1
    /\ io' = [io EXCEPT ![p] = new]
    /\ epoch' = [epoch EXCEPT !.quiet = FALSE, !.asked[p] = @ \cup {Level(new.state)},
                              !.drivable = IF new.mode = ModeOut THEN @ \cup (epoch.mask \cap {p})
                                                                 ELSE @]
    /\ UNCHANGED <<gpio, wires, call, calls>>

Set(p)     == \E b \in {0, 1} : SetsIO(p, [io[p] EXCEPT !.state = b])
SetMode(p) == \E m \in {ModeIn, ModeOut} : SetsIO(p, [io[p] EXCEPT !.mode = m])
SetPud(p)  == \E d \in Pulls : SetsIO(p, [io[p] EXCEPT !.pud = d])

\* Outside the chip.
WireChanges(p) ==
    /\ sets < MaxSets
    /\ sets' = sets + 1
    /\ wires' = IF p \in wires THEN wires \ {p} ELSE wires \cup {p}
    /\ epoch' = [epoch EXCEPT !.quiet = FALSE]
    /\ UNCHANGED <<io, gpio, call, calls>>

-----------------------------------------------------------------------------
(* Steps of a call.                                                        *)

At(t, pc) == call[t].pc = pc
Pin(t)    == IOs[call[t].k]

\* The local state with which a loop over the IOs goes on.
NextIO(c, again, done) ==
    IF c.k < Len(IOs) THEN [c EXCEPT !.pc = again, !.k = @ + 1]
                      ELSE [c EXCEPT !.pc = done, !.k = 1]

\* A step that only reads shared state.
Reads(t, pc, locals) ==
    /\ At(t, pc)
    /\ call' = [call EXCEPT ![t] = locals]
    /\ UNCHANGED <<io, gpio, wires, calls, sets, epoch>>

\* A step that writes a register.
Writes(t, pc, registers, locals) ==
    /\ At(t, pc)
    /\ gpio' = registers
    /\ call' = [call EXCEPT ![t] = locals]
    /\ UNCHANGED <<io, wires, calls, sets, epoch>>

Begin(t, mask, reinit, locals) ==
    /\ At(t, "idle")
    /\ call' = [call EXCEPT ![t] = locals]
    /\ epoch' = LET e == IF AllIdle
                            THEN [NoEpoch EXCEPT !.quiet = TRUE, !.before = gpio.output]
                            ELSE epoch
                IN  [e EXCEPT !.n = @ + 1, !.reinit = @ \/ reinit, !.mask = @ \cup mask,
                              !.asked = [p \in PortPins |-> @[p] \cup {Level(io[p].state)}],
                              !.drivable = @ \cup {p \in mask : io[p].mode = ModeOut}]
    /\ UNCHANGED <<io, gpio, wires, sets>>

-----------------------------------------------------------------------------
(* kraken_port_update_masked, and bcm2835_gpio_state_update below it.      *)

CallUpdate(t, mask) ==
    Begin(t, mask, FALSE, [Idle EXCEPT !.pc = "levels", !.mask = mask, !.left = Banks])

\* kraken_port_update: every IO.
CallUpdateAll(t) == CallUpdate(t, PortPins)

\* The two level registers are read in an initializer list, in either order.
ReadLevels(t) ==
    \E b \in call[t].left :
        LET left == call[t].left \ {b}
        IN  Reads(t, "levels",
                  [call[t] EXCEPT !.lev = @ \cup {p \in PortPins : Bank(p) = b /\ LevelIsHigh(p)},
                                  !.left = left,
                                  !.pc = IF left = {} THEN "mode" ELSE "levels"])

\* Mutant: the mask is not looked at.
MutantMaskIgnored(t) ==
    Reads(t, "mode", [call[t] EXCEPT !.pc = "set", !.flag = io[Pin(t)].mode = ModeOut])

\* update_mode: the IO is an output and in the mask.
LoadMode(t) ==
    Reads(t, "mode", [call[t] EXCEPT !.pc = "set",
                                     !.flag = io[Pin(t)].mode = ModeOut /\ Pin(t) \in call[t].mask])

Gathered(s, t, b) == IF call[t].flag /\ Level(io[Pin(t)].state) = b THEN s \cup {Pin(t)} ELSE s

\* io->state is loaded twice.
LoadForSet(t) ==
    Reads(t, "set", [call[t] EXCEPT !.pc = "clr", !.set = Gathered(@, t, 1)])

LoadForClear(t) ==
    Reads(t, "clr", [call[t] EXCEPT !.pc = "again", !.clr = Gathered(@, t, 0)])

\* The mode is loaded again to decide whether the level read is the IO's state.
LoadModeAgain(t) ==
    Reads(t, "again", [call[t] EXCEPT !.pc = "store",
                                      !.flag = /\ io[Pin(t)].mode = ModeIn
                                               /\ Pin(t) \in call[t].mask \cap call[t].lev])

\* The state becomes the pin's bit of the set mask or of the levels, cut to 8
\* bits, for every IO of the port, masked or not.
StoreState(t) ==
    /\ At(t, "store")
    /\ io' = [io EXCEPT ![Pin(t)].state =
                 IF call[t].flag \/ Pin(t) \in call[t].set THEN StateByte(Pin(t)) ELSE 0]
    /\ call' = [call EXCEPT ![t] = NextIO(call[t], "mode", "clr0")]
    /\ UNCHANGED <<gpio, wires, calls, sets, epoch>>

ClearPins(s) == [gpio EXCEPT !.output = @ \ s]
SetPins(s)   == [gpio EXCEPT !.output = @ \cup s]

\* Mutant: a second bank's outputs are set from the first bank's mask.
MutantDriveWrongBank(t) ==
    \/ Writes(t, "clr0", ClearPins(InBank(call[t].clr, 0)), [call[t] EXCEPT !.pc = "set0"])
    \/ Writes(t, "set0", SetPins(InBank(call[t].set, 0)), [call[t] EXCEPT !.pc = "clr1"])
    \/ Writes(t, "clr1", ClearPins(InBank(call[t].clr, 0)), [call[t] EXCEPT !.pc = "set1"])
    \/ Writes(t, "set1", SetPins(InBank(call[t].set, 1)), Idle)

\* Mutant: the outputs are set before they are cleared.
MutantSetFirst(t) ==
    \/ Writes(t, "clr0", SetPins(InBank(call[t].set, 0)), [call[t] EXCEPT !.pc = "set0"])
    \/ Writes(t, "set0", ClearPins(InBank(call[t].clr, 0)), [call[t] EXCEPT !.pc = "clr1"])
    \/ Writes(t, "clr1", SetPins(InBank(call[t].set, 1)), [call[t] EXCEPT !.pc = "set1"])
    \/ Writes(t, "set1", ClearPins(InBank(call[t].clr, 1)), Idle)

Drive(t) ==
    \/ Writes(t, "clr0", ClearPins(InBank(call[t].clr, 0)), [call[t] EXCEPT !.pc = "set0"])
    \/ Writes(t, "set0", SetPins(InBank(call[t].set, 0)), [call[t] EXCEPT !.pc = "clr1"])
    \/ Writes(t, "clr1", ClearPins(InBank(call[t].clr, 1)), [call[t] EXCEPT !.pc = "set1"])
    \/ Writes(t, "set1", SetPins(InBank(call[t].set, 1)), Idle)

UpdateStep(t) ==
    \/ ReadLevels(t) \/ LoadMode(t) \/ LoadForSet(t) \/ LoadForClear(t)
    \/ LoadModeAgain(t) \/ StoreState(t) \/ Drive(t)

-----------------------------------------------------------------------------
(* kraken_port_reinit, and bcm2835_gpio_state_init below it.               *)

UsedFselBanks == {FselBank(p) : p \in Pins}

CallReinit(t) ==
    Begin(t, PortPins, TRUE,
          [Idle EXCEPT !.pc = "fselRead", !.mask = PortPins, !.left = UsedFselBanks])

\* Mutant: the registers are not read before they are written.
MutantReadNoFsel(t) ==
    Reads(t, "fselRead", [call[t] EXCEPT !.pc = "fselMode", !.left = UsedFselBanks])

\* The function select registers are read in an initializer list.
ReadFsel(t) ==
    \E b \in call[t].left :
        LET left == call[t].left \ {b}
            read == [p \in Pins |-> IF FselBank(p) = b THEN gpio.gpfsel[p] ELSE call[t].fsel[p]]
        IN  Reads(t, "fselRead",
                  IF left = {} THEN [call[t] EXCEPT !.fsel = read, !.pc = "fselMode",
                                                    !.left = UsedFselBanks]
                               ELSE [call[t] EXCEPT !.fsel = read, !.left = left])

\* The mode is the function: 0 input, 1 output.  Then it is loaded again.
LoadModeForFsel(t) ==
    Reads(t, "fselMode", [call[t] EXCEPT !.pc = "clrMode", !.fsel[Pin(t)] = io[Pin(t)].mode])

LoadModeForClear(t) ==
    Reads(t, "clrMode",
          NextIO([call[t] EXCEPT !.clr = IF io[Pin(t)].mode = ModeOut THEN @ \cup {Pin(t)} ELSE @],
                 "fselMode", "fselWrite"))

WriteFsel(t) ==
    \E b \in call[t].left :
        LET left == call[t].left \ {b}
        IN  /\ \A c \in left : b < c
            /\ Writes(t, "fselWrite",
                      [gpio EXCEPT !.gpfsel = [p \in Pins |-> IF FselBank(p) = b
                                                  THEN call[t].fsel[p] ELSE @[p]]],
                      [call[t] EXCEPT !.left = left,
                                      !.pc = IF left = {} THEN "clear0" ELSE "fselWrite"])

ClearOutputs(t) ==
    \/ Writes(t, "clear0", ClearPins(InBank(call[t].clr, 0)), [call[t] EXCEPT !.pc = "clear1"])
    \/ Writes(t, "clear1", ClearPins(InBank(call[t].clr, 1)), [call[t] EXCEPT !.pc = "pud"])

LoadPud(t) == Reads(t, "pud", [call[t] EXCEPT !.pc = "gppud", !.pud = io[Pin(t)].pud])

WriteGppud(t) ==
    Writes(t, "gppud", [gpio EXCEPT !.gppud = call[t].pud], [call[t] EXCEPT !.pc = "clkRead"])

\* pin_reg->value |= bit: a load and a store.
ReadClock(t) ==
    Reads(t, "clkRead", [call[t] EXCEPT !.pc = "clkWrite",
                                        !.clk = InBank(gpio.gppudclk, Bank(Pin(t))) \cup {Pin(t)}])

\* The chip: a store to a bank's clock register clocks the pads of its bits.
Clocked(b, s) ==
    [gpio EXCEPT !.gppudclk = (@ \ InBank(@, b)) \cup s,
                 !.pull = [p \in Pins |-> IF p \in s THEN gpio.gppud ELSE @[p]]]

WriteClock(t) ==
    Writes(t, "clkWrite", Clocked(Bank(Pin(t)), call[t].clk), [call[t] EXCEPT !.pc = "off"])

WriteOff(t) == Writes(t, "off", [gpio EXCEPT !.gppud = "OFF"], [call[t] EXCEPT !.pc = "zero"])

\* Mutant: the pad's clock is left on.
MutantClockLeftOn(t) ==
    /\ At(t, "zero")
    /\ call' = [call EXCEPT ![t] = IF @.k < Len(IOs) THEN NextIO(@, "pud", "idle") ELSE Idle]
    /\ UNCHANGED <<io, gpio, wires, calls, sets, epoch>>

WriteZero(t) ==
    Writes(t, "zero", Clocked(Bank(Pin(t)), {}),
           IF call[t].k < Len(IOs) THEN NextIO(call[t], "pud", "idle") ELSE Idle)

ReinitStep(t) ==
    \/ ReadFsel(t) \/ LoadModeForFsel(t) \/ LoadModeForClear(t) \/ WriteFsel(t)
    \/ ClearOutputs(t) \/ LoadPud(t) \/ WriteGppud(t) \/ ReadClock(t) \/ WriteClock(t)
    \/ WriteOff(t) \/ WriteZero(t)

Next ==
    \/ \E p \in PortPins : Set(p) \/ SetMode(p) \/ SetPud(p)
    \/ \E p \in Driven : WireChanges(p)
    \/ \E t \in Threads :
          \/ /\ calls < MaxCalls /\ calls' = calls + 1
             /\ CallReinit(t) \/ CallUpdateAll(t) \/ \E mask \in Masks : CallUpdate(t, mask)
          \/ UpdateStep(t)
          \/ ReinitStep(t)

Spec == Init /\ [][Next]_vars

-----------------------------------------------------------------------------
TypeOK ==
    /\ io \in [PortPins -> IOStates]
    /\ gpio \in GpioRegisters
    /\ wires \subseteq Driven
    /\ \A t \in Threads :
          /\ call[t].k \in 1..Len(IOs)
          /\ call[t].set \cup call[t].clr \cup call[t].lev \cup call[t].mask \subseteq PortPins
          /\ call[t].clk \subseteq Pins /\ call[t].fsel \in [Pins -> Functions]

\* Updates and reinits, in any interleaving, leave the function, the output and
\* the pull of every pin outside the port as they were (bcm2835.c:68, "We
\* cannot overwrite all existing pin functions, otherwise we interrupt the MMC").
ForeignPinsUntouched ==
    \A p \in Foreign : /\ gpio.gpfsel[p] = BootFsel[p]
                       /\ gpio.pull[p] = BootPull[p]
                       /\ p \in gpio.output

\* A pin moves only to a level its IO was set to while the calls in progress
\* could see it, and only if it was an output in one of their masks; a call
\* that overlaps another, or a reinit, may in addition switch it off.  Loading
\* the state twice (bcm2835.c 47, 48) never makes up a level.  It is false of the
\* lowest pin of a bank, where the level read of an input is a state of 1; the
\* V1B has no IO there.
LevelsWereAsked ==
    \A p \in PortPins :
        LET high == p \in gpio.output
        IN  (epoch.n > 0 /\ high # (p \in epoch.before)) =>
                /\ p \in epoch.drivable
                /\ \/ (IF high THEN 1 ELSE 0) \in epoch.asked[p]
                   \/ ~high /\ (epoch.n > 1 \/ epoch.reinit)

\* The last call ran alone, from start to end, and nothing was set and no wire
\* moved meanwhile or since.
Undisturbed == AllIdle /\ epoch.n = 1 /\ epoch.quiet

\* An update nobody disturbed has put the outputs of its mask to their IOs'
\* states and left every other pin alone.  Afterwards the state of an IO of the
\* mask tells its pin's level, for pins whose bit fits in the state; what
\* becomes of the other states is the subject of the next two properties
\* (bcm2835.c 38-58).
UpdateIsExact ==
    (Undisturbed /\ ~epoch.reinit) =>
        \A p \in PortPins :
            LET driven == p \in epoch.drivable
                on     == IF driven THEN epoch.asked[p] = {1} ELSE LevelIsHigh(p)
            IN  /\ (p \in gpio.output) = (IF driven THEN on ELSE p \in epoch.before)
                /\ (p \in epoch.mask /\ p % 32 < 8) => (io[p].state # 0) = on

\* "Mask bit determines if we update this IO" (bcm2835.c 44): an update nobody
\* disturbed leaves the state of an output outside its mask as it was set.  Known to
\* be violated: bcm2835.c 51 stores FALSE there, so that a set that waits for its
\* own update is lost to an update of another IO.
MaskLeavesOthersAlone ==
    (Undisturbed /\ ~epoch.reinit) =>
        \A p \in PortPins \ epoch.mask :
            io[p].mode = ModeOut => Level(io[p].state) \in epoch.asked[p]

\* "Retrieves the current state of a given I/O handle" (kraken_io.h 87-90, the
\* load in kraken_io.c): after an update of a port whose modes are in effect, the
\* state of an updated IO tells the level of its pin.  Known to be violated: the
\* level's bit does not fit in the state of pins from 8 up (bcm2835.c 51).
StateTellsLevel ==
    (Undisturbed /\ ~epoch.reinit) =>
        \A p \in epoch.mask :
            gpio.gpfsel[p] = io[p].mode => (io[p].state # 0) = LevelIsHigh(p)

\* A reinit nobody disturbed has given each pin of the port its IO's direction
\* and pull, with all outputs low, and left the pull control switched off
\* (bcm2835.c 85-132).
ReinitIsExact ==
    (Undisturbed /\ epoch.reinit) =>
        /\ \A p \in PortPins : /\ gpio.gpfsel[p] = io[p].mode
                               /\ gpio.pull[p] = io[p].pud
                               /\ io[p].mode = ModeOut => p \notin gpio.output
        /\ gpio.gppud = "OFF" /\ gpio.gppudclk = {}
=============================================================================
