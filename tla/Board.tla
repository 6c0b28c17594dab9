------------------------------- MODULE Board -------------------------------
(***************************************************************************)
(* The life of boards: libkraken/src/kraken_board.c with the ports, the    *)
(* configuration copies and the flash device it creates and destroys.      *)
(* Processes open and close boards on the same hardware; the GPIO device   *)
(* is locked with flock, any device call may fail, and a process may die.  *)
(* One step is one system call, with the private work that follows it.     *)
(***************************************************************************)
EXTENDS Integers, Sequences, FiniteSets

CONSTANTS Procs,
          Builds,      \* SUBSET BOOLEAN: whether KRAKEN_DEBUG may be defined
          Configs,     \* configurations applications pass to kraken_board_create
          MaxCreates,  \* bound: calls of kraken_board_create
          MaxFaults    \* bound: device calls that fail, and processes killed

\* kraken_board_config_t: whether the GPIO port has an alias, its multiplexers,
\* and whether it names a flash device.
MuxTypes   == {"I2C", "SPI"}
ConfigType == [alias : BOOLEAN, muxes : Seq(MuxTypes), flash : BOOLEAN]

\* The one configuration the library comes with, the V1B's.
V1bMuxes  == <<"SPI", "SPI">>
ConfigV1b == [alias |-> FALSE, muxes |-> V1bMuxes, flash |-> TRUE]

ASSUME BoardAssumption ==
    /\ Builds \subseteq BOOLEAN
    /\ Configs \subseteq ConfigType
    /\ MaxCreates \in Nat /\ MaxFaults \in Nat

VARIABLES debug,   \* KRAKEN_DEBUG of the build
          proc,    \* per process: where it is, and what it has
          creates, \* how many boards were created
          faults   \* how many faults there were

vars == <<debug, proc, creates, faults>>

\* What a process may have: memory, descriptors, the lock and the mapping.  The
\* number tells multiplexers apart.
R(name)      == <<name, 0>>
BoardConfig  == {R("config"), R("gpioConfig"), R("muxConfigs")}
BoardMemory  == {R("board"), R("ports")}
PortMemory   == {R("port"), R("shadow"), R("ios")}
DteLeaks     == {{}, {R("dteFd")}, {R("dteFd"), R("dteBuffer")}}
MuxResources(k) == {<<"mux", k>>, <<"bus", k>>}
IsResource(r) == \/ r \in BoardConfig \cup BoardMemory \cup PortMemory
                 \/ r \in {R("dteFd"), R("dteBuffer"), R("fd"), R("lock"), R("map"),
                           R("flash"), R("flashFd")}
                 \/ r[1] \in {"mux", "bus"} /\ r[2] \in Nat

Devices == {"dte", "gpio", "flock", "mmap", "bus", "slave", "flash", "info"}

Fresh == [pc |-> "idle", cfg |-> [alias |-> TRUE, muxes |-> <<>>, flash |-> FALSE],
          ports |-> <<>>,    \* board->ports: whether each is not null
          k     |-> 0,       \* the port destroy is at
          held  |-> {},      \* what belongs to the board being created or open
          leaked |-> {},     \* what nobody has a reference to any more
          failed |-> {}]     \* history: devices that failed in this process

Init ==
    /\ debug \in Builds
    /\ proc = [p \in Procs |-> Fresh]
    /\ creates = 0
    /\ faults = 0

-----------------------------------------------------------------------------
At(p, pc)  == proc[p].pc = pc
Has(p, r)  == R(r) \in proc[p].held
Goes(p, s) == proc' = [proc EXCEPT ![p] = s] /\ UNCHANGED <<debug, creates>>

Goto(s, pc)      == [s EXCEPT !.pc = pc]
Take(s, rs)      == [s EXCEPT !.held = @ \cup rs]
Free(s, rs)      == [s EXCEPT !.held = @ \ rs]
Gain(s, rs, pc)  == Goto(Take(s, rs), pc)
Drop(s, rs, pc)  == Goto(Free(s, rs), pc)
AddPort(s, port) == [s EXCEPT !.pc = "mux", !.ports = Append(@, port)]

\* Creating a port failed: what it had is lost, its address stays null, and
\* kraken_board_create goes on all the same.
NoPort(s, rs) ==
    AddPort([s EXCEPT !.held = @ \ rs, !.leaked = @ \cup (s.held \cap rs)], FALSE)

\* create or destroy returned an error: the board cannot be reached any more.
GiveUp(s) == [s EXCEPT !.pc = "idle", !.held = {}, !.leaked = @ \cup s.held,
                       !.ports = <<>>, !.k = 0]

\* A device call succeeds, or it fails.
Succeeds(p, s) == Goes(p, s) /\ UNCHANGED faults
Fails(p, device, s) ==
    /\ faults < MaxFaults /\ faults' = faults + 1
    /\ Goes(p, [s EXCEPT !.failed = @ \cup {device}])

\* KRAKEN_CHECK returns from the function; a release build goes on.
Checked(escape, on) == IF debug THEN escape ELSE on

-----------------------------------------------------------------------------
(* kraken_board_create.                                                    *)

\* A debug build wants a name to copy, and a null alias is none.
GpioConfigCopied(cfg) == ~debug \/ cfg.alias

\* The copies of a configuration: one that fails is lost, with the board.
CopyConfig(s, cfg) ==
    IF GpioConfigCopied(cfg) THEN Take(s, BoardConfig)
                             ELSE GiveUp(Take(s, BoardConfig \ {R("muxConfigs")}))

CreateBoard(p, cfg) ==
    /\ At(p, "idle") /\ creates < MaxCreates
    /\ creates' = creates + 1
    /\ LET s == CopyConfig(Take([proc[p] EXCEPT !.cfg = cfg], {R("board")}), cfg)
       IN  proc' = [proc EXCEPT ![p] = IF GpioConfigCopied(cfg) THEN Gain(s, {R("ports")}, "compat")
                                                                ELSE s]
    /\ UNCHANGED <<debug, faults>>

\* check_compatibility reads the device tree.  Where it fails a debug build
\* keeps what it had opened; other hardware than expected is an error too.
CheckCompatibility(p) ==
    /\ At(p, "compat")
    /\ LET on == Gain(proc[p], {R("port")}, "open")
       IN  \/ Succeeds(p, on)
           \/ \E rs \in IF debug THEN DteLeaks ELSE {{}} :
                 Fails(p, "dte", Checked([NoPort(proc[p], {}) EXCEPT !.leaked = @ \cup rs], on))

OpenGpio(p) ==
    /\ At(p, "open")
    /\ \/ Succeeds(p, Gain(proc[p], {R("fd")}, "flock"))
       \/ Fails(p, "gpio", Checked(NoPort(proc[p], {R("port")}), Goto(proc[p], "flock")))

\* The lock belongs to an open file, not to a process.
LockIsFree == \A q \in Procs : R("lock") \notin proc[q].held \cup proc[q].leaked

\* Mutant: the lock is asked for, not waited for.
MutantLockNotAwaited(p) ==
    /\ At(p, "flock") /\ Has(p, "fd")
    /\ Succeeds(p, IF LockIsFree THEN Gain(proc[p], {R("lock")}, "map") ELSE Goto(proc[p], "map"))

\* flock waits for the lock.
LockGpio(p) ==
    /\ At(p, "flock") /\ Has(p, "fd") /\ LockIsFree
    /\ Succeeds(p, Gain(proc[p], {R("lock")}, "map"))

LockFails(p) ==
    /\ At(p, "flock")
    /\ IF Has(p, "fd")
          THEN Fails(p, "flock", Checked(NoPort(proc[p], {R("port"), R("fd")}), Goto(proc[p], "map")))
          ELSE Succeeds(p, Goto(proc[p], "map"))

\* One IO for every pin of the configuration.
CreateIOs(s) == Take(s, {R("ios")})
FreeIOs(s)   == Free(s, {R("ios")})

PortMapped(s) == AddPort(CreateIOs(Take(s, {R("shadow")})), TRUE)

\* Mutant: the new port is not stored.
MutantPortNotStored(p) == At(p, "map") /\ Succeeds(p, NoPort(proc[p], {}))

\* mmap fails with MAP_FAILED, which is not null: both builds go on.
MapGpio(p) ==
    /\ At(p, "map")
    /\ LET on == PortMapped(proc[p])
       IN  \/ Has(p, "fd") /\ Succeeds(p, Gain(on, {R("map")}, "mux"))
           \/ Has(p, "fd") /\ Fails(p, "mmap", on)
           \/ ~Has(p, "fd") /\ Succeeds(p, on)

MuxesMade(p) == Len(proc[p].ports) - 1
Mux(p)       == proc[p].cfg.muxes[MuxesMade(p) + 1]

\* An SPI multiplexer's port is never created.
NextMux(p) ==
    /\ At(p, "mux")
    /\ Succeeds(p, IF MuxesMade(p) = Len(proc[p].cfg.muxes)
                      THEN IF proc[p].cfg.flash THEN Gain(proc[p], {R("flash")}, "flash")
                                             ELSE Goto(proc[p], "ready")
                   ELSE IF Mux(p) = "SPI" THEN AddPort(proc[p], FALSE)
                   ELSE Gain(proc[p], {<<"mux", MuxesMade(p) + 1>>}, "bus"))

\* Mutant: a multiplexer that fails makes create return.
MutantBusFailureReturns(p) ==
    /\ At(p, "bus")
    /\ \/ Succeeds(p, Gain(proc[p], {<<"bus", MuxesMade(p) + 1>>}, "slave"))
       \/ Fails(p, "bus", Checked(GiveUp(proc[p]), AddPort(proc[p], TRUE)))

OpenBus(p) ==
    LET k == MuxesMade(p) + 1
    IN  /\ At(p, "bus")
        /\ \/ Succeeds(p, Gain(proc[p], {<<"bus", k>>}, "slave"))
           \/ Fails(p, "bus", Checked(NoPort(proc[p], MuxResources(k)), AddPort(proc[p], TRUE)))

SetSlave(p) ==
    LET k == MuxesMade(p) + 1
    IN  /\ At(p, "slave")
        /\ \/ Succeeds(p, AddPort(proc[p], TRUE))
           \/ Fails(p, "slave", Checked(NoPort(proc[p], MuxResources(k)), AddPort(proc[p], TRUE)))

\* A flash device that fails makes a debug build's create return.
OpenFlash(p) ==
    /\ At(p, "flash")
    /\ \/ Succeeds(p, Gain(proc[p], {R("flashFd")}, "info"))
       \/ Fails(p, "flash", Checked(GiveUp(proc[p]), Goto(proc[p], "ready")))

ReadFlashInfo(p) ==
    /\ At(p, "info")
    /\ \/ Succeeds(p, Goto(proc[p], "ready"))
       \/ Fails(p, "info", Checked(GiveUp(proc[p]), Goto(proc[p], "ready")))

CreateStep(p) ==
    \/ CheckCompatibility(p) \/ OpenGpio(p) \/ LockGpio(p) \/ LockFails(p) \/ MapGpio(p)
    \/ NextMux(p) \/ OpenBus(p) \/ SetSlave(p) \/ OpenFlash(p) \/ ReadFlashInfo(p)

-----------------------------------------------------------------------------
(* Using and destroying a board.                                           *)

PortType(k) == IF k = 1 THEN "GPIO" ELSE "I2C"

\* kraken_board_get_port_for_io goes through all ports for an IO it does not
\* know; the one of a known IO is the first.
FindPort(p) ==
    /\ At(p, "ready")
    /\ \E k \in 1..Len(proc[p].ports) : ~proc[p].ports[k]
    /\ Succeeds(p, Goto(proc[p], "lost"))

\* kraken_board_get_ports_for_type looks at ports until it has max of the type.
CollectPorts(p, type, max) ==
    LET ports    == proc[p].ports
        Found(k) == Cardinality({j \in 1..k : ports[j] /\ PortType(j) = type})
    IN  /\ At(p, "ready")
        /\ \E k \in 1..Len(ports) : ~ports[k] /\ Found(k - 1) < max
        /\ Succeeds(p, Goto(proc[p], "lost"))

\* What a call of a port's callback may meet: a GPIO port's registers that are
\* not mapped, and in a release build a multiplexer's callback that is null, its
\* copy of the configuration being all zero.
CallbackFaults(p) ==
    /\ At(p, "ready")
    /\ \E k \in 1..Len(proc[p].ports) :
          proc[p].ports[k] /\ IF k = 1 THEN ~Has(p, "map") ELSE ~debug
    /\ Succeeds(p, Goto(proc[p], "lost"))

\* The calls that go through the callbacks.
UpdatePort(p)       == CallbackFaults(p)
UpdatePortMasked(p) == CallbackFaults(p)
ReinitPort(p)       == CallbackFaults(p)

UsePort(p) == UpdatePort(p) \/ UpdatePortMasked(p) \/ ReinitPort(p)

\* Mutant: the loop begins with the multiplexers.
MutantSkipsGpio(p) ==
    At(p, "ready") /\ Succeeds(p, [Goto(proc[p], "closeMux") EXCEPT !.k = 2])

\* The GPIO port is port 0.
DestroyBoard(p) ==
    /\ At(p, "ready")
    /\ Succeeds(p, Goto(proc[p], IF proc[p].ports[1] THEN "unmap" ELSE "lost"))

\* munmap fails on MAP_FAILED.
UnmapGpio(p) ==
    /\ At(p, "unmap")
    /\ Succeeds(p, IF debug /\ ~Has(p, "map") THEN GiveUp(proc[p])
                                              ELSE Drop(proc[p], {R("map")}, "unlock"))

UnlockGpio(p) == At(p, "unlock") /\ Succeeds(p, Drop(proc[p], {R("lock")}, "close"))

\* Closing the descriptor would release the lock as well.
CloseGpio(p) ==
    /\ At(p, "close")
    /\ Succeeds(p, [Drop(FreeIOs(proc[p]), PortMemory \cup {R("fd"), R("lock")}, "closeMux")
                        EXCEPT !.k = 2])

\* Mutant: the multiplexer's bus stays open.
MutantBusLeftOpen(p) ==
    /\ At(p, "closeMux")
    /\ Succeeds(p, IF proc[p].k > Len(proc[p].ports) THEN Goto(proc[p], "free")
                   ELSE IF ~proc[p].ports[proc[p].k] THEN Goto(proc[p], "lost")
                   ELSE IF debug THEN GiveUp(proc[p])
                   ELSE [Drop(proc[p], {<<"mux", proc[p].k - 1>>}, "closeMux") EXCEPT !.k = @ + 1])

\* kraken_i2c_mux_port_destroy asks for a type above its own: a debug build
\* returns an error and leaves the rest.
CloseMux(p) ==
    /\ At(p, "closeMux")
    /\ Succeeds(p, IF proc[p].k > Len(proc[p].ports) THEN Goto(proc[p], "free")
                   ELSE IF ~proc[p].ports[proc[p].k] THEN Goto(proc[p], "lost")
                   ELSE IF debug THEN GiveUp(proc[p])
                   ELSE [Drop(proc[p], MuxResources(proc[p].k - 1), "closeMux") EXCEPT !.k = @ + 1])

FreeConfig(s) == Free(s, BoardConfig)
FreeFlash(s)  == Free(s, {R("flash"), R("flashFd")})

FreeBoard(p) ==
    /\ At(p, "free")
    /\ Succeeds(p, [Drop(FreeConfig(FreeFlash(proc[p])), BoardMemory, "idle")
                        EXCEPT !.ports = <<>>, !.k = 0])

DestroyStep(p) ==
    UnmapGpio(p) \/ UnlockGpio(p) \/ CloseGpio(p) \/ CloseMux(p) \/ FreeBoard(p)

-----------------------------------------------------------------------------
\* The kernel takes back everything a process had.
Dies(p) == Goes(p, Fresh)

Crash(p) == At(p, "lost") /\ Dies(p) /\ UNCHANGED faults
Exit(p)  == At(p, "idle") /\ proc[p] # Fresh /\ Dies(p) /\ UNCHANGED faults
Kill(p)  == ~At(p, "idle") /\ Dies(p) /\ faults < MaxFaults /\ faults' = faults + 1

Next ==
    \E p \in Procs :
        \/ \E cfg \in Configs : CreateBoard(p, cfg)
        \/ \E type \in {"GPIO", "I2C"}, max \in 1..Len(proc[p].ports) : CollectPorts(p, type, max)
        \/ CreateStep(p) \/ FindPort(p) \/ UsePort(p) \/ DestroyBoard(p) \/ DestroyStep(p)
        \/ Crash(p) \/ Exit(p) \/ Kill(p)

Spec == Init /\ [][Next]_vars

\* A call goes on, applications close their boards, flock serves those who wait.
Fairness ==
    \A p \in Procs : /\ WF_vars(CreateStep(p) /\ ~At(p, "flock"))
                     /\ SF_vars(LockGpio(p))
                     /\ WF_vars(~Has(p, "fd") /\ LockFails(p))
                     /\ WF_vars(DestroyBoard(p)) /\ WF_vars(DestroyStep(p)) /\ WF_vars(Crash(p))

BoardSpec == Spec /\ Fairness

-----------------------------------------------------------------------------
TypeOK ==
    /\ debug \in Builds
    /\ faults \in 0..MaxFaults /\ creates \in 0..MaxCreates
    /\ \A p \in Procs :
          /\ proc[p].cfg \in ConfigType
          /\ Len(proc[p].ports) <= Len(proc[p].cfg.muxes) + 1
          /\ proc[p].k <= Len(proc[p].ports) + 1
          /\ \A r \in proc[p].held \cup proc[p].leaked : IsResource(r)
          /\ proc[p].failed \subseteq Devices

Mapped(p) == R("map") \in proc[p].held \cup proc[p].leaked

\* kraken_gpio_port.c 58, "Acquire an exclusive FD on the GPIO device".  Two
\* processes have the registers mapped at once only in a release build that went
\* on after flock had failed for one of them: not while boards are opened and
\* closed in any order, nor when processes die or lose track of a board.
RegistersHaveOneOwner ==
    \A p, q \in Procs :
        (p # q /\ Mapped(p) /\ Mapped(q)) => ~debug /\ "flock" \in proc[p].failed \cup proc[q].failed

\* kraken_board_destroy without an error gives back everything the board had
\* acquired, through whichever failures it came to be (kraken_board.c 121-155).
DestroyReleasesAll == \A p \in Procs : At(p, "idle") => proc[p].held = {}

\* A release build leaks nothing, and a debug build loses the descriptor of the
\* GPIO device only after that device, its mapping or the flash device failed,
\* and the lock only after the mapping or the flash device did: not for a
\* multiplexer or a copy of the configuration (kraken_board.c 45-88,
\* kraken_gpio_port.c 55-95).
LeaksAreExplained ==
    \A p \in Procs :
        LET s == proc[p]
        IN  /\ s.leaked # {} => debug
            /\ R("lock") \in s.leaked => s.failed \cap {"mmap", "flash", "info"} # {}
            /\ R("fd") \in s.leaked => s.failed \cap {"flock", "mmap", "flash", "info"} # {}

\* A board without multiplexers whose devices all worked can be used and
\* destroyed, however it is looked through (kraken_board.c 126, 165, 190,
\* kraken_port.c 60).
GpioBoardsSurvive ==
    \A p \in Procs : (proc[p].cfg.muxes = <<>> /\ proc[p].failed = {}) => ~At(p, "lost")

\* kraken_board.h 78, destroy "releases all associated resources", and 82, it
\* fails for an invalid handle.  Known to be violated: the type check of
\* kraken_i2c_mux_port_destroy (56) makes a debug build's destroy return and
\* leave the multiplexer and all that comes after it.
Destroying(p) == proc[p].pc \in {"unmap", "unlock", "close", "closeMux", "free"}
DestroyLosesNothing ==
    [][\A p \in Procs : Destroying(p) => proc'[p].leaked \subseteq proc[p].leaked]_vars

\* kraken_board.h 91-92, the search for an IO returns an error "if no port is
\* associated with the given IO"; 107, the one for a type fails for an invalid
\* handle.  Known to be violated: kraken_board.c 165 and 192 read through the
\* null address of a multiplexer's port, as does destroy (126).
NoCallCrashes == \A p \in Procs : ~At(p, "lost")

\* kraken_board.h 46, create returns an error "when the config is invalid or
\* board initialization fails".  Known to be violated: kraken_board.c 59 goes on
\* without the GPIO port whose creation failed.
CreatedBoardsAreWhole ==
    \A p \in Procs : At(p, "ready") => \A k \in 1..Len(proc[p].ports) : proc[p].ports[k]

LockLeaked == \E q \in Procs : R("lock") \in proc[q].leaked

\* Whoever waits for the GPIO device gets past flock, though others fail, crash
\* or are killed with the lock, unless a debug build has leaked it
\* (kraken_gpio_port.c 62).
WaitersGetIn ==
    \A p \in Procs : At(p, "flock") ~> (~At(p, "flock") \/ LockLeaked)
=============================================================================
