---------------------------- MODULE BoardProofs -----------------------------
(***************************************************************************)
(* Exclusive use of the GPIO registers (kraken_gpio_port.c), and what a    *)
(* board has until it is destroyed (kraken_board.c), for any processes,    *)
(* configurations, failures and kills, in both builds.  The lock has one   *)
(* owner; whoever has the registers mapped has the lock, or was let through*)
(* without it; and a leak of one takes the other along.  The second half   *)
(* follows every resource of a board through create and destroy.           *)
(***************************************************************************)
EXTENDS Board, TLAPS

Lock == R("lock")
Map  == R("map")
Fd   == R("fd")

\* A process's state has these fields, whatever is in them.
Fields == {"pc", "cfg", "ports", "k", "held", "leaked", "failed"}
ProcShape(s) == Fields \subseteq DOMAIN s

\* A release build went on after flock had failed.
LetThrough(d, s) == ~d /\ "flock" \in s.failed

MapGuarded(d, s) ==
    /\ Map \in s.held => Lock \in s.held \/ LetThrough(d, s)
    /\ Map \in s.leaked => Lock \in s.leaked
    /\ s.pc = "map" /\ Fd \in s.held => Lock \in s.held \/ LetThrough(d, s)
    /\ s.pc \in {"unlock", "close"} => Map \notin s.held

HasLock(s) == Lock \in s.held \cup s.leaked

OwnerInv ==
    /\ debug \in BOOLEAN
    /\ proc = [p \in Procs |-> proc[p]]
    /\ \A p \in Procs : ProcShape(proc[p]) /\ MapGuarded(debug, proc[p])
    /\ \A p, q \in Procs : p # q => ~(HasLock(proc[p]) /\ HasLock(proc[q]))

-----------------------------------------------------------------------------
\* Resources with different names are different.
LEMMA NamesDiffer ==
    /\ Lock # Map /\ Lock # Fd /\ Map # Fd
    /\ \A n \in {"config", "gpioConfig", "muxConfigs", "board", "ports", "port", "shadow", "ios",
                 "dteFd", "dteBuffer", "flash", "flashFd"} : R(n) \notin {Lock, Map, Fd}
    /\ \A k : <<"mux", k>> \notin {Lock, Map, Fd} /\ <<"bus", k>> \notin {Lock, Map, Fd}
BY DEF Lock, Map, Fd, R

\* A step that replaces one process's state by s keeps the invariant if s is
\* guarded and has the lock only if the process had it or nobody did.
LEMMA ProcStep ==
    ASSUME OwnerInv, NEW p \in Procs, NEW s, ProcShape(s), MapGuarded(debug, s),
           HasLock(s) => HasLock(proc[p]) \/ LockIsFree,
           proc' = [proc EXCEPT ![p] = s], UNCHANGED debug
    PROVE  OwnerInv'
<1>1. \A q \in Procs : proc'[q] = IF q = p THEN s ELSE proc[q]
  BY DEF OwnerInv
<1>2. \A q \in Procs : ProcShape(proc'[q]) /\ MapGuarded(debug', proc'[q])
  BY <1>1 DEF OwnerInv
<1>3. LockIsFree => \A q \in Procs : ~HasLock(proc[q])
  BY DEF LockIsFree, HasLock, Lock
<1>4. \A q, r \in Procs : q # r => ~(HasLock(proc'[q]) /\ HasLock(proc'[r]))
  BY <1>1, <1>3 DEF OwnerInv
<1>5. proc' = [q \in Procs |-> proc'[q]] /\ debug' \in BOOLEAN
  BY DEF OwnerInv
<1>6. QED
  BY <1>2, <1>4, <1>5 DEF OwnerInv

\* Going on, taking and freeing other things, and adding a port change neither
\* the lock nor the mapping.
Unrelated(rs) == Lock \notin rs /\ Map \notin rs

\* The new state is that of the process but for things that do not matter here,
\* and it is not at a place where the mapping has to be gone or guarded.
SameGuard(s, old) ==
    /\ ProcShape(s)
    /\ \A r \in {Lock, Map} : (r \in s.held <=> r \in old.held) /\ (r \in s.leaked <=> r \in old.leaked)
    /\ old.failed \subseteq s.failed
    /\ s.pc \notin {"map", "unlock", "close"}

LEMMA SameGuardStep ==
    ASSUME OwnerInv, NEW p \in Procs, NEW s, SameGuard(s, proc[p]),
           proc' = [proc EXCEPT ![p] = s], UNCHANGED debug
    PROVE  OwnerInv'
<1>1. MapGuarded(debug, proc[p])
  BY DEF OwnerInv
<1>2. MapGuarded(debug, s)
  BY <1>1 DEF SameGuard, MapGuarded, LetThrough
<1>3. HasLock(s) => HasLock(proc[p])
  BY DEF SameGuard, HasLock
<1>4. QED
  BY <1>2, <1>3, ProcStep DEF SameGuard

\* The same, for the ways a call goes on.
LEMMA SucceedsSameGuard ==
    ASSUME OwnerInv, NEW p \in Procs, NEW s, SameGuard(s, proc[p]), Succeeds(p, s)
    PROVE  OwnerInv'
BY SameGuardStep DEF Succeeds, Goes

LEMMA FailsSameGuard ==
    ASSUME OwnerInv, NEW p \in Procs, NEW s, SameGuard(s, proc[p]), NEW d, Fails(p, d, s)
    PROVE  OwnerInv'
<1>1. SameGuard([s EXCEPT !.failed = @ \cup {d}], proc[p])
  BY DEF SameGuard, ProcShape, Fields
<1>2. QED
  BY <1>1, SameGuardStep DEF Fails, Goes

\* An error of a debug build moves everything to what is leaked.
LEMMA GiveUpStep ==
    ASSUME OwnerInv, NEW p \in Procs, NEW s, ProcShape(s), NEW old, MapGuarded(debug, old), debug,
           HasLock(old) => HasLock(proc[p]),
           s.pc = "idle", s.held = {}, s.leaked = old.leaked \cup old.held,
           proc' = [proc EXCEPT ![p] = s], UNCHANGED debug
    PROVE  OwnerInv'
<1>1. MapGuarded(debug, s)
  BY DEF MapGuarded, LetThrough
<1>2. HasLock(s) => HasLock(proc[p])
  BY DEF HasLock
<1>3. QED
  BY <1>1, <1>2, ProcStep

LEMMA GivenUp ==
    ASSUME NEW s, ProcShape(s)
    PROVE  /\ ProcShape(GiveUp(s)) /\ GiveUp(s).pc = "idle" /\ GiveUp(s).held = {}
           /\ GiveUp(s).leaked = s.leaked \cup s.held
BY DEF GiveUp, ProcShape, Fields

LEMMA SucceedsGiveUp ==
    ASSUME OwnerInv, NEW p \in Procs, debug, Succeeds(p, GiveUp(proc[p]))
    PROVE  OwnerInv'
<1>1. ProcShape(proc[p]) /\ MapGuarded(debug, proc[p])
  BY DEF OwnerInv
<1>2. QED
  BY <1>1, GivenUp, GiveUpStep DEF Succeeds, Goes

LEMMA FailsGiveUp ==
    ASSUME OwnerInv, NEW p \in Procs, debug, NEW d, Fails(p, d, GiveUp(proc[p]))
    PROVE  OwnerInv'
<1> DEFINE g == GiveUp(proc[p])
           s == [g EXCEPT !.failed = @ \cup {d}]
<1>1. ProcShape(proc[p]) /\ MapGuarded(debug, proc[p])
  BY DEF OwnerInv
<1>2. /\ ProcShape(g) /\ g.pc = "idle" /\ g.held = {}
      /\ g.leaked = proc[p].leaked \cup proc[p].held
  BY <1>1, GivenUp
<1>3. proc' = [proc EXCEPT ![p] = s] /\ UNCHANGED debug
  BY DEF Fails, Goes
<1> HIDE DEF g
<1>4. /\ ProcShape(s) /\ s.pc = "idle" /\ s.held = {}
      /\ s.leaked = proc[p].leaked \cup proc[p].held
  BY <1>2 DEF ProcShape, Fields
<1> HIDE DEF s
<1>5. QED
  BY <1>1, <1>3, <1>4, GiveUpStep

-----------------------------------------------------------------------------
\* The states calls go on with.
LEMMA GoingOn ==
    ASSUME NEW s, ProcShape(s), NEW rs, Unrelated(rs),
           NEW pc, pc \notin {"map", "unlock", "close"}
    PROVE  /\ SameGuard(Goto(s, pc), s) /\ SameGuard(Gain(s, rs, pc), s)
           /\ SameGuard(Drop(s, rs, pc), s)
BY DEF SameGuard, Goto, Gain, Drop, Take, Free, Unrelated, ProcShape, Fields

LEMMA AddingPort ==
    ASSUME NEW s, ProcShape(s), NEW rs, Unrelated(rs), NEW port
    PROVE  SameGuard(AddPort(s, port), s) /\ SameGuard(NoPort(s, rs), s)
<1>1. SameGuard(AddPort(s, port), s)
  BY DEF SameGuard, AddPort, ProcShape, Fields
<1> DEFINE t == [s EXCEPT !.held = @ \ rs, !.leaked = @ \cup (s.held \cap rs)]
<1>2. /\ ProcShape(t) /\ t.held = s.held \ rs /\ t.leaked = s.leaked \cup (s.held \cap rs)
      /\ t.failed = s.failed
  BY DEF ProcShape, Fields
<1> HIDE DEF t
<1>3. SameGuard(AddPort(t, FALSE), s)
  BY <1>2 DEF SameGuard, AddPort, ProcShape, Fields, Unrelated
<1>4. QED
  BY <1>1, <1>3 DEF NoPort, t

\* Everything but the lock and the mapping.
LEMMA UnrelatedResources ==
    /\ Unrelated({}) /\ Unrelated(BoardConfig) /\ Unrelated(BoardMemory) /\ Unrelated(PortMemory)
    /\ Unrelated(BoardConfig \ {R("muxConfigs")}) /\ \A rs \in DteLeaks : Unrelated(rs)
    /\ \A n \in {"board", "ports", "port", "shadow", "ios", "fd", "flash", "flashFd"} : Unrelated({R(n)})
    /\ Unrelated({R("port"), R("fd")}) /\ Unrelated({R("flash"), R("flashFd")})
    /\ \A k : Unrelated(MuxResources(k)) /\ Unrelated({<<"mux", k>>}) /\ Unrelated({<<"bus", k>>})
BY NamesDiffer DEF Unrelated, BoardConfig, BoardMemory, PortMemory, DteLeaks, MuxResources, Fd

\* What is known of a process before its step.
LEMMA ProcFacts ==
    ASSUME OwnerInv, NEW p \in Procs
    PROVE  ProcShape(proc[p]) /\ MapGuarded(debug, proc[p])
BY DEF OwnerInv

-----------------------------------------------------------------------------
LEMMA CreateBoardKeeps ==
    ASSUME OwnerInv, NEW p \in Procs, NEW cfg, CreateBoard(p, cfg)
    PROVE  OwnerInv'
<1> DEFINE b == Take([proc[p] EXCEPT !.cfg = cfg], {R("board")})
           lost == Take(b, BoardConfig \ {R("muxConfigs")})
           done == Take(b, BoardConfig)
           on == Gain(done, {R("ports")}, "compat")
<1>1. ProcShape(proc[p]) /\ MapGuarded(debug, proc[p])
  BY ProcFacts
<1>2. ProcShape(b) /\ b.failed = proc[p].failed /\ b.leaked = proc[p].leaked /\ b.pc = "idle"
      /\ b.held = proc[p].held \cup {R("board")}
  BY <1>1 DEF CreateBoard, At, Take, ProcShape, Fields
<1>3. Unrelated({R("board")}) /\ Unrelated({R("ports")})
      /\ Unrelated(BoardConfig) /\ Unrelated(BoardConfig \ {R("muxConfigs")})
  BY UnrelatedResources
<1>4. UNCHANGED debug
  BY DEF CreateBoard
<1>5. CASE GpioConfigCopied(cfg)
  <2>1. proc' = [proc EXCEPT ![p] = on]
    BY <1>5 DEF CreateBoard, CopyConfig
  <2>2. SameGuard(on, proc[p])
    <3> HIDE DEF b
    <3>1. QED
      BY <1>2, <1>3 DEF Gain, Goto, Take, SameGuard, Unrelated, ProcShape, Fields
  <2>3. QED
    BY <1>4, <2>1, <2>2, SameGuardStep
<1>6. CASE ~GpioConfigCopied(cfg)
  <2>1. proc' = [proc EXCEPT ![p] = GiveUp(lost)] /\ debug
    BY <1>6, <1>1 DEF CreateBoard, CopyConfig, GpioConfigCopied, OwnerInv
  <2>2. /\ ProcShape(lost) /\ lost.failed = proc[p].failed /\ lost.leaked = proc[p].leaked
        /\ lost.pc = "idle" /\ (Lock \in lost.held <=> Lock \in proc[p].held)
        /\ (Map \in lost.held <=> Map \in proc[p].held)
    <3> HIDE DEF b
    <3>1. QED
      BY <1>2, <1>3 DEF Take, Unrelated, ProcShape, Fields
  <2> HIDE DEF lost
  <2>3. MapGuarded(debug, lost) /\ (HasLock(lost) => HasLock(proc[p]))
    BY <1>1, <2>2 DEF MapGuarded, LetThrough, HasLock
  <2>4. QED
    BY <1>4, <2>1, <2>2, <2>3, GivenUp, GiveUpStep
<1>7. QED
  BY <1>5, <1>6

LEMMA CheckCompatibilityKeeps ==
    ASSUME OwnerInv, NEW p \in Procs, CheckCompatibility(p)
    PROVE  OwnerInv'
<1> DEFINE on == Gain(proc[p], {R("port")}, "open")
           No(rs) == [NoPort(proc[p], {}) EXCEPT !.leaked = @ \cup rs]
<1>1. ProcShape(proc[p])
  BY ProcFacts
<1>2. SameGuard(on, proc[p])
  BY <1>1, GoingOn, UnrelatedResources
<1>3. ASSUME NEW rs, Unrelated(rs) PROVE SameGuard(No(rs), proc[p])
  <2>1. SameGuard(NoPort(proc[p], {}), proc[p])
    BY <1>1, AddingPort, UnrelatedResources
  <2>2. QED
    BY <1>3, <2>1 DEF SameGuard, Unrelated, ProcShape, Fields
<1>4. \/ Succeeds(p, on)
      \/ \E rs \in DteLeaks \cup {{}} : Fails(p, "dte", No(rs))
      \/ Fails(p, "dte", on)
  BY DEF CheckCompatibility, Checked
<1>5. QED
  BY <1>2, <1>3, <1>4, UnrelatedResources, SucceedsSameGuard, FailsSameGuard

LEMMA OpenGpioKeeps ==
    ASSUME OwnerInv, NEW p \in Procs, OpenGpio(p)
    PROVE  OwnerInv'
<1>1. ProcShape(proc[p])
  BY ProcFacts
<1>2. /\ SameGuard(Gain(proc[p], {R("fd")}, "flock"), proc[p])
      /\ SameGuard(Goto(proc[p], "flock"), proc[p])
      /\ SameGuard(NoPort(proc[p], {R("port")}), proc[p])
  BY <1>1, GoingOn, AddingPort, UnrelatedResources
<1>3. QED
  BY <1>2, SucceedsSameGuard, FailsSameGuard DEF OpenGpio, Checked

\* The lock is taken while nobody has it.
LEMMA LockGpioKeeps ==
    ASSUME OwnerInv, NEW p \in Procs, LockGpio(p)
    PROVE  OwnerInv'
<1> DEFINE s == Gain(proc[p], {Lock}, "map")
<1>1. ProcShape(proc[p]) /\ MapGuarded(debug, proc[p])
  BY ProcFacts
<1>2. LockIsFree /\ proc' = [proc EXCEPT ![p] = s] /\ UNCHANGED debug
  BY DEF LockGpio, Succeeds, Goes, Lock
<1>3. /\ ProcShape(s) /\ s.pc = "map" /\ s.held = proc[p].held \cup {Lock}
      /\ s.leaked = proc[p].leaked
  BY <1>1 DEF Gain, Goto, Take, ProcShape, Fields
<1> HIDE DEF s
<1>4. MapGuarded(debug, s)
  BY <1>1, <1>3 DEF MapGuarded
<1>5. QED
  BY <1>2, <1>3, <1>4, ProcStep

\* Without the lock it goes on only in a release build, which is then let
\* through, or without a descriptor.
LEMMA LockFailsKeeps ==
    ASSUME OwnerInv, NEW p \in Procs, LockFails(p)
    PROVE  OwnerInv'
<1> DEFINE s == Goto(proc[p], "map")
           f == [s EXCEPT !.failed = @ \cup {"flock"}]
<1>1. ProcShape(proc[p]) /\ MapGuarded(debug, proc[p])
  BY ProcFacts
<1>2. /\ ProcShape(s) /\ s.pc = "map" /\ s.held = proc[p].held /\ s.leaked = proc[p].leaked
      /\ s.failed = proc[p].failed
  BY <1>1 DEF Goto, ProcShape, Fields
<1>3. CASE Has(p, "fd") /\ debug
  <2>1. SameGuard(NoPort(proc[p], {R("port"), R("fd")}), proc[p])
    BY <1>1, AddingPort, UnrelatedResources
  <2>2. QED
    BY <1>3, <2>1, FailsSameGuard DEF LockFails, Checked
<1>4. CASE Has(p, "fd") /\ ~debug
  <2>1. proc' = [proc EXCEPT ![p] = f] /\ UNCHANGED debug
    BY <1>4 DEF LockFails, Checked, Fails, Goes
  <2> HIDE DEF s
  <2>2. /\ ProcShape(f) /\ f.pc = "map" /\ f.held = proc[p].held /\ f.leaked = proc[p].leaked
        /\ "flock" \in f.failed
    BY <1>2 DEF ProcShape, Fields
  <2> HIDE DEF f
  <2>3. MapGuarded(debug, f) /\ (HasLock(f) => HasLock(proc[p]))
    BY <1>1, <1>4, <2>2 DEF MapGuarded, LetThrough, HasLock
  <2>4. QED
    BY <2>1, <2>2, <2>3, ProcStep
<1>5. CASE ~Has(p, "fd")
  <2>1. proc' = [proc EXCEPT ![p] = s] /\ UNCHANGED debug /\ Fd \notin proc[p].held
    BY <1>5 DEF LockFails, Succeeds, Goes, Has, Fd
  <2> HIDE DEF s
  <2>2. MapGuarded(debug, s) /\ (HasLock(s) => HasLock(proc[p]))
    BY <1>1, <1>2, <2>1 DEF MapGuarded, LetThrough, HasLock
  <2>3. QED
    BY <1>2, <2>1, <2>2, ProcStep
<1>6. QED
  BY <1>3, <1>4, <1>5 DEF OwnerInv

\* The registers are mapped where the lock is held, or the process let through.
LEMMA MapGpioKeeps ==
    ASSUME OwnerInv, NEW p \in Procs, MapGpio(p)
    PROVE  OwnerInv'
<1> DEFINE on == PortMapped(proc[p])
           s == Gain(on, {Map}, "mux")
<1>1. ProcShape(proc[p]) /\ MapGuarded(debug, proc[p]) /\ proc[p].pc = "map"
  BY ProcFacts DEF MapGpio, At
<1>2. SameGuard(on, proc[p]) /\ on.failed = proc[p].failed
  BY <1>1, NamesDiffer DEF PortMapped, AddPort, CreateIOs, Take, SameGuard, ProcShape, Fields
<1> HIDE DEF on
<1>3. CASE Has(p, "fd") /\ Succeeds(p, s)
  <2>1. proc' = [proc EXCEPT ![p] = s] /\ UNCHANGED debug /\ Fd \in proc[p].held
    BY <1>3 DEF Succeeds, Goes, Has, Fd
  <2>2. /\ ProcShape(s) /\ s.pc = "mux" /\ s.held = on.held \cup {Map} /\ s.leaked = on.leaked
        /\ s.failed = on.failed
    BY <1>2 DEF Gain, Goto, Take, SameGuard, ProcShape, Fields
  <2> HIDE DEF s
  <2>3. MapGuarded(debug, s) /\ (HasLock(s) => HasLock(proc[p]))
    BY <1>1, <1>2, <2>1, <2>2, NamesDiffer DEF MapGuarded, LetThrough, HasLock, SameGuard
  <2>4. QED
    BY <2>1, <2>2, <2>3, ProcStep
<1>4. (Succeeds(p, s) /\ Has(p, "fd")) \/ Fails(p, "mmap", on) \/ Succeeds(p, on)
  BY DEF MapGpio, on, Map
<1>5. QED
  BY <1>2, <1>3, <1>4, SucceedsSameGuard, FailsSameGuard

LEMMA MuxKeeps ==
    ASSUME OwnerInv, NEW p \in Procs, NextMux(p) \/ OpenBus(p) \/ SetSlave(p)
    PROVE  OwnerInv'
<1> DEFINE k == MuxesMade(p) + 1
<1>1. ProcShape(proc[p])
  BY ProcFacts
<1>2. /\ SameGuard(AddPort(proc[p], TRUE), proc[p]) /\ SameGuard(AddPort(proc[p], FALSE), proc[p])
      /\ SameGuard(NoPort(proc[p], MuxResources(k)), proc[p])
  BY <1>1, AddingPort, UnrelatedResources
<1>3. /\ SameGuard(Gain(proc[p], {R("flash")}, "flash"), proc[p])
      /\ SameGuard(Goto(proc[p], "ready"), proc[p])
      /\ SameGuard(Gain(proc[p], {<<"mux", k>>}, "bus"), proc[p])
      /\ SameGuard(Gain(proc[p], {<<"bus", k>>}, "slave"), proc[p])
  <2>1. /\ Unrelated({R("flash")}) /\ Unrelated({<<"mux", k>>}) /\ Unrelated({<<"bus", k>>})
        /\ Unrelated({})
    BY UnrelatedResources
  <2> HIDE DEF k
  <2>2. SameGuard(Gain(proc[p], {R("flash")}, "flash"), proc[p])
    BY <1>1, <2>1, GoingOn
  <2>3. SameGuard(Goto(proc[p], "ready"), proc[p])
    BY <1>1, <2>1, GoingOn
  <2>4. SameGuard(Gain(proc[p], {<<"mux", k>>}, "bus"), proc[p])
    BY <1>1, <2>1, GoingOn
  <2>5. SameGuard(Gain(proc[p], {<<"bus", k>>}, "slave"), proc[p])
    BY <1>1, <2>1, GoingOn
  <2>6. QED
    BY <2>2, <2>3, <2>4, <2>5
<1>4. CASE NextMux(p)
  <2>1. \E s \in {Gain(proc[p], {R("flash")}, "flash"), Goto(proc[p], "ready"),
                  AddPort(proc[p], FALSE), Gain(proc[p], {<<"mux", k>>}, "bus")} : Succeeds(p, s)
    BY <1>4 DEF NextMux
  <2>2. QED
    BY <1>2, <1>3, <2>1, SucceedsSameGuard
<1>5. CASE OpenBus(p)
  <2>1. \/ Succeeds(p, Gain(proc[p], {<<"bus", k>>}, "slave"))
        \/ \E s \in {NoPort(proc[p], MuxResources(k)), AddPort(proc[p], TRUE)} : Fails(p, "bus", s)
    BY <1>5 DEF OpenBus, Checked
  <2>2. QED
    BY <1>2, <1>3, <2>1, SucceedsSameGuard, FailsSameGuard
<1>6. CASE SetSlave(p)
  <2>1. \/ Succeeds(p, AddPort(proc[p], TRUE))
        \/ \E s \in {NoPort(proc[p], MuxResources(k)), AddPort(proc[p], TRUE)} : Fails(p, "slave", s)
    BY <1>6 DEF SetSlave, Checked
  <2>2. QED
    BY <1>2, <2>1, SucceedsSameGuard, FailsSameGuard
<1>7. QED
  BY <1>4, <1>5, <1>6

\* A flash device that fails ends a debug build's create.
LEMMA FlashKeeps ==
    ASSUME OwnerInv, NEW p \in Procs, OpenFlash(p) \/ ReadFlashInfo(p)
    PROVE  OwnerInv'
<1>1. /\ SameGuard(Gain(proc[p], {R("flashFd")}, "info"), proc[p])
      /\ SameGuard(Goto(proc[p], "ready"), proc[p])
  BY ProcFacts, GoingOn, UnrelatedResources
<1>2. \/ Succeeds(p, Gain(proc[p], {R("flashFd")}, "info"))
      \/ Succeeds(p, Goto(proc[p], "ready"))
      \/ \E d \in Devices : \/ Fails(p, d, Goto(proc[p], "ready"))
                            \/ debug /\ Fails(p, d, GiveUp(proc[p]))
  <2>1. "flash" \in Devices /\ "info" \in Devices
    BY DEF Devices
  <2>2. CASE OpenFlash(p) /\ debug
    BY <2>1, <2>2 DEF OpenFlash, Checked
  <2>3. CASE OpenFlash(p) /\ ~debug
    BY <2>1, <2>3 DEF OpenFlash, Checked
  <2>4. CASE ReadFlashInfo(p) /\ debug
    BY <2>1, <2>4 DEF ReadFlashInfo, Checked
  <2>5. CASE ReadFlashInfo(p) /\ ~debug
    BY <2>1, <2>5 DEF ReadFlashInfo, Checked
  <2>6. QED
    BY <2>2, <2>3, <2>4, <2>5 DEF OwnerInv
<1>3. QED
  BY <1>1, <1>2, SucceedsSameGuard, FailsSameGuard, FailsGiveUp

\* Queries and callbacks at worst bring the process down.
LEMMA UseKeeps ==
    ASSUME OwnerInv, NEW p \in Procs,
           \/ FindPort(p) \/ UsePort(p)
           \/ \E type, max : CollectPorts(p, type, max)
    PROVE  OwnerInv'
<1>1. SameGuard(Goto(proc[p], "lost"), proc[p])
  BY ProcFacts, GoingOn, UnrelatedResources
<1>2. Succeeds(p, Goto(proc[p], "lost"))
  BY DEF FindPort, UsePort, CollectPorts, UpdatePort, UpdatePortMasked, ReinitPort, CallbackFaults
<1>3. QED
  BY <1>1, <1>2, SucceedsSameGuard

LEMMA DestroyBoardKeeps ==
    ASSUME OwnerInv, NEW p \in Procs, DestroyBoard(p)
    PROVE  OwnerInv'
<1>1. SameGuard(Goto(proc[p], "lost"), proc[p]) /\ SameGuard(Goto(proc[p], "unmap"), proc[p])
  BY ProcFacts, GoingOn, UnrelatedResources
<1>2. Succeeds(p, Goto(proc[p], "lost")) \/ Succeeds(p, Goto(proc[p], "unmap"))
  BY DEF DestroyBoard
<1>3. QED
  BY <1>1, <1>2, SucceedsSameGuard

\* The mapping goes before the lock.
LEMMA UnmapGpioKeeps ==
    ASSUME OwnerInv, NEW p \in Procs, UnmapGpio(p)
    PROVE  OwnerInv'
<1> DEFINE s == Drop(proc[p], {Map}, "unlock")
<1>1. ProcShape(proc[p]) /\ MapGuarded(debug, proc[p])
  BY ProcFacts
<1>2. (debug /\ Succeeds(p, GiveUp(proc[p]))) \/ Succeeds(p, s)
  BY DEF UnmapGpio, Map
<1>3. CASE Succeeds(p, s)
  <2>1. proc' = [proc EXCEPT ![p] = s] /\ UNCHANGED debug
    BY <1>3 DEF Succeeds, Goes
  <2>2. /\ ProcShape(s) /\ s.pc = "unlock" /\ s.held = proc[p].held \ {Map}
        /\ s.leaked = proc[p].leaked
    BY <1>1 DEF Drop, Goto, Free, ProcShape, Fields
  <2> HIDE DEF s
  <2>3. MapGuarded(debug, s) /\ (HasLock(s) => HasLock(proc[p]))
    BY <1>1, <2>2 DEF MapGuarded, LetThrough, HasLock
  <2>4. QED
    BY <2>1, <2>2, <2>3, ProcStep
<1>4. QED
  BY <1>2, <1>3, SucceedsGiveUp

LEMMA UnlockGpioKeeps ==
    ASSUME OwnerInv, NEW p \in Procs, UnlockGpio(p)
    PROVE  OwnerInv'
<1> DEFINE s == Drop(proc[p], {Lock}, "close")
<1>1. ProcShape(proc[p]) /\ MapGuarded(debug, proc[p]) /\ proc[p].pc = "unlock"
  BY ProcFacts DEF UnlockGpio, At
<1>2. proc' = [proc EXCEPT ![p] = s] /\ UNCHANGED debug
  BY DEF UnlockGpio, Succeeds, Goes, Lock
<1>3. /\ ProcShape(s) /\ s.pc = "close" /\ s.held = proc[p].held \ {Lock}
      /\ s.leaked = proc[p].leaked
  BY <1>1 DEF Drop, Goto, Free, ProcShape, Fields
<1> HIDE DEF s
<1>4. MapGuarded(debug, s) /\ (HasLock(s) => HasLock(proc[p]))
  BY <1>1, <1>3 DEF MapGuarded, LetThrough, HasLock
<1>5. QED
  BY <1>2, <1>3, <1>4, ProcStep

LEMMA CloseGpioKeeps ==
    ASSUME OwnerInv, NEW p \in Procs, CloseGpio(p)
    PROVE  OwnerInv'
<1> DEFINE rs == PortMemory \cup {R("fd"), R("lock")}
           d == Drop(FreeIOs(proc[p]), rs, "closeMux")
           s == [d EXCEPT !.k = 2]
<1>1. ProcShape(proc[p]) /\ MapGuarded(debug, proc[p]) /\ proc[p].pc = "close"
  BY ProcFacts DEF CloseGpio, At
<1>2. proc' = [proc EXCEPT ![p] = s] /\ UNCHANGED debug
  BY DEF CloseGpio, Succeeds, Goes
<1>3. /\ ProcShape(d) /\ d.pc = "closeMux" /\ d.held \subseteq proc[p].held
      /\ d.leaked = proc[p].leaked
  BY <1>1 DEF Drop, Goto, Free, FreeIOs, ProcShape, Fields
<1> HIDE DEF d
<1>4. /\ ProcShape(s) /\ s.pc = "closeMux" /\ s.held \subseteq proc[p].held
      /\ s.leaked = proc[p].leaked
  BY <1>3 DEF ProcShape, Fields
<1> HIDE DEF s
<1>5. MapGuarded(debug, s) /\ (HasLock(s) => HasLock(proc[p]))
  BY <1>1, <1>4 DEF MapGuarded, LetThrough, HasLock
<1>6. QED
  BY <1>2, <1>4, <1>5, ProcStep

LEMMA CloseMuxKeeps ==
    ASSUME OwnerInv, NEW p \in Procs, CloseMux(p)
    PROVE  OwnerInv'
<1> DEFINE d == Drop(proc[p], MuxResources(proc[p].k - 1), "closeMux")
           s == [d EXCEPT !.k = @ + 1]
<1>1. ProcShape(proc[p])
  BY ProcFacts
<1>2. /\ SameGuard(Goto(proc[p], "free"), proc[p]) /\ SameGuard(Goto(proc[p], "lost"), proc[p])
      /\ SameGuard(d, proc[p])
  <2>1. Unrelated(MuxResources(proc[p].k - 1)) /\ Unrelated({})
    BY UnrelatedResources
  <2>2. SameGuard(Goto(proc[p], "free"), proc[p]) /\ SameGuard(Goto(proc[p], "lost"), proc[p])
    BY <1>1, <2>1, GoingOn
  <2>3. SameGuard(d, proc[p])
    BY <1>1, <2>1, GoingOn
  <2>4. QED
    BY <2>2, <2>3
<1>3. SameGuard(s, proc[p])
  <2> HIDE DEF d
  <2>1. QED
    BY <1>2 DEF SameGuard, ProcShape, Fields
<1>4. \/ Succeeds(p, Goto(proc[p], "free")) \/ Succeeds(p, Goto(proc[p], "lost"))
      \/ (debug /\ Succeeds(p, GiveUp(proc[p]))) \/ Succeeds(p, s)
  BY DEF CloseMux
<1>5. QED
  BY <1>2, <1>3, <1>4, SucceedsSameGuard, SucceedsGiveUp

LEMMA FreeBoardKeeps ==
    ASSUME OwnerInv, NEW p \in Procs, FreeBoard(p)
    PROVE  OwnerInv'
<1> DEFINE f == FreeConfig(FreeFlash(proc[p]))
           s == [Drop(f, BoardMemory, "idle") EXCEPT !.ports = <<>>, !.k = 0]
<1>1. ProcShape(proc[p])
  BY ProcFacts
<1>2. /\ ProcShape(f) /\ f.leaked = proc[p].leaked /\ f.failed = proc[p].failed
      /\ \A r \in {Lock, Map} : r \in f.held <=> r \in proc[p].held
  BY <1>1, UnrelatedResources DEF FreeConfig, FreeFlash, Free, Unrelated, ProcShape, Fields
<1>3. SameGuard(s, proc[p])
  <2> HIDE DEF f
  <2>1. QED
    BY <1>2, UnrelatedResources DEF Drop, Goto, Free, Unrelated, SameGuard, ProcShape, Fields
<1>4. Succeeds(p, s)
  BY DEF FreeBoard
<1>5. QED
  BY <1>3, <1>4, SucceedsSameGuard

LEMMA FreshIsGuarded ==
    ProcShape(Fresh) /\ (\A d : MapGuarded(d, Fresh)) /\ ~HasLock(Fresh)
BY DEF Fresh, ProcShape, Fields, MapGuarded, HasLock

\* The kernel takes the lock and the mapping back together.
LEMMA DiesKeeps ==
    ASSUME OwnerInv, NEW p \in Procs, Dies(p)
    PROVE  OwnerInv'
BY FreshIsGuarded, ProcStep DEF Dies, Goes

-----------------------------------------------------------------------------
\* In every history of boards that are created, used and destroyed by any number
\* of processes, with any devices failing and any process dying at any time, two
\* processes have the GPIO registers mapped at once only in a release build that
\* went on after flock had failed (kraken_gpio_port.c 58-64).
THEOREM BoardRegistersHaveOneOwner == Spec => []RegistersHaveOneOwner
<1>1. Init => OwnerInv
  BY FreshIsGuarded, BoardAssumption DEF Init, OwnerInv
<1>2. OwnerInv /\ [Next]_vars => OwnerInv'
  <2> SUFFICES ASSUME OwnerInv, [Next]_vars PROVE OwnerInv'
    OBVIOUS
  <2>1. CASE UNCHANGED vars
    BY <2>1 DEF vars, OwnerInv
  <2>2. CASE Next
    <3>1. PICK p \in Procs :
            \/ \E cfg \in Configs : CreateBoard(p, cfg)
            \/ \E type \in {"GPIO", "I2C"}, max \in 1..Len(proc[p].ports) : CollectPorts(p, type, max)
            \/ CreateStep(p) \/ FindPort(p) \/ UsePort(p) \/ DestroyBoard(p) \/ DestroyStep(p)
            \/ Dies(p)
      BY <2>2 DEF Next, Crash, Exit, Kill
    <3>2. CASE CreateStep(p)
      BY <3>2, CheckCompatibilityKeeps, OpenGpioKeeps, LockGpioKeeps, LockFailsKeeps, MapGpioKeeps,
         MuxKeeps, FlashKeeps DEF CreateStep
    <3>3. CASE DestroyStep(p)
      BY <3>3, UnmapGpioKeeps, UnlockGpioKeeps, CloseGpioKeeps, CloseMuxKeeps, FreeBoardKeeps
         DEF DestroyStep
    <3>4. QED
      BY <3>1, <3>2, <3>3, CreateBoardKeeps, UseKeeps, DestroyBoardKeeps, DiesKeeps
  <2>3. QED
    BY <2>1, <2>2
<1>3. OwnerInv => RegistersHaveOneOwner
  <2> SUFFICES ASSUME OwnerInv, NEW p \in Procs, NEW q \in Procs, p # q, Mapped(p), Mapped(q)
               PROVE  ~debug /\ "flock" \in proc[p].failed \cup proc[q].failed
    BY DEF RegistersHaveOneOwner
  <2>1. \A u \in {p, q} : HasLock(proc[u]) \/ LetThrough(debug, proc[u])
    BY DEF Mapped, OwnerInv, MapGuarded, HasLock, Map
  <2>2. QED
    BY <2>1 DEF OwnerInv, LetThrough
<1>4. QED
  BY <1>1, <1>2, <1>3, PTL DEF Spec
-----------------------------------------------------------------------------
(* What a board has, and why it can be lost.  No process touches another's  *)
(* board, so the invariant is of one process's state.                       *)

FlashMemory == {R("flash"), R("flashFd")}
BaseMemory  == BoardConfig \cup BoardMemory \cup FlashMemory
Making == {"compat", "open", "flock", "map"}
Made   == {"mux", "bus", "slave", "flash", "info", "ready", "unmap", "unlock", "close", "closeMux",
           "free"}

\* What of the GPIO port belongs to a board at each location, once its address
\* is stored only if that is not null.
GpioAt(s) ==
    CASE s.pc = "open"   -> {R("port")}
      [] s.pc = "flock"  -> {R("port"), Fd}
      [] s.pc = "map"    -> {R("port"), Fd, Lock}
      [] s.pc = "unlock" -> PortMemory \cup {Fd, Lock}
      [] s.pc = "close"  -> PortMemory \cup {Fd}
      [] s.pc \in Made \ {"unlock", "close", "closeMux", "free"} ->
            IF s.ports[1] THEN PortMemory \cup {Fd, Lock, Map} ELSE {}
      [] OTHER -> {}

\* Multiplexer j is being created, or it is port j + 1 and destroy has not come
\* to it.
MuxOwned(s, j) ==
    \/ s.pc \in {"bus", "slave"} /\ j = Len(s.ports)
    \/ /\ s.pc \in Made \ {"free"} /\ j \in 1..(Len(s.ports) - 1) /\ s.ports[j + 1]
       /\ s.pc = "closeMux" => s.k <= j + 1

Belongs(s, r) ==
    \/ r \in BaseMemory
    \/ r \in GpioAt(s)
    \/ \E j \in 1..Len(s.ports) : r \in MuxResources(j) /\ MuxOwned(s, j)

\* Where the process is, and its board with it.
Located(s) ==
    /\ ProcShape(s)
    /\ s.pc \in Making \cup Made \cup {"idle", "lost"}
    /\ s.cfg \in ConfigType /\ s.ports \in Seq(BOOLEAN) /\ s.k \in Nat
    /\ s.pc \in Making \cup {"idle"} => s.ports = <<>>
    /\ s.pc \in Made => Len(s.ports) >= 1 /\ Len(s.ports) <= Len(s.cfg.muxes) + 1
    /\ s.pc \in {"unmap", "unlock", "close"} => s.ports[1]
    /\ s.pc = "closeMux" => s.k >= 2
    /\ s.pc \in {"bus", "slave"} =>
          Len(s.ports) <= Len(s.cfg.muxes) /\ s.cfg.muxes[Len(s.ports)] = "I2C"

Owned(s) ==
    /\ s.pc = "idle" => s.held = {}
    /\ s.pc # "lost" => \A r \in s.held : Belongs(s, r)

\* What is missing is missing for a reason.
MissingExplained(d, s) ==
    /\ s.pc \in {"flock", "map"} /\ Fd \notin s.held => ~d /\ s.failed # {}
    /\ s.pc \in Made => /\ ~s.ports[1] => s.failed # {}
                        /\ \A n \in 2..Len(s.ports) :
                              IF s.ports[n] THEN s.cfg.muxes[n - 1] = "I2C"
                              ELSE s.cfg.muxes[n - 1] = "SPI" \/ s.failed # {}
    /\ s.pc \in Made \ {"unlock", "close", "closeMux", "free"} /\ s.ports[1] /\ Map \notin s.held =>
          s.failed # {} /\ (d => "mmap" \in s.failed)

LeakExplained(d, s) ==
    /\ s.leaked # {} => d
    /\ Lock \in s.leaked => s.failed \cap {"mmap", "flash", "info"} # {}
    /\ Fd \in s.leaked => s.failed \cap {"flock", "mmap", "flash", "info"} # {}
    /\ s.failed = {} => \A r \in s.leaked :
           r \in BaseMemory \/ r[1] \in {"mux", "bus"}

Crashes(d, s) ==
    \/ \E n \in 1..Len(s.cfg.muxes) : s.cfg.muxes[n] = "SPI" \/ (s.cfg.muxes[n] = "I2C" /\ ~d)
    \/ s.failed # {}

Kept(d, s) ==
    /\ Located(s) /\ Owned(s) /\ MissingExplained(d, s) /\ LeakExplained(d, s)
    /\ s.pc = "lost" => Crashes(d, s)

BoardInv ==
    /\ debug \in BOOLEAN
    /\ proc = [p \in Procs |-> proc[p]]
    /\ \A p \in Procs : Kept(debug, proc[p])

-----------------------------------------------------------------------------
\* What a port that failed and one that did not leave in board->ports.
Null   == FALSE
Stored == TRUE

\* The fields of the states calls go on with.
Same(t, s) == ProcShape(t) /\ t.cfg = s.cfg /\ t.k = s.k

LEMMA GoingFields ==
    ASSUME NEW s, ProcShape(s), NEW rs, NEW pc, NEW t,
           t \in {Goto(s, pc), Gain(s, rs, pc), Drop(s, rs, pc)}
    PROVE  /\ Same(t, s) /\ t.pc = pc /\ t.ports = s.ports
           /\ t.leaked = s.leaked /\ t.failed = s.failed
           /\ t = Goto(s, pc) => t.held = s.held
           /\ t = Gain(s, rs, pc) => t.held = s.held \cup rs
           /\ t = Drop(s, rs, pc) => t.held = s.held \ rs
BY DEF Goto, Gain, Drop, Take, Free, Same, ProcShape, Fields

LEMMA GotoFields ==
    ASSUME NEW s, ProcShape(s), NEW pc
    PROVE  LET t == Goto(s, pc)
           IN  /\ Same(t, s) /\ t.pc = pc /\ t.ports = s.ports /\ t.leaked = s.leaked
               /\ t.failed = s.failed /\ t.held = s.held
BY DEF Goto, Same, ProcShape, Fields

LEMMA DropFields ==
    ASSUME NEW s, ProcShape(s), NEW rs, NEW pc
    PROVE  LET t == Drop(s, rs, pc)
           IN  /\ Same(t, s) /\ t.pc = pc /\ t.ports = s.ports /\ t.leaked = s.leaked
               /\ t.failed = s.failed /\ t.held = s.held \ rs
BY DEF Drop, Free, Goto, Same, ProcShape, Fields

LEMMA AddPortFields ==
    ASSUME NEW s, ProcShape(s), NEW port
    PROVE  LET t == AddPort(s, port)
           IN  /\ Same(t, s) /\ t.pc = "mux" /\ t.ports = Append(s.ports, port)
               /\ t.held = s.held /\ t.leaked = s.leaked /\ t.failed = s.failed
BY DEF AddPort, Same, ProcShape, Fields

LEMMA NoPortFields ==
    ASSUME NEW s, ProcShape(s), NEW rs
    PROVE  LET t == NoPort(s, rs)
           IN  /\ Same(t, s) /\ t.pc = "mux" /\ t.ports = Append(s.ports, Null)
               /\ t.held = s.held \ rs /\ t.leaked = s.leaked \cup (s.held \cap rs)
               /\ t.failed = s.failed
<1> DEFINE u == [s EXCEPT !.held = @ \ rs, !.leaked = @ \cup (s.held \cap rs)]
<1>1. /\ Same(u, s) /\ u.ports = s.ports /\ u.held = s.held \ rs
      /\ u.leaked = s.leaked \cup (s.held \cap rs) /\ u.failed = s.failed
  BY DEF Same, ProcShape, Fields
<1>2. NoPort(s, rs) = AddPort(u, FALSE)
  BY DEF NoPort
<1> HIDE DEF u
<1>3. QED
  BY <1>1, <1>2 DEF AddPort, Same, ProcShape, Fields, Null

LEMMA GiveUpFields ==
    ASSUME NEW s, ProcShape(s)
    PROVE  LET t == GiveUp(s)
           IN  /\ ProcShape(t) /\ t.cfg = s.cfg /\ t.k = 0 /\ t.pc = "idle" /\ t.ports = <<>>
               /\ t.held = {} /\ t.leaked = s.leaked \cup s.held /\ t.failed = s.failed
BY DEF GiveUp, ProcShape, Fields

\* A device failed on the way to s.
Failed(s, device) == [s EXCEPT !.failed = @ \cup {device}]

LEMMA FailedFields ==
    ASSUME NEW s, ProcShape(s), NEW device
    PROVE  LET t == Failed(s, device)
           IN  /\ Same(t, s) /\ t.pc = s.pc /\ t.ports = s.ports /\ t.held = s.held
               /\ t.leaked = s.leaked /\ t.failed = s.failed \cup {device}
BY DEF Failed, Same, ProcShape, Fields

\* A step of one process to a state that keeps its part of the invariant.
LEMMA KeptStep ==
    ASSUME BoardInv, NEW p \in Procs, NEW s, Kept(debug, s),
           proc' = [proc EXCEPT ![p] = s], UNCHANGED debug
    PROVE  BoardInv'
BY DEF BoardInv

LEMMA SucceedsKept ==
    ASSUME BoardInv, NEW p \in Procs, NEW s, Kept(debug, s), Succeeds(p, s)
    PROVE  BoardInv'
BY KeptStep DEF Succeeds, Goes

LEMMA FailsKept ==
    ASSUME BoardInv, NEW p \in Procs, NEW s, NEW device, Kept(debug, Failed(s, device)),
           Fails(p, device, s)
    PROVE  BoardInv'
BY KeptStep DEF Fails, Goes, Failed

\* More leaks keep leaks explained if they are explained, in a debug build.
LEMMA LeakGrows ==
    ASSUME NEW d, NEW s, NEW t, NEW rs, LeakExplained(d, s),
           t.leaked = s.leaked \cup rs, s.failed \subseteq t.failed,
           rs # {} => d,
           Lock \in rs => t.failed \cap {"mmap", "flash", "info"} # {},
           Fd \in rs => t.failed \cap {"flock", "mmap", "flash", "info"} # {},
           t.failed = {} => \A r \in rs :
               r \in BaseMemory \/ r[1] \in {"mux", "bus"}
    PROVE  LeakExplained(d, t)
BY DEF LeakExplained

LEMMA SameLeaks ==
    ASSUME NEW d, NEW s, NEW t, LeakExplained(d, s), t.leaked = s.leaked, s.failed \subseteq t.failed
    PROVE  LeakExplained(d, t)
BY DEF LeakExplained

\* What belongs to a board, told apart by name.
LEMMA MuxNames ==
    /\ \A j, r : r \in MuxResources(j) => r[1] \in {"mux", "bus"}
    /\ \A j : /\ Lock \notin MuxResources(j) /\ Fd \notin MuxResources(j) /\ Map \notin MuxResources(j)
              /\ R("port") \notin MuxResources(j)
    /\ \A i, j : i # j => MuxResources(i) \cap MuxResources(j) = {}
    /\ Lock \notin BaseMemory /\ Map \notin BaseMemory /\ Fd \notin BaseMemory
    /\ R("port") \notin BaseMemory
    /\ Fd \notin PortMemory /\ Lock \notin PortMemory /\ Map \notin PortMemory
    /\ Lock # Fd /\ Map # Fd /\ Lock # Map
    /\ Lock # R("port") /\ Fd # R("port")
BY DEF MuxResources, Lock, Fd, Map, R, BaseMemory, BoardConfig, BoardMemory, FlashMemory, PortMemory

\* What of the GPIO port belongs to a board, where that is fixed.
LEMMA GpioParts ==
    ASSUME NEW s
    PROVE  /\ s.pc = "compat" => GpioAt(s) = {}
           /\ s.pc = "open" => GpioAt(s) = {R("port")}
           /\ s.pc = "flock" => GpioAt(s) = {R("port"), Fd}
           /\ s.pc = "map" => GpioAt(s) = {R("port"), Fd, Lock}
           /\ s.pc = "unlock" => GpioAt(s) = PortMemory \cup {Fd, Lock}
           /\ s.pc = "close" => GpioAt(s) = PortMemory \cup {Fd}
           /\ s.pc \in {"closeMux", "free"} => GpioAt(s) = {}
BY DEF GpioAt, Made

\* Before the GPIO port is stored a board has no multiplexers.
LEMMA MakingOwns ==
    ASSUME NEW s, Located(s), Owned(s), s.pc \in Making
    PROVE  s.held \subseteq BaseMemory \cup GpioAt(s)
BY DEF Owned, Located, Belongs, MuxOwned, Making, Made

\* A board that is being made, with nothing but its memory and the port's.
LEMMA MakingKept ==
    ASSUME NEW d \in BOOLEAN, NEW s, Kept(d, s), s.pc \in Making, NEW t, Same(t, s),
           t.pc \in Making, t.ports = s.ports, t.leaked = s.leaked, s.failed \subseteq t.failed,
           t.held \subseteq BaseMemory \cup GpioAt(t),
           t.pc \in {"flock", "map"} /\ Fd \notin t.held => ~d /\ t.failed # {}
    PROVE  Kept(d, t)
<1>1. Located(t)
  BY DEF Kept, Located, Same, Making, Made
<1>2. Owned(t)
  BY DEF Owned, Belongs, Making
<1>3. MissingExplained(d, t)
  BY DEF MissingExplained, Making, Made
<1>4. LeakExplained(d, t)
  BY SameLeaks DEF Kept
<1>5. QED
  BY <1>1, <1>2, <1>3, <1>4 DEF Kept, Making

\* The sequence of ports after one was added.
LEMMA PortAppended ==
    ASSUME NEW ports \in Seq(BOOLEAN), NEW b \in BOOLEAN
    PROVE  LET q == Append(ports, b)
           IN  /\ q \in Seq(BOOLEAN) /\ Len(q) = Len(ports) + 1 /\ q[Len(ports) + 1] = b
               /\ \A j \in 1..Len(ports) : q[j] = ports[j]
               /\ Len(ports) \in Nat
OBVIOUS

\* The GPIO port of a debug build failed: its address is null, and of what it
\* had nothing is left.
LEMMA NoGpioKept ==
    ASSUME NEW d \in BOOLEAN, NEW s, Kept(d, s), s.pc \in Making, NEW t, Same(t, s),
           t.pc = "mux", t.ports = Append(s.ports, Null), t.held \subseteq s.held \ GpioAt(s),
           t.failed # {}, LeakExplained(d, t)
    PROVE  Kept(d, t)
<1>1. t.ports \in Seq(BOOLEAN) /\ Len(t.ports) = 1 /\ ~t.ports[1] /\ Len(t.cfg.muxes) \in Nat
  BY PortAppended DEF Kept, Located, Same, Making, ConfigType, Null
<1>2. Located(t)
  BY <1>1 DEF Kept, Located, Same, Making, Made
<1>3. Owned(t)
  BY MakingOwns DEF Kept, Owned, Belongs
<1>4. MissingExplained(d, t)
  BY <1>1 DEF MissingExplained, Made
<1>5. QED
  BY <1>2, <1>3, <1>4 DEF Kept

\* A multiplexer's port is stored, or its null address.
LEMMA MuxStored ==
    ASSUME NEW d \in BOOLEAN, NEW s, Kept(d, s), s.pc \in {"mux", "bus", "slave"},
           Len(s.ports) <= Len(s.cfg.muxes),
           NEW b \in BOOLEAN, NEW t, Same(t, s), t.pc = "mux", t.ports = Append(s.ports, b),
           t.held \subseteq s.held, s.failed \subseteq t.failed, LeakExplained(d, t),
           Map \in s.held => Map \in t.held,
           b => s.pc # "mux",
           ~b => \/ s.pc = "mux" /\ s.cfg.muxes[Len(s.ports)] = "SPI"
                 \/ t.held \cap MuxResources(Len(s.ports)) = {} /\ t.failed # {}
    PROVE  Kept(d, t)
<1> DEFINE n == Len(s.ports)
<1>1. /\ t.ports \in Seq(BOOLEAN) /\ n \in Nat /\ n >= 1 /\ Len(t.ports) = n + 1 /\ t.ports[n + 1] = b
      /\ \A j \in 1..n : t.ports[j] = s.ports[j]
      /\ t.ports[1] = s.ports[1]
  BY PortAppended DEF Kept, Located, Made
<1>2. t.cfg = s.cfg /\ Len(s.cfg.muxes) \in Nat
  BY DEF Same, Kept, Located, ConfigType
<1>3. Located(t)
  BY <1>1, <1>2 DEF Kept, Located, Same, Making, Made
<1>4. ASSUME NEW r \in t.held PROVE Belongs(t, r)
  <2>1. Belongs(s, r)
    BY <1>4 DEF Kept, Owned
  <2>2. CASE r \in BaseMemory
    BY <2>2 DEF Belongs
  <2>3. CASE r \in GpioAt(s)
    <3>1. GpioAt(t) = GpioAt(s)
      BY <1>1 DEF GpioAt, Made
    <3>2. QED
      BY <2>3, <3>1 DEF Belongs
  <2>4. CASE \E j \in 1..n : r \in MuxResources(j) /\ MuxOwned(s, j)
    <3>1. PICK j \in 1..n : r \in MuxResources(j) /\ MuxOwned(s, j)
      BY <2>4
    <3>2. CASE s.pc # "mux" /\ j = n
      <4>1. b
        BY <1>4, <3>1, <3>2
      <4>2. MuxOwned(t, j) /\ j \in 1..Len(t.ports)
        BY <1>1, <3>2, <4>1 DEF MuxOwned, Made
      <4>3. QED
        BY <3>1, <4>2 DEF Belongs
    <3>3. CASE j \in 1..(n - 1) /\ s.ports[j + 1]
      <4>1. MuxOwned(t, j) /\ j \in 1..Len(t.ports)
        BY <1>1, <3>3 DEF MuxOwned, Made
      <4>2. QED
        BY <3>1, <4>1 DEF Belongs
    <3>4. QED
      BY <3>1, <3>2, <3>3 DEF MuxOwned
  <2>5. QED
    BY <2>1, <2>2, <2>3, <2>4 DEF Belongs
<1>5. Owned(t)
  BY <1>4 DEF Owned
<1>6. MissingExplained(d, t)
  <2>1. ASSUME NEW m \in 2..Len(t.ports)
        PROVE  IF t.ports[m] THEN t.cfg.muxes[m - 1] = "I2C"
               ELSE t.cfg.muxes[m - 1] = "SPI" \/ t.failed # {}
    <3>1. CASE m = n + 1
      BY <1>1, <1>2, <3>1 DEF Kept, Located
    <3>2. CASE m # n + 1
      <4>1. m \in 2..n
        BY <1>1, <3>2
      <4>2. QED
        BY <1>1, <1>2, <4>1 DEF Kept, MissingExplained, Made
    <3>3. QED
      BY <3>1, <3>2
  <2>2. (~t.ports[1] => t.failed # {})
        /\ (t.ports[1] /\ Map \notin t.held => t.failed # {} /\ (d => "mmap" \in t.failed))
    BY <1>1 DEF Kept, MissingExplained, Made
  <2>3. QED
    BY <2>1, <2>2 DEF MissingExplained, Made
<1>7. QED
  BY <1>3, <1>5, <1>6 DEF Kept

\* With the ports as they are, create goes on, and may have more memory.
LEMMA MadeKept ==
    ASSUME NEW d \in BOOLEAN, NEW s, Kept(d, s), s.pc \in {"mux", "bus", "flash", "info", "ready"},
           NEW t, Same(t, s), t.ports = s.ports, t.leaked = s.leaked, s.failed \subseteq t.failed,
           NEW rs, t.held = s.held \cup rs,
           \/ /\ s.pc # "bus" /\ t.pc \in {"flash", "info", "ready", "unmap"} /\ rs \subseteq BaseMemory
              /\ t.pc = "unmap" => s.ports[1]
           \/ /\ t.pc \in {"bus", "slave"} /\ rs \subseteq MuxResources(Len(s.ports))
              /\ Len(s.ports) <= Len(s.cfg.muxes) /\ s.cfg.muxes[Len(s.ports)] = "I2C"
    PROVE  Kept(d, t)
<1> DEFINE n == Len(s.ports)
<1>1. n \in Nat /\ n >= 1 /\ t.cfg = s.cfg
  BY DEF Kept, Located, Made, Same
<1>2. Located(t)
  BY DEF Kept, Located, Same, Making, Made
<1>3. GpioAt(t) = GpioAt(s)
  BY DEF GpioAt, Made
<1>4. ASSUME NEW r \in t.held PROVE Belongs(t, r)
  <2>1. CASE r \in rs
    <3>1. CASE rs \subseteq BaseMemory
      BY <2>1, <3>1 DEF Belongs
    <3>2. CASE t.pc \in {"bus", "slave"} /\ rs \subseteq MuxResources(n)
      <4>1. MuxOwned(t, n) /\ n \in 1..Len(t.ports)
        BY <1>1, <3>2 DEF MuxOwned
      <4>2. QED
        BY <2>1, <3>2, <4>1 DEF Belongs
    <3>3. QED
      BY <3>1, <3>2
  <2>2. CASE Belongs(s, r)
    <3>1. CASE \E j \in 1..n : r \in MuxResources(j) /\ MuxOwned(s, j)
      <4>1. PICK j \in 1..n : r \in MuxResources(j) /\ MuxOwned(s, j)
        BY <3>1
      <4>2. MuxOwned(t, j)
        BY <4>1 DEF MuxOwned, Made
      <4>3. QED
        BY <4>1, <4>2 DEF Belongs
    <3>2. QED
      BY <1>3, <2>2, <3>1 DEF Belongs
  <2>3. QED
    BY <2>1, <2>2 DEF Kept, Owned
<1>5. Owned(t)
  BY <1>4 DEF Owned
<1>6. MissingExplained(d, t)
  BY <1>1 DEF Kept, MissingExplained, Made
<1>7. LeakExplained(d, t)
  BY SameLeaks DEF Kept
<1>8. QED
  BY <1>2, <1>5, <1>6, <1>7 DEF Kept

\* A process without a board has nothing to be kept but its leaks.
LEMMA NoBoardKept ==
    ASSUME NEW d \in BOOLEAN, NEW t, ProcShape(t), t.cfg \in ConfigType, t.k \in Nat, t.pc = "idle",
           t.ports = <<>>, t.held = {}, LeakExplained(d, t)
    PROVE  Kept(d, t)
BY DEF Kept, Located, Owned, MissingExplained, Making, Made

\* A process that is about to go down.
LEMMA LostKept ==
    ASSUME NEW d \in BOOLEAN, NEW s, Kept(d, s), Crashes(d, s)
    PROVE  Kept(d, Goto(s, "lost"))
<1> DEFINE t == Goto(s, "lost")
<1>1. ProcShape(s)
  BY DEF Kept, Located
<1>2. /\ Same(t, s) /\ t.pc = "lost" /\ t.ports = s.ports /\ t.held = s.held /\ t.leaked = s.leaked
      /\ t.failed = s.failed
  BY <1>1, GoingFields
<1> HIDE DEF t
<1>3. Located(t) /\ Owned(t) /\ MissingExplained(d, t) /\ LeakExplained(d, t)
  BY <1>2, SameLeaks DEF Kept, Located, Same, Owned, MissingExplained, Making, Made
<1>4. Crashes(d, t)
  BY <1>2 DEF Crashes, Same
<1>5. QED
  BY <1>3, <1>4 DEF Kept, t

-----------------------------------------------------------------------------
LEMMA KeptFacts ==
    ASSUME BoardInv, NEW p \in Procs
    PROVE  /\ Kept(debug, proc[p]) /\ debug \in BOOLEAN /\ ProcShape(proc[p])
           /\ Located(proc[p]) /\ Owned(proc[p]) /\ MissingExplained(debug, proc[p])
           /\ LeakExplained(debug, proc[p])
BY DEF BoardInv, Kept, Located

\* A configuration that is copied makes a board; one that is not is lost.
LEMMA CreateBoardOwns ==
    ASSUME BoardInv, NEW p \in Procs, NEW cfg \in ConfigType, CreateBoard(p, cfg)
    PROVE  BoardInv'
<1> DEFINE b == Take([proc[p] EXCEPT !.cfg = cfg], {R("board")})
           lost == Take(b, BoardConfig \ {R("muxConfigs")})
           done == Take(b, BoardConfig)
           on == Gain(done, {R("ports")}, "compat")
<1>1. ProcShape(proc[p]) /\ proc[p].pc = "idle" /\ proc[p].held = {} /\ proc[p].ports = <<>>
      /\ proc[p].k \in Nat /\ LeakExplained(debug, proc[p])
  BY KeptFacts DEF CreateBoard, At, Located, Owned, Making
<1>2. /\ ProcShape(b) /\ b.cfg = cfg /\ b.pc = "idle" /\ b.ports = <<>> /\ b.k \in Nat
      /\ b.held = {R("board")} /\ b.leaked = proc[p].leaked /\ b.failed = proc[p].failed
  BY <1>1 DEF Take, ProcShape, Fields
<1> HIDE DEF b
<1>3. UNCHANGED debug
  BY DEF CreateBoard
<1>4. CASE GpioConfigCopied(cfg)
  <2>1. proc' = [proc EXCEPT ![p] = on]
    BY <1>4 DEF CreateBoard, CopyConfig, b
  <2>2. /\ ProcShape(on) /\ on.cfg = cfg /\ on.pc = "compat" /\ on.ports = <<>> /\ on.k \in Nat
        /\ on.held = {R("board")} \cup BoardConfig \cup {R("ports")}
        /\ on.leaked = proc[p].leaked /\ on.failed = proc[p].failed
    BY <1>2 DEF Gain, Goto, Take, ProcShape, Fields
  <2> HIDE DEF on
  <2>3. Located(on)
    BY <2>2 DEF Located, Making, Made
  <2>4. Owned(on)
    BY <2>2 DEF Owned, Belongs, BaseMemory, BoardMemory
  <2>5. MissingExplained(debug, on) /\ LeakExplained(debug, on)
    BY <1>1, <2>2, SameLeaks DEF MissingExplained, Made
  <2>6. Kept(debug, on)
    BY <2>2, <2>3, <2>4, <2>5 DEF Kept
  <2>7. QED
    BY <1>3, <2>1, <2>6, KeptStep
<1>5. CASE ~GpioConfigCopied(cfg)
  <2> DEFINE t == GiveUp(lost)
  <2>1. proc' = [proc EXCEPT ![p] = t] /\ debug
    BY <1>5, KeptFacts DEF CreateBoard, CopyConfig, GpioConfigCopied, b
  <2>2. /\ ProcShape(lost) /\ lost.cfg = cfg /\ lost.leaked = proc[p].leaked
        /\ lost.held = {R("board")} \cup (BoardConfig \ {R("muxConfigs")})
        /\ lost.failed = proc[p].failed
    BY <1>2 DEF Take, ProcShape, Fields
  <2> HIDE DEF lost
  <2>3. /\ ProcShape(t) /\ t.cfg = cfg /\ t.k = 0 /\ t.pc = "idle" /\ t.ports = <<>>
        /\ t.held = {} /\ t.leaked = proc[p].leaked \cup lost.held /\ t.failed = proc[p].failed
    BY <2>2, GiveUpFields
  <2> HIDE DEF t
  <2>4. \A r \in lost.held : r \in BaseMemory /\ r # Lock /\ r # Fd
    BY <2>2, MuxNames DEF BaseMemory, BoardMemory
  <2>5. LeakExplained(debug, t)
    BY <1>1, <2>1, <2>3, <2>4, LeakGrows
  <2>6. Kept(debug, t)
    BY <2>3, <2>5, NoBoardKept, KeptFacts
  <2>7. QED
    BY <1>3, <2>1, <2>6, KeptStep
<1>6. QED
  BY <1>4, <1>5

\* The device tree is read first: where that fails, a debug build has no port.
LEMMA CheckCompatibilityOwns ==
    ASSUME BoardInv, NEW p \in Procs, CheckCompatibility(p)
    PROVE  BoardInv'
<1> DEFINE s == proc[p]
           on == Gain(s, {R("port")}, "open")
           n == NoPort(s, {})
           No(rs) == [n EXCEPT !.leaked = @ \cup rs]
<1>1. Kept(debug, s) /\ ProcShape(s) /\ s.pc = "compat" /\ debug \in BOOLEAN
  BY KeptFacts DEF CheckCompatibility, At
<1>2. Kept(debug, on) /\ Kept(debug, Failed(on, "dte"))
  <2>1. /\ Same(on, s) /\ on.pc = "open" /\ on.ports = s.ports /\ on.leaked = s.leaked
        /\ on.failed = s.failed /\ on.held = s.held \cup {R("port")}
    BY <1>1, GoingFields
  <2> HIDE DEF on
  <2>2. /\ s.pc \in Making /\ on.pc \in Making
        /\ GpioAt(s) = {} /\ GpioAt(on) = {R("port")}
    BY <1>1, <2>1, GpioParts DEF Making
  <2>3. s.held \subseteq BaseMemory
    BY <1>1, <2>2, MakingOwns DEF Kept
  <2>4. Kept(debug, on)
    BY <1>1, <2>1, <2>2, <2>3, MakingKept
  <2> DEFINE f == Failed(on, "dte")
  <2>5. /\ Same(f, s) /\ f.pc = on.pc /\ f.pc = "open" /\ f.ports = s.ports /\ f.leaked = s.leaked
        /\ f.held = s.held \cup {R("port")} /\ s.failed \subseteq f.failed
    BY <2>1, FailedFields DEF Same
  <2> HIDE DEF f
  <2>6. GpioAt(f) = {R("port")}
    BY <2>5, GpioParts
  <2>7. Kept(debug, f)
    BY <1>1, <2>2, <2>3, <2>5, <2>6, MakingKept
  <2>8. QED
    BY <2>4, <2>7 DEF f
<1>3. ASSUME debug, NEW rs \in DteLeaks PROVE Kept(debug, Failed(No(rs), "dte"))
  <2> DEFINE t == Failed(No(rs), "dte")
  <2>1. /\ Same(n, s) /\ n.pc = "mux" /\ n.ports = Append(s.ports, Null) /\ n.held = s.held
        /\ n.leaked = s.leaked /\ n.failed = s.failed
    <3>1. /\ Same(n, s) /\ n.pc = "mux" /\ n.ports = Append(s.ports, Null)
          /\ n.held = s.held \ {} /\ n.leaked = s.leaked \cup (s.held \cap {})
          /\ n.failed = s.failed
      BY <1>1, NoPortFields
    <3> HIDE DEF n
    <3>2. QED
      BY <3>1
  <2> HIDE DEF n
  <2>2. /\ Same(No(rs), s) /\ No(rs).pc = "mux" /\ No(rs).ports = n.ports /\ No(rs).held = s.held
        /\ No(rs).leaked = s.leaked \cup rs /\ No(rs).failed = s.failed
    BY <2>1 DEF Same, ProcShape, Fields
  <2> HIDE DEF No
  <2>3. /\ Same(t, s) /\ t.pc = "mux" /\ t.ports = Append(s.ports, Null) /\ t.held = s.held
        /\ t.leaked = s.leaked \cup rs /\ t.failed = s.failed \cup {"dte"}
    <3>1. /\ Same(t, No(rs)) /\ t.pc = "mux" /\ t.ports = No(rs).ports /\ t.held = No(rs).held
          /\ t.leaked = No(rs).leaked /\ t.failed = No(rs).failed \cup {"dte"}
      BY <2>2, FailedFields DEF Same
    <3> HIDE DEF t
    <3>2. QED
      BY <2>1, <2>2, <3>1 DEF Same
  <2> HIDE DEF t
  <2>4. Lock \notin rs /\ Fd \notin rs
    BY DEF DteLeaks, Lock, Fd, R
  <2>5. LeakExplained(debug, t)
    BY <1>1, <1>3, <2>3, <2>4, LeakGrows, ZenonT(60) DEF Kept
  <2>6. GpioAt(s) = {}
    BY <1>1, GpioParts
  <2>7. QED
    BY <1>1, <2>3, <2>5, <2>6, NoGpioKept DEF Making, t
<1>4. \/ Succeeds(p, on)
      \/ debug /\ \E rs \in DteLeaks : Fails(p, "dte", No(rs))
      \/ Fails(p, "dte", on)
  BY <1>1 DEF CheckCompatibility, Checked
<1> HIDE DEF on, No
<1>5. QED
  BY <1>2, <1>3, <1>4, SucceedsKept, FailsKept

\* Going on towards the mapping, with or without another resource.
LEMMA MakingGoes ==
    ASSUME NEW d \in BOOLEAN, NEW s, Kept(d, s), s.pc \in Making, NEW t, Same(t, s),
           t.pc \in Making, t.ports = s.ports, t.leaked = s.leaked, s.failed \subseteq t.failed,
           NEW rs, t.held = s.held \cup rs, GpioAt(s) \cup rs \subseteq GpioAt(t),
           t.pc \in {"flock", "map"} /\ Fd \notin t.held => ~d /\ t.failed # {}
    PROVE  Kept(d, t)
<1>1. s.held \subseteq BaseMemory \cup GpioAt(s)
  BY MakingOwns DEF Kept
<1>2. t.held \subseteq BaseMemory \cup GpioAt(t)
  BY <1>1
<1>3. QED
  BY <1>2, MakingKept

\* The state after a device failed and its port was given up.
LEMMA FailedNoPort ==
    ASSUME NEW s, ProcShape(s), NEW rs, NEW device
    PROVE  LET t == Failed(NoPort(s, rs), device)
           IN  /\ Same(t, s) /\ t.pc = "mux" /\ t.ports = Append(s.ports, Null)
               /\ t.held = s.held \ rs /\ t.leaked = s.leaked \cup (s.held \cap rs)
               /\ t.failed = s.failed \cup {device}
<1> DEFINE n == NoPort(s, rs)
           t == Failed(n, device)
<1>1. /\ Same(n, s) /\ n.pc = "mux" /\ n.ports = Append(s.ports, Null) /\ n.held = s.held \ rs
      /\ n.leaked = s.leaked \cup (s.held \cap rs) /\ n.failed = s.failed
  BY NoPortFields
<1> HIDE DEF n
<1>2. /\ Same(t, n) /\ t.pc = n.pc /\ t.ports = n.ports /\ t.held = n.held
      /\ t.leaked = n.leaked /\ t.failed = n.failed \cup {device}
  BY <1>1, FailedFields DEF Same
<1> HIDE DEF t
<1>3. QED
  BY <1>1, <1>2 DEF t, n, Same

\* A debug build without the device, or without its lock, has no GPIO port.
LEMMA NoGpioFails ==
    ASSUME NEW d \in BOOLEAN, d, NEW s, Kept(d, s), s.pc \in Making, NEW rs, NEW device,
           GpioAt(s) \subseteq rs, Lock \notin rs, Fd \in rs => device = "flock"
    PROVE  Kept(d, Failed(NoPort(s, rs), device))
<1> DEFINE t == Failed(NoPort(s, rs), device)
<1>1. ProcShape(s) /\ LeakExplained(d, s)
  BY DEF Kept, Located
<1>2. /\ Same(t, s) /\ t.pc = "mux" /\ t.ports = Append(s.ports, Null)
      /\ t.held = s.held \ rs /\ t.leaked = s.leaked \cup (s.held \cap rs)
      /\ t.failed = s.failed \cup {device}
  BY <1>1, FailedNoPort
<1> HIDE DEF t
<1>3. t.held \subseteq s.held \ GpioAt(s) /\ s.failed \subseteq t.failed /\ device \in t.failed
  BY <1>2
<1>4. LeakExplained(d, t)
  BY <1>1, <1>2, <1>3, LeakGrows
<1>5. Kept(d, t)
  BY <1>2, <1>3, <1>4, NoGpioKept
<1>6. QED
  BY <1>5 DEF t

\* The state after a device failed and a release build went on.
LEMMA FailedGoing ==
    ASSUME NEW s, ProcShape(s), NEW pc, NEW device
    PROVE  LET t == Failed(Goto(s, pc), device)
           IN  /\ Same(t, s) /\ t.pc = pc /\ t.ports = s.ports /\ t.held = s.held
               /\ t.leaked = s.leaked /\ t.failed = s.failed \cup {device}
BY DEF Goto, Failed, Same, ProcShape, Fields

LEMMA OpenGpioOwns ==
    ASSUME BoardInv, NEW p \in Procs, OpenGpio(p)
    PROVE  BoardInv'
<1> DEFINE on == Gain(proc[p], {Fd}, "flock")
           no == NoPort(proc[p], {R("port")})
           off == Goto(proc[p], "flock")
           bad == Failed(off, "gpio")
<1>1. Kept(debug, proc[p]) /\ ProcShape(proc[p]) /\ proc[p].pc = "open" /\ debug \in BOOLEAN
  BY KeptFacts DEF OpenGpio, At
<1>2. proc[p].pc \in Making /\ GpioAt(proc[p]) = {R("port")}
  BY <1>1, GpioParts DEF Making
<1>3. \/ Succeeds(p, on)
      \/ Fails(p, "gpio", IF debug THEN no ELSE off)
  BY DEF OpenGpio, Checked, Fd
<1>4. Kept(debug, on)
  <2>1. /\ Same(on, proc[p]) /\ on.pc = "flock" /\ on.ports = proc[p].ports
        /\ on.leaked = proc[p].leaked /\ on.failed = proc[p].failed /\ on.held = proc[p].held \cup {Fd}
    BY <1>1, GoingFields
  <2> HIDE DEF on
  <2>2. on.pc \in Making /\ GpioAt(on) = {R("port"), Fd}
    BY <2>1, GpioParts DEF Making
  <2>3. GpioAt(proc[p]) \cup {Fd} \subseteq GpioAt(on) /\ Fd \in on.held
    BY <1>2, <2>1, <2>2
  <2>4. QED
    BY <1>1, <1>2, <2>1, <2>2, <2>3, MakingGoes
<1>5. ASSUME ~debug PROVE Kept(debug, bad)
  <2>1. /\ Same(bad, proc[p]) /\ bad.pc = "flock" /\ bad.ports = proc[p].ports
        /\ bad.leaked = proc[p].leaked /\ bad.failed = proc[p].failed \cup {"gpio"}
        /\ bad.held = proc[p].held
    BY <1>1, FailedGoing
  <2> HIDE DEF bad
  <2>2. bad.pc \in Making /\ GpioAt(bad) = {R("port"), Fd}
    BY <2>1, GpioParts DEF Making
  <2>3. GpioAt(proc[p]) \cup {} \subseteq GpioAt(bad) /\ bad.held = proc[p].held \cup {}
        /\ bad.failed # {} /\ proc[p].failed \subseteq bad.failed
    BY <1>2, <2>1, <2>2
  <2>4. QED
    BY <1>1, <1>2, <1>5, <2>1, <2>2, <2>3, MakingGoes
<1>6. debug => Kept(debug, Failed(no, "gpio"))
  <2>1. GpioAt(proc[p]) \subseteq {R("port")} /\ Lock \notin {R("port")} /\ Fd \notin {R("port")}
    BY <1>2, MuxNames
  <2>2. QED
    BY <1>1, <1>2, <2>1, NoGpioFails
<1> HIDE DEF on, no, off
<1>7. CASE debug
  <2>1. Succeeds(p, on) \/ Fails(p, "gpio", no)
    BY <1>3, <1>7
  <2>2. QED
    BY <1>4, <1>6, <1>7, <2>1, SucceedsKept, FailsKept
<1>8. CASE ~debug
  <2>1. Succeeds(p, on) \/ Fails(p, "gpio", off)
    BY <1>3, <1>8
  <2>2. QED
    BY <1>4, <1>5, <1>8, <2>1, SucceedsKept, FailsKept
<1>9. QED
  BY <1>7, <1>8

LEMMA LockGpioOwns ==
    ASSUME BoardInv, NEW p \in Procs, LockGpio(p)
    PROVE  BoardInv'
<1> DEFINE on == Gain(proc[p], {Lock}, "map")
<1>1. /\ Kept(debug, proc[p]) /\ ProcShape(proc[p]) /\ proc[p].pc = "flock" /\ debug \in BOOLEAN
      /\ Fd \in proc[p].held /\ Succeeds(p, on)
  BY KeptFacts DEF LockGpio, At, Has, Fd, Lock
<1>2. proc[p].pc \in Making /\ GpioAt(proc[p]) = {R("port"), Fd}
  BY <1>1, GpioParts DEF Making
<1>3. /\ Same(on, proc[p]) /\ on.pc = "map" /\ on.ports = proc[p].ports
      /\ on.leaked = proc[p].leaked /\ on.failed = proc[p].failed /\ on.held = proc[p].held \cup {Lock}
  BY <1>1, GoingFields
<1> HIDE DEF on
<1>4. on.pc \in Making /\ GpioAt(on) = {R("port"), Fd, Lock}
  BY <1>3, GpioParts DEF Making
<1>5. GpioAt(proc[p]) \cup {Lock} \subseteq GpioAt(on) /\ Fd \in on.held
  BY <1>1, <1>2, <1>3, <1>4
<1>6. Kept(debug, on)
  BY <1>1, <1>2, <1>3, <1>4, <1>5, MakingGoes
<1>7. QED
  BY <1>1, <1>6, SucceedsKept

LEMMA LockFailsOwns ==
    ASSUME BoardInv, NEW p \in Procs, LockFails(p)
    PROVE  BoardInv'
<1> DEFINE off == Goto(proc[p], "map")
           bad == Failed(off, "flock")
           no == NoPort(proc[p], {R("port"), Fd})
<1>1. /\ Kept(debug, proc[p]) /\ ProcShape(proc[p]) /\ proc[p].pc = "flock" /\ debug \in BOOLEAN
      /\ Fd \notin proc[p].held => ~debug /\ proc[p].failed # {}
  BY KeptFacts DEF LockFails, At, MissingExplained
<1>2. proc[p].pc \in Making /\ GpioAt(proc[p]) = {R("port"), Fd}
  BY <1>1, GpioParts DEF Making
<1>3. \A t : t.pc = "map" => t.pc \in Making /\ GpioAt(proc[p]) \cup {} \subseteq GpioAt(t)
  BY <1>2, GpioParts DEF Making
<1>4. Fd \notin proc[p].held => Kept(debug, off)
  <2>1. /\ Same(off, proc[p]) /\ off.pc = "map" /\ off.ports = proc[p].ports
        /\ off.leaked = proc[p].leaked /\ off.failed = proc[p].failed /\ off.held = proc[p].held
    BY <1>1, GoingFields
  <2> HIDE DEF off
  <2>2. off.held = proc[p].held \cup {}
    BY <2>1
  <2>3. QED
    BY <1>1, <1>2, <1>3, <2>1, <2>2, MakingGoes, ZenonT(60)
<1>5. ~debug => Kept(debug, bad)
  <2>1. /\ Same(bad, proc[p]) /\ bad.pc = "map" /\ bad.ports = proc[p].ports
        /\ bad.leaked = proc[p].leaked /\ bad.failed = proc[p].failed \cup {"flock"}
        /\ bad.held = proc[p].held
    BY <1>1, FailedGoing
  <2> HIDE DEF bad
  <2>2. bad.held = proc[p].held \cup {} /\ bad.failed # {} /\ proc[p].failed \subseteq bad.failed
    BY <2>1
  <2>3. bad.pc \in Making /\ GpioAt(proc[p]) \cup {} \subseteq GpioAt(bad)
    BY <1>3, <2>1
  <2>4. ASSUME ~debug PROVE Kept(debug, bad)
    BY <1>1, <1>2, <2>1, <2>2, <2>3, <2>4, MakingGoes
  <2>5. QED
    BY <2>4
<1>6. debug => Kept(debug, Failed(no, "flock"))
  <2>1. GpioAt(proc[p]) \subseteq {R("port"), Fd} /\ Lock \notin {R("port"), Fd}
    BY <1>2, MuxNames
  <2>2. QED
    BY <1>1, <1>2, <2>1, NoGpioFails
<1>7. \/ Fd \notin proc[p].held /\ Succeeds(p, off)
      \/ Fails(p, "flock", IF debug THEN no ELSE off)
  BY DEF LockFails, Checked, Has, Fd
<1> HIDE DEF no, off
<1>8. CASE debug
  <2>1. (Fd \notin proc[p].held /\ Succeeds(p, off)) \/ Fails(p, "flock", no)
    BY <1>7, <1>8
  <2>2. QED
    BY <1>4, <1>6, <1>8, <2>1, SucceedsKept, FailsKept
<1>9. CASE ~debug
  <2>1. (Fd \notin proc[p].held /\ Succeeds(p, off)) \/ Fails(p, "flock", off)
    BY <1>7, <1>9
  <2>2. QED
    BY <1>4, <1>5, <1>9, <2>1, SucceedsKept, FailsKept
<1>10. QED
  BY <1>8, <1>9

\* The GPIO port is stored with all it has; without the mapping only where mmap
\* failed, or in a release build an earlier device.
LEMMA GpioStored ==
    ASSUME NEW d \in BOOLEAN, NEW s, Kept(d, s), s.pc = "map", NEW t, Same(t, s), t.pc = "mux",
           t.ports = Append(s.ports, TRUE), t.leaked = s.leaked, s.failed \subseteq t.failed,
           t.held \subseteq s.held \cup PortMemory \cup {Map},
           Map \notin t.held => t.failed # {} /\ (d => "mmap" \in t.failed)
    PROVE  Kept(d, t)
<1>1. /\ t.ports \in Seq(BOOLEAN) /\ Len(t.ports) = 1 /\ t.ports[1] /\ Len(t.cfg.muxes) \in Nat
  BY PortAppended DEF Kept, Located, Same, Making, ConfigType
<1>2. Located(t)
  BY <1>1 DEF Kept, Located, Same, Making, Made
<1>3. Owned(t)
  <2>1. GpioAt(t) = PortMemory \cup {Fd, Lock, Map} /\ R("port") \in PortMemory
    BY <1>1 DEF GpioAt, Made, PortMemory
  <2>2. s.held \subseteq BaseMemory \cup {R("port"), Fd, Lock}
    <3>1. s.pc \in Making /\ GpioAt(s) = {R("port"), Fd, Lock}
      BY GpioParts DEF Making
    <3>2. QED
      BY <3>1, MakingOwns DEF Kept
  <2>3. QED
    BY <2>1, <2>2 DEF Owned, Belongs
<1>4. MissingExplained(d, t)
  BY <1>1 DEF MissingExplained, Made
<1>5. QED
  BY <1>2, <1>3, <1>4, SameLeaks DEF Kept

LEMMA MapGpioOwns ==
    ASSUME BoardInv, NEW p \in Procs, MapGpio(p)
    PROVE  BoardInv'
<1> DEFINE s == proc[p]
           u == CreateIOs(Take(s, {R("shadow")}))
           on == AddPort(u, TRUE)
           m == Gain(on, {Map}, "mux")
<1>1. /\ Kept(debug, s) /\ ProcShape(s) /\ s.pc = "map" /\ debug \in BOOLEAN
      /\ Fd \notin s.held => ~debug /\ s.failed # {}
  BY KeptFacts DEF MapGpio, At, MissingExplained
<1>2. /\ Same(u, s) /\ u.ports = s.ports /\ u.held = s.held \cup {R("shadow"), R("ios")}
      /\ u.leaked = s.leaked /\ u.failed = s.failed
  BY <1>1 DEF CreateIOs, Take, Same, ProcShape, Fields
<1> HIDE DEF u
<1>3. /\ Same(on, s) /\ on.pc = "mux" /\ on.ports = Append(s.ports, TRUE)
      /\ on.held = s.held \cup {R("shadow"), R("ios")} /\ on.held \subseteq s.held \cup PortMemory
      /\ on.leaked = s.leaked /\ on.failed = s.failed
  <2>1. {R("shadow"), R("ios")} \subseteq PortMemory
    BY DEF PortMemory
  <2>2. QED
    BY <1>2, <2>1 DEF AddPort, Same, ProcShape, Fields
<1> HIDE DEF on
<1>4. Kept(debug, m)
  <2>1. /\ Same(m, s) /\ m.pc = "mux" /\ m.ports = on.ports /\ m.held = on.held \cup {Map}
        /\ m.leaked = s.leaked /\ m.failed = s.failed
    BY <1>3 DEF Gain, Goto, Take, Same, ProcShape, Fields
  <2> HIDE DEF m
  <2>2. QED
    BY <1>1, <1>3, <2>1, GpioStored
<1>5. Kept(debug, Failed(on, "mmap"))
  <2> DEFINE t == Failed(on, "mmap")
  <2>1. /\ Same(t, s) /\ t.pc = "mux" /\ t.ports = on.ports /\ t.held = on.held
        /\ t.leaked = s.leaked /\ t.failed = s.failed \cup {"mmap"}
    BY <1>3 DEF Failed, Same, ProcShape, Fields
  <2> HIDE DEF t
  <2>2. Kept(debug, t)
    BY <1>1, <1>3, <2>1, GpioStored
  <2>3. QED
    BY <2>2 DEF t
<1>6. Fd \notin s.held => Kept(debug, on)
  BY <1>1, <1>3, GpioStored
<1>7. \/ Succeeds(p, m) \/ Fails(p, "mmap", on)
      \/ Fd \notin s.held /\ Succeeds(p, on)
  BY DEF MapGpio, PortMapped, Has, Fd, Map, on, u
<1> HIDE DEF m
<1>8. QED
  BY <1>4, <1>5, <1>6, <1>7, SucceedsKept, FailsKept

\* A multiplexer's port that was stored, and one that was not.
LEMMA PortFields ==
    ASSUME NEW s, ProcShape(s), NEW device
    PROVE  LET t == AddPort(s, TRUE)
               f == Failed(t, device)
           IN  /\ Same(t, s) /\ t.pc = "mux" /\ t.ports = Append(s.ports, Stored)
               /\ t.held = s.held /\ t.leaked = s.leaked /\ t.failed = s.failed
               /\ Same(f, s) /\ f.pc = "mux" /\ f.ports = Append(s.ports, Stored)
               /\ f.held = s.held /\ f.leaked = s.leaked /\ f.failed = s.failed \cup {device}
<1> DEFINE t == AddPort(s, TRUE)
<1>1. /\ Same(t, s) /\ t.pc = "mux" /\ t.ports = Append(s.ports, Stored)
      /\ t.held = s.held /\ t.leaked = s.leaked /\ t.failed = s.failed
  BY DEF AddPort, Same, ProcShape, Fields, Stored
<1> HIDE DEF t
<1> DEFINE f == Failed(t, device)
<1>2. /\ Same(f, t) /\ f.pc = t.pc /\ f.ports = t.ports /\ f.held = t.held
      /\ f.leaked = t.leaked /\ f.failed = t.failed \cup {device}
  BY <1>1, FailedFields DEF Same
<1> HIDE DEF f
<1>3. QED
  BY <1>1, <1>2 DEF t, f, Same

LEMMA StoredKept ==
    ASSUME NEW d \in BOOLEAN, NEW s, Kept(d, s), s.pc \in {"bus", "slave"}, NEW t, Same(t, s),
           t.pc = "mux", t.ports = Append(s.ports, Stored), t.held = s.held,
           s.failed \subseteq t.failed, t.leaked = s.leaked
    PROVE  Kept(d, t)
<1>1. Stored \in BOOLEAN /\ Stored
  BY DEF Stored
<1>2. LeakExplained(d, t) /\ Len(s.ports) <= Len(s.cfg.muxes)
  BY SameLeaks DEF Kept, Located
<1>3. QED
  BY <1>1, <1>2, MuxStored

LEMMA NullKept ==
    ASSUME NEW d \in BOOLEAN, NEW s, Kept(d, s), s.pc \in {"mux", "bus", "slave"},
           Len(s.ports) <= Len(s.cfg.muxes), NEW t, Same(t, s), t.pc = "mux",
           t.ports = Append(s.ports, Null), t.held \subseteq s.held, Map \in s.held => Map \in t.held,
           s.failed \subseteq t.failed, LeakExplained(d, t),
           \/ s.pc = "mux" /\ s.cfg.muxes[Len(s.ports)] = "SPI"
           \/ t.held \cap MuxResources(Len(s.ports)) = {} /\ t.failed # {}
    PROVE  Kept(d, t)
<1>1. Null \in BOOLEAN /\ ~Null
  BY DEF Null
<1>2. QED
  BY <1>1, MuxStored

\* Where a board is among its multiplexers.
LEMMA MuxFacts ==
    ASSUME BoardInv, NEW p \in Procs, proc[p].pc \in {"mux", "bus", "slave"}
    PROVE  LET s == proc[p]
               n == Len(s.ports)
           IN  /\ n \in Nat /\ n >= 1 /\ MuxesMade(p) + 1 = n
               /\ Mux(p) = s.cfg.muxes[n]
               /\ MuxesMade(p) # Len(s.cfg.muxes) =>
                      n <= Len(s.cfg.muxes) /\ s.cfg.muxes[n] \in MuxTypes
<1>1. Located(proc[p])
  BY KeptFacts
<1>2. /\ Len(proc[p].ports) \in Nat /\ Len(proc[p].ports) >= 1
      /\ Len(proc[p].ports) <= Len(proc[p].cfg.muxes) + 1
      /\ proc[p].cfg.muxes \in Seq(MuxTypes)
  BY <1>1 DEF Located, Made, ConfigType
<1>3. /\ MuxesMade(p) + 1 = Len(proc[p].ports) /\ Len(proc[p].cfg.muxes) \in Nat
      /\ MuxesMade(p) \in Int
  BY <1>2 DEF MuxesMade
<1>4. Mux(p) = proc[p].cfg.muxes[Len(proc[p].ports)]
  BY <1>3 DEF Mux
<1>5. ASSUME MuxesMade(p) # Len(proc[p].cfg.muxes)
      PROVE  /\ Len(proc[p].ports) <= Len(proc[p].cfg.muxes)
             /\ proc[p].cfg.muxes[Len(proc[p].ports)] \in MuxTypes
  <2>1. Len(proc[p].ports) \in 1..Len(proc[p].cfg.muxes)
    BY <1>2, <1>3, <1>5
  <2>2. QED
    BY <1>2, <2>1
<1>6. QED
  BY <1>2, <1>3, <1>4, <1>5

LEMMA NextMuxOwns ==
    ASSUME BoardInv, NEW p \in Procs, NextMux(p)
    PROVE  BoardInv'
<1> DEFINE s == proc[p]
           n == Len(s.ports)
           last == Gain(s, {R("flash")}, "flash")
           none == Goto(s, "ready")
           spi == AddPort(s, FALSE)
           i2c == Gain(s, {<<"mux", n>>}, "bus")
<1>1. /\ Kept(debug, s) /\ ProcShape(s) /\ s.pc = "mux" /\ debug \in BOOLEAN
      /\ LeakExplained(debug, s)
  BY KeptFacts DEF NextMux, At
<1>2. /\ n \in Nat /\ n >= 1 /\ MuxesMade(p) + 1 = n /\ Mux(p) = s.cfg.muxes[n]
      /\ MuxesMade(p) # Len(s.cfg.muxes) => n <= Len(s.cfg.muxes) /\ s.cfg.muxes[n] \in MuxTypes
  BY <1>1, MuxFacts
<1>3. Kept(debug, last)
  <2>1. /\ Same(last, s) /\ last.pc = "flash" /\ last.ports = s.ports /\ last.leaked = s.leaked
        /\ last.failed = s.failed /\ last.held = s.held \cup {R("flash")}
    BY <1>1, GoingFields
  <2> HIDE DEF last
  <2>2. {R("flash")} \subseteq BaseMemory
    BY DEF BaseMemory, FlashMemory
  <2>3. QED
    BY <1>1, <2>1, <2>2, MadeKept
<1>4. Kept(debug, none)
  <2>1. /\ Same(none, s) /\ none.pc = "ready" /\ none.ports = s.ports /\ none.leaked = s.leaked
        /\ none.failed = s.failed /\ none.held = s.held
    BY <1>1, GoingFields
  <2> HIDE DEF none
  <2>2. none.held = s.held \cup {} /\ {} \subseteq BaseMemory
    BY <2>1
  <2>3. QED
    BY <1>1, <2>1, <2>2, MadeKept
<1>5. ASSUME n <= Len(s.cfg.muxes), s.cfg.muxes[n] = "SPI" PROVE Kept(debug, spi)
  <2>1. /\ Same(spi, s) /\ spi.pc = "mux" /\ spi.ports = Append(s.ports, Null)
        /\ spi.held = s.held /\ spi.leaked = s.leaked /\ spi.failed = s.failed
    BY <1>1 DEF AddPort, Same, ProcShape, Fields, Null
  <2> HIDE DEF spi
  <2>2. LeakExplained(debug, spi)
    BY <1>1, <2>1, SameLeaks
  <2>3. QED
    BY <1>1, <1>5, <2>1, <2>2, NullKept
<1>6. ASSUME n <= Len(s.cfg.muxes), s.cfg.muxes[n] = "I2C" PROVE Kept(debug, i2c)
  <2>1. /\ Same(i2c, s) /\ i2c.pc = "bus" /\ i2c.ports = s.ports /\ i2c.leaked = s.leaked
        /\ i2c.failed = s.failed /\ i2c.held = s.held \cup {<<"mux", n>>}
    BY <1>1, GoingFields
  <2> HIDE DEF i2c
  <2>2. {<<"mux", n>>} \subseteq MuxResources(n)
    BY DEF MuxResources
  <2>3. QED
    BY <1>1, <1>6, <2>1, <2>2, MadeKept
<1>7. \/ Succeeds(p, last) \/ Succeeds(p, none)
      \/ n <= Len(s.cfg.muxes) /\ s.cfg.muxes[n] = "SPI" /\ Succeeds(p, spi)
      \/ n <= Len(s.cfg.muxes) /\ s.cfg.muxes[n] = "I2C" /\ Succeeds(p, i2c)
  <2>1. CASE MuxesMade(p) = Len(s.cfg.muxes)
    BY <2>1 DEF NextMux
  <2>2. CASE MuxesMade(p) # Len(s.cfg.muxes) /\ s.cfg.muxes[n] = "SPI"
    BY <1>2, <2>2 DEF NextMux
  <2>3. CASE MuxesMade(p) # Len(s.cfg.muxes) /\ s.cfg.muxes[n] = "I2C"
    BY <1>2, <2>3 DEF NextMux
  <2>4. QED
    BY <1>2, <2>1, <2>2, <2>3 DEF MuxTypes
<1> HIDE DEF last, none, spi, i2c
<1>8. QED
  BY <1>3, <1>4, <1>5, <1>6, <1>7, SucceedsKept

\* The bus of a multiplexer could not be opened, or does not answer: its port is
\* given up in a debug build, and stored all the same in a release build.
LEMMA MuxFails ==
    ASSUME NEW d \in BOOLEAN, NEW s, Kept(d, s), s.pc \in {"bus", "slave"}, NEW device
    PROVE  /\ d => Kept(d, Failed(NoPort(s, MuxResources(Len(s.ports))), device))
           /\ Kept(d, Failed(AddPort(s, TRUE), device))
           /\ Kept(d, AddPort(s, TRUE))
<1> DEFINE n == Len(s.ports)
           no == Failed(NoPort(s, MuxResources(n)), device)
           on == AddPort(s, TRUE)
           bad == Failed(on, device)
<1>1. ProcShape(s) /\ LeakExplained(d, s) /\ n <= Len(s.cfg.muxes)
  BY DEF Kept, Located
<1>2. ASSUME d PROVE Kept(d, no)
  <2>1. /\ Same(no, s) /\ no.pc = "mux" /\ no.ports = Append(s.ports, Null)
        /\ no.held = s.held \ MuxResources(n)
        /\ no.leaked = s.leaked \cup (s.held \cap MuxResources(n))
        /\ no.failed = s.failed \cup {device}
    BY <1>1, FailedNoPort
  <2> HIDE DEF no
  <2>2. /\ \A r \in s.held \cap MuxResources(n) : r[1] \in {"mux", "bus"}
        /\ Lock \notin MuxResources(n) /\ Fd \notin MuxResources(n) /\ Map \notin MuxResources(n)
    BY MuxNames
  <2>3. LeakExplained(d, no)
    BY <1>1, <1>2, <2>1, <2>2, LeakGrows
  <2>4. /\ no.held \subseteq s.held /\ (Map \in s.held => Map \in no.held)
        /\ s.failed \subseteq no.failed /\ no.failed # {} /\ no.held \cap MuxResources(n) = {}
    BY <2>1, <2>2
  <2>5. QED
    BY <1>1, <2>1, <2>3, <2>4, NullKept
<1>3. /\ Same(on, s) /\ on.pc = "mux" /\ on.ports = Append(s.ports, Stored)
      /\ on.held = s.held /\ on.leaked = s.leaked /\ on.failed = s.failed
      /\ Same(bad, s) /\ bad.pc = "mux" /\ bad.ports = Append(s.ports, Stored)
      /\ bad.held = s.held /\ bad.leaked = s.leaked /\ bad.failed = s.failed \cup {device}
  BY <1>1, PortFields
<1> HIDE DEF on, bad
<1>4. Kept(d, on) /\ Kept(d, bad)
  BY <1>3, StoredKept
<1>5. QED
  BY <1>2, <1>4 DEF no, on, bad

LEMMA OpenBusOwns ==
    ASSUME BoardInv, NEW p \in Procs, OpenBus(p)
    PROVE  BoardInv'
<1> DEFINE s == proc[p]
           n == Len(s.ports)
           bus == {<<"bus", n>>}
           on == Gain(s, bus, "slave")
           no == NoPort(s, MuxResources(n))
           off == AddPort(s, TRUE)
<1>0. Same(on, s) /\ on.pc = "slave" /\ on.ports = s.ports /\ on.leaked = s.leaked
      /\ on.failed = s.failed /\ on.held = s.held \cup bus
  <2>1. ProcShape(s)
    BY KeptFacts
  <2> HIDE DEF bus
  <2>2. QED
    BY <2>1, GoingFields
<1>1. /\ Kept(debug, s) /\ ProcShape(s) /\ s.pc = "bus" /\ debug \in BOOLEAN
      /\ n <= Len(s.cfg.muxes) /\ s.cfg.muxes[n] = "I2C"
  BY KeptFacts DEF OpenBus, At, Located
<1>2. MuxesMade(p) + 1 = n
  BY <1>1, MuxFacts
<1>3. Kept(debug, on)
  <2> HIDE DEF on
  <2>1. bus \subseteq MuxResources(n)
    BY DEF MuxResources
  <2>2. on.pc \in {"bus", "slave"} /\ s.pc \in {"mux", "bus", "flash", "info", "ready"}
        /\ s.failed \subseteq on.failed
    BY <1>0, <1>1
  <2> HIDE DEF bus
  <2>3. QED
    BY <1>0, <1>1, <2>1, <2>2, MadeKept
<1>4. (debug => Kept(debug, Failed(no, "bus"))) /\ Kept(debug, Failed(off, "bus"))
  BY <1>1, MuxFails
<1>5. Succeeds(p, on) \/ Fails(p, "bus", IF debug THEN no ELSE off)
  BY <1>2 DEF OpenBus, Checked
<1> HIDE DEF on, no, off
<1>6. CASE debug
  <2>1. Succeeds(p, on) \/ Fails(p, "bus", no)
    BY <1>5, <1>6
  <2>2. QED
    BY <1>3, <1>4, <1>6, <2>1, SucceedsKept, FailsKept
<1>7. CASE ~debug
  <2>1. Succeeds(p, on) \/ Fails(p, "bus", off)
    BY <1>5, <1>7
  <2>2. QED
    BY <1>3, <1>4, <2>1, SucceedsKept, FailsKept
<1>8. QED
  BY <1>6, <1>7

LEMMA SetSlaveOwns ==
    ASSUME BoardInv, NEW p \in Procs, SetSlave(p)
    PROVE  BoardInv'
<1> DEFINE s == proc[p]
           no == NoPort(s, MuxResources(Len(s.ports)))
           on == AddPort(s, TRUE)
<1>1. Kept(debug, s) /\ s.pc = "slave" /\ debug \in BOOLEAN
  BY KeptFacts DEF SetSlave, At
<1>2. MuxesMade(p) + 1 = Len(s.ports)
  BY <1>1, MuxFacts
<1>3. /\ debug => Kept(debug, Failed(no, "slave"))
      /\ Kept(debug, Failed(on, "slave")) /\ Kept(debug, on)
  BY <1>1, MuxFails
<1>4. Succeeds(p, on) \/ Fails(p, "slave", IF debug THEN no ELSE on)
  BY <1>2 DEF SetSlave, Checked
<1> HIDE DEF no, on
<1>5. CASE debug
  <2>1. Succeeds(p, on) \/ Fails(p, "slave", no)
    BY <1>4, <1>5
  <2>2. QED
    BY <1>3, <1>5, <2>1, SucceedsKept, FailsKept
<1>6. CASE ~debug
  <2>1. Succeeds(p, on) \/ Fails(p, "slave", on)
    BY <1>4, <1>6
  <2>2. QED
    BY <1>3, <2>1, SucceedsKept, FailsKept
<1>7. QED
  BY <1>5, <1>6

\* The flash device could not be opened or does not answer: a debug build gives
\* the board up with all it has, a release build has it ready.
LEMMA FlashFails ==
    ASSUME NEW d \in BOOLEAN, NEW s, Kept(d, s), s.pc \in {"flash", "info"},
           NEW device \in {"flash", "info"}
    PROVE  /\ d => Kept(d, Failed(GiveUp(s), device))
           /\ Kept(d, Failed(Goto(s, "ready"), device))
<1> DEFINE u == GiveUp(s)
           t == Failed(u, device)
           on == Failed(Goto(s, "ready"), device)
<1>1. ProcShape(s) /\ LeakExplained(d, s) /\ s.cfg \in ConfigType
  BY DEF Kept, Located
<1>2. ASSUME d PROVE Kept(d, t)
  <2>1. /\ ProcShape(u) /\ u.cfg = s.cfg /\ u.k = 0 /\ u.pc = "idle" /\ u.ports = <<>>
        /\ u.held = {} /\ u.leaked = s.leaked \cup s.held /\ u.failed = s.failed
    BY <1>1, GiveUpFields
  <2> HIDE DEF u
  <2>2. /\ Same(t, u) /\ t.pc = u.pc /\ t.ports = u.ports /\ t.held = u.held
        /\ t.leaked = u.leaked /\ t.failed = u.failed \cup {device}
    BY <2>1, FailedFields
  <2> HIDE DEF t
  <2>3. /\ ProcShape(t) /\ t.cfg = s.cfg /\ t.k = 0 /\ t.pc = "idle" /\ t.ports = <<>> /\ t.held = {}
        /\ t.leaked = s.leaked \cup s.held /\ s.failed \subseteq t.failed /\ device \in t.failed
    BY <2>1, <2>2 DEF Same
  <2>4. LeakExplained(d, t)
    BY <1>1, <1>2, <2>3, LeakGrows
  <2>5. QED
    BY <1>1, <2>3, <2>4, NoBoardKept
<1>3. Kept(d, on)
  <2>1. /\ Same(on, s) /\ on.pc = "ready" /\ on.ports = s.ports /\ on.held = s.held
        /\ on.leaked = s.leaked /\ on.failed = s.failed \cup {device}
    BY <1>1, FailedGoing
  <2> HIDE DEF on
  <2>2. on.held = s.held \cup {} /\ {} \subseteq BaseMemory /\ s.failed \subseteq on.failed
    BY <2>1
  <2>3. QED
    BY <2>1, <2>2, MadeKept, ZenonT(60)
<1>4. QED
  BY <1>2, <1>3

LEMMA OpenFlashOwns ==
    ASSUME BoardInv, NEW p \in Procs, OpenFlash(p)
    PROVE  BoardInv'
<1> DEFINE s == proc[p]
           on == Gain(s, {R("flashFd")}, "info")
           no == GiveUp(s)
           off == Goto(s, "ready")
<1>1. Kept(debug, s) /\ ProcShape(s) /\ s.pc = "flash" /\ debug \in BOOLEAN
  BY KeptFacts DEF OpenFlash, At
<1>2. Kept(debug, on)
  <2>1. /\ Same(on, s) /\ on.pc = "info" /\ on.ports = s.ports /\ on.leaked = s.leaked
        /\ on.failed = s.failed /\ on.held = s.held \cup {R("flashFd")}
    BY <1>1, GoingFields
  <2> HIDE DEF on
  <2>2. {R("flashFd")} \subseteq BaseMemory
    BY DEF BaseMemory, FlashMemory
  <2>3. QED
    BY <1>1, <2>1, <2>2, MadeKept
<1>3. (debug => Kept(debug, Failed(no, "flash"))) /\ Kept(debug, Failed(off, "flash"))
  BY <1>1, FlashFails
<1>4. Succeeds(p, on) \/ Fails(p, "flash", IF debug THEN no ELSE off)
  BY DEF OpenFlash, Checked
<1> HIDE DEF on, no, off
<1>5. CASE debug
  <2>1. Succeeds(p, on) \/ Fails(p, "flash", no)
    BY <1>4, <1>5
  <2>2. QED
    BY <1>2, <1>3, <1>5, <2>1, SucceedsKept, FailsKept
<1>6. CASE ~debug
  <2>1. Succeeds(p, on) \/ Fails(p, "flash", off)
    BY <1>4, <1>6
  <2>2. QED
    BY <1>2, <1>3, <2>1, SucceedsKept, FailsKept
<1>7. QED
  BY <1>5, <1>6

LEMMA ReadFlashInfoOwns ==
    ASSUME BoardInv, NEW p \in Procs, ReadFlashInfo(p)
    PROVE  BoardInv'
<1> DEFINE s == proc[p]
           no == GiveUp(s)
           on == Goto(s, "ready")
<1>1. Kept(debug, s) /\ ProcShape(s) /\ s.pc = "info" /\ debug \in BOOLEAN
  BY KeptFacts DEF ReadFlashInfo, At
<1>2. Kept(debug, on)
  <2>1. /\ Same(on, s) /\ on.pc = "ready" /\ on.ports = s.ports /\ on.leaked = s.leaked
        /\ on.failed = s.failed /\ on.held = s.held
    BY <1>1, GoingFields
  <2> HIDE DEF on
  <2>2. on.held = s.held \cup {} /\ {} \subseteq BaseMemory
    BY <2>1
  <2>3. QED
    BY <1>1, <2>1, <2>2, MadeKept
<1>3. (debug => Kept(debug, Failed(no, "info"))) /\ Kept(debug, Failed(on, "info"))
  BY <1>1, FlashFails
<1>4. Succeeds(p, on) \/ Fails(p, "info", IF debug THEN no ELSE on)
  BY DEF ReadFlashInfo, Checked
<1> HIDE DEF no, on
<1>5. CASE debug
  <2>1. Succeeds(p, on) \/ Fails(p, "info", no)
    BY <1>4, <1>5
  <2>2. QED
    BY <1>2, <1>3, <1>5, <2>1, SucceedsKept, FailsKept
<1>6. CASE ~debug
  <2>1. Succeeds(p, on) \/ Fails(p, "info", on)
    BY <1>4, <1>6
  <2>2. QED
    BY <1>2, <1>3, <2>1, SucceedsKept, FailsKept
<1>7. QED
  BY <1>5, <1>6

-----------------------------------------------------------------------------
\* A port whose address is null tells of an SPI multiplexer or of a failure.
LEMMA NullCrashes ==
    ASSUME NEW d \in BOOLEAN, NEW s, Kept(d, s), s.pc \in Made, NEW k \in 1..Len(s.ports),
           ~s.ports[k]
    PROVE  Crashes(d, s)
<1>1. /\ Len(s.ports) \in Nat /\ Len(s.ports) <= Len(s.cfg.muxes) + 1 /\ Len(s.cfg.muxes) \in Nat
      /\ MissingExplained(d, s)
  BY DEF Kept, Located, ConfigType
<1>2. CASE k = 1
  BY <1>1, <1>2 DEF MissingExplained, Crashes
<1>3. CASE k # 1
  <2>1. k \in 2..Len(s.ports) /\ k - 1 \in 1..Len(s.cfg.muxes)
    BY <1>1, <1>3
  <2>2. s.cfg.muxes[k - 1] = "SPI" \/ s.failed # {}
    BY <1>1, <2>1 DEF MissingExplained
  <2>3. QED
    BY <2>1, <2>2 DEF Crashes
<1>4. QED
  BY <1>2, <1>3

\* So does a callback that cannot be called: the GPIO port is not mapped only
\* where a device failed, and the other ports are I2C multiplexers'.
LEMMA CallbackCrashes ==
    ASSUME NEW d \in BOOLEAN, NEW s, Kept(d, s), s.pc = "ready", NEW k \in 1..Len(s.ports),
           s.ports[k], IF k = 1 THEN Map \notin s.held ELSE ~d
    PROVE  Crashes(d, s)
<1>1. /\ Len(s.ports) \in Nat /\ Len(s.ports) <= Len(s.cfg.muxes) + 1 /\ Len(s.cfg.muxes) \in Nat
      /\ MissingExplained(d, s)
  BY DEF Kept, Located, Made, ConfigType
<1>2. CASE k = 1
  BY <1>1, <1>2 DEF MissingExplained, Made, Crashes
<1>3. CASE k # 1
  <2>1. k \in 2..Len(s.ports) /\ k - 1 \in 1..Len(s.cfg.muxes)
    BY <1>1, <1>3
  <2>2. s.cfg.muxes[k - 1] = "I2C"
    BY <1>1, <2>1 DEF MissingExplained, Made
  <2>3. QED
    BY <1>3, <2>1, <2>2 DEF Crashes
<1>4. QED
  BY <1>2, <1>3

LEMMA LostOwns ==
    ASSUME BoardInv, NEW p \in Procs, Crashes(debug, proc[p]), Succeeds(p, Goto(proc[p], "lost"))
    PROVE  BoardInv'
<1>1. Kept(debug, Goto(proc[p], "lost"))
  BY KeptFacts, LostKept
<1>2. QED
  BY <1>1, SucceedsKept

LEMMA FindPortOwns ==
    ASSUME BoardInv, NEW p \in Procs, FindPort(p)
    PROVE  BoardInv'
<1>1. proc[p].pc \in Made /\ Kept(debug, proc[p]) /\ debug \in BOOLEAN
  BY KeptFacts DEF FindPort, At, Made
<1>2. PICK k \in 1..Len(proc[p].ports) : ~proc[p].ports[k]
  BY DEF FindPort
<1>3. Crashes(debug, proc[p])
  BY <1>1, <1>2, NullCrashes
<1>4. QED
  BY <1>3, LostOwns DEF FindPort

LEMMA CollectPortsOwns ==
    ASSUME BoardInv, NEW p \in Procs, NEW type, NEW max, CollectPorts(p, type, max)
    PROVE  BoardInv'
<1>1. proc[p].pc \in Made /\ Kept(debug, proc[p]) /\ debug \in BOOLEAN
  BY KeptFacts DEF CollectPorts, At, Made
<1>2. PICK k \in 1..Len(proc[p].ports) : ~proc[p].ports[k]
  BY DEF CollectPorts
<1>3. Crashes(debug, proc[p])
  BY <1>1, <1>2, NullCrashes
<1>4. QED
  BY <1>3, LostOwns DEF CollectPorts

LEMMA UsePortOwns ==
    ASSUME BoardInv, NEW p \in Procs, UsePort(p)
    PROVE  BoardInv'
<1>1. CallbackFaults(p)
  BY DEF UsePort, UpdatePort, UpdatePortMasked, ReinitPort
<1>2. proc[p].pc = "ready" /\ Kept(debug, proc[p]) /\ debug \in BOOLEAN
  BY <1>1, KeptFacts DEF CallbackFaults, At
<1>3. PICK k \in 1..Len(proc[p].ports) :
          proc[p].ports[k] /\ IF k = 1 THEN Map \notin proc[p].held ELSE ~debug
  BY <1>1 DEF CallbackFaults, Has, Map
<1>4. Crashes(debug, proc[p])
  BY <1>2, <1>3, CallbackCrashes
<1>5. QED
  BY <1>1, <1>4, LostOwns DEF CallbackFaults

-----------------------------------------------------------------------------
LEMMA DestroyBoardOwns ==
    ASSUME BoardInv, NEW p \in Procs, DestroyBoard(p)
    PROVE  BoardInv'
<1> DEFINE s == proc[p]
           on == Goto(s, "unmap")
<1>1. /\ Kept(debug, s) /\ ProcShape(s) /\ s.pc = "ready" /\ s.pc \in Made /\ debug \in BOOLEAN
      /\ 1 \in 1..Len(s.ports)
  BY KeptFacts DEF DestroyBoard, At, Located, Made
<1>2. CASE s.ports[1]
  <2>1. /\ Same(on, s) /\ on.pc = "unmap" /\ on.ports = s.ports /\ on.leaked = s.leaked
        /\ on.failed = s.failed /\ on.held = s.held
    BY <1>1, GotoFields
  <2>2. Succeeds(p, on)
    <3>1. (IF s.ports[1] THEN "unmap" ELSE "lost") = "unmap"
      BY <1>2
    <3>2. QED
      BY <3>1 DEF DestroyBoard
  <2> HIDE DEF on
  <2>3. on.held = s.held \cup {} /\ {} \subseteq BaseMemory
    BY <2>1
  <2>4. Kept(debug, on)
    BY <1>1, <1>2, <2>1, <2>3, MadeKept
  <2>5. QED
    BY <2>2, <2>4, SucceedsKept
<1>3. CASE ~s.ports[1]
  <2>1. Crashes(debug, s)
    BY <1>1, <1>3, NullCrashes
  <2>2. Succeeds(p, Goto(s, "lost"))
    <3>1. (IF s.ports[1] THEN "unmap" ELSE "lost") = "lost"
      BY <1>3
    <3>2. QED
      BY <3>1 DEF DestroyBoard
  <2>3. QED
    BY <2>1, <2>2, LostOwns
<1>4. QED
  BY <1>2, <1>3

\* The GPIO port is taken down, and nothing else of the board.
LEMMA ClosingKept ==
    ASSUME NEW d \in BOOLEAN, NEW s, Kept(d, s), s.pc \in {"unmap", "unlock", "close"},
           NEW t, ProcShape(t), t.cfg = s.cfg, t.ports = s.ports, t.k \in Nat,
           t.leaked = s.leaked, t.failed = s.failed,
           t.pc \in {"unlock", "close"} \/ (t.pc = "closeMux" /\ t.k = 2),
           t.held \subseteq s.held, t.held \cap GpioAt(s) \subseteq GpioAt(t)
    PROVE  Kept(d, t)
<1> DEFINE n == Len(s.ports)
<1>1. Located(t)
  BY DEF Kept, Located, Making, Made
<1>2. ASSUME NEW r \in t.held PROVE Belongs(t, r)
  <2>1. Belongs(s, r)
    BY DEF Kept, Owned
  <2>2. CASE \E j \in 1..n : r \in MuxResources(j) /\ MuxOwned(s, j)
    <3>1. PICK j \in 1..n : r \in MuxResources(j) /\ MuxOwned(s, j)
      BY <2>2
    <3>2. j \in 1..(n - 1) /\ t.ports[j + 1] /\ 2 <= j + 1
      BY <3>1 DEF MuxOwned
    <3>3. MuxOwned(t, j)
      BY <3>2 DEF MuxOwned, Made
    <3>4. QED
      BY <3>1, <3>3 DEF Belongs
  <2>3. QED
    BY <2>1, <2>2 DEF Belongs
<1>3. Owned(t)
  BY <1>2 DEF Owned
<1>4. MissingExplained(d, t)
  BY DEF Kept, MissingExplained, Made
<1>5. QED
  BY <1>1, <1>3, <1>4, SameLeaks DEF Kept

LEMMA UnmapGpioOwns ==
    ASSUME BoardInv, NEW p \in Procs, UnmapGpio(p)
    PROVE  BoardInv'
<1> DEFINE s == proc[p]
           no == GiveUp(s)
           on == Drop(s, {Map}, "unlock")
<1>1. /\ Kept(debug, s) /\ ProcShape(s) /\ s.pc = "unmap" /\ debug \in BOOLEAN
      /\ s.ports[1] /\ s.cfg \in ConfigType /\ s.k \in Nat /\ LeakExplained(debug, s)
      /\ MissingExplained(debug, s)
  BY KeptFacts DEF UnmapGpio, At, Located
<1>2. ASSUME debug, Map \notin s.held PROVE Kept(debug, no)
  <2>1. "mmap" \in s.failed
    BY <1>1, <1>2 DEF MissingExplained, Made
  <2>2. /\ ProcShape(no) /\ no.cfg = s.cfg /\ no.k = 0 /\ no.pc = "idle" /\ no.ports = <<>>
        /\ no.held = {} /\ no.leaked = s.leaked \cup s.held /\ no.failed = s.failed
    BY <1>1, GiveUpFields
  <2> HIDE DEF no
  <2>3. LeakExplained(debug, no)
    BY <1>1, <1>2, <2>1, <2>2, LeakGrows
  <2>4. QED
    BY <1>1, <2>2, <2>3, NoBoardKept
<1>3. Kept(debug, on)
  <2>1. /\ Same(on, s) /\ on.pc = "unlock" /\ on.ports = s.ports /\ on.leaked = s.leaked
        /\ on.failed = s.failed /\ on.held = s.held \ {Map}
    BY <1>1, GoingFields
  <2> HIDE DEF on
  <2>2. GpioAt(s) = PortMemory \cup {Fd, Lock, Map}
    BY <1>1 DEF GpioAt, Made
  <2>3. GpioAt(on) = PortMemory \cup {Fd, Lock}
    BY <2>1, GpioParts
  <2>4. on.held \subseteq s.held /\ on.held \cap GpioAt(s) \subseteq GpioAt(on)
    BY <2>1, <2>2, <2>3
  <2>5. QED
    BY <1>1, <2>1, <2>4, ClosingKept DEF Same
<1>4. Succeeds(p, IF debug /\ Map \notin s.held THEN no ELSE on)
  BY DEF UnmapGpio, Has, Map
<1> HIDE DEF no, on
<1>5. CASE debug /\ Map \notin s.held
  <2>1. Succeeds(p, no)
    BY <1>4, <1>5
  <2>2. QED
    BY <1>2, <1>5, <2>1, SucceedsKept
<1>6. CASE ~(debug /\ Map \notin s.held)
  <2>1. Succeeds(p, on)
    BY <1>4, <1>6
  <2>2. QED
    BY <1>3, <2>1, SucceedsKept
<1>7. QED
  BY <1>5, <1>6

LEMMA UnlockGpioOwns ==
    ASSUME BoardInv, NEW p \in Procs, UnlockGpio(p)
    PROVE  BoardInv'
<1> DEFINE s == proc[p]
           on == Drop(s, {Lock}, "close")
<1>1. /\ Kept(debug, s) /\ ProcShape(s) /\ s.pc = "unlock" /\ debug \in BOOLEAN /\ s.k \in Nat
      /\ Succeeds(p, on)
  BY KeptFacts DEF UnlockGpio, At, Located, Lock
<1>2. /\ Same(on, s) /\ on.pc = "close" /\ on.ports = s.ports /\ on.leaked = s.leaked
      /\ on.failed = s.failed /\ on.held = s.held \ {Lock}
  <2>1. ProcShape(s)
    BY <1>1
  <2>2. QED
    BY <2>1, DropFields
<1> HIDE DEF on
<1>3. GpioAt(s) = PortMemory \cup {Fd, Lock} /\ GpioAt(on) = PortMemory \cup {Fd}
  BY <1>1, <1>2, GpioParts
<1>4. on.held \subseteq s.held /\ on.held \cap GpioAt(s) \subseteq GpioAt(on)
  BY <1>2, <1>3
<1>5. Kept(debug, on)
  BY <1>1, <1>2, <1>4, ClosingKept DEF Same
<1>6. QED
  BY <1>1, <1>5, SucceedsKept

LEMMA CloseGpioOwns ==
    ASSUME BoardInv, NEW p \in Procs, CloseGpio(p)
    PROVE  BoardInv'
<1> DEFINE s == proc[p]
           u == FreeIOs(s)
           v == Drop(u, PortMemory \cup {Fd, Lock}, "closeMux")
           on == [v EXCEPT !.k = 2]
<1>1. /\ Kept(debug, s) /\ ProcShape(s) /\ s.pc = "close" /\ debug \in BOOLEAN /\ Succeeds(p, on)
  BY KeptFacts DEF CloseGpio, At, Fd, Lock
<1>2. /\ Same(u, s) /\ u.ports = s.ports /\ u.leaked = s.leaked /\ u.failed = s.failed
      /\ u.held = s.held \ {R("ios")}
  BY <1>1 DEF FreeIOs, Free, Same, ProcShape, Fields
<1> HIDE DEF u
<1>3. /\ Same(v, u) /\ v.pc = "closeMux" /\ v.ports = u.ports /\ v.leaked = u.leaked
      /\ v.failed = u.failed /\ v.held = u.held \ (PortMemory \cup {Fd, Lock})
  <2>1. ProcShape(u)
    BY <1>2 DEF Same
  <2>2. QED
    BY <2>1, DropFields
<1> HIDE DEF v
<1>4. /\ ProcShape(on) /\ on.cfg = s.cfg /\ on.pc = "closeMux" /\ on.k = 2 /\ on.ports = s.ports
      /\ on.leaked = s.leaked /\ on.failed = s.failed /\ on.held = v.held
  BY <1>2, <1>3 DEF Same, ProcShape, Fields
<1> HIDE DEF on
<1>5. GpioAt(s) = PortMemory \cup {Fd}
  BY <1>1, GpioParts
<1>6. on.held \subseteq s.held /\ on.held \cap GpioAt(s) \subseteq GpioAt(on) /\ on.k \in Nat
  BY <1>2, <1>3, <1>4, <1>5
<1>7. Kept(debug, on)
  BY <1>1, <1>4, <1>6, ClosingKept
<1>8. QED
  BY <1>1, <1>7, SucceedsKept

\* What a board has once its GPIO port is gone.
LEMMA ClosingOwns ==
    ASSUME NEW s, Located(s), Owned(s), s.pc \in {"closeMux", "free"}, NEW r \in s.held
    PROVE  \/ r \in BaseMemory
           \/ /\ s.pc = "closeMux"
              /\ \E j \in 1..(Len(s.ports) - 1) :
                    r \in MuxResources(j) /\ s.ports[j + 1] /\ s.k <= j + 1
<1>1. GpioAt(s) = {} /\ Belongs(s, r)
  BY GpioParts DEF Owned
<1>2. CASE \E j \in 1..Len(s.ports) : r \in MuxResources(j) /\ MuxOwned(s, j)
  BY <1>2 DEF MuxOwned, Made
<1>3. QED
  BY <1>1, <1>2 DEF Belongs

LEMMA CloseMuxOwns ==
    ASSUME BoardInv, NEW p \in Procs, CloseMux(p)
    PROVE  BoardInv'
<1> DEFINE s == proc[p]
           n == Len(s.ports)
           last == Goto(s, "free")
           no == GiveUp(s)
           v == Drop(s, MuxResources(s.k - 1), "closeMux")
           on == [v EXCEPT !.k = @ + 1]
<1>1. /\ Kept(debug, s) /\ ProcShape(s) /\ s.pc = "closeMux" /\ s.pc \in Made /\ debug \in BOOLEAN
      /\ LeakExplained(debug, s) /\ Located(s) /\ Owned(s) /\ MissingExplained(debug, s)
  BY KeptFacts DEF CloseMux, At, Made
<1>2. /\ s.cfg \in ConfigType /\ s.k \in Nat /\ s.k >= 2 /\ s.ports \in Seq(BOOLEAN) /\ n \in Nat
      /\ n >= 1 /\ n <= Len(s.cfg.muxes) + 1
  BY <1>1 DEF Located
<1>3. ASSUME s.k > n PROVE Kept(debug, last)
  <2>1. /\ Same(last, s) /\ last.pc = "free" /\ last.ports = s.ports /\ last.leaked = s.leaked
        /\ last.failed = s.failed /\ last.held = s.held
    BY <1>1, GotoFields
  <2> HIDE DEF last
  <2>2. \A r \in s.held : r \in BaseMemory
    BY <1>1, <1>2, <1>3, ClosingOwns
  <2>3. Located(last)
    BY <1>1, <1>2, <2>1 DEF Located, Same, Making, Made
  <2>4. Owned(last)
    BY <2>1, <2>2 DEF Owned, Belongs
  <2>5. MissingExplained(debug, last)
    BY <1>1, <2>1 DEF MissingExplained, Same, Made
  <2>6. LeakExplained(debug, last)
    BY <1>1, <2>1, SameLeaks
  <2>7. QED
    BY <2>1, <2>3, <2>4, <2>5, <2>6 DEF Kept
<1>4. ASSUME s.k \in 1..n, ~s.ports[s.k] PROVE Crashes(debug, s)
  BY <1>1, <1>4, NullCrashes
<1>5. ASSUME debug PROVE Kept(debug, no)
  <2>1. /\ ProcShape(no) /\ no.cfg = s.cfg /\ no.k = 0 /\ no.pc = "idle" /\ no.ports = <<>>
        /\ no.held = {} /\ no.leaked = s.leaked \cup s.held /\ no.failed = s.failed
    BY <1>1, GiveUpFields
  <2> HIDE DEF no
  <2>2. \A r \in s.held : r \in BaseMemory \/ \E j \in 1..(n - 1) : r \in MuxResources(j)
    BY <1>1, ClosingOwns
  <2>3. Lock \notin s.held /\ Fd \notin s.held
    BY <2>2, MuxNames
  <2>4. \A r \in s.held : r \in BaseMemory \/ r[1] \in {"mux", "bus"}
    <3> SUFFICES ASSUME NEW r \in s.held, r \notin BaseMemory PROVE r[1] \in {"mux", "bus"}
      OBVIOUS
    <3>1. PICK j \in 1..(n - 1) : r \in MuxResources(j)
      BY <2>2
    <3>2. QED
      BY <3>1, MuxNames
  <2>5. LeakExplained(debug, no)
    BY <1>1, <1>5, <2>1, <2>3, <2>4, LeakGrows, ZenonT(60)
  <2>6. QED
    BY <1>1, <1>2, <2>1, <2>5, NoBoardKept
<1>6. ASSUME s.k <= n PROVE Kept(debug, on)
  <2>1. /\ Same(v, s) /\ v.pc = "closeMux" /\ v.ports = s.ports /\ v.leaked = s.leaked
        /\ v.failed = s.failed /\ v.held = s.held \ MuxResources(s.k - 1)
    BY <1>1, DropFields
  <2> HIDE DEF v
  <2>2. /\ ProcShape(on) /\ on.cfg = s.cfg /\ on.k = s.k + 1 /\ on.pc = "closeMux"
        /\ on.ports = s.ports /\ on.leaked = s.leaked /\ on.failed = s.failed
        /\ on.held = s.held \ MuxResources(s.k - 1)
    BY <2>1 DEF Same, ProcShape, Fields
  <2> HIDE DEF on
  <2>3. Located(on)
    BY <1>1, <1>2, <2>2 DEF Located, Making, Made
  <2>4. ASSUME NEW r \in on.held PROVE Belongs(on, r)
    <3>1. r \in s.held /\ r \notin MuxResources(s.k - 1)
      BY <2>2
    <3>2. CASE r \in BaseMemory
      BY <3>2 DEF Belongs
    <3>3. CASE \E j \in 1..(n - 1) : r \in MuxResources(j) /\ s.ports[j + 1] /\ s.k <= j + 1
      <4>1. PICK j \in 1..(n - 1) : r \in MuxResources(j) /\ s.ports[j + 1] /\ s.k <= j + 1
        BY <3>3
      <4>2. j # s.k - 1
        BY <3>1, <4>1
      <4>3. on.k <= j + 1 /\ j \in 1..Len(on.ports)
        BY <1>2, <2>2, <4>1, <4>2
      <4>4. MuxOwned(on, j)
        BY <2>2, <4>1, <4>3 DEF MuxOwned, Made
      <4>5. QED
        BY <4>1, <4>3, <4>4 DEF Belongs
    <3>4. QED
      BY <1>1, <3>1, <3>2, <3>3, ClosingOwns
  <2>5. Owned(on)
    BY <2>2, <2>4 DEF Owned
  <2>6. MissingExplained(debug, on)
    BY <1>1, <2>2 DEF MissingExplained, Made
  <2>7. LeakExplained(debug, on)
    BY <1>1, <2>2, SameLeaks
  <2>8. QED
    BY <2>2, <2>3, <2>5, <2>6, <2>7 DEF Kept
<1>7. \/ s.k > n /\ Succeeds(p, last)
      \/ s.k \in 1..n /\ ~s.ports[s.k] /\ Succeeds(p, Goto(s, "lost"))
      \/ debug /\ Succeeds(p, no)
      \/ s.k <= n /\ Succeeds(p, on)
  <2>1. CASE s.k > n
    BY <2>1 DEF CloseMux
  <2>2. CASE ~(s.k > n) /\ ~s.ports[s.k]
    <3>1. s.k \in 1..n
      BY <1>2, <2>2
    <3>2. QED
      BY <2>2, <3>1 DEF CloseMux
  <2>3. CASE ~(s.k > n) /\ s.ports[s.k]
    <3>1. s.k <= n
      BY <1>2, <2>3
    <3>2. (debug /\ Succeeds(p, no)) \/ Succeeds(p, on)
      BY <2>3 DEF CloseMux
    <3>3. QED
      BY <3>1, <3>2
  <2>4. QED
    BY <2>1, <2>2, <2>3
<1> HIDE DEF last, no, on
<1>8. QED
  BY <1>3, <1>4, <1>5, <1>6, <1>7, SucceedsKept, LostOwns

\* destroy ends with nothing left.
LEMMA FreeBoardOwns ==
    ASSUME BoardInv, NEW p \in Procs, FreeBoard(p)
    PROVE  BoardInv'
<1> DEFINE s == proc[p]
           u == FreeConfig(FreeFlash(s))
           v == Drop(u, BoardMemory, "idle")
           on == [v EXCEPT !.ports = <<>>, !.k = 0]
<1>1. /\ Kept(debug, s) /\ ProcShape(s) /\ s.pc = "free" /\ debug \in BOOLEAN
      /\ LeakExplained(debug, s) /\ Located(s) /\ Owned(s) /\ s.cfg \in ConfigType
      /\ Succeeds(p, on)
  BY KeptFacts DEF FreeBoard, At, Located
<1>2. \A r \in s.held : r \in BaseMemory
  BY <1>1, ClosingOwns
<1>3. /\ Same(u, s) /\ u.leaked = s.leaked /\ u.failed = s.failed
      /\ u.held = (s.held \ FlashMemory) \ BoardConfig
  BY <1>1 DEF FreeConfig, FreeFlash, Free, Same, ProcShape, Fields, FlashMemory
<1> HIDE DEF u
<1>4. /\ Same(v, u) /\ v.pc = "idle" /\ v.leaked = u.leaked /\ v.failed = u.failed
      /\ v.held = u.held \ BoardMemory
  <2>1. ProcShape(u)
    BY <1>3 DEF Same
  <2>2. QED
    BY <2>1, DropFields
<1> HIDE DEF v
<1>5. /\ ProcShape(on) /\ on.cfg = s.cfg /\ on.pc = "idle" /\ on.k = 0 /\ on.ports = <<>>
      /\ on.held = v.held /\ on.leaked = s.leaked /\ on.failed = s.failed
  BY <1>3, <1>4 DEF Same, ProcShape, Fields
<1> HIDE DEF on
<1>6. on.held = {}
  BY <1>2, <1>3, <1>4, <1>5 DEF BaseMemory
<1>7. LeakExplained(debug, on)
  BY <1>1, <1>5, SameLeaks
<1>8. Kept(debug, on)
  BY <1>1, <1>5, <1>6, <1>7, NoBoardKept
<1>9. QED
  BY <1>1, <1>8, SucceedsKept

LEMMA FreshKept ==
    ASSUME NEW d \in BOOLEAN
    PROVE  Kept(d, Fresh)
<1>1. /\ ProcShape(Fresh) /\ Fresh.pc = "idle" /\ Fresh.ports = <<>> /\ Fresh.held = {}
      /\ Fresh.leaked = {} /\ Fresh.k = 0
  BY DEF Fresh, ProcShape, Fields
<1>2. Fresh.cfg \in ConfigType
  BY DEF Fresh, ConfigType
<1>3. LeakExplained(d, Fresh)
  BY <1>1 DEF LeakExplained
<1>4. QED
  BY <1>1, <1>2, <1>3, NoBoardKept

\* The invariant holds in every reachable state.
LEMMA BoardInvHolds == Spec => []BoardInv
<1>1. Init => BoardInv
  BY FreshKept, BoardAssumption DEF Init, BoardInv
<1>2. BoardInv /\ [Next]_vars => BoardInv'
  <2> SUFFICES ASSUME BoardInv, [Next]_vars PROVE BoardInv'
    OBVIOUS
  <2>1. CASE UNCHANGED vars
    BY <2>1 DEF vars, BoardInv
  <2>2. CASE Next
    <3>1. PICK p \in Procs :
            \/ \E cfg \in Configs : CreateBoard(p, cfg)
            \/ \E type \in {"GPIO", "I2C"}, max \in 1..Len(proc[p].ports) : CollectPorts(p, type, max)
            \/ CreateStep(p) \/ FindPort(p) \/ UsePort(p) \/ DestroyBoard(p) \/ DestroyStep(p)
            \/ Dies(p)
      BY <2>2 DEF Next, Crash, Exit, Kill
    <3>2. CASE \E cfg \in Configs : CreateBoard(p, cfg)
      BY <3>2, BoardAssumption, CreateBoardOwns
    <3>3. CASE \E type \in {"GPIO", "I2C"}, max \in 1..Len(proc[p].ports) : CollectPorts(p, type, max)
      BY <3>3, CollectPortsOwns
    <3>4. CASE CreateStep(p)
      BY <3>4, CheckCompatibilityOwns, OpenGpioOwns, LockGpioOwns, LockFailsOwns, MapGpioOwns,
         NextMuxOwns, OpenBusOwns, SetSlaveOwns, OpenFlashOwns, ReadFlashInfoOwns DEF CreateStep
    <3>5. CASE FindPort(p) \/ UsePort(p) \/ DestroyBoard(p)
      BY <3>5, FindPortOwns, UsePortOwns, DestroyBoardOwns
    <3>6. CASE DestroyStep(p)
      BY <3>6, UnmapGpioOwns, UnlockGpioOwns, CloseGpioOwns, CloseMuxOwns, FreeBoardOwns
         DEF DestroyStep
    <3>7. CASE Dies(p)
      <4>1. Kept(debug, Fresh)
        BY FreshKept, KeptFacts
      <4>2. QED
        BY <3>7, <4>1, KeptStep DEF Dies, Goes
    <3>8. QED
      BY <3>1, <3>2, <3>3, <3>4, <3>5, <3>6, <3>7
  <2>3. QED
    BY <2>1, <2>2
<1>3. QED
  BY <1>1, <1>2, PTL DEF Spec

-----------------------------------------------------------------------------
\* Whatever is opened in whatever order and whatever fails on the way, destroy
\* without an error gives back all a board had (kraken_board.c 121-155).
THEOREM BoardDestroyReleasesAll == Spec => []DestroyReleasesAll
<1>1. BoardInv => DestroyReleasesAll
  BY DEF BoardInv, Kept, Owned, DestroyReleasesAll, At
<1>2. QED
  BY <1>1, BoardInvHolds, PTL

\* A release build leaks nothing, and a debug build the descriptor and the lock of
\* the GPIO device only after one of the named devices failed (kraken_board.c
\* 45-88).
THEOREM BoardLeaksExplained == Spec => []LeaksAreExplained
<1>1. BoardInv => LeaksAreExplained
  <2> SUFFICES ASSUME BoardInv, NEW p \in Procs
               PROVE  LET s == proc[p]
                      IN  /\ s.leaked # {} => debug
                          /\ R("lock") \in s.leaked => s.failed \cap {"mmap", "flash", "info"} # {}
                          /\ R("fd") \in s.leaked => s.failed \cap {"flock", "mmap", "flash", "info"} # {}
    BY DEF LeaksAreExplained
  <2>1. LeakExplained(debug, proc[p])
    BY KeptFacts
  <2>2. QED
    BY <2>1 DEF LeakExplained, Lock, Fd
<1>2. QED
  BY <1>1, BoardInvHolds, PTL

\* A board without multiplexers whose devices all worked never takes its process
\* down (kraken_board.c 126, 165, 190, kraken_port.c 60).
THEOREM BoardGpioBoardsSurvive == Spec => []GpioBoardsSurvive
<1>1. BoardInv => GpioBoardsSurvive
  <2> SUFFICES ASSUME BoardInv, NEW p \in Procs, proc[p].cfg.muxes = <<>>, proc[p].failed = {},
                      proc[p].pc = "lost"
               PROVE  FALSE
    BY DEF GpioBoardsSurvive, At
  <2>1. Crashes(debug, proc[p])
    BY DEF BoardInv, Kept
  <2>2. Len(proc[p].cfg.muxes) = 0
    OBVIOUS
  <2>3. QED
    BY <2>1, <2>2 DEF Crashes
<1>2. QED
  BY <1>1, BoardInvHolds, PTL
=============================================================================
