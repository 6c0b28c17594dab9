# EtherKraken in TLA+

A verification development for EtherKraken: TLA+ modules of the parts of
`libkraken` where threads, memory and time meet, TLC runs over small instances,
and proofs checked by TLAPS. Paths below are relative to the repository;
`libkraken/src` is shortened to `L`.

## 1. Inventory

EtherKraken is a controller board (RP3A0 SoC) with 38 programmable IOs. `libkraken`
is its hardware abstraction layer in C, `libkraken-interop` wraps it for Kotlin/Native,
`etherkraken-selftest` exercises it, and `etherkraken-bootloader2` is the firmware of
the board's STM32. One real-time thread per dispatcher bit-bangs protocols on IOs while
application threads configure it.

| Component | State | Operations | Hard behaviour | Correct when |
|---|---|---|---|---|
| Mutex, `L/util/kraken_mutex.c` | one atomic flag | lock, lock without yield, try_lock, unlock, try_unlock | two spinning loops, weak compare-exchange, sections a debug check cuts short | the flag is released, nobody spins for ever, one thread inside |
| Array list, `L/util/kraken_array_list.c` | memory, size, capacity | add, remove, get, set, index_of, contains, clear | growth, copying down on removal | it is the sequence its callers built |
| Dispatcher, `L/kraken_dispatcher.c` | list of clocks and its mutex, thread, is_running | create, register, unregister, destroy; the thread's loop | the thread walks a list others change; destroy against the thread | lists are exact, every clock is served, nothing is freed while in use |
| Clock, `L/kraken_clock.c` | period, next_event, list of drivers and its mutex | create, register, unregister, destroy, tick | next_event written by two threads; a copied handle used after removal | drivers are ticked while registered, events keep their phase |
| CPU, `L/kraken_cpu.c` | the free-running counter | get_counter, sleep_cycles | wrapping and signed arithmetic | no event is slept past |
| UART TX driver, `L/driver/kraken_uart_tx_driver.c` | layout, byte, bit, queue, IO | create, tick, write, wait, destroy | tick in one thread, write and wait in another | one frame per byte on the wire; wait means sent |
| Serial TX driver, `L/driver/kraken_serial_tx_driver.c` | byte, bit, queue, two IOs | as above, with a clock line | as above | every bit of a word is clocked out |
| Byte queue, `L/util/kraken_byte_queue.cpp` | external atomic_queue | enqueue, dequeue, is_empty | full and empty | FIFO |
| IO, port, GPIO backend: `L/kraken_io.c`, `L/port/kraken_port.c`, `L/device/bcm2835.c` | state, mode, pull mode per IO; registers | set, get, update, masked update, reinit | two threads update one port | outputs follow the states set |
| Multiplexer backend, `L/device/mcp23017.c` | IO states; chip registers | state update and init over I2C and SPI | error in the middle of three transfers | as above |
| Ports and board: `L/port/kraken_*_port.c`, `L/kraken_board.c` | ports, flash, config, descriptors | create, destroy, queries | early returns half way | what was acquired is released |
| Configuration, `L/config` | trees of configs | init, copy, destroy | ownership | deep copies share nothing |
| Flash, `L/kraken_flash.c` | descriptor and its offset | read, write, clear | lseek and transfer are two steps | a call touches its own range |
| Allocator, `L/kraken_alloc.c` | current allocator | set, get, malloc, realloc, free | swapped while memory is live | memory returns to where it came from |
| Error and log, `L/kraken_error.c`, `L/kraken_log.c` | last error per thread | set, get, panic | none beyond the checks' control flow | (the checks are modelled where they occur) |
| Bootloader, `etherkraken-bootloader2/src` | DMA rings, head and tail | read, transmit interrupt | the ring moves under the reader | bytes arrive once and in order |
| Kotlin wrappers, `libkraken-interop` | handles | one call each | lifetime of handles | as the C calls |

How they interact: an application registers drivers with a clock and the clock with a
dispatcher (calls that change array lists under a mutex). The dispatcher's thread, on a core of
its own, ticks every clock that is due; the clock calls back each driver's tick function; the
driver stores to `io->state` and returns a mask; the clock has the port write these IOs to the
device. Application threads feed drivers through byte queues and wait on their atomics. A
KRAKEN_DEBUG build makes the `KRAKEN_CHECK` macros test their condition and return; in a
release build they test nothing (`L/kraken_error_impl.h`). The difference is a constant,
`KrakenDebug`, of the modules it matters to.

## 2. Modules

| Module | Models | State | Actions |
|---|---|---|---|
| `KrakenAtomics` | C11 `atomic_compare_exchange_weak` (external) | | `CasWeak` |
| `KrakenMutex` | `kraken_mutex.c` | `isLocked`, `pc` per thread | one per access to the flag; the two lock functions differ only in what they do between attempts and share their actions |
| `AbstractList` | what `kraken_array_list.h` promises | `items`, `reply` | one per call |
| `ArrayList` | `kraken_array_list.c` | `memory`, `size`, `capacity` | one per call (a list belongs to one caller at a time here) |
| `ClockDispatch` | registry and lifetime in `kraken_dispatcher.c` and `kraken_clock.c` | every list with its mutex flag, the thread's and each caller's location and locals | one per access to shared memory (but see below): the array list taken apart into loads, slot copies and stores |
| `DispatchTiming` | the same loop's timing | `time`, `nextEvent`, the thread's locals | one per access to `next_event` or read of the counter |
| `UartTx` | `kraken_uart_tx_driver.c` | layout (operators), `queue`, `bit`, `byte`, `ioState`, `wire` | one per access to the state both threads share |
| `Port` | a GPIO port: `kraken_io.c`, `kraken_port.c`, `device/bcm2835.c` | the atomics of each IO, the device's registers and what they control (function, output, pull of each pin), the locals of each call | one per load or store of an atomic or a register |
| `SerialTx` | `kraken_serial_tx_driver.c`, composed with `Port` | as `UartTx`, with the wires being pins of `Port` | tick, write and wait; after each tick `Port`'s own masked update, register by register |
| `Board` | `kraken_board.c`, `kraken_*_port.c`, `kraken_config.c`, create and destroy of `kraken_flash.c` | per process: where it is, what it holds, what it has lost track of | one per system call with the private work that follows it; faults, crashes, kills |
| `Flash` | read, write and clear of `kraken_flash.c` | the descriptor's offset, the cells, each call's locals | seek and transfer are two steps |
| `KrakenMutexProofs`, `ArrayListProofs`, `ClockDispatchProofs`, `DispatchTimingProofs`, `UartTxProofs`, `PortProofs`, `BoardProofs`, `FlashProofs` | theorems about the module each is named for; `PortProofs` also about `SerialTx` | | |
| `MC...` | instances for TLC | | |

`SerialTx` EXTENDS `Port` and lets the dispatcher's tick call it; `ArrayList` is refined to
`AbstractList`; `KrakenMutex` and `ClockDispatch` share `KrakenAtomics`. `UartTx` predates `Port` and has the
port's update as one step: the two drivers show the port from both sides.

Variables marked "history" in a module do not exist in the code: they record what a property
talks about (what a caller was told, what the wire carried) and no guard of the code's
actions depends on them. `ClockDispatch` and `DispatchTiming` are two views of one loop:
the first forgets time (whether a clock is due is nondeterministic), the second forgets how
lists are stored. Each behaviour of the code is a behaviour of both.

Names starting with `Mutant` are the mutated forms of definitions, as a plausible mistake in the
code would make them; no specification uses them. They document what each property detects.

Each module has a `TypeOK` that documents its types. The mutex and list runs check it. For the
others it is not among the listed properties, since the deeper invariants fail long before a type
does; `Flash`'s is part of its proved invariant.

### Abstractions

- Data: handles are model values; a list slot holds a handle, a cleared value or `Junk`
  (memory nobody wrote, or given back). Bytes are numbers, since parity depends on them. A register
  with a bit per pin is the set of pins whose bit is 1, and pairs of 32-bit registers are
  one such set split by `Bank`. A flash cell is erased, old, new or mixed.
- `remove` calls `memcpy` on overlapping ranges. The C standard leaves that undefined; the model
  takes the copy from the lower address up, which is what the board's library does for a
  destination below the source.
- Allocation never fails. Null arguments are not passed (the checks for them are first in
  each function and change nothing).
- Memory accesses are sequentially consistent. The flag, `next_event`, `bit`, `byte`, an IO's fields, and a list's
  memory, size and capacity (`kraken_array_list.h:22-27`) are C11 atomics with the default order. The slots
  themselves are plain memory; what the reordering of their copies could add is not modelled.
- Granularity: in the modules of threads one step is one access to shared state, with four exceptions. `GrowList`
  (`ClockDispatch`) takes realloc's move with the stores of capacity and memory behind it, since a reader in between gets
  `Junk` just as one after the move does; `FindItem` takes the whole search of a list only the searching thread writes;
  `ToggleClock` (`SerialTx`) loads and stores the clock IO's state, which nobody else writes; `DriveData` counts the
  bit and stores its level.
- `UartTx` takes ticks back to back; the port's update copies `io->state` to the pin and
  leaves an arbitrary value in `io->state`, of which the write-back in `Port` is one.
- A tick's duration is any number of counter cycles.
- `Board` keeps, per process, a set of named resources: memory blocks, descriptors, the lock and the mapping. A
  resource moves from `held` to `leaked` when the last reference to it is dropped. The lock and
  the registers are per machine; everything else is per process and needs no interleaving.
- The MTD driver under `Flash` is external: a write to a cell that is not erased does not take the new value.

## 3. Runs

`tlc -config <cfg> <module>`; the passing runs end within three minutes each, most within half a minute.

| Run | Shows | Bounds, and why they are enough |
|---|---|---|
| `mutex_calls` | `FlagAccountedFor`: a set flag always has somebody who will clear it, unless a debug check cut the section short. `SomeLockCallReturns`: callers do not block each other for good | 4 threads: a holder, two spinners and a newcomer. Theorems cover any number |
| `mutex_exclusion` (violated) | the loop's condition is the wrong way round: two threads get inside | 2 threads |
| `list_calls` | the list implements `AbstractList`; listed slots are elements; accesses stay within one slot of the memory | two elements, initial capacity 2, up to 4 elements: grows once, is full before and after. Theorems cover all sizes and the release build |
| `dispatch_selftest` | `ListsAreExact`, `WalkIsComplete`, `StaleTicksBounded`, `FreedAfterExit`, `UndisturbedWalksAreSafe`; every call returns (`CallsReturn`), also past a section a debug check cut short; registered clocks are visited (`ListedClocksAreVisited`) | 2 clocks, 2 drivers, 4 calls of one thread against the dispatcher's: lists grow from one slot, the first of two is removed, a clock is destroyed, the dispatcher is shut down; in any order, so that each pair of these meets each point of a walk. A whole cycle of the self test is seven calls and is not covered in one behaviour. More calls make the liveness check too long. Two application threads at once are left to `mutex_calls` and to the theorems, which hold for any number of them with a writer per list |
| `dispatch_null_clock` (violated) | a walk reads past a list that shrank | 2 clocks |
| `timing_pace` | `NextEventIsNear`, `PhaseIsKept`, `TicksArePaced`, `NoEventSlept`, `RegisteringStartsClock` | two clocks with periods 2 and 3, counter 4 to 10, any tick length: on time, late by several periods, longer than the period; one registration of a driver at any moment |
| `uart_frames` | frames in order, each as long as the next and with its parts in place; idle level; `wait` returns, with everything sent but for the fetch; delivery | shortest and longest frames with every parity; 3 bytes through a queue of 1, so the writer meets a full queue |
| `uart_documented` (violated) | a ninth, low data bit and an inverted parity bit in the frame that has gone out when `wait` returns | eight data bits, one stop bit, both computed parities, one byte |
| `port_updates` | `ForeignPinsUntouched`, `LevelsWereAsked`, `UpdateIsExact`, `ReinitIsExact` | a port with pin 3 (fits in the state's byte) and pin 40 (does not; other bank), pin 48 of the MMC in the function register of pin 40; two threads, two calls, one change of an IO or a wire at any moment: every pair of updates and reinits overlaps in every way. A third call would overlap the same steps |
| `serial_words` | words in order, the same number of bits of each, an edge per bit, data before the rising edge, what `wait` guarantees, delivery | the shortest and longest word size, patterns with both values in every position, 3 words through a queue of 2, with idle ticks anywhere between them |
| `board_life` | one owner of the registers, release on destroy, no leak in a release build and what it takes to leak the lock in a debug build, GPIO-only boards crash nobody, waiters get in | 2 processes, 3 boards in all, 2 faults (failed calls or kills), both builds, three configurations: the V1B, an I2C multiplexer with flash, GPIO alone. Two faults let the second meet the aftermath of the first; three boards let a process reopen while another waits |
| `flash_transfers` | `LoneTransfersAreExact`, `TransfersStayWhereAsked` | 2 threads, 3 calls, 3 cells, both builds; ranges that overlap, reach the end, lie beyond it, are too large or empty |

Deadlock is not checked (`CHECK_DEADLOCK FALSE`) where the system stops: after a dispatcher's
shutdown or the loss of its process, when the timing model's counter or a bound on the
calls is reached. Symmetry is used only for runs without liveness.

Bounds by name: `MaxSize` (list), `MaxCalls` (calls, in `ClockDispatch` per thread), `MaxTime`, `MaxRegs` and `Width`
(the counter is far from wrapping; `next_event` may wrap), `MaxBytes`, `MaxWords`, `MaxSets` (changes of IOs and
wires), `MaxCreates`, `MaxFaults`, `Size` (cells). `TimingAssumption` says that
clocks are registered at least one period after power-on; before that `now - period` wraps.
`SerialAssumption` leaves out word sizes 0 and 1, with which the bit counter never
meets its end in time. Both are recorded under "hazards".

### Fairness

- A thread inside a lock loop goes on looping and a section is left again (weak fairness):
  threads are preempted for finite times.
- `ClockDispatch`: the dispatcher thread is SCHED_FIFO with priority 99 and pinned to a core; it
  never stops running. Users run on the other cores. `SF_vars(Enter)` says that a
  caller whose lock attempt fails infinitely often in principle does meet a set flag at some
  time: it attempts every scheduling quantum, the flag is cleared once per walk. Only a caller
  in perfect step with every unlock would starve, which no property excludes; `SomeLockCallReturns` shows without that
  assumption that somebody gets on.
- `UartTx`, `SerialTx`: the driver is registered with a running clock, so ticks follow ticks; the waiting
  thread yields and looks again. Nothing is assumed about write and wait being called.
- `Board`: a call that began goes on, an application closes the boards it opened and a crashed process
  is cleaned up (weak); the kernel serves those who wait in `flock`, though newcomers
  may get in between (strong). No fault has to happen.

## 4. Findings

Places where the code does otherwise than a line of the repository says. Each is a property that states that line
and that TLC finds violated. The first four have a run in `PROJECT.json`:

1. `mutex_exclusion`, `kraken_mutex.c:27`: both lock loops repeat the exchange while it *succeeds*. A lock call
   returns when the flag is set, by whomever. The mutex (`kraken_mutex.h:21`) excludes nobody, and everything below
   that involves two callers of the dispatcher follows.
2. `dispatch_null_clock`, `kraken_dispatcher.c:36`: the walk uses a size read before the lock (line 27); unregistering
   a clock meanwhile (`kraken_dispatcher.h:41`) makes it dereference a null or stale slot.
   `UndisturbedWalksAreSafe` is the other side: nothing else does.
3. `uart_documented`, `kraken_uart_tx_driver.c:107`: `data_bits + 1` data bits are sent, the last one low, where the
   stop bit (or the parity bit) should be; `kraken_uart.h:33` and the diagram at `kraken_uart_tx_driver.c:24-30`.
   `MCUartTxDataBits.cfg` shows it alone, on the 8N1 of the Kotlin wrapper.
4. `uart_documented`, `kraken_uart_tx_driver.c:66`: the computed parity bit is inverted against `kraken_uart.h:24-25`;
   alone in `MCUartTxParity.cfg`.

The others are kept as a property and a configuration to run by hand (`tlc -config <cfg> <module>` reports the
violation); the passing properties next to them hold without claiming what these refute:

| | Configuration, property | Code | The line it contradicts |
|---|---|---|---|
| 5 | `MCUartTxWait.cfg`, `WaitMeansSent` | `kraken_uart_tx_driver.c:179`: between the tick's dequeue and its reset of the counter `wait` sees an empty queue and the count of the frame before, and returns with a whole frame to go. `WaitIsExactOutsideFetch` is the other side: it returns early nowhere else | self test, `Main.kt:109`: "Wait until internal TX buffer is empty and last bit was sent" |
| 6 | `MCPortMask.cfg`, `MaskLeavesOthersAlone` | `bcm2835.c:51`: an update stores FALSE to the state of every IO outside its mask | `bcm2835.c:44`: "Mask bit determines if we update this IO" |
| 7 | `MCPortReadback.cfg`, `StateTellsLevel` | `bcm2835.c:51`: the level is stored at the pin's bit position and cut to 8 bits, so the state of a pin from 8 up of its bank reads FALSE after every update. The serial clock, toggled by negating that state, rises once and stays on such a pin (`SerialEdgeMarksBit`), which all GPIO pins of the V1B are | `kraken_io.h:87`: "Retrieves the current state of a given I/O handle." |
| 8 | `MCSerialTxWordSize.cfg`, `WordsAreWhole` | `kraken_serial_tx_driver.c:27`: a word counts as done before its last bit is sent, so its top bit never is | `kraken_serial_tx_driver.h:26`: "The size of each serial word in bits" |
| 9 | `MCBoardDestroy.cfg`, `DestroyLosesNothing` | `kraken_i2c_mux_port.c:56`: the type check fails for every I2C port, so a debug build's destroy returns half way | `kraken_board.h:78`: "releases all associated resources" |
| 10 | `MCBoardNullPort.cfg`, `NoCallCrashes` | `kraken_board.c:165`: SPI ports are never created, and searches (165, 192) and destroy (126) read through their null addresses; the V1B has two | `kraken_board.h:91-92`: an error "if no port is associated with the given IO"; 107-108, fails for an invalid handle |
| 11 | `MCBoardCreate.cfg`, `CreatedBoardsAreWhole` | `kraken_board.c:59`: the results of the port constructors are ignored, and create returns KRAKEN_OK | `kraken_board.h:46`: an error "when the config is invalid or board initialization fails" |

The models record more of the code's behaviour than these. Where no sentence was found that it contradicts, the passing
properties state what holds instead, or exempt the case and say so:

- Dispatcher: unregister does not wait for a tick in flight; the driver is ticked once more, never
  twice (`kraken_clock.c:84`, `StaleTicksBounded`). A driver registered between the two halves of a catch-up gets
  the missed periods of the old event added to the new one (`kraken_dispatcher.c:47`,
  `RegisteringStartsClock`). Two concurrent adds to one list can lose one (`kraken_array_list.c:58`, a consequence of 1).
- Serial: `wait` may return with one word to go, as in 5 (`WaitLeavesOneWord`); this driver's wait is described nowhere. After an
  idle tick one clock edge is missing (`EdgeMarksBit`), since the port rewrites the state the clock is toggled from.
- Port: at pin 0 or 32 an input's level is left as a state of 1 that nobody set, and if the IO becomes an output
  the next update may drive it (`bcm2835.c:51`); the V1B has no IO there.
- Board: the V1B's GPIO configuration has no alias, so a debug build cannot create it (`kraken_config.c:68`) and
  loses what it had copied. `mmap`'s failure is compared with null, so a debug build's destroy stops at `munmap` with the lock
  held (9 again, after a failure), and a debug build that fails to open its flash gives up with the lock held (`LeaksAreExplained`). The
  multiplexer configurations are copied as zeros, so a release build's update of an I2C port calls a null function.
- Flash: `lseek`'s result is ignored, so in a release build a transfer beyond the end takes place
  wherever the file was left. Overlapping calls transfer at each other's offsets (`TransfersStayWhereAsked`).

## 5. Proofs

`tlapm <module>` for `KrakenMutexProofs`, `ArrayListProofs`, `ClockDispatchProofs`, `DispatchTimingProofs`,
`UartTxProofs`, `PortProofs`, `BoardProofs` and `FlashProofs`.

- `MutexTypeCorrect`, `MutexFlagAccounted`: for every set of threads, either build, with and
  without spurious failures. `FlagAccountedFor` is inductive together with `TypeOK`: an exchange
  that sets the flag leaves its caller spinning or inside, and a thread leaves "inside" only
  by clearing the flag or by abandoning the section, which the history variable records.
  `MutexQuiescentIsFree` adds that sections are abandoned in debug builds only, so that in a
  release build a mutex nobody uses is free.
- `ListedSlotsCorrect`, `ListTypeCorrect`, `ListAccessesNear`: no list operation lists a slot that holds no element, lets
  the size exceed the capacity, or touches memory more than one slot beyond the list's own, for every initial
  capacity, bound and set of elements. The invariant is `ListInv`: types, the listed slots,
  and that the size stays within the capacity; removal needs it to know that the slots it
  copies are listed ones.
- `ArrayListImplementsList`: `Spec => ImplementsList`, the refinement. The mapping takes `items` to
  the first `size` slots. Under `ListInv` the initial state maps to the empty list and each
  call to its abstract call with the same reply; one lemma per call.
- `DispatcherFreedAfterExit`: for any users, clocks, drivers and calls, in both builds. `ExitInv` adds that a user at the
  free has joined the thread, that an exited thread takes no step, and that what destroy takes from the
  lists is a clock or a driver, so that only shutdown gets to the free of the dispatcher.
- `ListsAreExactAlways`, `WalkIsCompleteAlways`, `UndisturbedWalksAreSafeAlways`, `StaleTicksBoundedAlways`: for any
  clocks, drivers, users, calls and capacities, in both builds, under the hypothesis `OneWriter`: no two users
  register or unregister with the same list. Without it they are false (finding 1: two adds can lose one), and the passing
  run satisfies it. The dispatcher's thread reads the lists at any time either way, and clears the mutex flag under a
  writer. The invariants build on one another: `TypeInv` (what each location of
  the thread and of a user can hold), `ListInv` (a list is what its callers were told but for the half-done call of its
  writer, whose location and locals say which slots are already copied), `WalkInv` (an undisturbed walk has read the
  first `i` slots), `LiveInv` (what is listed is not destroyed) and `StaleInv` (a driver in no list was
  ticked once since, or is in the thread's hand).
- `ServedEventIsNear`, `ServedEventKeepsPhase`: for any clocks, periods, lateness and length of ticks and any width of the counter.
  `TimingInv` says at each location of the loop how the clock's event stands to the locals already read, and that these
  were read in order. No sum wraps, since `2 * MaxTime < Modulus`; the missed periods the code adds bring the event past
  the tick's end by at most one period. Clocks a registration has raced are excepted, as in the properties.
- `TicksArePacedAlways`, `NoEventSleptAlways`, `RegisteringStartsClockAlways`: in the same generality. `PaceInv` ties the event
  of each clock not at hand to the end and length of its last tick. `SleepInv` says that the minimum the walk keeps is
  not above the event of any clock walked over; serving one clock moves no other's, as the list
  holds no clock twice. `StartInv` follows the event a registration has reset through the catch-up that may be under way.
- `WireShowsFrames`, `LineRestsHigh`, `WaitExactOutsideFetch`: for every configuration, any bytes and any buffer size. `UartInv`
  counts: the queue is the end of what was written, the bytes fetched and the bit of the frame tell how many levels were
  sent, and what the tick has driven is the next level of the reference. `LevelIsReference` is the layout that create
  computes against the frame the property spells out; `ReferenceIsStable` that later writes change nothing already sent.
- `PortForeignUntouched`: for every port, mask and set of threads, no interleaving of updates and reinits changes a pin
  outside the port. `ForeignPinsUntouched` alone is not inductive: reinit writes whole
  function registers from a local copy. `PortInv` adds that every such copy has the boot value for each foreign
  pin already read, that the banks still unread are those left, and that the sets a call has gathered hold pins of the port only,
  as does the pull clock.
- `PortLevelsWereAsked`: its hypothesis `HighReadsLow` is that no IO is pin 0 or 32 (section 4). `HistoryInv` ties each
  call in progress to the history; `AskedInv` says that what a call has gathered for `gpset` and `gpclr`, and the states
  a lone update has not come to, were asked for while it could see them, through both loads of a state and the store after them.
- `PortUpdateIsExact`, `PortReinitIsExact`: any port and mask, pins 0 and 32 included. `UpdateInv` describes a lone update at each of its
  locations, pin by pin: passed, ahead, or at hand; and the outputs between its four stores. `ReinitInv` does so for a lone
  reinit. `ClockInv` adds that a pad's clock is on only between the two stores of a reinit in progress.
- `SerialWireCarriesWords`, `SerialWaitLeavesOneWord`: any words, word sizes from 2 to 8, any buffer, and two pins of a port of any size, register by
  register. `WordsInv` counts: the words fetched and the bit tell how many levels were sent, and each sent
  level is that of its word. `PinsInv` says that updates are the ticks' own, so `PortInv`, `HistoryInv` and `UpdateInv` hold under the
  driver's steps too, and give the level each update leaves on the data pin.
- `SerialEdgeMarksBit`: for every clock pin. If it is one of the first eight of its bank, as the self test's is, each bit
  but the first after an idle tick moves it; `EdgeInv` follows its level through `io->state` from one update to the next tick. On any
  other pin it rises with the first bit and never moves again; `RiseInv` says that the state a tick negates is 0 there, so every
  tick with a bit asks for a high clock (finding 7).
- `SerialRisingEdgeMarksData`: an action property, if the data pin's bank is not above the clock pin's. With the clock in
  bank 0 and the data in bank 1 it is false: bank 0 is set before bank 1 is written, so the clock rises over the old bit.
- `BoardRegistersHaveOneOwner`: for any processes, configurations, failures and kills. `OwnerInv` says
  that the lock has one owner, that whoever has the mapping has the lock or was let past a failed `flock` in a
  release build, that a leak takes lock and mapping along together, and that at unlock and close the mapping
  is gone. Unmapping before unlocking, in `kraken_gpio_port_destroy`, is what the last part is about.
- `BoardDestroyReleasesAll`, `BoardLeaksExplained`, `BoardGpioBoardsSurvive`: in the same generality. `BoardInv` says for each location of
  create and destroy which ports are there (`Located`), that what is held belongs to what is still to be destroyed (`Owned`), that a
  port or its mapping is missing (`MissingExplained`) and something leaked (`LeakExplained`) only after the failures that do so, and that a crash takes a multiplexer or
  a failed device (`Crashes`).
- `FlashTransfersStay`: an action property, for any threads and requests. `FlashInv` says that while calls are in progress
  the offset, and each call's own position, are among those the overlapping calls asked for or were left with. It contains
  the module's `TypeOK`.
- `FlashLoneTransfersExact`: for a transfer no other call overlapped. `LoneInv` says that while such a call is in progress no other
  is, and that from its seek on the file is where it asked.

The assumptions are those named in the modules (`CapacityAssumption`, `PortAssumption`, `BoardAssumption`, ...): TLC
evaluates them in the runs. Only model-checked: the delivery, progress and return properties, that is all liveness (fairness and
ENABLED are out of the prover's reach), and the properties the findings violate. `BitOf` and `StateByte` use
powers of 2 with variable exponents, which the SMT solver does not decide; the proofs keep `BitOf` opaque, or split on
the exponent where its range is small.

## 6. Not modelled, and the plan

- MCP23017 backend (`mcp23017.c`): no IO of a multiplexer port ever exists. SPI ports are never created, an I2C
  port's copy of its configuration is zero (its callbacks and pins with it), so there is no state
  from which its transfers start; `Board` models the calls that get there. Line 42 builds
  the output from `io->mode`, which will matter when the copy is completed.
- Bootloader: its receive channel is never enabled, `bl2_uart_read` is never called and `bl2_uart_write` is
  a TODO, so its rings do not move.
- Kotlin wrappers: one C call per method, no state of their own. The self test's sequence of calls is
  the `Selftest` workload of `MCClockDispatch`.
- Allocator: a pointer to three functions that nothing in the repository changes after start; swapped while
  memory is live (`kraken_alloc.c:30`) it would free what another one gave. Failing allocations are not modelled.
- `kraken_dispatcher_get_clocks`, names, types and the IO getters are reads. The board layout, the RTOS image and the
  build files hold no program logic.

Next, in this order: `UartTx` over `Port` as `SerialTx` is, or a proof that `SerialTx` with `Port` refines a queue that empties onto a wire;
`TypeOK` of `ClockDispatch` and `DispatchTiming`; a composition of `ClockDispatch` with the drivers' destroy, for more than
one application thread.
