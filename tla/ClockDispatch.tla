--------------------------- MODULE ClockDispatch ---------------------------
(***************************************************************************)
(* libkraken/src/kraken_dispatcher.c and kraken_clock.c: the dispatcher    *)
(* thread walks the list of clocks and, for each clock that is due, the    *)
(* clock's list of drivers, while application threads register, unregister *)
(* and destroy clocks and drivers and finally destroy the dispatcher.      *)
(*                                                                         *)
(* A step is one access to shared memory: an attempt on a mutex flag, a    *)
(* load of a list's size or buffer, the copy of one slot.  The lists are   *)
(* those of ArrayList taken apart into such steps, because the mutex (see  *)
(* KrakenMutex) lets several threads into its section.  Two definitions    *)
(* are coarser: GrowList takes realloc's move with the stores of capacity  *)
(* and memory behind it (a reader in between finds what one after the move *)
(* finds), and FindItem takes the whole search, whose slots nobody else    *)
(* writes while a list has one writer.  Time is left out:                  *)
(* whether a clock is due is nondeterministic here (see DispatchTiming).   *)
(***************************************************************************)
EXTENDS KrakenAtomics, Sequences, FiniteSets

CONSTANTS Clocks, Drivers, Users,
          Dispatcher,       \* the owner of the list of clocks
          Null, Junk,       \* a cleared slot; a slot nobody wrote or memory given back
          InitialCapacity,  \* of every list; 4 in the code
          Calls,            \* which calls each user makes: [Users -> SUBSET (op x owner)]
          MaxCalls,         \* bound: calls per user
          KrakenDebug       \* TRUE: the build defines KRAKEN_DEBUG

Owners  == Clocks \cup {Dispatcher}
Items(o) == IF o = Dispatcher THEN Clocks ELSE Drivers
Handles == Clocks \cup Drivers

ASSUME DispatchAssumption ==
    /\ Clocks \cap Drivers = {}
    /\ Dispatcher \notin Clocks \cup Drivers
    /\ {Null, Junk} \cap (Clocks \cup Drivers) = {}
    /\ InitialCapacity \in Nat \ {0}
    /\ Calls \in [Users -> SUBSET ({"register", "unregister", "destroy", "shutdown"} \X Owners)]
    /\ MaxCalls \in Nat
    /\ KrakenDebug \in BOOLEAN

VARIABLES list,       \* per owner: memory, size, capacity and its mutex's flag
          disp,       \* the dispatcher thread: where it is, and its locals
          user,       \* per user: where it is in which call
          isRunning,  \* dispatcher->is_running
          gone,       \* handles that were destroyed; Dispatcher once its list is freed
          listed,     \* history: what each owner's callers were told is listed
          stale,      \* history: ticks of a driver since it left its last list
          pass        \* history: the slots read in this walk over the clocks, and
                      \* whether the list changed under it

vars == <<list, disp, user, isRunning, gone, listed, stale, pass>>

-----------------------------------------------------------------------------
Slot(o, i) == IF i < list[o].capacity THEN list[o].memory[i] ELSE Junk

ListOf(o) == [k \in 1..list[o].size |-> Slot(o, k - 1)]

Contains(s, x) == \E k \in 1..Len(s) : s[k] = x

\* A user between two calls; pos, n and found are locals of a call.
Returned(calls) == [pc |-> "idle", op |-> "none", owner |-> Dispatcher, item |-> Null,
                    pos |-> 0, n |-> 0, found |-> FALSE, calls |-> calls]

Init ==
    /\ list = [o \in Owners |->
                  [memory   |-> [i \in 0..(InitialCapacity - 1) |-> Null],
                   size     |-> 0,
                   capacity |-> InitialCapacity,
                   locked   |-> FALSE]]
    /\ disp = [pc |-> "top", n |-> 0, i |-> 0, clock |-> Null,
               j |-> 0, driver |-> Null, buffer |-> "none"]
    /\ user = [u \in Users |-> Returned(0)]
    /\ isRunning = TRUE
    /\ gone = {}
    /\ listed = [o \in Owners |-> <<>>]
    /\ stale = [d \in Drivers |-> 0]
    /\ pass = [read |-> <<>>, changed |-> FALSE]

\* A null, unwritten or freed handle was dereferenced: the process is lost.
Lost == disp.pc = "undefined"

-----------------------------------------------------------------------------
(* The dispatcher thread.                                                  *)

DispatcherOnly == UNCHANGED <<user, isRunning, gone, listed>>

\* The locations in which the thread goes on to dereference disp.clock or
\* disp.driver.
UsesClock  == disp.pc \in {"clockUse", "tickLock", "driverNext", "driverGet", "driverLoad",
                           "driverCopy", "driverUse", "ticking", "tickUnlock", "ticked"}
UsesDriver == disp.pc \in {"driverUse", "ticking"}

BadHandle == \/ UsesClock  /\ disp.clock  \notin Clocks  \ gone
             \/ UsesDriver /\ disp.driver \notin Drivers \ gone

\* Mutant: the walk stops one clock early.
MutantLoopStopsEarly(i) == IF i + 1 < disp.n THEN "clockGet" ELSE "unlock"

\* Where the walk over the clocks goes on after index i.
ClockLoop(i) == IF i < disp.n THEN "clockGet" ELSE "unlock"

NextClock == disp' = [disp EXCEPT !.i = disp.i + 1, !.pc = ClockLoop(disp.i + 1)]

\* Mutant: the loop does not look at is_running.
MutantNeverStops ==
    /\ disp.pc = "top"
    /\ disp' = [disp EXCEPT !.pc = "size"]
    /\ DispatcherOnly /\ UNCHANGED <<list, stale, pass>>

ReadRunning ==
    /\ disp.pc = "top"
    /\ disp' = [disp EXCEPT !.pc = IF isRunning THEN "size" ELSE "exited"]
    /\ DispatcherOnly /\ UNCHANGED <<list, stale, pass>>

\* Mutant: the walk leaves out the last clock.
MutantReadSizeShort ==
    /\ disp.pc = "size"
    /\ LET n == list[Dispatcher].size
       IN  disp' = [disp EXCEPT !.n = n - 1, !.i = 0, !.pc = IF n <= 1 THEN "top" ELSE "lock"]
    /\ pass' = [read |-> <<>>, changed |-> FALSE]
    /\ DispatcherOnly /\ UNCHANGED <<list, stale>>

\* The size is read before the mutex is taken, and not again in this walk.
ReadSize ==
    /\ disp.pc = "size"
    /\ LET n == list[Dispatcher].size
       IN  disp' = [disp EXCEPT !.n = n, !.i = 0, !.pc = IF n = 0 THEN "top" ELSE "lock"]
    /\ pass' = [read |-> <<>>, changed |-> FALSE]
    /\ DispatcherOnly /\ UNCHANGED <<list, stale>>

\* One attempt of kraken_mutex_lock_no_yield on o's mutex: go round while the
\* exchange succeeds.
Attempt(o, entered) ==
    \E ok \in BOOLEAN, flag \in BOOLEAN :
        /\ CasWeak(list[o].locked, flag, FALSE, TRUE, ok)
        /\ list' = [list EXCEPT ![o].locked = flag]
        /\ IF ok THEN UNCHANGED disp ELSE disp' = entered

LockClocks ==
    /\ disp.pc = "lock"
    /\ Attempt(Dispatcher, [disp EXCEPT !.pc = ClockLoop(disp.i)])
    /\ DispatcherOnly /\ UNCHANGED <<stale, pass>>

\* kraken_array_list_get: the index check (debug only), the load of the
\* buffer, and the copy of the slot.
GetClock ==
    /\ disp.pc = "clockGet"
    /\ IF KrakenDebug /\ disp.i >= list[Dispatcher].size
          THEN NextClock
          ELSE disp' = [disp EXCEPT !.pc = "clockLoad"]
    /\ DispatcherOnly /\ UNCHANGED <<list, stale, pass>>

LoadBuffer ==
    /\ \/ disp.pc = "clockLoad"  /\ disp' = [disp EXCEPT !.pc = "clockCopy",  !.buffer = "current"]
       \/ disp.pc = "driverLoad" /\ ~BadHandle
                                 /\ disp' = [disp EXCEPT !.pc = "driverCopy", !.buffer = "current"]
    /\ DispatcherOnly /\ UNCHANGED <<list, stale, pass>>

Copied(o, i) == IF disp.buffer = "current" THEN Slot(o, i) ELSE Junk

CopyClock ==
    /\ disp.pc = "clockCopy"
    /\ LET c == Copied(Dispatcher, disp.i)
       IN  /\ disp' = [disp EXCEPT !.pc = "clockUse", !.clock = c, !.buffer = "none"]
           /\ pass' = [pass EXCEPT !.read = Append(@, c)]
    /\ DispatcherOnly /\ UNCHANGED <<list, stale>>

\* The clock is due, or it is not; time is not modelled here.
UseClock ==
    /\ disp.pc = "clockUse" /\ ~BadHandle
    /\ NextClock \/ disp' = [disp EXCEPT !.pc = "tickLock"]
    /\ DispatcherOnly /\ UNCHANGED <<list, stale, pass>>

LockDrivers ==
    /\ disp.pc = "tickLock" /\ ~BadHandle
    /\ Attempt(disp.clock, [disp EXCEPT !.pc = "driverNext", !.j = 0])
    /\ DispatcherOnly /\ UNCHANGED <<stale, pass>>

\* The size of the driver list is read again for every index.
NextDriver ==
    /\ disp.pc = "driverNext" /\ ~BadHandle
    /\ disp' = [disp EXCEPT !.pc = IF disp.j < list[disp.clock].size
                                      THEN "driverGet" ELSE "tickUnlock"]
    /\ DispatcherOnly /\ UNCHANGED <<list, stale, pass>>

\* A failing index check ends kraken_clock_tick with the mutex flag left set.
GetDriver ==
    /\ disp.pc = "driverGet" /\ ~BadHandle
    /\ disp' = [disp EXCEPT !.pc = IF KrakenDebug /\ disp.j >= list[disp.clock].size
                                      THEN "ticked" ELSE "driverLoad"]
    /\ DispatcherOnly /\ UNCHANGED <<list, stale, pass>>

CopyDriver ==
    /\ disp.pc = "driverCopy" /\ ~BadHandle
    /\ disp' = [disp EXCEPT !.pc = "driverUse", !.buffer = "none",
                            !.driver = Copied(disp.clock, disp.j)]
    /\ DispatcherOnly /\ UNCHANGED <<list, stale, pass>>

IsListed(d) == \E c \in Clocks : Contains(listed[c], d)

\* driver->pfn_tick is entered.
TickDriver ==
    /\ disp.pc = "driverUse" /\ ~BadHandle
    /\ disp' = [disp EXCEPT !.pc = "ticking"]
    /\ stale' = [stale EXCEPT ![disp.driver] = IF IsListed(disp.driver) THEN 0 ELSE @ + 1]
    /\ DispatcherOnly /\ UNCHANGED <<list, pass>>

\* pfn_tick has returned and the masked port update is done.
DriverTicked ==
    /\ disp.pc = "ticking" /\ ~BadHandle
    /\ disp' = [disp EXCEPT !.pc = "driverNext", !.j = disp.j + 1]
    /\ DispatcherOnly /\ UNCHANGED <<list, stale, pass>>

UnlockDrivers ==
    /\ disp.pc = "tickUnlock" /\ ~BadHandle
    /\ list' = [list EXCEPT ![disp.clock].locked = FALSE]
    /\ disp' = [disp EXCEPT !.pc = "ticked"]
    /\ DispatcherOnly /\ UNCHANGED <<stale, pass>>

\* The clock's next_event is advanced, and the walk goes on.
ClockTicked ==
    /\ disp.pc = "ticked" /\ ~BadHandle
    /\ NextClock
    /\ DispatcherOnly /\ UNCHANGED <<list, stale, pass>>

UnlockClocks ==
    /\ disp.pc = "unlock"
    /\ list' = [list EXCEPT ![Dispatcher].locked = FALSE]
    /\ disp' = [disp EXCEPT !.pc = "top", !.clock = Null, !.driver = Null, !.j = 0]
    /\ DispatcherOnly /\ UNCHANGED <<stale, pass>>

UseBadHandle ==
    /\ BadHandle
    /\ disp' = [disp EXCEPT !.pc = "undefined"]
    /\ DispatcherOnly /\ UNCHANGED <<list, stale, pass>>

DispatcherStep ==
    \/ ReadRunning \/ ReadSize \/ LockClocks \/ GetClock \/ LoadBuffer \/ CopyClock
    \/ UseClock \/ LockDrivers \/ NextDriver \/ GetDriver \/ CopyDriver \/ TickDriver
    \/ DriverTicked \/ UnlockDrivers \/ ClockTicked \/ UnlockClocks \/ UseBadHandle

-----------------------------------------------------------------------------
(* The application threads.                                                *)

UserOnly == UNCHANGED <<stale, pass>>

At(u, pc) == user[u].pc = pc

\* Calls in progress that involve the handle h.
Busy(h) == \E u \in Users : ~At(u, "idle") /\ h \in {user[u].owner, user[u].item}

\* Neither destroyed nor being destroyed.
Alive(h) == h \notin gone /\ \A u \in Users : user[u].op = "destroy" => user[u].item # h

\* The contract of the callers: handles are alive, an item is in an owner's
\* list at most once, what is destroyed is listed nowhere, and the dispatcher
\* is destroyed last.  Unregistering an item that is not listed is legal: it is
\* answered with an error.
MayCall(op, o, x) ==
    CASE op = "register"   -> Alive(o) /\ Alive(x) /\ ~Contains(listed[o], x) /\ isRunning
      [] op = "unregister" -> Alive(o) /\ Alive(x) /\ isRunning
                              /\ \A u \in Users : user[u].item # x
      [] op = "destroy"    -> /\ x \notin gone /\ ~Busy(x)
                              /\ \A p \in Owners : ~Contains(listed[p], x)
                              /\ x \in Clocks => listed[x] = <<>>
      [] op = "shutdown"   -> Dispatcher \notin gone /\ isRunning /\ ~Busy(Dispatcher)

FirstStep(op) == CASE op \in {"register", "unregister"} -> "lock"
                   [] op = "destroy"  -> "destroy"
                   [] op = "shutdown" -> "stop"

Begin(u, op, o, x) ==
    /\ At(u, "idle") /\ user[u].calls < MaxCalls /\ MayCall(op, o, x)
    /\ user' = [user EXCEPT ![u] =
                   [Returned(user[u].calls + 1) EXCEPT !.pc = FirstStep(op), !.op = op,
                                                       !.owner = o, !.item = x]]
    /\ listed' = IF op = "register" THEN [listed EXCEPT ![o] = Append(@, x)] ELSE listed
    /\ stale' = IF op = "register" /\ x \in Drivers THEN [stale EXCEPT ![x] = 0] ELSE stale
    /\ UNCHANGED <<list, disp, isRunning, gone, pass>>

\* One attempt of kraken_mutex_lock.
LockList(u) ==
    /\ At(u, "lock")
    /\ LET o == user[u].owner
       IN  \E ok \in BOOLEAN, flag \in BOOLEAN :
              /\ CasWeak(list[o].locked, flag, FALSE, TRUE, ok)
              /\ list' = [list EXCEPT ![o].locked = flag]
              /\ user' = IF ok THEN user
                         ELSE [user EXCEPT ![u].pc = IF user[u].op = "register"
                                                        THEN "grow" ELSE "find"]
    /\ UserOnly /\ UNCHANGED <<disp, isRunning, gone, listed>>

\* The list the dispatcher thread holds a buffer of, if any.
ReadsFrom(o) == \/ disp.pc = "clockCopy" /\ o = Dispatcher
                \/ disp.pc = "driverCopy" /\ o = disp.clock

\* kraken_array_list_add up to its reallocation, which may move the buffer.
GrowList(u) ==
    /\ At(u, "grow")
    /\ LET o == user[u].owner
           s == list[o].size
           c == 2 * (s + 1)
       IN  /\ user' = [user EXCEPT ![u].pc = "store", ![u].pos = s]
           /\ IF s + 1 > list[o].capacity
                 THEN \E moved \in BOOLEAN :
                        /\ list' = [list EXCEPT ![o].capacity = c,
                                      ![o].memory = [i \in 0..(c - 1) |-> Slot(o, i)]]
                        /\ disp' = IF moved /\ ReadsFrom(o)
                                      THEN [disp EXCEPT !.buffer = "freed"] ELSE disp
                        /\ pass' = [pass EXCEPT !.changed = @ \/ moved]
                 ELSE UNCHANGED <<list, disp, pass>>
    /\ UNCHANGED <<isRunning, gone, listed, stale>>

\* Mutant: the size is published before the slot is written.
MutantPublishFirst(u) ==
    /\ At(u, "store")
    /\ LET o == user[u].owner
       IN  IF list[o].size = user[u].pos
              THEN list' = [list EXCEPT ![o].size = @ + 1] /\ UNCHANGED user
              ELSE /\ list' = [list EXCEPT ![o].memory[user[u].pos] = user[u].item]
                   /\ user' = [user EXCEPT ![u].pc = "publish"]
    /\ UserOnly /\ UNCHANGED <<disp, isRunning, gone, listed>>

StoreItem(u) ==
    /\ At(u, "store")
    /\ list' = [list EXCEPT ![user[u].owner].memory[user[u].pos] = user[u].item]
    /\ user' = [user EXCEPT ![u].pc = "publish"]
    /\ UserOnly /\ UNCHANGED <<disp, isRunning, gone, listed>>

\* Mutant: the size published is the one that was read.
MutantPublishOldSize(u) ==
    /\ At(u, "publish")
    /\ list' = [list EXCEPT ![user[u].owner].size = user[u].pos]
    /\ user' = [user EXCEPT ![u].pc = "unlock"]
    /\ UserOnly /\ UNCHANGED <<disp, isRunning, gone, listed>>

PublishSize(u) ==
    /\ At(u, "publish")
    /\ list' = [list EXCEPT ![user[u].owner].size = user[u].pos + 1]
    /\ user' = [user EXCEPT ![u].pc = "unlock"]
    /\ UserOnly /\ UNCHANGED <<disp, isRunning, gone, listed>>

\* kraken_array_list_remove up to its search.  When nothing is found, a debug
\* build returns at once, with the flag as it is.
FindItem(u) ==
    /\ At(u, "find")
    /\ LET o == user[u].owner
           s == list[o].size
           Is(i) == Slot(o, i) = user[u].item
       IN  \/ \E i \in 0..(s - 1) :
                 /\ Is(i) /\ \A h \in 0..(i - 1) : ~Is(h)
                 /\ user' = [user EXCEPT ![u].pc = "shift", ![u].pos = i, ![u].n = s]
           \/ /\ \A i \in 0..(s - 1) : ~Is(i)
              /\ user' = [user EXCEPT ![u] = IF KrakenDebug THEN Returned(@.calls)
                                             ELSE [@ EXCEPT !.pc = "unlock"]]
    /\ UserOnly /\ UNCHANGED <<list, disp, isRunning, gone, listed>>

Disturbed(o) == [pass EXCEPT !.changed = @ \/ o = Dispatcher]

\* Mutant: remove drops the last element, whichever was asked for.
MutantNoShift(u) ==
    /\ At(u, "shift")
    /\ user' = [user EXCEPT ![u].pc = "shrink"]
    /\ pass' = Disturbed(user[u].owner)
    /\ UNCHANGED <<list, disp, isRunning, gone, listed, stale>>

\* The memcpy of remove, slot by slot: one slot more than there are elements
\* after the removed one.
ShiftSlot(u) ==
    /\ At(u, "shift")
    /\ LET o == user[u].owner
           p == user[u].pos
       IN  /\ list' = [list EXCEPT ![o].memory[p] = Slot(o, p + 1)]
           /\ user' = [user EXCEPT ![u].pos = p + 1,
                                   ![u].pc = IF p + 1 < user[u].n THEN "shift" ELSE "shrink"]
           /\ pass' = Disturbed(o)
    /\ UNCHANGED <<disp, isRunning, gone, listed, stale>>

ShrinkList(u) ==
    /\ At(u, "shrink")
    /\ list' = [list EXCEPT ![user[u].owner].size = @ - 1]
    /\ user' = [user EXCEPT ![u].pc = "unlock", ![u].found = TRUE]
    /\ pass' = Disturbed(user[u].owner)
    /\ UNCHANGED <<disp, isRunning, gone, listed, stale>>

\* The sequence s without its element x, which is in it once.
Without(s, x) ==
    LET k == CHOOSE k \in 1..Len(s) : s[k] = x
    IN  [j \in 1..(Len(s) - 1) |-> IF j < k THEN s[j] ELSE s[j + 1]]

UnlockList(u) ==
    /\ At(u, "unlock")
    /\ LET o == user[u].owner
       IN  /\ list' = [list EXCEPT ![o].locked = FALSE]
           /\ listed' = IF user[u].found
                           THEN [listed EXCEPT ![o] = Without(@, user[u].item)] ELSE listed
    /\ user' = [user EXCEPT ![u] = Returned(@.calls)]
    /\ UserOnly /\ UNCHANGED <<disp, isRunning, gone>>

\* kraken_clock_destroy, and the destruction of a driver.
DestroyItem(u) ==
    /\ At(u, "destroy")
    /\ gone' = gone \cup {user[u].item}
    /\ user' = [user EXCEPT ![u] = Returned(@.calls)]
    /\ UserOnly /\ UNCHANGED <<list, disp, isRunning, listed>>

\* kraken_dispatcher_destroy: ask the thread to stop, join it, free.
StopDispatcher(u) ==
    /\ At(u, "stop")
    /\ isRunning' = FALSE
    /\ user' = [user EXCEPT ![u].pc = "join"]
    /\ UserOnly /\ UNCHANGED <<list, disp, gone, listed>>

\* Mutant: destroy does not join the thread.
MutantNoJoin(u) ==
    /\ At(u, "join")
    /\ user' = [user EXCEPT ![u].pc = "free"]
    /\ UserOnly /\ UNCHANGED <<list, disp, isRunning, gone, listed>>

JoinDispatcher(u) ==
    /\ At(u, "join") /\ disp.pc = "exited"
    /\ user' = [user EXCEPT ![u].pc = "free"]
    /\ UserOnly /\ UNCHANGED <<list, disp, isRunning, gone, listed>>

FreeDispatcher(u) ==
    /\ At(u, "free")
    /\ gone' = gone \cup {Dispatcher}
    /\ user' = [user EXCEPT ![u] = Returned(@.calls)]
    /\ UserOnly /\ UNCHANGED <<list, disp, isRunning, listed>>

UserStep(u) ==
    /\ ~Lost
    /\ \/ LockList(u) \/ GrowList(u) \/ StoreItem(u) \/ PublishSize(u) \/ FindItem(u)
       \/ ShiftSlot(u) \/ ShrinkList(u) \/ UnlockList(u) \/ DestroyItem(u)
       \/ StopDispatcher(u) \/ JoinDispatcher(u) \/ FreeDispatcher(u)

UserBegins(u) ==
    /\ ~Lost
    /\ \E call \in Calls[u] :
          \E x \in CASE call[1] = "destroy"  -> Handles
                     [] call[1] = "shutdown" -> {Null}
                     [] OTHER                -> Items(call[2]) :
             Begin(u, call[1], call[2], x)

Next == DispatcherStep \/ \E u \in Users : UserStep(u) \/ UserBegins(u)

\* The dispatcher thread has a core to itself (SCHED_FIFO, priority 99) and
\* the users' threads run on the others, so each goes on with what it has begun.
\* A spinning lock call tries again within a scheduling quantum, the dispatcher
\* unlocks once per walk and sleeps in between, so sooner or later two attempts
\* follow each other with no unlock between them: the strong fairness.
Enter(u) == At(u, "lock") /\ LockList(u) /\ user' # user

Fairness ==
    /\ WF_vars(DispatcherStep)
    /\ \A u \in Users : WF_vars(UserStep(u)) /\ SF_vars(~Lost /\ Enter(u))

Spec == Init /\ [][Next]_vars /\ Fairness

-----------------------------------------------------------------------------
TypeOK ==
    /\ \A o \in Owners :
          /\ list[o].capacity \in Nat
          /\ list[o].size \in 0..list[o].capacity
          /\ list[o].memory \in [0..(list[o].capacity - 1) -> Items(o) \cup {Null, Junk}]
          /\ list[o].locked \in BOOLEAN
          /\ \A k \in DOMAIN listed[o] : listed[o][k] \in Items(o)
    /\ disp.clock \in Clocks \cup {Null, Junk}
    /\ disp.driver \in Drivers \cup {Null, Junk}
    /\ isRunning \in BOOLEAN
    /\ gone \subseteq Handles \cup {Dispatcher}

\* Where no call on an owner is in progress, its list is exactly what its
\* callers were told, in the order they registered it, however the dispatcher's
\* walks and unlocks interleaved with the calls.  For users that share an owner
\* this is what the mutex is for (kraken_dispatcher.c 112-131, kraken_clock.c 41-65).
ListsAreExact == \A o \in Owners \ gone : ~Busy(o) => ListOf(o) = listed[o]

\* After unregister has returned, a driver is ticked once more at most: by the
\* walk that had already copied its handle (kraken_clock.c 57-65, 76-89).
StaleTicksBounded == \A d \in Drivers : stale[d] <= 1

\* A walk over the clocks that no removal or reallocation overlapped has read
\* exactly the clocks that were listed when it read the size, each once and in
\* order (kraken_dispatcher.c 27-58).
WalkIsComplete ==
    (disp.pc = "unlock" /\ ~pass.changed) =>
        pass.read = SubSeq(ListOf(Dispatcher), 1, disp.n)

\* The dispatcher meets a null, unwritten or destroyed clock only while a clock
\* is being removed, or in a walk that a removal or reallocation overlapped: a
\* clock may be destroyed as soon as a walk has begun after its unregister
\* returned (kraken_dispatcher.c 27, 36-42).
UndisturbedWalksAreSafe ==
    (UsesClock /\ disp.clock \notin Clocks \ gone) =>
        \/ pass.changed
        \/ \E u \in Users : user[u].op = "unregister" /\ user[u].owner = Dispatcher

\* The clock list is freed only once the dispatcher thread can no longer read
\* it (kraken_dispatcher.c 155-166).
FreedAfterExit == Dispatcher \in gone => disp.pc = "exited"

\* Every call returns: the loop of the mutex, other callers' sections and the
\* dispatcher's own locking never hold a caller up for good, and destroy joins
\* the thread (kraken_dispatcher.c 112-166).
CallsReturn == \A u \in Users : ~At(u, "idle") ~> (At(u, "idle") \/ Lost)

\* A clock that stays registered is read by the dispatcher again and again while
\* it runs (kraken_dispatcher.c 26-58).
ListedClocksAreVisited ==
    \A c \in Clocks :
        (Contains(listed[Dispatcher], c) /\ isRunning)
            ~> (disp.clock = c \/ ~Contains(listed[Dispatcher], c) \/ ~isRunning \/ Lost)

\* kraken_dispatcher.h 41: unregister "Unregisters a clock from the given
\* dispatcher".  The dispatcher never goes on with a handle that is null,
\* unwritten or destroyed.
OnlyLiveHandlesUsed == ~Lost
=============================================================================
