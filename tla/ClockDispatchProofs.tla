------------------------ MODULE ClockDispatchProofs ------------------------
(***************************************************************************)
(* The dispatcher thread and its callers, for any clocks, drivers, users,  *)
(* calls and capacities, in both builds. Whoever the callers are, the list *)
(* of clocks is freed only once the thread has exited (kraken_dispatcher.c *)
(* 155-166). While every list has one user at most that registers with it  *)
(* and unregisters, the lists are what their callers were told, an         *)
(* undisturbed walk reads exactly the clocks that are listed and meets     *)
(* none that is destroyed, and a driver that has left its lists is ticked  *)
(* once more at most. Several writers of one list are what kraken_mutex    *)
(* fails to keep apart (see KrakenMutex).                                  *)
(***************************************************************************)
EXTENDS ClockDispatch, SequenceTheorems, TLAPS

\* The state of the thread and of each user is a record with these fields,
\* whatever is in them.
DispShape(d) == d = [f \in DOMAIN d |-> d[f]] /\ "pc" \in DOMAIN d
UserShape(s) == {"pc", "op", "owner", "item", "calls"} \subseteq DOMAIN s

\* What a user is about to destroy is a clock or a driver, and one that has
\* joined the thread has found it exited.
UserSafe(s, thread) ==
    /\ UserShape(s)
    /\ s.pc = "destroy" => s.item \in Handles
    /\ s.pc = "free" => thread = "exited"

ExitInv ==
    /\ DispShape(disp)
    /\ user = [u \in Users |-> user[u]]
    /\ \A u \in Users : UserSafe(user[u], disp.pc)
    /\ FreedAfterExit

-----------------------------------------------------------------------------
\* A step of the thread changes its own record only, and an exited thread
\* takes none.
LEMMA ThreadSteps ==
    ASSUME DispShape(disp), DispatcherStep
    PROVE  disp.pc # "exited" /\ DispShape(disp') /\ UNCHANGED <<user, gone>>
<1>1. disp.pc # "exited"
  BY DEF DispatcherStep, ReadRunning, ReadSize, LockClocks, GetClock, LoadBuffer, CopyClock, UseClock,
         LockDrivers, NextDriver, GetDriver, CopyDriver, TickDriver, DriverTicked, UnlockDrivers,
         ClockTicked, UnlockClocks, UseBadHandle, BadHandle, UsesClock, UsesDriver
<1>2. UNCHANGED <<user, gone>>
  BY DEF DispatcherStep, ReadRunning, ReadSize, LockClocks, GetClock, LoadBuffer, CopyClock, UseClock,
         LockDrivers, NextDriver, GetDriver, CopyDriver, TickDriver, DriverTicked, UnlockDrivers,
         ClockTicked, UnlockClocks, UseBadHandle, DispatcherOnly
<1>3. DispShape(disp')
  <2> USE DEF DispShape
  <2>1. CASE ReadRunning \/ ReadSize \/ GetClock \/ UseClock \/ NextDriver \/ GetDriver
    BY <2>1 DEF ReadRunning, ReadSize, GetClock, UseClock, NextDriver, GetDriver, NextClock
  <2>2. CASE LockClocks \/ LockDrivers
    BY <2>2 DEF LockClocks, LockDrivers, Attempt
  <2>3. CASE LoadBuffer \/ CopyClock \/ CopyDriver
    BY <2>3 DEF LoadBuffer, CopyClock, CopyDriver
  <2>4. CASE TickDriver \/ DriverTicked \/ UnlockDrivers \/ ClockTicked \/ UnlockClocks \/ UseBadHandle
    BY <2>4 DEF TickDriver, DriverTicked, UnlockDrivers, ClockTicked, UnlockClocks, UseBadHandle, NextClock
  <2>5. QED
    BY <2>1, <2>2, <2>3, <2>4 DEF DispatcherStep
<1>4. QED
  BY <1>1, <1>2, <1>3

LEMMA ThreadKeepsExitInv ==
    ASSUME ExitInv, DispatcherStep
    PROVE  ExitInv'
<1>1. disp.pc # "exited" /\ DispShape(disp') /\ UNCHANGED <<user, gone>>
  BY ThreadSteps DEF ExitInv
<1>2. Dispatcher \notin gone /\ \A u \in Users : user[u].pc # "free"
  BY <1>1 DEF ExitInv, UserSafe, FreedAfterExit
<1>3. QED
  BY <1>1, <1>2 DEF ExitInv, UserSafe, FreedAfterExit

\* A user's step to s keeps the invariant if s is safe, the thread stays where
\* it is, and the dispatcher is not freed.
LEMMA UserMoves ==
    ASSUME ExitInv, NEW u \in Users, NEW s, UserSafe(s, disp.pc),
           user' = [user EXCEPT ![u] = s],
           DispShape(disp'), disp'.pc = disp.pc,
           Dispatcher \in gone' => Dispatcher \in gone
    PROVE  ExitInv'
<1>1. \A v \in Users : user'[v] = IF v = u THEN s ELSE user[v]
  BY DEF ExitInv
<1>2. \A v \in Users : UserSafe(user'[v], disp'.pc)
  BY <1>1 DEF ExitInv, UserSafe, UserShape
<1>3. user' = [v \in Users |-> user'[v]]
  BY DEF ExitInv
<1>4. QED
  BY <1>2, <1>3 DEF ExitInv, FreedAfterExit

\* A user between two calls is safe.
LEMMA ReturnedIsSafe == \A n : UserSafe(Returned(n), disp.pc)
BY DEF UserSafe, UserShape, Returned

LEMMA BeginKeepsExitInv ==
    ASSUME ExitInv, NEW u \in Users, UserBegins(u)
    PROVE  ExitInv'
<1>1. PICK call \in Calls[u] :
         \E x \in CASE call[1] = "destroy"  -> Handles
                    [] call[1] = "shutdown" -> {Null}
                    [] OTHER                -> Items(call[2]) : Begin(u, call[1], call[2], x)
  BY DEF UserBegins
<1> DEFINE op == call[1]
           o  == call[2]
<1>2. op \in {"register", "unregister", "destroy", "shutdown"}
  BY DispatchAssumption
<1>3. PICK x : (op = "destroy" => x \in Handles) /\ Begin(u, op, o, x)
  BY <1>1
<1> HIDE DEF op, o
<1> DEFINE s == [Returned(user[u].calls + 1) EXCEPT !.pc = FirstStep(op), !.op = op,
                                                   !.owner = o, !.item = x]
<1>4. user' = [user EXCEPT ![u] = s] /\ UNCHANGED <<disp, gone>>
  BY <1>3 DEF Begin
<1>5. UserShape(s) /\ s.pc = FirstStep(op) /\ s.item = x
  BY DEF Returned, UserShape
<1>6. FirstStep(op) # "free" /\ (FirstStep(op) = "destroy" => op = "destroy")
  BY <1>2 DEF FirstStep
<1>7. UserSafe(s, disp.pc)
  BY <1>3, <1>5, <1>6 DEF UserSafe
<1> HIDE DEF s
<1>8. QED
  BY <1>4, <1>7, UserMoves DEF ExitInv

\* The steps of register and unregister.
LEMMA ListCallsKeepExitInv ==
    ASSUME ExitInv, NEW u \in Users,
           \/ LockList(u) \/ GrowList(u) \/ StoreItem(u) \/ PublishSize(u) \/ FindItem(u)
           \/ ShiftSlot(u) \/ ShrinkList(u) \/ UnlockList(u)
    PROVE  ExitInv'
<1>0. UserSafe(user[u], disp.pc) /\ UserShape(user[u]) /\ DispShape(disp)
  BY DEF ExitInv, UserSafe
<1>1. gone' = gone /\ DispShape(disp') /\ disp'.pc = disp.pc
  <2>1. CASE GrowList(u)
    BY <1>0, <2>1 DEF GrowList, DispShape
  <2>2. CASE ~GrowList(u)
    BY <1>0, <2>2 DEF LockList, StoreItem, PublishSize, FindItem, ShiftSlot, ShrinkList, UnlockList, UserOnly
  <2>3. QED
    BY <2>1, <2>2
<1>2. CASE LockList(u)
  <2> DEFINE s == [user[u] EXCEPT !.pc = IF user[u].op = "register" THEN "grow" ELSE "find"]
  <2>1. user' = user \/ user' = [user EXCEPT ![u] = s]
    BY <1>2 DEF LockList
  <2>2. UserSafe(s, disp.pc)
    BY <1>0 DEF UserSafe, UserShape
  <2>3. user = [user EXCEPT ![u] = user[u]]
    BY DEF ExitInv
  <2> HIDE DEF s
  <2>4. QED
    BY <1>0, <1>1, <2>1, <2>2, <2>3, UserMoves
<1>3. CASE GrowList(u)
  <2> DEFINE s == [user[u] EXCEPT !.pc = "store", !.pos = list[user[u].owner].size]
  <2>1. user' = [user EXCEPT ![u] = s]
    BY <1>3 DEF GrowList
  <2>2. UserSafe(s, disp.pc)
    BY <1>0 DEF UserSafe, UserShape
  <2> HIDE DEF s
  <2>3. QED
    BY <1>1, <2>1, <2>2, UserMoves
<1>4. CASE StoreItem(u) \/ PublishSize(u)
  <2>1. PICK pc \in {"publish", "unlock"} : user' = [user EXCEPT ![u] = [user[u] EXCEPT !.pc = pc]]
    BY <1>4 DEF StoreItem, PublishSize
  <2>2. UserSafe([user[u] EXCEPT !.pc = pc], disp.pc)
    BY <1>0 DEF UserSafe, UserShape
  <2>3. QED
    BY <1>1, <2>1, <2>2, UserMoves
<1>5. CASE FindItem(u)
  <2>1. CASE \E i \in 0..(list[user[u].owner].size - 1) :
                user' = [user EXCEPT ![u].pc = "shift", ![u].pos = i, ![u].n = list[user[u].owner].size]
    <3>1. PICK i \in 0..(list[user[u].owner].size - 1) :
             user' = [user EXCEPT ![u].pc = "shift", ![u].pos = i, ![u].n = list[user[u].owner].size]
      BY <2>1
    <3> DEFINE s == [user[u] EXCEPT !.pc = "shift", !.pos = i, !.n = list[user[u].owner].size]
    <3>2. user' = [user EXCEPT ![u] = s]
      BY <3>1 DEF ExitInv
    <3>3. UserSafe(s, disp.pc)
      BY <1>0 DEF UserSafe, UserShape
    <3> HIDE DEF s
    <3>4. QED
      BY <1>1, <3>2, <3>3, UserMoves
  <2>2. CASE user' = [user EXCEPT ![u] = IF KrakenDebug THEN Returned(user[u].calls)
                                         ELSE [user[u] EXCEPT !.pc = "unlock"]]
    <3>1. UserSafe([user[u] EXCEPT !.pc = "unlock"], disp.pc)
      BY <1>0 DEF UserSafe, UserShape
    <3>2. UserSafe(IF KrakenDebug THEN Returned(user[u].calls)
                   ELSE [user[u] EXCEPT !.pc = "unlock"], disp.pc)
      BY <3>1, ReturnedIsSafe
    <3>3. QED
      BY <1>1, <2>2, <3>2, UserMoves
  <2>3. QED
    BY <1>5, <2>1, <2>2 DEF FindItem
<1>6. CASE ShiftSlot(u) \/ ShrinkList(u)
  <2> DEFINE p == user[u].pos + 1
             shifted == [user[u] EXCEPT !.pos = p, !.pc = IF p < user[u].n THEN "shift" ELSE "shrink"]
             shrunk  == [user[u] EXCEPT !.pc = "unlock", !.found = TRUE]
  <2>1. user' = [user EXCEPT ![u] = shifted] \/ user' = [user EXCEPT ![u] = shrunk]
    BY <1>6 DEF ShiftSlot, ShrinkList, ExitInv
  <2>2. UserSafe(shifted, disp.pc) /\ UserSafe(shrunk, disp.pc)
    BY <1>0 DEF UserSafe, UserShape
  <2> HIDE DEF shifted, shrunk
  <2>3. QED
    BY <1>1, <2>1, <2>2, UserMoves
<1>7. CASE UnlockList(u)
  <2>1. user' = [user EXCEPT ![u] = Returned(user[u].calls)]
    BY <1>7 DEF UnlockList
  <2>2. QED
    BY <1>1, <2>1, ReturnedIsSafe, UserMoves
<1>8. QED
  BY <1>2, <1>3, <1>4, <1>5, <1>6, <1>7

\* The steps of destroy; the join is what lets the last one be taken.
LEMMA DestroyKeepsExitInv ==
    ASSUME ExitInv, NEW u \in Users,
           DestroyItem(u) \/ StopDispatcher(u) \/ JoinDispatcher(u) \/ FreeDispatcher(u)
    PROVE  ExitInv'
<1>0. UserSafe(user[u], disp.pc) /\ UserShape(user[u]) /\ DispShape(disp)
  BY DEF ExitInv, UserSafe
<1>1. CASE DestroyItem(u)
  <2>1. user' = [user EXCEPT ![u] = Returned(user[u].calls)] /\ UNCHANGED disp
    BY <1>1 DEF DestroyItem
  <2>2. user[u].item # Dispatcher
    BY <1>0, <1>1, DispatchAssumption DEF DestroyItem, At, UserSafe, Handles
  <2>3. Dispatcher \in gone' => Dispatcher \in gone
    BY <1>1, <2>2 DEF DestroyItem
  <2>4. QED
    BY <1>0, <2>1, <2>3, ReturnedIsSafe, UserMoves
<1>2. CASE StopDispatcher(u) \/ JoinDispatcher(u)
  <2>1. PICK pc \in {"join", "free"} : /\ user' = [user EXCEPT ![u] = [user[u] EXCEPT !.pc = pc]]
                                       /\ pc = "free" => disp.pc = "exited"
    BY <1>2 DEF StopDispatcher, JoinDispatcher
  <2>2. UserSafe([user[u] EXCEPT !.pc = pc], disp.pc) /\ UNCHANGED <<disp, gone>>
    BY <1>0, <1>2, <2>1 DEF UserSafe, UserShape, StopDispatcher, JoinDispatcher
  <2>3. QED
    BY <1>0, <2>1, <2>2, UserMoves
<1>3. CASE FreeDispatcher(u)
  <2>1. disp.pc = "exited" /\ UNCHANGED disp
    BY <1>0, <1>3 DEF FreeDispatcher, At, UserSafe
  <2>2. \A v \in Users : user'[v] = IF v = u THEN Returned(user[u].calls) ELSE user[v]
    BY <1>3 DEF FreeDispatcher, ExitInv
  <2>3. \A v \in Users : UserSafe(user'[v], disp'.pc)
    BY <2>1, <2>2, ReturnedIsSafe DEF ExitInv, UserSafe, UserShape
  <2>4. user' = [v \in Users |-> user'[v]]
    BY <1>3 DEF FreeDispatcher, ExitInv
  <2>5. QED
    BY <2>1, <2>3, <2>4 DEF ExitInv, FreedAfterExit
<1>4. QED
  BY <1>1, <1>2, <1>3

\* For any users and calls, the dispatcher's list is freed only after its
\* thread has exited, however calls and the walk interleave.
THEOREM DispatcherFreedAfterExit == Spec => []FreedAfterExit
<1>1. Init => ExitInv
  <2> SUFFICES ASSUME Init PROVE ExitInv
    OBVIOUS
  <2>1. DispShape(disp) /\ Dispatcher \notin gone
    BY DEF Init, DispShape
  <2>2. \A u \in Users : user[u] = Returned(0)
    BY DEF Init
  <2>3. user = [u \in Users |-> user[u]]
    BY DEF Init
  <2>4. QED
    BY <2>1, <2>2, <2>3, ReturnedIsSafe DEF ExitInv, FreedAfterExit
<1>2. ExitInv /\ [Next]_vars => ExitInv'
  <2> SUFFICES ASSUME ExitInv, [Next]_vars PROVE ExitInv'
    OBVIOUS
  <2>1. CASE UNCHANGED vars
    BY <2>1 DEF vars, ExitInv, UserSafe, FreedAfterExit
  <2>2. CASE Next
    BY <2>2, ThreadKeepsExitInv, BeginKeepsExitInv, ListCallsKeepExitInv, DestroyKeepsExitInv
       DEF Next, UserStep
  <2>3. QED
    BY <2>1, <2>2
<1>3. ExitInv => FreedAfterExit
  BY DEF ExitInv
<1>4. QED
  BY <1>1, <1>2, <1>3, PTL DEF Spec

-----------------------------------------------------------------------------
(* The lists, for users that each keep lists of their own.                 *)

\* Every list has one user at most that registers with it and unregisters.
\* Concurrent writers of one list are what the mutex fails to keep apart.
Writes(u, o) == {<<"register", o>>, <<"unregister", o>>} \cap Calls[u] # {}

OneWriter == \A o \in Owners : \A u, v \in Users : Writes(u, o) /\ Writes(v, o) => u = v

Cleared == {Null, Junk}

ListType == [memory : UNION {[0..(c - 1) -> Handles \cup Cleared] : c \in Nat},
             size : Nat, capacity : Nat, locked : BOOLEAN]

\* Where the thread is in the walk over the clocks.
Before == {"clockGet", "clockLoad", "clockCopy"}
After  == {"clockUse", "tickLock", "driverNext", "driverGet", "driverLoad", "driverCopy",
           "driverUse", "ticking", "tickUnlock", "ticked"}

DispType == [pc : {"top", "size", "lock", "unlock", "exited", "undefined"} \cup Before \cup After,
             n : Nat, i : Nat, clock : Handles \cup Cleared,
             j : Nat, driver : Handles \cup Cleared, buffer : {"none", "current", "freed"}]

UserType == [pc : {"idle", "lock", "grow", "store", "publish", "find", "shift", "shrink", "unlock",
                   "destroy", "stop", "join", "free"},
             op : {"none", "register", "unregister", "destroy", "shutdown"},
             owner : Owners, item : Handles \cup {Null}, pos : Nat, n : Nat,
             found : BOOLEAN, calls : Nat]

Locations(op) == CASE op = "none"       -> {"idle"}
                   [] op = "register"   -> {"lock", "grow", "store", "publish", "unlock"}
                   [] op = "unregister" -> {"lock", "find", "shift", "shrink", "unlock"}
                   [] op = "destroy"    -> {"destroy"}
                   [] op = "shutdown"   -> {"stop", "join", "free"}

Lists(s) == s.op \in {"register", "unregister"}

TypeInv ==
    /\ list \in [Owners -> ListType]
    /\ \A o \in Owners : list[o].memory \in [0..(list[o].capacity - 1) -> Handles \cup Cleared]
    /\ disp \in DispType
    /\ user \in [Users -> UserType]
    /\ \A u \in Users : /\ user[u].pc \in Locations(user[u].op)
                        /\ Lists(user[u]) => /\ Writes(u, user[u].owner)
                                             /\ user[u].item \in Items(user[u].owner)
                        /\ user[u].op = "destroy" => user[u].item \in Handles
                        /\ user[u].op = "shutdown" => user[u].item = Null
    /\ pass \in [read : Seq(Handles \cup Cleared), changed : BOOLEAN]
    /\ \A o \in Owners : listed[o] \in Seq(Items(o))
    /\ listed = [o \in Owners |-> listed[o]]

Position(s, x) == CHOOSE k \in 1..Len(s) : s[k] = x

Distinct(s) == \A j, k \in 1..Len(s) : s[j] = s[k] => j = k

\* Behind its elements a list holds no handle.
ClearedFrom(l, i) == \A k \in i..(l.capacity - 1) : l.memory[k] \in Cleared

\* List l is what its callers were told.
Settled(l, s) ==
    /\ l.size = Len(s) /\ l.size <= l.capacity /\ ClearedFrom(l, l.size)
    /\ \A k \in 1..Len(s) : l.memory[k - 1] = s[k]

\* Call c is adding the last element of s.
Adding(l, s, c) ==
    /\ Len(s) = l.size + 1 /\ s[l.size + 1] = c.item /\ l.size <= l.capacity
    /\ ClearedFrom(l, IF c.pc = "publish" THEN l.size + 1 ELSE l.size)
    /\ \A k \in 1..l.size : l.memory[k - 1] = s[k]
    /\ c.pc \in {"store", "publish"} => c.pos = l.size /\ l.size < l.capacity
    /\ c.pc = "publish" => l.memory[l.size] = c.item

\* Call c is closing the gap of its item: the slots up to c.pos are done.
Closing(l, s, c) ==
    /\ l.size = Len(s) /\ l.size <= l.capacity /\ ClearedFrom(l, l.size)
    /\ Contains(s, c.item) /\ c.n = l.size
    /\ Position(s, c.item) - 1 <= c.pos
    /\ IF c.pc = "shift" THEN c.pos < c.n ELSE c.pos = c.n
    /\ \A k \in 1..Len(s) :
          IF Position(s, c.item) <= k /\ k <= c.pos
          THEN IF k = Len(s) THEN l.memory[k - 1] \in Cleared ELSE l.memory[k - 1] = s[k + 1]
          ELSE l.memory[k - 1] = s[k]

\* How list l and what its callers were told stand to each other within call c.
Within(l, s, c) ==
    IF c.op = "register" /\ c.pc # "unlock" THEN Adding(l, s, c)
    ELSE IF c.pc \in {"shift", "shrink"} THEN Closing(l, s, c)
    ELSE IF c.found THEN Contains(s, c.item) /\ Settled(l, Without(s, c.item))
    ELSE Settled(l, s)

ListInv ==
    /\ \A o \in Owners :
          /\ Distinct(listed[o])
          /\ \A u \in Users : Lists(user[u]) /\ user[u].owner = o => Within(list[o], listed[o], user[u])
          /\ (\A u \in Users : ~(Lists(user[u]) /\ user[u].owner = o)) => Settled(list[o], listed[o])
    /\ \A u \in Users : user[u].found => user[u].op = "unregister" /\ user[u].pc = "unlock"

WalkInv ==
    /\ disp.pc = "lock" => disp.i = 0 /\ disp.n > 0
    /\ disp.pc \in Before \cup After => disp.i < disp.n
    /\ disp.pc = "unlock" => disp.i = disp.n
    /\ disp.pc \in {"lock", "unlock"} \cup Before \cup After /\ ~pass.changed =>
          /\ disp.n <= list[Dispatcher].size
          /\ Len(pass.read) = IF disp.pc \in After THEN disp.i + 1 ELSE disp.i
          /\ \A k \in 1..Len(pass.read) : pass.read[k] = Slot(Dispatcher, k - 1)
          /\ disp.pc \in After => disp.clock = pass.read[disp.i + 1]
          /\ disp.pc = "clockCopy" => disp.buffer = "current"

\* What is listed is alive, and stays so until it is listed nowhere.
LiveInv ==
    /\ gone \subseteq Handles \cup {Dispatcher}
    /\ \A o \in Owners, h \in Handles : Contains(listed[o], h) => Alive(h)

\* A driver that is listed nowhere was ticked once since, or is at hand, or neither.
StaleInv ==
    /\ stale \in [Drivers -> Nat]
    /\ \A d \in Drivers :
          IF IsListed(d) \/ (disp.pc = "driverUse" /\ disp.driver = d)
          THEN stale[d] = 0 ELSE stale[d] <= 1

-----------------------------------------------------------------------------
LEMMA WithoutFacts ==
    ASSUME NEW S, NEW s \in Seq(S), NEW x, Contains(s, x), Distinct(s)
    PROVE  /\ Position(s, x) \in 1..Len(s) /\ s[Position(s, x)] = x
           /\ Without(s, x) \in Seq(S) /\ Len(Without(s, x)) = Len(s) - 1
           /\ \A j \in 1..(Len(s) - 1) :
                 Without(s, x)[j] = IF j < Position(s, x) THEN s[j] ELSE s[j + 1]
           /\ Distinct(Without(s, x)) /\ ~Contains(Without(s, x), x)
           /\ \A y : Contains(Without(s, x), y) => Contains(s, y)
           /\ \A y : y # x /\ Contains(s, y) => Contains(Without(s, x), y)
<1> DEFINE k == Position(s, x)
           w == Without(s, x)
<1>1. k \in 1..Len(s) /\ s[k] = x
  BY DEF Contains, Position
<1>2. Len(s) \in Nat /\ Len(s) - 1 \in Nat
  BY <1>1
<1>3. w = [j \in 1..(Len(s) - 1) |-> IF j < k THEN s[j] ELSE s[j + 1]]
  BY DEF Without, Position
<1>4. \A j \in 1..(Len(s) - 1) : (IF j < k THEN s[j] ELSE s[j + 1]) \in S
  BY <1>2, ElementOfSeq
<1>5. w \in Seq(S)
  BY <1>2, <1>3, <1>4, IsASeq
<1>6. Len(w) = Len(s) - 1
  BY <1>2, <1>3, <1>5, LenProperties
<1>7. \A j \in 1..(Len(s) - 1) : w[j] = IF j < k THEN s[j] ELSE s[j + 1]
  BY <1>3
<1> HIDE DEF w, k
<1>8. Distinct(w)
  BY <1>1, <1>2, <1>6, <1>7 DEF Distinct
<1>9. ~Contains(w, x)
  BY <1>1, <1>2, <1>6, <1>7 DEF Distinct, Contains
<1>10. \A y : Contains(w, y) => Contains(s, y)
  BY <1>1, <1>2, <1>6, <1>7 DEF Contains
<1>11. ASSUME NEW y, y # x, Contains(s, y) PROVE Contains(w, y)
  <2>1. PICK j \in 1..Len(s) : s[j] = y
    BY <1>11 DEF Contains
  <2>2. j # k
    BY <1>1, <1>11, <2>1
  <2>3. CASE j < k
    <3>1. j \in 1..Len(w) /\ w[j] = y
      BY <1>1, <1>2, <1>6, <1>7, <2>1, <2>3
    <3>2. QED
      BY <3>1 DEF Contains
  <2>4. CASE j > k
    <3>1. j - 1 \in 1..Len(w) /\ w[j - 1] = s[(j - 1) + 1] /\ (j - 1) + 1 = j
      BY <1>1, <1>2, <1>6, <1>7, <2>1, <2>4
    <3>2. QED
      BY <2>1, <3>1 DEF Contains
  <2>5. QED
    BY <1>1, <2>2, <2>3, <2>4
<1>12. QED
  BY <1>1, <1>5, <1>6, <1>7, <1>8, <1>9, <1>10, <1>11 DEF w, k

LEMMA AppendFacts ==
    ASSUME NEW S, NEW s \in Seq(S), NEW x \in S, ~Contains(s, x), Distinct(s)
    PROVE  /\ Append(s, x) \in Seq(S) /\ Len(Append(s, x)) = Len(s) + 1
           /\ Append(s, x)[Len(s) + 1] = x
           /\ \A k \in 1..Len(s) : Append(s, x)[k] = s[k]
           /\ Distinct(Append(s, x))
           /\ \A y : Contains(Append(s, x), y) <=> (y = x \/ Contains(s, y))
<1>1. /\ Append(s, x) \in Seq(S) /\ Len(Append(s, x)) = Len(s) + 1 /\ Len(s) \in Nat
      /\ Append(s, x)[Len(s) + 1] = x
      /\ \A k \in 1..Len(s) : Append(s, x)[k] = s[k]
  BY AppendProperties
<1> DEFINE a == Append(s, x)
<1> HIDE DEF a
<1>2. Distinct(a)
  BY <1>1 DEF Distinct, Contains, a
<1>3. \A y : Contains(a, y) => (y = x \/ Contains(s, y))
  BY <1>1 DEF Contains, a
<1>4. Contains(a, x)
  BY <1>1 DEF Contains, a
<1>5. \A y : Contains(s, y) => Contains(a, y)
  BY <1>1 DEF Contains, a
<1>6. QED
  BY <1>1, <1>2, <1>3, <1>4, <1>5 DEF a

-----------------------------------------------------------------------------
(* Types.                                                                  *)

LEMMA SlotIsTyped ==
    ASSUME TypeInv, NEW o \in Owners, NEW i \in Nat
    PROVE  Slot(o, i) \in Handles \cup Cleared
<1>1. list[o] \in ListType /\ list[o].memory \in [0..(list[o].capacity - 1) -> Handles \cup Cleared]
  BY DEF TypeInv
<1>2. CASE i < list[o].capacity
  <2>1. i \in 0..(list[o].capacity - 1)
    BY <1>1, <1>2 DEF ListType
  <2>2. QED
    BY <1>1, <1>2, <2>1 DEF Slot
<1>3. CASE ~(i < list[o].capacity)
  BY <1>3 DEF Slot, Cleared
<1>4. QED
  BY <1>2, <1>3

\* What a step of the thread can do to the lists: set or clear a mutex's flag.
SameSlots(o) == /\ list'[o].memory = list[o].memory
                /\ list'[o].size = list[o].size
                /\ list'[o].capacity = list[o].capacity

LEMMA FlagKeepsSlots ==
    ASSUME TypeInv, NEW o \in Owners, NEW flag \in BOOLEAN,
           list' = [list EXCEPT ![o].locked = flag]
    PROVE  list' \in [Owners -> ListType] /\ \A p \in Owners : SameSlots(p)
<1>1. list \in [Owners -> ListType] /\ list[o] \in ListType
  BY DEF TypeInv
<1> DEFINE l == [list[o] EXCEPT !.locked = flag]
<1>2. l \in ListType /\ l.memory = list[o].memory /\ l.size = list[o].size
      /\ l.capacity = list[o].capacity
  BY <1>1 DEF ListType
<1>3. list' = [list EXCEPT ![o] = l]
  OBVIOUS
<1> HIDE DEF l
<1>4. \A p \in Owners : list'[p] = IF p = o THEN l ELSE list[p]
  BY <1>1, <1>3
<1>5. QED
  BY <1>1, <1>2, <1>3, <1>4 DEF SameSlots

LEMMA ThreadChanges ==
    ASSUME TypeInv, DispatcherStep
    PROVE  /\ UNCHANGED <<user, isRunning, gone, listed>>
           /\ disp' \in DispType
           /\ list' \in [Owners -> ListType] /\ \A o \in Owners : SameSlots(o)
           /\ pass' \in [read : Seq(Handles \cup Cleared), changed : BOOLEAN]
<1>0. /\ disp \in DispType /\ list \in [Owners -> ListType]
      /\ pass \in [read : Seq(Handles \cup Cleared), changed : BOOLEAN]
      /\ Dispatcher \in Owners /\ Clocks \subseteq Owners
  BY DEF TypeInv, Owners
<1>1. UNCHANGED <<user, isRunning, gone, listed>>
  BY DEF DispatcherStep, ReadRunning, ReadSize, LockClocks, GetClock, LoadBuffer, CopyClock, UseClock,
         LockDrivers, NextDriver, GetDriver, CopyDriver, TickDriver, DriverTicked, UnlockDrivers,
         ClockTicked, UnlockClocks, UseBadHandle, DispatcherOnly
<1>2. disp.pc \in {"tickLock", "driverNext", "driverGet", "driverCopy", "tickUnlock"} /\ ~BadHandle
         => disp.clock \in Owners
  BY <1>0 DEF BadHandle, UsesClock
<1>3. /\ list' \in [Owners -> ListType] /\ \A o \in Owners : SameSlots(o)
      /\ (LockClocks => \/ disp' = disp \/ disp' = [disp EXCEPT !.pc = ClockLoop(disp.i)])
      /\ (LockDrivers => \/ disp' = disp \/ disp' = [disp EXCEPT !.pc = "driverNext", !.j = 0])
  <2>1. CASE LockClocks
    <3>1. PICK flag \in BOOLEAN : list' = [list EXCEPT ![Dispatcher].locked = flag]
      BY <2>1 DEF LockClocks, Attempt
    <3>2. disp' = disp \/ disp' = [disp EXCEPT !.pc = ClockLoop(disp.i)]
      BY <2>1 DEF LockClocks, Attempt
    <3>3. ~LockDrivers
      BY <2>1 DEF LockClocks, LockDrivers
    <3>4. QED
      BY <1>0, <3>1, <3>2, <3>3, FlagKeepsSlots
  <2>2. CASE LockDrivers
    <3>1. PICK flag \in BOOLEAN : list' = [list EXCEPT ![disp.clock].locked = flag]
      BY <2>2 DEF LockDrivers, Attempt
    <3>2. disp' = disp \/ disp' = [disp EXCEPT !.pc = "driverNext", !.j = 0]
      BY <2>2 DEF LockDrivers, Attempt
    <3>3. ~LockClocks
      BY <2>2 DEF LockClocks, LockDrivers
    <3>4. disp.clock \in Owners
      BY <1>2, <2>2 DEF LockDrivers
    <3>5. QED
      BY <1>0, <3>1, <3>2, <3>3, <3>4, FlagKeepsSlots
  <2>3. CASE UnlockDrivers
    <3>1. list' = [list EXCEPT ![disp.clock].locked = FALSE] /\ disp.clock \in Owners
      BY <1>2, <2>3 DEF UnlockDrivers
    <3>2. ~LockClocks /\ ~LockDrivers
      BY <2>3 DEF UnlockDrivers, LockClocks, LockDrivers
    <3>3. QED
      BY <3>1, <3>2, FlagKeepsSlots
  <2>4. CASE UnlockClocks
    <3>1. list' = [list EXCEPT ![Dispatcher].locked = FALSE]
      BY <2>4 DEF UnlockClocks
    <3>2. ~LockClocks /\ ~LockDrivers
      BY <2>4 DEF UnlockClocks, LockClocks, LockDrivers
    <3>3. QED
      BY <1>0, <3>1, <3>2, FlagKeepsSlots
  <2>5. CASE ~LockClocks /\ ~LockDrivers /\ ~UnlockDrivers /\ ~UnlockClocks
    <3>1. list' = list
      BY <2>5 DEF DispatcherStep, ReadRunning, ReadSize, GetClock, LoadBuffer, CopyClock, UseClock,
                  NextDriver, GetDriver, CopyDriver, TickDriver, DriverTicked, ClockTicked, UseBadHandle
    <3>2. QED
      BY <1>0, <2>5, <3>1 DEF SameSlots
  <2>6. QED
    BY <2>1, <2>2, <2>3, <2>4, <2>5
<1>4. disp' \in DispType
  <2>1. /\ NextClock => disp' \in DispType
        /\ disp' = [disp EXCEPT !.pc = ClockLoop(disp.i)] => disp' \in DispType
    <3>1. \A i : ClockLoop(i) = "clockGet" \/ ClockLoop(i) = "unlock"
      BY DEF ClockLoop
    <3> DEFINE p == ClockLoop(disp.i)
               q == ClockLoop(disp.i + 1)
    <3>2. p \in {"clockGet", "unlock"} /\ q \in {"clockGet", "unlock"}
      BY <3>1
    <3> HIDE DEF p, q
    <3>3. [disp EXCEPT !.pc = p] \in DispType
      BY <1>0, <3>2 DEF DispType, Before
    <3>4. disp.i + 1 \in Nat
      BY <1>0 DEF DispType
    <3>5. [disp EXCEPT !.i = disp.i + 1, !.pc = q] \in DispType
      BY <1>0, <3>2, <3>4 DEF DispType, Before
    <3>6. QED
      BY <3>3, <3>5 DEF NextClock, p, q
  <2>2. CASE ReadRunning \/ NextDriver \/ GetDriver \/ LoadBuffer
    <3>1. CASE ReadRunning \/ NextDriver
      BY <1>0, <3>1 DEF ReadRunning, NextDriver, DispType, Before, After
    <3>2. CASE GetDriver
      BY <1>0, <3>2 DEF GetDriver, DispType, Before, After
    <3>3. CASE LoadBuffer
      BY <1>0, <3>3 DEF LoadBuffer, DispType, Before, After
    <3>4. QED
      BY <2>2, <3>1, <3>2, <3>3
  <2>3. CASE GetClock \/ UseClock \/ ClockTicked
    <3>1. NextClock \/ disp' = [disp EXCEPT !.pc = "clockLoad"] \/ disp' = [disp EXCEPT !.pc = "tickLock"]
      BY <2>3 DEF GetClock, UseClock, ClockTicked
    <3>2. QED
      BY <1>0, <2>1, <3>1 DEF DispType, Before, After
  <2>4. CASE ReadSize
    <3>1. list[Dispatcher].size \in Nat
      BY <1>0 DEF ListType
    <3>2. QED
      BY <1>0, <2>4, <3>1 DEF ReadSize, DispType, Before, After
  <2>5. CASE LockClocks \/ LockDrivers
    <3>1. \/ disp' = disp \/ disp' = [disp EXCEPT !.pc = ClockLoop(disp.i)]
          \/ disp' = [disp EXCEPT !.pc = "driverNext", !.j = 0]
      BY <1>3, <2>5
    <3>2. [disp EXCEPT !.pc = "driverNext", !.j = 0] \in DispType
      BY <1>0 DEF DispType, After
    <3>3. QED
      BY <1>0, <2>1, <3>1, <3>2
  <2>6. CASE CopyClock
    <3>1. Copied(Dispatcher, disp.i) \in Handles \cup Cleared
      BY <1>0, SlotIsTyped DEF Copied, DispType, Cleared
    <3>2. QED
      BY <1>0, <2>6, <3>1 DEF CopyClock, DispType, Before, After
  <2>7. CASE CopyDriver
    <3>1. disp.clock \in Owners
      BY <1>2, <2>7 DEF CopyDriver
    <3>2. Copied(disp.clock, disp.j) \in Handles \cup Cleared
      BY <1>0, <3>1, SlotIsTyped DEF Copied, DispType, Cleared
    <3>3. QED
      BY <1>0, <2>7, <3>2 DEF CopyDriver, DispType, Before, After
  <2>8. CASE TickDriver \/ UnlockDrivers \/ UseBadHandle
    BY <1>0, <2>8 DEF TickDriver, UnlockDrivers, UseBadHandle, DispType, Before, After
  <2>9. CASE DriverTicked
    <3>1. disp.j + 1 \in Nat
      BY <1>0 DEF DispType
    <3>2. disp' = [disp EXCEPT !.pc = "driverNext", !.j = disp.j + 1]
      BY <2>9 DEF DriverTicked
    <3>3. QED
      BY <1>0, <3>1, <3>2 DEF DispType, After
  <2>10. CASE UnlockClocks
    BY <1>0, <2>10 DEF UnlockClocks, DispType, Before, After, Cleared
  <2>11. QED
    BY <2>2, <2>3, <2>4, <2>5, <2>6, <2>7, <2>8, <2>9, <2>10 DEF DispatcherStep
<1>5. pass' \in [read : Seq(Handles \cup Cleared), changed : BOOLEAN]
  <2>1. CASE ReadSize
    <3>1. pass' = [read |-> <<>>, changed |-> FALSE]
      BY <2>1 DEF ReadSize
    <3>2. QED
      BY <3>1
  <2>2. CASE CopyClock
    <3>1. Copied(Dispatcher, disp.i) \in Handles \cup Cleared
      BY <1>0, SlotIsTyped DEF Copied, DispType, Cleared
    <3>2. Append(pass.read, Copied(Dispatcher, disp.i)) \in Seq(Handles \cup Cleared)
      BY <1>0, <3>1, AppendProperties
    <3>3. QED
      BY <1>0, <2>2, <3>2 DEF CopyClock
  <2>3. CASE ~ReadSize /\ ~CopyClock
    BY <1>0, <2>3 DEF DispatcherStep, ReadRunning, LockClocks, GetClock, LoadBuffer, UseClock,
         LockDrivers, NextDriver, GetDriver, CopyDriver, TickDriver, DriverTicked, UnlockDrivers,
         ClockTicked, UnlockClocks, UseBadHandle
  <2>4. QED
    BY <2>1, <2>2, <2>3
<1>6. QED
  BY <1>1, <1>3, <1>4, <1>5

LEMMA ThreadKeepsType ==
    ASSUME TypeInv, DispatcherStep
    PROVE  TypeInv'
<1>1. \A o \in Owners : list'[o].memory \in [0..(list'[o].capacity - 1) -> Handles \cup Cleared]
  BY ThreadChanges DEF TypeInv, SameSlots
<1>2. QED
  BY <1>1, ThreadChanges DEF TypeInv

-----------------------------------------------------------------------------
(* The lists stay what their callers were told.                            *)

PassType == [read : Seq(Handles \cup Cleared), changed : BOOLEAN]

\* Nobody else is in a call on the list of user u's call.
LEMMA Alone ==
    ASSUME OneWriter, TypeInv, NEW u \in Users, NEW v \in Users,
           Lists(user[u]), Lists(user[v]), user[u].owner = user[v].owner
    PROVE  u = v
<1>1. Writes(u, user[u].owner) /\ Writes(v, user[u].owner) /\ user[u].owner \in Owners
  BY DEF TypeInv, UserType
<1>2. QED
  BY <1>1 DEF OneWriter

\* A step of user u's call on list o, which becomes l, told to be s; the call
\* becomes c.
LEMMA CallMoves ==
    ASSUME OneWriter, TypeInv, ListInv, NEW u \in Users, Lists(user[u]),
           NEW o \in Owners, o = user[u].owner,
           NEW l \in ListType, l.memory \in [0..(l.capacity - 1) -> Handles \cup Cleared],
           NEW s \in Seq(Items(o)), Distinct(s),
           NEW c \in UserType, c.pc \in Locations(c.op),
           \/ /\ c.op = user[u].op /\ c.owner = o /\ c.item = user[u].item /\ Within(l, s, c)
              /\ c.found => c.op = "unregister" /\ c.pc = "unlock"
           \/ c.op = "none" /\ ~c.found /\ Settled(l, s),
           list' = [list EXCEPT ![o] = l], listed' = [listed EXCEPT ![o] = s],
           user' = [user EXCEPT ![u] = c],
           disp' \in DispType, pass' \in PassType
    PROVE  TypeInv' /\ ListInv'
<1>0. /\ list \in [Owners -> ListType] /\ user \in [Users -> UserType]
      /\ listed = [p \in Owners |-> listed[p]]
  BY DEF TypeInv
<1>1. /\ \A p \in Owners : /\ list'[p] = IF p = o THEN l ELSE list[p]
                           /\ listed'[p] = IF p = o THEN s ELSE listed[p]
      /\ \A v \in Users : user'[v] = IF v = u THEN c ELSE user[v]
  BY <1>0
<1>2. TypeInv'
  <2>1. list' \in [Owners -> ListType] /\ user' \in [Users -> UserType]
    BY <1>0
  <2>2. \A p \in Owners : list'[p].memory \in [0..(list'[p].capacity - 1) -> Handles \cup Cleared]
    BY <1>1 DEF TypeInv
  <2>3. \A v \in Users : /\ user'[v].pc \in Locations(user'[v].op)
                         /\ Lists(user'[v]) => /\ Writes(v, user'[v].owner)
                                               /\ user'[v].item \in Items(user'[v].owner)
                         /\ user'[v].op = "destroy" => user'[v].item \in Handles
                         /\ user'[v].op = "shutdown" => user'[v].item = Null
    <3> TAKE v \in Users
    <3>1. CASE v = u
      BY <1>1, <3>1 DEF TypeInv, Lists
    <3>2. CASE v # u
      BY <1>1, <3>2 DEF TypeInv
    <3>3. QED
      BY <3>1, <3>2
  <2>4. \A p \in Owners : listed'[p] \in Seq(Items(p))
    BY <1>1 DEF TypeInv
  <2>5. listed' = [p \in Owners |-> listed'[p]]
    BY <1>0
  <2>6. QED
    BY <2>1, <2>2, <2>3, <2>4, <2>5 DEF TypeInv, PassType
<1>3. \A v \in Users : v # u /\ Lists(user[v]) => user[v].owner # o
  BY Alone
<1>4. \A p \in Owners : Distinct(listed'[p])
  BY <1>1 DEF ListInv
<1>5. ASSUME NEW p \in Owners, NEW v \in Users, Lists(user'[v]), user'[v].owner = p
      PROVE  Within(list'[p], listed'[p], user'[v])
  <2>1. CASE v = u
    BY <1>1, <1>5, <2>1 DEF Lists
  <2>2. CASE v # u
    <3>1. p # o /\ user'[v] = user[v]
      BY <1>1, <1>3, <1>5, <2>2
    <3>2. QED
      BY <1>1, <1>5, <3>1 DEF ListInv
  <2>3. QED
    BY <2>1, <2>2
<1>6. ASSUME NEW p \in Owners, \A v \in Users : ~(Lists(user'[v]) /\ user'[v].owner = p)
      PROVE  Settled(list'[p], listed'[p])
  <2>1. CASE p = o
    BY <1>1, <1>6, <2>1 DEF Lists
  <2>2. CASE p # o
    <3>1. \A v \in Users : ~(Lists(user[v]) /\ user[v].owner = p)
      BY <1>1, <1>6, <2>2
    <3>2. QED
      BY <1>1, <2>2, <3>1 DEF ListInv
  <2>3. QED
    BY <2>1, <2>2
<1>7. \A v \in Users : user'[v].found => user'[v].op = "unregister" /\ user'[v].pc = "unlock"
  BY <1>1 DEF ListInv
<1>8. QED
  BY <1>2, <1>4, <1>5, <1>6, <1>7 DEF ListInv

\* What the invariants say of user u's call.
LEMMA CallFacts ==
    ASSUME TypeInv, ListInv, NEW u \in Users, user[u].op # "none"
    PROVE  /\ user[u] \in UserType /\ user[u].owner \in Owners
           /\ list \in [Owners -> ListType] /\ list[user[u].owner] \in ListType
           /\ list[user[u].owner].memory \in [0..(list[user[u].owner].capacity - 1) -> Handles \cup Cleared]
           /\ listed[user[u].owner] \in Seq(Items(user[u].owner)) /\ Distinct(listed[user[u].owner])
           /\ listed = [listed EXCEPT ![user[u].owner] = listed[user[u].owner]]
           /\ list = [list EXCEPT ![user[u].owner] = list[user[u].owner]]
           /\ user = [user EXCEPT ![u] = user[u]]
           /\ Lists(user[u]) => /\ Within(list[user[u].owner], listed[user[u].owner], user[u])
                                /\ user[u].item \in Items(user[u].owner)
           /\ user[u].pc \in Locations(user[u].op)
           /\ user[u].found => user[u].op = "unregister" /\ user[u].pc = "unlock"
           /\ disp \in DispType /\ pass \in PassType
<1>1. user[u] \in UserType /\ user[u].owner \in Owners
  BY DEF TypeInv, UserType
<1>2. /\ list \in [Owners -> ListType] /\ user \in [Users -> UserType]
      /\ listed = [p \in Owners |-> listed[p]]
  BY DEF TypeInv
<1>3. QED
  BY <1>1, <1>2 DEF TypeInv, ListInv, PassType

\* The calls by the locations they can be at.
LEMMA AtFacts ==
    ASSUME TypeInv, NEW u \in Users
    PROVE  /\ user[u].pc \in {"grow", "store", "publish"} => user[u].op = "register"
           /\ user[u].pc \in {"find", "shift", "shrink"} => user[u].op = "unregister"
           /\ user[u].pc \in {"lock", "unlock"} => Lists(user[u])
           /\ user[u].pc = "idle" <=> user[u].op = "none"
           /\ user[u].pc = "destroy" <=> user[u].op = "destroy"
           /\ user[u].pc \in {"stop", "join", "free"} <=> user[u].op = "shutdown"
<1>1. user[u] \in UserType /\ user[u].pc \in Locations(user[u].op)
  BY DEF TypeInv
<1>2. QED
  BY <1>1 DEF Locations, UserType, Lists

LEMMA LockListKeeps ==
    ASSUME OneWriter, TypeInv, ListInv, NEW u \in Users, LockList(u)
    PROVE  TypeInv' /\ ListInv'
<1> DEFINE o == user[u].owner
           s == listed[o]
           entered == [user[u] EXCEPT !.pc = IF user[u].op = "register" THEN "grow" ELSE "find"]
<1>1. user[u].pc = "lock" /\ Lists(user[u]) /\ UNCHANGED <<disp, pass, listed>>
  BY AtFacts DEF LockList, At, UserOnly
<1>2. PICK flag \in BOOLEAN : /\ list' = [list EXCEPT ![o].locked = flag]
                              /\ user' = user \/ user' = [user EXCEPT ![u] = entered]
  BY DEF LockList
<1>3. user[u].op # "none"
  BY <1>1 DEF Lists
<1> DEFINE l == [list[o] EXCEPT !.locked = flag]
<1>4. /\ l \in ListType /\ l.memory = list[o].memory /\ l.size = list[o].size
      /\ l.capacity = list[o].capacity
  BY <1>3, CallFacts DEF ListType
<1>5. list' = [list EXCEPT ![o] = l]
  BY <1>2
<1>6. Within(l, s, user[u])
  <2>1. Within(list[o], s, user[u])
    BY <1>1, <1>3, CallFacts
  <2> HIDE DEF l, s
  <2>2. QED
    BY <1>4, <2>1 DEF Within, Adding, Closing, Settled, ClearedFrom
<1>7. /\ entered \in UserType /\ entered.op = user[u].op /\ entered.owner = o
      /\ entered.item = user[u].item /\ entered.pc \in {"grow", "find"} /\ entered.found = user[u].found
      /\ entered.pc \in Locations(entered.op)
  BY <1>1, <1>3, CallFacts DEF UserType, Lists, Locations
<1>8. ~user[u].found
  BY <1>1, <1>3, CallFacts
<1>9. Within(l, s, entered)
  <2>1. CASE user[u].op = "register"
    <3>1. entered.pc = "grow" /\ entered.op = "register" /\ Adding(l, s, user[u])
      BY <1>1, <1>6, <1>7, <2>1 DEF Within
    <3> HIDE DEF l, s, entered
    <3>2. Adding(l, s, entered)
      BY <1>1, <1>7, <3>1 DEF Adding
    <3>3. QED
      BY <3>1, <3>2 DEF Within
  <2>2. CASE user[u].op # "register"
    <3>1. entered.pc = "find" /\ entered.op = "unregister" /\ Settled(l, s)
      BY <1>1, <1>6, <1>7, <1>8, <2>2 DEF Within, Lists
    <3> HIDE DEF l, s, entered
    <3>2. QED
      BY <1>7, <1>8, <3>1 DEF Within
  <2>3. QED
    BY <2>1, <2>2
<1>10. \E c \in {user[u], entered} : user' = [user EXCEPT ![u] = c]
  BY <1>2, <1>3, CallFacts
<1> HIDE DEF l, entered
<1>11. /\ l.memory \in [0..(l.capacity - 1) -> Handles \cup Cleared]
       /\ listed' = [listed EXCEPT ![o] = s] /\ disp' \in DispType /\ pass' \in PassType
       /\ s \in Seq(Items(o)) /\ Distinct(s) /\ o \in Owners
       /\ user[u] \in UserType /\ user[u].pc \in Locations(user[u].op)
  BY <1>1, <1>3, <1>4, CallFacts
<1>12. o = user[u].owner
  OBVIOUS
<1> HIDE DEF o, s
<1>13. CASE user' = [user EXCEPT ![u] = user[u]]
  BY <1>1, <1>4, <1>5, <1>6, <1>8, <1>11, <1>12, <1>13, CallMoves
<1>14. CASE user' = [user EXCEPT ![u] = entered]
  BY <1>1, <1>4, <1>5, <1>7, <1>8, <1>9, <1>11, <1>12, <1>14, CallMoves
<1>15. QED
  BY <1>10, <1>13, <1>14

LEMMA GrowListKeeps ==
    ASSUME OneWriter, TypeInv, ListInv, NEW u \in Users, GrowList(u)
    PROVE  TypeInv' /\ ListInv'
<1> DEFINE o == user[u].owner
           s == listed[o]
           z == list[o].size
           k == 2 * (z + 1)
           c == [user[u] EXCEPT !.pc = "store", !.pos = z]
           m == [i \in 0..(k - 1) |-> Slot(o, i)]
           grown == [list[o] EXCEPT !.capacity = k, !.memory = m]
<1>1. user[u].pc = "grow" /\ user[u].op = "register" /\ UNCHANGED listed
  BY AtFacts DEF GrowList, At
<1>2. Lists(user[u]) /\ user[u].op # "none"
  BY <1>1 DEF Lists
<1>3. user' = [user EXCEPT ![u] = c]
  BY DEF GrowList
<1>4. /\ list[o] \in ListType /\ z \in Nat /\ list[o].capacity \in Nat /\ o \in Owners
      /\ Adding(list[o], s, user[u])
  BY <1>1, <1>2, CallFacts DEF Within, ListType
<1>5. /\ c \in UserType /\ c.op = "register" /\ c.owner = o /\ c.item = user[u].item
      /\ c.pc = "store" /\ c.pos = z /\ c.found = user[u].found /\ c.pc \in Locations(c.op)
  BY <1>1, <1>2, <1>4, CallFacts DEF UserType, Locations
<1>6. ~c.found
  BY <1>1, <1>2, <1>5, CallFacts
<1>7. disp' \in DispType /\ pass' \in PassType
  <2>1. disp \in DispType /\ pass \in PassType
    BY <1>2, CallFacts
  <2>2. disp' = disp \/ disp' = [disp EXCEPT !.buffer = "freed"]
    BY DEF GrowList
  <2>3. pass' = pass \/ \E moved \in BOOLEAN : pass' = [pass EXCEPT !.changed = @ \/ moved]
    BY DEF GrowList
  <2>4. QED
    BY <2>1, <2>2, <2>3 DEF DispType, PassType
<1>8. PICK l \in {list[o], grown} :
         /\ list' = [list EXCEPT ![o] = l]
         /\ l = list[o] => z + 1 <= list[o].capacity
         /\ l # list[o] => z + 1 > list[o].capacity
  <2>1. CASE z + 1 > list[o].capacity
    <3>1. list' = [list EXCEPT ![o] = grown]
      BY <2>1 DEF GrowList
    <3>2. grown # list[o]
      <4>1. grown.capacity = k /\ k # list[o].capacity
        BY <1>4, <2>1 DEF ListType
      <4>2. QED
        BY <4>1
    <3>3. QED
      BY <2>1, <3>1, <3>2
  <2>2. CASE ~(z + 1 > list[o].capacity)
    <3>1. list' = list
      BY <2>2 DEF GrowList
    <3>2. z + 1 <= list[o].capacity
      BY <1>4, <2>2
    <3>3. QED
      BY <1>2, <3>1, <3>2, CallFacts
  <2>3. QED
    BY <2>1, <2>2
<1>9. /\ l \in ListType /\ l.memory \in [0..(l.capacity - 1) -> Handles \cup Cleared]
      /\ l.size = z /\ z < l.capacity
      /\ \A i \in 0..(l.capacity - 1) : l.memory[i] = Slot(o, i)
  <2>1. CASE l = list[o]
    <3>1. \A i \in 0..(l.capacity - 1) : l.memory[i] = Slot(o, i)
      BY <1>4, <2>1 DEF Slot
    <3>2. QED
      BY <1>2, <1>4, <1>8, <2>1, <3>1, CallFacts
  <2>2. CASE l # list[o]
    <3>1. k \in Nat /\ z < k
      BY <1>4
    <3>2. \A i \in 0..(k - 1) : Slot(o, i) \in Handles \cup Cleared
      BY <1>4, <3>1, SlotIsTyped
    <3>3. m \in [0..(k - 1) -> Handles \cup Cleared] /\ \A i \in 0..(k - 1) : m[i] = Slot(o, i)
      BY <3>2
    <3> HIDE DEF m, k
    <3>4. m \in UNION {[0..(n - 1) -> Handles \cup Cleared] : n \in Nat}
      BY <3>1, <3>3
    <3>5. grown \in ListType /\ grown.memory = m /\ grown.size = z /\ grown.capacity = k
      BY <1>4, <3>1, <3>4 DEF ListType
    <3>6. QED
      BY <1>8, <2>2, <3>1, <3>3, <3>5
  <2>3. QED
    BY <2>1, <2>2
<1>10. Adding(l, s, c)
  <2>1. /\ \A i \in 0..(l.capacity - 1) : i >= z => l.memory[i] \in Cleared
        /\ \A j \in 1..z : l.memory[j - 1] = s[j]
    <3>1. \A i \in z..(list[o].capacity - 1) : list[o].memory[i] \in Cleared
      BY <1>1, <1>4 DEF Adding, ClearedFrom
    <3>2. ASSUME NEW i \in 0..(l.capacity - 1), i >= z
          PROVE  Slot(o, i) \in Cleared
      <4>1. CASE i < list[o].capacity
        <5>1. i \in z..(list[o].capacity - 1)
          BY <1>4, <3>2, <4>1
        <5>2. QED
          BY <3>1, <4>1, <5>1 DEF Slot
      <4>2. CASE ~(i < list[o].capacity)
        BY <4>2 DEF Slot, Cleared
      <4>3. QED
        BY <4>1, <4>2
    <3>3. ASSUME NEW j \in 1..z
          PROVE  j - 1 \in 0..(l.capacity - 1) /\ Slot(o, j - 1) = s[j]
      <4>1. z <= list[o].capacity /\ list[o].memory[j - 1] = s[j]
        BY <1>4 DEF Adding
      <4>2. j - 1 < list[o].capacity /\ j - 1 \in 0..(l.capacity - 1)
        <5>1. z < l.capacity /\ l.capacity \in Nat
          BY <1>9 DEF ListType
        <5>2. z \in Nat /\ list[o].capacity \in Nat
          BY <1>4
        <5> HIDE DEF z
        <5>3. QED
          BY <4>1, <5>1, <5>2
      <4>3. QED
        BY <4>1, <4>2 DEF Slot
    <3>4. QED
      BY <1>9, <3>2, <3>3
  <2>2. Len(s) = z + 1 /\ s[z + 1] = user[u].item
    BY <1>4 DEF Adding
  <2>3. l.capacity \in Nat
    BY <1>9 DEF ListType
  <2> HIDE DEF c, s, z
  <2>4. ClearedFrom(l, z)
    BY <1>4, <2>1, <2>3 DEF ClearedFrom
  <2>5. QED
    BY <1>4, <1>5, <1>9, <2>1, <2>2, <2>3, <2>4 DEF Adding
<1> HIDE DEF c
<1>11. Within(l, s, c)
  BY <1>5, <1>10 DEF Within
<1>12. listed' = [listed EXCEPT ![o] = s] /\ s \in Seq(Items(o)) /\ Distinct(s)
  BY <1>1, <1>2, CallFacts
<1>13. o = user[u].owner /\ list' = [list EXCEPT ![o] = l]
  BY <1>8
<1>14. c.op = user[u].op
  BY <1>1, <1>5
<1>15. \/ /\ c.op = user[u].op /\ c.owner = o /\ c.item = user[u].item /\ Within(l, s, c)
          /\ c.found => c.op = "unregister" /\ c.pc = "unlock"
       \/ c.op = "none" /\ ~c.found /\ Settled(l, s)
  BY <1>5, <1>6, <1>11, <1>14
<1> HIDE DEF o, s, z, k, m, grown
<1>16. QED
  BY <1>2, <1>3, <1>4, <1>5, <1>7, <1>9, <1>12, <1>13, <1>15, CallMoves

LEMMA ItemIsAHandle == ASSUME NEW o \in Owners, NEW x \in Items(o) PROVE x \in Handles
BY DEF Items, Handles

LEMMA StoreItemKeeps ==
    ASSUME OneWriter, TypeInv, ListInv, NEW u \in Users, StoreItem(u)
    PROVE  TypeInv' /\ ListInv'
<1> DEFINE o == user[u].owner
           s == listed[o]
           z == list[o].size
           x == user[u].item
           m == [list[o].memory EXCEPT ![z] = x]
           l == [list[o] EXCEPT !.memory = m]
           c == [user[u] EXCEPT !.pc = "publish"]
<1>1. user[u].pc = "store" /\ user[u].op = "register" /\ UNCHANGED <<disp, pass, listed>>
  BY AtFacts DEF StoreItem, At, UserOnly
<1>2. Lists(user[u]) /\ user[u].op # "none"
  BY <1>1 DEF Lists
<1>3. user' = [user EXCEPT ![u] = c]
  BY DEF StoreItem
<1>4. /\ list[o] \in ListType /\ z \in Nat /\ list[o].capacity \in Nat /\ o \in Owners
      /\ Adding(list[o], s, user[u]) /\ user[u].pos = z /\ z < list[o].capacity
      /\ list[o].memory \in [0..(list[o].capacity - 1) -> Handles \cup Cleared] /\ x \in Handles
  BY <1>1, <1>2, CallFacts, ItemIsAHandle DEF Within, Adding, ListType
<1>5. list' = [list EXCEPT ![o] = l]
  BY <1>4 DEF StoreItem
<1>6. /\ c \in UserType /\ c.op = "register" /\ c.owner = o /\ c.item = x
      /\ c.pc = "publish" /\ c.pos = z /\ c.found = user[u].found /\ c.pc \in Locations(c.op)
  BY <1>1, <1>2, <1>4, CallFacts DEF UserType, Locations
<1>7. ~c.found
  BY <1>1, <1>2, <1>6, CallFacts
<1>8. /\ m \in [0..(list[o].capacity - 1) -> Handles \cup Cleared]
      /\ \A i \in 0..(list[o].capacity - 1) : m[i] = IF i = z THEN x ELSE list[o].memory[i]
  BY <1>4
<1>9. l \in ListType /\ l.memory = m /\ l.size = z /\ l.capacity = list[o].capacity
  <2>1. m \in UNION {[0..(n - 1) -> Handles \cup Cleared] : n \in Nat}
    BY <1>4, <1>8
  <2> HIDE DEF m
  <2>2. QED
    BY <1>4, <2>1 DEF ListType
<1> HIDE DEF m, l, c
<1>10. Adding(l, s, c)
  <2>1. Len(s) = z + 1 /\ s[z + 1] = x /\ z <= l.capacity
    BY <1>4, <1>9 DEF Adding
  <2>2. \A j \in 1..z : l.memory[j - 1] = s[j]
    <3> TAKE j \in 1..z
    <3>1. list[o].memory[j - 1] = s[j]
      BY <1>4 DEF Adding
    <3>2. j - 1 \in 0..(list[o].capacity - 1) /\ j - 1 # z
      BY <1>4
    <3>3. QED
      BY <1>8, <1>9, <3>1, <3>2
  <2>3. ClearedFrom(l, z + 1)
    <3>1. \A i \in (z + 1)..(l.capacity - 1) :
             i # z /\ i \in 0..(list[o].capacity - 1) /\ i \in z..(list[o].capacity - 1)
      BY <1>4, <1>9
    <3>2. \A i \in z..(list[o].capacity - 1) : list[o].memory[i] \in Cleared
      BY <1>1, <1>4 DEF Adding, ClearedFrom
    <3>3. QED
      BY <1>8, <1>9, <3>1, <3>2 DEF ClearedFrom
  <2>4. l.memory[z] = x
    BY <1>4, <1>8, <1>9
  <2> HIDE DEF o, s, z, x
  <2>5. QED
    BY <1>4, <1>6, <1>9, <2>1, <2>2, <2>3, <2>4 DEF Adding
<1>11. Within(l, s, c)
  BY <1>6, <1>10 DEF Within
<1>12. /\ listed' = [listed EXCEPT ![o] = s] /\ s \in Seq(Items(o)) /\ Distinct(s)
       /\ disp' \in DispType /\ pass' \in PassType /\ o = user[u].owner
  BY <1>1, <1>2, CallFacts
<1>13. \/ /\ c.op = user[u].op /\ c.owner = o /\ c.item = user[u].item /\ Within(l, s, c)
          /\ c.found => c.op = "unregister" /\ c.pc = "unlock"
       \/ c.op = "none" /\ ~c.found /\ Settled(l, s)
  BY <1>1, <1>6, <1>7, <1>11
<1> HIDE DEF o, s, z, x
<1>14. QED
  BY <1>2, <1>3, <1>4, <1>5, <1>6, <1>8, <1>9, <1>12, <1>13, CallMoves

LEMMA PublishSizeKeeps ==
    ASSUME OneWriter, TypeInv, ListInv, NEW u \in Users, PublishSize(u)
    PROVE  TypeInv' /\ ListInv'
<1> DEFINE o == user[u].owner
           s == listed[o]
           z == list[o].size
           x == user[u].item
           l == [list[o] EXCEPT !.size = z + 1]
           c == [user[u] EXCEPT !.pc = "unlock"]
<1>1. user[u].pc = "publish" /\ user[u].op = "register" /\ UNCHANGED <<disp, pass, listed>>
  BY AtFacts DEF PublishSize, At, UserOnly
<1>2. Lists(user[u]) /\ user[u].op # "none"
  BY <1>1 DEF Lists
<1>3. user' = [user EXCEPT ![u] = c]
  BY DEF PublishSize
<1>4. /\ list[o] \in ListType /\ z \in Nat /\ list[o].capacity \in Nat /\ o \in Owners
      /\ Adding(list[o], s, user[u]) /\ user[u].pos = z /\ z < list[o].capacity
      /\ list[o].memory \in [0..(list[o].capacity - 1) -> Handles \cup Cleared]
  BY <1>1, <1>2, CallFacts DEF Within, Adding, ListType
<1>5. list' = [list EXCEPT ![o] = l]
  BY <1>4 DEF PublishSize
<1>6. /\ c \in UserType /\ c.op = "register" /\ c.owner = o /\ c.item = x
      /\ c.pc = "unlock" /\ c.found = user[u].found /\ c.pc \in Locations(c.op)
  BY <1>1, <1>2, CallFacts DEF UserType, Locations
<1>7. ~c.found
  BY <1>1, <1>2, <1>6, CallFacts
<1>8. /\ l \in ListType /\ l.memory = list[o].memory /\ l.size = z + 1
      /\ l.capacity = list[o].capacity
  BY <1>4 DEF ListType
<1> HIDE DEF l, c
<1>9. Settled(l, s)
  <2>1. /\ Len(s) = z + 1 /\ s[z + 1] = x /\ list[o].memory[z] = x /\ ClearedFrom(list[o], z + 1)
        /\ \A k \in 1..z : list[o].memory[k - 1] = s[k]
    BY <1>1, <1>4 DEF Adding
  <2> HIDE DEF o, s, z, x
  <2>2. ASSUME NEW k \in 1..Len(s) PROVE l.memory[k - 1] = s[k]
    <3>1. CASE k = z + 1
      BY <1>4, <1>8, <2>1, <3>1
    <3>2. CASE k # z + 1
      <4>1. k \in 1..z
        BY <1>4, <2>1, <3>2
      <4>2. QED
        BY <1>8, <2>1, <4>1
    <3>3. QED
      BY <3>1, <3>2
  <2>3. ClearedFrom(l, z + 1)
    BY <1>8, <2>1 DEF ClearedFrom
  <2> HIDE DEF o, s, z, x
  <2>4. l.size = Len(s) /\ l.size <= l.capacity /\ ClearedFrom(l, l.size)
    BY <1>4, <1>8, <2>1, <2>3
  <2>5. QED
    BY <2>2, <2>4 DEF Settled
<1>10. Within(l, s, c)
  BY <1>6, <1>7, <1>9 DEF Within
<1>11. /\ listed' = [listed EXCEPT ![o] = s] /\ s \in Seq(Items(o)) /\ Distinct(s)
       /\ disp' \in DispType /\ pass' \in PassType /\ o = user[u].owner
  BY <1>1, <1>2, CallFacts
<1>12. \/ /\ c.op = user[u].op /\ c.owner = o /\ c.item = user[u].item /\ Within(l, s, c)
          /\ c.found => c.op = "unregister" /\ c.pc = "unlock"
       \/ c.op = "none" /\ ~c.found /\ Settled(l, s)
  BY <1>1, <1>6, <1>7, <1>10
<1> HIDE DEF o, s, z, x
<1>13. QED
  BY <1>2, <1>3, <1>4, <1>5, <1>6, <1>8, <1>11, <1>12, CallMoves

LEMMA ReturnedIsTyped ==
    ASSUME NEW n \in Nat
    PROVE  /\ Returned(n) \in UserType /\ Returned(n).op = "none" /\ Returned(n).pc = "idle"
           /\ ~Returned(n).found /\ Returned(n).item = Null
           /\ Returned(n).pc \in Locations(Returned(n).op)
BY DEF Returned, UserType, Owners, Locations

LEMMA FindItemKeeps ==
    ASSUME OneWriter, TypeInv, ListInv, NEW u \in Users, FindItem(u)
    PROVE  TypeInv' /\ ListInv'
<1> DEFINE o == user[u].owner
           s == listed[o]
           z == list[o].size
           x == user[u].item
           l == list[o]
<1>1. user[u].pc = "find" /\ user[u].op = "unregister" /\ UNCHANGED <<list, disp, pass, listed>>
  BY AtFacts DEF FindItem, At, UserOnly
<1>2. Lists(user[u]) /\ user[u].op # "none" /\ ~user[u].found
  BY <1>1, CallFacts DEF Lists
<1>3. /\ l \in ListType /\ z \in Nat /\ l.capacity \in Nat /\ o \in Owners
      /\ Settled(l, s) /\ l.memory \in [0..(l.capacity - 1) -> Handles \cup Cleared]
      /\ user[u] \in UserType /\ user[u].calls \in Nat
  BY <1>1, <1>2, CallFacts DEF Within, ListType, UserType
<1>4. /\ list' = [list EXCEPT ![o] = l] /\ listed' = [listed EXCEPT ![o] = s]
      /\ s \in Seq(Items(o)) /\ Distinct(s)
      /\ disp' \in DispType /\ pass' \in PassType /\ o = user[u].owner
  BY <1>1, <1>2, CallFacts
<1>5. ASSUME NEW i \in 0..(z - 1), Slot(o, i) = x,
             user' = [user EXCEPT ![u].pc = "shift", ![u].pos = i, ![u].n = z]
      PROVE  TypeInv' /\ ListInv'
  <2> DEFINE c == [user[u] EXCEPT !.pc = "shift", !.pos = i, !.n = z]
  <2>1. user' = [user EXCEPT ![u] = c]
    BY <1>2, <1>5, CallFacts
  <2>2. i \in Nat /\ i < z
    BY <1>3
  <2>3. /\ c \in UserType /\ c.op = "unregister" /\ c.owner = o /\ c.item = x
        /\ c.pc = "shift" /\ c.pos = i /\ c.n = z /\ ~c.found /\ c.pc \in Locations(c.op)
    BY <1>1, <1>2, <1>3, <2>2 DEF UserType, Locations
  <2> HIDE DEF c
  <2>4. Len(s) = z /\ z <= l.capacity /\ l.memory[i] = s[i + 1] /\ Slot(o, i) = l.memory[i]
    <3>1. Len(s) = z /\ z <= l.capacity /\ \A k \in 1..Len(s) : l.memory[k - 1] = s[k]
      BY <1>3 DEF Settled
    <3>2. i + 1 \in 1..Len(s) /\ (i + 1) - 1 = i /\ i < l.capacity
      BY <1>3, <2>2, <3>1
    <3>3. QED
      BY <3>1, <3>2 DEF Slot
  <2>5. i + 1 \in 1..Len(s) /\ s[i + 1] = x
    BY <1>3, <1>5, <2>2, <2>4
  <2>6. Contains(s, x) /\ Position(s, x) = i + 1
    <3>1. Contains(s, x)
      BY <2>5 DEF Contains
    <3>2. Position(s, x) \in 1..Len(s) /\ s[Position(s, x)] = x
      BY <1>4, <3>1, WithoutFacts
    <3>3. QED
      BY <1>4, <2>5, <3>1, <3>2 DEF Distinct
  <2>7. Closing(l, s, c)
    <3>1. \A k \in 1..Len(s) : ~(i + 1 <= k /\ k <= i) /\ l.memory[k - 1] = s[k]
      BY <1>3, <2>2 DEF Settled
    <3>2. l.size = Len(s) /\ l.size <= l.capacity /\ ClearedFrom(l, l.size) /\ c.n = l.size
      BY <1>3, <2>3 DEF Settled
    <3> HIDE DEF o, s, l, x
    <3>3. QED
      BY <1>3, <2>2, <2>3, <2>6, <3>1, <3>2 DEF Closing
  <2>8. Within(l, s, c)
    BY <2>3, <2>7 DEF Within
  <2>9. \/ /\ c.op = user[u].op /\ c.owner = o /\ c.item = user[u].item /\ Within(l, s, c)
           /\ c.found => c.op = "unregister" /\ c.pc = "unlock"
        \/ c.op = "none" /\ ~c.found /\ Settled(l, s)
    BY <1>1, <2>3, <2>8
  <2> HIDE DEF o, s, z, x, l
  <2>10. QED
    BY <1>2, <1>3, <1>4, <2>1, <2>3, <2>9, CallMoves
<1>6. ASSUME NEW c \in UserType, user' = [user EXCEPT ![u] = c], c.pc \in Locations(c.op), ~c.found,
             c.op = "none" \/ (c.op = user[u].op /\ c.owner = o /\ c.item = x /\ c.pc = "unlock")
      PROVE  TypeInv' /\ ListInv'
  <2>1. c.op = "none" \/ Within(l, s, c)
    BY <1>1, <1>3, <1>6 DEF Within
  <2>2. \/ /\ c.op = user[u].op /\ c.owner = o /\ c.item = user[u].item /\ Within(l, s, c)
           /\ c.found => c.op = "unregister" /\ c.pc = "unlock"
        \/ c.op = "none" /\ ~c.found /\ Settled(l, s)
    BY <1>3, <1>6, <2>1
  <2> HIDE DEF o, s, z, x, l
  <2>3. QED
    BY <1>2, <1>3, <1>4, <1>6, <2>2, CallMoves
<1>7. CASE user' = [user EXCEPT ![u] = Returned(user[u].calls)]
  BY <1>3, <1>6, <1>7, ReturnedIsTyped
<1>8. CASE user' = [user EXCEPT ![u] = [user[u] EXCEPT !.pc = "unlock"]]
  <2> DEFINE c == [user[u] EXCEPT !.pc = "unlock"]
  <2>1. /\ c \in UserType /\ c.op = user[u].op /\ c.owner = o /\ c.item = x
        /\ c.pc = "unlock" /\ ~c.found /\ c.pc \in Locations(c.op)
    BY <1>1, <1>2, <1>3 DEF UserType, Locations
  <2> HIDE DEF c
  <2>2. user' = [user EXCEPT ![u] = c]
    BY <1>8 DEF c
  <2>3. QED
    BY <1>6, <2>1, <2>2
<1>9. \/ \E i \in 0..(z - 1) : /\ Slot(o, i) = x
                               /\ user' = [user EXCEPT ![u].pc = "shift", ![u].pos = i, ![u].n = z]
      \/ user' = [user EXCEPT ![u] = Returned(user[u].calls)]
      \/ user' = [user EXCEPT ![u] = [user[u] EXCEPT !.pc = "unlock"]]
  BY DEF FindItem
<1>10. QED
  BY <1>5, <1>7, <1>8, <1>9

LEMMA ShiftSlotKeeps ==
    ASSUME OneWriter, TypeInv, ListInv, NEW u \in Users, ShiftSlot(u)
    PROVE  TypeInv' /\ ListInv'
<1> DEFINE o == user[u].owner
           s == listed[o]
           z == list[o].size
           x == user[u].item
           p == user[u].pos
           m == [list[o].memory EXCEPT ![p] = Slot(o, p + 1)]
           l == [list[o] EXCEPT !.memory = m]
           c == [user[u] EXCEPT !.pos = p + 1,
                                !.pc = IF p + 1 < user[u].n THEN "shift" ELSE "shrink"]
<1>1. user[u].pc = "shift" /\ user[u].op = "unregister" /\ UNCHANGED <<disp, listed>>
  BY AtFacts DEF ShiftSlot, At
<1>2. Lists(user[u]) /\ user[u].op # "none" /\ ~user[u].found
  BY <1>1, CallFacts DEF Lists
<1>3. user' = [user EXCEPT ![u] = c] /\ list' = [list EXCEPT ![o] = l]
  BY DEF ShiftSlot
<1>4. /\ list[o] \in ListType /\ z \in Nat /\ list[o].capacity \in Nat /\ o \in Owners
      /\ Closing(list[o], s, user[u]) /\ p \in Nat /\ user[u].n = z
      /\ list[o].memory \in [0..(list[o].capacity - 1) -> Handles \cup Cleared]
  BY <1>1, <1>2, CallFacts DEF Within, Closing, ListType, UserType
<1>5. /\ Len(s) = z /\ z <= list[o].capacity /\ ClearedFrom(list[o], z) /\ p < z
      /\ Contains(s, x) /\ Position(s, x) - 1 <= p
      /\ \A k \in 1..z :
          IF Position(s, x) <= k /\ k <= p
          THEN IF k = z THEN list[o].memory[k - 1] \in Cleared ELSE list[o].memory[k - 1] = s[k + 1]
          ELSE list[o].memory[k - 1] = s[k]
  BY <1>1, <1>4 DEF Closing
<1>6. Position(s, x) \in 1..z
  BY <1>2, <1>5, CallFacts, WithoutFacts
<1>7. /\ c \in UserType /\ c.op = "unregister" /\ c.owner = o /\ c.item = x /\ c.n = z
      /\ c.pos = p + 1 /\ ~c.found /\ c.pc \in Locations(c.op)
      /\ c.pc = IF p + 1 < z THEN "shift" ELSE "shrink"
  <2>1. user[u] \in UserType /\ p + 1 \in Nat
    BY <1>2, <1>4, CallFacts
  <2>2. c \in UserType
    BY <2>1 DEF UserType
  <2>3. QED
    BY <1>1, <1>2, <1>4, <2>1, <2>2 DEF UserType, Locations
<1>8. Slot(o, p + 1) \in Handles \cup Cleared
  BY <1>4, SlotIsTyped
<1>9. IF p + 1 = z THEN Slot(o, p + 1) \in Cleared ELSE Slot(o, p + 1) = s[p + 2]
  <2>1. CASE p + 1 = z
    <3>1. CASE z < list[o].capacity
      <4>1. z \in z..(list[o].capacity - 1)
        BY <1>4, <3>1
      <4>2. QED
        BY <1>5, <2>1, <3>1, <4>1 DEF Slot, ClearedFrom
    <3>2. CASE ~(z < list[o].capacity)
      BY <2>1, <3>2 DEF Slot, Cleared
    <3>3. QED
      BY <3>1, <3>2
  <2>2. CASE p + 1 # z
    <3>1. p + 2 \in 1..z /\ ~(p + 2 <= p) /\ (p + 2) - 1 = p + 1 /\ p + 1 < list[o].capacity
      <4>1. p \in Nat /\ z \in Nat /\ list[o].capacity \in Nat /\ p < z /\ z <= list[o].capacity
        BY <1>4, <1>5
      <4> HIDE DEF p, z, o
      <4>2. QED
        BY <2>2, <4>1
    <3>2. list[o].memory[p + 1] = s[p + 2]
      BY <1>5, <3>1
    <3>3. QED
      BY <2>2, <3>1, <3>2 DEF Slot
  <2>3. QED
    BY <2>1, <2>2
<1>10. /\ m \in [0..(list[o].capacity - 1) -> Handles \cup Cleared]
       /\ \A i \in 0..(list[o].capacity - 1) :
             m[i] = IF i = p THEN Slot(o, p + 1) ELSE list[o].memory[i]
  BY <1>4, <1>8
<1>11. l \in ListType /\ l.memory = m /\ l.size = z /\ l.capacity = list[o].capacity
  <2>1. m \in UNION {[0..(n - 1) -> Handles \cup Cleared] : n \in Nat}
    BY <1>4, <1>10
  <2> HIDE DEF m
  <2>2. QED
    BY <1>4, <2>1 DEF ListType
<1> HIDE DEF m, l, c
<1>12. Closing(l, s, c)
  <2> HIDE DEF o, s, z, x, p
  <2>1. ASSUME NEW k \in 1..z
        PROVE  IF Position(s, x) <= k /\ k <= p + 1
               THEN IF k = z THEN l.memory[k - 1] \in Cleared ELSE l.memory[k - 1] = s[k + 1]
               ELSE l.memory[k - 1] = s[k]
    <3>1. k - 1 \in 0..(list[o].capacity - 1)
      BY <1>4, <1>5
    <3>2. CASE k = p + 1
      <4>1. l.memory[k - 1] = Slot(o, p + 1)
        BY <1>4, <1>10, <1>11, <3>1, <3>2
      <4>2. Position(s, x) <= k /\ k <= p + 1 /\ k + 1 = p + 2
        BY <1>4, <1>5, <1>6, <3>2
      <4>3. QED
        BY <1>9, <3>2, <4>1, <4>2
    <3>3. CASE k # p + 1
      <4>1. l.memory[k - 1] = list[o].memory[k - 1] /\ (k <= p + 1 <=> k <= p)
        <5>1. k - 1 # p
          BY <1>4, <3>3
        <5>2. k <= p + 1 <=> k <= p
          BY <1>4, <3>3
        <5>3. QED
          BY <1>10, <1>11, <3>1, <5>1, <5>2
      <4>2. QED
        BY <1>5, <4>1
    <3>4. QED
      BY <3>2, <3>3
  <2>2. ClearedFrom(l, z)
    <3>1. \A i \in z..(l.capacity - 1) :
             i # p /\ i \in 0..(list[o].capacity - 1) /\ i \in z..(list[o].capacity - 1)
      BY <1>4, <1>5, <1>11
    <3>2. QED
      BY <1>5, <1>10, <1>11, <3>1 DEF ClearedFrom
  <2>3. IF c.pc = "shift" THEN c.pos < c.n ELSE c.pos = c.n
    BY <1>4, <1>5, <1>7
  <2>4. Position(s, x) - 1 <= c.pos
    BY <1>4, <1>5, <1>6, <1>7
  <2>5. /\ l.size = Len(s) /\ l.size <= l.capacity /\ ClearedFrom(l, l.size)
        /\ Contains(s, c.item) /\ c.n = l.size /\ Position(s, c.item) - 1 <= c.pos
    BY <1>5, <1>7, <1>11, <2>2, <2>4
  <2>6. \A k \in 1..Len(s) :
          IF Position(s, c.item) <= k /\ k <= c.pos
          THEN IF k = Len(s) THEN l.memory[k - 1] \in Cleared ELSE l.memory[k - 1] = s[k + 1]
          ELSE l.memory[k - 1] = s[k]
    BY <1>5, <1>7, <2>1
  <2>7. QED
    BY <2>3, <2>5, <2>6 DEF Closing
<1>13. Within(l, s, c)
  BY <1>7, <1>12 DEF Within
<1>14. /\ listed' = [listed EXCEPT ![o] = s] /\ s \in Seq(Items(o)) /\ Distinct(s)
       /\ disp' \in DispType /\ o = user[u].owner
  BY <1>1, <1>2, CallFacts
<1>15. pass' \in PassType
  <2>1. pass \in PassType /\ pass' = [pass EXCEPT !.changed = @ \/ o = Dispatcher]
    BY <1>2, CallFacts DEF ShiftSlot, Disturbed
  <2>2. QED
    BY <2>1 DEF PassType
<1>16. \/ /\ c.op = user[u].op /\ c.owner = o /\ c.item = user[u].item /\ Within(l, s, c)
          /\ c.found => c.op = "unregister" /\ c.pc = "unlock"
       \/ c.op = "none" /\ ~c.found /\ Settled(l, s)
  BY <1>1, <1>7, <1>13
<1> HIDE DEF o, s, z, x, p
<1>17. QED
  BY <1>2, <1>3, <1>4, <1>7, <1>10, <1>11, <1>14, <1>15, <1>16, CallMoves

LEMMA ShrinkListKeeps ==
    ASSUME OneWriter, TypeInv, ListInv, NEW u \in Users, ShrinkList(u)
    PROVE  TypeInv' /\ ListInv'
<1> DEFINE o == user[u].owner
           s == listed[o]
           z == list[o].size
           x == user[u].item
           l == [list[o] EXCEPT !.size = z - 1]
           c == [user[u] EXCEPT !.pc = "unlock", !.found = TRUE]
           w == Without(s, x)
<1>1. user[u].pc = "shrink" /\ user[u].op = "unregister" /\ UNCHANGED <<disp, listed>>
  BY AtFacts DEF ShrinkList, At
<1>2. Lists(user[u]) /\ user[u].op # "none"
  BY <1>1 DEF Lists
<1>3. user' = [user EXCEPT ![u] = c] /\ list' = [list EXCEPT ![o] = l]
  BY DEF ShrinkList
<1>4. /\ list[o] \in ListType /\ z \in Nat /\ list[o].capacity \in Nat /\ o \in Owners
      /\ Closing(list[o], s, user[u])
      /\ list[o].memory \in [0..(list[o].capacity - 1) -> Handles \cup Cleared]
  BY <1>1, <1>2, CallFacts DEF Within, ListType
<1>5. /\ Len(s) = z /\ z <= list[o].capacity /\ ClearedFrom(list[o], z) /\ user[u].pos = z
      /\ Contains(s, x)
      /\ \A k \in 1..z :
          IF Position(s, x) <= k /\ k <= z
          THEN IF k = z THEN list[o].memory[k - 1] \in Cleared ELSE list[o].memory[k - 1] = s[k + 1]
          ELSE list[o].memory[k - 1] = s[k]
  BY <1>1, <1>4 DEF Closing
<1>6. /\ Position(s, x) \in 1..z /\ Len(w) = z - 1
      /\ \A j \in 1..(z - 1) : w[j] = IF j < Position(s, x) THEN s[j] ELSE s[j + 1]
  <2>1. s \in Seq(Items(o)) /\ Distinct(s)
    BY <1>2, CallFacts
  <2>2. Len(s) = z /\ Contains(s, x)
    BY <1>5
  <2> HIDE DEF o, s, z, x
  <2>3. QED
    BY <2>1, <2>2, WithoutFacts
<1>7. /\ c \in UserType /\ c.op = "unregister" /\ c.owner = o /\ c.item = x
      /\ c.pc = "unlock" /\ c.found /\ c.pc \in Locations(c.op)
  <2>1. user[u] \in UserType
    BY <1>2, CallFacts
  <2>2. c \in UserType
    BY <2>1 DEF UserType
  <2>3. QED
    BY <1>1, <2>1, <2>2 DEF UserType, Locations
<1>8. /\ l \in ListType /\ l.memory = list[o].memory /\ l.size = z - 1
      /\ l.capacity = list[o].capacity /\ z - 1 \in Nat
  <2>1. z - 1 \in Nat
    BY <1>4, <1>6
  <2>2. QED
    BY <1>4, <2>1 DEF ListType
<1> HIDE DEF l, c, w
<1>9. Settled(l, w)
  <2> HIDE DEF o, s, z, x
  <2>1. ASSUME NEW k \in 1..Len(w) PROVE l.memory[k - 1] = w[k]
    <3>1. k \in 1..(z - 1) /\ k \in 1..z /\ k # z /\ k <= z
      BY <1>4, <1>6
    <3>2. CASE k < Position(s, x)
      BY <1>4, <1>5, <1>6, <1>8, <3>1, <3>2
    <3>3. CASE ~(k < Position(s, x))
      <4>1. Position(s, x) <= k
        BY <1>4, <1>6, <3>1, <3>3
      <4>2. list[o].memory[k - 1] = s[k + 1]
        BY <1>5, <3>1, <4>1
      <4>3. w[k] = s[k + 1]
        BY <1>6, <3>1, <3>3
      <4>4. QED
        BY <1>8, <4>2, <4>3
    <3>4. QED
      BY <3>2, <3>3
  <2>2. ClearedFrom(l, z - 1)
    <3>1. ASSUME NEW i \in (z - 1)..(l.capacity - 1) PROVE l.memory[i] \in Cleared
      <4>1. CASE i = z - 1
        <5>1. z \in 1..z /\ Position(s, x) <= z /\ z <= z
          BY <1>4, <1>6
        <5>2. QED
          BY <1>5, <1>8, <4>1, <5>1
      <4>2. CASE i # z - 1
        <5>1. i \in z..(list[o].capacity - 1)
          BY <1>4, <1>8, <4>2
        <5>2. QED
          BY <1>5, <1>8, <5>1 DEF ClearedFrom
      <4>3. QED
        BY <4>1, <4>2
    <3>2. QED
      BY <3>1 DEF ClearedFrom
  <2>3. l.size = Len(w) /\ l.size <= l.capacity
    BY <1>4, <1>5, <1>6, <1>8
  <2>4. QED
    BY <1>8, <2>1, <2>2, <2>3 DEF Settled
<1>10. Within(l, s, c)
  BY <1>5, <1>7, <1>9 DEF Within, w
<1>11. /\ listed' = [listed EXCEPT ![o] = s] /\ s \in Seq(Items(o)) /\ Distinct(s)
       /\ disp' \in DispType /\ o = user[u].owner
  BY <1>1, <1>2, CallFacts
<1>12. pass' \in PassType
  <2>1. pass \in PassType /\ pass' = [pass EXCEPT !.changed = @ \/ o = Dispatcher]
    BY <1>2, CallFacts DEF ShrinkList, Disturbed
  <2>2. QED
    BY <2>1 DEF PassType
<1>13. \/ /\ c.op = user[u].op /\ c.owner = o /\ c.item = user[u].item /\ Within(l, s, c)
          /\ c.found => c.op = "unregister" /\ c.pc = "unlock"
       \/ c.op = "none" /\ ~c.found /\ Settled(l, s)
  BY <1>1, <1>7, <1>10
<1> HIDE DEF o, s, z, x
<1>14. QED
  BY <1>2, <1>3, <1>4, <1>7, <1>8, <1>11, <1>12, <1>13, CallMoves

LEMMA UnlockListKeeps ==
    ASSUME OneWriter, TypeInv, ListInv, NEW u \in Users, UnlockList(u)
    PROVE  TypeInv' /\ ListInv'
<1> DEFINE o == user[u].owner
           s == listed[o]
           x == user[u].item
           told == IF user[u].found THEN Without(s, x) ELSE s
           l == [list[o] EXCEPT !.locked = FALSE]
           c == Returned(user[u].calls)
<1>1. user[u].pc = "unlock" /\ Lists(user[u]) /\ user[u].op # "none" /\ UNCHANGED <<disp, pass>>
  BY AtFacts DEF UnlockList, At, UserOnly, Lists
<1>2. user' = [user EXCEPT ![u] = c] /\ list' = [list EXCEPT ![o] = l]
  BY DEF UnlockList
<1>3. /\ list[o] \in ListType /\ o \in Owners /\ Within(list[o], s, user[u]) /\ user[u] \in UserType
      /\ list[o].memory \in [0..(list[o].capacity - 1) -> Handles \cup Cleared]
      /\ s \in Seq(Items(o)) /\ Distinct(s) /\ disp' \in DispType /\ pass' \in PassType
      /\ listed = [listed EXCEPT ![o] = s]
  BY <1>1, CallFacts
<1>4. listed' = [listed EXCEPT ![o] = told]
  <2>1. CASE user[u].found
    BY <2>1 DEF UnlockList
  <2>2. CASE ~user[u].found
    BY <1>3, <2>2 DEF UnlockList
  <2>3. QED
    BY <2>1, <2>2
<1>5. Settled(list[o], told) /\ (user[u].found => Contains(s, x))
  BY <1>1, <1>3 DEF Within
<1>6. told \in Seq(Items(o)) /\ Distinct(told)
  BY <1>3, <1>5, WithoutFacts
<1>7. /\ l \in ListType /\ l.memory = list[o].memory /\ l.size = list[o].size
      /\ l.capacity = list[o].capacity
  BY <1>3 DEF ListType
<1>8. /\ c \in UserType /\ c.op = "none" /\ ~c.found /\ c.pc \in Locations(c.op)
  BY <1>3, ReturnedIsTyped DEF UserType
<1> HIDE DEF l, c, told, s
<1>9. Settled(l, told)
  BY <1>5, <1>7 DEF Settled, ClearedFrom
<1>10. o = user[u].owner
  OBVIOUS
<1> HIDE DEF o, x
<1>11. QED
  BY <1>1, <1>2, <1>3, <1>4, <1>6, <1>7, <1>8, <1>9, <1>10, CallMoves

\* A step of user u outside the list calls, or to the begin of one: list o,
\* told to be s, is all that can change.
LEMMA CallChanges ==
    ASSUME TypeInv, ListInv, NEW u \in Users, ~Lists(user[u]),
           NEW o \in Owners, NEW s \in Seq(Items(o)), Distinct(s),
           NEW c \in UserType, c.pc \in Locations(c.op), ~c.found,
           c.op = "destroy" => c.item \in Handles,
           c.op = "shutdown" => c.item = Null,
           Lists(c) => /\ c.owner = o /\ Within(list[o], s, c) /\ Writes(u, o) /\ c.item \in Items(o)
                       /\ \A v \in Users : Lists(user[v]) => user[v].owner # o,
           ~Lists(c) => s = listed[o],
           listed' = [listed EXCEPT ![o] = s], user' = [user EXCEPT ![u] = c],
           UNCHANGED <<list, disp, pass>>
    PROVE  TypeInv' /\ ListInv'
<1>0. /\ list \in [Owners -> ListType] /\ user \in [Users -> UserType]
      /\ listed = [p \in Owners |-> listed[p]]
  BY DEF TypeInv
<1>1. /\ \A p \in Owners : listed'[p] = IF p = o THEN s ELSE listed[p]
      /\ \A v \in Users : user'[v] = IF v = u THEN c ELSE user[v]
  BY <1>0
<1>2. TypeInv'
  <2>1. user' \in [Users -> UserType]
    BY <1>0
  <2>2. ASSUME NEW v \in Users
        PROVE  /\ user'[v].pc \in Locations(user'[v].op)
               /\ Lists(user'[v]) => /\ Writes(v, user'[v].owner)
                                     /\ user'[v].item \in Items(user'[v].owner)
               /\ user'[v].op = "destroy" => user'[v].item \in Handles
               /\ user'[v].op = "shutdown" => user'[v].item = Null
    <3>1. CASE v = u
      BY <1>1, <3>1 DEF Lists
    <3>2. CASE v # u
      BY <1>1, <3>2 DEF TypeInv
    <3>3. QED
      BY <3>1, <3>2
  <2>3. \A p \in Owners : listed'[p] \in Seq(Items(p))
    BY <1>1 DEF TypeInv
  <2>4. listed' = [p \in Owners |-> listed'[p]]
    BY <1>0
  <2>5. QED
    BY <1>0, <2>1, <2>2, <2>3, <2>4 DEF TypeInv
<1>3. \A p \in Owners : Distinct(listed'[p])
  BY <1>1 DEF ListInv
<1>4. ASSUME NEW p \in Owners, NEW v \in Users, Lists(user'[v]), user'[v].owner = p
      PROVE  Within(list'[p], listed'[p], user'[v])
  <2>1. CASE v = u
    BY <1>1, <1>4, <2>1
  <2>2. CASE v # u
    <3>1. user'[v] = user[v] /\ (p = o => ~Lists(c))
      BY <1>1, <1>4, <2>2
    <3>2. listed'[p] = listed[p]
      BY <1>1, <3>1
    <3>3. QED
      BY <1>4, <3>1, <3>2 DEF ListInv
  <2>3. QED
    BY <2>1, <2>2
<1>5. ASSUME NEW p \in Owners, \A v \in Users : ~(Lists(user'[v]) /\ user'[v].owner = p)
      PROVE  Settled(list'[p], listed'[p])
  <2>1. p = o => ~Lists(c)
    BY <1>1, <1>5
  <2>2. listed'[p] = listed[p]
    BY <1>1, <2>1
  <2>3. \A v \in Users : ~(Lists(user[v]) /\ user[v].owner = p)
    BY <1>1, <1>5
  <2>4. QED
    BY <2>2, <2>3 DEF ListInv
<1>6. \A v \in Users : user'[v].found => user'[v].op = "unregister" /\ user'[v].pc = "unlock"
  BY <1>1 DEF ListInv
<1>7. QED
  BY <1>2, <1>3, <1>4, <1>5, <1>6 DEF ListInv

LEMMA BeginKeeps ==
    ASSUME OneWriter, TypeInv, ListInv, NEW u \in Users, UserBegins(u)
    PROVE  TypeInv' /\ ListInv'
<1>1. PICK call \in Calls[u] :
         \E x \in CASE call[1] = "destroy"  -> Handles
                    [] call[1] = "shutdown" -> {Null}
                    [] OTHER                -> Items(call[2]) : Begin(u, call[1], call[2], x)
  BY DEF UserBegins
<1> DEFINE op == call[1]
           o  == call[2]
<1>2. /\ op \in {"register", "unregister", "destroy", "shutdown"} /\ o \in Owners
      /\ op \in {"register", "unregister"} => Writes(u, o)
  <2>1. Calls[u] \subseteq {"register", "unregister", "destroy", "shutdown"} \X Owners
    BY DispatchAssumption
  <2>2. call = <<op, o>>
    BY <2>1
  <2>3. QED
    BY <2>1, <2>2 DEF Writes
<1>3. PICK x : /\ Begin(u, op, o, x)
               /\ op = "destroy" => x \in Handles
               /\ op = "shutdown" => x = Null
               /\ op \in {"register", "unregister"} => x \in Items(o)
  BY <1>1, <1>2
<1> HIDE DEF op, o
<1> DEFINE c == [Returned(user[u].calls + 1) EXCEPT !.pc = FirstStep(op), !.op = op,
                                                   !.owner = o, !.item = x]
           s == listed[o]
           told == IF op = "register" THEN Append(s, x) ELSE s
<1>4. user' = [user EXCEPT ![u] = c] /\ UNCHANGED <<list, disp, pass>> /\ user[u].op = "none"
  BY <1>3, AtFacts DEF Begin, At
<1>5. /\ user[u] \in UserType /\ user[u].calls + 1 \in Nat /\ ~Lists(user[u])
      /\ s \in Seq(Items(o)) /\ Distinct(s) /\ list[o] \in ListType
      /\ listed = [p \in Owners |-> listed[p]]
  BY <1>2, <1>4 DEF TypeInv, ListInv, UserType, Lists
<1>6. listed' = [listed EXCEPT ![o] = told]
  <2>1. CASE op = "register"
    BY <1>3, <2>1 DEF Begin
  <2>2. CASE op # "register"
    <3>1. listed' = listed /\ told = listed[o]
      BY <1>3, <2>2 DEF Begin
    <3> HIDE DEF told
    <3>2. QED
      BY <1>2, <1>5, <3>1
  <2>3. QED
    BY <2>1, <2>2
<1>7. op = "register" => x \in Items(o) /\ ~Contains(s, x)
  BY <1>3 DEF Begin, MayCall
<1>8. told \in Seq(Items(o)) /\ Distinct(told)
  BY <1>5, <1>7, AppendFacts
<1>9. x \in Handles \cup {Null}
  BY <1>2, <1>3, ItemIsAHandle
<1>10. /\ c \in UserType /\ c.op = op /\ c.owner = o /\ c.item = x /\ ~c.found
       /\ c.pc = FirstStep(op) /\ c.pc \in Locations(c.op)
       /\ op \in {"register", "unregister"} => c.pc = "lock"
  <2>1. Returned(user[u].calls + 1) \in UserType /\ ~Returned(user[u].calls + 1).found
    BY <1>5, ReturnedIsTyped
  <2>2. /\ FirstStep(op) \in {"lock", "destroy", "stop"} /\ FirstStep(op) \in Locations(op)
        /\ op \in {"register", "unregister"} => FirstStep(op) = "lock"
    BY <1>2 DEF FirstStep, Locations
  <2>3. QED
    BY <1>2, <1>9, <2>1, <2>2 DEF UserType
<1> HIDE DEF c
<1>11. op \in {"register", "unregister"} => \A v \in Users : Lists(user[v]) => user[v].owner # o
  <2> SUFFICES ASSUME op \in {"register", "unregister"}, NEW v \in Users, Lists(user[v]), user[v].owner = o
               PROVE  FALSE
    OBVIOUS
  <2>1. Writes(v, o) /\ Writes(u, o)
    BY <1>2 DEF TypeInv
  <2>2. u = v
    BY <1>2, <2>1 DEF OneWriter
  <2>3. QED
    BY <1>5, <2>2
<1>12. Lists(c) => Within(list[o], told, c)
  <2>0. SUFFICES ASSUME Lists(c) PROVE Within(list[o], told, c)
    OBVIOUS
  <2>1. Settled(list[o], s)
    BY <1>2, <1>10, <1>11, <2>0 DEF ListInv, Lists
  <2>2. CASE op = "register"
    <3>1. Len(told) = Len(s) + 1 /\ told[Len(s) + 1] = x /\ \A k \in 1..Len(s) : told[k] = s[k]
      BY <1>5, <1>7, <2>2, AppendFacts
    <3> HIDE DEF s, told
    <3>2. Adding(list[o], told, c)
      BY <1>10, <2>1, <2>2, <3>1 DEF Adding, Settled
    <3>3. QED
      BY <1>10, <2>2, <3>2 DEF Within
  <2>3. CASE op # "register"
    <3>1. c.op # "register" /\ c.pc = "lock" /\ ~c.found
      BY <1>2, <1>10, <2>0, <2>3 DEF Lists
    <3>2. told = s
      BY <2>3
    <3> HIDE DEF told
    <3>3. QED
      BY <2>1, <3>1, <3>2 DEF Within
  <2>4. QED
    BY <2>2, <2>3
<1>13. ~Lists(c) => told = listed[o]
  BY <1>10 DEF Lists
<1>14. Lists(c) => /\ c.owner = o /\ Within(list[o], told, c) /\ Writes(u, o) /\ c.item \in Items(o)
                   /\ \A v \in Users : Lists(user[v]) => user[v].owner # o
  BY <1>2, <1>3, <1>10, <1>11, <1>12 DEF Lists
<1>15. (c.op = "destroy" => c.item \in Handles) /\ (c.op = "shutdown" => c.item = Null)
  BY <1>3, <1>10
<1> HIDE DEF told
<1>16. QED
  BY <1>2, <1>4, <1>5, <1>6, <1>8, <1>10, <1>13, <1>14, <1>15, CallChanges

LEMMA DestroyKeeps ==
    ASSUME TypeInv, ListInv, NEW u \in Users,
           DestroyItem(u) \/ StopDispatcher(u) \/ JoinDispatcher(u) \/ FreeDispatcher(u)
    PROVE  TypeInv' /\ ListInv'
<1>1. /\ ~Lists(user[u]) /\ user[u].op \in {"destroy", "shutdown"} /\ UNCHANGED <<list, disp, pass, listed>>
      /\ StopDispatcher(u) \/ JoinDispatcher(u) => user[u].op = "shutdown"
  BY AtFacts DEF DestroyItem, StopDispatcher, JoinDispatcher, FreeDispatcher, At, UserOnly, Lists
<1>2. /\ user[u] \in UserType /\ listed[Dispatcher] \in Seq(Items(Dispatcher)) /\ Dispatcher \in Owners
      /\ listed = [listed EXCEPT ![Dispatcher] = listed[Dispatcher]] /\ Distinct(listed[Dispatcher])
      /\ user[u].op = "shutdown" => user[u].item = Null
      /\ user[u].calls \in Nat /\ ~user[u].found
  BY <1>1 DEF TypeInv, ListInv, Owners, UserType
<1>3. \E c \in {Returned(user[u].calls), [user[u] EXCEPT !.pc = "join"], [user[u] EXCEPT !.pc = "free"]} :
         /\ user' = [user EXCEPT ![u] = c]
         /\ c # Returned(user[u].calls) => user[u].op = "shutdown"
  <2>1. CASE DestroyItem(u) \/ FreeDispatcher(u)
    BY <2>1 DEF DestroyItem, FreeDispatcher
  <2>2. CASE StopDispatcher(u)
    BY <1>1, <2>2 DEF StopDispatcher
  <2>3. CASE JoinDispatcher(u)
    BY <1>1, <2>3 DEF JoinDispatcher
  <2>4. QED
    BY <2>1, <2>2, <2>3
<1>4. PICK c \in {Returned(user[u].calls), [user[u] EXCEPT !.pc = "join"], [user[u] EXCEPT !.pc = "free"]} :
         /\ user' = [user EXCEPT ![u] = c]
         /\ c # Returned(user[u].calls) => user[u].op = "shutdown"
  BY <1>3
<1>5. /\ c \in UserType /\ ~c.found /\ c.op \in {"none", "shutdown"} /\ c.pc \in Locations(c.op)
      /\ c.op = "shutdown" => c.item = Null
  <2>1. CASE c = Returned(user[u].calls)
    BY <1>2, <2>1, ReturnedIsTyped
  <2>2. CASE c # Returned(user[u].calls)
    <3>1. PICK p \in {"join", "free"} : c = [user[u] EXCEPT !.pc = p]
      BY <1>4, <2>2
    <3>2. c \in UserType /\ c.op = user[u].op /\ c.pc = p /\ c.item = user[u].item /\ c.found = user[u].found
      BY <1>2, <3>1 DEF UserType
    <3>3. QED
      BY <1>2, <1>4, <2>2, <3>2 DEF Locations
  <2>3. QED
    BY <2>1, <2>2
<1>6. ~Lists(c) /\ c.op # "destroy"
  BY <1>5 DEF Lists
<1>7. QED
  BY <1>1, <1>2, <1>4, <1>5, <1>6, CallChanges

LEMMA ThreadKeeps ==
    ASSUME TypeInv, ListInv, DispatcherStep
    PROVE  TypeInv' /\ ListInv'
<1>1. UNCHANGED <<user, listed>> /\ \A o \in Owners : SameSlots(o)
  BY ThreadChanges
<1>2. ASSUME NEW o \in Owners, NEW s
      PROVE  /\ Settled(list[o], s) => Settled(list'[o], s)
             /\ \A c : Within(list[o], s, c) => Within(list'[o], s, c)
  BY <1>1 DEF SameSlots, Within, Adding, Closing, Settled, ClearedFrom
<1>3. ListInv'
  BY <1>1, <1>2 DEF ListInv
<1>4. QED
  BY <1>3, ThreadKeepsType

LEMMA ListInvHolds == ASSUME OneWriter PROVE Spec => [](TypeInv /\ ListInv)
<1>1. Init => TypeInv /\ ListInv
  <2> SUFFICES ASSUME Init PROVE TypeInv /\ ListInv
    OBVIOUS
  <2> DEFINE m == [i \in 0..(InitialCapacity - 1) |-> Null]
             l == [memory |-> m, size |-> 0, capacity |-> InitialCapacity, locked |-> FALSE]
  <2>1. InitialCapacity \in Nat /\ InitialCapacity > 0
    BY DispatchAssumption
  <2>2. m \in [0..(InitialCapacity - 1) -> Handles \cup Cleared] /\ \A i \in 0..(InitialCapacity - 1) : m[i] = Null
    BY DEF Cleared
  <2> HIDE DEF m
  <2>3. m \in UNION {[0..(n - 1) -> Handles \cup Cleared] : n \in Nat}
    BY <2>1, <2>2
  <2>4. l \in ListType /\ l.memory = m /\ l.size = 0 /\ l.capacity = InitialCapacity
    BY <2>1, <2>3 DEF ListType
  <2>5. list = [o \in Owners |-> l]
    BY DEF Init, m
  <2> HIDE DEF l
  <2>6. list \in [Owners -> ListType] /\ \A o \in Owners : list[o] = l
    BY <2>4, <2>5
  <2>7. /\ user \in [Users -> UserType]
        /\ \A u \in Users : user[u].op = "none" /\ user[u].pc = "idle" /\ ~user[u].found
    <3>1. user = [u \in Users |-> Returned(0)]
      BY DEF Init
    <3>2. Returned(0) \in UserType /\ Returned(0).op = "none" /\ Returned(0).pc = "idle" /\ ~Returned(0).found
      BY ReturnedIsTyped
    <3> QED
      BY <3>1, <3>2
  <2>8. disp \in DispType
    BY DEF Init, DispType, Cleared
  <2>9. pass \in [read : Seq(Handles \cup Cleared), changed : BOOLEAN]
    BY DEF Init
  <2>10. /\ listed = [o \in Owners |-> listed[o]]
         /\ \A o \in Owners : listed[o] = <<>> /\ listed[o] \in Seq(Items(o)) /\ Len(listed[o]) = 0
    BY DEF Init
  <2>11. TypeInv
    BY <2>2, <2>4, <2>6, <2>7, <2>8, <2>9, <2>10 DEF TypeInv, Lists, Locations
  <2>12. ASSUME NEW o \in Owners PROVE Settled(list[o], listed[o]) /\ Distinct(listed[o])
    BY <2>1, <2>2, <2>4, <2>6, <2>10 DEF Settled, Distinct, ClearedFrom, Cleared
  <2>13. ListInv
    BY <2>7, <2>12 DEF ListInv, Lists
  <2>14. QED
    BY <2>11, <2>13
<1>2. TypeInv /\ ListInv /\ [Next]_vars => (TypeInv /\ ListInv)'
  <2> SUFFICES ASSUME TypeInv, ListInv, [Next]_vars PROVE TypeInv' /\ ListInv'
    OBVIOUS
  <2>1. CASE UNCHANGED vars
    BY <2>1 DEF vars, TypeInv, ListInv
  <2>2. CASE DispatcherStep
    BY <2>2, ThreadKeeps
  <2>3. CASE \E u \in Users : UserStep(u)
    BY <2>3, LockListKeeps, GrowListKeeps, StoreItemKeeps, PublishSizeKeeps, FindItemKeeps,
       ShiftSlotKeeps, ShrinkListKeeps, UnlockListKeeps, DestroyKeeps DEF UserStep
  <2>4. CASE \E u \in Users : UserBegins(u)
    BY <2>4, BeginKeeps
  <2>5. QED
    BY <2>1, <2>2, <2>3, <2>4 DEF Next
<1>3. QED
  BY <1>1, <1>2, PTL DEF Spec

\* For any users that each keep lists of their own, and however the walks and
\* their unlocks interleave with the calls: a list no call is in progress on is
\* what its callers were told.
THEOREM ListsAreExactAlways == ASSUME OneWriter PROVE Spec => []ListsAreExact
<1>1. TypeInv /\ ListInv => ListsAreExact
  <2> SUFFICES ASSUME TypeInv, ListInv, NEW o \in Owners \ gone, ~Busy(o)
               PROVE  ListOf(o) = listed[o]
    BY DEF ListsAreExact
  <2>1. \A u \in Users : ~(Lists(user[u]) /\ user[u].owner = o)
    <3> SUFFICES ASSUME NEW u \in Users, Lists(user[u]), user[u].owner = o PROVE FALSE
      OBVIOUS
    <3>1. user[u].pc # "idle"
      BY AtFacts DEF Lists
    <3>2. QED
      BY <3>1 DEF Busy, At
  <2>2. Settled(list[o], listed[o]) /\ listed[o] \in Seq(Items(o)) /\ list[o] \in ListType
    BY <2>1 DEF ListInv, TypeInv
  <2>3. \A k \in 1..list[o].size : Slot(o, k - 1) = listed[o][k]
    BY <2>2 DEF Settled, Slot, ListType
  <2>4. ListOf(o) = [k \in 1..Len(listed[o]) |-> listed[o][k]]
    BY <2>2, <2>3 DEF ListOf, Settled
  <2>5. QED
    BY <2>2, <2>4
<1>2. QED
  BY <1>1, ListInvHolds, PTL

-----------------------------------------------------------------------------
(* The walk over the clocks.                                               *)

\* What an undisturbed walk relies on: the slots it is to read keep what they
\* hold while elements are added behind them.
LEMMA CallsKeepSlots ==
    ASSUME TypeInv, ListInv, NEW u \in Users, UserStep(u) \/ UserBegins(u)
    PROVE  /\ disp' = disp \/ disp' = [disp EXCEPT !.buffer = "freed"]
           /\ \/ pass'.changed
              \/ /\ UNCHANGED <<disp, pass>>
                 /\ list'[Dispatcher].size >= list[Dispatcher].size
                 /\ \A i \in 0..(list[Dispatcher].size - 1) : Slot(Dispatcher, i)' = Slot(Dispatcher, i)
<1> DEFINE z == list[Dispatcher].size
           o == user[u].owner
           Kept == /\ list'[Dispatcher].size >= z
                   /\ \A i \in 0..(z - 1) : Slot(Dispatcher, i)' = Slot(Dispatcher, i)
<1>0. /\ list \in [Owners -> ListType] /\ Dispatcher \in Owners /\ list[Dispatcher] \in ListType
      /\ z \in Nat /\ list[Dispatcher].capacity \in Nat /\ pass \in PassType
      /\ user[u] \in UserType /\ o \in Owners /\ list[o] \in ListType
  BY DEF TypeInv, Owners, ListType, PassType, UserType
<1>1. CASE LockList(u) \/ UnlockList(u)
  <2>1. PICK flag \in BOOLEAN : list' = [list EXCEPT ![o].locked = flag]
    BY <1>1 DEF LockList, UnlockList
  <2>2. SameSlots(Dispatcher)
    BY <1>0, <2>1, FlagKeepsSlots
  <2>3. UNCHANGED <<disp, pass>>
    BY <1>1 DEF LockList, UnlockList, UserOnly
  <2>4. QED
    BY <1>0, <2>2, <2>3 DEF SameSlots, Slot
<1>2. CASE GrowList(u)
  <2>1. user[u].pc = "grow"
    BY <1>2 DEF GrowList, At
  <2>2. Lists(user[u]) /\ user[u].op = "register"
    BY <2>1, AtFacts DEF Lists
  <2>3. Adding(list[o], listed[o], user[u])
    BY <1>0, <2>1, <2>2 DEF ListInv, Within
  <2> DEFINE k == 2 * (list[o].size + 1)
             m == [i \in 0..(k - 1) |-> Slot(o, i)]
             grown == [list[o] EXCEPT !.capacity = k, !.memory = m]
  <2>4. CASE list[o].size + 1 > list[o].capacity
    <3>1. PICK moved \in BOOLEAN : /\ list' = [list EXCEPT ![o] = grown]
                                   /\ pass' = [pass EXCEPT !.changed = @ \/ moved]
                                   /\ moved \/ UNCHANGED disp
                                   /\ disp' = disp \/ disp' = [disp EXCEPT !.buffer = "freed"]
      BY <1>2, <2>4 DEF GrowList
    <3>2. CASE moved
      BY <1>0, <3>1, <3>2 DEF PassType
    <3>3. CASE ~moved
      <4>1. UNCHANGED <<disp, pass>>
        BY <1>0, <3>1, <3>3 DEF PassType
      <4>2. CASE o # Dispatcher
        <5>1. list'[Dispatcher] = list[Dispatcher]
          BY <1>0, <3>1, <4>2
        <5>2. QED
          BY <1>0, <4>1, <5>1 DEF Slot
      <4>3. CASE o = Dispatcher
        <5>1. list'[Dispatcher] = grown
          BY <1>0, <3>1, <4>3
        <5>2. grown.size = z /\ grown.capacity = k /\ grown.memory = m
          BY <1>0, <4>3 DEF ListType
        <5>3. ASSUME NEW i \in 0..(z - 1) PROVE Slot(Dispatcher, i)' = Slot(Dispatcher, i)
          <6>1. i \in 0..(k - 1) /\ i < k
            BY <1>0, <4>3
          <6>2. m[i] = Slot(Dispatcher, i)
            BY <4>3, <6>1
          <6> HIDE DEF m, k
          <6>3. QED
            BY <5>1, <5>2, <6>1, <6>2 DEF Slot
        <5>4. QED
          BY <1>0, <4>1, <5>1, <5>2, <5>3
      <4>4. QED
        BY <4>2, <4>3
    <3>4. QED
      BY <3>2, <3>3
  <2>5. CASE ~(list[o].size + 1 > list[o].capacity)
    <3>1. UNCHANGED <<list, disp, pass>>
      BY <1>2, <2>5 DEF GrowList
    <3>2. QED
      BY <1>0, <3>1 DEF Slot
  <2>6. QED
    BY <2>4, <2>5
<1>3. CASE StoreItem(u)
  <2>1. user[u].pc = "store" /\ UNCHANGED <<disp, pass>>
    BY <1>3 DEF StoreItem, At, UserOnly
  <2>2. Lists(user[u]) /\ user[u].op = "register"
    BY <2>1, AtFacts DEF Lists
  <2>3. user[u].pos = list[o].size
    BY <1>0, <2>1, <2>2 DEF ListInv, Within, Adding
  <2> DEFINE m == [list[o].memory EXCEPT ![list[o].size] = user[u].item]
             l == [list[o] EXCEPT !.memory = m]
  <2>4. list' = [list EXCEPT ![o] = l]
    BY <1>3, <2>3 DEF StoreItem
  <2>5. \A i : i # list[o].size => m[i] = list[o].memory[i]
    <3>1. list[o].memory \in [0..(list[o].capacity - 1) -> Handles \cup Cleared]
      BY <1>0 DEF TypeInv
    <3>2. QED
      BY <3>1
  <2>6. l.size = list[o].size /\ l.capacity = list[o].capacity /\ l.memory = m
    BY <1>0 DEF ListType
  <2> HIDE DEF m, l
  <2>7. CASE o # Dispatcher
    <3>1. list'[Dispatcher] = list[Dispatcher]
      BY <1>0, <2>4, <2>7
    <3>2. QED
      BY <1>0, <2>1, <3>1 DEF Slot
  <2>8. CASE o = Dispatcher
    <3>1. list'[Dispatcher] = l
      BY <1>0, <2>4, <2>8
    <3>2. \A i \in 0..(z - 1) : i # z /\ m[i] = list[Dispatcher].memory[i]
      BY <1>0, <2>5, <2>8
    <3>3. QED
      BY <1>0, <2>1, <2>6, <2>8, <3>1, <3>2 DEF Slot
  <2>9. QED
    BY <2>7, <2>8
<1>4. CASE PublishSize(u)
  <2>1. user[u].pc = "publish" /\ UNCHANGED <<disp, pass>>
    BY <1>4 DEF PublishSize, At, UserOnly
  <2>2. Lists(user[u]) /\ user[u].op = "register"
    BY <2>1, AtFacts DEF Lists
  <2>3. user[u].pos = list[o].size
    BY <1>0, <2>1, <2>2 DEF ListInv, Within, Adding
  <2> DEFINE l == [list[o] EXCEPT !.size = list[o].size + 1]
  <2>4. list' = [list EXCEPT ![o] = l]
    BY <1>4, <2>3 DEF PublishSize
  <2>5. l.size = list[o].size + 1 /\ l.capacity = list[o].capacity /\ l.memory = list[o].memory
    BY <1>0 DEF ListType
  <2> HIDE DEF l
  <2>6. list'[Dispatcher] = IF o = Dispatcher THEN l ELSE list[Dispatcher]
    BY <1>0, <2>4
  <2>7. QED
    BY <1>0, <2>1, <2>5, <2>6 DEF Slot
<1>5. CASE ShiftSlot(u) \/ ShrinkList(u)
  <2>1. UNCHANGED disp /\ pass' = [pass EXCEPT !.changed = @ \/ o = Dispatcher]
    BY <1>5 DEF ShiftSlot, ShrinkList, Disturbed
  <2>2. CASE o = Dispatcher
    BY <1>0, <2>1, <2>2 DEF PassType
  <2>3. CASE o # Dispatcher
    <3>1. pass' = pass
      BY <1>0, <2>1, <2>3 DEF PassType
    <3>2. list'[Dispatcher] = list[Dispatcher]
      BY <1>0, <1>5, <2>3 DEF ShiftSlot, ShrinkList
    <3>3. QED
      BY <1>0, <2>1, <3>1, <3>2 DEF Slot
  <2>4. QED
    BY <2>2, <2>3
<1>6. CASE \/ FindItem(u) \/ DestroyItem(u) \/ StopDispatcher(u) \/ JoinDispatcher(u)
           \/ FreeDispatcher(u) \/ UserBegins(u)
  <2>1. UNCHANGED <<list, disp, pass>>
    BY <1>6 DEF FindItem, DestroyItem, StopDispatcher, JoinDispatcher, FreeDispatcher, UserBegins,
                Begin, UserOnly
  <2>2. QED
    BY <1>0, <2>1 DEF Slot
<1>7. QED
  BY <1>1, <1>2, <1>3, <1>4, <1>5, <1>6 DEF UserStep

Walking == {"lock", "unlock"} \cup Before \cup After

LEMMA CallsKeepWalk ==
    ASSUME TypeInv, TypeInv', ListInv, WalkInv, NEW u \in Users, UserStep(u) \/ UserBegins(u)
    PROVE  WalkInv'
<1>1. /\ disp'.pc = disp.pc /\ disp'.i = disp.i /\ disp'.n = disp.n
      /\ disp.i \in Nat /\ disp.n \in Nat /\ list[Dispatcher].size \in Nat
      /\ pass.read \in Seq(Handles \cup Cleared)
  BY CallsKeepSlots DEF TypeInv, DispType, Owners, ListType
<1>2. /\ disp'.pc = "lock" => disp'.i = 0 /\ disp'.n > 0
      /\ disp'.pc \in Before \cup After => disp'.i < disp'.n
      /\ disp'.pc = "unlock" => disp'.i = disp'.n
  BY <1>1 DEF WalkInv
<1>3. ASSUME disp'.pc \in Walking, ~pass'.changed
      PROVE  /\ disp'.n <= list'[Dispatcher].size
             /\ Len(pass'.read) = IF disp'.pc \in After THEN disp'.i + 1 ELSE disp'.i
             /\ \A k \in 1..Len(pass'.read) : pass'.read[k] = Slot(Dispatcher, k - 1)'
             /\ disp'.pc \in After => disp'.clock = pass'.read[disp'.i + 1]
             /\ disp'.pc = "clockCopy" => disp'.buffer = "current"
  <2>1. /\ UNCHANGED <<disp, pass>>
        /\ list'[Dispatcher].size >= list[Dispatcher].size
        /\ \A i \in 0..(list[Dispatcher].size - 1) : Slot(Dispatcher, i)' = Slot(Dispatcher, i)
    BY <1>3, CallsKeepSlots
  <2>2. disp.pc \in Walking /\ ~pass.changed
    BY <1>3, <2>1
  <2>3. /\ disp.n <= list[Dispatcher].size
        /\ Len(pass.read) = IF disp.pc \in After THEN disp.i + 1 ELSE disp.i
        /\ \A k \in 1..Len(pass.read) : pass.read[k] = Slot(Dispatcher, k - 1)
        /\ disp.pc \in After => disp.clock = pass.read[disp.i + 1]
        /\ disp.pc = "clockCopy" => disp.buffer = "current"
    BY <2>2 DEF WalkInv, Walking
  <2>4. Len(pass.read) <= disp.n
    BY <1>1, <2>2, <2>3 DEF WalkInv, Walking
  <2>5. list'[Dispatcher].size \in Nat
    BY <2>1 DEF TypeInv, Owners, ListType
  <2>6. \A k \in 1..Len(pass.read) : k - 1 \in 0..(list[Dispatcher].size - 1)
    BY <1>1, <2>3, <2>4
  <2>7. \A k \in 1..Len(pass'.read) : pass'.read[k] = Slot(Dispatcher, k - 1)'
    BY <2>1, <2>3, <2>6
  <2>8. QED
    BY <1>1, <2>1, <2>3, <2>5, <2>7
<1>4. QED
  BY <1>2, <1>3 DEF WalkInv, Walking

\* A step of the thread leaves every slot as it is.
LEMMA ThreadKeepsSlots ==
    ASSUME TypeInv, DispatcherStep, NEW o \in Owners
    PROVE  list'[o].size = list[o].size /\ \A i : Slot(o, i)' = Slot(o, i)
BY ThreadChanges DEF SameSlots, Slot

\* What the walk has read so far, when nothing disturbed it.
Read(n) ==
    ~pass.changed => /\ disp.n <= list[Dispatcher].size
                     /\ Len(pass.read) = n
                     /\ \A k \in 1..Len(pass.read) : pass.read[k] = Slot(Dispatcher, k - 1)

LEMMA ReadFacts ==
    ASSUME WalkInv, disp.pc \in Walking
    PROVE  /\ Read(IF disp.pc \in After THEN disp.i + 1 ELSE disp.i)
           /\ disp.pc \in Before \cup After => disp.i < disp.n
           /\ disp.pc = "lock" => disp.i = 0 /\ disp.n > 0
           /\ disp.pc = "unlock" => disp.i = disp.n
           /\ disp.pc \in After /\ ~pass.changed => disp.clock = pass.read[disp.i + 1]
           /\ disp.pc = "clockCopy" /\ ~pass.changed => disp.buffer = "current"
BY DEF WalkInv, Walking, Read

LEMMA ReadStays ==
    ASSUME TypeInv, DispatcherStep, disp'.n = disp.n, UNCHANGED pass, NEW n, Read(n)
    PROVE  Read(n)'
<1>1. /\ list'[Dispatcher].size = list[Dispatcher].size
      /\ \A i : Slot(Dispatcher, i)' = Slot(Dispatcher, i)
  BY ThreadKeepsSlots DEF Owners
<1>2. QED
  BY <1>1 DEF Read

\* The loop goes on behind the clock at i.
LEMMA NextClockKeepsWalk ==
    ASSUME TypeInv, WalkInv, DispatcherStep, disp.pc \in Before \cup After, NextClock, UNCHANGED pass,
           disp.pc \in After \/ pass.changed
    PROVE  WalkInv'
<1>1. /\ disp.i \in Nat /\ disp.n \in Nat /\ disp \in DispType /\ disp.i < disp.n
      /\ Read(IF disp.pc \in After THEN disp.i + 1 ELSE disp.i)
  BY ReadFacts DEF TypeInv, DispType, Walking
<1>2. /\ disp'.i = disp.i + 1 /\ disp'.n = disp.n
      /\ disp'.pc = IF disp.i + 1 < disp.n THEN "clockGet" ELSE "unlock"
  BY <1>1 DEF NextClock, ClockLoop, DispType
<1>3. Read(disp.i + 1)
  BY <1>1 DEF Read
<1>4. Read(disp.i)'
  <2>1. /\ list'[Dispatcher].size = list[Dispatcher].size
        /\ \A i : Slot(Dispatcher, i)' = Slot(Dispatcher, i)
    BY ThreadKeepsSlots DEF Owners
  <2>2. QED
    BY <1>2, <1>3, <2>1 DEF Read
<1>5. /\ disp'.pc \in {"clockGet", "unlock"}
      /\ disp'.pc = "clockGet" => disp'.i < disp'.n
      /\ disp'.pc = "unlock" => disp'.i = disp'.n
  BY <1>1, <1>2
<1>6. QED
  BY <1>2, <1>4, <1>5 DEF WalkInv, Before, After, Read

LEMMA ThreadKeepsWalk ==
    ASSUME TypeInv, WalkInv, DispatcherStep
    PROVE  WalkInv'
<1>0. disp \in DispType /\ disp.i \in Nat /\ disp.n \in Nat /\ pass \in PassType
  BY DEF TypeInv, DispType, PassType
<1>1. CASE ReadRunning \/ UnlockClocks \/ UseBadHandle
  <2>1. disp'.pc \in {"top", "size", "exited", "undefined"}
    BY <1>0, <1>1 DEF ReadRunning, UnlockClocks, UseBadHandle, DispType
  <2>2. QED
    BY <2>1 DEF WalkInv, Before, After
<1>2. CASE ReadSize
  <2>1. /\ disp'.n = list[Dispatcher].size /\ disp'.i = 0
        /\ disp'.pc = IF list[Dispatcher].size = 0 THEN "top" ELSE "lock"
        /\ pass'.read = <<>> /\ UNCHANGED list
    BY <1>0, <1>2 DEF ReadSize, DispType
  <2>2. list[Dispatcher].size \in Nat
    BY DEF TypeInv, Owners, ListType
  <2>3. Len(pass'.read) = 0
    BY <2>1
  <2>4. QED
    BY <2>1, <2>2, <2>3 DEF WalkInv, Before, After
<1>3. CASE LockClocks
  <2>1. disp.pc = "lock" /\ UNCHANGED pass
    BY <1>3 DEF LockClocks
  <2>2. disp.i = 0 /\ disp.n > 0 /\ Read(0) /\ disp.pc \in Walking
    BY <2>1, ReadFacts DEF Walking, After
  <2>3. disp' = disp \/ disp' = [disp EXCEPT !.pc = ClockLoop(disp.i)]
    BY <1>3 DEF LockClocks, Attempt
  <2>4. ClockLoop(disp.i) = "clockGet"
    BY <2>2 DEF ClockLoop
  <2>5. disp'.pc \in {"lock", "clockGet"} /\ disp'.i = 0 /\ disp'.n = disp.n
    BY <1>0, <2>1, <2>2, <2>3, <2>4 DEF DispType
  <2>6. Read(0)'
    BY <2>1, <2>2, <2>5, ReadStays
  <2>7. QED
    BY <2>2, <2>5, <2>6 DEF WalkInv, Before, After, Read
<1>4. CASE GetClock
  <2>1. disp.pc = "clockGet" /\ UNCHANGED pass /\ disp.pc \in Before /\ disp.pc \notin After
    BY <1>4 DEF GetClock, Before, After
  <2>2. disp.pc \in Walking /\ Read(disp.i) /\ disp.i < disp.n
    BY <2>1, ReadFacts DEF Walking
  <2>3. CASE disp.i >= list[Dispatcher].size /\ NextClock
    <3>1. pass.changed
      BY <1>0, <2>2, <2>3 DEF Read, TypeInv, Owners, ListType
    <3>2. QED
      BY <2>1, <2>3, <3>1, NextClockKeepsWalk
  <2>4. CASE disp' = [disp EXCEPT !.pc = "clockLoad"]
    <3>1. disp'.pc = "clockLoad" /\ disp'.i = disp.i /\ disp'.n = disp.n
      BY <1>0, <2>4 DEF DispType
    <3>2. Read(disp.i)'
      BY <2>1, <2>2, <3>1, ReadStays DEF Read
    <3>3. QED
      BY <2>2, <3>1, <3>2 DEF WalkInv, Before, After, Read
  <2>5. QED
    BY <1>4, <2>3, <2>4 DEF GetClock
<1>5. CASE LoadBuffer /\ disp.pc = "clockLoad"
  <2>1. disp.pc \in Walking /\ disp.pc \notin After /\ UNCHANGED pass /\ disp.pc \in Before
    BY <1>5 DEF LoadBuffer, Walking, Before, After
  <2>2. Read(disp.i) /\ disp.i < disp.n
    BY <2>1, ReadFacts
  <2>3. disp'.pc = "clockCopy" /\ disp'.i = disp.i /\ disp'.n = disp.n /\ disp'.buffer = "current"
    BY <1>0, <1>5 DEF LoadBuffer, DispType
  <2>4. Read(disp.i)'
    BY <2>1, <2>2, <2>3, ReadStays DEF Read
  <2>5. QED
    BY <2>2, <2>3, <2>4 DEF WalkInv, Before, After, Read
<1>6. CASE CopyClock
  <2> DEFINE h == Copied(Dispatcher, disp.i)
  <2>1. disp.pc = "clockCopy" /\ disp.pc \in Walking /\ disp.pc \notin After /\ disp.pc \in Before
    BY <1>6 DEF CopyClock, Walking, Before, After
  <2>2. Read(disp.i) /\ disp.i < disp.n /\ (~pass.changed => disp.buffer = "current")
    BY <2>1, ReadFacts
  <2>3. /\ disp'.pc = "clockUse" /\ disp'.i = disp.i /\ disp'.n = disp.n /\ disp'.clock = h
        /\ pass'.read = Append(pass.read, h) /\ pass'.changed = pass.changed
        /\ UNCHANGED list
    BY <1>0, <1>6 DEF CopyClock, DispType, PassType
  <2>4. h \in Handles \cup Cleared
    BY <1>0, SlotIsTyped DEF Copied, Cleared, Owners
  <2>5. /\ Len(pass'.read) = Len(pass.read) + 1 /\ pass'.read[Len(pass.read) + 1] = h
        /\ \A k \in 1..Len(pass.read) : pass'.read[k] = pass.read[k]
        /\ Len(pass.read) \in Nat
    <3>1. pass.read \in Seq(Handles \cup Cleared)
      BY <1>0 DEF PassType
    <3> HIDE DEF h
    <3>2. QED
      BY <2>3, <2>4, <3>1, AppendProperties
  <2>6. ASSUME ~pass'.changed
        PROVE  /\ disp'.n <= list'[Dispatcher].size
               /\ Len(pass'.read) = disp'.i + 1
               /\ \A k \in 1..Len(pass'.read) : pass'.read[k] = Slot(Dispatcher, k - 1)'
               /\ disp'.clock = pass'.read[disp'.i + 1]
    <3>1. /\ disp.n <= list[Dispatcher].size /\ Len(pass.read) = disp.i /\ h = Slot(Dispatcher, disp.i)
          /\ \A k \in 1..Len(pass.read) : pass.read[k] = Slot(Dispatcher, k - 1)
      BY <2>2, <2>3, <2>6 DEF Read, Copied
    <3>2. \A i : Slot(Dispatcher, i)' = Slot(Dispatcher, i)
      BY <2>3 DEF Slot
    <3> HIDE DEF h
    <3>3. ASSUME NEW k \in 1..Len(pass'.read) PROVE pass'.read[k] = Slot(Dispatcher, k - 1)'
      <4>1. CASE k = disp.i + 1
        BY <1>0, <2>5, <3>1, <3>2, <4>1
      <4>2. CASE k # disp.i + 1
        <5>1. k \in 1..Len(pass.read)
          BY <1>0, <2>5, <3>1, <4>2
        <5>2. QED
          BY <2>5, <3>1, <3>2, <5>1
      <4>3. QED
        BY <4>1, <4>2
    <3>4. QED
      BY <2>3, <2>5, <3>1, <3>3
  <2>7. QED
    BY <2>2, <2>3, <2>6 DEF WalkInv, Before, After
<1>7. CASE (UseClock \/ ClockTicked) /\ NextClock
  <2>1. disp.pc \in After /\ UNCHANGED pass
    BY <1>7 DEF UseClock, ClockTicked, After
  <2>2. QED
    BY <1>7, <2>1, NextClockKeepsWalk
<1>8. CASE \/ UseClock /\ ~NextClock
           \/ LoadBuffer /\ disp.pc = "driverLoad"
           \/ LockDrivers \/ NextDriver \/ GetDriver \/ CopyDriver \/ TickDriver \/ DriverTicked \/ UnlockDrivers
  <2>1. disp.pc \in After /\ UNCHANGED pass
    BY <1>8 DEF UseClock, LoadBuffer, LockDrivers, NextDriver, GetDriver, CopyDriver, TickDriver,
                DriverTicked, UnlockDrivers, After
  <2>2. disp'.pc \in After /\ disp'.i = disp.i /\ disp'.n = disp.n /\ disp'.clock = disp.clock
    <3>1. CASE LockDrivers
      <4>1. disp' = disp \/ disp' = [disp EXCEPT !.pc = "driverNext", !.j = 0]
        BY <3>1 DEF LockDrivers, Attempt
      <4>2. QED
        BY <1>0, <2>1, <4>1 DEF DispType, After
    <3>2. CASE ~LockDrivers
      BY <1>0, <1>8, <3>2 DEF UseClock, LoadBuffer, NextDriver, GetDriver, CopyDriver, TickDriver,
                DriverTicked, UnlockDrivers, After, DispType
    <3>3. QED
      BY <3>1, <3>2
  <2>3. disp.pc \in Walking /\ Read(disp.i + 1) /\ disp.i < disp.n
        /\ (~pass.changed => disp.clock = pass.read[disp.i + 1])
    BY <2>1, ReadFacts DEF Walking
  <2>4. Read(disp.i + 1)'
    BY <2>1, <2>2, <2>3, ReadStays DEF Read
  <2>5. disp'.pc \notin {"lock", "unlock", "clockCopy"}
    BY <2>2 DEF After
  <2>6. QED
    BY <2>1, <2>2, <2>3, <2>4, <2>5 DEF WalkInv, Read
<1>9. CASE LoadBuffer
  <2>1. disp.pc = "clockLoad" \/ disp.pc = "driverLoad"
    BY <1>9 DEF LoadBuffer
  <2>2. QED
    BY <1>5, <1>8, <1>9, <2>1
<1>10. CASE UseClock
  BY <1>7, <1>8, <1>10
<1>11. CASE ClockTicked
  <2>1. NextClock
    BY <1>11 DEF ClockTicked
  <2>2. QED
    BY <1>7, <1>11, <2>1
<1>12. QED
  BY <1>1, <1>2, <1>3, <1>4, <1>6, <1>8, <1>9, <1>10, <1>11 DEF DispatcherStep

LEMMA WalkInvHolds == ASSUME OneWriter PROVE Spec => []WalkInv
<1>1. Init => WalkInv
  <2>1. Init => disp.pc = "top"
    BY DEF Init
  <2>2. QED
    BY <2>1 DEF WalkInv, Before, After
<1>2. TypeInv /\ ListInv /\ TypeInv' /\ WalkInv /\ [Next]_vars => WalkInv'
  <2> SUFFICES ASSUME TypeInv, ListInv, TypeInv', WalkInv, [Next]_vars PROVE WalkInv'
    OBVIOUS
  <2>1. CASE UNCHANGED vars
    BY <2>1 DEF vars, WalkInv, Slot
  <2>2. CASE DispatcherStep
    BY <2>2, ThreadKeepsWalk
  <2>3. CASE \E u \in Users : UserStep(u) \/ UserBegins(u)
    BY <2>3, CallsKeepWalk
  <2>4. QED
    BY <2>1, <2>2, <2>3 DEF Next
<1>3. QED
  BY <1>1, <1>2, ListInvHolds, PTL DEF Spec

\* A walk that no removal and no move of a list overlapped has read the clocks
\* that were listed when it began, each once and in order, for any users that
\* each keep lists of their own.
THEOREM WalkIsCompleteAlways == ASSUME OneWriter PROVE Spec => []WalkIsComplete
<1>1. TypeInv /\ WalkInv => WalkIsComplete
  <2> SUFFICES ASSUME TypeInv, WalkInv, disp.pc = "unlock", ~pass.changed
               PROVE  pass.read = SubSeq(ListOf(Dispatcher), 1, disp.n)
    BY DEF WalkIsComplete
  <2> DEFINE s == ListOf(Dispatcher)
  <2>1. /\ disp.n \in Nat /\ list[Dispatcher].size \in Nat /\ pass.read \in Seq(Handles \cup Cleared)
    BY DEF TypeInv, DispType, Owners, ListType
  <2>2. /\ disp.n <= list[Dispatcher].size /\ Len(pass.read) = disp.n
        /\ \A k \in 1..disp.n : pass.read[k] = Slot(Dispatcher, k - 1)
    BY ReadFacts DEF Walking, After, Read
  <2>3. /\ s \in Seq(Handles \cup Cleared) /\ Len(s) = list[Dispatcher].size
        /\ \A k \in 1..list[Dispatcher].size : s[k] = Slot(Dispatcher, k - 1)
    <3>1. ASSUME NEW k \in 1..list[Dispatcher].size
          PROVE  Slot(Dispatcher, k - 1) \in Handles \cup Cleared
      <4>1. k - 1 \in Nat /\ Dispatcher \in Owners
        BY <2>1 DEF Owners
      <4>2. QED
        BY <4>1, SlotIsTyped
    <3>2. QED
      BY <2>1, <3>1, IsASeq, LenProperties DEF ListOf
  <2> HIDE DEF s
  <2>4. /\ SubSeq(s, 1, disp.n) \in Seq(Handles \cup Cleared) /\ Len(SubSeq(s, 1, disp.n)) = disp.n
        /\ \A k \in 1..disp.n : SubSeq(s, 1, disp.n)[k] = s[k]
    BY <2>1, <2>2, <2>3, SubSeqProperties
  <2>5. \A k \in 1..disp.n : pass.read[k] = SubSeq(s, 1, disp.n)[k]
    BY <2>1, <2>2, <2>3, <2>4
  <2>6. pass.read = SubSeq(s, 1, disp.n)
    BY <2>1, <2>2, <2>4, <2>5, SeqEqual
  <2>7. QED
    BY <2>6 DEF s
<1>2. QED
  BY <1>1, ListInvHolds, WalkInvHolds, PTL

-----------------------------------------------------------------------------
(* What is listed is alive.                                                *)

\* What a step of a call does to the other handles: no destruction begins, and
\* nothing is listed that was not.
LEMMA CallsListNothing ==
    ASSUME TypeInv, ListInv, NEW u \in Users, UserStep(u)
    PROVE  /\ \A v \in Users : user'[v].op = "destroy" =>
                 user[v].op = "destroy" /\ user'[v].item = user[v].item
           /\ \A o \in Owners : \A h : Contains(listed[o], h)' => Contains(listed[o], h)
           /\ \/ gone' = gone
              \/ gone' = gone \cup {Dispatcher}
              \/ DestroyItem(u) /\ gone' = gone \cup {user[u].item}
<1>0. user \in [Users -> UserType] /\ user[u] \in UserType
  BY DEF TypeInv
<1>1. \A n : Returned(n).op = "none"
  BY DEF Returned
<1>2. CASE UnlockList(u)
  <2> DEFINE o == user[u].owner
             s == listed[o]
             x == user[u].item
  <2>1. /\ user' = [user EXCEPT ![u] = Returned(user[u].calls)] /\ gone' = gone
        /\ listed' = IF user[u].found THEN [listed EXCEPT ![o] = Without(s, x)] ELSE listed
    BY <1>2 DEF UnlockList
  <2>2. ASSUME user[u].found, NEW h, Contains(Without(s, x), h) PROVE Contains(s, h)
    <3>1. user[u].pc = "unlock" /\ user[u].op = "unregister" /\ o \in Owners
      BY <1>0, <2>2 DEF ListInv, UserType
    <3>2. Contains(s, x) /\ Distinct(s) /\ s \in Seq(Items(o))
      BY <2>2, <3>1 DEF ListInv, Within, Lists, TypeInv
    <3>3. /\ Len(Without(s, x)) = Len(s) - 1 /\ Position(s, x) \in 1..Len(s)
          /\ \A j \in 1..(Len(s) - 1) :
                Without(s, x)[j] = IF j < Position(s, x) THEN s[j] ELSE s[j + 1]
      BY <3>2, WithoutFacts
    <3>4. Len(s) \in Nat
      BY <3>2
    <3> HIDE DEF s, x
    <3>5. PICK j \in 1..(Len(s) - 1) : Without(s, x)[j] = h
      BY <2>2, <3>3 DEF Contains
    <3>6. j \in 1..Len(s) /\ j + 1 \in 1..Len(s) /\ (s[j] = h \/ s[j + 1] = h)
      BY <3>3, <3>4, <3>5
    <3>7. QED
      BY <3>6 DEF Contains
  <2>3. listed = [p \in Owners |-> listed[p]]
    BY DEF TypeInv
  <2>4. \A p \in Owners : \A h : Contains(listed'[p], h) => Contains(listed[p], h)
    <3>1. CASE user[u].found
      BY <2>1, <2>2, <2>3, <3>1
    <3>2. CASE ~user[u].found
      BY <2>1, <3>2
    <3>3. QED
      BY <3>1, <3>2
  <2>5. \A v \in Users : v # u => user'[v] = user[v]
    BY <1>0, <2>1
  <2>6. user'[u].op = "none"
    BY <1>0, <1>1, <2>1
  <2>7. QED
    BY <2>1, <2>4, <2>5, <2>6 DEF Contains
<1>3. CASE ~UnlockList(u)
  <2>1. UNCHANGED listed
    BY <1>3 DEF UserStep, LockList, GrowList, StoreItem, PublishSize, FindItem, ShiftSlot, ShrinkList,
                DestroyItem, StopDispatcher, JoinDispatcher, FreeDispatcher
  <2>2. /\ \A v \in Users : v # u => user'[v] = user[v]
        /\ user'[u].op \in {user[u].op, "none"}
        /\ user'[u].op # "none" => user'[u].item = user[u].item
    <3>1. CASE LockList(u)
      BY <1>0, <3>1 DEF LockList, UserType
    <3>2. CASE GrowList(u)
      BY <1>0, <3>2 DEF GrowList, UserType
    <3>3. CASE FindItem(u)
      <4>1. \/ \E i : user' = [user EXCEPT ![u].pc = "shift", ![u].pos = i,
                                          ![u].n = list[user[u].owner].size]
            \/ user' = [user EXCEPT ![u] = IF KrakenDebug THEN Returned(user[u].calls)
                                           ELSE [user[u] EXCEPT !.pc = "unlock"]]
        BY <3>3 DEF FindItem
      <4>2. ASSUME NEW i, user' = [user EXCEPT ![u].pc = "shift", ![u].pos = i,
                                              ![u].n = list[user[u].owner].size]
            PROVE  /\ \A v \in Users : v # u => user'[v] = user[v]
                   /\ user'[u].op = user[u].op /\ user'[u].item = user[u].item
        BY <1>0, <4>2 DEF UserType
      <4>3. ASSUME user' = [user EXCEPT ![u] = IF KrakenDebug THEN Returned(user[u].calls)
                                               ELSE [user[u] EXCEPT !.pc = "unlock"]]
            PROVE  /\ \A v \in Users : v # u => user'[v] = user[v]
                   /\ user'[u].op \in {user[u].op, "none"}
                   /\ user'[u].op # "none" => user'[u].item = user[u].item
        BY <1>0, <1>1, <4>3 DEF UserType
      <4>4. QED
        BY <4>1, <4>2, <4>3
    <3>4. CASE StoreItem(u) \/ PublishSize(u) \/ ShiftSlot(u) \/ ShrinkList(u)
      BY <1>0, <3>4 DEF StoreItem, PublishSize, ShiftSlot, ShrinkList, UserType
    <3>5. CASE StopDispatcher(u) \/ JoinDispatcher(u)
      BY <1>0, <3>5 DEF StopDispatcher, JoinDispatcher, UserType
    <3>6. CASE DestroyItem(u) \/ FreeDispatcher(u)
      <4>1. user' = [user EXCEPT ![u] = Returned(user[u].calls)]
        BY <3>6 DEF DestroyItem, FreeDispatcher
      <4>2. QED
        BY <1>0, <1>1, <4>1
    <3>7. QED
      BY <1>3, <3>1, <3>2, <3>3, <3>4, <3>5, <3>6 DEF UserStep
  <2>3. \A v \in Users : user'[v].op = "destroy" =>
           user[v].op = "destroy" /\ user'[v].item = user[v].item
    BY <2>2
  <2>4. \/ gone' = gone
        \/ gone' = gone \cup {Dispatcher}
        \/ DestroyItem(u) /\ gone' = gone \cup {user[u].item}
    BY <1>3 DEF UserStep, LockList, GrowList, StoreItem, PublishSize, FindItem, ShiftSlot, ShrinkList,
                DestroyItem, StopDispatcher, JoinDispatcher, FreeDispatcher
  <2>5. QED
    BY <2>1, <2>3, <2>4 DEF Contains
<1>4. QED
  BY <1>2, <1>3

\* What the start of a call does to them: a destruction begins for a handle that
\* is listed nowhere, and a handle that is alive is told to be listed.
Begun(u, op, o, x, c) ==
    /\ UNCHANGED <<list, disp, isRunning, gone, pass>>
    /\ user' = [user EXCEPT ![u] = c] /\ c.op = op /\ c.item = x
    /\ op = "destroy" => \A p \in Owners : ~Contains(listed[p], x)
    /\ op # "register" => UNCHANGED <<listed, stale>>
    /\ op = "register" =>
          /\ x \in Items(o) /\ Alive(x)
          /\ \A p \in Owners : \A h : Contains(listed'[p], h) <=>
                (Contains(listed[p], h) \/ (p = o /\ h = x))
          /\ stale' = IF x \in Drivers THEN [stale EXCEPT ![x] = 0] ELSE stale

LEMMA BeginListsTheLiving ==
    ASSUME TypeInv, ListInv, NEW u \in Users, UserBegins(u)
    PROVE  \E op, x, c : \E o \in Owners : Begun(u, op, o, x, c)
<1>1. PICK call \in Calls[u] :
         \E x \in CASE call[1] = "destroy"  -> Handles
                    [] call[1] = "shutdown" -> {Null}
                    [] OTHER                -> Items(call[2]) : Begin(u, call[1], call[2], x)
  BY DEF UserBegins
<1>2. /\ call[1] \in {"register", "unregister", "destroy", "shutdown"} /\ call[2] \in Owners
  BY DispatchAssumption
<1> DEFINE op == call[1]
           o  == call[2]
<1>3. PICK x : /\ op = "register" => x \in Items(o)
               /\ Begin(u, op, o, x)
  BY <1>1, <1>2
<1> DEFINE c == [Returned(user[u].calls + 1) EXCEPT !.pc = FirstStep(op), !.op = op,
                                                    !.owner = o, !.item = x]
<1>4. /\ UNCHANGED <<list, disp, isRunning, gone, pass>> /\ user' = [user EXCEPT ![u] = c]
      /\ op = "register" => listed' = [listed EXCEPT ![o] = Append(@, x)]
      /\ op # "register" => UNCHANGED listed /\ UNCHANGED stale
      /\ op = "register" => stale' = IF x \in Drivers THEN [stale EXCEPT ![x] = 0] ELSE stale
      /\ MayCall(op, o, x)
  BY <1>3 DEF Begin
<1>5. c.op = op /\ c.item = x
  BY DEF Returned
<1>6. op = "destroy" => \A p \in Owners : ~Contains(listed[p], x)
  BY <1>4 DEF MayCall
<1>7. op = "register" => Alive(x) /\ ~Contains(listed[o], x)
  BY <1>4 DEF MayCall
<1>8. ASSUME op = "register"
      PROVE  \A p \in Owners : \A h : Contains(listed'[p], h) <=>
                (Contains(listed[p], h) \/ (p = o /\ h = x))
  <2>1. /\ listed = [p \in Owners |-> listed[p]] /\ listed[o] \in Seq(Items(o)) /\ Distinct(listed[o])
        /\ x \in Items(o)
    BY <1>2, <1>3, <1>8 DEF TypeInv, ListInv
  <2>2. \A y : Contains(Append(listed[o], x), y) <=> (y = x \/ Contains(listed[o], y))
    BY <1>7, <1>8, <2>1, AppendFacts
  <2>3. \A p \in Owners : listed'[p] = IF p = o THEN Append(listed[o], x) ELSE listed[p]
    BY <1>2, <1>4, <1>8, <2>1
  <2> HIDE DEF o, op
  <2>4. QED
    BY <2>2, <2>3
<1> HIDE DEF o, op, c
<1>9. o \in Owners
  BY <1>2 DEF o
<1>10. Begun(u, op, o, x, c)
  BY <1>3, <1>4, <1>5, <1>6, <1>7, <1>8 DEF Begun
<1>11. QED
  BY <1>9, <1>10

LEMMA LiveInvHolds == ASSUME OneWriter PROVE Spec => []LiveInv
<1>1. Init => LiveInv
  BY DEF Init, LiveInv, Contains
<1>2. TypeInv /\ ListInv /\ LiveInv /\ [Next]_vars => LiveInv'
  <2> SUFFICES ASSUME TypeInv, ListInv, LiveInv, [Next]_vars PROVE LiveInv'
    OBVIOUS
  <2>0. /\ user \in [Users -> UserType] /\ gone \subseteq Handles \cup {Dispatcher}
        /\ Dispatcher \notin Handles
    BY DispatchAssumption DEF TypeInv, LiveInv, Handles
  <2>1. CASE UNCHANGED <<user, gone, listed>>
    BY <2>1 DEF LiveInv, Contains, Alive
  <2>2. ASSUME NEW u \in Users, UserStep(u) PROVE LiveInv'
    <3>1. ASSUME NEW o \in Owners, NEW h \in Handles, Contains(listed[o], h)' PROVE Alive(h)'
      <4>1. Alive(h) /\ h # Dispatcher
        BY <2>0, <2>2, <3>1, CallsListNothing DEF LiveInv
      <4>2. \A v \in Users : user'[v].op = "destroy" => user'[v].item # h
        BY <2>2, <4>1, CallsListNothing DEF Alive
      <4>3. DestroyItem(u) => user[u].item # h
        BY <4>1, AtFacts DEF DestroyItem, At, Alive
      <4>4. h \notin gone'
        BY <2>2, <4>1, <4>3, CallsListNothing DEF Alive
      <4>5. QED
        BY <4>2, <4>4 DEF Alive
    <3>2. DestroyItem(u) => user[u].item \in Handles
      BY AtFacts DEF DestroyItem, At, TypeInv
    <3>3. gone' \subseteq Handles \cup {Dispatcher}
      BY <2>0, <2>2, <3>2, CallsListNothing
    <3>4. QED
      BY <3>1, <3>3 DEF LiveInv
  <2>3. ASSUME NEW u \in Users, UserBegins(u) PROVE LiveInv'
    <3>1. PICK op, x, c : \E o \in Owners : Begun(u, op, o, x, c)
      BY <2>3, BeginListsTheLiving
    <3> PICK o \in Owners : Begun(u, op, o, x, c)
      BY <3>1
    <3>2. \A v \in Users : user'[v] = IF v = u THEN c ELSE user[v]
      BY <2>0 DEF Begun
    <3>3. ASSUME NEW p \in Owners, NEW h \in Handles, Contains(listed'[p], h) PROVE Alive(h)'
      <4>1. Alive(h)
        BY <3>3 DEF Begun, LiveInv
      <4>2. op = "destroy" => h # x
        BY <3>3 DEF Begun
      <4>3. QED
        BY <3>2, <4>1, <4>2 DEF Begun, Alive
    <3>4. gone' \subseteq Handles \cup {Dispatcher}
      BY <2>0 DEF Begun
    <3>5. QED
      BY <3>3, <3>4 DEF LiveInv, Contains
  <2>4. CASE DispatcherStep
    BY <2>1, <2>4, ThreadChanges
  <2>5. QED
    BY <2>1, <2>2, <2>3, <2>4 DEF Next, vars
<1>3. QED
  BY <1>1, <1>2, ListInvHolds, PTL DEF Spec

\* In no phase of a call does a list's memory hold a handle that its callers were
\* not told is listed.
LEMMA SlotsAreListed ==
    ASSUME TypeInv, ListInv, NEW o \in Owners, NEW i \in Nat, Slot(o, i) \in Handles
    PROVE  Contains(listed[o], Slot(o, i))
<1> DEFINE l == list[o]
           s == listed[o]
<1>0. /\ l.size \in Nat /\ l.capacity \in Nat /\ s \in Seq(Items(o)) /\ Len(s) \in Nat
      /\ Cleared \cap Handles = {} /\ Distinct(s)
  BY DispatchAssumption DEF TypeInv, ListType, ListInv, Cleared, Handles
<1>1. i < l.capacity /\ Slot(o, i) = l.memory[i] /\ i + 1 \in Nat /\ i + 1 - 1 = i
  BY <1>0 DEF Slot, Cleared
<1>2. l.memory[i] \notin Cleared /\ l.memory[i] \in Handles
  BY <1>0, <1>1
<1>3. ASSUME NEW t, Len(t) \in Nat, Settled(l, t) PROVE i + 1 \in 1..Len(t) /\ t[i + 1] = l.memory[i]
  <2>1. i < l.size
    BY <1>0, <1>1, <1>2, <1>3 DEF Settled, ClearedFrom
  <2>2. QED
    BY <1>0, <1>1, <1>3, <2>1 DEF Settled
<1>4. ASSUME NEW u \in Users, Lists(user[u]), user[u].owner = o
      PROVE  Contains(s, l.memory[i])
  <2> DEFINE c == user[u]
  <2>1. Within(l, s, c) /\ c \in UserType /\ c.item \in Items(o)
    BY <1>4 DEF ListInv, TypeInv
  <2>2. CASE c.op = "register" /\ c.pc # "unlock"
    <3>1. Adding(l, s, c)
      BY <2>1, <2>2 DEF Within
    <3>2. CASE i < l.size
      <4>1. i + 1 \in 1..l.size /\ i + 1 \in 1..Len(s)
        BY <1>0, <3>1, <3>2 DEF Adding
      <4>2. l.memory[i] = s[i + 1]
        BY <1>1, <3>1, <4>1 DEF Adding
      <4>3. QED
        BY <4>1, <4>2 DEF Contains
    <3>3. CASE i >= l.size
      <4>1. i = l.size /\ c.pc = "publish"
        BY <1>0, <1>1, <1>2, <3>1, <3>3 DEF Adding, ClearedFrom
      <4>2. l.memory[i] = s[l.size + 1] /\ l.size + 1 \in 1..Len(s)
        BY <1>0, <3>1, <4>1 DEF Adding
      <4>3. QED
        BY <4>2 DEF Contains
    <3>4. QED
      BY <1>0, <3>2, <3>3
  <2>3. CASE c.op = "unregister" /\ c.pc \in {"shift", "shrink"}
    <3>1. Closing(l, s, c)
      BY <2>1, <2>3 DEF Within
    <3>2. i < l.size /\ l.size = Len(s)
      BY <1>0, <1>1, <1>2, <3>1 DEF Closing, ClearedFrom
    <3>3. i + 1 \in 1..Len(s)
      BY <1>0, <3>2
    <3>4. l.memory[i] = s[i + 1] \/ (i + 1 # Len(s) /\ l.memory[i] = s[i + 2])
      BY <1>1, <1>2, <3>1, <3>3 DEF Closing
    <3>5. i + 1 # Len(s) => i + 2 \in 1..Len(s)
      BY <1>0, <3>3
    <3>6. QED
      BY <3>3, <3>4, <3>5 DEF Contains
  <2>4. CASE c.found /\ c.op = "unregister" /\ c.pc = "unlock"
    <3> DEFINE t == Without(s, c.item)
    <3>1. Contains(s, c.item) /\ Settled(l, t)
      BY <2>1, <2>4 DEF Within
    <3>2. /\ Len(t) = Len(s) - 1 /\ Position(s, c.item) \in 1..Len(s)
          /\ \A j \in 1..(Len(s) - 1) : t[j] = IF j < Position(s, c.item) THEN s[j] ELSE s[j + 1]
      BY <1>0, <3>1, WithoutFacts
    <3>3. Len(t) \in Nat
      BY <1>0, <3>2
    <3> HIDE DEF t, s
    <3>4. i + 1 \in 1..Len(t) /\ t[i + 1] = l.memory[i]
      BY <1>3, <3>1, <3>3
    <3>5. /\ i + 1 \in 1..Len(s) /\ i + 2 \in 1..Len(s)
          /\ l.memory[i] = s[i + 1] \/ l.memory[i] = s[i + 2]
      BY <1>0, <3>2, <3>4
    <3>6. QED
      BY <3>5 DEF Contains
  <2>5. CASE ~c.found /\ Settled(l, s)
    BY <1>0, <1>3, <2>5 DEF Contains
  <2>6. QED
    BY <1>4, <2>1, <2>2, <2>3, <2>4, <2>5 DEF Within, ListInv, Lists
<1>5. CASE \A u \in Users : ~(Lists(user[u]) /\ user[u].owner = o)
  <2>1. Settled(l, s)
    BY <1>5 DEF ListInv
  <2>2. QED
    BY <1>0, <1>1, <1>3, <2>1 DEF Contains
<1>6. QED
  BY <1>1, <1>4, <1>5

\* The dispatcher meets no null, unwritten or destroyed clock in a walk that no
\* removal and no move of a list overlaps, for any users that each keep lists of
\* their own.
THEOREM UndisturbedWalksAreSafeAlways == ASSUME OneWriter PROVE Spec => []UndisturbedWalksAreSafe
<1>1. TypeInv /\ ListInv /\ WalkInv /\ LiveInv => UndisturbedWalksAreSafe
  <2> SUFFICES ASSUME TypeInv, ListInv, WalkInv, LiveInv, UsesClock, ~pass.changed,
                      \A u \in Users : ~(user[u].op = "unregister" /\ user[u].owner = Dispatcher)
               PROVE  disp.clock \in Clocks \ gone
    BY DEF UndisturbedWalksAreSafe
  <2> DEFINE l == list[Dispatcher]
             s == listed[Dispatcher]
  <2>1. disp.pc \in After
    BY DEF UsesClock, After
  <2>2. /\ disp.i \in Nat /\ disp.n \in Nat /\ l.size \in Nat /\ l.capacity \in Nat
        /\ s \in Seq(Clocks) /\ Len(s) \in Nat /\ Dispatcher \in Owners
    <3>1. Dispatcher \in Owners /\ Items(Dispatcher) = Clocks
      BY DEF Owners, Items
    <3>2. disp \in DispType /\ l \in ListType /\ s \in Seq(Clocks)
      BY <3>1 DEF TypeInv
    <3> HIDE DEF l, s
    <3>3. QED
      BY <3>1, <3>2 DEF DispType, ListType
  <2>3. disp.i < l.size /\ disp.clock = Slot(Dispatcher, disp.i)
    <3>1. Read(disp.i + 1) /\ disp.i < disp.n /\ disp.clock = pass.read[disp.i + 1]
      BY <2>1, ReadFacts DEF Walking
    <3>2. QED
      BY <2>2, <3>1 DEF Read
  <2>4. /\ l.size <= Len(s) /\ l.size <= l.capacity
        /\ \A k \in 1..l.size : l.memory[k - 1] = s[k]
    <3>1. CASE Settled(l, s)
      BY <2>2, <3>1 DEF Settled
    <3>2. CASE \E u \in Users : Lists(user[u]) /\ user[u].owner = Dispatcher
      <4>1. PICK u \in Users : Lists(user[u]) /\ user[u].owner = Dispatcher
        BY <3>2
      <4>2. user[u].op = "register" /\ Within(l, s, user[u]) /\ ~user[u].found
        BY <2>2, <4>1 DEF ListInv, Lists
      <4>3. Adding(l, s, user[u]) \/ Settled(l, s)
        BY <4>2, AtFacts DEF Within
      <4>4. QED
        BY <2>2, <3>1, <4>3 DEF Adding
    <3>3. QED
      BY <2>2, <3>1, <3>2 DEF ListInv
  <2>5. disp.i + 1 \in 1..l.size /\ disp.i + 1 \in 1..Len(s) /\ disp.i + 1 - 1 = disp.i
    BY <2>2, <2>3, <2>4
  <2>6. disp.clock = s[disp.i + 1]
    BY <2>2, <2>3, <2>4, <2>5 DEF Slot
  <2> HIDE DEF l
  <2>7. disp.clock \in Clocks /\ Contains(s, disp.clock)
    BY <2>2, <2>5, <2>6 DEF Contains
  <2>8. disp.clock \in Handles /\ Alive(disp.clock)
    BY <2>2, <2>7 DEF LiveInv, Handles
  <2>9. QED
    BY <2>7, <2>8 DEF Alive
<1>2. QED
  BY <1>1, ListInvHolds, WalkInvHolds, LiveInvHolds, PTL

-----------------------------------------------------------------------------
(* A driver that has left its lists is ticked once more at most.           *)

\* The driver at hand is one that the slot just copied held.
LEMMA CopyDriverTakesListed ==
    ASSUME TypeInv, ListInv, CopyDriver, NEW d \in Drivers, disp'.driver = d
    PROVE  IsListed(d)
<1>1. /\ disp.pc = "driverCopy" /\ ~BadHandle /\ disp \in DispType /\ disp.j \in Nat
      /\ disp'.driver = Copied(disp.clock, disp.j)
  BY DEF CopyDriver, TypeInv, DispType
<1>2. disp.clock \in Clocks /\ disp.clock \in Owners /\ d \in Handles /\ d # Junk
  BY <1>1, DispatchAssumption DEF BadHandle, UsesClock, Owners, Handles
<1>3. Slot(disp.clock, disp.j) = d
  BY <1>1, <1>2 DEF Copied
<1>4. Contains(listed[disp.clock], d)
  BY <1>1, <1>2, <1>3, SlotsAreListed
<1>5. QED
  BY <1>2, <1>4 DEF IsListed

LEMMA ThreadKeepsStale ==
    ASSUME TypeInv, ListInv, StaleInv, DispatcherStep
    PROVE  StaleInv'
<1>0. /\ stale \in [Drivers -> Nat] /\ disp \in DispType
      /\ \A d : IsListed(d)' <=> IsListed(d)
  BY ThreadChanges DEF StaleInv, TypeInv, IsListed, Contains
<1>1. CASE CopyDriver
  <2>1. UNCHANGED stale /\ disp.pc # "driverUse"
    BY <1>1 DEF CopyDriver
  <2>2. ASSUME NEW d \in Drivers, disp'.driver = d PROVE stale[d] = 0
    BY <1>1, <2>2, CopyDriverTakesListed DEF StaleInv
  <2>3. QED
    BY <1>0, <2>1, <2>2 DEF StaleInv
<1>2. CASE TickDriver
  <2>1. /\ disp.pc = "driverUse" /\ disp.driver \in Drivers /\ disp'.pc = "ticking"
        /\ stale' = [stale EXCEPT ![disp.driver] = IF IsListed(disp.driver) THEN 0 ELSE @ + 1]
    BY <1>0, <1>2 DEF TickDriver, BadHandle, UsesDriver, DispType
  <2>2. stale[disp.driver] = 0
    BY <2>1 DEF StaleInv
  <2>3. stale' \in [Drivers -> Nat]
    BY <1>0, <2>1, <2>2
  <2>4. ASSUME NEW d \in Drivers PROVE IF IsListed(d) THEN stale'[d] = 0 ELSE stale'[d] <= 1
    <3>1. CASE d = disp.driver
      BY <1>0, <2>1, <2>2, <3>1
    <3>2. CASE d # disp.driver
      BY <1>0, <2>1, <2>4, <3>2 DEF StaleInv
    <3>3. QED
      BY <3>1, <3>2
  <2>5. QED
    BY <1>0, <2>1, <2>3, <2>4 DEF StaleInv
<1>3. CASE ~CopyDriver /\ ~TickDriver
  <2>1. UNCHANGED stale
    <3>1. /\ ReadRunning \/ ReadSize \/ LockClocks \/ GetClock => UNCHANGED stale
          /\ LoadBuffer \/ UseClock \/ LockDrivers \/ NextDriver => UNCHANGED stale
      BY DEF ReadRunning, ReadSize, LockClocks, GetClock, LoadBuffer, UseClock, LockDrivers, NextDriver
    <3>2. /\ GetDriver \/ DriverTicked \/ UnlockDrivers \/ ClockTicked => UNCHANGED stale
          /\ UnlockClocks \/ UseBadHandle \/ CopyClock => UNCHANGED stale
      BY DEF GetDriver, DriverTicked, UnlockDrivers, ClockTicked, UnlockClocks, UseBadHandle, CopyClock
    <3>3. QED
      BY <1>3, <3>1, <3>2 DEF DispatcherStep
  <2>2. disp'.pc # "driverUse"
    <3>1. CASE LockClocks \/ LockDrivers
      BY <1>0, <3>1 DEF LockClocks, LockDrivers, Attempt, ClockLoop, DispType
    <3>2. CASE GetClock \/ UseClock \/ ClockTicked
      BY <1>0, <3>2 DEF GetClock, UseClock, ClockTicked, NextClock, ClockLoop, DispType
    <3>3. CASE ReadRunning \/ ReadSize \/ LoadBuffer \/ CopyClock
      BY <1>0, <3>3 DEF ReadRunning, ReadSize, LoadBuffer, CopyClock, DispType
    <3>4. CASE NextDriver \/ GetDriver \/ DriverTicked
      BY <1>0, <3>4 DEF NextDriver, GetDriver, DriverTicked, DispType
    <3>5. CASE UnlockDrivers \/ UnlockClocks \/ UseBadHandle
      BY <1>0, <3>5 DEF UnlockDrivers, UnlockClocks, UseBadHandle, DispType
    <3>6. QED
      BY <1>3, <3>1, <3>2, <3>3, <3>4, <3>5 DEF DispatcherStep
  <2>3. QED
    BY <1>0, <2>1, <2>2 DEF StaleInv
<1>4. QED
  BY <1>1, <1>2, <1>3

LEMMA CallsKeepStale ==
    ASSUME TypeInv, ListInv, StaleInv, NEW u \in Users, UserStep(u) \/ UserBegins(u)
    PROVE  StaleInv'
<1>0. /\ stale \in [Drivers -> Nat] /\ disp \in DispType
      /\ disp'.pc = disp.pc /\ disp'.driver = disp.driver
  BY CallsKeepSlots DEF StaleInv, TypeInv, DispType
<1>1. CASE UserStep(u)
  <2>1. UNCHANGED stale
    BY <1>1 DEF UserStep, LockList, GrowList, StoreItem, PublishSize, FindItem, ShiftSlot, ShrinkList,
                UnlockList, DestroyItem, StopDispatcher, JoinDispatcher, FreeDispatcher, UserOnly
  <2>2. \A d : IsListed(d)' => IsListed(d)
    BY <1>1, CallsListNothing DEF IsListed, Owners
  <2>3. QED
    BY <1>0, <2>1, <2>2 DEF StaleInv
<1>2. CASE UserBegins(u)
  <2>1. PICK op, x, c : \E o \in Owners : Begun(u, op, o, x, c)
    BY <1>2, BeginListsTheLiving
  <2> PICK o \in Owners : Begun(u, op, o, x, c)
    BY <2>1
  <2>2. CASE op # "register"
    <3>1. UNCHANGED <<stale, listed>>
      BY <2>2 DEF Begun
    <3>2. QED
      BY <1>0, <3>1 DEF StaleInv, IsListed, Contains
  <2>3. CASE op = "register"
    <3>1. stale' = IF x \in Drivers THEN [stale EXCEPT ![x] = 0] ELSE stale
      BY <2>3 DEF Begun
    <3>2. ASSUME NEW d \in Drivers, d # x PROVE IsListed(d)' <=> IsListed(d)
      <4>1. \A p \in Clocks : Contains(listed[p], d)' <=> Contains(listed'[p], d)
        BY DEF Contains
      <4>2. \A p \in Clocks : Contains(listed'[p], d) <=> Contains(listed[p], d)
        BY <2>3, <3>2 DEF Begun, Owners
      <4>3. QED
        BY <4>1, <4>2 DEF IsListed
    <3>3. stale' \in [Drivers -> Nat]
      BY <1>0, <3>1
    <3>4. ASSUME NEW d \in Drivers
          PROVE  IF IsListed(d)' \/ (disp'.pc = "driverUse" /\ disp'.driver = d)
                 THEN stale'[d] = 0 ELSE stale'[d] <= 1
      <4>1. CASE d = x
        BY <1>0, <3>1, <4>1
      <4>2. CASE d # x
        <5>1. stale'[d] = stale[d]
          BY <1>0, <3>1, <4>2
        <5>2. QED
          BY <1>0, <3>2, <4>2, <5>1 DEF StaleInv
      <4>3. QED
        BY <4>1, <4>2
    <3>5. QED
      BY <3>3, <3>4 DEF StaleInv
  <2>4. QED
    BY <2>2, <2>3
<1>3. QED
  BY <1>1, <1>2

\* After its last unregister has returned a driver is ticked once more at most, for
\* any users that each keep lists of their own.
THEOREM StaleTicksBoundedAlways == ASSUME OneWriter PROVE Spec => []StaleTicksBounded
<1>1. Init => StaleInv
  <2> SUFFICES ASSUME Init PROVE StaleInv
    OBVIOUS
  <2>1. stale = [d \in Drivers |-> 0] /\ disp.pc = "top"
    BY DEF Init
  <2>2. QED
    BY <2>1 DEF StaleInv
<1>2. TypeInv /\ ListInv /\ StaleInv /\ [Next]_vars => StaleInv'
  <2> SUFFICES ASSUME TypeInv, ListInv, StaleInv, [Next]_vars PROVE StaleInv'
    OBVIOUS
  <2>1. CASE UNCHANGED vars
    BY <2>1 DEF vars, StaleInv, IsListed, Contains
  <2>2. CASE DispatcherStep
    BY <2>2, ThreadKeepsStale
  <2>3. CASE \E u \in Users : UserStep(u) \/ UserBegins(u)
    BY <2>3, CallsKeepStale
  <2>4. QED
    BY <2>1, <2>2, <2>3 DEF Next
<1>3. StaleInv => StaleTicksBounded
  BY DEF StaleInv, StaleTicksBounded
<1>4. QED
  BY <1>1, <1>2, <1>3, ListInvHolds, PTL DEF Spec
=============================================================================
