----------------------------- MODULE ArrayList -----------------------------
(***************************************************************************)
(* libkraken/src/util/kraken_array_list.c: one kraken_array_list_t, used   *)
(* by one caller at a time, one action per call.  Slots are counted in     *)
(* elements (element_size is a constant of the list), slot 0 first.        *)
(***************************************************************************)
EXTENDS Naturals, Sequences

CONSTANTS Elements,         \* the handles callers store
          Zero,             \* a slot kraken_calloc cleared (a null handle)
          Junk,             \* a slot nobody wrote: realloc's tail, or past the end
          InitialCapacity,  \* of kraken_array_list_create; 4 in clocks and dispatchers
          MaxSize,          \* bound: the callers stop adding at this size
          KrakenDebug       \* TRUE: KRAKEN_CHECK tests the index

ASSUME CapacityAssumption == InitialCapacity \in Nat \ {0}
ASSUME MaxSizeAssumption  == MaxSize \in Nat
ASSUME SlotAssumption     == Zero \notin Elements /\ Junk \notin Elements
ASSUME DebugAssumption    == KrakenDebug \in BOOLEAN

VARIABLES memory,     \* list->memory, a function from slots to contents
          size,       \* list->size
          capacity,   \* list->capacity
          reply,      \* outcome of the last call
          touched     \* history: the slots the last call read or wrote

vars == <<memory, size, capacity, reply, touched>>

Contents == Elements \cup {Zero, Junk}

Got(value) == [status |-> "KRAKEN_OK", value |-> value]
At(index)  == [status |-> "KRAKEN_OK", index |-> index]
Found(yes) == [status |-> "KRAKEN_OK", found |-> yes]
InvalidOp  == [status |-> "KRAKEN_ERR_INVALID_OP"]
InvalidArg == [status |-> "KRAKEN_ERR_INVALID_ARG"]
Done       == [status |-> "KRAKEN_OK"]

\* A read of a slot; one past the allocation yields whatever lies there.
Slot(i) == IF i < capacity THEN memory[i] ELSE Junk

\* The slots a search for e from slot 0 inspects before it stops.
FoundAt(i, e) == i < size /\ memory[i] = e /\ \A j \in 0..(i - 1) : memory[j] # e
IsListed(e)   == \E i \in 0..(size - 1) : memory[i] = e

Init ==
    /\ memory = [i \in 0..(InitialCapacity - 1) |-> Zero]
    /\ size = 0
    /\ capacity = InitialCapacity
    /\ reply = Done
    /\ touched = {}

\* Mutant: the list grows only once it is over-full.
MutantAddGrowsLate(e) ==
    /\ size < MaxSize
    /\ LET newSize == size + 1
           grown   == IF size > capacity THEN 2 * newSize ELSE capacity
       IN  /\ capacity' = grown
           /\ memory' = [i \in 0..(grown - 1) |->
                            IF i = size THEN e ELSE Slot(i)]
           /\ size' = newSize
    /\ touched' = {size}
    /\ reply' = Done

Add(e) ==
    /\ size < MaxSize
    /\ LET newSize  == size + 1
           \* over-allocate double the new size
           grown    == IF newSize > capacity THEN 2 * newSize ELSE capacity
       IN  /\ capacity' = grown
           /\ memory' = [i \in 0..(grown - 1) |->
                            IF i = size THEN e ELSE Slot(i)]
           /\ size' = newSize
    /\ touched' = {size}
    /\ reply' = Done

\* Mutant: everything up to the last but one slot moves down by two.
MutantRemoveAtSkipsTwo(i) ==
    /\ memory' = [j \in 0..(capacity - 1) |->
                     IF i <= j /\ j < size THEN Slot(j + 2) ELSE memory[j]]
    /\ size' = size - 1
    /\ touched' = 0..(size + 1)
    /\ reply' = Done
    /\ UNCHANGED capacity

\* memcpy moves size - i elements down by one: the elements after slot i, and
\* the slot that follows the last of them.
RemoveAt(i) ==
    /\ memory' = [j \in 0..(capacity - 1) |->
                     IF i <= j /\ j < size THEN Slot(j + 1) ELSE memory[j]]
    /\ size' = size - 1
    /\ touched' = 0..size
    /\ reply' = Done
    /\ UNCHANGED capacity

\* Mutant: the last occurrence is removed.
MutantRemoveLast(e) ==
    \/ \E i \in 0..(size - 1) :
          memory[i] = e /\ (\A j \in (i + 1)..(size - 1) : memory[j] # e) /\ RemoveAt(i)
    \/ /\ ~IsListed(e)
       /\ touched' = 0..(size - 1)
       /\ reply' = InvalidOp
       /\ UNCHANGED <<memory, size, capacity>>

Remove(e) ==
    \/ \E i \in 0..(size - 1) : FoundAt(i, e) /\ RemoveAt(i)
    \/ /\ ~IsListed(e)
       /\ touched' = 0..(size - 1)
       /\ reply' = InvalidOp
       /\ UNCHANGED <<memory, size, capacity>>

Get(i) ==
    /\ \/ i >= size /\ KrakenDebug /\ reply' = InvalidArg /\ touched' = {}
       \/ (i < size \/ ~KrakenDebug) /\ reply' = Got(Slot(i)) /\ touched' = {i}
    /\ UNCHANGED <<memory, size, capacity>>

IndexOf(e) ==
    /\ \/ \E i \in 0..(size - 1) :
             FoundAt(i, e) /\ reply' = At(i) /\ touched' = 0..i
       \/ ~IsListed(e) /\ reply' = InvalidOp /\ touched' = 0..(size - 1)
    /\ UNCHANGED <<memory, size, capacity>>

Set(i, e) ==
    /\ \/ /\ i >= size /\ KrakenDebug
          /\ reply' = InvalidArg /\ touched' = {}
          /\ UNCHANGED memory
       \/ /\ i < size \/ ~KrakenDebug
          /\ reply' = Done /\ touched' = {i}
          /\ memory' = [memory EXCEPT ![i] = e]
    /\ UNCHANGED <<size, capacity>>

Contains(e) ==
    /\ reply' = Found(IsListed(e))
    /\ touched' = {i \in 0..(size - 1) : \A j \in 0..(i - 1) : memory[j] # e}
    /\ UNCHANGED <<memory, size, capacity>>

Clear ==
    /\ size' = 0
    /\ touched' = {}
    /\ reply' = Done
    /\ UNCHANGED <<memory, capacity>>

\* Callers index with a size they read from this list, so below its capacity.
Next ==
    \/ \E e \in Elements : Add(e) \/ Remove(e) \/ IndexOf(e) \/ Contains(e)
    \/ \E i \in 0..(capacity - 1) : Get(i)
    \/ \E i \in 0..(capacity - 1), e \in Elements : Set(i, e)
    \/ Clear

Spec == Init /\ [][Next]_vars

-----------------------------------------------------------------------------
TypeOK ==
    /\ capacity \in Nat
    /\ size \in 0..capacity
    /\ memory \in [0..(capacity - 1) -> Contents]
    /\ touched \subseteq Nat

\* Every listed slot holds an element a caller stored, never a cleared or an
\* unwritten slot, although growing exposes unwritten memory and remove copies
\* the slot behind the last element (kraken_array_list.c 48-58, 76-81).
ListedSlotsAreElements == \A i \in 0..(size - 1) : memory[i] \in Elements

\* The list the callers see.
items == [k \in 1..size |-> memory[k - 1]]

Abstract == INSTANCE AbstractList WITH
                CheckBounds <- KrakenDebug,
                Positions   <- 0..(InitialCapacity + 2 * MaxSize)

\* The array list implements the abstract list, call by call and reply by
\* reply (kraken_array_list.c 41-156).
ImplementsList == Abstract!LSpec

\* No call touches memory further away than the slot behind the last one, the
\* slot remove's copy reads when the list is full (kraken_array_list.c 54-57,
\* 75-81, 92-96).
AccessesAreNear == touched \subseteq 0..capacity
=============================================================================
