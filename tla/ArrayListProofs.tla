-------------------------- MODULE ArrayListProofs --------------------------
(***************************************************************************)
(* The array list for every element type, initial capacity and build: its  *)
(* listed slots are always elements, and it implements the abstract list.  *)
(***************************************************************************)
EXTENDS ArrayList, SequenceTheorems, TLAPS

\* While the callers respect MaxSize, the capacity stays below this bound.
CapacityBounded == capacity <= InitialCapacity + 2 * MaxSize

ListInv == TypeOK /\ ListedSlotsAreElements /\ CapacityBounded

\* Reading any slot, inside the allocation or past it, yields possible content.
LEMMA SlotContents ==
    ASSUME TypeOK, NEW i \in Nat
    PROVE  Slot(i) \in Contents
BY DEF TypeOK, Slot, Contents

\* Adding keeps the list well formed, whether it reallocates or not.
LEMMA AddKeepsListInv ==
    ASSUME ListInv, NEW e \in Elements, Add(e)
    PROVE  ListInv'
<1> DEFINE grown == IF size + 1 > capacity THEN 2 * (size + 1) ELSE capacity
<1>1. /\ size \in Nat /\ capacity \in Nat
      /\ grown \in Nat /\ size + 1 <= grown /\ grown >= capacity
  BY DEF ListInv, TypeOK
<1>2. /\ capacity' = grown /\ size' = size + 1 /\ touched' = {size}
      /\ memory' = [i \in 0..(grown - 1) |-> IF i = size THEN e ELSE Slot(i)]
  BY DEF Add
<1> HIDE DEF grown
<1>3. memory' \in [0..(capacity' - 1) -> Contents]
  BY <1>1, <1>2, SlotContents DEF ListInv, Contents
<1>4. TypeOK'
  BY <1>1, <1>2, <1>3 DEF TypeOK
<1>5. ASSUME NEW i \in 0..(size' - 1) PROVE memory'[i] \in Elements
  <2>1. i \in 0..(grown - 1)
    BY <1>1, <1>2
  <2>2. CASE i = size
    BY <2>1, <2>2, <1>2
  <2>3. CASE i # size
    <3>1. i \in 0..(size - 1) /\ i < capacity
      BY <2>3, <1>1, <1>2 DEF ListInv, TypeOK
    <3> QED
      BY <3>1, <2>1, <2>3, <1>2 DEF ListInv, ListedSlotsAreElements, Slot
  <2>4. QED
    BY <2>2, <2>3
<1>6. CapacityBounded'
  BY <1>1, <1>2, CapacityAssumption, MaxSizeAssumption DEF Add, grown, ListInv, TypeOK, CapacityBounded
<1>7. QED
  BY <1>4, <1>5, <1>6 DEF ListInv, ListedSlotsAreElements

\* Removing keeps the list well formed: what moves into a listed slot was
\* listed before.
LEMMA RemoveAtKeepsListInv ==
    ASSUME ListInv, NEW i \in 0..(size - 1), RemoveAt(i)
    PROVE  ListInv'
<1>1. size \in Nat /\ capacity \in Nat /\ size <= capacity /\ size > 0 /\ i < size /\ i \in Nat
  BY DEF ListInv, TypeOK
<1>2. /\ capacity' = capacity /\ size' = size - 1 /\ touched' = 0..size
      /\ memory' = [j \in 0..(capacity - 1) |->
                       IF i <= j /\ j < size THEN Slot(j + 1) ELSE memory[j]]
  BY DEF RemoveAt
<1>3. memory' \in [0..(capacity' - 1) -> Contents]
  <2>1. ASSUME NEW j \in 0..(capacity - 1) PROVE Slot(j + 1) \in Contents /\ memory[j] \in Contents
    BY <1>1, SlotContents DEF ListInv, TypeOK
  <2> QED
    BY <1>2, <2>1
<1>4. TypeOK'
  <2>1. size' \in 0..capacity' /\ touched' \subseteq Nat /\ capacity' \in Nat
    BY <1>1, <1>2
  <2> QED
    BY <2>1, <1>3 DEF TypeOK
<1>5. ASSUME NEW j \in 0..(size' - 1) PROVE memory'[j] \in Elements
  <2>1. j \in 0..(capacity - 1) /\ j \in 0..(size - 1) /\ j + 1 \in 0..(size - 1) /\ j + 1 < capacity
    BY <1>1, <1>2
  <2> QED
    BY <2>1, <1>2 DEF ListInv, ListedSlotsAreElements, Slot
<1>6. CapacityBounded'
  BY <1>2 DEF ListInv, CapacityBounded
<1>7. QED
  BY <1>4, <1>5, <1>6 DEF ListInv, ListedSlotsAreElements

LEMMA RemoveKeepsListInv ==
    ASSUME ListInv, NEW e \in Elements, Remove(e)
    PROVE  ListInv'
<1>1. ASSUME NEW i \in 0..(size - 1), RemoveAt(i) PROVE ListInv'
  BY <1>1, RemoveAtKeepsListInv
<1>2. CASE /\ touched' = 0..(size - 1)
           /\ UNCHANGED <<memory, size, capacity>>
  BY <1>2 DEF ListInv, TypeOK, ListedSlotsAreElements, CapacityBounded
<1>3. QED
  BY <1>1, <1>2 DEF Remove

LEMMA SetKeepsListInv ==
    ASSUME ListInv, NEW i \in 0..(capacity - 1), NEW e \in Elements, Set(i, e)
    PROVE  ListInv'
BY DEF Set, ListInv, TypeOK, ListedSlotsAreElements, CapacityBounded, Contents

LEMMA LookupKeepsListInv ==
    ASSUME ListInv,
           UNCHANGED <<memory, size, capacity>>, touched' \subseteq Nat
    PROVE  ListInv'
BY DEF ListInv, TypeOK, ListedSlotsAreElements, CapacityBounded

LEMMA ListInvInit == Init => ListInv
BY CapacityAssumption, MaxSizeAssumption
   DEF Init, ListInv, TypeOK, ListedSlotsAreElements, CapacityBounded, Contents

LEMMA ListInvStep == ListInv /\ [Next]_vars => ListInv'
<1> SUFFICES ASSUME ListInv, [Next]_vars PROVE ListInv'
  OBVIOUS
<1>0. size \in Nat /\ capacity \in Nat
  BY DEF ListInv, TypeOK
<1>1. ASSUME NEW e \in Elements, Add(e) PROVE ListInv'
  BY <1>1, AddKeepsListInv
<1>2. ASSUME NEW e \in Elements, Remove(e) PROVE ListInv'
  BY <1>2, RemoveKeepsListInv
<1>3. ASSUME NEW e \in Elements, IndexOf(e) PROVE ListInv'
  BY <1>0, <1>3, LookupKeepsListInv DEF IndexOf
<1>4. ASSUME NEW e \in Elements, Contains(e) PROVE ListInv'
  <2>1. touched' \subseteq Nat
    BY <1>0, <1>4 DEF Contains
  <2> QED
    BY <2>1, <1>4, LookupKeepsListInv DEF Contains
<1>5. ASSUME NEW i \in 0..(capacity - 1), Get(i) PROVE ListInv'
  BY <1>0, <1>5, LookupKeepsListInv DEF Get
<1>6. ASSUME NEW i \in 0..(capacity - 1), NEW e \in Elements, Set(i, e) PROVE ListInv'
  BY <1>6, SetKeepsListInv
<1>7. CASE Clear
  BY <1>0, <1>7 DEF Clear, ListInv, TypeOK, ListedSlotsAreElements, CapacityBounded
<1>8. CASE UNCHANGED vars
  BY <1>8 DEF vars, ListInv, TypeOK, ListedSlotsAreElements, CapacityBounded
<1>9. QED
  BY <1>1, <1>2, <1>3, <1>4, <1>5, <1>6, <1>7, <1>8 DEF Next

\* Every listed slot holds an element some caller stored
\* (kraken_array_list.c 41-131).
THEOREM ListedSlotsCorrect == Spec => []ListedSlotsAreElements
<1>1. Spec => []ListInv
  BY ListInvInit, ListInvStep, PTL DEF Spec
<1>2. QED
  BY <1>1, PTL DEF ListInv

\* The size never exceeds the capacity, and the memory is as large as the capacity
\* says, whatever is called (kraken_array_list.c 19-156).
THEOREM ListTypeCorrect == Spec => []TypeOK
<1>1. Spec => []ListInv
  BY ListInvInit, ListInvStep, PTL DEF Spec
<1>2. ListInv => TypeOK
  BY DEF ListInv
<1>3. QED
  BY <1>1, <1>2, PTL

-----------------------------------------------------------------------------
\* A call reads and writes no slot beyond the one behind the last: a search ends
\* inside the list, and a removal reads the slot at size, at most capacity.
LEMMA CallsTouchNear ==
    ASSUME ListInv, Next
    PROVE  AccessesAreNear'
<1>1. size \in Nat /\ capacity \in Nat /\ size <= capacity
  BY DEF ListInv, TypeOK
<1>2. ASSUME NEW e \in Elements, Add(e) PROVE AccessesAreNear'
  BY <1>1, <1>2 DEF Add, AccessesAreNear
<1>3. ASSUME NEW e \in Elements, Remove(e) PROVE AccessesAreNear'
  <2>1. touched' \in {0..size, 0..(size - 1)} /\ capacity' = capacity
    BY <1>3 DEF Remove, RemoveAt
  <2>2. QED
    BY <1>1, <2>1 DEF AccessesAreNear
<1>4. ASSUME NEW e \in Elements, IndexOf(e) PROVE AccessesAreNear'
  BY <1>1, <1>4 DEF IndexOf, AccessesAreNear
<1>5. ASSUME NEW e \in Elements, Contains(e) PROVE AccessesAreNear'
  BY <1>1, <1>5 DEF Contains, AccessesAreNear
<1>6. ASSUME NEW i \in 0..(capacity - 1), Get(i) PROVE AccessesAreNear'
  BY <1>1, <1>6 DEF Get, AccessesAreNear
<1>7. ASSUME NEW i \in 0..(capacity - 1), NEW e \in Elements, Set(i, e) PROVE AccessesAreNear'
  BY <1>1, <1>7 DEF Set, AccessesAreNear
<1>8. CASE Clear
  BY <1>8 DEF Clear, AccessesAreNear
<1>9. QED
  BY <1>2, <1>3, <1>4, <1>5, <1>6, <1>7, <1>8 DEF Next

\* No call on the list leaves the neighbourhood of its memory
\* (kraken_array_list.c 41-156).
THEOREM ListAccessesNear == Spec => []AccessesAreNear
<1>1. Init => ListInv /\ AccessesAreNear
  BY ListInvInit DEF Init, AccessesAreNear
<1>2. ListInv /\ AccessesAreNear /\ [Next]_vars => ListInv' /\ AccessesAreNear'
  <2>1. AccessesAreNear /\ UNCHANGED vars => AccessesAreNear'
    BY DEF vars, AccessesAreNear
  <2>2. QED
    BY <2>1, ListInvStep, CallsTouchNear
<1>3. QED
  BY <1>1, <1>2, PTL DEF Spec

-----------------------------------------------------------------------------

\* The refinement mapping yields the sequence of the listed slots.
LEMMA ItemsAreSequence ==
    ASSUME ListInv
    PROVE  /\ items \in Seq(Elements)
           /\ Len(items) = size
           /\ \A k \in 1..size : items[k] = memory[k - 1]
<1>1. size \in Nat
  BY DEF ListInv, TypeOK
<1>2. \A k \in 1..size : k - 1 \in 0..(size - 1) /\ memory[k - 1] \in Elements
  BY <1>1 DEF ListInv, ListedSlotsAreElements
<1>3. items \in [1..size -> Elements]
  BY <1>2 DEF items
<1>4. QED
  BY <1>1, <1>3 DEF items

\* The search for e ends at slot i exactly when e is first at position i + 1.
LEMMA FoundIsFirst ==
    ASSUME ListInv, NEW e, NEW i \in 0..(size - 1), FoundAt(i, e)
    PROVE  Abstract!FirstAt(i + 1, e)
<1>1. size \in Nat
  BY DEF ListInv, TypeOK
<1>2. i + 1 \in 1..Len(items) /\ items[i + 1] = e
  BY <1>1, ItemsAreSequence DEF FoundAt
<1>3. ASSUME NEW j \in 1..((i + 1) - 1) PROVE items[j] # e
  <2>1. j \in 1..size /\ j - 1 \in 0..(i - 1)
    BY <1>1
  <2> QED
    BY <2>1, ItemsAreSequence DEF FoundAt
<1>4. QED
  BY <1>2, <1>3 DEF Abstract!FirstAt

LEMMA ListedIsListed ==
    ASSUME ListInv, NEW e
    PROVE  IsListed(e) <=> Abstract!Listed(e)
<1>1. size \in Nat
  BY DEF ListInv, TypeOK
<1>2. ASSUME NEW i \in 0..(size - 1), memory[i] = e PROVE Abstract!Listed(e)
  <2>1. i + 1 \in 1..Len(items) /\ items[i + 1] = memory[i]
    BY <1>1, ItemsAreSequence
  <2> QED
    BY <1>2, <2>1 DEF Abstract!Listed
<1>3. ASSUME NEW k \in 1..Len(items), items[k] = e PROVE IsListed(e)
  <2>1. k - 1 \in 0..(size - 1) /\ items[k] = memory[k - 1]
    BY <1>1, ItemsAreSequence
  <2> QED
    BY <1>3, <2>1 DEF IsListed
<1>4. QED
  BY <1>2, <1>3 DEF IsListed, Abstract!Listed

LEMMA AddImplements ==
    ASSUME ListInv, ListInv', NEW e \in Elements, Add(e)
    PROVE  Abstract!LAdd(e)
<1>1. /\ size \in Nat /\ capacity \in Nat /\ size <= capacity
      /\ size' = size + 1 /\ reply' = Done
  BY DEF Add, ListInv, TypeOK
<1>2. memory'[size] = e /\ \A i \in 0..(size - 1) : memory'[i] = memory[i]
  BY <1>1 DEF Add, Slot
<1>3. items' = [k \in 1..(size + 1) |-> IF k = size + 1 THEN e ELSE items[k]]
  <2>1. ASSUME NEW k \in 1..(size + 1)
        PROVE  memory'[k - 1] = IF k = size + 1 THEN e ELSE items[k]
    <3>1. CASE k = size + 1
      BY <3>1, <1>1, <1>2
    <3>2. CASE k # size + 1
      <4>1. k \in 1..size /\ k - 1 \in 0..(size - 1)
        BY <3>2, <1>1
      <4> QED
        BY <4>1, <3>2, <1>2, ItemsAreSequence
    <3>3. QED
      BY <3>1, <3>2
  <2>2. items' = [k \in 1..(size + 1) |-> memory'[k - 1]]
    BY <1>1 DEF items
  <2>3. QED
    BY <2>1, <2>2
<1>4. items' = Append(items, e)
  <2>1. /\ Append(items, e) \in Seq(Elements)
        /\ Len(Append(items, e)) = size + 1
        /\ \A k \in 1..size : Append(items, e)[k] = items[k]
        /\ Append(items, e)[size + 1] = e
    BY ItemsAreSequence, AppendProperties
  <2>2. Append(items, e) = [k \in 1..(size + 1) |-> Append(items, e)[k]]
    BY <2>1, LenProperties
  <2>3. \A k \in 1..(size + 1) :
           Append(items, e)[k] = IF k = size + 1 THEN e ELSE items[k]
    BY <2>1, <1>1
  <2>4. QED
    BY <2>2, <2>3, <1>3
<1>5. QED
  BY <1>1, <1>4 DEF Abstract!LAdd, Abstract!Done, Done

LEMMA RemoveImplements ==
    ASSUME ListInv, ListInv', NEW e \in Elements, Remove(e)
    PROVE  Abstract!LRemove(e)
<1>1. size \in Nat /\ capacity \in Nat /\ size <= capacity
  BY DEF ListInv, TypeOK
<1>2. ASSUME NEW i \in 0..(size - 1), FoundAt(i, e), RemoveAt(i)
      PROVE  Abstract!LRemove(e)
  <2>1. Abstract!FirstAt(i + 1, e)
    BY <1>2, FoundIsFirst
  <2>2. i + 1 \in 1..Len(items) /\ Len(items) = size
    BY <1>1, ItemsAreSequence
  <2>3. size' = size - 1 /\ reply' = Done
    BY <1>2 DEF RemoveAt
  <2>4. ASSUME NEW j \in 1..(size - 1)
        PROVE  memory'[j - 1] = IF j < i + 1 THEN items[j] ELSE items[j + 1]
    <3>1. /\ j - 1 \in 0..(capacity - 1) /\ (j - 1) + 1 = j /\ j < capacity
          /\ j \in 1..size /\ j + 1 \in 1..size /\ (j + 1) - 1 = j
      BY <1>1
    <3>2. memory'[j - 1] = IF i <= j - 1 /\ j - 1 < size THEN memory[j] ELSE memory[j - 1]
      BY <3>1, <1>1, <1>2 DEF RemoveAt, Slot
    <3>3. items[j] = memory[j - 1] /\ items[j + 1] = memory[j]
      BY <3>1, ItemsAreSequence
    <3>4. QED
      BY <3>1, <3>2, <3>3, <1>1
  <2>5. items' = [j \in 1..(Len(items) - 1) |->
                     IF j < i + 1 THEN items[j] ELSE items[j + 1]]
    BY <2>2, <2>3, <2>4 DEF items
  <2>6. QED
    BY <2>1, <2>2, <2>3, <2>5 DEF Abstract!LRemove, Abstract!Done, Done
<1>3. ASSUME ~IsListed(e), reply' = InvalidOp, UNCHANGED <<memory, size, capacity>>
      PROVE  Abstract!LRemove(e)
  BY <1>3, ListedIsListed DEF Abstract!LRemove, Abstract!InvalidOp, InvalidOp, items
<1>4. QED
  BY <1>2, <1>3 DEF Remove

LEMMA IndexOfImplements ==
    ASSUME ListInv, NEW e \in Elements, IndexOf(e)
    PROVE  Abstract!LIndexOf(e)
<1>1. items' = items
  BY DEF IndexOf, items
<1>2. ASSUME NEW i \in 0..(size - 1), FoundAt(i, e), reply' = At(i)
      PROVE  Abstract!LIndexOf(e)
  <2>1. Abstract!FirstAt(i + 1, e)
    BY <1>2, FoundIsFirst
  <2>2. i + 1 \in 1..Len(items) /\ i = (i + 1) - 1
    BY ItemsAreSequence DEF ListInv, TypeOK
  <2>3. QED
    BY <1>1, <1>2, <2>1, <2>2 DEF Abstract!LIndexOf, Abstract!At, At
<1>3. ASSUME ~IsListed(e), reply' = InvalidOp PROVE Abstract!LIndexOf(e)
  BY <1>1, <1>3, ListedIsListed DEF Abstract!LIndexOf, Abstract!InvalidOp, InvalidOp
<1>4. QED
  BY <1>2, <1>3 DEF IndexOf

LEMMA ContainsImplements ==
    ASSUME ListInv, NEW e \in Elements, Contains(e)
    PROVE  Abstract!LContains(e)
<1>1. IsListed(e) \in BOOLEAN /\ Abstract!Listed(e) \in BOOLEAN
  BY DEF IsListed, Abstract!Listed
<1>2. IsListed(e) = Abstract!Listed(e)
  BY <1>1, ListedIsListed
<1>3. items' = items /\ reply' = Found(IsListed(e))
  BY DEF Contains, items
<1>4. QED
  BY <1>2, <1>3 DEF Abstract!LContains, Abstract!Found, Found

LEMMA GetImplements ==
    ASSUME ListInv, NEW i \in 0..(capacity - 1), Get(i)
    PROVE  Abstract!LGet(i)
<1>1. /\ size \in Nat /\ capacity \in Nat /\ size <= capacity
      /\ Len(items) = size /\ items' = items
  BY ItemsAreSequence DEF ListInv, TypeOK, Get, items
<1>2. CASE i < size
  <2>1. i + 1 \in 1..size /\ items[i + 1] = memory[i]
    BY <1>1, <1>2, ItemsAreSequence
  <2>2. reply' = Got(memory[i])
    BY <1>1, <1>2 DEF Get, Slot
  <2>3. QED
    BY <1>1, <1>2, <2>1, <2>2 DEF Abstract!LGet, Abstract!Got, Got
<1>3. CASE i >= size
  <2>1. CASE KrakenDebug
    BY <1>1, <1>3, <2>1 DEF Get, Abstract!LGet, Abstract!InvalidArg, InvalidArg
  <2>2. CASE ~KrakenDebug
    <3>1. reply'.status = "KRAKEN_OK"
      BY <2>2 DEF Get, Got
    <3>2. QED
      BY <1>1, <1>3, <2>2, <3>1 DEF Abstract!LGet
  <2>3. QED
    BY <2>1, <2>2
<1>4. QED
  BY <1>1, <1>2, <1>3

LEMMA SetImplements ==
    ASSUME ListInv, NEW i \in 0..(capacity - 1), NEW e \in Elements, Set(i, e)
    PROVE  Abstract!LSet(i, e)
<1>1. /\ size \in Nat /\ capacity \in Nat /\ size <= capacity
      /\ Len(items) = size /\ size' = size
      /\ memory \in [0..(capacity - 1) -> Contents]
  BY ItemsAreSequence DEF ListInv, TypeOK, Set
<1>2. CASE i < size
  <2>1. memory' = [memory EXCEPT ![i] = e] /\ reply' = Done
    BY <1>1, <1>2 DEF Set
  <2>2. ASSUME NEW k \in 1..size
        PROVE  memory'[k - 1] = IF k = i + 1 THEN e ELSE items[k]
    <3>1. k - 1 \in 0..(capacity - 1) /\ (k = i + 1 <=> k - 1 = i)
      BY <1>1
    <3> QED
      BY <1>1, <2>1, <3>1, ItemsAreSequence
  <2>3. items' = [items EXCEPT ![i + 1] = e]
    <3>1. items = [k \in 1..size |-> items[k]]
      BY ItemsAreSequence DEF items
    <3>2. items' = [k \in 1..size |-> memory'[k - 1]]
      BY <1>1 DEF items
    <3>3. QED
      BY <1>1, <1>2, <2>2, <3>1, <3>2
  <2>4. QED
    BY <1>1, <1>2, <2>1, <2>3 DEF Abstract!LSet, Abstract!Done, Done
<1>3. CASE i >= size
  <2>1. items' = items
    <3>1. ASSUME NEW k \in 1..size PROVE memory'[k - 1] = memory[k - 1]
      <4>1. k - 1 \in 0..(capacity - 1) /\ k - 1 # i
        BY <1>1, <1>3
      <4> QED
        BY <1>1, <4>1 DEF Set
    <3> QED
      BY <1>1, <3>1 DEF items
  <2>2. QED
    BY <1>1, <1>3, <2>1
       DEF Set, Abstract!LSet, Abstract!Done, Abstract!InvalidArg, Done, InvalidArg
<1>4. QED
  BY <1>1, <1>2, <1>3

LEMMA ClearImplements ==
    ASSUME ListInv, Clear
    PROVE  Abstract!LClear
<1>1. items' = [k \in 1..0 |-> memory'[k - 1]]
  BY DEF Clear, items
<1>2. items' = << >>
  BY <1>1
<1>3. QED
  BY <1>2 DEF Clear, Abstract!LClear, Abstract!Done, Done

\* Every call on the array list is the call of the same name on the abstract
\* list, with the same reply (kraken_array_list.c 19-156).
THEOREM ArrayListImplementsList == Spec => ImplementsList
<1>1. Init => Abstract!LInit
  <2> SUFFICES ASSUME Init PROVE Abstract!LInit
    OBVIOUS
  <2>1. items = [k \in 1..0 |-> memory[k - 1]]
    BY DEF Init, items
  <2>2. items = << >>
    BY <2>1
  <2>3. QED
    BY <2>2 DEF Init, Abstract!LInit, Abstract!Done, Done
<1>2. ListInv /\ ListInv' /\ [Next]_vars => [Abstract!LNext]_(Abstract!listVars)
  <2> SUFFICES ASSUME ListInv, ListInv', [Next]_vars
               PROVE  Abstract!LNext \/ UNCHANGED Abstract!listVars
    OBVIOUS
  <2>0. \A i \in 0..(capacity - 1) : i \in 0..(InitialCapacity + 2 * MaxSize)
    BY CapacityAssumption, MaxSizeAssumption DEF ListInv, TypeOK, CapacityBounded
  <2>1. ASSUME NEW e \in Elements, Add(e) PROVE Abstract!LNext
    BY <2>1, AddImplements DEF Abstract!LNext
  <2>2. ASSUME NEW e \in Elements, Remove(e) PROVE Abstract!LNext
    BY <2>2, RemoveImplements DEF Abstract!LNext
  <2>3. ASSUME NEW e \in Elements, IndexOf(e) PROVE Abstract!LNext
    BY <2>3, IndexOfImplements DEF Abstract!LNext
  <2>4. ASSUME NEW e \in Elements, Contains(e) PROVE Abstract!LNext
    BY <2>4, ContainsImplements DEF Abstract!LNext
  <2>5. ASSUME NEW i \in 0..(capacity - 1), Get(i) PROVE Abstract!LNext
    BY <2>0, <2>5, GetImplements DEF Abstract!LNext
  <2>6. ASSUME NEW i \in 0..(capacity - 1), NEW e \in Elements, Set(i, e)
        PROVE  Abstract!LNext
    BY <2>0, <2>6, SetImplements DEF Abstract!LNext
  <2>7. CASE Clear
    BY <2>7, ClearImplements DEF Abstract!LNext
  <2>8. CASE UNCHANGED vars
    BY <2>8 DEF vars, items, Abstract!listVars
  <2>9. QED
    BY <2>1, <2>2, <2>3, <2>4, <2>5, <2>6, <2>7, <2>8 DEF Next
<1>3. QED
  BY <1>1, <1>2, ListInvInit, ListInvStep, PTL
     DEF Spec, ImplementsList, Abstract!LSpec
=============================================================================
