---------------------------- MODULE AbstractList ----------------------------
(***************************************************************************)
(* What kraken_array_list.h promises its callers: a growing list that      *)
(* keeps insertion order, may hold an element more than once, removes the  *)
(* first occurrence only, and answers every call from the listed elements. *)
(* Memory, capacity and the layout of the elements are not visible here.   *)
(***************************************************************************)
EXTENDS Naturals, Sequences

CONSTANTS Elements,   \* what callers put in: driver or clock handles
          Positions,  \* the indexes callers pass, from 0 on
          CheckBounds \* TRUE: an index past the end is answered with an error

VARIABLES items,      \* the listed elements, oldest first
          reply       \* the outcome of the last call

listVars == <<items, reply>>

Got(value) == [status |-> "KRAKEN_OK", value |-> value]
At(index)  == [status |-> "KRAKEN_OK", index |-> index]
Found(yes) == [status |-> "KRAKEN_OK", found |-> yes]
InvalidOp  == [status |-> "KRAKEN_ERR_INVALID_OP"]
InvalidArg == [status |-> "KRAKEN_ERR_INVALID_ARG"]
Done       == [status |-> "KRAKEN_OK"]

Listed(e) == \E k \in 1..Len(items) : items[k] = e

\* k is the position of the first e.
FirstAt(k, e) ==
    /\ k \in 1..Len(items)
    /\ items[k] = e
    /\ \A j \in 1..(k - 1) : items[j] # e

LInit == items = <<>> /\ reply = Done

LAdd(e) ==
    /\ items' = Append(items, e)
    /\ reply' = Done

LRemove(e) ==
    \/ \E k \in 1..Len(items) :
          /\ FirstAt(k, e)
          /\ items' = [j \in 1..(Len(items) - 1) |->
                          IF j < k THEN items[j] ELSE items[j + 1]]
          /\ reply' = Done
    \/ ~Listed(e) /\ reply' = InvalidOp /\ UNCHANGED items

\* Positions are 0-based in the calls, as in the code.
LGet(i) ==
    /\ UNCHANGED items
    /\ \/ i < Len(items) /\ reply' = Got(items[i + 1])
       \/ i >= Len(items) /\ CheckBounds /\ reply' = InvalidArg
       \/ i >= Len(items) /\ ~CheckBounds /\ reply'.status = "KRAKEN_OK"

LIndexOf(e) ==
    /\ UNCHANGED items
    /\ \/ \E k \in 1..Len(items) : FirstAt(k, e) /\ reply' = At(k - 1)
       \/ ~Listed(e) /\ reply' = InvalidOp

LSet(i, e) ==
    \/ i < Len(items) /\ items' = [items EXCEPT ![i + 1] = e] /\ reply' = Done
    \/ i >= Len(items) /\ CheckBounds /\ reply' = InvalidArg /\ UNCHANGED items
    \/ i >= Len(items) /\ ~CheckBounds /\ reply' = Done /\ UNCHANGED items

LContains(e) ==
    /\ UNCHANGED items
    /\ reply' = Found(Listed(e))

LClear == items' = <<>> /\ reply' = Done

LNext ==
    \/ \E e \in Elements : LAdd(e) \/ LRemove(e) \/ LIndexOf(e) \/ LContains(e)
    \/ \E i \in Positions : LGet(i)
    \/ \E i \in Positions, e \in Elements : LSet(i, e)
    \/ LClear

LSpec == LInit /\ [][LNext]_listVars
=============================================================================
