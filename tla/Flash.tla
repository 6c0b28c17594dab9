------------------------------- MODULE Flash -------------------------------
(***************************************************************************)
(* libkraken/src/kraken_flash.c: threads read, write and clear the flash   *)
(* memory through one descriptor.  A transfer is two system calls, lseek   *)
(* and read or write, and the descriptor's offset is shared.               *)
(***************************************************************************)
EXTENDS Integers, FiniteSets

CONSTANTS Threads,
          Size,      \* handle->size: cells of the flash
          Requests,  \* sizes and offsets applications ask for
          Builds,    \* SUBSET BOOLEAN: whether KRAKEN_DEBUG may be defined
          MaxCalls   \* bound

ASSUME FlashAssumption ==
    /\ Size \in Nat \ {0} /\ MaxCalls \in Nat
    /\ Requests \subseteq [size : Nat, at : Nat]
    /\ Builds \subseteq BOOLEAN

VARIABLES debug,   \* KRAKEN_DEBUG of the build
          offset,  \* of the open file
          data,    \* the cells
          call,    \* per thread: its last or current call
          calls,   \* how many calls there were
          quiet,   \* history: no other call overlapped the thread's
          asked    \* history: offsets the file may be at, since no call was in progress

vars == <<debug, offset, data, call, calls, quiet, asked>>

Cells   == 0..(Size - 1)
Erased  == "erased"
Replies == {"OK", "EOF", "INVALID_OP", "INVALID_ARG"}
NoCall  == [pc |-> "idle", op |-> "read", size |-> 0, at |-> 0, from |-> 0, count |-> 0,
            reply |-> "OK"]

Init ==
    /\ debug \in Builds
    /\ offset = 0
    /\ data = [c \in Cells |-> "old"]
    /\ call = [t \in Threads |-> NoCall]
    /\ calls = 0
    /\ quiet = [t \in Threads |-> TRUE]
    /\ asked = {0}

Others(t) == {u \in Threads \ {t} : call[u].pc # "idle"}
Lesser(a, b) == IF a < b THEN a ELSE b

\* The argument checks of a debug build.
Accepted(r) == debug => r.size > 0 /\ r.size <= Size /\ r.at < Size

\* kraken_flash_read and kraken_flash_write, up to lseek.
CallTransfer(t, op, r) ==
    LET begun == [NoCall EXCEPT !.op = op, !.size = r.size, !.at = r.at]
    IN  /\ call[t].pc = "idle" /\ calls < MaxCalls
        /\ calls' = calls + 1
        /\ call' = [call EXCEPT ![t] = IF Accepted(r)
                       THEN [begun EXCEPT !.pc = "seek"]
                       ELSE [begun EXCEPT !.reply = "INVALID_ARG"]]
        /\ quiet' = [u \in Threads |-> IF u = t THEN Others(t) = {}
                                                ELSE quiet[u] /\ call[u].pc = "idle"]
        /\ asked' = (IF Others(t) = {} THEN {offset} ELSE asked) \cup {r.at}
        /\ UNCHANGED <<debug, offset, data>>

\* Mutant: the offset counts from where the file is.
MutantSeekForward(t) ==
    /\ call[t].pc = "seek"
    /\ offset' = IF offset + call[t].at <= Size THEN offset + call[t].at ELSE offset
    /\ call' = [call EXCEPT ![t].pc = "transfer"]
    /\ UNCHANGED <<debug, data, calls, quiet, asked>>

\* lseek beyond the end fails and moves nothing; its result is not looked at.
Seek(t) ==
    /\ call[t].pc = "seek"
    /\ offset' = IF call[t].at <= Size THEN call[t].at ELSE offset
    /\ call' = [call EXCEPT ![t].pc = "transfer"]
    /\ UNCHANGED <<debug, data, calls, quiet, asked>>

\* The driver: a transfer ends with the flash; a write there has no space left.
\* Cells that are not erased do not take the new value.
Count(t) == Lesser(call[t].size, Size - offset)

Written(t) ==
    [c \in Cells |-> IF c \notin offset..(offset + Count(t) - 1) THEN data[c]
                     ELSE IF data[c] = Erased THEN "new" ELSE "mixed"]

\* read or write, and the reply for its result.
Transfer(t) ==
    /\ call[t].pc = "transfer"
    /\ LET full == call[t].op = "write" /\ offset = Size
           n    == IF full THEN 0 ELSE Count(t)
       IN  /\ offset' = offset + n
           /\ data' = IF call[t].op = "write" THEN Written(t) ELSE data
           /\ call' = [call EXCEPT ![t].pc = "idle", ![t].from = offset, ![t].count = n,
                          ![t].reply = IF full THEN "INVALID_OP" ELSE IF n = 0 THEN "EOF" ELSE "OK"]
           /\ asked' = asked \cup {offset + n}
    /\ UNCHANGED <<debug, calls, quiet>>

\* The device fails.
TransferFails(t) ==
    /\ call[t].pc = "transfer"
    /\ call' = [call EXCEPT ![t].pc = "idle", ![t].reply = "INVALID_OP"]
    /\ UNCHANGED <<debug, offset, data, calls, quiet, asked>>

\* kraken_flash_clear: one ioctl.
Clear(t) ==
    /\ call[t].pc = "idle" /\ calls < MaxCalls
    /\ calls' = calls + 1
    /\ data' = [c \in Cells |-> Erased]
    /\ UNCHANGED <<debug, offset, call, quiet, asked>>

Next ==
    \E t \in Threads :
        \/ \E op \in {"read", "write"}, r \in Requests : CallTransfer(t, op, r)
        \/ Seek(t) \/ Transfer(t) \/ TransferFails(t) \/ Clear(t)

Spec == Init /\ [][Next]_vars

-----------------------------------------------------------------------------
TypeOK ==
    /\ debug \in Builds
    /\ offset \in 0..Size
    /\ data \in [Cells -> {Erased, "old", "new", "mixed"}]
    /\ calls \in 0..MaxCalls
    /\ \A t \in Threads : /\ call[t].pc \in {"idle", "seek", "transfer"}
                          /\ call[t].from \in 0..Size /\ call[t].count \in 0..Size
                          /\ call[t].reply \in Replies

\* A transfer that no other call overlapped, and that began inside the flash,
\* was of its own range, cut at the end of the flash, and its reply is OK for a
\* range that is not empty (kraken_flash.c 67-96).
LoneTransfersAreExact ==
    \A t \in Threads :
        LET c == call[t]
        IN  (c.pc = "idle" /\ quiet[t] /\ c.reply \in {"OK", "EOF"} /\ c.size > 0 /\ c.at < Size) =>
                c.reply = "OK" /\ c.from = c.at /\ c.count = Lesser(c.size, Size - c.at)

\* Transfers that overlap may be of each other's ranges, but of no other: each
\* begins where one of the calls asked, or where the file had been left by an
\* earlier one, and changes no cell beyond its own size from there.
TransfersStayWhereAsked ==
    [][\A t \in Threads :
          (call[t].pc = "transfer" /\ call'[t].pc = "idle" /\ call'[t].reply # "INVALID_OP") =>
              \E o \in asked :
                  /\ call'[t].from = o
                  /\ \A c \in Cells : data'[c] # data[c] => c \in o..(o + call[t].size - 1)]_vars
=============================================================================
