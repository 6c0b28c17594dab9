---------------------------- MODULE FlashProofs -----------------------------
(***************************************************************************)
(* What concurrent transfers of kraken_flash.c can do to each other, for   *)
(* any threads, sizes and requests and both builds.  A transfer happens    *)
(* where the file is; the invariant says that while calls are in progress  *)
(* this is an offset one of them asked for, or one an earlier call left.   *)
(***************************************************************************)
EXTENDS Flash, TLAPS

CallType == [pc : {"idle", "seek", "transfer"}, op : {"read", "write"}, size : Nat, at : Nat,
             from : 0..Size, count : 0..Size, reply : Replies]

Busy(t) == call[t].pc # "idle"

FlashInv ==
    /\ TypeOK
    /\ call \in [Threads -> CallType]
    /\ \A t \in Threads : Busy(t) => offset \in asked /\ call[t].at \in asked

-----------------------------------------------------------------------------
LEMMA CountIsBounded ==
    ASSUME FlashInv, NEW t \in Threads
    PROVE  Count(t) \in Nat /\ Count(t) <= call[t].size /\ offset + Count(t) <= Size
BY FlashAssumption DEF FlashInv, TypeOK, CallType, Count, Lesser

\* A write changes cells from the offset on, no more than it has.
LEMMA WrittenIsBounded ==
    ASSUME FlashInv, NEW t \in Threads
    PROVE  /\ Written(t) \in [Cells -> {Erased, "old", "new", "mixed"}]
           /\ \A c \in Cells : Written(t)[c] # data[c] => c \in offset..(offset + Count(t) - 1)
BY DEF FlashInv, TypeOK, Written

\* A step of one thread's call.
LEMMA CallChanges ==
    ASSUME FlashInv, NEW t \in Threads, NEW c \in CallType, call' = [call EXCEPT ![t] = c]
    PROVE  /\ call' \in [Threads -> CallType]
           /\ \A u \in Threads : call'[u] = IF u = t THEN c ELSE call[u]
BY DEF FlashInv

LEMMA CallTransferKeeps ==
    ASSUME FlashInv, NEW t \in Threads, NEW op \in {"read", "write"}, NEW r \in Requests,
           CallTransfer(t, op, r)
    PROVE  FlashInv'
<1> DEFINE begun == [NoCall EXCEPT !.op = op, !.size = r.size, !.at = r.at]
           c == IF Accepted(r) THEN [begun EXCEPT !.pc = "seek"]
                               ELSE [begun EXCEPT !.reply = "INVALID_ARG"]
<1>1. r.size \in Nat /\ r.at \in Nat /\ Size \in Nat
  BY FlashAssumption
<1>2. c \in CallType /\ c.at = r.at
  <2>1. NoCall \in CallType
    BY <1>1 DEF NoCall, CallType, Replies
  <2>2. begun \in CallType /\ begun.at = r.at
    BY <1>1, <2>1 DEF CallType
  <2> HIDE DEF begun
  <2>3. QED
    BY <2>2 DEF CallType, Replies
<1>3. call' = [call EXCEPT ![t] = c] /\ calls' \in 0..MaxCalls /\ UNCHANGED <<debug, offset, data>>
  BY FlashAssumption DEF CallTransfer, FlashInv, TypeOK
<1>4. /\ call' \in [Threads -> CallType]
      /\ \A u \in Threads : call'[u] = IF u = t THEN c ELSE call[u]
  <2> HIDE DEF c
  <2>1. QED
    BY <1>2, <1>3, CallChanges
<1> HIDE DEF c
<1>5. TypeOK'
  BY <1>3, <1>4 DEF FlashInv, TypeOK, CallType
<1>6. ASSUME NEW u \in Threads, Busy(u)' PROVE offset' \in asked' /\ call'[u].at \in asked'
  <2>1. asked' = (IF Others(t) = {} THEN {offset} ELSE asked) \cup {r.at}
    BY DEF CallTransfer
  <2>2. CASE Others(t) = {}
    <3>1. u = t
      BY <1>4, <1>6, <2>2 DEF Others, Busy
    <3>2. QED
      BY <1>2, <1>3, <1>4, <2>1, <2>2, <3>1
  <2>3. CASE Others(t) # {}
    <3>1. PICK v \in Threads : Busy(v)
      BY <2>3 DEF Others, Busy
    <3>2. QED
      BY <1>2, <1>3, <1>4, <1>6, <2>1, <2>3, <3>1 DEF FlashInv, Busy
  <2>4. QED
    BY <2>2, <2>3
<1>7. QED
  BY <1>4, <1>5, <1>6 DEF FlashInv

LEMMA SeekKeeps ==
    ASSUME FlashInv, NEW t \in Threads, Seek(t)
    PROVE  FlashInv'
<1> DEFINE c == [call[t] EXCEPT !.pc = "transfer"]
<1>1. c \in CallType /\ c.at = call[t].at /\ call[t].at \in Nat /\ Busy(t)
  BY DEF FlashInv, CallType, Seek, Busy
<1>2. call' = [call EXCEPT ![t] = c] /\ offset' \in {offset, call[t].at} /\ offset' \in 0..Size
      /\ UNCHANGED <<debug, data, calls, asked>>
  BY <1>1, FlashAssumption DEF Seek, FlashInv, TypeOK
<1>3. /\ call' \in [Threads -> CallType]
      /\ \A u \in Threads : call'[u] = IF u = t THEN c ELSE call[u]
  <2> HIDE DEF c
  <2>1. QED
    BY <1>1, <1>2, CallChanges
<1> HIDE DEF c
<1>4. TypeOK'
  BY <1>2, <1>3 DEF FlashInv, TypeOK, CallType
<1>5. \A u \in Threads : Busy(u)' => offset' \in asked' /\ call'[u].at \in asked'
  BY <1>1, <1>2, <1>3 DEF FlashInv, Busy
<1>6. QED
  BY <1>3, <1>4, <1>5 DEF FlashInv

\* What a transfer does, with the locals it leaves.
LEMMA TransferFacts ==
    ASSUME FlashInv, NEW t \in Threads, Transfer(t)
    PROVE  \E c \in CallType :
              /\ call' = [call EXCEPT ![t] = c]
              /\ c.pc = "idle" /\ c.from = offset
              /\ offset' \in 0..Size /\ asked' = asked \cup {offset'}
              /\ data' \in {data, Written(t)}
              /\ UNCHANGED <<debug, calls>>
<1> DEFINE full == call[t].op = "write" /\ offset = Size
           n == IF full THEN 0 ELSE Count(t)
           reply == IF full THEN "INVALID_OP" ELSE IF n = 0 THEN "EOF" ELSE "OK"
           c == [call[t] EXCEPT !.pc = "idle", !.from = offset, !.count = n, !.reply = reply]
<1>1. n \in 0..Size /\ offset + n \in 0..Size /\ offset \in 0..Size /\ reply \in Replies
  BY CountIsBounded, FlashAssumption DEF FlashInv, TypeOK, Replies
<1>2. call[t] \in CallType /\ t \in DOMAIN call
  BY DEF FlashInv
<1>3. c \in CallType /\ c.pc = "idle" /\ c.from = offset
  <2> HIDE DEF n, reply
  <2>1. QED
    BY <1>1, <1>2 DEF CallType
<1>4. /\ offset' = offset + n /\ asked' = asked \cup {offset + n} /\ UNCHANGED <<debug, calls>>
      /\ data' \in {data, Written(t)}
  BY DEF Transfer
<1>5. call' = [call EXCEPT ![t] = c]
  BY <1>2 DEF Transfer
<1>6. QED
  BY <1>1, <1>3, <1>4, <1>5

LEMMA TransferKeeps ==
    ASSUME FlashInv, NEW t \in Threads, Transfer(t)
    PROVE  FlashInv'
<1>1. PICK c \in CallType :
         /\ call' = [call EXCEPT ![t] = c]
         /\ c.pc = "idle" /\ c.from = offset
         /\ offset' \in 0..Size /\ asked' = asked \cup {offset'}
         /\ data' \in {data, Written(t)}
         /\ UNCHANGED <<debug, calls>>
  BY TransferFacts
<1>2. /\ call' \in [Threads -> CallType]
      /\ \A u \in Threads : call'[u] = IF u = t THEN c ELSE call[u]
  BY <1>1, CallChanges
<1>3. TypeOK'
  BY <1>1, <1>2, WrittenIsBounded DEF FlashInv, TypeOK, CallType
<1>4. \A u \in Threads : Busy(u)' => offset' \in asked' /\ call'[u].at \in asked'
  BY <1>1, <1>2 DEF FlashInv, Busy
<1>5. QED
  BY <1>2, <1>3, <1>4 DEF FlashInv

LEMMA TransferFailsKeeps ==
    ASSUME FlashInv, NEW t \in Threads, TransferFails(t)
    PROVE  FlashInv'
<1> DEFINE c == [call[t] EXCEPT !.pc = "idle", !.reply = "INVALID_OP"]
<1>1. c \in CallType /\ c.pc = "idle"
  BY DEF FlashInv, CallType, Replies
<1>2. call' = [call EXCEPT ![t] = c] /\ UNCHANGED <<debug, offset, data, calls, asked>>
  BY DEF TransferFails, FlashInv
<1>3. /\ call' \in [Threads -> CallType]
      /\ \A u \in Threads : call'[u] = IF u = t THEN c ELSE call[u]
  <2> HIDE DEF c
  <2>1. QED
    BY <1>1, <1>2, CallChanges
<1> HIDE DEF c
<1>4. QED
  BY <1>1, <1>2, <1>3 DEF FlashInv, TypeOK, CallType, Busy

LEMMA ClearKeeps ==
    ASSUME FlashInv, NEW t \in Threads, Clear(t)
    PROVE  FlashInv'
BY FlashAssumption DEF FlashInv, TypeOK, Clear, Busy

-----------------------------------------------------------------------------
LEMMA FlashInvHolds == Spec => []FlashInv
<1>1. Init => FlashInv
  BY FlashAssumption DEF Init, FlashInv, TypeOK, CallType, NoCall, Replies, Busy
<1>2. FlashInv /\ [Next]_vars => FlashInv'
  <2> SUFFICES ASSUME FlashInv, [Next]_vars PROVE FlashInv'
    OBVIOUS
  <2>1. CASE UNCHANGED vars
    BY <2>1 DEF vars, FlashInv, TypeOK, Busy
  <2>2. CASE Next
    BY <2>2, CallTransferKeeps, SeekKeeps, TransferKeeps, TransferFailsKeeps, ClearKeeps DEF Next
  <2>3. QED
    BY <2>1, <2>2
<1>3. QED
  BY <1>1, <1>2, PTL DEF Spec

Stays(t) ==
    (call[t].pc = "transfer" /\ call'[t].pc = "idle" /\ call'[t].reply # "INVALID_OP") =>
        \E o \in asked :
            /\ call'[t].from = o
            /\ \A c \in Cells : data'[c] # data[c] => c \in o..(o + call[t].size - 1)

LEMMA OthersStay ==
    ASSUME FlashInv, NEW t \in Threads, NEW u \in Threads, u # t, NEW c,
           call' = [call EXCEPT ![u] = c]
    PROVE  Stays(t)
BY DEF FlashInv, Stays

LEMMA OwnTransferStays ==
    ASSUME FlashInv, NEW t \in Threads, Transfer(t)
    PROVE  Stays(t)
<1>1. PICK c \in CallType : /\ call' = [call EXCEPT ![t] = c] /\ c.from = offset
                            /\ data' \in {data, Written(t)}
  BY TransferFacts
<1>2. call'[t].from = offset
  BY <1>1 DEF FlashInv
<1>3. offset \in asked /\ offset \in Int /\ call[t].size \in Nat
  <2>1. Busy(t) /\ call[t] \in CallType
    BY DEF Busy, Transfer, FlashInv
  <2>2. QED
    BY <2>1, FlashAssumption DEF FlashInv, TypeOK, CallType
<1>4. ASSUME NEW x \in Cells, data'[x] # data[x]
      PROVE  x \in offset..(offset + call[t].size - 1)
  <2>1. x \in offset..(offset + Count(t) - 1)
    BY <1>1, <1>4, WrittenIsBounded
  <2>2. QED
    BY <1>3, <2>1, CountIsBounded
<1>5. QED
  BY <1>2, <1>3, <1>4 DEF Stays

LEMMA StepsStay ==
    ASSUME FlashInv, NEW t \in Threads, Next
    PROVE  Stays(t)
<1>1. PICK u \in Threads :
        \/ \E op \in {"read", "write"}, r \in Requests : CallTransfer(u, op, r)
        \/ Seek(u) \/ Transfer(u) \/ TransferFails(u) \/ Clear(u)
  BY DEF Next
<1>2. CASE \E op \in {"read", "write"}, r \in Requests : CallTransfer(u, op, r)
  <2>1. call[u].pc = "idle" /\ \E c : call' = [call EXCEPT ![u] = c]
    BY <1>2 DEF CallTransfer
  <2>2. CASE u = t
    BY <2>1, <2>2 DEF Stays
  <2>3. QED
    BY <2>1, <2>2, OthersStay
<1>3. CASE Seek(u)
  <2>1. call[u].pc = "seek" /\ \E c : call' = [call EXCEPT ![u] = c]
    BY <1>3 DEF Seek
  <2>2. CASE u = t
    BY <2>1, <2>2 DEF Stays
  <2>3. QED
    BY <2>1, <2>2, OthersStay
<1>4. CASE Transfer(u)
  BY <1>4, TransferFacts, OwnTransferStays, OthersStay
<1>5. CASE TransferFails(u)
  <2> DEFINE c == [call[u] EXCEPT !.pc = "idle", !.reply = "INVALID_OP"]
  <2>1. call' = [call EXCEPT ![u] = c] /\ c.reply = "INVALID_OP"
    BY <1>5 DEF TransferFails, FlashInv, CallType
  <2> HIDE DEF c
  <2>2. CASE u = t
    BY <2>1, <2>2 DEF Stays, FlashInv
  <2>3. QED
    BY <2>1, <2>2, OthersStay
<1>6. CASE Clear(u)
  BY <1>6 DEF Clear, Stays
<1>7. QED
  BY <1>1, <1>2, <1>3, <1>4, <1>5, <1>6

\* However the calls of any number of threads interleave, a transfer begins
\* where one of the overlapping calls asked or an earlier one had left the file,
\* and changes no cell beyond its own size from there (kraken_flash.c 67-106).
THEOREM FlashTransfersStay == Spec => TransfersStayWhereAsked
<1>1. FlashInv /\ [Next]_vars => [\A t \in Threads : Stays(t)]_vars
  BY StepsStay
<1>2. QED
  BY <1>1, FlashInvHolds, PTL DEF Spec, TransfersStayWhereAsked, Stays

-----------------------------------------------------------------------------
\* A transfer's result, of a call c.
Exact(c) ==
    (c.pc = "idle" /\ c.reply \in {"OK", "EOF"} /\ c.size > 0 /\ c.at < Size) =>
        c.reply = "OK" /\ c.from = c.at /\ c.count = Lesser(c.size, Size - c.at)

\* While a call that none has overlapped so far is in progress, no other is, and
\* from its lseek on the file is where it asked.
Alone(t) ==
    quiet[t] =>
        /\ Busy(t) => Others(t) = {}
        /\ (call[t].pc = "transfer" /\ call[t].at <= Size) => offset = call[t].at
        /\ Exact(call[t])

LoneInv == FlashInv /\ \A t \in Threads : Alone(t)

\* A step within one thread's call ends the quiet of no other: it is not quiet,
\* or not in progress.
LEMMA OthersAlone ==
    ASSUME LoneInv, NEW t \in Threads, Busy(t), NEW u \in Threads, u # t, NEW c,
           call' = [call EXCEPT ![t] = c], UNCHANGED quiet
    PROVE  Alone(u)'
<1>1. call'[u] = call[u] /\ (quiet[u] => ~Busy(u))
  BY DEF LoneInv, FlashInv, Alone, Others, Busy
<1>2. QED
  BY <1>1 DEF LoneInv, Alone, Busy, Exact

\* Nor does it bring another call into progress.
LEMMA StillNoOthers ==
    ASSUME FlashInv, NEW t \in Threads, NEW c, call' = [call EXCEPT ![t] = c], Others(t) = {}
    PROVE  Others(t)' = {}
BY DEF FlashInv, Others

LEMMA CallTransferAlone ==
    ASSUME LoneInv, NEW t \in Threads, NEW op \in {"read", "write"}, NEW r \in Requests,
           CallTransfer(t, op, r), NEW u \in Threads
    PROVE  Alone(u)'
<1> DEFINE begun == [NoCall EXCEPT !.op = op, !.size = r.size, !.at = r.at]
           c == IF Accepted(r) THEN [begun EXCEPT !.pc = "seek"]
                               ELSE [begun EXCEPT !.reply = "INVALID_ARG"]
<1>1. call' = [call EXCEPT ![t] = c]
  BY DEF CallTransfer
<1>2. c.pc = "seek" \/ (c.pc = "idle" /\ c.reply = "INVALID_ARG")
  BY DEF NoCall
<1> HIDE DEF c
<1>3. quiet'[u] = IF u = t THEN Others(t) = {} ELSE quiet[u] /\ ~Busy(u)
  BY DEF CallTransfer, Busy
<1>4. call'[u] = IF u = t THEN c ELSE call[u]
  BY <1>1 DEF LoneInv, FlashInv
<1>5. CASE u = t
  <2>1. quiet'[t] => Others(t)' = {}
    BY <1>1, <1>3, <1>5, StillNoOthers DEF LoneInv
  <2>2. QED
    BY <1>2, <1>4, <1>5, <2>1 DEF Alone, Exact
<1>6. CASE u # t
  BY <1>3, <1>4, <1>6 DEF LoneInv, Alone, Busy, Exact
<1>7. QED
  BY <1>5, <1>6

LEMMA SeekAlone ==
    ASSUME LoneInv, NEW t \in Threads, Seek(t), NEW u \in Threads
    PROVE  Alone(u)'
<1> DEFINE c == [call[t] EXCEPT !.pc = "transfer"]
<1>1. call' = [call EXCEPT ![t] = c] /\ UNCHANGED quiet /\ Busy(t)
  BY DEF Seek, Busy
<1>2. c.pc = "transfer" /\ c.at = call[t].at
  BY DEF LoneInv, FlashInv, CallType
<1> HIDE DEF c
<1>3. call'[t] = c
  BY <1>1 DEF LoneInv, FlashInv
<1>4. quiet'[t] => Others(t)' = {}
  BY <1>1, StillNoOthers DEF LoneInv, Alone
<1>5. c.at <= Size => offset' = c.at
  BY <1>2 DEF Seek
<1>6. Alone(t)'
  BY <1>2, <1>3, <1>4, <1>5 DEF Alone, Exact
<1>7. QED
  BY <1>1, <1>6, OthersAlone

\* The transfer of a lone call that began inside the flash is of its own range.
LEMMA TransferIsExact ==
    ASSUME LoneInv, NEW t \in Threads, Transfer(t), quiet[t]
    PROVE  Exact(call'[t])
<1> DEFINE full == call[t].op = "write" /\ offset = Size
           n == IF full THEN 0 ELSE Count(t)
           reply == IF full THEN "INVALID_OP" ELSE IF n = 0 THEN "EOF" ELSE "OK"
<1>1. call[t] \in CallType /\ call[t].pc = "transfer" /\ Size \in Nat
  BY FlashAssumption DEF LoneInv, FlashInv, Transfer
<1>2. call'[t] = [call[t] EXCEPT !.pc = "idle", !.from = offset, !.count = n, !.reply = reply]
  BY DEF Transfer, LoneInv, FlashInv
<1> HIDE DEF n, reply
<1>3. /\ call'[t].size = call[t].size /\ call'[t].at = call[t].at /\ call'[t].from = offset
      /\ call'[t].count = n /\ call'[t].reply = reply
  BY <1>1, <1>2 DEF CallType
<1>4. ASSUME call[t].size > 0, call[t].at < Size
      PROVE  offset = call[t].at /\ n = Lesser(call[t].size, Size - call[t].at) /\ reply = "OK"
  <2>1. offset = call[t].at /\ offset \in Nat /\ offset < Size /\ call[t].size \in Nat
    BY <1>1, <1>4 DEF LoneInv, Alone, CallType
  <2>2. n = Lesser(call[t].size, Size - call[t].at)
    BY <1>1, <2>1 DEF n, Count
  <2>3. n # 0 /\ ~full
    BY <1>1, <1>4, <2>1, <2>2 DEF Lesser
  <2>4. QED
    BY <2>1, <2>2, <2>3 DEF reply
<1>5. QED
  BY <1>3, <1>4 DEF Exact

LEMMA TransferAlone ==
    ASSUME LoneInv, NEW t \in Threads, Transfer(t), NEW u \in Threads
    PROVE  Alone(u)'
<1>1. PICK c \in CallType : call' = [call EXCEPT ![t] = c] /\ c.pc = "idle"
  BY TransferFacts DEF LoneInv
<1>2. Busy(t) /\ UNCHANGED quiet
  BY DEF Transfer, Busy
<1>3. call'[t] = c
  BY <1>1 DEF LoneInv, FlashInv
<1>4. Alone(t)'
  BY <1>1, <1>2, <1>3, TransferIsExact DEF Alone, Busy, Exact
<1>5. QED
  BY <1>1, <1>2, <1>4, OthersAlone

LEMMA TransferFailsAlone ==
    ASSUME LoneInv, NEW t \in Threads, TransferFails(t), NEW u \in Threads
    PROVE  Alone(u)'
<1> DEFINE c == [call[t] EXCEPT !.pc = "idle", !.reply = "INVALID_OP"]
<1>1. call' = [call EXCEPT ![t] = c] /\ UNCHANGED quiet /\ Busy(t)
  BY DEF TransferFails, Busy, LoneInv, FlashInv
<1>2. c.pc = "idle" /\ c.reply = "INVALID_OP"
  BY DEF LoneInv, FlashInv, CallType
<1> HIDE DEF c
<1>3. call'[t] = c
  BY <1>1 DEF LoneInv, FlashInv
<1>4. Alone(t)'
  BY <1>2, <1>3 DEF Alone, Busy, Exact
<1>5. QED
  BY <1>1, <1>4, OthersAlone

\* A transfer that no other call overlapped is of exactly its own range, for any
\* number of threads and whatever calls surround it (kraken_flash.c 67-96).
THEOREM FlashLoneTransfersExact == Spec => []LoneTransfersAreExact
<1>1. Init /\ FlashInv => LoneInv
  BY FlashAssumption DEF Init, LoneInv, Alone, Exact, NoCall, Busy
<1>2. LoneInv /\ FlashInv' /\ [Next]_vars => LoneInv'
  <2> SUFFICES ASSUME LoneInv, [Next]_vars, NEW u \in Threads PROVE Alone(u)'
    BY DEF LoneInv
  <2>1. CASE UNCHANGED vars
    BY <2>1 DEF vars, LoneInv, Alone, Busy, Others, Exact
  <2>2. ASSUME NEW t \in Threads, Clear(t) PROVE Alone(u)'
    BY <2>2 DEF Clear, LoneInv, Alone, Busy, Others, Exact
  <2>3. QED
    BY <2>1, <2>2, CallTransferAlone, SeekAlone, TransferAlone, TransferFailsAlone DEF Next
<1>3. LoneInv => LoneTransfersAreExact
  BY DEF LoneInv, Alone, Exact, LoneTransfersAreExact
<1>4. QED
  BY <1>1, <1>2, <1>3, FlashInvHolds, PTL DEF Spec
=============================================================================
