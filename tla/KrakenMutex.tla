---------------------------- MODULE KrakenMutex ----------------------------
(***************************************************************************)
(* libkraken/src/util/kraken_mutex.c: one kraken_mutex_t shared by Threads,*)
(* one step per access to the atomic flag.                                 *)
(*                                                                         *)
(* kraken_mutex_lock and kraken_mutex_lock_no_yield differ only in what    *)
(* they do between two attempts (sched_yield, or one counter cycle), so    *)
(* both are the actions CallLock, SpinAgain and EnterSection.  Both repeat *)
(* the compare-exchange WHILE IT SUCCEEDS and return once it fails.        *)
(*                                                                         *)
(* In a KRAKEN_DEBUG build the callers' KRAKEN_CHECK_CALL_ERR returns from *)
(* the middle of a locked section without unlocking: AbandonSection.       *)
(***************************************************************************)
EXTENDS KrakenAtomics, FiniteSets

CONSTANTS Threads,      \* the threads that share the mutex
          KrakenDebug   \* TRUE: the build defines KRAKEN_DEBUG

ASSUME KrakenDebugAssumption == KrakenDebug \in BOOLEAN

VARIABLES isLocked,     \* mutex->is_locked
          pc,           \* where each thread is in its use of the mutex
          abandoned     \* history: a section ended without unlock and nothing
                        \* has cleared the flag since

vars == <<isLocked, pc, abandoned>>

\* "call": about to make the first attempt of a lock call; "spin": an attempt of
\* this call has set the flag and the loop goes round; "inside": the call has
\* returned (or try_lock has answered true) and unlock is still to come.
Locations == {"idle", "call", "spin", "inside"}

TypeOK ==
    /\ isLocked \in BOOLEAN
    /\ pc \in [Threads -> Locations]
    /\ abandoned \in BOOLEAN

\* Mutant: the owner is allocated without being zeroed, and the flag is whatever
\* lay there (something that is no Boolean; a thread will do).
MutantInitNotZeroed ==
    /\ isLocked \in Threads
    /\ pc = [t \in Threads |-> "idle"]
    /\ abandoned = FALSE

Init ==
    /\ isLocked = FALSE             \* kraken_calloc of the owner, create does nothing
    /\ pc = [t \in Threads |-> "idle"]
    /\ abandoned = FALSE

Goto(t, location) == pc' = [pc EXCEPT ![t] = location]

Locking == {t \in Threads : pc[t] \in {"call", "spin"}}
Inside  == {t \in Threads : pc[t] = "inside"}

CallLock(t) ==
    /\ pc[t] = "idle"
    /\ Goto(t, "call")
    /\ UNCHANGED <<isLocked, abandoned>>

\* The loop's condition holds: the exchange succeeded, so go round again.
SpinAgain(t) ==
    /\ t \in Locking
    /\ CasWeak(isLocked, isLocked', FALSE, TRUE, TRUE)
    /\ Goto(t, "spin")
    /\ UNCHANGED abandoned

\* Mutant: the loop's condition negated, so the call returns on success.
MutantEnterOnSuccess(t) ==
    /\ t \in Locking
    /\ CasWeak(isLocked, isLocked', FALSE, TRUE, TRUE)
    /\ Goto(t, "inside")
    /\ UNCHANGED abandoned

\* The loop's condition fails: the exchange failed, so the call returns.
EnterSection(t) ==
    /\ t \in Locking
    /\ CasWeak(isLocked, isLocked', FALSE, TRUE, FALSE)
    /\ Goto(t, "inside")
    /\ UNCHANGED abandoned

TryLock(t) ==
    /\ pc[t] = "idle"
    /\ \E ok \in BOOLEAN :
          /\ CasWeak(isLocked, isLocked', FALSE, TRUE, ok)
          /\ Goto(t, IF ok THEN "inside" ELSE "idle")
    /\ UNCHANGED abandoned

\* Mutant: unlock does not store to the flag.
MutantUnlockKeepsFlag(t) ==
    /\ pc[t] = "inside"
    /\ abandoned' = FALSE
    /\ Goto(t, "idle")
    /\ UNCHANGED isLocked

Unlock(t) ==
    /\ pc[t] = "inside"
    /\ isLocked' = FALSE
    /\ abandoned' = FALSE
    /\ Goto(t, "idle")

TryUnlock(t) ==
    /\ pc[t] = "inside"
    /\ \E ok \in BOOLEAN :
          /\ CasWeak(isLocked, isLocked', TRUE, FALSE, ok)
          /\ Goto(t, IF ok THEN "idle" ELSE "inside")
          /\ abandoned' = (abandoned /\ ~ok)

AbandonSection(t) ==
    /\ KrakenDebug
    /\ pc[t] = "inside"
    /\ Goto(t, "idle")
    /\ abandoned' = TRUE
    /\ UNCHANGED isLocked

LockStep(t) == SpinAgain(t) \/ EnterSection(t)

Next ==
    \E t \in Threads :
        \/ CallLock(t)
        \/ SpinAgain(t)
        \/ EnterSection(t)
        \/ TryLock(t)
        \/ Unlock(t)
        \/ TryUnlock(t)
        \/ AbandonSection(t)

\* A thread inside the loop keeps running it, and a section is left in the end:
\* both threads run on their own core or are preempted for a finite time.
Fairness ==
    \A t \in Threads :
        /\ WF_vars(LockStep(t))
        /\ WF_vars(Unlock(t) \/ AbandonSection(t))

Spec == Init /\ [][Next]_vars /\ Fairness

-----------------------------------------------------------------------------

\* The flag is only ever set on behalf of a call that is still spinning, a
\* section that is still open, or one that a debug check cut short: no sequence
\* of lock, try_lock, unlock and try_unlock leaves it set with nobody there to
\* clear it (kraken_mutex.c 24-61).
FlagAccountedFor ==
    isLocked => abandoned \/ \E t \in Threads : pc[t] \in {"spin", "inside"}

\* When every section was left through unlock, a mutex nobody uses is free
\* again: in a release build no failing call can wedge it (kraken_mutex.c 50-61).
QuiescentMutexIsFree ==
    (~KrakenDebug /\ \A t \in Threads : pc[t] = "idle") => ~isLocked

\* A thread spinning in lock never keeps the others out: whenever some thread
\* is in a lock call, some thread gets into a section later, whatever was
\* abandoned before and however often an unlock sends a spinner round again
\* (kraken_mutex.c 27-29, 36-38).
SomeLockCallReturns == (Locking # {}) ~> (Inside # {})

\* A mutex lets one thread at a time into its section (kraken_mutex.h 21 calls
\* this one "a small custom mutex implementation").
MutualExclusion == Cardinality(Inside) <= 1
=============================================================================
