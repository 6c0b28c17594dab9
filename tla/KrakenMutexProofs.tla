------------------------- MODULE KrakenMutexProofs -------------------------
(***************************************************************************)
(* What every set of threads can rely on in kraken_mutex.c, with or        *)
(* without spurious failures.  FlagAccountedFor is inductive on its own    *)
(* once TypeOK is known; QuiescentMutexIsFree follows from it and from the *)
(* fact that only a debug build abandons sections.                         *)
(***************************************************************************)
EXTENDS KrakenMutex, TLAPS

\* An exchange on a Boolean cell leaves a Boolean cell, whatever it answers.
LEMMA CasKeepsBoolean ==
    ASSUME NEW old \in BOOLEAN, NEW new, NEW ok,
           NEW expected \in BOOLEAN, NEW desired \in BOOLEAN,
           CasWeak(old, new, expected, desired, ok)
    PROVE  new \in BOOLEAN
BY DEF CasWeak

\* The mutex, the threads' locations and the history keep their types
\* (kraken_mutex.c 24-61).
THEOREM MutexTypeCorrect == Spec => []TypeOK
<1> USE DEF TypeOK, Locations
<1>1. Init => TypeOK
  BY DEF Init
<1>2. TypeOK /\ [Next]_vars => TypeOK'
  <2> SUFFICES ASSUME TypeOK, [Next]_vars PROVE TypeOK'
    OBVIOUS
  <2>1. CASE UNCHANGED vars
    BY <2>1 DEF vars
  <2>2. ASSUME NEW t \in Threads, CallLock(t) PROVE TypeOK'
    BY <2>2 DEF CallLock, Goto
  <2>3. ASSUME NEW t \in Threads, SpinAgain(t) PROVE TypeOK'
    BY <2>3, CasKeepsBoolean DEF SpinAgain, Goto
  <2>4. ASSUME NEW t \in Threads, EnterSection(t) PROVE TypeOK'
    BY <2>4, CasKeepsBoolean DEF EnterSection, Goto
  <2>5. ASSUME NEW t \in Threads, TryLock(t) PROVE TypeOK'
    BY <2>5, CasKeepsBoolean DEF TryLock, Goto
  <2>6. ASSUME NEW t \in Threads, Unlock(t) PROVE TypeOK'
    BY <2>6 DEF Unlock, Goto
  <2>7. ASSUME NEW t \in Threads, TryUnlock(t) PROVE TypeOK'
    BY <2>7, CasKeepsBoolean DEF TryUnlock, Goto
  <2>8. ASSUME NEW t \in Threads, AbandonSection(t) PROVE TypeOK'
    BY <2>8 DEF AbandonSection, Goto
  <2>9. QED
    BY <2>1, <2>2, <2>3, <2>4, <2>5, <2>6, <2>7, <2>8 DEF Next
<1>3. QED
  BY <1>1, <1>2, PTL DEF Spec

\* No sequence of mutex calls leaves the flag set with no spinner, no open
\* section and no abandoned one to account for it (kraken_mutex.c 24-61).
THEOREM MutexFlagAccounted == Spec => []FlagAccountedFor
<1> USE DEF FlagAccountedFor
<1>1. Init => FlagAccountedFor
  BY DEF Init
<1>2. TypeOK /\ FlagAccountedFor /\ [Next]_vars => FlagAccountedFor'
  <2> SUFFICES ASSUME TypeOK, FlagAccountedFor, [Next]_vars
               PROVE  FlagAccountedFor'
    OBVIOUS
  <2> USE DEF TypeOK
  <2>1. CASE UNCHANGED vars
    BY <2>1 DEF vars
  <2>2. ASSUME NEW t \in Threads, CallLock(t) PROVE FlagAccountedFor'
    BY <2>2 DEF CallLock, Goto
  <2>3. ASSUME NEW t \in Threads, SpinAgain(t) PROVE FlagAccountedFor'
    BY <2>3 DEF SpinAgain, Goto
  <2>4. ASSUME NEW t \in Threads, EnterSection(t) PROVE FlagAccountedFor'
    BY <2>4 DEF EnterSection, Goto
  <2>5. ASSUME NEW t \in Threads, TryLock(t) PROVE FlagAccountedFor'
    BY <2>5 DEF TryLock, CasWeak, Goto
  <2>6. ASSUME NEW t \in Threads, Unlock(t) PROVE FlagAccountedFor'
    BY <2>6 DEF Unlock
  <2>7. ASSUME NEW t \in Threads, TryUnlock(t) PROVE FlagAccountedFor'
    BY <2>7 DEF TryUnlock, CasWeak, Goto
  <2>8. ASSUME NEW t \in Threads, AbandonSection(t) PROVE FlagAccountedFor'
    BY <2>8 DEF AbandonSection
  <2>9. QED
    BY <2>1, <2>2, <2>3, <2>4, <2>5, <2>6, <2>7, <2>8 DEF Next
<1>3. QED
  BY <1>1, <1>2, MutexTypeCorrect, PTL DEF Spec

\* Sections are abandoned by debug builds only.
LEMMA AbandonedOnlyInDebug == Spec => [](abandoned => KrakenDebug)
<1> DEFINE DebugOnly == abandoned => KrakenDebug
<1>1. Init => DebugOnly
  BY DEF Init
<1>2. TypeOK /\ DebugOnly /\ [Next]_vars => DebugOnly'
  <2> SUFFICES ASSUME TypeOK, DebugOnly, [Next]_vars
               PROVE  DebugOnly'
    OBVIOUS
  <2> QED
    BY DEF TypeOK, Next, vars, CallLock, SpinAgain, EnterSection, TryLock,
           Unlock, TryUnlock, AbandonSection
<1>3. QED
  BY <1>1, <1>2, MutexTypeCorrect, PTL DEF Spec

\* A release build leaves an unused mutex free (kraken_mutex.c 50-61).
THEOREM MutexQuiescentIsFree == Spec => []QuiescentMutexIsFree
<1>1. FlagAccountedFor /\ (abandoned => KrakenDebug) => QuiescentMutexIsFree
  BY DEF FlagAccountedFor, QuiescentMutexIsFree
<1>2. QED
  BY <1>1, AbandonedOnlyInDebug, MutexFlagAccounted, PTL
=============================================================================
