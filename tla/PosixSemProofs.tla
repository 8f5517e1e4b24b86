--------------------------- MODULE PosixSemProofs ---------------------------
(***************************************************************************)
(* Proofs about the semaphores of PosixSem, for every finite set of        *)
(* threads and every initial value: sem_waiters is exact, a semaphore is   *)
(* not destroyed under a waiter that sem_destroy() could see, no wake is   *)
(* lost, and the calls implement the abstract Semaphore.                   *)
(***************************************************************************)
EXTENDS PosixSem, TLAPS, FiniteSetTheorems

(* A waiter takes a unit only if it saw one, and from the moment that      *)
(* sem_destroy() finds no waiters on, those there are came later.          *)
LocalInv ==
    /\ \A t \in Thread : pc[t] = "cas" => v[t] > 0
    /\ Destroying => Waiting \subseteq late

(* The threads that are going to wake a sleeper or to look at the value. A *)
(* waiter at its futex call is none of them: it may be interrupted there.  *)
Busy == {t \in Thread : pc[t] \in {"wake", "load", "cas"}}

(* While someone sleeps there is a busy thread for every unit.             *)
WakeInv == Sleeping # {} => value <= Cardinality(Busy)

IInv == SemInv /\ LocalInv /\ WakeInv

(* The value of a destroyed semaphore is negative.                         *)
LEMMA IntMin == INT_MIN \in Int /\ INT_MIN < 0
BY SMT DEF INT_MIN

-----------------------------------------------------------------------------
(* Counting                                                                *)

(* Sets of threads are finite and have a cardinality.                      *)
LEMMA ThreadSets ==
    ASSUME NEW X \in SUBSET Thread
    PROVE  IsFiniteSet(X) /\ Cardinality(X) \in Nat /\ (Cardinality(X) = 0 <=> X = {})
BY ThreadAssumption, FS_Subset, FS_CardinalityType, FS_EmptySet

(* One more thread counts one more.                                        *)
LEMMA OneMore ==
    ASSUME NEW X \in SUBSET Thread, NEW t \in Thread, t \notin X
    PROVE  Cardinality(X \union {t}) = Cardinality(X) + 1
BY ThreadSets, FS_AddElement

(* One thread less counts one less.                                        *)
LEMMA OneLess ==
    ASSUME NEW X \in SUBSET Thread, NEW t \in X
    PROVE  Cardinality(X \ {t}) = Cardinality(X) - 1
BY ThreadSets, FS_RemoveElement

(* A part counts no more than the whole.                                   *)
LEMMA NoMore ==
    ASSUME NEW X \in SUBSET Thread, NEW Y \in SUBSET X
    PROVE  Cardinality(Y) <= Cardinality(X)
BY ThreadSets, FS_Subset

-----------------------------------------------------------------------------
(* sem_waiters                                                             *)

(* Every step keeps the types, the count of the waiters and the semaphore  *)
(* under them.                                                             *)
LEMMA StepKeepsSemInv ==
    ASSUME SemInv, LocalInv, [Next]_vars PROVE SemInv' /\ LocalInv'
<1> USE ValueAssumption, ThreadSets, IntMin
    DEF SemInv, TypeOK, WaitersCounted, NotDestroyedUnderWaiter, LocalInv, Destroying, Pc,
        WaitingPc, Goto, Load, Return
<1>1. CASE UNCHANGED vars
  BY <1>1 DEF vars, Waiting
<1>2. ASSUME NEW t \in Thread, SemPost(t) PROVE SemInv' /\ LocalInv'
  <2>1. Waiting' = Waiting
    BY <1>2 DEF SemPost, Waiting
  <2>2. QED
    BY <1>2, <2>1 DEF SemPost
<1>3. ASSUME NEW t \in Thread, PostWake(t) PROVE SemInv' /\ LocalInv'
  <2>1. Waiting' = Waiting
    BY <1>3 DEF PostWake, Waiting, Sleeping
  <2>2. QED
    BY <1>3, <2>1 DEF PostWake, Sleeping
<1>4. ASSUME NEW t \in Thread,
             SemCall(t) \/ TryWaitTake(t) \/ TryWaitRetry(t) \/ TryWaitFail(t)
      PROVE  SemInv' /\ LocalInv'
  <2>1. Waiting' = Waiting
    BY <1>4 DEF SemCall, TryWaitTake, TryWaitRetry, TryWaitFail, Waiting
  <2>2. CASE SemCall(t)
    BY <2>1, <2>2 DEF SemCall
  <2>3. CASE TryWaitTake(t)
    BY <2>1, <2>3 DEF TryWaitTake
  <2>4. CASE TryWaitRetry(t)
    BY <2>1, <2>4 DEF TryWaitRetry
  <2>5. CASE TryWaitFail(t)
    BY <2>1, <2>5 DEF TryWaitFail
  <2>6. QED
    BY <1>4, <2>2, <2>3, <2>4, <2>5
<1>5. ASSUME NEW t \in Thread, WaitEnter(t) PROVE SemInv' /\ LocalInv'
  <2>1. Waiting' = Waiting \union {t} /\ t \notin Waiting
    BY <1>5 DEF WaitEnter, Waiting
  <2>2. Cardinality(Waiting') = Cardinality(Waiting) + 1
    BY <2>1, OneMore DEF Waiting
  <2>3. Destroying' <=> Destroying
    BY <1>5 DEF WaitEnter
  <2>4. Destroying => Waiting' \subseteq late'
    BY <1>5, <2>1 DEF WaitEnter
  <2>5. SemInv'
    BY <1>5, <2>2, <2>3, <2>4 DEF WaitEnter
  <2>6. QED
    BY <1>5, <2>3, <2>4, <2>5 DEF WaitEnter
<1>6. ASSUME NEW t \in Thread,
             \/ WaitLoad(t) \/ WaitAbort(t) \/ WaitFutex(t) \/ WaitSpurious(t) \/ WaitFail(t)
             \/ WaitTake(t)
      PROVE  SemInv' /\ LocalInv'
  <2>1. Waiting' = Waiting /\ t \in Waiting
    BY <1>6 DEF WaitLoad, WaitAbort, WaitFutex, WaitSpurious, WaitFail, WaitTake, Waiting
  <2>2. CASE WaitLoad(t) \/ WaitAbort(t)
    BY <2>1, <2>2 DEF WaitLoad, WaitAbort
  <2>3. CASE WaitFutex(t) \/ WaitSpurious(t) \/ WaitFail(t)
    BY <2>1, <2>3 DEF WaitFutex, WaitSpurious, WaitFail
  <2>4. CASE WaitTake(t)
    BY <2>1, <2>4 DEF WaitTake
  <2>5. QED
    BY <1>6, <2>2, <2>3, <2>4
<1>7. ASSUME NEW t \in Thread, WaitCleanup(t) PROVE SemInv' /\ LocalInv'
  <2>1. Waiting' = Waiting \ {t} /\ t \in Waiting
    BY <1>7 DEF WaitCleanup, Waiting
  <2>2. Cardinality(Waiting') = Cardinality(Waiting) - 1
    BY <2>1, OneLess DEF Waiting
  <2>3. Cardinality(Waiting') \in Nat
    BY <2>1 DEF Waiting
  <2>4. QED
    BY <1>7, <2>1, <2>2, <2>3 DEF WaitCleanup
<1>8. ASSUME NEW t \in Thread, DestroyCheck(t) PROVE SemInv' /\ LocalInv'
  <2>1. Waiting = {} /\ Waiting' = Waiting
    BY <1>8 DEF DestroyCheck, Waiting
  <2>2. QED
    BY <1>8, <2>1 DEF DestroyCheck
<1>9. ASSUME NEW t \in Thread, DestroyStore(t) PROVE SemInv' /\ LocalInv'
  <2>1. Waiting' = Waiting /\ Waiting \subseteq late
    BY <1>9 DEF DestroyStore, Waiting
  <2>2. QED
    BY <1>9, <2>1 DEF DestroyStore
<1>10. ASSUME NEW t \in Thread, SemInit(t) PROVE SemInv' /\ LocalInv'
  <2>1. Waiting = {} /\ Waiting' = Waiting
    BY <1>10 DEF SemInit, Waiting
  <2>2. QED
    BY <1>10, <2>1 DEF SemInit
<1> HIDE DEF SemInv, LocalInv
<1>11. QED
  BY <1>1, <1>2, <1>3, <1>4, <1>5, <1>6, <1>7, <1>8, <1>9, <1>10 DEF Next, Step

-----------------------------------------------------------------------------
(* Wakes                                                                   *)

(* Every step keeps a busy thread for every unit while someone sleeps: a   *)
(* post adds one with its unit, the wake hands its part over to the one it *)
(* wakes, who takes a unit before it is idle or finds none left.           *)
LEMMA StepKeepsWakeInv ==
    ASSUME IInv, [Next]_vars PROVE WakeInv'
<1> USE ValueAssumption, IntMin
    DEF IInv, SemInv, TypeOK, WakeInv, Goto, Load, Return
<1>0. Cardinality(Busy) \in Nat /\ Cardinality(Busy') \in Nat
  <2>1. Busy \in SUBSET Thread /\ Busy' \in SUBSET Thread
    BY DEF Busy
  <2>2. QED
    BY <2>1, ThreadSets
<1>1. CASE UNCHANGED vars
  BY <1>1 DEF vars, Busy, Sleeping
<1>2. ASSUME NEW t \in Thread, SemPost(t) PROVE WakeInv'
  <2>1. Busy' = Busy \union {t} /\ t \notin Busy /\ Sleeping' = Sleeping
    BY <1>2 DEF SemPost, Busy, Sleeping, Pc
  <2>2. Cardinality(Busy') = Cardinality(Busy) + 1
    BY <2>1, OneMore DEF Busy
  <2>3. QED
    BY <1>0, <1>2, <2>1, <2>2 DEF SemPost
<1>3. ASSUME NEW t \in Thread, PostWake(t) PROVE WakeInv'
  <2>1. t \in Busy
    BY <1>3 DEF PostWake, Busy
  <2>2. CASE Sleeping = {}
    BY <1>3, <2>2 DEF PostWake, Sleeping
  <2>3. ASSUME NEW u \in Sleeping, pc' = [pc EXCEPT ![t] = "idle", ![u] = "load"]
        PROVE  WakeInv'
    <3>1. u \in Thread /\ u \notin Busy /\ u # t
      BY <1>3 DEF Sleeping, Busy, PostWake
    <3>2. Busy' = (Busy \ {t}) \union {u}
      BY <2>3, <3>1 DEF Busy, Pc
    <3>3. Busy \ {t} \in SUBSET Thread /\ u \notin Busy \ {t}
      BY <3>1 DEF Busy
    <3>4. Cardinality(Busy') = Cardinality(Busy \ {t}) + 1
      BY <3>1, <3>2, <3>3, OneMore
    <3>5. Cardinality(Busy \ {t}) = Cardinality(Busy) - 1
      BY <2>1, OneLess DEF Busy
    <3>6. Cardinality(Busy') = Cardinality(Busy)
      BY <1>0, <3>4, <3>5
    <3>7. QED
      BY <1>3, <2>3, <3>6 DEF PostWake
  <2>4. QED
    BY <1>3, <2>2, <2>3 DEF PostWake
<1>4. ASSUME NEW t \in Thread,
             \/ SemCall(t) \/ TryWaitTake(t) \/ TryWaitRetry(t) \/ TryWaitFail(t)
             \/ WaitCleanup(t) \/ DestroyCheck(t)
      PROVE  WakeInv'
  <2>1. Busy' = Busy /\ Sleeping' = Sleeping
    BY <1>4 DEF SemCall, TryWaitTake, TryWaitRetry, TryWaitFail, WaitCleanup, DestroyCheck, Busy,
                Sleeping, Pc
  <2>2. value' = value \/ value' = value - 1
    BY <1>4 DEF SemCall, TryWaitTake, TryWaitRetry, TryWaitFail, WaitCleanup, DestroyCheck
  <2>3. QED
    BY <1>0, <2>1, <2>2
<1>5. ASSUME NEW t \in Thread, WaitEnter(t) \/ WaitSpurious(t) PROVE WakeInv'
  <2>1. Busy \subseteq Busy' /\ Sleeping' \subseteq Sleeping /\ value' = value
    BY <1>5 DEF WaitEnter, WaitSpurious, Busy, Sleeping, Pc
  <2>2. Cardinality(Busy) <= Cardinality(Busy')
    BY <2>1, NoMore DEF Busy
  <2>3. QED
    BY <1>0, <2>1, <2>2
<1>6. ASSUME NEW t \in Thread, WaitLoad(t) PROVE WakeInv'
  <2>1. CASE value = 0
    BY <1>0, <1>6, <2>1 DEF WaitLoad
  <2>2. CASE value > 0
    <3>0. value # 0
      BY <2>2
    <3>1. pc' = [pc EXCEPT ![t] = "cas"]
      BY <1>6, <3>0 DEF WaitLoad
    <3>2. Busy' = Busy /\ Sleeping' = Sleeping
      BY <1>6, <3>1 DEF WaitLoad, Busy, Sleeping, Pc
    <3>3. QED
      BY <1>6, <3>2 DEF WaitLoad
  <2>3. QED
    BY <1>6, <2>1, <2>2 DEF WaitLoad
<1>7. ASSUME NEW t \in Thread, WaitFutex(t) PROVE WakeInv'
  <2>1. CASE value = 0
    BY <1>0, <1>7, <2>1 DEF WaitFutex
  <2>2. CASE value # 0
    <3>1. Busy \subseteq Busy' /\ Sleeping' = Sleeping /\ value' = value
      BY <1>7, <2>2 DEF WaitFutex, Busy, Sleeping, Pc
    <3>2. Cardinality(Busy) <= Cardinality(Busy')
      BY <3>1, NoMore DEF Busy
    <3>3. QED
      BY <1>0, <3>1, <3>2
  <2>3. QED
    BY <2>1, <2>2
<1>8. ASSUME NEW t \in Thread, WaitFail(t) PROVE WakeInv'
  <2>1. Busy' = Busy /\ Sleeping' \subseteq Sleeping /\ value' = value
    BY <1>8 DEF WaitFail, Busy, Sleeping, Pc
  <2>2. QED
    BY <2>1
<1>9. ASSUME NEW t \in Thread, WaitTake(t) PROVE WakeInv'
  <2>1. t \in Busy /\ Sleeping' = Sleeping
    BY <1>9 DEF WaitTake, Busy, Sleeping, Pc
  <2>2. CASE value = v[t]
    <3>1. Busy' = Busy \ {t} /\ value' = value - 1
      BY <1>9, <2>2 DEF WaitTake, Busy, Pc
    <3>2. Cardinality(Busy') = Cardinality(Busy) - 1
      BY <2>1, <3>1, OneLess DEF Busy
    <3>3. QED
      BY <1>0, <2>1, <3>1, <3>2
  <2>3. CASE value # v[t]
    <3>1. Busy' = Busy /\ value' = value
      BY <1>9, <2>3 DEF WaitTake, Busy, Pc
    <3>2. QED
      BY <2>1, <3>1
  <2>4. QED
    BY <2>2, <2>3
<1>10. ASSUME NEW t \in Thread, DestroyStore(t) \/ WaitAbort(t) PROVE WakeInv'
  <2>1. value' < 0 /\ value' \in Int
    BY <1>10 DEF DestroyStore, WaitAbort
  <2>2. QED
    BY <1>0, <2>1
<1>11. ASSUME NEW t \in Thread, SemInit(t) PROVE WakeInv'
  <2>1. Sleeping' = {}
    BY <1>11 DEF SemInit, Sleeping
  <2>2. QED
    BY <2>1
<1>12. QED
  BY <1>1, <1>2, <1>3, <1>4, <1>5, <1>6, <1>7, <1>8, <1>9, <1>10, <1>11 DEF Next, Step

-----------------------------------------------------------------------------

(* The invariant holds in every reachable state.                           *)
LEMMA Invariance == Spec => []IInv
<1>1. Init => IInv
  <2> SUFFICES ASSUME Init PROVE IInv
    OBVIOUS
  <2>1. Waiting = {} /\ Sleeping = {}
    BY DEF Init, Waiting, WaitingPc, Sleeping
  <2>2. Cardinality(Waiting) = 0
    BY <2>1, FS_EmptySet
  <2>3. QED
    BY <2>1, <2>2, ValueAssumption
       DEF Init, IInv, SemInv, TypeOK, WaitersCounted, NotDestroyedUnderWaiter, LocalInv, WakeInv,
           Destroying, Pc
<1>2. IInv /\ [Next]_vars => IInv'
  BY StepKeepsSemInv, StepKeepsWakeInv DEF IInv
<1>3. QED
  BY <1>1, <1>2, PTL DEF Spec

(* sem_waiters is the number of threads in the blocking part of            *)
(* sem_timedwait(), however their waits end, and sem_destroy(), which goes *)
(* by it, takes the semaphore away from none that it could have seen.      *)
THEOREM WaitersExact == Spec => []SemInv
<1>1. IInv => SemInv
  BY DEF IInv
<1>2. QED
  BY <1>1, Invariance, PTL

(* sem_post() wakes one thread and a wait may end in other ways, yet no    *)
(* unit is left to sleepers without a thread that will see to it.          *)
THEOREM WakeupNotLost == Spec => []NoLostWakeup
<1>1. IInv => NoLostWakeup
  <2> SUFFICES ASSUME IInv, Sleeping # {}
               PROVE  value <= Cardinality({t \in Thread : pc[t] = "wake"})
                               + Cardinality(Waiting \ Sleeping)
    BY DEF NoLostWakeup
  <2> DEFINE Wakers == {t \in Thread : pc[t] = "wake"}
             Awake == Waiting \ Sleeping
  <2>1. Wakers \in SUBSET Thread /\ Awake \in SUBSET Thread
    BY DEF Waiting
  <2>2. Wakers \cap Awake = {} /\ Wakers \union Awake \in SUBSET Thread
    BY <2>1 DEF Waiting, WaitingPc
  <2>3. Busy \in SUBSET (Wakers \union Awake)
    BY DEF Busy, Waiting, WaitingPc, Sleeping
  <2>4. Cardinality(Busy) <= Cardinality(Wakers \union Awake)
    BY <2>2, <2>3, NoMore
  <2>5. Cardinality(Wakers \union Awake)
            = Cardinality(Wakers) + Cardinality(Awake) - Cardinality(Wakers \cap Awake)
    BY <2>1, ThreadSets, FS_Union
  <2>6. Cardinality(Wakers \cap Awake) = 0
    BY <2>2, FS_EmptySet
  <2>7. value <= Cardinality(Busy) /\ value \in Int /\ Cardinality(Busy) \in Nat
        /\ Cardinality(Wakers) \in Nat /\ Cardinality(Awake) \in Nat
    BY <2>1, ThreadSets, IntMin DEF IInv, SemInv, TypeOK, WakeInv, Busy
  <2> HIDE DEF Wakers, Awake
  <2>8. value <= Cardinality(Wakers) + Cardinality(Awake)
    BY <2>4, <2>5, <2>6, <2>7
  <2>9. QED
    BY <2>8 DEF Wakers, Awake
<1>2. QED
  BY <1>1, Invariance, PTL

-----------------------------------------------------------------------------

(* The calls implement the abstract semaphore: a unit is taken in the step *)
(* that lets the thread have it, and a call that fails takes none.         *)
THEOREM Refinement == Spec => ImplementsSemaphore
<1>1. Init => S!Init
  BY ValueAssumption DEF Init, S!Init
<1>2. IInv /\ [Next]_vars =>
        [S!Next]_<<IF value < 0 THEN -1 ELSE value, {t \in Thread : rc[t] = 1}>>
  <2> DEFINE count == IF value < 0 THEN -1 ELSE value
             got == {t \in Thread : rc[t] = 1}
  <2> SUFFICES ASSUME IInv, [Next]_vars PROVE S!Next \/ (count' = count /\ got' = got)
    OBVIOUS
  <2> USE ValueAssumption, IntMin DEF IInv, SemInv, LocalInv, TypeOK, Return, Load
  <2>1. CASE UNCHANGED vars
    BY <2>1 DEF vars
  <2>2. ASSUME NEW t \in Thread, SemPost(t) PROVE S!Next
    <3>1. count >= 0 /\ count' = count + 1 /\ got' = got
      BY <2>2 DEF SemPost
    <3>2. QED
      BY <3>1 DEF S!Next, S!Post
  <2>3. ASSUME NEW t \in Thread, TryWaitTake(t) \/ (WaitTake(t) /\ value = v[t])
        PROVE  S!Next
    <3>1. value > 0 /\ value' = value - 1
      BY <2>3 DEF TryWaitTake, WaitTake
    <3>2. count > 0 /\ count' = count - 1
      BY <3>1
    <3>3. got' = got \union {t}
      BY <2>3 DEF TryWaitTake, WaitTake
    <3>4. QED
      BY <3>2, <3>3 DEF S!Next, S!Take
  <2>4. ASSUME NEW t \in Thread, SemCall(t) \/ TryWaitFail(t) \/ WaitFail(t)
        PROVE  S!Next
    <3>1. count' = count
      BY <2>4 DEF SemCall, TryWaitFail, WaitFail
    <3>2. \E r \in {-1, 0} : rc' = [rc EXCEPT ![t] = r]
      BY <2>4 DEF SemCall, TryWaitFail, WaitFail
    <3>3. got' = got \ {t}
      BY <3>2
    <3>4. QED
      BY <3>1, <3>3 DEF S!Next, S!Forget
  <2>5. ASSUME NEW t \in Thread, DestroyStore(t) PROVE S!Next
    <3>1. count' = -1 /\ got' = got
      BY <2>5 DEF DestroyStore
    <3>2. QED
      BY <3>1 DEF S!Next, S!Destroy
  <2>6. ASSUME NEW t \in Thread, SemInit(t) PROVE S!Next
    <3>1. count' = Initial /\ got' = got
      BY <2>6 DEF SemInit
    <3>2. QED
      BY <3>1 DEF S!Next, S!Reset
  <2>7. ASSUME NEW t \in Thread,
               \/ PostWake(t) \/ TryWaitRetry(t) \/ WaitEnter(t) \/ WaitLoad(t) \/ WaitFutex(t)
               \/ WaitAbort(t) \/ DestroyCheck(t)
               \/ (WaitTake(t) /\ value # v[t])
               \/ WaitCleanup(t) \/ WaitSpurious(t)
        PROVE  count' = count /\ got' = got
    BY <2>7 DEF PostWake, TryWaitRetry, WaitEnter, WaitLoad, WaitAbort, WaitFutex, WaitTake,
                WaitCleanup, WaitSpurious, DestroyCheck
  <2>8. QED
    BY <2>1, <2>2, <2>3, <2>4, <2>5, <2>6, <2>7 DEF Next, Step
<1>3. QED
  BY <1>1, <1>2, Invariance, PTL DEF Spec, ImplementsSemaphore, S!Spec

=============================================================================
