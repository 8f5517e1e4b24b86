------------------------- MODULE DrepperMutexProofs -------------------------
(***************************************************************************)
(* Proofs that the futex mutex of DrepperMutex excludes, loses no wake and *)
(* implements the abstract Mutex, for every set of threads and every       *)
(* choice of calls.                                                        *)
(***************************************************************************)
EXTENDS DrepperMutex, TLAPS

(* The inductive invariant: the holder, and a thread that has yet to store *)
(* 0 after its fetch_sub, own the word. There is one owner at most, the    *)
(* word is not 0 as long as there is one, so nobody acquires it, and only  *)
(* then, so nobody is refused a free mutex. Only a timed lock times out.   *)
Owns(t) == pc[t] \in {"held", "unlock_store"}

OwnerInv ==
    /\ \A t, u \in Thread : Owns(t) /\ Owns(u) => t = u
    /\ futex # 0 <=> \E t \in Thread : Owns(t)
    /\ \A t \in Thread : pc[t] = "xchg_timeout" => mode[t] = "clocklock"

IInv == TypeOK /\ OwnerInv

(* Every step keeps the types and the ownership of the word.               *)
LEMMA StepKeepsIInv == IInv /\ [Next]_vars => IInv'
<1> SUFFICES ASSUME IInv, [Next]_vars PROVE IInv'
  OBVIOUS
<1> USE ModeAssumption DEF IInv, TypeOK, OwnerInv, Owns, Pc, AllModes, Goto
<1>1. CASE UNCHANGED vars
  BY <1>1 DEF vars
<1>2. ASSUME NEW t \in Thread, Call(t) PROVE IInv'
  BY <1>2 DEF Call
<1>3. ASSUME NEW t \in Thread, LockFast(t) PROVE IInv'
  BY <1>3 DEF LockFast
<1>4. ASSUME NEW t \in Thread, TryLockBusy(t) PROVE IInv'
  BY <1>4 DEF TryLockBusy
<1>5. ASSUME NEW t \in Thread, LockSlow(t) PROVE IInv'
  BY <1>5 DEF LockSlow
<1>6. ASSUME NEW t \in Thread, LockExchange(t) PROVE IInv'
  BY <1>6 DEF LockExchange
<1>7. ASSUME NEW t \in Thread, LockWait(t) PROVE IInv'
  BY <1>7 DEF LockWait, FutexWait
<1>8. ASSUME NEW t \in Thread, LockTimeout(t) PROVE IInv'
  BY <1>8 DEF LockTimeout
<1>9. ASSUME NEW t \in Thread, Unlock(t) PROVE IInv'
  BY <1>9 DEF Unlock
<1>10. ASSUME NEW t \in Thread, UnlockStore(t) PROVE IInv'
  BY <1>10 DEF UnlockStore
<1>11. ASSUME NEW t \in Thread, UnlockWake(t) PROVE IInv'
  BY <1>11 DEF UnlockWake, FutexWake, Sleeping
<1>12. ASSUME NEW t \in Thread, FutexReturn(t) \/ FutexTimeout(t) PROVE IInv'
  BY <1>12 DEF FutexReturn, FutexTimeout
<1>13. QED
  BY <1>1, <1>2, <1>3, <1>4, <1>5, <1>6, <1>7, <1>8, <1>9, <1>10, <1>11, <1>12
     DEF Next, Step

(* The invariant holds in every reachable state.                           *)
LEMMA Invariance == Spec => []IInv
<1>1. Init => IInv
  BY ModeAssumption DEF Init, IInv, TypeOK, OwnerInv, Owns, Pc, AllModes
<1>2. QED
  BY <1>1, StepKeepsIInv, PTL DEF Spec

(* The futex word of the drepper mutex stays within 0..2, so fetch_sub     *)
(* never takes it below zero.                                              *)
THEOREM TypeCorrect == Spec => []TypeOK
<1>1. IInv => TypeOK
  BY DEF IInv
<1>2. QED
  BY <1>1, Invariance, PTL

(* pthread_mutex_lock(), trylock() and clocklock() exclude: two threads    *)
(* never hold the mutex at once.                                           *)
THEOREM Exclusion == Spec => []MutualExclusion
<1>1. IInv => MutualExclusion
  BY DEF IInv, OwnerInv, Owns, MutualExclusion, Holders
<1>2. QED
  BY <1>1, Invariance, PTL

(* A thread that sleeps on the word of the drepper mutex is not forgotten: *)
(* the word tells the next unlock to wake it, or some thread is on its way *)
(* to wake it or to set the word.                                          *)
THEOREM WakeupNotLost == Spec => []NoLostWakeup
<1>1. Init => NoLostWakeup
  BY DEF Init, NoLostWakeup, Sleeping
<1>2. IInv /\ NoLostWakeup /\ [Next]_vars => NoLostWakeup'
  <2> SUFFICES ASSUME IInv, NoLostWakeup, [Next]_vars PROVE NoLostWakeup'
    OBVIOUS
  <2> USE DEF IInv, TypeOK, NoLostWakeup, Sleeping, Goto
  <2>1. CASE UNCHANGED vars
    BY <2>1 DEF vars
  <2>2. ASSUME NEW t \in Thread, Call(t) \/ LockFast(t) \/ TryLockBusy(t) \/ LockSlow(t)
        PROVE  NoLostWakeup'
    BY <2>2 DEF Call, LockFast, TryLockBusy, LockSlow
  <2>3. ASSUME NEW t \in Thread, LockExchange(t) \/ LockTimeout(t)
        PROVE  NoLostWakeup'
    BY <2>3 DEF LockExchange, LockTimeout
  <2>4. ASSUME NEW t \in Thread, LockWait(t) PROVE NoLostWakeup'
    BY <2>4 DEF LockWait, FutexWait
  <2>5. ASSUME NEW t \in Thread, Unlock(t) PROVE NoLostWakeup'
    BY <2>5 DEF Unlock
  <2>6. ASSUME NEW t \in Thread, UnlockStore(t) PROVE NoLostWakeup'
    BY <2>6 DEF UnlockStore
  <2>7. ASSUME NEW t \in Thread, UnlockWake(t) PROVE NoLostWakeup'
    <3>1. CASE Sleeping = {} \/ polls
      BY <2>7, <3>1 DEF UnlockWake, FutexWake
    <3>2. CASE ~(Sleeping = {} \/ polls)
      BY <2>7, <3>2 DEF UnlockWake, FutexWake
    <3>3. QED
      BY <3>1, <3>2
  <2>8. ASSUME NEW t \in Thread, FutexReturn(t) \/ FutexTimeout(t) PROVE NoLostWakeup'
    BY <2>8 DEF FutexReturn, FutexTimeout
  <2>9. QED
    BY <2>1, <2>2, <2>3, <2>4, <2>5, <2>6, <2>7, <2>8 DEF Next, Step
<1>3. QED
  BY <1>1, <1>2, Invariance, PTL DEF Spec

(* The drepper mutex implements the abstract mutex, results included: each *)
(* of its steps is the start of a call, an acquisition while nobody owns   *)
(* the mutex, a refusal or a timeout while somebody does, a release by its *)
(* owner, or invisible to callers.                                         *)
THEOREM Refinement == Spec => ImplementsMutex
<1>1. Init => M!Init
  BY DEF Init, M!Init, Status
<1>2. IInv /\ [Next]_vars => [M!Next]_Status
  <2> SUFFICES ASSUME IInv, [Next]_vars PROVE [M!Next]_Status
    OBVIOUS
  <2>1. M!Owners = {t \in Thread : Owns(t)}
    BY DEF M!Owners, Status, Owns, AllModes, IInv, TypeOK
  <2>2. futex = 0 <=> M!Owners = {}
    BY <2>1 DEF IInv, OwnerInv
  <2>3. CASE UNCHANGED vars
    BY <2>3 DEF vars, Status
  <2> USE DEF IInv, TypeOK, Status, Pc, Goto
  <2>4. ASSUME NEW t \in Thread, Call(t) PROVE M!Next
    <3>1. PICK m \in Mode : mode' = [mode EXCEPT ![t] = m]
      BY <2>4 DEF Call
    <3>2. Status' = [Status EXCEPT ![t] = m] /\ Status[t] = "out"
      BY <2>4, <3>1 DEF Call
    <3>3. QED
      BY <3>2 DEF M!Next, M!Call, M!Becomes
  <2>5. ASSUME NEW t \in Thread,
               \/ LockFast(t)
               \/ LockExchange(t) /\ futex = 0
               \/ LockTimeout(t) /\ futex = 0
        PROVE  M!Next
    <3>1. Status' = [Status EXCEPT ![t] = "owns"] /\ Status[t] = mode[t] /\ futex = 0
      BY <2>5 DEF LockFast, LockExchange, LockTimeout
    <3>2. Status[t] \notin {"out", "owns"}
      BY <3>1 DEF AllModes
    <3>3. QED
      BY <2>2, <3>1, <3>2 DEF M!Next, M!Acquire, M!Becomes
  <2>6. ASSUME NEW t \in Thread, TryLockBusy(t) \/ (LockTimeout(t) /\ futex # 0)
        PROVE  M!Next
    <3>1. Status' = [Status EXCEPT ![t] = "out"] /\ Status[t] = mode[t] /\ futex # 0
      BY <2>6 DEF TryLockBusy, LockTimeout
    <3>2. mode[t] \in {"trylock", "clocklock"}
      BY <2>6 DEF TryLockBusy, LockTimeout, OwnerInv
    <3>3. QED
      BY <2>2, <3>1, <3>2 DEF M!Next, M!Fail, M!Becomes
  <2>7. ASSUME NEW t \in Thread, (Unlock(t) /\ futex # 2) \/ UnlockStore(t) PROVE M!Next
    BY <2>7 DEF Unlock, UnlockStore, M!Next, M!Release, M!Becomes
  <2>8. ASSUME NEW t \in Thread,
               \/ LockSlow(t) \/ LockWait(t)
               \/ LockExchange(t) /\ futex # 0
               \/ Unlock(t) /\ futex = 2
               \/ FutexReturn(t) \/ FutexTimeout(t)
        PROVE  UNCHANGED Status
    BY <2>8 DEF LockSlow, LockWait, FutexWait, LockExchange, Unlock,
                FutexReturn, FutexTimeout
  <2>9. ASSUME NEW t \in Thread, UnlockWake(t) PROVE UNCHANGED Status
    <3>1. CASE Sleeping = {} \/ polls
      BY <2>9, <3>1 DEF UnlockWake, FutexWake
    <3>2. CASE ~(Sleeping = {} \/ polls)
      <4>1. PICK u \in Sleeping : pc' = [pc EXCEPT ![t] = "idle", ![u] = "xchg"]
        BY <2>9, <3>2 DEF UnlockWake, FutexWake
      <4>2. pc[t] = "unlock_wake" /\ u \in Thread /\ pc[u] = "asleep" /\ mode' = mode
        BY <2>9, <4>1 DEF UnlockWake, Sleeping
      <4>3. QED
        BY <4>1, <4>2
    <3>3. QED
      BY <3>1, <3>2
  <2> HIDE DEF IInv, TypeOK, Status, Pc, Goto
  <2>10. ASSUME NEW t \in Thread, Step(t) PROVE M!Next \/ UNCHANGED Status
    <3>1. CASE LockFast(t) \/ LockExchange(t) \/ LockTimeout(t)
      BY <2>5, <2>6, <2>8, <3>1
    <3>2. CASE TryLockBusy(t) \/ LockSlow(t) \/ LockWait(t)
      BY <2>6, <2>8, <3>2
    <3>3. CASE Unlock(t) \/ UnlockStore(t) \/ UnlockWake(t)
      BY <2>7, <2>8, <2>9, <3>3
    <3>4. QED
      BY <2>10, <3>1, <3>2, <3>3 DEF Step
  <2>11. QED
    BY <2>3, <2>4, <2>8, <2>10 DEF Next
<1>3. QED
  BY <1>1, <1>2, Invariance, PTL DEF Spec, ImplementsMutex, M!Spec

=============================================================================
