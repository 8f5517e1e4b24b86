---------------------------- MODULE DrepperMutex ----------------------------
(***************************************************************************)
(* The non-recursive mutex that Cosmopolitan uses wherever nsync cannot be *)
(* used (process shared mutexes, Apple Silicon): "take 3" of Drepper's     *)
(* "Futexes Are Tricky" with one futex word that is 0 when unlocked, 1     *)
(* when locked and 2 when locked with waiters. The code is                 *)
(* pthread_mutex_lock_drepper() and pthread_mutex_unlock_drepper() in      *)
(* libc/intrin, and pthread_mutex_clocklock_drepper() in libc/thread. Each *)
(* atomic operation on the word is one step.                               *)
(***************************************************************************)
EXTENDS Integers, FiniteSets

CONSTANTS
    Thread,
    Mode,    \* the calls in use: subset of AllModes
    Polyfill \* whether cosmo_futex_wait() may have to poll: subset of BOOLEAN

AllModes == {"lock", "trylock", "clocklock"}

ASSUME ModeAssumption == Mode \subseteq AllModes /\ Polyfill \subseteq BOOLEAN

VARIABLES
    futex, \* mutex->_futex
    pc,    \* what each thread does next
    mode,  \* the call it is in
    polls  \* there is no futex in this kernel: cosmo_futex_wait() polls

vars == <<futex, pc, mode, polls>>

Sleeping == {t \in Thread : pc[t] = "asleep"}

Goto(t, l) == pc' = [pc EXCEPT ![t] = l]

-----------------------------------------------------------------------------
(* cosmo_futex_wait(&futex, 2) and cosmo_futex_wake(&futex, 1)             *)

(* The kernel puts the caller to sleep only if the word still is 2. The    *)
(* polyfill returns as soon as it is not.                                  *)
FutexWait_AnyValue(t) == Goto(t, "asleep")
FutexWait(t) == Goto(t, IF futex = 2 THEN "asleep" ELSE "xchg")

(* Someone asleep is woken, if there is anyone.                            *)
FutexWake(t) ==
    IF Sleeping = {} \/ polls
    THEN Goto(t, "idle")
    ELSE \E u \in Sleeping : pc' = [pc EXCEPT ![t] = "idle", ![u] = "xchg"]

(* The wait is interrupted by a signal (EINTR), or the polling sees that   *)
(* the word changed.                                                       *)
FutexReturn(t) ==
    /\ pc[t] = "asleep"
    /\ polls => futex # 2
    /\ Goto(t, "xchg")
    /\ UNCHANGED <<futex, mode, polls>>

(* The deadline of pthread_mutex_clocklock() passes (ETIMEDOUT).           *)
FutexTimeout(t) ==
    /\ pc[t] = "asleep" /\ mode[t] = "clocklock"
    /\ Goto(t, "xchg_timeout")
    /\ UNCHANGED <<futex, mode, polls>>

-----------------------------------------------------------------------------
(* pthread_mutex_lock(), trylock() and clocklock()                         *)

Call(t) ==
    /\ pc[t] = "idle"
    /\ \E m \in Mode : mode' = [mode EXCEPT ![t] = m]
    /\ Goto(t, "cas")
    /\ UNCHANGED <<futex, polls>>

(* atomic_compare_exchange_strong(&futex, 0, 1)                            *)
LockFast(t) ==
    /\ pc[t] = "cas" /\ futex = 0
    /\ futex' = 1
    /\ Goto(t, "held")
    /\ UNCHANGED <<mode, polls>>

TryLockBusy(t) == \* EBUSY
    /\ pc[t] = "cas" /\ futex # 0 /\ mode[t] = "trylock"
    /\ Goto(t, "idle")
    /\ UNCHANGED <<futex, mode, polls>>

LockSlow(t) ==
    /\ pc[t] = "cas" /\ futex # 0 /\ mode[t] # "trylock"
    /\ Goto(t, IF futex = 1 THEN "xchg" ELSE "wait")
    /\ UNCHANGED <<futex, mode, polls>>

(* val = atomic_exchange(&futex, 2): the lock is ours if it was 0.         *)
LockExchange_WrongTest(t) ==
    /\ pc[t] = "xchg"
    /\ futex' = 2
    /\ Goto(t, IF futex # 2 THEN "held" ELSE "wait")
    /\ UNCHANGED <<mode, polls>>
LockExchange_Increments(t) ==
    /\ pc[t] = "xchg"
    /\ futex' = futex + 1
    /\ Goto(t, IF futex = 0 THEN "held" ELSE "wait")
    /\ UNCHANGED <<mode, polls>>
LockExchange(t) ==
    /\ pc[t] = "xchg"
    /\ futex' = 2
    /\ Goto(t, IF futex = 0 THEN "held" ELSE "wait")
    /\ UNCHANGED <<mode, polls>>

(* A malformed deadline makes the wait return EINVAL, and the loop go on.  *)
LockWait(t) ==
    /\ pc[t] = "wait"
    /\ FutexWait(t) \/ (mode[t] = "clocklock" /\ Goto(t, "xchg"))
    /\ UNCHANGED <<futex, mode, polls>>

(* After a timeout the exchange may still find the lock released.          *)
LockTimeout_GivesUp(t) ==
    /\ pc[t] = "xchg_timeout"
    /\ futex' = 2
    /\ Goto(t, "idle")
    /\ UNCHANGED <<mode, polls>>
LockTimeout(t) ==
    /\ pc[t] = "xchg_timeout"
    /\ futex' = 2
    /\ Goto(t, IF futex = 0 THEN "held" ELSE "idle")
    /\ UNCHANGED <<mode, polls>>

-----------------------------------------------------------------------------
(* pthread_mutex_unlock()                                                  *)

(* atomic_fetch_sub(&futex, 1)                                             *)
Unlock(t) ==
    /\ pc[t] = "held"
    /\ futex' = futex - 1
    /\ Goto(t, IF futex = 2 THEN "unlock_store" ELSE "idle")
    /\ UNCHANGED <<mode, polls>>

UnlockStore(t) ==
    /\ pc[t] = "unlock_store"
    /\ futex' = 0
    /\ Goto(t, "unlock_wake")
    /\ UNCHANGED <<mode, polls>>

UnlockWake_Forgotten(t) ==
    /\ pc[t] = "unlock_wake"
    /\ Goto(t, "idle")
    /\ UNCHANGED <<futex, mode, polls>>
UnlockWake(t) ==
    /\ pc[t] = "unlock_wake"
    /\ FutexWake(t)
    /\ UNCHANGED <<futex, mode, polls>>

-----------------------------------------------------------------------------

Init ==
    /\ futex = 0
    /\ pc = [t \in Thread |-> "idle"]
    /\ mode = [t \in Thread |-> "lock"]
    /\ polls \in Polyfill

(* The steps of the mutex; when to call it is the application's business,  *)
(* signals and deadlines are the kernel's.                                 *)
Step(t) ==
    \/ LockFast(t) \/ TryLockBusy(t) \/ LockSlow(t) \/ LockExchange(t)
    \/ LockWait(t) \/ LockTimeout(t)
    \/ Unlock(t) \/ UnlockStore(t) \/ UnlockWake(t)

Next == \E t \in Thread : Call(t) \/ Step(t) \/ FutexReturn(t) \/ FutexTimeout(t)

Spec == Init /\ [][Next]_vars

(* The kernel schedules every thread, a critical section ends, and a       *)
(* polling wait polls. Nothing makes a sleeping thread return by itself.   *)
Fairness ==
    \A t \in Thread : WF_vars(Step(t)) /\ WF_vars(polls /\ FutexReturn(t))

FairSpec == Spec /\ Fairness

-----------------------------------------------------------------------------
(* Properties                                                              *)

Pc == {"idle", "cas", "xchg", "xchg_timeout", "wait", "asleep", "held",
       "unlock_store", "unlock_wake"}

(* The futex word is 0, 1 or 2 and every other variable has its type.      *)
TypeOK ==
    /\ futex \in 0..2
    /\ pc \in [Thread -> Pc]
    /\ mode \in [Thread -> AllModes]
    /\ polls \in BOOLEAN

Holders == {t \in Thread : pc[t] = "held"}

(* Two threads never hold the mutex at once, whatever the unlocking thread *)
(* does to the word after its fetch_sub.                                   *)
MutualExclusion == \A t, u \in Holders : t = u

(* A sleeping thread is never forgotten: unless the word is 2, so that the *)
(* next unlock wakes a sleeper, some thread is about to wake one or to set *)
(* the word back to 2. (A thread that polls wakes itself.)                 *)
NoLostWakeup ==
    Sleeping # {} /\ ~polls /\ futex # 2 =>
        \E t \in Thread : pc[t] \in {"unlock_store", "unlock_wake", "xchg", "xchg_timeout"}

(* Not everyone is left asleep: while a thread without a deadline sleeps   *)
(* for the mutex, some thread eventually acquires it.                      *)
Progress == (\E t \in Sleeping : mode[t] = "lock") ~> (Holders # {})

(* What a caller can tell of each thread. An unlock with waiters releases  *)
(* the mutex when it stores 0, and no longer owns it while it wakes.       *)
Status ==
    [t \in Thread |->
        IF pc[t] \in {"idle", "unlock_wake"} THEN "out"
        ELSE IF pc[t] \in {"held", "unlock_store"} THEN "owns"
        ELSE mode[t]]

(* The calls implement an abstract mutex, results included: a trylock that *)
(* reports EBUSY and a clocklock that reports ETIMEDOUT found the mutex    *)
(* owned by someone at that step (a word left at 2 by a waiter that gave   *)
(* up would refuse a free mutex for ever), and no call acquires it between *)
(* the fetch_sub and the store of 0 of an unlock with waiters.             *)
M == INSTANCE Mutex WITH status <- Status
ImplementsMutex == M!Spec

=============================================================================
