------------------------------ MODULE PosixSem ------------------------------
(***************************************************************************)
(* Unnamed semaphores: sem_init(), sem_destroy(), sem_post(),              *)
(* sem_trywait(), sem_wait() and sem_timedwait() of libc/thread. A         *)
(* semaphore is a futex word that counts units and a count of the threads  *)
(* inside the blocking part of sem_timedwait(). Each access to one of the  *)
(* two is one step. A wait may end by a post, a signal, the cancelation of *)
(* the thread or its deadline.                                             *)
(***************************************************************************)
EXTENDS Integers, FiniteSets

CONSTANTS
    Thread,
    Initial, \* the value given to sem_init()
    MaxValue \* bound: nobody posts to a semaphore that has this value, nor to a
             \* destroyed one

ASSUME ValueAssumption == Initial \in Nat /\ MaxValue \in Nat
ASSUME ThreadAssumption == IsFiniteSet(Thread)

INT_MIN == -2147483647 - 1

VARIABLES
    value,   \* sem->sem_value
    waiters, \* sem->sem_waiters
    pc,      \* what each thread does next
    mode,    \* the call it is in
    v,       \* its local copy of the value
    rc,      \* its last wait took a unit (1), failed (-1), is going on (0)
    late     \* ghost: waiters that came after sem_destroy() had looked for them

vars == <<value, waiters, pc, mode, v, rc, late>>

Goto(t, l) == pc' = [pc EXCEPT ![t] = l]
Load(t) == v' = [v EXCEPT ![t] = value]
Return(t, r) == rc' = [rc EXCEPT ![t] = r]

Sleeping == {t \in Thread : pc[t] = "asleep"}

(* The threads in sem_timedwait() from its waiters + 1 to its cleanup.     *)
WaitingPc == {"load", "futex", "asleep", "cas", "cleanup", "aborted"}
Waiting == {t \in Thread : pc[t] \in WaitingPc}

-----------------------------------------------------------------------------
(* sem_post()                                                              *)

SemPost(t) ==
    /\ pc[t] = "idle"
    /\ value \in 0..(MaxValue - 1)
    /\ value' = value + 1
    /\ Goto(t, "wake")
    /\ UNCHANGED <<waiters, mode, v, rc, late>>

(* cosmo_futex_wake(&sem->sem_value, 1): someone asleep goes on.           *)
PostWake_OnlyFromZero(t) ==
    /\ pc[t] = "wake"
    /\ IF Sleeping = {} \/ value # 1
       THEN Goto(t, "idle")
       ELSE \E u \in Sleeping : pc' = [pc EXCEPT ![t] = "idle", ![u] = "load"]
    /\ UNCHANGED <<value, waiters, mode, v, rc, late>>
PostWake(t) ==
    /\ pc[t] = "wake"
    /\ IF Sleeping = {}
       THEN Goto(t, "idle")
       ELSE \E u \in Sleeping : pc' = [pc EXCEPT ![t] = "idle", ![u] = "load"]
    /\ UNCHANGED <<value, waiters, mode, v, rc, late>>

-----------------------------------------------------------------------------
(* sem_trywait(), with which sem_timedwait() begins; sem_wait() is a       *)
(* sem_timedwait() without a deadline.                                     *)

SemCall(t) ==
    /\ pc[t] = "idle"
    /\ \E m \in {"trywait", "wait"} : mode' = [mode EXCEPT ![t] = m]
    /\ Load(t)
    /\ Return(t, 0)
    /\ Goto(t, "trywait")
    /\ UNCHANGED <<value, waiters, late>>

TryWaitTake_NoCas(t) ==
    /\ pc[t] = "trywait" /\ v[t] > 0
    /\ value' = v[t] - 1
    /\ Return(t, 1)
    /\ Goto(t, "idle")
    /\ UNCHANGED <<waiters, mode, v, late>>
TryWaitTake(t) ==
    /\ pc[t] = "trywait" /\ v[t] > 0 /\ value = v[t]
    /\ value' = value - 1
    /\ Return(t, 1)
    /\ Goto(t, "idle")
    /\ UNCHANGED <<waiters, mode, v, late>>

TryWaitRetry(t) == \* the compare and exchange loads the new value
    /\ pc[t] = "trywait" /\ v[t] > 0 /\ value # v[t]
    /\ Load(t)
    /\ UNCHANGED <<value, waiters, pc, mode, rc, late>>

TryWaitFail(t) == \* EAGAIN, or EINVAL when destroyed
    /\ pc[t] = "trywait"
    /\ v[t] < 0 \/ (v[t] = 0 /\ mode[t] = "trywait")
    /\ Return(t, -1)
    /\ Goto(t, "idle")
    /\ UNCHANGED <<value, waiters, mode, v, late>>

-----------------------------------------------------------------------------
(* The blocking part of sem_timedwait()                                    *)

(* sem_destroy() has found no waiters, or has destroyed the semaphore.     *)
Destroying == value < 0 \/ \E t \in Thread : pc[t] = "destroy"

WaitEnter(t) ==
    /\ pc[t] = "trywait" /\ v[t] = 0 /\ mode[t] # "trywait"
    /\ waiters' = waiters + 1
    /\ late' = IF Destroying THEN late \union {t} ELSE late
    /\ Goto(t, "load")
    /\ UNCHANGED <<value, mode, v, rc>>

WaitLoad(t) ==
    /\ pc[t] = "load" /\ value >= 0
    /\ Load(t)
    /\ Goto(t, IF value = 0 THEN "futex" ELSE "cas")
    /\ UNCHANGED <<value, waiters, mode, rc, late>>

(* unassert(v > INT_MIN) fails in a thread that waits for a semaphore that *)
(* has been destroyed meanwhile: the process is aborted.                   *)
WaitAbort(t) ==
    /\ pc[t] = "load" /\ value < 0
    /\ Load(t)
    /\ Goto(t, "aborted")
    /\ UNCHANGED <<value, waiters, mode, rc, late>>

(* The kernel puts the caller to sleep if the word still is 0 (EAGAIN      *)
(* otherwise).                                                             *)
WaitFutex_Unchecked(t) ==
    /\ pc[t] = "futex"
    /\ Goto(t, "asleep")
    /\ UNCHANGED <<value, waiters, mode, v, rc, late>>
WaitFutex(t) ==
    /\ pc[t] = "futex"
    /\ Goto(t, IF value = 0 THEN "asleep" ELSE "load")
    /\ UNCHANGED <<value, waiters, mode, v, rc, late>>

(* The futex wait ends by itself with 0 (polling, spurious wake) or with   *)
(* ETIMEDOUT before the deadline really passed.                            *)
WaitSpurious(t) ==
    /\ pc[t] = "asleep"
    /\ Goto(t, "load")
    /\ UNCHANGED <<value, waiters, mode, v, rc, late>>

(* EINTR, ECANCELED, or ETIMEDOUT when there is a deadline, perhaps before *)
(* the kernel has looked at the word. When the thread is cancelled for     *)
(* good, the cleanup handler runs just the same.                           *)
WaitFail(t) ==
    /\ pc[t] \in {"futex", "asleep"}
    /\ Return(t, -1)
    /\ Goto(t, "cleanup")
    /\ UNCHANGED <<value, waiters, mode, v, late>>

WaitTake(t) ==
    /\ pc[t] = "cas"
    /\ IF value = v[t]
       THEN value' = value - 1 /\ Return(t, 1) /\ Goto(t, "cleanup")
       ELSE UNCHANGED <<value, rc>> /\ Goto(t, "load")
    /\ UNCHANGED <<waiters, mode, v, late>>

WaitCleanup_OnlyOnSuccess(t) ==
    /\ pc[t] = "cleanup"
    /\ waiters' = IF rc[t] = 1 THEN waiters - 1 ELSE waiters
    /\ Goto(t, "idle")
    /\ late' = late \ {t}
    /\ UNCHANGED <<value, mode, v, rc>>
WaitCleanup(t) ==
    /\ pc[t] = "cleanup"
    /\ waiters' = waiters - 1
    /\ Goto(t, "idle")
    /\ late' = late \ {t}
    /\ UNCHANGED <<value, mode, v, rc>>

-----------------------------------------------------------------------------
(* sem_destroy(), while other threads may be in the midst of any call, and *)
(* sem_init() of a destroyed semaphore, when they are out of all calls.    *)

DestroyCheck(t) == \* EBUSY if there are waiters
    /\ pc[t] = "idle"
    /\ waiters = 0
    /\ Goto(t, "destroy")
    /\ UNCHANGED <<value, waiters, mode, v, rc, late>>

DestroyStore(t) ==
    /\ pc[t] = "destroy"
    /\ value' = INT_MIN
    /\ Goto(t, "idle")
    /\ UNCHANGED <<waiters, mode, v, rc, late>>

SemInit(t) ==
    /\ \A u \in Thread : pc[u] = "idle"
    /\ value = INT_MIN
    /\ value' = Initial
    /\ waiters' = 0
    /\ UNCHANGED <<pc, mode, v, rc, late>>

-----------------------------------------------------------------------------

Init ==
    /\ value = Initial
    /\ waiters = 0
    /\ pc = [t \in Thread |-> "idle"]
    /\ mode = [t \in Thread |-> "wait"]
    /\ v = [t \in Thread |-> 0]
    /\ rc = [t \in Thread |-> 0]
    /\ late = {}

(* The steps of the code; when to call is the application's business, when *)
(* a wait ends without a post is the kernel's.                             *)
Step(t) ==
    \/ PostWake(t) \/ DestroyStore(t)
    \/ TryWaitTake(t) \/ TryWaitRetry(t) \/ TryWaitFail(t)
    \/ WaitEnter(t) \/ WaitLoad(t) \/ WaitAbort(t) \/ WaitFutex(t) \/ WaitTake(t) \/ WaitCleanup(t)

Next ==
    \E t \in Thread :
        \/ SemPost(t) \/ SemCall(t) \/ DestroyCheck(t) \/ SemInit(t)
        \/ Step(t) \/ WaitSpurious(t) \/ WaitFail(t)

Spec == Init /\ [][Next]_vars

(* Every thread that is not asleep is scheduled.                           *)
FairSpec == Spec /\ \A t \in Thread : WF_vars(Step(t))

-----------------------------------------------------------------------------
(* Properties                                                              *)

Pc == {"idle", "wake", "trywait", "destroy"} \union WaitingPc

(* Every variable has its type; the value is INT_MIN once destroyed.       *)
TypeOK ==
    /\ value \in Nat \union {INT_MIN}
    /\ waiters \in Nat
    /\ pc \in [Thread -> Pc]
    /\ mode \in [Thread -> {"trywait", "wait"}]
    /\ v \in [Thread -> Nat \union {INT_MIN}]
    /\ rc \in [Thread -> {-1, 0, 1}]
    /\ late \subseteq Thread

(* sem_waiters counts exactly the threads in the blocking part, however    *)
(* their wait ends, so that sem_destroy() may rely on it.                  *)
WaitersCounted == waiters = Cardinality(Waiting)

(* sem_destroy() never takes the semaphore away from a thread that was     *)
(* blocked when it was called, which would sleep for ever or trip over the *)
(* INT_MIN in the value. That does happen to a thread that begins to block *)
(* between the look at sem_waiters and the store of INT_MIN, or later: it  *)
(* is for the application to keep the two apart.                           *)
NotDestroyedUnderWaiter == value < 0 => Waiting \subseteq late

(* Wakes are not swallowed by waiters that are interrupted, cancelled or   *)
(* too late: while someone sleeps, there are as many posters about to wake *)
(* and awake waiters as there are units to take.                           *)
NoLostWakeup ==
    Sleeping # {} =>
        value <= Cardinality({t \in Thread : pc[t] = "wake"})
                 + Cardinality(Waiting \ Sleeping)

(* Units and sleepers do not stay together: when a thread sleeps although  *)
(* units are left, it is woken or the units are taken by others.           *)
Progress == (Sleeping # {} /\ value > 0) ~> (Sleeping = {} \/ value <= 0)

(* The value, with what the calls return, is an abstract semaphore.        *)
S == INSTANCE Semaphore WITH
        count <- IF value < 0 THEN -1 ELSE value,
        got <- {t \in Thread : rc[t] = 1}
ImplementsSemaphore == S!Spec

(* The bookkeeping of sem_timedwait() and sem_destroy().                   *)
SemInv == TypeOK /\ WaitersCounted /\ NotDestroyedUnderWaiter
=============================================================================
