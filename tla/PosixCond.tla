------------------------------ MODULE PosixCond ------------------------------
(***************************************************************************)
(* Condition variables where nsync cannot be used (process shared ones,    *)
(* recursive mutexes, Apple Silicon): pthread_cond_timedwait_impl(),       *)
(* pthread_cond_signal(), pthread_cond_broadcast() and                     *)
(* pthread_cond_destroy() of libc/thread, a sequence number that a waiter  *)
(* reads under the mutex and sleeps on. They are composed with a mutex and *)
(* with the program they are for: producers put items into a monitor and   *)
(* consumers wait for one in a loop. Each atomic access is one step.       *)
(***************************************************************************)
EXTENDS Integers, FiniteSets

CONSTANTS
    Producer, Consumer,
    Private, \* the condition variable is process private, its mutex recursive
    MaxItems \* bound: items the producers put altogether

ASSUME CondAssumption == Private \in BOOLEAN /\ MaxItems \in Nat

Thread == Producer \union Consumer
Nobody == "nobody"

ASSUME RoleAssumption ==
    /\ IsFiniteSet(Producer) /\ IsFiniteSet(Consumer)
    /\ Producer \cap Consumer = {} /\ Nobody \notin Thread

VARIABLES
    owner,    \* the thread that holds the mutex, or Nobody
    waited,   \* cond->_waited
    sequence, \* cond->_sequence
    waiters,  \* cond->_waiters
    items,    \* items in the monitor
    put,      \* items put so far
    pc,       \* what each thread does next
    seq1,     \* the sequence number a waiter read
    all,      \* the producer broadcasts
    alive     \* pthread_cond_destroy() has not succeeded

monitor == <<items, put>>
vars == <<owner, waited, sequence, waiters, items, put, pc, seq1, all, alive>>

Goto(t, l) == pc' = [pc EXCEPT ![t] = l]

Sleeping == {t \in Consumer : pc[t] = "asleep"}

(* The threads counted in _waiters.                                        *)
WaitingPc == {"unlock_to_wait", "futex", "asleep", "changed",
              "leave", "leave_last", "left", "left_last"}
Waiting == {t \in Consumer : pc[t] \in WaitingPc}

Signalling == {t \in Producer : pc[t] \in {"signal", "signal_load", "signal_wake"}}

(* pthread_mutex_lock() and pthread_mutex_unlock()                         *)
Lock(t) == owner = Nobody /\ owner' = t
Unlock(t) == owner' = Nobody

-----------------------------------------------------------------------------
(* A consumer: while there is no item it waits; it gives up when the wait  *)
(* ended by its deadline or its cancelation and there still is no item.    *)

ConsumerLock(t) ==
    /\ pc[t] = "idle" /\ alive
    /\ Lock(t)
    /\ Goto(t, "check")
    /\ UNCHANGED <<waited, sequence, waiters, monitor, seq1, all, alive>>

ConsumerTake(t) ==
    /\ pc[t] \in {"check", "check_last"} /\ items > 0
    /\ items' = items - 1
    /\ Goto(t, "unlock")
    /\ UNCHANGED <<owner, waited, sequence, waiters, put, seq1, all, alive>>

ConsumerGiveUp(t) ==
    /\ pc[t] = "check_last" /\ items = 0
    /\ Goto(t, "unlock")
    /\ UNCHANGED <<owner, waited, sequence, waiters, monitor, seq1, all, alive>>

MonitorUnlock(t) ==
    /\ pc[t] = "unlock"
    /\ Unlock(t)
    /\ Goto(t, "idle")
    /\ UNCHANGED <<waited, sequence, waiters, monitor, seq1, all, alive>>

-----------------------------------------------------------------------------
(* pthread_cond_timedwait()                                                *)

WaitFirst(t) ==
    /\ pc[t] = "check" /\ items = 0
    /\ waited' = TRUE
    /\ Goto(t, "testcancel")
    /\ UNCHANGED <<owner, sequence, waiters, monitor, seq1, all, alive>>

WaitTestCancel(t) == \* pthread_testcancel_np(): ECANCELED before waiting
    /\ pc[t] = "testcancel"
    /\ Goto(t, "check_last")
    /\ UNCHANGED <<owner, waited, sequence, waiters, monitor, seq1, all, alive>>

WaitSequence(t) ==
    /\ pc[t] = "testcancel"
    /\ seq1' = [seq1 EXCEPT ![t] = sequence]
    /\ Goto(t, "enter")
    /\ UNCHANGED <<owner, waited, sequence, waiters, monitor, all, alive>>

WaitEnter_Uncounted(t) ==
    /\ pc[t] = "enter"
    /\ Goto(t, "unlock_to_wait")
    /\ UNCHANGED <<owner, waited, sequence, waiters, monitor, seq1, all, alive>>
WaitEnter(t) ==
    /\ pc[t] = "enter"
    /\ waiters' = waiters + 1
    /\ Goto(t, "unlock_to_wait")
    /\ UNCHANGED <<owner, waited, sequence, monitor, seq1, all, alive>>

WaitUnlock(t) ==
    /\ pc[t] = "unlock_to_wait"
    /\ Unlock(t)
    /\ Goto(t, "futex")
    /\ UNCHANGED <<waited, sequence, waiters, monitor, seq1, all, alive>>

(* cosmo_futex_wait(): EAGAIN if the sequence moved on, asleep otherwise.  *)
WaitFutex_Unchecked(t) ==
    /\ pc[t] = "futex"
    /\ Goto(t, "asleep")
    /\ UNCHANGED <<owner, waited, sequence, waiters, monitor, seq1, all, alive>>
WaitFutex(t) ==
    /\ pc[t] = "futex"
    /\ Goto(t, IF sequence = seq1[t] THEN "asleep" ELSE "changed")
    /\ UNCHANGED <<owner, waited, sequence, waiters, monitor, seq1, all, alive>>

WaitInterrupted(t) == \* EINTR
    /\ pc[t] \in {"futex", "asleep"}
    /\ Goto(t, "changed")
    /\ UNCHANGED <<owner, waited, sequence, waiters, monitor, seq1, all, alive>>

(* After EAGAIN and EINTR the wait goes on unless the sequence changed.    *)
WaitChanged(t) ==
    /\ pc[t] = "changed"
    /\ Goto(t, IF sequence = seq1[t] THEN "futex" ELSE "leave")
    /\ UNCHANGED <<owner, waited, sequence, waiters, monitor, seq1, all, alive>>

(* ETIMEDOUT, ECANCELED, or the thread is cancelled for good, perhaps      *)
(* before the kernel has looked at the sequence.                           *)
WaitExpired(t) ==
    /\ pc[t] \in {"futex", "asleep"}
    /\ Goto(t, "leave_last")
    /\ UNCHANGED <<owner, waited, sequence, waiters, monitor, seq1, all, alive>>

(* pthread_cond_leave(), which is also the cleanup handler                 *)
WaitLock_Unlocked(t) ==
    /\ pc[t] \in {"leave", "leave_last"}
    /\ IF pc[t] = "leave" THEN Lock(t) ELSE UNCHANGED owner
    /\ Goto(t, IF pc[t] = "leave" THEN "left" ELSE "left_last")
    /\ UNCHANGED <<waited, sequence, waiters, monitor, seq1, all, alive>>
WaitLock(t) ==
    /\ pc[t] \in {"leave", "leave_last"}
    /\ Lock(t)
    /\ Goto(t, IF pc[t] = "leave" THEN "left" ELSE "left_last")
    /\ UNCHANGED <<waited, sequence, waiters, monitor, seq1, all, alive>>

WaitLeave(t) ==
    /\ pc[t] \in {"left", "left_last"}
    /\ waiters' = waiters - 1
    /\ Goto(t, IF pc[t] = "left" THEN "check" ELSE "check_last")
    /\ UNCHANGED <<owner, waited, sequence, monitor, seq1, all, alive>>

-----------------------------------------------------------------------------
(* A producer puts an item and signals, either before or after it unlocks. *)

ProducerLock(t) ==
    /\ pc[t] = "idle" /\ alive /\ put < MaxItems
    /\ Lock(t)
    /\ \E b \in BOOLEAN : all' = [all EXCEPT ![t] = b]
    /\ Goto(t, "put")
    /\ UNCHANGED <<waited, sequence, waiters, monitor, seq1, alive>>

ProducerPut(t) ==
    /\ pc[t] = "put"
    /\ items' = items + 1
    /\ put' = put + 1
    /\ \/ Goto(t, "signal") /\ UNCHANGED owner
       \/ Goto(t, "signal") /\ Unlock(t)
    /\ UNCHANGED <<waited, sequence, waiters, seq1, all, alive>>

-----------------------------------------------------------------------------
(* pthread_cond_signal() and pthread_cond_broadcast()                      *)

SignalReturn(t) == IF owner = t THEN "unlock" ELSE "idle"

SignalUnused(t) == \* nobody ever waited
    /\ pc[t] = "signal" /\ ~waited
    /\ Goto(t, SignalReturn(t))
    /\ UNCHANGED <<owner, waited, sequence, waiters, monitor, seq1, all, alive>>

SignalSequence_Forgotten(t) ==
    /\ pc[t] = "signal" /\ waited
    /\ Goto(t, "signal_load")
    /\ UNCHANGED <<owner, waited, sequence, waiters, monitor, seq1, all, alive>>
SignalSequence(t) ==
    /\ pc[t] = "signal" /\ waited
    /\ sequence' = sequence + 1
    /\ Goto(t, "signal_load")
    /\ UNCHANGED <<owner, waited, waiters, monitor, seq1, all, alive>>

SignalLoad(t) ==
    /\ pc[t] = "signal_load"
    /\ Goto(t, IF waiters = 0 THEN SignalReturn(t) ELSE "signal_wake")
    /\ UNCHANGED <<owner, waited, sequence, waiters, monitor, seq1, all, alive>>

(* cosmo_futex_wake(&cond->_sequence, 1 or INT_MAX)                        *)
SignalWake(t) ==
    /\ pc[t] = "signal_wake"
    /\ \E W \in SUBSET Sleeping :
          /\ IF all[t] \/ Sleeping = {} THEN W = Sleeping ELSE Cardinality(W) = 1
          /\ pc' = [u \in Thread |-> IF u = t THEN SignalReturn(t)
                                    ELSE IF u \in W THEN "leave" ELSE pc[u]]
    /\ UNCHANGED <<owner, waited, sequence, waiters, monitor, seq1, all, alive>>

-----------------------------------------------------------------------------
(* pthread_cond_destroy(), called in the monitor by a thread that knows of *)
(* no signal still to come from outside of it. It refuses (EINVAL) while   *)
(* there are waiters; for a private condition variable it looks at nsync's *)
(* waiters, and there are none. Otherwise it overwrites the object.        *)

DestroyCheck(t) ==
    /\ pc[t] = "unlock" /\ alive
    /\ Signalling = {}
    /\ Private \/ waiters = 0
    /\ Goto(t, "destroy")
    /\ UNCHANGED <<owner, waited, sequence, waiters, monitor, seq1, all, alive>>

CondDestroy(t) ==
    /\ pc[t] = "destroy"
    /\ alive' = FALSE
    /\ Goto(t, "unlock")
    /\ UNCHANGED <<owner, waited, sequence, waiters, monitor, seq1, all>>

-----------------------------------------------------------------------------

Init ==
    /\ owner = Nobody
    /\ waited = FALSE
    /\ sequence = 0
    /\ waiters = 0
    /\ items = 0
    /\ put = 0
    /\ pc = [t \in Thread |-> "idle"]
    /\ seq1 = [t \in Consumer |-> 0]
    /\ all = [t \in Producer |-> FALSE]
    /\ alive = TRUE

(* The steps of the library, and of the program inside the monitor.        *)
ConsumerStep(t) ==
    \/ ConsumerTake(t) \/ ConsumerGiveUp(t) \/ CondDestroy(t) \/ MonitorUnlock(t)
    \/ WaitFirst(t) \/ WaitSequence(t) \/ WaitEnter(t) \/ WaitUnlock(t)
    \/ WaitFutex(t) \/ WaitChanged(t) \/ WaitLock(t) \/ WaitLeave(t)

ProducerStep(t) ==
    \/ ProducerPut(t) \/ CondDestroy(t) \/ MonitorUnlock(t)
    \/ SignalUnused(t) \/ SignalSequence(t) \/ SignalLoad(t) \/ SignalWake(t)

Next ==
    \/ \E t \in Consumer :
          ConsumerLock(t) \/ ConsumerStep(t)
          \/ WaitTestCancel(t) \/ WaitInterrupted(t) \/ WaitExpired(t)
    \/ \E t \in Producer : ProducerLock(t) \/ ProducerStep(t)
    \/ \E t \in Thread : DestroyCheck(t)

Spec == Init /\ [][Next]_vars

(* Every thread that is not asleep is scheduled. The mutex need not be     *)
(* fair.                                                                   *)
FairSpec ==
    /\ Spec
    /\ \A t \in Consumer : WF_vars(ConsumerStep(t))
    /\ \A t \in Producer : WF_vars(ProducerStep(t))

-----------------------------------------------------------------------------
(* Properties                                                              *)

ConsumerPc == {"idle", "check", "check_last", "unlock", "testcancel", "enter", "destroy"}
              \union WaitingPc
ProducerPc == {"idle", "put", "signal", "signal_load", "signal_wake", "unlock", "destroy"}

(* Every variable has its type.                                            *)
TypeOK ==
    /\ owner \in Thread \union {Nobody}
    /\ waited \in BOOLEAN /\ alive \in BOOLEAN
    /\ sequence \in Nat /\ waiters \in Nat /\ items \in Nat /\ put \in 0..MaxItems
    /\ \A t \in Consumer : pc[t] \in ConsumerPc
    /\ \A t \in Producer : pc[t] \in ProducerPc
    /\ seq1 \in [Consumer -> Nat]
    /\ all \in [Producer -> BOOLEAN]

(* Whatever ends a wait, the thread is in the monitor with the mutex held, *)
(* and nobody else is.                                                     *)
MonitorExclusion ==
    \A t \in Consumer :
        pc[t] \in {"check", "check_last", "unlock", "testcancel", "enter", "destroy",
                  "unlock_to_wait", "left", "left_last"} => owner = t

(* _waiters counts exactly the threads that will still touch the condition *)
(* variable, so that a signal that reads 0 has nobody to wake.             *)
WaitersCounted == waiters = Cardinality(Waiting)

(* A consumer that will look at the items again.                           *)
Awake ==
    {t \in Consumer :
        \/ pc[t] \in {"check", "check_last", "leave", "leave_last", "left", "left_last"}
        \/ pc[t] \in {"futex", "changed"} /\ seq1[t] # sequence}

(* Signals are neither lost between the unlock of a waiter and its sleep   *)
(* nor swallowed by one that is interrupted, cancelled or too late: while  *)
(* a consumer sleeps, every item has a signal on its way or a consumer     *)
(* awake for it.                                                           *)
NoLostSignal ==
    Sleeping # {} => items <= Cardinality(Signalling) + Cardinality(Awake)

(* Items and sleeping consumers do not stay together.                      *)
Progress == (Sleeping # {} /\ items > 0) ~> (Sleeping = {} \/ items = 0)

(* Once pthread_cond_destroy() has overwritten the object nobody is inside *)
(* pthread_cond_timedwait(), and would read or write it: not a thread that *)
(* is signalled and has yet to leave, nor one that was on its way in when  *)
(* destroy looked at _waiters. A waiter is counted before it gives up the  *)
(* mutex, and counted out when it holds it again.                          *)
NoUseAfterDestroy ==
    ~alive => \A t \in Consumer : pc[t] \notin {"testcancel", "enter"} \union WaitingPc

(* The bookkeeping of the waiters, and the promise of a monitor.           *)
CondInv == TypeOK /\ WaitersCounted /\ MonitorExclusion
=============================================================================
