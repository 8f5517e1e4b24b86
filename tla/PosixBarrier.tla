---------------------------- MODULE PosixBarrier ----------------------------
(***************************************************************************)
(* pthread_barrier_t: three counters, two of which are futexes. A thread   *)
(* takes a ticket from _entered and waits until _round has reached it.     *)
(* Tickets run up to a limit, the largest multiple of _count that is at    *)
(* most BARRIER_MAX; the last thread to exit resets the counters, and the  *)
(* threads that drew a ticket beyond the limit sleep on _entered until     *)
(* then. The code is libc/thread/pthread_barrier_{init,wait,destroy}.c.    *)
(* Each atomic operation and each futex call is one step.                  *)
(***************************************************************************)
EXTENDS Integers, FiniteSets

CONSTANTS
    Thread,
    Count,       \* the count given to pthread_barrier_init()
    BARRIER_MAX,
    Destroyer,   \* the threads that may call pthread_barrier_destroy()
    EarlyDestroy \* whether they may while a round still lacks threads

(* pthread_barrier_init() returns EINVAL for any other count.              *)
ASSUME CountAssumption ==
    /\ BARRIER_MAX \in Nat /\ Count \in Nat
    /\ 0 < Count /\ Count < BARRIER_MAX
    /\ IsFiniteSet(Thread) /\ Destroyer \subseteq Thread
    /\ EarlyDestroy \in BOOLEAN

VARIABLES
    entered, exited, round, \* b->_entered, b->_exited, b->_round
    pc,                     \* what each thread does next
    ticket, seen,           \* its local variables entered and round
    balance                 \* ghost: returns, less Count for each serial one

vars == <<entered, exited, round, pc, ticket, seen, balance>>

(* The local variable max of wait() and destroy().                         *)
Limit_Ragged == BARRIER_MAX
Limit == BARRIER_MAX - (BARRIER_MAX % Count)

Complete(n) == n - (n % Count) \* the last ticket of the rounds that n completes

(* A thread is outside when pthread_barrier_wait() has returned 0 (idle)   *)
(* or PTHREAD_BARRIER_SERIAL_THREAD (serial), inside from taking a valid   *)
(* ticket until it is counted in _exited, and leaving after that.          *)
OutsidePc == {"idle", "serial"}
InsidePc == {"load", "cas", "wake", "wait", "sleep", "reload", "exit"}
LeavingPc == {"reset_round", "reset_exited", "reset_entered", "reset_wake", "result"}
EnteringPc == {"enter", "over", "over_sleep", "over_reload"}
DestroyPc == {"destroy", "destroy_add", "destroy_wait", "destroy_sleep",
              "destroy_reload", "destroyed"}

At(P) == {t \in Thread : pc[t] \in P}

Goto(t, l) == pc' = [pc EXCEPT ![t] = l]

-----------------------------------------------------------------------------
(* cosmo_futex_wait() and cosmo_futex_wake()                               *)

AfterSleep == [sleep |-> "reload", over_sleep |-> "over_reload",
               destroy_sleep |-> "destroy_reload"]

(* The kernel puts the caller to sleep at s only if the word still holds   *)
(* the expected value.                                                     *)
FutexWait(t, s, word, expect) ==
    Goto(t, IF word = expect THEN s ELSE AfterSleep[s])

(* Everyone asleep in S, the waiters of one futex, is woken.               *)
FutexWake(t, l, S) ==
    pc' = [u \in Thread |-> IF u = t THEN l
                            ELSE IF pc[u] \in S THEN AfterSleep[pc[u]]
                            ELSE pc[u]]

FutexInterrupted(t) == \* EINTR
    /\ pc[t] \in DOMAIN AfterSleep
    /\ Goto(t, AfterSleep[pc[t]])
    /\ UNCHANGED <<entered, exited, round, ticket, seen, balance>>

-----------------------------------------------------------------------------
(* pthread_barrier_wait()                                                  *)

(* Once someone destroys the barrier, the only calls that the application  *)
(* still makes are those that the threads inside wait for.                 *)
Awaited ==
    /\ EarlyDestroy /\ At({"destroyed"}) = {}
    /\ (entered + Cardinality(At({"enter"}))) % Count # 0

Call(t) ==
    /\ pc[t] \in OutsidePc
    /\ At(DestroyPc) = {} \/ Awaited
    /\ Goto(t, "enter")
    /\ UNCHANGED <<entered, exited, round, ticket, seen, balance>>

(* Of a ticket beyond the limit _round is loaded too, and not used.        *)
Enter(t) ==
    /\ pc[t] = "enter"
    /\ entered' = entered + 1
    /\ ticket' = [ticket EXCEPT ![t] = entered + 1]
    /\ Goto(t, IF entered + 1 <= Limit THEN "load" ELSE "over")
    /\ UNCHANGED <<exited, round, seen, balance>>

OverWait(t) ==
    /\ pc[t] = "over"
    /\ FutexWait(t, "over_sleep", entered, ticket[t])
    /\ UNCHANGED <<entered, exited, round, ticket, seen, balance>>

OverReload(t) ==
    /\ pc[t] = "over_reload"
    /\ ticket' = [ticket EXCEPT ![t] = entered]
    /\ Goto(t, IF entered > Limit THEN "over" ELSE "enter")
    /\ UNCHANGED <<entered, exited, round, seen, balance>>

(* The conditions of the two loops, after round was assigned r.            *)
Advance(t, r) == IF r + Count <= ticket[t] THEN "cas" ELSE IF ticket[t] > r THEN "wait" ELSE "exit"

LoadRound(t) ==
    /\ pc[t] = "load"
    /\ seen' = [seen EXCEPT ![t] = round]
    /\ Goto(t, Advance(t, round))
    /\ UNCHANGED <<entered, exited, round, ticket, balance>>

(* Compare and exchange _round; a failure loads it.                        *)
CasRound_PlainStore(t) ==
    LET next == Complete(ticket[t])
    IN /\ pc[t] = "cas"
       /\ round' = next
       /\ seen' = [seen EXCEPT ![t] = next]
       /\ Goto(t, "wake")
       /\ UNCHANGED <<entered, exited, ticket, balance>>
CasRound(t) ==
    LET next == Complete(ticket[t])
    IN /\ pc[t] = "cas"
       /\ round' = IF round = seen[t] THEN next ELSE round
       /\ seen' = [seen EXCEPT ![t] = round']
       /\ Goto(t, IF round = seen[t] THEN "wake" ELSE Advance(t, round))
       /\ UNCHANGED <<entered, exited, ticket, balance>>

WakeRound(t) ==
    /\ pc[t] = "wake"
    /\ FutexWake(t, IF ticket[t] <= seen[t] THEN "exit" ELSE "wait", {"sleep"})
    /\ UNCHANGED <<entered, exited, round, ticket, seen, balance>>

RoundWait(t) ==
    /\ pc[t] = "wait"
    /\ FutexWait(t, "sleep", round, seen[t])
    /\ UNCHANGED <<entered, exited, round, ticket, seen, balance>>

RoundReload(t) ==
    /\ pc[t] = "reload"
    /\ seen' = [seen EXCEPT ![t] = round]
    /\ Goto(t, IF ticket[t] > round THEN "wait" ELSE "exit")
    /\ UNCHANGED <<entered, exited, round, ticket, balance>>

-----------------------------------------------------------------------------
(* pthread_barrier_exit()                                                  *)

Exit(t) ==
    /\ pc[t] = "exit"
    /\ exited' = exited + 1
    /\ Goto(t, IF exited + 1 = Limit THEN "reset_round" ELSE "result")
    /\ UNCHANGED <<entered, round, ticket, seen, balance>>

ResetRound_Forgotten(t) ==
    /\ pc[t] = "reset_round"
    /\ Goto(t, "reset_exited")
    /\ UNCHANGED <<entered, exited, round, ticket, seen, balance>>
ResetRound(t) ==
    /\ pc[t] = "reset_round"
    /\ round' = 0
    /\ Goto(t, "reset_exited")
    /\ UNCHANGED <<entered, exited, ticket, seen, balance>>

ResetExited(t) ==
    /\ pc[t] = "reset_exited"
    /\ exited' = 0
    /\ Goto(t, "reset_entered")
    /\ UNCHANGED <<entered, round, ticket, seen, balance>>

ResetEntered(t) ==
    /\ pc[t] = "reset_entered"
    /\ entered' = 0
    /\ Goto(t, "reset_wake")
    /\ UNCHANGED <<exited, round, ticket, seen, balance>>

ResetWake(t) ==
    /\ pc[t] = "reset_wake"
    /\ FutexWake(t, "result", {"over_sleep", "destroy_sleep"})
    /\ UNCHANGED <<entered, exited, round, ticket, seen, balance>>

(* Reads _count once more to tell the serial thread from the others.       *)
Result_RoundSeen(t) ==
    LET serial == seen[t] = ticket[t]
    IN /\ pc[t] = "result"
       /\ Goto(t, IF serial THEN "serial" ELSE "idle")
       /\ balance' = balance + (IF serial THEN 1 - Count ELSE 1)
       /\ UNCHANGED <<entered, exited, round, ticket, seen>>
Result(t) ==
    LET serial == ticket[t] % Count = 0
    IN /\ pc[t] = "result"
       /\ Goto(t, IF serial THEN "serial" ELSE "idle")
       /\ balance' = balance + (IF serial THEN 1 - Count ELSE 1)
       /\ UNCHANGED <<entered, exited, round, ticket, seen>>

-----------------------------------------------------------------------------
(* pthread_barrier_destroy(), when nobody is on its way into the barrier.  *)
(* The code has no guard. Unless EarlyDestroy, the application calls it    *)
(* when everyone inside has been released; otherwise it relies on the      *)
(* doc comment, "Rather than returning EBUSY if the barrier has waiters,   *)
(* this will block until completion", and calls it with waiters inside.    *)

NoWaiters == \A t \in At(InsidePc) : ticket[t] <= Complete(entered)

Destroy(t) ==
    /\ t \in Destroyer /\ pc[t] \in OutsidePc
    /\ At(DestroyPc) = {} /\ At(EnteringPc) = {}
    /\ EarlyDestroy \/ NoWaiters
    /\ ticket' = [ticket EXCEPT ![t] = entered]
    /\ Goto(t, "destroy_add")
    /\ UNCHANGED <<entered, exited, round, seen, balance>>

DestroyAdd_AtMost(t) ==
    /\ pc[t] = "destroy_add"
    /\ exited' = exited + (Limit - ticket[t])
    /\ Goto(t, IF exited <= ticket[t] /\ ticket[t] # 0 THEN "destroy_wait" ELSE "destroyed")
    /\ UNCHANGED <<entered, round, ticket, seen, balance>>
DestroyAdd(t) ==
    /\ pc[t] = "destroy_add"
    /\ exited' = exited + (Limit - ticket[t])
    /\ Goto(t, IF exited < ticket[t] THEN "destroy_wait" ELSE "destroyed")
    /\ UNCHANGED <<entered, round, ticket, seen, balance>>

DestroyWait(t) ==
    /\ pc[t] = "destroy_wait"
    /\ FutexWait(t, "destroy_sleep", entered, ticket[t])
    /\ UNCHANGED <<entered, exited, round, ticket, seen, balance>>

DestroyReload(t) ==
    /\ pc[t] = "destroy_reload"
    /\ ticket' = [ticket EXCEPT ![t] = entered]
    /\ Goto(t, IF entered # 0 THEN "destroy_wait" ELSE "destroyed")
    /\ UNCHANGED <<entered, exited, round, seen, balance>>

-----------------------------------------------------------------------------

(* pthread_barrier_init()                                                  *)
Init ==
    /\ entered = 0 /\ exited = 0 /\ round = 0
    /\ pc = [t \in Thread |-> "idle"]
    /\ ticket = [t \in Thread |-> 0]
    /\ seen = [t \in Thread |-> 0]
    /\ balance = 0

(* The steps of a call, once made.                                         *)
Step(t) ==
    \/ Enter(t) \/ OverWait(t) \/ OverReload(t)
    \/ LoadRound(t) \/ CasRound(t) \/ WakeRound(t) \/ RoundWait(t) \/ RoundReload(t)
    \/ Exit(t) \/ ResetRound(t) \/ ResetExited(t) \/ ResetEntered(t) \/ ResetWake(t)
    \/ Result(t) \/ DestroyAdd(t) \/ DestroyWait(t) \/ DestroyReload(t)

Next == \E t \in Thread : Call(t) \/ Destroy(t) \/ Step(t) \/ FutexInterrupted(t)

Spec == Init /\ [][Next]_vars

(* Every thread that can run is scheduled. Nothing makes a thread call, or *)
(* a sleeping one return by itself.                                        *)
FairSpec == Spec /\ \A t \in Thread : WF_vars(Step(t))

-----------------------------------------------------------------------------
(* Properties                                                              *)

(* The counters stay below BARRIER_MAX but for one ticket of every thread  *)
(* beyond the limit, so the unsigned words never wrap around.              *)
TypeOK ==
    /\ entered \in 0..(Limit + Cardinality(Thread))
    /\ exited \in 0..Limit
    /\ round \in 0..Limit
    /\ pc \in [Thread -> OutsidePc \cup InsidePc \cup LeavingPc \cup EnteringPc \cup DestroyPc]
    /\ ticket \in [Thread -> 0..(Limit + Cardinality(Thread))]
    /\ seen \in [Thread -> 0..Limit]
    /\ balance \in Int

(* Exactly one thread of every round is told that it is the serial one:    *)
(* whenever nobody is inside pthread_barrier_wait(), Count calls have      *)
(* returned for each one that returned PTHREAD_BARRIER_SERIAL_THREAD.      *)
OneSerialPerRound == At(OutsidePc) = Thread => balance = 0

(* The tickets implement the abstract barrier: across the reset of the     *)
(* counters nobody is let through before its round is complete.            *)
Last == IF entered <= Limit THEN entered ELSE Limit
B == INSTANCE Barrier WITH
    waiting <- {t \in At(InsidePc) : ticket[t] > Complete(Last)},
    released <- {t \in At(InsidePc) : ticket[t] <= Complete(Last)}
ImplementsBarrier == B!Spec

(* A thread whose round is complete returns from pthread_barrier_wait():   *)
(* the wake on _round cannot be missed.                                    *)
ReleasedReturn ==
    \A t \in Thread :
        pc[t] \in InsidePc /\ ticket[t] <= Complete(Last) ~> pc[t] \in OutsidePc

(* A thread that sleeps on a ticket beyond the limit is woken: the reset   *)
(* happens, whichever thread has to do it, and its wake is not missed. (It *)
(* may find the next tickets drawn by others, and sleep again.)            *)
OverLimitWakes == \A t \in Thread : pc[t] = "over_sleep" ~> pc[t] # "over_sleep"

(* When pthread_barrier_destroy() returns every waiter has been released   *)
(* and counted as exited. This holds of a destroy that is called once all  *)
(* waiters have been released (~EarlyDestroy), and of no other.            *)
DestroyAfterExits == At({"destroyed"}) # {} => At(InsidePc) = {}

(* pthread_barrier_destroy() returns once the waiters have been released.  *)
DestroyReturns == \A t \in Thread : pc[t] \in DestroyPc ~> pc[t] = "destroyed"

(* pthread_barrier_destroy() blocks until completion: once it has returned *)
(* no thread waits in the barrier, and no call reads or writes it.         *)
NoUseAfterDestroy == At({"destroyed"}) # {} => At(InsidePc \cup LeavingPc) = {}

(* The counters stay in range, rounds have one serial thread, and a        *)
(* destroy that is called after all waiters have been released returns     *)
(* only when nobody is inside.                                             *)
BarrierInv == TypeOK /\ OneSerialPerRound /\ DestroyAfterExits
=============================================================================
