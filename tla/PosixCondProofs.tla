-------------------------- MODULE PosixCondProofs --------------------------
(***************************************************************************)
(* Proofs about the condition variable of PosixCond and the monitor built  *)
(* on it, for all finite sets of producers and consumers: _waiters is      *)
(* exact, whoever is in the monitor owns its mutex, no signal is lost, and *)
(* a shared condition variable is not destroyed under a waiter.            *)
(***************************************************************************)
EXTENDS PosixCond, TLAPS, FiniteSetTheorems

(* The producers' part of the exclusion.                                   *)
ProducerExclusion ==
    \A t \in Producer :
        /\ pc[t] \in {"put", "unlock", "destroy"} => owner = t
        /\ pc[t] = "put" => put < MaxItems

(* Before a consumer gives the mutex up to sleep the monitor is empty, as  *)
(* it has seen; the sequence number only grows, and _waited is set before  *)
(* anyone waits.                                                           *)
WaitInv ==
    /\ \A t \in Consumer :
          /\ pc[t] \in {"testcancel", "enter", "unlock_to_wait"} => items = 0
          /\ seq1[t] <= sequence
          /\ pc[t] \in {"testcancel", "enter"} \/ t \in Waiting => waited
    /\ pc \in [Thread -> ConsumerPc \union ProducerPc]

MonitorInv == CondInv /\ ProducerExclusion /\ WaitInv

(* The consumers that have not noticed a change of the sequence number.    *)
Unaware ==
    {t \in Consumer : pc[t] \in {"futex", "asleep", "changed"} /\ seq1[t] = sequence}

(* The threads that will see to an item: a consumer awake, or a signal.    *)
Helping == Signalling \union Awake

(* The same, of the signals only those that have yet to change the number. *)
Coming == {t \in Producer : pc[t] = "signal"} \union Awake

(* A sleeping consumer can rely on every signal under way. One that has    *)
(* read the present sequence number cannot rely on signals that changed it *)
(* before; it saw that their items were gone.                              *)
SignalInv ==
    /\ Sleeping # {} => items <= Cardinality(Helping)
    /\ Unaware # {} => items <= Cardinality(Coming)

IInv == MonitorInv /\ SignalInv

-----------------------------------------------------------------------------
(* Counting                                                                *)

(* Sets of threads are finite and have a cardinality.                      *)
LEMMA ThreadSets ==
    ASSUME NEW S \in SUBSET Thread
    PROVE  IsFiniteSet(S) /\ Cardinality(S) \in Nat /\ (Cardinality(S) = 0 <=> S = {})
<1>1. IsFiniteSet(Thread)
  BY RoleAssumption, FS_Union DEF Thread
<1>2. QED
  BY <1>1, FS_Subset, FS_CardinalityType, FS_EmptySet

(* One more thread counts one more.                                        *)
LEMMA OneMore ==
    ASSUME NEW S \in SUBSET Thread, NEW t \in Thread, t \notin S
    PROVE  Cardinality(S \union {t}) = Cardinality(S) + 1
BY ThreadSets, FS_AddElement

(* One thread less counts one less.                                        *)
LEMMA OneLess ==
    ASSUME NEW S \in SUBSET Thread, NEW t \in S
    PROVE  Cardinality(S \ {t}) = Cardinality(S) - 1
BY ThreadSets, FS_RemoveElement

(* A part counts no more than the whole.                                   *)
LEMMA NoMore ==
    ASSUME NEW S \in SUBSET Thread, NEW T \in SUBSET S
    PROVE  Cardinality(T) <= Cardinality(S)
BY ThreadSets, FS_Subset

-----------------------------------------------------------------------------
(* The monitor                                                             *)

(* Every step keeps the count of the waiters and the exclusion.            *)
LEMMA StepKeepsMonitorInv ==
    ASSUME MonitorInv, [Next]_vars PROVE MonitorInv'
<1> USE CondAssumption, RoleAssumption
    DEF MonitorInv, CondInv, TypeOK, WaitersCounted, MonitorExclusion, ProducerExclusion, WaitInv,
        ConsumerPc, ProducerPc, WaitingPc, Thread, Goto, Lock, Unlock, monitor
<1>0. Cardinality(Waiting) \in Nat /\ (Cardinality(Waiting) = 0 <=> Waiting = {})
  <2>1. Waiting \in SUBSET Thread
    BY DEF Waiting
  <2>2. QED
    BY <2>1, ThreadSets
<1>1. CASE UNCHANGED vars
  BY <1>1 DEF vars, Waiting
<1>2. ASSUME NEW t \in Consumer, ConsumerLock(t) PROVE MonitorInv'
  <2>1. Waiting' = Waiting
    BY <1>2 DEF ConsumerLock, Waiting
  <2>2. QED
    BY <1>2, <2>1 DEF ConsumerLock
<1>3. ASSUME NEW t \in Consumer, ConsumerTake(t) PROVE MonitorInv'
  <2>1. Waiting' = Waiting
    BY <1>3 DEF ConsumerTake, Waiting
  <2>2. owner = t /\ items > 0
    BY <1>3 DEF ConsumerTake
  <2>3. QED
    BY <1>3, <2>1, <2>2 DEF ConsumerTake
<1>4. ASSUME NEW t \in Consumer, ConsumerGiveUp(t) PROVE MonitorInv'
  <2>1. Waiting' = Waiting
    BY <1>4 DEF ConsumerGiveUp, Waiting
  <2>2. QED
    BY <1>4, <2>1 DEF ConsumerGiveUp
<1>5. ASSUME NEW t \in Thread, MonitorUnlock(t) PROVE MonitorInv'
  <2>1. Waiting' = Waiting
    BY <1>5 DEF MonitorUnlock, Waiting
  <2>2. owner = t
    BY <1>5 DEF MonitorUnlock
  <2>3. QED
    BY <1>5, <2>1, <2>2 DEF MonitorUnlock
<1>6. ASSUME NEW t \in Consumer, WaitFirst(t) PROVE MonitorInv'
  <2>1. Waiting' = Waiting
    BY <1>6 DEF WaitFirst, Waiting
  <2>2. QED
    BY <1>6, <2>1 DEF WaitFirst
<1>7. ASSUME NEW t \in Consumer, WaitTestCancel(t) \/ WaitSequence(t) PROVE MonitorInv'
  <2>1. Waiting' = Waiting
    BY <1>7 DEF WaitTestCancel, WaitSequence, Waiting
  <2>2. QED
    BY <1>7, <2>1 DEF WaitTestCancel, WaitSequence
<1>8. ASSUME NEW t \in Consumer, WaitEnter(t) PROVE MonitorInv'
  <2>1. Waiting' = Waiting \union {t} /\ t \notin Waiting
    BY <1>8 DEF WaitEnter, Waiting
  <2>2. Cardinality(Waiting') = Cardinality(Waiting) + 1
    BY <2>1, OneMore DEF Waiting
  <2>3. QED
    BY <1>8, <2>1, <2>2 DEF WaitEnter
<1>9. ASSUME NEW t \in Consumer, WaitUnlock(t) PROVE MonitorInv'
  <2>1. Waiting' = Waiting
    BY <1>9 DEF WaitUnlock, Waiting
  <2>2. QED
    BY <1>9, <2>1 DEF WaitUnlock
<1>10. ASSUME NEW t \in Consumer,
              WaitFutex(t) \/ WaitChanged(t) \/ WaitInterrupted(t) \/ WaitExpired(t)
       PROVE  MonitorInv'
  <2>1. Waiting' = Waiting
    BY <1>10 DEF WaitFutex, WaitChanged, WaitInterrupted, WaitExpired, Waiting
  <2>2. QED
    BY <1>10, <2>1 DEF WaitFutex, WaitChanged, WaitInterrupted, WaitExpired
<1>11. ASSUME NEW t \in Consumer, WaitLock(t) PROVE MonitorInv'
  <2>1. Waiting' = Waiting
    BY <1>11 DEF WaitLock, Waiting
  <2>2. QED
    BY <1>11, <2>1 DEF WaitLock
<1>12. ASSUME NEW t \in Consumer, WaitLeave(t) PROVE MonitorInv'
  <2>1. Waiting' = Waiting \ {t} /\ t \in Waiting
    BY <1>12 DEF WaitLeave, Waiting
  <2>2. Cardinality(Waiting') = Cardinality(Waiting) - 1
    BY <2>1, OneLess DEF Waiting
  <2>3. QED
    BY <1>0, <1>12, <2>1, <2>2 DEF WaitLeave
<1>13. ASSUME NEW t \in Producer, ProducerLock(t) PROVE MonitorInv'
  <2>1. Waiting' = Waiting
    BY <1>13 DEF ProducerLock, Waiting
  <2>2. QED
    BY <1>13, <2>1 DEF ProducerLock
<1>14. ASSUME NEW t \in Producer, ProducerPut(t) PROVE MonitorInv'
  <2>1. Waiting' = Waiting
    BY <1>14 DEF ProducerPut, Waiting
  <2>2. owner = t
    BY <1>14 DEF ProducerPut
  <2>3. QED
    BY <1>14, <2>1, <2>2 DEF ProducerPut
<1>15. ASSUME NEW t \in Producer, SignalUnused(t) \/ SignalSequence(t) \/ SignalLoad(t)
       PROVE  MonitorInv'
  <2>1. Waiting' = Waiting
    BY <1>15 DEF SignalUnused, SignalSequence, SignalLoad, Waiting
  <2>2. QED
    BY <1>15, <2>1 DEF SignalUnused, SignalSequence, SignalLoad, SignalReturn
<1>16. ASSUME NEW t \in Producer, SignalWake(t) PROVE MonitorInv'
  <2>1. Waiting' = Waiting
    BY <1>16 DEF SignalWake, Waiting, Sleeping
  <2>2. QED
    BY <1>16, <2>1 DEF SignalWake, SignalReturn, Sleeping
<1>17. ASSUME NEW t \in Thread, DestroyCheck(t) \/ CondDestroy(t) PROVE MonitorInv'
  <2>1. Waiting' = Waiting
    BY <1>17 DEF DestroyCheck, CondDestroy, Waiting
  <2>2. owner = t
    BY <1>17 DEF DestroyCheck, CondDestroy
  <2>3. QED
    BY <1>17, <2>1, <2>2 DEF DestroyCheck, CondDestroy
<1>18. QED
  BY <1>1, <1>2, <1>3, <1>4, <1>5, <1>6, <1>7, <1>8, <1>9, <1>10, <1>11, <1>12, <1>13, <1>14,
     <1>15, <1>16, <1>17 DEF Next, ConsumerStep, ProducerStep

-----------------------------------------------------------------------------
(* Signals                                                                 *)

(* Both sets of helpers are finite, now and after a step.                  *)
LEMMA HelpersFinite ==
    /\ Helping \in SUBSET Thread /\ Coming \in SUBSET Helping
    /\ Cardinality(Helping) \in Nat /\ Cardinality(Coming) \in Nat
    /\ Cardinality(Coming) <= Cardinality(Helping)
<1>1. Helping \in SUBSET Thread /\ Coming \in SUBSET Helping
  BY DEF Helping, Coming, Signalling, Awake, Thread
<1>2. Coming \in SUBSET Thread
  BY <1>1
<1>3. QED
  BY <1>1, <1>2, ThreadSets, NoMore

(* A step that puts no item, takes nobody's help away and makes nobody     *)
(* sleep or unaware keeps the invariant.                                   *)
LEMMA HelpKept ==
    ASSUME SignalInv, items \in Nat, items' = items,
           Helping \subseteq Helping', Coming \subseteq Coming',
           Sleeping' \subseteq Sleeping, Unaware' \subseteq Unaware
    PROVE  SignalInv'
<1>1. Helping' \in SUBSET Thread /\ Coming' \in SUBSET Thread
  BY DEF Helping, Coming, Signalling, Awake, Thread
<1>2. Cardinality(Helping) <= Cardinality(Helping') /\ Cardinality(Coming) <= Cardinality(Coming')
  BY <1>1, NoMore
<1>3. Cardinality(Helping') \in Nat /\ Cardinality(Coming') \in Nat
  BY <1>1, ThreadSets
<1>4. QED
  BY <1>2, <1>3, HelpersFinite DEF SignalInv

(* An empty monitor needs no help.                                         *)
LEMMA NothingToDo == ASSUME items' = 0 PROVE SignalInv'
<1>1. Helping' \in SUBSET Thread /\ Coming' \in SUBSET Thread
  BY DEF Helping, Coming, Signalling, Awake, Thread
<1>2. Cardinality(Helping') \in Nat /\ Cardinality(Coming') \in Nat
  BY <1>1, ThreadSets
<1>3. QED
  BY <1>2 DEF SignalInv

(* Every step keeps a helper for every item.                               *)
LEMMA StepKeepsSignalInv ==
    ASSUME IInv, [Next]_vars PROVE SignalInv'
<1> USE RoleAssumption
    DEF IInv, MonitorInv, CondInv, TypeOK, WaitInv, Thread, Goto, monitor
<1>0. /\ Helping \in SUBSET Thread /\ Coming \in SUBSET Thread
      /\ Cardinality(Helping) \in Nat /\ Cardinality(Coming) \in Nat
      /\ Cardinality(Coming) <= Cardinality(Helping)
  BY HelpersFinite
<1>1. CASE UNCHANGED vars
  <2>1. /\ Helping' = Helping /\ Coming' = Coming
        /\ Sleeping' = Sleeping /\ Unaware' = Unaware /\ items' = items
    BY <1>1 DEF vars, Helping, Coming, Signalling, Awake, Sleeping, Unaware
  <2>2. QED
    BY <2>1 DEF SignalInv
<1>2. ASSUME NEW t \in Consumer,
             ConsumerLock(t) \/ WaitTestCancel(t) \/ WaitSequence(t) \/ WaitEnter(t)
      PROVE  SignalInv'
  <2> USE DEF ConsumerLock, WaitTestCancel, WaitSequence, WaitEnter
  <2>1. Helping \subseteq Helping' /\ Coming \subseteq Coming'
    BY <1>2 DEF Helping, Coming, Signalling, Awake
  <2>2. Sleeping' \subseteq Sleeping /\ Unaware' \subseteq Unaware
    BY <1>2 DEF Sleeping, Unaware
  <2>3. items' = items
    BY <1>2
  <2>4. QED
    BY <2>1, <2>2, <2>3, HelpKept
<1>3. ASSUME NEW t \in Consumer, ConsumerTake(t) PROVE SignalInv'
  <2>1. /\ t \in Awake /\ Awake' = Awake \ {t} /\ Signalling' = Signalling
        /\ {u \in Producer : pc[u] = "signal"}' = {u \in Producer : pc[u] = "signal"}
        /\ t \notin Signalling
    BY <1>3 DEF ConsumerTake, Awake, Signalling
  <2>2. /\ t \in Helping /\ Helping' = Helping \ {t}
        /\ t \in Coming /\ Coming' = Coming \ {t}
    BY <2>1 DEF Helping, Coming
  <2>3. /\ Cardinality(Helping') = Cardinality(Helping) - 1
        /\ Cardinality(Coming') = Cardinality(Coming) - 1
    BY <1>0, <2>2, OneLess
  <2>4. Sleeping' = Sleeping /\ Unaware' = Unaware /\ items' = items - 1
    BY <1>3 DEF ConsumerTake, Sleeping, Unaware
  <2>5. QED
    BY <1>0, <2>3, <2>4 DEF SignalInv
<1>4. ASSUME NEW t \in Consumer, ConsumerGiveUp(t) \/ WaitFirst(t) \/ WaitUnlock(t)
      PROVE  SignalInv'
  <2>1. items' = 0
    BY <1>4 DEF ConsumerGiveUp, WaitFirst, WaitUnlock
  <2>2. QED
    BY <2>1, NothingToDo
<1>5. ASSUME NEW t \in Thread, MonitorUnlock(t) PROVE SignalInv'
  <2>1. Helping \subseteq Helping' /\ Coming \subseteq Coming'
    BY <1>5 DEF MonitorUnlock, Helping, Coming, Signalling, Awake
  <2>2. Sleeping' \subseteq Sleeping /\ Unaware' \subseteq Unaware /\ items' = items
    BY <1>5 DEF MonitorUnlock, Sleeping, Unaware
  <2>3. QED
    BY <2>1, <2>2, HelpKept
<1>6. ASSUME NEW t \in Consumer, WaitFutex(t) PROVE SignalInv'
  <2>1. Helping' = Helping /\ Coming' = Coming
    BY <1>6 DEF WaitFutex, Helping, Coming, Signalling, Awake
  <2>2. Unaware' = Unaware /\ items' = items
    BY <1>6 DEF WaitFutex, Unaware
  <2>3. CASE sequence = seq1[t]
    <3>1. t \in Unaware
      BY <1>6, <2>3 DEF WaitFutex, Unaware
    <3>2. QED
      BY <1>0, <2>1, <2>2, <3>1 DEF SignalInv
  <2>4. CASE sequence # seq1[t]
    <3>1. Sleeping' = Sleeping
      BY <1>6, <2>4 DEF WaitFutex, Sleeping
    <3>2. QED
      BY <2>1, <2>2, <3>1 DEF SignalInv
  <2>5. QED
    BY <2>3, <2>4
<1>7. ASSUME NEW t \in Consumer,
             \/ WaitInterrupted(t) \/ WaitExpired(t) \/ WaitChanged(t)
             \/ WaitLock(t) \/ WaitLeave(t)
      PROVE  SignalInv'
  <2> USE DEF WaitInterrupted, WaitExpired, WaitChanged, WaitLock, WaitLeave
  <2>1. Helping \subseteq Helping' /\ Coming \subseteq Coming'
    BY <1>7 DEF Helping, Coming, Signalling, Awake
  <2>2. Sleeping' \subseteq Sleeping /\ Unaware' \subseteq Unaware
    BY <1>7 DEF Sleeping, Unaware
  <2>3. items' = items
    BY <1>7
  <2>4. QED
    BY <2>1, <2>2, <2>3, HelpKept
<1>8. ASSUME NEW t \in Producer, ProducerLock(t) PROVE SignalInv'
  <2>1. Helping \subseteq Helping' /\ Coming \subseteq Coming'
    BY <1>8 DEF ProducerLock, Helping, Coming, Signalling, Awake
  <2>2. Sleeping' \subseteq Sleeping /\ Unaware' \subseteq Unaware /\ items' = items
    BY <1>8 DEF ProducerLock, Sleeping, Unaware
  <2>3. QED
    BY <2>1, <2>2, HelpKept
<1>9. ASSUME NEW t \in Producer, ProducerPut(t) PROVE SignalInv'
  <2>1. pc' = [pc EXCEPT ![t] = "signal"] /\ pc[t] = "put" /\ items' = items + 1
        /\ UNCHANGED <<seq1, sequence>>
    BY <1>9 DEF ProducerPut
  <2>2. Helping' = Helping \union {t} /\ t \notin Helping
    BY <2>1 DEF Helping, Signalling, Awake
  <2>3. Coming' = Coming \union {t} /\ t \notin Coming
    BY <2>1 DEF Coming, Awake
  <2>4. Sleeping' = Sleeping /\ Unaware' = Unaware
    BY <2>1 DEF Sleeping, Unaware
  <2>5. /\ Cardinality(Helping') = Cardinality(Helping) + 1
        /\ Cardinality(Coming') = Cardinality(Coming) + 1
    BY <1>0, <2>2, <2>3, OneMore
  <2>6. QED
    BY <1>0, <2>1, <2>4, <2>5 DEF SignalInv
<1>10. ASSUME NEW t \in Producer, SignalUnused(t) PROVE SignalInv'
  <2>1. Sleeping = {} /\ Unaware = {}
    BY <1>10 DEF SignalUnused, Sleeping, Unaware, Waiting, WaitingPc
  <2>2. Sleeping' = Sleeping /\ Unaware' = Unaware
    BY <1>10 DEF SignalUnused, Sleeping, Unaware
  <2>3. QED
    BY <2>1, <2>2 DEF SignalInv
<1>11. ASSUME NEW t \in Producer, SignalSequence(t) PROVE SignalInv'
  <2>1. Awake \subseteq Awake'
    BY <1>11 DEF SignalSequence, Awake
  <2>2. Helping \subseteq Helping'
    BY <1>11, <2>1 DEF SignalSequence, Helping, Signalling
  <2>3. Sleeping' = Sleeping /\ Unaware' = {} /\ items' = items
    BY <1>11 DEF SignalSequence, Sleeping, Unaware
  <2>4. Helping' \in SUBSET Thread
    BY DEF Helping, Signalling, Awake
  <2>5. Cardinality(Helping) <= Cardinality(Helping') /\ Cardinality(Helping') \in Nat
    BY <2>2, <2>4, NoMore, ThreadSets
  <2>6. QED
    BY <1>0, <2>3, <2>5 DEF SignalInv
<1>12. ASSUME NEW t \in Producer, SignalLoad(t) PROVE SignalInv'
  <2>1. Sleeping' = Sleeping /\ Unaware' = Unaware /\ items' = items
    BY <1>12 DEF SignalLoad, Sleeping, Unaware
  <2>2. CASE waiters = 0
    <3>1. Waiting = {}
      <4>1. Waiting \in SUBSET Thread
        BY DEF Waiting
      <4>2. QED
        BY <2>2, <4>1, ThreadSets DEF WaitersCounted
    <3>2. Sleeping = {} /\ Unaware = {}
      BY <3>1 DEF Sleeping, Unaware, Waiting, WaitingPc
    <3>3. QED
      BY <2>1, <3>2 DEF SignalInv
  <2>3. CASE waiters # 0
    <3>1. Helping' = Helping /\ Coming' = Coming
      BY <1>12, <2>3 DEF SignalLoad, Helping, Coming, Signalling, Awake
    <3>2. QED
      BY <2>1, <3>1 DEF SignalInv
  <2>4. QED
    BY <2>2, <2>3
<1>13. ASSUME NEW t \in Producer, SignalWake(t) PROVE SignalInv'
  <2>1. PICK W \in SUBSET Sleeping :
          /\ IF all[t] \/ Sleeping = {} THEN W = Sleeping ELSE Cardinality(W) = 1
          /\ pc' = [u \in Thread |-> IF u = t THEN SignalReturn(t)
                                    ELSE IF u \in W THEN "leave" ELSE pc[u]]
    BY <1>13 DEF SignalWake
  <2>2. pc[t] = "signal_wake" /\ items' = items /\ UNCHANGED <<seq1, sequence>>
    BY <1>13 DEF SignalWake
  <2>3. SignalReturn(t) \in {"idle", "unlock"}
    BY DEF SignalReturn
  <2>4. W \in SUBSET Consumer /\ t \notin W
    BY DEF Sleeping
  <2>5. Awake' = Awake \union W /\ Awake \cap W = {}
    BY <2>1, <2>2, <2>4 DEF Awake, Sleeping
  <2>6. Signalling' = Signalling \ {t} /\ t \in Signalling /\ t \notin Awake
    BY <2>1, <2>2, <2>3, <2>4 DEF Signalling, Awake
  <2>7. {u \in Producer : pc[u] = "signal"}' = {u \in Producer : pc[u] = "signal"}
    BY <2>1, <2>2, <2>3, <2>4
  <2>8. Sleeping' = Sleeping \ W /\ Unaware' \subseteq Unaware
    BY <2>1, <2>2, <2>3, <2>4 DEF Sleeping, Unaware
  <2>9. Unaware' # {} => items' <= Cardinality(Coming')
    <3>1. Coming \subseteq Coming' /\ Coming' \in SUBSET Thread
      BY <2>4, <2>5, <2>7 DEF Coming, Awake
    <3>2. Cardinality(Coming) <= Cardinality(Coming') /\ Cardinality(Coming') \in Nat
      BY <3>1, NoMore, ThreadSets
    <3>3. QED
      BY <1>0, <2>2, <2>8, <3>2 DEF SignalInv
  <2>10. Sleeping' # {} => items' <= Cardinality(Helping')
    <3> SUFFICES ASSUME Sleeping' # {} PROVE items' <= Cardinality(Helping')
      OBVIOUS
    <3>1. Sleeping # {} /\ Cardinality(W) = 1
      BY <2>1, <2>8
    <3>2. PICK u : u \in W
      <4>0. Cardinality({}) = 0
        BY FS_EmptySet
      <4>1. W # {}
        BY <3>1, <4>0
      <4>2. QED
        BY <4>1
    <3>3. u \in Consumer /\ u \notin Producer /\ u # t /\ u \notin Awake
      BY <2>4, <2>5, <3>2
    <3>4. u \in Thread /\ u \notin Helping
      BY <3>3 DEF Helping, Signalling
    <3>5. (Helping \ {t}) \union {u} \subseteq Helping' /\ Helping' \in SUBSET Thread
      BY <2>4, <2>5, <2>6, <3>2 DEF Helping, Signalling, Awake
    <3>6. Cardinality((Helping \ {t}) \union {u}) = Cardinality(Helping \ {t}) + 1
      BY <1>0, <3>4, OneMore
    <3>7. Cardinality(Helping \ {t}) = Cardinality(Helping) - 1
      BY <1>0, <2>6, OneLess DEF Helping
    <3>8. Cardinality((Helping \ {t}) \union {u}) <= Cardinality(Helping')
          /\ Cardinality(Helping') \in Nat
      BY <3>5, NoMore, ThreadSets
    <3>9. QED
      BY <1>0, <2>2, <3>1, <3>6, <3>7, <3>8 DEF SignalInv
  <2>11. QED
    BY <2>9, <2>10 DEF SignalInv
<1>14. ASSUME NEW t \in Thread, DestroyCheck(t) \/ CondDestroy(t) PROVE SignalInv'
  <2>1. /\ Helping' = Helping /\ Coming' = Coming
        /\ Sleeping' = Sleeping /\ Unaware' = Unaware /\ items' = items
    BY <1>14 DEF DestroyCheck, CondDestroy, Helping, Coming, Signalling, Awake, Sleeping, Unaware
  <2>2. QED
    BY <2>1 DEF SignalInv
<1>15. QED
  BY <1>1, <1>2, <1>3, <1>4, <1>5, <1>6, <1>7, <1>8, <1>9, <1>10, <1>11, <1>12, <1>13, <1>14
     DEF Next, ConsumerStep, ProducerStep

-----------------------------------------------------------------------------

(* The invariant holds in every reachable state.                           *)
LEMMA Invariance == Spec => []IInv
<1>1. Init => IInv
  <2> SUFFICES ASSUME Init PROVE IInv
    OBVIOUS
  <2>1. Waiting = {} /\ Sleeping = {} /\ Unaware = {}
    BY DEF Init, Waiting, WaitingPc, Sleeping, Unaware, Thread
  <2>2. Cardinality(Waiting) = 0
    BY <2>1, FS_EmptySet
  <2>3. CondInv
    <3>1. TypeOK
      <4>1. all \in [Producer -> BOOLEAN] /\ seq1 \in [Consumer -> Nat]
        BY DEF Init
      <4>2. put \in 0..MaxItems
        BY CondAssumption DEF Init
      <4>3. \A t \in Thread : pc[t] = "idle"
        BY DEF Init
      <4>4. QED
        BY <4>1, <4>2, <4>3 DEF Init, TypeOK, ConsumerPc, ProducerPc, Thread
    <3>2. WaitersCounted /\ MonitorExclusion
      BY <2>2 DEF Init, WaitersCounted, MonitorExclusion, Thread
    <3>3. QED
      BY <3>1, <3>2 DEF CondInv
  <2>4. ProducerExclusion /\ WaitInv
    BY <2>1 DEF Init, ProducerExclusion, WaitInv, ConsumerPc, Thread
  <2>5. QED
    BY <2>1, <2>3, <2>4 DEF IInv, MonitorInv, SignalInv
<1>2. IInv /\ [Next]_vars => IInv'
  BY StepKeepsMonitorInv, StepKeepsSignalInv DEF IInv
<1>3. QED
  BY <1>1, <1>2, PTL DEF Spec

(* _waiters is the number of threads that have yet to leave                *)
(* pthread_cond_timedwait(), and a consumer is inside the monitor only     *)
(* with its mutex, whether its wait ended by a signal, its deadline, a     *)
(* cancelation or an interrupt.                                            *)
THEOREM MonitorKept == Spec => []CondInv
<1>1. IInv => CondInv
  BY DEF IInv, MonitorInv
<1>2. QED
  BY <1>1, Invariance, PTL

(* pthread_cond_signal() and pthread_cond_broadcast() lose no wake: while  *)
(* a consumer sleeps, every item has a signal on its way or a consumer     *)
(* awake for it.                                                           *)
THEOREM SignalNotLost == Spec => []NoLostSignal
<1>1. IInv => NoLostSignal
  <2> SUFFICES ASSUME IInv, Sleeping # {}
               PROVE  items <= Cardinality(Signalling) + Cardinality(Awake)
    BY DEF NoLostSignal
  <2>1. Signalling \in SUBSET Thread /\ Awake \in SUBSET Thread
    BY DEF Signalling, Awake, Thread
  <2>2. Signalling \cap Awake = {}
    BY RoleAssumption DEF Signalling, Awake
  <2>3. Cardinality(Helping)
            = Cardinality(Signalling) + Cardinality(Awake) - Cardinality(Signalling \cap Awake)
    BY <2>1, ThreadSets, FS_Union DEF Helping
  <2>4. Cardinality(Signalling \cap Awake) = 0
    BY <2>2, FS_EmptySet
  <2>5. Cardinality(Signalling) \in Nat /\ Cardinality(Awake) \in Nat
    BY <2>1, ThreadSets
  <2>6. QED
    BY <2>3, <2>4, <2>5 DEF IInv, SignalInv
<1>2. QED
  BY <1>1, Invariance, PTL

(* From the moment pthread_cond_destroy() finds no waiters on, consumers   *)
(* are out of the monitor, but for the one that may be destroying it.      *)
Over ==
    ~alive \/ (\E t \in Thread : pc[t] = "destroy") =>
        \A t \in Consumer : pc[t] \in {"idle", "unlock", "destroy"}

(* pthread_cond_destroy() of a process shared condition variable, called   *)
(* in the monitor, overwrites it only when nobody is inside                *)
(* pthread_cond_timedwait(), and nobody gets inside afterwards.            *)
THEOREM NotDestroyedUnderWaiter ==
    ASSUME ~Private PROVE Spec => []NoUseAfterDestroy
<1>1. Init => Over
  BY DEF Init, Over, Thread
<1>2. IInv /\ Over /\ [Next]_vars => Over'
  <2> SUFFICES ASSUME IInv, Over, [Next]_vars PROVE Over'
    OBVIOUS
  <2>0. /\ pc \in [Thread -> ConsumerPc \union ProducerPc] /\ alive \in BOOLEAN
        /\ \A t \in Consumer : pc[t] \in ConsumerPc
    BY DEF IInv, MonitorInv, CondInv, TypeOK, WaitInv
  <2>1. \A t \in Thread : pc[t] \in {"destroy", "unlock"} => owner = t
    BY DEF IInv, MonitorInv, CondInv, MonitorExclusion, ProducerExclusion, Thread
  <2>2. CASE UNCHANGED vars
    BY <2>2 DEF vars, Over
  <2> USE RoleAssumption DEF Goto, Thread, Over
  <2>3. ASSUME NEW t \in Consumer, ConsumerLock(t) PROVE Over'
    <3>1. alive' /\ \A u \in Thread : pc[u] # "destroy"
      BY <2>1, <2>3 DEF ConsumerLock, Lock
    <3>2. QED
      BY <2>0, <2>3, <3>1 DEF ConsumerLock
  <2>4. ASSUME NEW t \in Consumer,
               \/ ConsumerTake(t) \/ ConsumerGiveUp(t) \/ WaitFirst(t) \/ WaitSequence(t)
               \/ WaitTestCancel(t) \/ WaitEnter(t) \/ WaitUnlock(t) \/ WaitFutex(t)
               \/ WaitInterrupted(t) \/ WaitChanged(t) \/ WaitExpired(t) \/ WaitLock(t)
               \/ WaitLeave(t)
        PROVE  Over'
    <3>1. pc[t] \notin {"idle", "unlock", "destroy"} /\ alive' = alive
      BY <2>4 DEF ConsumerTake, ConsumerGiveUp, WaitFirst, WaitSequence, WaitTestCancel, WaitEnter,
            WaitUnlock, WaitFutex, WaitInterrupted, WaitChanged, WaitExpired, WaitLock, WaitLeave
    <3>2. PICK l \in {"unlock", "testcancel", "enter", "check", "check_last"} \union WaitingPc :
            pc' = [pc EXCEPT ![t] = l]
      BY <2>4 DEF ConsumerTake, ConsumerGiveUp, WaitFirst, WaitSequence, WaitTestCancel, WaitEnter,
            WaitUnlock, WaitFutex, WaitInterrupted, WaitChanged, WaitExpired, WaitLock, WaitLeave,
            WaitingPc
    <3>3. l # "destroy"
      BY DEF WaitingPc
    <3>4. QED
      BY <2>0, <3>1, <3>2, <3>3
  <2>5. ASSUME NEW t \in Thread, MonitorUnlock(t) PROVE Over'
    BY <2>0, <2>5 DEF MonitorUnlock
  <2>6. ASSUME NEW t \in Producer,
               \/ ProducerLock(t) \/ ProducerPut(t) \/ SignalUnused(t) \/ SignalSequence(t)
               \/ SignalLoad(t)
        PROVE  Over'
    <3>1. alive' = alive
      BY <2>6 DEF ProducerLock, ProducerPut, SignalUnused, SignalSequence, SignalLoad
    <3>2. PICK l \in {"put", "signal", "signal_load", "signal_wake", "idle", "unlock"} :
            pc' = [pc EXCEPT ![t] = l]
      BY <2>6 DEF ProducerLock, ProducerPut, SignalUnused, SignalSequence, SignalLoad, SignalReturn
    <3>3. QED
      BY <2>0, <3>1, <3>2
  <2>7. ASSUME NEW t \in Producer, SignalWake(t) PROVE Over'
    <3>1. alive' = alive
      BY <2>7 DEF SignalWake
    <3>2. PICK W \in SUBSET Sleeping :
            pc' = [u \in Thread |-> IF u = t THEN SignalReturn(t)
                                   ELSE IF u \in W THEN "leave" ELSE pc[u]]
      BY <2>7 DEF SignalWake
    <3>3. SignalReturn(t) \in {"idle", "unlock"}
      BY DEF SignalReturn
    <3>4. \A u \in W : u \in Consumer /\ pc[u] = "asleep"
      BY DEF Sleeping
    <3>5. QED
      BY <2>0, <3>1, <3>2, <3>3, <3>4
  <2>8. ASSUME NEW t \in Thread, DestroyCheck(t) PROVE Over'
    <3>1. waiters = 0 /\ Waiting \in SUBSET Thread
      BY <2>8 DEF DestroyCheck, Waiting
    <3>2. Waiting = {}
      BY <3>1, ThreadSets DEF IInv, MonitorInv, CondInv, WaitersCounted
    <3>3. owner = t /\ pc' = [pc EXCEPT ![t] = "destroy"]
      BY <2>1, <2>8 DEF DestroyCheck
    <3>4. \A u \in Consumer : u # t => pc[u] = "idle"
      BY <2>0, <3>2, <3>3
         DEF IInv, MonitorInv, CondInv, MonitorExclusion, Waiting, WaitingPc, ConsumerPc
    <3>5. QED
      BY <2>0, <3>3, <3>4
  <2>9. ASSUME NEW t \in Thread, CondDestroy(t) PROVE Over'
    BY <2>0, <2>9 DEF CondDestroy
  <2> HIDE DEF Over
  <2>10. QED
    BY <2>2, <2>3, <2>4, <2>5, <2>6, <2>7, <2>8, <2>9 DEF Next, ConsumerStep, ProducerStep
<1>3. Over => NoUseAfterDestroy
  BY DEF Over, NoUseAfterDestroy, WaitingPc
<1>4. QED
  BY <1>1, <1>2, <1>3, Invariance, PTL DEF Spec

=============================================================================
