-------------------------- MODULE PosixMutexProofs --------------------------
(***************************************************************************)
(* Proofs about PosixMutex. That nesting is counted is proved for every    *)
(* behaviour. What error checking mutexes promise holds as long as no      *)
(* tib_locks runs out of slots: a thread that has more mutexes than slots  *)
(* loses track of what it holds. That is the hypothesis Roomy; it is       *)
(* proved of programs with no more such mutexes than there are slots. And  *)
(* nobody unlocks mutexes of others that are not in static memory, where   *)
(* the code does not check it: the hypothesis ~Misuse.                     *)
(***************************************************************************)
EXTENDS PosixMutex, FiniteSetTheorems, TLAPS

(* A tib_locks has no free slot only if nothing is left to be locked.      *)
RoomyFor(t) == Full(t) => \A l \in ErrorCheck : Holder(l) = t
Roomy == \A t \in Thread : RoomyFor(t)

(* A thread that unlocks a mutex that is not in static memory holds it.    *)
Disciplined ==
    \A t \in Thread :
        At(t, "unlock") /\ self[t].mutex \in Dynamic => Holder(self[t].mutex) = t

Pcs == {"idle", "check", "acquire", "record", "insert", "unlock",
        "load", "rec_lock", "rec_spin", "rec_unlock"}
Recording(t) == self[t].pc \in {"record", "insert"}

(* What a thread works on at each program counter.                         *)
PcInv ==
    \A t \in Thread :
        /\ self[t].pc \in {"check", "acquire", "record", "insert", "unlock"} =>
              self[t].mutex \in ErrorCheck
        /\ self[t].pc \in {"load", "rec_lock", "rec_spin", "rec_unlock"} =>
              self[t].mutex \in Recursive
        /\ At(t, "record") => self[t].i \in 1..(Slots + 1)
        /\ At(t, "insert") =>
              /\ self[t].i \in 1..Slots
              /\ tib_locks[t][self[t].i] \notin {None, self[t].mutex}

BaseInv == TypeOK /\ PcInv /\ NestCounted

(* A tib_locks lists what the thread holds, once.                          *)
TrackInv ==
    /\ \A t \in Thread, i \in 1..Slots :
          tib_locks[t][i] # None => Holder(tib_locks[t][i]) = t
    /\ \A t \in Thread, i, j \in 1..Slots :
          tib_locks[t][i] = tib_locks[t][j] /\ tib_locks[t][i] # None => i = j
    /\ \A t \in Thread, l \in ErrorCheck : Holder(l) = t => Listed(t, l)
    /\ \A t \in Thread : Recording(t) => Holder(self[t].mutex) = t

(* A thread that waits for l has seen no edge from l to what it holds.     *)
CheckedInv ==
    \A t \in Thread, h \in ErrorCheck :
        At(t, "acquire") /\ Holder(self[t].mutex) # t /\ Holder(h) = t =>
            <<self[t].mutex, h>> \notin edges

(* Every nesting is an edge, or will be one before the thread releases     *)
(* either mutex, or the edges are used up.                                 *)
PendingBy(u, h, l) ==
    /\ Recording(u) /\ self[u].mutex = l /\ Holder(h) = u
    /\ \E j \in 1..Slots : self[u].i <= j /\ tib_locks[u][j] = h
RecordInv ==
    \A h, l \in ErrorCheck :
        <<h, l>> \in nested =>
            \/ <<h, l>> \in edges
            \/ allocated = LOCK_EDGES_MAX
            \/ \E u \in Thread : PendingBy(u, h, l)

(* What a thread is recording is nested, and not the other way.            *)
NewInv ==
    \A t \in Thread, h \in ErrorCheck :
        Recording(t) /\ Holder(h) = t /\ h # self[t].mutex =>
            /\ <<h, self[t].mutex>> \in nested
            /\ <<self[t].mutex, h>> \notin nested \/ allocated = LOCK_EDGES_MAX

(* Only nestings become edges, and no mutex is nested in itself.           *)
GraphInv ==
    /\ edges \subseteq nested
    /\ \A l \in ErrorCheck : <<l, l>> \notin nested

OrderInv == CheckedInv /\ RecordInv /\ NewInv /\ GraphInv /\ OneWayNesting
IInv == BaseInv /\ TrackInv /\ NoSelfDeadlock /\ OrderInv


-----------------------------------------------------------------------------
(* What the actions do to the state of the thread that takes them          *)

LocalState ==
    [pc : Pcs, f : {"lock", "trylock", "clocklock", "unlock", None},
     mutex : Lock \union {None}, word : Word, i : 0..(Slots + 1)]

(* Only the state of thread t changes, and it keeps its type.              *)
Local(t) ==
    /\ self' \in [Thread -> LocalState]
    /\ \A u \in Thread : u # t => self'[u] = self[u]

(* A free mutex has a word of the right type.                              *)
LEMMA FreeTyped == Free \in Word /\ Free.owner = None /\ Free.depth = 0
BY MutexAssumption DEF Free, Word

(* The state of a thread by its fields.                                    *)
LEMMA SelfTyped ==
    ASSUME TypeOK, NEW t \in Thread
    PROVE  /\ self \in [Thread -> LocalState] /\ self[t] \in LocalState
           /\ self[t].mutex \in Lock \union {None} /\ self[t].word \in Word
           /\ self[t].i \in 0..(Slots + 1) /\ self[t].pc \in Pcs
BY DEF TypeOK, LocalState, Pcs

(* A call that returns leaves its thread idle.                             *)
LEMMA ReturnEffect ==
    ASSUME TypeOK, NEW t \in Thread, Return(t)
    PROVE  Local(t) /\ self'[t].pc = "idle"
<1>1. Idle \in LocalState /\ Idle.pc = "idle"
  BY FreeTyped, MutexAssumption DEF Idle, LocalState, Pcs
<1> QED  BY <1>1, SelfTyped DEF Return, Local

(* A jump changes the program counter only.                                *)
LEMMA GotoEffect ==
    ASSUME TypeOK, NEW t \in Thread, NEW p \in Pcs, Goto(t, p)
    PROVE  /\ Local(t) /\ self'[t].pc = p /\ self'[t].mutex = self[t].mutex
           /\ self'[t].i = self[t].i /\ self'[t].f = self[t].f
           /\ self'[t].word = self[t].word
BY SelfTyped DEF Goto, Local, LocalState

(* A load copies the word of the mutex.                                    *)
LEMMA LoadEffect ==
    ASSUME TypeOK, NEW t \in Thread, NEW p \in Pcs, Load(t, p),
           self[t].mutex \in Lock
    PROVE  /\ Local(t) /\ self'[t].pc = p /\ self'[t].mutex = self[t].mutex
           /\ self'[t].word = word[self[t].mutex]
<1>1. word[self[t].mutex] \in Word
  BY DEF TypeOK
<1> QED  BY <1>1, SelfTyped DEF Load, Local, LocalState

-----------------------------------------------------------------------------
(* Types and nesting depths, in every behaviour                            *)

(* What remains to be shown when only the state of one thread changes, and *)
(* it does not go to record or insert.                                     *)
LEMMA BaseLocal ==
    ASSUME BaseInv, NEW t \in Thread, Local(t),
           UNCHANGED <<word, graph, tib_locks, nested, nest>>,
           self'[t].pc \in {"check", "acquire", "unlock"} => self'[t].mutex \in ErrorCheck,
           self'[t].pc \in {"load", "rec_lock", "rec_spin", "rec_unlock"} =>
               self'[t].mutex \in Recursive,
           self'[t].pc \notin {"record", "insert"}
    PROVE  BaseInv'
<1> USE DEF BaseInv
<1>1. TypeOK'
  BY DEF TypeOK, Local, LocalState, Pcs, Word, graph
<1>2. PcInv'
  BY DEF PcInv, Local, At
<1>3. NestCounted'
  BY DEF NestCounted, Holder
<1> QED  BY <1>1, <1>2, <1>3

(* A call.                                                                 *)
LEMMA BaseCall ==
    ASSUME BaseInv, NEW t \in Thread, Call(t)
    PROVE  BaseInv'
<1> USE DEF BaseInv
<1>1. PICK l \in Lock, f \in {"lock", "trylock", "clocklock", "unlock"} :
          self' = [self EXCEPT ![t].f = f, ![t].mutex = l, ![t].pc =
                      IF l \in Recursive THEN "load"
                      ELSE IF f = "unlock" THEN "unlock" ELSE "check"]
  BY DEF Call
<1>2. Local(t) /\ self'[t].mutex = l
      /\ self'[t].pc = (IF l \in Recursive THEN "load"
                      ELSE IF f = "unlock" THEN "unlock" ELSE "check")
  BY <1>1, SelfTyped DEF Local, LocalState, Pcs
<1> QED  BY <1>2, BaseLocal DEF Call, Lock

(* The check of an error checking mutex.                                   *)
LEMMA BaseLockCheck ==
    ASSUME BaseInv, NEW t \in Thread, LockCheck(t)
    PROVE  BaseInv'
<1> USE DEF BaseInv
<1>1. CASE Return(t)
  BY <1>1, ReturnEffect, BaseLocal DEF LockCheck
<1>2. CASE Goto(t, "acquire")
  <2>1. self[t].mutex \in ErrorCheck
    BY DEF PcInv, LockCheck, At
  <2>2. Local(t) /\ self'[t].pc = "acquire" /\ self'[t].mutex = self[t].mutex
    BY <1>2, GotoEffect DEF Pcs
  <2> QED  BY <2>1, <2>2, BaseLocal DEF LockCheck
<1> QED  BY <1>1, <1>2 DEF LockCheck

(* The wait for an error checking mutex that is given up.                  *)
LEMMA BaseGiveUp ==
    ASSUME BaseInv, NEW t \in Thread, LockGiveUp(t)
    PROVE  BaseInv'
BY ReturnEffect, BaseLocal DEF LockGiveUp, BaseInv

(* What acquiring an error checking mutex does to each variable.           *)
LEMMA AcquireEffect ==
    ASSUME TypeOK, PcInv, NEW t \in Thread, LockAcquire(t)
    PROVE  /\ Local(t) /\ self'[t].pc = "record" /\ self'[t].i = 1
           /\ self'[t].mutex = self[t].mutex /\ self[t].mutex \in ErrorCheck
           /\ At(t, "acquire") /\ Holder(self[t].mutex) = None
           /\ word' \in [Lock -> Word]
           /\ \A l \in Lock : word'[l] = IF l = self[t].mutex
                                 THEN [owner |-> t, depth |-> word[l].depth] ELSE word[l]
           /\ Track(t, self[t].mutex)
           /\ nested' = nested \union (Held(t) \X {self[t].mutex})
           /\ UNCHANGED <<edges, allocated, nest>>
<1>1. self[t].mutex \in ErrorCheck /\ self[t].mutex \in Lock
  BY DEF PcInv, LockAcquire, At, Lock
<1>2. Local(t) /\ self'[t].pc = "record" /\ self'[t].i = 1 /\ self'[t].mutex = self[t].mutex
  BY SelfTyped, MutexAssumption DEF LockAcquire, Local, LocalState, Pcs
<1>3. word' = [word EXCEPT ![self[t].mutex].owner = t] /\ word \in [Lock -> Word]
  BY DEF LockAcquire, TypeOK
<1>4. word' \in [Lock -> Word]
  BY <1>1, <1>3 DEF Word
<1>5. \A l \in Lock : word'[l] = IF l = self[t].mutex
                         THEN [owner |-> t, depth |-> word[l].depth] ELSE word[l]
  BY <1>1, <1>3 DEF Word
<1> QED  BY <1>1, <1>2, <1>4, <1>5 DEF LockAcquire, graph

(* What tracking does: an empty slot of the thread is filled, if any.      *)
LEMMA TrackEffect ==
    ASSUME TypeOK, NEW t \in Thread, NEW l \in ErrorCheck, Track(t, l)
    PROVE  /\ tib_locks' \in [Thread -> [1..Slots -> ErrorCheck \union {None}]]
           /\ \A u \in Thread : u # t => tib_locks'[u] = tib_locks[u]
           /\ Full(t) => tib_locks' = tib_locks
           /\ ~Full(t) => \E i \in 1..Slots :
                 /\ tib_locks[t][i] = None /\ tib_locks'[t][i] = l
                 /\ \A j \in 1..Slots : j # i => tib_locks'[t][j] = tib_locks[t][j]
<1>1. CASE Full(t) /\ UNCHANGED tib_locks
  BY <1>1 DEF TypeOK
<1>2. ASSUME NEW i \in 1..Slots, tib_locks[t][i] = None,
             tib_locks' = [tib_locks EXCEPT ![t][i] = l]
      PROVE  /\ tib_locks' \in [Thread -> [1..Slots -> ErrorCheck \union {None}]]
             /\ \A u \in Thread : u # t => tib_locks'[u] = tib_locks[u]
             /\ ~Full(t) /\ tib_locks'[t][i] = l
             /\ \A j \in 1..Slots : j # i => tib_locks'[t][j] = tib_locks[t][j]
  BY <1>2 DEF TypeOK, Full
<1> QED  BY <1>1, <1>2 DEF Track

(* An error checking mutex is acquired.                                    *)
LEMMA BaseAcquire ==
    ASSUME BaseInv, NEW t \in Thread, LockAcquire(t)
    PROVE  BaseInv'
<1> USE DEF BaseInv
<1> DEFINE l == self[t].mutex
<1>1. /\ Local(t) /\ self'[t].pc = "record" /\ self'[t].i = 1
      /\ self'[t].mutex = l /\ l \in ErrorCheck /\ l \in Lock
      /\ word' \in [Lock -> Word]
      /\ \A m \in Lock : m # l => word'[m] = word[m]
      /\ Track(t, l) /\ nested' = nested \union (Held(t) \X {l})
      /\ UNCHANGED <<edges, allocated, nest>>
  BY AcquireEffect DEF Lock
<1>2. /\ tib_locks' \in [Thread -> [1..Slots -> ErrorCheck \union {None}]]
      /\ \A u \in Thread : u # t => tib_locks'[u] = tib_locks[u]
  BY <1>1, TrackEffect
<1> HIDE DEF l
<1>3. nested' \subseteq ErrorCheck \X ErrorCheck
  BY <1>1 DEF TypeOK, Held
<1>4. TypeOK'
  BY <1>1, <1>2, <1>3 DEF TypeOK, Local, LocalState, Pcs, Word
<1>5. PcInv'
  BY <1>1, <1>2, MutexAssumption DEF PcInv, Local, At
<1>6. NestCounted'
  BY <1>1, MutexAssumption DEF NestCounted, Holder, Lock
<1> QED  BY <1>4, <1>5, <1>6


(* What a scan for a missing edge does: it is done, or has found the first *)
(* entry from which an edge is missing.                                    *)
LEMMA ScanEffect ==
    ASSUME TypeOK, PcInv, NEW t \in Thread, RecordScan(t)
    PROVE  /\ At(t, "record") /\ Local(t) /\ self[t].i \in 1..(Slots + 1)
           /\ UNCHANGED <<word, edges, allocated, tib_locks, nested, nest>>
           /\ \/ Missing(t) = {} /\ self'[t].pc = "idle"
              \/ /\ self'[t].pc = "insert" /\ self'[t].mutex = self[t].mutex
                 /\ self'[t].i \in Missing(t)
                 /\ \A j \in Missing(t) : self'[t].i <= j
<1>1. At(t, "record") /\ self[t].i \in 1..(Slots + 1)
      /\ UNCHANGED <<word, edges, allocated, tib_locks, nested, nest>>
  BY DEF RecordScan, PcInv, graph
<1>2. CASE Missing(t) = {} /\ Return(t)
  BY <1>1, <1>2, ReturnEffect
<1>3. ASSUME NEW i \in Missing(t), \A j \in Missing(t) : i <= j,
             self' = [self EXCEPT ![t].i = i, ![t].pc = "insert"]
      PROVE  /\ Local(t) /\ self'[t].pc = "insert" /\ self'[t].mutex = self[t].mutex
             /\ self'[t].i = i
  <2>1. i \in 0..(Slots + 1)
    BY <1>1, MutexAssumption DEF Missing
  <2> QED  BY <1>3, <2>1, SelfTyped DEF Local, LocalState, Pcs
<1> QED  BY <1>1, <1>2, <1>3 DEF RecordScan

(* A scan for a missing edge.                                              *)
LEMMA BaseScan ==
    ASSUME BaseInv, NEW t \in Thread, RecordScan(t)
    PROVE  BaseInv'
<1> USE DEF BaseInv
<1>1. /\ At(t, "record") /\ Local(t) /\ self[t].i \in 1..(Slots + 1)
      /\ UNCHANGED <<word, edges, allocated, tib_locks, nested, nest>>
  BY ScanEffect
<1>2. CASE self'[t].pc = "idle"
  BY <1>1, <1>2, BaseLocal DEF graph
<1>3. CASE self'[t].pc = "insert" /\ self'[t].mutex = self[t].mutex
           /\ self'[t].i \in Missing(t)
  <2>1. TypeOK'
    BY <1>1 DEF TypeOK, Local, LocalState, Pcs, Word
  <2>2. /\ self'[t].i \in 1..Slots
        /\ tib_locks[t][self'[t].i] \notin {None, self[t].mutex}
    BY <1>1, <1>3, MutexAssumption DEF Missing
  <2>3. PcInv'
    BY <1>1, <1>3, <2>2 DEF PcInv, Local, At
  <2>4. NestCounted'
    BY <1>1 DEF NestCounted, Holder
  <2> QED  BY <2>1, <2>3, <2>4
<1> QED  BY <1>2, <1>3, ScanEffect

(* What inserting an edge does.                                            *)
LEMMA InsertEffect ==
    ASSUME TypeOK, PcInv, NEW t \in Thread, RecordInsert(t)
    PROVE  /\ At(t, "insert") /\ Local(t) /\ self[t].i \in 1..Slots
           /\ self'[t].pc = "record" /\ self'[t].mutex = self[t].mutex
           /\ self'[t].i = self[t].i + 1
           /\ self[t].mutex \in ErrorCheck
           /\ tib_locks[t][self[t].i] \in ErrorCheck
           /\ tib_locks[t][self[t].i] # self[t].mutex
           /\ UNCHANGED <<word, tib_locks, nested, nest>>
           /\ \/ allocated = LOCK_EDGES_MAX /\ UNCHANGED <<edges, allocated>>
              \/ /\ allocated \in 0..(LOCK_EDGES_MAX - 1) /\ allocated' = allocated + 1
                 /\ edges' = edges \union {<<tib_locks[t][self[t].i], self[t].mutex>>}
<1>1. /\ At(t, "insert") /\ self[t].i \in 1..Slots
      /\ self[t].mutex \in ErrorCheck
      /\ tib_locks[t][self[t].i] \in ErrorCheck
      /\ tib_locks[t][self[t].i] # self[t].mutex
  <2>1. /\ At(t, "insert") /\ self[t].i \in 1..Slots /\ self[t].mutex \in ErrorCheck
        /\ tib_locks[t][self[t].i] # None /\ tib_locks[t][self[t].i] # self[t].mutex
    BY DEF RecordInsert, PcInv, At
  <2>2. \A i \in 1..Slots : tib_locks[t][i] \in ErrorCheck \union {None}
    <3>1. tib_locks \in [Thread -> [1..Slots -> ErrorCheck \union {None}]]
      BY Zenon DEF TypeOK
    <3> QED  BY <3>1
  <2> QED  BY <2>1, <2>2
<1>2. /\ Local(t) /\ self'[t].pc = "record" /\ self'[t].mutex = self[t].mutex
      /\ self'[t].i = self[t].i + 1
  BY <1>1, SelfTyped, MutexAssumption DEF RecordInsert, Local, LocalState, Pcs
<1>3. \/ allocated = LOCK_EDGES_MAX /\ UNCHANGED <<edges, allocated>>
      \/ /\ allocated \in 0..(LOCK_EDGES_MAX - 1) /\ allocated' = allocated + 1
         /\ edges' = edges \union {<<tib_locks[t][self[t].i], self[t].mutex>>}
  BY MutexAssumption DEF RecordInsert, graph, TypeOK
<1> QED  BY <1>1, <1>2, <1>3 DEF RecordInsert

(* An edge is inserted.                                                    *)
LEMMA BaseInsert ==
    ASSUME BaseInv, NEW t \in Thread, RecordInsert(t)
    PROVE  BaseInv'
<1> USE DEF BaseInv
<1> DEFINE h == tib_locks[t][self[t].i]
           m == self[t].mutex
<1>1. /\ Local(t) /\ self[t].i \in 1..Slots
      /\ self'[t].pc = "record" /\ self'[t].mutex = m
      /\ self'[t].i = self[t].i + 1
      /\ m \in ErrorCheck /\ h \in ErrorCheck
      /\ UNCHANGED <<word, tib_locks, nested, nest>>
      /\ \/ allocated = LOCK_EDGES_MAX /\ UNCHANGED <<edges, allocated>>
         \/ /\ allocated \in 0..(LOCK_EDGES_MAX - 1) /\ allocated' = allocated + 1
            /\ edges' = edges \union {<<h, m>>}
  BY InsertEffect
<1> HIDE DEF h, m
<1>2. edges' \subseteq ErrorCheck \X ErrorCheck
  BY <1>1 DEF TypeOK
<1>3. allocated' \in 0..LOCK_EDGES_MAX
  BY <1>1, MutexAssumption DEF TypeOK
<1>4. TypeOK'
  BY <1>1, <1>2, <1>3 DEF TypeOK, Local, LocalState, Pcs, Word
<1>5. PcInv'
  BY <1>1, MutexAssumption DEF PcInv, Local, At
<1>6. NestCounted'
  BY <1>1 DEF NestCounted, Holder
<1> QED  BY <1>4, <1>5, <1>6

(* What unlocking an error checking mutex does.                            *)
LEMMA UnlockEffect ==
    ASSUME TypeOK, PcInv, NEW t \in Thread, Unlock(t)
    PROVE  /\ At(t, "unlock") /\ Local(t) /\ self'[t].pc = "idle"
           /\ self[t].mutex \in ErrorCheck
           /\ UNCHANGED <<edges, allocated, nested, nest>>
           /\ \/ UNCHANGED <<word, tib_locks>>
              \/ /\ Full(t) \/ Listed(t, self[t].mutex) \/ self[t].mutex \in Dynamic
                 /\ word' \in [Lock -> Word]
                 /\ \A l \in Lock : word'[l] = IF l = self[t].mutex THEN Free ELSE word[l]
                 /\ tib_locks' \in [Thread -> [1..Slots -> ErrorCheck \union {None}]]
                 /\ \A u \in Thread : u # t => tib_locks'[u] = tib_locks[u]
                 /\ \A i \in 1..Slots : tib_locks'[t][i] =
                       IF tib_locks[t][i] = self[t].mutex THEN None ELSE tib_locks[t][i]
<1> DEFINE m == self[t].mutex
<1>1. /\ At(t, "unlock") /\ Local(t) /\ self'[t].pc = "idle" /\ m \in ErrorCheck /\ m \in Lock
      /\ UNCHANGED <<edges, allocated, nested, nest>>
  BY ReturnEffect DEF Unlock, PcInv, At, graph, Lock
<1>2. CASE Tracked(t, m) = 0
  BY <1>1, <1>2 DEF Unlock
<1>3. CASE Tracked(t, m) # 0
  <2>1. /\ word' = [word EXCEPT ![m] = Free]
        /\ tib_locks' = [tib_locks EXCEPT ![t] =
              [i \in 1..Slots |-> IF @[i] = m THEN None ELSE @[i]]]
    BY <1>3 DEF Unlock, Untrack
  <2>2. Full(t) \/ Listed(t, m) \/ m \in Dynamic
    BY <1>3 DEF Tracked
  <2>3. /\ word' \in [Lock -> Word]
        /\ \A l \in Lock : word'[l] = IF l = m THEN Free ELSE word[l]
    BY <1>1, <2>1, FreeTyped DEF TypeOK
  <2>4. /\ tib_locks' \in [Thread -> [1..Slots -> ErrorCheck \union {None}]]
        /\ \A u \in Thread : u # t => tib_locks'[u] = tib_locks[u]
        /\ \A i \in 1..Slots : tib_locks'[t][i] =
              IF tib_locks[t][i] = m THEN None ELSE tib_locks[t][i]
    <3> HIDE DEF m
    <3> QED  BY <2>1 DEF TypeOK
  <2> QED  BY <1>1, <2>2, <2>3, <2>4
<1> QED  BY <1>2, <1>3

(* An error checking mutex is unlocked.                                    *)
LEMMA BaseUnlock ==
    ASSUME BaseInv, NEW t \in Thread, Unlock(t)
    PROVE  BaseInv'
<1> USE DEF BaseInv
<1> DEFINE m == self[t].mutex
<1>1. /\ Local(t) /\ self'[t].pc = "idle" /\ m \in ErrorCheck
      /\ UNCHANGED <<edges, allocated, nested, nest>>
  BY UnlockEffect
<1>2. CASE UNCHANGED <<word, tib_locks>>
  BY <1>1, <1>2, BaseLocal DEF graph
<1>3. CASE /\ word' \in [Lock -> Word]
           /\ \A l \in Lock : word'[l] = IF l = m THEN Free ELSE word[l]
           /\ tib_locks' \in [Thread -> [1..Slots -> ErrorCheck \union {None}]]
           /\ \A u \in Thread : u # t => tib_locks'[u] = tib_locks[u]
  <2> HIDE DEF m
  <2>1. TypeOK'
    BY <1>1, <1>3 DEF TypeOK, Local, LocalState, Pcs, Word
  <2>2. PcInv'
    BY <1>1, <1>3 DEF PcInv, Local, At
  <2>3. NestCounted'
    BY <1>1, <1>3, MutexAssumption DEF NestCounted, Holder, Lock
  <2> QED  BY <2>1, <2>2, <2>3
<1> QED  BY <1>2, <1>3, UnlockEffect


(* The word of a recursive mutex that no other thread has is exchanged for *)
(* w, which leaves the thread with n more acquisitions.                    *)
LEMMA BaseExchange ==
    ASSUME BaseInv, NEW t \in Thread, NEW m \in Recursive, NEW w \in Word, NEW n \in Int,
           word[m].owner \in {None, t}, w.owner \in {None, t},
           nest[t][m] + n = IF w.owner = t THEN w.depth + 1 ELSE 0,
           word' = [word EXCEPT ![m] = w],
           nest' = [nest EXCEPT ![t][m] = @ + n],
           Return(t), UNCHANGED <<graph, tib_locks, nested>>
    PROVE  BaseInv'
<1> USE DEF BaseInv
<1>1. Local(t) /\ self'[t].pc = "idle" /\ m \in Lock
  BY ReturnEffect DEF Lock
<1>2. /\ word' \in [Lock -> Word] /\ word'[m] = w
      /\ \A l \in Lock : l # m => word'[l] = word[l]
  BY <1>1 DEF TypeOK
<1>3. nest[t][m] + n \in Nat
  BY MutexAssumption DEF Word
<1>4. /\ nest' \in [Thread -> [Recursive -> Nat]] /\ nest'[t][m] = nest[t][m] + n
      /\ \A u \in Thread, l \in Recursive : u # t \/ l # m => nest'[u][l] = nest[u][l]
  BY <1>3 DEF TypeOK
<1>5. TypeOK'
  BY <1>1, <1>2, <1>4 DEF TypeOK, Local, LocalState, Pcs, graph
<1>6. PcInv'
  BY <1>1 DEF PcInv, Local, At
<1>7. NestCounted'
  <2> SUFFICES ASSUME NEW u \in Thread, NEW l \in Recursive
               PROVE  nest'[u][l] = IF word'[l].owner = u THEN word'[l].depth + 1 ELSE 0
    BY DEF NestCounted, Holder
  <2>0. l \in Lock /\ nest[u][l] = IF word[l].owner = u THEN word[l].depth + 1 ELSE 0
    BY DEF NestCounted, Holder, Lock
  <2>1. CASE l # m
    BY <2>0, <2>1, <1>2, <1>4
  <2>2. CASE l = m /\ u = t
    BY <2>2, <1>2, <1>4
  <2>3. CASE l = m /\ u # t
    BY <2>0, <2>3, <1>2, <1>4, MutexAssumption
  <2> QED  BY <2>1, <2>2, <2>3
<1> QED  BY <1>5, <1>6, <1>7

(* The word of a recursive mutex is loaded.                                *)
LEMMA BaseLoad ==
    ASSUME BaseInv, NEW t \in Thread, NEW p \in {"rec_lock", "rec_unlock"}, Load(t, p),
           self[t].mutex \in Recursive,
           UNCHANGED <<word, graph, tib_locks, nested, nest>>
    PROVE  BaseInv'
<1>1. /\ Local(t) /\ self'[t].pc = p /\ self'[t].mutex = self[t].mutex
  BY LoadEffect DEF BaseInv, Pcs, Lock
<1> QED  BY <1>1, BaseLocal

(* What an idle, locking or unlocking thread knows of its mutex.           *)
LEMMA RecursiveMutex ==
    ASSUME BaseInv, NEW t \in Thread,
           self[t].pc \in {"load", "rec_lock", "rec_spin", "rec_unlock"}
    PROVE  /\ self[t].mutex \in Recursive /\ self[t].mutex \in Lock
           /\ self[t].word \in Word /\ word[self[t].mutex] \in Word
           /\ nest[t][self[t].mutex] =
                 IF word[self[t].mutex].owner = t THEN word[self[t].mutex].depth + 1 ELSE 0
<1>1. self[t].mutex \in Recursive /\ self[t].mutex \in Lock
  BY DEF BaseInv, PcInv, Lock
<1> QED  BY <1>1, SelfTyped DEF BaseInv, TypeOK, NestCounted, Holder

(* The first load of a call.                                               *)
LEMMA BaseRecursiveLoad ==
    ASSUME BaseInv, NEW t \in Thread, RecursiveLoad(t)
    PROVE  BaseInv'
<1>1. self[t].mutex \in Recursive
  BY RecursiveMutex DEF RecursiveLoad, At
<1> QED  BY <1>1, BaseLoad DEF RecursiveLoad

(* The owner nests.                                                        *)
LEMMA BaseRecursiveNest ==
    ASSUME BaseInv, NEW t \in Thread, RecursiveNest(t)
    PROVE  BaseInv'
<1> DEFINE m == self[t].mutex
           w == self[t].word
<1>1. /\ m \in Recursive /\ w \in Word /\ word[m] \in Word
      /\ nest[t][m] = IF word[m].owner = t THEN word[m].depth + 1 ELSE 0
      /\ w.owner = t /\ TypeOK
      /\ UNCHANGED <<graph, tib_locks, nested>>
  BY RecursiveMutex DEF RecursiveNest, At, BaseInv
<1>2. CASE ~(w.depth < MUTEX_DEPTH_MAX)
  BY <1>1, <1>2, ReturnEffect, BaseLocal DEF RecursiveNest
<1>3. CASE w.depth < MUTEX_DEPTH_MAX /\ word[m] # w
  <2>1. Load(t, "rec_lock") /\ UNCHANGED <<word, nest>>
    BY <1>3 DEF RecursiveNest, Exchange
  <2> QED  BY <1>1, <2>1, BaseLoad
<1>4. CASE w.depth < MUTEX_DEPTH_MAX /\ word[m] = w
  <2>1. /\ word' = [word EXCEPT ![m] = Deeper(w, 1)]
        /\ nest' = [nest EXCEPT ![t][m] = @ + 1] /\ Return(t)
    BY <1>4 DEF RecursiveNest, Exchange
  <2>2. Deeper(w, 1) \in Word /\ Deeper(w, 1).owner = t /\ Deeper(w, 1).depth = w.depth + 1
    BY <1>1, <1>4, MutexAssumption DEF Deeper, Word
  <2>3. nest[t][m] + 1 = IF Deeper(w, 1).owner = t THEN Deeper(w, 1).depth + 1 ELSE 0
    BY <1>1, <1>4, <2>2
  <2>4. word[m].owner \in {None, t} /\ Deeper(w, 1).owner \in {None, t} /\ 1 \in Int
    BY <1>1, <1>4, <2>2
  <2> QED  BY <1>1, <2>1, <2>2, <2>3, <2>4, BaseExchange
<1> QED  BY <1>2, <1>3, <1>4

(* A free mutex is taken, or not.                                          *)
LEMMA BaseRecursiveLock ==
    ASSUME BaseInv, NEW t \in Thread, RecursiveLock(t)
    PROVE  BaseInv'
<1> DEFINE m == self[t].mutex
           w == [owner |-> t, depth |-> 0]
<1>1. /\ m \in Recursive /\ TypeOK
      /\ nest[t][m] = IF word[m].owner = t THEN word[m].depth + 1 ELSE 0
      /\ UNCHANGED <<graph, tib_locks, nested>>
  BY RecursiveMutex DEF RecursiveLock, At, BaseInv
<1>2. CASE word[m] = Free /\ word' = [word EXCEPT ![m] = w]
           /\ nest' = [nest EXCEPT ![t][m] = @ + 1] /\ Return(t)
  <2>1. w \in Word /\ w.owner = t /\ w.depth = 0
    BY MutexAssumption DEF Word
  <2>2. nest[t][m] + 1 = IF w.owner = t THEN w.depth + 1 ELSE 0
    BY <1>1, <1>2, <2>1, FreeTyped, MutexAssumption
  <2>3. word[m].owner \in {None, t} /\ w.owner \in {None, t} /\ 1 \in Int
    BY <1>2, <2>1, FreeTyped
  <2> HIDE DEF w
  <2> QED  BY <1>1, <1>2, <2>1, <2>2, <2>3, BaseExchange
<1>3. CASE Return(t) /\ UNCHANGED <<word, nest>>
  BY <1>1, <1>3, ReturnEffect, BaseLocal
<1>4. CASE Goto(t, "rec_spin") /\ UNCHANGED <<word, nest>>
  <2>1. Local(t) /\ self'[t].pc = "rec_spin" /\ self'[t].mutex = m
    BY <1>1, <1>4, GotoEffect DEF Pcs
  <2> QED  BY <1>1, <1>4, <2>1, BaseLocal
<1> QED  BY <1>2, <1>3, <1>4 DEF RecursiveLock

(* A step of the loop that waits for a mutex to look free.                 *)
LEMMA BaseRecursiveSpin ==
    ASSUME BaseInv, NEW t \in Thread, RecursiveSpin(t)
    PROVE  BaseInv'
<1>1. self[t].mutex \in Recursive /\ TypeOK
  BY RecursiveMutex DEF RecursiveSpin, At, BaseInv
<1>2. CASE Load(t, "rec_lock")
  BY <1>1, <1>2, BaseLoad DEF RecursiveSpin
<1>3. CASE Return(t)
  BY <1>1, <1>3, ReturnEffect, BaseLocal DEF RecursiveSpin
<1> QED  BY <1>2, <1>3 DEF RecursiveSpin

(* One level of a recursive mutex is unlocked.                             *)
LEMMA BaseRecursiveUnlock ==
    ASSUME BaseInv, NEW t \in Thread, RecursiveUnlock(t)
    PROVE  BaseInv'
<1> DEFINE m == self[t].mutex
           w == self[t].word
           v == IF w.depth > 0 THEN Deeper(w, -1) ELSE Free
           n == IF w.owner = t THEN -1 ELSE 0
<1>1. /\ m \in Recursive /\ w \in Word /\ word[m] \in Word
      /\ nest[t][m] = IF word[m].owner = t THEN word[m].depth + 1 ELSE 0
      /\ TypeOK
      /\ UNCHANGED <<graph, tib_locks, nested>>
  BY RecursiveMutex DEF RecursiveUnlock, At, BaseInv
<1>2. CASE w.owner \notin {None, t}
  BY <1>1, <1>2, ReturnEffect, BaseLocal DEF RecursiveUnlock
<1>3. CASE w.owner \in {None, t} /\ word[m] # w
  <2>1. Load(t, "rec_unlock") /\ UNCHANGED <<word, nest>>
    BY <1>3 DEF RecursiveUnlock, Exchange
  <2> QED  BY <1>1, <2>1, BaseLoad
<1>4. CASE w.owner \in {None, t} /\ word[m] = w
  <2>1. /\ word' = [word EXCEPT ![m] = v]
        /\ nest' = [nest EXCEPT ![t][m] = @ + n] /\ Return(t)
    BY <1>4 DEF RecursiveUnlock, Exchange
  <2>2. CASE w.depth > 0
    <3>1. v \in Word /\ v.owner = w.owner /\ v.depth = w.depth - 1
      BY <1>1, <2>2, MutexAssumption DEF Deeper, Word
    <3>2. nest[t][m] + n = IF v.owner = t THEN v.depth + 1 ELSE 0
      BY <1>1, <1>4, <3>1, MutexAssumption DEF Word
    <3>3. word[m].owner \in {None, t} /\ v.owner \in {None, t} /\ n \in Int
      BY <1>1, <1>4, <3>1
    <3> HIDE DEF v, n
    <3> QED  BY <1>1, <2>1, <3>1, <3>2, <3>3, BaseExchange
  <2>3. CASE ~(w.depth > 0)
    <3>1. v \in Word /\ v.owner = None /\ v.depth = 0
      BY <2>3, FreeTyped
    <3>2. nest[t][m] + n = IF v.owner = t THEN v.depth + 1 ELSE 0
      BY <1>1, <1>4, <2>3, <3>1, MutexAssumption DEF Word
    <3>3. word[m].owner \in {None, t} /\ v.owner \in {None, t} /\ n \in Int
      BY <1>1, <1>4, <3>1
    <3> HIDE DEF v, n
    <3> QED  BY <1>1, <2>1, <3>1, <3>2, <3>3, BaseExchange
  <2> QED  BY <2>2, <2>3
<1> QED  BY <1>2, <1>3, <1>4

(* The initial state.                                                      *)
LEMMA BaseInit == Init => BaseInv
<1> SUFFICES ASSUME Init PROVE BaseInv
  OBVIOUS
<1>1. Idle \in LocalState /\ Idle.pc = "idle"
  BY FreeTyped, MutexAssumption DEF Idle, LocalState, Pcs
<1>2. TypeOK
  BY <1>1, FreeTyped, MutexAssumption DEF Init, TypeOK, LocalState, Pcs
<1>3. PcInv
  BY <1>1 DEF Init, PcInv, At
<1>4. NestCounted
  BY FreeTyped, MutexAssumption DEF Init, NestCounted, Holder, Lock
<1> QED  BY <1>2, <1>3, <1>4 DEF BaseInv

(* Every step.                                                             *)
LEMMA BaseStep == BaseInv /\ [Next]_vars => BaseInv'
<1> SUFFICES ASSUME BaseInv, [Next]_vars PROVE BaseInv'
  OBVIOUS
<1>1. CASE UNCHANGED vars
  BY <1>1 DEF vars, graph, BaseInv, TypeOK, PcInv, NestCounted, At, Holder, Word
<1>2. ASSUME NEW t \in Thread,
             \/ Call(t) \/ LockCheck(t) \/ LockAcquire(t) \/ LockGiveUp(t)
             \/ RecordScan(t) \/ RecordInsert(t) \/ Unlock(t)
             \/ RecursiveLoad(t) \/ RecursiveNest(t) \/ RecursiveLock(t)
             \/ RecursiveSpin(t) \/ RecursiveUnlock(t)
      PROVE  BaseInv'
  BY <1>2, BaseCall, BaseLockCheck, BaseAcquire, BaseGiveUp, BaseScan, BaseInsert,
     BaseUnlock, BaseRecursiveLoad, BaseRecursiveNest, BaseRecursiveLock,
     BaseRecursiveSpin, BaseRecursiveUnlock
<1> QED  BY <1>1, <1>2 DEF Next

(* In every behaviour, whatever threads unlock, a recursive mutex is       *)
(* released by the last of as many unlocks as there were locks, its depth  *)
(* stays in the field of its word, and every variable has its type.        *)
THEOREM DepthExact == Spec => [](TypeOK /\ NestCounted)
<1>1. BaseInv => TypeOK /\ NestCounted
  BY DEF BaseInv
<1> QED  BY <1>1, BaseInit, BaseStep, PTL DEF Spec


-----------------------------------------------------------------------------
(* Error checking mutexes, as long as there is room in the tib_locks       *)

PromiseInv == TrackInv /\ NoSelfDeadlock /\ OrderInv

(* At the program counters of an error checking mutex.                     *)
LEMMA CheckedMutex ==
    ASSUME PcInv, NEW t \in Thread,
           self[t].pc \in {"check", "acquire", "record", "insert", "unlock"}
    PROVE  self[t].mutex \in ErrorCheck /\ self[t].mutex \in Lock
BY DEF PcInv, Lock

(* The entries of a tib_locks.                                             *)
LEMMA EntryTyped ==
    ASSUME TypeOK
    PROVE  \A t \in Thread, i \in 1..Slots : tib_locks[t][i] \in ErrorCheck \union {None}
<1>1. tib_locks \in [Thread -> [1..Slots -> ErrorCheck \union {None}]]
  BY Zenon DEF TypeOK
<1> QED  BY <1>1

(* A step that leaves the error checking mutexes, the graph and the        *)
(* tib_locks alone, of a thread that does not record and does not start    *)
(* to wait.                                                                *)
LEMMA PromiseQuiet ==
    ASSUME BaseInv, BaseInv', PromiseInv, NEW t \in Thread, Local(t),
           UNCHANGED <<edges, allocated, tib_locks, nested>>,
           \A l \in ErrorCheck : word'[l] = word[l],
           self[t].pc \notin {"record", "insert"},
           self'[t].pc \notin {"acquire", "record", "insert"}
    PROVE  PromiseInv'
<1> USE DEF BaseInv, PromiseInv, OrderInv
<1>1. \A u \in Thread : self'[u].pc \in {"acquire", "record", "insert"} =>
          self'[u] = self[u] /\ self[u].mutex \in ErrorCheck
  BY CheckedMutex DEF Local
<1>2. \A l \in ErrorCheck : Holder(l)' = Holder(l)
  BY DEF Holder
<1>3. TrackInv'
  <2>1. \A u \in Thread, i \in 1..Slots :
            tib_locks[u][i] # None => Holder(tib_locks[u][i])' = Holder(tib_locks[u][i])
    BY <1>2, EntryTyped
  <2> QED  BY <1>1, <1>2, <2>1 DEF TrackInv, Listed, Recording, Holder
<1>4. NoSelfDeadlock'
  BY <1>1, <1>2 DEF NoSelfDeadlock, At, Full, Holder
<1>5. CheckedInv'
  BY <1>1, <1>2 DEF CheckedInv, At, Holder
<1>6. RecordInv'
  <2>1. \A u \in Thread, h, l \in ErrorCheck : PendingBy(u, h, l) => PendingBy(u, h, l)'
    BY <1>2 DEF PendingBy, Recording, Local, Holder
  <2> QED  BY <2>1 DEF RecordInv
<1>7. NewInv'
  BY <1>1, <1>2 DEF NewInv, Recording, Holder
<1>8. GraphInv' /\ OneWayNesting'
  BY DEF GraphInv, OneWayNesting
<1> QED  BY <1>3, <1>4, <1>5, <1>6, <1>7, <1>8

(* Calls of recursive mutexes, and of others up to the wait.               *)
LEMMA PromiseOther ==
    ASSUME BaseInv, BaseInv', PromiseInv, NEW t \in Thread,
           \/ Call(t) \/ LockGiveUp(t) \/ RecursiveLoad(t) \/ RecursiveNest(t)
           \/ RecursiveLock(t) \/ RecursiveSpin(t) \/ RecursiveUnlock(t)
    PROVE  PromiseInv'
<1> DEFINE Quiet == /\ Local(t)
                    /\ UNCHANGED <<edges, allocated, tib_locks, nested>>
                    /\ \A l \in ErrorCheck : word'[l] = word[l]
                    /\ self[t].pc \notin {"record", "insert"}
                    /\ self'[t].pc \notin {"acquire", "record", "insert"}
<1>0. TypeOK
  BY DEF BaseInv
<1>1. CASE Call(t)
  <2>1. self'[t].pc \in {"load", "unlock", "check"} /\ Local(t)
    <3>1. PICK l \in Lock, f \in {"lock", "trylock", "clocklock", "unlock"} :
              self' = [self EXCEPT ![t].f = f, ![t].mutex = l, ![t].pc =
                          IF l \in Recursive THEN "load"
                          ELSE IF f = "unlock" THEN "unlock" ELSE "check"]
      BY <1>1 DEF Call
    <3> QED  BY <1>0, <3>1, SelfTyped DEF Local, LocalState, Pcs
  <2>2. Quiet
    BY <1>1, <2>1 DEF Call, At, graph
  <2> QED  BY <2>2, PromiseQuiet
<1>2. CASE LockGiveUp(t)
  <2>1. Quiet
    BY <1>0, <1>2, ReturnEffect DEF LockGiveUp, At, graph
  <2> QED  BY <2>1, PromiseQuiet
<1>3. CASE RecursiveLoad(t)
  <2>1. self[t].mutex \in Lock
    BY <1>3, RecursiveMutex DEF RecursiveLoad, At
  <2>2. Quiet
    BY <1>0, <1>3, <2>1, LoadEffect DEF RecursiveLoad, At, graph, Pcs
  <2> QED  BY <2>2, PromiseQuiet
<1>4. CASE RecursiveSpin(t)
  <2>1. self[t].mutex \in Lock
    BY <1>4, RecursiveMutex DEF RecursiveSpin, At
  <2>2. Local(t) /\ self'[t].pc \in {"idle", "rec_lock"}
    BY <1>0, <1>4, <2>1, LoadEffect, ReturnEffect DEF RecursiveSpin, Pcs
  <2>3. Quiet
    BY <1>4, <2>2 DEF RecursiveSpin, At, graph
  <2> QED  BY <2>3, PromiseQuiet
<1>5. ASSUME NEW m \in Recursive, NEW w, word' = [word EXCEPT ![m] = w]
      PROVE  \A l \in ErrorCheck : word'[l] = word[l]
  BY <1>0, <1>5, MutexAssumption DEF TypeOK, Lock
<1>6. ASSUME NEW w, NEW n, NEW p \in {"rec_lock", "rec_unlock"}, Exchange(t, w, n, p),
             self[t].mutex \in Recursive
      PROVE  /\ Local(t) /\ self'[t].pc \in {"idle", "rec_lock", "rec_unlock"}
             /\ \A l \in ErrorCheck : word'[l] = word[l]
  <2>1. self[t].mutex \in Lock
    BY <1>6 DEF Lock
  <2>2. CASE word[self[t].mutex] = self[t].word
    BY <1>0, <1>5, <1>6, <2>2, ReturnEffect DEF Exchange
  <2>3. CASE word[self[t].mutex] # self[t].word
    BY <1>0, <1>6, <2>1, <2>3, LoadEffect DEF Exchange, Pcs
  <2> QED  BY <2>2, <2>3
<1>7. CASE RecursiveNest(t)
  <2>1. self[t].mutex \in Recursive
    BY <1>7, RecursiveMutex DEF RecursiveNest, At
  <2>2. /\ Local(t) /\ self'[t].pc \in {"idle", "rec_lock", "rec_unlock"}
        /\ \A l \in ErrorCheck : word'[l] = word[l]
    BY <1>0, <1>6, <1>7, <2>1, ReturnEffect DEF RecursiveNest
  <2>3. Quiet
    BY <1>7, <2>2 DEF RecursiveNest, At, graph
  <2> QED  BY <2>3, PromiseQuiet
<1>8. CASE RecursiveUnlock(t)
  <2>1. self[t].mutex \in Recursive
    BY <1>8, RecursiveMutex DEF RecursiveUnlock, At
  <2>2. /\ Local(t) /\ self'[t].pc \in {"idle", "rec_lock", "rec_unlock"}
        /\ \A l \in ErrorCheck : word'[l] = word[l]
    BY <1>0, <1>6, <1>8, <2>1, ReturnEffect DEF RecursiveUnlock
  <2>3. Quiet
    BY <1>8, <2>2 DEF RecursiveUnlock, At, graph
  <2> QED  BY <2>3, PromiseQuiet
<1>9. CASE RecursiveLock(t)
  <2>1. self[t].mutex \in Recursive
    BY <1>9, RecursiveMutex DEF RecursiveLock, At
  <2>2. /\ Local(t) /\ self'[t].pc \in {"idle", "rec_spin"}
        /\ \A l \in ErrorCheck : word'[l] = word[l]
    BY <1>0, <1>5, <1>9, <2>1, ReturnEffect, GotoEffect DEF RecursiveLock, Pcs
  <2>3. Quiet
    BY <1>9, <2>2 DEF RecursiveLock, At, graph
  <2> QED  BY <2>3, PromiseQuiet
<1> QED  BY <1>1, <1>2, <1>3, <1>4, <1>7, <1>8, <1>9


(* An edge leads to its end.                                               *)
LEMMA EdgeReaches ==
    ASSUME NEW E, NEW l \in ErrorCheck, NEW h \in ErrorCheck, <<l, h>> \in E
    PROVE  Reaches(E, l, h)
BY DEF Reaches

(* More edges lead further.                                                *)
LEMMA ReachesMore ==
    ASSUME NEW E, NEW F, E \subseteq F, NEW l, NEW h, Reaches(E, l, h)
    PROVE  Reaches(F, l, h)
BY DEF Reaches

(* A way back closes a cycle.                                              *)
LEMMA ReachesBack ==
    ASSUME NEW E, NEW l \in ErrorCheck, NEW h \in ErrorCheck,
           Reaches(E, l, h), <<h, l>> \in E
    PROVE  Reaches(E, h, h)
<1> SUFFICES ASSUME NEW S \in SUBSET ErrorCheck,
                    \A e \in E : e[1] = h \/ e[1] \in S => e[2] \in S
             PROVE  h \in S
  BY DEF Reaches
<1>1. l \in S
  OBVIOUS
<1>2. \A e \in E : e[1] = l \/ e[1] \in S => e[2] \in S
  BY <1>1
<1> QED  BY <1>2 DEF Reaches

(* A thread goes on to wait for a mutex.                                   *)
LEMMA PromiseWait ==
    ASSUME BaseInv, BaseInv', PromiseInv, NEW t \in Thread,
           LockCheck(t), Goto(t, "acquire"),
           ~(self[t].f # "trylock" /\ Tracked(t, self[t].mutex) = 1),
           ~Check(t, self[t].mutex)
    PROVE  PromiseInv'
<1> USE DEF BaseInv, PromiseInv, OrderInv
<1> DEFINE m == self[t].mutex
<1>1. /\ Local(t) /\ self'[t].pc = "acquire" /\ self'[t].mutex = m
      /\ self'[t].f = self[t].f /\ At(t, "check") /\ m \in ErrorCheck
      /\ UNCHANGED <<word, edges, allocated, tib_locks, nested>>
  BY GotoEffect, CheckedMutex DEF LockCheck, At, Pcs, graph
<1>2. \A u \in Thread : u # t => self'[u] = self[u]
  BY <1>1 DEF Local
<1>3. TrackInv'
  BY <1>1, <1>2 DEF TrackInv, Listed, Recording, Holder
<1>4. NoSelfDeadlock'
  <2>1. self[t].f # "trylock" /\ Holder(m) = t => Full(t)
    BY <1>1 DEF Tracked, TrackInv
  <2> QED  BY <1>1, <1>2, <2>1 DEF NoSelfDeadlock, At, Full, Holder
<1>5. CheckedInv'
  <2> SUFFICES ASSUME NEW u \in Thread, NEW h \in ErrorCheck,
                      self'[u].pc = "acquire", Holder(self'[u].mutex) # u, Holder(h) = u
               PROVE  <<self'[u].mutex, h>> \notin edges
    BY <1>1 DEF CheckedInv, At, Holder
  <2>1. CASE u # t
    BY <1>2, <2>1 DEF CheckedInv, At
  <2>2. CASE u = t
    <3>1. PICK i \in 1..Slots : tib_locks[t][i] = h
      BY <2>2 DEF TrackInv, Listed
    <3>2. \A j \in 1..Slots : tib_locks[t][j] # m
      BY <1>1, <2>2, MutexAssumption DEF TrackInv
    <3>3. h # None /\ \A j \in 1..i : j \in 1..Slots
      BY MutexAssumption
    <3>4. ~Visit(m, h)
      BY <3>1, <3>2, <3>3 DEF Check
    <3>5. <<m, h>> \notin edges
      BY <1>1, <3>4, EdgeReaches DEF Visit
    <3> QED  BY <1>1, <2>2, <3>5
  <2> QED  BY <2>1, <2>2
<1>6. RecordInv'
  <2>1. \A u \in Thread, h, l \in ErrorCheck : PendingBy(u, h, l) => PendingBy(u, h, l)'
    BY <1>1, <1>2 DEF PendingBy, Recording, Holder, At
  <2> QED  BY <1>1, <2>1 DEF RecordInv
<1>7. NewInv'
  BY <1>1, <1>2 DEF NewInv, Recording, Holder
<1>8. GraphInv' /\ OneWayNesting'
  BY <1>1 DEF GraphInv, OneWayNesting
<1> QED  BY <1>3, <1>4, <1>5, <1>6, <1>7, <1>8

(* The check of a mutex.                                                   *)
LEMMA PromiseCheck ==
    ASSUME BaseInv, BaseInv', PromiseInv, NEW t \in Thread, LockCheck(t)
    PROVE  PromiseInv'
<1>1. CASE Return(t)
  <2>1. /\ Local(t) /\ self'[t].pc = "idle" /\ At(t, "check")
        /\ UNCHANGED <<word, edges, allocated, tib_locks, nested>>
    BY <1>1, ReturnEffect DEF LockCheck, BaseInv, graph
  <2> QED  BY <2>1, PromiseQuiet DEF At
<1>2. CASE /\ Goto(t, "acquire")
           /\ ~(self[t].f # "trylock" /\ Tracked(t, self[t].mutex) = 1)
           /\ ~Check(t, self[t].mutex)
  BY <1>2, PromiseWait
<1> QED  BY <1>1, <1>2 DEF LockCheck

(* A mutex is acquired.                                                    *)
LEMMA PromiseAcquire ==
    ASSUME BaseInv, BaseInv', PromiseInv, Roomy, NEW t \in Thread, LockAcquire(t)
    PROVE  PromiseInv'
<1> USE DEF BaseInv, PromiseInv, OrderInv
<1> DEFINE m == self[t].mutex
<1>1. /\ Local(t) /\ self'[t].pc = "record" /\ self'[t].i = 1
      /\ self'[t].mutex = m /\ m \in ErrorCheck /\ m \in Lock
      /\ At(t, "acquire") /\ Holder(m) = None
      /\ Track(t, m) /\ nested' = nested \union (Held(t) \X {m})
      /\ UNCHANGED <<edges, allocated>>
  BY AcquireEffect DEF Lock
<1>2. \A l \in Lock : Holder(l)' = IF l = m THEN t ELSE Holder(l)
  <2>1. \A l \in Lock : word'[l] = IF l = m THEN [owner |-> t, depth |-> word[l].depth]
                                 ELSE word[l]
    BY AcquireEffect
  <2> HIDE DEF m
  <2>2. ASSUME NEW l \in Lock
        PROVE  word'[l].owner = IF l = m THEN t ELSE word[l].owner
    <3>1. CASE l = m
      <4>1. word'[l] = [owner |-> t, depth |-> word[l].depth]
        BY <2>1, <3>1
      <4> QED  BY <3>1, <4>1
    <3>2. CASE l # m
      BY <2>1, <3>2
    <3> QED  BY <3>1, <3>2
  <2> QED  BY <2>2 DEF Holder
<1>3. ~Full(t)
  BY <1>1, MutexAssumption DEF Roomy, RoomyFor
<1>4. \A u \in Thread : u # t => self'[u] = self[u]
  BY <1>1 DEF Local
<1>5. PICK k \in 1..Slots :
          /\ tib_locks[t][k] = None /\ tib_locks'[t][k] = m
          /\ \A j \in 1..Slots : j # k => tib_locks'[t][j] = tib_locks[t][j]
  BY <1>1, <1>3, TrackEffect
<1>6. \A u \in Thread : u # t => tib_locks'[u] = tib_locks[u]
  BY <1>1, TrackEffect
<1>7. \A u \in Thread : self[u].pc \in {"acquire", "record", "insert"} =>
          self[u].mutex \in ErrorCheck /\ self[u].mutex \in Lock
  BY CheckedMutex
<1>8. ErrorCheck \subseteq Lock /\ \A u \in Thread : u # None
  BY MutexAssumption DEF Lock
<1> HIDE DEF m
<1>9. TrackInv'
  <2>1. ASSUME NEW u \in Thread, NEW i \in 1..Slots, tib_locks'[u][i] # None
        PROVE  word'[tib_locks'[u][i]].owner = u
    <3>0. \A l \in Lock : word'[l].owner = IF l = m THEN t ELSE Holder(l)
      BY <1>2 DEF Holder
    <3>1. CASE u = t /\ i = k
      BY <1>1, <3>0, <1>5, <3>1
    <3>2. CASE ~(u = t /\ i = k)
      <4>1. tib_locks'[u][i] = tib_locks[u][i]
        BY <1>5, <1>6, <3>2
      <4>2. Holder(tib_locks[u][i]) = u /\ tib_locks[u][i] \in Lock
        BY <1>8, <2>1, <4>1, EntryTyped DEF TrackInv
      <4>3. tib_locks[u][i] # m
        BY <1>1, <1>8, <4>2
      <4> QED  BY <3>0, <4>1, <4>2, <4>3
    <3> QED  BY <3>1, <3>2
  <2>2. ASSUME NEW u \in Thread, NEW i \in 1..Slots, NEW j \in 1..Slots,
               tib_locks'[u][i] = tib_locks'[u][j], tib_locks'[u][i] # None
        PROVE  i = j
    <3>1. CASE u # t
      BY <1>6, <2>2, <3>1 DEF TrackInv
    <3>2. CASE u = t
      <4>1. \A n \in 1..Slots : tib_locks[t][n] # m
        BY <1>1, <1>8, MutexAssumption DEF TrackInv
      <4> QED  BY <1>5, <2>2, <3>2, <4>1 DEF TrackInv
    <3> QED  BY <3>1, <3>2
  <2>3. ASSUME NEW u \in Thread, NEW l \in ErrorCheck, Holder(l)' = u
        PROVE  Listed(u, l)'
    <3>1. CASE l = m
      BY <1>1, <1>2, <1>5, <2>3, <3>1 DEF Listed
    <3>2. CASE l # m
      <4>1. Holder(l) = u
        BY <1>2, <1>8, <2>3, <3>2
      <4>2. PICK i \in 1..Slots : tib_locks[u][i] = l
        BY <4>1 DEF TrackInv, Listed
      <4>3. tib_locks'[u][i] = l
        BY <1>5, <1>6, <4>2, MutexAssumption
      <4> QED  BY <4>3 DEF Listed
    <3> QED  BY <3>1, <3>2
  <2>4. ASSUME NEW u \in Thread, Recording(u)'
        PROVE  Holder(self[u].mutex)' = u
    <3>1. CASE u = t
      BY <1>1, <1>2, <3>1 DEF Holder, m
    <3>2. CASE u # t
      <4>1. Recording(u) /\ self[u].mutex \in Lock /\ self'[u].mutex = self[u].mutex
        BY <1>4, <1>7, <2>4, <3>2 DEF Recording
      <4>2. Holder(self[u].mutex) = u
        BY <4>1 DEF TrackInv
      <4>3. self[u].mutex # m
        BY <1>1, <1>8, <4>2
      <4> QED  BY <1>2, <4>1, <4>2, <4>3 DEF Holder
    <3> QED  BY <3>1, <3>2
  <2> QED  BY <2>1, <2>2, <2>3, <2>4 DEF TrackInv, Holder
<1>10. NoSelfDeadlock'
  <2> SUFFICES ASSUME NEW u \in Thread, At(u, "acquire")', (self[u].f # "trylock")',
                      Holder(self[u].mutex)' = u
               PROVE  Full(u)'
    BY DEF NoSelfDeadlock
  <2>1. u # t
    BY <1>1 DEF At
  <2>2. /\ self'[u] = self[u] /\ At(u, "acquire") /\ self[u].mutex \in Lock
        /\ Holder(self[u].mutex) = u
    BY <1>2, <1>4, <1>7, <2>1 DEF At, Holder
  <2>3. Full(u)
    BY <2>2 DEF NoSelfDeadlock
  <2> QED  BY <1>6, <2>1, <2>3 DEF Full
<1>11. CheckedInv'
  <2> SUFFICES ASSUME NEW u \in Thread, NEW h \in ErrorCheck,
                      At(u, "acquire")', Holder(self[u].mutex)' # u, Holder(h)' = u
               PROVE  <<self'[u].mutex, h>> \notin edges
    BY <1>1 DEF CheckedInv
  <2>1. u # t
    BY <1>1 DEF At
  <2>2. /\ self'[u] = self[u] /\ At(u, "acquire") /\ self[u].mutex \in Lock
        /\ Holder(h) = u
    BY <1>2, <1>4, <1>7, <1>8, <2>1 DEF At
  <2>3. Holder(self[u].mutex) # u
    BY <1>1, <1>2, <1>8, <2>2 DEF Holder
  <2> QED  BY <2>2, <2>3 DEF CheckedInv
<1>12. \A u \in Thread, h, l \in ErrorCheck : PendingBy(u, h, l) => PendingBy(u, h, l)'
  <2> SUFFICES ASSUME NEW u \in Thread, NEW h \in ErrorCheck, NEW l \in ErrorCheck,
                      PendingBy(u, h, l)
               PROVE  PendingBy(u, h, l)'
    OBVIOUS
  <2>1. u # t
    BY <1>1 DEF PendingBy, Recording, At
  <2>2. Holder(h)' = u
    BY <1>1, <1>2, <1>8 DEF PendingBy
  <2>3. self'[u] = self[u] /\ tib_locks'[u] = tib_locks[u]
    BY <1>4, <1>6, <2>1
  <2> QED  BY <2>2, <2>3 DEF PendingBy, Recording
<1>13. RecordInv'
  <2> SUFFICES ASSUME NEW h \in ErrorCheck, NEW l \in ErrorCheck, <<h, l>> \in nested'
               PROVE  \/ <<h, l>> \in edges
                      \/ allocated = LOCK_EDGES_MAX
                      \/ \E u \in Thread : PendingBy(u, h, l)'
    BY <1>1 DEF RecordInv
  <2>1. CASE <<h, l>> \in nested
    BY <1>12, <2>1 DEF RecordInv
  <2>2. CASE Holder(h) = t /\ l = m
    <3>1. Holder(h)' = t
      BY <1>2, <1>8, <2>2
    <3>2. Listed(t, h)'
      BY <1>9, <3>1 DEF TrackInv
    <3>3. \E j \in 1..Slots : 1 <= j /\ tib_locks'[t][j] = h
      BY <3>2 DEF Listed
    <3>4. PendingBy(t, h, l)'
      BY <1>1, <2>2, <3>1, <3>3 DEF PendingBy, Recording
    <3> QED  BY <3>4
  <2> QED  BY <1>1, <2>1, <2>2 DEF Held
<1>14. \A h \in ErrorCheck : Holder(h) = t => h # m /\ <<m, h>> \notin edges
  BY <1>1, <1>8 DEF CheckedInv, m
<1>15. NewInv'
  <2> SUFFICES ASSUME NEW u \in Thread, NEW h \in ErrorCheck,
                      Recording(u)', Holder(h)' = u, h # self'[u].mutex
               PROVE  /\ <<h, self'[u].mutex>> \in nested'
                      /\ <<self'[u].mutex, h>> \notin nested' \/ allocated = LOCK_EDGES_MAX
    BY <1>1 DEF NewInv
  <2>1. CASE u = t
    <3>1. h # m /\ Holder(h) = t
      BY <1>1, <1>2, <1>8, <2>1
    <3>2. <<h, m>> \in nested'
      BY <1>1, <3>1 DEF Held
    <3>3. <<m, h>> \notin Held(t) \X {m}
      BY <3>1
    <3>4. <<m, h>> \in nested => allocated = LOCK_EDGES_MAX
      <4>1. ~\E v \in Thread : PendingBy(v, m, h)
        BY <1>1, <1>8 DEF PendingBy
      <4> QED  BY <1>1, <1>14, <3>1, <4>1 DEF RecordInv
    <3> QED  BY <1>1, <2>1, <3>2, <3>3, <3>4
  <2>2. CASE u # t
    <3>1. self'[u] = self[u] /\ Recording(u) /\ self[u].mutex \in ErrorCheck
      BY <1>4, <1>7, <2>2 DEF Recording
    <3>2. h # m /\ Holder(h) = u /\ Holder(self[u].mutex) = u
      BY <1>2, <1>8, <2>2, <3>1 DEF TrackInv
    <3>3. <<self[u].mutex, h>> \notin Held(t) \X {m}
      BY <3>2
    <3> QED  BY <1>1, <3>1, <3>2, <3>3 DEF NewInv
  <2> QED  BY <2>1, <2>2
<1>16. GraphInv'
  BY <1>1, <1>14 DEF GraphInv, Held
<1>17. OneWayNesting'
  <2> SUFFICES ASSUME NEW l \in ErrorCheck, NEW h \in ErrorCheck, <<l, h>> \in edges,
                      <<h, l>> \in nested'
               PROVE  FALSE
    BY <1>1 DEF OneWayNesting
  <2>1. <<h, l>> \notin nested
    BY DEF OneWayNesting
  <2>2. Holder(h) = t /\ l = m
    BY <1>1, <2>1 DEF Held
  <2> QED  BY <1>14, <2>2
<1> QED  BY <1>9, <1>10, <1>11, <1>13, <1>15, <1>16, <1>17


(* Where a recording thread is, and what it has still to record, is all    *)
(* that a scan or an insertion changes of the mutexes and tib_locks.       *)
LEMMA PromiseRecording ==
    ASSUME BaseInv, BaseInv', PromiseInv, NEW t \in Thread, Local(t), Recording(t),
           UNCHANGED <<word, tib_locks, nested>>,
           self'[t].pc \in {"idle", "record", "insert"},
           Recording(t)' => self'[t].mutex = self[t].mutex,
           allocated = LOCK_EDGES_MAX => allocated' = LOCK_EDGES_MAX
    PROVE  /\ TrackInv' /\ NoSelfDeadlock' /\ NewInv'
           /\ \A u \in Thread, h, l \in ErrorCheck :
                 u # t /\ PendingBy(u, h, l) => PendingBy(u, h, l)'
<1> USE DEF BaseInv, PromiseInv, OrderInv
<1>1. \A u \in Thread : u # t => self'[u] = self[u]
  BY DEF Local
<1>2. \A u \in Thread : Recording(u)' => Recording(u) /\ self'[u].mutex = self[u].mutex
  BY <1>1 DEF Recording
<1>3. \A u \in Thread : At(u, "acquire")' => u # t
  BY DEF At
<1>4. TrackInv'
  BY <1>2 DEF TrackInv, Listed, Holder
<1>5. NoSelfDeadlock'
  BY <1>1, <1>3 DEF NoSelfDeadlock, At, Full, Holder
<1>6. NewInv'
  BY <1>2 DEF NewInv, Holder
<1>7. \A u \in Thread, h, l \in ErrorCheck :
          u # t /\ PendingBy(u, h, l) => PendingBy(u, h, l)'
  BY <1>1 DEF PendingBy, Recording, Holder
<1> QED  BY <1>4, <1>5, <1>6, <1>7

(* A scan for a missing edge.                                              *)
LEMMA PromiseScan ==
    ASSUME BaseInv, BaseInv', PromiseInv, NEW t \in Thread, RecordScan(t)
    PROVE  PromiseInv'
<1> USE DEF BaseInv, PromiseInv, OrderInv
<1>1. /\ At(t, "record") /\ Local(t) /\ self[t].i \in 1..(Slots + 1)
      /\ UNCHANGED <<word, edges, allocated, tib_locks, nested>>
      /\ \/ Missing(t) = {} /\ self'[t].pc = "idle"
         \/ /\ self'[t].pc = "insert" /\ self'[t].mutex = self[t].mutex
            /\ self'[t].i \in Missing(t)
            /\ \A j \in Missing(t) : self'[t].i <= j
  BY ScanEffect
<1>2. Recording(t) /\ self'[t].pc \in {"idle", "record", "insert"}
      /\ (Recording(t)' => self'[t].mutex = self[t].mutex)
  BY <1>1 DEF Recording, At
<1>3. /\ TrackInv' /\ NoSelfDeadlock' /\ NewInv'
      /\ \A u \in Thread, h, l \in ErrorCheck :
            u # t /\ PendingBy(u, h, l) => PendingBy(u, h, l)'
  BY <1>1, <1>2, PromiseRecording
<1>4. CheckedInv'
  BY <1>1, <1>2 DEF CheckedInv, At, Holder, Local
<1>5. RecordInv'
  <2> SUFFICES ASSUME NEW h \in ErrorCheck, NEW l \in ErrorCheck, <<h, l>> \in nested,
                      <<h, l>> \notin edges, PendingBy(t, h, l)
               PROVE  PendingBy(t, h, l)'
    BY <1>1, <1>3 DEF RecordInv
  <2>1. PICK j \in 1..Slots : self[t].i <= j /\ tib_locks[t][j] = h
    BY DEF PendingBy
  <2>2. h # l /\ h # None /\ l = self[t].mutex
    BY MutexAssumption DEF GraphInv, PendingBy
  <2>3. j \in Missing(t)
    BY <1>1, <2>1, <2>2, MutexAssumption DEF Missing
  <2>4. /\ self'[t].pc = "insert" /\ self'[t].mutex = self[t].mutex
        /\ self'[t].i <= j
    BY <1>1, <2>3
  <2> QED  BY <1>1, <2>1, <2>4 DEF PendingBy, Recording, Holder
<1>6. GraphInv' /\ OneWayNesting'
  BY <1>1 DEF GraphInv, OneWayNesting
<1> QED  BY <1>3, <1>4, <1>5, <1>6

(* An edge is inserted.                                                    *)
LEMMA PromiseInsert ==
    ASSUME BaseInv, BaseInv', PromiseInv, NEW t \in Thread, RecordInsert(t)
    PROVE  PromiseInv'
<1> USE DEF BaseInv, PromiseInv, OrderInv
<1> DEFINE m == self[t].mutex
           e == tib_locks[t][self[t].i]
<1>1. /\ At(t, "insert") /\ Local(t) /\ self[t].i \in 1..Slots
      /\ self'[t].pc = "record" /\ self'[t].mutex = m
      /\ self'[t].i = self[t].i + 1
      /\ m \in ErrorCheck /\ e \in ErrorCheck /\ e # m
      /\ UNCHANGED <<word, tib_locks, nested>>
      /\ \/ allocated = LOCK_EDGES_MAX /\ UNCHANGED <<edges, allocated>>
         \/ /\ allocated \in 0..(LOCK_EDGES_MAX - 1) /\ allocated' = allocated + 1
            /\ edges' = edges \union {<<e, m>>}
  BY InsertEffect
<1>2. Recording(t) /\ Recording(t)' /\ Holder(m) = t
  BY <1>1 DEF Recording, At, TrackInv
<1>3. Holder(e) = t
  BY <1>1, MutexAssumption DEF TrackInv
<1>4. allocated = LOCK_EDGES_MAX => allocated' = LOCK_EDGES_MAX
  BY <1>1, MutexAssumption
<1>5. /\ TrackInv' /\ NoSelfDeadlock' /\ NewInv'
      /\ \A u \in Thread, h, l \in ErrorCheck :
            u # t /\ PendingBy(u, h, l) => PendingBy(u, h, l)'
  BY <1>1, <1>2, <1>4, PromiseRecording
<1>6. <<e, m>> \in nested /\ (<<m, e>> \notin nested \/ allocated = LOCK_EDGES_MAX)
  BY <1>1, <1>2, <1>3 DEF NewInv
<1>7. edges \subseteq edges' /\ edges' \subseteq edges \union {<<e, m>>}
  BY <1>1
<1>8. allocated' = LOCK_EDGES_MAX \/ <<e, m>> \in edges'
  BY <1>1
<1>9. RecordInv'
  <2> SUFFICES ASSUME NEW h \in ErrorCheck, NEW l \in ErrorCheck, <<h, l>> \in nested,
                      <<h, l>> \notin edges', allocated' # LOCK_EDGES_MAX,
                      PendingBy(t, h, l)
               PROVE  PendingBy(t, h, l)'
    BY <1>1, <1>4, <1>5, <1>7 DEF RecordInv
  <2>1. PICK j \in 1..Slots : self[t].i <= j /\ tib_locks[t][j] = h
    BY DEF PendingBy
  <2>2. l = m
    BY DEF PendingBy
  <2>3. j # self[t].i
    BY <1>8, <2>1, <2>2
  <2>4. self'[t].i <= j
    BY <1>1, <2>1, <2>3
  <2> QED  BY <1>1, <2>1, <2>4 DEF PendingBy, Recording, Holder
<1> HIDE DEF e, m
<1>10. CheckedInv'
  <2> SUFFICES ASSUME NEW u \in Thread, NEW h \in ErrorCheck, self'[u].pc = "acquire",
                      Holder(self'[u].mutex) # u, Holder(h) = u,
                      <<self'[u].mutex, h>> \in edges'
               PROVE  FALSE
    BY <1>1 DEF CheckedInv, At, Holder
  <2>1. u # t /\ self'[u] = self[u]
    BY <1>1 DEF Local
  <2>2. <<self[u].mutex, h>> \notin edges
    BY <2>1 DEF CheckedInv, At
  <2>3. h = m
    BY <1>7, <2>1, <2>2
  <2> QED  BY <1>2, <2>1, <2>3
<1>11. GraphInv'
  BY <1>1, <1>6, <1>7 DEF GraphInv
<1>12. OneWayNesting'
  <2>1. CASE allocated = LOCK_EDGES_MAX
    <3>1. edges' = edges
      BY <1>1, <2>1, MutexAssumption
    <3> QED  BY <1>1, <3>1 DEF OneWayNesting
  <2>2. CASE allocated # LOCK_EDGES_MAX
    <3> SUFFICES ASSUME NEW l \in ErrorCheck, NEW h \in ErrorCheck, <<l, h>> \in edges',
                        <<h, l>> \in nested
                 PROVE  FALSE
      BY <1>1 DEF OneWayNesting
    <3>1. <<l, h>> = <<e, m>>
      BY <1>7 DEF OneWayNesting
    <3>2. l = e /\ h = m
      BY <3>1
    <3> QED  BY <1>6, <2>2, <3>2
  <2> QED  BY <2>1, <2>2
<1> QED  BY <1>5, <1>9, <1>10, <1>11, <1>12

(* A mutex is unlocked.                                                    *)
LEMMA PromiseUnlock ==
    ASSUME BaseInv, BaseInv', PromiseInv, Roomy, Disciplined, NEW t \in Thread, Unlock(t)
    PROVE  PromiseInv'
<1> USE DEF BaseInv, PromiseInv, OrderInv
<1> DEFINE m == self[t].mutex
<1>1. /\ At(t, "unlock") /\ Local(t) /\ self'[t].pc = "idle"
      /\ m \in ErrorCheck /\ m \in Lock
      /\ UNCHANGED <<edges, allocated, nested>>
  BY UnlockEffect DEF Lock
<1>2. CASE UNCHANGED <<word, tib_locks>>
  BY <1>1, <1>2, PromiseQuiet DEF At
<1>3. CASE /\ Full(t) \/ Listed(t, m) \/ m \in Dynamic
           /\ \A l \in Lock : word'[l] = IF l = m THEN Free ELSE word[l]
           /\ \A u \in Thread : u # t => tib_locks'[u] = tib_locks[u]
           /\ \A i \in 1..Slots : tib_locks'[t][i] =
                 IF tib_locks[t][i] = m THEN None ELSE tib_locks[t][i]
  <2>1. Holder(m) = t
    BY <1>1, <1>3, MutexAssumption DEF Roomy, RoomyFor, Listed, TrackInv, Disciplined
  <2>2. \A u \in Thread : self'[u].pc \in {"acquire", "record", "insert"} =>
            /\ u # t /\ self'[u] = self[u]
            /\ self[u].mutex \in ErrorCheck /\ self[u].mutex \in Lock
    BY <1>1, CheckedMutex DEF Local
  <2>3. ErrorCheck \subseteq Lock /\ \A u \in Thread : u # None
    BY MutexAssumption DEF Lock
  <2> HIDE DEF m
  <2>4. \A l \in Lock : word'[l].owner = IF l = m THEN None ELSE Holder(l)
    BY <1>3, FreeTyped DEF Holder
  <2>5. \A u \in Thread, l \in ErrorCheck :
            word'[l].owner = u <=> Holder(l) = u /\ ~(u = t /\ l = m)
    BY <2>1, <2>3, <2>4
  <2>6. TrackInv'
    <3>1. ASSUME NEW u \in Thread, NEW i \in 1..Slots, tib_locks'[u][i] # None
          PROVE  /\ tib_locks'[u][i] = tib_locks[u][i] /\ ~(u = t /\ tib_locks[u][i] = m)
                 /\ word'[tib_locks'[u][i]].owner = u
      <4>1. tib_locks'[u][i] = tib_locks[u][i] /\ ~(u = t /\ tib_locks[u][i] = m)
        BY <1>3, <3>1
      <4>2. Holder(tib_locks[u][i]) = u /\ tib_locks[u][i] \in ErrorCheck
        BY <3>1, <4>1, EntryTyped DEF TrackInv
      <4> QED  BY <2>5, <4>1, <4>2
    <3>2. ASSUME NEW u \in Thread, NEW i \in 1..Slots, NEW j \in 1..Slots,
                 tib_locks'[u][i] = tib_locks'[u][j], tib_locks'[u][i] # None
          PROVE  i = j
      BY <3>1, <3>2 DEF TrackInv
    <3>3. ASSUME NEW u \in Thread, NEW l \in ErrorCheck, word'[l].owner = u
          PROVE  Listed(u, l)'
      <4>1. Holder(l) = u /\ ~(u = t /\ l = m)
        BY <2>5, <3>3
      <4>2. PICK i \in 1..Slots : tib_locks[u][i] = l
        BY <4>1 DEF TrackInv, Listed
      <4>3. tib_locks'[u][i] = l
        BY <1>3, <4>1, <4>2
      <4> QED  BY <4>3 DEF Listed
    <3>4. ASSUME NEW u \in Thread, Recording(u)'
          PROVE  word'[self'[u].mutex].owner = u
      <4>1. /\ u # t /\ self'[u] = self[u] /\ self[u].mutex \in ErrorCheck
            /\ Recording(u)
        BY <2>2, <3>4 DEF Recording
      <4> QED  BY <2>5, <4>1 DEF TrackInv
    <3> QED  BY <3>1, <3>2, <3>3, <3>4 DEF TrackInv, Holder
  <2>7. NoSelfDeadlock'
    <3> SUFFICES ASSUME NEW u \in Thread, self'[u].pc = "acquire", self'[u].f # "trylock",
                        word'[self'[u].mutex].owner = u
                 PROVE  Full(u)'
      BY DEF NoSelfDeadlock, At, Holder
    <3>1. u # t /\ self'[u] = self[u] /\ self[u].mutex \in ErrorCheck
      BY <2>2
    <3>2. Full(u)
      BY <2>5, <3>1 DEF NoSelfDeadlock, At
    <3> QED  BY <1>3, <3>1, <3>2 DEF Full
  <2>8. CheckedInv'
    <3> SUFFICES ASSUME NEW u \in Thread, NEW h \in ErrorCheck, self'[u].pc = "acquire",
                        word'[self'[u].mutex].owner # u, word'[h].owner = u
                 PROVE  <<self'[u].mutex, h>> \notin edges
      BY <1>1 DEF CheckedInv, At, Holder
    <3>1. u # t /\ self'[u] = self[u] /\ self[u].mutex \in ErrorCheck
      BY <2>2
    <3> QED  BY <2>5, <3>1 DEF CheckedInv, At
  <2>9. RecordInv'
    <3>1. ASSUME NEW u \in Thread, NEW h \in ErrorCheck, NEW l \in ErrorCheck,
                 PendingBy(u, h, l)
          PROVE  PendingBy(u, h, l)'
      <4>1. u # t
        BY <1>1, <3>1 DEF PendingBy, Recording, At
      <4>2. self'[u] = self[u] /\ tib_locks'[u] = tib_locks[u]
        BY <1>1, <1>3, <4>1 DEF Local
      <4>3. word'[h].owner = u
        BY <2>5, <3>1, <4>1 DEF PendingBy
      <4> QED  BY <3>1, <4>2, <4>3 DEF PendingBy, Recording, Holder
    <3> QED  BY <1>1, <3>1 DEF RecordInv
  <2>10. NewInv'
    <3> SUFFICES ASSUME NEW u \in Thread, NEW h \in ErrorCheck, Recording(u)',
                        word'[h].owner = u, h # self'[u].mutex
                 PROVE  /\ <<h, self'[u].mutex>> \in nested
                        /\ <<self'[u].mutex, h>> \notin nested \/ allocated = LOCK_EDGES_MAX
      BY <1>1 DEF NewInv, Holder
    <3>1. u # t /\ self'[u] = self[u] /\ Recording(u)
      BY <2>2 DEF Recording
    <3> QED  BY <2>5, <3>1 DEF NewInv
  <2>11. GraphInv' /\ OneWayNesting'
    BY <1>1 DEF GraphInv, OneWayNesting
  <2> QED  BY <2>6, <2>7, <2>8, <2>9, <2>10, <2>11
<1> QED  BY <1>2, <1>3, UnlockEffect


(* The initial state.                                                      *)
LEMMA PromiseInit == Init => PromiseInv
<1> SUFFICES ASSUME Init PROVE PromiseInv
  OBVIOUS
<1>1. /\ \A t \in Thread : self[t].pc = "idle" /\ t # None
      /\ \A l \in ErrorCheck : Holder(l) = None
      /\ \A t \in Thread, i \in 1..Slots : tib_locks[t][i] = None
      /\ edges = {} /\ nested = {}
  BY FreeTyped, MutexAssumption DEF Init, Idle, Holder, Lock
<1>2. TrackInv
  BY <1>1 DEF TrackInv, Recording
<1>3. NoSelfDeadlock /\ CheckedInv /\ NewInv
  BY <1>1 DEF NoSelfDeadlock, CheckedInv, NewInv, Recording, At
<1>4. RecordInv /\ GraphInv /\ OneWayNesting
  BY <1>1 DEF RecordInv, GraphInv, OneWayNesting
<1> QED  BY <1>2, <1>3, <1>4 DEF PromiseInv, OrderInv

(* Every step taken while there is room.                                   *)
LEMMA PromiseStep == IInv /\ Roomy /\ Disciplined /\ [Next]_vars => IInv'
<1> SUFFICES ASSUME IInv, Roomy, Disciplined, [Next]_vars PROVE IInv'
  OBVIOUS
<1>1. BaseInv /\ PromiseInv
  BY DEF IInv, PromiseInv
<1>2. BaseInv'
  BY <1>1, BaseStep
<1>3. PromiseInv'
  <2>1. CASE UNCHANGED vars
    <3>1. \A u \in Thread, h, l \in ErrorCheck : PendingBy(u, h, l) => PendingBy(u, h, l)'
      BY <2>1 DEF vars, graph, PendingBy, Recording, Holder
    <3>2. TrackInv' /\ NoSelfDeadlock'
      BY <1>1, <2>1 DEF vars, graph, PromiseInv, TrackInv, NoSelfDeadlock, Listed, Recording,
         Holder, At, Full
    <3>3. CheckedInv' /\ NewInv'
      BY <1>1, <2>1 DEF vars, graph, PromiseInv, OrderInv, CheckedInv, NewInv, Recording,
         Holder, At
    <3>4. RecordInv' /\ GraphInv' /\ OneWayNesting'
      BY <1>1, <2>1, <3>1 DEF vars, graph, PromiseInv, OrderInv, RecordInv, GraphInv,
         OneWayNesting
    <3> QED  BY <3>2, <3>3, <3>4 DEF PromiseInv, OrderInv
  <2>2. ASSUME NEW t \in Thread,
               \/ Call(t) \/ LockCheck(t) \/ LockAcquire(t) \/ LockGiveUp(t)
               \/ RecordScan(t) \/ RecordInsert(t) \/ Unlock(t)
               \/ RecursiveLoad(t) \/ RecursiveNest(t) \/ RecursiveLock(t)
               \/ RecursiveSpin(t) \/ RecursiveUnlock(t)
        PROVE  PromiseInv'
    BY <1>1, <1>2, <2>2, PromiseOther, PromiseCheck, PromiseAcquire, PromiseScan,
       PromiseInsert, PromiseUnlock
  <2> QED  BY <2>1, <2>2 DEF Next
<1> QED  BY <1>2, <1>3 DEF IInv, PromiseInv

(* An action changes the state of one thread only.                         *)
LEMMA ActionsLocal ==
    ASSUME BaseInv, NEW t \in Thread,
           \/ Call(t) \/ LockCheck(t) \/ LockAcquire(t) \/ LockGiveUp(t)
           \/ RecordScan(t) \/ RecordInsert(t) \/ Unlock(t)
           \/ RecursiveLoad(t) \/ RecursiveNest(t) \/ RecursiveLock(t)
           \/ RecursiveSpin(t) \/ RecursiveUnlock(t)
    PROVE  \A u \in Thread : u # t => self'[u] = self[u]
<1>1. self \in [Thread -> LocalState]
  BY SelfTyped DEF BaseInv
<1>2. ASSUME NEW r, self' = [self EXCEPT ![t] = r]
      PROVE  \A u \in Thread : u # t => self'[u] = self[u]
  BY <1>1, <1>2
<1>3. \E r : self' = [self EXCEPT ![t] = r]
  <2>1. CASE Call(t) \/ LockCheck(t) \/ LockAcquire(t) \/ LockGiveUp(t)
             \/ RecordScan(t) \/ RecordInsert(t) \/ Unlock(t)
    BY <2>1 DEF Call, LockCheck, LockAcquire, LockGiveUp, RecordScan, RecordInsert, Unlock,
       Return, Goto
  <2>2. CASE RecursiveLoad(t) \/ RecursiveNest(t) \/ RecursiveLock(t)
             \/ RecursiveSpin(t) \/ RecursiveUnlock(t)
    BY <2>2 DEF RecursiveLoad, RecursiveNest, RecursiveLock, RecursiveSpin,
       RecursiveUnlock, Exchange, Return, Goto, Load
  <2> QED  BY <2>1, <2>2
<1> QED  BY <1>2, <1>3

(* At first nobody unlocks anything.                                       *)
LEMMA DisciplineInit == Init => Disciplined
BY DEF Init, Idle, Disciplined, At

(* A thread comes to unlock an error checking mutex by a call.             *)
LEMMA ToUnlock ==
    ASSUME BaseInv, NEW t \in Thread, self'[t].pc = "unlock",
           \/ Call(t) \/ LockCheck(t) \/ LockAcquire(t) \/ LockGiveUp(t)
           \/ RecordScan(t) \/ RecordInsert(t) \/ Unlock(t)
           \/ RecursiveLoad(t) \/ RecursiveNest(t) \/ RecursiveLock(t)
           \/ RecursiveSpin(t) \/ RecursiveUnlock(t)
    PROVE  Call(t)
<1> USE DEF BaseInv
<1>1. ~Return(t)
  BY ReturnEffect
<1>2. \A p \in Pcs : Goto(t, p) => p = "unlock"
  BY GotoEffect
<1>3. ASSUME NEW p \in Pcs, self[t].mutex \in Lock, Load(t, p) PROVE p = "unlock"
  BY <1>3, LoadEffect
<1>4. ~LockCheck(t) /\ ~LockGiveUp(t)
  BY <1>1, <1>2 DEF LockCheck, LockGiveUp, Pcs
<1>5. ~LockAcquire(t)
  BY AcquireEffect
<1>6. ~RecordScan(t)
  BY ScanEffect
<1>7. ~RecordInsert(t)
  BY InsertEffect
<1>8. ~Unlock(t)
  BY <1>1 DEF Unlock
<1>9. CASE RecursiveLoad(t) \/ RecursiveNest(t) \/ RecursiveLock(t) \/ RecursiveSpin(t)
           \/ RecursiveUnlock(t)
  <2>1. self[t].mutex \in Lock
    BY <1>9, RecursiveMutex DEF RecursiveLoad, RecursiveNest, RecursiveLock, RecursiveSpin,
       RecursiveUnlock, At
  <2>2. ~Load(t, "rec_lock") /\ ~Load(t, "rec_unlock")
    BY <1>3, <2>1 DEF Pcs
  <2>3. ~Goto(t, "rec_spin")
    BY <1>2 DEF Pcs
  <2>4. \A w, n : ~Exchange(t, w, n, "rec_lock") /\ ~Exchange(t, w, n, "rec_unlock")
    BY <1>1, <2>2 DEF Exchange
  <2> QED  BY <1>1, <1>9, <2>2, <2>3, <2>4
           DEF RecursiveLoad, RecursiveNest, RecursiveLock, RecursiveSpin, RecursiveUnlock
<1> QED  BY <1>4, <1>5, <1>6, <1>7, <1>8, <1>9

(* Without misuse only their holders come to unlock the mutexes outside of *)
(* static memory, and hold them until they do.                             *)
LEMMA DisciplineKept ==
    ASSUME ~Misuse, IInv, Roomy, Disciplined, [Next]_vars
    PROVE  Disciplined'
<1>1. BaseInv /\ TypeOK /\ PcInv /\ TrackInv
  BY DEF IInv, BaseInv
<1>2. CASE UNCHANGED vars
  BY <1>2 DEF vars, Disciplined, At, Holder
<1>3. ASSUME NEW t \in Thread,
             \/ Call(t) \/ LockCheck(t) \/ LockAcquire(t) \/ LockGiveUp(t)
             \/ RecordScan(t) \/ RecordInsert(t) \/ Unlock(t)
             \/ RecursiveLoad(t) \/ RecursiveNest(t) \/ RecursiveLock(t)
             \/ RecursiveSpin(t) \/ RecursiveUnlock(t)
      PROVE  Disciplined'
  <2> SUFFICES ASSUME NEW u \in Thread, self'[u].pc = "unlock", self'[u].mutex \in Dynamic
               PROVE  word'[self'[u].mutex].owner = u
    BY DEF Disciplined, At, Holder
  <2>1. \A v \in Thread : v # t => self'[v] = self[v]
    BY <1>1, <1>3, ActionsLocal
  <2>2. Dynamic \subseteq Lock /\ Dynamic \cap Recursive = {} /\ u # None
    BY MutexAssumption DEF Lock
  <2>3. CASE u = t
    <3>1. Call(t)
      BY <1>1, <1>3, <2>3, ToUnlock
    <3>2. PICK l \in Lock, f \in {"lock", "trylock", "clocklock", "unlock"} :
            /\ f = "unlock" /\ l \in Dynamic => Misuse \/ Holder(l) = t
            /\ self' = [self EXCEPT ![t].f = f, ![t].mutex = l, ![t].pc =
                           IF l \in Recursive THEN "load"
                           ELSE IF f = "unlock" THEN "unlock" ELSE "check"]
      BY <3>1 DEF Call
    <3>3. /\ self'[t].mutex = l
          /\ self'[t].pc = IF l \in Recursive THEN "load"
                          ELSE IF f = "unlock" THEN "unlock" ELSE "check"
      BY <1>1, <3>2, SelfTyped DEF LocalState
    <3>4. word' = word
      BY <3>1 DEF Call
    <3> QED  BY <2>3, <3>2, <3>3, <3>4 DEF Holder
  <2>4. CASE u # t
    <3>1. self'[u] = self[u] /\ Holder(self[u].mutex) = u
      BY <2>1, <2>4 DEF Disciplined, At
    <3> DEFINE m == self[u].mutex
    <3>2. m \in Dynamic /\ m \in Lock /\ m \notin Recursive
      BY <2>2, <3>1
    <3> HIDE DEF m
    <3>3. word'[m] = word[m]
      <4>1. CASE LockAcquire(t)
        <5>1. /\ Holder(self[t].mutex) = None
              /\ \A l \in Lock : l # self[t].mutex => word'[l] = word[l]
          BY <1>1, <4>1, AcquireEffect
        <5> QED  BY <2>2, <3>1, <3>2, <5>1 DEF m
      <4>2. CASE Unlock(t)
        <5>1. /\ At(t, "unlock") /\ self[t].mutex \in ErrorCheck
              /\ \/ word' = word
                 \/ /\ Full(t) \/ Listed(t, self[t].mutex) \/ self[t].mutex \in Dynamic
                    /\ \A l \in Lock : l # self[t].mutex => word'[l] = word[l]
          BY <1>1, <4>2, UnlockEffect
        <5>2. CASE word' = word
          BY <5>2
        <5>3. CASE word' # word
          <6>1. Holder(self[t].mutex) = t
            BY <1>1, <5>1, <5>3, MutexAssumption
               DEF Roomy, RoomyFor, Listed, TrackInv, Disciplined
          <6>2. self[t].mutex # m
            BY <2>4, <3>1, <6>1 DEF m
          <6> QED  BY <3>2, <5>1, <5>3, <6>2
        <5> QED  BY <5>2, <5>3
      <4>3. ASSUME NEW k \in Recursive, NEW w, word' = [word EXCEPT ![k] = w]
            PROVE  word'[m] = word[m]
        BY <1>1, <3>2, <4>3 DEF TypeOK
      <4>4. CASE RecursiveNest(t) \/ RecursiveLock(t) \/ RecursiveUnlock(t)
        <5>1. self[t].mutex \in Recursive
          BY <1>1, <4>4, RecursiveMutex DEF RecursiveNest, RecursiveLock, RecursiveUnlock, At
        <5>2. word' = word \/ \E w : word' = [word EXCEPT ![self[t].mutex] = w]
          BY <4>4 DEF RecursiveNest, RecursiveLock, RecursiveUnlock, Exchange
        <5> QED  BY <4>3, <5>1, <5>2
      <4>5. CASE Call(t) \/ LockCheck(t) \/ LockGiveUp(t) \/ RecordScan(t) \/ RecordInsert(t)
                 \/ RecursiveLoad(t) \/ RecursiveSpin(t)
        BY <4>5 DEF Call, LockCheck, LockGiveUp, RecordScan, RecordInsert,
           RecursiveLoad, RecursiveSpin
      <4> QED  BY <1>3, <4>1, <4>2, <4>4, <4>5
    <3> QED  BY <3>1, <3>3 DEF Holder, m
  <2> QED  BY <2>3, <2>4
<1> QED  BY <1>2, <1>3 DEF Next

(* The inductive invariant holds in every behaviour with room and without  *)
(* misuse.                                                                 *)
LEMMA Invariance == ASSUME ~Misuse PROVE Spec /\ []Roomy => [](IInv /\ Disciplined)
<1>1. Init => IInv /\ Disciplined
  BY BaseInit, PromiseInit, DisciplineInit DEF IInv, PromiseInv
<1>2. IInv /\ Disciplined /\ Roomy /\ [Next]_vars => (IInv /\ Disciplined)'
  BY PromiseStep, DisciplineKept
<1> QED  BY <1>1, <1>2, PTL DEF Spec

(* Different entries fill all slots only with all mutexes.                 *)
LEMMA PigeonHole ==
    ASSUME IsFiniteSet(ErrorCheck), Cardinality(ErrorCheck) <= Slots, TypeOK, TrackInv
    PROVE  Roomy
<1> SUFFICES ASSUME NEW t \in Thread, Full(t), NEW l \in ErrorCheck
             PROVE  Holder(l) = t
  BY DEF Roomy, RoomyFor
<1> DEFINE s == tib_locks[t]
<1>1. s \in [1..Slots -> ErrorCheck]
  <2>1. tib_locks \in [Thread -> [1..Slots -> ErrorCheck \union {None}]]
    BY Zenon DEF TypeOK
  <2> QED  BY <2>1 DEF Full
<1>2. \A i, j \in 1..Slots : s[i] = s[j] => i = j
  BY DEF Full, TrackInv
<1>3. \A i \in 1..Slots : Holder(s[i]) = t
  BY DEF Full, TrackInv
<1> HIDE DEF s
<1>4. s \in Injection(1..Slots, ErrorCheck)
  BY <1>1, <1>2 DEF Injection, IsInjective
<1>5. Cardinality(1..Slots) = Slots
  BY FS_Interval, MutexAssumption
<1>6. /\ Cardinality(1..Slots) <= Cardinality(ErrorCheck)
      /\ Cardinality(1..Slots) = Cardinality(ErrorCheck) <=> s \in Surjection(1..Slots, ErrorCheck)
  BY <1>4, FS_Injection, Zenon
<1>7. Cardinality(ErrorCheck) \in Nat
  BY FS_CardinalityType
<1>8. s \in Surjection(1..Slots, ErrorCheck)
  BY <1>5, <1>6, <1>7, MutexAssumption
<1>9. PICK i \in 1..Slots : s[i] = l
  BY <1>8 DEF Surjection
<1> QED  BY <1>3, <1>9

(* There is room in a program whose error checking mutexes are not more    *)
(* than the slots of a tib_locks, of which the code has 64: what follows   *)
(* is promised to such a program, and to any other behaviour in which no   *)
(* thread fills its slots, if nobody unlocks mutexes of others that are    *)
(* not in static memory.                                                   *)
THEOREM RoomForAll ==
    ASSUME ~Misuse, IsFiniteSet(ErrorCheck), Cardinality(ErrorCheck) <= Slots
    PROVE  Spec => []Roomy
<1>1. Init => IInv /\ Disciplined
  BY BaseInit, PromiseInit, DisciplineInit DEF IInv, PromiseInv
<1>2. IInv => Roomy
  BY PigeonHole DEF IInv, BaseInv
<1>3. IInv /\ Disciplined /\ [Next]_vars => (IInv /\ Disciplined)'
  BY <1>2, PromiseStep, DisciplineKept
<1> QED  BY <1>1, <1>2, <1>3, PTL DEF Spec

(* A thread never waits for an error checking mutex it holds itself, and   *)
(* depths are counted, if tib_locks has room and mutexes outside of static *)
(* memory are not unlocked by others.                                      *)
THEOREM SelfDeadlockRefused == ASSUME ~Misuse PROVE Spec /\ []Roomy => []MutexInv
<1>1. IInv => MutexInv
  BY DEF IInv, BaseInv, MutexInv
<1> QED  BY <1>1, Invariance, PTL

(* A recorded nesting of two error checking mutexes is never reversed, for *)
(* any number of threads and mutexes and any limit on the edges, under the *)
(* same conditions.                                                        *)
THEOREM NestingOneWay == ASSUME ~Misuse PROVE Spec /\ []Roomy => []OneWayNesting
<1>1. IInv => OneWayNesting
  BY DEF IInv, OrderInv
<1> QED  BY <1>1, Invariance, PTL


OwnerStep ==
    \A l \in Lock, t \in Thread :
        Holder(l) = t /\ Holder(l)' # t =>
            self[t].pc \in {"unlock", "rec_unlock"} /\ self[t].mutex = l

(* A mutex is released by the thread that holds it only, although every    *)
(* thread may try to unlock any that is in static memory, under the same   *)
(* conditions.                                                             *)
THEOREM OwnerUnlocks == ASSUME ~Misuse PROVE Spec /\ []Roomy => OnlyOwnerUnlocks
<1>1. ASSUME IInv, Roomy, Disciplined, Next PROVE OwnerStep
  <2> SUFFICES ASSUME NEW l \in Lock, NEW u \in Thread, Holder(l) = u, Holder(l)' # u
               PROVE  self[u].pc \in {"unlock", "rec_unlock"} /\ self[u].mutex = l
    BY DEF OwnerStep
  <2>1. PICK t \in Thread :
          \/ Call(t) \/ LockCheck(t) \/ LockAcquire(t) \/ LockGiveUp(t)
          \/ RecordScan(t) \/ RecordInsert(t) \/ Unlock(t)
          \/ RecursiveLoad(t) \/ RecursiveNest(t) \/ RecursiveLock(t)
          \/ RecursiveSpin(t) \/ RecursiveUnlock(t)
    BY <1>1 DEF Next
  <2>2. BaseInv /\ TypeOK /\ PcInv /\ TrackInv /\ u # None
    BY <1>1, MutexAssumption DEF IInv, BaseInv
  <2>3. word' # word
    BY DEF Holder
  <2>4. CASE LockAcquire(t)
    <3>1. /\ Holder(self[t].mutex) = None
          /\ \A m \in Lock : m # self[t].mutex => word'[m] = word[m]
      BY <2>2, <2>4, AcquireEffect
    <3> QED  BY <2>2, <3>1 DEF Holder
  <2>5. CASE Unlock(t)
    <3>1. /\ At(t, "unlock") /\ self[t].mutex \in ErrorCheck
          /\ Full(t) \/ Listed(t, self[t].mutex) \/ self[t].mutex \in Dynamic
          /\ \A m \in Lock : m # self[t].mutex => word'[m] = word[m]
      BY <2>2, <2>3, <2>5, UnlockEffect
    <3>2. Holder(self[t].mutex) = t
      BY <1>1, <2>2, <3>1, MutexAssumption
         DEF Roomy, RoomyFor, Listed, TrackInv, Disciplined
    <3>3. self[t].mutex = l
      BY <3>1 DEF Holder
    <3> QED  BY <3>1, <3>2, <3>3 DEF At
  <2>6. ASSUME NEW m \in Lock, NEW w, word' = [word EXCEPT ![m] = w]
        PROVE  l = m /\ w.owner # u
    BY <2>2, <2>6 DEF Holder, TypeOK
  <2>7. CASE RecursiveNest(t)
    <3>1. /\ self[t].mutex \in Lock /\ self[t].word \in Word
          /\ self[t].word.owner = t
      BY <2>2, <2>7, RecursiveMutex DEF RecursiveNest, At
    <3>2. /\ word[self[t].mutex] = self[t].word
          /\ word' = [word EXCEPT ![self[t].mutex] = Deeper(self[t].word, 1)]
      BY <2>3, <2>7 DEF RecursiveNest, Exchange
    <3>3. Deeper(self[t].word, 1).owner = t
      BY <3>1 DEF Deeper, Word
    <3> QED  BY <2>6, <3>1, <3>2, <3>3 DEF Holder
  <2>8. CASE RecursiveLock(t)
    <3>1. self[t].mutex \in Lock
      BY <2>2, <2>8, RecursiveMutex DEF RecursiveLock, At
    <3>2. /\ word[self[t].mutex] = Free
          /\ word' = [word EXCEPT ![self[t].mutex] = [owner |-> t, depth |-> 0]]
      BY <2>3, <2>8 DEF RecursiveLock
    <3> QED  BY <2>2, <2>6, <3>1, <3>2, FreeTyped DEF Holder
  <2>9. CASE RecursiveUnlock(t)
    <3> DEFINE w == self[t].word
               v == IF w.depth > 0 THEN Deeper(w, -1) ELSE Free
    <3>1. self[t].mutex \in Lock /\ At(t, "rec_unlock")
      BY <2>2, <2>9, RecursiveMutex DEF RecursiveUnlock, At
    <3>2. /\ word[self[t].mutex] = w /\ w.owner \in {None, t}
          /\ word' = [word EXCEPT ![self[t].mutex] = v]
      BY <2>3, <2>9 DEF RecursiveUnlock, Exchange
    <3>3. l = self[t].mutex
      BY <2>6, <3>1, <3>2
    <3>4. t = u
      BY <2>2, <3>2, <3>3 DEF Holder
    <3> QED  BY <3>1, <3>3, <3>4 DEF At
  <2>10. CASE Call(t) \/ LockCheck(t) \/ LockGiveUp(t) \/ RecordScan(t) \/ RecordInsert(t)
              \/ RecursiveLoad(t) \/ RecursiveSpin(t)
    BY <2>3, <2>10 DEF Call, LockCheck, LockGiveUp, RecordScan, RecordInsert,
       RecursiveLoad, RecursiveSpin
  <2> QED  BY <2>1, <2>4, <2>5, <2>7, <2>8, <2>9, <2>10
<1>2. IInv /\ Roomy /\ Disciplined /\ [Next]_vars => [OwnerStep]_vars
  BY <1>1
<1>3. Spec /\ []Roomy => [][OwnerStep]_vars
  BY <1>2, Invariance, PTL DEF Spec
<1> QED  BY <1>3 DEF OnlyOwnerUnlocks, OwnerStep

AlarmStep ==
    \A t \in Thread :
        LET l == self[t].mutex
        IN At(t, "check") /\ At(t, "idle")' =>
              Holder(l) = t \/ Cyclic(nested \union (Held(t) \X {l}))

(* EDEADLK for a mutex the thread does not hold means that mutexes have    *)
(* been nested in a cycle, or would be, under the same conditions.         *)
THEOREM AlarmJustified == ASSUME ~Misuse PROVE Spec /\ []Roomy => NoFalseAlarm
<1>1. ASSUME IInv, Next PROVE AlarmStep
  <2> SUFFICES ASSUME NEW t \in Thread, At(t, "check"), At(t, "idle")',
                      Holder(self[t].mutex) # t
               PROVE  Cyclic(nested \union (Held(t) \X {self[t].mutex}))
    BY DEF AlarmStep
  <2> DEFINE l == self[t].mutex
             N == nested \union (Held(t) \X {l})
  <2>1. BaseInv /\ TypeOK /\ PcInv /\ TrackInv /\ GraphInv
    BY <1>1 DEF IInv, BaseInv, OrderInv
  <2>2. l \in ErrorCheck /\ edges \subseteq N
    BY <2>1, CheckedMutex DEF At, GraphInv
  <2>3. LockCheck(t)
    <3>1. PICK u \in Thread :
            \/ Call(u) \/ LockCheck(u) \/ LockAcquire(u) \/ LockGiveUp(u)
            \/ RecordScan(u) \/ RecordInsert(u) \/ Unlock(u)
            \/ RecursiveLoad(u) \/ RecursiveNest(u) \/ RecursiveLock(u)
            \/ RecursiveSpin(u) \/ RecursiveUnlock(u)
      BY <1>1 DEF Next
    <3>2. \A v \in Thread : v # u => self'[v] = self[v]
      BY <2>1, <3>1, ActionsLocal
    <3>3. u = t
      BY <3>2 DEF At
    <3> QED  BY <3>1, <3>3 DEF At, Call, LockAcquire, LockGiveUp, RecordScan, RecordInsert,
             Unlock, RecursiveLoad, RecursiveNest, RecursiveLock, RecursiveSpin,
             RecursiveUnlock
  <2>4. ~Listed(t, l)
    BY <2>1, <2>2, MutexAssumption DEF TrackInv, Listed
  <2>5. Check(t, l)
    <3>1. ~(Tracked(t, l) = 1)
      BY <2>4 DEF Tracked
    <3>2. CASE ~Check(t, l)
      <4>1. Goto(t, "acquire")
        BY <2>3, <3>1, <3>2 DEF LockCheck
      <4>2. self'[t].pc = "acquire"
        BY <2>1, <4>1, GotoEffect DEF Pcs
      <4> QED  BY <4>2 DEF At
    <3> QED  BY <3>2
  <2>6. PICK i \in 1..Slots : tib_locks[t][i] # None /\ Visit(l, tib_locks[t][i])
    BY <2>5 DEF Check
  <2>7. PICK h \in ErrorCheck : h = tib_locks[t][i] /\ Holder(h) = t
    BY <2>1, <2>6, EntryTyped DEF TrackInv
  <2>8. CASE Reaches(edges, l, h)
    <3>1. Reaches(N, l, h) /\ <<h, l>> \in N
      BY <2>2, <2>7, <2>8, ReachesMore DEF Held
    <3>2. Reaches(N, h, h)
      BY <2>2, <3>1, ReachesBack
    <3> QED  BY <3>2 DEF Cyclic
  <2>9. ASSUME NEW x \in ErrorCheck, Reaches(edges, x, x)
        PROVE  Cyclic(N)
    <3>1. Reaches(N, x, x)
      BY <2>2, <2>9, ReachesMore
    <3> QED  BY <3>1 DEF Cyclic
  <2> QED  BY <2>6, <2>7, <2>8, <2>9 DEF Visit
<1>2. IInv /\ [Next]_vars => [AlarmStep]_vars
  BY <1>1
<1>3. Spec /\ []Roomy => [][AlarmStep]_vars
  BY <1>2, Invariance, PTL DEF Spec
<1> QED  BY <1>3 DEF NoFalseAlarm, AlarmStep

=============================================================================
