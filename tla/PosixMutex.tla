----------------------------- MODULE PosixMutex -----------------------------
(***************************************************************************)
(* Error checking and recursive mutexes without nsync, in a build that is  *)
(* not a debug build: libc/intrin/pthread_mutex_{lock,unlock}.c,           *)
(* libc/thread/pthread_mutex_clocklock.c and libc/intrin/deadlock.c.       *)
(*                                                                         *)
(* A thread notes the error checking mutexes it holds in its tib_locks and *)
(* refuses to lock one of them again, or one from which the graph of locks *)
(* nested so far leads back to one of them. What an error checking mutex   *)
(* does to block is taken from the abstract Mutex, which DrepperMutex      *)
(* implements. A recursive mutex is a word with its owner and its depth    *)
(* that is changed by compare and exchange; each load and each compare and *)
(* exchange is one step.                                                   *)
(*                                                                         *)
(* Edges of the graph are never removed, so a search in it can be one step *)
(* whatever is added meanwhile. Only its own thread looks at a tib_locks.  *)
(***************************************************************************)
EXTENDS Integers, FiniteSets

CONSTANTS
    Thread,
    ErrorCheck,     \* the mutexes of type PTHREAD_MUTEX_ERRORCHECK
    Dynamic,        \* those of them that are not in static memory
    Misuse,         \* whether threads also unlock Dynamic mutexes of others
    Recursive,      \* the mutexes of type PTHREAD_MUTEX_RECURSIVE
    Slots,          \* the length of tib_locks
    LOCK_EDGES_MAX,
    MUTEX_DEPTH_MAX

None == "none"

ASSUME MutexAssumption ==
    /\ ErrorCheck \cap Recursive = {} /\ Dynamic \subseteq ErrorCheck
    /\ Misuse \in BOOLEAN
    /\ None \notin Thread \union ErrorCheck \union Recursive
    /\ Slots \in Nat \ {0} /\ LOCK_EDGES_MAX \in Nat /\ MUTEX_DEPTH_MAX \in Nat

Lock == ErrorCheck \union Recursive
Free == [owner |-> None, depth |-> 0]

VARIABLES
    word,      \* the owner and the depth of each mutex
    edges,     \* the graph of nested error checking mutexes
    allocated, \* __deadlock.edges_allocated
    tib_locks, \* of each thread, an array of mutexes or None
    self,      \* what each thread does next, in which call, with its local
               \* variables word and, of __deadlock_record(), i
    nested,    \* ghost: <<h, l>> if l was acquired by a thread that held h
    nest       \* ghost: how often a thread has acquired each recursive mutex

graph == <<edges, allocated>>
vars == <<word, graph, tib_locks, self, nested, nest>>

Idle == [pc |-> "idle", f |-> None, mutex |-> None, word |-> Free, i |-> 0]

At(t, l) == self[t].pc = l
Goto(t, l) == self' = [self EXCEPT ![t].pc = l]
Return(t) == self' = [self EXCEPT ![t] = Idle]

Holder(l) == word[l].owner
Held(t) == {l \in ErrorCheck : Holder(l) = t}

-----------------------------------------------------------------------------
(* deadlock.c                                                              *)

Full(t) == \A i \in 1..Slots : tib_locks[t][i] # None
Listed(t, l) == \E i \in 1..Slots : tib_locks[t][i] = l

(* __deadlock_tracked(): 1, 0 or -1 when uncertain. A mutex that is not in *)
(* static memory is tracked and recorded like the others, since an error   *)
(* checking one passes notrap, but that it is not listed proves nothing.   *)
Tracked(t, l) ==
    IF Full(t) THEN -1
    ELSE IF Listed(t, l) THEN 1
    ELSE IF l \in Dynamic THEN -1 ELSE 0

(* Edges of E lead from l to h, which is in every set they do not lead out *)
(* of, starting from l.                                                    *)
Reaches(E, l, h) ==
    \A S \in SUBSET ErrorCheck :
        (\A e \in E : e[1] = l \/ e[1] \in S => e[2] \in S) => h \in S
Cyclic(E) == \E l \in ErrorCheck : Reaches(E, l, l)

(* __deadlock_visit(): from l the graph leads to h, or into a cycle.       *)
Visit(l, h) ==
    \/ Reaches(edges, l, h)
    \/ \E x \in ErrorCheck :
          (x = l \/ Reaches(edges, l, x)) /\ Reaches(edges, x, x)

(* __deadlock_check() stops with success at an entry that is l itself.     *)
Check(t, l) ==
    \E i \in 1..Slots :
        /\ tib_locks[t][i] # None
        /\ \A j \in 1..i : tib_locks[t][j] # l
        /\ Visit(l, tib_locks[t][i])

(* __deadlock_track() and __deadlock_untrack()                             *)
Track(t, l) ==
    \/ Full(t) /\ UNCHANGED tib_locks
    \/ \E i \in 1..Slots :
          /\ tib_locks[t][i] = None /\ \A j \in 1..(i - 1) : tib_locks[t][j] # None
          /\ tib_locks' = [tib_locks EXCEPT ![t][i] = l]
Untrack_Forgotten(t, l) == tib_locks
Untrack(t, l) ==
    [tib_locks EXCEPT ![t] = [i \in 1..Slots |-> IF @[i] = l THEN None ELSE @[i]]]

-----------------------------------------------------------------------------

(* Threads also unlock mutexes they do not hold. Errors are not checked    *)
(* for mutexes outside of static memory (the comment of                    *)
(* pthread_mutex_lock() says so): there it depends on Misuse.              *)
Call(t) ==
    /\ At(t, "idle")
    /\ \E l \in Lock, f \in {"lock", "trylock", "clocklock", "unlock"} :
          /\ f = "unlock" /\ l \in Dynamic => Misuse \/ Holder(l) = t
          /\ self' = [self EXCEPT ![t].f = f, ![t].mutex = l, ![t].pc =
                         IF l \in Recursive THEN "load"
                         ELSE IF f = "unlock" THEN "unlock" ELSE "check"]
    /\ UNCHANGED <<word, graph, tib_locks, nested, nest>>

-----------------------------------------------------------------------------
(* Error checking mutexes                                                  *)

(* EDEADLK if the thread has the mutex already, or a cycle is found.       *)
LockCheck_OnlyOwn(t) ==
    /\ At(t, "check")
    /\ IF self[t].f # "trylock" /\ Tracked(t, self[t].mutex) = 1
       THEN Return(t) ELSE Goto(t, "acquire")
    /\ UNCHANGED <<word, graph, tib_locks, nested, nest>>
LockCheck(t) ==
    /\ At(t, "check")
    /\ IF \/ self[t].f # "trylock" /\ Tracked(t, self[t].mutex) = 1
          \/ Check(t, self[t].mutex)
       THEN Return(t) ELSE Goto(t, "acquire")
    /\ UNCHANGED <<word, graph, tib_locks, nested, nest>>

LockAcquire(t) ==
    LET l == self[t].mutex
    IN /\ At(t, "acquire") /\ Holder(l) = None
       /\ word' = [word EXCEPT ![l].owner = t]
       /\ nested' = nested \union (Held(t) \X {l})
       /\ Track(t, l)
       /\ self' = [self EXCEPT ![t].i = 1, ![t].pc = "record"]
       /\ UNCHANGED <<graph, nest>>

LockGiveUp(t) == \* EBUSY, ETIMEDOUT
    /\ At(t, "acquire") /\ Holder(self[t].mutex) # None
    /\ self[t].f \in {"trylock", "clocklock"}
    /\ Return(t)
    /\ UNCHANGED <<word, graph, tib_locks, nested, nest>>

(* __deadlock_record() and __deadlock_add_edge(): the entries from which   *)
(* an edge is missing, when it is looked for. It may no longer be missing  *)
(* when it is added.                                                       *)
Missing(t) ==
    {i \in self[t].i..Slots :
        /\ tib_locks[t][i] \notin {None, self[t].mutex}
        /\ <<tib_locks[t][i], self[t].mutex>> \notin edges}

RecordScan(t) ==
    /\ At(t, "record")
    /\ \/ Missing(t) = {} /\ Return(t)
       \/ \E i \in Missing(t) :
             /\ \A j \in Missing(t) : i <= j
             /\ self' = [self EXCEPT ![t].i = i, ![t].pc = "insert"]
    /\ UNCHANGED <<word, graph, tib_locks, nested, nest>>

RecordInsert(t) ==
    /\ At(t, "insert")
    /\ IF allocated = LOCK_EDGES_MAX THEN UNCHANGED graph
       ELSE /\ allocated' = allocated + 1
            /\ edges' = edges \union {<<tib_locks[t][self[t].i], self[t].mutex>>}
    /\ self' = [self EXCEPT ![t].i = @ + 1, ![t].pc = "record"]
    /\ UNCHANGED <<word, tib_locks, nested, nest>>

Unlock_Unchecked(t) ==
    LET l == self[t].mutex
    IN /\ At(t, "unlock")
       /\ word' = [word EXCEPT ![l] = Free]
       /\ tib_locks' = Untrack(t, l)
       /\ Return(t)
       /\ UNCHANGED <<graph, nested, nest>>
Unlock(t) ==
    LET l == self[t].mutex
    IN /\ At(t, "unlock")
       /\ IF Tracked(t, l) = 0 THEN UNCHANGED <<word, tib_locks>> \* EPERM
          ELSE word' = [word EXCEPT ![l] = Free] /\ tib_locks' = Untrack(t, l)
       /\ Return(t)
       /\ UNCHANGED <<graph, nested, nest>>

-----------------------------------------------------------------------------
(* Recursive mutexes                                                       *)

Load(t, l) == self' = [self EXCEPT ![t].word = word[self[t].mutex], ![t].pc = l]

RecursiveLoad(t) ==
    /\ At(t, "load")
    /\ Load(t, IF self[t].f = "unlock" THEN "rec_unlock" ELSE "rec_lock")
    /\ UNCHANGED <<word, graph, tib_locks, nested, nest>>

(* A compare and exchange of the word that was loaded by w, which leaves   *)
(* the thread with n more acquisitions. If it fails it loads the word, and *)
(* the loop at l goes on.                                                  *)
Exchange(t, w, n, l) ==
    LET m == self[t].mutex
    IN IF word[m] = self[t].word
       THEN /\ word' = [word EXCEPT ![m] = w]
            /\ nest' = [nest EXCEPT ![t][m] = @ + n]
            /\ Return(t)
       ELSE Load(t, l) /\ UNCHANGED <<word, nest>>

Deeper(w, n) == [w EXCEPT !.depth = @ + n]

RecursiveNest(t) ==
    /\ At(t, "rec_lock") /\ self[t].word.owner = t
    /\ IF self[t].word.depth < MUTEX_DEPTH_MAX
       THEN Exchange(t, Deeper(self[t].word, 1), 1, "rec_lock")
       ELSE Return(t) /\ UNCHANGED <<word, nest>> \* EAGAIN
    /\ UNCHANGED <<graph, tib_locks, nested>>

(* Expects a free mutex, whatever was seen. The weak compare and exchange  *)
(* may also fail on a free one.                                            *)
RecursiveLock(t) ==
    LET m == self[t].mutex
    IN /\ At(t, "rec_lock") /\ self[t].word.owner # t
       /\ \/ /\ word[m] = Free
             /\ word' = [word EXCEPT ![m] = [owner |-> t, depth |-> 0]]
             /\ nest' = [nest EXCEPT ![t][m] = @ + 1]
             /\ Return(t)
          \/ /\ IF self[t].f = "trylock" THEN Return(t) ELSE Goto(t, "rec_spin")
             /\ UNCHANGED <<word, nest>>
       /\ UNCHANGED <<graph, tib_locks, nested>>

RecursiveSpin(t) ==
    /\ At(t, "rec_spin")
    /\ IF word[self[t].mutex] = Free \/ Holder(self[t].mutex) = t
       THEN Load(t, "rec_lock")
       ELSE self[t].f = "clocklock" /\ Return(t) \* ETIMEDOUT
    /\ UNCHANGED <<word, graph, tib_locks, nested, nest>>

(* EPERM if another thread has the mutex; a free one may be unlocked.      *)
RecursiveUnlock_Outermost(t) ==
    LET w == self[t].word
    IN /\ At(t, "rec_unlock")
       /\ IF w.owner \in {None, t}
          THEN Exchange(t, Free, IF w.owner = t THEN -1 ELSE 0, "rec_unlock")
          ELSE Return(t) /\ UNCHANGED <<word, nest>>
       /\ UNCHANGED <<graph, tib_locks, nested>>
RecursiveUnlock(t) ==
    LET w == self[t].word
    IN /\ At(t, "rec_unlock")
       /\ IF w.owner \in {None, t}
          THEN Exchange(t, IF w.depth > 0 THEN Deeper(w, -1) ELSE Free,
                        IF w.owner = t THEN -1 ELSE 0, "rec_unlock")
          ELSE Return(t) /\ UNCHANGED <<word, nest>>
       /\ UNCHANGED <<graph, tib_locks, nested>>

-----------------------------------------------------------------------------

Init ==
    /\ word = [l \in Lock |-> Free]
    /\ edges = {} /\ allocated = 0
    /\ tib_locks = [t \in Thread |-> [i \in 1..Slots |-> None]]
    /\ self = [t \in Thread |-> Idle]
    /\ nested = {}
    /\ nest = [t \in Thread |-> [l \in Recursive |-> 0]]

Next ==
    \E t \in Thread :
        \/ Call(t)
        \/ LockCheck(t) \/ LockAcquire(t) \/ LockGiveUp(t)
        \/ RecordScan(t) \/ RecordInsert(t) \/ Unlock(t)
        \/ RecursiveLoad(t) \/ RecursiveNest(t) \/ RecursiveLock(t)
        \/ RecursiveSpin(t) \/ RecursiveUnlock(t)

Spec == Init /\ [][Next]_vars

-----------------------------------------------------------------------------
(* Properties                                                              *)

(* Every variable has its type; the depth of a mutex stays in its field.   *)
Word == [owner : Thread \union {None}, depth : 0..MUTEX_DEPTH_MAX]
TypeOK ==
    /\ word \in [Lock -> Word]
    /\ edges \subseteq ErrorCheck \X ErrorCheck
    /\ allocated \in 0..LOCK_EDGES_MAX
    /\ tib_locks \in [Thread -> [1..Slots -> ErrorCheck \union {None}]]
    /\ self \in [Thread -> [pc : {"idle", "check", "acquire", "record", "insert", "unlock",
                                 "load", "rec_lock", "rec_spin", "rec_unlock"},
                           f : {"lock", "trylock", "clocklock", "unlock", None},
                           mutex : Lock \union {None},
                           word : Word,
                           i : 0..(Slots + 1)]]
    /\ nested \subseteq ErrorCheck \X ErrorCheck
    /\ nest \in [Thread -> [Recursive -> Nat]]

(* A mutex a thread holds is taken from it by nobody else, although every  *)
(* thread tries to unlock every mutex but the Dynamic ones, if it does not *)
(* misuse them: unlocking goes by tib_locks, which here has room for all   *)
(* mutexes, or by a word that was loaded before.                           *)
OnlyOwnerUnlocks ==
    [][\A l \in Lock, t \in Thread :
        Holder(l) = t /\ Holder(l)' # t =>
            self[t].pc \in {"unlock", "rec_unlock"} /\ self[t].mutex = l]_vars

(* A recursive mutex is released by the last of as many unlocks as there   *)
(* were locks, and held until then.                                        *)
NestCounted ==
    \A t \in Thread, l \in Recursive :
        nest[t][l] = IF Holder(l) = t THEN word[l].depth + 1 ELSE 0

(* Two error checking mutexes whose nesting has been recorded are never    *)
(* nested the other way, not even by threads that check at once: what one  *)
(* nests is in the graph before it releases anything, and another checks   *)
(* while it holds what the first one needs. That holds for what has been   *)
(* recorded when the memory for edges is used up, too.                     *)
OneWayNesting ==
    \A l, m \in ErrorCheck : <<l, m>> \in edges => <<m, l>> \notin nested

(* EDEADLK is no false alarm: a thread is refused a mutex it does not hold *)
(* only if mutexes have been nested in a cycle, or would be with it.       *)
NoFalseAlarm ==
    [][\A t \in Thread :
        LET l == self[t].mutex
        IN At(t, "check") /\ At(t, "idle")' =>
              Holder(l) = t \/ Cyclic(nested \union (Held(t) \X {l}))]_vars

(* A thread does not wait for an error checking mutex it holds itself,     *)
(* unless its tib_locks is full and it cannot know.                        *)
NoSelfDeadlock ==
    \A t \in Thread :
        At(t, "acquire") /\ self[t].f # "trylock" /\ Holder(self[t].mutex) = t => Full(t)

(* Words, nesting depths and the tib_locks agree.                          *)
MutexInv == TypeOK /\ NestCounted /\ NoSelfDeadlock
=============================================================================
