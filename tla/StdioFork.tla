------------------------------ MODULE StdioFork ------------------------------
(***************************************************************************)
(* The table of stdio streams and its locks: __stdio_alloc(), fclose(),    *)
(* fflush(f), fflush(0), the reference counts of __stdio_ref() and         *)
(* __stdio_unref(), and what fork() does to them (fork_prepare_stdio(),    *)
(* fork_parent_stdio() and fork_child_stdio() of libc/proc/fork.c). The    *)
(* hierarchy is FILE::lock, then __stdio.lock. A section under             *)
(* __stdio.lock is one step; closing threads change reference counts       *)
(* without it. The memory of a stream that is freed may be given to the    *)
(* next stream. When fork() returns, the behaviour goes on in the parent   *)
(* or in the child, where the other threads are no more. A thread that is  *)
(* cancelled in fclose() stops there for good, one that is cancelled       *)
(* elsewhere runs its cleanup handlers and makes room for another.         *)
(***************************************************************************)
EXTENDS Integers, FiniteSets, Sequences, SequencesExt

CONSTANTS
    Thread,
    Flusher, \* the threads that call fflush(0)
    Forker,  \* the threads that call fork()
    File     \* bound: places in memory for streams

None == "none"

ASSUME RoleAssumption ==
    /\ IsFiniteSet(Thread) /\ Flusher \subseteq Thread /\ Forker \subseteq Thread
    /\ None \notin Thread \union File

VARIABLES
    files,   \* __stdio.files, first to last
    heap,    \* the streams that are allocated
    refs,    \* FILE::refs: 0, less one for every reference, 1 when freed
    forking, \* FILE::forking
    flock,   \* owner of FILE::lock, or None
    stdio,   \* owner of __stdio.lock, or None
    supreme, \* owner of the supreme_lock of fork(), or None
    handle,  \* the stream each thread has open, or None
    pc, cur, \* what each thread does next, and to which stream
    ret,     \* where its __stdio_unref() returns to
    alone    \* the one thread there is in a forked child, None otherwise

table == <<files, heap, refs>>
locks == <<forking, flock, stdio, supreme>>
vars == <<table, locks, handle, pc, cur, ret, alone>>

(* The threads of the process.                                             *)
Present == IF alone = None THEN Thread ELSE {alone}

Goto(t, l) == pc' = [pc EXCEPT ![t] = l]
Use(t, f, l) == pc' = [pc EXCEPT ![t] = l] /\ cur' = [cur EXCEPT ![t] = f]

(* pthread_mutex_lock() and pthread_mutex_unlock() of a FILE::lock, which  *)
(* is recursive and private to the process                                 *)
Lock(t, f) == flock[f] \in {None, t} /\ flock' = [flock EXCEPT ![f] = t]
Unlock(f) == flock' = [flock EXCEPT ![f] = None]

(* dll_prev(__stdio.files, f) and dll_remove(&__stdio.files, f)            *)
Place(f) == CHOOSE i \in DOMAIN files : files[i] = f
Prev(f) == IF Place(f) = 1 THEN None ELSE files[Place(f) - 1]
Without(f) == RemoveAt(files, Place(f))

-----------------------------------------------------------------------------
(* __stdio_unref()                                                         *)

UnrefShared(t) ==
    /\ pc[t] = "unref" /\ refs[cur[t]] # 0
    /\ refs' = [refs EXCEPT ![cur[t]] = @ + 1]
    /\ Goto(t, ret[t])
    /\ UNCHANGED <<files, heap, locks, handle, cur, ret>>

UnrefLast(t) ==
    /\ pc[t] = "unref" /\ refs[cur[t]] = 0
    /\ Goto(t, "unref_lock")
    /\ UNCHANGED <<table, locks, handle, cur, ret>>

(* With the lock held the count is read again: fflush() and fork() take    *)
(* references under it.                                                    *)
UnrefLock_NoReload(t) ==
    /\ pc[t] = "unref_lock" /\ stdio = None
    /\ refs' = [refs EXCEPT ![cur[t]] = 1]
    /\ files' = Without(cur[t])
    /\ Goto(t, "free")
    /\ UNCHANGED <<heap, locks, handle, cur, ret>>
UnrefLock(t) ==
    /\ pc[t] = "unref_lock" /\ stdio = None
    /\ IF refs[cur[t]] # 0
       THEN Goto(t, "unref") /\ UNCHANGED <<files, refs>>
       ELSE /\ refs' = [refs EXCEPT ![cur[t]] = 1]
            /\ files' = Without(cur[t])
            /\ Goto(t, "free")
    /\ UNCHANGED <<heap, locks, handle, cur, ret>>

Free(t) ==
    /\ pc[t] = "free"
    /\ heap' = heap \ {cur[t]}
    /\ Goto(t, ret[t])
    /\ UNCHANGED <<files, refs, locks, handle, cur, ret>>

-----------------------------------------------------------------------------
(* __stdio_alloc() as called by fopen(), fclose() and fflush(f)            *)

Fopen_NoLock(t) ==
    /\ pc[t] = "idle" /\ handle[t] = None
    /\ \E f \in File \ heap :
          /\ heap' = heap \union {f}
          /\ files' = Append(files, f)
          /\ refs' = [refs EXCEPT ![f] = 0]
          /\ forking' = [forking EXCEPT ![f] = FALSE]
          /\ flock' = [flock EXCEPT ![f] = None]
          /\ handle' = [handle EXCEPT ![t] = f]
    /\ UNCHANGED <<stdio, supreme, pc, cur, ret>>
Fopen(t) ==
    /\ pc[t] = "idle" /\ handle[t] = None /\ stdio = None
    /\ \E f \in File \ heap :
          /\ heap' = heap \union {f}
          /\ files' = Append(files, f)
          /\ refs' = [refs EXCEPT ![f] = 0]
          /\ forking' = [forking EXCEPT ![f] = FALSE]
          /\ flock' = [flock EXCEPT ![f] = None]
          /\ handle' = [handle EXCEPT ![t] = f]
    /\ UNCHANGED <<stdio, supreme, pc, cur, ret>>

Fclose(t) ==
    /\ pc[t] = "idle" /\ handle[t] # None
    /\ Use(t, handle[t], "fclose_lock")
    /\ handle' = [handle EXCEPT ![t] = None]
    /\ ret' = [ret EXCEPT ![t] = "idle"]
    /\ UNCHANGED <<table, locks>>

FcloseLock(t) ==
    /\ pc[t] = "fclose_lock"
    /\ Lock(t, cur[t])
    /\ Goto(t, "fclose_flush")
    /\ UNCHANGED <<table, forking, stdio, supreme, handle, cur, ret>>

FcloseUnlock(t) ==
    /\ pc[t] = "fclose_flush"
    /\ Unlock(cur[t])
    /\ Goto(t, "unref")
    /\ UNCHANGED <<table, forking, stdio, supreme, handle, cur, ret>>

(* The thread is cancelled in the write() or close() of fclose(), which    *)
(* has no cleanup handler: the lock and the reference stay with a thread   *)
(* that is no more.                                                        *)
FcloseCancel(t) ==
    /\ pc[t] = "fclose_flush"
    /\ Goto(t, "canceled")
    /\ UNCHANGED <<table, locks, handle, cur, ret>>

Fflush(t) ==
    /\ pc[t] = "idle" /\ handle[t] # None
    /\ Use(t, handle[t], "fflush_lock")
    /\ UNCHANGED <<table, locks, handle, ret>>

FflushLock(t) ==
    /\ pc[t] = "fflush_lock"
    /\ Lock(t, cur[t])
    /\ Goto(t, "fflush_write")
    /\ UNCHANGED <<table, forking, stdio, supreme, handle, cur, ret>>

(* The unlocking is the same when the thread is cancelled in write().      *)
FflushUnlock(t) ==
    /\ pc[t] = "fflush_write"
    /\ Unlock(cur[t])
    /\ Goto(t, "idle")
    /\ UNCHANGED <<table, forking, stdio, supreme, handle, cur, ret>>

-----------------------------------------------------------------------------
(* fflush(0): each stream is flushed without __stdio.lock, with a          *)
(* reference, from the last to the first.                                  *)

FlushAll(t) ==
    /\ pc[t] = "idle" /\ stdio = None /\ files # <<>>
    /\ refs' = [refs EXCEPT ![Last(files)] = @ - 1]
    /\ Use(t, Last(files), "all_lock")
    /\ UNCHANGED <<files, heap, locks, handle, ret>>

FlushAllLock(t) ==
    /\ pc[t] = "all_lock"
    /\ Lock(t, cur[t])
    /\ Goto(t, "all_write")
    /\ UNCHANGED <<table, forking, stdio, supreme, handle, cur, ret>>

FlushAllUnlock(t) ==
    /\ pc[t] = "all_write"
    /\ Unlock(cur[t])
    /\ Goto(t, "all_next")
    /\ UNCHANGED <<table, forking, stdio, supreme, handle, cur, ret>>

(* The thread is cancelled while it writes: the cleanup handlers unlock    *)
(* the stream and drop the reference.                                      *)
FlushAllCancel(t) ==
    /\ pc[t] = "all_write"
    /\ Unlock(cur[t])
    /\ Goto(t, "unref")
    /\ ret' = [ret EXCEPT ![t] = "idle"]
    /\ UNCHANGED <<table, forking, stdio, supreme, handle, cur>>

(* The next stream is found before the reference, and with it perhaps the  *)
(* stream, goes away: __stdio_unref_unlocked().                            *)
FlushAllNext(t) ==
    /\ pc[t] = "all_next" /\ stdio = None
    /\ LET f == cur[t]
           gone == refs[f] = 0
           dropped == [refs EXCEPT ![f] = @ + 1]
       IN  /\ files' = IF gone THEN Without(f) ELSE files
           /\ heap' = IF gone THEN heap \ {f} ELSE heap
           /\ \/ /\ Prev(f) # None
                 /\ refs' = [dropped EXCEPT ![Prev(f)] = @ - 1]
                 /\ Use(t, Prev(f), "all_lock")
              \/ refs' = dropped /\ Use(t, f, "idle") \* no more, or ECANCELED
    /\ UNCHANGED <<locks, handle, ret>>

-----------------------------------------------------------------------------
(* fork()                                                                  *)

ForkBegin(t) ==
    /\ pc[t] = "idle" /\ supreme = None
    /\ supreme' = t
    /\ ret' = [ret EXCEPT ![t] = "fork_scan"]
    /\ Goto(t, "fork_scan")
    /\ UNCHANGED <<table, forking, flock, stdio, handle, cur>>

(* The last stream that is not marked is locked next, and the scan starts  *)
(* over; __stdio.lock is kept when all are marked.                         *)
Unmarked == {i \in DOMAIN files : ~forking[files[i]]}

ForkScan_NoMark(t) ==
    /\ pc[t] = "fork_scan" /\ stdio = None
    /\ IF Unmarked = {}
       THEN /\ stdio' = t
            /\ Goto(t, "fork")
            /\ UNCHANGED <<refs, cur>>
       ELSE \E i \in Unmarked :
                /\ \A j \in Unmarked : j <= i
                /\ refs' = [refs EXCEPT ![files[i]] = @ - 1]
                /\ UNCHANGED stdio
                /\ Use(t, files[i], "fork_lock")
    /\ UNCHANGED <<files, heap, forking, flock, supreme, handle, ret>>
ForkScan(t) ==
    /\ pc[t] = "fork_scan" /\ stdio = None
    /\ IF Unmarked = {}
       THEN /\ stdio' = t
            /\ Goto(t, "fork")
            /\ UNCHANGED <<refs, forking, cur>>
       ELSE \E i \in Unmarked :
                /\ \A j \in Unmarked : j <= i
                /\ forking' = [forking EXCEPT ![files[i]] = TRUE]
                /\ refs' = [refs EXCEPT ![files[i]] = @ - 1]
                /\ UNCHANGED stdio
                /\ Use(t, files[i], "fork_lock")
    /\ UNCHANGED <<files, heap, flock, supreme, handle, ret>>

ForkLock_KeepsReference(t) ==
    /\ pc[t] = "fork_lock"
    /\ Lock(t, cur[t])
    /\ Goto(t, "fork_scan")
    /\ UNCHANGED <<table, forking, stdio, supreme, handle, cur, ret>>
ForkLock(t) ==
    /\ pc[t] = "fork_lock"
    /\ Lock(t, cur[t])
    /\ Goto(t, "unref")
    /\ UNCHANGED <<table, forking, stdio, supreme, handle, cur, ret>>

(* sys_fork() returns in the parent, with or without a child.              *)
ForkParent(t) ==
    /\ pc[t] = "fork"
    /\ forking' = [f \in File |-> FALSE]
    /\ flock' = [f \in File |-> IF f \in Range(files) THEN None ELSE flock[f]]
    /\ stdio' = None
    /\ supreme' = None
    /\ Goto(t, "idle")
    /\ UNCHANGED <<table, handle, cur, ret>>

(* sys_fork() returns in the child, which has the calling thread only and  *)
(* wipes the locks.                                                        *)
ForkChild_LeavesLocks(t) ==
    /\ pc[t] = "fork"
    /\ alone' = t
    /\ forking' = [f \in File |-> FALSE]
    /\ stdio' = None
    /\ supreme' = None
    /\ Goto(t, "idle")
    /\ UNCHANGED <<table, flock, handle, cur, ret>>
ForkChild(t) ==
    /\ pc[t] = "fork"
    /\ alone' = t
    /\ forking' = [f \in File |-> FALSE]
    /\ flock' = [f \in File |-> IF f \in Range(files) THEN None ELSE flock[f]]
    /\ stdio' = None
    /\ supreme' = None
    /\ Goto(t, "idle")
    /\ UNCHANGED <<table, handle, cur, ret>>

-----------------------------------------------------------------------------

Init ==
    /\ files = <<>> /\ heap = {}
    /\ refs = [f \in File |-> 1]
    /\ forking = [f \in File |-> FALSE]
    /\ flock = [f \in File |-> None]
    /\ stdio = None /\ supreme = None
    /\ handle = [t \in Thread |-> None]
    /\ pc = [t \in Thread |-> "idle"]
    /\ cur = [t \in Thread |-> None]
    /\ ret = [t \in Thread |-> "idle"]
    /\ alone = None

Step(t) ==
    /\ t \in Present
    /\ \/ /\ \/ UnrefShared(t) \/ UnrefLast(t) \/ Free(t)
             \/ FcloseUnlock(t) \/ FflushUnlock(t) \/ FlushAllUnlock(t)
             \/ ForkParent(t)
          /\ UNCHANGED alone
       \/ ForkChild(t)

LockStep(t) ==
    /\ t \in Present
    /\ \/ UnrefLock(t) \/ FcloseLock(t) \/ FflushLock(t) \/ FlushAllLock(t)
       \/ FlushAllNext(t) \/ ForkScan(t) \/ ForkLock(t)
    /\ UNCHANGED alone

Call(t) ==
    /\ t \in Present
    /\ \/ Fopen(t) \/ Fclose(t) \/ Fflush(t) \/ FcloseCancel(t) \/ FlushAllCancel(t)
       \/ t \in Flusher /\ FlushAll(t)
       \/ t \in Forker /\ ForkBegin(t)
    /\ UNCHANGED alone

Next == \E t \in Thread : Call(t) \/ Step(t) \/ LockStep(t)

Spec == Init /\ [][Next]_vars

(* Every thread is scheduled, and the mutexes let nobody wait forever      *)
(* while they are released again and again (nsync hands them over).        *)
FairSpec ==
    Spec /\ \A t \in Thread : WF_vars(Step(t)) /\ SF_vars(LockStep(t))

-----------------------------------------------------------------------------
(* Properties                                                              *)

Pc == {"idle", "unref", "unref_lock", "free", "fclose_lock", "fclose_flush",
       "canceled", "fflush_lock", "fflush_write", "all_lock", "all_write", "all_next",
       "fork_scan", "fork_lock", "fork"}

(* Every variable has its type.                                            *)
TypeOK ==
    /\ files \in Seq(File) /\ heap \subseteq File
    /\ refs \in [File -> {r \in Int : r <= 1}]
    /\ forking \in [File -> BOOLEAN]
    /\ flock \in [File -> Thread \union {None}]
    /\ stdio \in Thread \union {None} /\ supreme \in Thread \union {None}
    /\ handle \in [Thread -> File \union {None}]
    /\ pc \in [Thread -> Pc]
    /\ cur \in [Thread -> File \union {None}]
    /\ ret \in [Thread -> {"idle", "fork_scan"}]
    /\ alone \in Thread \union {None}

(* The users of f: its open handle, and the calls that own a reference.    *)
Handles(f) == {t \in Thread : handle[t] = f}
Holders(f) ==
    {t \in Thread :
        /\ cur[t] = f
        /\ pc[t] \in {"fclose_lock", "fclose_flush", "canceled", "unref", "unref_lock",
                      "all_lock", "all_write", "all_next", "fork_lock"}}

(* The reference count of a stream in the table is the number of its       *)
(* users, though they count in different ways and close in any order: no   *)
(* stream is freed while in use, none is freed twice or never.             *)
RefsCounted ==
    \A f \in File :
        IF f \in Range(files)
        THEN f \in heap /\ 1 - refs[f] = Cardinality(Handles(f)) + Cardinality(Holders(f))
        ELSE Handles(f) \union Holders(f) = {}

(* When the child is made nobody else is inside a stream or the table, so  *)
(* that the child may wipe the locks.                                      *)
ForkQuiescent ==
    \A t \in Thread : pc[t] = "fork" =>
        /\ stdio = t
        /\ \A f \in Range(files) : flock[f] = t

(* No stream stays locked when fork() has returned: in the parent because  *)
(* of fork() itself, in the child because of a thread that is no more. A   *)
(* thread cancelled in fclose() leaves its stream locked, fork() or not.   *)
ForkUnlocks ==
    supreme = None =>
        \A f \in Range(files) :
            /\ ~forking[f]
            /\ flock[f] # None =>
                 /\ flock[f] \in Present
                 /\ cur[flock[f]] = f
                 /\ pc[flock[f]] \in {"fclose_flush", "canceled", "fflush_write", "all_write"}

(* A thread was cancelled in fclose() and its stream stays locked.         *)
FcloseCanceled == \E t \in Thread : pc[t] = "canceled"

(* fork() gets all its locks and returns, whatever the others close and    *)
(* flush meanwhile, unless they open new streams for ever or one of them   *)
(* is cancelled in fclose(), whose lock fork() then waits for for ever.    *)
ForkReturns ==
    <>[][\A t \in Thread : ~Fopen(t)]_vars =>
        \A t \in Thread : pc[t] = "fork_scan" ~> pc[t] = "idle" \/ FcloseCanceled

(* A closed stream is freed by whoever drops the last reference, unless    *)
(* fopen(), fflush(0) and fork() go on for ever, a thread that is no more  *)
(* in the child was using it, or a thread is cancelled in fclose() and     *)
(* keeps its reference.                                                    *)
ClosedFreed ==
    <>[][\A t \in Thread : ~Fopen(t) /\ ~FlushAll(t) /\ ~ForkBegin(t)]_vars =>
        \A f \in File :
            (f \in heap /\ Handles(f) = {})
                ~> \/ f \notin heap \/ FcloseCanceled
                   \/ \E t \in Thread \ Present : cur[t] = f /\ pc[t] # "idle"

(* The table of streams is consistent.                                     *)
StdioInv == TypeOK /\ RefsCounted
=============================================================================
