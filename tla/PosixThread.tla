---------------------------- MODULE PosixThread ----------------------------
(***************************************************************************)
(* The life of a POSIX thread object in Cosmopolitan Libc: creation,       *)
(* termination, joining, detaching and garbage collection of the           *)
(* struct PosixThread objects linked on _pthread_list                      *)
(* (libc/thread/pthread_create.c, pthread_exit.c, pthread_detach.c,        *)
(* pthread_timedjoin_np.c, pthread_kill.c, pthread_cancel.c,               *)
(* libc/intrin/pthread_orphan_np.c, and __sig_generate in                  *)
(* libc/intrin/sig.c).                                                     *)
(*                                                                         *)
(* The list and the count are changed under a global lock (the "gil"), but *)
(* pt_status, pt_refs and tib_ctid are read and written without it, so     *)
(* every load and store of those three is a step of its own.               *)
(*                                                                         *)
(* A member of Thread stands both for the thread and for its PosixThread   *)
(* object, and is created at most once: an object that was freed is never  *)
(* reused, which makes every later access to it visible.                   *)
(***************************************************************************)
EXTENDS Integers, Sequences, FiniteSets

CONSTANTS
    Thread,       \* the threads, and their struct PosixThread objects
    Main,         \* the thread of _pthread_static (PT_STATIC)
    Sender,       \* win32 threads that call __sig_generate(); not POSIX threads
    Ops,          \* the operations the application makes use of
    AtexitSpawns, \* how many atexit() handlers call pthread_create()
    Nobody        \* no thread

Actor == Thread \cup Sender

AllOps == {"join", "detach", "detach_self", "create_detached", "kill",
           "cancel_all", "decimate", "orphan"}

ASSUME ThreadAssumption == /\ Main \in Thread
                           /\ IsFiniteSet(Thread)
                           /\ IsFiniteSet(Sender)
                           /\ Thread \cap Sender = {}
                           /\ Nobody \notin Actor
ASSUME OpsAssumption == Ops \subseteq AllOps /\ AtexitSpawns \in Nat

VARIABLES
    list,     \* _pthread_list, first to last
    count,    \* _pthread_count
    gil,      \* who holds _pthread_lock(), or Nobody
    status,   \* pt_status
    refs,     \* pt_refs
    ctid,     \* tib_ctid is not zero: the thread still needs its stack
    obj,      \* memory of the object: "none", "live" or "freed"
    exiting,  \* the threads with PT_EXITING
    atexit,   \* the handlers that call pthread_create() and are yet to run
    exited,   \* the process has called _Exit()
    handles,  \* pthread_t values the application may still join or detach
    pc,       \* what each actor does next
    tgt,      \* the thread it does it to
    cur,      \* cursor into list of an actor that walks it
    batch,    \* objects that _pthread_decimate took off the list to free
    ret,      \* where _pthread_decimate returns to
    last      \* population == 0 in pthread_exit()

mem    == <<list, count, gil, status, refs, ctid, obj>>
world  == <<exiting, atexit, exited, handles>>
locals == <<tgt, cur, batch, ret, last>>
vars   == <<mem, world, pc, locals>>

(* enum PosixThreadStatus *)
kJoinable   == 0
kDetached   == 1
kTerminated == 2
kZombie     == 3
Status      == kJoinable..kZombie

-----------------------------------------------------------------------------
(* struct Dll operations on a list that holds no element twice             *)

Elements(s) == {s[i] : i \in 1..Len(s)}
Index(s, t) == CHOOSE i \in 1..Len(s) : s[i] = t
DllRemoveAt(s, i) == [j \in 1..(Len(s) - 1) |-> IF j < i THEN s[j] ELSE s[j + 1]]
dll_remove(s, t) == IF t \in Elements(s) THEN DllRemoveAt(s, Index(s, t)) ELSE s
dll_make_first_AtEnd(s, t) == Append(s, t)
dll_make_first(s, t) == <<t>> \o s
dll_make_last(s, t) == Append(s, t)

(* What _pthread_zombify() does to the list                                *)
MoveLast(s, t) == dll_make_last(dll_remove(s, t), t)

-----------------------------------------------------------------------------

Goto(a, l) == pc' = [pc EXCEPT ![a] = l]

(* pthread_create() returns to user code, or to the atexit handler that    *)
(* called it.                                                              *)
Home(t) == IF t \in exiting THEN "ex_final" ELSE "run"

(* An operation on t2 returns: the actor forgets it.                       *)
Return(a) == /\ Goto(a, IF a \in Sender THEN "idle" ELSE Home(a))
             /\ tgt' = [tgt EXCEPT ![a] = Nobody]

_pthread_ref(t)   == refs' = [refs EXCEPT ![t] = @ + 1]
_pthread_unref(t) == refs' = [refs EXCEPT ![t] = @ - 1]

(* _pthread_free() does nothing to the memory of the static thread.        *)
_pthread_free(t) == obj' = [obj EXCEPT ![t] = IF t = Main THEN @ ELSE "freed"]

-----------------------------------------------------------------------------
(* _pthread_decimate(threshold), called by pthread_create() and            *)
(* pthread_decimate_np() with kZombie and by pthread_exit() with           *)
(* kTerminated. It walks the list backwards under the gil and loads, in    *)
(* this order, pt_refs, tib_ctid and pt_status of each object.             *)

Threshold_NeverAutoJoin(t) == kZombie
Threshold_AlwaysAutoJoin(t) == kTerminated
Threshold(t) == IF ret[t] = "ex_orphan" THEN kTerminated ELSE kZombie

DecimateLock(t) ==
    /\ pc[t] = "dec_lock" /\ gil = Nobody
    /\ gil' = t
    /\ cur' = [cur EXCEPT ![t] = Len(list)]
    /\ Goto(t, "dec_refs")
    /\ UNCHANGED <<list, count, status, refs, ctid, obj, world, tgt, batch, ret, last>>

DecimateRefs(t) ==
    /\ pc[t] = "dec_refs" /\ cur[t] > 0
    /\ IF refs[list[cur[t]]] > 0
       THEN cur' = [cur EXCEPT ![t] = @ - 1] /\ UNCHANGED pc
       ELSE Goto(t, "dec_ctid") /\ UNCHANGED cur
    /\ UNCHANGED <<mem, world, tgt, batch, ret, last>>

DecimateCtid_Ignored(t) ==
    /\ pc[t] = "dec_ctid"
    /\ Goto(t, "dec_status")
    /\ UNCHANGED <<mem, world, locals>>
DecimateCtid(t) ==
    /\ pc[t] = "dec_ctid"
    /\ IF ctid[list[cur[t]]]
       THEN cur' = [cur EXCEPT ![t] = @ - 1] /\ Goto(t, "dec_refs")
       ELSE Goto(t, "dec_status") /\ UNCHANGED cur
    /\ UNCHANGED <<mem, world, tgt, batch, ret, last>>

DecimateStatus(t) ==
    LET u == list[cur[t]] IN
    /\ pc[t] = "dec_status"
    /\ Goto(t, "dec_refs")
    /\ IF status[u] < Threshold(t)
       THEN /\ cur' = [cur EXCEPT ![t] = IF Threshold(t) = kZombie THEN 0 ELSE @ - 1]
            /\ UNCHANGED <<list, batch>>
       ELSE /\ list' = DllRemoveAt(list, cur[t])
            /\ batch' = [batch EXCEPT ![t] = @ \cup {u}]
            /\ cur' = [cur EXCEPT ![t] = @ - 1]
    /\ UNCHANGED <<count, gil, status, refs, ctid, obj, world, tgt, ret, last>>

DecimateUnlock(t) ==
    /\ pc[t] = "dec_refs" /\ cur[t] = 0
    /\ gil' = Nobody
    /\ Goto(t, "dec_free")
    /\ UNCHANGED <<list, count, status, refs, ctid, obj, world, locals>>

DecimateFree(t) ==
    /\ pc[t] = "dec_free"
    /\ \E u \in batch[t] :
          /\ _pthread_free(u)
          /\ batch' = [batch EXCEPT ![t] = @ \ {u}]
    /\ UNCHANGED <<list, count, gil, status, refs, ctid, world, pc, tgt, cur, ret, last>>

DecimateReturn(t) ==
    /\ pc[t] = "dec_free" /\ batch[t] = {}
    /\ Goto(t, ret[t])
    /\ UNCHANGED <<mem, world, locals>>

pthread_decimate_np(t) ==
    /\ "decimate" \in Ops /\ pc[t] = "run"
    /\ Goto(t, "dec_lock")
    /\ ret' = [ret EXCEPT ![t] = "run"]
    /\ UNCHANGED <<mem, world, tgt, cur, batch, last>>

-----------------------------------------------------------------------------
(* pthread_create()                                                        *)

pthread_create(t) ==
    /\ pc[t] = "run"
    /\ Goto(t, "dec_lock")
    /\ ret' = [ret EXCEPT ![t] = "cr_alloc"]
    /\ UNCHANGED <<mem, world, tgt, cur, batch, last>>

(* The lease of pthread_create() on the object it makes                    *)
CreatorRefs_Zero == 0
CreatorRefs == 1

(* _mktls(), calloc() and cosmo_stack_alloc() succeed: the object exists   *)
(* with a nonzero tib_ctid and the lease of its creator.                   *)
CreateAlloc(t) ==
    /\ pc[t] = "cr_alloc"
    /\ \E u \in Thread, s \in {kJoinable, kDetached} :
          /\ obj[u] = "none"
          /\ s = kDetached => "create_detached" \in Ops
          /\ obj' = [obj EXCEPT ![u] = "live"]
          /\ status' = [status EXCEPT ![u] = s]
          /\ refs' = [refs EXCEPT ![u] = CreatorRefs]
          /\ ctid' = [ctid EXCEPT ![u] = TRUE]
          /\ tgt' = [tgt EXCEPT ![t] = u]
          /\ pc' = [pc EXCEPT ![t] = "cr_link", ![u] = "embryo"]
    /\ UNCHANGED <<list, count, gil, world, cur, batch, ret, last>>

(* One of the allocations fails: EAGAIN or EINVAL. It always does once     *)
(* every member of Thread has been used.                                   *)
CreateNoMemory(t) ==
    /\ pc[t] = "cr_alloc"
    /\ Return(t)
    /\ UNCHANGED <<mem, world, cur, batch, ret, last>>

CreateLink(t) ==
    /\ pc[t] = "cr_link" /\ gil = Nobody
    /\ gil' = t
    /\ list' = dll_make_first(list, tgt[t])
    /\ Goto(t, "cr_count")
    /\ UNCHANGED <<count, status, refs, ctid, obj, world, locals>>

CreateCount(t) ==
    /\ pc[t] = "cr_count"
    /\ count' = count + 1
    /\ gil' = Nobody
    /\ Goto(t, "cr_clone")
    /\ UNCHANGED <<list, status, refs, ctid, obj, world, locals>>

(* __clone() succeeds. The new thread starts with every signal blocked.    *)
(* From now on it may hand its own handle to anyone.                       *)
CreateClone(t) ==
    /\ pc[t] = "cr_clone"
    /\ pc' = [pc EXCEPT ![t] = "cr_unref", ![tgt[t]] = "ready"]
    /\ handles' = IF status[tgt[t]] = kJoinable THEN handles \cup {tgt[t]} ELSE handles
    /\ UNCHANGED <<mem, exiting, atexit, exited, locals>>

CreateCloneFails(t) ==
    /\ pc[t] = "cr_clone"
    /\ Goto(t, "cr_unlink")
    /\ UNCHANGED <<mem, world, locals>>

CreateUnlink(t) ==
    /\ pc[t] = "cr_unlink" /\ gil = Nobody
    /\ gil' = t
    /\ list' = dll_remove(list, tgt[t])
    /\ Goto(t, "cr_uncount")
    /\ UNCHANGED <<count, status, refs, ctid, obj, world, locals>>

CreateUncount_Forgotten(t) ==
    /\ pc[t] = "cr_uncount"
    /\ gil' = Nobody
    /\ Goto(t, "cr_free")
    /\ UNCHANGED <<list, count, status, refs, ctid, obj, world, locals>>
CreateUncount(t) ==
    /\ pc[t] = "cr_uncount"
    /\ count' = count - 1
    /\ gil' = Nobody
    /\ Goto(t, "cr_free")
    /\ UNCHANGED <<list, status, refs, ctid, obj, world, locals>>

CreateFree(t) ==
    /\ pc[t] = "cr_free"
    /\ _pthread_free(tgt[t])
    /\ Return(t)
    /\ UNCHANGED <<list, count, gil, status, refs, ctid, world, cur, batch, ret, last>>

CreateUnref(t) ==
    /\ pc[t] = "cr_unref"
    /\ _pthread_unref(tgt[t])
    /\ Return(t)
    /\ UNCHANGED <<list, count, gil, status, ctid, obj, world, cur, batch, ret, last>>

(* PosixThread() unblocks signals and calls the start routine.             *)
StartRoutine(t) ==
    /\ pc[t] = "ready"
    /\ Goto(t, "run")
    /\ UNCHANGED <<mem, world, locals>>

-----------------------------------------------------------------------------
(* pthread_exit()                                                          *)

pthread_exit(t) ==
    /\ pc[t] = "run"
    /\ exiting' = exiting \cup {t}
    /\ Goto(t, "ex_count")
    /\ UNCHANGED <<mem, atexit, exited, handles, locals>>

ExitCount(t) ==
    /\ pc[t] = "ex_count"
    /\ count' = count - 1
    /\ last' = [last EXCEPT ![t] = (count' = 0)]
    /\ Goto(t, IF count' = 0 THEN "ex_final" ELSE "ex_status")
    /\ UNCHANGED <<list, gil, status, refs, ctid, obj, world, tgt, cur, batch, ret>>

(* __cxa_finalize(NULL) takes a handler off its list, then runs it.        *)
ExitSpawn(t) ==
    /\ pc[t] = "ex_final" /\ atexit > 0
    /\ atexit' = atexit - 1
    /\ Goto(t, "dec_lock")
    /\ ret' = [ret EXCEPT ![t] = "cr_alloc"]
    /\ UNCHANGED <<mem, exiting, exited, handles, tgt, cur, batch, last>>

(* No handler is left: the threads that leaked are joined.                 *)
ExitFinalize(t) ==
    /\ pc[t] = "ex_final" /\ atexit = 0
    /\ Goto(t, "dec_lock")
    /\ ret' = [ret EXCEPT ![t] = "ex_orphan"]
    /\ UNCHANGED <<mem, world, tgt, cur, batch, last>>

(* pthread_orphan_np() compares the list with itself under the gil, then   *)
(* asserts that the count agrees.                                          *)
Orphan == Len(list) = 1

ExitOrphan(t) ==
    /\ pc[t] = "ex_orphan" /\ gil = Nobody
    /\ Goto(t, IF Orphan THEN "ex_population" ELSE "ex_final")
    /\ UNCHANGED <<mem, world, locals>>

ExitPopulation(t) ==
    /\ pc[t] = "ex_population"
    /\ last' = [last EXCEPT ![t] = (count = 0)]
    /\ Goto(t, "ex_status")
    /\ UNCHANGED <<mem, world, tgt, cur, batch, ret>>

pthread_orphan_np(t) ==
    /\ "orphan" \in Ops /\ pc[t] = "run" /\ gil = Nobody
    /\ Goto(t, IF Orphan THEN "np_orphan" ELSE "run")
    /\ UNCHANGED <<mem, world, locals>>

OrphanReturn(t) ==
    /\ pc[t] = "np_orphan"
    /\ Goto(t, "run")
    /\ UNCHANGED <<mem, world, locals>>

ExitTransition_IgnoresDetach(s) == IF s = kZombie THEN s ELSE kTerminated
ExitTransition(s) ==
    CASE s = kJoinable -> kTerminated
      [] s = kDetached -> kZombie
      [] OTHER         -> s

ExitStatus(t) ==
    LET s == ExitTransition(status[t]) IN
    /\ pc[t] = "ex_status"
    /\ status' = [status EXCEPT ![t] = s]
    /\ Goto(t, IF s = kZombie THEN "ex_zombify" ELSE "ex_last")
    /\ UNCHANGED <<list, count, gil, refs, ctid, obj, world, locals>>

ExitZombify(t) ==
    /\ pc[t] = "ex_zombify" /\ gil = Nobody
    /\ list' = MoveLast(list, t)
    /\ Goto(t, "ex_last")
    /\ UNCHANGED <<count, gil, status, refs, ctid, obj, world, locals>>

(* The last thread ends the process, and with it every other thread.       *)
ExitProcess(t) ==
    /\ pc[t] = "ex_last" /\ last[t]
    /\ exited' = TRUE
    /\ pc' = [a \in Actor |-> "gone"]
    /\ UNCHANGED <<mem, exiting, atexit, handles, locals>>

(* Any other thread leaves its stack, clears tib_ctid and wakes joiners:   *)
(* the main thread by itself, a child in the clone() polyfill.             *)
ExitThread(t) ==
    /\ pc[t] = "ex_last" /\ ~last[t]
    /\ ctid' = [ctid EXCEPT ![t] = FALSE]
    /\ Goto(t, "gone")
    /\ UNCHANGED <<list, count, gil, status, refs, obj, world, locals>>

-----------------------------------------------------------------------------
(* pthread_detach(). The application detaches a handle once. The load and  *)
(* the compare-and-swap that retries until it succeeds are one step.       *)

pthread_detach(t) ==
    /\ pc[t] = "run"
    /\ \E u \in handles :
          /\ IF u = t THEN "detach_self" \in Ops ELSE "detach" \in Ops
          /\ _pthread_ref(u)
          /\ handles' = handles \ {u}
          /\ tgt' = [tgt EXCEPT ![t] = u]
    /\ Goto(t, "det_status")
    /\ UNCHANGED <<list, count, gil, status, ctid, obj, exiting, atexit, exited, cur, batch, ret, last>>

DetachStatus(t) ==
    LET u == tgt[t] IN
    /\ pc[t] = "det_status"
    /\ CASE status[u] = kJoinable ->
              /\ status' = [status EXCEPT ![u] = kDetached]
              /\ Goto(t, "unref")
         [] status[u] = kTerminated ->
              /\ status' = [status EXCEPT ![u] = kZombie]
              /\ Goto(t, "det_zombify")
         [] OTHER -> \* EINVAL
              /\ Goto(t, "unref")
              /\ UNCHANGED status
    /\ UNCHANGED <<list, count, gil, refs, ctid, obj, world, locals>>

DetachZombify(t) ==
    /\ pc[t] = "det_zombify" /\ gil = Nobody
    /\ list' = MoveLast(list, tgt[t])
    /\ Goto(t, "unref")
    /\ UNCHANGED <<count, gil, status, refs, ctid, obj, world, locals>>

(* The end of pthread_detach(), pthread_kill() and __sig_generate()        *)
Unref(a) ==
    /\ pc[a] = "unref"
    /\ _pthread_unref(tgt[a])
    /\ Return(a)
    /\ UNCHANGED <<list, count, gil, status, ctid, obj, world, cur, batch, ret, last>>

-----------------------------------------------------------------------------
(* pthread_timedjoin_np(). Joining oneself fails with EDEADLK and changes  *)
(* nothing. The application joins a handle once, but may retry a join that *)
(* timed out or was canceled.                                              *)

pthread_join(t) ==
    /\ "join" \in Ops /\ pc[t] = "run"
    /\ \E u \in handles \ {t} :
          /\ handles' = handles \ {u}
          /\ tgt' = [tgt EXCEPT ![t] = u]
    /\ Goto(t, "join_wait")
    /\ UNCHANGED <<mem, exiting, atexit, exited, cur, batch, ret, last>>

JoinFails(t) == \* EBUSY or ECANCELED
    /\ pc[t] = "join_wait" /\ ctid[tgt[t]]
    /\ handles' = handles \cup {tgt[t]}
    /\ Return(t)
    /\ UNCHANGED <<mem, exiting, atexit, exited, cur, batch, ret, last>>

JoinWait(t) ==
    /\ pc[t] = "join_wait" /\ ~ctid[tgt[t]]
    /\ Goto(t, "join_refs")
    /\ UNCHANGED <<mem, world, locals>>

JoinRefs(t) ==
    /\ pc[t] = "join_refs"
    /\ Goto(t, IF refs[tgt[t]] # 0 THEN "join_last" ELSE "join_remove")
    /\ UNCHANGED <<mem, world, locals>>

JoinMakeLast(t) ==
    /\ pc[t] = "join_last" /\ gil = Nobody
    /\ gil' = t
    /\ list' = MoveLast(list, tgt[t])
    /\ Goto(t, "join_zombie")
    /\ UNCHANGED <<count, status, refs, ctid, obj, world, locals>>

JoinZombie(t) ==
    /\ pc[t] = "join_zombie"
    /\ status' = [status EXCEPT ![tgt[t]] = kZombie]
    /\ gil' = Nobody
    /\ Return(t)
    /\ UNCHANGED <<list, count, refs, ctid, obj, world, cur, batch, ret, last>>

JoinRemove_Forgotten(t) ==
    /\ pc[t] = "join_remove" /\ gil = Nobody
    /\ Goto(t, "join_free")
    /\ UNCHANGED <<mem, world, locals>>
JoinRemove(t) ==
    /\ pc[t] = "join_remove" /\ gil = Nobody
    /\ list' = dll_remove(list, tgt[t])
    /\ Goto(t, "join_free")
    /\ UNCHANGED <<count, gil, status, refs, ctid, obj, world, locals>>

JoinFree(t) ==
    /\ pc[t] = "join_free"
    /\ _pthread_free(tgt[t])
    /\ Return(t)
    /\ UNCHANGED <<list, count, gil, status, refs, ctid, world, cur, batch, ret, last>>

-----------------------------------------------------------------------------
(* pthread_kill() by whoever has the handle, which no one else joins or    *)
(* detaches meanwhile. Its load of pt_status only selects the errno.       *)

pthread_kill(t) ==
    /\ "kill" \in Ops /\ pc[t] = "run"
    /\ \E u \in handles \ {t} :
          /\ _pthread_ref(u)
          /\ handles' = handles \ {u}
          /\ tgt' = [tgt EXCEPT ![t] = u]
    /\ Goto(t, "kill")
    /\ UNCHANGED <<list, count, gil, status, ctid, obj, exiting, atexit, exited, cur, batch, ret, last>>

KillReturn(t) ==
    /\ pc[t] = "kill"
    /\ _pthread_unref(tgt[t])
    /\ handles' = handles \cup {tgt[t]}
    /\ Return(t)
    /\ UNCHANGED <<list, count, gil, status, ctid, obj, exiting, atexit, exited, cur, batch, ret, last>>

(* pthread_cancel(0): _pthread_cancel_everyone() walks the list forwards   *)
(* and calls pthread_kill() on the others, all of it under the gil.        *)

pthread_cancel_everyone(t) ==
    /\ "cancel_all" \in Ops /\ pc[t] = "run" /\ gil = Nobody
    /\ gil' = t
    /\ cur' = [cur EXCEPT ![t] = 1]
    /\ Goto(t, "ca_walk")
    /\ UNCHANGED <<list, count, status, refs, ctid, obj, world, tgt, batch, ret, last>>

CancelWalk(t) ==
    /\ pc[t] = "ca_walk" /\ cur[t] <= Len(list)
    /\ LET u == list[cur[t]] IN
       IF u # t /\ status[u] < kTerminated
       THEN Goto(t, "ca_ref") /\ tgt' = [tgt EXCEPT ![t] = u] /\ UNCHANGED cur
       ELSE cur' = [cur EXCEPT ![t] = @ + 1] /\ UNCHANGED <<pc, tgt>>
    /\ UNCHANGED <<mem, world, batch, ret, last>>

CancelRef(t) ==
    /\ pc[t] = "ca_ref"
    /\ _pthread_ref(tgt[t])
    /\ Goto(t, "ca_unref")
    /\ UNCHANGED <<list, count, gil, status, ctid, obj, world, locals>>

CancelUnref(t) ==
    /\ pc[t] = "ca_unref"
    /\ _pthread_unref(tgt[t])
    /\ tgt' = [tgt EXCEPT ![t] = Nobody]
    /\ cur' = [cur EXCEPT ![t] = @ + 1]
    /\ Goto(t, "ca_walk")
    /\ UNCHANGED <<list, count, gil, status, ctid, obj, world, batch, ret, last>>

CancelReturn(t) ==
    /\ pc[t] = "ca_walk" /\ cur[t] > Len(list)
    /\ gil' = Nobody
    /\ Return(t)
    /\ UNCHANGED <<list, count, status, refs, ctid, obj, world, cur, batch, ret, last>>

-----------------------------------------------------------------------------
(* __sig_generate(), called by win32 threads that are not POSIX threads    *)
(* (the console control handler, the itimer and the signal worker).        *)

(* tib_sigmask is all ones until PosixThread() installs the thread's mask. *)
SigMaskFull_NotInitialized(t) == FALSE
SigMaskFull(t) == pc[t] \in {"embryo", "ready"}

SigLock(s) ==
    /\ pc[s] = "idle" /\ gil = Nobody
    /\ gil' = s
    /\ Goto(s, "sig_walk")
    /\ UNCHANGED <<list, count, status, refs, ctid, obj, world, locals>>

(* Which of the running threads does not mask the signal is not modelled.  *)
SigChoose(s) ==
    /\ pc[s] = "sig_walk"
    /\ \E u \in Elements(list) :
          /\ status[u] < kTerminated
          /\ ~SigMaskFull(u)
          /\ tgt' = [tgt EXCEPT ![s] = u]
    /\ Goto(s, "sig_ref")
    /\ UNCHANGED <<mem, world, cur, batch, ret, last>>

(* Everyone masks it: the signal becomes pending on the process.           *)
SigNone(s) ==
    /\ pc[s] = "sig_walk"
    /\ gil' = Nobody
    /\ Goto(s, "idle")
    /\ UNCHANGED <<list, count, status, refs, ctid, obj, world, locals>>

SigRef(s) ==
    /\ pc[s] = "sig_ref"
    /\ _pthread_ref(tgt[s])
    /\ gil' = Nobody
    /\ Goto(s, "unref")
    /\ UNCHANGED <<list, count, status, ctid, obj, world, locals>>

-----------------------------------------------------------------------------

Init ==
    /\ list = <<Main>>
    /\ count = 1
    /\ gil = Nobody
    /\ status = [t \in Thread |-> kJoinable]
    /\ refs = [t \in Thread |-> 0]
    /\ ctid = [t \in Thread |-> t = Main]
    /\ obj = [t \in Thread |-> IF t = Main THEN "live" ELSE "none"]
    /\ exiting = {}
    /\ atexit = AtexitSpawns
    /\ exited = FALSE
    /\ handles = {Main}
    /\ pc = [a \in Actor |-> CASE a = Main     -> "run"
                               [] a \in Sender -> "idle"
                               [] OTHER        -> "unborn"]
    /\ tgt = [a \in Actor |-> Nobody]
    /\ cur = [t \in Thread |-> 0]
    /\ batch = [t \in Thread |-> {}]
    /\ ret = [t \in Thread |-> "run"]
    /\ last = [t \in Thread |-> FALSE]

(* What the application decides to do next                                 *)
Call(t) ==
    \/ pthread_create(t) \/ pthread_exit(t) \/ pthread_detach(t)
    \/ pthread_join(t) \/ pthread_kill(t) \/ pthread_cancel_everyone(t)
    \/ pthread_decimate_np(t) \/ pthread_orphan_np(t) \/ JoinFails(t)

(* Steps of the runtime that take the gil                                  *)
Lock(t) ==
    \/ DecimateLock(t) \/ CreateLink(t) \/ CreateUnlink(t) \/ ExitOrphan(t)
    \/ ExitZombify(t) \/ DetachZombify(t) \/ JoinMakeLast(t) \/ JoinRemove(t)

Decimate(t) ==
    \/ DecimateRefs(t) \/ DecimateCtid(t) \/ DecimateStatus(t)
    \/ DecimateUnlock(t) \/ DecimateFree(t) \/ DecimateReturn(t)

Create(t) ==
    \/ CreateAlloc(t) \/ CreateNoMemory(t) \/ CreateCount(t) \/ CreateClone(t)
    \/ CreateCloneFails(t) \/ CreateUncount(t) \/ CreateFree(t) \/ CreateUnref(t)

Exit(t) ==
    \/ ExitCount(t) \/ ExitSpawn(t) \/ ExitFinalize(t) \/ ExitPopulation(t)
    \/ ExitStatus(t) \/ ExitProcess(t) \/ ExitThread(t)

Finish(t) ==
    \/ StartRoutine(t) \/ OrphanReturn(t) \/ DetachStatus(t) \/ JoinWait(t)
    \/ JoinRefs(t) \/ JoinZombie(t) \/ JoinFree(t) \/ KillReturn(t)
    \/ CancelWalk(t) \/ CancelRef(t) \/ CancelUnref(t) \/ CancelReturn(t)

(* Steps of the runtime that wait for nothing but, in JoinWait, a thread   *)
Run(t) == Decimate(t) \/ Create(t) \/ Exit(t) \/ Finish(t) \/ Unref(t)

Signal(s) == SigLock(s) \/ SigChoose(s) \/ SigNone(s) \/ SigRef(s) \/ Unref(s)

Done == exited /\ UNCHANGED vars

Next ==
    \/ \E t \in Thread : Call(t) \/ Lock(t) \/ Run(t)
    \/ \E s \in Sender : Signal(s)
    \/ Done

Spec == Init /\ [][Next]_vars

-----------------------------------------------------------------------------
(* Properties                                                              *)

Pc == {"unborn", "embryo", "ready", "run", "gone", "idle", "unref",
       "dec_lock", "dec_refs", "dec_ctid", "dec_status", "dec_free",
       "cr_alloc", "cr_link", "cr_count", "cr_clone", "cr_unlink",
       "cr_uncount", "cr_free", "cr_unref",
       "ex_count", "ex_final", "ex_orphan", "ex_population", "ex_status",
       "ex_zombify", "ex_last", "np_orphan", "det_status", "det_zombify",
       "join_wait", "join_refs", "join_last", "join_zombie", "join_remove",
       "join_free", "kill", "ca_walk", "ca_ref", "ca_unref",
       "sig_walk", "sig_ref"}

(* Every variable has its type; in particular neither pt_refs nor the      *)
(* unsigned _pthread_count ever goes below zero.                           *)
TypeOK ==
    /\ list \in Seq(Thread)
    /\ count \in Nat
    /\ gil \in Actor \cup {Nobody}
    /\ status \in [Thread -> Status]
    /\ refs \in [Thread -> Nat]
    /\ ctid \in [Thread -> BOOLEAN]
    /\ obj \in [Thread -> {"none", "live", "freed"}]
    /\ exiting \subseteq Thread
    /\ atexit \in Nat
    /\ exited \in BOOLEAN
    /\ handles \subseteq Thread
    /\ pc \in [Actor -> Pc]
    /\ tgt \in [Actor -> Thread \cup {Nobody}]
    /\ cur \in [Thread -> Nat]
    /\ batch \in [Thread -> SUBSET Thread]
    /\ ret \in [Thread -> {"run", "cr_alloc", "ex_orphan"}]
    /\ last \in [Thread -> BOOLEAN]

(* t executes on the stack and the TLS block that its object owns.         *)
Running(t) == pc[t] \notin {"unborn", "embryo", "gone"}

(* The memory of a thread object is freed only once nobody uses it any     *)
(* more: it is on no list, no operation in progress has it as its target   *)
(* or is about to free it, and the thread itself has left its stack. This  *)
(* is what pt_refs ("prevents decimation"), tib_ctid and the gil are for.  *)
NoUseAfterFree ==
    \A t \in Thread : obj[t] = "freed" =>
        /\ ~Running(t)
        /\ t \notin Elements(list)
        /\ \A a \in Actor : tgt[a] # t
        /\ \A u \in Thread : t \notin batch[u]

(* The unassert() that _pthread_free() starts with (pthread_create.c:77):  *)
(* the object it is given is on no list.                                   *)
FreeAssertion ==
    \A t \in Thread :
        /\ pc[t] = "dec_free" => batch[t] \cap Elements(list) = {}
        /\ pc[t] \in {"join_free", "cr_free"} => tgt[t] \notin Elements(list)

(* The unassert() of pthread_orphan_np(): a thread that found itself alone *)
(* on the list also finds a _pthread_count of at most one, although the    *)
(* count is changed outside the gil by pthread_exit().                     *)
OrphanAssertion ==
    \A t \in Thread : pc[t] \in {"ex_population", "np_orphan"} => count <= 1

(* A handle that the application has neither joined nor detached refers    *)
(* to a joinable or terminated object that garbage collection left alone,  *)
(* which is what pthread_timedjoin_np() asserts on entry, as long as there *)
(* is a thread that might use it: the last one joins what leaked.          *)
HandlesValid ==
    count > 0 => \A u \in handles : obj[u] = "live" /\ status[u] \in {kJoinable, kTerminated}

(* _pthread_decimate(kZombie) gives up at the first object that could be   *)
(* reclaimed but is no zombie, because "zombies only exist at the end of   *)
(* the linked list". So whenever the gil is free, nothing but zombies      *)
(* follows a zombie that is ready to be reclaimed.                         *)
Reclaimable(t) == status[t] = kZombie /\ refs[t] = 0 /\ ~ctid[t]

ZombiesLast ==
    gil = Nobody =>
        \A i, j \in 1..Len(list) :
            i < j /\ Reclaimable(list[i]) => status[list[j]] = kZombie

(* The status of an existing thread changes only along the arrows of the   *)
(* "LEGAL TRANSITIONS" diagram in posixthread.internal.h, although exit,   *)
(* detach and join store it without a common lock.                         *)
LegalTransition(s, r) ==
    <<s, r>> \in {<<kJoinable, kTerminated>>, <<kJoinable, kDetached>>,
                 <<kDetached, kZombie>>, <<kTerminated, kZombie>>}

LegalTransitions ==
    [][\A t \in Thread : obj[t] = "live" /\ status'[t] # status[t]
            => LegalTransition(status[t], status'[t])]_vars

(* Once every thread has called pthread_exit(), and no new one is made,    *)
(* the process ends: the last one outwaits the others and reclaims them    *)
(* all, leaked ones included.                                              *)
LastExitEndsProcess == <>[](count = 0) => <>exited

(* The kernel schedules every thread, and the gil, an nsync mutex, does    *)
(* not let a waiter starve. The application is never obliged to call       *)
(* anything, nor a join to time out.                                       *)
Fairness ==
    /\ \A t \in Thread : WF_vars(Run(t)) /\ SF_vars(Lock(t))
    /\ \A s \in Sender : WF_vars(SigNone(s) \/ SigRef(s) \/ Unref(s))

FairSpec == Spec /\ Fairness

=============================================================================
