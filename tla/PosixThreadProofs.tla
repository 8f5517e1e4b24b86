------------------------- MODULE PosixThreadProofs -------------------------
(***************************************************************************)
(* Proofs about PosixThread, for any number of threads and signal senders: *)
(* the inductive invariant IInv, lemmas about the list, the leases and the *)
(* count, one lemma per action, in the order of the actions, with the      *)
(* conjuncts under it, and at the end the theorems.                        *)
(*                                                                         *)
(* The two races that the model checker finds (pthread_detach() of another *)
(* thread against the garbage collector, and pthread_join() against a      *)
(* signal sender) and threads made by atexit handlers are excluded by the  *)
(* hypothesis Discipline. Everything else may happen in any order.         *)
(***************************************************************************)
EXTENDS PosixThread, TLAPS, FiniteSetTheorems

Discipline ==
    /\ "detach" \notin Ops
    /\ "join" \in Ops => Sender = {}
    /\ AtexitSpawns = 0

-----------------------------------------------------------------------------
(* The parts of the inductive invariant                                    *)

(* Who is where in the code                                                *)
CreatingPc == {"cr_link", "cr_count", "cr_clone", "cr_unlink", "cr_uncount", "cr_free"}
JoinPc     == {"join_wait", "join_refs", "join_last", "join_zombie", "join_remove", "join_free"}
DetachPc   == {"det_status", "unref"}
CancelPc   == {"ca_ref", "ca_unref"}
ClaimPc    == JoinPc \cup {"kill"}
DecPc      == {"dec_lock", "dec_refs", "dec_ctid", "dec_status", "dec_free"}
LoopPc     == {"ex_final", "ex_orphan", "ex_population"}
ExitPc     == LoopPc \cup {"ex_count", "ex_status", "ex_zombify", "ex_last"}
SenderPc   == {"idle", "sig_walk", "sig_ref", "unref", "gone"}
TargetPc   == CreatingPc \cup ClaimPc \cup DetachPc \cup CancelPc \cup {"cr_unref", "sig_ref"}
GilPc      == {"dec_refs", "dec_ctid", "dec_status", "cr_count", "cr_uncount",
               "join_zombie", "ca_walk", "ca_ref", "ca_unref", "sig_walk", "sig_ref"}
LeasePc    == CreatingPc \cup {"cr_unref", "det_status", "unref", "kill", "ca_unref"}

Distinct(s) == \A i, j \in 1..Len(s) : s[i] = s[j] => i = j

Listed == Elements(list)

(* The actors that hold a lease on t, that is, contribute to pt_refs       *)
Lease(t) == {a \in Actor : tgt[a] = t /\ pc[a] \in LeasePc}

(* A thread that contributes to _pthread_count: one that has not yet       *)
(* decremented it, or one that is being made.                              *)
Counted(t) ==
    \/ Running(t) /\ (t \in exiting => pc[t] = "ex_count")
    \/ \E a \in Thread : tgt[a] = t /\ pc[a] \in {"cr_clone", "cr_unlink", "cr_uncount"}

Population == {t \in Thread : Counted(t)}

(* An actor in a critical section holds the gil, so no other is in one.    *)
GilInv == \A a \in Actor : pc[a] \in GilPc => gil = a

(* No object is twice on the list, and cursors stay within it.             *)
ListInv ==
    /\ Distinct(list)
    /\ \A t \in Thread : pc[t] \in {"dec_refs", "dec_ctid", "dec_status"} => cur[t] \in 0..Len(list)
    /\ \A t \in Thread : pc[t] \in {"dec_ctid", "dec_status"} => cur[t] > 0
    /\ \A t \in Thread : pc[t] \in {"ca_walk", "ca_ref", "ca_unref"} => cur[t] > 0

(* An actor has a target exactly while it is in an operation that has one. *)
TargetInv ==
    /\ \A a \in Actor : pc[a] \in TargetPc => tgt[a] \in Thread
    /\ ~exited => \A a \in Actor : tgt[a] \in Thread => pc[a] \in TargetPc

(* What kinds of actors are where in the code                              *)
PcInv ==
    /\ exited => \A a \in Actor : pc[a] = "gone"
    /\ \A s \in Sender : pc[s] \in SenderPc
    /\ \A t \in Thread : pc[t] \notin {"idle", "sig_walk", "sig_ref", "det_zombify"}
    /\ \A t \in Thread : pc[t] \in JoinPc => "join" \in Ops
    /\ \A t \in Thread : pc[t] \in ExitPc => t \in exiting
    /\ \A t \in exiting : pc[t] \in ExitPc \cup DecPc \cup {"gone"}
    /\ \A t \in exiting : pc[t] \in DecPc => ret[t] = "ex_orphan"
    /\ \A t \in Thread : pc[t] \in DecPc /\ t \notin exiting => ret[t] \in {"run", "cr_alloc"}
    /\ pc[Main] \notin {"unborn", "embryo"}
    /\ atexit = 0

(* Whatever is linked, targeted, about to be freed or running is live.     *)
LiveInv ==
    /\ \A t \in Listed : obj[t] = "live"
    /\ \A a \in Actor : tgt[a] \in Thread => obj[tgt[a]] = "live"
    /\ \A t \in Thread : \A u \in batch[t] : obj[u] = "live"
    /\ \A t \in Thread : Running(t) => obj[t] = "live" /\ t \in Listed
    /\ \A t \in Thread : pc[t] = "unborn" => obj[t] = "none"
    /\ ~exited => \A t \in Thread : obj[t] = "none" => pc[t] = "unborn"
    /\ obj[Main] = "live"

(* pt_status and tib_ctid against the progress of the thread               *)
StatusInv ==
    /\ \A t \in Thread : pc[t] \notin {"unborn", "gone", "ex_zombify", "ex_last"}
                            => status[t] \in {kJoinable, kDetached}
    /\ \A t \in Thread : pc[t] \in {"ex_zombify", "ex_last"} \/ (pc[t] = "gone" /\ ~exited)
                            => status[t] \in {kTerminated, kZombie}
    /\ \A t \in Thread : obj[t] = "live" /\ ~ctid[t] => pc[t] = "gone"

(* pt_refs counts the leases.                                              *)
RefsInv == ~exited => \A t \in Thread : obj[t] = "live" => refs[t] = Cardinality(Lease(t))

(* _pthread_count counts the threads                                       *)
CountInv == ~exited => count = Cardinality(Population)

(* It is zero while the last thread runs the atexit handlers and waits for *)
(* the others, and a thread that found itself alone stays alone.           *)
LoneInv ==
    /\ \A t \in exiting : pc[t] \in LoopPc \cup DecPc => count = 0
    /\ \A t \in Thread : pc[t] = "np_orphan" => Population \subseteq {t}

(* An object that is being made belongs to its creator, and once it is off *)
(* the list again no one else has it.                                      *)
CreateInv ==
    /\ \A a \in Actor : pc[a] \in CreatingPc => a \in Thread /\ pc[tgt[a]] = "embryo"
    /\ \A a, b \in Actor : pc[a] \in CreatingPc /\ pc[b] \in CreatingPc /\ tgt[a] = tgt[b] => a = b
    /\ \A a \in Thread : pc[a] \in {"cr_count", "cr_clone", "cr_unlink"} => tgt[a] \in Listed
    /\ \A a \in Thread : pc[a] \in {"cr_link", "cr_uncount", "cr_free"} => tgt[a] \notin Listed
    /\ \A a \in Thread : pc[a] \in {"cr_link", "cr_uncount", "cr_free"}
                            => \A b \in Actor : tgt[b] = tgt[a] => b = a
    /\ \A a \in Actor : pc[a] \in {"cr_unref", "sig_ref", "unref"}
                            => pc[tgt[a]] \notin {"unborn", "embryo"}
    /\ \A a \in Thread : pc[a] \in DetachPc => tgt[a] = a

(* A thread that does not run yet has a creator at work.                   *)
EmbryoInv ==
    \A t \in Thread : pc[t] = "embryo" /\ obj[t] = "live"
        => \E a \in Thread : pc[a] \in CreatingPc /\ tgt[a] = t

(* A handle is in the hands of one thread that joins, kills or detaches,   *)
(* or of none.                                                             *)
HandleInv ==
    /\ count > 0 => \A u \in handles : u \in Listed /\ status[u] \in {kJoinable, kTerminated}
    /\ \A u \in handles : pc[u] \notin {"unborn", "embryo", "det_status"} /\ obj[u] # "none"
    /\ \A a \in Thread : pc[a] \in ClaimPc =>
          /\ tgt[a] # a
          /\ tgt[a] \notin handles
          /\ pc[tgt[a]] \notin {"unborn", "embryo", "det_status"}
          /\ \A b \in Thread : pc[b] \in ClaimPc /\ tgt[b] = tgt[a] => b = a
    /\ \A a \in Thread : pc[a] \in ClaimPc \ {"join_free"} =>
          tgt[a] \in Listed /\ status[tgt[a]] \in {kJoinable, kTerminated}

(* A joiner past its wait joins a thread that has left its stack; past its *)
(* load of pt_refs the creator has no lease; past the unlinking no one     *)
(* else has the object.                                                    *)
JoinInv ==
    /\ \A a \in Thread : pc[a] \in JoinPc \ {"join_wait"} => ~ctid[tgt[a]] /\ pc[tgt[a]] = "gone"
    /\ \A a \in Thread : pc[a] \in {"join_remove", "join_free"} =>
          \A b \in Thread : pc[b] = "cr_unref" => tgt[b] # tgt[a]
    /\ \A a \in Thread : pc[a] = "join_free" =>
          tgt[a] \notin Listed /\ \A b \in Actor : tgt[b] = tgt[a] => b = a

(* The garbage collector past its load of pt_refs examines an object that  *)
(* neither its creator nor a signal sender has a lease on, and past its    *)
(* load of tib_ctid one whose thread has left its stack. What it has taken *)
(* off the list no one else has.                                           *)
DecimateInv ==
    /\ \A t \in Thread : pc[t] \in {"dec_ctid", "dec_status"} =>
          /\ pc[list[cur[t]]] # "embryo"
          /\ \A b \in Actor : tgt[b] = list[cur[t]] =>
                pc[b] # "cr_unref" /\ (b \in Sender => pc[b] # "unref")
    /\ \A t \in Thread : pc[t] = "dec_status" => ~ctid[list[cur[t]]]
    /\ \A t \in Thread : \A u \in batch[t] :
          /\ u \notin Listed /\ pc[u] = "gone"
          /\ \A b \in Actor : tgt[b] # u
          /\ \A v \in Thread : u \in batch[v] => v = t

IInv ==
    /\ TypeOK /\ GilInv /\ ListInv /\ TargetInv /\ PcInv /\ LiveInv /\ StatusInv /\ RefsInv
    /\ CountInv /\ LoneInv /\ CreateInv /\ EmbryoInv /\ HandleInv
    /\ JoinInv /\ DecimateInv

-----------------------------------------------------------------------------
(* The list                                                                *)

(* Taking the i-th element off a list of distinct objects, as dll_remove() *)
(* does, leaves a list of the other ones, unchanged before i.              *)
LEMMA RemoveAt ==
    ASSUME NEW s \in Seq(Thread), Distinct(s), NEW i \in 1..Len(s)
    PROVE  /\ DllRemoveAt(s, i) \in Seq(Thread)
           /\ Len(DllRemoveAt(s, i)) = Len(s) - 1
           /\ Distinct(DllRemoveAt(s, i))
           /\ Elements(DllRemoveAt(s, i)) = Elements(s) \ {s[i]}
           /\ \A j \in 1..(i - 1) : DllRemoveAt(s, i)[j] = s[j]
<1> DEFINE r == DllRemoveAt(s, i)
<1>1. Len(s) - 1 \in Nat
  OBVIOUS
<1>2. r \in [1..(Len(s) - 1) -> Thread]
  BY <1>1 DEF DllRemoveAt
<1>3. r \in Seq(Thread) /\ Len(r) = Len(s) - 1
  BY <1>1, <1>2
<1>4. \A j \in 1..(Len(s) - 1) : r[j] = IF j < i THEN s[j] ELSE s[j + 1]
  BY DEF DllRemoveAt
<1> HIDE DEF r
<1>5. ASSUME NEW a \in 1..Len(r), NEW b \in 1..Len(r), r[a] = r[b] PROVE a = b
  <2>1. /\ r[a] = IF a < i THEN s[a] ELSE s[a + 1]
        /\ r[b] = IF b < i THEN s[b] ELSE s[b + 1]
    BY <1>3, <1>4
  <2>2. a \in 1..Len(s) /\ a + 1 \in 1..Len(s) /\ b \in 1..Len(s) /\ b + 1 \in 1..Len(s)
    BY <1>3
  <2> DEFINE p == IF a < i THEN a ELSE a + 1
             q == IF b < i THEN b ELSE b + 1
  <2>3. p \in 1..Len(s) /\ q \in 1..Len(s) /\ s[p] = s[q]
    BY <1>5, <2>1, <2>2
  <2>4. p = q
    BY <2>3 DEF Distinct
  <2>5. QED
    BY <2>4
<1>6. Elements(r) \subseteq Elements(s) \ {s[i]}
  BY <1>3, <1>4 DEF Distinct, Elements
<1>7. ASSUME NEW x \in Elements(s) \ {s[i]} PROVE x \in Elements(r)
  <2>1. PICK k \in 1..Len(s) : x = s[k]
    BY DEF Elements
  <2>2. CASE k < i
    BY <2>1, <2>2, <1>3, <1>4 DEF Elements
  <2>3. CASE k > i
    <3>1. k - 1 \in 1..Len(r) /\ r[k - 1] = x
      BY <2>1, <2>3, <1>3, <1>4
    <3>2. QED
      BY <3>1 DEF Elements
  <2>4. QED
    BY <2>1, <2>2, <2>3
<1>8. QED
  <2>1. \A j \in 1..(i - 1) : r[j] = s[j]
    BY <1>4
  <2>2. QED
    BY <1>3, <1>5, <1>6, <1>7, <2>1 DEF r, Distinct

(* dll_remove() leaves a list of distinct objects without u.               *)
LEMMA Remove ==
    ASSUME NEW s \in Seq(Thread), Distinct(s), NEW u \in Thread
    PROVE  /\ dll_remove(s, u) \in Seq(Thread)
           /\ Distinct(dll_remove(s, u))
           /\ Elements(dll_remove(s, u)) = Elements(s) \ {u}
<1>1. CASE u \in Elements(s)
  <2>1. Index(s, u) \in 1..Len(s) /\ s[Index(s, u)] = u
    BY <1>1 DEF Elements, Index
  <2>2. QED
    BY <1>1, <2>1, RemoveAt DEF dll_remove
<1>2. CASE u \notin Elements(s)
  BY <1>2 DEF dll_remove
<1>3. QED
  BY <1>1, <1>2

(* dll_make_first() adds an object that is not linked yet.                 *)
LEMMA MakeFirst ==
    ASSUME NEW s \in Seq(Thread), Distinct(s), NEW u \in Thread \ Elements(s)
    PROVE  /\ dll_make_first(s, u) \in Seq(Thread)
           /\ Distinct(dll_make_first(s, u))
           /\ Elements(dll_make_first(s, u)) = Elements(s) \cup {u}
<1> DEFINE r == dll_make_first(s, u)
<1>1. r \in Seq(Thread) /\ Len(r) = Len(s) + 1
  BY DEF dll_make_first
<1>2. r[1] = u /\ \A j \in 1..Len(s) : r[j + 1] = s[j]
  BY DEF dll_make_first
<1> HIDE DEF r
<1>3. \A k \in 1..Len(r) : k = 1 \/ (k - 1 \in 1..Len(s) /\ r[k] = s[k - 1])
  BY <1>1, <1>2
<1>4. ASSUME NEW a \in 1..Len(r), NEW b \in 1..Len(r), r[a] = r[b] PROVE a = b
  <2>1. \A k \in 1..Len(s) : s[k] # u
    BY DEF Elements
  <2>2. CASE a # 1 /\ b # 1
    <3>1. a - 1 = b - 1
      BY <1>3, <1>4, <2>2 DEF Distinct
    <3>2. QED
      BY <3>1
  <2>3. QED
    BY <1>2, <1>3, <1>4, <2>1, <2>2
<1>5. Elements(r) \subseteq Elements(s) \cup {u}
  BY SMTT(40), <1>1, <1>2, <1>3 DEF Elements
<1>6. u \in Elements(r)
  BY <1>1, <1>2 DEF Elements
<1>7. Elements(s) \subseteq Elements(r)
  <2> SUFFICES ASSUME NEW k \in 1..Len(s) PROVE s[k] \in Elements(r)
    BY DEF Elements
  <2>1. k + 1 \in 1..Len(r) /\ r[k + 1] = s[k]
    BY <1>1, <1>2
  <2>2. QED
    BY <2>1 DEF Elements
<1>8. QED
  BY <1>1, <1>4, <1>5, <1>6, <1>7 DEF r, Distinct

(* dll_make_last() adds an object that is not linked yet.                  *)
LEMMA MakeLast ==
    ASSUME NEW s \in Seq(Thread), Distinct(s), NEW u \in Thread \ Elements(s)
    PROVE  /\ dll_make_last(s, u) \in Seq(Thread)
           /\ Distinct(dll_make_last(s, u))
           /\ Elements(dll_make_last(s, u)) = Elements(s) \cup {u}
<1> DEFINE r == dll_make_last(s, u)
<1>1. r \in Seq(Thread) /\ Len(r) = Len(s) + 1
  BY DEF dll_make_last
<1>2. r[Len(r)] = u /\ \A j \in 1..Len(s) : r[j] = s[j]
  BY DEF dll_make_last
<1> HIDE DEF r
<1>3. \A k \in 1..Len(r) : k = Len(r) \/ k \in 1..Len(s)
  BY <1>1
<1>4. ASSUME NEW a \in 1..Len(r), NEW b \in 1..Len(r), r[a] = r[b] PROVE a = b
  <2>1. \A k \in 1..Len(s) : s[k] # u
    BY DEF Elements
  <2>2. QED
    BY <1>2, <1>3, <1>4, <2>1 DEF Distinct
<1>5. Elements(r) = Elements(s) \cup {u}
  BY <1>1, <1>2, <1>3 DEF Elements
<1>6. QED
  BY <1>1, <1>4, <1>5 DEF r, Distinct

(* _pthread_zombify() leaves a list of the same objects if u was linked.   *)
LEMMA MoveLastFacts ==
    ASSUME NEW s \in Seq(Thread), Distinct(s), NEW u \in Thread
    PROVE  /\ MoveLast(s, u) \in Seq(Thread)
           /\ Distinct(MoveLast(s, u))
           /\ Elements(MoveLast(s, u)) = Elements(s) \cup {u}
<1>1. u \notin Elements(dll_remove(s, u))
  BY Remove
<1>2. QED
  BY SMTT(40), <1>1, Remove, MakeLast DEF MoveLast

-----------------------------------------------------------------------------
(* pt_refs and _pthread_count                                              *)

(* There are finitely many actors.                                         *)
LEMMA ActorsFinite == IsFiniteSet(Actor)
  BY ThreadAssumption, FS_Union DEF Actor

(* So the threads that _pthread_count counts are finite in number ...      *)
LEMMA PopulationSize ==
    /\ IsFiniteSet(Population) /\ Cardinality(Population) \in Nat
    /\ IsFiniteSet(Population') /\ Cardinality(Population') \in Nat
<1>1. Population \in SUBSET Thread /\ Population' \in SUBSET Thread
  BY DEF Population
<1>2. IsFiniteSet(Population) /\ IsFiniteSet(Population')
  BY <1>1, FS_Subset, ThreadAssumption
<1>3. QED
  BY <1>2, FS_CardinalityType

(* ... and so are the leases on an object.                                 *)
LEMMA LeaseSize ==
    ASSUME NEW u
    PROVE  /\ IsFiniteSet(Lease(u)) /\ Cardinality(Lease(u)) \in Nat
           /\ IsFiniteSet(Lease(u)') /\ Cardinality(Lease(u)') \in Nat
<1>1. Lease(u) \in SUBSET Actor /\ Lease(u)' \in SUBSET Actor
  BY DEF Lease
<1>2. IsFiniteSet(Lease(u)) /\ IsFiniteSet(Lease(u)')
  BY <1>1, FS_Subset, ActorsFinite
<1>3. QED
  BY <1>2, FS_CardinalityType

(* pt_refs stays exact when an actor takes a lease on v ...                *)
LEMMA LeaseTaken ==
    ASSUME RefsInv, ~exited, NEW v \in Thread, NEW a, TypeOK,
           obj[v] = "live", UNCHANGED obj,
           refs' = [refs EXCEPT ![v] = @ + 1],
           a \notin Lease(v), Lease(v)' = Lease(v) \cup {a},
           \A u \in Thread \ {v} : Lease(u)' = Lease(u)
    PROVE  RefsInv' /\ refs' \in [Thread -> Nat]
<1>1. refs[v] = Cardinality(Lease(v))
  BY DEF RefsInv
<1>2. Cardinality(Lease(v)') = refs[v] + 1
  <2>1. IsFiniteSet(Lease(v))
    BY LeaseSize
  <2>2. Cardinality(Lease(v) \cup {a}) = Cardinality(Lease(v)) + 1
    BY <2>1, FS_AddElement
  <2>3. QED
    BY <1>1, <2>2
<1>3. refs \in [Thread -> Nat]
  BY DEF TypeOK
<1>4. QED
  BY <1>2, <1>3 DEF RefsInv

(* ... and when it gives the lease back: then it was not zero before.      *)
LEMMA LeaseReturned ==
    ASSUME RefsInv, ~exited, NEW v \in Thread, NEW a, TypeOK,
           obj[v] = "live", UNCHANGED obj,
           refs' = [refs EXCEPT ![v] = @ - 1],
           a \in Lease(v), Lease(v)' = Lease(v) \ {a},
           \A u \in Thread \ {v} : Lease(u)' = Lease(u)
    PROVE  RefsInv' /\ refs' \in [Thread -> Nat]
<1>1. refs[v] = Cardinality(Lease(v))
  BY DEF RefsInv
<1>2. Cardinality(Lease(v)') = refs[v] - 1 /\ refs[v] - 1 \in Nat
  <2>1. IsFiniteSet(Lease(v)) /\ Cardinality(Lease(v)') \in Nat
    BY LeaseSize
  <2>2. Cardinality(Lease(v) \ {a}) = Cardinality(Lease(v)) - 1
    BY <2>1, FS_RemoveElement
  <2>3. QED
    BY <1>1, <2>1, <2>2
<1>3. refs \in [Thread -> Nat]
  BY DEF TypeOK
<1>4. QED
  BY <1>2, <1>3 DEF RefsInv

(* _pthread_count is positive while some thread is counted.                *)
LEMMA Inhabited ==
    ASSUME CountInv, ~exited, NEW u \in Population
    PROVE  count > 0
  BY PopulationSize, FS_EmptySet DEF CountInv

(* _pthread_count stays exact when pthread_create() links a thread ...     *)
LEMMA CountRises ==
    ASSUME CountInv, ~exited, ~exited', NEW u, u \notin Population,
           Population' = Population \cup {u}, count' = count + 1
    PROVE  CountInv'
  BY PopulationSize, FS_AddElement DEF CountInv

(* ... and when a thread exits or its creation is undone: then it was not  *)
(* zero before.                                                            *)
LEMMA CountFalls ==
    ASSUME CountInv, ~exited, ~exited', NEW u \in Population,
           Population' = Population \ {u}, count' = count - 1
    PROVE  CountInv' /\ count' \in Nat
  BY PopulationSize, FS_RemoveElement DEF CountInv

-----------------------------------------------------------------------------
(* Frame lemmas: what a step of t has to leave alone to keep a conjunct    *)

USE ThreadAssumption
    DEF IInv, Actor, Listed, CreatingPc, JoinPc, DetachPc, CancelPc,
        ClaimPc, DecPc, LoopPc, ExitPc, SenderPc, TargetPc, GilPc, LeasePc

(* What the other actors do is left alone.                                 *)
Moves(t) == \A a \in Actor \ {t} : pc'[a] = pc[a] /\ tgt'[a] = tgt[a]

(* The gil is left alone, taken or released.                               *)
LEMMA GilFrame ==
    ASSUME IInv, NEW t \in Actor, Moves(t),
           \/ gil' = gil /\ (pc'[t] \in GilPc => gil = t)
           \/ (gil \in {Nobody, t} \/ pc[t] \in GilPc) /\ (pc'[t] \in GilPc => gil' = t)
    PROVE  GilInv'
<1>1. gil \in {Nobody, t} \/ pc[t] \in GilPc => \A a \in Actor \ {t} : pc[a] \notin GilPc
  BY DEF GilInv
<1>2. QED BY <1>1 DEF GilInv, Moves

(* The list is left alone by an actor that does not walk it.               *)
LEMMA ListFrame ==
    ASSUME IInv, NEW t \in Actor, Moves(t), Distinct(list'),
           list' = list \/ gil \in {Nobody, t} \/ pc[t] \in GilPc,
           \A a \in Thread \ {t} : cur'[a] = cur[a],
           pc'[t] \notin {"dec_refs", "dec_ctid", "dec_status", "ca_walk", "ca_ref", "ca_unref"}
    PROVE  ListInv'
<1>1. gil \in {Nobody, t} \/ pc[t] \in GilPc => \A a \in Actor \ {t} : pc[a] \notin GilPc
  BY DEF GilInv
<1>2. QED BY <1>1 DEF ListInv, Moves

(* Targets come and go with the operations that have one.                  *)
LEMMA TargetFrame ==
    ASSUME IInv, NEW t \in Actor, Moves(t), exited' = exited,
           \/ pc'[t] \in TargetPc <=> tgt'[t] \in Thread
           \/ (pc'[t] \in TargetPc <=> pc[t] \in TargetPc) /\ tgt'[t] = tgt[t]
    PROVE  TargetInv'
BY DEF TargetInv, Moves

(* A thread goes on, inside of pthread_exit() if it was.                  *)
LEMMA PcFrame ==
    ASSUME IInv, NEW t \in Thread, Moves(t), pc[t] # "gone", UNCHANGED <<exiting, atexit, exited>>,
           \A a \in Thread \ {t} : ret'[a] = ret[a],
           pc'[t] \notin {"idle", "sig_walk", "sig_ref", "det_zombify", "unborn", "embryo"},
           pc'[t] \in JoinPc => "join" \in Ops,
           t \in exiting => pc'[t] \in ExitPc \cup DecPc /\ (pc'[t] \in DecPc => ret'[t] = "ex_orphan"),
           t \notin exiting => pc'[t] \notin ExitPc /\ (pc'[t] \in DecPc => ret'[t] \in {"run", "cr_alloc"})
    PROVE  PcInv'
<1>1. \A x \in exiting : x \in Thread
  BY DEF TypeOK
<1>2. ~exited /\ \A s \in Sender : s \in Actor \ {t}
  BY DEF PcInv
<1>3. QED BY <1>1, <1>2 DEF PcInv, Moves

(* A thread goes on without changing its pt_status or tib_ctid.            *)
LEMMA StatusFrame ==
    ASSUME IInv, NEW t \in Actor, Moves(t), UNCHANGED <<status, exited>>,
           \A u \in Thread : obj'[u] = "live" /\ ~ctid'[u] => obj[u] = "live" /\ ~ctid[u],
           pc[t] \notin {"unborn", "gone"}, pc'[t] \notin {"unborn", "gone"},
           pc[t] \in {"ex_zombify", "ex_last"} <=> pc'[t] \in {"ex_zombify", "ex_last"}
    PROVE  StatusInv'
BY DEF StatusInv, Moves

(* An actor lets go of an object, or takes aim at one that is live.        *)
LEMMA LiveFrame ==
    ASSUME IInv, NEW t \in Actor, Moves(t), UNCHANGED <<obj, batch, exited>>,
           Listed' \subseteq Listed, \A u \in Listed \ Listed' : pc[u] \in {"embryo", "gone"},
           pc[t] \notin {"unborn", "embryo", "gone"}, pc'[t] \notin {"unborn", "embryo", "gone"},
           tgt'[t] \in Thread => tgt'[t] = tgt[t] \/ obj[tgt'[t]] = "live"
    PROVE  LiveInv'
<1>1. \A u \in Thread : (Running(u)' <=> Running(u)) /\ (pc'[u] = "unborn" <=> pc[u] = "unborn")
  BY DEF Running, Moves
<1>2. \A a \in Actor : tgt'[a] \in Thread => obj[tgt'[a]] = "live"
  BY DEF LiveInv, Moves
<1>3. \A u \in Thread : Running(u) => u \in Listed'
  BY DEF LiveInv, Running
<1>4. QED BY <1>1, <1>2, <1>3 DEF LiveInv

(* pthread_create() is not involved.                                       *)
LEMMA CreateFrame ==
    ASSUME IInv, NEW t \in Actor, Moves(t), Listed' \subseteq Listed,
           \A a \in Actor : pc'[a] \in CreatingPc => tgt'[a] \notin Listed \ Listed',
           pc[t] \notin {"unborn", "embryo"},
           pc'[t] \notin {"unborn", "embryo"},
           pc'[t] \in CreatingPc => pc[t] \in CreatingPc /\ tgt'[t] = tgt[t],
           pc'[t] \in {"cr_link", "cr_uncount", "cr_free"} => pc[t] \in {"cr_link", "cr_uncount", "cr_free"},
           pc'[t] \in {"cr_count", "cr_clone", "cr_unlink"} => pc[t] \in {"cr_count", "cr_clone", "cr_unlink"},
           tgt'[t] \in Thread => tgt'[t] = tgt[t] \/ tgt'[t] \in Listed,
           pc'[t] \in {"cr_unref", "sig_ref", "unref"} => tgt'[t] \in Thread /\ pc[tgt'[t]] \notin {"unborn", "embryo"},
           t \in Thread /\ pc'[t] \in DetachPc => tgt'[t] = t
    PROVE  CreateInv'
<1>1. \A a \in Actor : pc'[a] \in CreatingPc => pc[a] \in CreatingPc /\ tgt'[a] = tgt[a] /\ tgt[a] \in Thread
  BY DEF TargetInv, Moves
<1>2. /\ \A a \in Actor : pc'[a] \in {"unborn", "embryo"} <=> pc[a] \in {"unborn", "embryo"}
      /\ \A a \in Actor : pc'[a] = "embryo" <=> pc[a] = "embryo"
  BY DEF Moves
<1>3. /\ \A a \in Actor : pc'[a] \in {"cr_link", "cr_uncount", "cr_free"} => pc[a] \in {"cr_link", "cr_uncount", "cr_free"}
      /\ \A a \in Actor : pc'[a] \in {"cr_count", "cr_clone", "cr_unlink"} => pc[a] \in {"cr_count", "cr_clone", "cr_unlink"}
      /\ \A a \in Actor : pc'[a] \in {"cr_unref", "sig_ref", "unref"} => tgt'[a] \in Thread
  BY DEF TargetInv, Moves
<1>4. \A b \in Actor : tgt'[b] \in Thread => tgt'[b] = tgt[b] \/ tgt'[b] \in Listed
  BY DEF Moves
<1>5. \A a \in Actor : pc'[a] \in CreatingPc => a \in Thread /\ pc'[tgt'[a]] = "embryo"
  BY <1>1, <1>2, <1>3 DEF CreateInv
<1>6. \A a \in Actor : pc'[a] \in {"cr_unref", "sig_ref", "unref"} => pc'[tgt'[a]] \notin {"unborn", "embryo"}
  BY <1>2, <1>3 DEF CreateInv, Moves
<1>7. \A a \in Thread : pc'[a] \in DetachPc => tgt'[a] = a
  BY DEF CreateInv, Moves
<1>8. QED BY <1>1, <1>3, <1>4, <1>5, <1>6, <1>7 DEF CreateInv

(* What is being made keeps its creator.                                   *)
LEMMA EmbryoFrame ==
    ASSUME IInv, NEW t \in Actor, Moves(t),
           \A u \in Thread : obj'[u] = "live" => obj[u] = "live",
           pc'[t] # "embryo",
           pc[t] \in CreatingPc => pc'[t] \in CreatingPc /\ tgt'[t] = tgt[t]
    PROVE  EmbryoInv'
BY DEF EmbryoInv, Moves

(* No handle changes hands.                                                *)
LEMMA HandleFrame ==
    ASSUME IInv, NEW t \in Actor, Moves(t), UNCHANGED <<status, handles>>, count' > 0 => count > 0,
           count' > 0 => \A u \in Listed \ Listed' : u \notin handles,
           \A a \in Actor : pc'[a] \in ClaimPc \ {"join_free"} => tgt'[a] \notin Listed \ Listed',
           \A u \in Thread : obj'[u] = "none" => obj[u] = "none",
           pc'[t] \notin {"unborn", "embryo", "det_status"},
           pc'[t] \in ClaimPc => pc[t] \in ClaimPc \ {"join_free"} /\ tgt'[t] = tgt[t]
    PROVE  HandleInv'
<1>1. /\ \A u \in handles : u \in Thread
      /\ \A a \in Thread : pc'[a] \in ClaimPc => pc[a] \in ClaimPc /\ tgt'[a] = tgt[a] /\ tgt[a] \in Thread
  BY DEF TypeOK, TargetInv, Moves
<1>2. \A a \in Thread : pc'[a] \in ClaimPc \ {"join_free"} => pc[a] \in ClaimPc \ {"join_free"}
  BY DEF Moves
<1>3. \A u \in Thread : pc[u] \notin {"unborn", "embryo", "det_status"} => pc'[u] \notin {"unborn", "embryo", "det_status"}
  BY DEF Moves
<1>4. QED BY <1>1, <1>2, <1>3 DEF HandleInv

(* No join goes on past its load of pt_refs.                               *)
LEMMA JoinFrame ==
    ASSUME IInv, NEW t \in Actor, Moves(t), Listed' \subseteq Listed, ctid' = ctid,
           pc[t] # "gone", pc'[t] \notin {"cr_unref", "join_refs", "join_remove", "join_free"},
           pc'[t] \in {"join_last", "join_zombie"} =>
              t \in Thread /\ pc[t] \in {"join_refs", "join_last"} /\ tgt'[t] = tgt[t],
           tgt'[t] \in Thread => tgt'[t] = tgt[t] \/ tgt'[t] \in Listed
    PROVE  JoinInv'
<1>1. \A a \in Thread : pc'[a] \in JoinPc \ {"join_wait"} =>
         pc[a] \in JoinPc \ {"join_wait"} /\ tgt'[a] = tgt[a] /\ tgt[a] \in Thread
  BY DEF TypeOK, TargetInv, Moves
<1>2. \A a \in Thread : pc'[a] \in {"cr_unref", "join_remove", "join_free"} => a # t /\ pc'[a] = pc[a] /\ tgt'[a] = tgt[a]
  BY DEF Moves
<1>3. \A b \in Actor : tgt'[b] \in Thread => tgt'[b] = tgt[b] \/ tgt'[b] \in Listed
  BY DEF Moves
<1>4. \A a \in Actor : pc[a] = "gone" => pc'[a] = "gone"
  BY DEF Moves
<1>5. QED BY <1>1, <1>2, <1>3, <1>4 DEF JoinInv

(* The garbage collector is not involved.                                  *)
LEMMA DecimateFrame ==
    ASSUME IInv, NEW t \in Actor, Moves(t), list' = list \/ gil \in {Nobody, t} \/ pc[t] \in GilPc,
           Listed' \subseteq Listed, UNCHANGED <<batch, ctid>>,
           \A a \in Thread \ {t} : cur'[a] = cur[a],
           pc[t] # "gone", pc'[t] \notin {"dec_ctid", "dec_status", "embryo", "cr_unref"},
           t \in Sender => pc'[t] # "unref",
           tgt'[t] \in Thread => tgt'[t] = tgt[t] \/ tgt'[t] \in Listed
    PROVE  DecimateInv'
<1>1. \A x \in Thread : pc'[x] \in {"dec_ctid", "dec_status"} =>
         /\ x # t /\ pc'[x] = pc[x] /\ cur'[x] = cur[x]
         /\ list' = list /\ list[cur[x]] \in Thread
  <2>0. gil \in {Nobody, t} \/ pc[t] \in GilPc => \A a \in Actor \ {t} : pc[a] \notin GilPc
    BY DEF GilInv
  <2>1. \A x \in Thread : pc'[x] \in {"dec_ctid", "dec_status"} => x # t /\ pc'[x] = pc[x] /\ cur'[x] = cur[x] /\ list' = list
    BY <2>0 DEF Moves
  <2>2. \A x \in Thread : pc[x] \in {"dec_ctid", "dec_status"} => cur[x] \in 1..Len(list)
    BY DEF TypeOK, ListInv
  <2>3. QED BY <2>1, <2>2 DEF TypeOK
<1>2. /\ \A a \in Actor : pc'[a] = "embryo" => pc[a] = "embryo"
      /\ \A a \in Actor : pc[a] = "gone" => pc'[a] = "gone"
      /\ \A a \in Actor : pc'[a] = "cr_unref" => a # t /\ pc[a] = "cr_unref" /\ tgt'[a] = tgt[a]
      /\ \A a \in Sender : pc'[a] = "unref" => a # t /\ pc[a] = "unref" /\ tgt'[a] = tgt[a]
  BY DEF Moves
<1>3. \A b \in Actor : tgt'[b] \in Thread => tgt'[b] = tgt[b] \/ tgt'[b] \in Listed
  BY DEF Moves
<1>4. \A x \in Thread : pc'[x] \in {"dec_ctid", "dec_status"} =>
         /\ pc'[list[cur[x]]] # "embryo"
         /\ \A b \in Actor : tgt'[b] = list[cur[x]] =>
               pc'[b] # "cr_unref" /\ (b \in Sender => pc'[b] # "unref")
  BY <1>1, <1>2 DEF DecimateInv
<1>5. \A x \in Thread : \A u \in batch[x] : u \in Thread /\ pc'[u] = "gone" /\ \A b \in Actor : tgt'[b] # u
  BY <1>2, <1>3 DEF TypeOK, DecimateInv
<1>6. QED BY <1>1, <1>4, <1>5 DEF DecimateInv

(* No thread comes or goes.                                                *)
LEMMA PopulationFrame ==
    ASSUME IInv, NEW t \in Actor, Moves(t), exiting' = exiting, t \in exiting => pc[t] # "ex_count" /\ pc'[t] # "ex_count",
           pc[t] \notin {"unborn", "embryo", "gone", "cr_clone", "cr_unlink", "cr_uncount"},
           pc'[t] \notin {"unborn", "embryo", "gone", "cr_clone", "cr_unlink", "cr_uncount"}
    PROVE  Population' = Population
<1>1. \A u \in Thread : Running(u)' <=> Running(u)
  BY DEF Moves, Running
<1>2. \A u \in exiting : u \in Thread
  BY DEF TypeOK
<1>3. \A a \in Actor : /\ pc'[a] \in {"cr_clone", "cr_unlink", "cr_uncount"} <=> pc[a] \in {"cr_clone", "cr_unlink", "cr_uncount"}
                       /\ pc[a] \in {"cr_clone", "cr_unlink", "cr_uncount"} => tgt'[a] = tgt[a]
  BY DEF Moves
<1>4. \A u \in Thread : Counted(u)' <=> Counted(u)
  BY <1>1, <1>2, <1>3 DEF Moves, Counted
<1>5. QED BY <1>4 DEF Population

(* Nor does the count change.                                              *)
LEMMA CountFrame ==
    ASSUME IInv, NEW t \in Actor, Moves(t), Population' = Population, UNCHANGED <<count, exiting, exited>>,
           pc'[t] # "np_orphan",
           t \in exiting /\ pc'[t] \in LoopPc \cup DecPc => pc[t] \in LoopPc \cup DecPc
    PROVE  CountInv' /\ LoneInv'
<1>1. \A u \in exiting : u \in Thread
  BY DEF TypeOK
<1>2. QED BY <1>1 DEF CountInv, LoneInv, Moves

-----------------------------------------------------------------------------
(* Local steps                                                             *)

(* Where an actor has no target and changes no object                      *)
PlainPc == {"idle", "sig_walk", "ready", "run", "np_orphan", "cr_alloc", "ca_walk", "ex_status"}
             \cup LoopPc \cup DecPc

(* A step that only moves the actor along, or its cursor, or the gil       *)
Local(t) ==
    /\ pc[t] \in PlainPc /\ pc'[t] \in PlainPc
    /\ \A a \in Actor \ {t} : pc'[a] = pc[a]
    /\ UNCHANGED <<list, count, status, refs, ctid, obj, world, tgt, batch>>

(* What such a step cannot disturb                                         *)
LocalInv ==
    /\ TargetInv /\ LiveInv /\ StatusInv /\ RefsInv /\ CountInv
    /\ CreateInv /\ EmbryoInv /\ HandleInv /\ JoinInv

(* A local step keeps these conjuncts and the population.                  *)
LEMMA LocalStep ==
    ASSUME IInv, TypeOK', NEW t \in Actor, Local(t)
    PROVE  LocalInv' /\ Population' = Population
<1> USE DEF PlainPc, Local, world
<1>1. TargetInv' BY ZenonT(40) DEF TypeOK, TargetInv
<1>2. LiveInv'
  <2>1. \A u \in Thread : (Running(u)' <=> Running(u)) /\ (pc'[u] = "unborn" <=> pc[u] = "unborn")
    BY DEF Running
  <2>2. QED BY <2>1 DEF LiveInv
<1>3. StatusInv' BY DEF TypeOK, StatusInv
<1>4. \A u \in Thread : Lease(u)' = Lease(u)
  BY DEF Lease
<1>5. RefsInv' BY <1>4 DEF RefsInv
<1>6. Population' = Population
  <2>1. \A u \in Thread : u \in exiting /\ pc[u] \in PlainPc => pc[u] # "ex_count"
    BY DEF PcInv
  <2>2. \A u \in Thread : Counted(u)' <=> Counted(u)
    BY <2>1 DEF Counted, Running
  <2>3. QED BY <2>2 DEF Population
<1>7. CountInv' BY <1>6 DEF CountInv
<1>8. CreateInv'
  <2>1. \A a \in Actor : pc'[a] \in TargetPc => a # t /\ pc'[a] = pc[a] /\ tgt[a] \in Thread
    BY ZenonT(40) DEF TypeOK, TargetInv
  <2>2. \A a \in Actor : pc'[a] \in {"unborn", "embryo"} <=> pc[a] \in {"unborn", "embryo"}
    OBVIOUS
  <2>3. \A a \in Actor : pc'[a] = "embryo" <=> pc[a] = "embryo"
    OBVIOUS
  <2>4. QED BY <2>1, <2>2, <2>3 DEF CreateInv
<1>9. EmbryoInv'
  <2>1. \A a \in Actor : (pc'[a] = "embryo" => pc[a] = "embryo") /\ (pc[a] \in CreatingPc => pc'[a] \in CreatingPc)
    OBVIOUS
  <2>2. QED BY <2>1 DEF EmbryoInv
<1>10. HandleInv'
  <2>1. \A a \in Actor : pc'[a] \in ClaimPc => a # t /\ pc'[a] = pc[a] /\ tgt[a] \in Thread
    BY DEF TypeOK, TargetInv
  <2>2. \A a \in Actor : pc'[a] \in {"unborn", "embryo", "det_status"} <=> pc[a] \in {"unborn", "embryo", "det_status"}
    OBVIOUS
  <2>3. \A u \in handles : u \in Actor
    BY DEF TypeOK
  <2>4. QED BY <2>1, <2>2, <2>3 DEF HandleInv
<1>11. JoinInv'
  <2>1. \A a \in Actor : pc'[a] \in JoinPc \cup {"cr_unref"} => a # t /\ pc'[a] = pc[a] /\ tgt[a] \in Thread
    BY DEF TypeOK, TargetInv
  <2>2. \A a \in Actor : pc[a] = "gone" => pc'[a] = "gone"
    OBVIOUS
  <2>3. QED BY <2>1, <2>2 DEF JoinInv
<1> QED
  BY <1>1, <1>2, <1>3, <1>5, <1>6, <1>7, <1>8, <1>9, <1>10, <1>11 DEF LocalInv

-----------------------------------------------------------------------------
(* Every step keeps the invariant.                                         *)

(* The sets of program counters and the small helpers are always expanded. *)
USE ThreadAssumption
    DEF IInv, Actor, Listed, CreatingPc, JoinPc, DetachPc, CancelPc,
        ClaimPc, DecPc, LoopPc, ExitPc, SenderPc, TargetPc, GilPc, LeasePc,
        PlainPc, Goto, Return, Home, _pthread_ref, _pthread_unref,
        _pthread_free, mem, world, locals

-----------------------------------------------------------------------------
(* The garbage collector starts its walk at the end of the list.           *)
LEMMA DecimateLockKeepsIInv ==
    ASSUME Discipline, IInv, NEW t \in Thread, DecimateLock(t)
    PROVE  IInv'
<1> USE DEF DecimateLock
<1>1. TypeOK' BY DEF TypeOK, Pc
<1>2. Local(t)
  BY DEF Local, TypeOK, PcInv
<1>3. LocalInv' /\ Population' = Population BY <1>1, <1>2, LocalStep
<1>4. GilInv' /\ ListInv' /\ PcInv' BY DEF TypeOK, GilInv, ListInv, PcInv
<1>5. LoneInv' BY <1>3 DEF TypeOK, LoneInv, PcInv
<1>6. DecimateInv' BY SMTT(40) DEF TypeOK, DecimateInv, GilInv
<1> QED BY <1>1, <1>2, <1>3, <1>4, <1>5, <1>6 DEF LocalInv

(* An object whose pt_refs is zero is leased to nobody, so its creator and *)
(* every signal sender are done with it; the walk skips any other.         *)
LEMMA DecimateRefsKeepsIInv ==
    ASSUME Discipline, IInv, NEW t \in Thread, DecimateRefs(t)
    PROVE  IInv'
<1> DEFINE u == list[cur[t]]
<1>u. /\ u \in Elements(list) /\ u \in Thread
      /\ obj[u] = "live" /\ ~exited /\ cur[t] \in 1..Len(list)
  BY SMTT(40) DEF DecimateRefs, TypeOK, ListInv, Elements, LiveInv, PcInv
<1>free. refs[u] = 0 => Lease(u) = {}
  <2>1. refs[u] = Cardinality(Lease(u))
    BY <1>u DEF RefsInv
  <2>2. IsFiniteSet(Lease(u))
    BY <1>u, LeaseSize
  <2>3. QED BY <2>1, <2>2, FS_EmptySet
<1>act. PICK l \in {"dec_refs", "dec_ctid"} :
           /\ pc[t] = "dec_refs" /\ pc' = [pc EXCEPT ![t] = l]
           /\ \/ l = "dec_refs" /\ cur' = [cur EXCEPT ![t] = @ - 1]
              \/ l = "dec_ctid" /\ cur' = cur /\ Lease(u) = {}
           /\ UNCHANGED <<mem, world, tgt, batch, ret, last>>
  BY <1>u, <1>free DEF DecimateRefs, TypeOK
<1>cur. cur' \in [Thread -> Nat] /\ cur'[t] \in 0..Len(list) /\ \A x \in Thread \ {t} : cur'[x] = cur[x]
  <2>1. cur \in [Thread -> Nat] /\ Len(list) \in Nat
    BY DEF TypeOK
  <2>2. cur' = cur \/ cur' = [cur EXCEPT ![t] = cur[t] - 1]
    BY <1>act
  <2> HIDE DEF u
  <2>3. QED BY <1>u, <2>1, <2>2
<1>lessee. l = "dec_ctid" => /\ pc[u] # "embryo"
                            /\ \A b \in Actor : tgt[b] = u => pc[b] \notin {"cr_unref", "unref"}
  BY <1>u, <1>act DEF Lease, EmbryoInv
<1> HIDE DEF u
<1>1. TypeOK' BY <1>act, <1>cur DEF TypeOK, Pc
<1>2. Local(t)
  BY <1>u, <1>act DEF Local, TypeOK, PcInv
<1>3. LocalInv' /\ Population' = Population BY <1>1, <1>2, LocalStep
<1>4. /\ Moves(t) /\ pc[t] = "dec_refs" /\ pc'[t] \in {"dec_refs", "dec_ctid"}
      /\ gil = t /\ UNCHANGED <<list, gil, count, exiting, exited>>
  BY <1>2, <1>act DEF Local, Moves, TypeOK, GilInv
<1>5. GilInv' BY <1>4, GilFrame
<1>6. ListInv'
  <2>1. cur \in [Thread -> Nat] /\ cur[t] \in 1..Len(list) /\ Len(list) \in Nat
    BY <1>u DEF TypeOK
  <2>2. (cur' = [cur EXCEPT ![t] = cur[t] - 1] /\ pc'[t] = "dec_refs") \/ cur' = cur
    BY <1>act, <1>4 DEF TypeOK
  <2>3. /\ cur'[t] \in 0..Len(list) /\ (pc'[t] # "dec_refs" => cur'[t] > 0)
        /\ \A x \in Thread \ {t} : cur'[x] = cur[x]
    BY <2>1, <2>2
  <2>4. QED BY <1>4, <2>3 DEF ListInv, Moves
<1>7. PcInv' BY <1>u, <1>act DEF TypeOK, PcInv
<1>8. LoneInv' BY <1>3, <1>4, CountFrame
<1>9. DecimateInv' BY SMTT(40), <1>u, <1>act, <1>lessee DEF TypeOK, DecimateInv, GilInv, u
<1> QED BY <1>1, <1>3, <1>5, <1>6, <1>7, <1>8, <1>9 DEF LocalInv

(* The garbage collector skips a thread that is still on its stack.        *)
LEMMA DecimateCtidKeepsIInv ==
    ASSUME Discipline, IInv, NEW t \in Thread, DecimateCtid(t)
    PROVE  IInv'
<1>act. PICK l \in {"dec_refs", "dec_status"} :
           /\ pc[t] = "dec_ctid" /\ pc' = [pc EXCEPT ![t] = l]
           /\ \/ l = "dec_refs" /\ cur' = [cur EXCEPT ![t] = @ - 1]
              \/ l = "dec_status" /\ cur' = cur /\ ~ctid[list[cur[t]]]
           /\ UNCHANGED <<mem, world, tgt, batch, ret, last>>
  BY DEF DecimateCtid
<1>cur. cur[t] \in 1..Len(list)
  BY <1>act DEF TypeOK, ListInv
<1>next. cur' \in [Thread -> Nat]
  <2>1. cur \in [Thread -> Nat] /\ Len(list) \in Nat
    BY DEF TypeOK
  <2>2. cur' = cur \/ cur' = [cur EXCEPT ![t] = cur[t] - 1]
    BY <1>act
  <2>3. QED BY <1>cur, <2>1, <2>2
<1>1. TypeOK' BY <1>act, <1>next DEF TypeOK, Pc
<1>2. Local(t)
  BY <1>act, <1>cur DEF Local, TypeOK, PcInv
<1>3. LocalInv' /\ Population' = Population BY <1>1, <1>2, LocalStep
<1>4. /\ Moves(t) /\ pc[t] = "dec_ctid" /\ pc'[t] \in {"dec_refs", "dec_status"}
      /\ gil = t /\ UNCHANGED <<list, gil, count, exiting, exited>>
  BY <1>2, <1>act DEF Local, Moves, TypeOK, GilInv
<1>5. GilInv' BY <1>4, GilFrame
<1>6. ListInv'
  <2>1. cur \in [Thread -> Nat] /\ cur[t] \in 1..Len(list) /\ Len(list) \in Nat
    BY <1>cur DEF TypeOK
  <2>2. (cur' = [cur EXCEPT ![t] = cur[t] - 1] /\ pc'[t] = "dec_refs") \/ cur' = cur
    BY <1>act, <1>4 DEF TypeOK
  <2>3. /\ cur'[t] \in 0..Len(list) /\ (pc'[t] # "dec_refs" => cur'[t] > 0)
        /\ \A x \in Thread \ {t} : cur'[x] = cur[x]
    BY <2>1, <2>2
  <2>4. QED BY <1>4, <2>3 DEF ListInv, Moves
<1>7. PcInv' BY <1>act, <1>cur DEF TypeOK, PcInv
<1>8. LoneInv' BY <1>3, <1>4, CountFrame
<1>9. DecimateInv' BY SMTT(40), <1>act, <1>cur DEF TypeOK, DecimateInv, GilInv
<1> QED BY <1>1, <1>3, <1>5, <1>6, <1>7, <1>8, <1>9 DEF LocalInv

(* What the garbage collector takes off the list has left its stack and    *)
(* nobody has it: a creator or sender would have a lease, a canceler would *)
(* hold the gil, and a joiner excludes zombies and, before the last thread *)
(* exits, auto-joining.                                                    *)
LEMMA DecimateStatusTakesKeepsIInv ==
    ASSUME Discipline, IInv, NEW t \in Thread, DecimateStatus(t),
           ~(status[list[cur[t]]] < Threshold(t))
    PROVE  IInv'
<1>u. PICK u \in Thread :
      /\ u = list[cur[t]] /\ u \in Elements(list)
      /\ obj[u] = "live" /\ ~ctid[u] /\ pc[u] = "gone"
      /\ ~exited
      /\ cur[t] \in 1..Len(list) /\ gil = t
  BY SMTT(40) DEF DecimateStatus, TypeOK, ListInv, Elements, LiveInv, PcInv,
     DecimateInv, StatusInv, GilInv
<1>ty. status[u] \in Status
  BY DEF TypeOK
<1>t. /\ pc[t] = "dec_status" /\ (ret[t] = "ex_orphan" => count = 0)
      /\ status[u] \in {kJoinable, kDetached, kTerminated, kZombie}
  BY <1>ty DEF DecimateStatus, Status, LoneInv, PcInv, kJoinable, kDetached,
     kTerminated, kZombie
<1>low. status[u] # kJoinable /\ (status[u] = kTerminated => count = 0)
  BY <1>t, <1>u DEF Threshold, kJoinable, kDetached, kTerminated, kZombie
<1>claim. ASSUME NEW b \in Thread, tgt[b] = u, pc[b] \in ClaimPc \ {"join_free"} PROVE FALSE
  <2>1. status[u] = kTerminated
    BY <1>claim, <1>low DEF HandleInv
  <2>2. b \in Population
    BY <1>claim DEF Population, Counted, Running, PcInv
  <2>3. QED BY <1>u, <1>low, <1>claim, <2>1, <2>2, Inhabited DEF TypeOK
<1>alone. \A b \in Actor : tgt[b] # u
  <2> SUFFICES ASSUME NEW b \in Actor, tgt[b] = u PROVE FALSE
    OBVIOUS
  <2>1. pc[b] \in TargetPc
    BY <1>u DEF TargetInv
  <2>2. pc[b] \notin CreatingPc \cup CancelPc \cup {"sig_ref"}
    BY <1>u DEF CreateInv, GilInv, DecimateStatus
  <2>3. pc[b] \notin ClaimPc
    BY <1>u, <1>claim DEF JoinInv, PcInv
  <2>4. pc[b] \notin DetachPc \cup {"cr_unref"}
    BY <1>u DEF CreateInv, DecimateInv, PcInv, DecimateStatus
  <2>5. QED BY <2>1, <2>2, <2>3, <2>4
<1>act. /\ pc[t] = "dec_status" /\ pc' = [pc EXCEPT ![t] = "dec_refs"]
        /\ UNCHANGED <<count, gil, status, refs, ctid, obj, world, tgt, ret, last>>
        /\ list' = DllRemoveAt(list, cur[t])
        /\ batch' = [batch EXCEPT ![t] = @ \cup {u}]
        /\ cur' = [cur EXCEPT ![t] = cur[t] - 1]
  BY <1>u DEF DecimateStatus
<1>list. /\ list' \in Seq(Thread) /\ Distinct(list')
         /\ Len(list') = Len(list) - 1 /\ Elements(list') = Elements(list) \ {u}
  <2>1. list \in Seq(Thread) /\ Distinct(list)
    BY DEF TypeOK, ListInv
  <2>2. QED BY <1>u, <1>act, <2>1, RemoveAt
<1>cur. cur' \in [Thread -> Nat] /\ cur'[t] \in 0..Len(list') /\ \A x \in Thread \ {t} : cur'[x] = cur[x]
  <2>1. cur \in [Thread -> Nat] /\ Len(list) \in Nat
    BY SMTT(40) DEF TypeOK
  <2>2. QED BY <1>u, <1>act, <1>list, <2>1
<1>same. /\ pc[t] = "dec_status" /\ pc' = [pc EXCEPT ![t] = "dec_refs"]
         /\ batch' = [batch EXCEPT ![t] = @ \cup {u}]
        /\ UNCHANGED <<count, gil, status, refs, ctid, obj, world, tgt, ret, last>>
  BY <1>act
<1>hid. count > 0 => u \notin handles
  BY <1>low DEF HandleInv
<1>move. /\ Moves(t) /\ pc[t] = "dec_status" /\ pc'[t] = "dec_refs"
         /\ tgt'[t] = tgt[t]
         /\ UNCHANGED <<count, gil, status, refs, ctid, obj, exiting, atexit, exited, handles, ret>>
  BY <1>u, <1>same, <1>list DEF Moves, TypeOK, PcInv
<1>type. pc' \in [Actor -> Pc] /\ tgt' \in [Actor -> Thread \cup {Nobody}]
  BY <1>u, <1>same, <1>list DEF TypeOK, Pc
<1>lease. \A w \in Thread : Lease(w)' = Lease(w)
  BY <1>u, <1>same, <1>list DEF TypeOK, Lease
<1>pop. Population' = Population
  BY <1>move, <1>alone, <1>hid, <1>u, <1>same, <1>list, PopulationFrame
<1>1. TypeOK'
  <2>1. batch' \in [Thread -> SUBSET Thread]
    BY <1>same DEF TypeOK
  <2>2. last' = last /\ list' \in Seq(Thread) /\ cur' \in [Thread -> Nat]
    BY <1>same, <1>list, <1>cur
  <2>3. QED BY <1>move, <1>type, <2>1, <2>2 DEF TypeOK
<1>2. GilInv' BY <1>move, <1>alone, <1>hid, <1>u, <1>same, <1>list, GilFrame
<1>3. ListInv' BY <1>u, <1>same, <1>list, <1>cur DEF TypeOK, GilInv, ListInv
<1>4. TargetInv'
  BY <1>move, <1>alone, <1>hid, <1>u, <1>same, <1>list, TargetFrame
<1>5. PcInv' BY SMTT(40), <1>u, <1>same, <1>list, <1>move DEF TypeOK, PcInv
<1>6. LiveInv' BY SMTT(40), <1>u, <1>same, <1>list, <1>move DEF TypeOK, LiveInv, Running
<1>7. StatusInv'
  BY <1>move, <1>alone, <1>hid, <1>u, <1>same, <1>list, StatusFrame
<1>8. RefsInv' BY <1>u, <1>same, <1>list, <1>lease, <1>move DEF RefsInv
<1>9. CountInv' /\ LoneInv'
  BY <1>move, <1>alone, <1>hid, <1>u, <1>same, <1>list, <1>pop, CountFrame
<1>10. CreateInv'
  BY <1>move, <1>alone, <1>hid, <1>u, <1>same, <1>list, CreateFrame
<1>11. EmbryoInv'
  BY <1>move, <1>alone, <1>hid, <1>u, <1>same, <1>list, EmbryoFrame
<1>12. HandleInv'
  BY <1>move, <1>alone, <1>hid, <1>u, <1>same, <1>list, HandleFrame
<1>13. JoinInv' BY <1>move, <1>alone, <1>hid, <1>u, <1>same, <1>list, JoinFrame
<1>14. DecimateInv'
  <2>1. \A x \in Thread : pc'[x] \notin {"dec_ctid", "dec_status"}
    BY <1>u, <1>move DEF GilInv, Moves
  <2>2. /\ \A x \in Thread : batch[x] \subseteq Thread
        /\ \A x \in Thread \ {t} : batch'[x] = batch[x]
        /\ batch'[t] = batch[t] \cup {u}
    <3>1. /\ batch \in [Thread -> SUBSET Thread]
          /\ batch' = [batch EXCEPT ![t] = @ \cup {u}]
      BY <1>same DEF TypeOK
    <3>2. QED BY <3>1
  <2>3. \A x \in Thread : u \notin batch[x]
    BY <1>u DEF DecimateInv
  <2>4. \A x \in Thread : \A w \in batch'[x] : w \notin Listed' /\ pc[w] = "gone" /\ \A b \in Actor : tgt[b] # w
    BY <1>u, <1>list, <1>alone, <2>2 DEF DecimateInv
  <2>5. \A x \in Thread : \A w \in batch'[x] : pc'[w] = "gone" /\ \A b \in Actor : tgt'[b] # w
    BY <1>move, <2>2, <2>4 DEF Moves
  <2>6. \A x, v \in Thread : \A w \in batch'[x] : w \in batch'[v] => v = x
    BY <2>2, <2>3 DEF DecimateInv
  <2>7. QED BY <2>1, <2>4, <2>5, <2>6 DEF DecimateInv
<1> QED BY <1>1, <1>2, <1>3, <1>4, <1>5, <1>6, <1>7, <1>8, <1>9, <1>10, <1>11,
     <1>12, <1>13, <1>14

(* The garbage collector skips an object below its threshold.              *)
LEMMA DecimateStatusSkipsKeepsIInv ==
    ASSUME Discipline, IInv, NEW t \in Thread, DecimateStatus(t),
           status[list[cur[t]]] < Threshold(t)
    PROVE  IInv'
<1>cur. PICK n \in Nat : n \in 0..Len(list) /\ cur' = [cur EXCEPT ![t] = n]
  <2>1. cur[t] \in 1..Len(list) /\ Len(list) \in Nat
    BY DEF DecimateStatus, TypeOK, ListInv
  <2>2. QED BY <2>1 DEF DecimateStatus
<1>act. /\ pc[t] = "dec_status" /\ pc' = [pc EXCEPT ![t] = "dec_refs"]
        /\ UNCHANGED <<mem, batch, world, tgt, ret, last>>
  BY DEF DecimateStatus
<1>1. TypeOK' BY <1>act, <1>cur DEF TypeOK, Pc
<1>2. Local(t)
  BY <1>act, <1>cur DEF Local, TypeOK, PcInv
<1>3. LocalInv' /\ Population' = Population BY <1>1, <1>2, LocalStep
<1>4. GilInv' /\ ListInv' /\ PcInv'
  BY ZenonT(40), <1>act, <1>cur DEF TypeOK, GilInv, ListInv, PcInv
<1>5. LoneInv' BY <1>act, <1>cur, <1>3 DEF TypeOK, LoneInv, PcInv
<1>6. DecimateInv' BY SMTT(40), <1>act, <1>cur DEF TypeOK, DecimateInv, GilInv
<1> QED BY <1>1, <1>2, <1>3, <1>4, <1>5, <1>6 DEF LocalInv

(* The garbage collector releases the gil with what it collected in hand.  *)
LEMMA DecimateUnlockKeepsIInv ==
    ASSUME Discipline, IInv, NEW t \in Thread, DecimateUnlock(t)
    PROVE  IInv'
<1> USE DEF DecimateUnlock
<1>1. TypeOK' BY DEF TypeOK, Pc
<1>2. Local(t)
  BY DEF Local, TypeOK, PcInv
<1>3. LocalInv' /\ Population' = Population BY <1>1, <1>2, LocalStep
<1>4. GilInv' /\ ListInv' /\ PcInv' BY DEF TypeOK, GilInv, ListInv, PcInv
<1>5. LoneInv' BY <1>3 DEF TypeOK, LoneInv, PcInv
<1>6. DecimateInv' BY DEF TypeOK, DecimateInv, GilInv
<1> QED BY <1>1, <1>2, <1>3, <1>4, <1>5, <1>6 DEF LocalInv

(* An object is freed by the one walk that took it off the list.           *)
LEMMA DecimateFreeKeepsIInv ==
    ASSUME Discipline, IInv, NEW t \in Thread, DecimateFree(t)
    PROVE  IInv'
<1> USE DEF DecimateFree
<1>u. PICK u \in batch[t] : /\ obj' = [obj EXCEPT ![u] = IF u = Main THEN @ ELSE "freed"]
                             /\ batch' = [batch EXCEPT ![t] = @ \ {u}]
  OBVIOUS
<1>move. /\ Moves(t) /\ pc[t] = "dec_free" /\ pc'[t] = "dec_free"
         /\ tgt'[t] = tgt[t]
         /\ UNCHANGED <<list, count, gil, status, refs, ctid, exiting, atexit, exited, handles, cur, ret>>
  BY DEF Moves, TypeOK, PcInv
<1>type. pc' \in [Actor -> Pc] /\ tgt' \in [Actor -> Thread \cup {Nobody}]
  BY DEF TypeOK, Pc
<1>lease. \A w \in Thread : Lease(w)' = Lease(w)
  BY DEF TypeOK, Lease
<1>pop. Population' = Population BY <1>move, PopulationFrame
<1>1. TypeOK' BY <1>move, <1>type DEF TypeOK
<1>2. GilInv' BY <1>move, GilFrame
<1>3. ListInv' BY <1>move, ListFrame DEF ListInv
<1>4. TargetInv' BY <1>move, TargetFrame
<1>5. PcInv' BY <1>move DEF TypeOK, PcInv
<1>6. LiveInv' BY <1>u, <1>move DEF TypeOK, LiveInv, Running, DecimateInv
<1>7. StatusInv' BY <1>move, StatusFrame
<1>8. RefsInv' BY <1>lease, <1>move DEF RefsInv
<1>9. CountInv' /\ LoneInv' BY <1>move, <1>pop, CountFrame
<1>10. CreateInv' BY <1>move, CreateFrame
<1>11. EmbryoInv' BY ZenonT(40), <1>move, EmbryoFrame DEF TypeOK
<1>12. HandleInv' BY <1>move, HandleFrame
<1>13. JoinInv' BY <1>move, JoinFrame
<1>14. DecimateInv' BY <1>move DEF TypeOK, DecimateInv, GilInv
<1> QED BY <1>1, <1>2, <1>3, <1>4, <1>5, <1>6, <1>7, <1>8, <1>9, <1>10, <1>11,
     <1>12, <1>13, <1>14

(* The garbage collector returns to its caller.                            *)
LEMMA DecimateReturnKeepsIInv ==
    ASSUME Discipline, IInv, NEW t \in Thread, DecimateReturn(t)
    PROVE  IInv'
<1> USE DEF DecimateReturn
<1>ret. ret[t] \in {"run", "cr_alloc", "ex_orphan"} /\ pc' = [pc EXCEPT ![t] = ret[t]]
  BY DEF TypeOK
<1>1. TypeOK' BY <1>ret DEF TypeOK, Pc
<1>2. Local(t)
  BY <1>ret DEF Local, TypeOK, PcInv
<1>3. LocalInv' /\ Population' = Population BY <1>1, <1>2, LocalStep
<1>4. GilInv' /\ ListInv' /\ PcInv' BY <1>ret DEF TypeOK, GilInv, ListInv, PcInv
<1>5. LoneInv' BY <1>ret, <1>3 DEF TypeOK, LoneInv, PcInv
<1>6. DecimateInv' BY <1>ret DEF TypeOK, DecimateInv, GilInv
<1> QED BY <1>1, <1>2, <1>3, <1>4, <1>5, <1>6 DEF LocalInv

(* pthread_decimate_np() enters the garbage collector.                     *)
LEMMA Pthread_decimate_npKeepsIInv ==
    ASSUME Discipline, IInv, NEW t \in Thread, pthread_decimate_np(t)
    PROVE  IInv'
<1> USE DEF pthread_decimate_np
<1>1. TypeOK' BY DEF TypeOK, Pc
<1>2. Local(t)
  BY DEF Local, TypeOK, PcInv
<1>3. LocalInv' /\ Population' = Population BY <1>1, <1>2, LocalStep
<1>4. GilInv' /\ ListInv' /\ PcInv' BY ZenonT(40) DEF TypeOK, GilInv, ListInv, PcInv
<1>5. LoneInv' BY <1>3 DEF TypeOK, LoneInv, PcInv
<1>6. DecimateInv' BY DEF TypeOK, DecimateInv, GilInv
<1> QED BY <1>1, <1>2, <1>3, <1>4, <1>5, <1>6 DEF LocalInv

(* pthread_create() first collects garbage.                                *)
LEMMA Pthread_createKeepsIInv ==
    ASSUME Discipline, IInv, NEW t \in Thread, pthread_create(t)
    PROVE  IInv'
<1> USE DEF pthread_create
<1>1. TypeOK' BY DEF TypeOK, Pc
<1>2. Local(t)
  BY DEF Local, TypeOK, PcInv
<1>3. LocalInv' /\ Population' = Population BY <1>1, <1>2, LocalStep
<1>4. GilInv' /\ ListInv' /\ PcInv' BY ZenonT(40) DEF TypeOK, GilInv, ListInv, PcInv
<1>5. LoneInv' BY <1>3 DEF TypeOK, LoneInv, PcInv
<1>6. DecimateInv' BY DEF TypeOK, DecimateInv, GilInv
<1> QED BY <1>1, <1>2, <1>3, <1>4, <1>5, <1>6 DEF LocalInv

(* A new object is leased to its creator and not yet linked.               *)
LEMMA CreateAllocKeepsIInv ==
    ASSUME Discipline, IInv, NEW t \in Thread, CreateAlloc(t)
    PROVE  IInv'
<1>act. PICK u \in Thread, s \in {kJoinable, kDetached} :
          /\ pc[t] = "cr_alloc" /\ obj[u] = "none"
          /\ obj' = [obj EXCEPT ![u] = "live"]
          /\ status' = [status EXCEPT ![u] = s]
          /\ refs' = [refs EXCEPT ![u] = 1]
          /\ ctid' = [ctid EXCEPT ![u] = TRUE]
          /\ tgt' = [tgt EXCEPT ![t] = u]
          /\ pc' = [pc EXCEPT ![t] = "cr_link", ![u] = "embryo"]
          /\ UNCHANGED <<list, count, gil, world, cur, batch, ret, last>>
  BY DEF CreateAlloc, CreatorRefs
<1>u. /\ u # t /\ u # Main /\ u \notin Elements(list)
      /\ pc[u] = "unborn" /\ t \notin exiting
      /\ ~exited /\ u \notin exiting /\ u \notin handles
      /\ \A b \in Actor : tgt[b] # u
      /\ \A w \in Thread : u \notin batch[w]
  BY <1>act DEF LiveInv, Running, PcInv, HandleInv
<1>pc. /\ pc' \in [Actor -> Pc] /\ pc'[u] = "embryo" /\ pc'[t] = "cr_link"
       /\ \A a \in Actor \ {t, u} : pc'[a] = pc[a]
  BY <1>act, <1>u DEF TypeOK, Pc
<1>obj. obj' \in [Thread -> {"none", "live", "freed"}] /\ obj'[u] = "live" /\ \A w \in Thread \ {u} : obj'[w] = obj[w]
  BY <1>act DEF TypeOK
<1>status. status' \in [Thread -> Status] /\ status'[u] = s /\ \A w \in Thread \ {u} : status'[w] = status[w]
  BY <1>act DEF TypeOK, Status, kJoinable, kDetached, kZombie
<1>refs. refs' \in [Thread -> Nat] /\ refs'[u] = 1 /\ \A w \in Thread \ {u} : refs'[w] = refs[w]
  BY <1>act DEF TypeOK
<1>tgt. tgt' \in [Actor -> Thread \cup {Nobody}] /\ tgt'[t] = u /\ \A a \in Actor \ {t} : tgt'[a] = tgt[a]
  BY <1>act DEF TypeOK
<1>dec. \A x \in Thread : pc[x] \in {"dec_ctid", "dec_status"} => list[cur[x]] \in Thread \ {u}
  BY SMTT(40), <1>u DEF TypeOK, ListInv, Elements
<1>aim. /\ \A a \in Actor : pc[a] \in CreatingPc \cup ClaimPc => tgt[a] \in Thread
       /\ \A a \in Actor : pc[a] \in {"cr_unref", "sig_ref", "unref"} => tgt[a] \in Thread
  BY DEF TargetInv
<1>ctid. ctid' \in [Thread -> BOOLEAN] /\ ctid'[u] /\ \A w \in Thread \ {u} : ctid'[w] = ctid[w]
  BY <1>act DEF TypeOK
<1>old. pc[t] = "cr_alloc" /\ UNCHANGED <<list, count, gil, world, cur, batch, ret, last>>
  BY <1>act
<1>lease. Lease(u)' = {t} /\ \A w \in Thread \ {u} : Lease(w)' = Lease(w)
  BY <1>act, <1>u DEF TypeOK, Lease, TargetInv
<1>one. Cardinality({t}) = 1
  BY FS_Singleton
<1>pop. Population' = Population
  BY ZenonT(40), <1>act, <1>u DEF TypeOK, Population, Counted, Running, PcInv
<1>1. TypeOK' BY <1>act, <1>pc, <1>obj, <1>status, <1>refs, <1>tgt DEF TypeOK
<1>2. GilInv' BY <1>act, <1>u DEF TypeOK, GilInv
<1>3. ListInv' BY <1>act, <1>u DEF TypeOK, GilInv, ListInv
<1>4. TargetInv' BY <1>act, <1>u DEF TypeOK, TargetInv
<1>5. PcInv' BY ZenonT(40), <1>act, <1>u DEF TypeOK, PcInv
<1>6. LiveInv'
  <2> USE DEF LiveInv
  <2>1. \A w \in Thread : Running(w)' => obj'[w] = "live" /\ w \in Listed'
    BY <1>act, <1>u, <1>pc, <1>obj DEF Running
  <2>2. \A w \in Listed' : obj'[w] = "live"
    BY SMTT(40), <1>act, <1>u, <1>obj DEF Elements, TypeOK
  <2>3. \A a \in Actor : tgt'[a] \in Thread => obj'[tgt'[a]] = "live"
    BY <1>u, <1>obj, <1>tgt
  <2>4. \A w \in Thread : \A x \in batch'[w] : obj'[x] = "live"
    BY <1>act, <1>u, <1>obj DEF TypeOK
  <2>5. QED BY <1>act, <1>u, <1>pc, <1>obj, <2>1, <2>2, <2>3, <2>4
<1>7. StatusInv'
  BY ZenonT(40), <1>act, <1>u DEF TypeOK, StatusInv, kJoinable, kDetached, kTerminated,
     kZombie
<1>8. RefsInv'
  <2>1. \A w \in Thread \ {u} : obj'[w] = "live" => refs'[w] = Cardinality(Lease(w)')
    BY <1>refs, <1>obj, <1>lease, <1>u DEF RefsInv
  <2>2. refs'[u] = Cardinality(Lease(u)')
    BY <1>refs, <1>lease, <1>one
  <2>3. QED BY <2>1, <2>2 DEF RefsInv
<1>9. CountInv' BY <1>act, <1>u, <1>pop DEF CountInv
<1>10. LoneInv' BY ZenonT(40), <1>act, <1>u, <1>pop DEF TypeOK, LoneInv, PcInv
<1>11. CreateInv'
  <2>1. \A a \in Actor \ {t} : pc'[a] \in CreatingPc => pc[a] = pc'[a] /\ tgt'[a] = tgt[a] /\ tgt[a] \in Thread \ {u}
    BY <1>u, <1>pc, <1>tgt, <1>aim
  <2>2. \A a \in Actor : pc'[a] \in CreatingPc => a \in Thread /\ pc'[tgt'[a]] = "embryo"
    BY <1>old, <1>pc, <1>tgt, <2>1 DEF CreateInv
  <2>3. \A a \in Actor : pc'[a] \in {"cr_unref", "sig_ref", "unref"} => tgt'[a] = tgt[a] /\ pc'[tgt[a]] \notin {"unborn", "embryo"}
    BY <1>old, <1>u, <1>pc, <1>tgt, <1>aim DEF CreateInv
  <2>4. \A a \in Thread : pc'[a] \in DetachPc => tgt'[a] = a
    BY <1>u, <1>pc, <1>tgt DEF CreateInv
  <2>5. \A b \in Actor \ {t} : tgt'[b] = tgt[b] /\ tgt[b] # u
    BY <1>u, <1>tgt
  <2>6. \A a \in Thread : pc'[a] \in {"cr_count", "cr_clone", "cr_unlink"} => tgt'[a] \in Listed
    BY <1>pc, <2>1 DEF CreateInv
  <2>7. \A a \in Thread : pc'[a] \in {"cr_link", "cr_uncount", "cr_free"} => tgt'[a] \notin Listed /\ \A b \in Actor : tgt'[b] = tgt'[a] => b = a
    <3>1. \A b \in Actor : tgt'[b] = u => b = t
      BY <2>5
    <3>2. ASSUME NEW a \in Thread \ {t}, pc'[a] \in {"cr_link", "cr_uncount", "cr_free"}
          PROVE  tgt'[a] \notin Listed /\ \A b \in Actor : tgt'[b] = tgt'[a] => b = a
      BY <1>tgt, <2>1, <2>5, <3>2 DEF CreateInv
    <3>3. QED BY <1>u, <1>tgt, <3>1, <3>2
  <2>8. \A a, b \in Actor : pc'[a] \in CreatingPc /\ pc'[b] \in CreatingPc /\ tgt'[a] = tgt'[b] => a = b
    BY <1>tgt, <2>1, <2>5 DEF CreateInv
  <2>9. QED BY <1>old, <2>2, <2>3, <2>4, <2>6, <2>7, <2>8 DEF CreateInv
<1>12. EmbryoInv' BY ZenonT(40), <1>act, <1>u DEF TypeOK, EmbryoInv
<1>13. HandleInv'
  <2>1. (count > 0 => \A w \in handles : w \in Listed /\ status[w] \in {kJoinable, kTerminated})'
    BY <1>act, <1>u, <1>status DEF HandleInv, TypeOK
  <2>2. (\A w \in handles : pc[w] \notin {"unborn", "embryo", "det_status"} /\ obj[w] # "none")'
    BY <1>act, <1>u, <1>pc, <1>obj DEF HandleInv, TypeOK
  <2>3. \A a \in Thread : pc'[a] \in ClaimPc =>
           /\ a \notin {t, u} /\ pc[a] \in ClaimPc
           /\ tgt'[a] = tgt[a] /\ tgt[a] \in Thread \ {u}
           /\ pc'[a] = pc[a]
    BY <1>u, <1>pc, <1>tgt, <1>aim
  <2>4. \A a \in Thread : pc'[a] \in ClaimPc =>
           /\ tgt[a] # a /\ tgt[a] \notin handles
           /\ pc'[tgt[a]] \notin {"unborn", "embryo", "det_status"}
           /\ \A b \in Thread : pc'[b] \in ClaimPc /\ tgt[b] = tgt[a] => b = a
    BY <1>pc, <2>3 DEF HandleInv
  <2>5. \A a \in Thread : pc'[a] \in ClaimPc \ {"join_free"} =>
           tgt[a] \in Listed /\ status'[tgt[a]] \in {kJoinable, kTerminated}
    BY <1>status, <2>3 DEF HandleInv
  <2>6. Listed' = Listed /\ handles' = handles
    BY <1>act
  <2>7. QED BY <2>1, <2>2, <2>3, <2>4, <2>5, <2>6 DEF HandleInv
<1>14. JoinInv' BY SMTT(40), <1>act, <1>u DEF TypeOK, JoinInv, TargetInv
<1>15. DecimateInv'
  <2>1. \A x \in Thread : pc'[x] \in {"dec_ctid", "dec_status"} => pc[x] = pc'[x] /\ list'[cur'[x]] = list[cur[x]]
    BY <1>act, <1>u, <1>pc
  <2>2. \A x \in Thread : pc'[x] \in {"dec_ctid", "dec_status"} =>
           /\ pc'[list[cur[x]]] # "embryo"
           /\ \A b \in Actor : tgt'[b] = list[cur[x]] =>
                 pc'[b] # "cr_unref" /\ (b \in Sender => pc'[b] # "unref")
    BY <1>pc, <1>tgt, <1>dec, <2>1 DEF DecimateInv
  <2>3. \A x \in Thread : pc'[x] = "dec_status" => ~ctid'[list[cur[x]]]
    BY <1>act, <1>dec, <2>1 DEF DecimateInv, TypeOK
  <2>4. \A x \in Thread : \A w \in batch[x] : w \in Thread /\ w # u /\ pc[w] = "gone" /\ w # t
    BY <1>act, <1>u DEF DecimateInv, TypeOK
  <2>5. \A x \in Thread : \A w \in batch[x] : pc'[w] = "gone" /\ \A b \in Actor : tgt'[b] # w
    BY <1>pc, <1>tgt, <2>4 DEF DecimateInv
  <2>6. Listed' = Listed /\ batch' = batch
    BY <1>act
  <2>7. QED BY <2>1, <2>2, <2>3, <2>5, <2>6 DEF DecimateInv
<1> QED BY <1>1, <1>2, <1>3, <1>4, <1>5, <1>6, <1>7, <1>8, <1>9, <1>10, <1>11,
     <1>12, <1>13, <1>14, <1>15

(* A failed allocation changes nothing.                                    *)
LEMMA CreateNoMemoryKeepsIInv ==
    ASSUME Discipline, IInv, NEW t \in Thread, CreateNoMemory(t)
    PROVE  IInv'
<1> USE DEF CreateNoMemory
<1>alive. ~exited
  BY DEF PcInv
<1>plain. pc[t] \notin TargetPc
  OBVIOUS
<1>type. tgt \in [Actor -> Thread \cup {Nobody}]
  BY DEF TypeOK
<1>tgt. tgt[t] = Nobody
  BY <1>alive, <1>plain, <1>type DEF TargetInv
<1>nobody. tgt[t] = Nobody /\ tgt' = tgt
  BY <1>tgt, <1>type
<1>1. TypeOK' BY <1>nobody DEF TypeOK, Pc
<1>2. Local(t)
  BY <1>nobody DEF Local, TypeOK, PcInv
<1>3. LocalInv' /\ Population' = Population BY <1>1, <1>2, LocalStep
<1>4. GilInv' /\ ListInv' /\ PcInv'
  BY <1>nobody DEF TypeOK, GilInv, ListInv, PcInv
<1>5. LoneInv' BY <1>3 DEF TypeOK, LoneInv, PcInv
<1>6. DecimateInv' BY DEF TypeOK, DecimateInv, GilInv
<1> QED BY <1>1, <1>2, <1>3, <1>4, <1>5, <1>6 DEF LocalInv

(* The creator links an object nobody else knows.                          *)
LEMMA CreateLinkKeepsIInv ==
    ASSUME Discipline, IInv, NEW t \in Thread, CreateLink(t)
    PROVE  IInv'
<1> USE DEF CreateLink
<1>tgt. tgt[t] \in Thread
  BY DEF TargetInv
<1>list. /\ list' \in Seq(Thread) /\ Distinct(list')
         /\ Elements(list') = Elements(list) \cup {tgt[t]}
  BY <1>tgt, MakeFirst DEF TypeOK, ListInv, CreateInv
<1>move. /\ Moves(t) /\ pc[t] = "cr_link" /\ pc'[t] = "cr_count"
         /\ tgt'[t] = tgt[t]
         /\ t \notin exiting /\ ~exited
         /\ UNCHANGED <<count, status, refs, ctid, obj, exiting, atexit, exited, handles, cur, batch, ret>>
  BY <1>list, <1>tgt DEF Moves, TypeOK, PcInv
<1>type. pc' \in [Actor -> Pc] /\ tgt' \in [Actor -> Thread \cup {Nobody}]
  BY <1>list, <1>tgt DEF TypeOK, Pc
<1>lease. \A w \in Thread : Lease(w)' = Lease(w)
  BY <1>list, <1>tgt DEF TypeOK, Lease
<1>pop. Population' = Population BY <1>move, <1>list, <1>tgt, PopulationFrame
<1>1. TypeOK' BY <1>list, <1>tgt, <1>move, <1>type DEF TypeOK
<1>2. GilInv' BY <1>move, <1>list, <1>tgt, GilFrame
<1>3. ListInv' BY <1>move, <1>list, <1>tgt, ListFrame DEF ListInv
<1>4. TargetInv' BY <1>move, <1>list, <1>tgt, TargetFrame
<1>5. PcInv' BY <1>move, <1>list, <1>tgt, PcFrame
<1>6. LiveInv' BY <1>list, <1>tgt, <1>move DEF TypeOK, LiveInv, Running
<1>7. StatusInv' BY <1>move, <1>list, <1>tgt, StatusFrame
<1>8. RefsInv' BY <1>list, <1>tgt, <1>lease, <1>move DEF RefsInv
<1>9. CountInv' /\ LoneInv' BY <1>move, <1>list, <1>tgt, <1>pop, CountFrame
<1>10. CreateInv' BY <1>list, <1>tgt, <1>move DEF TypeOK, CreateInv, TargetInv
<1>11. EmbryoInv' BY <1>move, <1>list, <1>tgt, EmbryoFrame
<1>12. HandleInv' BY <1>move, <1>list, <1>tgt, HandleFrame
<1>13. JoinInv'
  BY <1>list, <1>tgt, <1>move DEF TypeOK, JoinInv, TargetInv, CreateInv
<1>14. DecimateInv' BY SMTT(40), <1>list, <1>tgt, <1>move DEF TypeOK, DecimateInv, GilInv
<1> QED BY <1>1, <1>2, <1>3, <1>4, <1>5, <1>6, <1>7, <1>8, <1>9, <1>10, <1>11,
     <1>12, <1>13, <1>14

(* The creator counts the new thread. It is itself counted, so the last    *)
(* thread is not waiting yet, and no one believes itself alone.            *)
LEMMA CreateCountKeepsIInv ==
    ASSUME Discipline, IInv, NEW t \in Thread, CreateCount(t)
    PROVE  IInv'
<1> USE DEF CreateCount
<1>tgt. tgt[t] \in Thread /\ t \in Population /\ tgt[t] \notin Population /\ ~exited
  BY DEF TargetInv, CreateInv, PcInv, Population, Counted, Running
<1>pos. count > 0
  BY <1>tgt, Inhabited
<1>move. /\ Moves(t) /\ pc[t] = "cr_count" /\ pc'[t] = "cr_clone"
         /\ tgt'[t] = tgt[t]
         /\ t \notin exiting /\ ~exited
         /\ UNCHANGED <<list, status, refs, ctid, obj, exiting, atexit, exited, handles, cur, batch, ret>>
  BY DEF Moves, TypeOK, PcInv
<1>type. pc' \in [Actor -> Pc] /\ tgt' \in [Actor -> Thread \cup {Nobody}]
  BY DEF TypeOK, Pc
<1>lease. \A w \in Thread : Lease(w)' = Lease(w)
  BY DEF TypeOK, Lease
<1>pop. Population' = Population \cup {tgt[t]}
  BY <1>tgt DEF TypeOK, Population, Counted, Running
<1>1. TypeOK' BY <1>move, <1>type DEF TypeOK
<1>2. GilInv' BY <1>move, GilFrame
<1>3. ListInv' BY <1>move, ListFrame DEF ListInv
<1>4. TargetInv' BY <1>move, TargetFrame
<1>5. PcInv' BY <1>move, PcFrame
<1>6. LiveInv' BY <1>move, LiveFrame
<1>7. StatusInv' BY <1>move, StatusFrame
<1>8. RefsInv' BY <1>lease, <1>move DEF RefsInv
<1>9. CountInv' BY <1>tgt, <1>pop, CountRises
<1>10. LoneInv' BY <1>tgt, <1>pop, <1>pos, <1>move DEF TypeOK, LoneInv, PcInv
<1>11. CreateInv' BY <1>move, CreateFrame
<1>12. EmbryoInv' BY <1>move, EmbryoFrame
<1>13. HandleInv' BY <1>pos, <1>move DEF TypeOK, HandleInv
<1>14. JoinInv' BY <1>move, JoinFrame
<1>15. DecimateInv' BY <1>move, DecimateFrame
<1> QED BY <1>1, <1>2, <1>3, <1>4, <1>5, <1>6, <1>7, <1>8, <1>9, <1>10, <1>11,
     <1>12, <1>13, <1>14, <1>15

(* The new thread becomes runnable while its creator keeps the lease; its  *)
(* handle is fresh.                                                        *)
LEMMA CreateCloneKeepsIInv ==
    ASSUME Discipline, IInv, NEW t \in Thread, CreateClone(t)
    PROVE  IInv'
<1>act. PICK u \in Thread :
          /\ u = tgt[t] /\ pc[t] = "cr_clone"
          /\ pc' = [pc EXCEPT ![t] = "cr_unref", ![u] = "ready"]
          /\ \/ status[u] = kJoinable /\ handles' = handles \cup {u}
             \/ handles' = handles
          /\ UNCHANGED <<mem, exiting, atexit, exited, locals>>
  BY DEF CreateClone, TargetInv
<1>u. /\ u # t /\ u # Main /\ u \in Elements(list)
      /\ pc[u] = "embryo" /\ t \notin exiting
      /\ ~exited /\ u \notin exiting /\ u \notin handles
      /\ obj[u] = "live" /\ status[u] \in {kJoinable, kDetached}
  BY <1>act DEF CreateInv, LiveInv, PcInv, HandleInv, StatusInv
<1>pc. /\ pc' \in [Actor -> Pc] /\ pc'[u] = "ready" /\ pc'[t] = "cr_unref"
       /\ \A a \in Actor \ {t, u} : pc'[a] = pc[a]
  BY <1>act, <1>u DEF TypeOK, Pc
<1>old. /\ u = tgt[t] /\ pc[t] = "cr_clone"
        /\ \/ status[u] = kJoinable /\ handles' = handles \cup {u}
           \/ handles' = handles
        /\ UNCHANGED <<mem, exiting, atexit, exited, locals>>
  BY <1>act
<1>v. \A b \in Actor : tgt[b] = u => b = t \/ pc[b] \in CancelPc
  <2> SUFFICES ASSUME NEW b \in Actor, tgt[b] = u, b # t PROVE pc[b] \in CancelPc
    OBVIOUS
  <2>1. pc[b] \in TargetPc
    BY <1>u DEF TargetInv
  <2>2. pc[b] \notin CreatingPc
    BY <1>old DEF CreateInv
  <2>3. pc[b] \notin ClaimPc
    BY <1>u DEF HandleInv, PcInv
  <2>4. pc[b] \notin DetachPc \cup {"cr_unref", "sig_ref"}
    BY <1>u DEF CreateInv, PcInv
  <2>5. QED BY <2>1, <2>2, <2>3, <2>4
<1>dec. \A x \in Thread : pc[x] \in {"dec_ctid", "dec_status"} => list[cur[x]] \in Thread \ {u}
  BY SMTT(40), <1>u DEF TypeOK, ListInv, DecimateInv
<1>aim. /\ \A a \in Actor : pc[a] \in CreatingPc \cup ClaimPc => tgt[a] \in Thread
       /\ \A a \in Actor : pc[a] \in {"cr_unref", "sig_ref", "unref"} => tgt[a] \in Thread
  BY DEF TargetInv
<1>lease. \A w \in Thread : Lease(w)' = Lease(w)
  BY <1>act, <1>u DEF TypeOK, Lease
<1>pop. Population' = Population
  <2>1. u \in Population
    BY <1>old, <1>u DEF Population, Counted
  <2>2. u \in Population'
    BY <1>old, <1>u, <1>pc DEF Population, Counted, Running
  <2>3. \A w \in Thread \ {u} : Running(w)' <=> Running(w)
    BY <1>old, <1>pc DEF Running
  <2>4. \A w \in Thread \ {u} : Counted(w)' <=> Counted(w)
    BY <1>old, <1>u, <1>pc, <2>3 DEF Counted
  <2>5. QED BY <2>1, <2>2, <2>4 DEF Population
<1>1. TypeOK' BY ZenonT(40), <1>act, <1>u DEF TypeOK, Pc
<1>2. GilInv' BY <1>act, <1>u DEF TypeOK, GilInv
<1>3. ListInv' BY <1>act, <1>u DEF TypeOK, GilInv, ListInv
<1>4. TargetInv' BY <1>act, <1>u DEF TypeOK, TargetInv
<1>5. PcInv' BY ZenonT(40), <1>act, <1>u DEF TypeOK, PcInv
<1>6. LiveInv' BY ZenonT(40), <1>act, <1>u DEF TypeOK, LiveInv, Running
<1>7. StatusInv'
  BY <1>act, <1>u DEF TypeOK, StatusInv, kJoinable, kDetached, kTerminated,
     kZombie
<1>8. RefsInv' BY <1>act, <1>u, <1>lease DEF RefsInv
<1>9. CountInv' BY <1>act, <1>u, <1>pop DEF CountInv
<1>10. LoneInv' BY ZenonT(40), <1>act, <1>u, <1>pop DEF TypeOK, LoneInv, PcInv
<1>11. CreateInv'
  <2>1. \A a \in Actor : pc'[a] \in CreatingPc => pc[a] = pc'[a] /\ a \in Thread /\ tgt[a] \in Thread \ {t, u} /\ pc'[tgt[a]] = "embryo"
    BY <1>old, <1>pc, <1>u, <1>v, <1>aim DEF CreateInv
  <2>2. \A a \in Actor : pc'[a] \in {"cr_unref", "sig_ref", "unref"} => pc'[tgt[a]] \notin {"unborn", "embryo"}
    BY <1>old, <1>pc, <1>u, <1>aim DEF CreateInv
  <2>3. \A a \in Thread : pc'[a] \in DetachPc => tgt[a] = a
    BY <1>old, <1>pc, <1>u DEF CreateInv
  <2>4. QED BY <1>old, <2>1, <2>2, <2>3 DEF CreateInv
<1>12. EmbryoInv'
  <2>1. \A w \in Thread : pc'[w] = "embryo" => w # u /\ pc[w] = "embryo"
    BY <1>old, <1>pc, <1>u
  <2>2. \A a \in Thread : pc[a] \in CreatingPc /\ tgt[a] # u => pc'[a] \in CreatingPc
    BY <1>old, <1>pc, <1>u
  <2>3. QED BY <1>old, <2>1, <2>2 DEF EmbryoInv
<1>13. HandleInv'
  <2>1. (count > 0 => \A w \in handles : w \in Listed /\ status[w] \in {kJoinable, kTerminated})'
    BY <1>old, <1>u DEF HandleInv, TypeOK
  <2>2. (\A w \in handles : pc[w] \notin {"unborn", "embryo", "det_status"} /\ obj[w] # "none")'
    <3>1. \A w \in handles' : w \in Thread /\ (w = u \/ w \in handles)
      BY <1>old DEF TypeOK
    <3>2. \A w \in handles' : pc'[w] \notin {"unborn", "embryo", "det_status"}
      BY <1>u, <1>pc, <3>1 DEF HandleInv
    <3>3. \A w \in handles' : obj'[w] # "none"
      BY <1>old, <1>u, <3>1 DEF HandleInv
    <3>4. QED BY <3>2, <3>3
  <2>3. \A a \in Thread : pc'[a] \in ClaimPc => pc[a] = pc'[a] /\ tgt[a] \in Thread \ {u}
    BY <1>u, <1>pc, <1>aim, <1>v
  <2>4. QED BY <1>old, <1>pc, <2>1, <2>2, <2>3 DEF HandleInv
<1>14. JoinInv'
  <2>1. \A a \in Thread : pc'[a] \in JoinPc => pc[a] = pc'[a] /\ tgt[a] \in Thread \ {u}
    BY <1>u, <1>pc, <1>aim, <1>v
  <2>2. \A a \in Thread : pc'[a] \in JoinPc \ {"join_wait"} => pc'[tgt[a]] = "gone"
    BY <1>old, <1>pc, <2>1 DEF JoinInv
  <2>3. \A a \in Thread : pc'[a] \in {"join_remove", "join_free"} =>
          \A b \in Thread : pc'[b] = "cr_unref" => tgt[b] # tgt[a]
    BY <1>old, <1>pc, <2>1 DEF JoinInv
  <2>4. QED BY <1>old, <2>1, <2>2, <2>3 DEF JoinInv
<1>15. DecimateInv'
  <2>1. \A x \in Thread : pc'[x] \in {"dec_ctid", "dec_status"} => pc[x] = pc'[x]
    BY <1>u, <1>pc
  <2>2. \A x \in Thread : pc'[x] \in {"dec_ctid", "dec_status"} =>
           /\ pc'[list[cur[x]]] # "embryo"
           /\ \A b \in Actor : tgt[b] = list[cur[x]] =>
                 pc'[b] # "cr_unref" /\ (b \in Sender => pc'[b] # "unref")
    BY <1>old, <1>pc, <1>dec, <2>1 DEF DecimateInv
  <2>3. \A x \in Thread : \A w \in batch[x] : pc'[w] = "gone"
    BY <1>old, <1>u, <1>pc DEF DecimateInv, TypeOK
  <2>4. QED BY <1>old, <2>1, <2>2, <2>3 DEF DecimateInv
<1> QED BY <1>1, <1>2, <1>3, <1>4, <1>5, <1>6, <1>7, <1>8, <1>9, <1>10, <1>11,
     <1>12, <1>13, <1>14, <1>15

(* A failed clone() is undone by the creator.                              *)
LEMMA CreateCloneFailsKeepsIInv ==
    ASSUME Discipline, IInv, NEW t \in Thread, CreateCloneFails(t)
    PROVE  IInv'
<1> USE DEF CreateCloneFails
<1>move. /\ Moves(t) /\ pc[t] = "cr_clone" /\ pc'[t] = "cr_unlink"
         /\ tgt'[t] = tgt[t]
         /\ t \notin exiting /\ ~exited
         /\ UNCHANGED <<list, count, gil, status, refs, ctid, obj, exiting, atexit, exited, handles, cur, batch, ret>>
  BY DEF Moves, TypeOK, PcInv
<1>type. pc' \in [Actor -> Pc] /\ tgt' \in [Actor -> Thread \cup {Nobody}]
  BY DEF TypeOK, Pc
<1>lease. \A w \in Thread : Lease(w)' = Lease(w)
  BY DEF TypeOK, Lease
<1>pop. Population' = Population
  BY DEF TypeOK, Population, Counted, Running, PcInv
<1>1. TypeOK' BY <1>move, <1>type DEF TypeOK
<1>2. GilInv' BY <1>move, GilFrame
<1>3. ListInv' BY <1>move, ListFrame DEF ListInv
<1>4. TargetInv' BY <1>move, TargetFrame
<1>5. PcInv' BY <1>move, PcFrame
<1>6. LiveInv' BY <1>move, LiveFrame
<1>7. StatusInv' BY <1>move, StatusFrame
<1>8. RefsInv' BY <1>lease, <1>move DEF RefsInv
<1>9. CountInv' /\ LoneInv' BY <1>move, <1>pop, CountFrame
<1>10. CreateInv' BY <1>move, CreateFrame
<1>11. EmbryoInv' BY <1>move, EmbryoFrame
<1>12. HandleInv' BY <1>move, HandleFrame
<1>13. JoinInv' BY <1>move, JoinFrame
<1>14. DecimateInv' BY <1>move, DecimateFrame
<1> QED BY <1>1, <1>2, <1>3, <1>4, <1>5, <1>6, <1>7, <1>8, <1>9, <1>10, <1>11,
     <1>12, <1>13, <1>14

(* A thread that never ran was masked, so no sender chose it; once it is   *)
(* unlinked under the gil nobody but its creator has it.                   *)
LEMMA CreateUnlinkKeepsIInv ==
    ASSUME Discipline, IInv, NEW t \in Thread, CreateUnlink(t)
    PROVE  IInv'
<1> USE DEF CreateUnlink
<1>tgt. tgt[t] \in Thread
  BY DEF TargetInv
<1>list. /\ list' \in Seq(Thread) /\ Distinct(list')
         /\ Elements(list') = Elements(list) \ {tgt[t]}
  BY <1>tgt, Remove DEF TypeOK, ListInv
<1>alone. \A b \in Actor : tgt[b] = tgt[t] => b = t
  <2> SUFFICES ASSUME NEW b \in Actor, tgt[b] = tgt[t], b # t PROVE FALSE
    OBVIOUS
  <2>1. pc[tgt[t]] = "embryo"
    BY DEF CreateInv
  <2>2. pc[b] \in TargetPc
    BY <1>tgt DEF TargetInv, PcInv
  <2>3. pc[b] \notin CreatingPc
    BY DEF CreateInv
  <2>4. pc[b] \notin ClaimPc
    BY <2>1 DEF HandleInv, PcInv
  <2>5. pc[b] \notin DetachPc \cup {"cr_unref"}
    BY <2>1 DEF CreateInv, PcInv
  <2>6. pc[b] \notin CancelPc \cup {"sig_ref"}
    BY DEF GilInv
  <2>7. QED BY <2>2, <2>3, <2>4, <2>5, <2>6
<1>hid. pc[tgt[t]] = "embryo" /\ tgt[t] \notin handles
  BY DEF CreateInv, HandleInv
<1>move. /\ Moves(t) /\ pc[t] = "cr_unlink" /\ pc'[t] = "cr_uncount"
         /\ tgt'[t] = tgt[t]
         /\ t \notin exiting /\ ~exited
         /\ UNCHANGED <<count, status, refs, ctid, obj, exiting, atexit, exited, handles, cur, batch, ret>>
  BY <1>list, <1>tgt DEF Moves, TypeOK, PcInv
<1>type. pc' \in [Actor -> Pc] /\ tgt' \in [Actor -> Thread \cup {Nobody}]
  BY <1>list, <1>tgt DEF TypeOK, Pc
<1>lease. \A w \in Thread : Lease(w)' = Lease(w)
  BY <1>list, <1>tgt DEF TypeOK, Lease
<1>pop. Population' = Population
  BY <1>list, <1>tgt DEF TypeOK, Population, Counted, Running, PcInv
<1>1. TypeOK' BY <1>list, <1>tgt, <1>move, <1>type DEF TypeOK
<1>2. GilInv' BY <1>move, <1>alone, <1>hid, <1>list, <1>tgt, GilFrame
<1>3. ListInv'
  BY <1>move, <1>alone, <1>hid, <1>list, <1>tgt, ListFrame DEF ListInv
<1>4. TargetInv' BY <1>move, <1>alone, <1>hid, <1>list, <1>tgt, TargetFrame
<1>5. PcInv' BY <1>move, <1>alone, <1>hid, <1>list, <1>tgt, PcFrame
<1>6. LiveInv' BY <1>move, <1>alone, <1>hid, <1>list, <1>tgt, LiveFrame
<1>7. StatusInv' BY <1>move, <1>alone, <1>hid, <1>list, <1>tgt, StatusFrame
<1>8. RefsInv' BY <1>list, <1>tgt, <1>lease, <1>move DEF RefsInv
<1>9. CountInv' /\ LoneInv'
  BY <1>move, <1>alone, <1>hid, <1>list, <1>tgt, <1>pop, CountFrame
<1>10. CreateInv'
  BY <1>list, <1>tgt, <1>alone, <1>move DEF TypeOK, CreateInv, TargetInv
<1>11. EmbryoInv' BY <1>move, <1>alone, <1>hid, <1>list, <1>tgt, EmbryoFrame
<1>12. HandleInv' BY <1>move, <1>alone, <1>hid, <1>list, <1>tgt, HandleFrame
<1>13. JoinInv' BY <1>move, <1>alone, <1>hid, <1>list, <1>tgt, JoinFrame
<1>14. DecimateInv' BY <1>move, <1>alone, <1>hid, <1>list, <1>tgt, DecimateFrame
<1> QED BY <1>1, <1>2, <1>3, <1>4, <1>5, <1>6, <1>7, <1>8, <1>9, <1>10, <1>11,
     <1>12, <1>13, <1>14

(* The creator takes back its count.                                       *)
LEMMA CreateUncountKeepsIInv ==
    ASSUME Discipline, IInv, NEW t \in Thread, CreateUncount(t)
    PROVE  IInv'
<1> USE DEF CreateUncount
<1>tgt. tgt[t] \in Thread /\ tgt[t] \in Population /\ ~exited
  BY DEF TargetInv, PcInv, Population, Counted
<1>pos. count > 0
  BY <1>tgt, Inhabited
<1>move. /\ Moves(t) /\ pc[t] = "cr_uncount" /\ pc'[t] = "cr_free"
         /\ tgt'[t] = tgt[t]
         /\ t \notin exiting /\ ~exited
         /\ UNCHANGED <<list, status, refs, ctid, obj, exiting, atexit, exited, handles, cur, batch, ret>>
  BY DEF Moves, TypeOK, PcInv
<1>type. pc' \in [Actor -> Pc] /\ tgt' \in [Actor -> Thread \cup {Nobody}]
  BY DEF TypeOK, Pc
<1>lease. \A w \in Thread : Lease(w)' = Lease(w)
  BY DEF TypeOK, Lease
<1>pop. Population' = Population \ {tgt[t]}
  BY <1>tgt DEF TypeOK, Population, Counted, Running, CreateInv
<1>count. CountInv' /\ count' \in Nat
  BY <1>tgt, <1>pop, CountFalls
<1>1. TypeOK' BY <1>count, <1>move, <1>type DEF TypeOK
<1>2. GilInv' BY <1>move, GilFrame
<1>3. ListInv' BY <1>move, ListFrame DEF ListInv
<1>4. TargetInv' BY <1>move, TargetFrame
<1>5. PcInv' BY <1>move, PcFrame
<1>6. LiveInv' BY <1>move, LiveFrame
<1>7. StatusInv' BY <1>move, StatusFrame
<1>8. RefsInv' BY <1>lease, <1>move DEF RefsInv
<1>9. CountInv' BY <1>count
<1>10. LoneInv' BY <1>tgt, <1>pop, <1>pos, <1>move DEF TypeOK, LoneInv, PcInv
<1>11. CreateInv' BY <1>move, CreateFrame
<1>12. EmbryoInv' BY <1>move, EmbryoFrame
<1>13. HandleInv' BY <1>move DEF TypeOK, HandleInv
<1>14. JoinInv' BY <1>move, JoinFrame
<1>15. DecimateInv' BY <1>move, DecimateFrame
<1> QED BY <1>1, <1>2, <1>3, <1>4, <1>5, <1>6, <1>7, <1>8, <1>9, <1>10, <1>11,
     <1>12, <1>13, <1>14, <1>15

(* The creator frees the object that only it has.                          *)
LEMMA CreateFreeKeepsIInv ==
    ASSUME Discipline, IInv, NEW t \in Thread, CreateFree(t)
    PROVE  IInv'
<1> USE DEF CreateFree
<1>tgt. tgt[t] \in Thread /\ pc[tgt[t]] = "embryo" /\ tgt[t] # Main /\ ~exited
  BY DEF TargetInv, PcInv, CreateInv
<1>move. /\ Moves(t) /\ pc[t] = "cr_free" /\ pc'[t] = "run"
         /\ tgt'[t] = Nobody
         /\ t \notin exiting /\ ~exited
         /\ UNCHANGED <<list, count, gil, status, refs, ctid, exiting, atexit, exited, handles, cur, batch, ret>>
  BY DEF Moves, TypeOK, PcInv
<1>type. pc' \in [Actor -> Pc] /\ tgt' \in [Actor -> Thread \cup {Nobody}]
  BY DEF TypeOK, Pc
<1>lease. \A u \in Thread \ {tgt[t]} : Lease(u)' = Lease(u)
  BY <1>tgt DEF TypeOK, Lease
<1>pop. Population' = Population BY <1>move, PopulationFrame
<1>1. TypeOK' BY ZenonT(40), <1>move, <1>type DEF TypeOK
<1>2. GilInv' BY <1>move, GilFrame
<1>3. ListInv' BY <1>move, ListFrame DEF ListInv
<1>4. TargetInv' BY <1>move, TargetFrame
<1>5. PcInv' BY <1>move, PcFrame
<1>6. LiveInv'
  BY SMTT(40), <1>tgt, <1>move DEF TypeOK, LiveInv, Running, CreateInv, DecimateInv
<1>7. StatusInv' BY <1>move, StatusFrame
<1>8. RefsInv' BY <1>lease, <1>tgt, <1>move DEF RefsInv, TypeOK
<1>9. CountInv' /\ LoneInv' BY <1>move, <1>pop, CountFrame
<1>10. CreateInv' BY <1>move, CreateFrame
<1>11. EmbryoInv' BY <1>tgt, <1>move DEF TypeOK, EmbryoInv
<1>12. HandleInv' BY <1>move, HandleFrame
<1>13. JoinInv' BY <1>move, JoinFrame
<1>14. DecimateInv' BY <1>move, DecimateFrame
<1> QED BY <1>1, <1>2, <1>3, <1>4, <1>5, <1>6, <1>7, <1>8, <1>9, <1>10, <1>11,
     <1>12, <1>13, <1>14

(* pthread_create() gives back its lease.                                  *)
LEMMA CreateUnrefKeepsIInv ==
    ASSUME Discipline, IInv, NEW t \in Thread, CreateUnref(t)
    PROVE  IInv'
<1> USE DEF CreateUnref
<1>v. PICK v \in Thread : v = tgt[t] /\ obj[v] = "live" /\ ~exited
  BY DEF TargetInv, LiveInv, PcInv
<1>move. /\ Moves(t) /\ pc[t] = "cr_unref" /\ pc'[t] = "run"
         /\ tgt'[t] = Nobody
         /\ t \notin exiting /\ ~exited
         /\ UNCHANGED <<list, count, gil, status, ctid, obj, exiting, atexit, exited, handles, cur, batch, ret>>
  BY DEF Moves, TypeOK, PcInv
<1>type. pc' \in [Actor -> Pc] /\ tgt' \in [Actor -> Thread \cup {Nobody}]
  BY DEF TypeOK, Pc
<1>lease. /\ t \in Lease(v) /\ Lease(v)' = Lease(v) \ {t}
         /\ \A u \in Thread \ {v} : Lease(u)' = Lease(u)
  BY <1>v DEF TypeOK, Lease
<1>refs. RefsInv' /\ refs' \in [Thread -> Nat]
  BY <1>v, <1>lease, LeaseReturned
<1>pop. Population' = Population BY <1>move, PopulationFrame
<1>1. TypeOK' BY SMTT(40), <1>v, <1>refs, <1>move, <1>type DEF TypeOK
<1>2. GilInv' BY <1>move, GilFrame
<1>3. ListInv' BY <1>move, ListFrame DEF ListInv
<1>4. TargetInv' BY <1>move, TargetFrame
<1>5. PcInv' BY <1>move, PcFrame
<1>6. LiveInv' BY <1>move, LiveFrame
<1>7. StatusInv' BY <1>move, StatusFrame
<1>8. RefsInv' BY <1>refs
<1>9. CountInv' /\ LoneInv' BY <1>move, <1>pop, CountFrame
<1>10. CreateInv' BY <1>move, CreateFrame
<1>11. EmbryoInv' BY <1>move, EmbryoFrame
<1>12. HandleInv' BY <1>move, HandleFrame
<1>13. JoinInv' BY <1>move, JoinFrame
<1>14. DecimateInv' BY <1>move, DecimateFrame
<1> QED BY <1>1, <1>2, <1>3, <1>4, <1>5, <1>6, <1>7, <1>8, <1>9, <1>10, <1>11,
     <1>12, <1>13, <1>14

(* The new thread starts to run.                                           *)
LEMMA StartRoutineKeepsIInv ==
    ASSUME Discipline, IInv, NEW t \in Thread, StartRoutine(t)
    PROVE  IInv'
<1> USE DEF StartRoutine
<1>1. TypeOK' BY DEF TypeOK, Pc
<1>2. Local(t)
  BY DEF Local, TypeOK, PcInv
<1>3. LocalInv' /\ Population' = Population BY <1>1, <1>2, LocalStep
<1>4. GilInv' /\ ListInv' /\ PcInv' BY DEF TypeOK, GilInv, ListInv, PcInv
<1>5. LoneInv' BY <1>3 DEF TypeOK, LoneInv, PcInv
<1>6. DecimateInv' BY DEF TypeOK, DecimateInv, GilInv
<1> QED BY <1>1, <1>2, <1>3, <1>4, <1>5, <1>6 DEF LocalInv

(* A thread begins to exit.                                                *)
LEMMA Pthread_exitKeepsIInv ==
    ASSUME Discipline, IInv, NEW t \in Thread, pthread_exit(t)
    PROVE  IInv'
<1> USE DEF pthread_exit
<1>move. /\ Moves(t) /\ pc[t] = "run" /\ pc'[t] = "ex_count"
         /\ tgt'[t] = tgt[t]
         /\ UNCHANGED <<list, count, gil, status, refs, ctid, obj, atexit, exited, handles, cur, batch, ret>>
  BY DEF Moves, TypeOK, PcInv
<1>type. pc' \in [Actor -> Pc] /\ tgt' \in [Actor -> Thread \cup {Nobody}]
  BY DEF TypeOK, Pc
<1>lease. \A w \in Thread : Lease(w)' = Lease(w)
  BY DEF TypeOK, Lease
<1>pop. Population' = Population
  BY DEF TypeOK, Population, Counted, Running, PcInv
<1>1. TypeOK' BY <1>move, <1>type DEF TypeOK
<1>2. GilInv' BY <1>move, GilFrame
<1>3. ListInv' BY <1>move, ListFrame DEF ListInv
<1>4. TargetInv' BY <1>move, TargetFrame
<1>5. PcInv' BY <1>move DEF TypeOK, PcInv
<1>6. LiveInv' BY <1>move, LiveFrame
<1>7. StatusInv' BY <1>move, StatusFrame
<1>8. RefsInv' BY <1>lease, <1>move DEF RefsInv
<1>9. CountInv' BY <1>pop, <1>move DEF CountInv
<1>10. LoneInv' BY <1>pop, <1>move DEF TypeOK, LoneInv, PcInv
<1>11. CreateInv' BY <1>move, CreateFrame
<1>12. EmbryoInv' BY <1>move, EmbryoFrame
<1>13. HandleInv' BY <1>move, HandleFrame
<1>14. JoinInv' BY <1>move, JoinFrame
<1>15. DecimateInv' BY <1>move, DecimateFrame
<1> QED BY <1>1, <1>2, <1>3, <1>4, <1>5, <1>6, <1>7, <1>8, <1>9, <1>10, <1>11,
     <1>12, <1>13, <1>14, <1>15

(* An exiting thread is no longer counted; the one that finds zero is the  *)
(* last, and stays so.                                                     *)
LEMMA ExitCountKeepsIInv ==
    ASSUME Discipline, IInv, NEW t \in Thread, ExitCount(t)
    PROVE  IInv'
<1> USE DEF ExitCount
<1>tgt. t \in Population /\ ~exited
  BY DEF PcInv, Population, Counted, Running
<1>pos. count > 0
  BY <1>tgt, Inhabited
<1>move. /\ Moves(t) /\ pc[t] = "ex_count" /\ pc'[t] \in {"ex_final", "ex_status"}
         /\ tgt'[t] = tgt[t]
         /\ UNCHANGED <<list, gil, status, refs, ctid, obj, exiting, atexit, exited, handles, cur, batch, ret>>
  BY DEF Moves, TypeOK, PcInv
<1>type. pc' \in [Actor -> Pc] /\ tgt' \in [Actor -> Thread \cup {Nobody}]
  BY DEF TypeOK, Pc
<1>lease. \A w \in Thread : Lease(w)' = Lease(w)
  BY DEF TypeOK, Lease
<1>pop. Population' = Population \ {t}
  BY <1>tgt DEF TypeOK, Population, Counted, Running, CreateInv, PcInv
<1>count. CountInv' /\ count' \in Nat
  BY <1>tgt, <1>pop, CountFalls
<1>1. TypeOK' BY <1>count, <1>move, <1>type DEF TypeOK
<1>2. GilInv' BY <1>move, GilFrame
<1>3. ListInv' BY <1>move, ListFrame DEF ListInv
<1>4. TargetInv' BY <1>move, TargetFrame
<1>5. PcInv' BY <1>move DEF TypeOK, PcInv
<1>6. LiveInv' BY <1>move, LiveFrame
<1>7. StatusInv' BY <1>move, StatusFrame
<1>8. RefsInv' BY <1>lease, <1>move DEF RefsInv
<1>9. CountInv' BY <1>count
<1>10. LoneInv' BY <1>tgt, <1>pop, <1>pos, <1>move DEF TypeOK, LoneInv, PcInv
<1>11. CreateInv' BY <1>move, CreateFrame
<1>12. EmbryoInv' BY <1>move, EmbryoFrame
<1>13. HandleInv' BY <1>move DEF TypeOK, HandleInv
<1>14. JoinInv' BY <1>move, JoinFrame
<1>15. DecimateInv' BY <1>move, DecimateFrame
<1> QED BY <1>1, <1>2, <1>3, <1>4, <1>5, <1>6, <1>7, <1>8, <1>9, <1>10, <1>11,
     <1>12, <1>13, <1>14, <1>15

(* No atexit handler makes a thread, by hypothesis.                        *)
LEMMA ExitSpawnKeepsIInv ==
    ASSUME Discipline, IInv, NEW t \in Thread, ExitSpawn(t)
    PROVE  IInv'
<1> USE DEF ExitSpawn
<1>move. /\ Moves(t) /\ pc[t] = "ex_final" /\ pc'[t] = "dec_lock"
         /\ tgt'[t] = tgt[t]
         /\ UNCHANGED <<list, count, gil, status, refs, ctid, obj, exiting, exited, handles, cur, batch>>
  BY DEF Moves, TypeOK, PcInv
<1>type. pc' \in [Actor -> Pc] /\ tgt' \in [Actor -> Thread \cup {Nobody}]
  BY DEF TypeOK, Pc
<1>lease. \A w \in Thread : Lease(w)' = Lease(w)
  BY DEF TypeOK, Lease
<1>pop. Population' = Population BY <1>move, PopulationFrame
<1>1. TypeOK' BY <1>move, <1>type DEF TypeOK
<1>2. GilInv' BY <1>move, GilFrame
<1>3. ListInv' BY <1>move, ListFrame DEF ListInv
<1>4. TargetInv' BY <1>move, TargetFrame
<1>5. PcInv' BY <1>move DEF TypeOK, PcInv
<1>6. LiveInv' BY <1>move, LiveFrame
<1>7. StatusInv' BY <1>move, StatusFrame
<1>8. RefsInv' BY <1>lease, <1>move DEF RefsInv
<1>9. CountInv' /\ LoneInv' BY <1>move, <1>pop, CountFrame
<1>10. CreateInv' BY <1>move, CreateFrame
<1>11. EmbryoInv' BY <1>move, EmbryoFrame
<1>12. HandleInv' BY <1>move, HandleFrame
<1>13. JoinInv' BY <1>move, JoinFrame
<1>14. DecimateInv' BY <1>move, DecimateFrame
<1> QED BY <1>1, <1>2, <1>3, <1>4, <1>5, <1>6, <1>7, <1>8, <1>9, <1>10, <1>11,
     <1>12, <1>13, <1>14

(* The last thread goes on to auto-join the others.                        *)
LEMMA ExitFinalizeKeepsIInv ==
    ASSUME Discipline, IInv, NEW t \in Thread, ExitFinalize(t)
    PROVE  IInv'
<1> USE DEF ExitFinalize
<1>1. TypeOK' BY DEF TypeOK, Pc
<1>2. Local(t)
  BY DEF Local, TypeOK, PcInv
<1>3. LocalInv' /\ Population' = Population BY <1>1, <1>2, LocalStep
<1>4. GilInv' /\ ListInv' /\ PcInv' BY DEF TypeOK, GilInv, ListInv, PcInv
<1>5. LoneInv' BY <1>3 DEF TypeOK, LoneInv, PcInv
<1>6. DecimateInv' BY DEF TypeOK, DecimateInv, GilInv
<1> QED BY <1>1, <1>2, <1>3, <1>4, <1>5, <1>6 DEF LocalInv

(* The last thread looks whether it is alone.                              *)
LEMMA ExitOrphanKeepsIInv ==
    ASSUME Discipline, IInv, NEW t \in Thread, ExitOrphan(t)
    PROVE  IInv'
<1> USE DEF ExitOrphan
<1>1. TypeOK' BY DEF TypeOK, Pc
<1>2. Local(t)
  BY DEF Local, TypeOK, PcInv
<1>3. LocalInv' /\ Population' = Population BY <1>1, <1>2, LocalStep
<1>4. GilInv' /\ ListInv' /\ PcInv' BY DEF TypeOK, GilInv, ListInv, PcInv
<1>5. LoneInv' BY <1>3 DEF TypeOK, LoneInv, PcInv
<1>6. DecimateInv' BY DEF TypeOK, DecimateInv, GilInv
<1> QED BY <1>1, <1>2, <1>3, <1>4, <1>5, <1>6 DEF LocalInv

(* The last thread loads the count, which still is zero.                   *)
LEMMA ExitPopulationKeepsIInv ==
    ASSUME Discipline, IInv, NEW t \in Thread, ExitPopulation(t)
    PROVE  IInv'
<1> USE DEF ExitPopulation
<1>1. TypeOK' BY DEF TypeOK, Pc
<1>2. Local(t)
  BY DEF Local, TypeOK, PcInv
<1>3. LocalInv' /\ Population' = Population BY <1>1, <1>2, LocalStep
<1>4. GilInv' /\ ListInv' /\ PcInv' BY DEF TypeOK, GilInv, ListInv, PcInv
<1>5. LoneInv' BY <1>3 DEF TypeOK, LoneInv, PcInv
<1>6. DecimateInv' BY DEF TypeOK, DecimateInv, GilInv
<1> QED BY <1>1, <1>2, <1>3, <1>4, <1>5, <1>6 DEF LocalInv

(* Whoever is alone on the list is the only one counted.                   *)
LEMMA Pthread_orphan_npKeepsIInv ==
    ASSUME Discipline, IInv, NEW t \in Thread, pthread_orphan_np(t)
    PROVE  IInv'
<1> USE DEF pthread_orphan_np
<1>alone. Orphan => Population \subseteq {t}
  <2> SUFFICES ASSUME Orphan, NEW u \in Population PROVE u = t
    OBVIOUS
  <2>1. u \in Elements(list)
    BY DEF Population, Counted, LiveInv, CreateInv, GilInv
  <2>2. t \in Elements(list)
    BY DEF LiveInv, Running
  <2>3. QED BY <2>1, <2>2 DEF Orphan, Elements
<1>1. TypeOK' BY DEF TypeOK, Pc
<1>2. Local(t)
  BY DEF Local, TypeOK, PcInv
<1>3. LocalInv' /\ Population' = Population BY <1>1, <1>2, LocalStep
<1>4. GilInv' /\ ListInv' /\ PcInv' BY DEF TypeOK, GilInv, ListInv, PcInv
<1>5. LoneInv' BY <1>alone, <1>3 DEF TypeOK, LoneInv, PcInv
<1>6. DecimateInv' BY DEF TypeOK, DecimateInv, GilInv
<1> QED BY <1>1, <1>2, <1>3, <1>4, <1>5, <1>6 DEF LocalInv

(* pthread_orphan_np() returns.                                            *)
LEMMA OrphanReturnKeepsIInv ==
    ASSUME Discipline, IInv, NEW t \in Thread, OrphanReturn(t)
    PROVE  IInv'
<1> USE DEF OrphanReturn
<1>1. TypeOK' BY DEF TypeOK, Pc
<1>2. Local(t)
  BY DEF Local, TypeOK, PcInv
<1>3. LocalInv' /\ Population' = Population BY <1>1, <1>2, LocalStep
<1>4. GilInv' /\ ListInv' /\ PcInv' BY DEF TypeOK, GilInv, ListInv, PcInv
<1>5. LoneInv' BY <1>3 DEF TypeOK, LoneInv, PcInv
<1>6. DecimateInv' BY DEF TypeOK, DecimateInv, GilInv
<1> QED BY <1>1, <1>2, <1>3, <1>4, <1>5, <1>6 DEF LocalInv

(* A thread that exits is joinable or detached, and becomes terminated or  *)
(* a zombie.                                                               *)
LEMMA ExitStatusKeepsIInv ==
    ASSUME Discipline, IInv, NEW t \in Thread, ExitStatus(t)
    PROVE  IInv'
<1>t. status[t] \in {kJoinable, kDetached}
  BY DEF ExitStatus, StatusInv
<1>act. PICK s \in {kTerminated, kZombie}, l \in {"ex_last", "ex_zombify"} :
           /\ pc[t] = "ex_status" /\ pc' = [pc EXCEPT ![t] = l]
           /\ status' = [status EXCEPT ![t] = s]
           /\ status[t] = kJoinable => s = kTerminated
           /\ UNCHANGED <<list, count, gil, refs, ctid, obj, world, locals>>
  BY <1>t DEF ExitStatus, ExitTransition, kJoinable, kDetached, kTerminated,
     kZombie
<1>move. /\ Moves(t) /\ pc[t] = "ex_status" /\ pc'[t] \in {"ex_zombify", "ex_last"}
         /\ tgt'[t] = tgt[t]
         /\ UNCHANGED <<list, count, gil, refs, ctid, obj, exiting, atexit, exited, handles, cur, batch, ret>>
  BY <1>t, <1>act DEF Moves, TypeOK, PcInv
<1>type. pc' \in [Actor -> Pc] /\ tgt' \in [Actor -> Thread \cup {Nobody}]
  BY <1>t, <1>act DEF TypeOK, Pc
<1>lease. \A w \in Thread : Lease(w)' = Lease(w)
  BY <1>t, <1>act DEF TypeOK, Lease
<1>pop. Population' = Population BY <1>move, <1>t, <1>act, PopulationFrame
<1>1. TypeOK'
  BY <1>t, <1>act, <1>move, <1>type DEF TypeOK, Status, kJoinable, kDetached,
     kTerminated, kZombie
<1>2. GilInv' BY <1>move, <1>t, <1>act, GilFrame
<1>3. ListInv' BY <1>move, <1>t, <1>act, ListFrame DEF ListInv
<1>4. TargetInv' BY <1>move, <1>t, <1>act, TargetFrame
<1>5. PcInv' BY <1>t, <1>act, <1>move DEF TypeOK, PcInv
<1>6. LiveInv' BY <1>move, <1>t, <1>act, LiveFrame
<1>7. StatusInv'
  BY <1>t, <1>act, <1>move DEF TypeOK, StatusInv, kJoinable, kDetached,
     kTerminated, kZombie
<1>8. RefsInv' BY <1>t, <1>act, <1>lease, <1>move DEF RefsInv
<1>9. CountInv' /\ LoneInv' BY <1>move, <1>t, <1>act, <1>pop, CountFrame
<1>10. CreateInv' BY <1>move, <1>t, <1>act, CreateFrame
<1>11. EmbryoInv' BY <1>move, <1>t, <1>act, EmbryoFrame
<1>12. HandleInv'
  BY <1>t, <1>act, <1>move DEF TypeOK, HandleInv, kJoinable, kDetached,
     kTerminated
<1>13. JoinInv' BY <1>move, <1>t, <1>act, JoinFrame
<1>14. DecimateInv' BY <1>move, <1>t, <1>act, DecimateFrame
<1> QED BY <1>1, <1>2, <1>3, <1>4, <1>5, <1>6, <1>7, <1>8, <1>9, <1>10, <1>11,
     <1>12, <1>13, <1>14

(* A detached thread moves its own object to the end of the list.          *)
LEMMA ExitZombifyKeepsIInv ==
    ASSUME Discipline, IInv, NEW t \in Thread, ExitZombify(t)
    PROVE  IInv'
<1> USE DEF ExitZombify
<1>in. t \in Elements(list)
  BY DEF LiveInv, Running
<1>same. Elements(list) \cup {t} = Elements(list)
  BY <1>in
<1>list. list' \in Seq(Thread) /\ Distinct(list') /\ Elements(list') = Elements(list)
  BY <1>in, <1>same, MoveLastFacts DEF TypeOK, ListInv
<1>move. /\ Moves(t) /\ pc[t] = "ex_zombify" /\ pc'[t] = "ex_last"
         /\ tgt'[t] = tgt[t]
         /\ UNCHANGED <<count, gil, status, refs, ctid, obj, exiting, atexit, exited, handles, cur, batch, ret>>
  BY <1>list DEF Moves, TypeOK, PcInv
<1>type. pc' \in [Actor -> Pc] /\ tgt' \in [Actor -> Thread \cup {Nobody}]
  BY <1>list DEF TypeOK, Pc
<1>lease. \A w \in Thread : Lease(w)' = Lease(w)
  BY <1>list DEF TypeOK, Lease
<1>pop. Population' = Population BY <1>move, <1>list, PopulationFrame
<1>1. TypeOK' BY <1>list, <1>move, <1>type DEF TypeOK
<1>2. GilInv' BY <1>move, <1>list, GilFrame
<1>3. ListInv' BY <1>move, <1>list, ListFrame DEF ListInv
<1>4. TargetInv' BY <1>move, <1>list, TargetFrame
<1>5. PcInv' BY <1>list, <1>move DEF TypeOK, PcInv
<1>6. LiveInv' BY <1>move, <1>list, LiveFrame
<1>7. StatusInv' BY <1>move, <1>list, StatusFrame
<1>8. RefsInv' BY <1>list, <1>lease, <1>move DEF RefsInv
<1>9. CountInv' /\ LoneInv' BY <1>move, <1>list, <1>pop, CountFrame
<1>10. CreateInv' BY <1>move, <1>list, CreateFrame
<1>11. EmbryoInv' BY <1>move, <1>list, EmbryoFrame
<1>12. HandleInv' BY <1>move, <1>list, HandleFrame
<1>13. JoinInv' BY <1>move, <1>list, JoinFrame
<1>14. DecimateInv' BY <1>move, <1>list, DecimateFrame
<1> QED BY <1>1, <1>2, <1>3, <1>4, <1>5, <1>6, <1>7, <1>8, <1>9, <1>10, <1>11,
     <1>12, <1>13, <1>14

(* The end of the process stops every actor.                               *)
LEMMA ExitProcessKeepsIInv ==
    ASSUME Discipline, IInv, NEW t \in Thread, ExitProcess(t)
    PROVE  IInv'
<1> USE DEF ExitProcess
<1>1. TypeOK' /\ GilInv' /\ ListInv' BY DEF TypeOK, Pc, GilInv, ListInv
<1>2. TargetInv' /\ PcInv' /\ StatusInv'
  BY DEF TypeOK, TargetInv, PcInv, StatusInv, kJoinable, kDetached,
     kTerminated, kZombie
<1>3. RefsInv' /\ CountInv' /\ LoneInv'
  BY DEF RefsInv, CountInv, TypeOK, LoneInv, PcInv
<1>4. LiveInv' BY DEF TypeOK, LiveInv, Running
<1>5. EmbryoInv' BY DEF TypeOK, EmbryoInv
<1>6. CreateInv' /\ HandleInv' BY DEF TypeOK, CreateInv, TargetInv, HandleInv
<1>7. JoinInv' /\ DecimateInv'
  BY DEF TypeOK, JoinInv, TargetInv, DecimateInv, GilInv
<1> QED BY <1>1, <1>2, <1>3, <1>4, <1>5, <1>6, <1>7

(* A thread leaves its stack.                                              *)
LEMMA ExitThreadKeepsIInv ==
    ASSUME Discipline, IInv, NEW t \in Thread, ExitThread(t)
    PROVE  IInv'
<1> USE DEF ExitThread
<1>move. /\ Moves(t) /\ pc[t] = "ex_last" /\ pc'[t] = "gone"
         /\ tgt'[t] = tgt[t]
         /\ UNCHANGED <<list, count, gil, status, refs, obj, exiting, atexit, exited, handles, cur, batch, ret>>
  BY DEF Moves, TypeOK, PcInv
<1>type. pc' \in [Actor -> Pc] /\ tgt' \in [Actor -> Thread \cup {Nobody}]
  BY DEF TypeOK, Pc
<1>lease. \A w \in Thread : Lease(w)' = Lease(w)
  BY DEF TypeOK, Lease
<1>pop. Population' = Population
  BY DEF TypeOK, Population, Counted, Running, PcInv
<1>1. TypeOK' BY <1>move, <1>type DEF TypeOK
<1>2. GilInv' BY <1>move, GilFrame
<1>3. ListInv' BY <1>move, ListFrame DEF ListInv
<1>4. TargetInv' BY <1>move, TargetFrame
<1>5. PcInv' BY <1>move DEF TypeOK, PcInv
<1>6. LiveInv' BY <1>move DEF TypeOK, LiveInv, Running
<1>7. StatusInv'
  BY <1>move DEF TypeOK, StatusInv, kJoinable, kDetached, kTerminated, kZombie
<1>8. RefsInv' BY <1>lease, <1>move DEF RefsInv
<1>9. CountInv' /\ LoneInv' BY <1>move, <1>pop, CountFrame
<1>10. CreateInv' BY <1>move, CreateFrame
<1>11. EmbryoInv' BY <1>move, EmbryoFrame
<1>12. HandleInv' BY <1>move, HandleFrame
<1>13. JoinInv' BY <1>move DEF TypeOK, JoinInv, TargetInv
<1>14. DecimateInv' BY <1>move DEF TypeOK, DecimateInv, GilInv
<1> QED BY <1>1, <1>2, <1>3, <1>4, <1>5, <1>6, <1>7, <1>8, <1>9, <1>10, <1>11,
     <1>12, <1>13, <1>14

(* A thread takes a lease on itself to detach itself.                      *)
LEMMA Pthread_detachKeepsIInv ==
    ASSUME Discipline, IInv, NEW t \in Thread, pthread_detach(t)
    PROVE  IInv'
<1>act. /\ pc[t] = "run" /\ pc' = [pc EXCEPT ![t] = "det_status"]
        /\ t \in handles /\ handles' = handles \ {t}
        /\ refs' = [refs EXCEPT ![t] = @ + 1] /\ tgt' = [tgt EXCEPT ![t] = t]
        /\ UNCHANGED <<list, count, gil, status, ctid, obj, exiting, atexit, exited, cur, batch, ret, last>>
  BY DEF pthread_detach, Discipline
<1>v. obj[t] = "live" /\ ~exited
  BY <1>act DEF LiveInv, Running, PcInv
<1>move. /\ Moves(t) /\ pc[t] = "run" /\ pc'[t] = "det_status"
         /\ tgt'[t] = t
         /\ t \notin exiting /\ ~exited
         /\ UNCHANGED <<list, count, gil, status, ctid, obj, exiting, atexit, exited, cur, batch, ret>>
  BY <1>act, <1>v DEF Moves, TypeOK, PcInv
<1>type. pc' \in [Actor -> Pc] /\ tgt' \in [Actor -> Thread \cup {Nobody}]
  BY <1>act, <1>v DEF TypeOK, Pc
<1>lease. /\ t \notin Lease(t) /\ Lease(t)' = Lease(t) \cup {t}
         /\ \A u \in Thread \ {t} : Lease(u)' = Lease(u)
  BY SMTT(40), <1>v, <1>act DEF TypeOK, Lease, TargetInv
<1>refs. RefsInv' /\ refs' \in [Thread -> Nat]
  BY <1>v, <1>act, <1>lease, LeaseTaken
<1>pop. Population' = Population BY <1>move, <1>act, <1>v, PopulationFrame
<1>1. TypeOK' BY <1>act, <1>v, <1>refs, <1>move, <1>type DEF TypeOK
<1>2. GilInv' BY <1>move, <1>act, <1>v, GilFrame
<1>3. ListInv' BY <1>move, <1>act, <1>v, ListFrame DEF ListInv
<1>4. TargetInv' BY <1>move, <1>act, <1>v, TargetFrame
<1>5. PcInv' BY <1>move, <1>act, <1>v, PcFrame
<1>6. LiveInv' BY <1>move, <1>act, <1>v, LiveFrame
<1>7. StatusInv' BY <1>move, <1>act, <1>v, StatusFrame
<1>8. RefsInv' BY <1>refs
<1>9. CountInv' /\ LoneInv' BY <1>move, <1>act, <1>v, <1>pop, CountFrame
<1>10. CreateInv' BY SMTT(40), <1>act, <1>v, <1>move DEF TypeOK, CreateInv, TargetInv
<1>11. EmbryoInv' BY <1>move, <1>act, <1>v, EmbryoFrame
<1>12. HandleInv' BY <1>act, <1>v, <1>move DEF TypeOK, HandleInv
<1>13. JoinInv'
  <2>1. \A a \in Thread : pc[a] \in JoinPc \ {"join_wait"} => tgt[a] # t
    BY <1>act DEF JoinInv
  <2>2. QED BY <1>act, <2>1 DEF TypeOK, JoinInv
<1>14. DecimateInv' BY <1>act, <1>v, <1>move DEF TypeOK, DecimateInv, GilInv
<1> QED BY <1>1, <1>2, <1>3, <1>4, <1>5, <1>6, <1>7, <1>8, <1>9, <1>10, <1>11,
     <1>12, <1>13, <1>14

(* A thread that detaches itself has not exited: it becomes or is          *)
(* detached.                                                               *)
LEMMA DetachStatusKeepsIInv ==
    ASSUME Discipline, IInv, NEW t \in Thread, DetachStatus(t)
    PROVE  IInv'
<1>t. /\ tgt[t] = t /\ status[t] \in {kJoinable, kDetached}
      /\ status \in [Thread -> Status]
  BY DEF DetachStatus, CreateInv, StatusInv, TypeOK
<1>same. status[t] = kDetached => status = [status EXCEPT ![t] = kDetached]
  BY <1>t
<1>act. /\ pc[t] = "det_status" /\ pc' = [pc EXCEPT ![t] = "unref"]
        /\ tgt[t] = t /\ status' = [status EXCEPT ![t] = kDetached]
        /\ UNCHANGED <<list, count, gil, refs, ctid, obj, world, locals>>
  BY <1>t, <1>same DEF DetachStatus, kJoinable, kDetached, kTerminated
<1>move. /\ Moves(t) /\ pc[t] = "det_status" /\ pc'[t] = "unref"
         /\ tgt'[t] = tgt[t]
         /\ t \notin exiting /\ ~exited
         /\ UNCHANGED <<list, count, gil, refs, ctid, obj, exiting, atexit, exited, handles, cur, batch, ret>>
  BY <1>act DEF Moves, TypeOK, PcInv
<1>type. pc' \in [Actor -> Pc] /\ tgt' \in [Actor -> Thread \cup {Nobody}]
  BY <1>act DEF TypeOK, Pc
<1>lease. \A w \in Thread : Lease(w)' = Lease(w)
  BY <1>act DEF TypeOK, Lease
<1>pop. Population' = Population BY <1>move, <1>act, PopulationFrame
<1>1. TypeOK'
  BY <1>act, <1>move, <1>type DEF TypeOK, Status, kDetached, kJoinable,
     kZombie
<1>2. GilInv' BY <1>move, <1>act, GilFrame
<1>3. ListInv' BY <1>move, <1>act, ListFrame DEF ListInv
<1>4. TargetInv' BY <1>move, <1>act, TargetFrame
<1>5. PcInv' BY <1>move, <1>act, PcFrame
<1>6. LiveInv' BY <1>move, <1>act, LiveFrame
<1>7. StatusInv'
  BY <1>act, <1>move DEF TypeOK, StatusInv, kJoinable, kDetached, kTerminated,
     kZombie
<1>8. RefsInv' BY <1>act, <1>lease, <1>move DEF RefsInv
<1>9. CountInv' /\ LoneInv' BY <1>move, <1>act, <1>pop, CountFrame
<1>10. CreateInv' BY <1>move, <1>act, CreateFrame
<1>11. EmbryoInv' BY <1>move, <1>act, EmbryoFrame
<1>12. HandleInv' BY <1>act, <1>move DEF TypeOK, HandleInv
<1>13. JoinInv' BY <1>move, <1>act, JoinFrame
<1>14. DecimateInv' BY <1>move, <1>act, DecimateFrame
<1> QED BY <1>1, <1>2, <1>3, <1>4, <1>5, <1>6, <1>7, <1>8, <1>9, <1>10, <1>11,
     <1>12, <1>13, <1>14

(* A thread that detaches itself is never a zombie.                        *)
LEMMA DetachZombifyKeepsIInv ==
    ASSUME Discipline, IInv, NEW t \in Thread, DetachZombify(t)
    PROVE  IInv'
<1> USE DEF DetachZombify
<1>no. FALSE
  BY DEF PcInv
<1>lease. \A w \in Thread : Lease(w)' = Lease(w)
  BY <1>no DEF TypeOK, Lease
<1>pop. Population' = Population
  BY <1>no DEF TypeOK, Population, Counted, Running, PcInv
<1>1. TypeOK' /\ GilInv' /\ ListInv' BY <1>no DEF TypeOK, Pc, GilInv, ListInv
<1>2. TargetInv' /\ PcInv' /\ StatusInv'
  BY <1>no DEF TypeOK, TargetInv, PcInv, StatusInv, kJoinable, kDetached,
     kTerminated, kZombie
<1>3. RefsInv' /\ CountInv' /\ LoneInv'
  BY <1>no, <1>lease, <1>pop DEF RefsInv, CountInv, TypeOK, LoneInv, PcInv
<1>4. LiveInv' BY <1>no DEF TypeOK, LiveInv, Running
<1>5. EmbryoInv' BY <1>no DEF TypeOK, EmbryoInv
<1>6. CreateInv' /\ HandleInv'
  BY <1>no DEF TypeOK, CreateInv, TargetInv, HandleInv
<1>7. JoinInv' /\ DecimateInv'
  BY <1>no DEF TypeOK, JoinInv, TargetInv, DecimateInv, GilInv
<1> QED BY <1>1, <1>2, <1>3, <1>4, <1>5, <1>6, <1>7

(* pthread_detach() and __sig_generate() give back their lease.            *)
LEMMA UnrefKeepsIInv ==
    ASSUME Discipline, IInv, NEW t \in Actor, Unref(t)
    PROVE  IInv'
<1> USE DEF Unref
<1>v. PICK v \in Thread : v = tgt[t] /\ obj[v] = "live" /\ ~exited
  BY DEF TargetInv, LiveInv, PcInv
<1>move. /\ Moves(t) /\ pc[t] = "unref" /\ pc'[t] \in {"idle", "run"}
         /\ tgt'[t] = Nobody
         /\ ~exited
         /\ t \in Thread => t \notin exiting /\ pc'[t] = "run"
         /\ UNCHANGED <<list, count, gil, status, ctid, obj, exiting, atexit, exited, handles, cur, batch, ret>>
  BY DEF Moves, TypeOK, PcInv
<1>type. pc' \in [Actor -> Pc] /\ tgt' \in [Actor -> Thread \cup {Nobody}]
  BY DEF TypeOK, Pc
<1>lease. /\ t \in Lease(v) /\ Lease(v)' = Lease(v) \ {t}
         /\ \A u \in Thread \ {v} : Lease(u)' = Lease(u)
  BY <1>v DEF TypeOK, Lease
<1>refs. RefsInv' /\ refs' \in [Thread -> Nat]
  BY <1>v, <1>lease, LeaseReturned
<1>pop. Population' = Population BY <1>move, PopulationFrame
<1>1. TypeOK' BY SMTT(40), <1>v, <1>refs, <1>move, <1>type DEF TypeOK
<1>2. GilInv' BY <1>move, GilFrame
<1>3. ListInv' BY <1>move, ListFrame DEF ListInv
<1>4. TargetInv' BY <1>move, TargetFrame
<1>5. PcInv' BY <1>move DEF TypeOK, PcInv
<1>6. LiveInv' BY <1>move, LiveFrame
<1>7. StatusInv' BY <1>move, StatusFrame
<1>8. RefsInv' BY <1>refs
<1>9. CountInv' /\ LoneInv' BY <1>move, <1>pop, CountFrame
<1>10. CreateInv' BY <1>move, CreateFrame
<1>11. EmbryoInv' BY <1>move, EmbryoFrame
<1>12. HandleInv' BY <1>move, HandleFrame
<1>13. JoinInv' BY <1>move, JoinFrame
<1>14. DecimateInv' BY <1>move, DecimateFrame
<1> QED BY <1>1, <1>2, <1>3, <1>4, <1>5, <1>6, <1>7, <1>8, <1>9, <1>10, <1>11,
     <1>12, <1>13, <1>14

(* The joiner of a handle is the only one to have it, and its object is    *)
(* linked, because the joiner itself is still counted.                     *)
LEMMA Pthread_joinKeepsIInv ==
    ASSUME Discipline, IInv, NEW t \in Thread, pthread_join(t)
    PROVE  IInv'
<1>u. PICK u \in handles \ {t} : handles' = handles \ {u} /\ tgt' = [tgt EXCEPT ![t] = u]
  BY DEF pthread_join
<1>v. /\ u \in Thread /\ u # t /\ obj[u] = "live"
      /\ u \in Elements(list) /\ status[u] \in {kJoinable, kTerminated}
      /\ ~exited
  <2>1. t \in Population /\ ~exited
    BY DEF pthread_join, Population, Counted, Running, PcInv
  <2>2. count > 0
    BY <2>1, Inhabited
  <2>3. QED BY <1>u, <2>1, <2>2 DEF HandleInv, LiveInv, TypeOK
<1>act. /\ pc[t] = "run" /\ pc' = [pc EXCEPT ![t] = "join_wait"]
        /\ refs' = refs /\ "join" \in Ops
        /\ UNCHANGED <<list, count, gil, status, ctid, obj, exiting, atexit, exited, cur, batch, ret, last>>
  BY DEF pthread_join
<1>move. /\ Moves(t) /\ pc[t] = "run" /\ pc'[t] = "join_wait"
         /\ tgt'[t] = u
         /\ t \notin exiting /\ ~exited
         /\ UNCHANGED <<list, count, gil, status, refs, ctid, obj, exiting, atexit, exited, cur, batch, ret>>
  BY <1>u, <1>v, <1>act DEF Moves, TypeOK, PcInv
<1>type. pc' \in [Actor -> Pc] /\ tgt' \in [Actor -> Thread \cup {Nobody}]
  BY <1>u, <1>v, <1>act DEF TypeOK, Pc
<1>lease. \A w \in Thread : Lease(w)' = Lease(w)
  BY <1>u, <1>v, <1>act DEF TypeOK, Lease
<1>pop. Population' = Population BY <1>move, <1>u, <1>v, <1>act, PopulationFrame
<1>1. TypeOK' BY <1>u, <1>v, <1>act, <1>move, <1>type DEF TypeOK
<1>2. GilInv' BY <1>move, <1>u, <1>v, <1>act, GilFrame
<1>3. ListInv' BY <1>move, <1>u, <1>v, <1>act, ListFrame DEF ListInv
<1>4. TargetInv' BY <1>move, <1>u, <1>v, <1>act, TargetFrame
<1>5. PcInv' BY <1>move, <1>u, <1>v, <1>act, PcFrame
<1>6. LiveInv' BY <1>move, <1>u, <1>v, <1>act, LiveFrame
<1>7. StatusInv' BY <1>move, <1>u, <1>v, <1>act, StatusFrame
<1>8. RefsInv' BY <1>u, <1>v, <1>act, <1>lease, <1>move DEF RefsInv
<1>9. CountInv' /\ LoneInv' BY <1>move, <1>u, <1>v, <1>act, <1>pop, CountFrame
<1>10. CreateInv' BY <1>move, <1>u, <1>v, <1>act, CreateFrame
<1>11. EmbryoInv' BY <1>move, <1>u, <1>v, <1>act, EmbryoFrame
<1>12. HandleInv' BY SMTT(40), <1>u, <1>v, <1>act, <1>move DEF TypeOK, HandleInv
<1>13. JoinInv' BY <1>move, <1>u, <1>v, <1>act, JoinFrame
<1>14. DecimateInv' BY <1>move, <1>u, <1>v, <1>act, DecimateFrame
<1> QED BY <1>1, <1>2, <1>3, <1>4, <1>5, <1>6, <1>7, <1>8, <1>9, <1>10, <1>11,
     <1>12, <1>13, <1>14

(* A join that timed out gives its handle back.                            *)
LEMMA JoinFailsKeepsIInv ==
    ASSUME Discipline, IInv, NEW t \in Thread, JoinFails(t)
    PROVE  IInv'
<1> USE DEF JoinFails
<1>tgt. tgt[t] \in Thread /\ obj[tgt[t]] = "live"
  BY DEF TargetInv, LiveInv
<1>move. /\ Moves(t) /\ pc[t] = "join_wait" /\ pc'[t] = "run"
         /\ tgt'[t] = Nobody
         /\ t \notin exiting /\ ~exited
         /\ UNCHANGED <<list, count, gil, status, refs, ctid, obj, exiting, atexit, exited, cur, batch, ret>>
  BY <1>tgt DEF Moves, TypeOK, PcInv
<1>type. pc' \in [Actor -> Pc] /\ tgt' \in [Actor -> Thread \cup {Nobody}]
  BY <1>tgt DEF TypeOK, Pc
<1>lease. \A w \in Thread : Lease(w)' = Lease(w)
  BY <1>tgt DEF TypeOK, Lease
<1>pop. Population' = Population BY <1>move, <1>tgt, PopulationFrame
<1>1. TypeOK' BY <1>tgt, <1>move, <1>type DEF TypeOK
<1>2. GilInv' BY <1>move, <1>tgt, GilFrame
<1>3. ListInv' BY <1>move, <1>tgt, ListFrame DEF ListInv
<1>4. TargetInv' BY <1>move, <1>tgt, TargetFrame
<1>5. PcInv' BY <1>move, <1>tgt, PcFrame
<1>6. LiveInv' BY <1>move, <1>tgt, LiveFrame
<1>7. StatusInv' BY <1>move, <1>tgt, StatusFrame
<1>8. RefsInv' BY <1>tgt, <1>lease, <1>move DEF RefsInv
<1>9. CountInv' /\ LoneInv' BY <1>move, <1>tgt, <1>pop, CountFrame
<1>10. CreateInv' BY <1>move, <1>tgt, CreateFrame
<1>11. EmbryoInv' BY <1>move, <1>tgt, EmbryoFrame
<1>12. HandleInv' BY <1>tgt, <1>move DEF TypeOK, HandleInv
<1>13. JoinInv' BY <1>move, <1>tgt, JoinFrame
<1>14. DecimateInv' BY <1>move, <1>tgt, DecimateFrame
<1> QED BY <1>1, <1>2, <1>3, <1>4, <1>5, <1>6, <1>7, <1>8, <1>9, <1>10, <1>11,
     <1>12, <1>13, <1>14

(* A thread whose tib_ctid is clear is gone.                               *)
LEMMA JoinWaitKeepsIInv ==
    ASSUME Discipline, IInv, NEW t \in Thread, JoinWait(t)
    PROVE  IInv'
<1> USE DEF JoinWait
<1>move. /\ Moves(t) /\ pc[t] = "join_wait" /\ pc'[t] = "join_refs"
         /\ tgt'[t] = tgt[t]
         /\ t \notin exiting /\ ~exited
         /\ UNCHANGED <<list, count, gil, status, refs, ctid, obj, exiting, atexit, exited, handles, cur, batch, ret>>
  BY DEF Moves, TypeOK, PcInv
<1>type. pc' \in [Actor -> Pc] /\ tgt' \in [Actor -> Thread \cup {Nobody}]
  BY DEF TypeOK, Pc
<1>lease. \A w \in Thread : Lease(w)' = Lease(w)
  BY DEF TypeOK, Lease
<1>pop. Population' = Population BY <1>move, PopulationFrame
<1>1. TypeOK' BY <1>move, <1>type DEF TypeOK
<1>2. GilInv' BY <1>move, GilFrame
<1>3. ListInv' BY <1>move, ListFrame DEF ListInv
<1>4. TargetInv' BY <1>move, TargetFrame
<1>5. PcInv' BY <1>move DEF TypeOK, PcInv
<1>6. LiveInv' BY <1>move, LiveFrame
<1>7. StatusInv' BY <1>move, StatusFrame
<1>8. RefsInv' BY <1>lease, <1>move DEF RefsInv
<1>9. CountInv' /\ LoneInv' BY <1>move, <1>pop, CountFrame
<1>10. CreateInv' BY <1>move, CreateFrame
<1>11. EmbryoInv' BY <1>move, EmbryoFrame
<1>12. HandleInv' BY <1>move, HandleFrame
<1>13. JoinInv' BY <1>move DEF TypeOK, JoinInv, TargetInv, StatusInv, LiveInv
<1>14. DecimateInv' BY <1>move, DecimateFrame
<1> QED BY <1>1, <1>2, <1>3, <1>4, <1>5, <1>6, <1>7, <1>8, <1>9, <1>10, <1>11,
     <1>12, <1>13, <1>14

(* With pt_refs at zero the creator is done with the object.               *)
LEMMA JoinRefsKeepsIInv ==
    ASSUME Discipline, IInv, NEW t \in Thread, JoinRefs(t)
    PROVE  IInv'
<1> USE DEF JoinRefs
<1>refs. refs[tgt[t]] = 0 => Lease(tgt[t]) = {}
  <2>1. tgt[t] \in Thread /\ obj[tgt[t]] = "live" /\ ~exited
    BY DEF TargetInv, LiveInv, PcInv
  <2>2. refs[tgt[t]] = Cardinality(Lease(tgt[t]))
    BY <2>1 DEF RefsInv
  <2>3. IsFiniteSet(Lease(tgt[t]))
    BY <2>1, LeaseSize
  <2>4. QED BY <2>2, <2>3, FS_EmptySet
<1>creator. refs[tgt[t]] = 0 => \A b \in Thread : pc[b] = "cr_unref" => tgt[b] # tgt[t]
  BY <1>refs DEF Lease
<1>move. /\ Moves(t) /\ pc[t] = "join_refs" /\ pc'[t] \in {"join_last", "join_remove"}
         /\ tgt'[t] = tgt[t]
         /\ t \notin exiting /\ ~exited
         /\ UNCHANGED <<list, count, gil, status, refs, ctid, obj, exiting, atexit, exited, handles, cur, batch, ret>>
  BY DEF Moves, TypeOK, PcInv
<1>type. pc' \in [Actor -> Pc] /\ tgt' \in [Actor -> Thread \cup {Nobody}]
  BY DEF TypeOK, Pc
<1>lease. \A w \in Thread : Lease(w)' = Lease(w)
  BY DEF TypeOK, Lease
<1>pop. Population' = Population BY <1>move, PopulationFrame
<1>1. TypeOK' BY <1>move, <1>type DEF TypeOK
<1>2. GilInv' BY <1>move, GilFrame
<1>3. ListInv' BY <1>move, ListFrame DEF ListInv
<1>4. TargetInv' BY <1>move, TargetFrame
<1>5. PcInv' BY <1>move DEF TypeOK, PcInv
<1>6. LiveInv' BY <1>move, LiveFrame
<1>7. StatusInv' BY <1>move, StatusFrame
<1>8. RefsInv' BY <1>lease, <1>move DEF RefsInv
<1>9. CountInv' /\ LoneInv' BY <1>move, <1>pop, CountFrame
<1>10. CreateInv' BY <1>move, CreateFrame
<1>11. EmbryoInv' BY <1>move, EmbryoFrame
<1>12. HandleInv' BY <1>move, HandleFrame
<1>13. JoinInv' BY SMTT(40), <1>creator, <1>move DEF TypeOK, JoinInv, TargetInv
<1>14. DecimateInv' BY <1>move, DecimateFrame
<1> QED BY <1>1, <1>2, <1>3, <1>4, <1>5, <1>6, <1>7, <1>8, <1>9, <1>10, <1>11,
     <1>12, <1>13, <1>14

(* The joiner moves the object to the end of the list.                     *)
LEMMA JoinMakeLastKeepsIInv ==
    ASSUME Discipline, IInv, NEW t \in Thread, JoinMakeLast(t)
    PROVE  IInv'
<1> USE DEF JoinMakeLast
<1>in. tgt[t] \in Thread /\ tgt[t] \in Elements(list)
  BY DEF TargetInv, HandleInv
<1>same. Elements(list) \cup {tgt[t]} = Elements(list)
  BY <1>in
<1>list. list' \in Seq(Thread) /\ Distinct(list') /\ Elements(list') = Elements(list)
  BY <1>in, <1>same, MoveLastFacts DEF TypeOK, ListInv
<1>move. /\ Moves(t) /\ pc[t] = "join_last" /\ pc'[t] = "join_zombie"
         /\ tgt'[t] = tgt[t]
         /\ t \notin exiting /\ ~exited
         /\ UNCHANGED <<count, status, refs, ctid, obj, exiting, atexit, exited, handles, cur, batch, ret>>
  BY <1>list DEF Moves, TypeOK, PcInv
<1>type. pc' \in [Actor -> Pc] /\ tgt' \in [Actor -> Thread \cup {Nobody}]
  BY <1>list DEF TypeOK, Pc
<1>lease. \A w \in Thread : Lease(w)' = Lease(w)
  BY <1>list DEF TypeOK, Lease
<1>pop. Population' = Population BY <1>move, <1>list, PopulationFrame
<1>1. TypeOK' BY <1>list, <1>move, <1>type DEF TypeOK
<1>2. GilInv' BY <1>move, <1>list, GilFrame
<1>3. ListInv' BY <1>move, <1>list, ListFrame DEF ListInv
<1>4. TargetInv' BY <1>move, <1>list, TargetFrame
<1>5. PcInv' BY <1>list, <1>move DEF TypeOK, PcInv
<1>6. LiveInv' BY <1>move, <1>list, LiveFrame
<1>7. StatusInv' BY <1>move, <1>list, StatusFrame
<1>8. RefsInv' BY <1>list, <1>lease, <1>move DEF RefsInv
<1>9. CountInv' /\ LoneInv' BY <1>move, <1>list, <1>pop, CountFrame
<1>10. CreateInv' BY <1>move, <1>list, CreateFrame
<1>11. EmbryoInv' BY <1>move, <1>list, EmbryoFrame
<1>12. HandleInv' BY <1>move, <1>list, HandleFrame
<1>13. JoinInv' BY <1>move, <1>list, JoinFrame
<1>14. DecimateInv' BY <1>move, <1>list, DecimateFrame
<1> QED BY <1>1, <1>2, <1>3, <1>4, <1>5, <1>6, <1>7, <1>8, <1>9, <1>10, <1>11,
     <1>12, <1>13, <1>14

(* The joiner leaves the object to the garbage collector.                  *)
LEMMA JoinZombieKeepsIInv ==
    ASSUME Discipline, IInv, NEW t \in Thread, JoinZombie(t)
    PROVE  IInv'
<1> USE DEF JoinZombie
<1>tgt. tgt[t] \in Thread /\ pc[tgt[t]] = "gone"
  BY DEF TargetInv, JoinInv
<1>move. /\ Moves(t) /\ pc[t] = "join_zombie" /\ pc'[t] = "run"
         /\ tgt'[t] = Nobody
         /\ t \notin exiting /\ ~exited
         /\ UNCHANGED <<list, count, refs, ctid, obj, exiting, atexit, exited, handles, cur, batch, ret>>
  BY <1>tgt DEF Moves, TypeOK, PcInv
<1>type. pc' \in [Actor -> Pc] /\ tgt' \in [Actor -> Thread \cup {Nobody}]
  BY <1>tgt DEF TypeOK, Pc
<1>lease. \A w \in Thread : Lease(w)' = Lease(w)
  BY <1>tgt DEF TypeOK, Lease
<1>pop. Population' = Population BY <1>move, <1>tgt, PopulationFrame
<1>1. TypeOK' BY <1>tgt, <1>move, <1>type DEF TypeOK, Status, kZombie, kJoinable
<1>2. GilInv' BY <1>move, <1>tgt, GilFrame
<1>3. ListInv' BY <1>move, <1>tgt, ListFrame DEF ListInv
<1>4. TargetInv' BY <1>move, <1>tgt, TargetFrame
<1>5. PcInv' BY <1>move, <1>tgt, PcFrame
<1>6. LiveInv' BY <1>move, <1>tgt, LiveFrame
<1>7. StatusInv'
  BY <1>tgt, <1>move DEF TypeOK, StatusInv, kJoinable, kDetached, kTerminated,
     kZombie
<1>8. RefsInv' BY <1>tgt, <1>lease, <1>move DEF RefsInv
<1>9. CountInv' /\ LoneInv' BY <1>move, <1>tgt, <1>pop, CountFrame
<1>10. CreateInv' BY <1>move, <1>tgt, CreateFrame
<1>11. EmbryoInv' BY <1>move, <1>tgt, EmbryoFrame
<1>12. HandleInv' BY <1>tgt, <1>move DEF TypeOK, HandleInv
<1>13. JoinInv' BY <1>move, <1>tgt, JoinFrame
<1>14. DecimateInv' BY <1>move, <1>tgt, DecimateFrame
<1> QED BY <1>1, <1>2, <1>3, <1>4, <1>5, <1>6, <1>7, <1>8, <1>9, <1>10, <1>11,
     <1>12, <1>13, <1>14

(* Once the joiner has unlinked the object nobody else has it: its creator *)
(* gave back its lease, and there are no senders where threads are joined. *)
LEMMA JoinRemoveKeepsIInv ==
    ASSUME Discipline, IInv, NEW t \in Thread, JoinRemove(t)
    PROVE  IInv'
<1> USE DEF JoinRemove
<1>tgt. tgt[t] \in Thread
  BY DEF TargetInv
<1>list. /\ list' \in Seq(Thread) /\ Distinct(list')
         /\ Elements(list') = Elements(list) \ {tgt[t]}
  BY <1>tgt, Remove DEF TypeOK, ListInv
<1>alone. \A b \in Actor : tgt[b] = tgt[t] => b = t
  <2> SUFFICES ASSUME NEW b \in Actor, tgt[b] = tgt[t], b # t PROVE FALSE
    OBVIOUS
  <2>1. pc[tgt[t]] = "gone"
    BY DEF JoinInv
  <2>2. pc[b] \in TargetPc /\ Sender = {}
    BY <1>tgt DEF TargetInv, PcInv, Discipline
  <2>3. pc[b] \notin CreatingPc \cup ClaimPc
    BY <2>1, <2>2 DEF CreateInv, HandleInv
  <2>4. pc[b] \notin DetachPc \cup {"cr_unref"}
    BY <2>1, <2>2 DEF CreateInv, JoinInv
  <2>5. pc[b] \notin CancelPc \cup {"sig_ref"}
    BY DEF GilInv
  <2>6. QED BY <2>2, <2>3, <2>4, <2>5
<1>hid. pc[tgt[t]] = "gone" /\ tgt[t] \notin handles
  BY DEF JoinInv, HandleInv
<1>move. /\ Moves(t) /\ pc[t] = "join_remove" /\ pc'[t] = "join_free"
         /\ tgt'[t] = tgt[t]
         /\ t \notin exiting /\ ~exited
         /\ UNCHANGED <<count, gil, status, refs, ctid, obj, exiting, atexit, exited, handles, cur, batch, ret>>
  BY <1>list, <1>tgt DEF Moves, TypeOK, PcInv
<1>type. pc' \in [Actor -> Pc] /\ tgt' \in [Actor -> Thread \cup {Nobody}]
  BY <1>list, <1>tgt DEF TypeOK, Pc
<1>lease. \A w \in Thread : Lease(w)' = Lease(w)
  BY <1>list, <1>tgt DEF TypeOK, Lease
<1>pop. Population' = Population
  BY <1>move, <1>alone, <1>hid, <1>list, <1>tgt, PopulationFrame
<1>1. TypeOK' BY <1>list, <1>tgt, <1>move, <1>type DEF TypeOK
<1>2. GilInv' BY <1>move, <1>alone, <1>hid, <1>list, <1>tgt, GilFrame
<1>3. ListInv'
  BY <1>move, <1>alone, <1>hid, <1>list, <1>tgt, ListFrame DEF ListInv
<1>4. TargetInv' BY <1>move, <1>alone, <1>hid, <1>list, <1>tgt, TargetFrame
<1>5. PcInv' BY <1>list, <1>tgt, <1>move DEF TypeOK, PcInv
<1>6. LiveInv' BY <1>move, <1>alone, <1>hid, <1>list, <1>tgt, LiveFrame
<1>7. StatusInv' BY <1>move, <1>alone, <1>hid, <1>list, <1>tgt, StatusFrame
<1>8. RefsInv' BY <1>list, <1>tgt, <1>lease, <1>move DEF RefsInv
<1>9. CountInv' /\ LoneInv'
  BY <1>move, <1>alone, <1>hid, <1>list, <1>tgt, <1>pop, CountFrame
<1>10. CreateInv' BY <1>move, <1>alone, <1>hid, <1>list, <1>tgt, CreateFrame
<1>11. EmbryoInv' BY <1>move, <1>alone, <1>hid, <1>list, <1>tgt, EmbryoFrame
<1>12. HandleInv' BY <1>move, <1>alone, <1>hid, <1>list, <1>tgt, HandleFrame
<1>13. JoinInv'
  BY SMTT(40), <1>list, <1>tgt, <1>alone, <1>move DEF TypeOK, JoinInv, TargetInv
<1>14. DecimateInv' BY <1>move, <1>alone, <1>hid, <1>list, <1>tgt, DecimateFrame
<1> QED BY <1>1, <1>2, <1>3, <1>4, <1>5, <1>6, <1>7, <1>8, <1>9, <1>10, <1>11,
     <1>12, <1>13, <1>14

(* The joiner frees the object that only it has.                           *)
LEMMA JoinFreeKeepsIInv ==
    ASSUME Discipline, IInv, NEW t \in Thread, JoinFree(t)
    PROVE  IInv'
<1> USE DEF JoinFree
<1>tgt. tgt[t] \in Thread /\ pc[tgt[t]] = "gone"
  BY DEF TargetInv, JoinInv
<1>move. /\ Moves(t) /\ pc[t] = "join_free" /\ pc'[t] = "run"
         /\ tgt'[t] = Nobody
         /\ t \notin exiting /\ ~exited
         /\ UNCHANGED <<list, count, gil, status, refs, ctid, exiting, atexit, exited, handles, cur, batch, ret>>
  BY DEF Moves, TypeOK, PcInv
<1>type. pc' \in [Actor -> Pc] /\ tgt' \in [Actor -> Thread \cup {Nobody}]
  BY DEF TypeOK, Pc
<1>lease. \A w \in Thread : Lease(w)' = Lease(w)
  BY DEF TypeOK, Lease
<1>pop. Population' = Population BY <1>move, PopulationFrame
<1>1. TypeOK' BY ZenonT(40), <1>move, <1>type DEF TypeOK
<1>2. GilInv' BY <1>move, GilFrame
<1>3. ListInv' BY <1>move, ListFrame DEF ListInv
<1>4. TargetInv' BY <1>move, TargetFrame
<1>5. PcInv' BY <1>move, PcFrame
<1>6. LiveInv'
  BY <1>tgt, <1>move DEF TypeOK, LiveInv, Running, JoinInv, DecimateInv
<1>7. StatusInv' BY <1>move, StatusFrame
<1>8. RefsInv' BY <1>lease, <1>move DEF RefsInv
<1>9. CountInv' /\ LoneInv' BY <1>move, <1>pop, CountFrame
<1>10. CreateInv' BY <1>move, CreateFrame
<1>11. EmbryoInv' BY <1>move, EmbryoFrame DEF TypeOK
<1>12. HandleInv' BY <1>move, HandleFrame
<1>13. JoinInv' BY <1>move, JoinFrame
<1>14. DecimateInv' BY <1>move, DecimateFrame
<1> QED BY <1>1, <1>2, <1>3, <1>4, <1>5, <1>6, <1>7, <1>8, <1>9, <1>10, <1>11,
     <1>12, <1>13, <1>14

(* pthread_kill() leases the object of a handle that only it has.          *)
LEMMA Pthread_killKeepsIInv ==
    ASSUME Discipline, IInv, NEW t \in Thread, pthread_kill(t)
    PROVE  IInv'
<1>u. PICK u \in handles \ {t} : refs' = [refs EXCEPT ![u] = @ + 1] /\ handles' = handles \ {u} /\ tgt' = [tgt EXCEPT ![t] = u]
  BY DEF pthread_kill
<1>v. /\ u \in Thread /\ u # t /\ obj[u] = "live"
      /\ u \in Elements(list) /\ status[u] \in {kJoinable, kTerminated}
      /\ ~exited
  <2>1. t \in Population /\ ~exited
    BY DEF pthread_kill, Population, Counted, Running, PcInv
  <2>2. count > 0
    BY <2>1, Inhabited
  <2>3. QED BY <1>u, <2>1, <2>2 DEF HandleInv, LiveInv, TypeOK
<1>act. /\ pc[t] = "run" /\ pc' = [pc EXCEPT ![t] = "kill"]
        /\ UNCHANGED <<list, count, gil, status, ctid, obj, exiting, atexit, exited, cur, batch, ret, last>>
  BY DEF pthread_kill
<1>move. /\ Moves(t) /\ pc[t] = "run" /\ pc'[t] = "kill"
         /\ tgt'[t] = u
         /\ t \notin exiting /\ ~exited
         /\ UNCHANGED <<list, count, gil, status, ctid, obj, exiting, atexit, exited, cur, batch, ret>>
  BY <1>u, <1>v, <1>act DEF Moves, TypeOK, PcInv
<1>type. pc' \in [Actor -> Pc] /\ tgt' \in [Actor -> Thread \cup {Nobody}]
  BY <1>u, <1>v, <1>act DEF TypeOK, Pc
<1>lease. /\ t \notin Lease(u) /\ Lease(u)' = Lease(u) \cup {t}
         /\ \A w \in Thread \ {u} : Lease(w)' = Lease(w)
  BY <1>v, <1>u, <1>act DEF TypeOK, Lease, TargetInv
<1>refs. RefsInv' /\ refs' \in [Thread -> Nat]
  BY <1>u, <1>v, <1>act, <1>lease, LeaseTaken
<1>pop. Population' = Population BY <1>move, <1>u, <1>v, <1>act, PopulationFrame
<1>1. TypeOK' BY <1>u, <1>v, <1>act, <1>refs, <1>move, <1>type DEF TypeOK
<1>2. GilInv' BY <1>move, <1>u, <1>v, <1>act, GilFrame
<1>3. ListInv' BY <1>move, <1>u, <1>v, <1>act, ListFrame DEF ListInv
<1>4. TargetInv' BY <1>move, <1>u, <1>v, <1>act, TargetFrame
<1>5. PcInv' BY <1>move, <1>u, <1>v, <1>act, PcFrame
<1>6. LiveInv' BY <1>move, <1>u, <1>v, <1>act, LiveFrame
<1>7. StatusInv' BY <1>move, <1>u, <1>v, <1>act, StatusFrame
<1>8. RefsInv' BY <1>refs
<1>9. CountInv' /\ LoneInv' BY <1>move, <1>u, <1>v, <1>act, <1>pop, CountFrame
<1>10. CreateInv' BY <1>move, <1>u, <1>v, <1>act, CreateFrame
<1>11. EmbryoInv' BY <1>move, <1>u, <1>v, <1>act, EmbryoFrame
<1>12. HandleInv' BY <1>u, <1>v, <1>act, <1>move DEF TypeOK, HandleInv
<1>13. JoinInv' BY <1>move, <1>u, <1>v, <1>act, JoinFrame
<1>14. DecimateInv' BY <1>move, <1>u, <1>v, <1>act, DecimateFrame
<1> QED BY <1>1, <1>2, <1>3, <1>4, <1>5, <1>6, <1>7, <1>8, <1>9, <1>10, <1>11,
     <1>12, <1>13, <1>14

(* pthread_kill() gives back lease and handle.                             *)
LEMMA KillReturnKeepsIInv ==
    ASSUME Discipline, IInv, NEW t \in Thread, KillReturn(t)
    PROVE  IInv'
<1> USE DEF KillReturn
<1>v. PICK v \in Thread : v = tgt[t] /\ obj[v] = "live" /\ ~exited
  BY DEF TargetInv, LiveInv, PcInv
<1>move. /\ Moves(t) /\ pc[t] = "kill" /\ pc'[t] = "run"
         /\ tgt'[t] = Nobody
         /\ t \notin exiting /\ ~exited
         /\ UNCHANGED <<list, count, gil, status, ctid, obj, exiting, atexit, exited, cur, batch, ret>>
  BY DEF Moves, TypeOK, PcInv
<1>type. pc' \in [Actor -> Pc] /\ tgt' \in [Actor -> Thread \cup {Nobody}]
  BY DEF TypeOK, Pc
<1>lease. /\ t \in Lease(v) /\ Lease(v)' = Lease(v) \ {t}
         /\ \A u \in Thread \ {v} : Lease(u)' = Lease(u)
  BY <1>v DEF TypeOK, Lease
<1>refs. RefsInv' /\ refs' \in [Thread -> Nat]
  BY <1>v, <1>lease, LeaseReturned
<1>pop. Population' = Population BY <1>move, PopulationFrame
<1>1. TypeOK' BY <1>v, <1>refs, <1>move, <1>type DEF TypeOK
<1>2. GilInv' BY <1>move, GilFrame
<1>3. ListInv' BY <1>move, ListFrame DEF ListInv
<1>4. TargetInv' BY <1>move, TargetFrame
<1>5. PcInv' BY <1>move, PcFrame
<1>6. LiveInv' BY <1>move, LiveFrame
<1>7. StatusInv' BY <1>move, StatusFrame
<1>8. RefsInv' BY <1>refs
<1>9. CountInv' /\ LoneInv' BY <1>move, <1>pop, CountFrame
<1>10. CreateInv' BY <1>move, CreateFrame
<1>11. EmbryoInv' BY <1>move, EmbryoFrame
<1>12. HandleInv' BY SMTT(40), <1>v, <1>move DEF TypeOK, HandleInv, LiveInv
<1>13. JoinInv' BY <1>move, JoinFrame
<1>14. DecimateInv' BY <1>move, DecimateFrame
<1> QED BY <1>1, <1>2, <1>3, <1>4, <1>5, <1>6, <1>7, <1>8, <1>9, <1>10, <1>11,
     <1>12, <1>13, <1>14

(* pthread_cancel(0) walks the list under the gil.                         *)
LEMMA Pthread_cancel_everyoneKeepsIInv ==
    ASSUME Discipline, IInv, NEW t \in Thread, pthread_cancel_everyone(t)
    PROVE  IInv'
<1> USE DEF pthread_cancel_everyone
<1>1. TypeOK' BY DEF TypeOK, Pc
<1>2. Local(t)
  BY DEF Local, TypeOK, PcInv
<1>3. LocalInv' /\ Population' = Population BY <1>1, <1>2, LocalStep
<1>4. GilInv' /\ ListInv' /\ PcInv' BY DEF TypeOK, GilInv, ListInv, PcInv
<1>5. LoneInv' BY <1>3 DEF TypeOK, LoneInv, PcInv
<1>6. DecimateInv' BY DEF TypeOK, DecimateInv, GilInv
<1> QED BY <1>1, <1>2, <1>3, <1>4, <1>5, <1>6 DEF LocalInv

(* The canceler aims at a linked object, and keeps the gil.                *)
LEMMA CancelWalkKeepsIInv ==
    ASSUME Discipline, IInv, NEW t \in Thread, CancelWalk(t)
    PROVE  IInv'
<1>ty. /\ cur \in [Thread -> Nat] /\ pc \in [Actor -> Pc]
       /\ tgt \in [Actor -> Thread \cup {Nobody}]
       /\ list \in Seq(Thread)
  BY DEF TypeOK
<1>t. pc[t] = "ca_walk" /\ cur[t] \in 1..Len(list) /\ ~exited
  BY <1>ty DEF CancelWalk, ListInv, PcInv
<1>nobody. tgt[t] = Nobody
  BY <1>t, <1>ty DEF TargetInv
<1>u. PICK u \in Thread : u = list[cur[t]] /\ u \in Elements(list) /\ obj[u] = "live"
  BY <1>t, <1>ty DEF Elements, LiveInv
<1>same. pc = [pc EXCEPT ![t] = "ca_walk"] /\ tgt = [tgt EXCEPT ![t] = Nobody]
  BY <1>t, <1>ty, <1>nobody
<1>act. PICK l \in {"ca_walk", "ca_ref"}, v \in {Nobody, u} :
           /\ pc' = [pc EXCEPT ![t] = l]
           /\ tgt' = [tgt EXCEPT ![t] = v]
           /\ l = "ca_ref" <=> v # Nobody
           /\ cur' = cur \/ cur' = [cur EXCEPT ![t] = @ + 1]
           /\ UNCHANGED <<mem, world, batch, ret, last>>
  BY <1>same, <1>u DEF CancelWalk
<1>cur. cur' \in [Thread -> Nat] /\ cur'[t] > 0 /\ \A x \in Thread \ {t} : cur'[x] = cur[x]
  BY <1>ty, <1>t, <1>act
<1>move. /\ Moves(t) /\ pc[t] = "ca_walk" /\ pc'[t] \in {"ca_walk", "ca_ref"}
         /\ t \notin exiting /\ ~exited
         /\ UNCHANGED <<list, count, gil, status, refs, ctid, obj, exiting, atexit, exited, handles, batch, ret>>
  BY <1>act, <1>u, <1>t DEF Moves, TypeOK, PcInv
<1>type. pc' \in [Actor -> Pc] /\ tgt' \in [Actor -> Thread \cup {Nobody}]
  BY <1>act, <1>u, <1>t DEF TypeOK, Pc
<1>lease. \A w \in Thread : Lease(w)' = Lease(w)
  BY <1>t, <1>act DEF TypeOK, Lease
<1>pop. Population' = Population BY <1>move, <1>act, <1>u, <1>t, PopulationFrame
<1>1. TypeOK' BY <1>act, <1>u, <1>cur DEF TypeOK, Pc
<1>2. GilInv' BY <1>act, <1>u, <1>t, <1>move DEF TypeOK, GilInv
<1>3. ListInv' BY <1>act, <1>t, <1>cur DEF TypeOK, GilInv, ListInv
<1>4. TargetInv' BY <1>act, <1>u, <1>t, <1>move DEF TypeOK, TargetInv
<1>5. PcInv' BY <1>move, <1>act, <1>u, <1>t, PcFrame
<1>6. LiveInv' BY <1>move, <1>act, <1>u, <1>t, LiveFrame
<1>7. StatusInv' BY <1>move, <1>act, <1>u, <1>t, StatusFrame
<1>8. RefsInv' BY <1>act, <1>u, <1>t, <1>lease, <1>move DEF RefsInv
<1>9. CountInv' /\ LoneInv' BY <1>move, <1>act, <1>u, <1>t, <1>pop, CountFrame
<1>10. CreateInv' BY <1>move, <1>act, <1>u, <1>t, CreateFrame
<1>11. EmbryoInv' BY <1>move, <1>act, <1>u, <1>t, EmbryoFrame
<1>12. HandleInv' BY <1>move, <1>act, <1>u, <1>t, HandleFrame
<1>13. JoinInv' BY <1>move, <1>act, <1>u, <1>t, JoinFrame
<1>14. DecimateInv'
  <2>1. gil = t
    BY <1>t DEF GilInv
  <2>2. \A x \in Thread : pc'[x] \notin {"dec_ctid", "dec_status"}
    BY <1>t, <1>act, <2>1 DEF TypeOK, GilInv
  <2>3. \A x \in Thread : \A w \in batch[x] : w # v
    BY SMTT(40), <1>u, <1>act DEF TypeOK, DecimateInv
  <2>4. \A x \in Thread : \A w \in batch[x] : pc'[w] = "gone" /\ \A b \in Actor : tgt'[b] # w
    BY ZenonT(40), <1>t, <1>act, <2>3 DEF TypeOK, DecimateInv
  <2>5. QED BY <1>act, <2>2, <2>4 DEF DecimateInv
<1> QED BY <1>1, <1>2, <1>3, <1>4, <1>5, <1>6, <1>7, <1>8, <1>9, <1>10, <1>11,
     <1>12, <1>13, <1>14

(* pthread_kill() within the walk takes a lease ...                        *)
LEMMA CancelRefKeepsIInv ==
    ASSUME Discipline, IInv, NEW t \in Thread, CancelRef(t)
    PROVE  IInv'
<1> USE DEF CancelRef
<1>v. PICK v \in Thread : v = tgt[t] /\ obj[v] = "live" /\ ~exited
  BY DEF TargetInv, LiveInv, PcInv
<1>move. /\ Moves(t) /\ pc[t] = "ca_ref" /\ pc'[t] = "ca_unref"
         /\ tgt'[t] = tgt[t]
         /\ t \notin exiting /\ ~exited
         /\ UNCHANGED <<list, count, gil, status, ctid, obj, exiting, atexit, exited, handles, cur, batch, ret>>
  BY DEF Moves, TypeOK, PcInv
<1>type. pc' \in [Actor -> Pc] /\ tgt' \in [Actor -> Thread \cup {Nobody}]
  BY DEF TypeOK, Pc
<1>lease. /\ t \notin Lease(v) /\ Lease(v)' = Lease(v) \cup {t}
         /\ \A u \in Thread \ {v} : Lease(u)' = Lease(u)
  BY <1>v DEF TypeOK, Lease
<1>refs. RefsInv' /\ refs' \in [Thread -> Nat]
  BY <1>v, <1>lease, LeaseTaken
<1>pop. Population' = Population BY <1>move, PopulationFrame
<1>1. TypeOK' BY <1>v, <1>refs, <1>move, <1>type DEF TypeOK
<1>2. GilInv' BY <1>move DEF TypeOK, GilInv
<1>3. ListInv' BY <1>move, ListFrame DEF ListInv
<1>4. TargetInv' BY <1>move, TargetFrame
<1>5. PcInv' BY <1>move, PcFrame
<1>6. LiveInv' BY <1>move, LiveFrame
<1>7. StatusInv' BY <1>move, StatusFrame
<1>8. RefsInv' BY <1>refs
<1>9. CountInv' /\ LoneInv' BY <1>move, <1>pop, CountFrame
<1>10. CreateInv' BY <1>move, CreateFrame
<1>11. EmbryoInv' BY <1>move, EmbryoFrame
<1>12. HandleInv' BY <1>move, HandleFrame
<1>13. JoinInv' BY <1>move, JoinFrame
<1>14. DecimateInv' BY <1>move, DecimateFrame
<1> QED BY <1>1, <1>2, <1>3, <1>4, <1>5, <1>6, <1>7, <1>8, <1>9, <1>10, <1>11,
     <1>12, <1>13, <1>14

(* ... and gives it back.                                                  *)
LEMMA CancelUnrefKeepsIInv ==
    ASSUME Discipline, IInv, NEW t \in Thread, CancelUnref(t)
    PROVE  IInv'
<1> USE DEF CancelUnref
<1>v. PICK v \in Thread : v = tgt[t] /\ obj[v] = "live" /\ ~exited
  BY DEF TargetInv, LiveInv, PcInv
<1>cur. cur' \in [Thread -> Nat]
  BY DEF TypeOK
<1>move. /\ Moves(t) /\ pc[t] = "ca_unref" /\ pc'[t] = "ca_walk"
         /\ tgt'[t] = Nobody
         /\ t \notin exiting /\ ~exited
         /\ UNCHANGED <<list, count, gil, status, ctid, obj, exiting, atexit, exited, handles, batch, ret>>
  BY DEF Moves, TypeOK, PcInv
<1>type. pc' \in [Actor -> Pc] /\ tgt' \in [Actor -> Thread \cup {Nobody}]
  BY DEF TypeOK, Pc
<1>lease. /\ t \in Lease(v) /\ Lease(v)' = Lease(v) \ {t}
         /\ \A u \in Thread \ {v} : Lease(u)' = Lease(u)
  BY <1>v DEF TypeOK, Lease
<1>refs. RefsInv' /\ refs' \in [Thread -> Nat]
  BY <1>v, <1>lease, LeaseReturned
<1>pop. Population' = Population BY <1>move, PopulationFrame
<1>1. TypeOK' BY SMTT(40), <1>v, <1>cur, <1>refs, <1>move, <1>type DEF TypeOK
<1>2. GilInv' BY <1>move DEF TypeOK, GilInv
<1>3. ListInv' BY <1>move DEF TypeOK, GilInv, ListInv
<1>4. TargetInv' BY <1>move, TargetFrame
<1>5. PcInv' BY <1>move, PcFrame
<1>6. LiveInv' BY <1>move, LiveFrame
<1>7. StatusInv' BY <1>move, StatusFrame
<1>8. RefsInv' BY <1>refs
<1>9. CountInv' /\ LoneInv' BY <1>move, <1>pop, CountFrame
<1>10. CreateInv' BY <1>move, CreateFrame
<1>11. EmbryoInv' BY <1>move, EmbryoFrame
<1>12. HandleInv' BY <1>move, HandleFrame
<1>13. JoinInv' BY <1>move, JoinFrame
<1>14. DecimateInv' BY <1>move, DecimateFrame
<1> QED BY <1>1, <1>2, <1>3, <1>4, <1>5, <1>6, <1>7, <1>8, <1>9, <1>10, <1>11,
     <1>12, <1>13, <1>14

(* The canceler releases the gil.                                          *)
LEMMA CancelReturnKeepsIInv ==
    ASSUME Discipline, IInv, NEW t \in Thread, CancelReturn(t)
    PROVE  IInv'
<1> USE DEF CancelReturn
<1>alive. ~exited
  BY DEF PcInv
<1>plain. pc[t] \notin TargetPc
  OBVIOUS
<1>type. tgt \in [Actor -> Thread \cup {Nobody}]
  BY DEF TypeOK
<1>tgt. tgt[t] = Nobody
  BY <1>alive, <1>plain, <1>type DEF TargetInv
<1>nobody. tgt[t] = Nobody /\ tgt' = tgt
  BY <1>tgt, <1>type
<1>1. TypeOK' BY <1>nobody DEF TypeOK, Pc
<1>2. Local(t)
  BY <1>nobody DEF Local, TypeOK, PcInv
<1>3. LocalInv' /\ Population' = Population BY <1>1, <1>2, LocalStep
<1>4. GilInv' /\ ListInv' /\ PcInv'
  BY <1>nobody DEF TypeOK, GilInv, ListInv, PcInv
<1>5. LoneInv' BY ZenonT(40), <1>3 DEF TypeOK, LoneInv, PcInv
<1>6. DecimateInv' BY DEF TypeOK, DecimateInv, GilInv
<1> QED BY <1>1, <1>2, <1>3, <1>4, <1>5, <1>6 DEF LocalInv

(* A signal sender takes the gil.                                          *)
LEMMA SigLockKeepsIInv ==
    ASSUME Discipline, IInv, NEW t \in Sender, SigLock(t)
    PROVE  IInv'
<1> USE DEF SigLock
<1>1. TypeOK' BY DEF TypeOK, Pc
<1>2. Local(t)
  BY DEF Local, TypeOK, PcInv
<1>3. LocalInv' /\ Population' = Population BY <1>1, <1>2, LocalStep
<1>4. GilInv' /\ ListInv' /\ PcInv' BY DEF TypeOK, GilInv, ListInv, PcInv
<1>5. LoneInv' BY <1>3 DEF TypeOK, LoneInv, PcInv
<1>6. DecimateInv' BY DEF TypeOK, DecimateInv, GilInv
<1> QED BY <1>1, <1>2, <1>3, <1>4, <1>5, <1>6 DEF LocalInv

(* The sender chooses a linked thread that runs user code, so its creator  *)
(* cannot unlink it again.                                                 *)
LEMMA SigChooseKeepsIInv ==
    ASSUME Discipline, IInv, NEW t \in Sender, SigChoose(t)
    PROVE  IInv'
<1> USE DEF SigChoose
<1>u. PICK u \in Elements(list) : ~SigMaskFull(u) /\ tgt' = [tgt EXCEPT ![t] = u]
  OBVIOUS
<1>v. u \in Thread /\ obj[u] = "live" /\ pc[u] \notin {"unborn", "embryo"}
  BY <1>u DEF TypeOK, Elements, LiveInv, SigMaskFull
<1>move. /\ Moves(t) /\ pc[t] = "sig_walk" /\ pc'[t] = "sig_ref"
         /\ tgt'[t] = u
         /\ ~exited
         /\ UNCHANGED <<list, count, gil, status, refs, ctid, obj, exiting, atexit, exited, handles, cur, batch, ret>>
  BY <1>u, <1>v DEF Moves, TypeOK, PcInv
<1>type. pc' \in [Actor -> Pc] /\ tgt' \in [Actor -> Thread \cup {Nobody}]
  BY <1>u, <1>v DEF TypeOK, Pc
<1>lease. \A w \in Thread : Lease(w)' = Lease(w)
  BY <1>u, <1>v DEF TypeOK, Lease
<1>pop. Population' = Population BY <1>move, <1>u, <1>v, PopulationFrame
<1>1. TypeOK' BY <1>u, <1>v, <1>move, <1>type DEF TypeOK
<1>2. GilInv' BY <1>u, <1>v, <1>move DEF TypeOK, GilInv
<1>3. ListInv' BY <1>move, <1>u, <1>v, ListFrame DEF ListInv
<1>4. TargetInv' BY <1>move, <1>u, <1>v, TargetFrame
<1>5. PcInv' BY <1>u, <1>v, <1>move DEF TypeOK, PcInv
<1>6. LiveInv' BY <1>move, <1>u, <1>v, LiveFrame
<1>7. StatusInv' BY <1>move, <1>u, <1>v, StatusFrame
<1>8. RefsInv' BY <1>u, <1>v, <1>lease, <1>move DEF RefsInv
<1>9. CountInv' /\ LoneInv' BY <1>move, <1>u, <1>v, <1>pop, CountFrame
<1>10. CreateInv' BY <1>move, <1>u, <1>v, CreateFrame
<1>11. EmbryoInv' BY <1>move, <1>u, <1>v, EmbryoFrame
<1>12. HandleInv' BY <1>move, <1>u, <1>v, HandleFrame
<1>13. JoinInv' BY <1>move, <1>u, <1>v, JoinFrame
<1>14. DecimateInv' BY <1>move, <1>u, <1>v, DecimateFrame
<1> QED BY <1>1, <1>2, <1>3, <1>4, <1>5, <1>6, <1>7, <1>8, <1>9, <1>10, <1>11,
     <1>12, <1>13, <1>14

(* The sender finds every thread masked.                                   *)
LEMMA SigNoneKeepsIInv ==
    ASSUME Discipline, IInv, NEW t \in Sender, SigNone(t)
    PROVE  IInv'
<1> USE DEF SigNone
<1>1. TypeOK' BY DEF TypeOK, Pc
<1>2. Local(t)
  BY DEF Local, TypeOK, PcInv
<1>3. LocalInv' /\ Population' = Population BY <1>1, <1>2, LocalStep
<1>4. GilInv' /\ ListInv' /\ PcInv' BY DEF TypeOK, GilInv, ListInv, PcInv
<1>5. LoneInv' BY <1>3 DEF TypeOK, LoneInv, PcInv
<1>6. DecimateInv' BY DEF TypeOK, DecimateInv, GilInv
<1> QED BY <1>1, <1>2, <1>3, <1>4, <1>5, <1>6 DEF LocalInv

(* The sender takes its lease before it releases the gil.                  *)
LEMMA SigRefKeepsIInv ==
    ASSUME Discipline, IInv, NEW t \in Sender, SigRef(t)
    PROVE  IInv'
<1> USE DEF SigRef
<1>v. PICK v \in Thread : v = tgt[t] /\ obj[v] = "live" /\ ~exited
  BY DEF TargetInv, LiveInv, PcInv
<1>move. /\ Moves(t) /\ pc[t] = "sig_ref" /\ pc'[t] = "unref"
         /\ tgt'[t] = tgt[t]
         /\ ~exited
         /\ UNCHANGED <<list, count, status, ctid, obj, exiting, atexit, exited, handles, cur, batch, ret>>
  BY DEF Moves, TypeOK, PcInv
<1>type. pc' \in [Actor -> Pc] /\ tgt' \in [Actor -> Thread \cup {Nobody}]
  BY DEF TypeOK, Pc
<1>lease. /\ t \notin Lease(v) /\ Lease(v)' = Lease(v) \cup {t}
         /\ \A u \in Thread \ {v} : Lease(u)' = Lease(u)
  BY <1>v DEF TypeOK, Lease
<1>refs. RefsInv' /\ refs' \in [Thread -> Nat]
  BY <1>v, <1>lease, LeaseTaken
<1>pop. Population' = Population BY <1>move, PopulationFrame
<1>1. TypeOK' BY <1>v, <1>refs, <1>move, <1>type DEF TypeOK
<1>2. GilInv' BY <1>move, GilFrame
<1>3. ListInv' BY <1>move, ListFrame DEF ListInv
<1>4. TargetInv' BY <1>move, TargetFrame
<1>5. PcInv' BY <1>move DEF TypeOK, PcInv
<1>6. LiveInv' BY <1>move, LiveFrame
<1>7. StatusInv' BY <1>move, StatusFrame
<1>8. RefsInv' BY <1>refs
<1>9. CountInv' /\ LoneInv' BY <1>move, <1>pop, CountFrame
<1>10. CreateInv' BY SMTT(40), <1>move DEF TypeOK, CreateInv, TargetInv
<1>11. EmbryoInv' BY <1>move, EmbryoFrame
<1>12. HandleInv' BY <1>move, HandleFrame
<1>13. JoinInv' BY <1>move, JoinFrame
<1>14. DecimateInv' BY <1>move DEF TypeOK, DecimateInv, GilInv
<1> QED BY <1>1, <1>2, <1>3, <1>4, <1>5, <1>6, <1>7, <1>8, <1>9, <1>10, <1>11,
     <1>12, <1>13, <1>14

-----------------------------------------------------------------------------
(* Nothing happens, nothing changes.                                       *)
LEMMA StutterKeepsIInv == IInv /\ UNCHANGED vars => IInv'
<1> SUFFICES ASSUME IInv, UNCHANGED vars PROVE IInv'
  OBVIOUS
<1> USE DEF vars
<1>1. TypeOK' /\ GilInv' /\ ListInv' /\ TargetInv' /\ PcInv'
  BY DEF TypeOK, GilInv, ListInv, TargetInv, PcInv
<1>2. RefsInv' /\ CountInv' /\ LoneInv'
  BY DEF RefsInv, Lease, CountInv, LoneInv, Population, Counted, Running
<1>3. LiveInv' /\ StatusInv' /\ CreateInv' /\ EmbryoInv'
  BY DEF LiveInv, Running, StatusInv, CreateInv, EmbryoInv
<1>4. HandleInv' /\ JoinInv' /\ DecimateInv'
  BY DEF HandleInv, JoinInv, DecimateInv
<1> QED
  BY <1>1, <1>2, <1>3, <1>4

(* Initially there is the main thread only, running.                       *)
LEMMA InitIInv == Discipline /\ Init => IInv
<1> SUFFICES ASSUME Discipline, Init PROVE IInv
  OBVIOUS
<1>1. list \in Seq(Thread) /\ Len(list) = 1 /\ list[1] = Main
  BY DEF Init
<1>2. Elements(list) = {Main} /\ Distinct(list)
  BY <1>1 DEF Elements, Distinct
<1>3. Population = {Main} /\ Cardinality({Main}) = 1
  BY ZenonT(40), FS_Singleton DEF Population, Counted, Running, Init
<1>4. \A t \in Thread : Lease(t) = {} /\ Cardinality({}) = 0
  BY FS_EmptySet DEF Lease, Init
<1> USE DEF Init
<1>5. TypeOK
  <2>1. pc \in [Actor -> Pc]
    BY DEF Pc
  <2>2. status \in [Thread -> Status]
    BY DEF Status, kJoinable, kZombie
  <2>3. QED
    BY <1>1, <2>1, <2>2, OpsAssumption DEF TypeOK
<1>6. GilInv /\ ListInv /\ TargetInv /\ PcInv
  BY <1>2 DEF GilInv, ListInv, TargetInv, PcInv, Discipline
<1>7. RefsInv /\ CountInv /\ LoneInv
  BY <1>3, <1>4 DEF RefsInv, CountInv, LoneInv
<1>8. LiveInv /\ StatusInv /\ CreateInv /\ EmbryoInv
  BY <1>2 DEF LiveInv, Running, StatusInv, CreateInv, EmbryoInv
<1>9. HandleInv /\ JoinInv /\ DecimateInv
  BY <1>2 DEF HandleInv, JoinInv, DecimateInv
<1> QED
  BY <1>5, <1>6, <1>7, <1>8, <1>9

(* Every step keeps the invariant.                                         *)
LEMMA StepKeepsIInv == Discipline /\ IInv /\ [Next]_vars => IInv'
<1> SUFFICES ASSUME Discipline, IInv, [Next]_vars PROVE IInv'
  OBVIOUS
<1>1. CASE UNCHANGED vars
  BY <1>1, StutterKeepsIInv
<1>2. ASSUME NEW t \in Thread, Call(t) PROVE IInv'
  BY <1>2, Pthread_createKeepsIInv, Pthread_exitKeepsIInv,
     Pthread_detachKeepsIInv, Pthread_joinKeepsIInv, Pthread_killKeepsIInv,
     Pthread_cancel_everyoneKeepsIInv, Pthread_decimate_npKeepsIInv,
     Pthread_orphan_npKeepsIInv, JoinFailsKeepsIInv
     DEF Call
<1>3. ASSUME NEW t \in Thread, Lock(t) PROVE IInv'
  BY <1>3, DecimateLockKeepsIInv, CreateLinkKeepsIInv, CreateUnlinkKeepsIInv,
     ExitOrphanKeepsIInv, ExitZombifyKeepsIInv, DetachZombifyKeepsIInv,
     JoinMakeLastKeepsIInv, JoinRemoveKeepsIInv
     DEF Lock
<1>4. ASSUME NEW t \in Thread, Decimate(t) PROVE IInv'
  BY <1>4, DecimateRefsKeepsIInv, DecimateCtidKeepsIInv,
     DecimateStatusTakesKeepsIInv, DecimateStatusSkipsKeepsIInv,
     DecimateUnlockKeepsIInv, DecimateFreeKeepsIInv,
     DecimateReturnKeepsIInv
     DEF Decimate
<1>5. ASSUME NEW t \in Thread, Create(t) PROVE IInv'
  BY <1>5, CreateAllocKeepsIInv, CreateNoMemoryKeepsIInv, CreateCountKeepsIInv,
     CreateCloneKeepsIInv, CreateCloneFailsKeepsIInv,
     CreateUncountKeepsIInv, CreateFreeKeepsIInv, CreateUnrefKeepsIInv
     DEF Create
<1>6. ASSUME NEW t \in Thread, Exit(t) PROVE IInv'
  BY <1>6, ExitCountKeepsIInv, ExitSpawnKeepsIInv, ExitFinalizeKeepsIInv,
     ExitPopulationKeepsIInv, ExitStatusKeepsIInv, ExitProcessKeepsIInv,
     ExitThreadKeepsIInv
     DEF Exit
<1>7. ASSUME NEW t \in Thread, Finish(t) PROVE IInv'
  BY <1>7, StartRoutineKeepsIInv, OrphanReturnKeepsIInv, DetachStatusKeepsIInv,
     JoinWaitKeepsIInv, JoinRefsKeepsIInv, JoinZombieKeepsIInv,
     JoinFreeKeepsIInv, KillReturnKeepsIInv, CancelWalkKeepsIInv,
     CancelRefKeepsIInv, CancelUnrefKeepsIInv, CancelReturnKeepsIInv
     DEF Finish
<1>8. ASSUME NEW a \in Actor, Unref(a) PROVE IInv'
  BY <1>8, UnrefKeepsIInv
<1>9. ASSUME NEW s \in Sender, Signal(s) PROVE IInv'
  BY <1>8, <1>9, SigLockKeepsIInv, SigChooseKeepsIInv, SigNoneKeepsIInv,
     SigRefKeepsIInv DEF Signal
<1> QED
  BY <1>1, <1>2, <1>3, <1>4, <1>5, <1>6, <1>7, <1>8, <1>9
     DEF Next, Run, Done

(* The invariant holds in every reachable state.                           *)
LEMMA Invariance ==
    ASSUME Discipline
    PROVE  Spec => []IInv
<1> HIDE DEF IInv
<1>1. Init => IInv
  BY InitIInv
<1>2. IInv /\ [Next]_vars => IInv'
  BY StepKeepsIInv
<1>3. QED
  BY <1>1, <1>2, PTL DEF Spec

(* pt_refs and _pthread_count never go below zero, although exiting        *)
(* threads decrement the count and lessees pt_refs without a lock.         *)
THEOREM TypeCorrect ==
    ASSUME Discipline
    PROVE  Spec => []TypeOK
<1>1. IInv => TypeOK
  OBVIOUS
<1> HIDE DEF IInv
<1>2. QED
  BY <1>1, Invariance, PTL

(* No thread object is freed while it is linked, targeted, about to be     *)
(* freed by another actor, or has a thread running on its stack.           *)
THEOREM MemorySafety ==
    ASSUME Discipline
    PROVE  Spec => []NoUseAfterFree
<1>1. IInv => NoUseAfterFree
  BY DEF NoUseAfterFree, LiveInv, Running, TypeOK
<1> HIDE DEF IInv
<1>2. QED
  BY <1>1, Invariance, PTL

(* The assertion that _pthread_free() starts with never fails: the object  *)
(* it is given is on no list.                                              *)
THEOREM FreeAsserted ==
    ASSUME Discipline
    PROVE  Spec => []FreeAssertion
<1>1. IInv => FreeAssertion
  BY DEF FreeAssertion, DecimateInv, CreateInv, JoinInv
<1> HIDE DEF IInv
<1>2. QED
  BY <1>1, Invariance, PTL

(* The assertion of pthread_orphan_np() never fails: whoever is alone on   *)
(* the list finds a count of at most one.                                  *)
THEOREM OrphanAsserted ==
    ASSUME Discipline
    PROVE  Spec => []OrphanAssertion
<1>1. ASSUME IInv, NEW t \in Thread, pc[t] \in {"ex_population", "np_orphan"}
      PROVE  count <= 1
  <2>1. CASE pc[t] = "ex_population"
    BY <1>1, <2>1 DEF LoneInv, PcInv
  <2>2. CASE pc[t] = "np_orphan"
    <3>1. Population \in SUBSET {t} /\ ~exited
      BY <1>1, <2>2 DEF LoneInv, PcInv
    <3>2. Cardinality(Population) <= Cardinality({t})
      BY <3>1, FS_Subset, FS_Singleton
    <3>3. QED
      BY <1>1, <3>1, <3>2, FS_Singleton DEF CountInv
  <2>3. QED
    BY <1>1, <2>1, <2>2
<1>2. IInv => OrphanAssertion
  BY <1>1 DEF OrphanAssertion
<1> HIDE DEF IInv
<1>3. QED
  BY <1>2, Invariance, PTL

(* The garbage collector leaves the object of an open handle alone: a join *)
(* finds it live, and joinable or terminated.                              *)
THEOREM HandlesStayValid ==
    ASSUME Discipline
    PROVE  Spec => []HandlesValid
<1>1. IInv => HandlesValid
  BY DEF HandlesValid, HandleInv, LiveInv
<1> HIDE DEF IInv
<1>2. QED
  BY <1>1, Invariance, PTL

(* The step of LegalTransitions for one transition of the program          *)
Legal == \A u \in Thread : obj[u] = "live" /\ status'[u] # status[u]
            => LegalTransition(status[u], status'[u])

(* Whatever step changes pt_status of an existing thread follows an arrow. *)
LEMMA StepsAreLegal == Discipline /\ IInv /\ Next => Legal
<1> SUFFICES ASSUME Discipline, IInv, Next PROVE Legal
  OBVIOUS
<1> USE DEF Legal
<1>1. ASSUME NEW t \in Thread, JoinZombie(t) PROVE Legal
  <2>1. tgt[t] \in Thread /\ status[tgt[t]] = kTerminated
    BY <1>1 DEF JoinZombie, HandleInv, JoinInv, StatusInv, PcInv, TargetInv,
       kJoinable, kTerminated, kZombie
  <2>2. QED
    BY <1>1, <2>1 DEF JoinZombie, LegalTransition, TypeOK
<1>2. ASSUME NEW t \in Thread, DetachStatus(t) PROVE Legal
  <2>1. tgt[t] = t /\ status[t] \in {kJoinable, kDetached}
    BY <1>2 DEF DetachStatus, CreateInv, StatusInv
  <2>2. QED
    BY <1>2, <2>1 DEF DetachStatus, LegalTransition, TypeOK, kJoinable,
       kDetached, kTerminated
<1>3. ASSUME NEW t \in Thread, ExitStatus(t) PROVE Legal
  <2>1. status[t] \in {kJoinable, kDetached}
    BY <1>3 DEF ExitStatus, StatusInv
  <2>2. \A u \in Thread : status'[u] # status[u]
            => u = t /\ status'[t] = ExitTransition(status[t])
    BY <1>3 DEF ExitStatus, TypeOK
  <2>3. LegalTransition(status[t], ExitTransition(status[t]))
    BY <2>1 DEF LegalTransition, ExitTransition, kJoinable, kDetached
  <2>4. QED
    BY <2>2, <2>3
<1>4. ASSUME NEW t \in Thread, CreateAlloc(t) PROVE Legal
  BY <1>4 DEF CreateAlloc, TypeOK
<1>5. ASSUME NEW t \in Thread, Call(t) \/ Lock(t) PROVE UNCHANGED status
  BY <1>5 DEF Call, Lock, pthread_create, pthread_exit, pthread_detach,
     pthread_join, pthread_kill, pthread_cancel_everyone, pthread_decimate_np,
     pthread_orphan_np, JoinFails, DecimateLock, CreateLink, CreateUnlink,
     ExitOrphan, ExitZombify, DetachZombify, JoinMakeLast, JoinRemove
<1>6. ASSUME NEW t \in Thread, Decimate(t) PROVE UNCHANGED status
  BY <1>6 DEF Decimate, DecimateRefs, DecimateCtid, DecimateStatus,
     DecimateUnlock, DecimateFree, DecimateReturn
<1>7. ASSUME NEW t \in Thread, Create(t), ~CreateAlloc(t) PROVE UNCHANGED status
  BY <1>7 DEF Create, CreateNoMemory, CreateCount, CreateClone,
     CreateCloneFails, CreateUncount, CreateFree, CreateUnref
<1>8. ASSUME NEW t \in Thread, Exit(t), ~ExitStatus(t) PROVE UNCHANGED status
  BY <1>8 DEF Exit, ExitCount, ExitSpawn, ExitFinalize, ExitPopulation,
     ExitProcess, ExitThread
<1>9. ASSUME NEW t \in Thread, Finish(t), ~DetachStatus(t), ~JoinZombie(t)
      PROVE  UNCHANGED status
  BY <1>9 DEF Finish, StartRoutine, OrphanReturn, JoinWait, JoinRefs, JoinFree,
     KillReturn, CancelWalk, CancelRef, CancelUnref, CancelReturn
<1>10. ASSUME NEW a \in Actor, Unref(a) \/ SigLock(a) \/ SigChoose(a) \/ SigNone(a) \/ SigRef(a)
       PROVE  UNCHANGED status
  BY <1>10 DEF Unref, SigLock, SigChoose, SigNone, SigRef
<1>11. Done => UNCHANGED status
  BY DEF Done, vars
<1>12. ASSUME NEW s \in Sender, Signal(s) PROVE UNCHANGED status
  BY <1>10, <1>12 DEF Signal
<1>13. ASSUME NEW t \in Thread, Run(t) PROVE Legal
  BY <1>1, <1>2, <1>3, <1>4, <1>6, <1>7, <1>8, <1>9, <1>10, <1>13 DEF Run
<1> QED
  BY <1>5, <1>11, <1>12, <1>13 DEF Next

(* pt_status changes only along the arrows of the "LEGAL TRANSITIONS"      *)
(* diagram, although exit, detach and join store it without a common lock. *)
THEOREM StatusDiagram ==
    ASSUME Discipline
    PROVE  Spec => LegalTransitions
<1> HIDE DEF IInv
<1>1. IInv /\ [Next]_vars
        => [\A t \in Thread : obj[t] = "live" /\ status'[t] # status[t]
                => LegalTransition(status[t], status'[t])]_vars
  BY StepsAreLegal DEF Legal
<1>2. QED
  BY <1>1, Invariance, PTL DEF Spec, LegalTransitions

-----------------------------------------------------------------------------
(* The order of the list                                                   *)

Before(s, x, y) == \E i, j \in 1..Len(s) : i < j /\ s[i] = x /\ s[j] = y

(* A zombie that has been moved to the end of the list, or has left its    *)
(* stack; and an object that pthread_join() makes a zombie.                *)
Settled(u) == status[u] = kZombie /\ (pc[u] = "ex_last" \/ ~ctid[u])
Joined(u) == \E a \in Thread : pc[a] = "join_zombie" /\ tgt[a] = u

(* Only zombies follow a settled zombie, but for one that is being made in *)
(* a critical section, and that one is the last object. (The process may   *)
(* end within a critical section.)                                         *)
ZombieInv ==
    (exited => gil = Nobody) =>
        /\ \A x, y \in Thread :
              Before(list, x, y) /\ Settled(x) => status[y] = kZombie \/ Joined(y)
        /\ \A a \in Thread :
              pc[a] = "join_zombie" => \A y \in Thread : ~Before(list, tgt[a], y)

(* A thread about to move its object to the end of the list has made it a  *)
(* zombie.                                                                 *)
ZombifyInv == \A t \in Thread : pc[t] = "ex_zombify" => status[t] = kZombie

(* Taking an object off a list keeps the order of the others.              *)
LEMMA RemoveOrder ==
    ASSUME NEW s \in Seq(Thread), NEW i \in 1..Len(s), NEW x, NEW y,
           Before(DllRemoveAt(s, i), x, y)
    PROVE  Before(s, x, y)
<1> DEFINE r == DllRemoveAt(s, i)
<1>1. Len(s) - 1 \in Nat /\ Len(s) \in Nat
  OBVIOUS
<1>2. r = [j \in 1..(Len(s) - 1) |-> IF j < i THEN s[j] ELSE s[j + 1]]
  BY DEF DllRemoveAt
<1>3. Len(r) = Len(s) - 1
  <2>1. r \in [1..(Len(s) - 1) -> Thread]
    BY <1>1, <1>2
  <2> HIDE DEF r
  <2> QED BY <1>1, <2>1
<1>4. \A j \in 1..(Len(s) - 1) : r[j] = IF j < i THEN s[j] ELSE s[j + 1]
  BY <1>2
<1>5. PICK a \in 1..Len(r), b \in 1..Len(r) : a < b /\ r[a] = x /\ r[b] = y
  BY DEF Before
<1> HIDE DEF r
<1>6. PICK p \in 1..Len(s) : r[a] = s[p] /\ p = IF a < i THEN a ELSE a + 1
  BY <1>1, <1>3, <1>4
<1>7. PICK q \in 1..Len(s) : r[b] = s[q] /\ q = IF b < i THEN b ELSE b + 1
  BY <1>1, <1>3, <1>4
<1>8. p < q
  BY <1>1, <1>5, <1>6, <1>7
<1> QED BY <1>5, <1>6, <1>7, <1>8 DEF Before

LEMMA DllRemoveOrder ==
    ASSUME NEW s \in Seq(Thread), NEW u, NEW x, NEW y, Before(dll_remove(s, u), x, y)
    PROVE  Before(s, x, y)
<1>1. CASE u \in Elements(s)
  <2>1. Index(s, u) \in 1..Len(s)
    BY <1>1 DEF Elements, Index
  <2>2. dll_remove(s, u) = DllRemoveAt(s, Index(s, u))
    BY <1>1 DEF dll_remove
  <2> QED BY <2>1, <2>2, RemoveOrder
<1>2. CASE u \notin Elements(s)
  BY <1>2 DEF dll_remove
<1> QED BY <1>1, <1>2

(* A new first object is before the others.                                *)
LEMMA FirstOrder ==
    ASSUME NEW s \in Seq(Thread), NEW u \in Thread, NEW x, NEW y, Before(dll_make_first(s, u), x, y)
    PROVE  x = u \/ Before(s, x, y)
<1> DEFINE r == dll_make_first(s, u)
<1>1. Len(r) = Len(s) + 1 /\ Len(s) \in Nat
  BY DEF dll_make_first
<1>2. r[1] = u /\ \A j \in 1..Len(s) : r[j + 1] = s[j]
  BY DEF dll_make_first
<1>3. PICK a \in 1..Len(r), b \in 1..Len(r) : a < b /\ r[a] = x /\ r[b] = y
  BY DEF Before
<1> HIDE DEF r
<1>4. CASE a = 1
  BY <1>2, <1>3, <1>4
<1>5. CASE a # 1
  <2>1. a - 1 \in 1..Len(s) /\ b - 1 \in 1..Len(s) /\ a - 1 < b - 1
    BY <1>1, <1>3, <1>5
  <2>2. s[a - 1] = x /\ s[b - 1] = y
    <3>1. r[(a - 1) + 1] = s[a - 1] /\ r[(b - 1) + 1] = s[b - 1]
      BY <1>2, <2>1
    <3>2. (a - 1) + 1 = a /\ (b - 1) + 1 = b
      BY <1>1
    <3> QED BY <1>3, <3>1, <3>2
  <2> QED BY <2>1, <2>2 DEF Before
<1> QED BY <1>4, <1>5

(* An object that is moved to the end is after the others, and nothing is  *)
(* after it.                                                               *)
LEMMA LastOrder ==
    ASSUME NEW s \in Seq(Thread), Distinct(s), NEW u \in Thread, NEW x, NEW y,
           Before(MoveLast(s, u), x, y)
    PROVE  x # u /\ (y = u \/ Before(s, x, y))
<1>1. PICK q : q = dll_remove(s, u)
  OBVIOUS
<1>2. q \in Seq(Thread) /\ Distinct(q) /\ u \notin Elements(q)
  BY <1>1, Remove
<1>3. PICK r : r = Append(q, u)
  OBVIOUS
<1>4. MoveLast(s, u) = r
  BY <1>1, <1>3 DEF MoveLast, dll_make_last
<1>5. Len(r) = Len(q) + 1 /\ Len(q) \in Nat /\ r[Len(q) + 1] = u /\ \A j \in 1..Len(q) : r[j] = q[j]
  BY <1>2, <1>3
<1>6. PICK a \in 1..Len(r), b \in 1..Len(r) : a < b /\ r[a] = x /\ r[b] = y
  BY <1>4 DEF Before
<1>7. a \in 1..Len(q) /\ q[a] = x
  BY <1>5, <1>6
<1>8. x # u
  BY <1>2, <1>7 DEF Elements
<1>9. CASE b = Len(q) + 1
  BY <1>5, <1>6, <1>8, <1>9
<1>10. CASE b # Len(q) + 1
  <2>1. b \in 1..Len(q) /\ q[b] = y
    BY <1>5, <1>6, <1>10
  <2>2. Before(q, x, y)
    BY <1>6, <1>7, <2>1 DEF Before
  <2> QED BY <1>1, <1>8, <2>2, DllRemoveOrder
<1> QED BY <1>9, <1>10

(* What keeps ZombieInv.                                                   *)
LEMMA ZombieFrame ==
    ASSUME IInv, ZombieInv, exited' = exited, gil' = gil \/ ~exited,
           \A x, y \in Thread : Before(list', x, y) => Before(list, x, y),
           \A x \in Thread : Settled(x)' => Settled(x),
           \A x, y \in Thread : Before(list, x, y) /\ status[y] = kZombie => status'[y] = kZombie,
           \A a \in Thread : pc[a] = "join_zombie" \/ pc'[a] = "join_zombie"
                                => pc'[a] = pc[a] /\ tgt'[a] = tgt[a]
    PROVE  ZombieInv'
<1> HIDE DEF IInv
<1> SUFFICES ASSUME exited' => gil' = Nobody
             PROVE  /\ \A x, y \in Thread :
                          Before(list', x, y) /\ Settled(x)' => status'[y] = kZombie \/ Joined(y)'
                    /\ \A a \in Thread :
                          pc'[a] = "join_zombie" => \A y \in Thread : ~Before(list', tgt'[a], y)
  BY DEF ZombieInv, Before
<1>1. exited => gil = Nobody
  OBVIOUS
<1>2. ASSUME NEW x \in Thread, NEW y \in Thread, Before(list', x, y), Settled(x)'
      PROVE  status'[y] = kZombie \/ Joined(y)'
  <2>1. Before(list, x, y) /\ Settled(x)
    BY <1>2
  <2>2. status[y] = kZombie \/ Joined(y)
    BY <1>1, <2>1 DEF ZombieInv
  <2>3. Joined(y) => Joined(y)'
    BY DEF Joined
  <2> QED BY <2>1, <2>2, <2>3
<1>3. ASSUME NEW a \in Thread, pc'[a] = "join_zombie", NEW y \in Thread
      PROVE  ~Before(list', tgt'[a], y)
  <2>1. pc[a] = "join_zombie" /\ tgt'[a] = tgt[a] /\ tgt[a] \in Thread
    BY <1>3 DEF IInv, TargetInv
  <2>2. ~Before(list, tgt[a], y)
    BY <1>1, <2>1 DEF ZombieInv
  <2> QED BY <2>1, <2>2
<1> QED BY <1>2, <1>3

(* A step that ZombieInv does not depend on.                               *)
Still ==
    /\ UNCHANGED <<list, status, ctid, exited>>
    /\ gil' = gil \/ ~exited
    /\ \A a \in Thread : pc[a] = "join_zombie" \/ pc'[a] \in {"join_zombie", "ex_zombify", "ex_last"}
                            => pc'[a] = pc[a] /\ tgt'[a] = tgt[a]

LEMMA StillKeeps ==
    ASSUME IInv, ZombieInv, Still
    PROVE  ZombieInv'
<1> HIDE DEF IInv
<1>1. \A x \in Thread : Settled(x)' => Settled(x)
  BY DEF Settled, Still
<1>2. \A a \in Thread : pc[a] = "join_zombie" \/ pc'[a] = "join_zombie"
                            => pc'[a] = pc[a] /\ tgt'[a] = tgt[a]
  BY DEF Still
<1>3. \A x, y \in Thread : Before(list', x, y) => Before(list, x, y)
  BY DEF Still
<1>4. \A x, y \in Thread : Before(list, x, y) /\ status[y] = kZombie => status'[y] = kZombie
  BY DEF Still
<1>5. exited' = exited /\ (gil' = gil \/ ~exited)
  BY DEF Still
<1> QED BY <1>1, <1>2, <1>3, <1>4, <1>5, ZombieFrame

LEMMA StillSteps ==
    ASSUME Discipline, IInv
    PROVE  /\ \A t \in Thread : Call(t) => Still
           /\ \A t \in Thread : DecimateLock(t) \/ ExitOrphan(t) => Still
           /\ \A t \in Thread : Decimate(t) /\ ~DecimateStatus(t) => Still
           /\ \A t \in Thread : Create(t) /\ ~CreateAlloc(t) => Still
           /\ \A t \in Thread : Exit(t) /\ ~ExitStatus(t) /\ ~ExitProcess(t) /\ ~ExitThread(t) => Still
           /\ \A t \in Thread : Finish(t) /\ ~DetachStatus(t) /\ ~JoinZombie(t) => Still
           /\ \A a \in Actor : Unref(a) \/ SigLock(a) \/ SigChoose(a) \/ SigNone(a) \/ SigRef(a) => Still
<1>0. /\ pc \in [Actor -> Pc] /\ tgt \in [Actor -> Thread \cup {Nobody}] /\ Thread \subseteq Actor
      /\ ret \in [Thread -> {"run", "cr_alloc", "ex_orphan"}]
      /\ exited => \A a \in Actor : pc[a] = "gone"
      /\ \A a \in Thread : pc[a] \in CreatingPc => tgt[a] \in Thread /\ pc[tgt[a]] = "embryo"
  BY DEF TypeOK, PcInv, CreateInv, TargetInv, TargetPc
<1> HIDE DEF IInv
<1> USE DEF Still
<1>1. ASSUME NEW t \in Thread, Call(t) PROVE Still
  <2>1. CASE pthread_create(t) \/ pthread_decimate_np(t) \/ pthread_orphan_np(t)
    BY <1>0, <2>1 DEF pthread_create, pthread_decimate_np, pthread_orphan_np
  <2>2. CASE pthread_exit(t)
    BY <1>0, <2>2 DEF pthread_exit
  <2>3. CASE pthread_detach(t) \/ pthread_join(t) \/ pthread_kill(t)
    BY <1>0, <2>3 DEF pthread_detach, pthread_join, pthread_kill
  <2>4. CASE pthread_cancel_everyone(t)
    BY <1>0, <2>4 DEF pthread_cancel_everyone
  <2>5. CASE JoinFails(t)
    BY <1>0, <2>5 DEF JoinFails
  <2> QED BY <1>1, <2>1, <2>2, <2>3, <2>4, <2>5 DEF Call
<1>2. ASSUME NEW t \in Thread, DecimateLock(t) \/ ExitOrphan(t) PROVE Still
  BY <1>0, <1>2 DEF DecimateLock, ExitOrphan
<1>3. ASSUME NEW t \in Thread, Decimate(t), ~DecimateStatus(t) PROVE Still
  BY <1>0, <1>3 DEF Decimate, DecimateRefs, DecimateCtid, DecimateUnlock, DecimateFree, DecimateReturn
<1>4. ASSUME NEW t \in Thread, Create(t), ~CreateAlloc(t) PROVE Still
  <2>1. CASE CreateNoMemory(t) \/ CreateFree(t) \/ CreateUnref(t)
    BY <1>0, <2>1 DEF CreateNoMemory, CreateFree, CreateUnref
  <2>2. CASE CreateCount(t) \/ CreateUncount(t) \/ CreateCloneFails(t)
    BY <1>0, <2>2 DEF CreateCount, CreateUncount, CreateCloneFails
  <2>3. CASE CreateClone(t)
    BY <1>0, <2>3 DEF CreateClone
  <2> QED BY <1>4, <2>1, <2>2, <2>3 DEF Create
<1>5. ASSUME NEW t \in Thread, Exit(t), ~ExitStatus(t), ~ExitProcess(t), ~ExitThread(t) PROVE Still
  BY <1>0, <1>5 DEF Exit, ExitCount, ExitSpawn, ExitFinalize, ExitPopulation
<1>6. ASSUME NEW t \in Thread, Finish(t), ~DetachStatus(t), ~JoinZombie(t) PROVE Still
  <2>1. CASE StartRoutine(t) \/ OrphanReturn(t) \/ JoinWait(t) \/ JoinRefs(t)
    BY <1>0, <2>1 DEF StartRoutine, OrphanReturn, JoinWait, JoinRefs
  <2>2. CASE JoinFree(t) \/ KillReturn(t) \/ CancelReturn(t)
    BY <1>0, <2>2 DEF JoinFree, KillReturn, CancelReturn
  <2>3. CASE CancelWalk(t) \/ CancelRef(t) \/ CancelUnref(t)
    BY <1>0, <2>3 DEF CancelWalk, CancelRef, CancelUnref
  <2> QED BY <1>6, <2>1, <2>2, <2>3 DEF Finish
<1>7. ASSUME NEW a \in Actor, Unref(a) \/ SigLock(a) \/ SigChoose(a) \/ SigNone(a) \/ SigRef(a)
      PROVE  Still
  <2>1. CASE Unref(a)
    BY <1>0, <2>1 DEF Unref
  <2>2. CASE SigLock(a) \/ SigChoose(a) \/ SigNone(a) \/ SigRef(a)
    BY <1>0, <2>2 DEF SigLock, SigChoose, SigNone, SigRef
  <2> QED BY <1>7, <2>1, <2>2
<1> HIDE DEF Still
<1> QED BY <1>1, <1>2, <1>3, <1>4, <1>5, <1>6, <1>7

(* Unlinking an object.                                                    *)
LEMMA UnlinkKeepsZombies ==
    ASSUME Discipline, IInv, ZombieInv, NEW t \in Thread,
           DecimateStatus(t) \/ CreateUnlink(t) \/ JoinRemove(t)
    PROVE  ZombieInv'
<1>0. /\ pc \in [Actor -> Pc] /\ Thread \subseteq Actor /\ list \in Seq(Thread)
      /\ exited => \A a \in Actor : pc[a] = "gone"
      /\ pc[t] = "dec_status" => cur[t] \in 1..Len(list)
  BY DEF TypeOK, PcInv, ListInv
<1> HIDE DEF IInv
<1>1. UNCHANGED <<status, ctid, exited, tgt>> /\ ~exited
  BY <1>0 DEF DecimateStatus, CreateUnlink, JoinRemove
<1>2. PICK l \in {"dec_refs", "cr_uncount", "join_free"} :
          pc' = [pc EXCEPT ![t] = l] /\ pc[t] \notin {"join_zombie", "ex_last"}
  BY <1>0 DEF DecimateStatus, CreateUnlink, JoinRemove
<1>3. \A a \in Thread : pc[a] = "join_zombie" \/ pc'[a] = "join_zombie"
                            => pc'[a] = pc[a] /\ tgt'[a] = tgt[a]
  BY <1>0, <1>1, <1>2
<1>4. \A x \in Thread : Settled(x)' => Settled(x)
  BY <1>0, <1>1, <1>2 DEF Settled
<1>5. ASSUME NEW x \in Thread, NEW y \in Thread, Before(list', x, y) PROVE Before(list, x, y)
  <2>1. CASE list' = list
    BY <1>5, <2>1
  <2>2. CASE list' = dll_remove(list, tgt[t])
    BY <1>0, <1>5, <2>2, DllRemoveOrder
  <2>3. CASE list' = DllRemoveAt(list, cur[t]) /\ pc[t] = "dec_status"
    BY <1>0, <1>5, <2>3, RemoveOrder
  <2> QED BY <2>1, <2>2, <2>3 DEF DecimateStatus, CreateUnlink, JoinRemove
<1> QED BY <1>1, <1>3, <1>4, <1>5, ZombieFrame

(* An object on the list is not about to be made.                          *)
LEMMA BeforeListed ==
    ASSUME IInv, NEW x, NEW y, Before(list, x, y)
    PROVE  x \in Listed /\ y \in Listed /\ obj[x] = "live" /\ obj[y] = "live"
BY DEF Before, Elements, LiveInv

(* Steps that change the status, or tib_ctid, of objects that are not      *)
(* zombies yet, or are settled.                                            *)
LEMMA StatusKeepsZombies ==
    ASSUME Discipline, IInv, ZombieInv, NEW t \in Thread,
           CreateAlloc(t) \/ ExitStatus(t) \/ ExitThread(t) \/ DetachStatus(t)
    PROVE  ZombieInv'
<1>0. /\ pc \in [Actor -> Pc] /\ Thread \subseteq Actor /\ tgt \in [Actor -> Thread \cup {Nobody}]
      /\ status \in [Thread -> Status] /\ ctid \in [Thread -> BOOLEAN]
      /\ exited => \A a \in Actor : pc[a] = "gone"
      /\ \A u \in Thread : obj[u] = "none" => pc[u] = "unborn" \/ exited
  BY DEF TypeOK, PcInv, LiveInv
<1>1. ~exited
  BY <1>0 DEF CreateAlloc, ExitStatus, ExitThread, DetachStatus
<1>2. kJoinable # kZombie /\ kDetached # kZombie /\ kTerminated # kZombie /\ kTerminated # kJoinable
  BY DEF kJoinable, kDetached, kTerminated, kZombie
<1>3. CASE CreateAlloc(t)
  <2>1. PICK u \in Thread, s \in {kJoinable, kDetached} :
            /\ obj[u] = "none" /\ status' = [status EXCEPT ![u] = s]
            /\ ctid' = [ctid EXCEPT ![u] = TRUE] /\ tgt' = [tgt EXCEPT ![t] = u]
            /\ pc' = [pc EXCEPT ![t] = "cr_link", ![u] = "embryo"]
            /\ UNCHANGED <<list, gil, exited>> /\ pc[t] = "cr_alloc"
    BY <1>3 DEF CreateAlloc
  <2>2. pc[u] = "unborn"
    BY <1>0, <1>1, <2>1
  <2>3. \A x, y \in Thread : Before(list, x, y) => y # u
    BY <2>1, BeforeListed
  <2> HIDE DEF IInv
  <2>4. \A a \in Thread : pc[a] = "join_zombie" \/ pc'[a] = "join_zombie"
                              => pc'[a] = pc[a] /\ tgt'[a] = tgt[a]
    BY <1>0, <2>1, <2>2
  <2>5. \A x \in Thread : Settled(x)' => Settled(x)
    BY <1>0, <1>2, <2>1, <2>2 DEF Settled
  <2>6. \A x, y \in Thread : Before(list, x, y) /\ status[y] = kZombie => status'[y] = kZombie
    BY <1>0, <2>1, <2>3
  <2> QED BY <2>1, <2>4, <2>5, <2>6, ZombieFrame
<1>4. CASE ExitStatus(t)
  <2>0. status[t] \in {kJoinable, kDetached} /\ ctid[t]
    BY <1>4 DEF ExitStatus, StatusInv, LiveInv, Running, TypeOK
  <2>1. PICK l \in {"ex_zombify", "ex_last"} :
            /\ pc' = [pc EXCEPT ![t] = l] /\ pc[t] = "ex_status"
            /\ (l = "ex_last" => status'[t] # kZombie)
            /\ UNCHANGED <<list, gil, exited, ctid, tgt>>
            /\ \A x \in Thread \ {t} : status'[x] = status[x]
    BY <1>0, <1>4 DEF ExitStatus
  <2> HIDE DEF IInv
  <2>2. \A a \in Thread : pc[a] = "join_zombie" \/ pc'[a] = "join_zombie"
                              => pc'[a] = pc[a] /\ tgt'[a] = tgt[a]
    BY <1>0, <2>1
  <2>3. \A x \in Thread : Settled(x)' => Settled(x)
    BY <1>0, <2>0, <2>1 DEF Settled
  <2>4. \A x, y \in Thread : Before(list, x, y) /\ status[y] = kZombie => status'[y] = kZombie
    BY <1>2, <2>0, <2>1
  <2> QED BY <2>1, <2>2, <2>3, <2>4, ZombieFrame
<1>5. CASE ExitThread(t)
  <2>1. /\ pc' = [pc EXCEPT ![t] = "gone"] /\ pc[t] = "ex_last"
        /\ ctid' = [ctid EXCEPT ![t] = FALSE]
        /\ UNCHANGED <<list, gil, exited, status, tgt>>
    BY <1>5 DEF ExitThread
  <2> HIDE DEF IInv
  <2>2. \A a \in Thread : pc[a] = "join_zombie" \/ pc'[a] = "join_zombie"
                              => pc'[a] = pc[a] /\ tgt'[a] = tgt[a]
    BY <1>0, <2>1
  <2>3. \A x \in Thread : Settled(x)' => Settled(x)
    BY <1>0, <2>1 DEF Settled
  <2> QED BY <2>1, <2>2, <2>3, ZombieFrame
<1>6. CASE DetachStatus(t)
  <2>0. tgt[t] = t /\ status[t] \in {kJoinable, kDetached} /\ pc[t] = "det_status"
    BY <1>6 DEF DetachStatus, CreateInv, StatusInv
  <2>1. /\ pc' = [pc EXCEPT ![t] = "unref"]
        /\ UNCHANGED <<list, gil, exited, ctid, tgt>>
        /\ \A x \in Thread : status'[x] = kZombie <=> status[x] = kZombie
    <3>1. UNCHANGED <<list, gil, exited, ctid, tgt>>
      BY <1>6 DEF DetachStatus
    <3>2. kDetached # kJoinable
      BY DEF kJoinable, kDetached
    <3>3. CASE status[t] = kJoinable
      <4>1. status' = [status EXCEPT ![t] = kDetached] /\ pc' = [pc EXCEPT ![t] = "unref"]
        BY <1>2, <1>6, <2>0, <3>3 DEF DetachStatus
      <4> QED BY <1>0, <1>2, <3>1, <3>3, <4>1
    <3>4. CASE status[t] = kDetached
      <4>1. status[t] # kTerminated
        BY <3>4 DEF kDetached, kTerminated
      <4>2. status' = status /\ pc' = [pc EXCEPT ![t] = "unref"]
        BY <1>6, <2>0, <3>2, <3>4, <4>1 DEF DetachStatus
      <4> QED BY <3>1, <4>2
    <3> QED BY <2>0, <3>3, <3>4
  <2> HIDE DEF IInv
  <2>2. \A a \in Thread : pc[a] = "join_zombie" \/ pc'[a] = "join_zombie"
                              => pc'[a] = pc[a] /\ tgt'[a] = tgt[a]
    BY <1>0, <2>0, <2>1
  <2>3. \A x \in Thread : Settled(x)' => Settled(x)
    BY <1>0, <2>0, <2>1 DEF Settled
  <2> QED BY <2>1, <2>2, <2>3, ZombieFrame
<1> QED BY <1>3, <1>4, <1>5, <1>6

(* While the gil is free nobody is making a zombie.                        *)
LEMMA FreeGil ==
    ASSUME IInv, gil = Nobody
    PROVE  \A a \in Thread : pc[a] # "join_zombie"
BY DEF GilInv

(* A new object goes first.                                                *)
LEMMA LinkKeepsZombies ==
    ASSUME Discipline, IInv, ZombieInv, NEW t \in Thread, CreateLink(t)
    PROVE  ZombieInv'
<1>0. /\ pc \in [Actor -> Pc] /\ Thread \subseteq Actor /\ list \in Seq(Thread)
      /\ tgt[t] \in Thread /\ status[tgt[t]] # kZombie
  <2>1. tgt[t] \in Thread /\ pc[tgt[t]] = "embryo"
    BY DEF CreateLink, CreateInv, TargetInv, TargetPc
  <2>2. status[tgt[t]] \in {kJoinable, kDetached}
    BY <2>1 DEF StatusInv
  <2>3. kJoinable # kZombie /\ kDetached # kZombie
    BY DEF kJoinable, kDetached, kZombie
  <2>4. pc \in [Actor -> Pc] /\ Thread \subseteq Actor /\ list \in Seq(Thread)
    BY DEF TypeOK
  <2> QED BY <2>1, <2>2, <2>3, <2>4
<1>1. \A a \in Thread : pc[a] # "join_zombie"
  BY FreeGil DEF CreateLink
<1>2. exited => gil = Nobody
  BY DEF CreateLink
<1> HIDE DEF IInv
<1>3. /\ list' = dll_make_first(list, tgt[t]) /\ pc' = [pc EXCEPT ![t] = "cr_count"]
      /\ UNCHANGED <<status, ctid>>
  BY DEF CreateLink
<1>4. \A a \in Thread : pc'[a] # "join_zombie"
  BY <1>0, <1>1, <1>3
<1>5. ASSUME NEW x \in Thread, NEW y \in Thread, Before(list', x, y), Settled(x)'
      PROVE  status'[y] = kZombie
  <2>1. x # tgt[t] /\ Settled(x)
    BY <1>0, <1>3, <1>5 DEF Settled
  <2>2. Before(list, x, y)
    BY <1>0, <1>3, <1>5, <2>1, FirstOrder
  <2>3. status[y] = kZombie
    BY <1>1, <1>2, <2>1, <2>2 DEF ZombieInv, Joined
  <2> QED BY <1>3, <2>3
<1> QED BY <1>4, <1>5 DEF ZombieInv, Before

(* A detached thread that exits moves its object to the end of the list.   *)
LEMMA ZombifyKeepsZombies ==
    ASSUME Discipline, IInv, ZombieInv, ZombifyInv, NEW t \in Thread, ExitZombify(t)
    PROVE  ZombieInv'
<1>0. /\ pc \in [Actor -> Pc] /\ Thread \subseteq Actor /\ list \in Seq(Thread) /\ Distinct(list)
      /\ status[t] = kZombie
  BY DEF ExitZombify, TypeOK, ListInv, ZombifyInv
<1>1. \A a \in Thread : pc[a] # "join_zombie"
  BY FreeGil DEF ExitZombify
<1>2. exited => gil = Nobody
  BY DEF ExitZombify
<1> HIDE DEF IInv
<1>3. /\ list' = MoveLast(list, t) /\ pc' = [pc EXCEPT ![t] = "ex_last"]
      /\ UNCHANGED <<status, ctid>>
  BY DEF ExitZombify
<1>4. \A a \in Thread : pc'[a] # "join_zombie"
  BY <1>0, <1>1, <1>3
<1>5. ASSUME NEW x \in Thread, NEW y \in Thread, Before(list', x, y), Settled(x)'
      PROVE  status'[y] = kZombie
  <2>1. x # t /\ (y = t \/ Before(list, x, y))
    BY <1>0, <1>3, <1>5, LastOrder
  <2>2. Settled(x)
    BY <1>0, <1>3, <1>5, <2>1 DEF Settled
  <2>3. Before(list, x, y) => status[y] = kZombie
    BY <1>1, <1>2, <2>2 DEF ZombieInv, Joined
  <2> QED BY <1>0, <1>3, <2>1, <2>3
<1> QED BY <1>4, <1>5 DEF ZombieInv, Before

(* pthread_join() of a leased object moves it to the end of the list.      *)
LEMMA MakeLastKeepsZombies ==
    ASSUME Discipline, IInv, ZombieInv, NEW t \in Thread, JoinMakeLast(t)
    PROVE  ZombieInv'
<1>0. /\ pc \in [Actor -> Pc] /\ Thread \subseteq Actor /\ list \in Seq(Thread) /\ Distinct(list)
      /\ tgt[t] \in Thread /\ pc[t] = "join_last"
  BY DEF JoinMakeLast, TypeOK, ListInv, TargetInv, TargetPc
<1>1. \A a \in Thread : pc[a] # "join_zombie"
  BY FreeGil DEF JoinMakeLast
<1>2. exited => gil = Nobody
  BY DEF JoinMakeLast
<1> HIDE DEF IInv
<1>3. /\ list' = MoveLast(list, tgt[t]) /\ pc' = [pc EXCEPT ![t] = "join_zombie"]
      /\ UNCHANGED <<status, ctid, tgt>>
  BY DEF JoinMakeLast
<1>4. \A a \in Thread : pc'[a] = "join_zombie" <=> a = t
  BY <1>0, <1>1, <1>3
<1>5. ASSUME NEW x \in Thread, NEW y \in Thread, Before(list', x, y), Settled(x)'
      PROVE  status'[y] = kZombie \/ Joined(y)'
  <2>1. x # tgt[t] /\ (y = tgt[t] \/ Before(list, x, y))
    BY <1>0, <1>3, <1>5, LastOrder
  <2>2. Settled(x)
    BY <1>0, <1>3, <1>5 DEF Settled
  <2>3. Before(list, x, y) => status[y] = kZombie
    BY <1>1, <1>2, <2>2 DEF ZombieInv, Joined
  <2>4. y = tgt[t] => Joined(y)'
    BY <1>3, <1>4 DEF Joined
  <2> QED BY <1>3, <2>1, <2>3, <2>4
<1>6. ASSUME NEW y \in Thread PROVE ~Before(list', tgt[t], y)
  BY <1>0, <1>3, LastOrder
<1> QED BY <1>3, <1>4, <1>5, <1>6 DEF ZombieInv, Before

(* Then it makes the last object a zombie.                                 *)
LEMMA JoinKeepsZombies ==
    ASSUME Discipline, IInv, ZombieInv, NEW t \in Thread, JoinZombie(t)
    PROVE  ZombieInv'
<1>0. /\ pc \in [Actor -> Pc] /\ Thread \subseteq Actor /\ status \in [Thread -> Status]
      /\ tgt[t] \in Thread /\ pc[t] = "join_zombie" /\ ~exited
      /\ \A a \in Thread : pc[a] = "join_zombie" => a = t
  BY DEF JoinZombie, TypeOK, TargetInv, TargetPc, GilInv, PcInv
<1> HIDE DEF IInv
<1>1. PICK l \in {"idle", "run", "ex_final"} : pc' = [pc EXCEPT ![t] = l]
  BY DEF JoinZombie, Return, Goto, Home
<1>2. status' = [status EXCEPT ![tgt[t]] = kZombie] /\ UNCHANGED <<list, ctid>>
  BY DEF JoinZombie
<1>3. \A a \in Thread : pc'[a] # "join_zombie"
  BY <1>0, <1>1
<1>4. ASSUME NEW x \in Thread, NEW y \in Thread, Before(list', x, y), Settled(x)'
      PROVE  status'[y] = kZombie
  <2>1. x # tgt[t]
    BY <1>0, <1>2, <1>4 DEF ZombieInv
  <2>2. Settled(x)
    BY <1>0, <1>1, <1>2, <1>4, <2>1 DEF Settled
  <2>3. status[y] = kZombie \/ y = tgt[t]
    BY <1>0, <1>2, <1>4, <2>2 DEF ZombieInv, Joined
  <2> QED BY <1>0, <1>2, <2>3
<1> QED BY <1>3, <1>4 DEF ZombieInv, Before

(* The process ends.                                                       *)
LEMMA ProcessKeepsZombies ==
    ASSUME Discipline, IInv, ZombieInv, NEW t \in Thread, ExitProcess(t)
    PROVE  ZombieInv'
<1>1. gil = Nobody => \A a \in Thread : pc[a] # "join_zombie"
  BY FreeGil
<1>2. Thread \subseteq Actor /\ exited' /\ gil' = gil
  BY DEF ExitProcess, Actor, mem
<1> HIDE DEF IInv
<1>3. (\A a \in Thread : pc'[a] = "gone") /\ UNCHANGED <<list, status, ctid>>
  BY <1>2 DEF ExitProcess, mem
<1>4. ASSUME gil = Nobody, NEW x \in Thread, NEW y \in Thread, Before(list', x, y), Settled(x)'
      PROVE  status'[y] = kZombie
  <2>1. Settled(x) /\ Before(list, x, y)
    BY <1>3, <1>4 DEF Settled
  <2> QED BY <1>1, <1>3, <1>4, <2>1 DEF ZombieInv, Joined
<1> QED BY <1>2, <1>3, <1>4 DEF ZombieInv, Before

(* Only a thread that exits is about to move its object.                   *)
LEMMA EntersZombify ==
    ASSUME Discipline, IInv, Next, NEW a \in Thread, pc'[a] = "ex_zombify"
    PROVE  pc[a] = "ex_zombify" \/ ExitStatus(a)
<1>0. /\ pc \in [Actor -> Pc] /\ Thread \subseteq Actor
      /\ \A t \in Thread : pc[t] # "det_zombify"
  BY DEF TypeOK, PcInv
<1>s. Still => pc[a] = "ex_zombify"
  BY DEF Still
<1>1. ASSUME NEW t \in Thread, Call(t) PROVE Still
  BY <1>1, StillSteps
<1>2. ASSUME NEW t \in Thread, Unref(t) PROVE Still
  BY <1>0, <1>2, StillSteps
<1>3. ASSUME NEW s \in Sender, Signal(s) PROVE Still
  <2>1. s \in Actor
    BY DEF Actor
  <2> QED BY <1>3, <2>1, StillSteps DEF Signal
<1>4. ASSUME NEW t \in Thread, Lock(t) PROVE pc[a] = "ex_zombify"
  <2>1. DecimateLock(t) \/ ExitOrphan(t) => Still
    BY StillSteps
  <2> HIDE DEF IInv
  <2>2. CreateLink(t) \/ CreateUnlink(t) \/ ExitZombify(t) \/ JoinMakeLast(t) \/ JoinRemove(t)
            => pc[a] = "ex_zombify"
    BY <1>0 DEF CreateLink, CreateUnlink, ExitZombify, JoinMakeLast, JoinRemove
  <2>3. ~DetachZombify(t)
    BY <1>0 DEF DetachZombify
  <2> QED BY <1>4, <1>s, <2>1, <2>2, <2>3 DEF Lock
<1>5. ASSUME NEW t \in Thread, Run(t) PROVE pc[a] = "ex_zombify" \/ ExitStatus(a)
  <2>1. /\ Decimate(t) /\ ~DecimateStatus(t) => Still
        /\ Create(t) /\ ~CreateAlloc(t) => Still
        /\ Exit(t) /\ ~ExitStatus(t) /\ ~ExitProcess(t) /\ ~ExitThread(t) => Still
        /\ Finish(t) /\ ~DetachStatus(t) /\ ~JoinZombie(t) => Still
    BY StillSteps
  <2> HIDE DEF IInv
  <2>2. CASE DecimateStatus(t) \/ ExitThread(t)
    BY <1>0, <2>2 DEF DecimateStatus, ExitThread
  <2>3. CASE CreateAlloc(t)
    BY <1>0, <2>3 DEF CreateAlloc
  <2>4. CASE ExitProcess(t)
    BY <1>0, <2>4 DEF ExitProcess
  <2>5. CASE ExitStatus(t)
    BY <1>0, <2>5 DEF ExitStatus
  <2>6. CASE DetachStatus(t)
    <3>1. PICK l \in {"unref", "det_zombify"} : pc' = [pc EXCEPT ![t] = l]
      BY <2>6 DEF DetachStatus
    <3> QED BY <1>0, <3>1
  <2>7. CASE JoinZombie(t)
    <3>1. PICK l \in {"idle", "run", "ex_final"} : pc' = [pc EXCEPT ![t] = l]
      BY <2>7 DEF JoinZombie, Return, Goto, Home
    <3> QED BY <1>0, <3>1
  <2> QED BY <1>2, <1>5, <1>s, <2>1, <2>2, <2>3, <2>4, <2>5, <2>6, <2>7 DEF Run
<1>6. CASE Done
  BY <1>6 DEF Done, vars
<1> HIDE DEF IInv
<1> QED BY <1>s, <1>1, <1>3, <1>4, <1>5, <1>6 DEF Next

LEMMA StepKeepsZombifyInv ==
    ASSUME Discipline, IInv, ZombifyInv, Next
    PROVE  ZombifyInv'
<1> SUFFICES ASSUME NEW a \in Thread, pc'[a] = "ex_zombify" PROVE status'[a] = kZombie
  BY DEF ZombifyInv
<1>0. pc \in [Actor -> Pc] /\ Thread \subseteq Actor /\ status \in [Thread -> Status]
  BY DEF TypeOK
<1>1. CASE pc[a] = "ex_zombify"
  <2>1. obj[a] = "live" /\ status[a] = kZombie
    BY <1>1 DEF LiveInv, Running, ZombifyInv
  <2>2. Legal
    BY StepsAreLegal
  <2>3. kJoinable # kZombie /\ kDetached # kZombie /\ kTerminated # kZombie
    BY DEF kJoinable, kDetached, kTerminated, kZombie
  <2> HIDE DEF IInv
  <2> QED BY <2>1, <2>2, <2>3 DEF Legal, LegalTransition
<1>2. CASE ExitStatus(a)
  <2> HIDE DEF IInv
  <2> QED BY <1>0, <1>2 DEF ExitStatus
<1> QED BY <1>1, <1>2, EntersZombify

(* Every step keeps the order.                                             *)
LEMMA StepKeepsZombieInv ==
    ASSUME Discipline, IInv, ZombieInv, ZombifyInv, Next
    PROVE  ZombieInv'
<1>0. Thread \subseteq Actor /\ Sender \subseteq Actor /\ \A t \in Thread : ~DetachZombify(t)
  BY DEF Actor, PcInv, DetachZombify
<1>s. Still => ZombieInv'
  BY StillKeeps
<1>1. ASSUME NEW t \in Thread, Call(t) PROVE ZombieInv'
  BY <1>1, <1>s, StillSteps
<1>2. ASSUME NEW t \in Thread, Unref(t) PROVE ZombieInv'
  BY <1>0, <1>2, <1>s, StillSteps
<1>3. ASSUME NEW s \in Sender, Signal(s) PROVE ZombieInv'
  BY <1>0, <1>3, <1>s, StillSteps DEF Signal
<1>4. ASSUME NEW t \in Thread, Lock(t) PROVE ZombieInv'
  BY <1>0, <1>4, <1>s, StillSteps, UnlinkKeepsZombies, LinkKeepsZombies, ZombifyKeepsZombies,
     MakeLastKeepsZombies DEF Lock
<1>5. ASSUME NEW t \in Thread, Decimate(t) PROVE ZombieInv'
  BY <1>5, <1>s, StillSteps, UnlinkKeepsZombies
<1>6. ASSUME NEW t \in Thread, Create(t) PROVE ZombieInv'
  BY <1>6, <1>s, StillSteps, StatusKeepsZombies
<1>7. ASSUME NEW t \in Thread, Exit(t) PROVE ZombieInv'
  BY <1>7, <1>s, StillSteps, StatusKeepsZombies, ProcessKeepsZombies
<1>8. ASSUME NEW t \in Thread, Finish(t) PROVE ZombieInv'
  BY <1>8, <1>s, StillSteps, StatusKeepsZombies, JoinKeepsZombies
<1>9. CASE Done
  <2>1. UNCHANGED vars
    BY <1>9 DEF Done
  <2>2. Still
    BY <2>1 DEF vars, mem, world, locals, Still
  <2> QED BY <1>s, <2>2
<1> HIDE DEF IInv
<1> QED BY <1>1, <1>2, <1>3, <1>4, <1>5, <1>6, <1>7, <1>8, <1>9 DEF Next, Run

(* Zombies gather at the end of the list, where _pthread_decimate() looks  *)
(* for them: whenever the gil is free nothing but zombies follows one that *)
(* can be reclaimed, so giving up at the first other object leaks nothing. *)
THEOREM ZombiesGather ==
    ASSUME Discipline
    PROVE  Spec => []ZombiesLast
<1> HIDE DEF IInv
<1>1. Init => ZombieInv /\ ZombifyInv
  BY DEF Init, ZombieInv, ZombifyInv, Before
<1>2. IInv /\ ZombieInv /\ ZombifyInv /\ [Next]_vars => ZombieInv' /\ ZombifyInv'
  <2>1. CASE UNCHANGED vars
    <3>1. Still
      BY <2>1 DEF vars, mem, world, locals, Still
    <3>2. ZombifyInv => ZombifyInv'
      BY <2>1 DEF vars, mem, ZombifyInv
    <3> QED BY <3>1, <3>2, StillKeeps
  <2>2. CASE Next
    BY <2>2, StepKeepsZombieInv, StepKeepsZombifyInv
  <2> QED BY <2>1, <2>2
<1>3. IInv /\ ZombieInv => ZombiesLast
  <2> SUFFICES ASSUME IInv, ZombieInv, gil = Nobody, NEW i \in 1..Len(list), NEW j \in 1..Len(list),
                      i < j, Reclaimable(list[i])
               PROVE  status[list[j]] = kZombie
    BY DEF ZombiesLast
  <2>1. list[i] \in Thread /\ list[j] \in Thread
    BY DEF IInv, TypeOK
  <2>2. Before(list, list[i], list[j]) /\ Settled(list[i])
    BY DEF Before, Settled, Reclaimable
  <2>3. ~Joined(list[j])
    BY FreeGil DEF Joined
  <2> QED BY <2>1, <2>2, <2>3 DEF ZombieInv
<1> QED BY <1>1, <1>2, <1>3, Invariance, PTL DEF Spec

=============================================================================
