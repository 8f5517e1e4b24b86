----------------------------- MODULE StackCache -----------------------------
(***************************************************************************)
(* The cache of thread stacks in libc/intrin/stack.c: cosmo_stack_alloc(), *)
(* cosmo_stack_free(), cosmo_stack_clear() and cosmo_stack_setmaxstacks(). *)
(* A stack that is not in use is remembered in a list object, most         *)
(* recently used first; list objects come in pages and are recycled. What  *)
(* is done under cosmo_stacks.lock is one step; stacks that are evicted    *)
(* are unmapped after it, one system call at a time, and only then are     *)
(* their list objects given back.                                          *)
(***************************************************************************)
EXTENDS Integers, FiniteSets, Sequences, SequencesExt

CONSTANTS
    Thread,
    Addr,    \* bound: places in memory for stacks
    Kind,    \* the combinations of stacksize and guardsize in use
    Limit,   \* the values given to cosmo_stack_setmaxstacks(); may hold Unlimited
    PerPage, \* list objects in a page
    MaxPages \* bound: pages of list objects

ASSUME CacheAssumption ==
    /\ Limit \subseteq Nat
    /\ PerPage \in Nat \ {0}
    /\ MaxPages \in Nat

None == "none"
ASSUME NoneAssumption == None \notin Addr \union Kind

Unlimited == 2147483647 \* a negative limit, seen as unsigned

VARIABLES
    stacks,    \* cosmo_stacks.stacks: the addresses, most recent first
    count,     \* cosmo_stacks.count
    objects,   \* length of cosmo_stacks.objects
    pages,     \* pages mapped for list objects
    maxstacks, \* cosmo_stacks_config.maxstacks
    mapped,    \* the kind of stack mapped at each address, or None
    mine,      \* the stack each thread has allocated, or None
    pc,
    want,      \* the kind of stack each thread asked for
    surplus,   \* stacks evicted by a thread and not yet unmapped
    spare,     \* their list objects
    err,       \* what cosmo_stack_free() returned: "ok", "errno" or None
    older      \* history: <<a, b>> when b was given to the cache after a

cache == <<stacks, count, objects, pages>>
vars == <<cache, maxstacks, mapped, mine, pc, want, surplus, spare, err, older>>

Goto(t, l) == pc' = [pc EXCEPT ![t] = l]

(* What cosmo_stack_decimate(n) leaves and what it takes off the end.      *)
Kept(n) == IF count > n THEN SubSeq(stacks, 1, n) ELSE stacks
Evicted(n) == IF count > n THEN SubSeq(stacks, n + 1, count) ELSE <<>>

Evict(t, gone) ==
    /\ surplus' = [surplus EXCEPT ![t] = gone]
    /\ spare' = [spare EXCEPT ![t] = Len(gone)]

-----------------------------------------------------------------------------
(* cosmo_stack_alloc()                                                     *)

Matching(k) == {i \in DOMAIN stacks : mapped[stacks[i]] = k}

AllocCached_AnyKind(t) ==
    /\ pc[t] = "idle" /\ mine[t] = None /\ stacks # <<>>
    /\ \E k \in Kind :
          /\ want' = [want EXCEPT ![t] = k]
          /\ mine' = [mine EXCEPT ![t] = Head(stacks)]
          /\ stacks' = Tail(stacks)
          /\ count' = count - 1
          /\ objects' = objects + 1
    /\ UNCHANGED <<pages, maxstacks, mapped, pc, surplus, spare, err>>
AllocCached_KeepsObject(t) ==
    /\ pc[t] = "idle" /\ mine[t] = None
    /\ \E k \in Kind : \E i \in Matching(k) :
          /\ \A j \in Matching(k) : i <= j
          /\ want' = [want EXCEPT ![t] = k]
          /\ mine' = [mine EXCEPT ![t] = stacks[i]]
          /\ stacks' = RemoveAt(stacks, i)
          /\ count' = count - 1
    /\ UNCHANGED <<objects, pages, maxstacks, mapped, pc, surplus, spare, err>>
AllocCached(t) ==
    /\ pc[t] = "idle" /\ mine[t] = None
    /\ \E k \in Kind : \E i \in Matching(k) :
          /\ \A j \in Matching(k) : i <= j
          /\ want' = [want EXCEPT ![t] = k]
          /\ mine' = [mine EXCEPT ![t] = stacks[i]]
          /\ stacks' = RemoveAt(stacks, i)
          /\ count' = count - 1
          /\ objects' = objects + 1
    /\ UNCHANGED <<pages, maxstacks, mapped, pc, surplus, spare, err>>

AllocMiss(t) ==
    /\ pc[t] = "idle" /\ mine[t] = None
    /\ \E k \in Kind : Matching(k) = {} /\ want' = [want EXCEPT ![t] = k]
    /\ Goto(t, "map")
    /\ UNCHANGED <<cache, maxstacks, mapped, mine, surplus, spare, err>>

(* slackmap() or mmap(), which may fail                                    *)
AllocMap(t) ==
    /\ pc[t] = "map"
    /\ \/ \E a \in Addr :
            /\ mapped[a] = None
            /\ mapped' = [mapped EXCEPT ![a] = want[t]]
            /\ mine' = [mine EXCEPT ![t] = a]
       \/ UNCHANGED <<mapped, mine>>
    /\ Goto(t, "idle")
    /\ UNCHANGED <<cache, maxstacks, want, surplus, spare, err>>

-----------------------------------------------------------------------------
(* cosmo_stack_free()                                                      *)

(* The objects at hand, after cosmo_stack_populate() if there were none.   *)
Populated ==
    {<<objects, pages>>} \union
    (IF objects = 0 /\ pages < MaxPages THEN {<<PerPage, pages + 1>>} ELSE {})

FreeCached_AtEnd(t) ==
    /\ pc[t] = "idle" /\ mine[t] # None /\ maxstacks # 0
    /\ \E p \in Populated :
          /\ p[1] > 0
          /\ stacks' = Append(Kept(maxstacks - 1), mine[t])
          /\ count' = Len(Kept(maxstacks - 1)) + 1
          /\ objects' = p[1] - 1
          /\ pages' = p[2]
    /\ Evict(t, Evicted(maxstacks - 1))
    /\ mine' = [mine EXCEPT ![t] = None]
    /\ err' = [err EXCEPT ![t] = "ok"]
    /\ Goto(t, "rehabilitate")
    /\ UNCHANGED <<maxstacks, mapped, want>>
FreeCached(t) ==
    /\ pc[t] = "idle" /\ mine[t] # None /\ maxstacks # 0
    /\ \E p \in Populated :
          /\ p[1] > 0
          /\ stacks' = <<mine[t]>> \o Kept(maxstacks - 1)
          /\ count' = Len(Kept(maxstacks - 1)) + 1
          /\ objects' = p[1] - 1
          /\ pages' = p[2]
    /\ Evict(t, Evicted(maxstacks - 1))
    /\ mine' = [mine EXCEPT ![t] = None]
    /\ err' = [err EXCEPT ![t] = "ok"]
    /\ Goto(t, "rehabilitate")
    /\ UNCHANGED <<maxstacks, mapped, want>>

(* No caching, or no list object: the stack itself has to be unmapped.     *)
FreeUncached(t) ==
    /\ pc[t] = "idle" /\ mine[t] # None
    /\ IF maxstacks = 0
       THEN Evict(t, <<>>) /\ UNCHANGED <<stacks, count>>
       ELSE /\ objects = 0
            /\ stacks' = Kept(maxstacks - 1)
            /\ count' = Len(Kept(maxstacks - 1))
            /\ Evict(t, Evicted(maxstacks - 1))
    /\ err' = [err EXCEPT ![t] = None]
    /\ Goto(t, "rehabilitate")
    /\ UNCHANGED <<objects, pages, maxstacks, mapped, mine, want>>

(* cosmo_stack_munmap() of that stack. It returns errno, whatever it is    *)
(* from earlier, when munmap() succeeds, and 0 when it fails.              *)
FreeUnmap(t) ==
    /\ pc[t] = "unmap"
    /\ \/ /\ mapped' = [mapped EXCEPT ![mine[t]] = None]
          /\ \E e \in {"ok", "errno"} : err' = [err EXCEPT ![t] = e]
       \/ /\ err' = [err EXCEPT ![t] = "ok"]
          /\ UNCHANGED mapped
    /\ mine' = [mine EXCEPT ![t] = None]
    /\ Goto(t, "idle")
    /\ UNCHANGED <<cache, maxstacks, want, surplus, spare>>

-----------------------------------------------------------------------------
(* cosmo_stack_clear() and cosmo_stack_setmaxstacks()                      *)

Clear_KeepsList(t) ==
    /\ pc[t] = "idle"
    /\ Evict(t, stacks)
    /\ err' = [err EXCEPT ![t] = "ok"]
    /\ Goto(t, "rehabilitate")
    /\ UNCHANGED <<stacks, count, objects, pages, maxstacks, mapped, mine, want>>
Clear(t) ==
    /\ pc[t] = "idle"
    /\ stacks' = <<>>
    /\ count' = 0
    /\ Evict(t, stacks)
    /\ err' = [err EXCEPT ![t] = "ok"]
    /\ Goto(t, "rehabilitate")
    /\ UNCHANGED <<objects, pages, maxstacks, mapped, mine, want>>

SetMaxStacks(t) ==
    /\ pc[t] = "idle"
    /\ \E n \in Limit :
          /\ maxstacks' = n
          /\ stacks' = Kept(n)
          /\ count' = Len(Kept(n))
          /\ Evict(t, Evicted(n))
    /\ err' = [err EXCEPT ![t] = "ok"]
    /\ Goto(t, "rehabilitate")
    /\ UNCHANGED <<objects, pages, mapped, mine, want>>

-----------------------------------------------------------------------------
(* cosmo_stack_rehabilitate(): munmap(), which may fail, of each evicted   *)
(* stack, then the objects go back to the list.                            *)

RehabilitateUnmap(t) ==
    /\ pc[t] = "rehabilitate" /\ surplus[t] # <<>>
    /\ \/ mapped' = [mapped EXCEPT ![Head(surplus[t])] = None]
       \/ UNCHANGED mapped
    /\ surplus' = [surplus EXCEPT ![t] = Tail(@)]
    /\ UNCHANGED <<cache, maxstacks, mine, pc, want, spare, err>>

Rehabilitate(t) ==
    /\ pc[t] = "rehabilitate" /\ surplus[t] = <<>>
    /\ objects' = objects + spare[t]
    /\ spare' = [spare EXCEPT ![t] = 0]
    /\ Goto(t, IF err[t] = None THEN "unmap" ELSE "idle")
    /\ UNCHANGED <<stacks, count, pages, maxstacks, mapped, mine, want, surplus, err>>

-----------------------------------------------------------------------------

Init ==
    /\ stacks = <<>> /\ count = 0 /\ objects = 0 /\ pages = 0
    /\ maxstacks \in Limit
    /\ mapped = [a \in Addr |-> None]
    /\ mine = [t \in Thread |-> None]
    /\ pc = [t \in Thread |-> "idle"]
    /\ want \in [Thread -> Kind]
    /\ surplus = [t \in Thread |-> <<>>]
    /\ spare = [t \in Thread |-> 0]
    /\ err = [t \in Thread |-> "ok"]
    /\ older = {}

(* The use of a ends now, after that of all others.                        *)
Released(a) ==
    older' = {p \in older : a \notin {p[1], p[2]}} \union ((Addr \ {a}) \X {a})

Step(t) ==
    \/ AllocCached(t) \/ AllocMiss(t) \/ AllocMap(t)
    \/ FreeUncached(t) \/ FreeUnmap(t)
    \/ Clear(t) \/ SetMaxStacks(t)
    \/ RehabilitateUnmap(t) \/ Rehabilitate(t)

Next ==
    \E t \in Thread :
        \/ FreeCached(t) /\ Released(mine[t])
        \/ Step(t) /\ UNCHANGED older

Spec == Init /\ [][Next]_vars

-----------------------------------------------------------------------------
(* Properties                                                              *)

(* Every variable has its type.                                            *)
TypeOK ==
    /\ stacks \in Seq(Addr)
    /\ count \in Nat /\ objects \in Nat /\ pages \in 0..MaxPages
    /\ maxstacks \in Limit
    /\ mapped \in [Addr -> Kind \union {None}]
    /\ mine \in [Thread -> Addr \union {None}]
    /\ pc \in [Thread -> {"idle", "map", "rehabilitate", "unmap"}]
    /\ want \in [Thread -> Kind]
    /\ surplus \in [Thread -> Seq(Addr)]
    /\ spare \in [Thread -> Nat]
    /\ err \in [Thread -> {"ok", "errno", None}]
    /\ older \subseteq Addr \X Addr

(* A mapped stack is in one place: in use by one thread, in the cache, or  *)
(* on its way out. No thread gets a stack that another one uses or that is *)
(* unmapped, and nothing unmapped is cached.                               *)
Places(a) ==
    {<<"mine", t>> : t \in {t \in Thread : mine[t] = a}}
    \union {<<"cache", i>> : i \in {i \in DOMAIN stacks : stacks[i] = a}}
    \union {<<"surplus", t>> : t \in {t \in Thread : a \in Range(surplus[t])}}
OneOwner ==
    \A a \in Addr :
        /\ Cardinality(Places(a)) <= 1
        /\ Places(a) # {} => mapped[a] # None

(* A thread runs on a stack with the size and the guard it asked for.      *)
RightKind == \A t \in Thread : mine[t] # None => mapped[mine[t]] = want[t]

(* The cache never holds more stacks than the current limit, which for a   *)
(* limit of 0 means that no thread is given memory another one has used.   *)
CacheBounded == Len(stacks) <= maxstacks

(* The list objects of evicted stacks that are still to be given back.     *)
InTransit == UNION {{t} \X (1..spare[t]) : t \in Thread}

(* No list object is lost or in two lists, and the count is the length.    *)
ObjectsConserved ==
    /\ count = Len(stacks)
    /\ objects + count + Cardinality(InTransit) = pages * PerPage

(* Eviction is least recently used, as cosmo_stack_alloc() documents: a    *)
(* stack that leaves the cache and is not given to a thread was released   *)
(* before every stack that is cached after the step. The order is that of  *)
(* the calls of cosmo_stack_free(), not the order of the list.             *)
EvictsOldest ==
    [][\A a \in Range(stacks) \ Range(stacks') :
        (\A t \in Thread : mine'[t] # a) =>
            \A b \in Range(stacks') : <<a, b>> \in older']_vars

(* The cache is consistent and within its limit.                           *)
CacheInv == TypeOK /\ CacheBounded /\ ObjectsConserved
=============================================================================
