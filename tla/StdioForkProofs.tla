-------------------------- MODULE StdioForkProofs ---------------------------
(***************************************************************************)
(* Proofs about the streams of StdioFork, for any threads and any streams: *)
(* reference counts are exact, so that a stream is freed once and not in   *)
(* use, fork() finds nobody inside a stream, and no lock stays behind.     *)
(***************************************************************************)
EXTENDS StdioFork, TLAPS, FiniteSetTheorems, SequenceTheorems

Distinct(s) == \A i, j \in 1..Len(s) : s[i] = s[j] => i = j

(* Where a call owns a reference to cur, and where it is inside it.        *)
HolderPc == {"fclose_lock", "fclose_flush", "canceled", "unref", "unref_lock",
             "all_lock", "all_write", "all_next", "fork_lock"}
InsidePc == {"fclose_flush", "canceled", "fflush_write", "all_write"}
UnrefPc == {"unref", "unref_lock", "free"}

InFork(t) ==
    \/ pc[t] \in {"fork_scan", "fork_lock", "fork"}
    \/ pc[t] \in UnrefPc /\ ret[t] = "fork_scan"

(* What a thread has at hand while it is where in the code.                *)
PcInv ==
    \A t \in Thread :
        /\ pc[t] \notin {"idle", "fork_scan", "fork"} => cur[t] \in File
        /\ pc[t] \in {"fflush_lock", "fflush_write"} => handle[t] = cur[t]
        /\ pc[t] \in {"fclose_lock", "fclose_flush"} => ret[t] = "idle"
        /\ pc[t] \in {"fork_scan", "fork_lock"} => ret[t] = "fork_scan"
        /\ InFork(t) <=> supreme = t
        /\ pc[t] = "fork" <=> stdio = t

(* The streams in the table are different and allocated, and each of the   *)
(* others that are has one thread that is about to free it.                *)
TableInv ==
    /\ Distinct(files) /\ Range(files) \subseteq heap
    /\ \A f \in File \ Range(files) : refs[f] = 1
    /\ \A t \in Thread : pc[t] = "free" => cur[t] \in heap \ Range(files)
    /\ \A t, u \in Thread : pc[t] = "free" /\ pc[u] = "free" /\ cur[t] = cur[u] => t = u

(* A stream is locked by who is inside it, or by fork() once it is marked; *)
(* a marked one is locked by fork(), or fork() waits for its lock.         *)
LockInv ==
    /\ \A f \in Range(files) :
          /\ flock[f] # None =>
                /\ flock[f] \in Present
                /\ \/ cur[flock[f]] = f /\ pc[flock[f]] \in InsidePc
                   \/ flock[f] = supreme /\ forking[f]
          /\ forking[f] =>
                /\ supreme # None
                /\ \/ flock[f] = supreme
                   \/ cur[supreme] = f /\ pc[supreme] = "fork_lock"
    /\ \A t \in Thread : pc[t] \in InsidePc => flock[cur[t]] = t
    /\ \A t \in Thread : pc[t] = "fork_lock" => forking[cur[t]]
    /\ \A t \in Thread : pc[t] = "fork" => \A f \in Range(files) : forking[f]

IInv == TypeOK /\ PcInv /\ TableInv /\ RefsCounted /\ LockInv

-----------------------------------------------------------------------------
(* Lists of streams                                                        *)

(* The range of a list, by its positions.                                  *)
LEMMA Elements ==
    ASSUME NEW s \in Seq(File)
    PROVE  /\ Range(s) \subseteq File /\ Len(s) \in Nat
           /\ \A a : a \in Range(s) <=> \E i \in 1..Len(s) : a = s[i]
BY DEF Range

(* A part of a list.                                                      *)
LEMMA Part ==
    ASSUME NEW s \in Seq(File), NEW m \in 1..(Len(s) + 1), NEW n \in 0..Len(s)
    PROVE  /\ SubSeq(s, m, n) \in Seq(File)
           /\ Len(SubSeq(s, m, n)) = IF m <= n THEN n - m + 1 ELSE 0
           /\ \A i \in 1..Len(SubSeq(s, m, n)) : SubSeq(s, m, n)[i] = s[m + i - 1]
<1> DEFINE r == SubSeq(s, m, n)
<1>1. \A i \in m..n : s[i] \in File
  OBVIOUS
<1>2. /\ r \in Seq(File)
      /\ Len(r) = IF m <= n THEN n - m + 1 ELSE 0
      /\ \A i \in 1..(n - m + 1) : r[i] = s[m + i - 1]
  BY <1>1, SubSeqProperties
<1> HIDE DEF r
<1>3. \A i \in 1..Len(r) : r[i] = s[m + i - 1]
  BY <1>2
<1>4. QED
  BY <1>2, <1>3 DEF r

(* Taking the stream at position i out of a list.                          *)
LEMMA Removed ==
    ASSUME NEW s \in Seq(File), Distinct(s), NEW i \in 1..Len(s)
    PROVE  /\ RemoveAt(s, i) \in Seq(File)
           /\ Len(RemoveAt(s, i)) = Len(s) - 1
           /\ Range(RemoveAt(s, i)) = Range(s) \ {s[i]}
           /\ Distinct(RemoveAt(s, i))
<1> DEFINE p == SubSeq(s, 1, i - 1)
           q == SubSeq(s, i + 1, Len(s))
           r == p \o q
<1>0. 1 \in 1..(Len(s) + 1) /\ i - 1 \in 0..Len(s) /\ i + 1 \in 1..(Len(s) + 1) /\ Len(s) \in 0..Len(s)
  OBVIOUS
<1>1. /\ p \in Seq(File) /\ Len(p) = i - 1
      /\ \A j \in 1..Len(p) : p[j] = s[j]
  <2>1. Len(p) = IF 1 <= i - 1 THEN i - 1 - 1 + 1 ELSE 0
    BY <1>0, Part
  <2>2. \A j \in 1..Len(p) : p[j] = s[1 + j - 1]
    BY <1>0, Part
  <2>3. p \in Seq(File)
    BY <1>0, Part
  <2> HIDE DEF p
  <2>4. QED
    BY <2>1, <2>2, <2>3
<1>2. /\ q \in Seq(File) /\ Len(q) = Len(s) - i
      /\ \A j \in 1..Len(q) : q[j] = s[i + j]
  <2>1. Len(q) = IF i + 1 <= Len(s) THEN Len(s) - (i + 1) + 1 ELSE 0
    BY <1>0, Part
  <2>2. \A j \in 1..Len(q) : q[j] = s[i + 1 + j - 1]
    BY <1>0, Part
  <2>3. q \in Seq(File)
    BY <1>0, Part
  <2> HIDE DEF q
  <2>4. QED
    BY <2>1, <2>2, <2>3
<1>3. RemoveAt(s, i) = r
  BY DEF RemoveAt
<1> HIDE DEF p, q
<1>4. r \in Seq(File) /\ Len(r) = Len(s) - 1
  <2>1. r \in Seq(File) /\ Len(r) = Len(p) + Len(q)
    BY <1>1, <1>2, ConcatProperties
  <2> HIDE DEF r
  <2>2. QED
    BY <1>1, <1>2, <2>1
<1>5. \A j \in 1..Len(r) : r[j] = IF j < i THEN s[j] ELSE s[j + 1]
  <2>1. \A j \in 1..(Len(p) + Len(q)) : r[j] = IF j <= Len(p) THEN p[j] ELSE q[j - Len(p)]
    BY <1>1, <1>2, ConcatProperties
  <2> HIDE DEF r
  <2> TAKE j \in 1..Len(r)
  <2>2. j \in 1..(Len(p) + Len(q)) /\ Len(p) = i - 1 /\ Len(q) = Len(s) - i /\ Len(s) \in Nat
    BY <1>1, <1>2, <1>4
  <2>3. r[j] = IF j <= i - 1 THEN p[j] ELSE q[j - (i - 1)]
    BY <2>1, <2>2
  <2>4. CASE j < i
    <3>1. j \in 1..Len(p) /\ j <= i - 1
      BY <2>2, <2>4
    <3>2. QED
      BY <1>1, <2>3, <2>4, <3>1
  <2>5. CASE j >= i
    <3>1. j - (i - 1) \in 1..Len(q) /\ ~(j <= i - 1) /\ i + (j - (i - 1)) = j + 1
      BY <2>2, <2>5
    <3>2. q[j - (i - 1)] = s[j + 1]
      BY <1>2, <3>1
    <3>3. QED
      BY <2>3, <2>5, <3>1, <3>2
  <2>6. QED
    BY <2>4, <2>5
<1> HIDE DEF r
<1>6. ASSUME NEW a \in 1..Len(r), NEW b \in 1..Len(r), r[a] = r[b] PROVE a = b
  <2> DEFINE x == IF a < i THEN a ELSE a + 1
             y == IF b < i THEN b ELSE b + 1
  <2>1. x \in 1..Len(s) /\ y \in 1..Len(s) /\ s[x] = s[y]
    BY <1>4, <1>5, <1>6
  <2>2. x = y
    BY <2>1 DEF Distinct
  <2>3. QED
    BY <2>2
<1>7. Range(r) \subseteq Range(s) \ {s[i]}
  <2> SUFFICES ASSUME NEW b \in Range(r) PROVE b \in Range(s) /\ b # s[i]
    OBVIOUS
  <2>1. PICK j \in 1..Len(r) : b = r[j]
    BY <1>4, Elements
  <2> DEFINE x == IF j < i THEN j ELSE j + 1
  <2>2. x \in 1..Len(s) /\ x # i /\ b = s[x]
    BY <1>4, <1>5, <2>1
  <2> HIDE DEF x
  <2>3. QED
    BY <2>2, Elements DEF Distinct
<1>8. ASSUME NEW b \in Range(s) \ {s[i]} PROVE b \in Range(r)
  <2>1. PICK k \in 1..Len(s) : b = s[k]
    BY Elements
  <2> DEFINE x == IF k < i THEN k ELSE k - 1
  <2>2. x \in 1..Len(r) /\ r[x] = b
    BY <1>4, <1>5, <2>1
  <2> HIDE DEF x
  <2>3. QED
    BY <1>4, <2>2, Elements
<1>9. QED
  BY <1>3, <1>4, <1>6, <1>7, <1>8 DEF Distinct

(* The empty list has no elements.                                         *)
LEMMA EmptyList == <<>> \in Seq(File) /\ Range(<<>>) = {} /\ Distinct(<<>>)
BY DEF Range, Distinct

(* Putting a stream last in a list that does not hold it.                  *)
LEMMA Appended ==
    ASSUME NEW s \in Seq(File), Distinct(s), NEW f \in File, f \notin Range(s)
    PROVE  /\ Append(s, f) \in Seq(File)
           /\ Range(Append(s, f)) = Range(s) \union {f}
           /\ Distinct(Append(s, f))
<1> DEFINE r == Append(s, f)
<1>1. r \in Seq(File) /\ Len(r) = Len(s) + 1 /\ Len(s) \in Nat
  OBVIOUS
<1>2. r[Len(s) + 1] = f /\ \A j \in 1..Len(s) : r[j] = s[j]
  OBVIOUS
<1> HIDE DEF r
<1>3. \A k \in 1..Len(r) : k = Len(s) + 1 \/ k \in 1..Len(s)
  BY <1>1
<1>4. \A k \in 1..Len(s) : s[k] # f
  BY Elements
<1>5. ASSUME NEW i \in 1..Len(r), NEW j \in 1..Len(r), r[i] = r[j] PROVE i = j
  BY <1>2, <1>3, <1>4, <1>5 DEF Distinct
<1>6. Range(r) \subseteq Range(s) \union {f}
  BY <1>1, <1>2, <1>3, Elements
<1>7. f \in Range(r)
  <2>1. Len(s) + 1 \in 1..Len(r)
    BY <1>1
  <2>2. QED
    BY <1>1, <1>2, <2>1, Elements
<1>8. ASSUME NEW b \in Range(s) PROVE b \in Range(r)
  <2>1. PICK k \in 1..Len(s) : b = s[k]
    BY Elements
  <2>2. k \in 1..Len(r) /\ r[k] = b
    BY <1>1, <1>2, <2>1
  <2>3. QED
    BY <1>1, <2>2, Elements
<1>9. QED
  BY <1>1, <1>5, <1>6, <1>7, <1>8 DEF r, Distinct

(* dll_remove() takes out the stream, and dll_prev() is another one.       *)
LEMMA Unlinked ==
    ASSUME files \in Seq(File), Distinct(files), NEW f \in Range(files)
    PROVE  /\ Without(f) \in Seq(File) /\ Distinct(Without(f))
           /\ Range(Without(f)) = Range(files) \ {f}
           /\ Prev(f) # None => Prev(f) \in Range(files) /\ Prev(f) # f
<1>1. DOMAIN files = 1..Len(files) /\ Len(files) \in Nat
  OBVIOUS
<1>2. \E i \in DOMAIN files : files[i] = f
  BY <1>1, Elements
<1>3. Place(f) \in 1..Len(files) /\ files[Place(f)] = f
  BY <1>1, <1>2 DEF Place
<1>4. CASE Place(f) # 1
  <2>1. Place(f) - 1 \in 1..Len(files) /\ Place(f) - 1 # Place(f)
    BY <1>1, <1>3, <1>4
  <2>2. files[Place(f) - 1] # f
    BY <1>3, <2>1 DEF Distinct
  <2>3. files[Place(f) - 1] \in Range(files)
    BY <2>1, Elements
  <2>4. Prev(f) = files[Place(f) - 1]
    BY <1>4 DEF Prev
  <2>5. QED
    BY <1>3, <2>2, <2>3, <2>4, Removed DEF Without
<1>5. CASE Place(f) = 1
  BY <1>3, <1>5, Removed DEF Without, Prev
<1>6. QED
  BY <1>4, <1>5

-----------------------------------------------------------------------------
(* The users of a stream                                                   *)

RefOK(f) ==
    IF f \in Range(files)
    THEN f \in heap /\ 1 - refs[f] = Cardinality(Handles(f)) + Cardinality(Holders(f))
    ELSE Handles(f) \union Holders(f) = {}

(* There are finitely many users.                                          *)
LEMMA FiniteUsers ==
    ASSUME NEW f
    PROVE  /\ IsFiniteSet(Handles(f)) /\ Cardinality(Handles(f)) \in Nat
           /\ IsFiniteSet(Holders(f)) /\ Cardinality(Holders(f)) \in Nat
<1>1. Handles(f) \subseteq Thread /\ Holders(f) \subseteq Thread
  BY DEF Handles, Holders
<1>2. IsFiniteSet(Handles(f)) /\ IsFiniteSet(Holders(f))
  BY <1>1, RoleAssumption, FS_Subset
<1>3. QED
  BY <1>2, FS_CardinalityType

(* A thread that moves to l with the stream c drops and takes references.  *)
LEMMA HoldersMove ==
    ASSUME TypeOK, NEW t \in Thread, NEW l, NEW c,
           pc' = [pc EXCEPT ![t] = l], cur' = [cur EXCEPT ![t] = c], NEW g \in File
    PROVE  /\ Holders(g)' = (Holders(g) \ {t}) \union (IF l \in HolderPc /\ c = g THEN {t} ELSE {})
           /\ t \in Holders(g) <=> pc[t] \in HolderPc /\ cur[t] = g
           /\ Cardinality(Holders(g)) \in Nat
           /\ t \in Holders(g) => Cardinality(Holders(g)) >= 1
           /\ Cardinality(Holders(g)') = Cardinality(Holders(g))
                                         - (IF t \in Holders(g) THEN 1 ELSE 0)
                                         + (IF l \in HolderPc /\ c = g THEN 1 ELSE 0)
<1> DEFINE H == Holders(g)
           D == H \ {t}
<1>1. /\ \A u \in Thread : pc'[u] = IF u = t THEN l ELSE pc[u]
      /\ \A u \in Thread : cur'[u] = IF u = t THEN c ELSE cur[u]
  BY DEF TypeOK
<1>2. Holders(g)' = D \union (IF l \in HolderPc /\ c = g THEN {t} ELSE {})
  BY <1>1 DEF Holders, HolderPc
<1>3. t \in H <=> pc[t] \in HolderPc /\ cur[t] = g
  BY DEF Holders, HolderPc
<1>4. IsFiniteSet(H) /\ Cardinality(H) \in Nat
  BY FiniteUsers
<1>5. t \in H => Cardinality(H) >= 1
  <2>1. Cardinality(H) = 0 => H = {}
    BY <1>4, FS_EmptySet
  <2>2. QED
    BY <1>4, <2>1
<1> HIDE DEF H
<1>6. IsFiniteSet(D) /\ Cardinality(D) = IF t \in H THEN Cardinality(H) - 1 ELSE Cardinality(H)
  BY <1>4, FS_RemoveElement
<1>7. t \notin D
  OBVIOUS
<1> HIDE DEF D
<1>8. CASE l \in HolderPc /\ c = g
  <2>1. Holders(g)' = D \union {t}
    BY <1>2, <1>8
  <2>2. Cardinality(D \union {t}) = Cardinality(D) + 1
    BY <1>6, <1>7, FS_AddElement
  <2>3. Cardinality(Holders(g)') = Cardinality(D) + 1
    BY <2>1, <2>2, Zenon
  <2>4. QED
    BY <1>2, <1>3, <1>4, <1>5, <1>6, <1>8, <2>3 DEF H, D
<1>9. CASE ~(l \in HolderPc /\ c = g)
  <2>1. Holders(g)' = D
    BY <1>2, <1>9
  <2>2. Cardinality(Holders(g)') = Cardinality(D)
    BY <2>1, Zenon
  <2>3. QED
    BY <1>2, <1>3, <1>4, <1>5, <1>6, <1>9, <2>2 DEF H, D
<1>10. QED
  BY <1>8, <1>9

(* A stream somebody uses is in the table, and its count is at most 0.     *)
LEMMA UsedIsOpen ==
    ASSUME IInv, NEW t \in Thread, NEW f \in File,
           handle[t] = f \/ (cur[t] = f /\ pc[t] \in HolderPc)
    PROVE  f \in Range(files) /\ f \in heap /\ refs[f] <= 0
<1>1. t \in Handles(f) \/ t \in Holders(f)
  BY DEF Handles, Holders, HolderPc
<1>2. f \in Range(files)
  BY <1>1 DEF IInv, RefsCounted
<1>3. f \in heap /\ 1 - refs[f] = Cardinality(Handles(f)) + Cardinality(Holders(f)) /\ refs[f] \in Int
  BY <1>2 DEF IInv, RefsCounted, TypeOK
<1>4. /\ Cardinality(Handles(f)) \in Nat /\ Cardinality(Holders(f)) \in Nat
      /\ Cardinality(Handles(f)) = 0 => Handles(f) = {}
      /\ Cardinality(Holders(f)) = 0 => Holders(f) = {}
  BY FiniteUsers, FS_EmptySet
<1>5. Cardinality(Handles(f)) + Cardinality(Holders(f)) >= 1
  BY <1>1, <1>4
<1>6. QED
  BY <1>2, <1>3, <1>4, <1>5

(* With a count of 0 the thread that holds a reference is the only user.   *)
LEMMA LastUser ==
    ASSUME IInv, NEW t \in Thread, NEW f \in File,
           cur[t] = f, pc[t] \in HolderPc, refs[f] = 0
    PROVE  Holders(f) = {t} /\ Handles(f) = {}
<1>1. t \in Holders(f)
  BY DEF Holders, HolderPc
<1>2. 1 - refs[f] = Cardinality(Handles(f)) + Cardinality(Holders(f))
  BY UsedIsOpen DEF IInv, RefsCounted
<1>3. /\ Cardinality(Handles(f)) \in Nat /\ Cardinality(Holders(f)) \in Nat
      /\ IsFiniteSet(Handles(f)) /\ IsFiniteSet(Holders(f))
  BY FiniteUsers
<1>4. Cardinality(Holders(f)) # 0
  BY <1>1, <1>3, FS_EmptySet
<1>5. Cardinality(Holders(f)) = 1 /\ Cardinality(Handles(f)) = 0
  BY <1>2, <1>3, <1>4
<1>6. Handles(f) = {}
  BY <1>3, <1>5, FS_EmptySet
<1>7. \E x : Holders(f) = {x}
  BY <1>3, <1>5, FS_Singleton
<1>8. QED
  BY <1>1, <1>6, <1>7

(* The count of a stream stays right when the stream is left alone.        *)
LEMMA RefSame ==
    ASSUME NEW g \in File, RefOK(g),
           g \in Range(files') <=> g \in Range(files),
           g \in Range(files) => g \in heap', refs'[g] = refs[g],
           Handles(g)' = Handles(g), Holders(g)' = Holders(g)
    PROVE  RefOK(g)'
BY DEF RefOK

(* A step that takes and drops no reference keeps the table.               *)
LEMMA TableSame ==
    ASSUME IInv, NEW t \in Thread, NEW l, NEW c,
           pc' = [pc EXCEPT ![t] = l], cur' = [cur EXCEPT ![t] = c],
           UNCHANGED <<files, heap, refs, handle>>,
           pc[t] # "free", l # "free", l \in HolderPc <=> pc[t] \in HolderPc,
           l \in HolderPc => c = cur[t]
    PROVE  TableInv' /\ RefsCounted'
<1>1. TypeOK /\ TableInv /\ RefsCounted
  BY DEF IInv
<1>2. /\ \A u \in Thread : pc'[u] = IF u = t THEN l ELSE pc[u]
      /\ \A u \in Thread : cur'[u] = IF u = t THEN c ELSE cur[u]
  BY <1>1 DEF TypeOK
<1>3. TableInv'
  BY <1>1, <1>2 DEF TableInv
<1>4. ASSUME NEW g \in File PROVE RefOK(g)'
  <2>1. /\ Holders(g)' = (Holders(g) \ {t}) \union (IF l \in HolderPc /\ c = g THEN {t} ELSE {})
        /\ t \in Holders(g) <=> pc[t] \in HolderPc /\ cur[t] = g
    BY <1>1, HoldersMove
  <2>2. Holders(g)' = Holders(g)
    <3>1. CASE l \in HolderPc /\ c = g
      BY <2>1, <3>1
    <3>2. CASE ~(l \in HolderPc /\ c = g)
      BY <2>1, <3>2
    <3>3. QED
      BY <3>1, <3>2
  <2>3. Handles(g)' = Handles(g)
    BY DEF Handles
  <2>4. RefOK(g) /\ (g \in Range(files) => g \in heap)
    BY <1>1 DEF RefOK, RefsCounted
  <2>5. QED
    BY <2>2, <2>3, <2>4, RefSame
<1>5. QED
  BY <1>3, <1>4 DEF RefsCounted, RefOK

-----------------------------------------------------------------------------
(* The locks                                                               *)

(* A step that leaves the locks alone and neither enters nor leaves a      *)
(* stream keeps LockInv, also when a stream is taken out of the table.     *)
LEMMA LockSame ==
    ASSUME IInv, NEW t \in Thread, NEW l, NEW c,
           pc' = [pc EXCEPT ![t] = l], cur' = [cur EXCEPT ![t] = c],
           pc[t] \notin InsidePc \union {"fork_lock", "fork"},
           l \notin InsidePc \union {"fork_lock", "fork"},
           UNCHANGED <<forking, flock, supreme, alone>>,
           Range(files') \subseteq Range(files)
    PROVE  LockInv'
<1>1. /\ \A u \in Thread : pc'[u] = IF u = t THEN l ELSE pc[u]
      /\ \A u \in Thread : cur'[u] = IF u = t THEN c ELSE cur[u]
  BY DEF IInv, TypeOK
<1>2. Present' = Present
  BY DEF Present
<1>3. TypeOK /\ LockInv
  BY DEF IInv
<1>4. ASSUME NEW f \in Range(files'), flock[f] # None
      PROVE  /\ flock[f] \in Present
             /\ \/ cur'[flock[f]] = f /\ pc'[flock[f]] \in InsidePc
                \/ flock[f] = supreme /\ forking[f]
  <2>1. f \in Range(files) /\ f \in File
    BY <1>3, Elements DEF TypeOK
  <2>2. flock[f] \in Thread
    BY <1>3, <1>4, <2>1 DEF TypeOK
  <2>3. QED
    BY <1>1, <1>3, <1>4, <2>1, <2>2 DEF LockInv
<1>5. ASSUME NEW f \in Range(files'), forking[f]
      PROVE  /\ supreme # None
             /\ \/ flock[f] = supreme
                \/ cur'[supreme] = f /\ pc'[supreme] = "fork_lock"
  <2>1. supreme # None /\ supreme \in Thread
    BY <1>3, <1>5 DEF LockInv, TypeOK
  <2>2. QED
    BY <1>1, <1>3, <1>5, <2>1 DEF LockInv
<1>6. ASSUME NEW u \in Thread, pc'[u] \in InsidePc PROVE flock[cur'[u]] = u
  BY <1>1, <1>3, <1>6 DEF LockInv
<1>7. ASSUME NEW u \in Thread, pc'[u] = "fork" PROVE \A f \in Range(files') : forking[f]
  BY <1>1, <1>3, <1>7 DEF LockInv
<1>8. ASSUME NEW u \in Thread, pc'[u] = "fork_lock" PROVE forking[cur'[u]]
  BY <1>1, <1>3, <1>8 DEF LockInv
<1>9. QED
  BY <1>2, <1>4, <1>5, <1>6, <1>7, <1>8 DEF LockInv

(* A thread that is not in fork() locks a stream.                          *)
LEMMA EnterFile ==
    ASSUME IInv, NEW t \in Thread, t \in Present, NEW l \in InsidePc,
           pc[t] \in {"fclose_lock", "fflush_lock", "all_lock"}, Lock(t, cur[t]),
           pc' = [pc EXCEPT ![t] = l],
           UNCHANGED <<files, cur, forking, supreme, alone>>
    PROVE  LockInv'
<1> DEFINE c == cur[t]
<1>1. TypeOK /\ LockInv /\ PcInv
  BY DEF IInv
<1>2. \A u \in Thread : pc'[u] = IF u = t THEN l ELSE pc[u]
  BY <1>1 DEF TypeOK
<1>3. c \in File /\ supreme # t /\ pc[t] \notin InsidePc /\ t # None
  BY <1>1, RoleAssumption DEF PcInv, InFork, UnrefPc, InsidePc
<1>4. flock[c] \in {None, t} /\ \A f \in File : flock'[f] = IF f = c THEN t ELSE flock[f]
  BY <1>1, <1>3 DEF Lock, TypeOK
<1> HIDE DEF c
<1>5. Present' = Present
  BY DEF Present
<1>6. Range(files) \subseteq File
  BY <1>1, Elements DEF TypeOK
<1>7. ASSUME NEW f \in Range(files), flock'[f] # None
      PROVE  /\ flock'[f] \in Present
             /\ \/ cur[flock'[f]] = f /\ pc'[flock'[f]] \in InsidePc
                \/ flock'[f] = supreme /\ forking[f]
  <2>1. CASE f = c
    BY <1>2, <1>4, <1>6, <2>1 DEF c
  <2>2. CASE f # c
    <3>1. flock'[f] = flock[f] /\ flock[f] \in Thread
      BY <1>1, <1>4, <1>6, <1>7, <2>2 DEF TypeOK
    <3>2. QED
      BY <1>1, <1>2, <1>3, <1>7, <3>1 DEF LockInv
  <2>3. QED
    BY <2>1, <2>2
<1>8. ASSUME NEW f \in Range(files), forking[f]
      PROVE  /\ supreme # None
             /\ \/ flock'[f] = supreme
                \/ cur[supreme] = f /\ pc'[supreme] = "fork_lock"
  <2>1. supreme # None /\ supreme \in Thread
    BY <1>1, <1>8 DEF LockInv, TypeOK
  <2>2. QED
    BY <1>1, <1>2, <1>3, <1>4, <1>6, <1>8, <2>1 DEF LockInv
<1>9. ASSUME NEW u \in Thread, pc'[u] \in InsidePc PROVE flock'[cur[u]] = u
  <2>1. CASE u = t
    BY <1>3, <1>4, <2>1 DEF c
  <2>2. CASE u # t
    <3>1. pc[u] \in InsidePc /\ flock[cur[u]] = u /\ cur[u] \in File
      BY <1>1, <1>2, <1>9, <2>2 DEF LockInv, PcInv, InsidePc
    <3>2. u # None
      BY RoleAssumption
    <3>3. QED
      BY <1>4, <2>2, <3>1, <3>2
  <2>3. QED
    BY <2>1, <2>2
<1>10. ASSUME NEW u \in Thread, pc'[u] = "fork" PROVE \A f \in Range(files) : forking[f]
  BY <1>1, <1>2, <1>10 DEF LockInv, InsidePc
<1>11. ASSUME NEW u \in Thread, pc'[u] = "fork_lock" PROVE forking[cur[u]]
  BY <1>1, <1>2, <1>11 DEF LockInv, InsidePc
<1>12. QED
  BY <1>5, <1>7, <1>8, <1>9, <1>10, <1>11 DEF LockInv

(* A thread unlocks the stream it is inside of.                            *)
LEMMA LeaveFile ==
    ASSUME IInv, NEW t \in Thread, pc[t] \in InsidePc, Unlock(cur[t]), NEW l,
           l \notin InsidePc \union {"fork_lock", "fork"},
           pc' = [pc EXCEPT ![t] = l],
           UNCHANGED <<files, cur, forking, supreme, alone>>
    PROVE  LockInv'
<1> DEFINE c == cur[t]
<1>1. TypeOK /\ LockInv /\ PcInv
  BY DEF IInv
<1>2. \A u \in Thread : pc'[u] = IF u = t THEN l ELSE pc[u]
  BY <1>1 DEF TypeOK
<1>3. c \in File /\ supreme # t /\ flock[c] = t
  BY <1>1 DEF PcInv, LockInv, InFork, UnrefPc, InsidePc
<1>4. \A f \in File : flock'[f] = IF f = c THEN None ELSE flock[f]
  BY <1>1, <1>3 DEF Unlock, TypeOK
<1> HIDE DEF c
<1>5. Present' = Present
  BY DEF Present
<1>6. Range(files) \subseteq File
  BY <1>1, Elements DEF TypeOK
<1>7. ASSUME NEW f \in Range(files), flock'[f] # None
      PROVE  /\ flock'[f] \in Present
             /\ \/ cur[flock'[f]] = f /\ pc'[flock'[f]] \in InsidePc
                \/ flock'[f] = supreme /\ forking[f]
  <2>1. f # c /\ flock'[f] = flock[f] /\ flock[f] \in Thread
    BY <1>1, <1>4, <1>6, <1>7 DEF TypeOK
  <2>2. QED
    BY <1>1, <1>2, <1>3, <1>7, <2>1 DEF LockInv, c
<1>8. ASSUME NEW f \in Range(files), forking[f]
      PROVE  /\ supreme # None
             /\ \/ flock'[f] = supreme
                \/ cur[supreme] = f /\ pc'[supreme] = "fork_lock"
  <2>1. supreme # None /\ supreme \in Thread
    BY <1>1, <1>8 DEF LockInv, TypeOK
  <2>2. QED
    BY <1>1, <1>2, <1>3, <1>4, <1>6, <1>8, <2>1 DEF LockInv
<1>9. ASSUME NEW u \in Thread, pc'[u] \in InsidePc PROVE flock'[cur[u]] = u
  <2>1. u # t /\ pc[u] \in InsidePc /\ flock[cur[u]] = u /\ cur[u] \in File
    BY <1>1, <1>2, <1>9 DEF LockInv, PcInv, InsidePc
  <2>2. QED
    BY <1>3, <1>4, <2>1
<1>10. ASSUME NEW u \in Thread, pc'[u] = "fork" PROVE \A f \in Range(files) : forking[f]
  BY <1>1, <1>2, <1>10 DEF LockInv, InsidePc
<1>11. ASSUME NEW u \in Thread, pc'[u] = "fork_lock" PROVE forking[cur[u]]
  BY <1>1, <1>2, <1>11 DEF LockInv, InsidePc
<1>12. QED
  BY <1>5, <1>7, <1>8, <1>9, <1>10, <1>11 DEF LockInv

-----------------------------------------------------------------------------
(* The steps that leave the table alone                                    *)

(* Where a thread that enters or leaves no critical section of fork() may  *)
(* go.                                                                     *)
LEMMA MovePc ==
    ASSUME IInv, NEW t \in Thread, NEW l, NEW c,
           pc' = [pc EXCEPT ![t] = l], cur' = [cur EXCEPT ![t] = c],
           \A u \in Thread \ {t} : handle'[u] = handle[u] /\ ret'[u] = ret[u],
           UNCHANGED <<stdio, supreme>>,
           pc[t] # "fork", l # "fork",
           l \notin {"idle", "fork_scan"} => c \in File,
           l \in {"fflush_lock", "fflush_write"} => handle'[t] = c,
           l \in {"fclose_lock", "fclose_flush"} => ret'[t] = "idle",
           l \in {"fork_scan", "fork_lock"} => ret'[t] = "fork_scan",
           l \in {"fork_scan", "fork_lock"} \/ (l \in UnrefPc /\ ret'[t] = "fork_scan")
             <=> pc[t] \in {"fork_scan", "fork_lock"} \/ (pc[t] \in UnrefPc /\ ret[t] = "fork_scan")
    PROVE  PcInv'
<1>1. /\ \A u \in Thread : pc'[u] = IF u = t THEN l ELSE pc[u]
      /\ \A u \in Thread : cur'[u] = IF u = t THEN c ELSE cur[u]
  BY DEF IInv, TypeOK
<1>2. PcInv
  BY DEF IInv
<1> SUFFICES ASSUME NEW u \in Thread
             PROVE  /\ pc'[u] \notin {"idle", "fork_scan", "fork"} => cur'[u] \in File
                    /\ pc'[u] \in {"fflush_lock", "fflush_write"} => handle'[u] = cur'[u]
                    /\ pc'[u] \in {"fclose_lock", "fclose_flush"} => ret'[u] = "idle"
                    /\ pc'[u] \in {"fork_scan", "fork_lock"} => ret'[u] = "fork_scan"
                    /\ InFork(u)' <=> supreme = u
                    /\ pc'[u] = "fork" <=> stdio = u
  BY DEF PcInv
<1>3. CASE u = t
  BY <1>1, <1>2, <1>3 DEF PcInv, InFork
<1>4. CASE u # t
  BY <1>1, <1>2, <1>4 DEF PcInv, InFork
<1>5. QED
  BY <1>3, <1>4

(* fclose() locks the stream.                                              *)
LEMMA FcloseLockStep ==
    ASSUME IInv, NEW t \in Thread, t \in Present, FcloseLock(t), UNCHANGED alone
    PROVE  IInv'
<1>1. /\ pc[t] = "fclose_lock" /\ pc' = [pc EXCEPT ![t] = "fclose_flush"] /\ Lock(t, cur[t])
      /\ UNCHANGED <<files, heap, refs, handle, cur, ret, forking, stdio, supreme, alone>>
  BY DEF FcloseLock, Goto, table
<1>2. TypeOK /\ PcInv
  BY DEF IInv
<1>3. cur[t] \in File /\ ret[t] = "idle" /\ cur' = [cur EXCEPT ![t] = cur[t]]
  BY <1>1, <1>2 DEF TypeOK, PcInv
<1>4. TypeOK'
  BY <1>1, <1>2, <1>3 DEF TypeOK, Pc, Lock
<1>5. PcInv'
  BY <1>1, <1>2, <1>3, MovePc DEF UnrefPc
<1>6. TableInv' /\ RefsCounted'
  BY <1>1, <1>3, TableSame DEF HolderPc
<1>7. LockInv'
  BY <1>1, EnterFile DEF InsidePc
<1>8. QED
  BY <1>4, <1>5, <1>6, <1>7 DEF IInv

(* fclose() unlocks it again.                                              *)
LEMMA FcloseUnlockStep ==
    ASSUME IInv, NEW t \in Thread, FcloseUnlock(t), UNCHANGED alone
    PROVE  IInv'
<1>1. /\ pc[t] = "fclose_flush" /\ pc' = [pc EXCEPT ![t] = "unref"] /\ Unlock(cur[t])
      /\ UNCHANGED <<files, heap, refs, handle, cur, ret, forking, stdio, supreme, alone>>
  BY DEF FcloseUnlock, Goto, table
<1>2. TypeOK /\ PcInv
  BY DEF IInv
<1>3. cur[t] \in File /\ ret[t] = "idle" /\ cur' = [cur EXCEPT ![t] = cur[t]]
  BY <1>1, <1>2 DEF TypeOK, PcInv
<1>4. TypeOK'
  BY <1>1, <1>2, <1>3 DEF TypeOK, Pc, Unlock
<1>5. PcInv'
  BY <1>1, <1>2, <1>3, MovePc DEF UnrefPc
<1>6. TableInv' /\ RefsCounted'
  BY <1>1, <1>3, TableSame DEF HolderPc
<1>7. LockInv'
  BY <1>1, LeaveFile DEF InsidePc
<1>8. QED
  BY <1>4, <1>5, <1>6, <1>7 DEF IInv

(* A thread cancelled in fclose() stays inside the stream.                 *)
LEMMA FcloseCancelStep ==
    ASSUME IInv, NEW t \in Thread, FcloseCancel(t), UNCHANGED alone
    PROVE  IInv'
<1>1. /\ pc[t] = "fclose_flush" /\ pc' = [pc EXCEPT ![t] = "canceled"]
      /\ UNCHANGED <<files, heap, refs, handle, cur, ret, forking, flock, stdio, supreme, alone>>
  BY DEF FcloseCancel, Goto, table, locks
<1>2. TypeOK /\ PcInv /\ LockInv
  BY DEF IInv
<1>3. cur[t] \in File /\ cur' = [cur EXCEPT ![t] = cur[t]]
  BY <1>1, <1>2 DEF TypeOK, PcInv
<1>4. TypeOK'
  BY <1>1, <1>2 DEF TypeOK, Pc
<1>5. PcInv'
  BY <1>1, <1>2, <1>3, MovePc DEF UnrefPc
<1>6. TableInv' /\ RefsCounted'
  BY <1>1, <1>3, TableSame DEF HolderPc
<1>7. LockInv'
  <2>1. /\ \A u \in Thread : pc'[u] \in InsidePc <=> pc[u] \in InsidePc
        /\ \A u \in Thread : pc'[u] = "fork_lock" <=> pc[u] = "fork_lock"
        /\ \A u \in Thread : pc'[u] = "fork" <=> pc[u] = "fork"
    BY <1>1, <1>2 DEF TypeOK, InsidePc
  <2>2. \A f \in Range(files) : f \in File /\ flock[f] \in Thread \union {None}
    BY <1>2, Elements DEF TypeOK
  <2>3. supreme \in Thread \union {None} /\ Present' = Present
    BY <1>1, <1>2 DEF TypeOK, Present
  <2>4. QED
    BY <1>1, <1>2, <2>1, <2>2, <2>3 DEF LockInv
<1>8. QED
  BY <1>4, <1>5, <1>6, <1>7 DEF IInv

(* fflush(f) locks the stream.                                             *)
LEMMA FflushLockStep ==
    ASSUME IInv, NEW t \in Thread, t \in Present, FflushLock(t), UNCHANGED alone
    PROVE  IInv'
<1>1. /\ pc[t] = "fflush_lock" /\ pc' = [pc EXCEPT ![t] = "fflush_write"] /\ Lock(t, cur[t])
      /\ UNCHANGED <<files, heap, refs, handle, cur, ret, forking, stdio, supreme, alone>>
  BY DEF FflushLock, Goto, table
<1>2. TypeOK /\ PcInv
  BY DEF IInv
<1>3. cur[t] \in File /\ handle[t] = cur[t] /\ cur' = [cur EXCEPT ![t] = cur[t]]
  BY <1>1, <1>2 DEF TypeOK, PcInv
<1>4. TypeOK'
  BY <1>1, <1>2, <1>3 DEF TypeOK, Pc, Lock
<1>5. PcInv'
  BY <1>1, <1>2, <1>3, MovePc DEF UnrefPc
<1>6. TableInv' /\ RefsCounted'
  BY <1>1, <1>3, TableSame DEF HolderPc
<1>7. LockInv'
  BY <1>1, EnterFile DEF InsidePc
<1>8. QED
  BY <1>4, <1>5, <1>6, <1>7 DEF IInv

(* fflush(f) unlocks it again.                                             *)
LEMMA FflushUnlockStep ==
    ASSUME IInv, NEW t \in Thread, FflushUnlock(t), UNCHANGED alone
    PROVE  IInv'
<1>1. /\ pc[t] = "fflush_write" /\ pc' = [pc EXCEPT ![t] = "idle"] /\ Unlock(cur[t])
      /\ UNCHANGED <<files, heap, refs, handle, cur, ret, forking, stdio, supreme, alone>>
  BY DEF FflushUnlock, Goto, table
<1>2. TypeOK /\ PcInv
  BY DEF IInv
<1>3. cur[t] \in File /\ cur' = [cur EXCEPT ![t] = cur[t]]
  BY <1>1, <1>2 DEF TypeOK, PcInv
<1>4. TypeOK'
  BY <1>1, <1>2, <1>3 DEF TypeOK, Pc, Unlock
<1>5. PcInv'
  BY <1>1, <1>2, <1>3, MovePc DEF UnrefPc
<1>6. TableInv' /\ RefsCounted'
  BY <1>1, <1>3, TableSame DEF HolderPc
<1>7. LockInv'
  BY <1>1, LeaveFile DEF InsidePc
<1>8. QED
  BY <1>4, <1>5, <1>6, <1>7 DEF IInv

(* fflush(0) locks a stream.                                               *)
LEMMA FlushAllLockStep ==
    ASSUME IInv, NEW t \in Thread, t \in Present, FlushAllLock(t), UNCHANGED alone
    PROVE  IInv'
<1>1. /\ pc[t] = "all_lock" /\ pc' = [pc EXCEPT ![t] = "all_write"] /\ Lock(t, cur[t])
      /\ UNCHANGED <<files, heap, refs, handle, cur, ret, forking, stdio, supreme, alone>>
  BY DEF FlushAllLock, Goto, table
<1>2. TypeOK /\ PcInv
  BY DEF IInv
<1>3. cur[t] \in File /\ cur' = [cur EXCEPT ![t] = cur[t]]
  BY <1>1, <1>2 DEF TypeOK, PcInv
<1>4. TypeOK'
  BY <1>1, <1>2, <1>3 DEF TypeOK, Pc, Lock
<1>5. PcInv'
  BY <1>1, <1>2, <1>3, MovePc DEF UnrefPc
<1>6. TableInv' /\ RefsCounted'
  BY <1>1, <1>3, TableSame DEF HolderPc
<1>7. LockInv'
  BY <1>1, EnterFile DEF InsidePc
<1>8. QED
  BY <1>4, <1>5, <1>6, <1>7 DEF IInv

(* fflush(0) unlocks it again.                                             *)
LEMMA FlushAllUnlockStep ==
    ASSUME IInv, NEW t \in Thread, FlushAllUnlock(t), UNCHANGED alone
    PROVE  IInv'
<1>1. /\ pc[t] = "all_write" /\ pc' = [pc EXCEPT ![t] = "all_next"] /\ Unlock(cur[t])
      /\ UNCHANGED <<files, heap, refs, handle, cur, ret, forking, stdio, supreme, alone>>
  BY DEF FlushAllUnlock, Goto, table
<1>2. TypeOK /\ PcInv
  BY DEF IInv
<1>3. cur[t] \in File /\ cur' = [cur EXCEPT ![t] = cur[t]]
  BY <1>1, <1>2 DEF TypeOK, PcInv
<1>4. TypeOK'
  BY <1>1, <1>2, <1>3 DEF TypeOK, Pc, Unlock
<1>5. PcInv'
  BY <1>1, <1>2, <1>3, MovePc DEF UnrefPc
<1>6. TableInv' /\ RefsCounted'
  BY <1>1, <1>3, TableSame DEF HolderPc
<1>7. LockInv'
  BY <1>1, LeaveFile DEF InsidePc
<1>8. QED
  BY <1>4, <1>5, <1>6, <1>7 DEF IInv

(* fflush(0) is cancelled: the stream is unlocked, the reference kept for  *)
(* __stdio_unref().                                                        *)
LEMMA FlushAllCancelStep ==
    ASSUME IInv, NEW t \in Thread, FlushAllCancel(t), UNCHANGED alone
    PROVE  IInv'
<1>1. /\ pc[t] = "all_write" /\ pc' = [pc EXCEPT ![t] = "unref"] /\ Unlock(cur[t])
      /\ ret' = [ret EXCEPT ![t] = "idle"]
      /\ UNCHANGED <<files, heap, refs, handle, cur, forking, stdio, supreme, alone>>
  BY DEF FlushAllCancel, Goto, table
<1>2. TypeOK /\ PcInv
  BY DEF IInv
<1>3. /\ cur[t] \in File /\ cur' = [cur EXCEPT ![t] = cur[t]] /\ ret'[t] = "idle"
      /\ \A u \in Thread \ {t} : ret'[u] = ret[u]
  BY <1>1, <1>2 DEF TypeOK, PcInv
<1>4. TypeOK'
  BY <1>1, <1>2, <1>3 DEF TypeOK, Pc, Unlock
<1>5. PcInv'
  BY <1>1, <1>2, <1>3, MovePc DEF UnrefPc
<1>6. TableInv' /\ RefsCounted'
  BY <1>1, <1>3, TableSame DEF HolderPc
<1>7. LockInv'
  BY <1>1, LeaveFile DEF InsidePc
<1>8. QED
  BY <1>4, <1>5, <1>6, <1>7 DEF IInv

(* fflush(f) is called with an open stream.                                *)
LEMMA FflushStep ==
    ASSUME IInv, NEW t \in Thread, Fflush(t), UNCHANGED alone
    PROVE  IInv'
<1>1. /\ pc[t] = "idle" /\ handle[t] # None
      /\ pc' = [pc EXCEPT ![t] = "fflush_lock"] /\ cur' = [cur EXCEPT ![t] = handle[t]]
      /\ UNCHANGED <<files, heap, refs, handle, ret, forking, flock, stdio, supreme, alone>>
  BY DEF Fflush, Use, table, locks
<1>2. TypeOK /\ PcInv
  BY DEF IInv
<1>3. handle[t] \in File
  BY <1>1, <1>2 DEF TypeOK
<1>4. TypeOK'
  BY <1>1, <1>2, <1>3 DEF TypeOK, Pc
<1>5. PcInv'
  BY <1>1, <1>2, <1>3, MovePc DEF UnrefPc
<1>6. TableInv' /\ RefsCounted'
  BY <1>1, <1>3, TableSame DEF HolderPc
<1>7. LockInv'
  BY <1>1, LockSame DEF InsidePc
<1>8. QED
  BY <1>4, <1>5, <1>6, <1>7 DEF IInv

(* __stdio_unref() finds a count of 0, and goes for __stdio.lock.          *)
LEMMA UnrefLastStep ==
    ASSUME IInv, NEW t \in Thread, UnrefLast(t), UNCHANGED alone
    PROVE  IInv'
<1>1. /\ pc[t] = "unref" /\ pc' = [pc EXCEPT ![t] = "unref_lock"]
      /\ UNCHANGED <<files, heap, refs, handle, cur, ret, forking, flock, stdio, supreme, alone>>
  BY DEF UnrefLast, Goto, table, locks
<1>2. TypeOK /\ PcInv
  BY DEF IInv
<1>3. cur[t] \in File /\ cur' = [cur EXCEPT ![t] = cur[t]]
  BY <1>1, <1>2 DEF TypeOK, PcInv
<1>4. TypeOK'
  BY <1>1, <1>2 DEF TypeOK, Pc
<1>5. PcInv'
  BY <1>1, <1>2, <1>3, MovePc DEF UnrefPc
<1>6. TableInv' /\ RefsCounted'
  BY <1>1, <1>3, TableSame DEF HolderPc
<1>7. LockInv'
  BY <1>1, <1>3, LockSame DEF InsidePc
<1>8. QED
  BY <1>4, <1>5, <1>6, <1>7 DEF IInv

-----------------------------------------------------------------------------
(* fork()                                                                  *)

(* fork() takes the supreme lock.                                          *)
LEMMA ForkBeginStep ==
    ASSUME IInv, NEW t \in Thread, ForkBegin(t), UNCHANGED alone
    PROVE  IInv'
<1>1. /\ pc[t] = "idle" /\ supreme = None /\ supreme' = t
      /\ pc' = [pc EXCEPT ![t] = "fork_scan"] /\ ret' = [ret EXCEPT ![t] = "fork_scan"]
      /\ UNCHANGED <<files, heap, refs, handle, cur, forking, flock, stdio, alone>>
  BY DEF ForkBegin, Goto, table
<1>2. TypeOK /\ PcInv /\ LockInv
  BY DEF IInv
<1>3. /\ \A u \in Thread : pc'[u] = IF u = t THEN "fork_scan" ELSE pc[u]
      /\ \A u \in Thread : ret'[u] = IF u = t THEN "fork_scan" ELSE ret[u]
      /\ cur' = [cur EXCEPT ![t] = cur[t]]
  BY <1>1, <1>2 DEF TypeOK
<1>4. TypeOK'
  BY <1>1, <1>2 DEF TypeOK, Pc
<1>5. PcInv'
  <2>1. \A u \in Thread : ~InFork(u)
    BY <1>1, <1>2, RoleAssumption DEF PcInv
  <2>2. QED
    BY <1>1, <1>2, <1>3, <2>1 DEF PcInv, InFork
<1>6. TableInv' /\ RefsCounted'
  BY <1>1, <1>3, TableSame DEF HolderPc
<1>7. LockInv'
  <2>1. Present' = Present
    BY <1>1 DEF Present
  <2>2. \A f \in Range(files) : f \in File /\ ~forking[f]
    BY <1>1, <1>2, Elements DEF LockInv, TypeOK
  <2>3. \A f \in Range(files) : flock[f] \in Thread \union {None}
    BY <1>2, <2>2 DEF TypeOK
  <2>4. QED
    BY <1>1, <1>2, <1>3, <2>1, <2>2, <2>3 DEF LockInv, InsidePc
<1>8. QED
  BY <1>4, <1>5, <1>6, <1>7 DEF IInv

(* fork() gets the lock of a stream it has marked.                         *)
LEMMA ForkLockStep ==
    ASSUME IInv, NEW t \in Thread, t \in Present, ForkLock(t), UNCHANGED alone
    PROVE  IInv'
<1> DEFINE c == cur[t]
<1>1. /\ pc[t] = "fork_lock" /\ Lock(t, c) /\ pc' = [pc EXCEPT ![t] = "unref"]
      /\ UNCHANGED <<files, heap, refs, handle, cur, ret, forking, stdio, supreme, alone>>
  BY DEF ForkLock, Goto, table
<1>2. TypeOK /\ PcInv /\ LockInv
  BY DEF IInv
<1>3. \A u \in Thread : pc'[u] = IF u = t THEN "unref" ELSE pc[u]
  BY <1>1, <1>2 DEF TypeOK
<1>4. c \in File /\ supreme = t /\ forking[c]
  BY <1>1, <1>2 DEF PcInv, LockInv, InFork
<1>5. flock[c] \in {None, t} /\ \A f \in File : flock'[f] = IF f = c THEN t ELSE flock[f]
  BY <1>1, <1>2, <1>4 DEF Lock, TypeOK
<1>6. TypeOK'
  BY <1>1, <1>2, <1>4 DEF TypeOK, Pc, Lock
<1> HIDE DEF c
<1>7. PcInv'
  <2>1. ret[t] = "fork_scan"
    BY <1>1, <1>2 DEF PcInv, c
  <2>2. \A u \in Thread : InFork(u)' <=> InFork(u)
    BY <1>1, <1>3, <2>1 DEF InFork, UnrefPc
  <2>3. QED
    BY <1>1, <1>2, <1>3, <1>4, <2>2 DEF PcInv, c
<1>8. TableInv' /\ RefsCounted'
  <2>1. cur' = [cur EXCEPT ![t] = cur[t]]
    BY <1>1, <1>2 DEF TypeOK
  <2>2. QED
    BY <1>1, <2>1, TableSame DEF HolderPc
<1>9. LockInv'
  <2>1. Present' = Present
    BY <1>1 DEF Present
  <2>2. \A f \in Range(files) : f \in File
    BY <1>2, Elements DEF TypeOK
  <2>3. ASSUME NEW f \in Range(files), flock'[f] # None
        PROVE  /\ flock'[f] \in Present
               /\ \/ cur[flock'[f]] = f /\ pc'[flock'[f]] \in InsidePc
                  \/ flock'[f] = supreme /\ forking[f]
    <3>1. CASE f = c
      BY <1>4, <1>5, <3>1
    <3>2. CASE f # c
      <4>1. flock'[f] = flock[f] /\ flock[f] \in Thread
        BY <1>2, <1>5, <2>2, <2>3, <3>2 DEF TypeOK
      <4>2. QED
        BY <1>1, <1>2, <1>3, <2>3, <4>1 DEF LockInv, InsidePc
    <3>3. QED
      BY <3>1, <3>2
  <2>4. ASSUME NEW f \in Range(files), forking[f] PROVE supreme # None /\ flock'[f] = supreme
    <3>1. supreme # None
      BY <1>2, <2>4 DEF LockInv
    <3>2. CASE f = c
      BY <1>4, <1>5, <3>1, <3>2
    <3>3. CASE f # c
      BY <1>2, <1>4, <1>5, <2>2, <2>4, <3>1, <3>3 DEF LockInv, c
    <3>4. QED
      BY <3>1, <3>2, <3>3
  <2>5. ASSUME NEW u \in Thread, pc'[u] \in InsidePc PROVE flock'[cur[u]] = u
    <3>1. u # t /\ pc[u] \in InsidePc /\ flock[cur[u]] = u /\ cur[u] \in File /\ u # None
      BY <1>2, <1>3, <2>5, RoleAssumption DEF LockInv, PcInv, InsidePc
    <3>2. QED
      BY <1>5, <3>1
  <2>6. \A u \in Thread : pc'[u] = "fork" => \A f \in Range(files) : forking[f]
    BY <1>2, <1>3 DEF LockInv
  <2>7. \A u \in Thread : pc'[u] = "fork_lock" => forking[cur[u]]
    BY <1>2, <1>3 DEF LockInv
  <2>8. QED
    BY <1>1, <2>1, <2>3, <2>4, <2>5, <2>6, <2>7 DEF LockInv
<1>10. QED
  BY <1>6, <1>7, <1>8, <1>9 DEF IInv

(* When fork() has all locks it has them alone, and nobody is inside.      *)
LEMMA Quiescent ==
    ASSUME IInv, NEW t \in Thread, pc[t] = "fork"
    PROVE  /\ stdio = t /\ supreme = t
           /\ \A f \in Range(files) : flock[f] = t
           /\ \A u \in Thread : pc[u] \notin InsidePc \union {"fork_lock"} /\ (pc[u] = "fork" => u = t)
<1>1. TypeOK /\ PcInv /\ LockInv
  BY DEF IInv
<1>2. stdio = t /\ supreme = t
  BY <1>1 DEF PcInv, InFork
<1>3. \A f \in Range(files) : flock[f] = t
  BY <1>1, <1>2 DEF LockInv
<1>4. ASSUME NEW u \in Thread PROVE pc[u] \notin InsidePc
  <2> SUFFICES ASSUME pc[u] \in InsidePc PROVE FALSE
    OBVIOUS
  <2>1. cur[u] \in File /\ flock[cur[u]] = u /\ u # t
    BY <1>1 DEF PcInv, LockInv, InsidePc
  <2>2. handle[u] = cur[u] \/ pc[u] \in HolderPc
    BY <1>1 DEF PcInv, InsidePc, HolderPc
  <2>3. cur[u] \in Range(files)
    BY <2>1, <2>2, UsedIsOpen
  <2>4. QED
    BY <1>3, <2>1, <2>3
<1>5. \A u \in Thread : pc[u] # "fork_lock" /\ (pc[u] = "fork" => u = t)
  BY <1>1, <1>2 DEF PcInv, InFork
<1>6. QED
  BY <1>2, <1>3, <1>4, <1>5

(* fork() returns, in the parent or in the child.                          *)
LEMMA ForkReturnStep ==
    ASSUME IInv, NEW t \in Thread, pc[t] = "fork", pc' = [pc EXCEPT ![t] = "idle"],
           forking' = [f \in File |-> FALSE],
           flock' = [f \in File |-> IF f \in Range(files) THEN None ELSE flock[f]],
           stdio' = None, supreme' = None, alone' \in Thread \union {None},
           UNCHANGED <<table, handle, cur, ret>>
    PROVE  IInv'
<1>1. TypeOK /\ PcInv /\ LockInv
  BY DEF IInv
<1>2. /\ UNCHANGED <<files, heap, refs>> /\ cur' = [cur EXCEPT ![t] = cur[t]]
      /\ \A u \in Thread : pc'[u] = IF u = t THEN "idle" ELSE pc[u]
  BY <1>1 DEF table, TypeOK
<1>3. /\ stdio = t /\ supreme = t
      /\ \A u \in Thread : pc[u] \notin InsidePc \union {"fork_lock"} /\ (pc[u] = "fork" => u = t)
  BY Quiescent
<1>4. TypeOK'
  <2>1. flock' \in [File -> Thread \union {None}]
    BY <1>1 DEF TypeOK
  <2>2. forking' \in [File -> BOOLEAN]
    OBVIOUS
  <2>3. QED
    BY <1>1, <1>2, <2>1, <2>2 DEF TypeOK, Pc
<1>5. PcInv'
  <2>1. \A u \in Thread : ~InFork(u)'
    BY <1>1, <1>2, <1>3 DEF PcInv, InFork, UnrefPc
  <2>2. QED
    BY <1>1, <1>2, <1>3, <2>1, RoleAssumption DEF PcInv
<1>6. TableInv' /\ RefsCounted'
  BY <1>2, TableSame DEF HolderPc
<1>7. LockInv'
  <2>1. \A f \in Range(files) : f \in File
    BY <1>1, Elements DEF TypeOK
  <2>2. \A f \in Range(files) : flock'[f] = None /\ ~forking'[f]
    BY <2>1
  <2>3. \A u \in Thread : pc'[u] \notin InsidePc \union {"fork_lock", "fork"}
    BY <1>2, <1>3 DEF InsidePc
  <2>4. QED
    BY <1>2, <2>2, <2>3 DEF LockInv
<1>8. QED
  BY <1>4, <1>5, <1>6, <1>7 DEF IInv

-----------------------------------------------------------------------------
(* The steps that change the table                                         *)

(* __stdio_ref() of a stream in the table.                                 *)
LEMMA TakeRef ==
    ASSUME IInv, NEW t \in Thread, NEW f \in Range(files), NEW l \in HolderPc,
           pc[t] \notin HolderPc \union {"free"},
           pc' = [pc EXCEPT ![t] = l], cur' = [cur EXCEPT ![t] = f],
           refs' = [refs EXCEPT ![f] = @ - 1], UNCHANGED <<files, heap, handle>>
    PROVE  refs' \in [File -> {r \in Int : r <= 1}] /\ TableInv' /\ RefsCounted'
<1>1. TypeOK /\ TableInv /\ RefsCounted
  BY DEF IInv
<1>2. f \in File /\ refs \in [File -> {r \in Int : r <= 1}]
  BY <1>1, Elements DEF TypeOK
<1>3. \A g \in File : refs'[g] = IF g = f THEN refs[g] - 1 ELSE refs[g]
  BY <1>2
<1>4. /\ \A u \in Thread : pc'[u] = IF u = t THEN l ELSE pc[u]
      /\ \A u \in Thread : cur'[u] = IF u = t THEN f ELSE cur[u]
  BY <1>1 DEF TypeOK
<1>5. refs' \in [File -> {r \in Int : r <= 1}]
  BY <1>2
<1>6. TableInv'
  <2>1. l # "free"
    BY DEF HolderPc
  <2>2. QED
    BY <1>1, <1>2, <1>3, <1>4, <2>1 DEF TableInv
<1>7. ASSUME NEW g \in File PROVE RefOK(g)'
  <2>1. RefOK(g) /\ (g \in Range(files) => g \in heap) /\ Handles(g)' = Handles(g)
    BY <1>1 DEF RefOK, RefsCounted, Handles
  <2>2. /\ Holders(g)' = (Holders(g) \ {t}) \union (IF l \in HolderPc /\ f = g THEN {t} ELSE {})
        /\ t \notin Holders(g)
        /\ Cardinality(Holders(g)) \in Nat
        /\ Cardinality(Holders(g)') = Cardinality(Holders(g)) - 0
                                         + (IF l \in HolderPc /\ f = g THEN 1 ELSE 0)
    BY <1>1, HoldersMove, ZenonT(60)
  <2>3. CASE g # f
    <3>1. Holders(g)' = Holders(g)
      BY <2>2, <2>3
    <3>2. QED
      BY <1>3, <2>1, <2>3, <3>1, RefSame
  <2>4. CASE g = f
    <3>1. Cardinality(Holders(g)') = Cardinality(Holders(g)) + 1
      BY <2>2, <2>4
    <3>2. Cardinality(Handles(g)) \in Nat /\ Cardinality(Handles(g)') = Cardinality(Handles(g))
      BY <2>1, FiniteUsers
    <3>3. 1 - refs[g] = Cardinality(Handles(g)) + Cardinality(Holders(g)) /\ refs[g] \in Int
      BY <1>2, <2>1, <2>4 DEF RefOK
    <3>4. refs'[g] = refs[g] - 1
      BY <1>3, <2>4
    <3>5. 1 - refs'[g] = Cardinality(Handles(g)') + Cardinality(Holders(g)')
      BY <2>2, <3>1, <3>2, <3>3, <3>4
    <3>6. g \in Range(files') /\ g \in heap'
      BY <2>1, <2>4
    <3>7. QED
      BY <3>5, <3>6 DEF RefOK
  <2>5. QED
    BY <2>3, <2>4
<1>8. QED
  BY <1>5, <1>6, <1>7 DEF RefsCounted, RefOK

(* __stdio_unref() of cur, which takes the stream out of the table with    *)
(* the last reference, and perhaps __stdio_ref() of another stream c.      *)
LEMMA DropRef ==
    ASSUME IInv, NEW t \in Thread, NEW l, NEW c, pc[t] \in HolderPc,
           pc' = [pc EXCEPT ![t] = l], cur' = [cur EXCEPT ![t] = c],
           l \in HolderPc => c \in Range(files) \ {cur[t]},
           refs' \in [File -> Int],
           \A g \in File : refs'[g] = refs[g] + (IF g = cur[t] THEN 1 ELSE 0)
                                              - (IF l \in HolderPc /\ c = g THEN 1 ELSE 0),
           \/ /\ refs[cur[t]] # 0 /\ l # "free" /\ UNCHANGED <<files, heap>>
           \/ /\ refs[cur[t]] = 0 /\ files' = Without(cur[t]) /\ (l = "free" => c = cur[t])
              /\ heap' = IF l = "free" THEN heap ELSE heap \ {cur[t]},
           UNCHANGED handle
    PROVE  /\ files' \in Seq(File) /\ heap' \subseteq File
           /\ Range(files') \subseteq Range(files)
           /\ refs' \in [File -> {r \in Int : r <= 1}] /\ TableInv' /\ RefsCounted'
<1> DEFINE f == cur[t]
           gone == refs[f] = 0
           took(g) == l \in HolderPc /\ c = g
<1>1. TypeOK /\ PcInv /\ TableInv /\ RefsCounted
  BY DEF IInv
<1>2. f \in File
  BY <1>1 DEF PcInv, HolderPc
<1>3. f \in Range(files) /\ f \in heap /\ refs[f] <= 0
  BY <1>2, UsedIsOpen
<1>4. refs \in [File -> {r \in Int : r <= 1}] /\ files \in Seq(File) /\ Range(files) \subseteq File
  BY <1>1, Elements DEF TypeOK
<1>5. /\ \A u \in Thread : pc'[u] = IF u = t THEN l ELSE pc[u]
      /\ \A u \in Thread : cur'[u] = IF u = t THEN c ELSE cur[u]
  BY <1>1 DEF TypeOK
<1>6. /\ files' \in Seq(File) /\ Distinct(files')
      /\ Range(files') = IF gone THEN Range(files) \ {f} ELSE Range(files)
  BY <1>1, <1>3, <1>4, Unlinked DEF TableInv
<1>7. heap' = (IF gone /\ l # "free" THEN heap \ {f} ELSE heap) /\ (l = "free" => gone /\ c = f)
  OBVIOUS
<1>8. gone => Holders(f) = {t} /\ Handles(f) = {}
  BY <1>2, LastUser
<1>9. \A g \in File : refs'[g] = refs[g] + (IF g = f THEN 1 ELSE 0) - (IF took(g) THEN 1 ELSE 0)
  OBVIOUS
<1>10. \A g : took(g) => g \in Range(files) /\ g # f
  OBVIOUS
<1>11. pc[t] # "free"
  BY DEF HolderPc
<1> HIDE DEF gone
<1>12. refs' \in [File -> {r \in Int : r <= 1}]
  <2>1. ASSUME NEW g \in File PROVE refs'[g] \in Int /\ refs'[g] <= 1
    BY <1>3, <1>4, <1>9, SMTT(30)
  <2>2. QED
    BY <2>1
<1>13. heap' \subseteq File
  BY <1>1, <1>7 DEF TypeOK
<1>14. TableInv'
  <2>1. Range(files') \subseteq heap'
    BY <1>1, <1>6, <1>7 DEF TableInv
  <2>2. ASSUME NEW g \in File \ Range(files') PROVE refs'[g] = 1
    <3>1. ~took(g)
      BY <1>6, <1>10, <2>2
    <3>2. CASE g = f
      <4>1. refs[f] = 0
        BY <1>3, <1>6, <2>2, <3>2 DEF gone
      <4>2. QED
        BY <1>9, <3>1, <3>2, <4>1
    <3>3. CASE g # f
      <4>1. refs[g] = 1
        BY <1>1, <1>6, <2>2, <3>3 DEF TableInv
      <4>2. QED
        BY <1>9, <3>1, <3>3, <4>1
    <3>4. QED
      BY <3>2, <3>3
  <2>3. ASSUME NEW u \in Thread, pc'[u] = "free" PROVE cur'[u] \in heap' \ Range(files')
    <3>1. CASE u = t
      BY <1>3, <1>5, <1>6, <1>7, <2>3, <3>1
    <3>2. CASE u # t
      <4>1. cur'[u] = cur[u] /\ cur[u] \in heap \ Range(files) /\ cur[u] # f
        BY <1>1, <1>3, <1>5, <2>3, <3>2 DEF TableInv
      <4>2. QED
        BY <1>6, <1>7, <4>1
    <3>3. QED
      BY <3>1, <3>2
  <2>4. ASSUME NEW v \in Thread, NEW u \in Thread,
               pc'[v] = "free", pc'[u] = "free", cur'[v] = cur'[u]
        PROVE  v = u
    <3>1. \A w \in Thread : w # t /\ pc'[w] = "free" =>
             pc[w] = "free" /\ cur'[w] = cur[w] /\ cur[w] # f
      BY <1>1, <1>3, <1>5 DEF TableInv
    <3>2. pc'[t] = "free" => cur'[t] = f
      BY <1>5, <1>7
    <3>3. QED
      BY <1>1, <2>4, <3>1, <3>2 DEF TableInv
  <2>5. QED
    BY <1>6, <2>1, <2>2, <2>3, <2>4 DEF TableInv
<1>15. ASSUME NEW g \in File PROVE RefOK(g)'
  <2>1. RefOK(g) /\ (g \in Range(files) => g \in heap) /\ Handles(g)' = Handles(g)
    BY <1>1 DEF RefOK, RefsCounted, Handles
  <2>2. /\ Holders(g)' = (Holders(g) \ {t}) \union (IF took(g) THEN {t} ELSE {})
        /\ t \in Holders(g) <=> f = g
        /\ Cardinality(Holders(g)) \in Nat
        /\ t \in Holders(g) => Cardinality(Holders(g)) >= 1
        /\ Cardinality(Holders(g)') = Cardinality(Holders(g))
                                         - (IF t \in Holders(g) THEN 1 ELSE 0)
                                         + (IF took(g) THEN 1 ELSE 0)
    BY <1>1, HoldersMove
  <2>3. Cardinality(Handles(g)) \in Nat /\ Cardinality(Handles(g)') = Cardinality(Handles(g))
    BY <2>1, FiniteUsers
  <2> HIDE DEF took, f
  <2>4. CASE g # f /\ ~took(g)
    <3>1. Holders(g)' = Holders(g)
      BY <2>2, <2>4
    <3>2. g \in Range(files') <=> g \in Range(files)
      BY <1>6, <2>4
    <3>3. refs'[g] = refs[g]
      BY <1>4, <1>9, <2>4
    <3>4. g \in Range(files) => g \in heap'
      BY <1>7, <2>1, <2>4
    <3>5. QED
      BY <2>1, <3>1, <3>2, <3>3, <3>4, RefSame
  <2>5. CASE took(g)
    <3>1. g # f /\ g \in Range(files) /\ g \in Range(files') /\ g \in heap'
      BY <1>6, <1>7, <1>10, <2>1, <2>5
    <3>2. Cardinality(Holders(g)') = Cardinality(Holders(g)) + 1
      BY <2>2, <2>5, <3>1
    <3>3. 1 - refs[g] = Cardinality(Handles(g)) + Cardinality(Holders(g)) /\ refs[g] \in Int
      BY <1>4, <2>1, <3>1 DEF RefOK
    <3>4. refs'[g] = refs[g] - 1
      BY <1>9, <2>5, <3>1, <3>3
    <3>5. 1 - refs'[g] = Cardinality(Handles(g)') + Cardinality(Holders(g)')
      BY <2>2, <2>3, <3>2, <3>3, <3>4
    <3>6. QED
      BY <3>1, <3>5 DEF RefOK
  <2>6. CASE g = f /\ gone
    <3>1. ~took(g)
      BY <1>10, <2>6
    <3>2. Handles(g)' = {} /\ Holders(g)' = {}
      BY <1>8, <2>1, <2>2, <2>6, <3>1
    <3>3. g \notin Range(files')
      BY <1>6, <2>6
    <3>4. QED
      BY <3>2, <3>3 DEF RefOK
  <2>7. CASE g = f /\ ~gone
    <3>1. ~took(g)
      BY <1>10, <2>7
    <3>2. g \in Range(files) /\ g \in Range(files') /\ g \in heap'
      BY <1>3, <1>6, <1>7, <2>7
    <3>3. Cardinality(Holders(g)') = Cardinality(Holders(g)) - 1
      BY <2>2, <2>7, <3>1
    <3>4. 1 - refs[g] = Cardinality(Handles(g)) + Cardinality(Holders(g)) /\ refs[g] \in Int
      BY <1>4, <2>1, <3>2 DEF RefOK
    <3>5. refs'[g] = refs[g] + 1
      BY <1>9, <2>7, <3>1, <3>4
    <3>6. 1 - refs'[g] = Cardinality(Handles(g)') + Cardinality(Holders(g)')
      BY <2>2, <2>3, <3>3, <3>4, <3>5
    <3>7. QED
      BY <3>2, <3>6 DEF RefOK
  <2>8. QED
    BY <2>4, <2>5, <2>6, <2>7
<1>16. Range(files') \subseteq Range(files)
  BY <1>6
<1>17. QED
  BY <1>6, <1>12, <1>13, <1>14, <1>15, <1>16 DEF RefsCounted, RefOK

(* __stdio_unref() of a stream that has other users.                       *)
LEMMA UnrefSharedStep ==
    ASSUME IInv, NEW t \in Thread, UnrefShared(t), UNCHANGED alone
    PROVE  IInv'
<1> DEFINE f == cur[t]
<1>0. PICK l : l = ret[t]
  OBVIOUS
<1>1. /\ pc[t] = "unref" /\ refs[f] # 0 /\ refs' = [refs EXCEPT ![f] = @ + 1]
      /\ pc' = [pc EXCEPT ![t] = l]
      /\ UNCHANGED <<files, heap, handle, cur, ret, forking, flock, stdio, supreme, alone>>
  BY <1>0 DEF UnrefShared, Goto, locks
<1>2. TypeOK /\ PcInv
  BY DEF IInv
<1>3. f \in File /\ cur' = [cur EXCEPT ![t] = f] /\ l \in {"idle", "fork_scan"}
  BY <1>0, <1>1, <1>2 DEF TypeOK, PcInv
<1>4. refs' \in [File -> Int] /\ \A g \in File : refs[g] \in Int
  BY <1>1, <1>2, <1>3 DEF TypeOK
<1>5. pc[t] \in HolderPc /\ l \notin HolderPc /\ l # "free"
  BY <1>1, <1>3 DEF HolderPc
<1>6. \A g \in File : refs'[g] = refs[g] + (IF g = f THEN 1 ELSE 0)
                                           - (IF l \in HolderPc /\ f = g THEN 1 ELSE 0)
  BY <1>1, <1>2, <1>3, <1>4, <1>5 DEF TypeOK
<1>7. refs' \in [File -> {r \in Int : r <= 1}] /\ TableInv' /\ RefsCounted'
  <2>1. PICK c : c = cur[t]
    OBVIOUS
  <2>2. \/ /\ refs[cur[t]] # 0 /\ l # "free" /\ UNCHANGED <<files, heap>>
        \/ /\ refs[cur[t]] = 0 /\ files' = Without(cur[t]) /\ (l = "free" => c = cur[t])
           /\ heap' = IF l = "free" THEN heap ELSE heap \ {cur[t]}
    BY <1>1, <1>5
  <2>3. (l \in HolderPc => c \in Range(files) \ {cur[t]}) /\ cur' = [cur EXCEPT ![t] = c]
    BY <1>3, <1>5, <2>1
  <2>4. \A g \in File : refs'[g] = refs[g] + (IF g = cur[t] THEN 1 ELSE 0)
                                             - (IF l \in HolderPc /\ c = g THEN 1 ELSE 0)
    BY <1>6, <2>1
  <2>5. pc' = [pc EXCEPT ![t] = l] /\ UNCHANGED handle
    BY <1>1
  <2>6. QED
    BY <1>4, <1>5, <2>2, <2>3, <2>4, <2>5, DropRef, Zenon
<1>8. TypeOK'
  BY <1>1, <1>2, <1>3, <1>7 DEF TypeOK, Pc
<1>9. PcInv'
  BY <1>0, <1>1, <1>2, <1>3, MovePc DEF UnrefPc
<1>10. LockInv'
  BY <1>1, <1>3, LockSame DEF InsidePc
<1>11. QED
  BY <1>7, <1>8, <1>9, <1>10 DEF IInv

(* __stdio_unref() with __stdio.lock: the stream is taken out, or it has   *)
(* got users again.                                                        *)
LEMMA UnrefLockStep ==
    ASSUME IInv, NEW t \in Thread, UnrefLock(t), UNCHANGED alone
    PROVE  IInv'
<1> DEFINE f == cur[t]
<1>1. /\ pc[t] = "unref_lock"
      /\ UNCHANGED <<heap, handle, cur, ret, forking, flock, stdio, supreme, alone>>
  BY DEF UnrefLock, locks
<1>2. TypeOK /\ PcInv
  BY DEF IInv
<1>3. f \in File /\ cur' = [cur EXCEPT ![t] = f]
  BY <1>1, <1>2 DEF TypeOK, PcInv
<1>4. CASE refs[f] # 0
  <2>1. pc' = [pc EXCEPT ![t] = "unref"] /\ UNCHANGED <<files, refs>>
    BY <1>4 DEF UnrefLock, Goto
  <2>2. TypeOK'
    BY <1>1, <1>2, <2>1 DEF TypeOK, Pc
  <2>3. PcInv'
    BY <1>1, <1>2, <1>3, <2>1, MovePc DEF UnrefPc
  <2>4. TableInv' /\ RefsCounted'
    BY <1>1, <1>3, <2>1, TableSame DEF HolderPc
  <2>5. LockInv'
    BY <1>1, <1>3, <2>1, LockSame DEF InsidePc
  <2>6. QED
    BY <2>2, <2>3, <2>4, <2>5 DEF IInv
<1>5. CASE refs[f] = 0
  <2>1. /\ pc' = [pc EXCEPT ![t] = "free"] /\ files' = Without(f)
        /\ refs' = [refs EXCEPT ![f] = 1]
    BY <1>5 DEF UnrefLock, Goto
  <2>2. refs' \in [File -> Int] /\ \A g \in File : refs[g] \in Int
    BY <1>2, <1>3, <2>1 DEF TypeOK
  <2>3. pc[t] \in HolderPc /\ "free" \notin HolderPc
    BY <1>1 DEF HolderPc
  <2>4. \A g \in File : refs'[g] = refs[g] + (IF g = f THEN 1 ELSE 0)
                                   - (IF "free" \in HolderPc /\ f = g THEN 1 ELSE 0)
    BY <1>2, <1>3, <1>5, <2>1, <2>2, <2>3 DEF TypeOK
  <2>5. /\ files' \in Seq(File) /\ Range(files') \subseteq Range(files)
        /\ refs' \in [File -> {r \in Int : r <= 1}] /\ TableInv' /\ RefsCounted'
    BY <1>1, <1>3, <1>5, <2>1, <2>2, <2>3, <2>4, DropRef, ZenonT(60)
  <2>6. TypeOK'
    BY <1>1, <1>2, <2>1, <2>5 DEF TypeOK, Pc
  <2>7. PcInv'
    BY <1>1, <1>2, <1>3, <2>1, MovePc DEF UnrefPc
  <2>8. LockInv'
    BY <1>1, <1>3, <2>1, <2>5, LockSame DEF InsidePc
  <2>9. QED
    BY <2>5, <2>6, <2>7, <2>8 DEF IInv
<1>6. QED
  BY <1>4, <1>5

(* The memory of a stream that was taken out is given back.                *)
LEMMA FreeStep ==
    ASSUME IInv, NEW t \in Thread, Free(t), UNCHANGED alone
    PROVE  IInv'
<1> DEFINE f == cur[t]
<1>0. PICK l : l = ret[t]
  OBVIOUS
<1>1. /\ pc[t] = "free" /\ heap' = heap \ {f} /\ pc' = [pc EXCEPT ![t] = l]
      /\ UNCHANGED <<files, refs, handle, cur, ret, forking, flock, stdio, supreme, alone>>
  BY <1>0 DEF Free, Goto, locks
<1>2. TypeOK /\ PcInv /\ TableInv /\ RefsCounted
  BY DEF IInv
<1>3. f \in File /\ cur' = [cur EXCEPT ![t] = f] /\ l \in {"idle", "fork_scan"}
  BY <1>0, <1>1, <1>2 DEF TypeOK, PcInv
<1>4. TypeOK'
  BY <1>1, <1>2, <1>3 DEF TypeOK, Pc
<1>5. PcInv'
  BY <1>0, <1>1, <1>2, <1>3, MovePc DEF UnrefPc
<1>6. LockInv'
  BY <1>1, <1>3, LockSame DEF InsidePc
<1>7. f \in heap \ Range(files)
  BY <1>1, <1>2 DEF TableInv
<1>8. \A u \in Thread : pc'[u] = IF u = t THEN l ELSE pc[u]
  BY <1>1, <1>2 DEF TypeOK
<1>9. TableInv'
  <2>1. ASSUME NEW u \in Thread, pc'[u] = "free" PROVE cur[u] \in heap' \ Range(files)
    <3>1. u # t /\ pc[u] = "free"
      BY <1>3, <1>8, <2>1
    <3>2. cur[u] # f /\ cur[u] \in heap \ Range(files)
      BY <1>1, <1>2, <3>1 DEF TableInv
    <3>3. QED
      BY <1>1, <3>2
  <2>2. ASSUME NEW v \in Thread, NEW u \in Thread,
               pc'[v] = "free", pc'[u] = "free", cur[v] = cur[u]
        PROVE  v = u
    BY <1>2, <1>3, <1>8, <2>2 DEF TableInv
  <2>3. Range(files) \subseteq heap'
    BY <1>1, <1>2, <1>7 DEF TableInv
  <2>4. QED
    BY <1>1, <1>2, <2>1, <2>2, <2>3 DEF TableInv
<1>10. ASSUME NEW g \in File PROVE RefOK(g)'
  <2>1. RefOK(g) /\ (g \in Range(files) => g \in heap') /\ Handles(g)' = Handles(g)
    BY <1>1, <1>2, <1>7 DEF RefOK, RefsCounted, Handles
  <2>2. /\ Holders(g)' = (Holders(g) \ {t}) \union (IF l \in HolderPc /\ f = g THEN {t} ELSE {})
        /\ t \in Holders(g) <=> pc[t] \in HolderPc /\ cur[t] = g
    BY <1>1, <1>2, <1>3, HoldersMove
  <2>3. l \notin HolderPc /\ pc[t] \notin HolderPc
    BY <1>1, <1>3 DEF HolderPc
  <2>4. Holders(g)' = Holders(g)
    BY <2>2, <2>3
  <2>5. QED
    BY <1>1, <2>1, <2>4, RefSame
<1>11. QED
  BY <1>4, <1>5, <1>6, <1>9, <1>10 DEF IInv, RefsCounted, RefOK

(* __stdio_alloc() puts a new stream into the table.                       *)
LEMMA FopenStep ==
    ASSUME IInv, NEW t \in Thread, Fopen(t), UNCHANGED alone
    PROVE  IInv'
<1>1. PICK f \in File \ heap :
        /\ heap' = heap \union {f} /\ files' = Append(files, f)
        /\ refs' = [refs EXCEPT ![f] = 0]
        /\ forking' = [forking EXCEPT ![f] = FALSE]
        /\ flock' = [flock EXCEPT ![f] = None]
        /\ handle' = [handle EXCEPT ![t] = f]
  BY DEF Fopen
<1>2. /\ pc[t] = "idle" /\ handle[t] = None /\ stdio = None
      /\ UNCHANGED <<stdio, supreme, pc, cur, ret, alone>>
  BY DEF Fopen
<1>3. TypeOK /\ PcInv /\ TableInv /\ RefsCounted /\ LockInv
  BY DEF IInv
<1>4. f \notin Range(files) /\ f # None /\ Range(files) \subseteq File /\ files \in Seq(File)
  BY <1>3, RoleAssumption, Elements DEF TableInv, TypeOK
<1>5. files' \in Seq(File) /\ Distinct(files') /\ Range(files') = Range(files) \union {f}
  BY <1>1, <1>3, <1>4, Appended DEF TableInv
<1>6. TypeOK'
  <2>1. forking' \in [File -> BOOLEAN]
    BY <1>1, <1>3 DEF TypeOK
  <2>2. /\ refs' \in [File -> {r \in Int : r <= 1}] /\ heap' \subseteq File
        /\ flock' \in [File -> Thread \union {None}]
        /\ handle' \in [Thread -> File \union {None}]
    BY <1>1, <1>3 DEF TypeOK
  <2>3. QED
    BY <1>2, <1>3, <1>5, <2>1, <2>2 DEF TypeOK
<1>7. /\ \A g \in File : /\ refs'[g] = IF g = f THEN 0 ELSE refs[g]
                         /\ flock'[g] = IF g = f THEN None ELSE flock[g]
                         /\ forking'[g] = IF g = f THEN FALSE ELSE forking[g]
      /\ \A u \in Thread : handle'[u] = IF u = t THEN f ELSE handle[u]
  BY <1>1, <1>3 DEF TypeOK
<1>8. PcInv'
  BY <1>2, <1>3, <1>7 DEF PcInv, InFork
<1>9. TableInv'
  BY <1>1, <1>2, <1>3, <1>4, <1>5, <1>7 DEF TableInv
<1>10. ASSUME NEW g \in File PROVE RefOK(g)'
  <2>1. RefOK(g) /\ (g \in Range(files) => g \in heap) /\ Holders(g)' = Holders(g)
    BY <1>2, <1>3 DEF RefOK, RefsCounted, Holders
  <2>2. CASE g # f
    <3>1. Handles(g)' = Handles(g)
      BY <1>2, <1>7, <2>2, RoleAssumption DEF Handles
    <3>2. QED
      BY <1>1, <1>5, <1>7, <2>1, <2>2, <3>1, RefSame
  <2>3. CASE g = f
    <3>1. Handles(g) = {} /\ Holders(g) = {}
      BY <1>4, <2>1, <2>3 DEF RefOK
    <3>2. Handles(g)' = {t} /\ Holders(g)' = {}
      BY <1>7, <2>1, <2>3, <3>1 DEF Handles
    <3>3. Cardinality(Handles(g)') = 1 /\ Cardinality(Holders(g)') = 0
      BY <3>2, FS_Singleton, FS_EmptySet, Zenon
    <3>4. g \in Range(files') /\ g \in heap' /\ refs'[g] = 0
      BY <1>1, <1>5, <1>7, <2>3
    <3>5. 1 - refs'[g] = Cardinality(Handles(g)') + Cardinality(Holders(g)')
      BY <3>3, <3>4
    <3>6. QED
      BY <3>4, <3>5 DEF RefOK
  <2>4. QED
    BY <2>2, <2>3
<1>11. LockInv'
  <2>1. Present' = Present
    BY <1>2 DEF Present
  <2>2. ASSUME NEW u \in Thread, pc[u] \in InsidePc \union {"fork_lock"} PROVE cur[u] \in File \ {f}
    <3>1. cur[u] \in File /\ (handle[u] = cur[u] \/ pc[u] \in HolderPc)
      BY <1>3, <2>2 DEF PcInv, InsidePc, HolderPc
    <3>2. QED
      BY <1>4, <3>1, UsedIsOpen
  <2>3. \A u \in Thread : pc[u] # "fork"
    BY <1>2, <1>3, RoleAssumption DEF PcInv
  <2>4. \A g \in Range(files') : g # f => g \in Range(files) /\ flock'[g] = flock[g] /\ forking'[g] = forking[g]
    BY <1>4, <1>5, <1>7
  <2>5. flock'[f] = None /\ ~forking'[f]
    BY <1>7
  <2>6. \A u \in Thread : pc[u] \in InsidePc => flock'[cur[u]] = u
    BY <1>3, <1>7, <2>2 DEF LockInv
  <2>7. \A u \in Thread : pc[u] = "fork_lock" => forking'[cur[u]]
    BY <1>3, <1>7, <2>2 DEF LockInv
  <2>8. QED
    BY <1>2, <1>3, <2>1, <2>3, <2>4, <2>5, <2>6, <2>7 DEF LockInv
<1>12. QED
  BY <1>6, <1>8, <1>9, <1>10, <1>11 DEF IInv, RefsCounted, RefOK

(* fclose() is called: the handle becomes the reference of the call.       *)
LEMMA FcloseStep ==
    ASSUME IInv, NEW t \in Thread, Fclose(t), UNCHANGED alone
    PROVE  IInv'
<1> DEFINE f == handle[t]
<1>1. /\ pc[t] = "idle" /\ f # None
      /\ pc' = [pc EXCEPT ![t] = "fclose_lock"] /\ cur' = [cur EXCEPT ![t] = f]
      /\ handle' = [handle EXCEPT ![t] = None] /\ ret' = [ret EXCEPT ![t] = "idle"]
      /\ UNCHANGED <<files, heap, refs, forking, flock, stdio, supreme, alone>>
  BY DEF Fclose, Use, table, locks
<1>2. TypeOK /\ PcInv /\ TableInv /\ RefsCounted
  BY DEF IInv
<1>3. f \in File
  BY <1>1, <1>2 DEF TypeOK
<1>4. /\ \A u \in Thread : handle'[u] = IF u = t THEN None ELSE handle[u]
      /\ \A u \in Thread : ret'[u] = IF u = t THEN "idle" ELSE ret[u]
      /\ \A u \in Thread : pc'[u] = IF u = t THEN "fclose_lock" ELSE pc[u]
      /\ \A u \in Thread : cur'[u] = IF u = t THEN f ELSE cur[u]
  BY <1>1, <1>2 DEF TypeOK
<1>5. TypeOK'
  BY <1>1, <1>2, <1>3 DEF TypeOK, Pc
<1>6. PcInv'
  <2>1. /\ \A u \in Thread \ {t} : handle'[u] = handle[u] /\ ret'[u] = ret[u]
        /\ ret'[t] = "idle" /\ "fclose_lock" \notin UnrefPc /\ pc[t] \notin UnrefPc
    BY <1>1, <1>4 DEF UnrefPc
  <2>2. QED
    BY <1>1, <1>3, <2>1, MovePc
<1>7. LockInv'
  BY <1>1, <1>3, LockSame DEF InsidePc
<1>8. TableInv'
  BY <1>1, <1>2, <1>4 DEF TableInv
<1>9. ASSUME NEW g \in File PROVE RefOK(g)'
  <2>1. RefOK(g) /\ (g \in Range(files) => g \in heap)
    BY <1>2 DEF RefOK, RefsCounted
  <2>2. /\ Holders(g)' = (Holders(g) \ {t})
                 \union (IF "fclose_lock" \in HolderPc /\ f = g THEN {t} ELSE {})
        /\ t \in Holders(g) <=> pc[t] \in HolderPc /\ cur[t] = g
        /\ Cardinality(Holders(g)) \in Nat
        /\ Cardinality(Holders(g)') = Cardinality(Holders(g))
                                - (IF t \in Holders(g) THEN 1 ELSE 0)
                                + (IF "fclose_lock" \in HolderPc /\ f = g THEN 1 ELSE 0)
    BY <1>1, <1>2, HoldersMove
  <2>3. "fclose_lock" \in HolderPc /\ t \notin Holders(g)
    BY <1>1, <2>2 DEF HolderPc
  <2>4. Handles(g)' = Handles(g) \ {t} /\ (t \in Handles(g) <=> f = g)
    <3>1. None # g
      BY RoleAssumption
    <3>2. QED
      BY <1>4, <3>1 DEF Handles
  <2> HIDE DEF f
  <2>5. CASE g # f
    <3>1. Holders(g)' = Holders(g) /\ Handles(g)' = Handles(g)
      BY <2>2, <2>3, <2>4, <2>5
    <3>2. QED
      BY <1>1, <2>1, <3>1, RefSame
  <2>6. CASE g = f
    <3>1. g \in Range(files) /\ g \in heap
      BY <1>3, <2>6, UsedIsOpen DEF f
    <3>2. Cardinality(Handles(g)) \in Nat /\ IsFiniteSet(Handles(g))
      BY FiniteUsers
    <3>3. Cardinality(Handles(g) \ {t}) = Cardinality(Handles(g)) - 1
      BY <2>4, <2>6, <3>2, FS_RemoveElement
    <3>4. Cardinality(Handles(g)') = Cardinality(Handles(g)) - 1
      BY <2>4, <3>3, Zenon
    <3>5. Cardinality(Holders(g)') = Cardinality(Holders(g)) + 1
      BY <2>2, <2>3, <2>6
    <3>6. 1 - refs[g] = Cardinality(Handles(g)) + Cardinality(Holders(g))
      BY <2>1, <3>1 DEF RefOK
    <3>7. 1 - refs'[g] = Cardinality(Handles(g)') + Cardinality(Holders(g)')
      BY <1>1, <2>2, <3>2, <3>4, <3>5, <3>6
    <3>8. QED
      BY <1>1, <3>1, <3>7 DEF RefOK
  <2>7. QED
    BY <2>5, <2>6
<1>10. QED
  BY <1>5, <1>6, <1>7, <1>8, <1>9 DEF IInv, RefsCounted, RefOK

(* fflush(0) takes a reference to the last stream.                         *)
LEMMA FlushAllStep ==
    ASSUME IInv, NEW t \in Thread, FlushAll(t), UNCHANGED alone
    PROVE  IInv'
<1> DEFINE f == Last(files)
<1>1. /\ pc[t] = "idle" /\ files # <<>> /\ refs' = [refs EXCEPT ![f] = @ - 1]
      /\ pc' = [pc EXCEPT ![t] = "all_lock"] /\ cur' = [cur EXCEPT ![t] = f]
      /\ UNCHANGED <<files, heap, handle, ret, forking, flock, stdio, supreme, alone>>
  BY DEF FlushAll, Use, locks
<1>2. TypeOK /\ PcInv
  BY DEF IInv
<1>3. f \in Range(files) /\ f \in File
  <2>1. files \in Seq(File) /\ Len(files) \in 1..Len(files) /\ f = files[Len(files)]
    BY <1>1, <1>2 DEF TypeOK, Last
  <2>2. QED
    BY <2>1, Elements
<1> HIDE DEF f
<1>4. pc[t] \notin HolderPc \union {"free"} /\ "all_lock" \in HolderPc
  BY <1>1 DEF HolderPc
<1>5. refs' \in [File -> {r \in Int : r <= 1}] /\ TableInv' /\ RefsCounted'
  BY <1>1, <1>3, <1>4, TakeRef
<1>6. TypeOK'
  BY <1>1, <1>2, <1>3, <1>5 DEF TypeOK, Pc
<1>7. PcInv'
  BY <1>1, <1>2, <1>3, MovePc DEF UnrefPc
<1>8. LockInv'
  BY <1>1, LockSame DEF InsidePc
<1>9. QED
  BY <1>5, <1>6, <1>7, <1>8 DEF IInv

(* fflush(0) drops its reference, and takes one to the stream before.      *)
LEMMA FlushAllNextStep ==
    ASSUME IInv, NEW t \in Thread, FlushAllNext(t), UNCHANGED alone
    PROVE  IInv'
<1> DEFINE f == cur[t]
<1>1. /\ pc[t] = "all_next"
      /\ files' = IF refs[f] = 0 THEN Without(f) ELSE files
      /\ heap' = IF refs[f] = 0 THEN heap \ {f} ELSE heap
      /\ UNCHANGED <<handle, ret, forking, flock, stdio, supreme, alone>>
  BY DEF FlushAllNext, locks
<1>2. TypeOK /\ PcInv /\ TableInv
  BY DEF IInv
<1>3. f \in File /\ pc[t] \in HolderPc
  BY <1>1, <1>2 DEF PcInv, HolderPc
<1>4. f \in Range(files)
  BY <1>3, UsedIsOpen
<1>5. refs \in [File -> {r \in Int : r <= 1}]
  BY <1>2 DEF TypeOK
<1>6. ASSUME NEW l \in {"idle", "all_lock"}, NEW c \in File,
             l = "all_lock" => c \in Range(files) \ {f},
             pc' = [pc EXCEPT ![t] = l], cur' = [cur EXCEPT ![t] = c],
             refs' = IF l = "all_lock" THEN [[refs EXCEPT ![f] = @ + 1] EXCEPT ![c] = @ - 1]
                     ELSE [refs EXCEPT ![f] = @ + 1]
      PROVE  IInv'
  <2>1. (l \in HolderPc <=> l = "all_lock") /\ l # "free"
    BY DEF HolderPc
  <2>2. refs' \in [File -> Int]
    BY <1>3, <1>5, <1>6
  <2>3. \A g \in File : refs'[g] = refs[g] + (IF g = cur[t] THEN 1 ELSE 0)
                                           - (IF l \in HolderPc /\ c = g THEN 1 ELSE 0)
    <3> SUFFICES ASSUME NEW g \in File
                 PROVE  refs'[g] = refs[g] + (IF g = f THEN 1 ELSE 0)
                                           - (IF l \in HolderPc /\ c = g THEN 1 ELSE 0)
      OBVIOUS
    <3>1. refs[g] \in Int /\ refs[f] \in Int
      BY <1>3, <1>5
    <3>2. CASE l = "all_lock"
      <4>1. f # c /\ refs' = [[refs EXCEPT ![f] = @ + 1] EXCEPT ![c] = @ - 1]
        BY <1>6, <3>2
      <4>2. QED
        BY <1>3, <1>5, <2>1, <3>1, <3>2, <4>1
    <3>3. CASE l # "all_lock"
      <4>1. refs' = [refs EXCEPT ![f] = @ + 1]
        BY <1>6, <3>3
      <4>2. QED
        BY <1>3, <1>5, <2>1, <3>1, <3>3, <4>1
    <3>4. QED
      BY <3>2, <3>3
  <2>4. \/ /\ refs[cur[t]] # 0 /\ l # "free" /\ UNCHANGED <<files, heap>>
        \/ /\ refs[cur[t]] = 0 /\ files' = Without(cur[t]) /\ (l = "free" => c = cur[t])
           /\ heap' = IF l = "free" THEN heap ELSE heap \ {cur[t]}
    BY <1>1, <2>1
  <2>5. (l \in HolderPc => c \in Range(files) \ {cur[t]}) /\ UNCHANGED handle
    BY <1>1, <1>6, <2>1
  <2>6. /\ files' \in Seq(File) /\ heap' \subseteq File /\ Range(files') \subseteq Range(files)
        /\ refs' \in [File -> {r \in Int : r <= 1}] /\ TableInv' /\ RefsCounted'
    BY <1>3, <1>6, <2>2, <2>3, <2>4, <2>5, DropRef, Zenon
  <2>7. TypeOK'
    BY <1>1, <1>2, <1>6, <2>6 DEF TypeOK, Pc
  <2>8. PcInv'
    <3>1. /\ l # "fork" /\ pc[t] # "fork" /\ l \notin UnrefPc /\ pc[t] \notin UnrefPc
          /\ l \notin {"fork_scan", "fork_lock"} /\ pc[t] \notin {"fork_scan", "fork_lock"}
          /\ l \notin {"fflush_lock", "fflush_write", "fclose_lock", "fclose_flush"}
      BY <1>1 DEF UnrefPc
    <3>2. QED
      BY <1>1, <1>6, <3>1, MovePc
  <2>9. LockInv'
    <3>1. /\ pc[t] \notin InsidePc \union {"fork_lock", "fork"}
          /\ l \notin InsidePc \union {"fork_lock", "fork"}
      BY <1>1 DEF InsidePc
    <3>2. QED
      BY <1>1, <1>6, <2>6, <3>1, LockSame
  <2>10. QED
    BY <2>6, <2>7, <2>8, <2>9 DEF IInv
<1>7. CASE /\ Prev(f) # None
           /\ refs' = [[refs EXCEPT ![f] = @ + 1] EXCEPT ![Prev(f)] = @ - 1]
           /\ Use(t, Prev(f), "all_lock")
  <2>1. Prev(f) \in Range(files) \ {f}
    BY <1>2, <1>4, <1>7, Unlinked DEF TypeOK, TableInv
  <2>2. Prev(f) \in File
    BY <1>2, <2>1, Elements DEF TypeOK
  <2>3. QED
    BY <1>6, <1>7, <2>1, <2>2 DEF Use
<1>8. CASE refs' = [refs EXCEPT ![f] = @ + 1] /\ Use(t, f, "idle")
  BY <1>3, <1>6, <1>8 DEF Use
<1>9. QED
  BY <1>7, <1>8 DEF FlushAllNext

(* fork() marks a stream and takes a reference to it, or has marked all.   *)
LEMMA ForkScanStep ==
    ASSUME IInv, NEW t \in Thread, ForkScan(t), UNCHANGED alone
    PROVE  IInv'
<1>1. /\ pc[t] = "fork_scan" /\ stdio = None
      /\ UNCHANGED <<files, heap, flock, supreme, handle, ret, alone>>
  BY DEF ForkScan
<1>2. TypeOK /\ PcInv /\ LockInv
  BY DEF IInv
<1>3. supreme = t /\ ret[t] = "fork_scan" /\ t # None
  BY <1>1, <1>2, RoleAssumption DEF PcInv, InFork
<1>4. Present' = Present
  BY <1>1 DEF Present
<1>5. \A f \in Range(files) : f \in File /\ flock[f] \in Thread \union {None}
  BY <1>2, Elements DEF TypeOK
<1>6. CASE Unmarked = {}
  <2>1. /\ stdio' = t /\ pc' = [pc EXCEPT ![t] = "fork"]
        /\ UNCHANGED <<refs, forking, cur>>
    BY <1>6 DEF ForkScan, Goto
  <2>2. /\ \A u \in Thread : pc'[u] = IF u = t THEN "fork" ELSE pc[u]
        /\ cur' = [cur EXCEPT ![t] = cur[t]]
    BY <1>2, <2>1 DEF TypeOK
  <2>3. TypeOK'
    BY <1>1, <1>2, <2>1 DEF TypeOK, Pc
  <2>4. PcInv'
    <3>1. \A u \in Thread : InFork(u)' <=> InFork(u)
      BY <1>1, <2>2 DEF InFork, UnrefPc
    <3>2. \A u \in Thread : pc[u] # "fork"
      BY <1>1, <1>2, RoleAssumption DEF PcInv
    <3>3. QED
      BY <1>1, <1>2, <2>1, <2>2, <3>1, <3>2 DEF PcInv
  <2>5. TableInv' /\ RefsCounted'
    BY <1>1, <2>1, <2>2, TableSame DEF HolderPc
  <2>6. \A f \in Range(files) : forking[f]
    <3>1. files \in Seq(File) /\ DOMAIN files = 1..Len(files)
      BY <1>2 DEF TypeOK
    <3>2. \A i \in 1..Len(files) : forking[files[i]]
      BY <1>6, <3>1 DEF Unmarked
    <3>3. QED
      BY <3>1, <3>2, Elements
  <2>7. LockInv'
    BY <1>1, <1>2, <1>4, <1>5, <2>1, <2>2, <2>6 DEF LockInv, InsidePc
  <2>8. QED
    BY <2>3, <2>4, <2>5, <2>7 DEF IInv
<1>7. CASE Unmarked # {}
  <2>1. PICK i \in Unmarked :
          /\ forking' = [forking EXCEPT ![files[i]] = TRUE]
          /\ refs' = [refs EXCEPT ![files[i]] = @ - 1]
          /\ UNCHANGED stdio
          /\ Use(t, files[i], "fork_lock")
    BY <1>7 DEF ForkScan
  <2>2. PICK f : f = files[i]
    OBVIOUS
  <2>3. f \in Range(files) /\ f \in File
    <3>1. files \in Seq(File) /\ i \in 1..Len(files)
      BY <1>2 DEF TypeOK, Unmarked
    <3>2. QED
      BY <2>2, <3>1, Elements
  <2>4. /\ forking' = [forking EXCEPT ![f] = TRUE] /\ refs' = [refs EXCEPT ![f] = @ - 1]
        /\ pc' = [pc EXCEPT ![t] = "fork_lock"] /\ cur' = [cur EXCEPT ![t] = f]
        /\ UNCHANGED stdio
    BY <2>1, <2>2 DEF Use
  <2>5. "fork_lock" \in HolderPc /\ pc[t] \notin HolderPc \union {"free"}
    BY <1>1 DEF HolderPc
  <2>6. refs' \in [File -> {r \in Int : r <= 1}] /\ TableInv' /\ RefsCounted'
    BY <1>1, <2>3, <2>4, <2>5, TakeRef
  <2>7. TypeOK'
    <3>1. forking' \in [File -> BOOLEAN]
      BY <1>2, <2>4 DEF TypeOK
    <3>2. QED
      BY <1>1, <1>2, <2>3, <2>4, <2>6, <3>1 DEF TypeOK, Pc
  <2>8. PcInv'
    <3>1. "fork_lock" \notin UnrefPc /\ pc[t] \notin UnrefPc
      BY <1>1 DEF UnrefPc
    <3>2. QED
      BY <1>1, <1>3, <2>3, <2>4, <3>1, MovePc
  <2>9. LockInv'
    <3>1. /\ \A u \in Thread : pc'[u] = IF u = t THEN "fork_lock" ELSE pc[u]
          /\ \A u \in Thread : cur'[u] = IF u = t THEN f ELSE cur[u]
          /\ \A g \in File : forking'[g] = IF g = f THEN TRUE ELSE forking[g]
      BY <1>2, <2>4 DEF TypeOK
    <3>2. \A g \in Range(files) : forking[g] => flock[g] = supreme
      BY <1>1, <1>2, <1>3 DEF LockInv
    <3>3. \A u \in Thread : pc[u] # "fork" /\ (pc[u] = "fork_lock" => u = t)
      BY <1>1, <1>2, <1>3, RoleAssumption DEF PcInv, InFork
    <3>4. ASSUME NEW g \in Range(files), flock[g] # None
          PROVE  /\ flock[g] \in Present
                 /\ \/ cur'[flock[g]] = g /\ pc'[flock[g]] \in InsidePc
                    \/ flock[g] = supreme /\ forking'[g]
      <4>1. flock[g] \in Thread /\ g \in File
        BY <1>5, <3>4
      <4>2. QED
        BY <1>1, <1>2, <3>1, <3>4, <4>1 DEF LockInv, InsidePc
    <3>5. ASSUME NEW g \in Range(files), forking'[g]
          PROVE  /\ supreme # None
                 /\ \/ flock[g] = supreme
                    \/ cur'[supreme] = g /\ pc'[supreme] = "fork_lock"
      BY <1>3, <1>5, <3>1, <3>2, <3>5
    <3>6. \A u \in Thread : pc'[u] \in InsidePc => flock[cur'[u]] = u
      BY <1>2, <3>1 DEF LockInv, InsidePc
    <3>7. \A u \in Thread : pc'[u] = "fork_lock" => forking'[cur'[u]]
      BY <2>3, <3>1, <3>3
    <3>8. \A u \in Thread : pc'[u] # "fork"
      BY <3>1, <3>3
    <3>9. QED
      BY <1>1, <1>4, <3>4, <3>5, <3>6, <3>7, <3>8 DEF LockInv
  <2>10. QED
    BY <2>6, <2>7, <2>8, <2>9 DEF IInv
<1>8. QED
  BY <1>6, <1>7

-----------------------------------------------------------------------------
(* The invariant is inductive                                              *)

(* At first there is no stream, and nobody has called anything.            *)
LEMMA InitIInv == Init => IInv
<1> SUFFICES ASSUME Init PROVE IInv
  OBVIOUS
<1>1. Range(files) = {} /\ Distinct(files) /\ files \in Seq(File)
  BY EmptyList DEF Init
<1>2. TypeOK
  <2>1. forking \in [File -> BOOLEAN] /\ refs \in [File -> {r \in Int : r <= 1}]
    BY DEF Init
  <2>2. QED
    BY <1>1, <2>1 DEF Init, TypeOK, Pc
<1>3. PcInv
  BY RoleAssumption DEF Init, PcInv, InFork, UnrefPc
<1>4. TableInv
  BY <1>1 DEF Init, TableInv
<1>5. RefsCounted
  <2>1. \A f \in File : Handles(f) = {} /\ Holders(f) = {}
    BY RoleAssumption DEF Init, Handles, Holders
  <2>2. QED
    BY <1>1, <2>1 DEF RefsCounted
<1>6. LockInv
  BY <1>1 DEF Init, LockInv, InsidePc
<1>7. QED
  BY <1>2, <1>3, <1>4, <1>5, <1>6 DEF IInv

(* A step that changes nothing keeps the invariant.                        *)
LEMMA StutterStep == ASSUME IInv, UNCHANGED vars PROVE IInv'
<1>1. UNCHANGED <<files, heap, refs, forking, flock, stdio, supreme, handle, pc, cur, ret, alone>>
  BY DEF vars, table, locks
<1>2. TypeOK'
  BY <1>1 DEF IInv, TypeOK
<1>3. PcInv' /\ TableInv'
  BY <1>1 DEF IInv, PcInv, InFork, TableInv
<1>4. RefsCounted'
  BY <1>1 DEF IInv, RefsCounted, Handles, Holders
<1>5. LockInv'
  BY <1>1 DEF IInv, LockInv, Present
<1>6. QED
  BY <1>2, <1>3, <1>4, <1>5 DEF IInv

(* Every step of every call keeps the invariant.                           *)
LEMMA StepKeepsIInv == IInv /\ [Next]_vars => IInv'
<1> SUFFICES ASSUME IInv, Next PROVE IInv'
  BY StutterStep
<1>1. PICK t \in Thread : Call(t) \/ Step(t) \/ LockStep(t)
  BY DEF Next
<1>2. CASE Call(t)
  BY <1>2, FopenStep, FcloseStep, FcloseCancelStep, FflushStep, FlushAllCancelStep, FlushAllStep, ForkBeginStep
     DEF Call
<1>3. CASE LockStep(t)
  BY <1>3, UnrefLockStep, FcloseLockStep, FflushLockStep, FlushAllLockStep, FlushAllNextStep,
     ForkScanStep, ForkLockStep DEF LockStep
<1>4. CASE Step(t)
  <2>1. CASE ForkParent(t) /\ UNCHANGED alone
    <3>1. alone' \in Thread \union {None}
      BY <2>1 DEF IInv, TypeOK
    <3>2. QED
      BY <2>1, <3>1, ForkReturnStep DEF ForkParent, Goto
  <2>2. CASE ForkChild(t)
    BY <2>2, ForkReturnStep DEF ForkChild, Goto
  <2>3. QED
    BY <1>4, <2>1, <2>2, UnrefSharedStep, UnrefLastStep, FreeStep, FcloseUnlockStep,
       FflushUnlockStep, FlushAllUnlockStep DEF Step
<1>5. QED
  BY <1>1, <1>2, <1>3, <1>4

(* The inductive invariant holds of every reachable state.                 *)
LEMMA Invariance == Spec => []IInv
BY InitIInv, StepKeepsIInv, PTL DEF Spec

-----------------------------------------------------------------------------
(* Theorems                                                                *)

(* FILE::refs of every stream in the table is the number of its users,     *)
(* whoever opens, flushes, closes and forks at the same time: no stream is *)
(* freed while fclose(), fflush() or fork() uses it, and none twice.       *)
THEOREM RefsExact == Spec => []StdioInv
<1>1. IInv => StdioInv
  BY DEF IInv, StdioInv
<1>2. QED
  BY <1>1, Invariance, PTL

(* When fork() makes the child it has __stdio.lock and the lock of every   *)
(* stream, so the child is right to wipe them.                             *)
THEOREM ForkFindsQuiescence == Spec => []ForkQuiescent
<1>1. IInv => ForkQuiescent
  BY Quiescent DEF ForkQuiescent
<1>2. QED
  BY <1>1, Invariance, PTL

(* Outside fork() no stream is marked by fork(), and a locked one is       *)
(* locked by a thread that exists and is inside it: fork_parent_stdio()    *)
(* and fork_child_stdio() leave no lock behind.                            *)
THEOREM NoLockLeftBehind == Spec => []ForkUnlocks
<1>1. ASSUME IInv PROVE ForkUnlocks
  <2>1. TypeOK /\ LockInv
    BY <1>1 DEF IInv
  <2> SUFFICES ASSUME supreme = None, NEW f \in Range(files)
               PROVE  /\ ~forking[f]
                      /\ flock[f] # None =>
                           /\ flock[f] \in Present
                           /\ cur[flock[f]] = f
                           /\ pc[flock[f]] \in {"fclose_flush", "canceled", "fflush_write", "all_write"}
    BY DEF ForkUnlocks
  <2>2. QED
    BY <2>1 DEF LockInv, InsidePc
<1>2. QED
  BY <1>1, Invariance, PTL

=============================================================================
