-------------------------- MODULE StackCacheProofs --------------------------
(***************************************************************************)
(* Proofs about the stack cache of StackCache, for any threads, addresses, *)
(* kinds of stacks, limits and sizes of a page: no stack has two owners or *)
(* the wrong kind, the cache keeps its limit, no list object is lost, and  *)
(* eviction is least recently used.                                        *)
(***************************************************************************)
EXTENDS StackCache, TLAPS, FiniteSetTheorems, SequenceTheorems

Distinct(s) == \A i, j \in 1..Len(s) : s[i] = s[j] => i = j

(* What a thread owns while it is where in the code.                       *)
PcInv ==
    \A t \in Thread :
        /\ pc[t] # "rehabilitate" => surplus[t] = <<>> /\ spare[t] = 0
        /\ pc[t] = "map" => mine[t] = None
        /\ pc[t] = "unmap" \/ (pc[t] = "rehabilitate" /\ err[t] = None) => mine[t] # None

Mapped == {a \in Addr : mapped[a] # None}

(* The stacks in use, in the cache and evicted are different and mapped.   *)
OwnInv ==
    /\ Distinct(stacks) /\ Range(stacks) \subseteq Mapped
    /\ \A t \in Thread :
          /\ mine[t] \in Mapped \union {None}
          /\ mine[t] \notin Range(stacks)
          /\ Distinct(surplus[t])
          /\ Range(surplus[t]) \subseteq Mapped
          /\ Range(surplus[t]) \cap Range(stacks) = {}
    /\ \A t, u \in Thread :
          /\ mine[t] # None /\ mine[t] = mine[u] => t = u
          /\ mine[t] \notin Range(surplus[u])
          /\ t # u => Range(surplus[t]) \cap Range(surplus[u]) = {}

(* The list objects can be counted.                                        *)
CountInv == CacheBounded /\ IsFiniteSet(InTransit) /\ ObjectsConserved

IInv == TypeOK /\ PcInv /\ OwnInv /\ RightKind /\ CountInv

-----------------------------------------------------------------------------
(* Lists of stacks                                                         *)

(* The empty list has no elements.                                         *)
LEMMA EmptyList == <<>> \in Seq(Addr) /\ Len(<<>>) = 0 /\ Range(<<>>) = {} /\ Distinct(<<>>)
BY DEF Range, Distinct

(* The range of a list, by its positions.                                  *)
LEMMA Elements ==
    ASSUME NEW s \in Seq(Addr)
    PROVE  /\ Range(s) \subseteq Addr /\ Len(s) \in Nat
           /\ \A a : a \in Range(s) <=> \E i \in 1..Len(s) : a = s[i]
BY DEF Range

(* A part of a list of different stacks has different stacks.              *)
LEMMA Part ==
    ASSUME NEW s \in Seq(Addr), Distinct(s), NEW m \in 1..(Len(s) + 1), NEW n \in 0..Len(s)
    PROVE  /\ SubSeq(s, m, n) \in Seq(Addr)
           /\ Len(SubSeq(s, m, n)) = IF m <= n THEN n - m + 1 ELSE 0
           /\ \A i \in 1..Len(SubSeq(s, m, n)) : SubSeq(s, m, n)[i] = s[m + i - 1]
           /\ Distinct(SubSeq(s, m, n))
           /\ \A a : a \in Range(SubSeq(s, m, n)) <=> \E i \in m..n : a = s[i]
<1> DEFINE r == SubSeq(s, m, n)
<1>1. \A i \in m..n : s[i] \in Addr
  OBVIOUS
<1>2. /\ r \in Seq(Addr)
      /\ Len(r) = IF m <= n THEN n - m + 1 ELSE 0
      /\ \A i \in 1..(n - m + 1) : r[i] = s[m + i - 1]
  BY <1>1, SubSeqProperties
<1> HIDE DEF r
<1>3. \A i \in 1..Len(r) : r[i] = s[m + i - 1] /\ m + i - 1 \in 1..Len(s) /\ m + i - 1 \in m..n
  BY <1>2
<1>4. ASSUME NEW i \in 1..Len(r), NEW j \in 1..Len(r), r[i] = r[j] PROVE i = j
  <2>1. m + i - 1 = m + j - 1
    BY <1>3, <1>4 DEF Distinct
  <2>2. QED
    BY <2>1
<1>5. ASSUME NEW i \in m..n PROVE s[i] \in Range(r)
  <2>1. i - m + 1 \in 1..Len(r) /\ r[i - m + 1] = s[i]
    BY <1>2
  <2>2. QED
    BY <1>2, <2>1, Elements
<1>6. ASSUME NEW a \in Range(r) PROVE \E i \in m..n : a = s[i]
  <2>1. PICK i \in 1..Len(r) : a = r[i]
    BY <1>2, Elements
  <2>2. QED
    BY <1>3, <2>1
<1>7. QED
  BY <1>2, <1>3, <1>4, <1>5, <1>6 DEF r, Distinct

(* Putting a stack first in a list that does not hold it.                  *)
LEMMA Cons1 ==
    ASSUME NEW s \in Seq(Addr), Distinct(s), NEW a \in Addr, a \notin Range(s)
    PROVE  /\ <<a>> \o s \in Seq(Addr)
           /\ Len(<<a>> \o s) = Len(s) + 1
           /\ Range(<<a>> \o s) = Range(s) \union {a}
           /\ Distinct(<<a>> \o s)
           /\ (<<a>> \o s)[1] = a /\ \A j \in 1..Len(s) : (<<a>> \o s)[j + 1] = s[j]
<1> DEFINE r == <<a>> \o s
<1>1. r \in Seq(Addr) /\ Len(r) = Len(s) + 1
  OBVIOUS
<1>2. r[1] = a /\ \A j \in 1..Len(s) : r[j + 1] = s[j]
  OBVIOUS
<1> HIDE DEF r
<1>3. \A k \in 1..Len(r) : k = 1 \/ (k - 1 \in 1..Len(s) /\ r[k] = s[k - 1])
  <2> TAKE k \in 1..Len(r)
  <2> SUFFICES ASSUME k # 1 PROVE k - 1 \in 1..Len(s) /\ r[k] = s[k - 1]
    OBVIOUS
  <2>1. k - 1 \in 1..Len(s) /\ k = (k - 1) + 1
    BY <1>1
  <2>2. QED
    BY <1>2, <2>1
<1>4. \A k \in 1..Len(s) : s[k] # a
  BY Elements
<1>5. ASSUME NEW i \in 1..Len(r), NEW j \in 1..Len(r), r[i] = r[j] PROVE i = j
  <2>1. CASE i # 1 /\ j # 1
    <3>1. i - 1 = j - 1
      BY <1>3, <1>5, <2>1 DEF Distinct
    <3>2. QED
      BY <3>1
  <2>2. QED
    BY <1>2, <1>3, <1>4, <1>5, <2>1
<1>6. Range(r) \subseteq Range(s) \union {a}
  BY <1>1, <1>2, <1>3, Elements
<1>7. a \in Range(r)
  <2>1. 1 \in 1..Len(r)
    BY <1>1, Elements
  <2>2. QED
    BY <1>1, <1>2, <2>1, Elements
<1>8. ASSUME NEW b \in Range(s) PROVE b \in Range(r)
  <2>1. PICK k \in 1..Len(s) : b = s[k]
    BY Elements
  <2>2. k + 1 \in 1..Len(r) /\ r[k + 1] = b
    BY <1>1, <1>2, <2>1, Elements
  <2>3. QED
    BY <1>1, <2>2, Elements
<1>9. QED
  BY <1>1, <1>2, <1>5, <1>6, <1>7, <1>8 DEF r, Distinct

(* Taking the stack at position i out of a list.                           *)
LEMMA Removed ==
    ASSUME NEW s \in Seq(Addr), Distinct(s), NEW i \in 1..Len(s)
    PROVE  /\ RemoveAt(s, i) \in Seq(Addr)
           /\ Len(RemoveAt(s, i)) = Len(s) - 1
           /\ Range(RemoveAt(s, i)) = Range(s) \ {s[i]}
           /\ Distinct(RemoveAt(s, i))
           /\ \A j \in 1..Len(RemoveAt(s, i)) :
                RemoveAt(s, i)[j] = IF j < i THEN s[j] ELSE s[j + 1]
<1> DEFINE p == SubSeq(s, 1, i - 1)
           q == SubSeq(s, i + 1, Len(s))
           r == p \o q
<1>0. 1 \in 1..(Len(s) + 1) /\ i - 1 \in 0..Len(s) /\ i + 1 \in 1..(Len(s) + 1) /\ Len(s) \in 0..Len(s)
  OBVIOUS
<1>1. /\ p \in Seq(Addr) /\ Len(p) = i - 1
      /\ \A j \in 1..Len(p) : p[j] = s[j]
  <2>1. Len(p) = IF 1 <= i - 1 THEN i - 1 - 1 + 1 ELSE 0
    BY <1>0, Part
  <2>2. \A j \in 1..Len(p) : p[j] = s[1 + j - 1]
    BY <1>0, Part
  <2>3. p \in Seq(Addr)
    BY <1>0, Part
  <2> HIDE DEF p
  <2>4. QED
    BY <2>1, <2>2, <2>3
<1>2. /\ q \in Seq(Addr) /\ Len(q) = Len(s) - i
      /\ \A j \in 1..Len(q) : q[j] = s[i + j]
  <2>1. Len(q) = IF i + 1 <= Len(s) THEN Len(s) - (i + 1) + 1 ELSE 0
    BY <1>0, Part
  <2>2. \A j \in 1..Len(q) : q[j] = s[i + 1 + j - 1]
    BY <1>0, Part
  <2>3. q \in Seq(Addr)
    BY <1>0, Part
  <2> HIDE DEF q
  <2>4. QED
    BY <2>1, <2>2, <2>3
<1>3. RemoveAt(s, i) = r
  BY DEF RemoveAt
<1> HIDE DEF p, q
<1>4. r \in Seq(Addr) /\ Len(r) = Len(s) - 1
  <2>1. r \in Seq(Addr) /\ Len(r) = Len(p) + Len(q)
    BY <1>1, <1>2, ConcatProperties
  <2> HIDE DEF r
  <2>2. QED
    BY <1>1, <1>2, <2>1
<1>5. \A j \in 1..Len(r) : r[j] = IF j < i THEN s[j] ELSE s[j + 1]
  <2>1. \A j \in 1..(Len(p) + Len(q)) : r[j] = IF j <= Len(p) THEN p[j] ELSE q[j - Len(p)]
    BY <1>1, <1>2, ConcatProperties
  <2> HIDE DEF r
  <2> TAKE j \in 1..Len(r)
  <2>2. j \in 1..(Len(p) + Len(q)) /\ Len(p) = i - 1 /\ Len(q) = Len(s) - i /\ Len(s) \in Nat
    BY <1>1, <1>2, <1>4
  <2>3. r[j] = IF j <= i - 1 THEN p[j] ELSE q[j - (i - 1)]
    BY <2>1, <2>2
  <2>4. CASE j < i
    <3>1. j \in 1..Len(p) /\ j <= i - 1
      BY <2>2, <2>4
    <3>2. QED
      BY <1>1, <2>3, <2>4, <3>1
  <2>5. CASE j >= i
    <3>1. j - (i - 1) \in 1..Len(q) /\ ~(j <= i - 1) /\ i + (j - (i - 1)) = j + 1
      BY <2>2, <2>5
    <3>2. q[j - (i - 1)] = s[j + 1]
      BY <1>2, <3>1
    <3>3. QED
      BY <2>3, <2>5, <3>1, <3>2
  <2>6. QED
    BY <2>4, <2>5
<1> HIDE DEF r
<1>6. ASSUME NEW a \in 1..Len(r), NEW b \in 1..Len(r), r[a] = r[b] PROVE a = b
  <2> DEFINE x == IF a < i THEN a ELSE a + 1
             y == IF b < i THEN b ELSE b + 1
  <2>1. x \in 1..Len(s) /\ y \in 1..Len(s) /\ s[x] = s[y]
    BY <1>4, <1>5, <1>6
  <2>2. x = y
    BY <2>1 DEF Distinct
  <2>3. QED
    BY <2>2
<1>7. Range(r) \subseteq Range(s) \ {s[i]}
  <2> SUFFICES ASSUME NEW b \in Range(r) PROVE b \in Range(s) /\ b # s[i]
    OBVIOUS
  <2>1. PICK j \in 1..Len(r) : b = r[j]
    BY <1>4, Elements
  <2> DEFINE x == IF j < i THEN j ELSE j + 1
  <2>2. x \in 1..Len(s) /\ x # i /\ b = s[x]
    BY <1>4, <1>5, <2>1
  <2> HIDE DEF x
  <2>3. QED
    BY <2>2, Elements DEF Distinct
<1>8. ASSUME NEW b \in Range(s) \ {s[i]} PROVE b \in Range(r)
  <2>1. PICK k \in 1..Len(s) : b = s[k]
    BY Elements
  <2> DEFINE x == IF k < i THEN k ELSE k - 1
  <2>2. x \in 1..Len(r) /\ r[x] = b
    BY <1>4, <1>5, <2>1
  <2> HIDE DEF x
  <2>3. QED
    BY <1>4, <2>2, Elements
<1>9. QED
  BY <1>3, <1>4, <1>5, <1>6, <1>7, <1>8 DEF Distinct

(* Taking the first stack off a list.                                      *)
LEMMA Rest ==
    ASSUME NEW s \in Seq(Addr), Distinct(s), s # <<>>
    PROVE  /\ Head(s) \in Range(s)
           /\ Tail(s) \in Seq(Addr)
           /\ Range(Tail(s)) = Range(s) \ {Head(s)}
           /\ Distinct(Tail(s))
<1>1. 1 \in 1..Len(s) /\ Head(s) = s[1]
  OBVIOUS
<1>2. Tail(s) = RemoveAt(s, 1)
  <2>1. Tail(s) = SubSeq(s, 2, Len(s))
    BY TailIsSubSeq
  <2>2. SubSeq(s, 1, 0) = <<>> /\ SubSeq(s, 2, Len(s)) \in Seq(Addr)
    BY <1>1, SubSeqEmpty, SubSeqProperties
  <2>3. QED
    BY <2>1, <2>2, ConcatEmptySeq DEF RemoveAt
<1>3. /\ RemoveAt(s, 1) \in Seq(Addr) /\ Distinct(RemoveAt(s, 1))
      /\ Range(RemoveAt(s, 1)) = Range(s) \ {s[1]}
  BY <1>1, Removed
<1>4. s[1] \in Range(s)
  BY <1>1, Elements
<1>5. QED
  BY <1>1, <1>2, <1>3, <1>4

(* cosmo_stack_decimate(n) divides the cache into the most recent stacks,  *)
(* n of them at most, and the others.                                      *)
LEMMA Decimate ==
    ASSUME stacks \in Seq(Addr), Distinct(stacks), count = Len(stacks), NEW n \in Nat
    PROVE  /\ Kept(n) \in Seq(Addr) /\ Evicted(n) \in Seq(Addr)
           /\ Distinct(Kept(n)) /\ Distinct(Evicted(n))
           /\ Len(Kept(n)) \in Nat /\ Len(Kept(n)) <= n
           /\ Len(Evicted(n)) \in Nat /\ Len(Kept(n)) + Len(Evicted(n)) = count
           /\ Range(Kept(n)) \union Range(Evicted(n)) = Range(stacks)
           /\ Range(Kept(n)) \cap Range(Evicted(n)) = {}
           /\ \A i \in 1..Len(Kept(n)) : Kept(n)[i] = stacks[i]
<1>1. CASE count <= n
  <2>1. Kept(n) = stacks /\ Evicted(n) = <<>>
    BY <1>1 DEF Kept, Evicted
  <2>2. QED
    BY <1>1, <2>1, EmptyList
<1>2. CASE count > n
  <2> DEFINE p == SubSeq(stacks, 1, n)
             q == SubSeq(stacks, n + 1, count)
  <2>1. Kept(n) = p /\ Evicted(n) = q
    BY <1>2 DEF Kept, Evicted
  <2>2. /\ 1 \in 1..(Len(stacks) + 1) /\ n \in 0..Len(stacks)
        /\ n + 1 \in 1..(Len(stacks) + 1) /\ count \in 0..Len(stacks)
    BY <1>2
  <2>3. /\ p \in Seq(Addr) /\ Distinct(p)
        /\ Len(p) = IF 1 <= n THEN n - 1 + 1 ELSE 0
        /\ \A i \in 1..Len(p) : p[i] = stacks[1 + i - 1]
        /\ \A a : a \in Range(p) <=> \E i \in 1..n : a = stacks[i]
    BY <2>2, Part
  <2>4. /\ q \in Seq(Addr) /\ Distinct(q)
        /\ Len(q) = IF n + 1 <= count THEN count - (n + 1) + 1 ELSE 0
        /\ \A a : a \in Range(q) <=> \E i \in (n + 1)..count : a = stacks[i]
    BY <2>2, Part
  <2> HIDE DEF p, q
  <2>5. Len(p) = n /\ Len(q) = count - n
    BY <1>2, <2>3, <2>4
  <2>6. \A a : a \in Range(stacks) <=> \E i \in 1..count : a = stacks[i]
    BY Elements
  <2>7. Range(p) \union Range(q) = Range(stacks)
    <3>1. \A i \in 1..count : i \in 1..n \/ i \in (n + 1)..count
      BY <2>2
    <3>2. \A i \in 1..n : i \in 1..count
      BY <2>2
    <3>3. \A i \in (n + 1)..count : i \in 1..count
      BY <2>2
    <3>4. QED
      BY <2>3, <2>4, <2>6, <3>1, <3>2, <3>3, SMTT(30)
  <2>8. Range(p) \cap Range(q) = {}
    <3> SUFFICES ASSUME NEW a \in Range(p), a \in Range(q) PROVE FALSE
      OBVIOUS
    <3>1. PICK i \in 1..n : a = stacks[i]
      BY <2>3
    <3>2. PICK j \in (n + 1)..count : a = stacks[j]
      BY <2>4
    <3>3. i \in 1..Len(stacks) /\ j \in 1..Len(stacks) /\ i # j
      BY <2>2
    <3>4. QED
      BY <3>1, <3>2, <3>3 DEF Distinct
  <2>9. \A i \in 1..Len(p) : p[i] = stacks[i]
    BY <2>3, <2>5
  <2>10. Len(p) \in Nat /\ Len(p) <= n /\ Len(q) \in Nat /\ Len(p) + Len(q) = count
    BY <2>2, <2>5
  <2>11. QED
    BY <2>1, <2>3, <2>4, <2>7, <2>8, <2>9, <2>10
<1>3. QED
  BY <1>1, <1>2

-----------------------------------------------------------------------------
(* List objects                                                            *)

Cells(f) == UNION {{t} \X (1..f[t]) : t \in Thread}

(* Giving n list objects to a thread that has none adds n to all of them.  *)
LEMMA Transit ==
    ASSUME NEW f \in [Thread -> Nat], NEW t \in Thread, f[t] = 0, NEW n \in Nat,
           NEW g, g = [f EXCEPT ![t] = n],
           IsFiniteSet(Cells(f)) \/ IsFiniteSet(Cells(g))
    PROVE  /\ IsFiniteSet(Cells(f)) /\ IsFiniteSet(Cells(g))
           /\ Cardinality(Cells(f)) \in Nat
           /\ Cardinality(Cells(g)) = Cardinality(Cells(f)) + n
<1> DEFINE C == {t} \X (1..n)
<1>1. IsFiniteSet(C) /\ Cardinality(C) = n
  <2>1. IsFiniteSet({t}) /\ Cardinality({t}) = 1
    BY FS_Singleton
  <2>2. IsFiniteSet(1..n) /\ Cardinality(1..n) = IF 1 > n THEN 0 ELSE n - 1 + 1
    BY FS_Interval
  <2>3. Cardinality(1..n) = n
    BY <2>2
  <2>4. IsFiniteSet(C) /\ Cardinality(C) = Cardinality({t}) * Cardinality(1..n)
    BY <2>1, <2>2, FS_Product, Zenon
  <2>5. Cardinality(C) = 1 * n
    BY <2>1, <2>3, <2>4, Zenon
  <2>6. QED
    BY <2>4, <2>5
<1>2. \A p : p \in Cells(f) <=> \E u \in Thread : \E i \in 1..f[u] : p = <<u, i>>
  BY DEF Cells
<1>3. \A p : p \in Cells(g) <=> \E u \in Thread : \E i \in 1..g[u] : p = <<u, i>>
  BY DEF Cells
<1>4. \A p : p \in C <=> \E i \in 1..n : p = <<t, i>>
  OBVIOUS
<1> HIDE DEF C
<1>5. \A u \in Thread : g[u] = IF u = t THEN n ELSE f[u]
  OBVIOUS
<1>6. 1..f[t] = {}
  OBVIOUS
<1>7. Cells(g) = Cells(f) \union C
  <2>1. ASSUME NEW p \in Cells(g) PROVE p \in Cells(f) \union C
    <3>1. PICK u \in Thread : \E i \in 1..g[u] : p = <<u, i>>
      BY <1>3
    <3>2. CASE u = t
      BY <1>4, <1>5, <3>1, <3>2
    <3>3. CASE u # t
      BY <1>2, <1>5, <3>1, <3>3
    <3>4. QED
      BY <3>2, <3>3
  <2>2. ASSUME NEW p \in Cells(f) PROVE p \in Cells(g)
    <3>1. PICK u \in Thread : \E i \in 1..f[u] : p = <<u, i>>
      BY <1>2
    <3>2. u # t
      BY <1>6, <3>1
    <3>3. QED
      BY <1>3, <1>5, <3>1, <3>2
  <2>3. ASSUME NEW p \in C PROVE p \in Cells(g)
    BY <1>3, <1>4, <1>5
  <2>4. QED
    BY <2>1, <2>2, <2>3
<1>8. Cells(f) \cap C = {}
  <2> SUFFICES ASSUME NEW p \in Cells(f), p \in C PROVE FALSE
    OBVIOUS
  <2>1. PICK u \in Thread : \E i \in 1..f[u] : p = <<u, i>>
    BY <1>2
  <2>2. PICK i \in 1..f[u] : p = <<u, i>>
    BY <2>1
  <2>3. PICK j \in 1..n : p = <<t, j>>
    BY <1>4
  <2>4. <<u, i>> = <<t, j>>
    BY <2>2, <2>3
  <2>5. u = t
    BY <2>4
  <2>6. QED
    BY <1>6, <2>1, <2>5
<1>9. IsFiniteSet(Cells(f)) /\ IsFiniteSet(Cells(g))
  <2>1. CASE IsFiniteSet(Cells(f))
    <3>1. IsFiniteSet(Cells(f) \union C)
      BY <1>1, <2>1, FS_Union, Zenon
    <3>2. QED
      BY <1>7, <2>1, <3>1, Zenon
  <2>2. CASE IsFiniteSet(Cells(g))
    <3>1. Cells(f) \in SUBSET Cells(g)
      BY <1>7
    <3>2. QED
      BY <2>2, <3>1, FS_Subset, Zenon
  <2>3. QED
    BY <2>1, <2>2
<1>10. Cardinality(Cells(f)) \in Nat /\ Cardinality({}) = 0
  BY <1>9, FS_CardinalityType, FS_EmptySet
<1>11. Cardinality(Cells(g)) = Cardinality(Cells(f)) + n - Cardinality(Cells(f) \cap C)
  BY <1>1, <1>7, <1>9, FS_Union
<1>12. Cardinality(Cells(f) \cap C) = 0
  BY <1>8, <1>10, Zenon
<1>13. QED
  BY <1>9, <1>10, <1>11, <1>12

(* Evicting stacks puts as many list objects into transit.                 *)
LEMMA EvictTransit ==
    ASSUME spare \in [Thread -> Nat], NEW t \in Thread, spare[t] = 0, IsFiniteSet(InTransit),
           NEW gone \in Seq(Addr), Evict(t, gone)
    PROVE  /\ IsFiniteSet(InTransit')
           /\ Cardinality(InTransit) \in Nat
           /\ Cardinality(InTransit') = Cardinality(InTransit) + Len(gone)
<1>1. Len(gone) \in Nat /\ spare' = [spare EXCEPT ![t] = Len(gone)]
  BY DEF Evict
<1>2. InTransit = Cells(spare) /\ InTransit' = Cells(spare')
  BY DEF InTransit, Cells
<1>3. QED
  BY <1>1, <1>2, Transit

(* cosmo_stack_rehabilitate() takes the objects of a thread out of transit.*)
LEMMA RehabilitateTransit ==
    ASSUME spare \in [Thread -> Nat], NEW t \in Thread, IsFiniteSet(InTransit),
           spare' = [spare EXCEPT ![t] = 0]
    PROVE  /\ IsFiniteSet(InTransit')
           /\ Cardinality(InTransit') \in Nat
           /\ Cardinality(InTransit) = Cardinality(InTransit') + spare[t]
<1> DEFINE f == [spare EXCEPT ![t] = 0]
<1>1. f \in [Thread -> Nat] /\ f[t] = 0 /\ spare[t] \in Nat
  OBVIOUS
<1>2. spare = [f EXCEPT ![t] = spare[t]]
  OBVIOUS
<1>3. InTransit = Cells(spare) /\ InTransit' = Cells(f)
  BY DEF InTransit, Cells
<1> HIDE DEF f
<1>4. QED
  BY <1>1, <1>2, <1>3, Transit

-----------------------------------------------------------------------------
(* The invariant is inductive                                              *)

(* Nothing is owned at the start.                                          *)
LEMMA InitIInv == Init => IInv
<1> SUFFICES ASSUME Init PROVE IInv
  OBVIOUS
<1>1. TypeOK
  BY CacheAssumption, EmptyList DEF Init, TypeOK
<1>2. PcInv
  BY DEF Init, PcInv
<1>3. OwnInv
  <2>1. Distinct(stacks) /\ Range(stacks) = {}
    BY EmptyList DEF Init
  <2>2. \A t \in Thread :
          mine[t] = None /\ Distinct(surplus[t]) /\ Range(surplus[t]) = {}
    BY EmptyList DEF Init
  <2>3. QED
    BY <2>1, <2>2 DEF OwnInv
<1>4. RightKind
  BY DEF Init, RightKind
<1>5. CountInv
  <2>1. Len(stacks) = 0 /\ count = 0 /\ objects = 0 /\ pages = 0 /\ maxstacks \in Nat
    BY CacheAssumption DEF Init
  <2>2. InTransit = {}
    BY DEF Init, InTransit
  <2>3. IsFiniteSet(InTransit) /\ Cardinality(InTransit) = 0
    BY <2>2, FS_EmptySet, Zenon
  <2>4. pages * PerPage = 0
    BY <2>1, CacheAssumption
  <2>5. QED
    BY <2>1, <2>3, <2>4 DEF CountInv, CacheBounded, ObjectsConserved
<1>6. QED
  BY <1>1, <1>2, <1>3, <1>4, <1>5 DEF IInv

(* A thread that is not rehabilitating has nothing evicted.                *)
LEMMA NothingEvicted ==
    ASSUME IInv, NEW t \in Thread, pc[t] # "rehabilitate"
    PROVE  surplus[t] = <<>> /\ Range(surplus[t]) = {} /\ spare[t] = 0
BY EmptyList DEF IInv, PcInv

(* Dividing the cache into what stays and what is evicted keeps ownership. *)
LEMMA Divided ==
    ASSUME IInv, NEW t \in Thread, pc[t] = "idle",
           NEW K \in Seq(Addr), NEW G \in Seq(Addr), Distinct(K), Distinct(G),
           Range(K) \union Range(G) = Range(stacks), Range(K) \cap Range(G) = {},
           stacks' = K, Evict(t, G), UNCHANGED <<mine, mapped>>
    PROVE  OwnInv'
<1>1. \A u \in Thread : surplus'[u] = IF u = t THEN G ELSE surplus[u]
  BY DEF Evict, IInv, TypeOK
<1>2. Mapped' = Mapped /\ mine' = mine
  BY DEF Mapped
<1>3. OwnInv
  BY DEF IInv
<1>4. Distinct(stacks') /\ Range(stacks') = Range(K)
  OBVIOUS
<1> DEFINE R(u) == Range(surplus[u])
<1>5. \A u \in Thread : /\ Range(surplus'[u]) = IF u = t THEN Range(G) ELSE R(u)
                        /\ Distinct(surplus'[u])
  BY <1>1, <1>3 DEF OwnInv
<1>6. \A u \in Thread :
          /\ mine[u] \in Mapped \union {None}
          /\ mine[u] \notin Range(stacks)
          /\ R(u) \subseteq Mapped
          /\ R(u) \cap Range(stacks) = {}
  BY <1>3 DEF OwnInv
<1>7. \A v, u \in Thread :
          /\ mine[v] # None /\ mine[v] = mine[u] => v = u
          /\ mine[v] \notin R(u)
          /\ v # u => R(v) \cap R(u) = {}
  BY <1>3 DEF OwnInv
<1>8. Range(stacks) \subseteq Mapped
  BY <1>3 DEF OwnInv
<1> HIDE DEF R
<1>9. \A u \in Thread :
          /\ mine'[u] \in Mapped' \union {None}
          /\ mine'[u] \notin Range(stacks')
          /\ Range(surplus'[u]) \subseteq Mapped'
          /\ Range(surplus'[u]) \cap Range(stacks') = {}
  BY <1>2, <1>4, <1>5, <1>6, <1>8
<1>10. \A v, u \in Thread :
          /\ mine'[v] # None /\ mine'[v] = mine'[u] => v = u
          /\ mine'[v] \notin Range(surplus'[u])
          /\ v # u => Range(surplus'[v]) \cap Range(surplus'[u]) = {}
  BY <1>2, <1>5, <1>6, <1>7
<1>11. Range(stacks') \subseteq Mapped'
  BY <1>2, <1>4, <1>8
<1>12. QED
  BY <1>4, <1>5, <1>9, <1>10, <1>11 DEF OwnInv

(* Evicting G from the cache and keeping K moves as many list objects.     *)
LEMMA DividedCount ==
    ASSUME IInv, NEW t \in Thread, pc[t] = "idle",
           NEW K \in Seq(Addr), NEW G \in Seq(Addr), Len(K) + Len(G) = count,
           maxstacks' \in Nat, Len(K) <= maxstacks',
           stacks' = K, count' = Len(K), Evict(t, G), UNCHANGED <<objects, pages>>
    PROVE  CountInv'
<1>1. /\ IsFiniteSet(InTransit') /\ Cardinality(InTransit) \in Nat
      /\ Cardinality(InTransit') = Cardinality(InTransit) + Len(G)
  BY NothingEvicted, EvictTransit DEF IInv, TypeOK, CountInv
<1>2. objects + count + Cardinality(InTransit) = pages * PerPage
  BY DEF IInv, CountInv, ObjectsConserved
<1>3. count \in Nat /\ objects \in Nat /\ Len(K) \in Nat /\ Len(G) \in Nat
  BY DEF IInv, TypeOK
<1>4. objects' + count' + Cardinality(InTransit') = objects + count + Cardinality(InTransit)
  BY <1>1, <1>3
<1>5. pages' * PerPage = pages * PerPage
  OBVIOUS
<1>6. QED
  BY <1>1, <1>2, <1>4, <1>5 DEF CountInv, CacheBounded, ObjectsConserved

(* The cache is what it was when a step leaves it and its objects alone.   *)
LEMMA CacheUnchanged ==
    ASSUME IInv, UNCHANGED <<cache, maxstacks, spare>>
    PROVE  CountInv'
<1>1. InTransit' = InTransit
  BY DEF InTransit
<1>2. QED
  BY <1>1 DEF IInv, CountInv, CacheBounded, ObjectsConserved, cache

(* A cached stack of the right kind is taken into use.                     *)
LEMMA AllocCachedStep ==
    ASSUME IInv, NEW t \in Thread, AllocCached(t), older' \subseteq Addr \X Addr
    PROVE  IInv'
<1>0. PICK k \in Kind : \E i \in Matching(k) :
          /\ want' = [want EXCEPT ![t] = k]
          /\ mine' = [mine EXCEPT ![t] = stacks[i]]
          /\ stacks' = RemoveAt(stacks, i)
          /\ count' = count - 1
          /\ objects' = objects + 1
  BY DEF AllocCached
<1>1. PICK i \in Matching(k) :
          /\ want' = [want EXCEPT ![t] = k]
          /\ mine' = [mine EXCEPT ![t] = stacks[i]]
          /\ stacks' = RemoveAt(stacks, i)
          /\ count' = count - 1
          /\ objects' = objects + 1
  BY <1>0
<1>2. /\ pc[t] = "idle" /\ mine[t] = None
      /\ UNCHANGED <<pages, maxstacks, mapped, pc, surplus, spare, err>>
  BY DEF AllocCached
<1>3. TypeOK /\ PcInv /\ OwnInv /\ RightKind /\ CountInv
  BY DEF IInv
<1>4. i \in 1..Len(stacks) /\ mapped[stacks[i]] = k /\ stacks \in Seq(Addr) /\ Distinct(stacks)
  BY <1>3 DEF Matching, TypeOK, OwnInv
<1> DEFINE a == stacks[i]
<1>5. a \in Addr /\ a \in Range(stacks) /\ a \in Mapped
  BY <1>3, <1>4, Elements DEF OwnInv
<1>6. a # None /\ k # None
  BY <1>5, NoneAssumption
<1>7. /\ stacks' \in Seq(Addr) /\ Len(stacks') = Len(stacks) - 1
      /\ Range(stacks') = Range(stacks) \ {a} /\ Distinct(stacks')
  BY <1>1, <1>4, Removed
<1>8. Len(stacks) \in Nat /\ Len(stacks) >= 1 /\ count = Len(stacks)
  BY <1>3, <1>4, Elements DEF CountInv, ObjectsConserved
<1> HIDE DEF a
<1>9. mine' = [mine EXCEPT ![t] = a] /\ mapped[a] = k
  BY <1>1, <1>4 DEF a
<1>10. TypeOK'
  BY <1>1, <1>2, <1>3, <1>5, <1>7, <1>8, <1>9 DEF TypeOK
<1>11. \A u \in Thread : mine'[u] = IF u = t THEN a ELSE mine[u]
  BY <1>3, <1>9 DEF TypeOK
<1>12. PcInv'
  BY <1>2, <1>3, <1>11 DEF PcInv
<1>13. OwnInv'
  <2>1. Mapped' = Mapped /\ surplus' = surplus
    BY <1>2 DEF Mapped
  <2>2. \A u \in Thread : a # mine[u] /\ a \notin Range(surplus[u])
    BY <1>3, <1>5 DEF OwnInv
  <2>3. \A u \in Thread :
          /\ mine'[u] \in Mapped' \union {None}
          /\ mine'[u] \notin Range(stacks')
          /\ Distinct(surplus'[u])
          /\ Range(surplus'[u]) \subseteq Mapped'
          /\ Range(surplus'[u]) \cap Range(stacks') = {}
    BY <1>3, <1>5, <1>7, <1>11, <2>1 DEF OwnInv
  <2>4. \A v, u \in Thread :
          /\ mine'[v] # None /\ mine'[v] = mine'[u] => v = u
          /\ mine'[v] \notin Range(surplus'[u])
          /\ v # u => Range(surplus'[v]) \cap Range(surplus'[u]) = {}
    BY <1>3, <1>11, <2>1, <2>2 DEF OwnInv
  <2>5. Range(stacks') \subseteq Mapped'
    BY <1>3, <1>7, <2>1 DEF OwnInv
  <2>6. QED
    BY <1>7, <2>3, <2>4, <2>5 DEF OwnInv
<1>14. RightKind'
  <2>1. \A u \in Thread : want'[u] = IF u = t THEN k ELSE want[u]
    BY <1>1, <1>3 DEF TypeOK
  <2>2. QED
    BY <1>2, <1>3, <1>9, <1>11, <2>1 DEF RightKind
<1>15. CountInv'
  <2>1. InTransit' = InTransit
    BY <1>2 DEF InTransit
  <2>2. IsFiniteSet(InTransit) /\ Cardinality(InTransit) \in Nat
    BY <1>3, FS_CardinalityType DEF CountInv
  <2>3. objects' + count' + Cardinality(InTransit') = objects + count + Cardinality(InTransit)
    BY <1>1, <1>3, <1>8, <2>1, <2>2 DEF TypeOK
  <2>4. pages' * PerPage = pages * PerPage /\ maxstacks' = maxstacks /\ maxstacks \in Nat
    BY <1>2, <1>3, CacheAssumption DEF TypeOK
  <2>5. Len(stacks') <= maxstacks' /\ count' = Len(stacks')
    BY <1>1, <1>3, <1>7, <1>8, <2>4 DEF CountInv, CacheBounded
  <2>6. objects' + count' + Cardinality(InTransit') = pages' * PerPage
    BY <1>3, <2>3, <2>4 DEF CountInv, ObjectsConserved
  <2>7. QED
    BY <2>1, <2>2, <2>5, <2>6 DEF CountInv, CacheBounded, ObjectsConserved
<1>16. QED
  BY <1>10, <1>12, <1>13, <1>14, <1>15 DEF IInv

(* No stack of the right kind is cached: the thread goes to map one.       *)
LEMMA AllocMissStep ==
    ASSUME IInv, NEW t \in Thread, AllocMiss(t), older' \subseteq Addr \X Addr
    PROVE  IInv'
<1>1. PICK k \in Kind : want' = [want EXCEPT ![t] = k]
  BY DEF AllocMiss
<1>2. /\ pc[t] = "idle" /\ mine[t] = None /\ pc' = [pc EXCEPT ![t] = "map"]
      /\ UNCHANGED <<cache, maxstacks, mapped, mine, surplus, spare, err>>
      /\ UNCHANGED <<stacks, count, objects, pages>>
  BY DEF AllocMiss, Goto, cache
<1>3. TypeOK'
  BY <1>1, <1>2 DEF IInv, TypeOK
<1>4. PcInv'
  BY <1>2 DEF IInv, TypeOK, PcInv
<1>5. OwnInv'
  BY <1>2 DEF IInv, OwnInv, Mapped
<1>6. RightKind'
  <2>1. \A u \in Thread : want'[u] = IF u = t THEN k ELSE want[u]
    BY <1>1 DEF IInv, TypeOK
  <2>2. QED
    BY <1>2, <2>1 DEF IInv, RightKind
<1>7. CountInv'
  BY <1>2, CacheUnchanged
<1>8. QED
  BY <1>3, <1>4, <1>5, <1>6, <1>7 DEF IInv

(* A new stack is mapped where nothing is, or mmap() fails.                *)
LEMMA AllocMapStep ==
    ASSUME IInv, NEW t \in Thread, AllocMap(t), older' \subseteq Addr \X Addr
    PROVE  IInv'
<1>1. /\ pc[t] = "map" /\ pc' = [pc EXCEPT ![t] = "idle"]
      /\ UNCHANGED <<cache, maxstacks, want, surplus, spare, err>>
      /\ UNCHANGED <<stacks, count, objects, pages>>
  BY DEF AllocMap, Goto, cache
<1>2. TypeOK /\ PcInv /\ OwnInv /\ RightKind /\ CountInv
  BY DEF IInv
<1>3. mine[t] = None /\ surplus[t] = <<>> /\ spare[t] = 0
  BY <1>1, <1>2 DEF PcInv
<1>4. CountInv'
  BY <1>1, CacheUnchanged
<1>5. CASE UNCHANGED <<mapped, mine>>
  <2>1. TypeOK'
    BY <1>1, <1>2, <1>5 DEF TypeOK
  <2>2. PcInv'
    BY <1>1, <1>2, <1>3, <1>5 DEF TypeOK, PcInv
  <2>3. OwnInv' /\ RightKind'
    BY <1>1, <1>2, <1>5 DEF OwnInv, RightKind, Mapped
  <2>4. QED
    BY <1>4, <2>1, <2>2, <2>3 DEF IInv
<1>6. ASSUME NEW a \in Addr, mapped[a] = None,
             mapped' = [mapped EXCEPT ![a] = want[t]], mine' = [mine EXCEPT ![t] = a]
      PROVE  IInv'
  <2>1. want[t] \in Kind /\ want[t] # None /\ a # None
    BY <1>2, NoneAssumption DEF TypeOK
  <2>2. TypeOK'
    BY <1>1, <1>2, <1>6, <2>1 DEF TypeOK
  <2>3. \A u \in Thread : mine'[u] = IF u = t THEN a ELSE mine[u]
    BY <1>2, <1>6 DEF TypeOK
  <2>4. \A b \in Addr : mapped'[b] = IF b = a THEN want[t] ELSE mapped[b]
    BY <1>2, <1>6 DEF TypeOK
  <2>5. a \notin Mapped /\ Mapped' = Mapped \union {a}
    BY <1>6, <2>1, <2>4 DEF Mapped
  <2>6. PcInv'
    BY <1>1, <1>2, <1>3, <2>1, <2>3 DEF TypeOK, PcInv
  <2>7. \A u \in Thread : a # mine[u] /\ a \notin Range(surplus[u])
    BY <1>2, <2>1, <2>5 DEF OwnInv
  <2>8. a \notin Range(stacks)
    BY <1>2, <2>5 DEF OwnInv
  <2>9. OwnInv'
    <3>1. \A u \in Thread :
            /\ mine'[u] \in Mapped' \union {None}
            /\ mine'[u] \notin Range(stacks')
            /\ Distinct(surplus'[u])
            /\ Range(surplus'[u]) \subseteq Mapped'
            /\ Range(surplus'[u]) \cap Range(stacks') = {}
      BY <1>1, <1>2, <2>3, <2>5, <2>8 DEF OwnInv
    <3>2. \A v, u \in Thread :
            /\ mine'[v] # None /\ mine'[v] = mine'[u] => v = u
            /\ mine'[v] \notin Range(surplus'[u])
            /\ v # u => Range(surplus'[v]) \cap Range(surplus'[u]) = {}
      BY <1>1, <1>2, <2>3, <2>7 DEF OwnInv
    <3>3. Distinct(stacks') /\ Range(stacks') \subseteq Mapped'
      BY <1>1, <1>2, <2>5 DEF OwnInv
    <3>4. QED
      BY <3>1, <3>2, <3>3 DEF OwnInv
  <2>10. RightKind'
    <3> SUFFICES ASSUME NEW u \in Thread, mine'[u] # None PROVE mapped'[mine'[u]] = want'[u]
      BY DEF RightKind
    <3>1. CASE u = t
      BY <1>1, <2>3, <2>4, <3>1
    <3>2. CASE u # t
      <4>1. mine[u] \in Addr /\ mine[u] # a /\ mine'[u] = mine[u]
        BY <1>2, <2>3, <2>7, <3>2 DEF TypeOK
      <4>2. QED
        BY <1>1, <1>2, <2>4, <4>1 DEF RightKind
    <3>3. QED
      BY <3>1, <3>2
  <2>11. QED
    BY <1>4, <2>2, <2>6, <2>9, <2>10 DEF IInv
<1>7. QED
  BY <1>5, <1>6 DEF AllocMap

(* The freed stack goes to the front of what is kept of the cache.         *)
LEMMA FreeCachedStep ==
    ASSUME IInv, NEW t \in Thread, FreeCached(t), older' \subseteq Addr \X Addr
    PROVE  IInv'
<1> DEFINE K == Kept(maxstacks - 1)
           G == Evicted(maxstacks - 1)
           a == mine[t]
<1>1. /\ pc[t] = "idle" /\ a # None /\ maxstacks # 0
      /\ Evict(t, G)
      /\ mine' = [mine EXCEPT ![t] = None]
      /\ err' = [err EXCEPT ![t] = "ok"]
      /\ pc' = [pc EXCEPT ![t] = "rehabilitate"]
      /\ UNCHANGED <<maxstacks, mapped, want>>
  BY DEF FreeCached, Goto
<1>0. PICK p \in Populated :
        /\ p[1] > 0 /\ stacks' = <<a>> \o K /\ count' = Len(K) + 1
        /\ objects' = p[1] - 1 /\ pages' = p[2]
  BY DEF FreeCached
<1> DEFINE o == p[1]
           g == p[2]
<1>2. /\ o > 0 /\ stacks' = <<a>> \o K /\ count' = Len(K) + 1
      /\ objects' = o - 1 /\ pages' = g
  BY <1>0
<1>3. TypeOK /\ PcInv /\ OwnInv /\ RightKind /\ CountInv
  BY DEF IInv
<1>4. maxstacks \in Nat /\ maxstacks - 1 \in Nat
  BY <1>1, <1>3, CacheAssumption DEF TypeOK
<1>5. stacks \in Seq(Addr) /\ Distinct(stacks) /\ count = Len(stacks)
  BY <1>3 DEF TypeOK, OwnInv, CountInv, ObjectsConserved
<1>6. /\ K \in Seq(Addr) /\ G \in Seq(Addr) /\ Distinct(K) /\ Distinct(G)
      /\ Len(K) \in Nat /\ Len(K) <= maxstacks - 1
      /\ Len(G) \in Nat /\ Len(K) + Len(G) = count
      /\ Range(K) \union Range(G) = Range(stacks)
      /\ Range(K) \cap Range(G) = {}
  BY <1>4, <1>5, Decimate
<1> HIDE DEF K, G, a
<1>7. a \in Addr /\ a \in Mapped /\ a \notin Range(stacks)
  BY <1>1, <1>3 DEF TypeOK, OwnInv, a
<1>8. /\ stacks' \in Seq(Addr) /\ Len(stacks') = Len(K) + 1
      /\ Range(stacks') = Range(K) \union {a} /\ Distinct(stacks')
  BY <1>2, <1>6, <1>7, Cons1
<1>9. \/ o = objects /\ g = pages
      \/ objects = 0 /\ pages < MaxPages /\ o = PerPage /\ g = pages + 1
  BY <1>0 DEF Populated
<1> HIDE DEF o, g
<1>10. TypeOK'
  <2>1. objects' \in Nat /\ pages' \in 0..MaxPages /\ count' \in Nat
    <3>1. objects \in Nat /\ pages \in 0..MaxPages /\ PerPage \in Nat /\ MaxPages \in Nat
      BY <1>3, CacheAssumption DEF TypeOK
    <3>2. o \in Nat /\ g \in 0..MaxPages
      BY <1>9, <3>1
    <3>3. QED
      BY <1>2, <1>6, <3>2
  <2>2. /\ surplus' \in [Thread -> Seq(Addr)] /\ spare' \in [Thread -> Nat]
        /\ mine' \in [Thread -> Addr \union {None}]
        /\ err' \in [Thread -> {"ok", "errno", None}]
        /\ pc' \in [Thread -> {"idle", "map", "rehabilitate", "unmap"}]
    BY <1>1, <1>3, <1>6 DEF TypeOK, Evict
  <2>3. QED
    BY <1>1, <1>3, <1>8, <2>1, <2>2 DEF TypeOK
<1>11. \A u \in Thread :
          /\ mine'[u] = IF u = t THEN None ELSE mine[u]
          /\ err'[u] = IF u = t THEN "ok" ELSE err[u]
          /\ pc'[u] = IF u = t THEN "rehabilitate" ELSE pc[u]
          /\ surplus'[u] = IF u = t THEN G ELSE surplus[u]
          /\ spare'[u] = IF u = t THEN Len(G) ELSE spare[u]
  BY <1>1, <1>3 DEF TypeOK, Evict
<1>12. PcInv'
  <2>1. "ok" # None
    BY DEF None
  <2>2. QED
    BY <1>3, <1>11, <2>1 DEF PcInv
<1>13. OwnInv'
  <2> DEFINE R(u) == Range(surplus[u])
  <2>1. Mapped' = Mapped
    BY <1>1 DEF Mapped
  <2>2. \A u \in Thread : /\ Range(surplus'[u]) = IF u = t THEN Range(G) ELSE R(u)
                          /\ Distinct(surplus'[u])
    BY <1>3, <1>6, <1>11 DEF OwnInv
  <2>3. \A u \in Thread :
          /\ mine[u] \in Mapped \union {None}
          /\ mine[u] \notin Range(stacks)
          /\ R(u) \subseteq Mapped
          /\ R(u) \cap Range(stacks) = {}
    BY <1>3 DEF OwnInv
  <2>4. \A v, u \in Thread :
          /\ mine[v] # None /\ mine[v] = mine[u] => v = u
          /\ mine[v] \notin R(u)
          /\ v # u => R(v) \cap R(u) = {}
    BY <1>3 DEF OwnInv
  <2>5. Range(stacks) \subseteq Mapped
    BY <1>3 DEF OwnInv
  <2> HIDE DEF R
  <2>6. \A u \in Thread : a \notin R(u)
    BY <2>4 DEF a
  <2>7. \A u \in Thread : u # t => mine[u] # a
    BY <1>1, <2>4 DEF a
  <2>8. \A u \in Thread :
          /\ mine'[u] \in Mapped' \union {None}
          /\ Range(surplus'[u]) \subseteq Mapped'
          /\ Range(surplus'[u]) \cap Range(stacks') = {}
    BY <1>6, <1>7, <1>8, <1>11, <2>1, <2>2, <2>3, <2>5, <2>6
  <2>9. ASSUME NEW u \in Thread PROVE mine'[u] \notin Range(stacks')
    <3>1. None \notin Range(stacks')
      BY <1>6, <1>7, <1>8, <2>3, <1>5, Elements, NoneAssumption
    <3>2. QED
      BY <1>6, <1>8, <1>11, <2>3, <2>7, <3>1
  <2>10. \A v, u \in Thread :
          /\ mine'[v] # None /\ mine'[v] = mine'[u] => v = u
          /\ v # u => Range(surplus'[v]) \cap Range(surplus'[u]) = {}
    BY <1>6, <1>11, <2>2, <2>3, <2>4
  <2>11. ASSUME NEW v \in Thread, NEW u \in Thread PROVE mine'[v] \notin Range(surplus'[u])
    <3>1. None \notin Range(G)
      BY <1>6, Elements, NoneAssumption
    <3>2. None \notin R(u)
      <4>1. surplus[u] \in Seq(Addr)
        BY <1>3 DEF TypeOK
      <4>2. QED
        BY <4>1, Elements, NoneAssumption DEF R
    <3>3. QED
      BY <1>6, <1>11, <2>2, <2>3, <2>4, <3>1, <3>2
  <2>12. Range(stacks') \subseteq Mapped'
    BY <1>6, <1>7, <1>8, <2>1, <2>5
  <2>13. QED
    BY <1>8, <2>2, <2>8, <2>9, <2>10, <2>11, <2>12 DEF OwnInv
<1>14. RightKind'
  BY <1>1, <1>3, <1>11 DEF RightKind
<1>15. CountInv'
  <2>1. /\ IsFiniteSet(InTransit') /\ Cardinality(InTransit) \in Nat
        /\ Cardinality(InTransit') = Cardinality(InTransit) + Len(G)
    BY <1>1, <1>3, <1>6, NothingEvicted, EvictTransit DEF TypeOK, CountInv
  <2>2. objects + count + Cardinality(InTransit) = pages * PerPage
    BY <1>3 DEF CountInv, ObjectsConserved
  <2>3. objects \in Nat /\ count \in Nat /\ pages \in Nat /\ PerPage \in Nat
    BY <1>3, CacheAssumption DEF TypeOK
  <2>4. o + count + Cardinality(InTransit) = g * PerPage /\ o \in Nat
    <3>1. CASE o = objects /\ g = pages
      BY <2>2, <2>3, <3>1
    <3>2. CASE objects = 0 /\ o = PerPage /\ g = pages + 1
      <4>1. (pages + 1) * PerPage = pages * PerPage + PerPage
        BY <2>3
      <4>2. count + Cardinality(InTransit) = pages * PerPage
        BY <2>1, <2>2, <2>3, <3>2
      <4>3. QED
        BY <2>1, <2>3, <3>2, <4>1, <4>2
    <3>3. QED
      BY <1>9, <3>1, <3>2
  <2>5. objects' + count' + Cardinality(InTransit') = o + count + Cardinality(InTransit)
    <3> DEFINE c == Cardinality(InTransit)
               k == Len(K)
               e == Len(G)
    <3>1. /\ k \in Nat /\ e \in Nat /\ c \in Nat /\ o \in Nat /\ k + e = count
          /\ objects' = o - 1 /\ count' = k + 1 /\ Cardinality(InTransit') = c + e
      BY <1>2, <1>6, <2>1, <2>4
    <3> HIDE DEF c, k, e
    <3>2. objects' + count' + Cardinality(InTransit') = o + count + c
      BY <3>1
    <3>3. QED
      BY <3>2 DEF c
  <2>6. objects' + count' + Cardinality(InTransit') = pages' * PerPage
    BY <1>2, <2>4, <2>5
  <2>7. count' = Len(stacks') /\ Len(stacks') <= maxstacks'
    BY <1>1, <1>2, <1>4, <1>6, <1>8
  <2>8. QED
    BY <2>1, <2>6, <2>7 DEF CountInv, CacheBounded, ObjectsConserved
<1>16. QED
  BY <1>10, <1>12, <1>13, <1>14, <1>15 DEF IInv

(* What all steps have in common that only divide the cache.               *)
LEMMA EvictStep ==
    ASSUME IInv, NEW t \in Thread, pc[t] = "idle",
           NEW K \in Seq(Addr), NEW G \in Seq(Addr), Distinct(K), Distinct(G),
           Range(K) \union Range(G) = Range(stacks), Range(K) \cap Range(G) = {},
           Len(K) + Len(G) = count, maxstacks' \in Limit, Len(K) <= maxstacks',
           NEW e \in {"ok", None}, e = None => mine[t] # None,
           stacks' = K, count' = Len(K), Evict(t, G),
           err' = [err EXCEPT ![t] = e], pc' = [pc EXCEPT ![t] = "rehabilitate"],
           UNCHANGED <<objects, pages, mapped, mine, want>>,
           older' \subseteq Addr \X Addr
    PROVE  IInv'
<1>1. TypeOK /\ PcInv /\ OwnInv /\ RightKind /\ CountInv
  BY DEF IInv
<1>2. TypeOK'
  <2>1. Len(K) \in Nat /\ Len(G) \in Nat
    OBVIOUS
  <2>2. /\ surplus' \in [Thread -> Seq(Addr)] /\ spare' \in [Thread -> Nat]
        /\ err' \in [Thread -> {"ok", "errno", None}]
        /\ pc' \in [Thread -> {"idle", "map", "rehabilitate", "unmap"}]
    BY <1>1, <2>1 DEF TypeOK, Evict
  <2>3. QED
    BY <1>1, <2>1, <2>2 DEF TypeOK
<1>3. PcInv'
  <2>1. "ok" # None
    BY DEF None
  <2>2. \A u \in Thread :
          /\ err'[u] = IF u = t THEN e ELSE err[u]
          /\ pc'[u] = IF u = t THEN "rehabilitate" ELSE pc[u]
          /\ surplus'[u] = IF u = t THEN G ELSE surplus[u]
          /\ spare'[u] = IF u = t THEN Len(G) ELSE spare[u]
    BY <1>1 DEF TypeOK, Evict
  <2>3. QED
    BY <1>1, <2>1, <2>2 DEF PcInv
<1>4. OwnInv'
  BY Divided
<1>5. RightKind'
  BY <1>1 DEF RightKind
<1>6. CountInv'
  <2>1. maxstacks' \in Nat
    BY CacheAssumption
  <2>2. QED
    BY <2>1, DividedCount
<1>7. QED
  BY <1>2, <1>3, <1>4, <1>5, <1>6 DEF IInv

(* The freed stack is not cached: it stays with its thread until munmap(). *)
LEMMA FreeUncachedStep ==
    ASSUME IInv, NEW t \in Thread, FreeUncached(t), older' \subseteq Addr \X Addr
    PROVE  IInv'
<1>1. /\ pc[t] = "idle" /\ mine[t] # None
      /\ err' = [err EXCEPT ![t] = None]
      /\ pc' = [pc EXCEPT ![t] = "rehabilitate"]
      /\ UNCHANGED <<objects, pages, maxstacks, mapped, mine, want>>
  BY DEF FreeUncached, Goto
<1>2. maxstacks \in Limit /\ maxstacks \in Nat
  BY CacheAssumption DEF IInv, TypeOK
<1>3. /\ stacks \in Seq(Addr) /\ Distinct(stacks) /\ count = Len(stacks) /\ count \in Nat
      /\ Len(stacks) <= maxstacks
  BY DEF IInv, TypeOK, OwnInv, CountInv, ObjectsConserved, CacheBounded
<1>4. CASE maxstacks = 0
  <2>1. stacks' = stacks /\ count' = count /\ Evict(t, <<>>)
    BY <1>4 DEF FreeUncached
  <2>2. Len(stacks) + Len(<<>>) = count
    BY <1>3, EmptyList
  <2>3. QED
    BY <1>1, <1>2, <1>3, <2>1, <2>2, EmptyList, EvictStep
<1>5. CASE maxstacks # 0
  <2>1. /\ stacks' = Kept(maxstacks - 1) /\ count' = Len(Kept(maxstacks - 1))
        /\ Evict(t, Evicted(maxstacks - 1))
    BY <1>5 DEF FreeUncached
  <2>2. maxstacks - 1 \in Nat
    BY <1>2, <1>5
  <2>3. Len(Kept(maxstacks - 1)) <= maxstacks'
    BY <1>1, <1>2, <1>3, <2>2, Decimate
  <2>4. QED
    BY <1>1, <1>2, <1>3, <2>1, <2>2, <2>3, Decimate, EvictStep
<1>6. QED
  BY <1>4, <1>5

(* cosmo_stack_clear() evicts every stack.                                 *)
LEMMA ClearStep ==
    ASSUME IInv, NEW t \in Thread, Clear(t), older' \subseteq Addr \X Addr
    PROVE  IInv'
<1>1. /\ pc[t] = "idle" /\ stacks' = <<>> /\ count' = 0 /\ Evict(t, stacks)
      /\ err' = [err EXCEPT ![t] = "ok"]
      /\ pc' = [pc EXCEPT ![t] = "rehabilitate"]
      /\ UNCHANGED <<objects, pages, maxstacks, mapped, mine, want>>
  BY DEF Clear, Goto
<1>2. maxstacks \in Limit /\ maxstacks \in Nat
  BY CacheAssumption DEF IInv, TypeOK
<1>3. /\ stacks \in Seq(Addr) /\ Distinct(stacks) /\ count = Len(stacks) /\ count \in Nat
  BY DEF IInv, TypeOK, OwnInv, CountInv, ObjectsConserved
<1>4. "ok" # None
  BY DEF None
<1>5. Len(<<>>) + Len(stacks) = count /\ Len(<<>>) <= maxstacks' /\ count' = Len(<<>>)
  BY <1>1, <1>2, <1>3, EmptyList
<1>6. QED
  BY <1>1, <1>2, <1>3, <1>4, <1>5, EmptyList, EvictStep

(* cosmo_stack_setmaxstacks() evicts what is over the new limit.           *)
LEMMA SetMaxStacksStep ==
    ASSUME IInv, NEW t \in Thread, SetMaxStacks(t), older' \subseteq Addr \X Addr
    PROVE  IInv'
<1>1. /\ pc[t] = "idle"
      /\ err' = [err EXCEPT ![t] = "ok"]
      /\ pc' = [pc EXCEPT ![t] = "rehabilitate"]
      /\ UNCHANGED <<objects, pages, mapped, mine, want>>
  BY DEF SetMaxStacks, Goto
<1>2. PICK n \in Limit :
        /\ maxstacks' = n /\ stacks' = Kept(n) /\ count' = Len(Kept(n)) /\ Evict(t, Evicted(n))
  BY DEF SetMaxStacks
<1>3. n \in Nat
  BY CacheAssumption
<1>4. /\ stacks \in Seq(Addr) /\ Distinct(stacks) /\ count = Len(stacks) /\ count \in Nat
  BY DEF IInv, TypeOK, OwnInv, CountInv, ObjectsConserved
<1>5. "ok" # None
  BY DEF None
<1>6. QED
  BY <1>1, <1>2, <1>3, <1>4, <1>5, Decimate, EvictStep

(* munmap() of the freed stack, or its failure, which leaks it.            *)
LEMMA FreeUnmapStep ==
    ASSUME IInv, NEW t \in Thread, FreeUnmap(t), older' \subseteq Addr \X Addr
    PROVE  IInv'
<1> DEFINE a == mine[t]
<1>1. /\ pc[t] = "unmap" /\ mine' = [mine EXCEPT ![t] = None]
      /\ pc' = [pc EXCEPT ![t] = "idle"]
      /\ UNCHANGED <<cache, maxstacks, want, surplus, spare>>
      /\ UNCHANGED <<stacks, count, objects, pages>>
      /\ mapped' = [mapped EXCEPT ![a] = None] \/ mapped' = mapped
      /\ \E e \in {"ok", "errno"} : err' = [err EXCEPT ![t] = e]
  BY DEF FreeUnmap, Goto, cache
<1>2. TypeOK /\ PcInv /\ OwnInv /\ RightKind /\ CountInv
  BY DEF IInv
<1>3. a # None /\ a \in Addr /\ surplus[t] = <<>> /\ spare[t] = 0
  BY <1>1, <1>2 DEF PcInv, TypeOK
<1>4. CountInv'
  BY <1>1, CacheUnchanged
<1>5. TypeOK'
  BY <1>1, <1>2, <1>3 DEF TypeOK
<1>6. \A u \in Thread : /\ mine'[u] = IF u = t THEN None ELSE mine[u]
                        /\ pc'[u] = IF u = t THEN "idle" ELSE pc[u]
                        /\ u # t => err'[u] = err[u]
  BY <1>1, <1>2 DEF TypeOK
<1>7. PcInv'
  BY <1>1, <1>2, <1>3, <1>6 DEF PcInv
<1>8. \A b \in Addr : b # a => mapped'[b] = mapped[b]
  BY <1>1, <1>2, <1>3 DEF TypeOK
<1>9. Mapped \ {a} \subseteq Mapped'
  BY <1>8 DEF Mapped
<1>10. \A u \in Thread : a \notin Range(surplus[u]) /\ (u # t => mine[u] # a)
  BY <1>2, <1>3 DEF OwnInv
<1>11. a \notin Range(stacks)
  BY <1>2 DEF OwnInv
<1>12. None \notin Range(stacks) /\ \A u \in Thread : None \notin Range(surplus[u])
  <2>1. None \notin Addr
    BY NoneAssumption
  <2>2. \A s \in Seq(Addr) : None \notin Range(s)
    BY <2>1, Elements
  <2>3. QED
    BY <1>2, <2>2 DEF TypeOK
<1>13. OwnInv'
  <2>1. \A u \in Thread :
          /\ mine'[u] \in Mapped' \union {None}
          /\ mine'[u] \notin Range(stacks')
          /\ Distinct(surplus'[u])
          /\ Range(surplus'[u]) \subseteq Mapped'
          /\ Range(surplus'[u]) \cap Range(stacks') = {}
    BY <1>1, <1>2, <1>6, <1>9, <1>10, <1>12 DEF OwnInv
  <2>2. \A v, u \in Thread :
          /\ mine'[v] # None /\ mine'[v] = mine'[u] => v = u
          /\ mine'[v] \notin Range(surplus'[u])
          /\ v # u => Range(surplus'[v]) \cap Range(surplus'[u]) = {}
    BY <1>1, <1>2, <1>6, <1>12 DEF OwnInv
  <2>3. Distinct(stacks') /\ Range(stacks') \subseteq Mapped'
    BY <1>1, <1>2, <1>9, <1>11 DEF OwnInv
  <2>4. QED
    BY <2>1, <2>2, <2>3 DEF OwnInv
<1>14. RightKind'
  <2> SUFFICES ASSUME NEW u \in Thread, mine'[u] # None PROVE mapped'[mine'[u]] = want'[u]
    BY DEF RightKind
  <2>1. mine'[u] = mine[u] /\ mine[u] \in Addr /\ mine[u] # a
    BY <1>2, <1>6, <1>10 DEF TypeOK
  <2>2. QED
    BY <1>1, <1>2, <1>8, <2>1 DEF RightKind
<1>15. QED
  BY <1>4, <1>5, <1>7, <1>13, <1>14 DEF IInv

(* munmap() of an evicted stack, or its failure.                           *)
LEMMA RehabilitateUnmapStep ==
    ASSUME IInv, NEW t \in Thread, RehabilitateUnmap(t), older' \subseteq Addr \X Addr
    PROVE  IInv'
<1> DEFINE a == Head(surplus[t])
<1>1. /\ pc[t] = "rehabilitate" /\ surplus[t] # <<>>
      /\ mapped' = [mapped EXCEPT ![a] = None] \/ mapped' = mapped
      /\ surplus' = [surplus EXCEPT ![t] = Tail(surplus[t])]
      /\ UNCHANGED <<cache, maxstacks, mine, pc, want, spare, err>>
      /\ UNCHANGED <<stacks, count, objects, pages>>
  BY DEF RehabilitateUnmap, cache
<1>2. TypeOK /\ PcInv /\ OwnInv /\ RightKind /\ CountInv
  BY DEF IInv
<1>3. surplus[t] \in Seq(Addr) /\ Distinct(surplus[t])
  BY <1>2 DEF TypeOK, OwnInv
<1>4. /\ a \in Range(surplus[t]) /\ Tail(surplus[t]) \in Seq(Addr)
      /\ Range(Tail(surplus[t])) = Range(surplus[t]) \ {a} /\ Distinct(Tail(surplus[t]))
  BY <1>1, <1>3, Rest
<1>5. a \in Addr
  BY <1>3, <1>4, Elements
<1> HIDE DEF a
<1>6. CountInv'
  BY <1>1, CacheUnchanged
<1>7. TypeOK'
  <2>1. surplus' \in [Thread -> Seq(Addr)] /\ mapped' \in [Addr -> Kind \union {None}]
    BY <1>1, <1>2, <1>4, <1>5 DEF TypeOK
  <2>2. QED
    BY <1>1, <1>2, <2>1 DEF TypeOK
<1>8. \A u \in Thread : surplus'[u] = IF u = t THEN Tail(surplus[t]) ELSE surplus[u]
  BY <1>1, <1>2 DEF TypeOK
<1>9. PcInv'
  BY <1>1, <1>2, <1>8 DEF PcInv
<1>10. \A b \in Addr : b # a => mapped'[b] = mapped[b]
  BY <1>1, <1>2, <1>5 DEF TypeOK
<1>11. Mapped \ {a} \subseteq Mapped'
  BY <1>10 DEF Mapped
<1>12. a \notin Range(stacks) /\ \A u \in Thread : mine[u] # a
  BY <1>2, <1>4 DEF OwnInv
<1>13. \A u \in Thread : /\ Distinct(surplus'[u]) /\ a \notin Range(surplus'[u])
                         /\ Range(surplus'[u]) \subseteq Range(surplus[u])
  BY <1>2, <1>4, <1>8 DEF OwnInv
<1>14. OwnInv'
  <2> DEFINE R(u) == Range(surplus[u])
             S(u) == Range(surplus'[u])
  <2>0. /\ \A u \in Thread : mine[u] \in Mapped \union {None} /\ mine[u] \notin Range(stacks)
        /\ \A u \in Thread : R(u) \subseteq Mapped /\ R(u) \cap Range(stacks) = {}
        /\ \A u \in Thread : a \notin S(u) /\ S(u) \subseteq R(u)
    BY <1>2, <1>13 DEF OwnInv
  <2>1. \A u \in Thread :
          /\ mine'[u] \in Mapped' \union {None}
          /\ mine'[u] \notin Range(stacks')
          /\ Range(surplus'[u]) \subseteq Mapped'
          /\ Range(surplus'[u]) \cap Range(stacks') = {}
    <3> HIDE DEF R
    <3> SUFFICES ASSUME NEW u \in Thread
                 PROVE  /\ mine[u] \in Mapped' \union {None} /\ mine[u] \notin Range(stacks)
                        /\ S(u) \subseteq Mapped' /\ S(u) \cap Range(stacks) = {}
      BY <1>1
    <3> HIDE DEF S
    <3>1. QED
      BY <1>11, <1>12, <2>0
  <2>2. \A v, u \in Thread :
          /\ mine'[v] # None /\ mine'[v] = mine'[u] => v = u
          /\ mine'[v] \notin Range(surplus'[u])
          /\ v # u => Range(surplus'[v]) \cap Range(surplus'[u]) = {}
    BY <1>1, <1>2, <1>13 DEF OwnInv
  <2>3. Distinct(stacks') /\ Range(stacks') \subseteq Mapped'
    BY <1>1, <1>2, <1>11, <1>12 DEF OwnInv
  <2>4. QED
    BY <1>13, <2>1, <2>2, <2>3 DEF OwnInv
<1>15. RightKind'
  <2> SUFFICES ASSUME NEW u \in Thread, mine'[u] # None PROVE mapped'[mine'[u]] = want'[u]
    BY DEF RightKind
  <2>1. mine'[u] = mine[u] /\ mine[u] \in Addr /\ mine[u] # a
    BY <1>1, <1>2, <1>12 DEF TypeOK
  <2>2. QED
    BY <1>1, <1>2, <1>10, <2>1 DEF RightKind
<1>16. QED
  BY <1>6, <1>7, <1>9, <1>14, <1>15 DEF IInv

(* The list objects of the evicted stacks are given back.                  *)
LEMMA RehabilitateStep ==
    ASSUME IInv, NEW t \in Thread, Rehabilitate(t), older' \subseteq Addr \X Addr
    PROVE  IInv'
<1>1. /\ pc[t] = "rehabilitate" /\ surplus[t] = <<>>
      /\ objects' = objects + spare[t] /\ spare' = [spare EXCEPT ![t] = 0]
      /\ pc' = [pc EXCEPT ![t] = IF err[t] = None THEN "unmap" ELSE "idle"]
      /\ UNCHANGED <<stacks, count, pages, maxstacks, mapped, mine, want, surplus, err>>
  BY DEF Rehabilitate, Goto
<1>2. TypeOK /\ PcInv /\ OwnInv /\ RightKind /\ CountInv
  BY DEF IInv
<1>3. TypeOK'
  BY <1>1, <1>2 DEF TypeOK
<1>4. PcInv'
  BY <1>1, <1>2 DEF TypeOK, PcInv
<1>5. OwnInv' /\ RightKind'
  BY <1>1, <1>2 DEF OwnInv, RightKind, Mapped
<1>6. CountInv'
  <2>1. /\ IsFiniteSet(InTransit') /\ Cardinality(InTransit') \in Nat
        /\ Cardinality(InTransit) = Cardinality(InTransit') + spare[t]
    BY <1>1, <1>2, RehabilitateTransit DEF TypeOK, CountInv
  <2>2. objects \in Nat /\ count \in Nat /\ spare[t] \in Nat
    BY <1>2 DEF TypeOK
  <2>3. objects' + count' + Cardinality(InTransit') = objects + count + Cardinality(InTransit)
    BY <1>1, <2>1, <2>2
  <2>4. objects + count + Cardinality(InTransit) = pages * PerPage
    BY <1>2 DEF CountInv, ObjectsConserved
  <2>5. objects' + count' + Cardinality(InTransit') = pages' * PerPage
    BY <1>1, <2>3, <2>4
  <2>6. QED
    BY <1>1, <1>2, <2>1, <2>5 DEF CountInv, CacheBounded, ObjectsConserved
<1>7. QED
  BY <1>3, <1>4, <1>5, <1>6 DEF IInv

(* A step that changes nothing keeps the invariant.                        *)
LEMMA StutterStep == ASSUME IInv, UNCHANGED vars PROVE IInv'
<1>1. UNCHANGED <<stacks, count, objects, pages, maxstacks, mapped, mine, pc, want,
                  surplus, spare, err, older>>
  BY DEF vars, cache
<1>2. TypeOK'
  BY <1>1 DEF IInv, TypeOK
<1>3. PcInv' /\ OwnInv' /\ RightKind'
  BY <1>1 DEF IInv, PcInv, OwnInv, Mapped, RightKind
<1>4. CountInv'
  BY <1>1, CacheUnchanged DEF cache
<1>5. QED
  BY <1>2, <1>3, <1>4 DEF IInv

(* Every operation keeps the invariant, one lemma for each.                *)
LEMMA StepKeepsIInv == IInv /\ [Next]_vars => IInv'
<1> SUFFICES ASSUME IInv, Next PROVE IInv'
  BY StutterStep
<1>1. PICK t \in Thread : (FreeCached(t) /\ Released(mine[t])) \/ (Step(t) /\ UNCHANGED older)
  BY DEF Next
<1>2. CASE FreeCached(t) /\ Released(mine[t])
  <2>1. mine[t] \in Addr /\ older \subseteq Addr \X Addr
    BY <1>2 DEF FreeCached, IInv, TypeOK
  <2>2. older' \subseteq Addr \X Addr
    BY <1>2, <2>1 DEF Released
  <2>3. QED
    BY <1>2, <2>2, FreeCachedStep
<1>3. CASE Step(t) /\ UNCHANGED older
  <2>1. older' \subseteq Addr \X Addr
    BY <1>3 DEF IInv, TypeOK
  <2>2. QED
    BY <1>3, <2>1, AllocCachedStep, AllocMissStep, AllocMapStep, FreeUncachedStep, FreeUnmapStep,
       ClearStep, SetMaxStacksStep, RehabilitateUnmapStep, RehabilitateStep DEF Step
<1>4. QED
  BY <1>1, <1>2, <1>3

(* The inductive invariant holds of every reachable state.                 *)
LEMMA Invariance == Spec => []IInv
BY InitIInv, StepKeepsIInv, PTL DEF Spec

-----------------------------------------------------------------------------
(* Theorems                                                                *)

(* The cache never holds more stacks than cosmo_stacks_config.maxstacks    *)
(* allows, its count is right, and every list object of every page is      *)
(* free, in the cache, or on its way back through                          *)
(* cosmo_stack_rehabilitate(): none is lost and none is in two lists.      *)
THEOREM CacheConsistent == Spec => []CacheInv
<1>1. IInv => CacheInv
  BY DEF IInv, CountInv, CacheInv
<1>2. QED
  BY <1>1, Invariance, PTL

(* A thread that cosmo_stack_alloc() serves from the cache, or from        *)
(* mmap(), runs on a stack of the size and with the guard it asked for,    *)
(* whatever the others free, evict and unmap meanwhile.                    *)
THEOREM KindKept == Spec => []RightKind
<1>1. IInv => RightKind
  BY DEF IInv
<1>2. QED
  BY <1>1, Invariance, PTL

(* A stack in use, in the cache or on its way out is mapped, and is in no  *)
(* other such place: cosmo_stack_alloc() never hands out a stack that      *)
(* A stack in use, in the cache or on its way out is mapped, and is in no  *)
(* other such place: cosmo_stack_alloc() never hands out a stack that      *)
(* another thread runs on or is about to unmap.                            *)
THEOREM SingleOwner == Spec => []OneOwner
<1>1. ASSUME IInv, NEW a \in Addr
      PROVE  Cardinality(Places(a)) <= 1 /\ (Places(a) # {} => mapped[a] # None)
  <2> DEFINE P == Places(a)
  <2>0. a # None /\ stacks \in Seq(Addr) /\ DOMAIN stacks = 1..Len(stacks)
    BY <1>1, NoneAssumption DEF IInv, TypeOK
  <2>1. \A p : p \in P <=>
          \/ \E t \in Thread : p = <<"mine", t>> /\ mine[t] = a
          \/ \E i \in 1..Len(stacks) : p = <<"cache", i>> /\ stacks[i] = a
          \/ \E t \in Thread : p = <<"surplus", t>> /\ a \in Range(surplus[t])
    BY <2>0 DEF Places
  <2> HIDE DEF P
  <2>2. \A i \in 1..Len(stacks) : stacks[i] = a => a \in Range(stacks)
    BY <2>0, Elements
  <2>3. OwnInv
    BY <1>1 DEF IInv
  <2>4. ASSUME NEW p \in P PROVE mapped[a] # None
    <3>1. a \in Mapped
      BY <2>0, <2>1, <2>2, <2>3 DEF OwnInv
    <3>2. QED
      BY <3>1 DEF Mapped
  <2>5. ASSUME NEW p \in P, NEW q \in P PROVE p = q
    <3>1. CASE \E t \in Thread : p = <<"mine", t>> /\ mine[t] = a
      <4>1. PICK t \in Thread : p = <<"mine", t>> /\ mine[t] = a
        BY <3>1
      <4>2. a \notin Range(stacks) /\ \A u \in Thread : a \notin Range(surplus[u])
        BY <2>3, <4>1 DEF OwnInv
      <4>3. PICK u \in Thread : q = <<"mine", u>> /\ mine[u] = a
        BY <2>1, <2>2, <4>2
      <4>4. QED
        BY <2>0, <2>3, <4>1, <4>3 DEF OwnInv
    <3>2. CASE \E i \in 1..Len(stacks) : p = <<"cache", i>> /\ stacks[i] = a
      <4>1. PICK i \in 1..Len(stacks) : p = <<"cache", i>> /\ stacks[i] = a
        BY <3>2
      <4>2. \A u \in Thread : a # mine[u] /\ a \notin Range(surplus[u])
        BY <2>2, <2>3, <4>1 DEF OwnInv
      <4>3. PICK j \in 1..Len(stacks) : q = <<"cache", j>> /\ stacks[j] = a
        BY <2>1, <4>2
      <4>4. i = j
        BY <2>3, <4>1, <4>3 DEF OwnInv, Distinct
      <4>5. QED
        BY <4>1, <4>3, <4>4
    <3>3. CASE \E t \in Thread : p = <<"surplus", t>> /\ a \in Range(surplus[t])
      <4>1. PICK t \in Thread : p = <<"surplus", t>> /\ a \in Range(surplus[t])
        BY <3>3
      <4>2. a \notin Range(stacks) /\ \A u \in Thread : a # mine[u]
        BY <2>3, <4>1 DEF OwnInv
      <4>3. PICK u \in Thread : q = <<"surplus", u>> /\ a \in Range(surplus[u])
        BY <2>1, <2>2, <4>2
      <4>4. t = u
        BY <2>3, <4>1, <4>3 DEF OwnInv
      <4>5. QED
        BY <4>1, <4>3, <4>4
    <3>4. QED
      BY <2>1, <3>1, <3>2, <3>3
  <2>6. Cardinality(P) <= 1
    <3>1. CASE P = {}
      <4>1. Cardinality(P) = 0
        BY <3>1, FS_EmptySet, Zenon
      <4>2. QED
        BY <4>1
    <3>2. CASE P # {}
      <4>1. PICK p : p \in P
        BY <3>2
      <4>2. P = {p}
        BY <2>5, <4>1
      <4>3. Cardinality(P) = 1
        BY <4>2, FS_Singleton, Zenon
      <4>4. QED
        BY <4>3
    <3>3. QED
      BY <3>1, <3>2
  <2>7. QED
    BY <2>4, <2>6 DEF P
<1>2. IInv => OneOwner
  BY <1>1 DEF OneOwner
<1>3. QED
  BY <1>2, Invariance, PTL

(* The list of stacks is in the order of their release, the last first.    *)
Recency ==
    \A i, j \in 1..Len(stacks) : i < j => <<stacks[j], stacks[i]>> \in older

(* What EvictsOldest says of one step.                                     *)
LruStep ==
    \A a \in Range(stacks) \ Range(stacks') :
        (\A t \in Thread : mine'[t] # a) =>
            \A b \in Range(stacks') : <<a, b>> \in older'

(* cosmo_stack_decimate() keeps the order and evicts what is older.        *)
LEMMA DecimateOldest ==
    ASSUME stacks \in Seq(Addr), Distinct(stacks), count = Len(stacks), NEW n \in Nat, Recency
    PROVE  /\ \A i, j \in 1..Len(Kept(n)) : i < j => <<Kept(n)[j], Kept(n)[i]>> \in older
           /\ \A a \in Range(stacks) \ Range(Kept(n)) :
                \A b \in Range(Kept(n)) : <<a, b>> \in older
<1> DEFINE K == Kept(n)
<1>1. /\ K \in Seq(Addr) /\ Len(K) \in Nat /\ Len(K) <= Len(stacks)
      /\ \A k \in 1..Len(K) : K[k] = stacks[k]
  <2>1. /\ K \in Seq(Addr) /\ Len(K) \in Nat /\ Len(Evicted(n)) \in Nat
        /\ Len(K) + Len(Evicted(n)) = count /\ \A k \in 1..Len(K) : K[k] = stacks[k]
    BY Decimate
  <2> HIDE DEF K
  <2>2. QED
    BY <2>1
<1> HIDE DEF K
<1>2. \A k \in 1..Len(K) : k \in 1..Len(stacks)
  BY <1>1
<1>3. ASSUME NEW i \in 1..Len(K), NEW j \in 1..Len(K), i < j PROVE <<K[j], K[i]>> \in older
  BY <1>1, <1>2, <1>3 DEF Recency
<1>4. ASSUME NEW a \in Range(stacks) \ Range(K), NEW b \in Range(K) PROVE <<a, b>> \in older
  <2>1. PICK i \in 1..Len(stacks) : a = stacks[i]
    BY Elements
  <2>2. PICK k \in 1..Len(K) : b = K[k]
    BY <1>1, Elements
  <2>3. i \notin 1..Len(K)
    BY <1>1, <2>1, Elements
  <2>4. k < i /\ k \in 1..Len(stacks)
    BY <1>1, <2>3
  <2>5. QED
    BY <1>1, <2>1, <2>2, <2>4 DEF Recency
<1>5. QED
  BY <1>3, <1>4 DEF K

(* Each step keeps the list in the order of release, and evicts the oldest *)
(* stacks in that order.                                                   *)
LEMMA RecencyStep == ASSUME IInv, Recency, Next PROVE Recency' /\ LruStep
<1>1. /\ stacks \in Seq(Addr) /\ Distinct(stacks) /\ count = Len(stacks)
      /\ DOMAIN stacks = 1..Len(stacks) /\ maxstacks \in Nat /\ Len(stacks) \in Nat
  BY CacheAssumption DEF IInv, TypeOK, OwnInv, CountInv, ObjectsConserved
<1>2. PICK t \in Thread : (FreeCached(t) /\ Released(mine[t])) \/ (Step(t) /\ UNCHANGED older)
  BY DEF Next
<1>3. CASE stacks' = stacks /\ older' = older
  BY <1>3 DEF Recency, LruStep
<1>4. ASSUME NEW n \in Nat, stacks' = Kept(n), older' = older PROVE Recency' /\ LruStep
  BY <1>1, <1>4, DecimateOldest DEF Recency, LruStep
<1>5. CASE AllocCached(t) /\ UNCHANGED older
  <2>1. PICK k \in Kind : \E m \in Matching(k) :
          mine' = [mine EXCEPT ![t] = stacks[m]] /\ stacks' = RemoveAt(stacks, m)
    BY <1>5 DEF AllocCached
  <2>2. PICK m \in Matching(k) :
          mine' = [mine EXCEPT ![t] = stacks[m]] /\ stacks' = RemoveAt(stacks, m)
    BY <2>1
  <2>3. m \in 1..Len(stacks)
    BY <1>1 DEF Matching
  <2>4. /\ Range(stacks') = Range(stacks) \ {stacks[m]} /\ Len(stacks') = Len(stacks) - 1
        /\ \A j \in 1..Len(stacks') : stacks'[j] = IF j < m THEN stacks[j] ELSE stacks[j + 1]
    BY <1>1, <2>2, <2>3, Removed
  <2>5. mine'[t] = stacks[m]
    BY <2>2 DEF IInv, TypeOK
  <2>6. LruStep
    BY <2>4, <2>5 DEF LruStep
  <2>7. ASSUME NEW i \in 1..Len(stacks'), NEW j \in 1..Len(stacks'), i < j
        PROVE  <<stacks'[j], stacks'[i]>> \in older
    <3> DEFINE x == IF i < m THEN i ELSE i + 1
               y == IF j < m THEN j ELSE j + 1
    <3>1. x \in 1..Len(stacks) /\ y \in 1..Len(stacks) /\ x < y
      BY <1>1, <2>3, <2>4, <2>7
    <3>2. stacks'[i] = stacks[x] /\ stacks'[j] = stacks[y]
      BY <2>4
    <3> HIDE DEF x, y
    <3>3. QED
      BY <3>1, <3>2 DEF Recency
  <2>8. QED
    BY <1>5, <2>6, <2>7 DEF Recency
<1>6. CASE FreeCached(t) /\ Released(mine[t])
  <2>1. /\ stacks' = <<mine[t]>> \o Kept(maxstacks - 1)
        /\ mine[t] # None /\ maxstacks # 0
    BY <1>6 DEF FreeCached
  <2>2. mine[t] \in Addr /\ mine[t] \notin Range(stacks)
    BY <2>1 DEF IInv, TypeOK, OwnInv
  <2>3. maxstacks - 1 \in Nat
    BY <1>1, <2>1
  <2> DEFINE K == Kept(maxstacks - 1)
             a == mine[t]
  <2>4. /\ K \in Seq(Addr) /\ Distinct(K) /\ Len(K) \in Nat
        /\ Range(K) \union Range(Evicted(maxstacks - 1)) = Range(stacks)
    BY <1>1, <2>3, Decimate
  <2>5. /\ \A i, j \in 1..Len(K) : i < j => <<K[j], K[i]>> \in older
        /\ \A c \in Range(stacks) \ Range(K) : \A b \in Range(K) : <<c, b>> \in older
    BY <1>1, <2>3, DecimateOldest
  <2> HIDE DEF K, a
  <2>6. Range(K) \subseteq Range(stacks) /\ Range(stacks) \subseteq Addr /\ a \notin Range(stacks)
    BY <1>1, <2>2, <2>4, Elements DEF a
  <2>7. stacks' = <<a>> \o K /\ a \in Addr
    BY <2>1, <2>2 DEF K, a
  <2>8. /\ Range(stacks') = Range(K) \union {a} /\ Len(stacks') = Len(K) + 1
        /\ stacks'[1] = a /\ \A j \in 1..Len(K) : stacks'[j + 1] = K[j]
    BY <2>4, <2>6, <2>7, Cons1
  <2>9. /\ \A c \in Range(stacks) : <<c, a>> \in older'
        /\ \A c, b \in Range(stacks) : <<c, b>> \in older => <<c, b>> \in older'
    <3>1. older' = {p \in older : a \notin {p[1], p[2]}} \union ((Addr \ {a}) \X {a})
      BY <1>6 DEF Released, a
    <3>2. QED
      BY <2>6, <2>7, <3>1
  <2>10. LruStep
    <3> SUFFICES ASSUME NEW c \in Range(stacks) \ Range(stacks'), NEW b \in Range(stacks')
                 PROVE  <<c, b>> \in older'
      BY DEF LruStep
    <3>1. CASE b = a
      BY <2>9, <3>1
    <3>2. CASE b # a
      BY <2>5, <2>6, <2>8, <2>9, <3>2
    <3>3. QED
      BY <3>1, <3>2
  <2>11. ASSUME NEW i \in 1..Len(stacks'), NEW j \in 1..Len(stacks'), i < j
         PROVE  <<stacks'[j], stacks'[i]>> \in older'
    <3>1. j - 1 \in 1..Len(K) /\ stacks'[j] = K[j - 1]
      <4>1. j - 1 \in 1..Len(K) /\ (j - 1) + 1 = j
        BY <2>4, <2>8, <2>11
      <4>2. stacks'[(j - 1) + 1] = K[j - 1]
        BY <2>8, <4>1
      <4>3. QED
        BY <4>1, <4>2
    <3>2. K[j - 1] \in Range(stacks)
      BY <2>4, <2>6, <3>1, Elements
    <3>3. CASE i = 1
      BY <2>8, <2>9, <3>1, <3>2, <3>3
    <3>4. CASE i # 1
      <4>1. i - 1 \in 1..Len(K) /\ (i - 1) + 1 = i /\ i - 1 < j - 1
        BY <2>4, <2>8, <2>11, <3>4
      <4>2. stacks'[(i - 1) + 1] = K[i - 1]
        BY <2>8, <4>1
      <4>3. stacks'[i] = K[i - 1]
        BY <4>1, <4>2
      <4>4. K[i - 1] \in Range(stacks)
        BY <2>4, <2>6, <4>1, Elements
      <4>5. <<K[j - 1], K[i - 1]>> \in older
        BY <2>5, <3>1, <4>1
      <4>6. QED
        BY <2>9, <3>1, <3>2, <4>3, <4>4, <4>5
    <3>5. QED
      BY <3>3, <3>4
  <2>12. QED
    BY <2>10, <2>11 DEF Recency
<1>7. CASE FreeUncached(t) /\ UNCHANGED older
  <2>1. CASE maxstacks = 0
    BY <1>3, <1>7, <2>1 DEF FreeUncached
  <2>2. CASE maxstacks # 0
    <3>1. maxstacks - 1 \in Nat /\ stacks' = Kept(maxstacks - 1)
      BY <1>1, <1>7, <2>2 DEF FreeUncached
    <3>2. QED
      BY <1>4, <1>7, <3>1
  <2>3. QED
    BY <2>1, <2>2
<1>8. CASE Clear(t) /\ UNCHANGED older
  <2>1. stacks' = <<>> /\ Len(stacks') = 0 /\ Range(stacks') = {}
    BY <1>8, EmptyList DEF Clear
  <2>2. QED
    BY <2>1 DEF Recency, LruStep
<1>9. CASE SetMaxStacks(t) /\ UNCHANGED older
  <2>1. PICK n \in Limit : stacks' = Kept(n)
    BY <1>9 DEF SetMaxStacks
  <2>2. QED
    BY <1>4, <1>9, <2>1, CacheAssumption
<1>10. CASE /\ AllocMiss(t) \/ AllocMap(t) \/ FreeUnmap(t) \/ RehabilitateUnmap(t) \/ Rehabilitate(t)
            /\ UNCHANGED older
  BY <1>3, <1>10 DEF AllocMiss, AllocMap, FreeUnmap, RehabilitateUnmap, Rehabilitate, cache
<1>11. QED
  BY <1>2, <1>5, <1>6, <1>7, <1>8, <1>9, <1>10 DEF Step

(* The cache forgets the least recently used stacks first: a stack that is *)
(* evicted was released with cosmo_stack_free() before every stack that    *)
(* stays and before the one whose release evicts it.                       *)
THEOREM LeastRecentlyUsed == Spec => EvictsOldest
<1>1. Init => Recency
  <2>1. Init => Len(stacks) = 0
    BY EmptyList DEF Init
  <2>2. QED
    BY <2>1 DEF Recency
<1>2. IInv /\ Recency /\ [Next]_vars => Recency' /\ [LruStep]_vars
  <2> SUFFICES ASSUME IInv, Recency, [Next]_vars PROVE Recency' /\ [LruStep]_vars
    OBVIOUS
  <2>1. CASE Next
    BY <2>1, RecencyStep
  <2>2. CASE UNCHANGED vars
    BY <2>2 DEF vars, cache, Recency
  <2>3. QED
    BY <2>1, <2>2
<1>3. Spec => [][LruStep]_vars
  BY <1>1, <1>2, Invariance, PTL DEF Spec
<1>4. QED
  BY <1>3 DEF EvictsOldest, LruStep

=============================================================================
