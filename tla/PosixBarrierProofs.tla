------------------------- MODULE PosixBarrierProofs -------------------------
(***************************************************************************)
(* Proofs about PosixBarrier, for any finite set of threads, any count and *)
(* any limit on the counters: the barrier implements the abstract one, one *)
(* thread of every round is the serial one, the counters stay in range,    *)
(* and destroying waits for everyone inside.                               *)
(***************************************************************************)
EXTENDS PosixBarrier, FiniteSetTheorems, TLAPS

Rem(n) == n % Count

OverPc == {"over", "over_sleep", "over_reload"}
FullPc == {"reset_round", "reset_exited"}
ResetPc == FullPc \cup {"reset_entered"}
AddedPc == {"destroy_wait", "destroy_sleep", "destroy_reload", "destroyed"}

(* The threads that have a ticket of their own, and those whose ticket is  *)
(* the last of its round.                                                  *)
Inside == At(InsidePc)
Pending == At(InsidePc \cup LeavingPc)
Serial == {t \in Pending : Rem(ticket[t]) = 0}

(* No two threads inside have the same ticket, and the tickets of the      *)
(* round that is not complete are all held.                                *)
TicketInv ==
    /\ \A t \in Inside : ticket[t] \in 1..Last
    /\ \A t, u \in Inside : ticket[t] = ticket[u] => t = u
    /\ \A n \in (Complete(Last) + 1)..Last : \E t \in Inside : ticket[t] = n

(* Neither _round nor what has been read of it is beyond the complete      *)
(* rounds, and a thread that exits has seen its own round complete.        *)
RoundInv ==
    /\ round <= Complete(Last)
    /\ \A t \in Inside : pc[t] # "load" => seen[t] <= Complete(Last)
    /\ \A t \in Thread : pc[t] = "exit" => ticket[t] <= seen[t]

(* One thread resets the counters, when all tickets are used up or the     *)
(* barrier is being destroyed, and nobody is inside.                       *)
ResetInv ==
    /\ \A t, u \in At(ResetPc) : t = u
    /\ At(ResetPc) # {} => Inside = {} /\ (At(AddedPc) = {} => entered >= Limit)
    /\ At(FullPc) # {} => exited = Limit
    /\ At({"reset_exited", "reset_entered"}) # {} => round = 0
    /\ At({"reset_entered"}) # {} => exited = 0

(* _exited counts who has been inside; pthread_barrier_destroy() adds what *)
(* is missing from the limit.                                              *)
ExitInv ==
    At({"reset_entered"}) = {} =>
        IF At(AddedPc) = {} THEN exited + Cardinality(Inside) = Last
        ELSE exited + Cardinality(Inside) = Limit \/ (entered = 0 /\ exited = 0)

(* A ticket beyond the limit belongs to a thread that waits for the reset. *)
OverInv == entered <= Limit + Cardinality(At(OverPc))

(* Every ticket that was drawn has returned or will.                       *)
BalanceInv == balance = Rem(Last) - Cardinality(Pending) + Count * Cardinality(Serial)

(* Nobody enters a barrier that is destroyed.                              *)
DestroyInv ==
    /\ \A t, u \in At(DestroyPc) : t = u
    /\ At(DestroyPc) # {} =>
          At(EnteringPc) = {} /\ \A t \in Inside : ticket[t] <= Complete(Last)
    /\ \A t \in Thread : pc[t] = "destroy_add" =>
          ticket[t] = entered \/ (entered = 0 /\ ticket[t] = Limit)
    /\ At({"destroyed"}) # {} => Inside = {}

IInv ==
    /\ TypeOK /\ TicketInv /\ RoundInv /\ ResetInv /\ ExitInv
    /\ OverInv /\ BalanceInv /\ DestroyInv


-----------------------------------------------------------------------------
(* Rounds                                                                  *)

(* Count is positive, and so is the limit.                                 *)
LEMMA Division ==
    ASSUME NEW n \in Nat
    PROVE  n \div Count \in Int /\ Rem(n) \in 0..(Count - 1)
           /\ n = Count * (n \div Count) + Rem(n)
BY CountAssumption DEF Rem

(* A larger factor gives a product that is larger by Count at least.       *)
LEMMA Times ==
    ASSUME NEW a \in Int, NEW b \in Int, a < b
    PROVE  Count * a \in Int /\ Count * b \in Int /\ Count * a + Count <= Count * b
<1>1. PICK d \in Nat : b = a + 1 + d
  <2>1. b - a - 1 \in Nat /\ b = a + 1 + (b - a - 1)
    OBVIOUS
  <2> QED  BY <2>1
<1>2. Count * b = Count * a + Count + Count * d
  BY <1>1, CountAssumption
<1>3. Count * d \in Nat
  BY CountAssumption
<1>4. Count * a \in Int
  BY CountAssumption
<1> QED  BY <1>2, <1>3, <1>4, CountAssumption

(* Quotient and remainder are unique.                                      *)
LEMMA RemUnique ==
    ASSUME NEW q \in Int, NEW r \in 0..(Count - 1), NEW n \in Nat, n = Count * q + r
    PROVE  Rem(n) = r
<1>1. PICK p \in Int : n = Count * p + Rem(n)
  BY Division
<1>2. PICK s \in 0..(Count - 1) : s = Rem(n)
  BY Division
<1>3. PICK x \in Int : x = Count * p
  BY CountAssumption
<1>4. PICK y \in Int : y = Count * q
  BY CountAssumption
<1>5. x + s = y + r
  BY <1>1, <1>2, <1>3, <1>4
<1>6. CASE p < q
  <2>1. x + Count <= y
    BY <1>3, <1>4, <1>6, Times
  <2> QED  BY <1>5, <2>1, CountAssumption
<1>7. CASE q < p
  <2>1. y + Count <= x
    BY <1>3, <1>4, <1>7, Times
  <2> QED  BY <1>5, <2>1, CountAssumption
<1>8. CASE p = q
  BY <1>2, <1>3, <1>4, <1>5, <1>8
<1> QED  BY <1>6, <1>7, <1>8

(* Where in its round the next ticket is.                                  *)
LEMMA RemNext ==
    ASSUME NEW n \in Nat
    PROVE  Rem(n + 1) = IF Rem(n) + 1 = Count THEN 0 ELSE Rem(n) + 1
<1>1. PICK p \in Int : n = Count * p + Rem(n)
  BY Division
<1>2. PICK s \in 0..(Count - 1) : s = Rem(n)
  BY Division
<1>3. CASE s + 1 = Count
  <2>0. PICK x \in Int : x = Count * p
    BY CountAssumption
  <2>4. PICK y \in Int : y = Count * (p + 1) /\ y = x + Count
    BY <2>0, CountAssumption
  <2>5. n = x + s
    BY <1>1, <1>2, <2>0
  <2>6. n + 1 = y + 0
    BY <1>3, <2>4, <2>5, CountAssumption
  <2>1. n + 1 = Count * (p + 1) + 0
    BY <2>4, <2>6, Zenon
  <2>2. p + 1 \in Int /\ 0 \in 0..(Count - 1) /\ n + 1 \in Nat
    BY CountAssumption
  <2>3. Rem(n + 1) = 0
    BY <2>1, <2>2, RemUnique
  <2> QED  BY <1>2, <1>3, <2>3
<1>4. CASE s + 1 # Count
  <2>0. PICK x \in Int : x = Count * p
    BY CountAssumption
  <2>4. n + 1 = x + (s + 1)
    BY <1>1, <1>2, <2>0
  <2>1. n + 1 = Count * p + (s + 1)
    BY <2>0, <2>4, Zenon
  <2>2. s + 1 \in 0..(Count - 1) /\ n + 1 \in Nat
    BY <1>4, CountAssumption
  <2>3. Rem(n + 1) = s + 1
    BY <2>1, <2>2, RemUnique
  <2> QED  BY <1>2, <1>4, <2>3
<1> QED  BY <1>3, <1>4

(* The last ticket of the complete rounds.                                 *)
LEMMA CompleteFacts ==
    ASSUME NEW n \in Nat
    PROVE  /\ Rem(n) \in 0..(Count - 1)
           /\ Complete(n) = n - Rem(n) /\ Complete(n) \in 0..n
           /\ Rem(Complete(n)) = 0
<1>1. PICK p \in Int : n = Count * p + Rem(n)
  BY Division
<1>2. PICK s \in 0..(Count - 1) : s = Rem(n)
  BY Division
<1>3. PICK x \in Int : x = Count * p
  BY CountAssumption
<1>4. Complete(n) = n - s
  BY <1>2 DEF Complete, Rem
<1>5. x >= 0
  <2>1. CASE p < 0
    <3>1. x + Count <= Count * 0
      BY <1>3, <2>1, Times
    <3>2. x + Count <= 0
      BY <3>1, CountAssumption
    <3>3. n = x + s
      BY <1>1, <1>2, <1>3
    <3> QED  BY <3>2, <3>3, CountAssumption
  <2>2. CASE p >= 0
    BY <1>3, <2>2, CountAssumption
  <2> QED  BY <2>1, <2>2
<1>6. n = x + s
  BY <1>1, <1>2, <1>3
<1>7. Complete(n) = x /\ Complete(n) \in 0..n /\ Complete(n) \in Nat
  BY <1>4, <1>5, <1>6, CountAssumption
<1>8. Complete(n) = Count * p + 0 /\ 0 \in 0..(Count - 1)
  BY <1>3, <1>7, CountAssumption
<1>9. Rem(Complete(n)) = 0
  BY <1>7, <1>8, RemUnique
<1> QED  BY <1>2, <1>4, <1>7, <1>9

(* More tickets complete no fewer rounds.                                  *)
LEMMA CompleteMonotone ==
    ASSUME NEW m \in Nat, NEW n \in Nat, m <= n
    PROVE  Complete(m) <= Complete(n)
<1>1. PICK p \in Int : m = Count * p + Rem(m)
  BY Division
<1>2. PICK q \in Int : n = Count * q + Rem(n)
  BY Division
<1>3. PICK x \in Int : x = Count * p
  BY CountAssumption
<1>4. PICK y \in Int : y = Count * q
  BY CountAssumption
<1>5. PICK r \in 0..(Count - 1) : r = Rem(m)
  BY Division
<1>6. PICK s \in 0..(Count - 1) : s = Rem(n)
  BY Division
<1>7. m = x + r /\ n = y + s
  BY <1>1, <1>2, <1>3, <1>4, <1>5, <1>6
<1>8. Complete(m) = m - r /\ Complete(n) = n - s
  BY <1>5, <1>6, CompleteFacts
<1>9. x <= y
  <2>1. CASE q < p
    <3>1. y + Count <= x
      BY <1>3, <1>4, <2>1, Times
    <3> QED  BY <1>7, <3>1, CountAssumption
  <2>2. CASE p < q
    <3>1. x + Count <= y
      BY <1>3, <1>4, <2>2, Times
    <3> QED  BY <3>1, CountAssumption
  <2>3. CASE p = q
    BY <1>3, <1>4, <2>3
  <2> QED  BY <2>1, <2>2, <2>3
<1> QED  BY <1>7, <1>8, <1>9

(* What the next ticket completes.                                         *)
LEMMA CompleteNext ==
    ASSUME NEW n \in Nat
    PROVE  /\ Rem(n) + 1 = Count => Rem(n + 1) = 0 /\ Complete(n + 1) = n + 1
           /\ Rem(n) + 1 # Count => Rem(n + 1) = Rem(n) + 1 /\ Complete(n + 1) = Complete(n)
<1>1. n + 1 \in Nat /\ Complete(n + 1) = (n + 1) - Rem(n + 1) /\ Complete(n) = n - Rem(n)
  BY CompleteFacts
<1>2. PICK s \in 0..(Count - 1) : s = Rem(n)
  BY Division
<1> QED  BY <1>1, <1>2, RemNext, CountAssumption

(* The limit is the end of a round.                                        *)
LEMMA LimitFacts ==
    /\ Limit \in Nat /\ Limit > 0 /\ Rem(Limit) = 0 /\ Complete(Limit) = Limit
    /\ Rem(0) = 0 /\ Complete(0) = 0
<1>1. Limit = Complete(BARRIER_MAX)
  BY DEF Limit, Complete
<1>2. Limit \in Nat /\ Rem(Limit) = 0
  BY <1>1, CompleteFacts, CountAssumption
<1>3. Limit = BARRIER_MAX - Rem(BARRIER_MAX) /\ Rem(BARRIER_MAX) \in 0..(Count - 1)
  BY <1>1, CompleteFacts, CountAssumption
<1>4. Limit > 0
  BY <1>3, CountAssumption
<1>5. Complete(Limit) = Limit
  BY <1>2, CompleteFacts
<1>6. 0 = Count * 0 + 0 /\ 0 \in 0..(Count - 1)
  BY CountAssumption
<1>7. Rem(0) = 0
  BY <1>6, RemUnique
<1>8. Complete(0) = 0
  BY <1>7, CompleteFacts
<1> QED  BY <1>2, <1>4, <1>5, <1>7, <1>8

-----------------------------------------------------------------------------
(* States                                                                  *)

(* The last valid ticket.                                                  *)
LEMMA LastFacts ==
    ASSUME TypeOK
    PROVE  /\ entered \in Nat /\ Last \in Nat /\ Last <= Limit /\ Limit \in Nat
           /\ entered <= Limit => Last = entered
           /\ entered >= Limit => Last = Limit
           /\ Rem(Last) \in 0..(Count - 1) /\ Count \in Nat
           /\ Complete(Last) = Last - Rem(Last) /\ Complete(Last) \in 0..Last
<1>1. Cardinality(Thread) \in Nat
  BY CountAssumption, FS_CardinalityType
<1>2. entered \in Nat
  BY <1>1, LimitFacts DEF TypeOK
<1>3. Last \in Nat /\ Last <= Limit
  BY <1>2, LimitFacts DEF Last
<1> QED  BY <1>2, <1>3, LimitFacts, CompleteFacts, CountAssumption DEF Last

(* Sets of threads are finite.                                             *)
LEMMA AtFinite ==
    ASSUME NEW P
    PROVE  /\ IsFiniteSet(At(P)) /\ Cardinality(At(P)) \in Nat
           /\ Cardinality(At(P)) <= Cardinality(Thread) /\ Cardinality(Thread) \in Nat
           /\ Cardinality(At(P)) = 0 <=> At(P) = {}
<1>1. At(P) \subseteq Thread
  BY DEF At
<1> QED
  BY <1>1, FS_Subset, FS_CardinalityType, FS_EmptySet, CountAssumption

(* When no thread waits for its round, all rounds are complete.            *)
LEMMA AllComplete ==
    ASSUME TypeOK, TicketInv, \A t \in Inside : ticket[t] <= Complete(Last)
    PROVE  Rem(Last) = 0 /\ Complete(Last) = Last
<1>1. Last \in Nat /\ Rem(Last) \in 0..(Count - 1) /\ Complete(Last) = Last - Rem(Last) /\ Count \in Nat
  BY LastFacts
<1>2. CASE Rem(Last) # 0
  <2>1. Complete(Last) \in Int /\ Complete(Last) < Last
    BY <1>1, <1>2
  <2>2. Last \in (Complete(Last) + 1)..Last
    BY <1>1, <2>1
  <2>3. PICK t \in Inside : ticket[t] = Last
    BY <2>2 DEF TicketInv
  <2> QED  BY <2>1, <2>3, <1>1
<1> QED  BY <1>1, <1>2

(* The threads of the round that is not complete, and those of the others. *)
Waiting == {t \in Inside : ticket[t] > Complete(Last)}
Released == {t \in Inside : ticket[t] <= Complete(Last)}

(* As many threads wait as tickets of their round have been drawn.         *)
LEMMA WaitingCount ==
    ASSUME TypeOK, TicketInv
    PROVE  Cardinality(Waiting) = Rem(Last)
<1> DEFINE D == (Complete(Last) + 1)..Last
<1>1. Last \in Nat /\ Rem(Last) \in 0..(Count - 1) /\ Complete(Last) = Last - Rem(Last)
      /\ Complete(Last) \in 0..Last /\ Count \in Nat
  BY LastFacts
<1>2. \A t \in Waiting : ticket[t] \in D
  BY <1>1 DEF Waiting, TicketInv
<1> DEFINE f == [t \in Waiting |-> ticket[t]]
<1>3. f \in Bijection(Waiting, D)
  <2>1. f \in [Waiting -> D]
    BY <1>2
  <2>2. \A t, u \in Waiting : f[t] = f[u] => t = u
    BY DEF Waiting, TicketInv
  <2>3. ASSUME NEW n \in D PROVE \E t \in Waiting : f[t] = n
    <3>1. PICK t \in Inside : ticket[t] = n
      BY DEF TicketInv
    <3>2. t \in Waiting
      BY <1>1, <3>1 DEF Waiting
    <3> QED  BY <3>1, <3>2
  <2>4. f \in Injection(Waiting, D)
    BY <2>1, <2>2 DEF Injection, IsInjective
  <2>5. f \in Surjection(Waiting, D)
    BY <2>1, <2>3 DEF Surjection
  <2> HIDE DEF f, D
  <2> QED  BY <2>4, <2>5 DEF Bijection
<1>4. Complete(Last) + 1 \in Int /\ Last \in Int
  BY <1>1
<1>5. IsFiniteSet(D) /\ Cardinality(D) = IF Complete(Last) + 1 > Last THEN 0 ELSE Last - (Complete(Last) + 1) + 1
  BY <1>4, FS_Interval
<1>6. Cardinality(D) = Rem(Last)
  BY <1>1, <1>5
<1>7. Waiting \subseteq Thread /\ IsFiniteSet(Waiting)
  BY FS_Subset, CountAssumption DEF Waiting, Inside, At
<1>8. ExistsBijection(Waiting, D)
  BY <1>3 DEF ExistsBijection
<1> HIDE DEF D
<1>9. Cardinality(Waiting) = Cardinality(D)
  BY <1>5, <1>7, <1>8, FS_Bijection
<1> QED  BY <1>6, <1>9

-----------------------------------------------------------------------------
(* Steps within a class of positions                                       *)

(* What the invariant tells of a position.                                 *)
SameClass(p, q) ==
    /\ p \in InsidePc <=> q \in InsidePc
    /\ p \in LeavingPc <=> q \in LeavingPc
    /\ p \in FullPc <=> q \in FullPc
    /\ p = "reset_entered" <=> q = "reset_entered"
    /\ p \in OverPc <=> q \in OverPc
    /\ p \in EnteringPc <=> q \in EnteringPc
    /\ p \in DestroyPc <=> q \in DestroyPc
    /\ p \in AddedPc <=> q \in AddedPc
    /\ p = "destroy_add" <=> q = "destroy_add"
    /\ p = "destroyed" <=> q = "destroyed"

(* TicketInv is about the threads inside.                                  *)
LEMMA TicketFrame ==
    ASSUME TicketInv, Inside' = Inside, \A u \in Inside : ticket'[u] = ticket[u], Last' = Last
    PROVE  TicketInv'
BY DEF TicketInv, Complete

(* The serial threads are known by their tickets.                          *)
LEMMA SerialFrame ==
    ASSUME Pending' = Pending, \A u \in Pending : ticket'[u] = ticket[u]
    PROVE  Serial' = Serial
BY DEF Serial, Rem

(* A step between positions of the same class that leaves the counters     *)
(* alone, and the tickets of those who use them.                           *)
LEMMA Quiet ==
    ASSUME IInv, TypeOK', RoundInv',
           UNCHANGED <<entered, exited, balance>>,
           \A u \in Thread : SameClass(pc[u], pc'[u]),
           \A u \in Thread : pc[u] \in InsidePc \cup LeavingPc \cup {"destroy_add"} =>
                                 ticket'[u] = ticket[u],
           At({"reset_exited", "reset_entered"})' # {} => round' = 0
    PROVE  IInv'
<1>1. /\ Inside' = Inside /\ At(LeavingPc)' = At(LeavingPc)
      /\ At(FullPc)' = At(FullPc) /\ At({"reset_entered"})' = At({"reset_entered"})
      /\ At(OverPc)' = At(OverPc) /\ At(EnteringPc)' = At(EnteringPc)
      /\ At(DestroyPc)' = At(DestroyPc) /\ At(AddedPc)' = At(AddedPc)
      /\ At({"destroyed"})' = At({"destroyed"}) /\ At({"destroy_add"})' = At({"destroy_add"})
  BY DEF SameClass, At, Inside
<1>2. Pending' = Pending /\ At(ResetPc)' = At(ResetPc)
  BY DEF SameClass, At, Pending, ResetPc
<1>3. Last' = Last
  BY DEF Last
<1>4. \A u \in Pending : ticket'[u] = ticket[u]
  BY DEF Pending, At
<1>5. \A u \in Inside : ticket'[u] = ticket[u]
  BY DEF Inside, At
<1>6. TicketInv'
  BY <1>1, <1>3, <1>5, TicketFrame DEF IInv
<1>7. ResetInv'
  BY <1>1, <1>2 DEF IInv, ResetInv
<1>8. ExitInv'
  BY <1>1, <1>3 DEF IInv, ExitInv
<1>9. OverInv'
  BY <1>1 DEF IInv, OverInv
<1>10. BalanceInv'
  <2>1. Serial' = Serial
    BY <1>2, <1>4, SerialFrame
  <2> QED  BY <1>2, <1>3, <2>1 DEF IInv, BalanceInv, Rem
<1>11. DestroyInv'
  <2>1. \A u \in Thread : pc'[u] = "destroy_add" => pc[u] = "destroy_add" /\ ticket'[u] = ticket[u]
    BY DEF SameClass
  <2>2. Complete(Last)' = Complete(Last)
    BY <1>3 DEF Complete
  <2> QED  BY <1>1, <1>5, <2>1, <2>2 DEF IInv, DestroyInv
<1> QED  BY <1>6, <1>7, <1>8, <1>9, <1>10, <1>11 DEF IInv

(* RoundInv while _round and what has been read of it stay.                *)
LEMMA RoundFrame ==
    ASSUME RoundInv, UNCHANGED <<entered, round, seen>>,
           \A u \in Thread : pc'[u] \in InsidePc \ {"load"} => pc[u] \in InsidePc \ {"load"},
           \A u \in Thread : pc'[u] = "exit" => ticket'[u] <= seen[u]
    PROVE  RoundInv'
<1>1. Last' = Last /\ Complete(Last)' = Complete(Last)
  BY DEF Last, Complete
<1>2. \A u \in Inside' : pc'[u] # "load" => u \in Inside /\ pc[u] # "load"
  BY DEF Inside, At
<1>3. \A u \in Inside' : pc'[u] # "load" => seen'[u] <= Complete(Last)'
  BY <1>1, <1>2 DEF RoundInv
<1> QED  BY <1>1, <1>3 DEF RoundInv

Pc == OutsidePc \cup InsidePc \cup LeavingPc \cup EnteringPc \cup DestroyPc

(* A step that only moves threads, within their classes.                   *)
LEMMA QuietMove ==
    ASSUME IInv, UNCHANGED <<entered, exited, round, ticket, seen, balance>>,
           pc' \in [Thread -> Pc],
           \A u \in Thread :
               /\ SameClass(pc[u], pc'[u])
               /\ pc'[u] \in {"reset_exited", "reset_entered"} =>
                      pc[u] \in {"reset_exited", "reset_entered"}
               /\ pc'[u] \in InsidePc \ {"load"} => pc[u] \in InsidePc \ {"load"}
               /\ pc'[u] = "exit" => ticket[u] <= seen[u]
    PROVE  IInv'
<1>1. TypeOK'
  BY DEF IInv, TypeOK, Pc
<1>2. RoundInv'
  BY RoundFrame DEF IInv
<1>3. At({"reset_exited", "reset_entered"})' # {} => round' = 0
  BY DEF IInv, ResetInv, At
<1> QED  BY <1>1, <1>2, <1>3, Quiet

(* Sleepers that are woken stay in their class.                            *)
LEMMA WokenClass ==
    ASSUME NEW p \in DOMAIN AfterSleep
    PROVE  /\ AfterSleep[p] \in Pc /\ SameClass(p, AfterSleep[p])
           /\ AfterSleep[p] \notin {"reset_exited", "reset_entered", "exit", "load"}
           /\ AfterSleep[p] \in InsidePc => p \in InsidePc \ {"load"}
<1>1. p \in {"sleep", "over_sleep", "destroy_sleep"}
  BY DEF AfterSleep
<1>2. CASE p = "sleep"
  BY <1>2 DEF AfterSleep, Pc, SameClass, InsidePc, LeavingPc, EnteringPc, DestroyPc, OverPc,
              FullPc, AddedPc
<1>3. CASE p = "over_sleep"
  BY <1>3 DEF AfterSleep, Pc, SameClass, InsidePc, LeavingPc, EnteringPc, DestroyPc, OverPc,
              FullPc, AddedPc
<1>4. CASE p = "destroy_sleep"
  BY <1>4 DEF AfterSleep, Pc, SameClass, InsidePc, LeavingPc, EnteringPc, DestroyPc, OverPc,
              FullPc, AddedPc
<1> QED  BY <1>1, <1>2, <1>3, <1>4

(* Going to sleep, or not, stays in the class.                             *)
LEMMA WaitKeeps ==
    ASSUME IInv, NEW t \in Thread, OverWait(t) \/ RoundWait(t) \/ DestroyWait(t)
    PROVE  IInv'
<1>1. UNCHANGED <<entered, exited, round, ticket, seen, balance>>
  BY DEF OverWait, RoundWait, DestroyWait
<1>2. PICK l : /\ pc' = [pc EXCEPT ![t] = l]
               /\ \/ pc[t] = "over" /\ l \in {"over_sleep", "over_reload"}
                  \/ pc[t] = "wait" /\ l \in {"sleep", "reload"}
                  \/ pc[t] = "destroy_wait" /\ l \in {"destroy_sleep", "destroy_reload"}
  BY DEF OverWait, RoundWait, DestroyWait, FutexWait, Goto, AfterSleep
<1>3. SameClass(pc[t], l) /\ l \in Pc /\ l \notin {"reset_exited", "reset_entered", "exit"}
      /\ (l \in InsidePc => pc[t] \in InsidePc \ {"load"})
  BY <1>2 DEF Pc, SameClass, InsidePc, LeavingPc, EnteringPc, DestroyPc, OverPc, FullPc, AddedPc
<1>4. pc \in [Thread -> Pc] /\ \A u \in Thread : pc[u] = "exit" => ticket[u] <= seen[u]
  BY DEF IInv, TypeOK, Pc, RoundInv
<1>5. pc' \in [Thread -> Pc]
  BY <1>2, <1>3, <1>4
<1>6. ASSUME NEW u \in Thread
      PROVE  /\ SameClass(pc[u], pc'[u])
             /\ pc'[u] \in {"reset_exited", "reset_entered"} =>
                    pc[u] \in {"reset_exited", "reset_entered"}
             /\ pc'[u] \in InsidePc \ {"load"} => pc[u] \in InsidePc \ {"load"}
             /\ pc'[u] = "exit" => ticket[u] <= seen[u]
  <2>1. CASE u = t
    <3>1. pc'[u] = l
      BY <1>2, <1>4, <2>1
    <3> QED  BY <1>3, <2>1, <3>1
  <2>2. CASE u # t
    <3>1. pc'[u] = pc[u]
      BY <1>2, <1>4, <2>2
    <3> QED  BY <1>4, <3>1 DEF SameClass
  <2> QED  BY <2>1, <2>2
<1> QED  BY <1>1, <1>5, <1>6, QuietMove

LEMMA FutexInterruptedKeeps ==
    ASSUME IInv, NEW t \in Thread, FutexInterrupted(t)
    PROVE  IInv'
<1>1. UNCHANGED <<entered, exited, round, ticket, seen, balance>> /\ pc[t] \in DOMAIN AfterSleep
      /\ pc' = [pc EXCEPT ![t] = AfterSleep[pc[t]]]
  BY DEF FutexInterrupted, Goto
<1>2. PICK l : l = AfterSleep[pc[t]]
  OBVIOUS
<1>3. SameClass(pc[t], l) /\ l \in Pc /\ l \notin {"reset_exited", "reset_entered", "exit"}
      /\ (l \in InsidePc => pc[t] \in InsidePc \ {"load"})
  BY <1>1, <1>2, WokenClass
<1>4. pc \in [Thread -> Pc] /\ \A u \in Thread : pc[u] = "exit" => ticket[u] <= seen[u]
  BY DEF IInv, TypeOK, Pc, RoundInv
<1>5. pc' \in [Thread -> Pc]
  BY <1>1, <1>2, <1>3, <1>4
<1>6. ASSUME NEW u \in Thread
      PROVE  /\ SameClass(pc[u], pc'[u])
             /\ pc'[u] \in {"reset_exited", "reset_entered"} =>
                    pc[u] \in {"reset_exited", "reset_entered"}
             /\ pc'[u] \in InsidePc \ {"load"} => pc[u] \in InsidePc \ {"load"}
             /\ pc'[u] = "exit" => ticket[u] <= seen[u]
  <2>1. CASE u = t
    <3>1. pc'[u] = l
      BY <1>1, <1>2, <1>4, <2>1
    <3> QED  BY <1>3, <2>1, <3>1
  <2>2. CASE u # t
    <3>1. pc'[u] = pc[u]
      BY <1>1, <1>4, <2>2
    <3> QED  BY <1>4, <3>1 DEF SameClass
  <2> QED  BY <2>1, <2>2
<1> QED  BY <1>1, <1>5, <1>6, QuietMove

(* A wake moves the caller and every sleeper of the futex.                 *)
LEMMA WakeKeeps ==
    ASSUME IInv, NEW t \in Thread, WakeRound(t) \/ ResetWake(t)
    PROVE  IInv'
<1>1. UNCHANGED <<entered, exited, round, ticket, seen, balance>>
  BY DEF WakeRound, ResetWake
<1>4. pc \in [Thread -> Pc] /\ \A u \in Thread : pc[u] = "exit" => ticket[u] <= seen[u]
  BY DEF IInv, TypeOK, Pc, RoundInv
<1>2. PICK l, X : /\ pc' = [u \in Thread |-> IF u = t THEN l
                                ELSE IF pc[u] \in X THEN AfterSleep[pc[u]] ELSE pc[u]]
                  /\ X \subseteq DOMAIN AfterSleep
                  /\ \/ pc[t] = "wake" /\ l \in {"exit", "wait"} /\ (l = "exit" => ticket[t] <= seen[t])
                     \/ pc[t] = "reset_wake" /\ l = "result"
  <2>1. CASE WakeRound(t)
    <3> DEFINE l == IF ticket[t] <= seen[t] THEN "exit" ELSE "wait"
    <3>1. pc[t] = "wake" /\ l \in {"exit", "wait"} /\ (l = "exit" => ticket[t] <= seen[t])
      BY <2>1 DEF WakeRound
    <3>2. pc' = [u \in Thread |-> IF u = t THEN l
                                  ELSE IF pc[u] \in {"sleep"} THEN AfterSleep[pc[u]] ELSE pc[u]]
      BY <2>1, Zenon DEF WakeRound, FutexWake
    <3>3. {"sleep"} \subseteq DOMAIN AfterSleep
      BY DEF AfterSleep
    <3> HIDE DEF l
    <3> QED  BY <3>1, <3>2, <3>3, Zenon
  <2>2. CASE ResetWake(t)
    <3>1. pc[t] = "reset_wake"
      BY <2>2 DEF ResetWake
    <3>2. pc' = [u \in Thread |-> IF u = t THEN "result"
                 ELSE IF pc[u] \in {"over_sleep", "destroy_sleep"} THEN AfterSleep[pc[u]] ELSE pc[u]]
      BY <2>2, Zenon DEF ResetWake, FutexWake
    <3>3. {"over_sleep", "destroy_sleep"} \subseteq DOMAIN AfterSleep
      BY DEF AfterSleep
    <3> QED  BY <3>1, <3>2, <3>3, Zenon
  <2> QED  BY <2>1, <2>2
<1>3. SameClass(pc[t], l) /\ l \in Pc /\ l \notin {"reset_exited", "reset_entered"}
      /\ (l = "exit" => ticket[t] <= seen[t])
      /\ (l \in InsidePc => pc[t] \in InsidePc \ {"load"})
  BY <1>2 DEF Pc, SameClass, InsidePc, LeavingPc, EnteringPc, DestroyPc, OverPc, FullPc, AddedPc
<1>6. ASSUME NEW u \in Thread
      PROVE  /\ pc'[u] \in Pc
             /\ SameClass(pc[u], pc'[u])
             /\ pc'[u] \in {"reset_exited", "reset_entered"} =>
                    pc[u] \in {"reset_exited", "reset_entered"}
             /\ pc'[u] \in InsidePc \ {"load"} => pc[u] \in InsidePc \ {"load"}
             /\ pc'[u] = "exit" => ticket[u] <= seen[u]
  <2>1. CASE u = t
    <3>1. pc'[u] = l
      BY <1>2, <2>1
    <3> QED  BY <1>3, <2>1, <3>1
  <2>2. CASE u # t /\ pc[u] \in X
    <3>1. pc'[u] = AfterSleep[pc[u]] /\ pc[u] \in DOMAIN AfterSleep
      BY <1>2, <2>2
    <3> QED  BY <3>1, WokenClass
  <2>3. CASE u # t /\ pc[u] \notin X
    <3>1. pc'[u] = pc[u]
      BY <1>2, <2>3
    <3> QED  BY <1>4, <3>1 DEF SameClass
  <2> QED  BY <2>1, <2>2, <2>3
<1>5. pc' \in [Thread -> Pc]
  <2>1. pc' = [u \in Thread |-> pc'[u]]
    BY <1>2
  <2> QED  BY <2>1, <1>6
<1> QED  BY <1>1, <1>5, <1>6, QuietMove

(* A thread inside reads _round, or moves it on.                           *)
LEMMA InsideStep ==
    ASSUME IInv, NEW t \in Thread, NEW l \in InsidePc \ {"load"}, NEW r \in Nat,
           pc[t] \in InsidePc, pc' = [pc EXCEPT ![t] = l],
           seen' = [seen EXCEPT ![t] = r], r <= Complete(Last),
           round' \in Nat, round' <= Complete(Last),
           l = "exit" => ticket[t] <= r,
           UNCHANGED <<entered, exited, ticket, balance>>
    PROVE  IInv'
<1>1. pc \in [Thread -> Pc] /\ seen \in [Thread -> 0..Limit]
  BY DEF IInv, TypeOK, Pc
<1>2. Complete(Last) \in Nat /\ Last \in Nat /\ Limit \in Nat /\ Complete(Last) <= Limit
  <2>1. Last \in Nat /\ Limit \in Nat /\ Last <= Limit /\ Complete(Last) \in 0..Last
    BY LastFacts DEF IInv
  <2> QED  BY <2>1
<1>3. l \in Pc
  BY DEF Pc
<1>4. TypeOK'
  <2>1. pc' \in [Thread -> Pc]
    BY <1>1, <1>3
  <2>2. r \in 0..Limit /\ round' \in 0..Limit
    BY <1>2
  <2>3. seen' \in [Thread -> 0..Limit]
    BY <1>1, <2>2
  <2> QED  BY <2>1, <2>2, <2>3 DEF IInv, TypeOK, Pc
<1>5. \A u \in Thread : pc'[u] = (IF u = t THEN l ELSE pc[u]) /\ seen'[u] = IF u = t THEN r ELSE seen[u]
  BY <1>1
<1>6. Last' = Last /\ Complete(Last)' = Complete(Last)
  BY DEF Last, Complete
<1>7. RoundInv'
  <2>1. ASSUME NEW u \in Inside', pc'[u] # "load" PROVE seen'[u] <= Complete(Last)'
    <3>1. u \in Thread /\ pc'[u] \in InsidePc
      BY <2>1 DEF Inside, At
    <3>2. CASE u = t
      BY <1>5, <1>6, <3>1, <3>2
    <3>3. CASE u # t
      <4>1. u \in Inside /\ pc[u] # "load" /\ seen'[u] = seen[u]
        BY <1>5, <2>1, <3>1, <3>3 DEF Inside, At
      <4> QED  BY <1>6, <4>1 DEF IInv, RoundInv
    <3> QED  BY <3>2, <3>3
  <2>2. ASSUME NEW u \in Thread, pc'[u] = "exit" PROVE ticket'[u] <= seen'[u]
    BY <1>5, <2>2 DEF IInv, RoundInv
  <2>3. round' <= Complete(Last)'
    BY <1>6
  <2> QED  BY <2>1, <2>2, <2>3 DEF RoundInv
<1>8. t \in Inside
  BY DEF Inside, At
<1>9. SameClass(pc[t], l)
  BY DEF SameClass, InsidePc, LeavingPc, EnteringPc, DestroyPc, OverPc, FullPc, AddedPc
<1>10. \A u \in Thread : SameClass(pc[u], pc'[u])
  <2> TAKE u \in Thread
  <2>1. CASE u = t
    BY <1>5, <1>9, <2>1
  <2>2. CASE u # t
    BY <1>5, <2>2 DEF SameClass
  <2> QED  BY <2>1, <2>2
<1>11. At({"reset_exited", "reset_entered"})' = {}
  <2>1. At(ResetPc) = {}
    BY <1>8 DEF IInv, ResetInv
  <2>2. \A u \in Thread : pc[u] \notin {"reset_exited", "reset_entered"}
    BY <2>1 DEF At, ResetPc, FullPc
  <2>3. l \notin {"reset_exited", "reset_entered"}
    BY DEF InsidePc
  <2> QED  BY <1>5, <2>2, <2>3 DEF At
<1> QED  BY <1>4, <1>7, <1>10, <1>11, Quiet

LEMMA RoundReadKeeps ==
    ASSUME IInv, NEW t \in Thread, LoadRound(t) \/ RoundReload(t)
    PROVE  IInv'
<1>1. UNCHANGED <<entered, exited, round, ticket, balance>> /\ seen' = [seen EXCEPT ![t] = round]
      /\ pc[t] \in InsidePc
  BY DEF LoadRound, RoundReload, InsidePc
<1>2. round \in Nat /\ round <= Complete(Last) /\ ticket[t] \in Int
  <2>1. Limit \in Nat /\ Cardinality(Thread) \in Nat
    BY LimitFacts, CountAssumption, FS_CardinalityType
  <2> QED  BY <2>1 DEF IInv, TypeOK, RoundInv
<1>3. PICK l \in InsidePc \ {"load"} :
          pc' = [pc EXCEPT ![t] = l] /\ (l = "exit" => ticket[t] <= round)
  <2>1. CASE LoadRound(t)
    <3>1. Advance(t, round) \in InsidePc \ {"load"} /\ (Advance(t, round) = "exit" => ticket[t] <= round)
      BY <1>2 DEF Advance, InsidePc
    <3> QED  BY <2>1, <3>1 DEF LoadRound, Goto
  <2>2. CASE RoundReload(t)
    <3> DEFINE l == IF ticket[t] > round THEN "wait" ELSE "exit"
    <3>1. l \in InsidePc \ {"load"} /\ (l = "exit" => ticket[t] <= round)
      BY <1>2 DEF InsidePc
    <3>2. pc' = [pc EXCEPT ![t] = l]
      BY <2>2 DEF RoundReload, Goto
    <3> HIDE DEF l
    <3> QED  BY <3>1, <3>2
  <2> QED  BY <2>1, <2>2
<1>4. round' \in Nat /\ round' <= Complete(Last)
  BY <1>1, <1>2
<1> QED  BY <1>1, <1>2, <1>3, <1>4, InsideStep

LEMMA CasRoundKeeps ==
    ASSUME IInv, NEW t \in Thread, CasRound(t)
    PROVE  IInv'
<1>0. pc[t] = "cas" /\ UNCHANGED <<entered, exited, ticket, balance>>
  BY DEF CasRound
<1>1. pc[t] \in InsidePc /\ t \in Inside
  BY <1>0 DEF InsidePc, Inside, At
<1>2. round \in Nat /\ round <= Complete(Last) /\ ticket[t] \in Nat /\ ticket[t] <= Last
      /\ Last \in Nat
  <2>1. Limit \in Nat /\ Cardinality(Thread) \in Nat /\ Last \in Nat
    BY LimitFacts, LastFacts, CountAssumption, FS_CardinalityType DEF IInv
  <2>2. round \in Nat /\ round <= Complete(Last)
    BY <2>1 DEF IInv, TypeOK, RoundInv
  <2>3. ticket[t] \in 1..Last
    BY <1>1 DEF IInv, TicketInv
  <2> QED  BY <2>1, <2>2, <2>3
<1>3. Complete(ticket[t]) \in Nat /\ Complete(ticket[t]) <= Complete(Last)
  <2>1. Complete(ticket[t]) \in 0..ticket[t]
    BY <1>2, CompleteFacts
  <2> QED  BY <1>2, <2>1, CompleteMonotone
<1>4. CASE round = seen[t]
  <2>1. round' = Complete(ticket[t]) /\ seen' = [seen EXCEPT ![t] = round'] /\ pc' = [pc EXCEPT ![t] = "wake"]
    BY <1>4 DEF CasRound, Goto
  <2>2. PICK r \in Nat : r = round' /\ r <= Complete(Last)
    BY <1>3, <2>1
  <2>3. "wake" \in InsidePc \ {"load"} /\ seen' = [seen EXCEPT ![t] = r]
        /\ round' \in Nat /\ round' <= Complete(Last)
    BY <2>1, <2>2 DEF InsidePc
  <2> QED  BY <1>0, <1>1, <2>1, <2>2, <2>3, InsideStep
<1>5. CASE round # seen[t]
  <2>1. round' = round /\ seen' = [seen EXCEPT ![t] = round'] /\ pc' = [pc EXCEPT ![t] = Advance(t, round)]
    BY <1>5 DEF CasRound, Goto
  <2>2. PICK l \in InsidePc \ {"load"} : l = Advance(t, round) /\ (l = "exit" => ticket[t] <= round)
    BY <1>2 DEF Advance, InsidePc
  <2>3. seen' = [seen EXCEPT ![t] = round] /\ pc' = [pc EXCEPT ![t] = l]
        /\ round' \in Nat /\ round' <= Complete(Last)
    BY <1>2, <2>1, <2>2
  <2> QED  BY <1>0, <1>1, <1>2, <2>2, <2>3, InsideStep
<1> QED  BY <1>4, <1>5

(* The first store of the reset.                                           *)
LEMMA ResetRoundKeeps ==
    ASSUME IInv, NEW t \in Thread, ResetRound(t)
    PROVE  IInv'
<1>1. UNCHANGED <<entered, exited, ticket, seen, balance>> /\ pc[t] = "reset_round" /\ round' = 0
      /\ pc' = [pc EXCEPT ![t] = "reset_exited"]
  BY DEF ResetRound, Goto
<1>2. pc \in [Thread -> Pc] /\ "reset_exited" \in Pc
  BY DEF IInv, TypeOK, Pc, LeavingPc
<1>3. \A u \in Thread : pc'[u] = IF u = t THEN "reset_exited" ELSE pc[u]
  BY <1>1, <1>2
<1>4. TypeOK'
  <2>1. pc' \in [Thread -> Pc]
    BY <1>1, <1>2
  <2>2. round' \in 0..Limit
    BY <1>1, LimitFacts
  <2> QED  BY <1>1, <2>1, <2>2 DEF IInv, TypeOK, Pc
<1>5. Last' = Last /\ Complete(Last)' = Complete(Last)
  BY <1>1 DEF Last, Complete
<1>6. RoundInv'
  <2>1. round' <= Complete(Last)'
    <3>1. Complete(Last) \in 0..Last /\ Last \in Nat
      BY LastFacts DEF IInv
    <3> QED  BY <1>1, <1>5, <3>1
  <2>2. \A u \in Inside' : u \in Inside /\ pc'[u] = pc[u]
    BY <1>3 DEF Inside, At, InsidePc
  <2>3. \A u \in Thread : pc'[u] = "exit" => pc[u] = "exit"
    BY <1>3
  <2> QED  BY <1>1, <1>5, <2>1, <2>2, <2>3 DEF IInv, RoundInv
<1>7. SameClass("reset_round", "reset_exited")
  BY DEF SameClass, InsidePc, LeavingPc, EnteringPc, DestroyPc, OverPc, FullPc, AddedPc
<1>8. \A u \in Thread : SameClass(pc[u], pc'[u])
  <2> TAKE u \in Thread
  <2>1. CASE u = t
    BY <1>1, <1>3, <1>7, <2>1
  <2>2. CASE u # t
    BY <1>3, <2>2 DEF SameClass
  <2> QED  BY <2>1, <2>2
<1> QED  BY <1>1, <1>4, <1>6, <1>8, Quiet

-----------------------------------------------------------------------------
(* Steps from one class to another                                         *)

(* One thread moves.                                                       *)
LEMMA Moved ==
    ASSUME IInv, NEW t \in Thread, NEW l \in Pc, pc' = [pc EXCEPT ![t] = l]
    PROVE  /\ pc' \in [Thread -> Pc]
           /\ \A u \in Thread : pc'[u] = IF u = t THEN l ELSE pc[u]
BY DEF IInv, TypeOK, Pc

LEMMA AtSame ==
    ASSUME NEW P, NEW t \in Thread, NEW l, pc[t] \in P <=> l \in P,
           \A u \in Thread : pc'[u] = IF u = t THEN l ELSE pc[u]
    PROVE  At(P)' = At(P)
BY DEF At

LEMMA AtGone ==
    ASSUME NEW P, NEW t \in Thread, NEW l, pc[t] \in P, l \notin P,
           \A u \in Thread : pc'[u] = IF u = t THEN l ELSE pc[u]
    PROVE  /\ At(P)' = At(P) \ {t} /\ t \in At(P)
           /\ Cardinality(At(P)') = Cardinality(At(P)) - 1
           /\ Cardinality(At(P)) \in Nat /\ Cardinality(At(P)') \in Nat
<1>1. At(P)' = At(P) \ {t} /\ t \in At(P)
  BY DEF At
<1>2. IsFiniteSet(At(P)) /\ Cardinality(At(P)) \in Nat
  BY AtFinite
<1>3. Cardinality(At(P) \ {t}) = Cardinality(At(P)) - 1 /\ IsFiniteSet(At(P) \ {t})
  BY <1>1, <1>2, FS_RemoveElement
<1>4. Cardinality(At(P) \ {t}) \in Nat
  BY <1>3, FS_CardinalityType
<1> QED  BY <1>1, <1>2, <1>3, <1>4

LEMMA AtNew ==
    ASSUME NEW P, NEW t \in Thread, NEW l, pc[t] \notin P, l \in P,
           \A u \in Thread : pc'[u] = IF u = t THEN l ELSE pc[u]
    PROVE  /\ At(P)' = At(P) \cup {t} /\ t \notin At(P)
           /\ Cardinality(At(P)') = Cardinality(At(P)) + 1
           /\ Cardinality(At(P)) \in Nat /\ Cardinality(At(P)') \in Nat
           /\ Cardinality(At(P)') <= Cardinality(Thread)
<1>1. At(P)' = At(P) \cup {t} /\ t \notin At(P)
  BY DEF At
<1>2. IsFiniteSet(At(P)) /\ Cardinality(At(P)) \in Nat
  BY AtFinite
<1>3. Cardinality(At(P) \cup {t}) = Cardinality(At(P)) + 1 /\ IsFiniteSet(At(P) \cup {t})
  BY <1>1, <1>2, FS_AddElement
<1>4. At(P) \cup {t} \subseteq Thread
  BY DEF At
<1>5. Cardinality(At(P) \cup {t}) <= Cardinality(Thread)
  BY <1>4, FS_Subset, CountAssumption
<1> QED  BY <1>1, <1>2, <1>3, <1>5

(* A thread outside calls pthread_barrier_wait().                          *)
LEMMA CallKeeps ==
    ASSUME ~EarlyDestroy, IInv, NEW t \in Thread, Call(t)
    PROVE  IInv'
<1>1. UNCHANGED <<entered, exited, round, ticket, seen, balance>> /\ pc[t] \in OutsidePc
      /\ At(DestroyPc) = {} /\ pc' = [pc EXCEPT ![t] = "enter"] /\ "enter" \in Pc
  BY DEF Call, Awaited, Goto, Pc, EnteringPc
<1>2. /\ pc' \in [Thread -> Pc]
      /\ \A u \in Thread : pc'[u] = IF u = t THEN "enter" ELSE pc[u]
  BY <1>1, Moved
<1>3. /\ Inside' = Inside /\ Pending' = Pending
      /\ At(FullPc)' = At(FullPc) /\ At({"reset_entered"})' = At({"reset_entered"})
      /\ At({"reset_exited", "reset_entered"})' = At({"reset_exited", "reset_entered"})
      /\ At(ResetPc)' = At(ResetPc)
      /\ At(OverPc)' = At(OverPc)
      /\ At(DestroyPc)' = At(DestroyPc) /\ At(AddedPc)' = At(AddedPc)
      /\ At({"destroyed"})' = At({"destroyed"}) /\ At({"destroy_add"})' = At({"destroy_add"})
  BY <1>1, <1>2 DEF At, Inside, Pending, OutsidePc, InsidePc, LeavingPc, ResetPc, FullPc, OverPc,
                    DestroyPc, AddedPc
<1>4. TypeOK'
  BY <1>1, <1>2 DEF IInv, TypeOK, Pc
<1>5. Last' = Last
  BY <1>1 DEF Last
<1>6. TicketInv'
  BY <1>1, <1>3, <1>5, TicketFrame DEF IInv
<1>7. RoundInv'
  <2>1. \A u \in Thread : pc'[u] \in InsidePc => pc[u] = pc'[u]
    BY <1>2 DEF InsidePc
  <2>2. \A u \in Thread : pc'[u] = "exit" => ticket'[u] <= seen[u]
    BY <1>1, <1>2 DEF IInv, RoundInv
  <2> QED  BY <1>1, <2>1, <2>2, RoundFrame DEF IInv
<1>8. ResetInv'
  BY <1>1, <1>3 DEF IInv, ResetInv
<1>9. ExitInv'
  BY <1>1, <1>3, <1>5 DEF IInv, ExitInv
<1>10. OverInv'
  BY <1>1, <1>3 DEF IInv, OverInv
<1>11. BalanceInv'
  <2>1. Serial' = Serial
    BY <1>1, <1>3, SerialFrame
  <2> QED  BY <1>1, <1>3, <1>5, <2>1 DEF IInv, BalanceInv, Rem
<1>12. DestroyInv'
  <2>1. \A u \in Thread : pc'[u] # "destroy_add" /\ pc'[u] # "destroyed"
    BY <1>1, <1>2 DEF At, DestroyPc
  <2>2. At({"destroyed"})' = {}
    BY <2>1 DEF At
  <2> QED  BY <1>1, <1>3, <2>1, <2>2 DEF DestroyInv
<1> QED  BY <1>4, <1>6, <1>7, <1>8, <1>9, <1>10, <1>11, <1>12 DEF IInv

(* A thread beyond the limit looks at _entered again.                      *)
LEMMA OverReloadKeeps ==
    ASSUME IInv, NEW t \in Thread, OverReload(t)
    PROVE  IInv'
<1>0. PICK l \in {"over", "enter"} :
          pc' = [pc EXCEPT ![t] = l] /\ (l = "enter" => entered <= Limit)
  <2>1. entered \in Nat /\ Limit \in Nat
    BY LastFacts DEF IInv
  <2>2. CASE entered > Limit
    BY <2>2 DEF OverReload, Goto
  <2>3. CASE ~(entered > Limit)
    BY <2>1, <2>3 DEF OverReload, Goto
  <2> QED  BY <2>2, <2>3
<1>1. UNCHANGED <<entered, exited, round, seen, balance>> /\ pc[t] = "over_reload"
      /\ ticket' = [ticket EXCEPT ![t] = entered] /\ l \in Pc
  BY DEF OverReload, Pc, EnteringPc
<1>2. /\ pc' \in [Thread -> Pc]
      /\ \A u \in Thread : pc'[u] = IF u = t THEN l ELSE pc[u]
  BY <1>0, <1>1, Moved
<1>3. /\ Inside' = Inside /\ Pending' = Pending
      /\ At(FullPc)' = At(FullPc) /\ At({"reset_entered"})' = At({"reset_entered"})
      /\ At({"reset_exited", "reset_entered"})' = At({"reset_exited", "reset_entered"})
      /\ At(ResetPc)' = At(ResetPc) /\ At(EnteringPc)' = At(EnteringPc)
      /\ At(DestroyPc)' = At(DestroyPc) /\ At(AddedPc)' = At(AddedPc)
      /\ At({"destroyed"})' = At({"destroyed"}) /\ At({"destroy_add"})' = At({"destroy_add"})
  BY <1>1, <1>2 DEF At, Inside, Pending, InsidePc, LeavingPc, ResetPc, FullPc, EnteringPc,
                    DestroyPc, AddedPc
<1>4. TypeOK'
  <2>1. ticket' \in [Thread -> 0..(Limit + Cardinality(Thread))]
    BY <1>1 DEF IInv, TypeOK
  <2> QED  BY <1>1, <1>2, <2>1 DEF IInv, TypeOK, Pc
<1>13. \A u \in Thread : u # t => ticket'[u] = ticket[u]
  BY <1>1 DEF IInv, TypeOK
<1>14. t \notin Pending /\ t \notin Inside
  BY <1>1 DEF Pending, Inside, At, InsidePc, LeavingPc
<1>15. (\A u \in Pending : ticket'[u] = ticket[u]) /\ (\A u \in Inside : ticket'[u] = ticket[u])
  BY <1>13, <1>14 DEF Pending, Inside, At
<1>5. Last' = Last
  BY <1>1 DEF Last
<1>6. TicketInv'
  BY <1>3, <1>5, <1>15, TicketFrame DEF IInv
<1>7. RoundInv'
  <2>1. \A u \in Thread : pc'[u] \in InsidePc => pc[u] = pc'[u]
    BY <1>2 DEF InsidePc
  <2>2. \A u \in Thread : pc'[u] = "exit" => ticket'[u] <= seen[u]
    BY <1>2, <1>13 DEF IInv, RoundInv
  <2> QED  BY <1>1, <2>1, <2>2, RoundFrame DEF IInv
<1>8. ResetInv'
  BY <1>1, <1>3 DEF IInv, ResetInv
<1>9. ExitInv'
  BY <1>1, <1>3, <1>5 DEF IInv, ExitInv
<1>10. OverInv'
  <2>1. CASE l = "over"
    <3>1. At(OverPc)' = At(OverPc)
      BY <1>1, <1>2, <2>1 DEF At, OverPc
    <3> QED  BY <1>1, <3>1 DEF IInv, OverInv
  <2>2. CASE l = "enter"
    <3>1. Cardinality(At(OverPc)') \in Nat
      <4>1. At(OverPc)' = At(OverPc) \ {t}
        BY <1>1, <1>2, <2>2 DEF At, OverPc
      <4>2. IsFiniteSet(At(OverPc))
        BY AtFinite
      <4> QED  BY <4>1, <4>2, FS_Subset, FS_CardinalityType
    <3>2. entered \in Nat /\ Limit \in Nat
      BY LastFacts DEF IInv
    <3> QED  BY <1>0, <1>1, <2>2, <3>1, <3>2 DEF OverInv
  <2> QED  BY <2>1, <2>2
<1>11. BalanceInv'
  <2>1. Serial' = Serial
    BY <1>3, <1>15, SerialFrame
  <2> QED  BY <1>1, <1>3, <1>5, <2>1 DEF IInv, BalanceInv, Rem
<1>12. DestroyInv'
  <2>1. At(DestroyPc) = {}
    <3>1. t \in At(EnteringPc)
      BY <1>1 DEF At, EnteringPc
    <3> QED  BY <3>1 DEF IInv, DestroyInv
  <2>2. \A u \in Thread : pc'[u] # "destroy_add" /\ pc'[u] # "destroyed"
    BY <1>0, <1>2, <2>1 DEF At, DestroyPc
  <2>3. At({"destroyed"})' = {}
    BY <2>2 DEF At
  <2> QED  BY <1>3, <2>1, <2>2, <2>3 DEF DestroyInv
<1> QED  BY <1>4, <1>6, <1>7, <1>8, <1>9, <1>10, <1>11, <1>12 DEF IInv

(* The serial threads inside are finitely many.                            *)
LEMMA SerialFinite ==
    IsFiniteSet(Serial) /\ Cardinality(Serial) \in Nat
<1>1. Serial \subseteq Thread
  BY DEF Serial, Pending, At
<1> QED  BY <1>1, FS_Subset, FS_CardinalityType, CountAssumption

(* A valid ticket is the next one of the round that is not complete, or    *)
(* completes it.                                                           *)
LEMMA EnterKeeps ==
    ASSUME IInv, NEW t \in Thread, Enter(t), entered + 1 <= Limit
    PROVE  IInv' /\ Last' = Last + 1 /\ Inside' = Inside \cup {t} /\ t \notin Inside
           /\ ticket'[t] = Last + 1 /\ \A u \in Inside : ticket'[u] = ticket[u]
<1>1. UNCHANGED <<exited, round, seen, balance>> /\ pc[t] = "enter" /\ entered' = entered + 1
      /\ ticket' = [ticket EXCEPT ![t] = entered + 1] /\ pc' = [pc EXCEPT ![t] = "load"]
      /\ "load" \in Pc
  BY DEF Enter, Goto, Pc, InsidePc
<1>2. /\ pc' \in [Thread -> Pc]
      /\ \A u \in Thread : pc'[u] = IF u = t THEN "load" ELSE pc[u]
  BY <1>1, Moved
<1>3. /\ At(FullPc)' = At(FullPc) /\ At({"reset_entered"})' = At({"reset_entered"})
      /\ At({"reset_exited", "reset_entered"})' = At({"reset_exited", "reset_entered"})
      /\ At(ResetPc)' = At(ResetPc) /\ At(OverPc)' = At(OverPc)
      /\ At(DestroyPc)' = At(DestroyPc) /\ At(AddedPc)' = At(AddedPc)
  BY <1>1, <1>2 DEF At, InsidePc, LeavingPc, ResetPc, FullPc, OverPc, EnteringPc, DestroyPc, AddedPc
<1>4. /\ Inside' = Inside \cup {t} /\ t \notin Inside
      /\ Cardinality(Inside') = Cardinality(Inside) + 1 /\ Cardinality(Inside) \in Nat
  <2>1. pc[t] \notin InsidePc /\ "load" \in InsidePc
    BY <1>1 DEF InsidePc
  <2> QED  BY <1>2, <2>1, AtNew DEF Inside
<1>5. /\ Pending' = Pending \cup {t} /\ t \notin Pending
      /\ Cardinality(Pending') = Cardinality(Pending) + 1 /\ Cardinality(Pending) \in Nat
  <2>1. pc[t] \notin InsidePc \cup LeavingPc /\ "load" \in InsidePc \cup LeavingPc
    BY <1>1 DEF InsidePc, LeavingPc
  <2> QED  BY <1>2, <2>1, AtNew DEF Pending
<1>6. entered \in Nat /\ Limit \in Nat /\ Last \in Nat /\ Last = entered /\ Last' = Last + 1
      /\ Rem(Last) \in 0..(Count - 1) /\ Count \in Nat /\ Complete(Last) \in 0..Last
  <2>1. entered \in Nat /\ Limit \in Nat /\ Last \in Nat /\ (entered <= Limit => Last = entered)
        /\ Rem(Last) \in 0..(Count - 1) /\ Count \in Nat /\ Complete(Last) \in 0..Last
    BY LastFacts DEF IInv
  <2> QED  BY <1>1, <2>1 DEF Last
<1>7. /\ Rem(Last) + 1 = Count => Rem(Last + 1) = 0 /\ Complete(Last + 1) = Last + 1
      /\ Rem(Last) + 1 # Count =>
             Rem(Last + 1) = Rem(Last) + 1 /\ Complete(Last + 1) = Complete(Last)
  BY <1>6, CompleteNext
<1>8. Complete(Last)' = Complete(Last + 1) /\ Rem(Last)' = Rem(Last + 1)
  BY <1>6 DEF Complete, Rem
<1>9. At(DestroyPc) = {} /\ At(AddedPc) = {} /\ At(ResetPc) = {}
  <2>1. t \in At(EnteringPc)
    BY <1>1 DEF At, EnteringPc
  <2>2. At(DestroyPc) = {}
    BY <2>1 DEF IInv, DestroyInv
  <2>3. At(AddedPc) = {}
    BY <2>2 DEF At, AddedPc, DestroyPc
  <2> QED  BY <1>6, <2>2, <2>3 DEF IInv, ResetInv
<1>10. At(FullPc) = {} /\ At({"reset_entered"}) = {} /\ At({"reset_exited", "reset_entered"}) = {}
  BY <1>9 DEF At, ResetPc, FullPc
<1>11. ticket'[t] = Last + 1 /\ \A u \in Thread : u # t => ticket'[u] = ticket[u]
  BY <1>1, <1>6 DEF IInv, TypeOK
<1>12. TypeOK'
  <2>1. Cardinality(Thread) \in Nat
    BY CountAssumption, FS_CardinalityType
  <2>2. entered + 1 \in 0..(Limit + Cardinality(Thread))
    BY <1>6, <2>1
  <2>3. ticket' \in [Thread -> 0..(Limit + Cardinality(Thread))]
    BY <1>1, <2>2 DEF IInv, TypeOK
  <2> QED  BY <1>1, <1>2, <2>2, <2>3 DEF IInv, TypeOK, Pc
<1>13. TicketInv'
  <2>1. \A u \in Inside : u # t /\ ticket'[u] = ticket[u] /\ ticket[u] \in 1..Last
    BY <1>4, <1>11 DEF IInv, TicketInv, Inside, At
  <2>2. \A u \in Inside' : ticket'[u] \in 1..Last'
    BY <1>4, <1>6, <1>11, <2>1
  <2>3. ASSUME NEW u \in Inside', NEW v \in Inside', ticket'[u] = ticket'[v] PROVE u = v
    <3>1. CASE u = t /\ v # t
      BY <1>4, <1>6, <1>11, <2>1, <2>3, <3>1
    <3>2. CASE v = t /\ u # t
      BY <1>4, <1>6, <1>11, <2>1, <2>3, <3>2
    <3>3. CASE u # t /\ v # t
      BY <1>4, <2>1, <2>3, <3>3 DEF IInv, TicketInv
    <3> QED  BY <3>1, <3>2, <3>3
  <2>4. ASSUME NEW n \in (Complete(Last)' + 1)..Last' PROVE \E u \in Inside' : ticket'[u] = n
    <3>0. Complete(Last)' \in Int
      BY <1>6, <1>7, <1>8
    <3>1. CASE n = Last + 1
      BY <1>4, <1>11, <3>1
    <3>2. CASE n # Last + 1
      <4>1. Rem(Last) + 1 # Count /\ Complete(Last)' = Complete(Last)
        BY <1>6, <1>7, <1>8, <3>2
      <4>2. n \in (Complete(Last) + 1)..Last
        BY <1>6, <3>2, <4>1
      <4>3. PICK u \in Inside : ticket[u] = n
        BY <4>2 DEF IInv, TicketInv
      <4> QED  BY <1>4, <2>1, <4>3
    <3> QED  BY <3>1, <3>2
  <2> QED  BY <2>2, <2>3, <2>4 DEF TicketInv
<1>14. RoundInv'
  <2>1. Complete(Last) <= Complete(Last)' /\ Complete(Last) \in Int /\ Complete(Last)' \in Int
    BY <1>6, <1>7, <1>8
  <2>2. round \in Int /\ \A u \in Thread : seen[u] \in Int
    BY <1>6 DEF IInv, TypeOK
  <2>3. round' <= Complete(Last)'
    BY <1>1, <2>1, <2>2 DEF IInv, RoundInv
  <2>4. ASSUME NEW u \in Inside', pc'[u] # "load" PROVE seen'[u] <= Complete(Last)'
    <3>1. u # t /\ u \in Inside /\ u \in Thread /\ pc[u] # "load"
      BY <1>2, <1>4, <2>4 DEF Inside, At
    <3>2. seen[u] <= Complete(Last)
      BY <3>1 DEF IInv, RoundInv
    <3> QED  BY <1>1, <2>1, <2>2, <3>1, <3>2
  <2>5. ASSUME NEW u \in Thread, pc'[u] = "exit" PROVE ticket'[u] <= seen'[u]
    <3>1. u # t /\ pc[u] = "exit"
      BY <1>2, <2>5
    <3> QED  BY <1>1, <1>11, <3>1 DEF IInv, RoundInv
  <2> QED  BY <2>3, <2>4, <2>5 DEF RoundInv
<1>15. ResetInv'
  BY <1>3, <1>9, <1>10 DEF ResetInv
<1>16. ExitInv'
  <2>1. exited + Cardinality(Inside) = Last
    BY <1>9, <1>10 DEF IInv, ExitInv
  <2>2. exited \in Int
    BY <1>6 DEF IInv, TypeOK
  <2>3. exited' + Cardinality(Inside') = Last'
    BY <1>1, <1>4, <1>6, <2>1, <2>2
  <2>4. exited' + Cardinality(Inside)' = Last'
    BY <2>3
  <2> QED  BY <1>3, <1>9, <2>4 DEF ExitInv
<1>17. OverInv'
  <2>1. Cardinality(At(OverPc)) \in Nat
    BY AtFinite
  <2> QED  BY <1>1, <1>3, <1>6, <2>1 DEF OverInv
<1>18. BalanceInv'
  <2>1. IsFiniteSet(Serial) /\ Cardinality(Serial) \in Nat /\ t \notin Serial
    BY <1>5, SerialFinite DEF Serial
  <2>2. Cardinality(Serial') = Cardinality(Serial) + IF Rem(Last + 1) = 0 THEN 1 ELSE 0
    <3>1. \A u \in Pending : u # t /\ ticket'[u] = ticket[u]
      BY <1>5, <1>11 DEF Pending, At
    <3>2. CASE Rem(Last + 1) = 0
      <4>1. Serial' = Serial \cup {t}
        BY <1>5, <1>11, <3>1, <3>2 DEF Serial, Rem
      <4>2. Cardinality(Serial \cup {t}) = Cardinality(Serial) + 1
        BY <2>1, FS_AddElement
      <4> QED  BY <3>2, <4>1, <4>2
    <3>3. CASE Rem(Last + 1) # 0
      <4>1. Serial' = Serial
        BY <1>5, <1>11, <3>1, <3>3 DEF Serial, Rem
      <4> QED  BY <2>1, <3>3, <4>1
    <3> QED  BY <3>2, <3>3
  <2>3. PICK s \in Nat : s = Cardinality(Serial)
    BY <2>1
  <2>4. PICK x \in Int : x = Count * s
    BY <1>6
  <2>5. Count * (s + 1) = x + Count
    BY <1>6, <2>4
  <2>6. PICK p \in Nat : p = Cardinality(Pending)
    BY <1>5
  <2>7. PICK r \in 0..(Count - 1) : r = Rem(Last)
    BY <1>6
  <2>8. balance = r - p + x
    BY <2>3, <2>4, <2>6, <2>7 DEF IInv, BalanceInv
  <2>9. CASE r + 1 = Count
    <3>1. Rem(Last)' = 0 /\ Cardinality(Serial)' = s + 1
      BY <1>7, <1>8, <2>2, <2>3, <2>7, <2>9
    <3>2. Count * Cardinality(Serial)' = x + Count
      BY <2>5, <3>1
    <3>3. Cardinality(Pending)' = p + 1
      BY <1>5, <2>6
    <3>4. balance = 0 - (p + 1) + (x + Count)
      BY <1>6, <2>8, <2>9
    <3> QED  BY <1>1, <3>1, <3>2, <3>3, <3>4, Zenon DEF BalanceInv
  <2>10. CASE r + 1 # Count
    <3>1. Rem(Last)' = r + 1 /\ Cardinality(Serial)' = s
      BY <1>6, <1>7, <1>8, <2>2, <2>3, <2>7, <2>10
    <3>2. Count * Cardinality(Serial)' = x
      BY <2>4, <3>1
    <3>3. Cardinality(Pending)' = p + 1
      BY <1>5, <2>6
    <3>4. balance = (r + 1) - (p + 1) + x
      BY <1>6, <2>8
    <3> QED  BY <1>1, <3>1, <3>2, <3>3, <3>4, Zenon DEF BalanceInv
  <2> QED  BY <2>9, <2>10
<1>19. DestroyInv'
  <2>1. \A u \in Thread : pc'[u] # "destroy_add" /\ pc'[u] # "destroyed"
    BY <1>2, <1>9 DEF At, DestroyPc
  <2>2. At({"destroyed"})' = {}
    BY <2>1 DEF At
  <2> QED  BY <1>3, <1>9, <2>1, <2>2 DEF DestroyInv
<1>20. IInv'
  BY <1>12, <1>13, <1>14, <1>15, <1>16, <1>17, <1>18, <1>19 DEF IInv
<1>21. \A u \in Inside : ticket'[u] = ticket[u]
  BY <1>4, <1>11 DEF Inside, At
<1> QED  BY <1>4, <1>6, <1>11, <1>20, <1>21

(* A ticket beyond the limit.                                              *)
LEMMA EnterOverKeeps ==
    ASSUME IInv, NEW t \in Thread, Enter(t), entered + 1 > Limit
    PROVE  IInv' /\ Last' = Last /\ Inside' = Inside /\ \A u \in Inside : ticket'[u] = ticket[u]
<1>0. entered \in Nat /\ Limit \in Nat /\ Last = Limit /\ Last' = Limit /\ entered' = entered + 1
  <2>1. entered \in Nat /\ Limit \in Nat /\ (entered >= Limit => Last = Limit)
    BY LastFacts DEF IInv
  <2> QED  BY <2>1 DEF Enter, Last
<1>1. UNCHANGED <<exited, round, seen, balance>> /\ pc[t] = "enter"
      /\ ticket' = [ticket EXCEPT ![t] = entered + 1] /\ pc' = [pc EXCEPT ![t] = "over"]
      /\ "over" \in Pc
  <2>1. ~(entered + 1 <= Limit)
    BY <1>0
  <2>2. pc' = [pc EXCEPT ![t] = "over"]
    BY <2>1 DEF Enter, Goto
  <2>3. "over" \in Pc
    BY DEF Pc, EnteringPc
  <2> QED  BY <2>2, <2>3 DEF Enter
<1>2. /\ pc' \in [Thread -> Pc]
      /\ \A u \in Thread : pc'[u] = IF u = t THEN "over" ELSE pc[u]
  BY <1>1, Moved
<1>3. /\ Inside' = Inside /\ Pending' = Pending
      /\ At(FullPc)' = At(FullPc) /\ At({"reset_entered"})' = At({"reset_entered"})
      /\ At({"reset_exited", "reset_entered"})' = At({"reset_exited", "reset_entered"})
      /\ At(ResetPc)' = At(ResetPc) /\ At(EnteringPc)' = At(EnteringPc)
      /\ At(DestroyPc)' = At(DestroyPc) /\ At(AddedPc)' = At(AddedPc)
      /\ At({"destroyed"})' = At({"destroyed"}) /\ At({"destroy_add"})' = At({"destroy_add"})
  BY <1>1, <1>2 DEF At, Inside, Pending, InsidePc, LeavingPc, ResetPc, FullPc, EnteringPc,
                    DestroyPc, AddedPc
<1>4. OverInv' /\ entered' \in 0..(Limit + Cardinality(Thread))
  <2>1. pc[t] \notin OverPc /\ "over" \in OverPc
    BY <1>1 DEF OverPc
  <2>2. /\ Cardinality(At(OverPc)') = Cardinality(At(OverPc)) + 1
        /\ Cardinality(At(OverPc)) \in Nat
        /\ Cardinality(At(OverPc)') <= Cardinality(Thread)
    BY <1>2, <2>1, AtNew
  <2>3. Cardinality(Thread) \in Nat
    BY CountAssumption, FS_CardinalityType
  <2>4. entered <= Limit + Cardinality(At(OverPc))
    BY DEF IInv, OverInv
  <2>5. entered' <= Limit + Cardinality(At(OverPc)')
    BY <1>0, <2>2, <2>4
  <2>6. entered' <= Limit + Cardinality(At(OverPc))'
    BY <2>5
  <2>7. entered' \in 0..(Limit + Cardinality(Thread))
    BY <1>0, <2>2, <2>3, <2>5
  <2> QED  BY <2>6, <2>7 DEF OverInv
<1>5. TypeOK'
  <2>1. ticket' \in [Thread -> 0..(Limit + Cardinality(Thread))]
    BY <1>0, <1>1, <1>4 DEF IInv, TypeOK
  <2> QED  BY <1>1, <1>2, <1>4, <2>1 DEF IInv, TypeOK, Pc
<1>6. \A u \in Thread : u # t => ticket'[u] = ticket[u]
  BY <1>1 DEF IInv, TypeOK
<1>7. t \notin Pending /\ t \notin Inside
  BY <1>1 DEF Pending, Inside, At, InsidePc, LeavingPc
<1>8. (\A u \in Pending : ticket'[u] = ticket[u]) /\ (\A u \in Inside : ticket'[u] = ticket[u])
  BY <1>6, <1>7 DEF Pending, Inside, At
<1>9. TicketInv'
  BY <1>0, <1>3, <1>8, TicketFrame DEF IInv
<1>10. RoundInv'
  <2>1. Complete(Last)' = Complete(Last)
    BY <1>0 DEF Complete
  <2>2. \A u \in Inside' : u \in Inside /\ pc'[u] = pc[u]
    BY <1>2, <1>3, <1>7 DEF Inside, At
  <2>3. \A u \in Thread : pc'[u] = "exit" => u # t /\ pc[u] = "exit"
    BY <1>2
  <2> QED  BY <1>1, <1>6, <2>1, <2>2, <2>3 DEF IInv, RoundInv
<1>11. At(DestroyPc) = {} /\ At(AddedPc) = {}
  <2>1. t \in At(EnteringPc)
    BY <1>1 DEF At, EnteringPc
  <2>2. At(DestroyPc) = {}
    BY <2>1 DEF IInv, DestroyInv
  <2> QED  BY <2>2 DEF At, AddedPc, DestroyPc
<1>12. ResetInv'
  BY <1>0, <1>1, <1>3 DEF IInv, ResetInv
<1>13. ExitInv'
  BY <1>0, <1>1, <1>3, <1>11 DEF IInv, ExitInv
<1>14. BalanceInv'
  <2>1. Serial' = Serial
    BY <1>3, <1>8, SerialFrame
  <2> QED  BY <1>0, <1>1, <1>3, <2>1 DEF IInv, BalanceInv, Rem
<1>15. DestroyInv'
  <2>1. \A u \in Thread : pc'[u] # "destroy_add" /\ pc'[u] # "destroyed"
    BY <1>2, <1>11 DEF At, DestroyPc
  <2>2. At({"destroyed"})' = {}
    BY <2>1 DEF At
  <2> QED  BY <1>3, <1>11, <2>1, <2>2 DEF DestroyInv
<1>16. IInv'
  BY <1>4, <1>5, <1>9, <1>10, <1>12, <1>13, <1>14, <1>15 DEF IInv
<1> QED  BY <1>0, <1>3, <1>8, <1>16

(* A thread of a complete round is counted in _exited; the last of all     *)
(* goes on to reset the counters.                                          *)
LEMMA ExitKeeps ==
    ASSUME IInv, NEW t \in Thread, Exit(t)
    PROVE  IInv' /\ Last' = Last /\ Inside' = Inside \ {t} /\ t \in Released /\ ticket' = ticket
<1>0. PICK l \in {"reset_round", "result"} :
          pc' = [pc EXCEPT ![t] = l] /\ (l = "reset_round" <=> exited + 1 = Limit)
  BY DEF Exit, Goto
<1>1. UNCHANGED <<entered, round, ticket, seen, balance>> /\ pc[t] = "exit" /\ exited' = exited + 1
      /\ l \in Pc
  BY DEF Exit, Pc, LeavingPc
<1>2. /\ pc' \in [Thread -> Pc]
      /\ \A u \in Thread : pc'[u] = IF u = t THEN l ELSE pc[u]
  BY <1>0, <1>1, Moved
<1>3. /\ Pending' = Pending
      /\ At({"reset_entered"})' = At({"reset_entered"})
      /\ At({"reset_exited", "reset_entered"})' = At({"reset_exited", "reset_entered"})
      /\ At(OverPc)' = At(OverPc) /\ At(EnteringPc)' = At(EnteringPc)
      /\ At(DestroyPc)' = At(DestroyPc) /\ At(AddedPc)' = At(AddedPc)
      /\ At({"destroyed"})' = At({"destroyed"}) /\ At({"destroy_add"})' = At({"destroy_add"})
  BY <1>1, <1>2 DEF At, Pending, InsidePc, LeavingPc, OverPc, EnteringPc, DestroyPc, AddedPc
<1>4. /\ Inside' = Inside \ {t} /\ t \in Inside
      /\ Cardinality(Inside') = Cardinality(Inside) - 1
      /\ Cardinality(Inside) \in Nat /\ Cardinality(Inside') \in Nat
  <2>1. pc[t] \in InsidePc /\ l \notin InsidePc
    BY <1>1 DEF InsidePc
  <2> QED  BY <1>2, <2>1, AtGone DEF Inside
<1>5. Last' = Last /\ Complete(Last)' = Complete(Last)
  BY <1>1 DEF Last, Complete
<1>6. entered \in Nat /\ Limit \in Nat /\ Last \in Nat /\ Last <= Limit /\ Complete(Last) \in 0..Last
      /\ (entered <= Limit => Last = entered)
  BY LastFacts DEF IInv
<1>7. ticket[t] <= Complete(Last) /\ t \in Released
  <2>1. ticket[t] <= seen[t] /\ seen[t] <= Complete(Last)
    BY <1>1, <1>4 DEF IInv, RoundInv
  <2>2. ticket[t] \in 1..Last /\ seen[t] \in 0..Limit
    BY <1>4 DEF IInv, TicketInv, TypeOK
  <2> QED  BY <1>4, <1>6, <2>1, <2>2 DEF Released
<1>8. At(ResetPc) = {} /\ entered # 0
  <2>1. ticket[t] \in 1..Last
    BY <1>4 DEF IInv, TicketInv
  <2> QED  BY <1>4, <1>6, <2>1 DEF IInv, ResetInv
<1>9. At(FullPc) = {} /\ At({"reset_entered"}) = {} /\ At({"reset_exited", "reset_entered"}) = {}
  BY <1>8 DEF At, ResetPc, FullPc
<1>10. /\ At(AddedPc) = {} => exited + Cardinality(Inside) = Last
       /\ At(AddedPc) # {} => exited + Cardinality(Inside) = Limit
       /\ exited \in Nat
  BY <1>6, <1>8, <1>9 DEF IInv, ExitInv, TypeOK
<1>11. exited' \in 0..Limit
  BY <1>1, <1>4, <1>6, <1>10
<1>12. TypeOK'
  BY <1>1, <1>2, <1>11 DEF IInv, TypeOK, Pc
<1>13. TicketInv'
  <2>1. ASSUME NEW n \in (Complete(Last) + 1)..Last PROVE \E u \in Inside' : ticket[u] = n
    <3>1. PICK u \in Inside : ticket[u] = n
      BY DEF IInv, TicketInv
    <3>2. u # t
      BY <1>6, <1>7, <3>1
    <3> QED  BY <1>4, <3>1, <3>2
  <2> QED  BY <1>1, <1>4, <1>5, <2>1 DEF IInv, TicketInv
<1>14. RoundInv'
  <2>1. \A u \in Thread : pc'[u] \in InsidePc \ {"load"} => pc[u] \in InsidePc \ {"load"}
    BY <1>2 DEF InsidePc
  <2>2. \A u \in Thread : pc'[u] = "exit" => ticket'[u] <= seen[u]
    BY <1>1, <1>2 DEF IInv, RoundInv
  <2> QED  BY <1>1, <2>1, <2>2, RoundFrame DEF IInv
<1>15. ResetInv'
  <2>1. CASE l = "result"
    <3>1. At(ResetPc)' = {} /\ At(FullPc)' = {}
      BY <1>2, <1>8, <2>1 DEF At, ResetPc, FullPc
    <3> QED  BY <1>3, <1>9, <3>1 DEF ResetInv
  <2>2. CASE l = "reset_round"
    <3>1. At(ResetPc)' = {t}
      BY <1>2, <1>8, <2>2 DEF At, ResetPc, FullPc
    <3>2. exited' = Limit
      BY <1>0, <1>1, <2>2
    <3>3. Inside' = {}
      <4>1. Cardinality(Inside') = 0
        BY <1>0, <1>4, <1>6, <1>10, <2>2
      <4>2. IsFiniteSet(Inside')
        <5>1. Inside' \subseteq Thread
          BY DEF Inside, At
        <5> QED  BY <5>1, FS_Subset, CountAssumption
      <4> QED  BY <4>1, <4>2, FS_EmptySet
    <3>4. At(AddedPc)' = {} => entered' >= Limit
      BY <1>0, <1>1, <1>3, <1>4, <1>6, <1>10, <2>2
    <3> QED  BY <1>3, <1>9, <3>1, <3>2, <3>3, <3>4 DEF ResetInv
  <2> QED  BY <2>1, <2>2
<1>16. ExitInv'
  <2>1. PICK c \in Nat : c = Cardinality(Inside)
    BY <1>4
  <2>2. Cardinality(Inside)' = c - 1
    BY <1>4, <2>1
  <2>3. exited' + Cardinality(Inside)' = exited + c
    BY <1>1, <1>10, <2>1, <2>2
  <2> QED  BY <1>3, <1>5, <1>10, <2>1, <2>3 DEF ExitInv
<1>17. OverInv'
  BY <1>1, <1>3 DEF IInv, OverInv
<1>18. BalanceInv'
  <2>1. Serial' = Serial
    BY <1>1, <1>3, SerialFrame
  <2> QED  BY <1>1, <1>3, <1>5, <2>1 DEF IInv, BalanceInv, Rem
<1>19. DestroyInv'
  <2>1. \A u \in Thread : pc'[u] = "destroy_add" => pc[u] = "destroy_add"
    BY <1>2
  <2> QED  BY <1>1, <1>3, <1>4, <1>5, <2>1 DEF IInv, DestroyInv
<1>20. IInv'
  BY <1>12, <1>13, <1>14, <1>15, <1>16, <1>17, <1>18, <1>19 DEF IInv
<1> QED  BY <1>1, <1>4, <1>5, <1>7, <1>20

(* The second store of the reset.                                          *)
LEMMA ResetExitedKeeps ==
    ASSUME IInv, NEW t \in Thread, ResetExited(t)
    PROVE  IInv'
<1>1. UNCHANGED <<entered, round, ticket, seen, balance>> /\ pc[t] = "reset_exited" /\ exited' = 0
      /\ pc' = [pc EXCEPT ![t] = "reset_entered"] /\ "reset_entered" \in Pc
  BY DEF ResetExited, Goto, Pc, LeavingPc
<1>2. /\ pc' \in [Thread -> Pc]
      /\ \A u \in Thread : pc'[u] = IF u = t THEN "reset_entered" ELSE pc[u]
  BY <1>1, Moved
<1>3. /\ Inside' = Inside /\ Pending' = Pending /\ At(ResetPc)' = At(ResetPc)
      /\ At({"reset_exited", "reset_entered"})' = At({"reset_exited", "reset_entered"})
      /\ At(OverPc)' = At(OverPc) /\ At(EnteringPc)' = At(EnteringPc)
      /\ At(DestroyPc)' = At(DestroyPc) /\ At(AddedPc)' = At(AddedPc)
      /\ At({"destroyed"})' = At({"destroyed"})
  BY <1>1, <1>2 DEF At, Inside, Pending, InsidePc, LeavingPc, ResetPc, FullPc, OverPc, EnteringPc,
                    DestroyPc, AddedPc
<1>4. At({"reset_entered"})' = {t} /\ At(FullPc)' = {}
  <2>1. \A u \in Thread : pc[u] \in ResetPc => u = t
    <3>1. t \in At(ResetPc)
      BY <1>1 DEF At, ResetPc, FullPc
    <3> QED  BY <3>1 DEF IInv, ResetInv, At
  <2> QED  BY <1>2, <2>1 DEF At, ResetPc, FullPc
<1>5. TypeOK'
  BY <1>1, <1>2, LimitFacts DEF IInv, TypeOK, Pc
<1>6. Last' = Last
  BY <1>1 DEF Last
<1>7. TicketInv'
  BY <1>1, <1>3, <1>6, TicketFrame DEF IInv
<1>8. RoundInv'
  <2>1. \A u \in Thread : pc'[u] \in InsidePc \ {"load"} => pc[u] \in InsidePc \ {"load"}
    BY <1>2 DEF InsidePc
  <2>2. \A u \in Thread : pc'[u] = "exit" => ticket'[u] <= seen[u]
    BY <1>1, <1>2 DEF IInv, RoundInv
  <2> QED  BY <1>1, <2>1, <2>2, RoundFrame DEF IInv
<1>9. ResetInv'
  BY <1>1, <1>3, <1>4 DEF IInv, ResetInv
<1>10. ExitInv'
  BY <1>4 DEF ExitInv
<1>11. OverInv'
  BY <1>1, <1>3 DEF IInv, OverInv
<1>12. BalanceInv'
  <2>1. Serial' = Serial
    BY <1>1, <1>3, SerialFrame
  <2> QED  BY <1>1, <1>3, <1>6, <2>1 DEF IInv, BalanceInv, Rem
<1>13. DestroyInv'
  <2>1. \A u \in Thread : pc'[u] = "destroy_add" => pc[u] = "destroy_add"
    BY <1>2
  <2>2. Complete(Last)' = Complete(Last)
    BY <1>6 DEF Complete
  <2> QED  BY <1>1, <1>3, <2>1, <2>2 DEF IInv, DestroyInv
<1> QED  BY <1>5, <1>7, <1>8, <1>9, <1>10, <1>11, <1>12, <1>13 DEF IInv

(* The third store of the reset makes tickets valid again.                 *)
LEMMA ResetEnteredKeeps ==
    ASSUME IInv, NEW t \in Thread, ResetEntered(t)
    PROVE  IInv' /\ Inside = {} /\ Inside' = {}
<1>1. UNCHANGED <<exited, round, ticket, seen, balance>> /\ pc[t] = "reset_entered" /\ entered' = 0
      /\ pc' = [pc EXCEPT ![t] = "reset_wake"] /\ "reset_wake" \in Pc
  BY DEF ResetEntered, Goto, Pc, LeavingPc
<1>2. /\ pc' \in [Thread -> Pc]
      /\ \A u \in Thread : pc'[u] = IF u = t THEN "reset_wake" ELSE pc[u]
  BY <1>1, Moved
<1>3. /\ Inside' = Inside /\ Pending' = Pending
      /\ At(OverPc)' = At(OverPc) /\ At(EnteringPc)' = At(EnteringPc)
      /\ At(DestroyPc)' = At(DestroyPc) /\ At(AddedPc)' = At(AddedPc)
      /\ At({"destroyed"})' = At({"destroyed"})
  BY <1>1, <1>2 DEF At, Inside, Pending, InsidePc, LeavingPc, OverPc, EnteringPc, DestroyPc, AddedPc
<1>4. t \in At(ResetPc) /\ t \in At({"reset_entered"}) /\ t \in At({"reset_exited", "reset_entered"})
  BY <1>1 DEF At, ResetPc
<1>5. At(ResetPc)' = {} /\ At(FullPc)' = {} /\ At({"reset_entered"})' = {}
      /\ At({"reset_exited", "reset_entered"})' = {}
  <2>1. \A u \in Thread : pc[u] \in ResetPc => u = t
    BY <1>4 DEF IInv, ResetInv, At
  <2> QED  BY <1>2, <2>1 DEF At, ResetPc, FullPc
<1>6. Inside = {} /\ exited = 0 /\ round = 0 /\ (At(AddedPc) = {} => entered >= Limit)
  BY <1>4 DEF IInv, ResetInv
<1>7. Limit \in Nat /\ Limit > 0 /\ Rem(0) = 0 /\ Complete(0) = 0
  BY LimitFacts
<1>8. Last' = 0 /\ Complete(Last)' = 0 /\ Rem(Last)' = 0
  <2>1. Last' = 0
    BY <1>1, <1>7 DEF Last
  <2> QED  BY <1>7, <2>1 DEF Complete, Rem
<1>9. TypeOK'
  <2>1. 0 \in 0..(Limit + Cardinality(Thread))
    BY <1>7, CountAssumption, FS_CardinalityType
  <2> QED  BY <1>1, <1>2, <2>1 DEF IInv, TypeOK, Pc
<1>10. TicketInv'
  BY <1>3, <1>6, <1>8 DEF TicketInv
<1>11. RoundInv'
  <2>1. \A u \in Thread : pc'[u] = "exit" => pc[u] = "exit"
    BY <1>2
  <2> QED  BY <1>1, <1>3, <1>6, <1>8, <2>1 DEF IInv, RoundInv
<1>12. ResetInv'
  BY <1>5 DEF ResetInv
<1>13. ExitInv'
  <2>1. Cardinality(Inside)' = 0
    BY <1>3, <1>6, FS_EmptySet
  <2> QED  BY <1>1, <1>6, <1>8, <2>1 DEF ExitInv
<1>14. OverInv'
  <2>1. Cardinality(At(OverPc)) \in Nat
    BY AtFinite
  <2> QED  BY <1>1, <1>3, <1>7, <2>1 DEF OverInv
<1>15. BalanceInv'
  <2>1. Serial' = Serial
    BY <1>1, <1>3, SerialFrame
  <2>2. Rem(Last) = 0
    BY <1>6, AllComplete DEF IInv
  <2> QED  BY <1>1, <1>3, <1>8, <2>1, <2>2 DEF IInv, BalanceInv
<1>16. DestroyInv'
  <2>1. ASSUME NEW u \in Thread, pc'[u] = "destroy_add"
        PROVE  ticket'[u] = entered' \/ (entered' = 0 /\ ticket'[u] = Limit)
    <3>1. pc[u] = "destroy_add" /\ u \in At(DestroyPc)
      BY <1>2, <2>1 DEF At, DestroyPc
    <3>2. At(AddedPc) = {}
      <4>1. \A v \in Thread : pc[v] \in DestroyPc => v = u
        BY <3>1 DEF IInv, DestroyInv, At
      <4> QED  BY <3>1, <4>1 DEF At, AddedPc, DestroyPc
    <3>3. At(OverPc) = {}
      <4>1. At(EnteringPc) = {}
        BY <3>1 DEF IInv, DestroyInv
      <4> QED  BY <4>1 DEF At, OverPc, EnteringPc
    <3>4. entered <= Limit + 0
      BY <3>3, FS_EmptySet DEF IInv, OverInv
    <3>5. entered = Limit
      <4>1. entered \in Nat
        BY LastFacts DEF IInv
      <4> QED  BY <1>6, <1>7, <3>2, <3>4, <4>1
    <3>6. ticket[u] = Limit
      BY <1>7, <3>1, <3>5 DEF IInv, DestroyInv
    <3> QED  BY <1>1, <3>6
  <2> QED  BY <1>3, <1>6, <2>1 DEF IInv, DestroyInv
<1>17. IInv'
  BY <1>9, <1>10, <1>11, <1>12, <1>13, <1>14, <1>15, <1>16 DEF IInv
<1> QED  BY <1>3, <1>6, <1>17

(* pthread_barrier_wait() returns.                                         *)
LEMMA ResultKeeps ==
    ASSUME IInv, NEW t \in Thread, Result(t)
    PROVE  IInv'
<1>0. PICK l \in OutsidePc :
          pc' = [pc EXCEPT ![t] = l] /\ (l = "serial" <=> Rem(ticket[t]) = 0)
          /\ balance' = balance + (IF Rem(ticket[t]) = 0 THEN 1 - Count ELSE 1)
  <2>1. CASE Rem(ticket[t]) = 0
    BY <2>1 DEF Result, Goto, OutsidePc, Rem
  <2>2. CASE Rem(ticket[t]) # 0
    BY <2>2 DEF Result, Goto, OutsidePc, Rem
  <2> QED  BY <2>1, <2>2
<1>1. UNCHANGED <<entered, exited, round, ticket, seen>> /\ pc[t] = "result" /\ l \in Pc
  BY DEF Result, Pc
<1>2. /\ pc' \in [Thread -> Pc]
      /\ \A u \in Thread : pc'[u] = IF u = t THEN l ELSE pc[u]
  BY <1>0, <1>1, Moved
<1>3. /\ Inside' = Inside
      /\ At(FullPc)' = At(FullPc) /\ At({"reset_entered"})' = At({"reset_entered"})
      /\ At({"reset_exited", "reset_entered"})' = At({"reset_exited", "reset_entered"})
      /\ At(ResetPc)' = At(ResetPc)
      /\ At(OverPc)' = At(OverPc) /\ At(EnteringPc)' = At(EnteringPc)
      /\ At(DestroyPc)' = At(DestroyPc) /\ At(AddedPc)' = At(AddedPc)
      /\ At({"destroyed"})' = At({"destroyed"})
  BY <1>1, <1>2 DEF At, Inside, OutsidePc, InsidePc, ResetPc, FullPc, OverPc, EnteringPc,
                    DestroyPc, AddedPc
<1>4. /\ Pending' = Pending \ {t} /\ t \in Pending
      /\ Cardinality(Pending') = Cardinality(Pending) - 1 /\ Cardinality(Pending) \in Nat
  <2>1. pc[t] \in InsidePc \cup LeavingPc /\ l \notin InsidePc \cup LeavingPc
    BY <1>1 DEF OutsidePc, InsidePc, LeavingPc
  <2>2. PICK P : P = InsidePc \cup LeavingPc
    OBVIOUS
  <2>3. pc[t] \in P /\ l \notin P
    BY <2>1, <2>2
  <2>4. /\ At(P)' = At(P) \ {t} /\ t \in At(P)
        /\ Cardinality(At(P)') = Cardinality(At(P)) - 1 /\ Cardinality(At(P)) \in Nat
    BY <1>2, <2>3, AtGone
  <2> QED  BY <2>2, <2>4 DEF Pending
<1>5. Last' = Last /\ Rem(Last) \in Int /\ Count \in Nat
  <2>1. Rem(Last) \in 0..(Count - 1) /\ Count \in Nat
    BY LastFacts DEF IInv
  <2> QED  BY <1>1, <2>1 DEF Last
<1>6. TypeOK'
  <2>1. balance' \in Int
    BY <1>0, <1>5 DEF IInv, TypeOK
  <2> QED  BY <1>1, <1>2, <2>1 DEF IInv, TypeOK, Pc
<1>7. TicketInv'
  BY <1>1, <1>3, <1>5, TicketFrame DEF IInv
<1>8. RoundInv'
  <2>1. \A u \in Thread : pc'[u] \in InsidePc => pc[u] = pc'[u]
    BY <1>2 DEF InsidePc, OutsidePc
  <2>2. \A u \in Thread : pc'[u] = "exit" => ticket'[u] <= seen[u]
    BY <1>1, <1>2 DEF IInv, RoundInv, OutsidePc
  <2> QED  BY <1>1, <2>1, <2>2, RoundFrame DEF IInv
<1>9. ResetInv'
  BY <1>1, <1>3 DEF IInv, ResetInv
<1>10. ExitInv'
  BY <1>1, <1>3, <1>5 DEF IInv, ExitInv
<1>11. OverInv'
  BY <1>1, <1>3 DEF IInv, OverInv
<1>12. BalanceInv'
  <2>1. IsFiniteSet(Serial)
    BY SerialFinite
  <2>2. PICK s \in Nat : s = Cardinality(Serial)
    BY SerialFinite
  <2>3. PICK x \in Int : x = Count * s
    BY <1>5
  <2>4. PICK p \in Nat : p = Cardinality(Pending)
    BY <1>4
  <2>5. PICK r \in Int : r = Rem(Last)
    BY <1>5
  <2>6. balance = r - p + x
    BY <2>2, <2>3, <2>4, <2>5 DEF IInv, BalanceInv
  <2>7. Rem(Last)' = r /\ Cardinality(Pending)' = p - 1
    BY <1>4, <1>5, <2>4, <2>5 DEF Rem
  <2>8. CASE Rem(ticket[t]) = 0
    <3>1. Serial' = Serial \ {t} /\ t \in Serial
      BY <1>1, <1>4, <2>8 DEF Serial, Rem
    <3>2. Cardinality(Serial)' = s - 1
      BY <2>1, <2>2, <3>1, FS_RemoveElement
    <3>3. Count * (s - 1) = x - Count
      BY <1>5, <2>3
    <3>4. Count * Cardinality(Serial)' = x - Count
      BY <3>2, <3>3
    <3>5. balance' = r - (p - 1) + (x - Count)
      BY <1>0, <1>5, <2>6, <2>8
    <3> QED  BY <2>7, <3>4, <3>5, Zenon DEF BalanceInv
  <2>9. CASE Rem(ticket[t]) # 0
    <3>1. Serial' = Serial
      BY <1>1, <1>4, <2>9 DEF Serial, Rem
    <3>2. Count * Cardinality(Serial)' = x
      BY <2>2, <2>3, <3>1
    <3>3. balance' = r - (p - 1) + x
      BY <1>0, <2>6, <2>9
    <3> QED  BY <2>7, <3>2, <3>3, Zenon DEF BalanceInv
  <2> QED  BY <2>8, <2>9
<1>13. DestroyInv'
  <2>1. \A u \in Thread : pc'[u] = "destroy_add" => pc[u] = "destroy_add"
    BY <1>2 DEF OutsidePc
  <2>2. Complete(Last)' = Complete(Last)
    BY <1>5 DEF Complete
  <2> QED  BY <1>1, <1>3, <2>1, <2>2 DEF IInv, DestroyInv
<1> QED  BY <1>6, <1>7, <1>8, <1>9, <1>10, <1>11, <1>12, <1>13 DEF IInv

(* pthread_barrier_destroy() begins.                                       *)
LEMMA DestroyKeeps ==
    ASSUME ~EarlyDestroy, IInv, NEW t \in Thread, Destroy(t)
    PROVE  IInv' /\ Last' = Last /\ Inside' = Inside /\ \A u \in Inside : ticket'[u] = ticket[u]
<1>1. UNCHANGED <<entered, exited, round, seen, balance>> /\ pc[t] \in OutsidePc
      /\ At(DestroyPc) = {} /\ At(EnteringPc) = {} /\ NoWaiters
      /\ ticket' = [ticket EXCEPT ![t] = entered] /\ pc' = [pc EXCEPT ![t] = "destroy_add"]
      /\ "destroy_add" \in Pc
  BY DEF Destroy, Goto, Pc, DestroyPc
<1>2. /\ pc' \in [Thread -> Pc]
      /\ \A u \in Thread : pc'[u] = IF u = t THEN "destroy_add" ELSE pc[u]
  BY <1>1, Moved
<1>3. /\ Inside' = Inside /\ Pending' = Pending
      /\ At(FullPc)' = At(FullPc) /\ At({"reset_entered"})' = At({"reset_entered"})
      /\ At({"reset_exited", "reset_entered"})' = At({"reset_exited", "reset_entered"})
      /\ At(ResetPc)' = At(ResetPc) /\ At(OverPc)' = At(OverPc)
      /\ At(EnteringPc)' = At(EnteringPc) /\ At(AddedPc)' = At(AddedPc)
  BY <1>1, <1>2 DEF At, Inside, Pending, OutsidePc, InsidePc, LeavingPc, ResetPc, FullPc, OverPc,
                    EnteringPc, AddedPc
<1>4. TypeOK'
  <2>1. ticket' \in [Thread -> 0..(Limit + Cardinality(Thread))]
    BY <1>1 DEF IInv, TypeOK
  <2> QED  BY <1>1, <1>2, <2>1 DEF IInv, TypeOK, Pc
<1>5. ticket'[t] = entered /\ \A u \in Thread : u # t => ticket'[u] = ticket[u]
  BY <1>1 DEF IInv, TypeOK
<1>6. t \notin Pending /\ t \notin Inside
  BY <1>1 DEF Pending, Inside, At, OutsidePc, InsidePc, LeavingPc
<1>7. (\A u \in Pending : ticket'[u] = ticket[u]) /\ (\A u \in Inside : ticket'[u] = ticket[u])
  BY <1>5, <1>6 DEF Pending, Inside, At
<1>8. Last' = Last /\ Complete(Last)' = Complete(Last)
  BY <1>1 DEF Last, Complete
<1>9. TicketInv'
  BY <1>3, <1>7, <1>8, TicketFrame DEF IInv
<1>10. RoundInv'
  <2>1. \A u \in Thread : pc'[u] \in InsidePc => pc[u] = pc'[u]
    BY <1>2 DEF InsidePc
  <2>2. \A u \in Thread : pc'[u] = "exit" => ticket'[u] <= seen[u]
    BY <1>2, <1>5 DEF IInv, RoundInv
  <2> QED  BY <1>1, <2>1, <2>2, RoundFrame DEF IInv
<1>11. ResetInv'
  BY <1>1, <1>3 DEF IInv, ResetInv
<1>12. ExitInv'
  BY <1>1, <1>3, <1>8 DEF IInv, ExitInv
<1>13. OverInv'
  BY <1>1, <1>3 DEF IInv, OverInv
<1>14. BalanceInv'
  <2>1. Serial' = Serial
    BY <1>3, <1>7, SerialFrame
  <2> QED  BY <1>1, <1>3, <1>8, <2>1 DEF IInv, BalanceInv, Rem
<1>15. Last = entered
  <2>1. At(OverPc) = {}
    BY <1>1 DEF At, OverPc, EnteringPc
  <2>2. entered <= Limit + 0
    BY <2>1, FS_EmptySet DEF IInv, OverInv
  <2>3. Limit \in Nat /\ entered \in Nat /\ (entered <= Limit => Last = entered)
    BY LastFacts DEF IInv
  <2> QED  BY <2>2, <2>3
<1>16. DestroyInv'
  <2>1. At(DestroyPc)' = {t} /\ At({"destroyed"})' = {}
    BY <1>1, <1>2 DEF At, DestroyPc
  <2>2. \A u \in Thread : pc'[u] = "destroy_add" => u = t
    BY <1>1, <1>2 DEF At, DestroyPc
  <2>3. At(EnteringPc)' = {}
    BY <1>1, <1>3
  <2>4. \A u \in Inside' : ticket'[u] <= Complete(Last)'
    <3>1. \A u \in Inside : ticket[u] <= Complete(Last)
      BY <1>1, <1>15 DEF NoWaiters, Inside
    <3> QED  BY <1>3, <1>7, <1>8, <3>1
  <2> QED  BY <1>1, <1>5, <2>1, <2>2, <2>3, <2>4 DEF DestroyInv
<1>17. IInv'
  BY <1>4, <1>9, <1>10, <1>11, <1>12, <1>13, <1>14, <1>16 DEF IInv
<1> QED  BY <1>3, <1>7, <1>8, <1>17

(* It adds to _exited what is missing from the limit, so that the last of  *)
(* the threads inside resets the counters.                                 *)
LEMMA DestroyAddKeeps ==
    ASSUME IInv, NEW t \in Thread, DestroyAdd(t)
    PROVE  IInv'
<1>0. PICK l \in {"destroy_wait", "destroyed"} :
          pc' = [pc EXCEPT ![t] = l] /\ (l = "destroy_wait" <=> exited < ticket[t])
  BY DEF DestroyAdd, Goto
<1>1. UNCHANGED <<entered, round, ticket, seen, balance>> /\ pc[t] = "destroy_add"
      /\ exited' = exited + (Limit - ticket[t]) /\ l \in Pc
  BY DEF DestroyAdd, Pc, DestroyPc
<1>2. /\ pc' \in [Thread -> Pc]
      /\ \A u \in Thread : pc'[u] = IF u = t THEN l ELSE pc[u]
  BY <1>0, <1>1, Moved
<1>3. /\ Inside' = Inside /\ Pending' = Pending
      /\ At(FullPc)' = At(FullPc) /\ At({"reset_entered"})' = At({"reset_entered"})
      /\ At({"reset_exited", "reset_entered"})' = At({"reset_exited", "reset_entered"})
      /\ At(ResetPc)' = At(ResetPc) /\ At(OverPc)' = At(OverPc)
      /\ At(EnteringPc)' = At(EnteringPc) /\ At(DestroyPc)' = At(DestroyPc)
  BY <1>1, <1>2 DEF At, Inside, Pending, InsidePc, LeavingPc, ResetPc, FullPc, OverPc,
                    EnteringPc, DestroyPc
<1>4. t \in At(DestroyPc) /\ \A u \in Thread : pc[u] \in DestroyPc => u = t
  <2>1. t \in At(DestroyPc)
    BY <1>1 DEF At, DestroyPc
  <2> QED  BY <2>1 DEF IInv, DestroyInv, At
<1>5. At(AddedPc) = {} /\ At(AddedPc)' = {t} /\ At(EnteringPc) = {} /\ At(OverPc) = {}
  <2>1. At(AddedPc) = {} /\ At(AddedPc)' = {t}
    BY <1>1, <1>2, <1>4 DEF At, AddedPc, DestroyPc
  <2>2. At(EnteringPc) = {}
    BY <1>4 DEF IInv, DestroyInv
  <2> QED  BY <2>1, <2>2 DEF At, OverPc, EnteringPc
<1>6. Limit \in Nat /\ Limit > 0 /\ entered \in Nat /\ entered <= Limit /\ Last = entered /\ exited \in 0..Limit
  <2>1. Limit \in Nat /\ entered \in Nat /\ (entered <= Limit => Last = entered)
    BY LastFacts DEF IInv
  <2>2. entered <= Limit + 0
    BY <1>5, FS_EmptySet DEF IInv, OverInv
  <2> QED  BY <2>1, <2>2, LimitFacts DEF IInv, TypeOK
<1>7. ticket[t] = entered \/ (entered = 0 /\ ticket[t] = Limit)
  BY <1>1 DEF IInv, DestroyInv
<1>8. PICK c \in Nat : c = Cardinality(Inside) /\ (c = 0 <=> Inside = {})
  BY AtFinite DEF Inside
<1>9. At({"reset_entered"}) = {} => exited + c = entered
  BY <1>5, <1>6, <1>8 DEF IInv, ExitInv
<1>10. At(ResetPc) # {} => Inside = {} /\ entered = Limit /\ ticket[t] = Limit
  BY <1>5, <1>6, <1>7 DEF IInv, ResetInv
<1>11. At({"reset_entered"}) # {} => exited = 0 /\ At(ResetPc) # {}
  BY DEF IInv, ResetInv, At, ResetPc
<1>12. /\ exited' \in 0..Limit
       /\ At({"reset_entered"}) = {} => exited' + c = Limit \/ (entered = 0 /\ exited' = 0)
       /\ At({"reset_entered"}) # {} => exited' = 0
       /\ l = "destroyed" => Inside = {}
  <2>1. CASE At({"reset_entered"}) # {}
    BY <1>0, <1>1, <1>6, <1>10, <1>11, <2>1
  <2>2. CASE At({"reset_entered"}) = {} /\ ticket[t] = entered
    BY <1>0, <1>1, <1>6, <1>8, <1>9, <2>2
  <2>3. CASE At({"reset_entered"}) = {} /\ entered = 0 /\ ticket[t] = Limit
    BY <1>0, <1>1, <1>6, <1>8, <1>9, <2>3
  <2> QED  BY <1>7, <2>1, <2>2, <2>3
<1>13. TypeOK'
  BY <1>1, <1>2, <1>12 DEF IInv, TypeOK, Pc
<1>14. Last' = Last /\ Complete(Last)' = Complete(Last)
  BY <1>1 DEF Last, Complete
<1>15. TicketInv'
  BY <1>1, <1>3, <1>14, TicketFrame DEF IInv
<1>16. RoundInv'
  <2>1. \A u \in Thread : pc'[u] \in InsidePc => pc[u] = pc'[u]
    BY <1>2 DEF InsidePc
  <2>2. \A u \in Thread : pc'[u] = "exit" => ticket'[u] <= seen[u]
    BY <1>1, <1>2 DEF IInv, RoundInv
  <2> QED  BY <1>1, <2>1, <2>2, RoundFrame DEF IInv
<1>17. ResetInv'
  <2>1. At(FullPc) # {} => exited' = Limit
    <3>1. At(FullPc) # {} => exited = Limit /\ At(ResetPc) # {}
      BY DEF IInv, ResetInv, At, ResetPc
    <3> QED  BY <1>1, <1>6, <1>10, <3>1
  <2>2. \A u, v \in At(ResetPc)' : u = v
    BY <1>3 DEF IInv, ResetInv
  <2>3. At(ResetPc)' # {} => Inside' = {} /\ entered' >= Limit
    BY <1>1, <1>3, <1>6, <1>10
  <2>4. At({"reset_exited", "reset_entered"})' # {} => round' = 0
    BY <1>1, <1>3 DEF IInv, ResetInv
  <2>5. (At(FullPc)' # {} => exited' = Limit) /\ (At({"reset_entered"})' # {} => exited' = 0)
    BY <1>3, <1>12, <2>1
  <2> QED  BY <2>2, <2>3, <2>4, <2>5 DEF ResetInv
<1>18. ExitInv'
  <2>1. Cardinality(Inside)' = c
    BY <1>3, <1>8
  <2> QED  BY <1>1, <1>3, <1>5, <1>12, <2>1 DEF ExitInv
<1>19. OverInv'
  BY <1>1, <1>3 DEF IInv, OverInv
<1>20. BalanceInv'
  <2>1. Serial' = Serial
    BY <1>1, <1>3, SerialFrame
  <2> QED  BY <1>1, <1>3, <1>14, <2>1 DEF IInv, BalanceInv, Rem
<1>21. DestroyInv'
  <2>1. \A u \in Thread : pc'[u] # "destroy_add"
    BY <1>2, <1>4 DEF DestroyPc
  <2>2. At({"destroyed"})' # {} => l = "destroyed"
    BY <1>2, <1>4 DEF At, DestroyPc
  <2> QED  BY <1>1, <1>3, <1>12, <1>14, <2>1, <2>2 DEF IInv, DestroyInv
<1> QED  BY <1>13, <1>15, <1>16, <1>17, <1>18, <1>19, <1>20, <1>21 DEF IInv

(* It has been woken, and returns if the counters have been reset.         *)
LEMMA DestroyReloadKeeps ==
    ASSUME IInv, NEW t \in Thread, DestroyReload(t)
    PROVE  IInv' /\ Last' = Last /\ Inside' = Inside /\ \A u \in Inside : ticket'[u] = ticket[u]
<1>0. PICK l \in {"destroy_wait", "destroyed"} :
          pc' = [pc EXCEPT ![t] = l] /\ (l = "destroyed" => entered = 0)
  BY DEF DestroyReload, Goto
<1>1. UNCHANGED <<entered, exited, round, seen, balance>> /\ pc[t] = "destroy_reload"
      /\ ticket' = [ticket EXCEPT ![t] = entered] /\ l \in Pc
  BY DEF DestroyReload, Pc, DestroyPc
<1>2. /\ pc' \in [Thread -> Pc]
      /\ \A u \in Thread : pc'[u] = IF u = t THEN l ELSE pc[u]
  BY <1>0, <1>1, Moved
<1>3. /\ Inside' = Inside /\ Pending' = Pending
      /\ At(FullPc)' = At(FullPc) /\ At({"reset_entered"})' = At({"reset_entered"})
      /\ At({"reset_exited", "reset_entered"})' = At({"reset_exited", "reset_entered"})
      /\ At(ResetPc)' = At(ResetPc) /\ At(OverPc)' = At(OverPc)
      /\ At(EnteringPc)' = At(EnteringPc) /\ At(DestroyPc)' = At(DestroyPc)
      /\ At(AddedPc)' = At(AddedPc)
  BY <1>1, <1>2 DEF At, Inside, Pending, InsidePc, LeavingPc, ResetPc, FullPc, OverPc,
                    EnteringPc, DestroyPc, AddedPc
<1>4. TypeOK'
  <2>1. ticket' \in [Thread -> 0..(Limit + Cardinality(Thread))]
    BY <1>1 DEF IInv, TypeOK
  <2> QED  BY <1>1, <1>2, <2>1 DEF IInv, TypeOK, Pc
<1>5. \A u \in Thread : u # t => ticket'[u] = ticket[u]
  BY <1>1 DEF IInv, TypeOK
<1>6. t \notin Pending /\ t \notin Inside
  BY <1>1 DEF Pending, Inside, At, InsidePc, LeavingPc
<1>7. (\A u \in Pending : ticket'[u] = ticket[u]) /\ (\A u \in Inside : ticket'[u] = ticket[u])
  BY <1>5, <1>6 DEF Pending, Inside, At
<1>8. Last' = Last /\ Complete(Last)' = Complete(Last)
  BY <1>1 DEF Last, Complete
<1>9. TicketInv'
  BY <1>3, <1>7, <1>8, TicketFrame DEF IInv
<1>10. RoundInv'
  <2>1. \A u \in Thread : pc'[u] \in InsidePc => pc[u] = pc'[u]
    BY <1>2 DEF InsidePc
  <2>2. \A u \in Thread : pc'[u] = "exit" => ticket'[u] <= seen[u]
    BY <1>2, <1>5 DEF IInv, RoundInv
  <2> QED  BY <1>1, <2>1, <2>2, RoundFrame DEF IInv
<1>11. ResetInv'
  BY <1>1, <1>3 DEF IInv, ResetInv
<1>12. ExitInv'
  BY <1>1, <1>3, <1>8 DEF IInv, ExitInv
<1>13. OverInv'
  BY <1>1, <1>3 DEF IInv, OverInv
<1>14. BalanceInv'
  <2>1. Serial' = Serial
    BY <1>3, <1>7, SerialFrame
  <2> QED  BY <1>1, <1>3, <1>8, <2>1 DEF IInv, BalanceInv, Rem
<1>15. DestroyInv'
  <2>1. \A u \in Thread : pc'[u] = "destroy_add" => pc[u] = "destroy_add" /\ u # t
    BY <1>2
  <2>2. l = "destroyed" => Inside = {}
    <3>1. ASSUME l = "destroyed" PROVE Last = 0
      BY <1>0, <3>1, LimitFacts DEF Last
    <3>2. ASSUME Last = 0, NEW u \in Inside PROVE FALSE
      BY <3>2 DEF IInv, TicketInv
    <3> QED  BY <3>1, <3>2
  <2>3. At({"destroyed"})' # {} => l = "destroyed" \/ At({"destroyed"}) # {}
    BY <1>2 DEF At
  <2>4. At({"destroyed"})' # {} => Inside' = {}
    BY <1>3, <2>2, <2>3 DEF IInv, DestroyInv
  <2> QED  BY <1>1, <1>3, <1>5, <1>7, <1>8, <2>1, <2>4 DEF IInv, DestroyInv
<1>16. IInv'
  BY <1>4, <1>9, <1>10, <1>11, <1>12, <1>13, <1>14, <1>15 DEF IInv
<1> QED  BY <1>3, <1>7, <1>8, <1>16

-----------------------------------------------------------------------------
(* The invariant                                                           *)

LEMMA InitInv == Init => IInv
<1> SUFFICES ASSUME Init PROVE IInv
  OBVIOUS
<1>1. \A P : "idle" \notin P => At(P) = {}
  BY DEF Init, At
<1>2. /\ Inside = {} /\ Pending = {} /\ At(FullPc) = {} /\ At({"reset_entered"}) = {}
      /\ At({"reset_exited", "reset_entered"}) = {} /\ At(ResetPc) = {} /\ At(OverPc) = {}
      /\ At(EnteringPc) = {} /\ At(DestroyPc) = {} /\ At(AddedPc) = {} /\ At({"destroyed"}) = {}
  BY <1>1 DEF Inside, Pending, InsidePc, LeavingPc, ResetPc, FullPc, OverPc, EnteringPc,
              DestroyPc, AddedPc
<1>3. Limit \in Nat /\ Limit > 0 /\ Rem(0) = 0 /\ Complete(0) = 0 /\ Cardinality(Thread) \in Nat
  BY LimitFacts, CountAssumption, FS_CardinalityType
<1>4. Last = 0 /\ Cardinality({}) = 0 /\ Serial = {}
  BY <1>2, <1>3, FS_EmptySet DEF Init, Last, Serial
<1>5. TypeOK
  <2>1. 0 \in 0..Limit /\ 0 \in 0..(Limit + Cardinality(Thread)) /\ "idle" \in Pc
    BY <1>3 DEF Pc, OutsidePc
  <2> QED  BY <2>1 DEF Init, TypeOK, Pc
<1>6. TicketInv
  BY <1>2, <1>3, <1>4 DEF TicketInv
<1>7. RoundInv
  BY <1>2, <1>3, <1>4 DEF Init, RoundInv
<1>8. ResetInv
  BY <1>2 DEF ResetInv
<1>9. ExitInv
  BY <1>2, <1>4 DEF Init, ExitInv
<1>10. OverInv
  BY <1>2, <1>3, <1>4 DEF Init, OverInv
<1>11. BalanceInv
  BY <1>2, <1>3, <1>4, CountAssumption DEF Init, BalanceInv
<1>12. DestroyInv
  BY <1>2 DEF Init, DestroyInv
<1> QED  BY <1>5, <1>6, <1>7, <1>8, <1>9, <1>10, <1>11, <1>12 DEF IInv

LEMMA StutterInv == IInv /\ UNCHANGED vars => IInv'
BY DEF vars, IInv, TypeOK, TicketInv, RoundInv, ResetInv, ExitInv, OverInv, BalanceInv, DestroyInv,
       Inside, Pending, Serial, Last, Complete, Rem, At

LEMMA NextInv ==
    ASSUME ~EarlyDestroy
    PROVE  IInv /\ [Next]_vars => IInv'
<1> SUFFICES ASSUME IInv, [Next]_vars PROVE IInv'
  OBVIOUS
<1>1. CASE UNCHANGED vars
  BY <1>1, StutterInv
<1>2. CASE Next
  <2>1. PICK t \in Thread : Call(t) \/ Destroy(t) \/ Step(t) \/ FutexInterrupted(t)
    BY <1>2 DEF Next
  <2>2. CASE Call(t)
    BY <2>2, CallKeeps
  <2>3. CASE Destroy(t)
    BY <2>3, DestroyKeeps
  <2>4. CASE FutexInterrupted(t)
    BY <2>4, FutexInterruptedKeeps
  <2>5. CASE Enter(t)
    <3>1. entered \in Nat /\ Limit \in Nat
      BY LastFacts DEF IInv
    <3>2. entered + 1 <= Limit \/ entered + 1 > Limit
      BY <3>1
    <3> QED  BY <2>5, <3>2, EnterKeeps, EnterOverKeeps
  <2>6. CASE OverWait(t) \/ RoundWait(t) \/ DestroyWait(t)
    BY <2>6, WaitKeeps
  <2>7. CASE OverReload(t)
    BY <2>7, OverReloadKeeps
  <2>8. CASE LoadRound(t) \/ RoundReload(t)
    BY <2>8, RoundReadKeeps
  <2>9. CASE CasRound(t)
    BY <2>9, CasRoundKeeps
  <2>10. CASE WakeRound(t) \/ ResetWake(t)
    BY <2>10, WakeKeeps
  <2>11. CASE Exit(t)
    BY <2>11, ExitKeeps
  <2>12. CASE ResetRound(t)
    BY <2>12, ResetRoundKeeps
  <2>13. CASE ResetExited(t)
    BY <2>13, ResetExitedKeeps
  <2>14. CASE ResetEntered(t)
    BY <2>14, ResetEnteredKeeps
  <2>15. CASE Result(t)
    BY <2>15, ResultKeeps
  <2>16. CASE DestroyAdd(t)
    BY <2>16, DestroyAddKeeps
  <2>17. CASE DestroyReload(t)
    BY <2>17, DestroyReloadKeeps
  <2> QED  BY <2>1, <2>2, <2>3, <2>4, <2>5, <2>6, <2>7, <2>8, <2>9, <2>10, <2>11, <2>12, <2>13,
              <2>14, <2>15, <2>16, <2>17, Zenon DEF Step
<1> QED  BY <1>1, <1>2

(* The inductive invariant holds in every reachable state of the barrier,  *)
(* through any number of rounds and resets of its counters, if nobody      *)
(* calls pthread_barrier_destroy() before all waiters have been released.  *)
THEOREM Invariance ==
    ASSUME ~EarlyDestroy
    PROVE  Spec => []IInv
BY InitInv, NextInv, PTL DEF Spec

(* The counters never leave their range; when nobody is inside             *)
(* pthread_barrier_wait(), every Count of the calls that returned include  *)
(* exactly one that returned PTHREAD_BARRIER_SERIAL_THREAD; and            *)
(* pthread_barrier_destroy() returns when everyone has been counted out.   *)
(* The hypothesis is on the application: it calls destroy when all waiters *)
(* have been released. Without it the code fails (NoUseAfterDestroy).      *)
THEOREM RoundsComplete ==
    ASSUME ~EarlyDestroy
    PROVE  Spec => []BarrierInv
<1>1. ASSUME IInv PROVE BarrierInv
  <2>1. TypeOK /\ DestroyAfterExits
    BY <1>1 DEF IInv, DestroyInv, DestroyAfterExits, Inside
  <2>2. ASSUME At(OutsidePc) = Thread PROVE balance = 0
    <3>1. \A u \in Thread : pc[u] \in OutsidePc
      BY <2>2 DEF At
    <3>2. Inside = {} /\ Pending = {} /\ Serial = {}
      BY <3>1 DEF Inside, Pending, Serial, At, OutsidePc, InsidePc, LeavingPc
    <3>3. Rem(Last) = 0
      BY <1>1, <3>2, AllComplete DEF IInv
    <3>4. Cardinality(Pending) = 0 /\ Cardinality(Serial) = 0
      BY <3>2, FS_EmptySet
    <3> QED  BY <1>1, <3>3, <3>4, CountAssumption DEF IInv, BalanceInv
  <2> QED  BY <2>1, <2>2 DEF BarrierInv, OneSerialPerRound
<1> QED  BY <1>1, Invariance, PTL

-----------------------------------------------------------------------------
(* Refinement                                                              *)

(* Steps that the abstract barrier does not see.                           *)
LEMMA Unseen ==
    ASSUME Inside' = Inside, \A u \in Inside : ticket'[u] = ticket[u], Last' = Last
    PROVE  Waiting' = Waiting /\ Released' = Released
BY DEF Waiting, Released, Complete

LEMMA UnseenSteps ==
    ASSUME IInv, NEW t \in Thread,
           \/ Call(t) \/ FutexInterrupted(t) \/ OverWait(t) \/ OverReload(t) \/ LoadRound(t)
           \/ CasRound(t) \/ WakeRound(t) \/ RoundWait(t) \/ RoundReload(t) \/ ResetRound(t)
           \/ ResetExited(t) \/ ResetWake(t) \/ Result(t) \/ DestroyAdd(t) \/ DestroyWait(t)
    PROVE  Inside' = Inside /\ Last' = Last /\ \A u \in Inside : ticket'[u] = ticket[u]
<1>1. entered' = entered
  BY DEF Call, FutexInterrupted, OverWait, OverReload, LoadRound, CasRound, WakeRound, RoundWait,
         RoundReload, ResetRound, ResetExited, ResetWake, Result, DestroyAdd, DestroyWait
<1>2. Last' = Last
  BY <1>1 DEF Last
<1>3. \A u \in Inside : ticket'[u] = ticket[u]
  <2>1. CASE OverReload(t)
    <3>1. t \notin Inside
      BY <2>1 DEF OverReload, Inside, At, InsidePc
    <3> QED  BY <2>1, <3>1 DEF OverReload, IInv, TypeOK, Inside, At
  <2>2. CASE ~OverReload(t)
    BY <2>2 DEF Call, FutexInterrupted, OverWait, LoadRound, CasRound, WakeRound, RoundWait,
         RoundReload, ResetRound, ResetExited, ResetWake, Result, DestroyAdd, DestroyWait
  <2> QED  BY <2>1, <2>2
<1>4. \A u \in Thread : pc'[u] \in InsidePc <=> pc[u] \in InsidePc
  <2>0. pc \in [Thread -> Pc]
    BY DEF IInv, TypeOK, Pc
  <2>1. CASE WakeRound(t) \/ ResetWake(t)
    <3>1. CASE WakeRound(t)
      BY <3>1 DEF WakeRound, FutexWake, AfterSleep, InsidePc
    <3>2. CASE ResetWake(t)
      BY <3>2 DEF ResetWake, FutexWake, AfterSleep, InsidePc
    <3> QED  BY <2>1, <3>1, <3>2
  <2>2. CASE FutexInterrupted(t)
    <3>1. pc[t] \in DOMAIN AfterSleep /\ pc' = [pc EXCEPT ![t] = AfterSleep[pc[t]]]
      BY <2>2 DEF FutexInterrupted, Goto
    <3>2. AfterSleep[pc[t]] \in InsidePc <=> pc[t] \in InsidePc
      BY <3>1, WokenClass DEF SameClass
    <3> QED  BY <2>0, <3>1, <3>2
  <2>3. CASE LoadRound(t) \/ CasRound(t) \/ RoundWait(t) \/ RoundReload(t)
    BY <2>0, <2>3 DEF LoadRound, CasRound, RoundWait, RoundReload, FutexWait, Goto, Advance,
                      AfterSleep, InsidePc
  <2>4. CASE Call(t) \/ OverWait(t) \/ OverReload(t) \/ Result(t)
    BY <2>0, <2>4 DEF Call, OverWait, OverReload, Result, FutexWait, Goto, AfterSleep, InsidePc,
                      OutsidePc
  <2>5. CASE ResetRound(t) \/ ResetExited(t) \/ DestroyAdd(t) \/ DestroyWait(t)
    BY <2>0, <2>5 DEF ResetRound, ResetExited, DestroyAdd, DestroyWait, FutexWait, Goto, AfterSleep,
                      InsidePc
  <2> QED  BY <2>1, <2>2, <2>3, <2>4, <2>5
<1>5. Inside' = Inside
  BY <1>4 DEF Inside, At
<1> QED  BY <1>2, <1>3, <1>5

(* Drawing a valid ticket is an arrival.                                   *)
LEMMA EnterArrives ==
    ASSUME IInv, NEW t \in Thread, Enter(t), entered + 1 <= Limit
    PROVE  /\ t \notin Waiting \cup Released
           /\ IF Cardinality(Waiting) + 1 = Count
              THEN Waiting' = {} /\ Released' = Released \cup Waiting \cup {t}
              ELSE Waiting' = Waiting \cup {t} /\ Released' = Released
<1>1. /\ Last' = Last + 1 /\ Inside' = Inside \cup {t} /\ t \notin Inside
      /\ ticket'[t] = Last + 1 /\ \A u \in Inside : ticket'[u] = ticket[u]
  BY EnterKeeps
<1>2. Last \in Nat /\ Complete(Last) \in 0..Last
  BY LastFacts DEF IInv
<1>3. \A u \in Inside : ticket[u] \in 1..Last
  BY DEF IInv, TicketInv
<1>4. Cardinality(Waiting) = Rem(Last)
  BY WaitingCount DEF IInv
<1>5. Complete(Last)' = Complete(Last + 1)
  BY <1>1 DEF Complete
<1>6. CASE Rem(Last) + 1 = Count
  <2>1. Complete(Last)' = Last + 1
    BY <1>2, <1>5, <1>6, CompleteNext
  <2>2. Waiting' = {}
    BY <1>1, <1>2, <1>3, <2>1 DEF Waiting
  <2>3. Released' = Inside \cup {t}
    BY <1>1, <1>2, <1>3, <2>1 DEF Released
  <2>4. Released \cup Waiting = Inside
    BY <1>2, <1>3 DEF Released, Waiting
  <2>5. t \notin Waiting \cup Released
    BY <1>1 DEF Released, Waiting
  <2> QED  BY <1>4, <1>6, <2>2, <2>3, <2>4, <2>5
<1>7. CASE Rem(Last) + 1 # Count
  <2>1. Complete(Last)' = Complete(Last)
    BY <1>2, <1>5, <1>7, CompleteNext
  <2>2. Waiting' = Waiting \cup {t}
    BY <1>1, <1>2, <1>3, <2>1 DEF Waiting
  <2>3. Released' = Released
    BY <1>1, <1>2, <1>3, <2>1 DEF Released
  <2>5. t \notin Waiting \cup Released
    BY <1>1 DEF Released, Waiting
  <2> QED  BY <1>4, <1>7, <2>2, <2>3, <2>5
<1> QED  BY <1>6, <1>7

(* Being counted in _exited is leaving.                                    *)
LEMMA ExitLeaves ==
    ASSUME IInv, NEW t \in Thread, Exit(t)
    PROVE  t \in Released /\ Released' = Released \ {t} /\ Waiting' = Waiting
<1>1. Last' = Last /\ Inside' = Inside \ {t} /\ t \in Released /\ ticket' = ticket
  BY ExitKeeps
<1>2. Complete(Last)' = Complete(Last)
  BY <1>1 DEF Complete
<1>3. t \notin Waiting
  <2>1. Last \in Nat /\ Complete(Last) \in 0..Last
    BY LastFacts DEF IInv
  <2>2. \A u \in Inside : ticket[u] \in 1..Last
    BY DEF IInv, TicketInv
  <2> QED  BY <1>1, <2>1, <2>2 DEF Waiting, Released
<1>4. Released' = Released \ {t}
  BY <1>1, <1>2 DEF Released
<1>5. Waiting' = Waiting
  BY <1>1, <1>2, <1>3 DEF Waiting
<1> QED  BY <1>1, <1>4, <1>5

(* pthread_barrier_wait() lets threads through Count at a time and nobody  *)
(* before its round is complete, for every count, every limit, and across  *)
(* the reset of the counters: the tickets implement the abstract barrier,  *)
(* as long as destroy is not called before all waiters have been released. *)
THEOREM Refinement ==
    ASSUME ~EarlyDestroy
    PROVE  Spec => ImplementsBarrier
<1>1. Init => B!Init
  <2>1. ASSUME Init PROVE At(InsidePc) = {}
    BY <2>1 DEF Init, At, InsidePc
  <2> QED  BY <2>1 DEF B!Init
<1>2. ASSUME IInv, [Next]_vars
      PROVE  \/ \E t \in Thread :
                    /\ t \notin Waiting \cup Released
                    /\ IF Cardinality(Waiting) + 1 = Count
                       THEN Waiting' = {} /\ Released' = Released \cup Waiting \cup {t}
                       ELSE Waiting' = Waiting \cup {t} /\ Released' = Released
             \/ \E t \in Thread : t \in Released /\ Released' = Released \ {t} /\ Waiting' = Waiting
             \/ Waiting' = Waiting /\ Released' = Released
  <2>1. CASE UNCHANGED vars
    BY <2>1 DEF vars, Waiting, Released, Inside, At, Last, Complete
  <2>2. CASE Next
    <3>1. PICK t \in Thread : Call(t) \/ Destroy(t) \/ Step(t) \/ FutexInterrupted(t)
      BY <2>2 DEF Next
    <3>2. CASE Enter(t) /\ entered + 1 <= Limit
      BY <1>2, <3>2, EnterArrives
    <3>3. CASE Enter(t) /\ entered + 1 > Limit
      <4>1. Inside' = Inside /\ Last' = Last /\ \A u \in Inside : ticket'[u] = ticket[u]
        BY <1>2, <3>3, EnterOverKeeps
      <4> QED  BY <4>1, Unseen
    <3>4. CASE Exit(t)
      BY <1>2, <3>4, ExitLeaves
    <3>5. CASE ResetEntered(t)
      <4>1. Inside = {} /\ Inside' = {}
        BY <1>2, <3>5, ResetEnteredKeeps
      <4> QED  BY <4>1 DEF Waiting, Released
    <3>6. CASE Destroy(t) \/ DestroyReload(t)
      <4>1. Inside' = Inside /\ Last' = Last /\ \A u \in Inside : ticket'[u] = ticket[u]
        BY <1>2, <3>6, DestroyKeeps, DestroyReloadKeeps
      <4> QED  BY <4>1, Unseen
    <3>7. CASE \/ Call(t) \/ FutexInterrupted(t) \/ OverWait(t) \/ OverReload(t) \/ LoadRound(t)
               \/ CasRound(t) \/ WakeRound(t) \/ RoundWait(t) \/ RoundReload(t) \/ ResetRound(t)
               \/ ResetExited(t) \/ ResetWake(t) \/ Result(t) \/ DestroyAdd(t) \/ DestroyWait(t)
      <4>1. Inside' = Inside /\ Last' = Last /\ \A u \in Inside : ticket'[u] = ticket[u]
        BY <1>2, <3>7, UnseenSteps
      <4> QED  BY <4>1, Unseen
    <3>8. entered + 1 <= Limit \/ entered + 1 > Limit
      <4>1. entered \in Nat /\ Limit \in Nat
        BY <1>2, LastFacts DEF IInv
      <4> QED  BY <4>1
    <3> QED  BY <3>1, <3>2, <3>3, <3>4, <3>5, <3>6, <3>7, <3>8, Zenon DEF Step
  <2> QED  BY <1>2, <2>1, <2>2
<1>3. IInv /\ [Next]_vars
      => [B!Next]_<<{t \in At(InsidePc) : ticket[t] > Complete(Last)},
                    {t \in At(InsidePc) : ticket[t] <= Complete(Last)}>>
  <2> SUFFICES ASSUME IInv, [Next]_vars
               PROVE  [B!Next]_<<Waiting, Released>>
    BY DEF Waiting, Released, Inside
  <2>1. CASE Waiting' = Waiting /\ Released' = Released
    BY <2>1
  <2>2. ASSUME NEW t \in Thread, t \in Released, Released' = Released \ {t}, Waiting' = Waiting
        PROVE  B!Next
    <3>1. B!Leave(t)
      BY <2>2 DEF B!Leave, Waiting, Released, Inside
    <3> QED  BY <3>1 DEF B!Next
  <2>3. ASSUME NEW t \in Thread, t \notin Waiting \cup Released,
               IF Cardinality(Waiting) + 1 = Count
               THEN Waiting' = {} /\ Released' = Released \cup Waiting \cup {t}
               ELSE Waiting' = Waiting \cup {t} /\ Released' = Released
        PROVE  B!Next
    <3>1. B!Arrive(t)
      BY <2>3, Zenon DEF B!Arrive, B!Cardinality, B!IsFiniteSet, Cardinality, IsFiniteSet,
                         Waiting, Released, Inside
    <3> QED  BY <3>1 DEF B!Next
  <2> QED  BY <1>2, <2>1, <2>2, <2>3
<1> QED  BY <1>1, <1>3, Invariance, PTL DEF Spec, ImplementsBarrier, B!Spec

=============================================================================
