------------------------------ MODULE Semaphore ------------------------------
(***************************************************************************)
(* What a counting semaphore promises: a thread gets a unit only by taking *)
(* it out of the count in the same step, a call that fails takes nothing,  *)
(* and a destroyed semaphore has no count until it is initialised again.   *)
(***************************************************************************)
EXTENDS Integers

CONSTANTS Thread, Initial

VARIABLES
    count, \* units left, or -1 when destroyed
    got    \* threads whose last call took a unit

Init == count = Initial /\ got = {}

Post == count >= 0 /\ count' = count + 1 /\ UNCHANGED got

Take(t) == count > 0 /\ count' = count - 1 /\ got' = got \union {t}

Forget(t) == got' = got \ {t} /\ UNCHANGED count

Destroy == count' = -1 /\ UNCHANGED got

Reset == count' = Initial /\ UNCHANGED got

Next == Post \/ Destroy \/ Reset \/ \E t \in Thread : Take(t) \/ Forget(t)

Spec == Init /\ [][Next]_<<count, got>>
=============================================================================
