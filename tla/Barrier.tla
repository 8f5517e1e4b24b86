------------------------------ MODULE Barrier ------------------------------
(***************************************************************************)
(* What a barrier promises: Count threads at a time are let through, and   *)
(* nobody leaves before the round it arrived in is complete.               *)
(***************************************************************************)
EXTENDS FiniteSets, Naturals

CONSTANTS Thread, Count

VARIABLES
    waiting, \* the threads of the round that is not complete
    released \* those of complete rounds that have not left yet

Init == waiting = {} /\ released = {}

Arrive(t) ==
    /\ t \notin waiting \cup released
    /\ IF Cardinality(waiting) + 1 = Count
       THEN waiting' = {} /\ released' = released \cup waiting \cup {t}
       ELSE waiting' = waiting \cup {t} /\ UNCHANGED released

Leave(t) ==
    /\ t \in released
    /\ released' = released \ {t}
    /\ UNCHANGED waiting

Next == \E t \in Thread : Arrive(t) \/ Leave(t)

Spec == Init /\ [][Next]_<<waiting, released>>

=============================================================================
