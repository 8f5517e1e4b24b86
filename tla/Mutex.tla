------------------------------- MODULE Mutex -------------------------------
(***************************************************************************)
(* What a POSIX mutex promises of its calls and of their results: a lock   *)
(* call succeeds only while nobody owns the mutex, a trylock fails (EBUSY) *)
(* and a timed lock gives up (ETIMEDOUT) only while somebody does, a plain *)
(* lock never fails, and the mutex is free again at one moment within the  *)
(* owner's unlock call.                                                    *)
(***************************************************************************)
CONSTANTS
    Thread,
    Mode \* the calls in use: subset of {"lock", "trylock", "clocklock"}

VARIABLE status \* of each thread: "out" of every call, in a call, or "owns"

Owners == {t \in Thread : status[t] = "owns"}

Becomes(t, s) == status' = [status EXCEPT ![t] = s]

Init == status = [t \in Thread |-> "out"]

Call(t) == status[t] = "out" /\ \E m \in Mode : Becomes(t, m)

Acquire(t) == status[t] \notin {"out", "owns"} /\ Owners = {} /\ Becomes(t, "owns")

Fail(t) == status[t] \in {"trylock", "clocklock"} /\ Owners # {} /\ Becomes(t, "out")

Release(t) == status[t] = "owns" /\ Becomes(t, "out")

Next == \E t \in Thread : Call(t) \/ Acquire(t) \/ Fail(t) \/ Release(t)

Spec == Init /\ [][Next]_status

=============================================================================
