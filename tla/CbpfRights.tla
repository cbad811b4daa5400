----------------------------- MODULE CbpfRights -----------------------------
(* What the kernel runtime promises about its one shared provider object:     *)
(* concurrent invocations own rights to it, a right is granted once, ends at  *)
(* one instant, and the object's count is the baseline plus the rights owned. *)
EXTENDS Integers

CONSTANTS Invoker, Right

VARIABLES
    granted,    \* rights given to the current invocation, ended ones included
    owned,      \* rights not yet ended
    references

vars == <<granted, owned, references>>

Init ==
    /\ granted = [i \in Invoker |-> {}]
    /\ owned = [i \in Invoker |-> {}]
    /\ references = 1

Acquire(i, k) ==
    /\ k \in Right \ granted[i]
    /\ granted' = [granted EXCEPT ![i] = @ \cup {k}]
    /\ owned' = [owned EXCEPT ![i] = @ \cup {k}]
    /\ references' = references + 1

Release(i, k) ==
    /\ k \in owned[i]
    /\ owned' = [owned EXCEPT ![i] = @ \ {k}]
    /\ references' = references - 1
    /\ UNCHANGED granted

\* An invocation ends only with nothing owned.
End(i) ==
    /\ owned[i] = {}
    /\ granted' = [granted EXCEPT ![i] = {}]
    /\ UNCHANGED <<owned, references>>

Next ==
    \E i \in Invoker :
        \/ \E k \in Right : Acquire(i, k) \/ Release(i, k)
        \/ End(i)

Spec == Init /\ [][Next]_vars
=============================================================================
