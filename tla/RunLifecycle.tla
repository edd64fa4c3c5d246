---------------------------- MODULE RunLifecycle ----------------------------
(***************************************************************************)
(* What the managed runtime promises about one run, whatever processes,    *)
(* leases, registries and sweeps stand behind it: a run is accepted, then  *)
(* begins or is turned away, and what has begun ends exactly once.         *)
(***************************************************************************)
CONSTANT Runs

VARIABLES state,   \* state[r]: the status an API client can read
          began    \* began[r]: a worker has claimed r for execution

vars == <<state, began>>

Ended == {"completed", "failed", "cancelled", "timed_out", "interrupted"}

Init == /\ state = [r \in Runs |-> "absent"]
        /\ began = [r \in Runs |-> FALSE]

Accept(r) == /\ state[r] = "absent"
             /\ state' = [state EXCEPT ![r] = "pending"]
             /\ UNCHANGED began

Begin(r) == /\ state[r] = "pending"
            /\ state' = [state EXCEPT ![r] = "running"]
            /\ began' = [began EXCEPT ![r] = TRUE]

End(r) == /\ state[r] \in {"pending", "running"}
          /\ \E s \in Ended : state' = [state EXCEPT ![r] = s]
          /\ UNCHANGED began

\* A run that never began may be interrupted by recovery while its runtime is
\* still being built, and then be reported as failed by the builder.
Overrule(r) == /\ state[r] = "interrupted" /\ ~began[r]
               /\ state' = [state EXCEPT ![r] = "failed"]
               /\ UNCHANGED began

\* A recovery sweep may end several runs in one transaction.
EndMany == /\ \E S \in SUBSET Runs :
                /\ \A r \in S : state[r] \in {"pending", "running"}
                /\ \E f \in [S -> Ended] :
                     state' = [r \in Runs |-> IF r \in S THEN f[r] ELSE state[r]]
           /\ UNCHANGED began

Next == EndMany \/ \E r \in Runs : Accept(r) \/ Begin(r) \/ End(r) \/ Overrule(r)

Spec == Init /\ [][Next]_vars
=============================================================================
