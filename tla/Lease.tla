------------------------------- MODULE Lease -------------------------------
(***************************************************************************)
(* What the daemon promises about ownership, without columns, records or   *)
(* sweeps: a task is leased to at most one worker, a worker leases at most *)
(* one task, a lease is granted one at a time and may be revoked at any    *)
(* moment.  Module Ownership implements it.                                *)
(***************************************************************************)
CONSTANTS Task, Worker, Nobody

VARIABLE holder

\* A worker is the holder of at most one task.
OneLeaseEach ==
  \A t, u \in Task : holder[t] = holder[u] /\ holder[t] # Nobody => t = u

Init == holder = [t \in Task |-> Nobody]

\* A free or a taken-over task is leased to a worker; what else the worker leased, and some other
\* leases, end with it.
Grant(t, w, S) ==
  /\ \A u \in Task \ ({t} \cup S) : holder[u] # w
  /\ holder' = [u \in Task |-> IF u = t THEN w ELSE IF u \in S THEN Nobody ELSE holder[u]]

\* Some leases end.
Revoke(S) == holder' = [t \in Task |-> IF t \in S THEN Nobody ELSE holder[t]]

Next ==
  \/ \E t \in Task, w \in Worker, S \in SUBSET Task : Grant(t, w, S)
  \/ \E S \in SUBSET Task : Revoke(S)

Spec == Init /\ [][Next]_holder
=============================================================================
