----------------------------- MODULE MCWaiters -----------------------------
(* Small instances of Waiters for TLC.                                      *)
EXTENDS Waiters

CONSTANTS w1, w2, c1, c2, k1, k2, k3

Workers2 == {w1, w2}
Workers1 == {w1}
Conns2   == {c1, c2}
Calls2   == {k1, k2}
Calls3   == {k1, k2, k3}
Batched1 == {k1}

\* Bound: a task and a question are not there at the same time; one of them is enough to end a wait.
NewsOfOneKind == question => match = {}

=============================================================================
