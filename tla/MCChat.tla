------------------------------- MODULE MCChat -------------------------------
(* Small instances of Chat for TLC.                                         *)
EXTENDS Chat, TLC

CONSTANTS c1, c2, k1, k2

Chans2 == {c1, c2}
Waits2 == {k1, k2}
Chans1 == {c1}
Filters == {{}, {c1}}

\* Bound: one message at most is not routed to the worker.  It is in c1, and it is the first to be
\* sent if and only if it is the worker's own, which is there to fill a page.
Others == {i \in Sent : post[i].kind # "routed"}
FewOthers ==
  /\ Cardinality(Others) <= 1
  /\ \A i \in Others : post[i].chan = c1 /\ (post[i].kind = "own" <=> i = Cardinality(Chans1) + 1)

Symmetric == Permutations(Waits2)
=============================================================================
