---------------------------- MODULE MCOwnership ----------------------------
(* Small instances of Ownership for TLC.                                    *)
EXTENDS Ownership, TLC

CONSTANTS t1, t2, w1, w2, e1

Tasks2   == {t1, t2}
Workers2 == {w1, w2}
Epics    == {e1}

\* Every task in the one epic: the solo rule has the most to refuse.
OneEpic == [t \in Task |-> e1]

Symmetry == Permutations(Task) \cup Permutations(Worker)

\* The bounds of the instance with a faulty disk: cards stay in the columns that agents work in and
\* that a sweep heals, and one worker may govern.  What lies between adds states and no way for a
\* write to fail.
FewColumns == \A t \in Task : task[t].status \in {"ABSENT", "WORKING", "REVIEW"}
FewRoles   == worker[w1].role # "member" /\ worker[w2].role = "none"
=============================================================================
