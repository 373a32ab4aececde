-------------------------- MODULE MCTaskLifecycle --------------------------
(* Small instances of TaskLifecycle for TLC.                                *)
EXTENDS TaskLifecycle, TLC

CONSTANTS w1, w2, s1, s2, d1

OneWorker  == {w1}
TwoWorkers == {w1, w2}
OneStep    == {s1}
TwoSteps   == {s1, s2}
OneItem    == {d1}
AllModes   == {"CONTROL", "SPEED", "TURBO"}

Symmetry == Permutations(Worker) \cup Permutations(Step) \cup Permutations(DodItem)
=============================================================================
