----------------------------- MODULE MCMirror ------------------------------
(* A small instance of Mirror for TLC.                                      *)
EXTENDS Mirror

CONSTANTS f1, f2

Files == {Project, f1, f2}
TwoFiles == {Project, f1}
=============================================================================
