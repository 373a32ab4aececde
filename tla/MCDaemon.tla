------------------------------ MODULE MCDaemon ------------------------------
(* Small instances of Daemon for TLC.                                       *)
EXTENDS Daemon

CONSTANTS s1, s2

Sups2 == {s1, s2}
=============================================================================
