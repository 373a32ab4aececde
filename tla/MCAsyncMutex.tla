---------------------------- MODULE MCAsyncMutex ----------------------------
(* A small instance of AsyncMutex for TLC. *)
EXTENDS AsyncMutex

CONSTANTS c1, c2, c3, channel, activity

Contexts3 == {c1, c2, c3}
Leaves    == {channel, activity}
=============================================================================
