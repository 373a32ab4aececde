------------------------------ MODULE MCProxy ------------------------------
(* Small instances of Proxy for TLC.                                        *)
EXTENDS Proxy

\* Six lines: the second is a batch, the fourth is too long.
Batches == {2}
TooLong == {4}
=============================================================================
