---------------------------- MODULE MCBoardClient ----------------------------
(* The instance of BoardClient that TLC checks: its constants are the program's own. *)
EXTENDS BoardClient

=============================================================================
