------------------------------ MODULE Exchange ------------------------------
(***************************************************************************)
(* What moe-proxy owes the agent behind its stdin, without sockets, queues *)
(* or timers: a request that was read gets one answer, from the daemon or  *)
(* from the proxy, unless the proxy ends first.  Module Proxy implements   *)
(* it.                                                                     *)
(***************************************************************************)
CONSTANT Request

VARIABLES
  stage,   \* of each request: "unread", "open" or "answered"
  over     \* the proxy has exited

Init ==
  /\ stage = [r \in Request |-> "unread"]
  /\ over = FALSE

\* A line is read; it may be answered on the spot.
Take(r, s) ==
  /\ stage[r] = "unread"
  /\ stage' = [stage EXCEPT ![r] = s]
  /\ UNCHANGED over

\* Some open requests are answered; the proxy may end with that, and then what is open stays so.
Answer(S, ends) ==
  /\ \A r \in S : stage[r] = "open"
  /\ stage' = [r \in Request |-> IF r \in S THEN "answered" ELSE stage[r]]
  /\ over' = ends

Next ==
  /\ ~over
  /\ \/ \E r \in Request, s \in {"open", "answered"} : Take(r, s)
     \/ \E S \in SUBSET Request, ends \in BOOLEAN : Answer(S, ends)

Spec == Init /\ [][Next]_<<stage, over>>
=============================================================================
