---------------------------- MODULE BoardClient ----------------------------
(***************************************************************************)
(* The connection of the VS Code extension to the daemon                   *)
(* (MoeDaemonClient): connecting, losing the connection, and trying again. *)
(*                                                                         *)
(* A connect() that waits for the daemon or for the handshake belongs to   *)
(* the user, or to the reconnect timer, and only the timer's tries again   *)
(* when it fails; the close of a socket does so for either.  Meanwhile the *)
(* user may disconnect, reconnect or connect, and the timer may fire.  An  *)
(* event's handler, with the promises it settles, is one step.             *)
(***************************************************************************)
EXTENDS Naturals

CONSTANTS
  AutoConnect,   \* moe.autoConnect
  MaxAttempts    \* maxReconnectAttempts

ASSUME BoardClientAssumption == AutoConnect \in BOOLEAN /\ MaxAttempts \in Nat

VARIABLES
  connectionState,  \* _connectionState
  attempt,          \* the connect() in progress: awaits the daemon, its socket, or a socket given up
  by,               \* who awaits it
  timer,            \* reconnectTimeout is set
  attempts,         \* reconnectAttempts, where everything above the maximum is alike
  offer,            \* a message that offers to reconnect is up, or several are
  manual,           \* manualDisconnect
  shuttingDown,     \* daemonShuttingDown
  ping,             \* pingInterval is set
  session           \* history: the user's last word was to connect, and it was followed

vars == <<connectionState, attempt, by, timer, attempts, offer, manual, shuttingDown, ping, session>>

retry == <<timer, attempts, offer>>

Init ==
  /\ connectionState = "disconnected"
  /\ attempt = "none" /\ by = "user"
  /\ timer = FALSE /\ attempts = 0 /\ offer = FALSE
  /\ manual = FALSE /\ shuttingDown = FALSE
  /\ ping = FALSE
  /\ session = FALSE

----------------------------------------------------------------------------
(* The pieces the handlers are made of. *)

\* Mutant of MayRetry: a timer that is set is not looked at, nor is the user's word.
MayRetryAnyway(armed, byUser, down) == AutoConnect /\ ~down /\ ~armed

\* scheduleReconnect returns early for a daemon that said good-bye, for a user who did, and for a
\* timer that is set.
MayRetry(armed, byUser, down) == AutoConnect /\ ~down /\ ~byUser /\ ~armed

\* scheduleReconnect, in a handler that leaves the timer and the flags as given.
ScheduleReconnect(armed, byUser, down) ==
  IF MayRetry(armed, byUser, down)
    THEN /\ timer' = (attempts < MaxAttempts)
         /\ attempts' = IF attempts > MaxAttempts THEN attempts ELSE attempts + 1
         /\ offer' = (offer \/ attempts >= MaxAttempts)
    ELSE timer' = armed /\ UNCHANGED <<attempts, offer>>

\* connect, up to its first await.  Called while another is in progress it returns, as if connected.
BeginConnect(who, state, inProgress) ==
  /\ manual' = FALSE
  /\ connectionState' = state
  /\ IF state = "disconnected" /\ inProgress = "none"
       THEN attempt' = "starting" /\ by' = who /\ shuttingDown' = FALSE
       ELSE attempt' = inProgress /\ UNCHANGED <<by, shuttingDown>>

\* An attempt that waits for its socket will hear later that the socket was given up.
GivenUp == IF attempt = "handshake" THEN "abandoned" ELSE attempt

\* disconnect: the socket is given up and closed.
LetGo ==
  /\ connectionState' = "disconnected"
  /\ attempt' = GivenUp
  /\ ping' = FALSE

----------------------------------------------------------------------------
(* The user. *)

\* The command moe.connect, the start of the extension, and the button of the offer, which also
\* starts the count anew.  Other offers may still be up when one is taken.
UserConnects(fromOffer) ==
  /\ fromOffer => offer
  /\ attempts' = IF fromOffer THEN 0 ELSE attempts
  /\ offer' \in IF fromOffer THEN BOOLEAN ELSE {offer}
  /\ BeginConnect("user", connectionState, attempt)
  /\ session' = FALSE
  /\ UNCHANGED <<timer, ping>>

\* The command moe.disconnect.
UserDisconnects ==
  /\ LetGo
  /\ manual' = TRUE /\ timer' = FALSE
  /\ session' = FALSE
  /\ UNCHANGED <<by, attempts, offer, shuttingDown>>

\* The command moe.reconnect: both at once.
UserReconnects ==
  /\ BeginConnect("user", "disconnected", GivenUp)
  /\ timer' = FALSE /\ ping' = FALSE
  /\ session' = FALSE
  /\ UNCHANGED <<attempts, offer>>

----------------------------------------------------------------------------
(* The connect() in progress. *)

\* The callback of the timer; should its attempt be rejected, it schedules the next.
TimerFires ==
  /\ timer /\ timer' = FALSE
  /\ BeginConnect("timer", connectionState, attempt)
  /\ UNCHANGED <<attempts, offer, ping, session>>

\* Mutant of StartFails: an attempt of the timer is not followed by another.
StartFailsForGood ==
  /\ attempt = "starting" /\ attempt' = "none"
  /\ UNCHANGED <<connectionState, by, retry, manual, shuttingDown, ping, session>>

\* No daemon came up, or its daemon.json cannot be used.
StartFails ==
  /\ attempt = "starting" /\ attempt' = "none"
  /\ IF by = "timer" THEN ScheduleReconnect(timer, manual, shuttingDown) ELSE UNCHANGED retry
  /\ UNCHANGED <<connectionState, by, manual, shuttingDown, ping, session>>

\* The daemon's port is known, and a socket is made, whatever the user said meanwhile.
StartEnds ==
  /\ attempt = "starting" /\ attempt' = "handshake"
  /\ connectionState' = "connecting"
  /\ UNCHANGED <<by, retry, manual, shuttingDown, ping, session>>

Opened ==
  /\ attempt = "handshake" /\ attempt' = "none"
  /\ connectionState' = "connected"
  /\ attempts' = 0
  /\ ping' = TRUE
  /\ session' = ~manual
  /\ UNCHANGED <<by, timer, offer, manual, shuttingDown>>

\* An error, a close or the time-out before the socket opened.  Both the socket's handler and the
\* timer's callback schedule; the second finds the timer set, or the count exhausted, and then it
\* makes a second offer.
HandshakeFails ==
  /\ attempt = "handshake" /\ attempt' = "none"
  /\ connectionState' = "disconnected"
  /\ ping' = FALSE
  /\ ScheduleReconnect(timer, manual, shuttingDown)
  /\ UNCHANGED <<by, manual, shuttingDown, session>>

\* Mutant of AbandonedCloses: the close of a socket that was replaced is ignored.
AbandonedCloseIgnored == attempt = "abandoned" /\ UNCHANGED vars

\* The socket that was given up has closed.
AbandonedCloses ==
  /\ attempt = "abandoned" /\ attempt' = "none"
  /\ IF by = "timer" THEN ScheduleReconnect(timer, manual, shuttingDown) ELSE UNCHANGED retry
  /\ UNCHANGED <<connectionState, by, manual, shuttingDown, ping, session>>

----------------------------------------------------------------------------
(* The connection. *)

\* It closes, or a send on it fails.
Lost ==
  /\ connectionState = "connected" /\ connectionState' = "disconnected"
  /\ ping' = FALSE
  /\ ScheduleReconnect(timer, manual, shuttingDown)
  /\ UNCHANGED <<attempt, by, manual, shuttingDown, session>>

\* The snapshot is of another project: daemon.json is removed, and the next attempt starts afresh.
Mismatch ==
  /\ connectionState = "connected"
  /\ LetGo
  /\ manual' = FALSE
  /\ ScheduleReconnect(FALSE, FALSE, shuttingDown)
  /\ UNCHANGED <<by, shuttingDown, session>>

\* DAEMON_SHUTTING_DOWN.
GoodBye ==
  /\ connectionState = "connected"
  /\ LetGo
  /\ manual' = FALSE /\ shuttingDown' = TRUE
  /\ ScheduleReconnect(FALSE, FALSE, TRUE)
  /\ UNCHANGED <<by, session>>

----------------------------------------------------------------------------

Next ==
  \/ \E fromOffer \in BOOLEAN : UserConnects(fromOffer)
  \/ UserDisconnects \/ UserReconnects
  \/ TimerFires \/ StartFails \/ StartEnds
  \/ Opened \/ HandshakeFails \/ AbandonedCloses
  \/ Lost \/ Mismatch \/ GoodBye

Spec == Init /\ [][Next]_vars

\* A timer fires, the wait for the daemon ends after ten seconds, the handshake after fifteen, and a
\* socket that was closed says so.
Fairness ==
  /\ WF_vars(TimerFires)
  /\ WF_vars(StartFails \/ StartEnds)
  /\ WF_vars(Opened \/ HandshakeFails)
  /\ WF_vars(AbandonedCloses)

FairSpec == Spec /\ Fairness

----------------------------------------------------------------------------

\* Every variable has its type, and the attempts are counted one past the limit at most.
TypeOK ==
  /\ connectionState \in {"disconnected", "connecting", "connected"}
  /\ attempt \in {"none", "starting", "handshake", "abandoned"}
  /\ by \in {"user", "timer"}
  /\ timer \in BOOLEAN /\ offer \in BOOLEAN
  /\ attempts \in 0 .. MaxAttempts + 1
  /\ manual \in BOOLEAN /\ shuttingDown \in BOOLEAN
  /\ ping \in BOOLEAN /\ session \in BOOLEAN

\* An open connection has its ping and no attempt beside it, and a closed one neither: two attempts
\* never overlap and no interval is orphaned ("two concurrent connect() calls could both pass the
\* state check and each open a socket", MoeDaemonClient.ts:168).
OneConnection ==
  /\ connectionState = "connecting" <=> attempt = "handshake"
  /\ connectionState = "connected" => attempt = "none"
  /\ ping <=> connectionState = "connected"

\* After a disconnect by the user no timer is set and nothing connects until the user says so, unless
\* an attempt that waited for the daemon was under way: that one is not stopped.
DisconnectStays ==
  [][manual /\ manual' =>
       ~timer' /\ (attempt # "starting" /\ connectionState = "disconnected"
                     => connectionState' = "disconnected" /\ attempt' # "starting")]_vars

\* A connection that is lost without the user's doing, and without a good-bye of the daemon, is tried
\* again until the attempts are exhausted: by a timer, or by an attempt in progress.
LostIsRetried ==
  session /\ ~shuttingDown /\ AutoConnect =>
    connectionState # "disconnected" \/ attempt # "none" \/ timer \/ attempts > MaxAttempts

\* The state is well typed, there is one connection at a time, and a lost one is retried.
Inv == TypeOK /\ OneConnection /\ LostIsRetried

\* No attempt lasts for ever, so that the next one is not refused; and the retries of a lost connection
\* come to an end: the board is connected again, or as many have failed as there may.
AttemptsEnd ==
  /\ attempt # "none" ~> attempt = "none"
  /\ session /\ ~shuttingDown /\ AutoConnect /\ connectionState = "disconnected"
       ~> connectionState = "connected" \/ attempts > MaxAttempts \/ ~session

=============================================================================
