------------------------------- MODULE Proxy -------------------------------
(***************************************************************************)
(* moe-proxy, the process between an agent and the daemon: it reads        *)
(* JSON-RPC lines from stdin, hands them to the daemon over a WebSocket,   *)
(* writes the answers to stdout, and reconnects when the daemon goes away. *)
(*                                                                         *)
(* The proxy is one thread and never awaits: every handler is a step.      *)
(* What it cannot know is modelled as the environment: the daemon, its     *)
(* daemon.json, the network, the clock and the agent.  A request is a      *)
(* number, in the order in which the agent writes them.                    *)
(***************************************************************************)
EXTENDS Naturals, Sequences, Functions

CONSTANTS
  N,           \* bound: the lines the agent writes
  Batch,       \* lines that are JSON arrays: they have no id of their own
  Oversized,   \* lines longer than MAX_LINE_SIZE
  QueueCap     \* 100 in the code

ASSUME NAssumption == N \in Nat
ASSUME LinesAssumption == Batch \subseteq 1 .. N /\ Oversized \subseteq (1 .. N) \ Batch
ASSUME QueueCapAssumption == QueueCap \in Nat

VARIABLES
  daemonFile,   \* daemon.json: "missing", "valid" or "bad"
  running,      \* "up", "stopping" (shuttingDown) or "exited"
  socket,       \* currentWebSocket: "none", or its readyState; isConnected from "open" until the close event
  retry,        \* reconnectTimer is armed
  window,       \* reconnectStartedAt: "unset", or set "within" the last five minutes, or before that ("past")
  stdin,        \* "unread" until connect() has found a daemon once, then "flowing", then "ended"
  lines,        \* the number of lines read
  queue,        \* pendingMessages
  pending,      \* pendingRequestIds, and the keys of pendingRequestTimes
  checker,      \* timeoutCheckTimer is running
  wire,         \* requests the daemon got, or will get, on this socket and has not answered
  answers,      \* the number of answers written to stdout, of each request
  sent          \* history: what ws.send() was called with, in order

vars == <<daemonFile, running, socket, retry, window, stdin, lines, queue, pending, checker,
          wire, answers, sent>>

Request == 1 .. N

\* The requests whose id the proxy can see.
Tracked == Request \ Batch

Answered(S) == [r \in Request |-> IF r \in S THEN answers[r] + 1 ELSE answers[r]]

Queued == Range(queue)

Init ==
  /\ daemonFile \in {"missing", "valid", "bad"}
  /\ running = "up"
  /\ socket = "none"
  /\ retry = TRUE            \* main() calls connect() at once
  /\ window = "unset"
  /\ stdin = "unread"
  /\ lines = 0
  /\ queue = <<>>
  /\ pending = {}
  /\ checker = FALSE
  /\ wire = {}
  /\ answers = [r \in Request |-> 0]
  /\ sent = <<>>

----------------------------------------------------------------------------
(* Connecting. *)

\* withinReconnectWindow(): the window opens with the first failure that asks.
MayRetry == window # "past"

\* connect(): daemon.json is missing, and the window is open.
ConnectLater ==
  /\ running = "up" /\ retry
  /\ daemonFile = "missing"
  /\ MayRetry
  /\ window' = "within"
  /\ UNCHANGED <<daemonFile, running, socket, retry, stdin, lines, queue, pending, checker, wire, answers, sent>>

\* connect(): daemon.json is unusable, or still missing after five minutes.  Queued requests get
\* no answer.
ConnectGivesUp ==
  /\ running = "up" /\ retry
  /\ daemonFile = "bad" \/ (daemonFile = "missing" /\ ~MayRetry)
  /\ running' = "exited"
  /\ retry' = FALSE
  /\ UNCHANGED <<daemonFile, socket, window, stdin, lines, queue, pending, checker, wire, answers, sent>>

\* connect(): a new socket; the first one also sets up stdin.
Connect ==
  /\ running = "up" /\ retry
  /\ daemonFile = "valid"
  /\ socket' = "connecting"
  /\ retry' = FALSE
  /\ stdin' = IF stdin = "unread" THEN "flowing" ELSE stdin
  /\ UNCHANGED <<daemonFile, running, window, lines, queue, pending, checker, wire, answers, sent>>

\* Mutant of Opened: the timeout checker that the close handler stopped is not started again.
OpenedUnchecked(failed) ==
  /\ running \in {"up", "stopping"} /\ socket = "connecting"
  /\ failed \subseteq Queued
  /\ socket' = "open"
  /\ window' = "unset"
  /\ queue' = <<>>
  /\ sent' = sent \o queue
  /\ wire' = Queued \ failed
  /\ pending' = pending \cup ((Queued \cap Tracked) \ failed)
  /\ answers' = Answered(failed \cap Tracked)
  /\ UNCHANGED <<daemonFile, running, retry, stdin, lines, checker>>

\* Mutant of Opened: pendingMessages is not cleared after the flush.
OpenedKeepingQueue(failed) ==
  /\ running \in {"up", "stopping"} /\ socket = "connecting"
  /\ failed \subseteq Queued
  /\ socket' = "open"
  /\ window' = "unset"
  /\ checker' = TRUE
  /\ sent' = sent \o queue
  /\ wire' = Queued \ failed
  /\ pending' = pending \cup ((Queued \cap Tracked) \ failed)
  /\ answers' = Answered(failed \cap Tracked)
  /\ UNCHANGED <<daemonFile, running, retry, stdin, lines, queue>>

\* ws.on('open'): the queue is flushed in order, and each request tracked as it is sent; a send
\* that throws is answered with an error.
Opened(failed) ==
  /\ running \in {"up", "stopping"} /\ socket = "connecting"
  /\ failed \subseteq Queued
  /\ socket' = "open"
  /\ window' = "unset"
  /\ checker' = TRUE
  /\ queue' = <<>>
  /\ sent' = sent \o queue
  /\ wire' = Queued \ failed
  /\ pending' = pending \cup ((Queued \cap Tracked) \ failed)
  /\ answers' = Answered(failed \cap Tracked)
  /\ UNCHANGED <<daemonFile, running, retry, stdin, lines>>

\* The peer, or the network, begins to close the socket: readyState changes before the event.
Closing ==
  /\ running # "exited" /\ socket = "open"
  /\ socket' = "closing"
  /\ UNCHANGED <<daemonFile, running, retry, window, stdin, lines, queue, pending, checker, wire, answers, sent>>

\* What every close event does first: the socket is gone, and with it what was under way.
SocketGone ==
  /\ socket \in {"connecting", "open", "closing"}
  /\ socket' = "none"
  /\ checker' = FALSE
  /\ wire' = {}

\* ws.on('close') during a shutdown: the requests are left to gracefulShutdown.
ClosedInShutdown ==
  /\ running = "stopping"
  /\ SocketGone
  /\ retry' = FALSE
  /\ UNCHANGED <<daemonFile, running, window, stdin, lines, queue, pending, answers, sent>>

\* ws.on('close'): every request in flight is answered with an error, and a retry is armed.
Closed ==
  /\ running = "up"
  /\ SocketGone
  /\ MayRetry
  /\ window' = "within"
  /\ retry' = TRUE
  /\ answers' = Answered(pending)
  /\ pending' = {}
  /\ UNCHANGED <<daemonFile, running, stdin, lines, queue, sent>>

\* ws.on('close') after five minutes of failures: the queued requests are answered too.
ClosedForGood ==
  /\ running = "up"
  /\ SocketGone
  /\ ~MayRetry
  /\ running' = "exited"
  /\ retry' = FALSE
  /\ answers' = Answered(pending \cup (Queued \cap Tracked))
  /\ pending' = {}
  /\ queue' = <<>>
  /\ UNCHANGED <<daemonFile, window, stdin, lines, sent>>

----------------------------------------------------------------------------
(* Requests and answers. *)

NextLine == lines + 1

ReadsLines == running # "exited" /\ stdin = "flowing" /\ lines < N

\* stdin: a line over the limit is answered with an error that carries its id.
RefuseLine ==
  /\ ReadsLines /\ NextLine \in Oversized
  /\ lines' = NextLine
  /\ answers' = Answered({NextLine})
  /\ UNCHANGED <<daemonFile, running, socket, retry, window, stdin, queue, pending, checker, wire, sent>>

\* stdin: the socket is open, so the line is sent; the id is forgotten again if the send throws.
SendLine(throws) ==
  /\ ReadsLines /\ NextLine \notin Oversized
  /\ socket = "open"
  /\ lines' = NextLine
  /\ sent' = Append(sent, NextLine)
  /\ wire' = IF throws THEN wire ELSE wire \cup {NextLine}
  /\ pending' = IF throws THEN pending ELSE pending \cup ({NextLine} \cap Tracked)
  /\ answers' = IF throws THEN Answered({NextLine} \cap Tracked) ELSE answers
  /\ UNCHANGED <<daemonFile, running, socket, retry, window, stdin, queue, checker>>

\* stdin: no open socket, so the line waits in the queue.
QueueLine ==
  /\ ReadsLines /\ NextLine \notin Oversized
  /\ socket # "open"
  /\ Len(queue) < QueueCap
  /\ lines' = NextLine
  /\ queue' = Append(queue, NextLine)
  /\ UNCHANGED <<daemonFile, running, socket, retry, window, stdin, pending, checker, wire, answers, sent>>

\* stdin: the queue is full; the line that came is dropped, with an error.
DropLine ==
  /\ ReadsLines /\ NextLine \notin Oversized
  /\ socket # "open"
  /\ Len(queue) >= QueueCap
  /\ lines' = NextLine
  /\ answers' = Answered({NextLine} \cap Tracked)
  /\ UNCHANGED <<daemonFile, running, socket, retry, window, stdin, queue, pending, checker, wire, sent>>

\* Mutant of DaemonAnswers: the answer is forwarded without asking whether it is still expected.
DaemonAnswersLate(r) ==
  /\ running # "exited" /\ socket \in {"open", "closing"}
  /\ r \in wire
  /\ wire' = wire \ {r}
  /\ pending' = pending \ {r}
  /\ answers' = Answered({r})
  /\ UNCHANGED <<daemonFile, running, socket, retry, window, stdin, lines, queue, checker, sent>>

\* ws.on('message'): an answer whose id is not pending any more is dropped; the answer to a batch
\* has no id and is forwarded.
DaemonAnswers(r) ==
  /\ running # "exited" /\ socket \in {"open", "closing"}
  /\ r \in wire
  /\ wire' = wire \ {r}
  /\ pending' = pending \ {r}
  /\ answers' = Answered({r} \cap (pending \cup Batch))
  /\ UNCHANGED <<daemonFile, running, socket, retry, window, stdin, lines, queue, checker, sent>>

\* checkMessageTimeouts: some requests are older than their timeout.
CheckTimeouts(expired) ==
  /\ running = "up" /\ checker
  /\ expired # {} /\ expired \subseteq pending
  /\ pending' = pending \ expired
  /\ answers' = Answered(expired)
  /\ UNCHANGED <<daemonFile, running, socket, retry, window, stdin, lines, queue, checker, wire, sent>>

----------------------------------------------------------------------------
(* Shutting down. *)

\* Mutant of ShutDownAtOnce: only the queue is looked at.
ShutDownInFlight(closesStdin) ==
  /\ running = "up"
  /\ closesStdin => stdin = "flowing"
  /\ queue = <<>>
  /\ running' = "exited"
  /\ retry' = FALSE /\ checker' = FALSE
  /\ socket' = "none" /\ wire' = {}
  /\ stdin' = IF closesStdin THEN "ended" ELSE stdin
  /\ UNCHANGED <<daemonFile, window, lines, queue, pending, answers, sent>>

\* gracefulShutdown: nothing is waited for, so the proxy ends.  A batch in flight is not counted.
ShutDownAtOnce(closesStdin) ==
  /\ running = "up"
  /\ closesStdin => stdin = "flowing"
  /\ pending = {} /\ queue = <<>>
  /\ running' = "exited"
  /\ retry' = FALSE /\ checker' = FALSE
  /\ socket' = "none" /\ wire' = {}
  /\ stdin' = IF closesStdin THEN "ended" ELSE stdin
  /\ UNCHANGED <<daemonFile, window, lines, queue, pending, answers, sent>>

\* gracefulShutdown, on a signal or at the end of stdin: requests are pending or queued, and get
\* two seconds.
ShutDown(closesStdin) ==
  /\ running = "up"
  /\ closesStdin => stdin = "flowing"
  /\ pending # {} \/ queue # <<>>
  /\ running' = "stopping"
  /\ retry' = FALSE /\ checker' = FALSE
  /\ stdin' = IF closesStdin THEN "ended" ELSE stdin
  /\ UNCHANGED <<daemonFile, socket, window, lines, queue, pending, wire, answers, sent>>

\* The two seconds are over, or nothing is left to wait for: what is left is answered with errors.
FinishShutdown ==
  /\ running = "stopping"
  /\ answers' = Answered(pending \cup (Queued \cap Tracked))
  /\ pending' = {} /\ queue' = <<>>
  /\ running' = "exited"
  /\ socket' = "none" /\ wire' = {}
  /\ checker' = FALSE
  /\ UNCHANGED <<daemonFile, retry, window, stdin, lines, sent>>

----------------------------------------------------------------------------
(* The environment. *)

\* Daemons come and go, and leave their daemon.json right or wrong.
DaemonFileChanges ==
  /\ running # "exited"
  /\ daemonFile' \in {"missing", "valid", "bad"} \ {daemonFile}
  /\ UNCHANGED <<running, socket, retry, window, stdin, lines, queue, pending, checker, wire, answers, sent>>

\* Five minutes have passed since the window opened.
WindowPasses ==
  /\ running # "exited" /\ window = "within"
  /\ window' = "past"
  /\ UNCHANGED <<daemonFile, running, socket, retry, stdin, lines, queue, pending, checker, wire, answers, sent>>

Next ==
  \/ ConnectLater
  \/ ConnectGivesUp
  \/ Connect
  \/ \E failed \in SUBSET Queued : Opened(failed)
  \/ Closing
  \/ ClosedInShutdown
  \/ Closed
  \/ ClosedForGood
  \/ RefuseLine
  \/ \E throws \in BOOLEAN : SendLine(throws)
  \/ QueueLine
  \/ DropLine
  \/ \E r \in wire : DaemonAnswers(r)
  \/ \E expired \in SUBSET pending : CheckTimeouts(expired)
  \/ \E closesStdin \in BOOLEAN : ShutDownAtOnce(closesStdin) \/ ShutDown(closesStdin)
  \/ FinishShutdown
  \/ DaemonFileChanges
  \/ WindowPasses

Spec == Init /\ [][Next]_vars

\* Timers fire, a socket that is closing closes (ws itself gives up after 30 seconds), and time
\* passes: the window of a failing connection, and the timeout of each request in flight.  Nothing is
\* assumed of the daemon, its file, the agent or the operator, nor of a handshake: no timer ends one.
FairSpec ==
  /\ Spec
  /\ WF_vars(ConnectLater \/ ConnectGivesUp \/ Connect)
  /\ WF_vars(socket = "closing" /\ (Closed \/ ClosedForGood))
  /\ \A r \in Tracked : WF_vars(\E expired \in SUBSET pending : r \in expired /\ CheckTimeouts(expired))
  /\ WF_vars(FinishShutdown)
  /\ WF_vars(WindowPasses)

----------------------------------------------------------------------------
(* Properties. *)

\* The proxy's variables have their types; a batch is never tracked.
TypeOK ==
  /\ daemonFile \in {"missing", "valid", "bad"}
  /\ running \in {"up", "stopping", "exited"}
  /\ socket \in {"none", "connecting", "open", "closing"}
  /\ retry \in BOOLEAN
  /\ window \in {"unset", "within", "past"}
  /\ stdin \in {"unread", "flowing", "ended"}
  /\ lines \in 0 .. N
  /\ queue \in Seq(Request)
  /\ pending \subseteq Tracked
  /\ checker \in BOOLEAN
  /\ wire \subseteq Request
  /\ answers \in [Request -> Nat]
  /\ sent \in Seq(Request)

Stage(r) ==
  IF answers[r] = 0 THEN IF r > lines THEN "unread" ELSE "open"
                    ELSE IF answers[r] = 1 /\ r <= lines THEN "answered" ELSE "answered too often or too early"

\* The exchange an agent sees.
Seen == INSTANCE Exchange WITH Request <- Tracked,
                               stage <- [r \in Tracked |-> Stage(r)],
                               over <- running = "exited"

\* Whatever arrives late, is dropped, fails or is shut down: a request gets at most one answer, and
\* none before it was read or after the proxy ended.
AnswersOnce == Seen!Spec

\* A request that ws.send() was called with is never lost with the process: when the proxy has
\* ended, the daemon's answer or an error was written for it.
SentIsAnswered ==
  running = "exited" => \A i \in DOMAIN sent : sent[i] \in Tracked => answers[sent[i]] = 1

\* The daemon gets the lines in the order in which the agent wrote them, whichever went through
\* the queue: a claim never overtakes the comment that was written before it.
SentInOrder ==
  \A i, j \in DOMAIN sent : i < j => sent[i] < sent[j]

\* What holds of every state: its type, and what becomes of lines that were sent.
Inv == TypeOK /\ SentIsAnswered

\* A request hangs in one place only, the queue behind a handshake that never ends: otherwise it is
\* answered, by the daemon or with an error, or the proxy ends.
RequestsEnd ==
  \A r \in Tracked :
    []<>~(socket = "connecting" /\ r \in Queued) =>
      ((lines >= r) ~> (answers[r] = 1 \/ running = "exited"))

=============================================================================
