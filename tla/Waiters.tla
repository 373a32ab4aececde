------------------------------ MODULE Waiters ------------------------------
(***************************************************************************)
(* moe.wait_for_task: agents park in the daemon until there is work.       *)
(*                                                                         *)
(* A call arrives on a connection, alone or in a JSON-RPC batch, whose     *)
(* items are run one after another.  It refreshes the worker's heartbeat   *)
(* under the state mutex (an await: anything may happen before it goes     *)
(* on), then answers at once or parks.  A parked call is known only by its *)
(* worker's id, in activeWaiters; which connection may cancel it is noted  *)
(* elsewhere, in waiterOwners, and earlier, when the message arrives.      *)
(* What findMatchingTask sees of the board is one fact per worker.         *)
(***************************************************************************)
EXTENDS Naturals, Sequences

CONSTANTS
  Worker,
  Conn,      \* /mcp connections; a closed one may be opened again, as a new socket
  Call,      \* the calls that may be under way at a time
  Batched,   \* those of them that may arrive further down a JSON-RPC batch
  NoConn,
  NoCall

ASSUME NamesAssumption == NoConn \notin Conn /\ NoCall \notin Call
ASSUME BatchedAssumption == Batched \subseteq Call

VARIABLES
  open,       \* mcpClients
  tracked,    \* mcpWorkerMap: the worker ids each connection has mentioned
  owner,      \* waiterOwners
  waiter,     \* activeWaiters
  call,       \* the calls under way
  turn,       \* the calls whose heartbeat waits for the state mutex, which is granted in order
  match,      \* the workers for whom findMatchingTask finds a task
  question,   \* findPendingQuestion finds one
  quiet,      \* history: the workers whose task became claimable without an event since the last one
  refused,    \* history: the connection whose refused wait was the last to name the worker
  passed      \* history: the connections that asked for the worker while the call was behind its batch

vars == <<open, tracked, owner, waiter, call, turn, match, question, quiet, refused, passed>>

Connections == <<open, tracked, owner, refused, passed>>
Board == <<match, question, quiet>>

Answers == {"none", "news", "cancelled", "timedOut"}

\* at: "sent" is behind other items of its batch, "touching" before the heartbeat has been written,
\* "leaving" after the timer fired, while the heartbeat is written once more; an "answered" call has
\* resolved.
CallRecord ==
  [at : {"idle", "sent", "touching", "parked", "leaving", "answered"},
   worker : Worker \cup {NoConn}, conn : Conn \cup {NoConn}, answer : Answers]

Idle == [at |-> "idle", worker |-> NoConn, conn |-> NoConn, answer |-> "none"]

Parked == {k \in Call : call[k].at = "parked"}

Answered(k, answer) == [call[k] EXCEPT !.at = "answered", !.answer = answer]

Init ==
  /\ open = {}
  /\ tracked = [c \in Conn |-> {}]
  /\ owner = [w \in Worker |-> NoConn]
  /\ waiter = [w \in Worker |-> NoCall]
  /\ call = [k \in Call |-> Idle]
  /\ match \in SUBSET Worker
  /\ question \in BOOLEAN
  /\ quiet = {}
  /\ turn = <<>>
  /\ refused = [w \in Worker |-> NoConn]
  /\ passed = [k \in Call |-> {}]

----------------------------------------------------------------------------
(* Connections. *)

Connect(c) ==
  /\ c \notin open
  /\ \A k \in Call : call[k].conn # c    \* a new socket: nothing is left of the old one
  /\ open' = open \cup {c}
  /\ UNCHANGED <<tracked, owner, refused, passed, waiter, call, turn, Board>>

\* A wait of worker w arrives on connection c: it passes the calls still behind their batches.
PassedBy(c, w) ==
  [k \in Call |-> IF call[k].at = "sent" /\ call[k].worker = w /\ call[k].conn # c
                  THEN passed[k] \cup {c} ELSE passed[k]]

\* Mutant of Track: the first connection to wait for a worker stays the owner.
TrackFirst(c, w) ==
  /\ c \in open
  /\ tracked' = [tracked EXCEPT ![c] = @ \cup {w}]
  /\ owner' = [owner EXCEPT ![w] = IF @ = NoConn THEN c ELSE @]
  /\ passed' = PassedBy(c, w)

\* trackSingleMcpWorker, for a wait_for_task message or an item of a batch: the connection becomes
\* the owner of a waiter that is not there yet.
Track(c, w) ==
  /\ c \in open
  /\ tracked' = [tracked EXCEPT ![c] = @ \cup {w}]
  /\ owner' = [owner EXCEPT ![w] = c]
  /\ passed' = PassedBy(c, w)

\* Another tool call of worker w: the connection is tracked, and no waiter concerned.
OtherCall(c, w) ==
  /\ c \in open /\ w \notin tracked[c]
  /\ tracked' = [tracked EXCEPT ![c] = @ \cup {w}]
  /\ UNCHANGED <<open, owner, refused, passed, waiter, call, turn, Board>>

\* The workers whose waiter goes with connection c.
Owned(c) == {w \in tracked[c] : owner[w] = c}

\* Mutant of Cancel: entry and timer are removed, and the call is not resolved.
CancelSilently(W) ==
  /\ call' = call
  /\ waiter' = [w \in Worker |-> IF w \in W THEN NoCall ELSE waiter[w]]

\* The parked calls of the workers in W are cancelled.
Cancel(W) ==
  /\ call' = [k \in Call |-> IF \E w \in W : waiter[w] = k THEN Answered(k, "cancelled") ELSE call[k]]
  /\ waiter' = [w \in Worker |-> IF w \in W THEN NoCall ELSE waiter[w]]

\* Mutant of Disconnect: the owner is not forgotten with the waiter.
DisconnectKeepingOwner(c) ==
  /\ c \in open
  /\ open' = open \ {c}
  /\ Cancel(Owned(c))
  /\ tracked' = [tracked EXCEPT ![c] = {}]
  /\ UNCHANGED <<owner, refused, passed, turn, Board>>

\* cleanupMcpWorkers: the waiters it owns are cancelled, whoever parked them.
Disconnect(c) ==
  /\ c \in open
  /\ open' = open \ {c}
  /\ Cancel(Owned(c))
  /\ owner' = [w \in Worker |-> IF w \in Owned(c) THEN NoConn ELSE owner[w]]
  /\ tracked' = [tracked EXCEPT ![c] = {}]
  /\ UNCHANGED <<refused, passed, turn, Board>>

----------------------------------------------------------------------------
(* Waiting. *)

\* The message arrives, alone or at the head of its batch, and the handler goes as far as touchWorker.
Wait(k, c, w) ==
  /\ call[k].at = "idle"
  /\ Track(c, w)
  /\ call' = [call EXCEPT ![k] = [at |-> "touching", worker |-> w, conn |-> c, answer |-> "none"]]
  /\ turn' = Append(turn, k)
  /\ refused' = [refused EXCEPT ![w] = NoConn]
  /\ UNCHANGED <<open, waiter, Board>>

\* The message arrives and is refused: over the rate limit, or with statuses no agent can claim.
WaitRefused(c, w) ==
  /\ Track(c, w)
  /\ refused' = [refused EXCEPT ![w] = c]
  /\ UNCHANGED <<open, waiter, call, turn, Board>>

\* The message arrives further down a batch: every item is tracked on arrival, and run in its turn.
WaitInBatch(k, c, w) ==
  /\ call[k].at = "idle"
  /\ Track(c, w)
  /\ call' = [call EXCEPT ![k] = [at |-> "sent", worker |-> w, conn |-> c, answer |-> "none"]]
  /\ refused' = [refused EXCEPT ![w] = NoConn]
  /\ UNCHANGED <<open, waiter, turn, Board>>

\* The items before call k are done (they may be any tools, so this may be at any time), and the
\* client is still there.
Begin(k) ==
  /\ call[k].at = "sent" /\ call[k].conn \in open
  /\ call' = [call EXCEPT ![k].at = "touching"]
  /\ turn' = Append(turn, k)
  /\ UNCHANGED <<Connections, waiter, Board>>

\* They are, and the call is refused; its connection may still be the last that named the worker.
BeginRefused(k) ==
  LET w == call[k].worker IN
  /\ call[k].at = "sent" /\ call[k].conn \in open
  /\ call' = [call EXCEPT ![k] = Idle]
  /\ passed' = [passed EXCEPT ![k] = {}]
  /\ refused' = [refused EXCEPT ![w] = IF owner[w] = call[k].conn THEN call[k].conn ELSE @]
  /\ UNCHANGED <<open, tracked, owner, waiter, turn, Board>>

\* They are, but shouldContinue finds the client gone: the rest of the batch is dropped.
Drop(k) ==
  /\ call[k].at = "sent" /\ call[k].conn \notin open
  /\ call' = [call EXCEPT ![k] = Idle]
  /\ passed' = [passed EXCEPT ![k] = {}]
  /\ UNCHANGED <<open, tracked, owner, refused, waiter, turn, Board>>

\* The heartbeat of call k is written, and the handler goes on.
Touched(k) ==
  /\ turn # <<>> /\ Head(turn) = k
  /\ turn' = Tail(turn)

\* The calls, with the waiter that worker w may have gone.
Without(w) ==
  [k \in Call |-> IF waiter[w] = k THEN Answered(k, "cancelled") ELSE call[k]]

\* Mutant of Park: the board was looked at before the heartbeat was awaited.
ParkBlindly(k) ==
  LET w == call[k].worker IN
  /\ Touched(k)
  /\ call' = [Without(w) EXCEPT ![k].at = "parked"]
  /\ waiter' = [waiter EXCEPT ![w] = k]
  /\ UNCHANGED <<Connections, Board>>

\* There is nothing to do: the older waiter gives way and the call parks, whether or not its
\* connection is still there.
Park(k) ==
  LET w == call[k].worker IN
  /\ Touched(k)
  /\ w \notin match /\ ~question
  /\ call' = [Without(w) EXCEPT ![k].at = "parked"]
  /\ waiter' = [waiter EXCEPT ![w] = k]
  /\ UNCHANGED <<Connections, Board>>

\* There is a task, or a question, to answer with.
AnswerAtOnce(k) ==
  LET w == call[k].worker IN
  /\ Touched(k)
  /\ w \in match \/ question
  /\ call' = [Without(w) EXCEPT ![k] = Answered(k, "news")]
  /\ waiter' = [waiter EXCEPT ![w] = NoCall]
  /\ UNCHANGED <<Connections, Board>>

\* The parked calls in K wake up.
Wake(K, answer) ==
  /\ call' = [k \in Call |-> IF k \in K THEN Answered(k, answer) ELSE call[k]]
  /\ waiter' = [w \in Worker |-> IF waiter[w] \in K THEN NoCall ELSE waiter[w]]
  /\ UNCHANGED <<Connections, turn>>

\* TASK_CREATED or TASK_UPDATED: every waiter looks at the board as it is now, for a task, and when
\* the updated task carries a question, for one to answer.
TaskWritten(after, asked, updated) ==
  /\ match' = after /\ question' = asked
  /\ quiet' = {}
  /\ Wake({k \in Parked : call[k].worker \in after \/ (asked /\ updated)}, "news")

\* The board changes and no such event is emitted: TASK_DELETED, a team joined or left, a worker
\* declared dead, a reload after an edit on disk.
BoardChangesQuietly(after, asked) ==
  /\ <<after, asked>> # <<match, question>>
  /\ match' = after /\ question' = asked
  /\ quiet' = quiet \cup (after \ match)
  /\ UNCHANGED <<Connections, waiter, call, turn>>

\* MESSAGE_CREATED for some workers; a message from a human is for all.
MessageCreated(targets) ==
  /\ \E k \in Parked : call[k].worker \in targets
  /\ Wake({k \in Parked : call[k].worker \in targets}, "news")
  /\ UNCHANGED Board

\* cleanupStaleWaiters: the workers in gone have no record any more.
CleanStale(gone) ==
  /\ \E k \in Parked : call[k].worker \in gone
  /\ Wake({k \in Parked : call[k].worker \in gone}, "cancelled")
  /\ UNCHANGED Board

\* The timer fires, unless its entry went and cleared it: the waiter is gone before the heartbeat
\* is awaited.
Expire(k) ==
  /\ k \in Parked /\ waiter[call[k].worker] = k
  /\ call' = [call EXCEPT ![k].at = "leaving"]
  /\ waiter' = [waiter EXCEPT ![call[k].worker] = NoCall]
  /\ UNCHANGED <<Connections, turn, Board>>

TimedOut(k) ==
  /\ call[k].at = "leaving"
  /\ call' = [call EXCEPT ![k] = Answered(k, "timedOut")]
  /\ UNCHANGED <<Connections, waiter, turn, Board>>

\* handleMcpMessage goes on, to the next item or to the response, sent if the connection is open.
Respond(k) ==
  /\ call[k].at = "answered"
  /\ call' = [call EXCEPT ![k] = Idle]
  /\ passed' = [passed EXCEPT ![k] = {}]
  /\ UNCHANGED <<open, tracked, owner, refused, waiter, turn, Board>>

Next ==
  \/ \E c \in Conn : Connect(c) \/ Disconnect(c)
  \/ \E c \in Conn, w \in Worker : OtherCall(c, w) \/ WaitRefused(c, w)
  \/ \E k \in Call, c \in Conn, w \in Worker : Wait(k, c, w)
  \/ \E k \in Batched, c \in Conn, w \in Worker : WaitInBatch(k, c, w)
  \/ \E k \in Batched : Begin(k) \/ BeginRefused(k) \/ Drop(k)
  \/ \E k \in Call : Park(k) \/ AnswerAtOnce(k) \/ Expire(k) \/ TimedOut(k) \/ Respond(k)
  \/ \E after \in SUBSET Worker, asked, updated \in BOOLEAN : TaskWritten(after, asked, updated)
  \/ \E after \in SUBSET Worker, asked \in BOOLEAN : BoardChangesQuietly(after, asked)
  \/ \E targets \in SUBSET Worker : MessageCreated(targets) \/ CleanStale(targets)

Spec == Init /\ [][Next]_vars

\* The items before a call in its batch come to their ends, for each is a tool that runs under the
\* state mutex or a wait that comes back itself.  The mutex is granted to whoever waits for it (module
\* AsyncMutex), the timer of a parked call fires within ten minutes, and a resolved promise resumes
\* its handler: at every stage a call has one of these to wait for.  Nothing is assumed of the board,
\* the chat or the connections.
FairSpec ==
  /\ Spec
  /\ \A k \in Call :
       WF_vars(Begin(k) \/ BeginRefused(k) \/ Drop(k)
               \/ Park(k) \/ AnswerAtOnce(k) \/ Expire(k) \/ TimedOut(k) \/ Respond(k))

----------------------------------------------------------------------------
(* Properties. *)

\* Connections and calls have their types; only calls before their heartbeat queue for the mutex.
TypeOK ==
  /\ open \subseteq Conn
  /\ tracked \in [Conn -> SUBSET Worker]
  /\ owner \in [Worker -> Conn \cup {NoConn}]
  /\ waiter \in [Worker -> Call \cup {NoCall}]
  /\ call \in [Call -> CallRecord]
  /\ turn \in Seq({k \in Call : call[k].at = "touching"})
  /\ match \subseteq Worker
  /\ question \in BOOLEAN
  /\ quiet \subseteq Worker
  /\ refused \in [Worker -> Conn \cup {NoConn}]
  /\ passed \in [Call -> SUBSET Conn]

\* Every parked call is the one its worker's entry in activeWaiters leads to, and the entries lead
\* nowhere else: nobody sleeps where no cancellation finds it, and one worker sleeps at most once.
ParkedIsFound ==
  \A w \in Worker, k \in Call :
    waiter[w] = k <=> call[k].at = "parked" /\ call[k].worker = w

\* No sleeper has slept through a task: if a parked worker could claim something, then it became
\* claimable without any task being created or updated since.
NobodySleepsOverTasks ==
  \A k \in Parked : call[k].worker \in match => call[k].worker \in quiet

\* A connection that has gone owns nothing: its socket is not kept, and cannot be held against the
\* next waiter of the same worker.
OwnersAreOpen ==
  \A w \in Worker : owner[w] # NoConn => owner[w] \in open /\ w \in tracked[owner[w]]

\* Calls, waiters and owners fit together.
Inv == TypeOK /\ ParkedIsFound /\ OwnersAreOpen

\* "A live waiter another connection registered must survive": it does when a connection closes,
\* unless that connection had itself asked to wait for the same worker since the waiter's message
\* arrived, and was refused, has not come to its turn yet, or overtook the waiter's call while that
\* was behind other items of its batch.
ForeignWaitersSurvive ==
  [][\A c \in open \ open', k \in Parked :
       call'[k].answer = "cancelled" /\ call[k].conn # c =>
         \/ refused[call[k].worker] = c
         \/ c \in passed[k]
         \/ \E j \in Call :
              call[j].at \in {"sent", "touching"} /\ call[j].conn = c /\ call[j].worker = call[k].worker]_vars

\* Every call comes back, whatever closes, deletes or replaces it.
WaitsEnd ==
  \A k \in Call : []<>(call[k].at = "idle")

=============================================================================
