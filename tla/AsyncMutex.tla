----------------------------- MODULE AsyncMutex -----------------------------
(***************************************************************************)
(* The mutexes of the Moe daemon and the asynchronous contexts that take   *)
(* them.                                                                   *)
(*                                                                         *)
(* The daemon is one thread; between two awaits nothing else runs, but at  *)
(* each await any other context may.  StateManager's mutex makes a handler *)
(* with its awaits one step for every other handler: modules Ownership and *)
(* TaskLifecycle take that for granted, and this one says why they may.    *)
(* The lock is re-entrant because the context remembers that it holds it,  *)
(* and Node.js hands that memory down to whatever the context starts: a    *)
(* timer, or a promise nobody waits for, would still believe in a lock     *)
(* that was released long ago.                                             *)
(***************************************************************************)
EXTENDS Naturals, Sequences

CONSTANTS
  Context,     \* asynchronous contexts: dispatched calls, timer callbacks, detached promises
  Leaf,        \* the mutexes of the chat channels, and activityMutex
  StateMutex,  \* state.mutex
  NoLock,
  MaxCalls     \* bound: the runExclusive calls a context makes before it ends

ASSUME LocksAssumption ==
  StateMutex \notin Leaf /\ NoLock \notin Leaf \cup {StateMutex}

ASSUME MaxCallsAssumption == MaxCalls \in Nat

VARIABLES
  locked,   \* AsyncMutex.locked, of each mutex
  queue,    \* AsyncMutex.queue, of each mutex
  ctx       \* the contexts

vars == <<locked, queue, ctx>>

Lock == Leaf \cup {StateMutex}

\* kind:    "loose" is a promise that nobody waits for: an activity-log line, a system message
\* at:      queued in acquire(), granted (acquire() resolved, its caller not yet resumed), running
\* wants:   the lock it is queued for, or was granted
\* owns:    the locks whose runExclusive acquired them in this context
\* nested:  the bodies of StateMutex it runs on the strength of re-entrance
\* holding: the locks whose AsyncLocalStorage says "held" in this context
\* calls:   the runExclusive calls it has made
ContextRecord ==
  [kind    : {"call", "loose"},
   at      : {"ended", "running", "queued", "granted"},
   wants   : Lock \cup {NoLock},
   owns    : SUBSET Lock,
   nested  : 0 .. MaxCalls,
   holding : SUBSET Lock,
   calls   : 0 .. MaxCalls]

Blank(kind, at, held) ==
  [kind |-> kind, at |-> at, wants |-> NoLock, owns |-> {}, nested |-> 0, holding |-> held, calls |-> 0]

Fresh(kind, held) == Blank(kind, "running", held)

Ended == Blank("call", "ended", {})

InLeaf(c) == ctx[c].owns \cap Leaf # {}

\* Context c is executing a body that lock l protects.
InBody(c, l) == l \in ctx[c].owns \/ (l = StateMutex /\ ctx[c].nested > 0)

\* Lock l is in the hands of c, whether or not c has been resumed since.
Custody(c, l) == l \in ctx[c].owns \/ (ctx[c].at = "granted" /\ ctx[c].wants = l)

----------------------------------------------------------------------------
(* Contexts start and end. *)

\* A request arrives on a socket, or a file watcher fires: nothing is held.
Arrive(c) ==
  /\ ctx[c].at = "ended"
  /\ ctx' = [ctx EXCEPT ![c] = Fresh("call", {})]
  /\ UNCHANGED <<locked, queue>>

\* Mutant of Detach: the timer, or the woken waiter, is started without exit().
DetachInheriting(c, d) ==
  /\ ctx[c].at = "running" /\ ~InLeaf(c)
  /\ ctx[d].at = "ended"
  /\ ctx' = [ctx EXCEPT ![d] = Fresh("call", ctx[c].holding)]
  /\ UNCHANGED <<locked, queue>>

\* A timer is armed, or a chat waiter woken, through exit(); its callback may come at once or late.
Detach(c, d) ==
  /\ ctx[c].at = "running" /\ ~InLeaf(c)
  /\ ctx[d].at = "ended"
  /\ ctx' = [ctx EXCEPT ![d] = Fresh("call", ctx[c].holding \ {StateMutex})]
  /\ UNCHANGED <<locked, queue>>

\* appendActivity, and the chat announcements of updateTask: the write is not awaited, and inherits
\* what c believes it holds.
FireAndForget(c, d) ==
  /\ ctx[c].at = "running" /\ ~InLeaf(c)
  /\ ctx[d].at = "ended"
  /\ ctx' = [ctx EXCEPT ![d] = Fresh("loose", ctx[c].holding)]
  /\ UNCHANGED <<locked, queue>>

End(c) ==
  /\ ctx[c].at = "running"
  /\ ctx[c].owns = {} /\ ctx[c].nested = 0
  /\ ctx' = [ctx EXCEPT ![c] = Ended]
  /\ UNCHANGED <<locked, queue>>

----------------------------------------------------------------------------
(* runExclusive. *)

\* Mutant of MayCall: a leaf's body takes the state mutex.
MayCallAnyLock(c, l) == ctx[c].at = "running" /\ ctx[c].calls < MaxCalls /\ l \notin ctx[c].owns \cap Leaf

\* What the code calls: a loose promise appends to a log or a channel under its mutex and takes no
\* other, and no leaf's body takes a lock (chatStore.ts: "Lock ordering is state.mutex ->
\* per-channel mutex, never the reverse").
MayCall(c, l) ==
  /\ ctx[c].at = "running" /\ ctx[c].calls < MaxCalls
  /\ ~InLeaf(c)
  /\ ctx[c].kind = "loose" => l \in Leaf

\* The context believes that it holds the lock: the body runs at once.
Reenter(c, l) ==
  /\ MayCall(c, l)
  /\ l = StateMutex
  /\ l \in ctx[c].holding
  /\ ctx' = [ctx EXCEPT ![c] = [ctx[c] EXCEPT !.nested = @ + 1, !.calls = @ + 1]]
  /\ UNCHANGED <<locked, queue>>

\* acquire(): granted at once, or queued.
Acquire(c, l) ==
  /\ MayCall(c, l)
  /\ l \notin ctx[c].holding
  /\ locked' = [locked EXCEPT ![l] = TRUE]
  /\ queue' = [queue EXCEPT ![l] = IF locked[l] THEN Append(@, c) ELSE @]
  /\ ctx' = [ctx EXCEPT ![c] = [ctx[c] EXCEPT !.at = IF locked[l] THEN "queued" ELSE "granted",
                                              !.wants = l, !.calls = @ + 1]]

\* The await of acquire() resumes, and the body starts in a context that remembers the lock.
Enter(c) ==
  /\ ctx[c].at = "granted"
  /\ ctx' = [ctx EXCEPT ![c] = [ctx[c] EXCEPT !.at = "running", !.wants = NoLock,
                                              !.owns = @ \cup {ctx[c].wants},
                                              !.holding = @ \cup {ctx[c].wants}]]
  /\ UNCHANGED <<locked, queue>>

\* A re-entrant body returns, or throws.
LeaveNested(c) ==
  /\ ctx[c].at = "running" /\ ~InLeaf(c)
  /\ ctx[c].nested > 0
  /\ ctx' = [ctx EXCEPT ![c] = [ctx[c] EXCEPT !.nested = @ - 1]]
  /\ UNCHANGED <<locked, queue>>

\* The body that Leave(c, l) returns from is the innermost one.
Innermost(c, l) ==
  /\ ctx[c].at = "running"
  /\ l \in ctx[c].owns
  /\ l = StateMutex => ~InLeaf(c) /\ ctx[c].nested = 0

Released(c, l) == [ctx[c] EXCEPT !.owns = @ \ {l}, !.holding = @ \ {l}]

\* Mutant of Leave: the lock is opened before it is handed on.
LeaveOpening(c, l) ==
  /\ Innermost(c, l)
  /\ locked' = [locked EXCEPT ![l] = FALSE]
  /\ IF queue[l] # <<>>
     THEN /\ queue' = [queue EXCEPT ![l] = Tail(@)]
          /\ ctx' = [ctx EXCEPT ![c] = Released(c, l), ![Head(queue[l])].at = "granted"]
     ELSE /\ ctx' = [ctx EXCEPT ![c] = Released(c, l)]
          /\ UNCHANGED queue

\* The body returns or throws; release() passes the lock on without opening it, or opens it.
Leave(c, l) ==
  /\ Innermost(c, l)
  /\ IF queue[l] # <<>>
     THEN /\ queue' = [queue EXCEPT ![l] = Tail(@)]
          /\ ctx' = [ctx EXCEPT ![c] = Released(c, l), ![Head(queue[l])].at = "granted"]
          /\ UNCHANGED locked
     ELSE /\ locked' = [locked EXCEPT ![l] = FALSE]
          /\ ctx' = [ctx EXCEPT ![c] = Released(c, l)]
          /\ UNCHANGED queue

----------------------------------------------------------------------------
Init ==
  /\ locked = [l \in Lock |-> FALSE]
  /\ queue = [l \in Lock |-> <<>>]
  /\ ctx = [c \in Context |-> Ended]

Start ==
  \/ \E c \in Context : Arrive(c) \/ End(c)
  \/ \E c, d \in Context : Detach(c, d) \/ FireAndForget(c, d)

Exclusive ==
  \/ \E c \in Context, l \in Lock : Reenter(c, l) \/ Acquire(c, l) \/ Leave(c, l)
  \/ \E c \in Context : Enter(c) \/ LeaveNested(c)

Next == Start \/ Exclusive

Spec == Init /\ [][Next]_vars

\* The event loop resumes what is resolved, and every body comes to its end: no handler under a
\* lock waits for anything but a lock, a file or a git process with a timeout.
Progress(c) == Enter(c) \/ LeaveNested(c) \/ \E l \in Lock : Leave(c, l)

FairSpec == Spec /\ \A c \in Context : WF_vars(Progress(c))

----------------------------------------------------------------------------
(* Properties. *)

\* The mutexes and the contexts have their types.
TypeOK ==
  /\ locked \in [Lock -> BOOLEAN]
  /\ queue \in [Lock -> Seq(Context)]
  /\ ctx \in [Context -> ContextRecord]

\* No two contexts are ever inside bodies that one mutex protects, re-entrant bodies included:
\* neither a late timer nor a log line that outlives its handler runs on a memory of the lock.
MutualExclusion ==
  \A l \in Lock : \A c, d \in Context : InBody(c, l) /\ InBody(d, l) => c = d

\* A mutex is locked exactly while one context owns it or has been granted it, and nobody queues
\* for a mutex that is open: a hand-over, a throw or a nested call never loses the lock.
LockIsInUse ==
  \A l \in Lock :
    /\ locked[l] <=> \E c \in Context : Custody(c, l)
    /\ queue[l] # <<>> => locked[l]

\* First come, first served: a context that asks for a lock never gets it before one that was
\* already in the queue.
NoOvertaking ==
  [][\A l \in Lock : \A c \in Context :
       ~Custody(c, l) /\ Custody(c, l)' /\ queue[l] # <<>> => c = Head(queue[l])]_vars

\* Everyone who queues gets in: nested locks are taken in one order, so contexts never wait for
\* each other.
EveryoneIsServed ==
  \A c \in Context : ctx[c].at = "queued" ~> ctx[c].at = "running"

=============================================================================
