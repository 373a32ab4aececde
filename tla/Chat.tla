-------------------------------- MODULE Chat --------------------------------
(***************************************************************************)
(* Chat as one worker reads it: messages are appended to a file per        *)
(* channel and announced, moe.chat_wait parks until one is announced that  *)
(* concerns the worker and answers with a burst, moe.chat_read reads a     *)
(* page.  What the worker has read is a cursor per channel, and whether    *)
(* there is something to read is a count per channel, kept apart from it.  *)
(*                                                                         *)
(* An await is a boundary between actions: anything may happen there.      *)
(* Messages are numbered in the order in which they are sent, which is     *)
(* that of their timestamps.                                               *)
(***************************************************************************)
EXTENDS Naturals, Sequences, FiniteSetsExt, SequencesExt

CONSTANTS
  Chan,
  Wait,        \* the chat_wait calls of the worker that may be under way at a time
  NoWait,
  N,           \* bound: the messages that are sent
  Met,         \* the channels that hold a message which the worker has read when the behaviour begins
  Kinds,       \* bound: the kinds of messages that are sent
  Filter,      \* bound: the channelSets that calls are made with; {} is none
  Deletable,   \* bound: the channels that may be deleted
  ScanLimit,   \* PER_CHANNEL_SCAN_LIMIT, 50 in the code
  BurstCap,    \* MAX_BURST_MESSAGES, 100 in the code
  ReadLimit    \* the limit of chat_read, 10 by default

ASSUME NoWaitAssumption == NoWait \notin Wait
ASSUME KindsAssumption == Kinds \subseteq {"routed", "human", "plain", "own"}
ASSUME ChannelsAssumption == IsFiniteSet(Met) /\ Met \subseteq Chan /\ Cardinality(Met) <= N
ASSUME BoundsAssumption == Filter \subseteq SUBSET Chan /\ Deletable \subseteq Chan
ASSUME LimitsAssumption == {ScanLimit, BurstCap, ReadLimit} \subseteq Nat \ {0} /\ N \in Nat

VARIABLES
  live,        \* the channels that exist
  post,        \* the messages sent so far: channel, kind, and how far sendMessage has come
  log,         \* the message file of each channel
  unread,      \* the channels in which the worker has an unread count
  cursor,      \* chatCursors of the worker; 0 is no cursor
  wait,        \* the chat_wait sessions
  waiter,      \* the worker's entry in activeChatWaiters
  reading,     \* the page that the chat_read under way has read
  delivered,   \* history: the messages the worker got, or is certain to get
  skipped      \* history: the messages that a read without a cursor left out

vars == <<live, post, log, unread, cursor, wait, waiter, reading, delivered, skipped>>

Messages == <<live, post, log>>

\* A "routed" message has the worker among its routing targets.  "human" is one of the sender 'human'
\* that has not, because it mentions others or the worker is IDLE or DEAD.  "plain" is between other
\* agents, "own" is sent by the worker.
Post == [chan : Chan, kind : {"routed", "human", "plain", "own"}, at : {"sent", "written", "announced"}]

Sent == DOMAIN post

In(c) == {i \in Sent : post[i].chan = c}

\* channels: the channelSet, empty when the caller gave none; base: the cursors when the drain
\* began, of the channels still to read; scanned, full: the channels read, and possibly not read to
\* the end; moves, drained: what a delivery under way will do to cursors and counts.
Session ==
  [at : {"idle", "draining", "parked", "waking", "settling", "advanced"},
   channels : SUBSET Chan, base : [Chan -> 0 .. N], todo : SUBSET Chan, scanned : SUBSET Chan,
   full : SUBSET Chan, got : SUBSET (1 .. N), buffered : SUBSET (1 .. N),
   moves : SUBSET (1 .. N), drained : SUBSET Chan]

NoCursor == [c \in Chan |-> 0]

Idle == [at |-> "idle", channels |-> {}, base |-> NoCursor, todo |-> {}, scanned |-> {}, full |-> {},
         got |-> {}, buffered |-> {}, moves |-> {}, drained |-> {}]

\* Not finished: subscribed to the events, with a timer.
Waiting == {k \in Wait : wait[k].at \in {"draining", "parked", "waking"}}

\* The message that channel c begins with, if it is one of Met.
First(c) == {i \in DOMAIN SetToSeq(Met) : SetToSeq(Met)[i] = c}

Init ==
  /\ live = Chan
  /\ post = [i \in DOMAIN SetToSeq(Met) |-> [chan |-> SetToSeq(Met)[i], kind |-> "routed", at |-> "announced"]]
  /\ log = [c \in Chan |-> SetToSeq(First(c))]
  /\ unread = {}
  /\ cursor = [c \in Chan |-> IF c \in Met THEN Max(First(c)) ELSE 0]
  /\ wait = [k \in Wait |-> Idle]
  /\ waiter = NoWait
  /\ reading = <<>>
  /\ delivered = DOMAIN post
  /\ skipped = {}

----------------------------------------------------------------------------
(* Reading a channel. *)

\* Where the file of c holds message i.
Place(c, i) == CHOOSE p \in DOMAIN log[c] : log[c][p] = i

Lesser(m, n) == IF m < n THEN m ELSE n

\* getMessages: the oldest after a cursor that the file holds; otherwise the newest.
Page(c, since, limit) ==
  LET file == log[c]
  IN IF since \in ToSet(file)
       THEN SubSeq(file, Place(c, since) + 1, Lesser(Place(c, since) + limit, Len(file)))
       ELSE SubSeq(file, Len(file) - Lesser(limit, Len(file)) + 1, Len(file))

\* What a page without a cursor leaves out.
LeftOut(c, since, page) == IF since \in ToSet(log[c]) THEN {} ELSE ToSet(log[c]) \ ToSet(page)

\* backlogChannelIds: the caller's channels, or those with an unread count.
Backlog(channels, counted) == IF channels # {} THEN channels ELSE counted

Snapshot(todo) == [c \in Chan |-> IF c \in todo THEN cursor[c] ELSE 0]

----------------------------------------------------------------------------
(* Sending: sendMessage. *)

\* The channel is looked up, the targets are computed and the time is taken; the append waits for
\* the channel's mutex.
Send(c, kind) ==
  /\ c \in live
  /\ Len(post) < N
  /\ post' = Append(post, [chan |-> c, kind |-> kind, at |-> "sent"])
  /\ UNCHANGED <<live, log, unread, cursor, wait, waiter, reading, delivered, skipped>>

\* Its turn comes, and the line is appended, whether or not the channel is still there.
Write(i) ==
  /\ post[i].at = "sent"
  /\ \A j \in In(post[i].chan) : j < i => post[j].at # "sent"
  /\ post' = [post EXCEPT ![i].at = "written"]
  /\ log' = [log EXCEPT ![post[i].chan] = Append(@, i)]
  /\ UNCHANGED <<live, unread, cursor, wait, waiter, reading, delivered, skipped>>

\* isRelevant: with a channelSet any message of others in it, without one what is routed here and
\* whatever a human says.
Relevant(k, i) ==
  IF wait[k].channels # {} THEN post[i].chan \in wait[k].channels /\ post[i].kind # "own"
  ELSE post[i].kind \in {"routed", "human"}

\* The session begins to collect the backlog; counted are the channels with an unread count.
Collecting(k, counted) ==
  LET todo == Backlog(wait[k].channels, counted)
  IN [wait[k] EXCEPT !.base = Snapshot(todo), !.todo = todo, !.scanned = {}, !.full = {}, !.got = {}]

\* Mutant of Heard: an event that comes during the drain is left to the drain.
HeardWhenParked(k, i, counted) ==
  IF k \notin Waiting \/ wait[k].at = "draining" \/ ~Relevant(k, i) THEN wait[k]
  ELSE IF wait[k].at = "parked" THEN [Collecting(k, counted) EXCEPT !.at = "waking", !.buffered = @ \cup {i}]
  ELSE [wait[k] EXCEPT !.buffered = @ \cup {i}]

\* onEvent: the message is buffered, and a session that is parked wakes.
Heard(k, i, counted) ==
  IF k \notin Waiting \/ ~Relevant(k, i) THEN wait[k]
  ELSE IF wait[k].at = "parked" THEN [Collecting(k, counted) EXCEPT !.at = "waking", !.buffered = @ \cup {i}]
  ELSE [wait[k] EXCEPT !.buffered = @ \cup {i}]

\* The unread count of the routing targets is incremented and MESSAGE_CREATED emitted.
Announce(i) ==
  /\ post[i].at = "written"
  /\ \A j \in In(post[i].chan) : j < i => post[j].at = "announced"
  /\ post' = [post EXCEPT ![i].at = "announced"]
  /\ unread' = IF post[i].kind = "routed" THEN unread \cup {post[i].chan} ELSE unread
  /\ wait' = [k \in Wait |-> Heard(k, i, unread')]
  /\ UNCHANGED <<live, log, cursor, waiter, reading, delivered, skipped>>

----------------------------------------------------------------------------
(* Waiting: ChatWaitSession. *)

Begin(channels) ==
  LET todo == Backlog(channels, unread)
  IN [Idle EXCEPT !.at = "draining", !.channels = channels, !.base = Snapshot(todo), !.todo = todo]

\* Mutant of Start: the older call is answered, and its session goes on.
StartBeside(k, channels) ==
  /\ wait[k] = Idle
  /\ channels \subseteq live
  /\ wait' = [wait EXCEPT ![k] = Begin(channels)]
  /\ waiter' = k
  /\ UNCHANGED <<Messages, unread, cursor, reading, delivered, skipped>>

\* A call: the older waiter is cancelled, which finishes its session; the new one subscribes and
\* begins its drain without an await in between.
Start(k, channels) ==
  /\ wait[k] = Idle
  /\ channels \subseteq live
  /\ wait' = [j \in Wait |->
                IF j = k THEN Begin(channels) ELSE IF j = waiter THEN Idle ELSE wait[j]]
  /\ waiter' = k
  /\ UNCHANGED <<Messages, unread, cursor, reading, delivered, skipped>>

\* collectChatBacklog reads one channel; one that is gone is skipped.
Scan(k, c) ==
  /\ wait[k].at \in {"draining", "waking"} /\ c \in wait[k].todo
  /\ LET page == Page(c, wait[k].base[c], ScanLimit) IN
       IF c \in live
       THEN /\ wait' = [wait EXCEPT ![k] =
                 [wait[k] EXCEPT !.todo = @ \ {c}, !.scanned = @ \cup {c}, !.base[c] = 0,
                                 !.full = IF Len(page) >= ScanLimit THEN @ \cup {c} ELSE @,
                                 !.got = @ \cup {i \in ToSet(page) : post[i].kind # "own"}]]
            /\ skipped' = skipped \cup LeftOut(c, wait[k].base[c], page)
       ELSE /\ wait' = [wait EXCEPT ![k].todo = @ \ {c}, ![k].base[c] = 0]
            /\ UNCHANGED skipped
  /\ UNCHANGED <<Messages, unread, cursor, waiter, reading, delivered>>

\* drainOnEntry finds nothing, and nothing was announced meanwhile.
Park(k) ==
  /\ wait[k].at = "draining" /\ wait[k].todo = {}
  /\ wait[k].got = {} /\ wait[k].buffered = {}
  /\ wait' = [wait EXCEPT ![k] = [Idle EXCEPT !.at = "parked", !.channels = wait[k].channels,
                                             !.full = wait[k].full]]
  /\ UNCHANGED <<Messages, unread, cursor, waiter, reading, delivered, skipped>>

\* summarizeChatBurst: the oldest of what was read and what was announced.
Burst(k) ==
  LET all == wait[k].got \cup wait[k].buffered
  IN {i \in all : Cardinality({j \in all : j < i}) < BurstCap}

\* Mutant of Moves: an announced message moves the cursor of its channel too.
MovesToNewest(k) == {i \in Burst(k) : post[i].chan \in wait[k].scanned}

\* The delivered messages that move a cursor: those that the scan read.
Moves(k) == {i \in Burst(k) : i \in wait[k].got /\ post[i].chan \in wait[k].scanned}

Moved(k) == {post[i].chan : i \in Moves(k)}

\* fullyDrained
Drained(k) ==
  {c \in Moved(k) \ wait[k].full :
     \A i \in (wait[k].got \cup wait[k].buffered) \ Burst(k) : post[i].chan # c}

\* settle: the session is finished, its entry goes, and the delivery begins.
Settle(k) ==
  /\ wait[k].at \in {"draining", "waking"} /\ wait[k].todo = {}
  /\ wait[k].got \cup wait[k].buffered # {}
  /\ wait' = [wait EXCEPT ![k] = [Idle EXCEPT !.at = "settling", !.moves = Moves(k), !.drained = Drained(k)]]
  /\ waiter' = NoWait
  /\ delivered' = delivered \cup Burst(k)
  /\ UNCHANGED <<Messages, unread, cursor, reading, skipped>>

\* applyChatDelivery, first half: the cursors are written, under the state mutex.
Advance(k) ==
  /\ wait[k].at = "settling"
  /\ wait' = [wait EXCEPT ![k] = [@ EXCEPT !.at = "advanced", !.moves = {}]]
  /\ cursor' = [c \in Chan |-> LET moves == wait[k].moves \cap In(c)
                                IN IF moves # {} THEN Max(moves) ELSE cursor[c]]
  /\ UNCHANGED <<Messages, unread, waiter, reading, delivered, skipped>>

\* applyChatDelivery, second half: the counts are cleared, and the call resolves.
Resolve(k) ==
  /\ wait[k].at = "advanced"
  /\ wait' = [wait EXCEPT ![k] = Idle]
  /\ unread' = unread \ wait[k].drained
  /\ UNCHANGED <<Messages, cursor, waiter, reading, delivered, skipped>>

\* The timer fires, the connection closes or the worker's record is gone: the session ends, with
\* whatever drain or delivery was about to begin.
End(k) ==
  /\ k \in Waiting
  /\ wait' = [wait EXCEPT ![k] = Idle]
  /\ waiter' = NoWait
  /\ UNCHANGED <<Messages, unread, cursor, reading, delivered, skipped>>

\* deleteChannel, and CHANNEL_DELETED: whoever waits for it is sent home.
Delete(c) ==
  /\ c \in live
  /\ live' = live \ {c}
  /\ log' = [log EXCEPT ![c] = <<>>]
  /\ LET hit == {k \in Waiting : c \in wait[k].channels} IN
       /\ wait' = [k \in Wait |-> IF k \in hit THEN Idle ELSE wait[k]]
       /\ waiter' = IF waiter \in hit THEN NoWait ELSE waiter
  /\ UNCHANGED <<post, unread, cursor, reading, delivered, skipped>>

----------------------------------------------------------------------------
(* Reading: moe.chat_read of one channel. *)

Read(c) ==
  /\ reading = <<>> /\ c \in live
  /\ LET page == Page(c, cursor[c], ReadLimit) IN
       /\ page # <<>>
       /\ reading' = page
       /\ delivered' = delivered \cup ToSet(page)
       /\ skipped' = skipped \cup LeftOut(c, cursor[c], page)
  /\ UNCHANGED <<Messages, unread, cursor, wait, waiter>>

\* Cursor and count, whether or not the page was all there is.
FinishRead ==
  /\ reading # <<>>
  /\ LET c == post[Last(reading)].chan IN
       /\ cursor' = [cursor EXCEPT ![c] = Last(reading)]
       /\ unread' = unread \ {c}
  /\ reading' = <<>>
  /\ UNCHANGED <<Messages, wait, waiter, delivered, skipped>>

Next ==
  \/ \E c \in Chan, kind \in Kinds : Send(c, kind)
  \/ \E i \in Sent : Write(i) \/ Announce(i)
  \/ \E k \in Wait, channels \in Filter : Start(k, channels)
  \/ \E k \in Wait : Park(k) \/ Settle(k) \/ Advance(k) \/ Resolve(k) \/ End(k)
  \/ \E k \in Wait, c \in Chan : Scan(k, c)
  \/ \E c \in Chan : Read(c)
  \/ \E c \in Deletable : Delete(c)
  \/ FinishRead

Spec == Init /\ [][Next]_vars

----------------------------------------------------------------------------
(* Properties. *)

\* Messages, files, cursors and sessions have their types.
TypeOK ==
  /\ live \subseteq Chan
  /\ post \in Seq(Post)
  /\ log \in [Chan -> Seq(Sent)]
  /\ unread \subseteq Chan
  /\ cursor \in [Chan -> 0 .. N]
  /\ wait \in [Wait -> Session]
  /\ waiter \in Wait \cup {NoWait}
  /\ reading \in Seq(Sent)
  /\ delivered \subseteq 1 .. N /\ skipped \subseteq 1 .. N

\* The message file of an existing channel holds it.
Readable(i) == post[i].chan \in live /\ i \in ToSet(log[post[i].chan])

\* "Advancing to it would strand everything the scan never reached": a cursor is never past a
\* message that the worker neither got nor sent, except what the first read of the channel left out:
\* without a cursor it takes the newest messages only.  Bursts that are cut, messages that arrive during a drain, sessions that are cancelled in
\* the middle, and reads beside a wait do not change that.
CursorsPassNothing ==
  \A i \in Sent : Readable(i) /\ i <= cursor[post[i].chan] => i \in delivered \cup skipped \/ post[i].kind = "own"

\* An announced message that is there to be read, and that the worker has not got.
Outstanding(i) ==
  post[i].at = "announced" /\ Readable(i) /\ i > cursor[post[i].chan] /\ i \notin delivered \cup skipped

\* A call parks, or stays parked, only when no outstanding message that it would wake for has an
\* unread count, or is in a channel the caller named: what is announced before, during or after the
\* drain ends the wait, a human's words to somebody else in a counted channel included.  A channel
\* that the drain did not read to the end is the exception.
NobodySleepsOnUnread ==
  \A k \in Wait, i \in Sent :
    wait[k].at = "parked" /\ Outstanding(i) /\ Relevant(k, i)
      => \/ wait[k].channels = {} /\ post[i].chan \notin unread
         \/ post[i].chan \in wait[k].full

\* A session that may still park or deliver is the one that activeChatWaiters leads to: there is
\* one, and a cancellation finds it.
WaiterIsFound == \A k \in Wait : k \in Waiting <=> waiter = k

\* Sessions and their entry in activeChatWaiters fit together.
Inv == TypeOK /\ WaiterIsFound

\* "Returns any unread backlog immediately, otherwise blocks": no call is parked while a message that
\* was routed to the worker is outstanding.  (The code does not keep this.)
BacklogEndsWaits ==
  \A k \in Wait, i \in Sent :
    ~(wait[k].at = "parked" /\ Outstanding(i) /\ post[i].kind = "routed" /\ Relevant(k, i))

=============================================================================
