--------------------------- MODULE WaitersProofs ---------------------------
(***************************************************************************)
(* Proofs about Waiters for any workers, connections and calls: every      *)
(* parked call is where a cancellation finds it, nobody sleeps over a      *)
(* task, no closed connection owns a waiter, and a connection that closes  *)
(* takes another's waiter along in three cases only.                       *)
(*                                                                         *)
(* The last rests on the order in which the state mutex is granted.  Who   *)
(* owns a worker's waiter is decided when a message arrives and who parks  *)
(* when its turn comes, so the owner of a sleeping or waiting call is its  *)
(* own connection unless a later arrival has taken its place: one that was *)
(* refused, is still behind it in the queue or in a batch, or passed it    *)
(* while it was in a batch itself (OwnerIsLatest).                         *)
(*                                                                         *)
(* That every call comes back is proved from what the state mutex promises *)
(* (MutexServes) and from the fairness of the stages after it.             *)
(***************************************************************************)
EXTENDS Waiters, SequenceTheorems, TLAPS

Touching == {k \in Call : call[k].at = "touching"}

\* A call that is under way belongs to a worker and a connection, and has no answer before it is
\* answered.
Placed ==
  \A k \in Call : /\ call[k].at = "idle" \/ (call[k].worker \in Worker /\ call[k].conn \in Conn)
                  /\ call[k].at = "answered" \/ call[k].answer = "none"

\* No call is in the queue twice.
Once == \A i, j \in 1 .. Len(turn) : turn[i] = turn[j] => i = j

\* Every call whose heartbeat waits is in the queue.
InLine == \A k \in Touching : \E i \in 1 .. Len(turn) : turn[i] = k

\* Call j is somewhere behind call k.
Behind(k, j) == \E a, b \in 1 .. Len(turn) : a < b /\ turn[a] = k /\ turn[b] = j

\* Another call for the worker of call k, from connection c, whose turn comes after that of k.
Comes(j, k, c) ==
  /\ call[j].at \in {"sent", "touching"} /\ call[j].conn = c /\ call[j].worker = call[k].worker
  /\ call[j].at = "touching" /\ call[k].at = "touching" => Behind(k, j)

OwnedBy(k, c) ==
  \/ c \in {NoConn, call[k].conn} \cup passed[k]
  \/ /\ call[k].at # "sent"
     /\ refused[call[k].worker] = c \/ \E j \in Call : Comes(j, k, c)

\* The stages of a call that is yet to be answered by others than itself.
Pending == {"sent", "touching", "parked"}

OwnerIsLatest ==
  \A k \in Call : call[k].at \in Pending => OwnedBy(k, owner[call[k].worker])

IInv == Inv /\ Placed /\ Once /\ InLine /\ NobodySleepsOverTasks /\ OwnerIsLatest

----------------------------------------------------------------------------
(* The queue. *)

LEMMA SeqOf ==
  ASSUME NEW S, NEW T, NEW s \in Seq(S), \A i \in 1 .. Len(s) : s[i] \in T
  PROVE  s \in Seq(T)
<1>1. Len(s) \in Nat /\ s \in [1 .. Len(s) -> S]
  BY LenProperties
<1>2. s \in [1 .. Len(s) -> T]
  BY <1>1
<1> QED BY <1>1, <1>2, SeqDef

\* The turn passes to call k: it leaves the queue, and the others stay in their order.
LEMMA TouchedQueue ==
  ASSUME turn \in Seq(Touching), Once, NEW k, Touched(k)
  PROVE  /\ k \in Touching
         /\ turn' \in Seq(Touching \ {k})
         /\ Once'
         /\ \A x \in Touching \ {k} : (\E i \in 1 .. Len(turn) : turn[i] = x) => \E i \in 1 .. Len(turn') : turn'[i] = x
         /\ \A x, y : Behind(x, y) => y # k
         /\ \A x, y : Behind(x, y) /\ x # k => Behind(x, y)'
<1>1. turn # <<>> /\ Head(turn) = k /\ turn' = Tail(turn)
  BY DEF Touched
<1>2. /\ k \in Touching
      /\ turn' \in Seq(Touching)
      /\ Len(turn') = Len(turn) - 1
      /\ \A i \in 1 .. Len(turn') : turn'[i] = turn[i + 1]
  BY <1>1, HeadTailProperties
<1>3. Len(turn) \in Nat /\ Len(turn) >= 1 /\ turn[1] = k
  BY <1>1, EmptySeq, LenProperties
<1>4. \A i \in 1 .. Len(turn') : i + 1 \in 1 .. Len(turn) /\ i + 1 # 1
  BY <1>2, <1>3
<1>5. Once'
  BY <1>2, <1>3, <1>4 DEF Once
<1>6. \A i \in 1 .. Len(turn') : turn'[i] \in Touching \ {k}
  BY <1>2, <1>3, <1>4, ElementOfSeq DEF Once
<1>7. turn' \in Seq(Touching \ {k})
  BY <1>2, <1>6, SeqOf
<1>8. ASSUME NEW x, NEW y, Behind(x, y)
      PROVE  y # k /\ (x # k => Behind(x, y)')
  <2>1. PICK a \in 1 .. Len(turn), b \in 1 .. Len(turn) : a < b /\ turn[a] = x /\ turn[b] = y
    BY <1>8 DEF Behind
  <2>2. y # k
    BY <1>3, <2>1 DEF Once
  <2>3. ASSUME x # k PROVE Behind(x, y)'
    <3>1. a # 1 /\ b # 1
      BY <1>3, <2>1, <2>3
    <3>2. a - 1 \in 1 .. Len(turn') /\ b - 1 \in 1 .. Len(turn') /\ a - 1 < b - 1
      BY <1>2, <1>3, <2>1, <3>1
    <3>3. turn'[a - 1] = turn[a] /\ turn'[b - 1] = turn[b]
      BY <1>2, <1>3, <2>1, <3>2
    <3> QED BY <2>1, <3>2, <3>3 DEF Behind
  <2> QED BY <2>2, <2>3
<1>9. ASSUME NEW x \in Touching \ {k}, NEW i \in 1 .. Len(turn), turn[i] = x
      PROVE  \E n \in 1 .. Len(turn') : turn'[n] = x
  <2>1. i - 1 \in 1 .. Len(turn')
    BY <1>2, <1>3, <1>9
  <2>2. turn'[i - 1] = turn[i]
    BY <1>2, <1>3, <1>9, <2>1
  <2> QED BY <1>9, <2>1, <2>2
<1> QED BY <1>2, <1>5, <1>7, <1>8, <1>9

\* Call k, which does not wait, goes to the end of the queue.
LEMMA AppendedQueue ==
  ASSUME turn \in Seq(Touching), Once, NEW k \in Call, k \notin Touching, turn' = Append(turn, k)
  PROVE  /\ turn' \in Seq(Touching \cup {k})
         /\ Once'
         /\ \E i \in 1 .. Len(turn') : turn'[i] = k
         /\ \A x \in Touching : (\E i \in 1 .. Len(turn) : turn[i] = x) =>
              Behind(x, k)' /\ \E i \in 1 .. Len(turn') : turn'[i] = x
         /\ \A x, y : Behind(x, y) => Behind(x, y)'
<1>1. turn \in Seq(Touching \cup {k})
  BY SeqMonotonic
<1>2. /\ turn' \in Seq(Touching \cup {k})
      /\ Len(turn') = Len(turn) + 1
      /\ \A i \in 1 .. Len(turn) : turn'[i] = turn[i]
      /\ turn'[Len(turn) + 1] = k
  BY <1>1, AppendProperties
<1>3. Len(turn) \in Nat /\ \A i \in 1 .. Len(turn) : turn[i] \in Touching
  BY LenProperties, ElementOfSeq
<1>4. \A i \in 1 .. Len(turn') : i \in 1 .. Len(turn) \/ i = Len(turn) + 1
  BY <1>2, <1>3
<1>5. Once'
  BY <1>2, <1>3, <1>4 DEF Once
<1>6. \A i \in 1 .. Len(turn) : i \in 1 .. Len(turn') /\ i < Len(turn) + 1
  BY <1>2, <1>3
<1>7. Len(turn) + 1 \in 1 .. Len(turn')
  BY <1>2, <1>3
<1>8. \A x \in Touching : (\E i \in 1 .. Len(turn) : turn[i] = x) =>
        Behind(x, k)' /\ \E i \in 1 .. Len(turn') : turn'[i] = x
  BY <1>2, <1>6, <1>7 DEF Behind
<1>9. \A x, y : Behind(x, y) => Behind(x, y)'
  BY <1>2, <1>6 DEF Behind
<1> QED BY <1>2, <1>5, <1>7, <1>8, <1>9

\* A step that lets the queue, and those who wait in it, be.
LEMMA SameQueue ==
  ASSUME IInv, UNCHANGED turn, \A k \in Call : call'[k].at = "touching" <=> call[k].at = "touching"
  PROVE  /\ turn' \in Seq({k \in Call : call'[k].at = "touching"})
         /\ Once' /\ InLine'
         /\ \A x, y : Behind(x, y)' <=> Behind(x, y)
<1>1. {k \in Call : call'[k].at = "touching"} = Touching
  BY DEF Touching
<1>2. turn \in Seq(Touching)
  BY DEF IInv, Inv, TypeOK, Touching
<1> QED BY <1>1, <1>2 DEF IInv, Once, InLine, Behind, Touching

----------------------------------------------------------------------------
(* Steps that change no owner: some calls leave, and nobody else moves. *)

LEMMA LeavingStep ==
  ASSUME IInv, UNCHANGED <<owner, refused, turn>>,
         call' \in [Call -> CallRecord],
         \A k \in Call :
           \/ call'[k] = call[k]
           \/ /\ call[k].at \notin {"sent", "touching"} /\ call'[k].at \notin Pending
              /\ call'[k].at = "idle" \/ (call'[k].worker = call[k].worker /\ call'[k].conn = call[k].conn /\ call[k].at # "idle")
              /\ call'[k].at = "answered" \/ call'[k].answer = "none",
         \A k \in Call : call'[k].at \in Pending => passed'[k] = passed[k]
  PROVE  /\ turn' \in Seq({k \in Call : call'[k].at = "touching"})
         /\ Placed' /\ Once' /\ InLine' /\ OwnerIsLatest'
<1> USE DEF Pending
<1>1. \A k \in Call : call'[k].at = "touching" <=> call[k].at = "touching"
  OBVIOUS
<1>2. Placed'
  BY DEF IInv, Placed
<1>3. ASSUME NEW k \in Call, call'[k].at \in Pending
      PROVE  OwnedBy(k, owner[call[k].worker])' /\ call'[k].worker = call[k].worker
  <2>1. call'[k] = call[k] /\ passed'[k] = passed[k] /\ OwnedBy(k, owner[call[k].worker])
    BY <1>3 DEF IInv, OwnerIsLatest
  <2>2. \A j \in Call : call[j].at \in {"sent", "touching"} => call'[j] = call[j]
    OBVIOUS
  <2>3. \A x, y : Behind(x, y)' <=> Behind(x, y)
    BY <1>1, SameQueue
  <2>4. ASSUME NEW j \in Call, Comes(j, k, owner[call[k].worker])
        PROVE  Comes(j, k, owner[call[k].worker])'
    BY <2>1, <2>2, <2>3, <2>4 DEF Comes
  <2> QED BY <2>1, <2>4 DEF OwnedBy
<1> QED BY <1>1, <1>2, <1>3, SameQueue DEF OwnerIsLatest

\* The parked calls in K wake, whatever becomes of the board.
LEMMA WakeKeeps ==
  ASSUME IInv, NEW K \in SUBSET Parked, NEW answer \in Answers \ {"none"}, Wake(K, answer),
         match' \subseteq Worker, question' \in BOOLEAN, quiet' \subseteq Worker,
         \A k \in Parked \ K : call[k].worker \in match' => call[k].worker \in quiet'
  PROVE  IInv'
<1> USE DEF IInv, Inv
<1>1. /\ call' = [k \in Call |-> IF k \in K THEN Answered(k, answer) ELSE call[k]]
      /\ waiter' = [w \in Worker |-> IF waiter[w] \in K THEN NoCall ELSE waiter[w]]
      /\ UNCHANGED <<Connections, turn>>
  BY DEF Wake
<1>2. \A k \in Call : call[k] \in CallRecord
  BY DEF TypeOK
<1>3. \A k \in Call : /\ Answered(k, answer) \in CallRecord
                      /\ Answered(k, answer).at = "answered"
                      /\ Answered(k, answer).worker = call[k].worker
                      /\ Answered(k, answer).conn = call[k].conn
  BY <1>2 DEF Answered, CallRecord
<1>4. call' \in [Call -> CallRecord]
  BY <1>1, <1>2, <1>3
<1>5. /\ turn' \in Seq({k \in Call : call'[k].at = "touching"})
      /\ Placed' /\ Once' /\ InLine' /\ OwnerIsLatest'
  BY <1>1, <1>3, <1>4, LeavingStep DEF Connections, Parked, Pending
<1>6. TypeOK'
  BY <1>1, <1>4, <1>5 DEF TypeOK, Connections
<1>7. ParkedIsFound'
  BY <1>1, <1>3, NamesAssumption DEF TypeOK, ParkedIsFound, Parked
<1>8. OwnersAreOpen'
  BY <1>1 DEF OwnersAreOpen, Connections
<1>9. NobodySleepsOverTasks'
  BY <1>1, <1>3 DEF NobodySleepsOverTasks, Parked
<1> QED BY <1>5, <1>6, <1>7, <1>8, <1>9

LEMMA BoardKeeps ==
  ASSUME IInv,
         \/ \E after \in SUBSET Worker, asked, updated \in BOOLEAN : TaskWritten(after, asked, updated)
         \/ \E targets \in SUBSET Worker : MessageCreated(targets) \/ CleanStale(targets)
  PROVE  IInv'
<1>1. ASSUME NEW after \in SUBSET Worker, NEW asked \in BOOLEAN, NEW updated \in BOOLEAN,
             TaskWritten(after, asked, updated)
      PROVE  IInv'
  BY <1>1, WakeKeeps DEF TaskWritten, Answers
<1>2. ASSUME NEW targets \in SUBSET Worker, MessageCreated(targets) \/ CleanStale(targets)
      PROVE  IInv'
  <2> DEFINE K == {k \in Parked : call[k].worker \in targets}
  <2>1. K \in SUBSET Parked /\ \E answer \in Answers \ {"none"} : Wake(K, answer)
    BY <1>2 DEF MessageCreated, CleanStale, Answers
  <2>2. UNCHANGED <<match, question, quiet>>
    BY <1>2 DEF MessageCreated, CleanStale, Board
  <2> QED BY <2>1, <2>2, WakeKeeps DEF IInv, Inv, TypeOK, NobodySleepsOverTasks
<1> QED BY <1>1, <1>2

LEMMA TimerKeeps ==
  ASSUME IInv, NEW k \in Call, Expire(k) \/ TimedOut(k) \/ Respond(k)
  PROVE  IInv'
<1> USE DEF IInv, Inv
<1>1. \A j \in Call : call[j] \in CallRecord
  BY DEF TypeOK
<1>2. /\ call[k].at \in {"parked", "leaving", "answered"}
      /\ call' \in [Call -> CallRecord]
      /\ \A j \in Call \ {k} : call'[j] = call[j]
      /\ call'[k].at \in {"leaving", "answered", "idle"}
      /\ call'[k].at = "idle" \/ (call'[k].worker = call[k].worker /\ call'[k].conn = call[k].conn)
      /\ call'[k].at = "answered" \/ call'[k].answer = "none"
      /\ UNCHANGED <<open, tracked, owner, refused, turn, Board>>
      /\ passed' = passed \/ (call'[k].at = "idle" /\ passed' = [passed EXCEPT ![k] = {}])
  <2>1. CASE Expire(k)
    <3>1. k \in Parked /\ call' = [call EXCEPT ![k] = [call[k] EXCEPT !.at = "leaving"]]
      BY <2>1 DEF Expire, TypeOK
    <3> DEFINE left == [call[k] EXCEPT !.at = "leaving"]
    <3>2. /\ left \in CallRecord /\ left.at = "leaving"
          /\ left.worker = call[k].worker /\ left.conn = call[k].conn /\ left.answer = call[k].answer
      BY <1>1 DEF CallRecord
    <3>3. call[k].at = "parked" /\ call[k].answer = "none" /\ UNCHANGED <<Connections, turn, Board>>
      BY <2>1, <3>1 DEF Expire, Parked, Placed
    <3>7. UNCHANGED <<open, tracked, owner, refused, passed, turn, Board>>
      BY <3>3 DEF Connections
    <3> HIDE DEF left
    <3>4. call' = [call EXCEPT ![k] = left]
      BY <3>1 DEF left
    <3>5. call'[k] = left /\ \A j \in Call \ {k} : call'[j] = call[j]
      BY <3>4 DEF TypeOK
    <3>6. call' \in [Call -> CallRecord]
      BY <3>2, <3>4 DEF TypeOK
    <3> QED BY <3>2, <3>3, <3>5, <3>6, <3>7
  <2>2. CASE TimedOut(k)
    BY <1>1, <2>2 DEF TimedOut, TypeOK, CallRecord, Answered, Answers, Connections
  <2>3. CASE Respond(k)
    BY <1>1, <2>3 DEF Respond, TypeOK, CallRecord, Idle, Answers
  <2> QED BY <2>1, <2>2, <2>3
<1>3. /\ turn' \in Seq({j \in Call : call'[j].at = "touching"})
      /\ Placed' /\ Once' /\ InLine' /\ OwnerIsLatest'
  BY <1>2, LeavingStep DEF TypeOK, Pending
<1>4. waiter' \in [Worker -> Call \cup {NoCall}] /\ ParkedIsFound'
  <2>1. CASE Expire(k)
    <3>1. waiter' = [waiter EXCEPT ![call[k].worker] = NoCall]
      BY <2>1 DEF Expire
    <3>2. call[k].at = "parked" /\ call[k].worker \in Worker /\ waiter[call[k].worker] = k
      BY <2>1 DEF Expire, Parked, Placed
    <3>3. \A x \in Worker : waiter'[x] = IF x = call[k].worker THEN NoCall ELSE waiter[x]
      BY <3>1 DEF TypeOK
    <3>4. waiter' \in [Worker -> Call \cup {NoCall}]
      BY <3>1 DEF TypeOK
    <3>5. ASSUME NEW x \in Worker, NEW j \in Call
          PROVE  waiter'[x] = j <=> call'[j].at = "parked" /\ call'[j].worker = x
      <4>1. CASE j = k
        BY <1>2, <3>2, <3>3, <4>1, NamesAssumption DEF ParkedIsFound
      <4>2. CASE j # k
        BY <1>2, <3>2, <3>3, <4>2, NamesAssumption DEF ParkedIsFound
      <4> QED BY <4>1, <4>2
    <3> QED BY <3>4, <3>5 DEF ParkedIsFound
  <2>2. CASE TimedOut(k) \/ Respond(k)
    BY <1>2, <2>2 DEF TimedOut, Respond, TypeOK, ParkedIsFound
  <2> QED BY <2>1, <2>2
<1>5. TypeOK'
  <2>1. passed' \in [Call -> SUBSET Conn]
    BY <1>2 DEF TypeOK
  <2> QED BY <1>2, <1>3, <1>4, <2>1 DEF TypeOK, Board
<1>6. OwnersAreOpen' /\ NobodySleepsOverTasks'
  BY <1>2 DEF OwnersAreOpen, NobodySleepsOverTasks, Parked, Board
<1> QED BY <1>3, <1>4, <1>5, <1>6

LEMMA QuietBoardKeeps ==
  ASSUME IInv,
         \/ \E after \in SUBSET Worker, asked \in BOOLEAN : BoardChangesQuietly(after, asked)
         \/ UNCHANGED vars
  PROVE  IInv'
<1> USE DEF IInv, Inv
<1>1. UNCHANGED <<Connections, waiter, call, turn>>
  BY DEF BoardChangesQuietly, vars, Connections
<1>2. match' \subseteq Worker /\ question' \in BOOLEAN /\ quiet' \subseteq Worker /\ NobodySleepsOverTasks'
  BY <1>1 DEF BoardChangesQuietly, vars, Board, TypeOK, NobodySleepsOverTasks, Parked
<1>3. TypeOK' /\ ParkedIsFound' /\ OwnersAreOpen'
  BY <1>1, <1>2 DEF TypeOK, ParkedIsFound, OwnersAreOpen, Connections
<1>4. Placed' /\ Once' /\ InLine' /\ OwnerIsLatest'
  BY <1>1, LeavingStep DEF TypeOK, Connections
<1> QED BY <1>2, <1>3, <1>4

----------------------------------------------------------------------------
(* Connections. *)

LEMMA ConnectionKeeps ==
  ASSUME IInv, NEW c \in Conn,
         \/ Connect(c)
         \/ \E w \in Worker : OtherCall(c, w)
  PROVE  IInv'
<1> USE DEF IInv, Inv
<1>1. UNCHANGED <<owner, refused, passed, waiter, call, turn, match, question, quiet>>
  BY DEF Connect, OtherCall, Board
<1>2. open' \subseteq Conn /\ tracked' \in [Conn -> SUBSET Worker] /\ OwnersAreOpen'
  <2>1. CASE Connect(c)
    BY <2>1 DEF Connect, TypeOK, OwnersAreOpen
  <2>2. ASSUME NEW w \in Worker, OtherCall(c, w)
        PROVE  open' \subseteq Conn /\ tracked' \in [Conn -> SUBSET Worker] /\ OwnersAreOpen'
    BY <1>1, <2>2 DEF OtherCall, TypeOK, OwnersAreOpen
  <2> QED BY <2>1, <2>2
<1>3. TypeOK' /\ ParkedIsFound' /\ NobodySleepsOverTasks'
  BY <1>1, <1>2 DEF TypeOK, ParkedIsFound, NobodySleepsOverTasks, Parked
<1>4. Placed' /\ Once' /\ InLine' /\ OwnerIsLatest'
  BY <1>1, LeavingStep DEF TypeOK
<1> QED BY <1>2, <1>3, <1>4

LEMMA DisconnectKeeps ==
  ASSUME IInv, NEW c \in Conn, Disconnect(c)
  PROVE  IInv'
<1> USE DEF IInv, Inv
<1> DEFINE W == Owned(c)
<1>1. /\ call' = [k \in Call |-> IF \E w \in W : waiter[w] = k THEN Answered(k, "cancelled") ELSE call[k]]
      /\ waiter' = [w \in Worker |-> IF w \in W THEN NoCall ELSE waiter[w]]
      /\ owner' = [w \in Worker |-> IF w \in W THEN NoConn ELSE owner[w]]
      /\ tracked' = [tracked EXCEPT ![c] = {}]
      /\ open' = open \ {c}
      /\ UNCHANGED <<refused, passed, turn, match, question, quiet>>
  BY DEF Disconnect, Cancel, Board
<1>2. W \subseteq Worker /\ \A w \in Worker : w \in W <=> w \in tracked[c] /\ owner[w] = c
  BY DEF Owned, TypeOK
<1> HIDE DEF W
<1>3. \A k \in Call : /\ call[k] \in CallRecord
                      /\ Answered(k, "cancelled") \in CallRecord
                      /\ Answered(k, "cancelled").at = "answered"
                      /\ Answered(k, "cancelled").worker = call[k].worker
                      /\ Answered(k, "cancelled").conn = call[k].conn
  BY DEF TypeOK, CallRecord, Answered, Answers
<1>4. \A k \in Call : call'[k] = call[k] \/ (call[k].at = "parked" /\ call'[k] = Answered(k, "cancelled"))
  BY <1>1, <1>2 DEF ParkedIsFound
<1>5. \A k \in Call : call'[k].at = "touching" <=> call[k].at = "touching"
  BY <1>3, <1>4
<1>6. TypeOK'
  BY <1>1, <1>3, <1>5, SameQueue DEF TypeOK
<1>7. ParkedIsFound'
  BY <1>1, <1>2, <1>3, <1>4, NamesAssumption DEF TypeOK, ParkedIsFound
<1>8. OwnersAreOpen'
  BY <1>1, <1>2 DEF TypeOK, OwnersAreOpen
<1>9. Placed' /\ Once' /\ InLine' /\ \A x, y : Behind(x, y)' <=> Behind(x, y)
  <2>1. Once' /\ InLine' /\ \A x, y : Behind(x, y)' <=> Behind(x, y)
    BY <1>1, <1>5, SameQueue
  <2>2. Placed'
    BY <1>3, <1>4 DEF Placed
  <2> QED BY <2>1, <2>2
<1>10. NobodySleepsOverTasks'
  BY <1>1, <1>3, <1>4 DEF NobodySleepsOverTasks, Parked
<1>11. ASSUME NEW k \in Call, call'[k].at \in Pending
       PROVE  OwnedBy(k, owner[call[k].worker])' /\ call'[k].worker = call[k].worker
  <2>1. call'[k] = call[k]
    BY <1>3, <1>4, <1>11 DEF Pending
  <2>2. OwnedBy(k, owner[call[k].worker]) /\ call[k].worker \in Worker
    BY <1>11, <2>1 DEF OwnerIsLatest, Placed, Pending
  <2>3. owner'[call[k].worker] \in {NoConn, owner[call[k].worker]}
    BY <1>1, <2>2
  <2>4. \A j \in Call : call[j].at \in {"sent", "touching"} => call'[j] = call[j]
    BY <1>4
  <2>5. CASE owner'[call[k].worker] = NoConn
    BY <2>1, <2>5 DEF OwnedBy
  <2>6. CASE owner'[call[k].worker] = owner[call[k].worker]
    <3>1. refused' = refused /\ passed' = passed
      BY <1>1
    <3>2. ASSUME NEW j \in Call, Comes(j, k, owner[call[k].worker])
          PROVE  Comes(j, k, owner[call[k].worker])'
      BY <1>9, <2>1, <2>4, <2>6, <3>2 DEF Comes
    <3> QED BY <2>1, <2>2, <2>6, <3>1, <3>2 DEF OwnedBy
  <2> QED BY <2>1, <2>3, <2>5, <2>6
<1>12. OwnerIsLatest'
  BY <1>11 DEF OwnerIsLatest
<1> QED BY <1>6, <1>7, <1>8, <1>9, <1>10, <1>12

LEMMA TrackType ==
  ASSUME TypeOK, OwnersAreOpen, NEW c \in Conn, NEW w \in Worker, Track(c, w), UNCHANGED open
  PROVE  /\ tracked' \in [Conn -> SUBSET Worker]
         /\ owner' \in [Worker -> Conn \cup {NoConn}]
         /\ passed' \in [Call -> SUBSET Conn]
         /\ OwnersAreOpen'
<1>1. passed' \in [Call -> SUBSET Conn]
  BY DEF TypeOK, Track, PassedBy
<1> QED BY <1>1 DEF TypeOK, Track, OwnersAreOpen

\* What a message that arrives does to the calls for other workers, and to those in their batches.
LEMMA TrackPasses ==
  ASSUME TypeOK, NEW c \in Conn, NEW w \in Worker, Track(c, w), NEW x \in Call
  PROVE  /\ passed[x] \subseteq passed'[x]
         /\ call[x].worker # w => owner'[call[x].worker] = owner[call[x].worker]
         /\ call[x].worker = w => owner'[call[x].worker] = c
         /\ call[x].at = "sent" /\ call[x].worker = w => c \in {call[x].conn} \cup passed'[x]
BY DEF TypeOK, Track, PassedBy

LEMMA WaitRefusedKeeps ==
  ASSUME IInv, NEW c \in Conn, NEW w \in Worker, WaitRefused(c, w)
  PROVE  IInv'
<1> USE DEF IInv, Inv
<1>1. /\ owner' = [owner EXCEPT ![w] = c] /\ refused' = [refused EXCEPT ![w] = c]
      /\ UNCHANGED <<open, waiter, call, turn, match, question, quiet>>
      /\ Track(c, w)
  BY DEF WaitRefused, Track, Board
<1>2. TypeOK' /\ OwnersAreOpen'
  BY <1>1, TrackType DEF TypeOK
<1>3. ParkedIsFound' /\ NobodySleepsOverTasks' /\ Placed'
  BY <1>1 DEF ParkedIsFound, NobodySleepsOverTasks, Placed, Parked
<1>4. Once' /\ InLine' /\ \A x, y : Behind(x, y)' <=> Behind(x, y)
  BY <1>1, SameQueue
<1>5. ASSUME NEW k \in Call, call[k].at \in Pending
      PROVE  OwnedBy(k, owner[call[k].worker])'
  <2>1. OwnedBy(k, owner[call[k].worker]) /\ call[k].worker \in Worker
    BY <1>5 DEF OwnerIsLatest, Placed, Pending
  <2>2. CASE call[k].worker = w
    BY <1>1, <2>2, TrackPasses DEF OwnedBy, TypeOK
  <2>3. CASE call[k].worker # w
    <3>1. /\ owner'[call[k].worker] = owner[call[k].worker] /\ passed[k] \subseteq passed'[k]
          /\ refused'[call[k].worker] = refused[call[k].worker]
      BY <1>1, <2>1, <2>3, TrackPasses DEF TypeOK
    <3>2. ASSUME NEW j \in Call, Comes(j, k, owner[call[k].worker])
          PROVE  Comes(j, k, owner[call[k].worker])'
      BY <1>1, <1>4, <3>1, <3>2 DEF Comes
    <3> QED BY <1>1, <2>1, <3>1, <3>2 DEF OwnedBy
  <2> QED BY <2>2, <2>3
<1>6. OwnerIsLatest'
  BY <1>1, <1>5 DEF OwnerIsLatest
<1> QED BY <1>2, <1>3, <1>4, <1>6

----------------------------------------------------------------------------
(* Waiting. *)

LEMMA WaitKeeps ==
  ASSUME IInv, NEW k \in Call, NEW c \in Conn, NEW w \in Worker, Wait(k, c, w)
  PROVE  IInv'
<1> USE DEF IInv, Inv
<1> DEFINE new == [at |-> "touching", worker |-> w, conn |-> c, answer |-> "none"]
<1>1. /\ owner' = [owner EXCEPT ![w] = c] /\ refused' = [refused EXCEPT ![w] = NoConn]
      /\ call' = [call EXCEPT ![k] = new] /\ call[k].at = "idle"
      /\ turn' = Append(turn, k)
      /\ UNCHANGED <<open, waiter, match, question, quiet>>
      /\ Track(c, w)
  BY DEF Wait, Track, Board
<1>2. new \in CallRecord /\ new.at = "touching" /\ new.worker = w /\ new.conn = c /\ new.answer = "none"
  BY DEF CallRecord, Answers
<1> HIDE DEF new
<1>3. turn \in Seq(Touching) /\ k \notin Touching
  BY <1>1 DEF TypeOK, Touching
<1>4. /\ call'[k] = new /\ \A j \in Call \ {k} : call'[j] = call[j]
      /\ call' \in [Call -> CallRecord]
  BY <1>1, <1>2 DEF TypeOK
<1>5. Touching' = Touching \cup {k} /\ {j \in Call : call'[j].at = "touching"} = Touching \cup {k}
  BY <1>2, <1>4 DEF Touching
<1>6. /\ turn' \in Seq(Touching \cup {k})
      /\ Once' /\ InLine'
      /\ \A x \in Touching : Behind(x, k)'
      /\ \A x, y : Behind(x, y) => Behind(x, y)'
  BY <1>1, <1>3, <1>5, AppendedQueue DEF InLine
<1>7. TypeOK' /\ OwnersAreOpen'
  BY <1>1, <1>4, <1>5, <1>6, TrackType DEF TypeOK
<1>8. ParkedIsFound'
  BY <1>1, <1>2, <1>4 DEF ParkedIsFound
<1>9. NobodySleepsOverTasks' /\ Placed'
  BY <1>1, <1>2, <1>4 DEF NobodySleepsOverTasks, Placed, Parked
<1>10. ASSUME NEW x \in Call, call'[x].at \in Pending
       PROVE  OwnedBy(x, owner[call[x].worker])'
  <2>1. CASE x = k
    BY <1>1, <1>2, <1>4, <2>1 DEF OwnedBy, TypeOK
  <2>2. CASE x # k /\ call[x].worker = w
    <3>1. call'[x] = call[x] /\ owner'[w] = c /\ k # x
      BY <1>1, <1>4, <2>2 DEF TypeOK
    <3>2. CASE call[x].at = "sent"
      BY <1>1, <2>2, <3>1, <3>2, TrackPasses DEF OwnedBy
    <3>3. CASE call[x].at # "sent"
      <4>1. Comes(k, x, c)'
        BY <1>6, <1>2, <1>4, <2>2, <3>1 DEF Comes, Touching
      <4> QED BY <2>2, <3>1, <3>3, <4>1 DEF OwnedBy
    <3> QED BY <3>2, <3>3
  <2>3. CASE x # k /\ call[x].worker # w
    <3>1. call'[x] = call[x] /\ OwnedBy(x, owner[call[x].worker]) /\ call[x].worker \in Worker
      BY <1>4, <1>10, <2>3 DEF OwnerIsLatest, Placed, Pending
    <3>2. /\ owner'[call[x].worker] = owner[call[x].worker] /\ passed[x] \subseteq passed'[x]
          /\ refused'[call[x].worker] = refused[call[x].worker]
      BY <1>1, <2>3, <3>1, TrackPasses DEF TypeOK
    <3>3. \A j \in Call : call[j].at \in {"sent", "touching"} => call'[j] = call[j]
      BY <1>1, <1>4
    <3>4. ASSUME NEW j \in Call, Comes(j, x, owner[call[x].worker])
          PROVE  Comes(j, x, owner[call[x].worker])'
      BY <1>6, <3>1, <3>2, <3>3, <3>4 DEF Comes
    <3> QED BY <3>1, <3>2, <3>4 DEF OwnedBy
  <2> QED BY <2>1, <2>2, <2>3
<1>11. OwnerIsLatest'
  BY <1>10 DEF OwnerIsLatest
<1> QED BY <1>6, <1>7, <1>8, <1>9, <1>11

\* The message of call k arrives further down a batch.
LEMMA WaitInBatchKeeps ==
  ASSUME IInv, NEW k \in Call, NEW c \in Conn, NEW w \in Worker, WaitInBatch(k, c, w)
  PROVE  IInv'
<1> USE DEF IInv, Inv
<1> DEFINE new == [at |-> "sent", worker |-> w, conn |-> c, answer |-> "none"]
<1>1. /\ owner' = [owner EXCEPT ![w] = c] /\ refused' = [refused EXCEPT ![w] = NoConn]
      /\ call' = [call EXCEPT ![k] = new] /\ call[k].at = "idle"
      /\ UNCHANGED <<open, waiter, turn, match, question, quiet>>
      /\ Track(c, w)
  BY DEF WaitInBatch, Track, Board
<1>2. new \in CallRecord /\ new.at = "sent" /\ new.worker = w /\ new.conn = c /\ new.answer = "none"
  BY DEF CallRecord, Answers
<1> HIDE DEF new
<1>4. /\ call'[k] = new /\ \A j \in Call \ {k} : call'[j] = call[j]
      /\ call' \in [Call -> CallRecord]
  BY <1>1, <1>2 DEF TypeOK
<1>5. \A j \in Call : call'[j].at = "touching" <=> call[j].at = "touching"
  BY <1>1, <1>2, <1>4
<1>6. /\ turn' \in Seq({j \in Call : call'[j].at = "touching"}) /\ Once' /\ InLine'
      /\ \A x, y : Behind(x, y)' <=> Behind(x, y)
  BY <1>1, <1>5, SameQueue
<1>7. TypeOK' /\ OwnersAreOpen'
  BY <1>1, <1>4, <1>6, TrackType DEF TypeOK
<1>8. ParkedIsFound'
  BY <1>1, <1>2, <1>4 DEF ParkedIsFound
<1>9. NobodySleepsOverTasks' /\ Placed'
  BY <1>1, <1>2, <1>4 DEF NobodySleepsOverTasks, Placed, Parked
<1>10. ASSUME NEW x \in Call, call'[x].at \in Pending
       PROVE  OwnedBy(x, owner[call[x].worker])'
  <2>1. CASE x = k
    BY <1>1, <1>2, <1>4, <2>1 DEF OwnedBy, TypeOK
  <2>2. CASE x # k /\ call[x].worker = w
    <3>1. call'[x] = call[x] /\ owner'[w] = c /\ k # x
      BY <1>1, <1>4, <2>2 DEF TypeOK
    <3>2. CASE call[x].at = "sent"
      BY <1>1, <2>2, <3>1, <3>2, TrackPasses DEF OwnedBy
    <3>3. CASE call[x].at # "sent"
      <4>1. Comes(k, x, c)'
        BY  <1>2, <1>4, <2>2, <3>1 DEF Comes, Touching
      <4> QED BY <2>2, <3>1, <3>3, <4>1 DEF OwnedBy
    <3> QED BY <3>2, <3>3
  <2>3. CASE x # k /\ call[x].worker # w
    <3>1. call'[x] = call[x] /\ OwnedBy(x, owner[call[x].worker]) /\ call[x].worker \in Worker
      BY <1>4, <1>10, <2>3 DEF OwnerIsLatest, Placed, Pending
    <3>2. /\ owner'[call[x].worker] = owner[call[x].worker] /\ passed[x] \subseteq passed'[x]
          /\ refused'[call[x].worker] = refused[call[x].worker]
      BY <1>1, <2>3, <3>1, TrackPasses DEF TypeOK
    <3>3. \A j \in Call : call[j].at \in {"sent", "touching"} => call'[j] = call[j]
      BY <1>1, <1>4
    <3>4. ASSUME NEW j \in Call, Comes(j, x, owner[call[x].worker])
          PROVE  Comes(j, x, owner[call[x].worker])'
      BY <1>6, <3>1, <3>2, <3>3, <3>4 DEF Comes
    <3> QED BY <3>1, <3>2, <3>4 DEF OwnedBy
  <2> QED BY <2>1, <2>2, <2>3
<1>11. OwnerIsLatest'
  BY <1>10 DEF OwnerIsLatest
<1> QED BY <1>6, <1>7, <1>8, <1>9, <1>11

\* Call k comes to its turn in the batch, and queues for the mutex behind everybody.
LEMMA BeginKeeps ==
  ASSUME IInv, NEW k \in Call, Begin(k)
  PROVE  IInv'
<1> USE DEF IInv, Inv
<1> DEFINE begun == [call[k] EXCEPT !.at = "touching"]
<1>1. /\ call' = [call EXCEPT ![k] = begun] /\ call[k].at = "sent" /\ turn' = Append(turn, k)
      /\ UNCHANGED <<open, tracked, owner, refused, passed, waiter, match, question, quiet>>
  BY DEF Begin, Connections, Board, TypeOK
<1>2. /\ begun \in CallRecord /\ begun.at = "touching" /\ begun.answer = "none"
      /\ begun.worker = call[k].worker /\ begun.conn = call[k].conn
  BY <1>1 DEF TypeOK, CallRecord, Placed
<1> HIDE DEF begun
<1>3. turn \in Seq(Touching) /\ k \notin Touching
  BY <1>1 DEF TypeOK, Touching
<1>4. /\ call'[k] = begun /\ \A j \in Call \ {k} : call'[j] = call[j]
      /\ call' \in [Call -> CallRecord]
  BY <1>1, <1>2 DEF TypeOK
<1>5. Touching' = Touching \cup {k} /\ {j \in Call : call'[j].at = "touching"} = Touching \cup {k}
  BY <1>2, <1>4 DEF Touching
<1>6. /\ turn' \in Seq(Touching \cup {k})
      /\ Once' /\ InLine'
      /\ \A x \in Touching : Behind(x, k)'
      /\ \A x, y : Behind(x, y) => Behind(x, y)'
  BY <1>1, <1>3, <1>5, AppendedQueue DEF InLine
<1>7. TypeOK'
  BY <1>1, <1>4, <1>5, <1>6 DEF TypeOK
<1>8. ParkedIsFound' /\ OwnersAreOpen'
  BY <1>1, <1>2, <1>4 DEF ParkedIsFound, OwnersAreOpen
<1>9. NobodySleepsOverTasks' /\ Placed'
  BY <1>1, <1>2, <1>4 DEF NobodySleepsOverTasks, Placed, Parked
<1>10. ASSUME NEW x \in Call, call'[x].at \in Pending
       PROVE  OwnedBy(x, owner[call[x].worker])'
  <2>1. OwnedBy(x, owner[call[x].worker]) /\ call'[x].worker = call[x].worker /\ call'[x].conn = call[x].conn
    BY <1>1, <1>2, <1>4, <1>10 DEF OwnerIsLatest, Pending
  <2>2. CASE x = k
    BY <1>1, <2>1, <2>2 DEF OwnedBy
  <2>3. CASE x # k
    <3>1. ASSUME NEW j \in Call, Comes(j, x, owner[call[x].worker])
          PROVE  Comes(j, x, owner[call[x].worker])'
      <4>1. call'[x] = call[x] /\ (call[x].at = "touching" => Behind(x, k)')
        BY <1>4, <1>6, <2>3 DEF Touching
      <4>2. CASE j = k
        BY <1>1, <1>2, <1>4, <3>1, <4>1, <4>2 DEF Comes
      <4>3. CASE j # k
        BY <1>1, <1>4, <1>6, <3>1, <4>1, <4>3 DEF Comes
      <4> QED BY <4>2, <4>3
    <3> QED BY <1>1, <1>4, <2>1, <2>3, <3>1 DEF OwnedBy
  <2> QED BY <2>2, <2>3
<1>11. OwnerIsLatest'
  BY <1>10 DEF OwnerIsLatest
<1> QED BY <1>6, <1>7, <1>8, <1>9, <1>11

\* Call k is refused in its turn, or dropped with the rest of its batch.  Whoever it was to come
\* after loses nothing: a refused call is noted, and the connection of a dropped one owns nothing.
LEMMA EndsInBatchKeeps ==
  ASSUME IInv, NEW k \in Call, BeginRefused(k) \/ Drop(k)
  PROVE  IInv'
<1> USE DEF IInv, Inv
<1> DEFINE w == call[k].worker
<1>1. /\ call' = [call EXCEPT ![k] = Idle] /\ call[k].at = "sent"
      /\ passed' = [passed EXCEPT ![k] = {}]
      /\ UNCHANGED <<open, tracked, owner, waiter, turn, match, question, quiet>>
      /\ \/ call[k].conn \notin open /\ refused' = refused
         \/ refused' = [refused EXCEPT ![w] = IF owner[w] = call[k].conn THEN call[k].conn ELSE @]
  BY DEF BeginRefused, Drop, Board
<1>2. Idle \in CallRecord /\ Idle.at = "idle" /\ Idle.answer = "none"
  BY DEF Idle, CallRecord, Answers
<1>3. w \in Worker /\ call[k].conn \in Conn
  BY <1>1 DEF Placed
<1> HIDE DEF w
<1>4. /\ call'[k] = Idle /\ \A j \in Call \ {k} : call'[j] = call[j] /\ passed'[j] = passed[j]
      /\ call' \in [Call -> CallRecord] /\ passed' \in [Call -> SUBSET Conn]
  BY <1>1, <1>2 DEF TypeOK
<1>5. \A j \in Call : call'[j].at = "touching" <=> call[j].at = "touching"
  BY <1>1, <1>2, <1>4
<1>6. /\ turn' \in Seq({j \in Call : call'[j].at = "touching"}) /\ Once' /\ InLine'
      /\ \A x, y : Behind(x, y)' <=> Behind(x, y)
  BY <1>1, <1>5, SameQueue
<1>7. refused' \in [Worker -> Conn \cup {NoConn}]
  BY <1>1, <1>3 DEF TypeOK
<1>8. TypeOK' /\ OwnersAreOpen'
  BY <1>1, <1>4, <1>6, <1>7 DEF TypeOK, OwnersAreOpen
<1>9. ParkedIsFound' /\ NobodySleepsOverTasks' /\ Placed'
  BY <1>1, <1>2, <1>4 DEF ParkedIsFound, NobodySleepsOverTasks, Placed, Parked
<1>10. ASSUME NEW x \in Call, call'[x].at \in Pending
       PROVE  OwnedBy(x, owner[call[x].worker])'
  <2>1. /\ x # k /\ call'[x] = call[x] /\ passed'[x] = passed[x] /\ call[x].worker \in Worker
        /\ OwnedBy(x, owner[call[x].worker])
    BY <1>2, <1>4, <1>10 DEF OwnerIsLatest, Placed, Pending
  <2>2. CASE refused[call[x].worker] = owner[call[x].worker]
    BY <1>1, <1>3, <2>1, <2>2 DEF OwnedBy, TypeOK
  <2>3. ASSUME NEW j \in Call, j # k, Comes(j, x, owner[call[x].worker])
        PROVE  Comes(j, x, owner[call[x].worker])'
    BY <1>1, <1>4, <1>6, <2>1, <2>3 DEF Comes
  <2>4. CASE Comes(k, x, owner[call[x].worker])
    <3>1. owner[w] = call[k].conn /\ call[x].worker = w /\ call[k].conn \in open
      BY <1>3, <2>1, <2>4, NamesAssumption DEF Comes, OwnersAreOpen, w
    <3>2. refused'[call[x].worker] = owner[call[x].worker]
      BY <1>1, <1>3, <3>1 DEF TypeOK
    <3> QED BY <1>1, <2>1, <2>4, <3>2 DEF OwnedBy, Comes
  <2> QED BY <1>1, <2>1, <2>2, <2>3, <2>4 DEF OwnedBy
<1>11. OwnerIsLatest'
  BY <1>10 DEF OwnerIsLatest
<1> QED BY <1>6, <1>8, <1>9, <1>11

\* The turn of call k comes: it leaves the queue, its worker's older waiter gives way.
LEMMA TurnKeeps ==
  ASSUME IInv, NEW k \in Call, Park(k) \/ AnswerAtOnce(k)
  PROVE  IInv'
<1> USE DEF IInv, Inv
<1> DEFINE w == call[k].worker
<1>1. Touched(k) /\ UNCHANGED <<open, tracked, owner, refused, passed, match, question, quiet>>
  BY DEF Park, AnswerAtOnce, Connections, Board
<1>2. turn \in Seq(Touching)
  BY DEF TypeOK, Touching
<1>3. /\ k \in Touching
      /\ turn' \in Seq(Touching \ {k})
      /\ Once'
      /\ \A x \in Touching \ {k} : \E i \in 1 .. Len(turn') : turn'[i] = x
      /\ \A x, y : Behind(x, y) => y # k
      /\ \A x, y : Behind(x, y) /\ x # k => Behind(x, y)'
  BY <1>1, <1>2, TouchedQueue DEF InLine, Touching
<1>4. w \in Worker /\ call[k].at = "touching" /\ \A j \in Call : call[j] \in CallRecord
  BY <1>3 DEF Placed, Touching, TypeOK
<1>5. \A j \in Call : /\ Without(w)[j] \in CallRecord
                      /\ Without(w)[j].worker = call[j].worker /\ Without(w)[j].conn = call[j].conn
                      /\ Without(w)[j].at = IF call[j].at = "parked" /\ call[j].worker = w THEN "answered"
                                            ELSE call[j].at
                      /\ Without(w)[j] = call[j] \/ Without(w)[j].at = "answered"
                      /\ call[j].at # "parked" \/ call[j].worker # w => Without(w)[j] = call[j]
  <2>1. ASSUME NEW j \in Call
        PROVE  /\ Answered(j, "cancelled") \in CallRecord
               /\ Answered(j, "cancelled").at = "answered"
               /\ Answered(j, "cancelled").worker = call[j].worker
               /\ Answered(j, "cancelled").conn = call[j].conn
    BY <1>4 DEF Answered, CallRecord, Answers
  <2>2. \A j \in Call : waiter[w] = j <=> call[j].at = "parked" /\ call[j].worker = w
    BY <1>4 DEF ParkedIsFound
  <2>3. \A j \in Call : Without(w)[j] = IF waiter[w] = j THEN Answered(j, "cancelled") ELSE call[j]
    BY DEF Without
  <2> HIDE DEF w
  <2> QED BY <1>4, <2>1, <2>2, <2>3
<1>6. /\ call' \in [Call -> CallRecord]
      /\ \A j \in Call \ {k} : call'[j] = Without(w)[j]
      /\ call'[k].worker = w /\ call'[k].conn = call[k].conn
      /\ call'[k].at = "answered" \/ call'[k].answer = "none"
      /\ \/ Park(k) /\ call'[k].at = "parked" /\ waiter' = [waiter EXCEPT ![w] = k]
         \/ call'[k].at = "answered" /\ waiter' = [waiter EXCEPT ![w] = NoCall]
  <2>1. CASE Park(k)
    <3> DEFINE parked == [Without(w)[k] EXCEPT !.at = "parked"]
    <3>1. call' = [Without(w) EXCEPT ![k] = parked] /\ waiter' = [waiter EXCEPT ![w] = k]
      BY <2>1 DEF Park, Without
    <3>2. Without(w)[k] = call[k] /\ call[k].answer = "none"
      BY <1>4, <1>5 DEF Placed
    <3>3. /\ parked \in CallRecord /\ parked.at = "parked" /\ parked.answer = "none"
          /\ parked.worker = w /\ parked.conn = call[k].conn
      BY <1>4, <3>2 DEF CallRecord
    <3> HIDE DEF parked, w
    <3>4. Without(w) \in [Call -> CallRecord]
      BY <1>5 DEF Without
    <3>5. call' \in [Call -> CallRecord] /\ call'[k] = parked /\ \A j \in Call \ {k} : call'[j] = Without(w)[j]
      BY <3>1, <3>3, <3>4
    <3> QED BY <2>1, <3>1, <3>3, <3>5
  <2>2. CASE AnswerAtOnce(k)
    <3>1. call' = [Without(w) EXCEPT ![k] = Answered(k, "news")] /\ waiter' = [waiter EXCEPT ![w] = NoCall]
      BY <2>2 DEF AnswerAtOnce
    <3>2. /\ Answered(k, "news") \in CallRecord /\ Answered(k, "news").at = "answered"
          /\ Answered(k, "news").worker = w /\ Answered(k, "news").conn = call[k].conn
      BY <1>4 DEF Answered, CallRecord, Answers
    <3> HIDE DEF w
    <3>3. Without(w) \in [Call -> CallRecord]
      BY <1>5 DEF Without
    <3>4. /\ call' \in [Call -> CallRecord] /\ call'[k] = Answered(k, "news")
          /\ \A j \in Call \ {k} : call'[j] = Without(w)[j]
      BY <3>1, <3>2, <3>3
    <3> QED BY <3>1, <3>2, <3>4
  <2> QED BY <2>1, <2>2
<1> HIDE DEF w
<1>7. {j \in Call : call'[j].at = "touching"} = Touching \ {k}
  BY <1>5, <1>6 DEF Touching
<1>8. TypeOK'
  <2>1. waiter' \in [Worker -> Call \cup {NoCall}]
    BY <1>4, <1>6 DEF TypeOK, Inv, IInv
  <2>2. turn' \in Seq({j \in Call : call[j].at = "touching"}')
    BY <1>3, <1>7
  <2> QED BY <1>1, <1>6, <2>1, <2>2 DEF TypeOK
<1>9. Once' /\ InLine' /\ Placed'
  <2>1. Placed'
    BY <1>4, <1>5, <1>6 DEF Placed
  <2>2. InLine'
    BY <1>3, <1>7 DEF InLine, Touching
  <2> QED BY <1>3, <2>1, <2>2
<1>10. ParkedIsFound'
  BY <1>4, <1>5, <1>6, NamesAssumption DEF TypeOK, ParkedIsFound
<1>11. OwnersAreOpen'
  BY <1>1 DEF OwnersAreOpen
<1>12. NobodySleepsOverTasks'
  <2>1. Park(k) => w \notin match
    BY DEF Park, w
  <2> QED BY <1>1, <1>5, <1>6, <2>1 DEF NobodySleepsOverTasks, Parked
<1>13. ASSUME NEW x \in Call, call'[x].at \in Pending
       PROVE  OwnedBy(x, owner[call[x].worker])'
  <2>1. /\ call[x].at \in Pending /\ call'[x].worker = call[x].worker /\ call'[x].conn = call[x].conn
        /\ call'[x].at = "touching" => call[x].at = "touching" /\ x # k
        /\ call'[x].at = "sent" <=> call[x].at = "sent"
    <3>1. CASE x = k
      BY <1>4, <1>6, <3>1 DEF w, Pending
    <3>2. CASE x # k
      <4>1. call'[x] = Without(w)[x]
        BY <1>6, <3>2
      <4> QED BY <1>5, <1>13, <3>2, <4>1 DEF Pending
    <3> QED BY <3>1, <3>2
  <2>2. OwnedBy(x, owner[call[x].worker])
    BY <2>1 DEF OwnerIsLatest
  <2>3. call[x].at = "parked" => call[x].worker # w
    BY <1>4, <1>5, <1>6, <1>13 DEF Pending
  <2>4. ASSUME NEW j \in Call, Comes(j, x, owner[call[x].worker]), call[x].at # "sent"
        PROVE  Comes(j, x, owner[call[x].worker])'
    <3>1. j # k
      BY <1>3, <1>4, <2>1, <2>3, <2>4 DEF Comes, Pending, w
    <3>2. call'[j] = call[j]
      BY <1>5, <1>6, <2>4, <3>1 DEF Comes
    <3> QED BY <1>1, <1>3, <2>1, <2>4, <3>2 DEF Comes
  <2> QED BY <1>1, <2>1, <2>2, <2>4 DEF OwnedBy
<1>14. OwnerIsLatest'
  BY <1>13 DEF OwnerIsLatest
<1> QED BY <1>8, <1>9, <1>10, <1>11, <1>12, <1>14

----------------------------------------------------------------------------
(* The theorems. *)

LEMMA InitIInv == Init => IInv
<1> SUFFICES ASSUME Init PROVE IInv
  OBVIOUS
<1>1. \A k \in Call : call[k] = Idle /\ Idle \in CallRecord /\ Idle.at = "idle" /\ Idle.answer = "none"
  BY DEF Init, Idle, CallRecord, Answers
<1>2. turn = <<>> /\ Len(turn) = 0
  BY EmptySeq DEF Init
<1>3. TypeOK
  BY <1>1, <1>2, EmptySeq DEF Init, TypeOK
<1>4. ParkedIsFound /\ OwnersAreOpen /\ NobodySleepsOverTasks /\ Placed /\ OwnerIsLatest
  BY <1>1, NamesAssumption DEF Init, ParkedIsFound, OwnersAreOpen, NobodySleepsOverTasks, Parked, Placed, OwnerIsLatest, Pending
<1>5. Once /\ InLine
  BY <1>1, <1>2 DEF Once, InLine, Touching
<1> QED BY <1>3, <1>4, <1>5 DEF IInv, Inv

LEMMA StepIInv == IInv /\ [Next]_vars => IInv'
BY ConnectionKeeps, DisconnectKeeps, WaitRefusedKeeps, WaitKeeps, WaitInBatchKeeps, BeginKeeps, EndsInBatchKeeps,
   TurnKeeps, TimerKeeps, BoardKeeps, QuietBoardKeeps, BatchedAssumption
DEF Next

LEMMA IInvAlways == Spec => []IInv
BY InitIInv, StepIInv, PTL DEF Spec

\* Types; every parked call is where its worker's entry leads; no closed connection owns anything.
THEOREM CallsAreFound == Spec => []Inv
<1>1. IInv => Inv
  BY DEF IInv
<1> QED BY <1>1, IInvAlways, PTL

\* Nobody sleeps over a task that was created or updated, however calls, events and heartbeats
\* interleave.
THEOREM NobodySleeps == Spec => []NobodySleepsOverTasks
<1>1. IInv => NobodySleepsOverTasks
  BY DEF IInv
<1> QED BY <1>1, IInvAlways, PTL

\* A connection that closes takes along the waiter of another only when it had itself asked to wait
\* for the same worker since, and was refused, had not come to its turn yet, or had overtaken the
\* other's call while that was behind other items of its batch.
THEOREM ForeignWaitersLive == Spec => ForeignWaitersSurvive
<1> DEFINE Excused(c, k) ==
      \/ refused[call[k].worker] = c
      \/ c \in passed[k]
      \/ \E j \in Call :
           call[j].at \in {"sent", "touching"} /\ call[j].conn = c /\ call[j].worker = call[k].worker
<1>1. ASSUME IInv, [Next]_vars,
             NEW c \in open \ open', NEW k \in Parked,
             call'[k].answer = "cancelled", call[k].conn # c
      PROVE  Excused(c, k)
  <2>1. Disconnect(c)
    BY <1>1 DEF Next, vars, Connect, Disconnect, OtherCall, WaitRefused, Wait, WaitInBatch, Begin, BeginRefused, Drop,
                Park, AnswerAtOnce, Expire, TimedOut, Respond, TaskWritten, BoardChangesQuietly, MessageCreated, CleanStale, Wake, Connections
  <2>2. k \in Call /\ call[k].at = "parked" /\ call[k].worker \in Worker /\ call[k].answer = "none"
    BY <1>1 DEF IInv, Placed, Parked
  <2>3. c \in Conn /\ c # NoConn
    BY <1>1, NamesAssumption DEF IInv, Inv, TypeOK
  <2>4. OwnedBy(k, owner[call[k].worker])
    BY <1>1, <2>2 DEF IInv, OwnerIsLatest, Pending
  <2>5. call'[k] # call[k]
    BY <1>1, <2>2
  <2>6. PICK w \in Owned(c) : waiter[w] = k
    BY <2>1, <2>2, <2>5 DEF Disconnect, Cancel
  <2>7. w \in Worker /\ owner[w] = c
    BY <1>1, <2>3, <2>6 DEF Owned, IInv, Inv, TypeOK
  <2>8. w = call[k].worker
    BY <1>1, <2>2, <2>6, <2>7 DEF IInv, Inv, ParkedIsFound
  <2> QED BY <1>1, <2>2, <2>3, <2>4, <2>7, <2>8 DEF OwnedBy, Comes
<1>2. IInv /\ [Next]_vars =>
        [\A c \in open \ open', k \in Parked :
           call'[k].answer = "cancelled" /\ call[k].conn # c =>
             \/ refused[call[k].worker] = c
             \/ c \in passed[k]
             \/ \E j \in Call :
                  call[j].at \in {"sent", "touching"} /\ call[j].conn = c
                  /\ call[j].worker = call[k].worker]_vars
  BY <1>1
<1> QED BY <1>2, IInvAlways, PTL DEF Spec, ForeignWaitersSurvive

----------------------------------------------------------------------------
(***************************************************************************)
(* Every call comes back.  That a call gets its turn is what the state     *)
(* mutex promises (AsyncMutex, EveryoneIsServed), and is taken from there; *)
(* what is proved here is the rest of a call's way.                        *)
(***************************************************************************)

Resumes(k) ==
  \/ Begin(k) \/ BeginRefused(k) \/ Drop(k)
  \/ Park(k) \/ AnswerAtOnce(k) \/ Expire(k) \/ TimedOut(k) \/ Respond(k)

\* The promise of the mutex to a call that queues for it.
MutexServes(k) == call[k].at = "touching" ~> call[k].at # "touching"

\* The fairness of FairSpec after that, with the guard of the actions for what ENABLED says of them.
WaiterFairness(k) ==
  []<>~(call[k].at \in {"sent", "parked", "leaving", "answered"}) \/ []<><<Resumes(k)>>_vars

Queues(k) == call[k].at = "sent"
Touches(k) == call[k].at = "touching"
Sleeps(k) == call[k].at = "parked"
Expires(k) == call[k].at = "leaving"
Resolved(k) == call[k].at = "answered"
Rests(k) == call[k].at = "idle"

\* The calls that others wake, cancel or give way to are parked.
LEMMA OthersWakeSleepers ==
  ASSUME IInv, NEW k \in Call, [Next]_vars, call'[k] # call[k], ~Resumes(k), call[k].at # "idle"
  PROVE  call[k].at = "parked" /\ call'[k].at = "answered"
<1>0. /\ call \in [Call -> CallRecord]
      /\ \A w \in Worker : waiter[w] = k => call[k].at = "parked"
      /\ \A j \in Call : call[j].at \in {"touching", "parked"} => call[j].worker \in Worker
  BY DEF IInv, Inv, TypeOK, ParkedIsFound, Placed
<1>1. \A answer : Answered(k, answer).at = "answered"
  <2>1. call[k] \in CallRecord
    BY <1>0
  <2> QED BY <2>1 DEF Answered, CallRecord
<1>2. ASSUME NEW W \in SUBSET Worker, Cancel(W) PROVE call[k].at = "parked" /\ call'[k].at = "answered"
  <2>1. call'[k] = IF \E w \in W : waiter[w] = k THEN Answered(k, "cancelled") ELSE call[k]
    BY <1>2 DEF Cancel
  <2>2. \E w \in W : waiter[w] = k
    BY <2>1
  <2> QED BY <1>0, <1>1, <2>1, <2>2
<1>3. ASSUME NEW K \in SUBSET Parked, NEW answer, Wake(K, answer)
      PROVE  call[k].at = "parked" /\ call'[k].at = "answered"
  <2>1. call'[k] = IF k \in K THEN Answered(k, answer) ELSE call[k]
    BY <1>3 DEF Wake
  <2> QED BY <1>1, <2>1 DEF Parked
<1>4. ASSUME NEW j \in Call, Park(j) \/ AnswerAtOnce(j)
      PROVE  call[k].at = "parked" /\ call'[k].at = "answered"
  <2>1. j # k
    BY <1>4 DEF Resumes
  <2>2. turn \in Seq({h \in Call : call[h].at = "touching"}) /\ turn # <<>> /\ j = Head(turn)
    BY <1>4 DEF IInv, Inv, TypeOK, Park, AnswerAtOnce, Touched
  <2>3. call[j].worker \in Worker
    BY <1>0, <2>2
  <2>4. call'[k] = Without(call[j].worker)[k]
    BY <1>4, <2>1 DEF Park, AnswerAtOnce, Without
  <2>5. call'[k] = IF waiter[call[j].worker] = k THEN Answered(k, "cancelled") ELSE call[k]
    BY <2>4 DEF Without
  <2> QED BY <1>0, <1>1, <2>3, <2>5
<1>5. ASSUME NEW j \in Call,
             Begin(j) \/ BeginRefused(j) \/ Drop(j) \/ Expire(j) \/ TimedOut(j) \/ Respond(j)
      PROVE  FALSE
  <2>1. j # k
    BY <1>5 DEF Resumes
  <2>2. \E record : call' = [call EXCEPT ![j] = record]
    BY <1>0, <1>5 DEF Begin, BeginRefused, Drop, Expire, TimedOut, Respond
  <2> QED BY <1>0, <2>1, <2>2
<1>6. ASSUME NEW c \in Conn, Connect(c) \/ (\E w \in Worker : OtherCall(c, w) \/ WaitRefused(c, w)) PROVE FALSE
  BY <1>6 DEF Connect, OtherCall, WaitRefused
<1>7. ASSUME NEW j \in Call, NEW c \in Conn, NEW w \in Worker, Wait(j, c, w) \/ WaitInBatch(j, c, w) PROVE FALSE
  <2>1. j # k /\ \E record : call' = [call EXCEPT ![j] = record]
    BY <1>7 DEF Wait, WaitInBatch
  <2> QED BY <1>0, <2>1
<1>8. ASSUME NEW c \in Conn, Disconnect(c) PROVE call[k].at = "parked" /\ call'[k].at = "answered"
  <2>1. Owned(c) \in SUBSET Worker
    BY DEF Owned, IInv, Inv, TypeOK
  <2> QED BY <1>2, <1>8, <2>1 DEF Disconnect
<1>9. ASSUME NEW after \in SUBSET Worker, NEW asked \in BOOLEAN, NEW updated \in BOOLEAN,
             TaskWritten(after, asked, updated)
      PROVE  call[k].at = "parked" /\ call'[k].at = "answered"
  BY <1>3, <1>9 DEF TaskWritten
<1>10. ASSUME NEW targets \in SUBSET Worker, MessageCreated(targets) \/ CleanStale(targets)
       PROVE  call[k].at = "parked" /\ call'[k].at = "answered"
  BY <1>3, <1>10 DEF MessageCreated, CleanStale
<1>11. ASSUME NEW after \in SUBSET Worker, NEW asked \in BOOLEAN, BoardChangesQuietly(after, asked) PROVE FALSE
  BY <1>11 DEF BoardChangesQuietly
<1>12. CASE UNCHANGED vars
  BY <1>12 DEF vars
<1> QED BY <1>4, <1>5, <1>6, <1>7, <1>8, <1>9, <1>10, <1>11, <1>12, BatchedAssumption DEF Next

\* The way of a call.
LEMMA CallsGoOn ==
  ASSUME IInv, NEW k \in Call, [Next]_vars
  PROVE  /\ Queues(k) => Queues(k)' \/ Touches(k)' \/ Rests(k)'
         /\ Touches(k) => Touches(k)' \/ Sleeps(k)' \/ Resolved(k)'
         /\ Sleeps(k) => Sleeps(k)' \/ Expires(k)' \/ Resolved(k)'
         /\ Expires(k) => Expires(k)' \/ Resolved(k)'
         /\ Resolved(k) => Resolved(k)' \/ Rests(k)'
         /\ Resumes(k) => /\ Queues(k) => ~Queues(k)'
                          /\ Sleeps(k) => ~Sleeps(k)'
                          /\ Expires(k) => ~Expires(k)'
                          /\ Resolved(k) => ~Resolved(k)'
<1> USE DEF Queues, Touches, Sleeps, Expires, Resolved, Rests
<1>1. CASE call'[k] = call[k] /\ ~Resumes(k)
  BY <1>1
<1>2. CASE call'[k] # call[k] /\ ~Resumes(k)
  BY <1>2, OthersWakeSleepers
<1>3. CASE Resumes(k)
  <2>0. /\ call \in [Call -> CallRecord] /\ call[k] \in CallRecord
        /\ turn \in Seq({h \in Call : call[h].at = "touching"})
    BY DEF IInv, Inv, TypeOK
  <2>1. CASE Park(k) \/ AnswerAtOnce(k)
    <3>1. call[k].at = "touching"
      BY <2>0, <2>1 DEF Park, AnswerAtOnce, Touched
    <3>2. Without(call[k].worker) \in [Call -> CallRecord]
      BY <2>0 DEF Without, Answered, CallRecord, Answers
    <3>3. Park(k) => call'[k].at = "parked"
      <4>1. Park(k) => call'[k] = [Without(call[k].worker)[k] EXCEPT !.at = "parked"]
        BY <3>2 DEF Park
      <4>2. Without(call[k].worker)[k] \in CallRecord
        BY <3>2
      <4> QED BY <4>1, <4>2 DEF CallRecord
    <3>4. AnswerAtOnce(k) => call'[k].at = "answered"
      <4>1. AnswerAtOnce(k) => call'[k] = [call[k] EXCEPT !.at = "answered", !.answer = "news"]
        BY <3>2 DEF AnswerAtOnce, Answered
      <4> QED BY <2>0, <4>1 DEF CallRecord
    <3> QED BY <2>1, <3>1, <3>3, <3>4
  <2>2. CASE Expire(k)
    <3>1. call[k].at = "parked" /\ call'[k] = [call[k] EXCEPT !.at = "leaving"]
      BY <2>0, <2>2 DEF Expire, Parked
    <3> QED BY <2>0, <3>1 DEF CallRecord
  <2>3. CASE TimedOut(k)
    <3>1. call[k].at = "leaving" /\ call'[k] = [call[k] EXCEPT !.at = "answered", !.answer = "timedOut"]
      BY <2>0, <2>3 DEF TimedOut, Answered
    <3> QED BY <2>0, <3>1 DEF CallRecord
  <2>4. CASE Respond(k)
    <3>1. call[k].at = "answered" /\ call'[k] = Idle
      BY <2>0, <2>4 DEF Respond
    <3> QED BY <3>1 DEF Idle
  <2>5. CASE Begin(k)
    <3>1. call[k].at = "sent" /\ call'[k] = [call[k] EXCEPT !.at = "touching"]
      BY <2>0, <2>5 DEF Begin
    <3> QED BY <2>0, <3>1 DEF CallRecord
  <2>6. CASE BeginRefused(k) \/ Drop(k)
    <3>1. call[k].at = "sent" /\ call'[k] = Idle
      BY <2>0, <2>6 DEF BeginRefused, Drop
    <3> QED BY <3>1 DEF Idle
  <2> QED BY <1>3, <2>1, <2>2, <2>3, <2>4, <2>5, <2>6 DEF Resumes
<1> QED BY <1>1, <1>2, <1>3

\* Every wait_for_task comes back, whatever closes, deletes or replaces it, as long as the state mutex
\* serves those who queue for it.
THEOREM WaitsComeBack ==
  Spec /\ (\A k \in Call : MutexServes(k) /\ WaiterFairness(k)) => WaitsEnd
<1>1. ASSUME NEW k \in Call
      PROVE  Spec /\ MutexServes(k) /\ WaiterFairness(k) => []<>Rests(k)
  <2> DEFINE Always == []IInv /\ [][Next]_vars
             World == IInv /\ [Next]_vars
  <2>0. World /\ Queues(k) => /\ Queues(k)' \/ Touches(k)' \/ Rests(k)'
                              /\ <<Resumes(k)>>_vars => ~Queues(k)'
    BY CallsGoOn
  <2>1. World /\ Touches(k) => Touches(k)' \/ Sleeps(k)' \/ Resolved(k)'
    BY CallsGoOn
  <2>2. World /\ Sleeps(k) => /\ Sleeps(k)' \/ Expires(k)' \/ Resolved(k)'
                              /\ <<Resumes(k)>>_vars => ~Sleeps(k)'
    BY CallsGoOn
  <2>3. World /\ Expires(k) => /\ Expires(k)' \/ Resolved(k)'
                               /\ <<Resumes(k)>>_vars => ~Expires(k)'
    BY CallsGoOn
  <2>4. World /\ Resolved(k) => /\ Resolved(k)' \/ Rests(k)'
                                /\ <<Resumes(k)>>_vars => ~Resolved(k)'
    BY CallsGoOn
  <2>5. IInv => Queues(k) \/ Touches(k) \/ Sleeps(k) \/ Expires(k) \/ Resolved(k) \/ Rests(k)
    BY DEF IInv, Inv, TypeOK, CallRecord, Queues, Touches, Sleeps, Expires, Resolved, Rests
  <2>6. /\ Queues(k) \/ Sleeps(k) \/ Expires(k) \/ Resolved(k) =>
             call[k].at \in {"sent", "parked", "leaving", "answered"}
        /\ Touches(k) <=> call[k].at = "touching"
        /\ ~Touches(k) <=> call[k].at # "touching"
    BY DEF Queues, Touches, Sleeps, Expires, Resolved
  <2>7. Always /\ WaiterFairness(k) => (Resolved(k) ~> Rests(k))
    BY <2>4, <2>6, PTL DEF WaiterFairness
  <2>8. Always /\ WaiterFairness(k) => (Expires(k) ~> Resolved(k))
    BY <2>3, <2>6, PTL DEF WaiterFairness
  <2>9. Always /\ WaiterFairness(k) => (Sleeps(k) ~> Expires(k) \/ Resolved(k))
    BY <2>2, <2>6, PTL DEF WaiterFairness
  <2>10. Always /\ MutexServes(k) => (Touches(k) ~> Sleeps(k) \/ Resolved(k))
    BY <2>1, <2>6, PTL DEF MutexServes
  <2>11. Always /\ WaiterFairness(k) => (Queues(k) ~> Touches(k) \/ Rests(k))
    BY <2>0, <2>6, PTL DEF WaiterFairness
  <2> QED BY <2>5, <2>7, <2>8, <2>9, <2>10, <2>11, IInvAlways, PTL DEF Spec
<1>2. ASSUME NEW k \in Call
      PROVE  []<>Rests(k) => []<>(call[k].at = "idle")
  <2>1. Rests(k) <=> call[k].at = "idle"
    BY DEF Rests
  <2> QED BY <2>1, PTL
<1> QED BY <1>1, <1>2 DEF WaitsEnd

=============================================================================
