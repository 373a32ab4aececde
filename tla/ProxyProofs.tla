----------------------------- MODULE ProxyProofs -----------------------------
(***************************************************************************)
(* Proofs about Proxy for any number of lines, batches and oversized       *)
(* lines, and any queue: what was sent is answered when the proxy ends,    *)
(* lines reach the daemon in the order in which they were written, and the *)
(* proxy implements Exchange: a request gets at most one answer.           *)
(*                                                                         *)
(* They rest on two facts.  The lines sent and the lines queued form one   *)
(* increasing sequence (InOrder), for while the socket is open nothing is  *)
(* queued.  And a request of which the agent has heard nothing is queued   *)
(* or pending and not both, so that every path that answers a request      *)
(* takes it from where it was (Counted).                                   *)
(*                                                                         *)
(* Last, no request hangs, under the fairness of FairSpec.                 *)
(***************************************************************************)
EXTENDS Proxy, SequenceTheorems, TLAPS

Increasing(s) == \A i, j \in DOMAIN s : i < j => s[i] < s[j]

\* What was sent, and what will be when the socket opens.
Written == sent \o queue

InOrder ==
  /\ Increasing(Written)
  /\ \A i \in DOMAIN Written : Written[i] <= lines
  /\ socket = "open" => queue = <<>>

Sent == Range(sent)

Counted ==
  /\ \A r \in Tracked : answers[r] \in {0, 1} /\ (r > lines => answers[r] = 0)
  /\ \A r \in pending : r <= lines /\ answers[r] = 0
  /\ \A r \in Queued : r <= lines /\ r \notin pending /\ (r \in Tracked => answers[r] = 0)
  /\ \A r \in Sent \cap Tracked : r \in pending \/ answers[r] = 1

\* Nothing is pending while no socket was ever open, and a proxy that waits to retry has no socket.
Connected ==
  /\ retry => running = "up" /\ socket = "none"
  /\ running = "up" /\ socket \in {"none", "connecting"} => pending = {}
  /\ running = "exited" => pending = {}

IInv == TypeOK /\ InOrder /\ Counted /\ Connected

----------------------------------------------------------------------------
(* Sequences of lines. *)

LEMMA SeqFacts ==
  ASSUME NEW s \in Seq(Request)
  PROVE  /\ Len(s) \in Nat
         /\ DOMAIN s = 1 .. Len(s)
         /\ \A i \in DOMAIN s : s[i] \in Request /\ s[i] \in Nat
<1>1. Len(s) \in Nat /\ DOMAIN s = 1 .. Len(s) /\ \A i \in DOMAIN s : s[i] \in Request
  BY LenProperties, ElementOfSeq
<1> QED BY <1>1 DEF Request

\* A line that comes after all others goes to the end.
LEMMA AppendIncreasing ==
  ASSUME NEW s \in Seq(Request), Increasing(s), NEW x \in Request, \A i \in DOMAIN s : s[i] < x
  PROVE  /\ Append(s, x) \in Seq(Request)
         /\ Increasing(Append(s, x))
         /\ \A i \in DOMAIN Append(s, x) : Append(s, x)[i] <= x
         /\ Range(Append(s, x)) = Range(s) \cup {x}
<1> DEFINE t == Append(s, x)
<1>1. /\ t \in Seq(Request)
      /\ Len(t) = Len(s) + 1
      /\ \A i \in 1 .. Len(s) : t[i] = s[i]
      /\ t[Len(s) + 1] = x
  BY AppendProperties
<1>2. DOMAIN t = 1 .. Len(s) + 1 /\ DOMAIN s = 1 .. Len(s) /\ Len(s) \in Nat
  BY <1>1, SeqFacts
<1>3. \A i \in DOMAIN t : i \in DOMAIN s \/ i = Len(s) + 1
  BY <1>2
<1>4. x \in Nat /\ \A i \in DOMAIN s : s[i] \in Nat
  BY SeqFacts DEF Request
<1>5. Increasing(t)
  <2> SUFFICES ASSUME NEW i \in DOMAIN t, NEW j \in DOMAIN t, i < j
               PROVE  t[i] < t[j]
    BY DEF Increasing
  <2>1. i \in DOMAIN s
    BY <1>2
  <2>2. CASE j \in DOMAIN s
    BY <1>1, <1>2, <2>1, <2>2 DEF Increasing
  <2>3. CASE j = Len(s) + 1
    BY <1>1, <1>2, <2>1, <2>3
  <2> QED BY <1>3, <2>2, <2>3
<1>6. \A i \in DOMAIN t : t[i] <= x
  BY <1>1, <1>2, <1>3, <1>4
<1>7. Range(t) = Range(s) \cup {x}
  BY <1>1, <1>2, <1>3 DEF Range
<1> QED BY <1>1, <1>5, <1>6, <1>7

\* What follows a sequence can be cut off.
LEMMA PrefixIncreasing ==
  ASSUME NEW s \in Seq(Request), NEW t \in Seq(Request), Increasing(s \o t)
  PROVE  Increasing(s)
<1>1. Len(s \o t) = Len(s) + Len(t) /\ \A i \in 1 .. Len(s) : (s \o t)[i] = s[i]
  BY ConcatProperties
<1>2. DOMAIN s \subseteq DOMAIN (s \o t) /\ DOMAIN s = 1 .. Len(s)
  BY <1>1, SeqFacts, ConcatProperties
<1> QED BY <1>1, <1>2 DEF Increasing

LEMMA WrittenFacts ==
  ASSUME TypeOK
  PROVE  /\ Written \in Seq(Request)
         /\ Range(Written) = Sent \cup Queued
         /\ \A i \in DOMAIN sent : i \in DOMAIN Written /\ Written[i] = sent[i]
         /\ \A i \in DOMAIN queue : \E n \in DOMAIN Written : Written[n] = queue[i]
<1>1. sent \in Seq(Request) /\ queue \in Seq(Request)
  BY DEF TypeOK
<1>2. /\ Written \in Seq(Request)
      /\ Len(Written) = Len(sent) + Len(queue)
      /\ \A i \in 1 .. Len(sent) : Written[i] = sent[i]
      /\ \A i \in 1 .. Len(queue) : Written[Len(sent) + i] = queue[i]
  BY <1>1, ConcatProperties DEF Written
<1>3. /\ Len(sent) \in Nat /\ Len(queue) \in Nat
      /\ DOMAIN sent = 1 .. Len(sent) /\ DOMAIN queue = 1 .. Len(queue)
      /\ DOMAIN Written = 1 .. Len(sent) + Len(queue)
  BY <1>1, <1>2, SeqFacts
<1>4. \A i \in DOMAIN sent : i \in DOMAIN Written /\ Written[i] = sent[i]
  BY <1>2, <1>3
<1>5. \A i \in DOMAIN queue : Len(sent) + i \in DOMAIN Written /\ Written[Len(sent) + i] = queue[i]
  BY <1>2, <1>3
<1>6. Range(Written) = Sent \cup Queued
  BY <1>1, RangeConcatenation DEF Written, Sent, Queued
<1> QED BY <1>2, <1>4, <1>5, <1>6

\* A line that was queued or sent was read before.
LEMMA NextIsNew ==
  ASSUME TypeOK, InOrder, lines < N
  PROVE  /\ NextLine \in Request
         /\ \A i \in DOMAIN Written : Written[i] < NextLine
         /\ NextLine \notin Sent /\ NextLine \notin Queued
<1>1. lines \in Nat /\ NextLine = lines + 1 /\ NextLine \in Request
  BY NAssumption DEF TypeOK, NextLine, Request
<1>2. \A i \in DOMAIN Written : Written[i] \in Nat
  BY WrittenFacts, SeqFacts
<1>3. \A i \in DOMAIN Written : Written[i] < NextLine
  BY <1>1, <1>2 DEF InOrder
<1>4. NextLine \notin Range(Written)
  BY <1>1, <1>3 DEF Range
<1> QED BY <1>1, <1>3, <1>4, WrittenFacts

----------------------------------------------------------------------------
(* Steps. *)

LEMMA AnsweredFacts ==
  ASSUME TypeOK, NEW S \in SUBSET Request
  PROVE  /\ Answered(S) \in [Request -> Nat]
         /\ \A r \in S : Answered(S)[r] = answers[r] + 1
         /\ \A r \in Request \ S : Answered(S)[r] = answers[r]
BY DEF TypeOK, Answered

LEMMA Sets ==
  ASSUME TypeOK
  PROVE  Queued \subseteq Request /\ Sent \subseteq Request /\ Tracked \subseteq Request
BY ElementOfSeq DEF TypeOK, Queued, Sent, Range, Tracked

LEMMA TypeStep == TypeOK /\ [Next]_vars => TypeOK'
<1> SUFFICES ASSUME TypeOK, [Next]_vars PROVE TypeOK'
  OBVIOUS
<1> USE DEF TypeOK
<1>1. Queued \subseteq Request /\ Tracked \subseteq Request /\ <<>> \in Seq(Request)
  BY Sets, EmptySeq
<1>2. ASSUME lines < N
      PROVE  NextLine \in Request /\ NextLine \in 0 .. N
  BY <1>2, NAssumption DEF NextLine, Request
<1>3. CASE UNCHANGED vars
  BY <1>3 DEF vars
<1>4. CASE ConnectLater \/ ConnectGivesUp \/ Connect \/ Closing \/ ClosedInShutdown
  BY <1>4 DEF ConnectLater, ConnectGivesUp, Connect, Closing, ClosedInShutdown, SocketGone
<1>5. ASSUME NEW failed \in SUBSET Queued, Opened(failed)
      PROVE  TypeOK'
  <2>1. answers' \in [Request -> Nat]
    BY <1>1, <1>5, AnsweredFacts DEF Opened
  <2>2. sent' \in Seq(Request)
    BY <1>5, ConcatProperties DEF Opened
  <2> QED BY <1>1, <1>5, <2>1, <2>2 DEF Opened
<1>6. CASE Closed \/ ClosedForGood
  <2>1. answers' \in [Request -> Nat]
    BY <1>1, <1>6, AnsweredFacts DEF Closed, ClosedForGood
  <2> QED BY <1>1, <1>6, <2>1 DEF Closed, ClosedForGood, SocketGone
<1>7. CASE RefuseLine \/ DropLine
  <2>1. answers' \in [Request -> Nat]
    BY <1>1, <1>2, <1>7, AnsweredFacts DEF RefuseLine, DropLine, ReadsLines
  <2> QED BY <1>1, <1>2, <1>7, <2>1 DEF RefuseLine, DropLine, ReadsLines
<1>8. ASSUME NEW throws \in BOOLEAN, SendLine(throws)
      PROVE  TypeOK'
  <2>1. NextLine \in Request /\ lines' \in 0 .. N
    BY <1>2, <1>8 DEF SendLine, ReadsLines
  <2>2. answers' \in [Request -> Nat]
    BY <1>1, <1>8, <2>1, AnsweredFacts DEF SendLine
  <2>3. sent' \in Seq(Request)
    BY <1>8, <2>1, AppendProperties DEF SendLine
  <2> QED BY <1>1, <1>8, <2>1, <2>2, <2>3 DEF SendLine
<1>9. CASE QueueLine
  <2>1. NextLine \in Request /\ lines' \in 0 .. N
    BY <1>2, <1>9 DEF QueueLine, ReadsLines
  <2>2. queue' \in Seq(Request)
    BY <1>9, <2>1, AppendProperties DEF QueueLine
  <2> QED BY <1>9, <2>1, <2>2 DEF QueueLine
<1>10. ASSUME NEW r \in wire, DaemonAnswers(r)
       PROVE  TypeOK'
  <2>1. answers' \in [Request -> Nat]
    BY <1>10, AnsweredFacts DEF DaemonAnswers
  <2> QED BY <1>10, <2>1 DEF DaemonAnswers
<1>11. ASSUME NEW expired \in SUBSET pending, CheckTimeouts(expired)
       PROVE  TypeOK'
  <2>1. answers' \in [Request -> Nat]
    BY <1>1, <1>11, AnsweredFacts DEF CheckTimeouts
  <2> QED BY <1>11, <2>1 DEF CheckTimeouts
<1>12. ASSUME NEW closesStdin \in BOOLEAN, ShutDownAtOnce(closesStdin) \/ ShutDown(closesStdin)
       PROVE  TypeOK'
  BY <1>12 DEF ShutDownAtOnce, ShutDown
<1>13. CASE FinishShutdown
  <2>1. answers' \in [Request -> Nat]
    BY <1>1, <1>13, AnsweredFacts DEF FinishShutdown
  <2> QED BY <1>1, <1>13, <2>1 DEF FinishShutdown
<1>14. CASE DaemonFileChanges \/ WindowPasses
  BY <1>14 DEF DaemonFileChanges, WindowPasses
<1> QED
  BY <1>3, <1>4, <1>5, <1>6, <1>7, <1>8, <1>9, <1>10, <1>11, <1>12, <1>13, <1>14 DEF Next

\* What a step may do to the lines: read one, which goes to the end of the queue, or of what was
\* sent if the socket is open, or nowhere; flush the queue; or throw it away at the end.
LEMMA LinesStep ==
  ASSUME [Next]_vars
  PROVE  \/ UNCHANGED <<lines, queue, sent>>
         \/ ReadsLines /\ lines' = NextLine /\ UNCHANGED <<queue, sent>>
         \/ ReadsLines /\ lines' = NextLine /\ socket = "open" /\ sent' = Append(sent, NextLine) /\ UNCHANGED queue
         \/ ReadsLines /\ lines' = NextLine /\ socket # "open" /\ queue' = Append(queue, NextLine) /\ UNCHANGED sent
         \/ queue' = <<>> /\ sent' = sent \o queue /\ UNCHANGED lines
         \/ queue' = <<>> /\ UNCHANGED <<sent, lines>>
BY DEF Next, vars, ConnectLater, ConnectGivesUp, Connect, Opened, Closing, ClosedInShutdown, Closed,
       ClosedForGood, RefuseLine, SendLine, QueueLine, DropLine, DaemonAnswers, CheckTimeouts,
       ShutDownAtOnce, ShutDown, FinishShutdown, DaemonFileChanges, WindowPasses

\* A socket opens with an empty queue, or was open.
LEMMA SocketStep ==
  ASSUME [Next]_vars, socket' = "open"
  PROVE  queue' = <<>> \/ (socket = "open" /\ UNCHANGED queue)
BY DEF Next, vars, ConnectLater, ConnectGivesUp, Connect, Opened, Closing, ClosedInShutdown, Closed,
       ClosedForGood, SocketGone, RefuseLine, SendLine, QueueLine, DropLine, DaemonAnswers, CheckTimeouts,
       ShutDownAtOnce, ShutDown, FinishShutdown, DaemonFileChanges, WindowPasses

LEMMA InOrderStep ==
  ASSUME TypeOK, InOrder, [Next]_vars
  PROVE  InOrder'
<1> USE DEF Written
<1>1. sent \in Seq(Request) /\ queue \in Seq(Request) /\ Written \in Seq(Request) /\ lines \in Nat
  BY WrittenFacts DEF TypeOK
<1>2. (socket = "open" => queue = <<>>)'
  BY SocketStep DEF InOrder
<1>3. \A i \in DOMAIN Written : Written[i] \in Nat /\ Written[i] <= lines
  BY <1>1, SeqFacts DEF InOrder
<1>4. ASSUME ReadsLines, lines' = NextLine
      PROVE  /\ NextLine \in Request /\ lines' > lines /\ lines' \in Nat
             /\ \A i \in DOMAIN Written : Written[i] < NextLine
  BY <1>1, <1>4, NextIsNew DEF ReadsLines, NextLine
<1>5. ASSUME ReadsLines, lines' = NextLine, Written' = Append(Written, NextLine)
      PROVE  InOrder'
  <2>1. Increasing(Written') /\ \A i \in DOMAIN Written' : Written'[i] <= NextLine
    BY <1>1, <1>4, <1>5, AppendIncreasing DEF InOrder
  <2> QED BY <1>2, <1>5, <2>1 DEF InOrder
<1>6. CASE UNCHANGED <<lines, queue, sent>>
  BY <1>2, <1>6 DEF InOrder
<1>7. CASE ReadsLines /\ lines' = NextLine /\ UNCHANGED <<queue, sent>>
  <2>1. Written' = Written
    BY <1>7
  <2>2. \A i \in DOMAIN Written' : Written'[i] <= lines'
    BY <1>1, <1>3, <1>4, <1>7, <2>1
  <2> QED BY <1>2, <2>1, <2>2 DEF InOrder
<1>8. CASE ReadsLines /\ lines' = NextLine /\ socket = "open" /\ sent' = Append(sent, NextLine) /\ UNCHANGED queue
  <2>1. queue = <<>> /\ queue' = <<>>
    BY <1>8 DEF InOrder
  <2>2. Append(sent, NextLine) \in Seq(Request)
    BY <1>1, <1>4, <1>8, AppendProperties
  <2>3. Written = sent /\ Written' = Append(sent, NextLine)
    BY <1>1, <1>8, <2>1, <2>2, ConcatEmptySeq
  <2> QED BY <1>5, <1>8, <2>3
<1>9. CASE ReadsLines /\ lines' = NextLine /\ socket # "open" /\ queue' = Append(queue, NextLine) /\ UNCHANGED sent
  <2>1. sent \o Append(queue, NextLine) = Append(sent \o queue, NextLine)
    BY <1>1, <1>4, <1>9
  <2> QED BY <1>5, <1>9, <2>1
<1>10. CASE queue' = <<>> /\ sent' = sent \o queue /\ UNCHANGED lines
  <2>1. Written' = Written
    BY <1>1, <1>10, ConcatEmptySeq
  <2> QED BY <1>2, <1>10, <2>1 DEF InOrder
<1>11. CASE queue' = <<>> /\ UNCHANGED <<sent, lines>>
  <2>1. Written' = sent
    BY <1>1, <1>11, ConcatEmptySeq
  <2>2. Increasing(sent)
    BY <1>1, PrefixIncreasing DEF InOrder
  <2>3. \A i \in DOMAIN sent : sent[i] <= lines
    BY <1>3, WrittenFacts
  <2> QED BY <1>2, <1>11, <2>1, <2>2, <2>3 DEF InOrder
<1> QED BY <1>6, <1>7, <1>8, <1>9, <1>10, <1>11, LinesStep

LEMMA ConnectedStep ==
  ASSUME TypeOK, Connected, [Next]_vars
  PROVE  Connected'
<1> USE DEF TypeOK, Connected
<1>1. CASE UNCHANGED vars
  BY <1>1 DEF vars
<1>2. CASE ConnectLater \/ ConnectGivesUp \/ Connect \/ Closing \/ ClosedInShutdown \/ Closed \/ ClosedForGood
  BY <1>2 DEF ConnectLater, ConnectGivesUp, Connect, Closing, ClosedInShutdown, Closed, ClosedForGood, SocketGone
<1>3. ASSUME NEW failed \in SUBSET Queued, Opened(failed)
      PROVE  Connected'
  BY <1>3 DEF Opened
<1>4. CASE RefuseLine \/ (\E throws \in BOOLEAN : SendLine(throws)) \/ QueueLine \/ DropLine
  BY <1>4 DEF RefuseLine, SendLine, QueueLine, DropLine, ReadsLines
<1>5. ASSUME NEW r \in wire, DaemonAnswers(r)
      PROVE  Connected'
  BY <1>5 DEF DaemonAnswers
<1>6. ASSUME NEW expired \in SUBSET pending, CheckTimeouts(expired)
      PROVE  Connected'
  BY <1>6 DEF CheckTimeouts
<1>7. ASSUME NEW closesStdin \in BOOLEAN, ShutDownAtOnce(closesStdin) \/ ShutDown(closesStdin)
      PROVE  Connected'
  BY <1>7 DEF ShutDownAtOnce, ShutDown
<1>8. CASE FinishShutdown
  BY <1>8 DEF FinishShutdown
<1>9. CASE DaemonFileChanges \/ WindowPasses
  BY <1>9 DEF DaemonFileChanges, WindowPasses
<1> QED BY <1>1, <1>2, <1>3, <1>4, <1>5, <1>6, <1>7, <1>8, <1>9 DEF Next

\* A line is read, and answered at once unless it is pending, queued or a batch.
LEMMA CountedRead ==
  ASSUME TypeOK, InOrder, Counted, lines < N, lines' = NextLine,
         NEW S \in SUBSET {NextLine}, answers' = Answered(S),
         pending' \subseteq Tracked, pending' \in {pending, pending \cup {NextLine}},
         Sent' \in {Sent, Sent \cup {NextLine}}, Queued' \in {Queued, Queued \cup {NextLine}},
         S # {} => pending' = pending /\ Queued' = Queued,
         NextLine \in Queued' => NextLine \notin pending',
         NextLine \in Sent' \cap Tracked => S # {} \/ NextLine \in pending'
  PROVE  Counted'
<1> DEFINE x == NextLine
<1>1. x \in Request /\ x \notin Sent /\ x \notin Queued /\ x = lines + 1 /\ lines \in Nat
  BY NextIsNew DEF TypeOK, NextLine
<1>2. Queued \subseteq Request /\ Sent \subseteq Request /\ Tracked \subseteq Request /\ pending \subseteq Tracked
  BY Sets DEF TypeOK
<1>3. \A r \in Request : r \in Nat
  BY DEF Request
<1>4. S = {} \/ S = {x}
  OBVIOUS
<1>5. \A r \in Request : r # x => answers'[r] = answers[r]
  BY <1>1, AnsweredFacts
<1>6. x \in S => answers'[x] = answers[x] + 1
  BY <1>1, AnsweredFacts
<1>7. x \notin S => answers'[x] = answers[x]
  BY <1>1, AnsweredFacts
<1>8. x \in Tracked => answers[x] = 0
  BY <1>1 DEF Counted
<1>9. x \notin pending
  BY <1>1 DEF Counted
<1>10. \A r \in Tracked : answers'[r] \in {0, 1} /\ (r > lines' => answers'[r] = 0)
  BY <1>1, <1>2, <1>3, <1>5, <1>6, <1>7, <1>8 DEF Counted
<1>11. \A r \in pending' : r <= lines' /\ answers'[r] = 0
  BY <1>1, <1>2, <1>3, <1>4, <1>5, <1>7, <1>8, <1>9 DEF Counted
<1>12. \A r \in Queued' : r <= lines' /\ r \notin pending' /\ (r \in Tracked => answers'[r] = 0)
  BY <1>1, <1>2, <1>3, <1>4, <1>5, <1>7, <1>8 DEF Counted
<1>13. ASSUME NEW r \in Sent' \cap Tracked
       PROVE  r \in pending' \/ answers'[r] = 1
  <2>1. CASE r = x
    BY <1>4, <1>6, <1>8, <2>1
  <2>2. CASE r # x
    <3>1. r \in Sent /\ r \in Tracked /\ pending \subseteq pending' /\ answers'[r] = answers[r]
      BY <1>2, <1>5, <2>2
    <3> QED BY <3>1 DEF Counted
  <2> QED BY <2>1, <2>2
<1> QED BY <1>10, <1>11, <1>12, <1>13 DEF Counted

\* Requests that are pending or queued are answered, and leave both.
LEMMA CountedAnswer ==
  ASSUME TypeOK, Counted, UNCHANGED lines,
         NEW S \in SUBSET Request, answers' = Answered(S), S \cap Tracked \subseteq pending \cup Queued,
         pending' \subseteq pending \cup (Queued \cap Tracked),
         Queued' \subseteq Queued, Sent' \subseteq Sent \cup Queued,
         S \cap (pending' \cup Queued') \cap Tracked = {}, pending' \cap Queued' = {},
         \A r \in pending : r \in S \/ r \in pending',
         \A r \in Sent' \cap Queued \cap Tracked : r \in S \/ r \in pending' \/ r \in Sent
  PROVE  Counted'
<1>1. Queued \subseteq Request /\ Sent \subseteq Request /\ Tracked \subseteq Request /\ pending \subseteq Tracked
  BY Sets DEF TypeOK
<1>2. \A r \in S : answers'[r] = answers[r] + 1
  BY AnsweredFacts
<1>3. \A r \in Request \ S : answers'[r] = answers[r]
  BY AnsweredFacts
<1>4. \A r \in pending \cup (Queued \cap Tracked) : answers[r] = 0 /\ r <= lines
  BY DEF Counted
<1>5. \A r \in Tracked : answers'[r] \in {0, 1} /\ (r > lines' => answers'[r] = 0)
  <2> SUFFICES ASSUME NEW r \in Tracked
               PROVE  answers'[r] \in {0, 1} /\ (r > lines' => answers'[r] = 0)
    OBVIOUS
  <2>1. r \in Nat /\ lines \in Nat
    BY <1>1 DEF Request, TypeOK
  <2>2. CASE r \in S
    BY <1>2, <1>4, <2>1, <2>2
  <2>3. CASE r \notin S
    BY <1>1, <1>3, <2>3 DEF Counted
  <2> QED BY <2>2, <2>3
<1>6. \A r \in pending' : r <= lines' /\ answers'[r] = 0
  BY <1>1, <1>3, <1>4
<1>7. \A r \in Queued' : r <= lines' /\ r \notin pending' /\ (r \in Tracked => answers'[r] = 0)
  BY <1>1, <1>3, <1>4 DEF Counted
<1>8. \A r \in Sent' \cap Tracked : r \in pending' \/ answers'[r] = 1
  <2> SUFFICES ASSUME NEW r \in Sent' \cap Tracked
               PROVE  r \in pending' \/ answers'[r] = 1
    OBVIOUS
  <2>1. CASE r \in S
    BY <1>2, <1>4, <2>1
  <2>2. CASE r \notin S
    BY <1>1, <1>3, <2>2 DEF Counted
  <2> QED BY <2>1, <2>2
<1> QED BY <1>5, <1>6, <1>7, <1>8 DEF Counted

LEMMA CountedStep ==
  ASSUME TypeOK, InOrder, Counted, Connected, [Next]_vars
  PROVE  Counted'
<1>1. /\ Queued \subseteq Request /\ Sent \subseteq Request /\ Tracked \subseteq Request
      /\ pending \subseteq Tracked /\ answers \in [Request -> Nat]
  BY Sets DEF TypeOK
<1>2. sent \in Seq(Request) /\ queue \in Seq(Request) /\ pending \cap Queued = {}
  BY DEF TypeOK, Counted
<1>3. Range(<<>>) = {}
  BY DEF Range
<1>4. Answered({}) = answers
  BY <1>1 DEF Answered
<1>5. CASE UNCHANGED <<lines, pending, queue, answers, sent>>
  BY <1>5 DEF Counted, Queued, Sent
<1>6. CASE \/ UNCHANGED vars \/ ConnectLater \/ ConnectGivesUp \/ Connect \/ Closing \/ ClosedInShutdown
           \/ (\E closesStdin \in BOOLEAN : ShutDownAtOnce(closesStdin) \/ ShutDown(closesStdin))
           \/ DaemonFileChanges \/ WindowPasses
  BY <1>5, <1>6 DEF vars, ConnectLater, ConnectGivesUp, Connect, Closing, ClosedInShutdown, ShutDownAtOnce,
                    ShutDown, DaemonFileChanges, WindowPasses
<1>7. ASSUME NEW failed \in SUBSET Queued, Opened(failed)
      PROVE  Counted'
  <2>1. Queued' = {} /\ Sent' = Sent \cup Queued
    BY <1>2, <1>3, <1>7, RangeConcatenation DEF Opened, Queued, Sent
  <2>2. failed \cap Tracked \in SUBSET Request /\ answers' = Answered(failed \cap Tracked)
    BY <1>1, <1>7 DEF Opened
  <2>3. pending' = pending \cup ((Queued \cap Tracked) \ failed) /\ lines' = lines
    BY <1>7 DEF Opened
  <2> QED BY <1>2, <2>1, <2>2, <2>3, CountedAnswer
<1>8. CASE Closed
  <2>1. /\ pending' = {} /\ lines' = lines /\ pending \in SUBSET Request /\ answers' = Answered(pending)
        /\ Queued' = Queued /\ Sent' = Sent
    BY <1>1, <1>8 DEF Closed, Queued, Sent
  <2> QED BY <1>2, <2>1, CountedAnswer DEF Counted
<1>9. CASE ClosedForGood \/ FinishShutdown
  <2>1. pending \cup (Queued \cap Tracked) \in SUBSET Request
    BY <1>1
  <2>2. /\ pending' = {} /\ lines' = lines /\ answers' = Answered(pending \cup (Queued \cap Tracked))
        /\ Queued' = {} /\ Sent' = Sent
    BY <1>3, <1>9 DEF ClosedForGood, FinishShutdown, Queued, Sent
  <2> QED BY <1>1, <2>1, <2>2, CountedAnswer
<1>10. ASSUME NEW r \in wire, DaemonAnswers(r)
       PROVE  Counted'
  <2>1. r \in Request /\ {r} \cap (pending \cup Batch) \in SUBSET Request /\ Tracked \cap Batch = {}
    BY DEF TypeOK, Tracked
  <2>2. /\ pending' = pending \ {r} /\ lines' = lines /\ answers' = Answered({r} \cap (pending \cup Batch))
        /\ Queued' = Queued /\ Sent' = Sent
    BY <1>10 DEF DaemonAnswers, Queued, Sent
  <2> QED BY <1>2, <2>1, <2>2, CountedAnswer
<1>11. ASSUME NEW expired \in SUBSET pending, CheckTimeouts(expired)
       PROVE  Counted'
  <2>1. /\ pending' = pending \ expired /\ lines' = lines /\ answers' = Answered(expired)
        /\ Queued' = Queued /\ Sent' = Sent
    BY <1>11 DEF CheckTimeouts, Queued, Sent
  <2> QED BY <1>1, <1>2, <2>1, CountedAnswer
<1>12. CASE RefuseLine \/ DropLine
  <2>1. /\ lines < N /\ lines' = NextLine /\ pending' = pending /\ Queued' = Queued /\ Sent' = Sent
        /\ \E S \in SUBSET {NextLine} : answers' = Answered(S)
    BY <1>12 DEF RefuseLine, DropLine, ReadsLines, Queued, Sent
  <2>2. NextLine \notin Queued /\ NextLine \notin Sent
    BY <2>1, NextIsNew
  <2> QED BY <1>1, <2>1, <2>2, CountedRead
<1>13. ASSUME NEW throws \in BOOLEAN, SendLine(throws)
       PROVE  Counted'
  <2>1. lines < N /\ lines' = NextLine /\ Queued' = Queued
    BY <1>13 DEF SendLine, ReadsLines, Queued
  <2>2. NextLine \in Request /\ NextLine \notin Queued
    BY <2>1, NextIsNew
  <2>3. Sent' = Sent \cup {NextLine}
    <3>1. Increasing(sent)
      BY <1>2, PrefixIncreasing DEF InOrder, Written
    <3>2. \A i \in DOMAIN sent : sent[i] < NextLine
      BY <2>1, NextIsNew, WrittenFacts
    <3> QED BY <1>2, <1>13, <2>2, <3>1, <3>2, AppendIncreasing DEF SendLine, Sent
  <2>4. CASE throws
    <3>1. pending' = pending /\ answers' = Answered({NextLine} \cap Tracked)
      BY <1>13, <2>4 DEF SendLine
    <3>2. {NextLine} \cap Tracked \in SUBSET {NextLine}
      OBVIOUS
    <3>3. NextLine \in Sent' \cap Tracked => {NextLine} \cap Tracked # {}
      OBVIOUS
    <3> QED BY <1>1, <2>1, <2>2, <2>3, <3>1, <3>2, <3>3, CountedRead
  <2>5. CASE ~throws
    <3>1. answers' = Answered({}) /\ pending' = pending \cup ({NextLine} \cap Tracked)
      BY <1>4, <1>13, <2>5 DEF SendLine
    <3>2. {} \in SUBSET {NextLine} /\ pending' \subseteq Tracked /\ pending' \in {pending, pending \cup {NextLine}}
      BY <1>1, <3>1
    <3>3. NextLine \in Sent' \cap Tracked => NextLine \in pending'
      BY <3>1
    <3> QED BY <2>1, <2>2, <2>3, <3>1, <3>2, <3>3, CountedRead
  <2> QED BY <2>4, <2>5
<1>14. CASE QueueLine
  <2>1. lines < N /\ lines' = NextLine /\ pending' = pending /\ Sent' = Sent /\ answers' = Answered({})
    BY <1>4, <1>14 DEF QueueLine, ReadsLines, Sent
  <2>2. NextLine \in Request /\ NextLine \notin Sent /\ NextLine = lines + 1 /\ lines \in Nat
    BY <2>1, NextIsNew DEF TypeOK, NextLine
  <2>3. Queued' = Queued \cup {NextLine}
    <3>1. /\ Append(queue, NextLine) \in Seq(Request)
          /\ Len(Append(queue, NextLine)) = Len(queue) + 1
          /\ \A i \in 1 .. Len(queue) : Append(queue, NextLine)[i] = queue[i]
          /\ Append(queue, NextLine)[Len(queue) + 1] = NextLine
      BY <1>2, <2>2, AppendProperties
    <3>2. /\ DOMAIN Append(queue, NextLine) = 1 .. Len(queue) + 1
          /\ DOMAIN queue = 1 .. Len(queue) /\ Len(queue) \in Nat
      BY <1>2, <3>1, SeqFacts
    <3>3. Range(Append(queue, NextLine)) = Range(queue) \cup {NextLine}
      BY <3>1, <3>2 DEF Range
    <3> QED BY <1>14, <3>3 DEF QueueLine, Queued
  <2>4. NextLine \notin pending
    BY <2>2 DEF Counted
  <2>5. {} \in SUBSET {NextLine}
    OBVIOUS
  <2> QED BY <1>1, <2>1, <2>2, <2>3, <2>4, <2>5, CountedRead
<1> QED
  BY <1>6, <1>7, <1>8, <1>9, <1>10, <1>11, <1>12, <1>13, <1>14 DEF Next

LEMMA Start == Init => IInv
<1> SUFFICES ASSUME Init PROVE IInv
  OBVIOUS
<1>1. TypeOK
  <2>1. <<>> \in Seq(Request) /\ 0 \in 0 .. N /\ [r \in Request |-> 0] \in [Request -> Nat]
    BY EmptySeq, NAssumption
  <2> QED BY <2>1 DEF Init, TypeOK
<1>2. Queued = {} /\ Sent = {}
  BY DEF Init, Queued, Sent, Range
<1>3. InOrder
  <2>1. Written = <<>> /\ DOMAIN Written = {}
    BY DEF Init, Written
  <2> QED BY <2>1 DEF Init, InOrder, Increasing
<1>4. Counted
  BY <1>2, Sets, <1>1 DEF Init, Counted
<1>5. Connected
  BY DEF Init, Connected
<1> QED BY <1>1, <1>3, <1>4, <1>5 DEF IInv

\* Every reachable state satisfies the inductive invariant.
THEOREM Invariance == Spec => []IInv
<1>1. IInv /\ [Next]_vars => IInv'
  BY TypeStep, InOrderStep, CountedStep, ConnectedStep DEF IInv
<1> QED BY Start, <1>1, PTL DEF Spec

\* The state is well typed, and when the proxy has ended, every request that ws.send() was called
\* with was answered: close handler, timeout checker and gracefulShutdown leave none behind.
THEOREM SentAnswered == Spec => []Inv
<1>1. IInv => Inv
  <2> SUFFICES ASSUME IInv, running = "exited", NEW i \in DOMAIN sent, sent[i] \in Tracked
               PROVE  answers[sent[i]] = 1
    BY DEF IInv, Inv, SentIsAnswered
  <2>1. sent[i] \in Sent \cap Tracked /\ pending = {}
    BY DEF Sent, Range, IInv, Connected
  <2> QED BY <2>1 DEF IInv, Counted
<1> QED BY <1>1, Invariance, PTL

\* ws.send() is called with the lines in the order in which the agent wrote them, although some go
\* through the queue and some do not.
THEOREM OrderIsKept == Spec => []SentInOrder
<1>1. IInv => SentInOrder
  BY PrefixIncreasing DEF IInv, TypeOK, InOrder, Written, Increasing, SentInOrder
<1> QED BY <1>1, Invariance, PTL

----------------------------------------------------------------------------
(* Proxy implements Exchange. *)

Stages == [r \in Tracked |-> Stage(r)]
Over == running = "exited"

\* A step that answers requests which were open, and reads nothing, is a step of Exchange.
LEMMA SeenAnswer ==
  ASSUME TypeOK, Counted, running # "exited", UNCHANGED lines,
         NEW S \in SUBSET Request, answers' = Answered(S), S \cap Tracked \subseteq pending \cup Queued
  PROVE  Seen!Next
<1> DEFINE A == S \cap Tracked
<1>1. \A r \in A : r \in Request /\ r <= lines /\ ~(r > lines) /\ answers[r] = 0
  <2>1. \A r \in A : r <= lines /\ answers[r] = 0 /\ r \in Nat /\ lines \in Nat /\ r \in Request
    BY DEF Counted, Tracked, Request, TypeOK
  <2> QED BY <2>1
<1>2. \A r \in A : Stages[r] = "open"
  BY <1>1 DEF Stages, Stage
<1>3. \A r \in A : answers'[r] = 1
  BY <1>1, AnsweredFacts
<1>4. \A r \in Tracked \ A : answers'[r] = answers[r]
  BY Sets, AnsweredFacts
<1>5. \A r \in A : Stages'[r] = "answered"
  BY <1>1, <1>3 DEF Stages, Stage
<1>6. \A r \in Tracked \ A : Stages'[r] = Stages[r]
  BY <1>4 DEF Stages, Stage
<1>7. Stages' = [r \in Tracked |-> IF r \in A THEN "answered" ELSE Stages[r]]
  BY <1>5, <1>6 DEF Stages
<1>8. Over' \in BOOLEAN /\ ~Over
  BY DEF Over
<1>9. Seen!Answer(A, Over')
  BY <1>2, <1>7, <1>8 DEF Seen!Answer, Stages, Over
<1>10. A \in SUBSET Tracked
  OBVIOUS
<1> QED BY <1>8, <1>9, <1>10 DEF Seen!Next, Over

LEMMA StageKept ==
  ASSUME NEW r \in Nat, lines \in Nat, lines' = lines + 1, r # lines + 1, answers[r] \in Nat, answers'[r] = answers[r]
  PROVE  Stage(r)' = Stage(r)
<1>1. CASE r > lines
  <2>1. r > lines' /\ ~(r <= lines') /\ ~(r <= lines) /\ lines' \in Nat
    BY <1>1
  <2> QED BY <1>1, <2>1 DEF Stage
<1>2. CASE r <= lines
  <2>1. r <= lines' /\ ~(r > lines') /\ ~(r > lines) /\ lines' \in Nat
    BY <1>2
  <2> QED BY <1>2, <2>1 DEF Stage
<1> QED BY <1>1, <1>2

\* A step that reads a line, and answers it or not, is one too, or a stutter if the line is a batch.
LEMMA SeenTake ==
  ASSUME TypeOK, Counted, running # "exited", UNCHANGED running,
         lines < N, lines' = NextLine, NEW S \in SUBSET {NextLine}, answers' = Answered(S)
  PROVE  Seen!Next \/ UNCHANGED <<Stages, Over>>
<1> DEFINE x == NextLine
<1>1. x \in Request /\ x = lines + 1 /\ lines \in Nat
  BY NAssumption DEF TypeOK, NextLine, Request
<1>2. Tracked \subseteq Nat /\ Tracked \subseteq Request
  BY DEF Tracked, Request
<1>3. \A r \in Tracked : r # x => answers'[r] = answers[r]
  BY <1>1, <1>2, AnsweredFacts
<1>4. ASSUME NEW r \in Tracked, r # x
      PROVE  Stages'[r] = Stages[r]
  <2>1. /\ r \in Nat /\ lines \in Nat /\ lines' = lines + 1 /\ r # lines + 1
        /\ answers[r] \in Nat /\ answers'[r] = answers[r]
    BY <1>1, <1>2, <1>3, <1>4 DEF TypeOK
  <2> QED BY <2>1, StageKept DEF Stages
<1>5. ~Over /\ Over' = Over
  BY DEF Over
<1>6. CASE x \notin Tracked
  <2>1. Stages' = Stages
    BY <1>4, <1>6 DEF Stages
  <2> QED BY <1>5, <2>1
<1>7. CASE x \in Tracked
  <2>1. answers[x] = 0 /\ answers'[x] \in {0, 1} /\ x > lines /\ x <= lines' /\ ~(x > lines')
    <3>1. x > lines /\ answers[x] = 0
      BY <1>1, <1>7 DEF Counted
    <3>2. answers'[x] \in {0, 1}
      BY <1>1, <3>1, AnsweredFacts
    <3> QED BY <1>1, <3>1, <3>2
  <2>2. Stages[x] = "unread"
    BY <1>7, <2>1 DEF Stages, Stage
  <2>3. Stages'[x] \in {"open", "answered"}
    <3>1. CASE answers'[x] = 0
      BY <1>7, <2>1, <3>1 DEF Stages, Stage
    <3>2. CASE answers'[x] = 1
      BY <1>7, <2>1, <3>2 DEF Stages, Stage
    <3> QED BY <2>1, <3>1, <3>2
  <2>4. Stages' = [Stages EXCEPT ![x] = Stages'[x]]
    BY <1>4, <1>7 DEF Stages
  <2>5. Seen!Take(x, Stages'[x])
    BY <1>5, <2>2, <2>4 DEF Seen!Take, Stages, Over
  <2> QED BY <1>5, <1>7, <2>3, <2>5 DEF Seen!Next, Over
<1> QED BY <1>6, <1>7

\* Every step of the proxy is a step of Exchange or a stutter.
LEMMA SeenStep == IInv /\ [Next]_vars => Seen!Next \/ UNCHANGED <<Stages, Over>>
<1> SUFFICES ASSUME IInv, [Next]_vars
             PROVE  Seen!Next \/ UNCHANGED <<Stages, Over>>
  OBVIOUS
<1> USE DEF IInv
<1>1. /\ Queued \subseteq Request /\ Tracked \subseteq Request /\ pending \subseteq Request
      /\ answers \in [Request -> Nat] /\ Answered({}) = answers
  BY Sets DEF TypeOK, Answered
<1>2. CASE UNCHANGED <<running, lines, answers>>
  BY <1>2 DEF Stages, Stage, Over
<1>3. CASE \/ UNCHANGED vars \/ ConnectLater \/ Connect \/ Closing \/ ClosedInShutdown
           \/ DaemonFileChanges \/ WindowPasses
           \/ (\E closesStdin \in BOOLEAN : ShutDown(closesStdin) /\ running' = running)
  BY <1>2, <1>3 DEF vars, ConnectLater, Connect, Closing, ClosedInShutdown, ShutDown, DaemonFileChanges, WindowPasses
<1>4. CASE ConnectGivesUp \/ (\E closesStdin \in BOOLEAN : ShutDownAtOnce(closesStdin) \/ ShutDown(closesStdin))
  <2>1. running # "exited" /\ lines' = lines /\ answers' = Answered({})
    BY <1>1, <1>4 DEF ConnectGivesUp, ShutDownAtOnce, ShutDown
  <2>2. {} \in SUBSET Request /\ {} \cap Tracked \subseteq pending \cup Queued
    OBVIOUS
  <2> QED BY <2>1, <2>2, SeenAnswer
<1>5. ASSUME NEW failed \in SUBSET Queued, Opened(failed)
      PROVE  Seen!Next
  <2>1. running # "exited" /\ lines' = lines /\ answers' = Answered(failed \cap Tracked)
    BY <1>5 DEF Opened
  <2> QED BY <1>1, <2>1, SeenAnswer
<1>6. CASE Closed
  <2>1. running # "exited" /\ lines' = lines /\ answers' = Answered(pending)
    BY <1>6 DEF Closed
  <2> QED BY <1>1, <2>1, SeenAnswer
<1>7. CASE ClosedForGood \/ FinishShutdown
  <2>1. running # "exited" /\ lines' = lines /\ answers' = Answered(pending \cup (Queued \cap Tracked))
    BY <1>7 DEF ClosedForGood, FinishShutdown
  <2> QED BY <1>1, <2>1, SeenAnswer
<1>8. CASE RefuseLine \/ (\E throws \in BOOLEAN : SendLine(throws)) \/ QueueLine \/ DropLine
  <2>1. running # "exited" /\ running' = running /\ lines < N /\ lines' = NextLine
    BY <1>8 DEF RefuseLine, SendLine, QueueLine, DropLine, ReadsLines
  <2>2. \E S \in SUBSET {NextLine} : answers' = Answered(S)
    BY <1>1, <1>8 DEF RefuseLine, SendLine, QueueLine, DropLine
  <2> QED BY <2>1, <2>2, SeenTake
<1>9. ASSUME NEW r \in wire, DaemonAnswers(r)
      PROVE  Seen!Next
  <2>1. r \in Request /\ Tracked \cap Batch = {}
    BY DEF TypeOK, Tracked
  <2>2. running # "exited" /\ lines' = lines /\ answers' = Answered({r} \cap (pending \cup Batch))
    BY <1>9 DEF DaemonAnswers
  <2> QED BY <2>1, <2>2, SeenAnswer
<1>10. ASSUME NEW expired \in SUBSET pending, CheckTimeouts(expired)
       PROVE  Seen!Next
  <2>1. running # "exited" /\ lines' = lines /\ answers' = Answered(expired)
    BY <1>10 DEF CheckTimeouts
  <2> QED BY <1>1, <2>1, SeenAnswer
<1> QED
  BY <1>3, <1>4, <1>5, <1>6, <1>7, <1>8, <1>9, <1>10 DEF Next

\* The proxy implements Exchange: whatever arrives late, is dropped, fails or is shut down, a request
\* that was read gets at most one answer, and none before it was read or after the proxy ended.
THEOREM OneAnswer == Spec => AnswersOnce
<1>1. Init => Seen!Init
  <2> SUFFICES ASSUME Init PROVE Seen!Init
    OBVIOUS
  <2>1. \A r \in Tracked : r > 0 /\ r \in Request
    BY DEF Tracked, Request
  <2>2. \A r \in Tracked : Stage(r) = "unread"
    BY <2>1 DEF Init, Stage
  <2>3. (running = "exited") = FALSE
    BY DEF Init
  <2> QED BY <2>2, <2>3 DEF Seen!Init
<1>2. IInv /\ [Next]_vars => [Seen!Next]_<<[r \in Tracked |-> Stage(r)], running = "exited">>
  BY SeenStep DEF Stages, Over
<1> QED BY Invariance, <1>1, <1>2, PTL DEF Spec, Seen!Spec, AnswersOnce

----------------------------------------------------------------------------
(***************************************************************************)
(* No request hangs.  A request that is pending is answered by the checker *)
(* at the latest.  One that is queued waits for a socket; as long as none  *)
(* opens, the window of five minutes opens and passes, and the close after *)
(* that answers it.                                                        *)
(***************************************************************************)

\* A request that was read is queued or pending until it is answered.
Heard == \A r \in Tracked : r <= lines => answers[r] = 1 \/ r \in pending \/ r \in Queued

\* A proxy without a socket waits to retry, and one with requests in flight has its checker.
Ready ==
  running = "up" => /\ socket = "none" => retry
                    /\ socket \in {"open", "closing"} => checker

LEMMA AppendRange ==
  ASSUME NEW s \in Seq(Request), NEW x \in Request
  PROVE  Range(Append(s, x)) = Range(s) \cup {x}
<1>1. /\ Append(s, x) \in Seq(Request)
      /\ Len(Append(s, x)) = Len(s) + 1
      /\ \A i \in 1 .. Len(s) : Append(s, x)[i] = s[i]
      /\ Append(s, x)[Len(s) + 1] = x
  BY AppendProperties
<1>2. DOMAIN Append(s, x) = 1 .. Len(s) + 1 /\ DOMAIN s = 1 .. Len(s) /\ Len(s) \in Nat
  BY <1>1, SeqFacts
<1>3. \A i \in 1 .. Len(s) + 1 : i \in 1 .. Len(s) \/ i = Len(s) + 1
  BY <1>2
<1> QED BY <1>1, <1>2, <1>3 DEF Range

\* A line that is read goes to the end of the queue or not into it; else the queue only empties.
LEMMA QueueStep ==
  ASSUME TypeOK, [Next]_vars
  PROVE  /\ Queued' \subseteq Queued \cup {NextLine}
         /\ queue' \in {queue, <<>>} \/ QueueLine
<1>1. Range(<<>>) = {}
  BY DEF Range
<1>2. CASE QueueLine
  <2>1. queue' = Append(queue, NextLine) /\ queue \in Seq(Request) /\ NextLine \in Request
    BY <1>2, NAssumption DEF QueueLine, ReadsLines, TypeOK, NextLine, Request
  <2>2. Range(Append(queue, NextLine)) = Range(queue) \cup {NextLine}
    BY <2>1, AppendRange
  <2> QED BY <1>2, <2>1, <2>2 DEF Queued
<1>3. CASE ~QueueLine
  <2>1. queue' \in {queue, <<>>}
    BY <1>3
    DEF Next, vars, ConnectLater, ConnectGivesUp, Connect, Closing, ClosedInShutdown, Closed, ClosedForGood,
        Opened, RefuseLine, SendLine, DropLine, DaemonAnswers, CheckTimeouts, ShutDownAtOnce, ShutDown,
        FinishShutdown, DaemonFileChanges, WindowPasses
  <2> QED BY <1>1, <2>1 DEF Queued
<1> QED BY <1>2, <1>3

LEMMA ReadyStep == TypeOK /\ Ready /\ [Next]_vars => Ready'
<1> SUFFICES ASSUME TypeOK, Ready, [Next]_vars PROVE Ready'
  OBVIOUS
<1> USE DEF TypeOK, Ready
<1>1. CASE UNCHANGED vars
  BY <1>1 DEF vars
<1>2. CASE ConnectLater \/ ConnectGivesUp \/ Connect \/ Closing \/ ClosedInShutdown \/ Closed \/ ClosedForGood
  BY <1>2 DEF ConnectLater, ConnectGivesUp, Connect, Closing, ClosedInShutdown, Closed, ClosedForGood, SocketGone
<1>3. CASE \E failed \in SUBSET Queued : Opened(failed)
  BY <1>3 DEF Opened
<1>4. CASE RefuseLine \/ (\E throws \in BOOLEAN : SendLine(throws)) \/ QueueLine \/ DropLine
  BY <1>4 DEF RefuseLine, SendLine, QueueLine, DropLine
<1>5. CASE (\E r \in wire : DaemonAnswers(r)) \/ \E expired \in SUBSET pending : CheckTimeouts(expired)
  BY <1>5 DEF DaemonAnswers, CheckTimeouts
<1>6. CASE \E closesStdin \in BOOLEAN : ShutDownAtOnce(closesStdin) \/ ShutDown(closesStdin)
  BY <1>6 DEF ShutDownAtOnce, ShutDown
<1>7. CASE FinishShutdown \/ DaemonFileChanges \/ WindowPasses
  BY <1>7 DEF FinishShutdown, DaemonFileChanges, WindowPasses
<1> QED BY <1>1, <1>2, <1>3, <1>4, <1>5, <1>6, <1>7 DEF Next

\* What was answered stays so, and what is answered was not before.
LEMMA AnswerIsFirst ==
  ASSUME TypeOK, Counted, Counted', NEW S \in SUBSET Request, answers' = Answered(S), NEW r \in Tracked
  PROVE  answers[r] = 1 \/ r \in S => answers'[r] = 1
<1>1. r \in Request /\ answers[r] \in {0, 1} /\ answers'[r] \in {0, 1}
  BY DEF Counted, Tracked
<1>2. answers'[r] = IF r \in S THEN answers[r] + 1 ELSE answers[r]
  BY <1>1 DEF Answered
<1> QED BY <1>1, <1>2

LEMMA HeardStep == IInv /\ IInv' /\ Heard /\ [Next]_vars => Heard'
<1> SUFFICES ASSUME IInv, IInv', Heard, [Next]_vars, NEW r \in Tracked, r <= lines'
             PROVE  answers'[r] = 1 \/ r \in pending' \/ r \in Queued'
  BY DEF Heard
<1>1. /\ TypeOK /\ Counted /\ Counted' /\ r \in Request /\ r \in Nat /\ lines \in Nat
      /\ Tracked \subseteq Request /\ Queued \subseteq Request /\ pending \subseteq Tracked /\ r \notin Batch
  BY Sets DEF IInv, TypeOK, Tracked, Request
<1>2. r <= lines => answers[r] = 1 \/ r \in pending \/ r \in Queued
  BY DEF Heard
<1>3. CASE UNCHANGED <<lines, answers, queue>> /\ pending \subseteq pending'
  BY <1>2, <1>3 DEF Queued
<1>4. ASSUME NEW S \in SUBSET Request, answers' = Answered(S), UNCHANGED lines,
             pending \subseteq pending' \cup S, Queued \subseteq Queued' \cup pending' \cup S \cup Batch
      PROVE  answers'[r] = 1 \/ r \in pending' \/ r \in Queued'
  <2>1. answers[r] = 1 \/ r \in S => answers'[r] = 1
    BY <1>1, <1>4, AnswerIsFirst
  <2> QED BY <1>1, <1>2, <1>4, <2>1
<1>5. ASSUME NEW failed \in SUBSET Queued, Opened(failed)
      PROVE  answers'[r] = 1 \/ r \in pending' \/ r \in Queued'
  BY <1>1, <1>4, <1>5 DEF Opened, Tracked
<1>6. CASE Closed \/ ClosedForGood \/ FinishShutdown
  <2>1. CASE Closed
    BY <1>1, <1>4, <2>1 DEF Closed, Queued
  <2>2. CASE ClosedForGood \/ FinishShutdown
    <3>1. Queued \subseteq (Queued \cap Tracked) \cup Batch
      BY <1>1 DEF Tracked
    <3> QED BY <1>1, <1>4, <2>2, <3>1 DEF ClosedForGood, FinishShutdown
  <2> QED BY <1>6, <2>1, <2>2
<1>7. ASSUME NEW q \in wire, DaemonAnswers(q)
      PROVE  answers'[r] = 1 \/ r \in pending' \/ r \in Queued'
  <2>1. {q} \cap (pending \cup Batch) \subseteq Request
    BY <1>1 DEF TypeOK
  <2>2. pending \subseteq pending' \cup ({q} \cap (pending \cup Batch))
    BY <1>7 DEF DaemonAnswers
  <2> QED BY <1>4, <1>7, <2>1, <2>2 DEF DaemonAnswers, Queued
<1>8. ASSUME NEW expired \in SUBSET pending, CheckTimeouts(expired)
      PROVE  answers'[r] = 1 \/ r \in pending' \/ r \in Queued'
  BY <1>1, <1>4, <1>8 DEF CheckTimeouts, Queued
<1>9. CASE RefuseLine \/ (\E throws \in BOOLEAN : SendLine(throws)) \/ QueueLine \/ DropLine
  <2>1. NextLine \in Request /\ lines' = NextLine /\ (r = NextLine \/ r <= lines)
    BY <1>1, <1>9, NAssumption
    DEF RefuseLine, SendLine, QueueLine, DropLine, ReadsLines, NextLine, Request, IInv, TypeOK
  <2>2. CASE RefuseLine
    BY <1>1, <1>2, <2>1, <2>2, AnswerIsFirst DEF RefuseLine, Queued
  <2>3. CASE DropLine
    BY <1>1, <1>2, <2>1, <2>3, AnswerIsFirst DEF DropLine, Queued
  <2>4. CASE QueueLine
    <3>1. queue \in Seq(Request) /\ queue' = Append(queue, NextLine) /\ UNCHANGED <<pending, answers>>
      BY <1>1, <2>4 DEF QueueLine, TypeOK
    <3>2. Range(Append(queue, NextLine)) = Range(queue) \cup {NextLine}
      BY <2>1, <3>1, AppendRange
    <3> QED BY <1>2, <2>1, <3>1, <3>2 DEF Queued
  <2>5. ASSUME NEW throws \in BOOLEAN, SendLine(throws)
        PROVE  answers'[r] = 1 \/ r \in pending' \/ r \in Queued'
    <3>1. UNCHANGED queue /\ (r = NextLine => r \in pending' \/ (throws /\ r \in {NextLine} \cap Tracked))
      BY <2>5 DEF SendLine
    <3>2. pending \subseteq pending'
      BY <2>5 DEF SendLine
    <3>3. CASE throws
      BY <1>1, <1>2, <2>1, <2>5, <3>1, <3>2, <3>3, AnswerIsFirst DEF SendLine, Queued
    <3>4. CASE ~throws
      BY <1>2, <2>1, <2>5, <3>1, <3>2, <3>4 DEF SendLine, Queued
    <3> QED BY <3>3, <3>4
  <2> QED BY <1>9, <2>2, <2>3, <2>4, <2>5
<1>10. CASE ConnectLater \/ ConnectGivesUp \/ Connect \/ Closing \/ ClosedInShutdown
  BY <1>3, <1>10 DEF ConnectLater, ConnectGivesUp, Connect, Closing, ClosedInShutdown
<1>11. CASE \E closesStdin \in BOOLEAN : ShutDownAtOnce(closesStdin) \/ ShutDown(closesStdin)
  BY <1>3, <1>11 DEF ShutDownAtOnce, ShutDown
<1>12. CASE DaemonFileChanges \/ WindowPasses \/ UNCHANGED vars
  BY <1>3, <1>12 DEF DaemonFileChanges, WindowPasses, vars
<1> QED BY <1>5, <1>6, <1>7, <1>8, <1>9, <1>10, <1>11, <1>12 DEF Next

LEMMA HeardAndReady == Spec => [](IInv /\ Heard /\ Ready)
<1>1. Init => Heard /\ Ready
  <2>1. \A r \in Tracked : r > 0 /\ r \in Nat
    BY DEF Tracked, Request
  <2> QED BY <2>1 DEF Init, Heard, Ready
<1>2. IInv => TypeOK
  BY DEF IInv
<1> QED BY <1>1, <1>2, HeardStep, ReadyStep, Invariance, PTL DEF Spec

Reconnects == ConnectLater \/ ConnectGivesUp \/ Connect

Settles == socket = "closing" /\ (Closed \/ ClosedForGood)

TimesOut(r) == \E expired \in SUBSET pending : r \in expired /\ CheckTimeouts(expired)

\* The fairness of FairSpec, with the guard of each action for what ENABLED says of it.
ProxyFairness(r) ==
  /\ \/ []<>~(running = "up" /\ retry /\ ~(daemonFile = "missing" /\ window = "within"))
     \/ []<><<Reconnects>>_vars
  /\ []<>~(running = "up" /\ socket = "closing") \/ []<><<Settles>>_vars
  /\ []<>~(running = "up" /\ checker /\ r \in pending) \/ []<><<TimesOut(r)>>_vars
  /\ []<>~(running = "stopping") \/ []<><<FinishShutdown>>_vars
  /\ []<>~(running # "exited" /\ window = "within") \/ []<><<WindowPasses>>_vars

Done(r) == answers[r] = 1 \/ running = "exited"
Stopping == running = "stopping"

\* Request r is queued behind a handshake.
Stuck(r) == socket = "connecting" /\ r \in Queued

InFlight(r) == running = "up" /\ r <= lines /\ r \in pending
Waits(r) == running = "up" /\ r <= lines /\ r \in Queued

\* Where a request goes from the queue.
Leaves(r) == Done(r) \/ Stopping \/ InFlight(r)

Idle(r) == Waits(r) /\ window = "unset" /\ socket = "none"
Tries(r) == Waits(r) /\ window = "unset" /\ socket # "none"
InTime(r) == Waits(r) /\ window = "within"
IdleLate(r) == Waits(r) /\ window = "past" /\ socket = "none"
TriesLate(r) == Waits(r) /\ window = "past" /\ socket # "none"

World == IInv /\ IInv' /\ Heard /\ Heard' /\ Ready /\ [Next]_vars

LEMMA LinesGrow == TypeOK /\ [Next]_vars => lines' = lines \/ lines' = lines + 1
BY DEF Next, vars, ConnectLater, ConnectGivesUp, Connect, Closing, ClosedInShutdown, Closed, ClosedForGood,
       Opened, RefuseLine, SendLine, QueueLine, DropLine, DaemonAnswers, CheckTimeouts, ShutDownAtOnce,
       ShutDown, FinishShutdown, DaemonFileChanges, WindowPasses, NextLine

\* A request that was read stays somewhere, until it is answered or the proxy shuts down.
LEMMA SomewhereOrDone ==
  ASSUME World, NEW r \in Tracked, r <= lines, running = "up"
  PROVE  Done(r)' \/ Stopping' \/ InFlight(r)' \/ Waits(r)'
<1>1. r <= lines'
  BY LinesGrow DEF World, IInv, TypeOK, Tracked, Request
<1>2. running' \in {"up", "stopping", "exited"}
  BY DEF World, IInv, TypeOK
<1> QED BY <1>1, <1>2 DEF World, Heard, Done, Stopping, InFlight, Waits

\* A shutdown ends.
LEMMA StoppingStep ==
  ASSUME World, Stopping
  PROVE  /\ Stopping' \/ running' = "exited"
         /\ FinishShutdown => running' = "exited"
BY DEF World, IInv, TypeOK, Stopping, Next, vars, ConnectLater, ConnectGivesUp, Connect, Closing,
       ClosedInShutdown, Closed, ClosedForGood, Opened, RefuseLine, SendLine, QueueLine, DropLine,
       DaemonAnswers, CheckTimeouts, ShutDownAtOnce, ShutDown, FinishShutdown, DaemonFileChanges, WindowPasses

\* A request in flight is not queued again, and the checker answers it.
LEMMA InFlightStep ==
  ASSUME World, NEW r \in Tracked, InFlight(r)
  PROVE  /\ InFlight(r)' \/ Done(r)' \/ Stopping'
         /\ TimesOut(r) => Done(r)'
         /\ running = "up" /\ checker /\ r \in pending
<1>1. r \in Nat /\ lines \in Nat /\ r # NextLine
  BY DEF World, IInv, TypeOK, Tracked, Request, InFlight, NextLine
<1>2. r \notin Queued'
  BY <1>1, QueueStep DEF World, IInv, Counted, InFlight
<1>3. InFlight(r)' \/ Done(r)' \/ Stopping'
  BY <1>2, SomewhereOrDone DEF InFlight, Waits
<1>4. ASSUME TimesOut(r) PROVE Done(r)'
  <2>1. PICK expired \in SUBSET pending : r \in expired /\ CheckTimeouts(expired)
    BY <1>4 DEF TimesOut
  <2>2. expired \in SUBSET Request /\ answers' = Answered(expired)
    BY <2>1 DEF CheckTimeouts, World, IInv, TypeOK, Tracked
  <2> QED BY <2>1, <2>2, AnswerIsFirst DEF World, IInv, Done
<1>5. checker
  BY DEF World, IInv, TypeOK, Connected, Ready, InFlight
<1> QED BY <1>3, <1>4, <1>5 DEF InFlight

\* Where the socket and the window go while a request stays queued.
LEMMA WaitsStep ==
  ASSUME World, NEW r \in Tracked, Waits(r), ~Leaves(r)'
  PROVE  /\ Waits(r)'
         /\ socket # "open" /\ (socket = "none" => retry)
         /\ window = "within" => window' \in {"within", "past"}
         /\ window = "past" => window' = "past"
         /\ window = "unset" => window' \in {"unset", "within"}
         /\ WindowPasses => window' = "past"
         /\ window # "within" /\ window' # "within" =>
              /\ socket # "none" => socket' = socket /\ ~<<Settles>>_vars
              /\ socket = "none" => socket' \in {"none", "connecting"}
              /\ socket = "none" /\ <<Reconnects>>_vars => socket' = "connecting"
<1> USE DEF World, IInv
<1>1. Waits(r)' /\ running' = "up" /\ running = "up"
  BY SomewhereOrDone DEF Leaves, Waits
<1>2. queue # <<>> /\ queue' # <<>>
  <2>1. Range(<<>>) = {}
    BY DEF Range
  <2> QED BY <1>1, <2>1 DEF Waits, Queued
<1>3. socket # "open" /\ (socket = "none" => retry)
  BY <1>2 DEF InOrder, Ready, Waits
<1>4. /\ ~\E failed \in SUBSET Queued : Opened(failed)
      /\ ~ClosedForGood /\ ~ConnectGivesUp /\ ~FinishShutdown /\ ~ClosedInShutdown /\ ~Closing
      /\ ~\E closesStdin \in BOOLEAN : ShutDownAtOnce(closesStdin) \/ ShutDown(closesStdin)
  BY <1>1, <1>2, <1>3
  DEF Opened, ClosedForGood, ConnectGivesUp, FinishShutdown, ClosedInShutdown, Closing, ShutDownAtOnce, ShutDown
<1>5. window \in {"unset", "within", "past"} /\ socket \in {"none", "connecting", "open", "closing"}
  BY DEF TypeOK
<1>6. Settles => Closed
  BY <1>4 DEF Settles
<1>7. CASE Closed
  <2>1. window # "past" /\ window' = "within"
    BY <1>7 DEF Closed, MayRetry
  <2>2. ~WindowPasses
    BY <1>7, <2>1, <1>5 DEF WindowPasses, Closed, SocketGone
  <2> QED BY <1>1, <1>3, <2>1, <2>2
<1>8. CASE ConnectLater
  <2>1. window # "past" /\ window' = "within" /\ ~WindowPasses
    BY <1>8 DEF ConnectLater, MayRetry, WindowPasses
  <2> QED BY <1>1, <1>3, <2>1
<1>9. CASE Connect
  <2>1. window' = window /\ socket = "none" /\ socket' = "connecting"
    BY <1>9 DEF Connect, Connected
  <2>2. ~WindowPasses
    BY <2>1 DEF WindowPasses
  <2> QED BY <1>1, <1>3, <1>5, <2>1, <2>2
<1>10. CASE WindowPasses
  <2>1. window = "within" /\ window' = "past"
    BY <1>10 DEF WindowPasses
  <2> QED BY <1>1, <1>3, <2>1
<1>11. CASE ~(Closed \/ ConnectLater \/ Connect \/ WindowPasses)
  <2>1. window' = window /\ socket' = socket
    BY <1>4, <1>11
    DEF Next, vars, RefuseLine, SendLine, QueueLine, DropLine, DaemonAnswers, CheckTimeouts, DaemonFileChanges
  <2>2. ~Reconnects
    BY <1>4, <1>11 DEF Reconnects
  <2> QED BY <1>1, <1>3, <1>5, <1>6, <1>11, <2>1, <2>2
<1> QED BY <1>7, <1>8, <1>9, <1>10, <1>11

\* Every request that was read gets an answer, unless the proxy ends or the request stays queued
\* behind one handshake for ever: the checker, the close handler and gracefulShutdown answer what is
\* in flight, and a queue that nobody comes for is answered when the five minutes are over.
THEOREM NoRequestHangs == Spec /\ (\A r \in Tracked : ProxyFairness(r)) => RequestsEnd
<1>1. ASSUME NEW r \in Tracked
      PROVE  Spec /\ ProxyFairness(r) /\ []<>~Stuck(r) => (lines >= r ~> Done(r))
  <2> DEFINE Always == []IInv /\ []Heard /\ []Ready /\ [][Next]_vars
             NotYet == ~Leaves(r)
  <2>1. World /\ Stopping => (Stopping' \/ Done(r)') /\ (<<FinishShutdown>>_vars => Done(r)' /\ ~Stopping')
    BY StoppingStep DEF Done, Stopping
  <2>2. World /\ InFlight(r) => /\ InFlight(r)' \/ Done(r)' \/ Stopping'
                                /\ <<TimesOut(r)>>_vars => Done(r)'
                                /\ running = "up" /\ checker /\ r \in pending
    BY InFlightStep
  <2>3. World /\ Idle(r) /\ NotYet' =>
          /\ Idle(r)' \/ Tries(r)' \/ InTime(r)'
          /\ <<Reconnects>>_vars => ~Idle(r)'
          /\ running = "up" /\ retry /\ ~(daemonFile = "missing" /\ window = "within")
    BY WaitsStep DEF Idle, Tries, InTime, Waits
  <2>4. World /\ Tries(r) /\ NotYet' =>
          /\ Tries(r)' \/ InTime(r)'
          /\ Tries(r)' => (Stuck(r)' <=> Stuck(r))
          /\ <<Settles>>_vars => ~Tries(r)'
          /\ Stuck(r) \/ (running = "up" /\ socket = "closing")
    BY WaitsStep DEF Tries, InTime, Waits, Stuck, World, IInv, TypeOK
  <2>5. World /\ InTime(r) /\ NotYet' =>
          /\ InTime(r)' \/ IdleLate(r)' \/ TriesLate(r)'
          /\ <<WindowPasses>>_vars => ~InTime(r)'
          /\ running # "exited" /\ window = "within"
    BY WaitsStep DEF InTime, IdleLate, TriesLate, Waits
  <2>6. World /\ IdleLate(r) /\ NotYet' =>
          /\ IdleLate(r)' \/ TriesLate(r)'
          /\ <<Reconnects>>_vars => ~IdleLate(r)'
          /\ running = "up" /\ retry /\ ~(daemonFile = "missing" /\ window = "within")
    BY WaitsStep DEF IdleLate, TriesLate, Waits
  <2>7. World /\ TriesLate(r) /\ NotYet' =>
          /\ TriesLate(r)' /\ (Stuck(r)' <=> Stuck(r)) /\ ~<<Settles>>_vars
          /\ Stuck(r) \/ (running = "up" /\ socket = "closing")
    BY WaitsStep DEF TriesLate, Waits, Stuck, World, IInv, TypeOK
  <2>8. IInv /\ Heard /\ lines >= r =>
          Leaves(r) \/ Idle(r) \/ Tries(r) \/ InTime(r) \/ IdleLate(r) \/ TriesLate(r)
    BY DEF IInv, TypeOK, Heard, Leaves, Done, Stopping, InFlight, Waits, Idle, Tries, InTime, IdleLate,
           TriesLate, Tracked, Request
  <2>9. Leaves(r) <=> Done(r) \/ Stopping \/ InFlight(r)
    BY DEF Leaves
  <2>10. World <=> IInv /\ IInv' /\ Heard /\ Heard' /\ Ready /\ [Next]_vars
    BY DEF World
  <2>11. Stopping <=> running = "stopping"
    BY DEF Stopping
  <2> HIDE DEF NotYet
  <2>12. NotYet <=> ~Leaves(r)
    BY DEF NotYet
  <2>13. Always /\ ProxyFairness(r) => (Stopping ~> Done(r))
    BY <2>1, <2>10, <2>11, PTL DEF ProxyFairness
  <2>14. Always /\ ProxyFairness(r) => (InFlight(r) ~> Done(r) \/ Stopping)
    BY <2>2, <2>10, PTL DEF ProxyFairness
  <2>15. Always /\ ProxyFairness(r) /\ []<>~Stuck(r) => (TriesLate(r) ~> Leaves(r))
    BY <2>7, <2>10, <2>12, PTL DEF ProxyFairness
  <2>16. Always /\ ProxyFairness(r) => (IdleLate(r) ~> TriesLate(r) \/ Leaves(r))
    BY <2>6, <2>10, <2>12, PTL DEF ProxyFairness
  <2>17. Always /\ ProxyFairness(r) => (InTime(r) ~> IdleLate(r) \/ TriesLate(r) \/ Leaves(r))
    BY <2>5, <2>10, <2>12, PTL DEF ProxyFairness
  <2>18. Always /\ ProxyFairness(r) /\ []<>~Stuck(r) => (Tries(r) ~> InTime(r) \/ Leaves(r))
    BY <2>4, <2>10, <2>12, PTL DEF ProxyFairness
  <2>19. Always /\ ProxyFairness(r) => (Idle(r) ~> Tries(r) \/ InTime(r) \/ Leaves(r))
    BY <2>3, <2>10, <2>12, PTL DEF ProxyFairness
  <2>20. Always /\ ProxyFairness(r) => (Leaves(r) ~> Done(r))
    BY <2>9, <2>13, <2>14, PTL
  <2>21. Always /\ ProxyFairness(r) /\ []<>~Stuck(r) => (lines >= r ~> Leaves(r))
    BY <2>8, <2>15, <2>16, <2>17, <2>18, <2>19, PTL
  <2>22. Spec => Always
    BY HeardAndReady, PTL DEF Spec
  <2> QED BY <2>20, <2>21, <2>22, PTL
<1>2. ASSUME NEW r \in Tracked
      PROVE  /\ (lines >= r ~> Done(r)) => (lines >= r ~> (answers[r] = 1 \/ running = "exited"))
             /\ []<>~(socket = "connecting" /\ r \in Queued) => []<>~Stuck(r)
  <2>1. /\ Done(r) <=> answers[r] = 1 \/ running = "exited"
        /\ Stuck(r) <=> socket = "connecting" /\ r \in Queued
    BY DEF Done, Stuck
  <2> QED BY <2>1, PTL
<1> QED BY <1>1, <1>2 DEF RequestsEnd


============================================================================
