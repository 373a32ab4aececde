----------------------------- MODULE ChatProofs -----------------------------
(***************************************************************************)
(* Proofs about Chat, for any channels, messages, limits and calls: a      *)
(* session that is not finished is the one that a cancellation finds, a    *)
(* cursor strands nothing, and nothing that is announced is slept through. *)
(*                                                                         *)
(* A cursor may go back, since a delivery and a read write it after an     *)
(* await, so it is not compared with the cursor before.  What is kept of   *)
(* every number that is a cursor, or may become one (the cursors a drain   *)
(* began with, the messages in a session's hands, the last of a page) is   *)
(* that the messages of others up to it, in its channel, are had (Behind). *)
(* That lasts because nothing comes to lie behind a message that is        *)
(* written: a channel's messages are written in the order of their         *)
(* numbers (InTurn), and a file holds them in that order (Filed).          *)
(*                                                                         *)
(* A session sleeps through nothing because a drain has read, or is going  *)
(* to read, whatever is outstanding and counted (Finds): what comes        *)
(* meanwhile is buffered, and keeps the session from parking.              *)
(***************************************************************************)
EXTENDS Chat, SequenceTheorems, FiniteSetTheorems, TLAPS

Increasing(s) == \A p, q \in DOMAIN s : p < q => s[p] < s[q]

\* Message i has reached the file of its channel.
Written(i) == i \in Sent /\ post[i].at # "sent"

\* What the worker got, or was not shown by a read without a cursor.
Had == delivered \cup skipped

\* The messages of others that a cursor at m has passed.
Behind(m) ==
  {i \in Sent : Readable(i) /\ post[i].chan = post[m].chan /\ i <= m /\ post[i].kind # "own"}

\* There are N messages at most.
Numbered == Len(post) <= N

\* A file holds written messages of its channel, in the order of their numbers.
Filed ==
  \A c \in Chan :
    /\ Increasing(log[c])
    /\ \A i \in ToSet(log[c]) : Written(i) /\ post[i].chan = c

\* The messages of a channel are written in the order in which they were sent.
InTurn ==
  \A i, j \in Sent :
    i < j /\ post[i].chan = post[j].chan /\ post[j].at # "sent" => post[i].at # "sent"

\* Number m, if it is a cursor of c, is a message of c that has passed nothing.
Marks(c, m) == m # 0 => Written(m) /\ post[m].chan = c /\ Behind(m) \subseteq Had

\* The worker's cursor of c, and those with which a drain of c began.
Marked(c) == {cursor[c]} \cup {wait[k].base[c] : k \in Wait}

CursorsMark == \A c \in Chan : \A m \in Marked(c) : Marks(c, m)

\* A session has read whatever a cursor on one of its messages would pass, and a delivery under way
\* delivers it.
SessionsClear ==
  \A k \in Wait :
    /\ \A m \in wait[k].got : Written(m) /\ Behind(m) \subseteq Had \cup wait[k].got
    /\ \A m \in wait[k].moves : Written(m) /\ Behind(m) \subseteq Had

\* The cursor that a read is about to set passes nothing.
ReadClears == reading # <<>> => \A m \in {Last(reading)} : Written(m) /\ Behind(m) \subseteq Had

\* A parked session has nothing in its hands.
Parks ==
  \A k \in Wait : wait[k].at = "parked" =>
    wait[k].got = {} /\ wait[k].todo = {} /\ wait[k].buffered = {}

\* The outstanding messages that should not let session k sleep.
Unheard(k) ==
  {i \in Sent : /\ Outstanding(i) /\ Relevant(k, i)
                /\ post[i].chan \notin wait[k].full
                /\ wait[k].channels = {} => post[i].chan \in unread}

\* A drain that was not disturbed has found them, or is going to.
Finds ==
  \A k \in Wait : wait[k].at \in {"draining", "parked"} /\ wait[k].buffered = {} =>
    \A i \in Unheard(k) : i \in wait[k].got \/ post[i].chan \in wait[k].todo

IInv ==
  /\ TypeOK /\ Numbered /\ WaiterIsFound
  /\ Filed /\ InTurn
  /\ CursorsMark /\ SessionsClear /\ ReadClears
  /\ Parks /\ Finds

----------------------------------------------------------------------------
(* Sets of numbers and sequences of messages. *)

\* A set of message numbers has a greatest one.
LEMMA MaxIsIn ==
  ASSUME NEW n \in Nat, NEW S \in SUBSET (1 .. n), S # {}
  PROVE  Max(S) \in S
<1> DEFINE Above(x) == {y \in S : y > x}
           R == StrictSubsetOrdering(S)
           T == {Above(x) : x \in S}
<1>1. IsFiniteSet(S) /\ \A x \in S : IsFiniteSet(Above(x))
  <2>1. IsFiniteSet(1 .. n)
    BY FS_Interval
  <2>2. IsFiniteSet(S)
    BY <2>1, FS_Subset
  <2>3. ASSUME NEW x \in S PROVE Above(x) \in SUBSET S
    OBVIOUS
  <2> HIDE DEF Above
  <2> QED BY <2>2, <2>3, FS_Subset
<1>2. T \subseteq FiniteSubsetsOf(S) /\ T # {}
  BY <1>1 DEF FiniteSubsetsOf
<1>3. PICK t \in T : \A u \in T : ~ (<<u, t>> \in R)
  <2>1. IsWellFoundedOn(R, FiniteSubsetsOf(S))
    BY FS_StrictSubsetOrderingWellFounded
  <2> HIDE DEF R, T
  <2> QED BY <1>2, <2>1, WFMin
<1>4. PICK m \in S : t = Above(m)
  OBVIOUS
<1>5. \A y \in S : m >= y
  <2> SUFFICES ASSUME NEW y \in S, y > m PROVE FALSE
    OBVIOUS
  <2>1. Above(y) \subseteq Above(m) /\ y \in Above(m) /\ y \notin Above(y)
    <3>1. \A z \in S : z \in Nat
      OBVIOUS
    <3>2. \A z \in S : z > y => z > m
      BY <3>1
    <3>3. ~ (y > y)
      BY <3>1
    <3> QED BY <3>2, <3>3
  <2>2. <<Above(y), Above(m)>> \in R
    <3>1. Above(y) \in SUBSET S /\ Above(m) \in SUBSET S /\ Above(y) # Above(m)
      BY <2>1
    <3> HIDE DEF Above
    <3> QED BY <2>1, <3>1 DEF StrictSubsetOrdering
  <2> QED BY <1>3, <1>4, <2>2
<1> QED BY <1>5 DEF Max

\* The elements of a sequence that is appended to.
LEMMA Appending ==
  ASSUME NEW S, NEW s \in Seq(S), NEW x \in S
  PROVE  /\ Append(s, x) \in Seq(S)
         /\ DOMAIN Append(s, x) = 1 .. Len(s) + 1
         /\ \A p \in DOMAIN s : Append(s, x)[p] = s[p]
         /\ Append(s, x)[Len(s) + 1] = x
         /\ ToSet(Append(s, x)) = ToSet(s) \cup {x}
<1>1. /\ Append(s, x) \in Seq(S) /\ Len(Append(s, x)) = Len(s) + 1
      /\ \A p \in 1 .. Len(s) : Append(s, x)[p] = s[p]
      /\ Append(s, x)[Len(s) + 1] = x
  BY AppendProperties
<1>2. DOMAIN s = 1 .. Len(s) /\ DOMAIN Append(s, x) = 1 .. Len(s) + 1 /\ Len(s) \in Nat
  BY <1>1, LenProperties
<1>3. ToSet(Append(s, x)) = ToSet(s) \cup {x}
  <2>1. 1 .. Len(s) + 1 = (1 .. Len(s)) \cup {Len(s) + 1}
    BY <1>2
  <2> QED BY <1>1, <1>2, <2>1 DEF ToSet
<1> QED BY <1>1, <1>2, <1>3

\* A piece of an increasing sequence holds exactly what lies between its ends.
LEMMA Piece ==
  ASSUME NEW s \in Seq(Nat), Increasing(s), NEW a \in Nat \ {0}, NEW b \in Nat, b <= Len(s)
  PROVE  LET t == SubSeq(s, a, b) IN
         /\ t \in Seq(ToSet(s))
         /\ ToSet(t) = {s[p] : p \in a .. b}
         /\ Len(t) = IF a <= b THEN b - a + 1 ELSE 0
<1> DEFINE t == SubSeq(s, a, b)
<1>1. Len(s) \in Nat /\ DOMAIN s = 1 .. Len(s)
  BY LenProperties
<1>2. \A p \in a .. b : s[p] \in ToSet(s)
  BY <1>1 DEF ToSet
<1>3. /\ t \in Seq(ToSet(s)) /\ Len(t) = IF a <= b THEN b - a + 1 ELSE 0
      /\ \A p \in 1 .. b - a + 1 : t[p] = s[a + p - 1]
  BY <1>2, SubSeqProperties
<1>4. DOMAIN t = 1 .. Len(t)
  BY <1>3, LenProperties
<1>5. ToSet(t) = {s[p] : p \in a .. b}
  <2>1. ASSUME NEW x \in ToSet(t) PROVE x \in {s[p] : p \in a .. b}
    <3>1. PICK p \in 1 .. Len(t) : x = t[p]
      BY <1>4 DEF ToSet
    <3>2. a <= b /\ p \in 1 .. b - a + 1
      BY <1>3, <3>1
    <3>3. a + p - 1 \in a .. b /\ x = s[a + p - 1]
      BY <1>3, <3>1, <3>2
    <3> QED BY <3>3
  <2>2. ASSUME NEW p \in a .. b PROVE s[p] \in ToSet(t)
    <3>1. p - a + 1 \in 1 .. b - a + 1 /\ a + (p - a + 1) - 1 = p /\ Len(t) = b - a + 1
      BY <1>3
    <3>2. t[p - a + 1] = s[p] /\ p - a + 1 \in DOMAIN t
      BY <1>3, <1>4, <3>1
    <3> QED BY <3>2 DEF ToSet
  <2> QED BY <2>1, <2>2
<1> QED BY <1>3, <1>5

\* In an increasing sequence, places are ordered like what is there.
LEMMA Places ==
  ASSUME NEW s \in Seq(Nat), Increasing(s), NEW p \in DOMAIN s, NEW q \in DOMAIN s
  PROVE  /\ p \in Nat /\ q \in Nat /\ s[p] \in Nat /\ s[q] \in Nat
         /\ p <= q <=> s[p] <= s[q]
<1>1. DOMAIN s = 1 .. Len(s) /\ Len(s) \in Nat
  BY LenProperties
<1>2. p \in Nat /\ q \in Nat /\ s[p] \in Nat /\ s[q] \in Nat
  BY <1>1, ElementOfSeq
<1>3. (p < q => s[p] < s[q]) /\ (q < p => s[q] < s[p])
  BY DEF Increasing
<1>4. p < q \/ p = q \/ q < p
  BY <1>2
<1> QED BY <1>2, <1>3, <1>4

\* What a page says of a message of the file: it is on the page, or left out by a first read, or not
\* after the cursor, or after all of the page, which then is full.
LEMMA PageFacts ==
  ASSUME NEW c, NEW since, NEW limit \in Nat \ {0}, log[c] \in Seq(Nat), Increasing(log[c])
  PROVE  LET page == Page(c, since, limit)
             Known(i) == \/ i \in ToSet(page) \cup LeftOut(c, since, page)
                         \/ since \in ToSet(log[c]) /\ i <= since
         IN /\ page \in Seq(ToSet(log[c])) /\ ToSet(page) \subseteq ToSet(log[c])
            /\ page # <<>> => Last(page) \in ToSet(page)
            /\ \A m \in ToSet(page), i \in ToSet(log[c]) : i <= m => Known(i)
            /\ \A i \in ToSet(log[c]) : Len(page) >= limit \/ Known(i)
<1> DEFINE file == log[c]
           page == Page(c, since, limit)
           Known(i) == \/ i \in ToSet(page) \cup LeftOut(c, since, page)
                       \/ since \in ToSet(file) /\ i <= since
<1>0. DOMAIN file = 1 .. Len(file) /\ Len(file) \in Nat
  BY LenProperties
<1>1. CASE since \in ToSet(file)
  <2> DEFINE p == Place(c, since)
             b == Lesser(p + limit, Len(file))
  <2>1. p \in DOMAIN file /\ file[p] = since
    <3>1. \E q \in DOMAIN file : file[q] = since
      BY <1>1 DEF ToSet
    <3> QED BY <3>1 DEF Place
  <2>2. p \in Nat /\ b \in Nat /\ b <= Len(file) /\ (b = Len(file) \/ b = p + limit)
    BY <1>0, <2>1 DEF Lesser
  <2>3. page = SubSeq(file, p + 1, b)
    BY <1>1 DEF Page
  <2>4. /\ page \in Seq(ToSet(file))
        /\ ToSet(page) = {file[q] : q \in p + 1 .. b}
        /\ Len(page) = IF p + 1 <= b THEN b - (p + 1) + 1 ELSE 0
    <3> HIDE DEF p, b, page
    <3>1. p + 1 \in Nat \ {0} /\ b \in Nat /\ b <= Len(log[c])
      BY <2>2
    <3>2. LET t == SubSeq(log[c], p + 1, b) IN
          /\ t \in Seq(ToSet(log[c])) /\ ToSet(t) = {log[c][q] : q \in p + 1 .. b}
          /\ Len(t) = IF p + 1 <= b THEN b - (p + 1) + 1 ELSE 0
      BY <3>1, Piece
    <3> QED BY <2>3, <3>2
  <2> HIDE DEF p, b, page
  <2>5. ASSUME NEW q \in DOMAIN file, q <= b PROVE Known(file[q])
    <3>1. CASE q <= p
      <4>1. file[q] <= since
        BY <2>1, <3>1, Places
      <4> QED BY <1>1, <4>1
    <3>2. CASE ~ (q <= p)
      <4>1. q \in p + 1 .. b
        BY <1>0, <2>2, <2>5, <3>2
      <4> QED BY <2>4, <4>1
    <3> QED BY <3>1, <3>2
  <2>6. ASSUME NEW m \in ToSet(page), NEW i \in ToSet(file), i <= m PROVE Known(i)
    <3>1. PICK r \in p + 1 .. b : m = file[r]
      BY <2>4
    <3>2. PICK q \in DOMAIN file : i = file[q]
      BY DEF ToSet
    <3>3. r \in DOMAIN file
      BY <1>0, <2>2, <3>1
    <3>4. q <= r
      BY <2>6, <3>1, <3>2, <3>3, Places
    <3>5. q <= b
      BY <1>0, <2>2, <3>1, <3>3, <3>4
    <3> QED BY <2>5, <3>2, <3>5
  <2>7. ASSUME NEW i \in ToSet(file) PROVE Len(page) >= limit \/ Known(i)
    <3>1. PICK q \in DOMAIN file : i = file[q]
      BY DEF ToSet
    <3>2. CASE q <= b
      BY <2>5, <3>1, <3>2
    <3>3. CASE ~ (q <= b)
      <4>1. b = p + limit
        BY <1>0, <2>2, <3>3
      <4> QED BY <2>2, <2>4, <4>1
    <3> QED BY <3>2, <3>3
  <2>8. ToSet(page) \subseteq ToSet(file)
    <3>1. p + 1 .. b \subseteq DOMAIN file
      BY <1>0, <2>2
    <3> QED BY <2>4, <3>1 DEF ToSet
  <2> HIDE DEF Known
  <2>9. page \in Seq(ToSet(file)) /\ ToSet(page) \subseteq ToSet(file)
    BY <2>4, <2>8
  <2>10. page # <<>> => Last(page) \in ToSet(page)
    <3> SUFFICES ASSUME page # <<>> PROVE Last(page) \in ToSet(page)
      OBVIOUS
    <3>1. Len(page) \in Nat \ {0} /\ DOMAIN page = 1 .. Len(page)
      BY <2>9, EmptySeq, LenProperties
    <3> QED BY <3>1 DEF Last, ToSet
  <2> QED BY <2>6, <2>7, <2>9, <2>10 DEF Known, page
<1>2. CASE since \notin ToSet(file)
  <2> DEFINE n == Lesser(limit, Len(file))
             a == Len(file) - n + 1
  <2>1. n \in Nat /\ n <= Len(file) /\ a \in Nat \ {0}
    BY <1>0 DEF Lesser
  <2>2. page = SubSeq(file, a, Len(file))
    BY <1>2 DEF Page
  <2>3. page \in Seq(ToSet(file)) /\ ToSet(page) = {file[q] : q \in a .. Len(file)}
    <3> HIDE DEF a, n, page
    <3>1. LET t == SubSeq(log[c], a, Len(log[c])) IN
          t \in Seq(ToSet(log[c])) /\ ToSet(t) = {log[c][q] : q \in a .. Len(log[c])}
      <4>1. Len(log[c]) \in Nat /\ Len(log[c]) <= Len(log[c]) /\ a \in Nat \ {0}
        BY <1>0, <2>1
      <4> QED BY <4>1, Piece
    <3> QED BY <2>2, <3>1
  <2> HIDE DEF a, n, page
  <2>4. ToSet(page) \subseteq ToSet(file)
    BY <1>0, <2>1, <2>3 DEF ToSet
  <2>5. \A i \in ToSet(file) : Known(i)
    BY <1>2 DEF LeftOut
  <2>6. page # <<>> => Last(page) \in ToSet(page)
    <3> SUFFICES ASSUME page # <<>> PROVE Last(page) \in ToSet(page)
      OBVIOUS
    <3>1. Len(page) \in Nat \ {0} /\ DOMAIN page = 1 .. Len(page)
      BY <2>3, EmptySeq, LenProperties
    <3> QED BY <3>1 DEF Last, ToSet
  <2> QED BY <2>3, <2>4, <2>5, <2>6 DEF page
<1> QED BY <1>1, <1>2

\* A sequence over a set is one over a larger set.
LEMMA WiderSeq ==
  ASSUME NEW S, NEW T, S \subseteq T, NEW s \in Seq(S)
  PROVE  s \in Seq(T)
<1>1. Len(s) \in Nat /\ s \in [1 .. Len(s) -> S] /\ DOMAIN s = 1 .. Len(s)
  BY LenProperties
<1>2. s \in [1 .. Len(s) -> T]
  BY <1>1
<1> QED BY <1>1, <1>2

----------------------------------------------------------------------------
(* Messages. *)

\* Messages are numbered from 1.
LEMMA Numbers ==
  ASSUME IInv
  PROVE  /\ Len(post) \in Nat /\ Sent = 1 .. Len(post) /\ Sent \subseteq 1 .. N
         /\ N \in Nat /\ Len(post) <= N
         /\ \A i \in Sent : post[i] \in Post
<1>1. post \in Seq(Post) /\ Len(post) <= N /\ N \in Nat
  BY LimitsAssumption DEF IInv, TypeOK, Numbered
<1>2. Len(post) \in Nat /\ DOMAIN post = 1 .. Len(post)
  BY <1>1, LenProperties
<1>3. \A i \in DOMAIN post : post[i] \in Post
  BY <1>1, <1>2, ElementOfSeq
<1> QED BY <1>1, <1>2, <1>3 DEF Sent

\* A message that is sent comes after all others.
LEMMA Sending ==
  ASSUME IInv, NEW c \in Chan, NEW kind \in Kinds, Send(c, kind)
  PROVE  /\ post' \in Seq(Post) /\ Len(post') <= N
         /\ Sent' = Sent \cup {Len(post) + 1}
         /\ \A i \in Sent : post'[i] = post[i] /\ i < Len(post) + 1
         /\ Len(post) + 1 \notin Sent
         /\ post'[Len(post) + 1] = [chan |-> c, kind |-> kind, at |-> "sent"]
<1> DEFINE e == [chan |-> c, kind |-> kind, at |-> "sent"]
<1>1. post \in Seq(Post) /\ e \in Post /\ post' = Append(post, e) /\ Len(post) < N
  BY KindsAssumption DEF IInv, TypeOK, Post, Send
<1>2. Len(post) \in Nat /\ Sent = 1 .. Len(post) /\ N \in Nat
  BY Numbers
<1>3. /\ post' \in Seq(Post) /\ DOMAIN post' = 1 .. Len(post) + 1
      /\ \A i \in DOMAIN post : post'[i] = post[i]
      /\ post'[Len(post) + 1] = e
  <2> HIDE DEF e
  <2> QED BY <1>1, Appending
<1>4. Len(post') = Len(post) + 1
  <2> HIDE DEF e
  <2> QED BY <1>1, AppendProperties
<1>5. Sent' = Sent \cup {Len(post) + 1} /\ Len(post) + 1 \notin Sent
  BY <1>2, <1>3 DEF Sent
<1>6. \A i \in Sent : post'[i] = post[i] /\ i < Len(post) + 1
  BY <1>2, <1>3 DEF Sent
<1> QED BY <1>1, <1>2, <1>3, <1>4, <1>5, <1>6

\* A message that comes further is the same message.
LEMMA Proceeding ==
  ASSUME IInv, NEW i \in Sent, NEW at \in {"written", "announced"}, post' = [post EXCEPT ![i].at = at]
  PROVE  /\ post' \in Seq(Post) /\ Len(post') <= N /\ Sent' = Sent
         /\ \A j \in Sent : post'[j].chan = post[j].chan /\ post'[j].kind = post[j].kind
         /\ \A j \in Sent \ {i} : post'[j] = post[j]
         /\ post'[i].at = at
<1>1. Len(post) \in Nat /\ Sent = 1 .. Len(post) /\ post \in Seq(Post) /\ Len(post) <= N
  BY Numbers DEF IInv, TypeOK
<1>2. \A j \in Sent : post[j] \in Post
  BY Numbers
<1>3. [post[i] EXCEPT !.at = at] \in Post
  BY <1>2 DEF Post
<1>4. post' = [post EXCEPT ![i] = [post[i] EXCEPT !.at = at]]
  BY <1>1
<1>5. post' \in Seq(Post) /\ Len(post') = Len(post)
  BY <1>1, <1>3, <1>4, ExceptSeq
<1>6. Sent' = Sent
  BY <1>4 DEF Sent
<1>7. \A j \in Sent \ {i} : post'[j] = post[j]
  BY <1>4 DEF Sent
<1>8. post'[i] = [post[i] EXCEPT !.at = at]
  BY <1>4 DEF Sent
<1>9. post'[i].chan = post[i].chan /\ post'[i].kind = post[i].kind /\ post'[i].at = at
  BY <1>2, <1>8 DEF Post
<1> QED BY <1>1, <1>5, <1>6, <1>7, <1>9

\* Only sendMessage changes messages.
LEMMA Untouched ==
  ASSUME [Next]_vars
  PROVE  \/ post' = post
         \/ \E c \in Chan, kind \in Kinds : Send(c, kind)
         \/ \E i \in Sent : Write(i) \/ Announce(i)
BY DEF Next, vars, Messages, Start, Park, Settle, Advance, Resolve, End, Scan, Read, Delete, FinishRead

\* Messages do not change but for how far they have come, which never goes back.
LEMMA Lasting ==
  ASSUME IInv, [Next]_vars
  PROVE  /\ Sent \subseteq Sent' /\ Sent' \subseteq 1 .. N
         /\ \A i \in Sent : post'[i].chan = post[i].chan /\ post'[i].kind = post[i].kind
         /\ \A i \in Sent : post[i].at # "sent" => post'[i].at # "sent"
         /\ \A i \in Sent : post[i].at = "announced" => post'[i].at = "announced"
         /\ post' \in Seq(Post) /\ Len(post') <= N
<1>0. /\ Sent = 1 .. Len(post) /\ Sent \subseteq 1 .. N /\ Len(post) \in Nat /\ N \in Nat
      /\ post \in Seq(Post) /\ Len(post) <= N
  BY Numbers DEF IInv, TypeOK
<1>1. CASE post' = post
  BY <1>0, <1>1 DEF Sent
<1>2. CASE \E c \in Chan, kind \in Kinds : Send(c, kind)
  <2>1. PICK c \in Chan, kind \in Kinds : Send(c, kind)
    BY <1>2
  <2>2. /\ post' \in Seq(Post) /\ Len(post') <= N
        /\ Sent' = Sent \cup {Len(post) + 1}
        /\ \A i \in Sent : post'[i] = post[i]
    BY <2>1, Sending
  <2>3. Len(post) + 1 \in 1 .. N
    BY <1>0, <2>1 DEF Send
  <2> QED BY <1>0, <2>2, <2>3
<1>3. CASE \E i \in Sent : Write(i) \/ Announce(i)
  <2>1. PICK i \in Sent : Write(i) \/ Announce(i)
    BY <1>3
  <2>2. PICK at \in {"written", "announced"} :
          /\ post' = [post EXCEPT ![i].at = at]
          /\ post[i].at = "announced" => at = "announced"
    BY <2>1 DEF Write, Announce
  <2>3. /\ post' \in Seq(Post) /\ Len(post') <= N /\ Sent' = Sent
        /\ \A j \in Sent : post'[j].chan = post[j].chan /\ post'[j].kind = post[j].kind
        /\ \A j \in Sent \ {i} : post'[j] = post[j]
        /\ post'[i].at = at
    BY <2>2, Proceeding
  <2> QED BY <1>0, <2>2, <2>3
<1> QED BY <1>1, <1>2, <1>3, Untouched

\* The message of a line that is appended: nothing after it in its channel is in the file.
LEMMA Writing ==
  ASSUME IInv, NEW i \in Sent, Write(i)
  PROVE  /\ post' = [post EXCEPT ![i].at = "written"] /\ post[i].at = "sent"
         /\ post[i].chan \in Chan
         /\ \A j \in Sent : post[j].chan = post[i].chan /\ post[j].at # "sent" => j < i
<1>1. post[i].chan \in Chan /\ post[i].at = "sent"
  BY Numbers DEF Write, Post
<1>2. ASSUME NEW j \in Sent, post[j].chan = post[i].chan, post[j].at # "sent" PROVE j < i
  <2>1. ~ (i < j)
    BY <1>1, <1>2 DEF IInv, InTurn
  <2>2. i # j /\ i \in Nat /\ j \in Nat
    BY <1>1, <1>2, Numbers
  <2> QED BY <2>1, <2>2
<1> QED BY <1>1, <1>2 DEF Write

\* What happens to the files: a line is appended, or a file goes, or nothing.
LEMMA Files ==
  ASSUME [Next]_vars
  PROVE  \/ log' = log
         \/ \E i \in Sent : Write(i)
         \/ \E c \in Chan : log' = [log EXCEPT ![c] = <<>>] /\ post' = post
BY BoundsAssumption
   DEF Next, vars, Messages, Send, Announce, Start, Park, Settle, Advance, Resolve, End, Scan, Read, Delete,
       FinishRead

\* The files hold written messages in order, whatever is appended after a channel was deleted.
LEMMA FiledKept ==
  ASSUME IInv, [Next]_vars
  PROVE  log' \in [Chan -> Seq(Sent')] /\ Filed'
<1>0. log \in [Chan -> Seq(Sent)] /\ Filed /\ Sent \subseteq Sent' /\ Sent \subseteq Nat
  BY Lasting, Numbers DEF IInv, TypeOK
<1>1. ASSUME NEW c \in Chan, log'[c] = log[c] \/ log'[c] = <<>>
      PROVE  /\ log'[c] \in Seq(Sent') /\ Increasing(log'[c])
             /\ \A i \in ToSet(log'[c]) : Written(i)' /\ post'[i].chan = c
  <2>1. CASE log'[c] = log[c]
    <3>1. log[c] \in Seq(Sent')
      BY <1>0, WiderSeq
    <3>2. \A i \in ToSet(log[c]) : Written(i) /\ post[i].chan = c
      BY <1>0 DEF Filed
    <3>3. \A i \in ToSet(log[c]) : Written(i)' /\ post'[i].chan = c
      BY <3>2, Lasting DEF Written
    <3> QED BY <1>0, <2>1, <3>1, <3>3 DEF Filed
  <2>2. CASE log'[c] = <<>>
    BY <2>2 DEF ToSet, Increasing
  <2> QED BY <1>1, <2>1, <2>2
<1>2. CASE log' = log
  BY <1>0, <1>1, <1>2 DEF Filed
<1>3. CASE \E c \in Chan : log' = [log EXCEPT ![c] = <<>>] /\ post' = post
  BY <1>0, <1>1, <1>3 DEF Filed
<1>4. CASE \E i \in Sent : Write(i)
  <2>1. PICK i \in Sent : Write(i)
    BY <1>4
  <2> DEFINE d == post[i].chan
  <2>2. /\ d \in Chan /\ log' = [log EXCEPT ![d] = Append(log[d], i)]
        /\ \A j \in Sent : post[j].chan = d /\ post[j].at # "sent" => j < i
    BY <2>1, Writing DEF Write
  <2>3. Written(i)' /\ post'[i].chan = d
    BY <1>0, <2>1, Writing, Proceeding DEF Written
  <2>4. log'[d] = Append(log[d], i) /\ log[d] \in Seq(Sent)
    BY <1>0, <2>2
  <2>5. /\ log'[d] \in Seq(Sent) /\ DOMAIN log'[d] = 1 .. Len(log[d]) + 1
        /\ \A p \in DOMAIN log[d] : log'[d][p] = log[d][p]
        /\ log'[d][Len(log[d]) + 1] = i
        /\ ToSet(log'[d]) = ToSet(log[d]) \cup {i}
    BY <2>4, Appending
  <2>6. \A j \in ToSet(log[d]) : Written(j) /\ post[j].chan = d /\ j < i
    BY <1>0, <2>2 DEF Filed, Written
  <2>7. \A j \in ToSet(log'[d]) : Written(j)' /\ post'[j].chan = d
    BY <2>3, <2>5, <2>6, Lasting DEF Written
  <2>8. Increasing(log'[d])
    <3>1. DOMAIN log[d] = 1 .. Len(log[d]) /\ Len(log[d]) \in Nat
      BY <2>4, LenProperties
    <3> SUFFICES ASSUME NEW p \in DOMAIN log'[d], NEW q \in DOMAIN log'[d], p < q
                 PROVE  log'[d][p] < log'[d][q]
      BY DEF Increasing
    <3>2. p \in DOMAIN log[d] /\ (q \in DOMAIN log[d] \/ q = Len(log[d]) + 1)
      BY <2>5, <3>1
    <3>3. CASE q \in DOMAIN log[d]
      BY <1>0, <2>2, <2>5, <3>2, <3>3 DEF Filed, Increasing
    <3>4. CASE q = Len(log[d]) + 1
      BY <2>5, <2>6, <3>2, <3>4 DEF ToSet
    <3> QED BY <3>2, <3>3, <3>4
  <2>9. log'[d] \in Seq(Sent')
    BY <1>0, <2>5, WiderSeq
  <2>10. \A c \in Chan \ {d} : log'[c] = log[c]
    BY <1>0, <2>2
  <2>11. log' \in [Chan -> Seq(Sent')]
    <3>1. \A c \in Chan : log'[c] \in Seq(Sent')
      BY <1>1, <2>9, <2>10
    <3> QED BY <1>0, <2>2, <3>1
  <2> QED BY <1>1, <2>7, <2>8, <2>10, <2>11 DEF Filed
<1> QED BY <1>2, <1>3, <1>4, Files

\* A channel's messages are written in turn: the guard of the channel's mutex.
LEMMA InTurnKept ==
  ASSUME IInv, [Next]_vars
  PROVE  InTurn'
<1>0. InTurn /\ Sent = 1 .. Len(post) /\ Len(post) \in Nat
  BY Numbers DEF IInv
<1>1. CASE post' = post
  BY <1>0, <1>1 DEF InTurn, Sent
<1>2. CASE \E c \in Chan, kind \in Kinds : Send(c, kind)
  <2>1. /\ Sent' = Sent \cup {Len(post) + 1}
        /\ \A i \in Sent : post'[i] = post[i] /\ i < Len(post) + 1
        /\ post'[Len(post) + 1].at = "sent"
    <3>1. PICK c \in Chan, kind \in Kinds : Send(c, kind)
      BY <1>2
    <3>2. /\ Sent' = Sent \cup {Len(post) + 1}
          /\ \A i \in Sent : post'[i] = post[i] /\ i < Len(post) + 1
          /\ post'[Len(post) + 1] = [chan |-> c, kind |-> kind, at |-> "sent"]
      BY <3>1, Sending
    <3> QED BY <3>2
  <2> SUFFICES ASSUME NEW i \in Sent', NEW j \in Sent', i < j, post'[i].chan = post'[j].chan,
                      post'[j].at # "sent"
               PROVE  post'[i].at # "sent"
    BY DEF InTurn
  <2>2. j \in Sent
    BY <2>1
  <2>3. i \in Sent
    BY <1>0, <2>1, <2>2
  <2> QED BY <1>0, <2>1, <2>2, <2>3 DEF InTurn
<1>3. CASE \E i \in Sent : Write(i)
  <2>1. PICK w \in Sent : Write(w)
    BY <1>3
  <2>2. post' = [post EXCEPT ![w].at = "written"]
    BY <2>1 DEF Write
  <2>3. /\ Sent' = Sent /\ post'[w].at = "written"
        /\ \A j \in Sent : post'[j].chan = post[j].chan
        /\ \A j \in Sent \ {w} : post'[j] = post[j]
    BY <2>2, Proceeding
  <2>4. \A j \in Sent : post[j].chan = post[w].chan /\ j < w => post[j].at # "sent"
    <3>1. Sent = DOMAIN post
      BY DEF Sent
    <3> QED BY <2>1, <3>1 DEF Write, In
  <2> SUFFICES ASSUME NEW i \in Sent, NEW j \in Sent, i < j, post'[i].chan = post'[j].chan,
                      post'[j].at # "sent"
               PROVE  post'[i].at # "sent"
    BY <2>3 DEF InTurn
  <2>5. CASE i = w
    BY <2>3, <2>5
  <2>6. CASE i # w /\ j = w
    BY <2>3, <2>4, <2>6
  <2>7. CASE i # w /\ j # w
    BY <1>0, <2>3, <2>7 DEF InTurn
  <2> QED BY <2>5, <2>6, <2>7
<1>4. CASE \E i \in Sent : Announce(i)
  <2>1. PICK w \in Sent : Announce(w)
    BY <1>4
  <2>2. post' = [post EXCEPT ![w].at = "announced"] /\ post[w].at = "written"
    BY <2>1 DEF Announce
  <2>3. /\ Sent' = Sent /\ post'[w].at = "announced"
        /\ \A j \in Sent : post'[j].chan = post[j].chan
        /\ \A j \in Sent \ {w} : post'[j] = post[j]
    BY <2>2, Proceeding
  <2>4. \A j \in Sent : post'[j].at # "sent" <=> post[j].at # "sent"
    BY <2>2, <2>3
  <2> QED BY <1>0, <2>3, <2>4 DEF InTurn
<1> QED BY <1>1, <1>2, <1>3, <1>4, Untouched

\* Nothing comes to lie behind a message that is written, since what is written comes after it.
LEMMA NothingGetsBehind ==
  ASSUME IInv, [Next]_vars, NEW m, Written(m)
  PROVE  Behind(m)' \subseteq Behind(m)
<1>0. m \in Sent /\ Sent = 1 .. Len(post) /\ Len(post) \in Nat /\ Sent' \subseteq 1 .. N /\ N \in Nat
  BY Lasting, Numbers DEF Written
<1>1. post'[m].chan = post[m].chan
  BY <1>0, Lasting
<1> SUFFICES ASSUME NEW i \in Sent', Readable(i)', post'[i].chan = post[m].chan, i <= m,
                    post'[i].kind # "own"
             PROVE  i \in Behind(m)
  BY <1>1 DEF Behind
<1>2. i \in Sent
  BY <1>0
<1>3. post'[i].chan = post[i].chan /\ post'[i].kind = post[i].kind
  BY <1>2, Lasting
<1> DEFINE c == post[i].chan
<1>4. c \in live' /\ i \in ToSet(log'[c])
  BY <1>3 DEF Readable
<1>5. live' \subseteq live
  BY DEF Next, vars, Messages, Send, Write, Announce, Start, Park, Settle, Advance, Resolve, End, Scan, Read,
         Delete, FinishRead
<1>6. c \in Chan /\ log \in [Chan -> Seq(Sent)]
  BY <1>2, Numbers DEF IInv, TypeOK, Post
<1>7. i \in ToSet(log[c])
  <2>1. CASE log' = log
    BY <1>4, <2>1
  <2>2. CASE \E d \in Chan : log' = [log EXCEPT ![d] = <<>>]
    <3>1. log'[c] = log[c] \/ log'[c] = <<>>
      BY <1>6, <2>2
    <3>2. log'[c] # <<>>
      BY <1>4 DEF ToSet
    <3> QED BY <1>4, <3>1, <3>2
  <2>3. CASE \E w \in Sent : Write(w)
    <3>1. PICK w \in Sent : Write(w)
      BY <2>3
    <3>2. /\ post[w].at = "sent" /\ post[w].chan \in Chan
          /\ \A j \in Sent : post[j].chan = post[w].chan /\ post[j].at # "sent" => j < w
      BY <3>1, Writing
    <3>3. log' = [log EXCEPT ![post[w].chan] = Append(log[post[w].chan], w)]
      BY <3>1 DEF Write
    <3>4. CASE c # post[w].chan
      BY <1>4, <1>6, <3>3, <3>4
    <3>5. CASE c = post[w].chan
      <4>1. ToSet(log'[c]) = ToSet(log[c]) \cup {w}
        <5>1. log'[c] = Append(log[c], w) /\ log[c] \in Seq(Sent)
          BY <1>6, <3>3, <3>5
        <5> QED BY <5>1, Appending
      <4>2. m < w
        BY <1>0, <1>1, <1>3, <3>2, <3>5 DEF Written
      <4>3. i # w
        BY <1>0, <1>2, <4>2
      <4> QED BY <1>4, <4>1, <4>3
    <3> QED BY <3>4, <3>5
  <2> QED BY <2>1, <2>2, <2>3, Files
<1> QED BY <1>2, <1>3, <1>4, <1>5, <1>7 DEF Behind, Readable

\* The worker has what it had.
LEMMA Keeping ==
  ASSUME [Next]_vars
  PROVE  Had \subseteq Had'
BY DEF Had, Next, vars, Messages, Send, Write, Announce, Start, Park, Settle, Advance, Resolve, End, Scan, Read,
       Delete, FinishRead

----------------------------------------------------------------------------
(* Sessions. *)

\* The drain that a session begins.
LEMMA Snapshots ==
  ASSUME TypeOK, NEW todo \in SUBSET Chan
  PROVE  Snapshot(todo) \in [Chan -> 0 .. N]
BY LimitsAssumption DEF TypeOK, Snapshot

\* A session that begins: it drains what there is, and has nothing in its hands.
LEMMA Begins ==
  ASSUME TypeOK, NEW channels \in SUBSET Chan
  PROVE  LET s == Begin(channels) todo == Backlog(channels, unread) IN
         /\ s \in Session
         /\ s.at = "draining" /\ s.channels = channels /\ s.todo = todo /\ s.base = Snapshot(todo)
         /\ s.got = {} /\ s.moves = {} /\ s.buffered = {} /\ s.full = {}
<1>1. Backlog(channels, unread) \in SUBSET Chan
  BY DEF Backlog, TypeOK
<1>2. Snapshot(Backlog(channels, unread)) \in [Chan -> 0 .. N]
  BY <1>1, Snapshots
<1> HIDE DEF Backlog, Snapshot
<1> QED BY <1>1, <1>2 DEF Begin, Idle, Session

\* A session that is over.
LEMMA Idles ==
  /\ Idle \in Session
  /\ Idle.at = "idle" /\ Idle.got = {} /\ Idle.moves = {} /\ Idle.base = NoCursor
BY LimitsAssumption DEF Idle, Session, NoCursor

\* A session that hears of message i keeps what it is about; parked, it wakes and collects anew.
LEMMA Hearing ==
  ASSUME TypeOK, NEW k \in Wait, NEW i \in 1 .. N, NEW counted \in SUBSET Chan
  PROVE  LET s == Heard(k, i, counted) IN
         /\ s \in Session
         /\ s.channels = wait[k].channels /\ s.moves = wait[k].moves
         /\ \/ s = wait[k] /\ (k \notin Waiting \/ ~Relevant(k, i))
            \/ /\ k \in Waiting /\ Relevant(k, i)
               /\ s.buffered = wait[k].buffered \cup {i}
               /\ \/ /\ wait[k].at # "parked" /\ s.at = wait[k].at
                     /\ s.got = wait[k].got /\ s.base = wait[k].base
                  \/ /\ wait[k].at = "parked" /\ s.at = "waking"
                     /\ s.got = {} /\ s.base = Snapshot(Backlog(wait[k].channels, counted))
<1> DEFINE todo == Backlog(wait[k].channels, counted)
<1>1. wait[k] \in Session
  BY DEF TypeOK
<1>2. todo \in SUBSET Chan
  BY <1>1 DEF Backlog, Session
<1>3. Snapshot(todo) \in [Chan -> 0 .. N]
  BY <1>2, Snapshots
<1> HIDE DEF todo
<1>4. CASE k \notin Waiting \/ ~Relevant(k, i)
  BY <1>1, <1>4 DEF Heard
<1>5. CASE k \in Waiting /\ Relevant(k, i) /\ wait[k].at = "parked"
  <2>1. Heard(k, i, counted) = [Collecting(k, counted) EXCEPT !.at = "waking", !.buffered = @ \cup {i}]
    BY <1>5 DEF Heard
  <2>2. Collecting(k, counted) = [wait[k] EXCEPT !.base = Snapshot(todo), !.todo = todo,
                                             !.scanned = {}, !.full = {}, !.got = {}]
    BY DEF Collecting, todo
  <2> DEFINE s == Collecting(k, counted)
  <2>3. /\ s \in Session /\ s.at = wait[k].at /\ s.channels = wait[k].channels /\ s.moves = wait[k].moves
        /\ s.buffered = wait[k].buffered /\ s.got = {} /\ s.base = Snapshot(todo)
    BY <1>1, <1>2, <1>3, <2>2 DEF Session
  <2> HIDE DEF s
  <2>4. Heard(k, i, counted) = [s EXCEPT !.at = "waking", !.buffered = @ \cup {i}]
    BY <2>1 DEF s
  <2> DEFINE h == Heard(k, i, counted)
  <2>5. h = [[s EXCEPT !.at = "waking"] EXCEPT !.buffered = s.buffered \cup {i}]
    BY <2>3, <2>4 DEF Session
  <2>6. s.buffered \cup {i} \in SUBSET (1 .. N)
    BY <2>3 DEF Session
  <2> HIDE DEF h
  <2>7. h \in Session
    BY <2>3, <2>5, <2>6 DEF Session
  <2>8. /\ h.at = "waking" /\ h.buffered = s.buffered \cup {i} /\ h.got = s.got /\ h.base = s.base
        /\ h.channels = s.channels /\ h.moves = s.moves
    BY <2>3, <2>5 DEF Session
  <2> QED BY <1>5, <2>3, <2>7, <2>8 DEF todo, h
<1>6. CASE k \in Waiting /\ Relevant(k, i) /\ wait[k].at # "parked"
  <2>1. Heard(k, i, counted) = [wait[k] EXCEPT !.buffered = @ \cup {i}]
    BY <1>6 DEF Heard
  <2> QED BY <1>1, <1>6, <2>1 DEF Session
<1> QED BY <1>4, <1>5, <1>6

\* What a step may do to session k.
LEMMA Turns ==
  ASSUME TypeOK, [Next]_vars, NEW k \in Wait
  PROVE  \/ wait'[k] = wait[k] \/ wait'[k] = Idle
         \/ \E channels \in Filter : Start(k, channels)
         \/ \E i \in Sent : Announce(i) /\ wait'[k] = Heard(k, i, unread')
         \/ \E c \in Chan : Scan(k, c)
         \/ Park(k) \/ Settle(k) \/ Advance(k)
<1>0. wait \in [Wait -> Session]
  BY DEF TypeOK
<1> DEFINE Turn == \/ wait'[k] = wait[k] \/ wait'[k] = Idle
                   \/ \E channels \in Filter : Start(k, channels)
                   \/ \E i \in Sent : Announce(i) /\ wait'[k] = Heard(k, i, unread')
                   \/ \E c \in Chan : Scan(k, c)
                   \/ Park(k) \/ Settle(k) \/ Advance(k)
<1>1. wait' = wait => Turn
  OBVIOUS
<1>2. ASSUME NEW i \in Sent, Announce(i) PROVE Turn
  <2>1. wait'[k] = Heard(k, i, unread')
    BY <1>2 DEF Announce
  <2> QED BY <1>2, <2>1
<1>3. ASSUME NEW j \in Wait, NEW channels \in Filter, Start(j, channels) PROVE Turn
  <2>1. CASE j = k
    BY <1>3, <2>1
  <2>2. CASE j # k
    BY <1>3, <2>2 DEF Start
  <2> QED BY <2>1, <2>2
<1>4. ASSUME NEW j \in Wait, Park(j) \/ Settle(j) \/ Advance(j) PROVE Turn
  <2>1. CASE j = k
    BY <1>4, <2>1
  <2>2. CASE j # k
    BY <1>0, <1>4, <2>2 DEF Park, Settle, Advance
  <2> QED BY <2>1, <2>2
<1>5. ASSUME NEW j \in Wait, Resolve(j) \/ End(j) PROVE Turn
  BY <1>0, <1>5 DEF Resolve, End
<1>6. ASSUME NEW j \in Wait, NEW c \in Chan, Scan(j, c) PROVE Turn
  <2>1. CASE j = k
    BY <1>6, <2>1
  <2>2. CASE j # k
    BY <1>0, <1>6, <2>2 DEF Scan
  <2> QED BY <2>1, <2>2
<1>7. ASSUME NEW c \in Deletable, Delete(c) PROVE Turn
  BY <1>7 DEF Delete
<1> HIDE DEF Turn
<1>8. ASSUME NEW c \in Chan, NEW kind \in Kinds, Send(c, kind) PROVE Turn
  BY <1>1, <1>8 DEF Send
<1>9. ASSUME NEW i \in Sent, Write(i) PROVE Turn
  BY <1>1, <1>9 DEF Write
<1>10. ASSUME NEW c \in Chan, Read(c) PROVE Turn
  BY <1>1, <1>10 DEF Read
<1>11. FinishRead \/ UNCHANGED vars => Turn
  BY <1>1 DEF FinishRead, vars
<1>12. Turn
  BY <1>2, <1>3, <1>4, <1>5, <1>6, <1>7, <1>8, <1>9, <1>10, <1>11 DEF Next
<1> QED BY <1>12 DEF Turn

\* A burst takes the oldest of what there is.
LEMMA Bursts ==
  ASSUME TypeOK, NEW k \in Wait
  PROVE  /\ Burst(k) \subseteq wait[k].got \cup wait[k].buffered
         /\ Burst(k) \subseteq 1 .. N
         /\ \A m \in Burst(k), i \in wait[k].got \cup wait[k].buffered : i <= m => i \in Burst(k)
<1> DEFINE all == wait[k].got \cup wait[k].buffered
           Before(i) == {j \in all : j < i}
<1>1. wait[k] \in Session /\ BurstCap \in Nat /\ N \in Nat
  BY LimitsAssumption DEF TypeOK
<1>2. all \in SUBSET (1 .. N) /\ IsFiniteSet(1 .. N)
  BY <1>1, FS_Interval DEF Session
<1>3. Burst(k) = {i \in all : Cardinality(Before(i)) < BurstCap}
  BY DEF Burst
<1>4. ASSUME NEW m \in Burst(k), NEW i \in all, i <= m PROVE i \in Burst(k)
  <2>1. m \in all /\ Cardinality(Before(m)) < BurstCap
    BY <1>3
  <2>2. Before(m) \in SUBSET (1 .. N) /\ Before(i) \in SUBSET Before(m)
    <3>1. \A j \in all : j \in Nat
      BY <1>2
    <3> QED BY <1>2, <1>4, <2>1, <3>1
  <2> HIDE DEF all, Before
  <2>3. IsFiniteSet(Before(m))
    BY <1>2, <2>2, FS_Subset
  <2>4. IsFiniteSet(Before(i)) /\ Cardinality(Before(i)) <= Cardinality(Before(m))
    BY <2>2, <2>3, FS_Subset
  <2>5. Cardinality(Before(i)) \in Nat /\ Cardinality(Before(m)) \in Nat
    BY <2>3, <2>4, FS_CardinalityType
  <2> QED BY <1>1, <1>3, <2>1, <2>4, <2>5
<1> HIDE DEF Before
<1> QED BY <1>2, <1>3, <1>4

\* What the page of a file leaves behind its messages: nothing but what the cursor, from which it was
\* read, has passed, and what a first read leaves out.  And a page that is not full is all there is.
LEMMA PageClears ==
  ASSUME IInv, NEW c \in live, NEW since, Marks(c, since), NEW limit \in Nat \ {0}
  PROVE  LET page == Page(c, since, limit)
             Shown == Had \cup LeftOut(c, since, page) \cup {i \in ToSet(page) : post[i].kind # "own"}
         IN /\ page \in Seq(Sent) /\ ToSet(page) \subseteq Sent
            /\ page # <<>> => Last(page) \in ToSet(page)
            /\ LeftOut(c, since, page) \subseteq Sent
            /\ \A m \in ToSet(page) : Written(m) /\ post[m].chan = c /\ Behind(m) \subseteq Shown
            /\ \A i \in Sent : Readable(i) /\ post[i].chan = c /\ post[i].kind # "own" =>
                 i \in Shown \/ Len(page) >= limit
<1> DEFINE page == Page(c, since, limit)
           Shown == Had \cup LeftOut(c, since, page) \cup {i \in ToSet(page) : post[i].kind # "own"}
           Known(i) == \/ i \in ToSet(page) \cup LeftOut(c, since, page)
                       \/ since \in ToSet(log[c]) /\ i <= since
<1>1. c \in Chan /\ log[c] \in Seq(Sent) /\ Sent \subseteq Nat /\ 0 \notin Sent
  BY Numbers DEF IInv, TypeOK
<1>2. log[c] \in Seq(Nat) /\ Increasing(log[c])
  BY <1>1, WiderSeq DEF IInv, Filed
<1>3. \A i \in ToSet(log[c]) : Written(i) /\ i \in Sent /\ post[i].chan = c
  BY <1>1 DEF IInv, Filed, Written
<1>4. /\ page \in Seq(ToSet(log[c])) /\ ToSet(page) \subseteq ToSet(log[c])
      /\ page # <<>> => Last(page) \in ToSet(page)
      /\ \A m \in ToSet(page), i \in ToSet(log[c]) : i <= m => Known(i)
      /\ \A i \in ToSet(log[c]) : Len(page) >= limit \/ Known(i)
  BY <1>2, PageFacts
<1>5. LeftOut(c, since, page) \subseteq Sent
  BY <1>3 DEF LeftOut
<1>6. page \in Seq(Sent)
  BY <1>3, <1>4, WiderSeq
<1> HIDE DEF page
<1>7. ASSUME NEW i \in Sent, Readable(i), post[i].chan = c, post[i].kind # "own", Known(i)
      PROVE  i \in Shown
  <2>1. CASE i \in ToSet(page) \cup LeftOut(c, since, page)
    BY <1>7, <2>1
  <2>2. CASE since \in ToSet(log[c]) /\ i <= since
    <3>1. since # 0
      BY <1>1, <1>3, <2>2
    <3>2. Written(since) /\ post[since].chan = c /\ Behind(since) \subseteq Had
      BY <3>1 DEF Marks
    <3>3. i \in Behind(since)
      BY <1>7, <2>2, <3>2 DEF Behind
    <3> QED BY <3>2, <3>3
  <2> QED BY <1>7, <2>1, <2>2
<1>8. \A i \in Sent : Readable(i) /\ post[i].chan = c => i \in ToSet(log[c])
  BY DEF Readable
<1> HIDE DEF Known
<1>9. ASSUME NEW m \in ToSet(page) PROVE Written(m) /\ post[m].chan = c /\ Behind(m) \subseteq Shown
  <2>1. Written(m) /\ post[m].chan = c
    BY <1>3, <1>4
  <2>2. ASSUME NEW i \in Behind(m) PROVE i \in Shown
    <3>1. i \in Sent /\ Readable(i) /\ post[i].chan = c /\ i <= m /\ post[i].kind # "own"
      BY <2>1 DEF Behind
    <3>2. Known(i)
      BY <1>4, <1>8, <3>1
    <3> QED BY <1>7, <3>1, <3>2
  <2> QED BY <2>1, <2>2
<1>10. ASSUME NEW i \in Sent, Readable(i), post[i].chan = c, post[i].kind # "own"
       PROVE  i \in Shown \/ Len(page) >= limit
  BY <1>4, <1>7, <1>8, <1>10
<1> HIDE DEF Shown
<1>11. ToSet(page) \subseteq Sent
  BY <1>3, <1>4
<1> QED BY <1>4, <1>5, <1>6, <1>9, <1>10, <1>11 DEF page, Shown

\* A drain reads a channel of its list.
LEMMA Scanning ==
  ASSUME IInv, NEW k \in Wait, NEW c \in Chan, Scan(k, c)
  PROVE  LET s == wait'[k]
             page == Page(c, wait[k].base[c], ScanLimit)
         IN /\ s \in Session
            /\ s.at = wait[k].at /\ s.at # "parked"
            /\ s.channels = wait[k].channels /\ s.buffered = wait[k].buffered /\ s.moves = wait[k].moves
            /\ s.todo = wait[k].todo \ {c} /\ s.base = [wait[k].base EXCEPT ![c] = 0]
            /\ \/ /\ c \in live
                  /\ s.got = wait[k].got \cup {i \in ToSet(page) : post[i].kind # "own"}
                  /\ s.full = IF Len(page) >= ScanLimit THEN wait[k].full \cup {c} ELSE wait[k].full
                  /\ skipped' = skipped \cup LeftOut(c, wait[k].base[c], page)
               \/ /\ c \notin live
                  /\ s.got = wait[k].got /\ s.full = wait[k].full /\ skipped' = skipped
            /\ UNCHANGED <<live, post, log, cursor, unread, waiter, reading, delivered>>
<1> DEFINE page == Page(c, wait[k].base[c], ScanLimit)
           more == {i \in ToSet(page) : post[i].kind # "own"}
           reached == IF Len(page) >= ScanLimit THEN wait[k].full \cup {c} ELSE wait[k].full
           t == [wait[k] EXCEPT !.todo = @ \ {c}, !.base = [wait[k].base EXCEPT ![c] = 0]]
<1>0. UNCHANGED <<live, post, log, cursor, unread, waiter, reading, delivered>> /\ wait[k].at # "parked"
  BY DEF Scan, Messages
<1>1. wait \in [Wait -> Session] /\ wait[k] \in Session /\ N \in Nat
  BY LimitsAssumption DEF IInv, TypeOK
<1>2. [wait[k].base EXCEPT ![c] = 0] \in [Chan -> 0 .. N]
  BY <1>1 DEF Session
<1>3. /\ t \in Session /\ t.at = wait[k].at /\ t.channels = wait[k].channels
      /\ t.buffered = wait[k].buffered /\ t.moves = wait[k].moves /\ t.todo = wait[k].todo \ {c}
      /\ t.base = [wait[k].base EXCEPT ![c] = 0] /\ t.got = wait[k].got /\ t.full = wait[k].full
  BY <1>1, <1>2 DEF Session
<1>4. CASE c \notin live
  <2>1. wait' = [wait EXCEPT ![k] = [[wait[k] EXCEPT !.todo = @ \ {c}] EXCEPT !.base[c] = 0]]
    BY <1>1, <1>4 DEF Scan
  <2>2. wait'[k] = t /\ skipped' = skipped
    BY <1>1, <1>4, <2>1 DEF Scan, Session
  <2> HIDE DEF t
  <2> QED BY <1>0, <1>3, <1>4, <2>2
<1>5. CASE c \in live
  <2>1. more \in SUBSET (1 .. N)
    <3>1. Marks(c, wait[k].base[c])
      BY DEF IInv, CursorsMark, Marked
    <3>2. ScanLimit \in Nat \ {0} /\ Sent \subseteq 1 .. N
      BY LimitsAssumption, Numbers
    <3>3. ToSet(page) \subseteq Sent
      BY <1>5, <3>1, <3>2, PageClears
    <3> QED BY <3>2, <3>3
  <2> DEFINE u == [[[t EXCEPT !.scanned = @ \cup {c}] EXCEPT !.full = reached] EXCEPT !.got = @ \cup more]
  <2>2. wait'[k] = u /\ skipped' = skipped \cup LeftOut(c, wait[k].base[c], page)
    <3> DEFINE r == [wait[k] EXCEPT !.todo = @ \ {c}, !.scanned = @ \cup {c}, !.base[c] = 0,
                                    !.full = IF Len(page) >= ScanLimit THEN @ \cup {c} ELSE @,
                                    !.got = @ \cup more]
    <3>0. wait' = [wait EXCEPT ![k] = r]
      BY <1>5 DEF Scan
    <3>1. wait'[k] = r
      <4> HIDE DEF r
      <4> QED BY <1>1, <3>0
    <3>2. skipped' = skipped \cup LeftOut(c, wait[k].base[c], page)
      BY <1>5 DEF Scan, page
    <3>3. r = u
      <4> HIDE DEF more, page
      <4> QED BY <1>1 DEF Session
    <3> QED BY <3>1, <3>2, <3>3
  <2>3. reached \in SUBSET Chan
    BY <1>1 DEF Session
  <2> HIDE DEF t, more, reached, page
  <2>4. /\ u \in Session /\ u.at = t.at /\ u.channels = t.channels /\ u.buffered = t.buffered
        /\ u.moves = t.moves /\ u.todo = t.todo /\ u.base = t.base
        /\ u.got = t.got \cup more /\ u.full = reached
    BY <1>3, <2>1, <2>3 DEF Session
  <2> HIDE DEF u
  <2> QED BY <1>0, <1>3, <1>5, <2>2, <2>4 DEF more, reached, page
<1> QED BY <1>4, <1>5

\* A session parks with nothing in its hands.
LEMMA Parking ==
  ASSUME TypeOK, NEW k \in Wait, Park(k)
  PROVE  LET s == wait'[k] IN
         /\ s \in Session
         /\ s.at = "parked" /\ s.channels = wait[k].channels /\ s.full = wait[k].full
         /\ s.base = NoCursor /\ s.got = {} /\ s.moves = {} /\ s.todo = {} /\ s.buffered = {}
         /\ wait[k].at = "draining" /\ wait[k].got = {} /\ wait[k].todo = {} /\ wait[k].buffered = {}
         /\ UNCHANGED <<live, post, log, cursor, unread, waiter, reading, delivered, skipped>>
<1>1. wait[k] \in Session /\ wait \in [Wait -> Session]
  BY DEF TypeOK
<1>2. wait'[k] = [Idle EXCEPT !.at = "parked", !.channels = wait[k].channels, !.full = wait[k].full]
  BY <1>1 DEF Park
<1>3. Idle \in Session
  BY Idles
<1>4. wait'[k] \in Session
  BY <1>1, <1>2, <1>3 DEF Session
<1> QED BY <1>1, <1>2, <1>4 DEF Park, Messages, Idle, Session

\* A session settles: what it delivers counts as delivered.
LEMMA Settling ==
  ASSUME TypeOK, NEW k \in Wait, Settle(k)
  PROVE  LET s == wait'[k] IN
         /\ s \in Session
         /\ s.at = "settling" /\ s.base = NoCursor /\ s.got = {} /\ s.moves = Moves(k)
         /\ s.buffered = {} /\ s.todo = {}
         /\ delivered' = delivered \cup Burst(k) /\ Burst(k) \subseteq 1 .. N
         /\ UNCHANGED <<live, post, log, cursor, unread, reading, skipped>>
<1>1. wait[k] \in Session /\ wait \in [Wait -> Session]
  BY DEF TypeOK
<1>2. Burst(k) \subseteq 1 .. N
  BY Bursts
<1>3. Moves(k) \in SUBSET (1 .. N) /\ Drained(k) \in SUBSET Chan
  <2>1. Moves(k) \subseteq Burst(k) /\ \A i \in Moves(k) : post[i].chan \in wait[k].scanned
    BY DEF Moves
  <2>2. wait[k].scanned \subseteq Chan
    BY <1>1 DEF Session
  <2> QED BY <1>2, <2>1, <2>2 DEF Drained, Moved
<1>4. wait'[k] = [Idle EXCEPT !.at = "settling", !.moves = Moves(k), !.drained = Drained(k)]
  BY <1>1 DEF Settle
<1> HIDE DEF Moves, Drained
<1>5. wait'[k] \in Session
  BY <1>3, <1>4, Idles DEF Session
<1>6. /\ wait'[k].at = "settling" /\ wait'[k].base = NoCursor /\ wait'[k].got = {}
      /\ wait'[k].moves = Moves(k) /\ wait'[k].buffered = {} /\ wait'[k].todo = {}
  BY <1>4 DEF Idle
<1> QED BY <1>2, <1>5, <1>6 DEF Settle, Messages

\* A delivery writes the cursors and is done with its messages.
LEMMA Advancing ==
  ASSUME TypeOK, NEW k \in Wait, Advance(k)
  PROVE  LET s == wait'[k] IN
         /\ s \in Session
         /\ s.at = "advanced" /\ s.base = wait[k].base /\ s.got = wait[k].got /\ s.moves = {}
         /\ UNCHANGED <<live, post, log, unread, waiter, reading, delivered, skipped>>
<1>1. wait[k] \in Session /\ wait \in [Wait -> Session]
  BY DEF TypeOK
<1>2. wait'[k] = [wait[k] EXCEPT !.at = "advanced", !.moves = {}]
  BY <1>1 DEF Advance
<1> QED BY <1>1, <1>2 DEF Advance, Messages, Session

\* A read takes a page: what is on it counts as delivered.
LEMMA Reading ==
  ASSUME IInv, NEW c \in Chan, Read(c)
  PROVE  /\ reading' \in Seq(Sent) /\ reading' # <<>>
         /\ delivered' = delivered \cup ToSet(reading') /\ ToSet(reading') \subseteq Sent
         /\ skipped \subseteq skipped' /\ skipped' \subseteq skipped \cup Sent
         /\ Written(Last(reading')) /\ Behind(Last(reading')) \subseteq Had'
         /\ UNCHANGED <<live, post, log, unread, cursor, wait, waiter>>
<1> DEFINE page == Page(c, cursor[c], ReadLimit)
<1>1. /\ c \in live /\ reading' = page /\ page # <<>>
      /\ delivered' = delivered \cup ToSet(page)
      /\ skipped' = skipped \cup LeftOut(c, cursor[c], page)
      /\ UNCHANGED <<live, post, log, unread, cursor, wait, waiter>>
  BY DEF Read, Messages
<1>2. Marks(c, cursor[c]) /\ ReadLimit \in Nat \ {0}
  BY LimitsAssumption DEF IInv, CursorsMark, Marked
<1>3. /\ page \in Seq(Sent) /\ ToSet(page) \subseteq Sent
      /\ Last(page) \in ToSet(page)
      /\ LeftOut(c, cursor[c], page) \subseteq Sent
      /\ \A m \in ToSet(page) : /\ Written(m)
                                /\ Behind(m) \subseteq Had \cup LeftOut(c, cursor[c], page)
                                                         \cup {i \in ToSet(page) : post[i].kind # "own"}
  BY <1>1, <1>2, PageClears
<1> HIDE DEF page
<1> QED BY <1>1, <1>3 DEF Had

\* What happens to the worker's record.
LEMMA Records ==
  ASSUME [Next]_vars
  PROVE  \/ cursor' = cursor /\ reading' = reading /\ delivered' = delivered /\ skipped' = skipped
         \/ \E k \in Wait : Settle(k) \/ Advance(k)
         \/ \E k \in Wait, c \in Chan : Scan(k, c)
         \/ \E c \in Chan : Read(c)
         \/ FinishRead
BY DEF Next, vars, Messages, Send, Write, Announce, Start, Park, Resolve, End, Delete

\* What happens to the counts: a message is announced, or they are cleared.
LEMMA Counts ==
  ASSUME [Next]_vars
  PROVE  unread' \subseteq unread \/ \E i \in Sent : Announce(i)
BY DEF Next, vars, Messages, Send, Write, Start, Scan, Park, Settle, Advance, Resolve, End, Read, Delete, FinishRead

\* Types are kept.
LEMMA TypeKept ==
  ASSUME IInv, [Next]_vars
  PROVE  TypeOK'
<1>0. TypeOK /\ Sent \subseteq 1 .. N /\ N \in Nat /\ Sent \subseteq Sent'
  BY Numbers, Lasting DEF IInv
<1>1. live' \subseteq Chan
  BY <1>0 DEF TypeOK, Next, vars, Messages, Send, Write, Announce, Start, Park, Settle, Advance, Resolve, End, Scan,
                Read, Delete, FinishRead
<1>2. post' \in Seq(Post) /\ log' \in [Chan -> Seq(Sent')]
  BY Lasting, FiledKept
<1>3. unread' \subseteq Chan
  <2>1. ASSUME NEW i \in Sent, Announce(i) PROVE unread' \subseteq Chan
    <3>1. post[i].chan \in Chan
      BY Numbers DEF Post
    <3> QED BY <1>0, <2>1, <3>1 DEF TypeOK, Announce
  <2> QED BY <1>0, <2>1, Counts DEF TypeOK
<1>4. /\ cursor' \in [Chan -> 0 .. N] /\ reading' \in Seq(Sent')
      /\ delivered' \subseteq 1 .. N /\ skipped' \subseteq 1 .. N
  <2> DEFINE Recorded == /\ cursor' \in [Chan -> 0 .. N] /\ reading' \in Seq(Sent')
                         /\ delivered' \subseteq 1 .. N /\ skipped' \subseteq 1 .. N
  <2>0. /\ cursor \in [Chan -> 0 .. N] /\ reading \in Seq(Sent) /\ reading \in Seq(Sent')
        /\ delivered \subseteq 1 .. N /\ skipped \subseteq 1 .. N
    BY <1>0, WiderSeq DEF TypeOK
  <2>1. CASE cursor' = cursor /\ reading' = reading /\ delivered' = delivered /\ skipped' = skipped
    BY <2>0, <2>1
  <2>2. ASSUME NEW k \in Wait, Settle(k) PROVE Recorded
    <3>1. /\ delivered' = delivered \cup Burst(k) /\ Burst(k) \subseteq 1 .. N
          /\ UNCHANGED <<cursor, reading, skipped>>
      BY <1>0, <2>2, Settling
    <3> QED BY <2>0, <3>1
  <2>3. ASSUME NEW k \in Wait, Advance(k) PROVE Recorded
    <3>1. /\ UNCHANGED <<reading, delivered, skipped>>
          /\ cursor' = [c \in Chan |-> LET moves == wait[k].moves \cap In(c)
                                        IN IF moves # {} THEN Max(moves) ELSE cursor[c]]
      BY <2>3 DEF Advance
    <3>2. ASSUME NEW c \in Chan PROVE cursor'[c] \in 0 .. N
      <4> DEFINE moves == wait[k].moves \cap In(c)
      <4>1. moves \in SUBSET (1 .. N)
        BY <1>0 DEF TypeOK, Session
      <4>2. cursor'[c] = IF moves # {} THEN Max(moves) ELSE cursor[c]
        BY <3>1
      <4>3. moves # {} => Max(moves) \in moves
        <5> HIDE DEF moves
        <5> QED BY <1>0, <4>1, MaxIsIn
      <4>4. 1 .. N \subseteq 0 .. N
        BY <1>0
      <4>5. moves # {} => Max(moves) \in 0 .. N
        BY <4>1, <4>3, <4>4
      <4> HIDE DEF moves
      <4> QED BY <2>0, <4>2, <4>5
    <3> QED BY <2>0, <3>1, <3>2
  <2>4. ASSUME NEW k \in Wait, NEW c \in Chan, Scan(k, c) PROVE Recorded
    <3>1. UNCHANGED <<cursor, reading, delivered>>
      BY <2>4, Scanning
    <3>2. \/ skipped' = skipped
          \/ skipped' = skipped \cup LeftOut(c, wait[k].base[c], Page(c, wait[k].base[c], ScanLimit))
      BY <2>4, Scanning
    <3>3. c \notin live => skipped' = skipped
      BY <2>4 DEF Scan
    <3>4. c \in live => LeftOut(c, wait[k].base[c], Page(c, wait[k].base[c], ScanLimit)) \subseteq Sent
      <4>1. Marks(c, wait[k].base[c]) /\ ScanLimit \in Nat \ {0}
        BY LimitsAssumption DEF IInv, CursorsMark, Marked
      <4> QED BY <4>1, PageClears
    <3> QED BY <1>0, <2>0, <3>1, <3>2, <3>3, <3>4
  <2>5. ASSUME NEW c \in Chan, Read(c) PROVE Recorded
    <3>1. /\ reading' \in Seq(Sent) /\ delivered' \subseteq delivered \cup Sent
          /\ skipped' \subseteq skipped \cup Sent /\ cursor' = cursor
      BY <2>5, Reading
    <3>2. reading' \in Seq(Sent')
      BY <1>0, <3>1, WiderSeq
    <3> QED BY <1>0, <2>0, <3>1, <3>2
  <2>6. CASE FinishRead
    <3>1. reading # <<>> /\ Last(reading) \in Sent
      BY <2>6 DEF FinishRead, IInv, ReadClears, Written
    <3>2. /\ cursor' = [cursor EXCEPT ![post[Last(reading)].chan] = Last(reading)]
          /\ reading' = <<>> /\ UNCHANGED <<delivered, skipped>>
      BY <2>6 DEF FinishRead
    <3>3. <<>> \in Seq(Sent')
      OBVIOUS
    <3>4. Last(reading) \in 0 .. N
      <4>1. 1 .. N \subseteq 0 .. N
        BY <1>0
      <4>2. Last(reading) \in 1 .. N
        BY <1>0, <3>1
      <4> QED BY <4>1, <4>2
    <3> QED BY <2>0, <3>2, <3>3, <3>4
  <2> QED BY <2>1, <2>2, <2>3, <2>4, <2>5, <2>6, Records
<1>5. wait' \in [Wait -> Session]
  <2>1. wait' = [k \in Wait |-> wait'[k]]
    BY <1>0 DEF TypeOK, Next, vars, Messages, Send, Write, Announce, Start, Park, Settle, Advance, Resolve, End, Scan,
                  Read, Delete, FinishRead
  <2>2. ASSUME NEW k \in Wait PROVE wait'[k] \in Session
    <3>1. wait[k] \in Session /\ Idle \in Session
      BY <1>0, Idles DEF TypeOK
    <3>2. ASSUME NEW channels \in Filter, Start(k, channels) PROVE wait'[k] \in Session
      <4>1. wait'[k] = Begin(channels) /\ channels \in SUBSET Chan
        BY <1>0, <3>2, BoundsAssumption DEF Start
      <4> QED BY <1>0, <4>1, Begins
    <3>3. ASSUME NEW i \in Sent, wait'[k] = Heard(k, i, unread') PROVE wait'[k] \in Session
      <4>1. i \in 1 .. N
        BY <1>0
      <4> QED BY <1>0, <1>3, <3>3, <4>1, Hearing
    <3>4. Park(k) \/ Settle(k) \/ Advance(k) => wait'[k] \in Session
      BY <1>0, Parking, Settling, Advancing
    <3>5. ASSUME NEW c \in Chan, Scan(k, c) PROVE wait'[k] \in Session
      BY <3>5, Scanning
    <3> QED BY <1>0, <3>1, <3>2, <3>3, <3>4, <3>5, Turns
  <2> QED BY <2>1, <2>2
<1>6. waiter' \in Wait \cup {NoWait}
  BY <1>0 DEF TypeOK, Next, vars, Messages, Send, Write, Announce, Start, Park, Settle, Advance, Resolve, End, Scan,
                Read, Delete, FinishRead
<1> QED BY <1>1, <1>2, <1>3, <1>4, <1>5, <1>6 DEF TypeOK

\* Nothing new lies behind a message, and the worker has what it had.
LEMMA StillClear ==
  ASSUME IInv, [Next]_vars, NEW m, NEW S, Written(m), Behind(m) \subseteq Had \cup S
  PROVE  /\ Written(m)' /\ post'[m].chan = post[m].chan
         /\ Behind(m)' \subseteq Had' \cup S
<1>1. Written(m)' /\ post'[m].chan = post[m].chan
  BY Lasting DEF Written
<1>2. Behind(m)' \subseteq Behind(m)
  BY NothingGetsBehind
<1> QED BY <1>1, <1>2, Keeping

\* Where the cursors of channel c come from after a step.
LEMMA NewMarks ==
  ASSUME IInv, [Next]_vars, NEW c \in Chan, NEW m \in Marked(c)'
  PROVE  \/ m = 0 \/ m \in Marked(c)
         \/ m \in In(c) /\ \E k \in Wait : m \in wait[k].moves
         \/ reading # <<>> /\ m = Last(reading) /\ post[m].chan = c
<1>0. TypeOK /\ cursor \in [Chan -> 0 .. N] /\ N \in Nat
  BY LimitsAssumption DEF IInv, TypeOK
<1>1. ASSUME NEW k \in Wait PROVE wait'[k].base[c] \in {0} \cup Marked(c)
  <2>1. wait[k].base[c] \in Marked(c) /\ cursor[c] \in Marked(c)
    BY DEF Marked
  <2>2. ASSUME NEW todo \in SUBSET Chan PROVE Snapshot(todo)[c] \in {0, cursor[c]}
    BY DEF Snapshot
  <2>3. ASSUME NEW channels \in Filter, Start(k, channels) PROVE wait'[k].base[c] \in {0} \cup Marked(c)
    <3>1. wait'[k] = Begin(channels) /\ channels \in SUBSET Chan
      BY <2>3, BoundsAssumption DEF Start
    <3>2. wait'[k].base = Snapshot(Backlog(channels, unread)) /\ Backlog(channels, unread) \in SUBSET Chan
      <4>1. Backlog(channels, unread) \in SUBSET Chan
        BY <1>0, <3>1 DEF Backlog, TypeOK
      <4> QED BY <1>0, <3>1, <4>1, Begins
    <3> QED BY <2>1, <2>2, <3>2
  <2>4. ASSUME NEW i \in Sent, Announce(i), wait'[k] = Heard(k, i, unread')
        PROVE  wait'[k].base[c] \in {0} \cup Marked(c)
    <3>1. i \in 1 .. N /\ unread' \in SUBSET Chan
      BY Numbers, TypeKept DEF TypeOK
    <3>2. Backlog(wait[k].channels, unread') \in SUBSET Chan
      BY <1>0, <3>1 DEF Backlog, TypeOK, Session
    <3>3. \/ wait'[k].base = wait[k].base
          \/ wait'[k].base = Snapshot(Backlog(wait[k].channels, unread'))
      <4>1. ASSUME NEW counted \in SUBSET Chan
            PROVE  \/ Heard(k, i, counted).base = wait[k].base
                   \/ Heard(k, i, counted).base = Snapshot(Backlog(wait[k].channels, counted))
        BY <1>0, <3>1, Hearing
      <4> QED BY <2>4, <3>1, <4>1
    <3> QED BY <2>1, <2>2, <3>2, <3>3
  <2>5. ASSUME NEW d \in Chan, Scan(k, d) PROVE wait'[k].base[c] \in {0} \cup Marked(c)
    <3>1. wait'[k].base = [wait[k].base EXCEPT ![d] = 0] /\ wait[k].base \in [Chan -> 0 .. N]
      BY <1>0, <2>5, Scanning DEF TypeOK, Session
    <3> QED BY <2>1, <3>1
  <2>6. ASSUME Park(k) \/ Settle(k) \/ Advance(k) \/ wait'[k] = Idle \/ wait'[k] = wait[k]
        PROVE  wait'[k].base[c] \in {0} \cup Marked(c)
    <3>1. wait'[k].base = NoCursor \/ wait'[k].base = wait[k].base
      BY <1>0, <2>6, Parking, Settling, Advancing, Idles
    <3> QED BY <2>1, <3>1 DEF NoCursor
  <2> QED BY <1>0, <2>3, <2>4, <2>5, <2>6, Turns
<1>2. \/ cursor'[c] \in Marked(c)
      \/ cursor'[c] \in In(c) /\ \E k \in Wait : cursor'[c] \in wait[k].moves
      \/ reading # <<>> /\ cursor'[c] = Last(reading) /\ post[cursor'[c]].chan = c
  <2>1. cursor[c] \in Marked(c)
    BY DEF Marked
  <2>2. ASSUME NEW k \in Wait, Advance(k)
        PROVE  \/ cursor'[c] = cursor[c]
               \/ cursor'[c] \in In(c) /\ cursor'[c] \in wait[k].moves
    <3> DEFINE moves == wait[k].moves \cap In(c)
    <3>1. moves \in SUBSET (1 .. N)
      BY <1>0 DEF TypeOK, Session
    <3>2. cursor'[c] = IF moves # {} THEN Max(moves) ELSE cursor[c]
      BY <2>2 DEF Advance
    <3>3. moves # {} => Max(moves) \in moves
      <4> HIDE DEF moves
      <4> QED BY <1>0, <3>1, MaxIsIn
    <3> QED BY <3>2, <3>3
  <2>3. ASSUME FinishRead
        PROVE  \/ cursor'[c] = cursor[c]
               \/ reading # <<>> /\ cursor'[c] = Last(reading) /\ post[Last(reading)].chan = c
    BY <1>0, <2>3 DEF FinishRead
  <2>4. FinishRead \/ (\E k \in Wait : Advance(k)) \/ cursor' = cursor
    BY Records, Reading, Scanning DEF Settle, Read, Scan
  <2> QED BY <2>1, <2>2, <2>3, <2>4
<1> QED BY <1>1, <1>2 DEF Marked

\* Cursors never pass what the worker has not got.
LEMMA MarksKept ==
  ASSUME IInv, [Next]_vars
  PROVE  CursorsMark'
<1> SUFFICES ASSUME NEW c \in Chan, NEW m \in Marked(c)', m # 0
             PROVE  Written(m)' /\ post'[m].chan = c /\ Behind(m)' \subseteq Had'
  BY DEF CursorsMark, Marks
<1>1. Written(m) /\ post[m].chan = c /\ Behind(m) \subseteq Had
  <2>1. CASE m \in Marked(c)
    BY <2>1 DEF IInv, CursorsMark, Marks
  <2>2. CASE m \in In(c) /\ \E k \in Wait : m \in wait[k].moves
    BY <2>2 DEF IInv, SessionsClear, In
  <2>3. CASE reading # <<>> /\ m = Last(reading) /\ post[m].chan = c
    BY <2>3 DEF IInv, ReadClears
  <2> QED BY <2>1, <2>2, <2>3, NewMarks
<1>2. Behind(m) \subseteq Had \cup {}
  BY <1>1
<1>3. Written(m)' /\ post'[m].chan = post[m].chan /\ Behind(m)' \subseteq Had' \cup {}
  BY <1>1, <1>2, StillClear
<1> QED BY <1>1, <1>3

\* A session clears what it reads, and delivers what it moves a cursor past.
LEMMA SessionsKept ==
  ASSUME IInv, [Next]_vars
  PROVE  SessionsClear'
<1>0. TypeOK
  BY DEF IInv
<1> SUFFICES ASSUME NEW k \in Wait
             PROVE  /\ \A m \in wait'[k].got : Written(m)' /\ Behind(m)' \subseteq Had' \cup wait'[k].got
                    /\ \A m \in wait'[k].moves : Written(m)' /\ Behind(m)' \subseteq Had'
  BY DEF SessionsClear
<1>1. /\ \A m \in wait[k].got : Written(m) /\ Behind(m) \subseteq Had \cup wait[k].got
      /\ \A m \in wait[k].moves : Written(m) /\ Behind(m) \subseteq Had \cup {}
  BY DEF IInv, SessionsClear
<1>2. /\ \A m \in wait[k].got : Written(m)' /\ Behind(m)' \subseteq Had' \cup wait[k].got
      /\ \A m \in wait[k].moves : Written(m)' /\ Behind(m)' \subseteq Had'
  <2>1. ASSUME NEW m \in wait[k].got PROVE Written(m)' /\ Behind(m)' \subseteq Had' \cup wait[k].got
    BY <1>1, StillClear
  <2>2. ASSUME NEW m \in wait[k].moves PROVE Written(m)' /\ Behind(m)' \subseteq Had' \cup {}
    BY <1>1, StillClear
  <2> QED BY <2>1, <2>2
<1>3. CASE wait'[k].got \in {{}, wait[k].got} /\ wait'[k].moves \in {{}, wait[k].moves}
  BY <1>2, <1>3
<1>4. ASSUME NEW channels \in Filter, Start(k, channels)
      PROVE  wait'[k].got \in {{}, wait[k].got} /\ wait'[k].moves \in {{}, wait[k].moves}
  <2>1. wait'[k] = Begin(channels) /\ channels \in SUBSET Chan
    BY <1>4, BoundsAssumption DEF Start
  <2> QED BY <1>0, <2>1, Begins
<1>5. ASSUME NEW i \in Sent, wait'[k] = Heard(k, i, unread')
      PROVE  wait'[k].got \in {{}, wait[k].got} /\ wait'[k].moves \in {{}, wait[k].moves}
  <2>1. i \in 1 .. N /\ unread' \in SUBSET Chan
    BY Numbers, TypeKept DEF TypeOK
  <2>2. ASSUME NEW counted \in SUBSET Chan
        PROVE  /\ Heard(k, i, counted).got \in {{}, wait[k].got}
               /\ Heard(k, i, counted).moves = wait[k].moves
    BY <1>0, <2>1, Hearing
  <2> QED BY <1>5, <2>1, <2>2
<1>6. ASSUME Park(k) \/ Advance(k) \/ wait'[k] = Idle \/ wait'[k] = wait[k]
      PROVE  wait'[k].got \in {{}, wait[k].got} /\ wait'[k].moves \in {{}, wait[k].moves}
  BY <1>0, <1>6, Parking, Advancing, Idles
<1>7. CASE Settle(k)
  <2>1. /\ wait'[k].got = {} /\ wait'[k].moves = Moves(k)
        /\ delivered' = delivered \cup Burst(k) /\ skipped' = skipped
    BY <1>0, <1>7, Settling
  <2>2. ASSUME NEW m \in Moves(k) PROVE Written(m)' /\ Behind(m)' \subseteq Had'
    <3>1. m \in Burst(k) /\ m \in wait[k].got
      BY DEF Moves
    <3>2. Written(m)' /\ Behind(m)' \subseteq Behind(m) /\ Behind(m) \subseteq Had \cup wait[k].got
      BY <1>1, <1>2, <3>1, NothingGetsBehind
    <3>3. \A i \in Behind(m) : i <= m
      BY DEF Behind
    <3>4. \A i \in wait[k].got : i <= m => i \in Burst(k)
      BY <1>0, <3>1, Bursts
    <3>5. Behind(m) \subseteq Had'
      BY <2>1, <3>2, <3>3, <3>4 DEF Had
    <3> QED BY <3>2, <3>5
  <2> QED BY <2>1, <2>2
<1>8. ASSUME NEW c \in Chan, Scan(k, c)
      PROVE  /\ \A m \in wait'[k].got : Written(m)' /\ Behind(m)' \subseteq Had' \cup wait'[k].got
             /\ \A m \in wait'[k].moves : Written(m)' /\ Behind(m)' \subseteq Had'
  <2> DEFINE page == Page(c, wait[k].base[c], ScanLimit)
             more == {i \in ToSet(page) : post[i].kind # "own"}
  <2>1. wait'[k].moves = wait[k].moves /\ delivered' = delivered
    BY <1>8, Scanning
  <2>2. CASE c \notin live
    <3>1. wait'[k].got = wait[k].got
      BY <1>8, <2>2, Scanning
    <3> QED BY <1>2, <2>1, <3>1
  <2>3. CASE c \in live
    <3>1. wait'[k].got = wait[k].got \cup more /\ skipped' = skipped \cup LeftOut(c, wait[k].base[c], page)
      BY <1>8, <2>3, Scanning
    <3>2. Marks(c, wait[k].base[c]) /\ ScanLimit \in Nat \ {0}
      BY LimitsAssumption DEF IInv, CursorsMark, Marked
    <3>3. \A m \in ToSet(page) :
            Written(m) /\ Behind(m) \subseteq Had \cup LeftOut(c, wait[k].base[c], page) \cup more
      BY <2>3, <3>2, PageClears
    <3>4. ASSUME NEW m \in wait'[k].got
          PROVE  Written(m)' /\ Behind(m)' \subseteq Had' \cup wait'[k].got
      <4>1. CASE m \in wait[k].got
        BY <1>2, <3>1, <4>1
      <4>2. CASE m \in more
        <5>1. Written(m) /\ Behind(m) \subseteq Had \cup LeftOut(c, wait[k].base[c], page) \cup more
          BY <3>3, <4>2
        <5>2. Written(m)' /\ Behind(m)' \subseteq Behind(m)
          BY <5>1, Lasting, NothingGetsBehind DEF Written
        <5> HIDE DEF more, page
        <5> QED BY <2>1, <3>1, <5>1, <5>2 DEF Had
      <4> QED BY <3>1, <4>1, <4>2
    <3> QED BY <1>2, <2>1, <3>4
  <2> QED BY <2>2, <2>3
<1> QED BY <1>0, <1>3, <1>4, <1>5, <1>6, <1>7, <1>8, Turns

\* A read in progress sets a cursor that passes nothing.
LEMMA ReadsKept ==
  ASSUME IInv, [Next]_vars
  PROVE  ReadClears'
<1> SUFFICES ASSUME reading' # <<>>, NEW m \in {Last(reading')}
             PROVE  Written(m)' /\ Behind(m)' \subseteq Had'
  BY DEF ReadClears
<1>1. CASE reading' = reading
  <2>1. Written(m) /\ Behind(m) \subseteq Had \cup {}
    BY <1>1 DEF IInv, ReadClears
  <2>2. Written(m)' /\ Behind(m)' \subseteq Had' \cup {}
    BY <2>1, StillClear
  <2> QED BY <2>2
<1>2. ASSUME NEW c \in Chan, Read(c) PROVE Written(m)' /\ Behind(m)' \subseteq Had'
  <2>1. Written(m) /\ Behind(m) \subseteq Had'
    BY <1>2, Reading
  <2>2. Written(m)' /\ Behind(m)' \subseteq Behind(m)
    BY <2>1, Lasting, NothingGetsBehind DEF Written
  <2> QED BY <2>1, <2>2
<1>3. reading' = reading \/ reading' = <<>> \/ \E c \in Chan : Read(c)
  BY Records DEF Settle, Advance, Scan, FinishRead
<1> QED BY <1>1, <1>2, <1>3

\* A session that is parked has nothing in its hands, unless it wakes.
LEMMA ParksKept ==
  ASSUME IInv, [Next]_vars
  PROVE  Parks'
<1>0. TypeOK
  BY DEF IInv
<1> SUFFICES ASSUME NEW k \in Wait, wait'[k].at = "parked"
             PROVE  wait'[k].got = {} /\ wait'[k].todo = {} /\ wait'[k].buffered = {}
  BY DEF Parks
<1>1. CASE wait'[k] = wait[k]
  BY <1>1 DEF IInv, Parks
<1>2. CASE Park(k)
  BY <1>0, <1>2, Parking
<1>3. ASSUME NEW channels \in Filter, Start(k, channels) PROVE FALSE
  <2>1. wait'[k] = Begin(channels) /\ channels \in SUBSET Chan
    BY <1>3, BoundsAssumption DEF Start
  <2> QED BY <1>0, <2>1, Begins
<1>4. ASSUME NEW i \in Sent, wait'[k] = Heard(k, i, unread') PROVE wait'[k] = wait[k]
  <2>1. i \in 1 .. N /\ unread' \in SUBSET Chan
    BY Numbers, TypeKept DEF TypeOK
  <2>2. ASSUME NEW counted \in SUBSET Chan, Heard(k, i, counted).at = "parked"
        PROVE  Heard(k, i, counted) = wait[k]
    BY <1>0, <2>1, <2>2, Hearing
  <2> QED BY <1>4, <2>1, <2>2
<1>5. ASSUME NEW c \in Chan, Scan(k, c) PROVE FALSE
  BY <1>5, Scanning
<1>6. ASSUME Settle(k) \/ Advance(k) \/ wait'[k] = Idle PROVE FALSE
  BY <1>0, <1>6, Settling, Advancing, Idles
<1> QED BY <1>0, <1>1, <1>2, <1>3, <1>4, <1>5, <1>6, Turns

\* A message is outstanding from when it is announced: nothing that was not becomes so later, not
\* even when a cursor goes back.
LEMMA OutstandingBefore ==
  ASSUME IInv, [Next]_vars, NEW i \in Sent', Outstanding(i)', post'[i].kind # "own",
         ~ (i \in Sent /\ Announce(i))
  PROVE  i \in Sent /\ Outstanding(i) /\ post'[i].chan = post[i].chan /\ post'[i].kind = post[i].kind
<1> DEFINE c == post'[i].chan
<1>1. /\ post'[i].kind # "own" /\ post'[i].at = "announced" /\ Readable(i)'
      /\ i > cursor'[c] /\ i \notin Had'
  BY DEF Outstanding, Had
<1>2. i \in Sent /\ post[i].at = "announced"
  <2>1. CASE post' = post
    BY <1>1, <2>1 DEF Sent
  <2>2. ASSUME NEW d \in Chan, NEW kind \in Kinds, Send(d, kind) PROVE i \in Sent /\ post[i].at = "announced"
    <3>1. /\ Sent' = Sent \cup {Len(post) + 1} /\ \A j \in Sent : post'[j] = post[j]
          /\ post'[Len(post) + 1] = [chan |-> d, kind |-> kind, at |-> "sent"]
      BY <2>2, Sending
    <3> QED BY <1>1, <3>1
  <2>3. ASSUME NEW j \in Sent, Write(j) \/ Announce(j) PROVE i \in Sent /\ post[i].at = "announced"
    <3>1. PICK at \in {"written", "announced"} :
            post' = [post EXCEPT ![j].at = at] /\ (at = "announced" => Announce(j))
      BY <2>3 DEF Write, Announce
    <3>2. /\ Sent' = Sent /\ post'[j].at = at
          /\ \A l \in Sent \ {j} : post'[l] = post[l]
      BY <3>1, Proceeding
    <3> QED BY <1>1, <3>1, <3>2
  <2> QED BY <2>1, <2>2, <2>3, Untouched
<1>3. c = post[i].chan /\ post'[i].kind = post[i].kind /\ post[i].kind # "own" /\ c \in Chan
  BY <1>1, <1>2, Lasting, Numbers DEF Post
<1>4. Readable(i)
  <2>1. Written(i) /\ i \in Nat
    BY <1>2, Numbers DEF Written
  <2>2. i \in Behind(i)'
    BY <1>1, <2>1 DEF Behind
  <2>3. i \in Behind(i)
    BY <2>1, <2>2, NothingGetsBehind
  <2> QED BY <2>3 DEF Behind
<1>5. i \notin Had
  BY <1>1, Keeping
<1>6. i > cursor[c]
  <2> DEFINE m == cursor[c]
  <2>1. Marks(c, m) /\ m \in 0 .. N /\ N \in Nat /\ i \in 1 .. N
    BY <1>2, <1>3, Numbers DEF IInv, CursorsMark, Marked, TypeOK
  <2> SUFFICES ASSUME ~ (i > m) PROVE FALSE
    OBVIOUS
  <2>2. m # 0 /\ i <= m
    <3> HIDE DEF m
    <3> QED BY <2>1
  <2>3. Written(m) /\ post[m].chan = c /\ Behind(m) \subseteq Had
    BY <2>1, <2>2 DEF Marks
  <2>4. i \in Behind(m)
    BY <1>2, <1>3, <1>4, <2>2, <2>3 DEF Behind
  <2> QED BY <1>5, <2>3, <2>4
<1> QED BY <1>2, <1>3, <1>4, <1>5, <1>6 DEF Outstanding, Had

\* A drain that is not disturbed finds what is outstanding, and a session does not sleep through what
\* is announced.
LEMMA FindsKept ==
  ASSUME IInv, [Next]_vars
  PROVE  Finds'
<1> DEFINE Concerns(channels, c, kind) ==
             IF channels # {} THEN c \in channels /\ kind # "own" ELSE kind \in {"routed", "human"}
<1>0. TypeOK /\ wait' \in [Wait -> Session]
  BY TypeKept DEF IInv, TypeOK
<1> SUFFICES ASSUME NEW k \in Wait, wait'[k].at \in {"draining", "parked"}, wait'[k].buffered = {},
                    NEW i \in Unheard(k)'
             PROVE  i \in wait'[k].got \/ post'[i].chan \in wait'[k].todo
  BY DEF Finds
<1>1. /\ i \in Sent' /\ Outstanding(i)' /\ i \notin Had'
      /\ Concerns(wait'[k].channels, post'[i].chan, post'[i].kind) /\ post'[i].kind # "own"
      /\ post'[i].chan \notin wait'[k].full
      /\ wait'[k].channels = {} => post'[i].chan \in unread'
  BY DEF Unheard, Relevant, Outstanding, Had
<1>2. ASSUME NEW s \in Session, s = wait[k], s.at \in {"draining", "parked"}, s.buffered = {},
             i \in Sent, Outstanding(i),
             Concerns(s.channels, post[i].chan, post[i].kind),
             post[i].chan \notin s.full,
             s.channels = {} => post[i].chan \in unread
      PROVE  i \in s.got \/ post[i].chan \in s.todo
  BY <1>2 DEF IInv, Finds, Unheard, Relevant
<1>3. CASE \E j \in Sent : Announce(j)
  <2>1. PICK j \in Sent : Announce(j)
    BY <1>3
  <2>2. /\ wait'[k] = Heard(k, j, unread') /\ post[j].at = "written"
        /\ unread' = IF post[j].kind = "routed" THEN unread \cup {post[j].chan} ELSE unread
    BY <2>1 DEF Announce
  <2>3. wait'[k] = wait[k] /\ (k \notin Waiting \/ ~Relevant(k, j))
    <3>1. j \in 1 .. N /\ unread' \in SUBSET Chan
      BY Numbers, TypeKept DEF TypeOK
    <3>2. ASSUME NEW counted \in SUBSET Chan, Heard(k, j, counted).buffered = {}
          PROVE  Heard(k, j, counted) = wait[k] /\ (k \notin Waiting \/ ~Relevant(k, j))
      BY <1>0, <3>1, <3>2, Hearing
    <3> QED BY <2>2, <3>1, <3>2
  <2>4. ~ Relevant(k, j)
    BY <2>3 DEF Waiting
  <2>5. i # j
    <3>1. post'[j].chan = post[j].chan /\ post'[j].kind = post[j].kind
      BY Lasting
    <3> SUFFICES ASSUME i = j PROVE Relevant(k, j)
      BY <2>4
    <3> QED BY <1>1, <2>3, <3>1 DEF Relevant, Outstanding
  <2>6. ~ (i \in Sent /\ Announce(i))
    <3> SUFFICES ASSUME i \in Sent, post'[i].at = "announced", post[i].at = "written" PROVE FALSE
      BY <1>1 DEF Announce, Outstanding
    <3>1. post' = [post EXCEPT ![j].at = "announced"]
      BY <2>1 DEF Announce
    <3>2. post'[i] = post[i]
      BY <2>5, <3>1, Proceeding
    <3> QED BY <3>2
  <2>7. i \in Sent /\ Outstanding(i) /\ post'[i].chan = post[i].chan /\ post'[i].kind = post[i].kind
    BY <1>1, <2>6, OutstandingBefore
  <2>8. wait[k].channels = {} => unread' = unread
    BY <2>2, <2>4 DEF Relevant
  <2> QED BY <1>0, <1>1, <1>2, <2>3, <2>7, <2>8
<1>4. CASE ~ \E j \in Sent : Announce(j)
  <2>1. /\ i \in Sent /\ Outstanding(i) /\ unread' \subseteq unread
        /\ post'[i].chan = post[i].chan /\ post'[i].kind = post[i].kind
    BY <1>1, <1>4, OutstandingBefore, Counts
  <2>2. CASE wait'[k] = wait[k]
    BY <1>0, <1>1, <1>2, <2>1, <2>2
  <2>3. ASSUME NEW channels \in Filter, Start(k, channels) PROVE post'[i].chan \in wait'[k].todo
    <3>1. wait'[k] = Begin(channels) /\ channels \in SUBSET Chan /\ unread' = unread
      BY <2>3, BoundsAssumption DEF Start
    <3>2. wait'[k].todo = Backlog(channels, unread) /\ wait'[k].channels = channels
      BY <1>0, <3>1, Begins
    <3> QED BY <1>1, <3>1, <3>2 DEF Backlog
  <2>4. CASE Park(k)
    <3>1. /\ wait[k].at = "draining" /\ wait[k].got = {} /\ wait[k].todo = {} /\ wait[k].buffered = {}
          /\ wait'[k].channels = wait[k].channels /\ wait'[k].full = wait[k].full
      BY <1>0, <2>4, Parking
    <3>2. wait[k] \in Session
      BY <1>0 DEF TypeOK
    <3> QED BY <1>1, <1>2, <2>1, <3>1, <3>2
  <2>5. ASSUME NEW c \in Chan, Scan(k, c) PROVE i \in wait'[k].got \/ post'[i].chan \in wait'[k].todo
    <3> DEFINE page == Page(c, wait[k].base[c], ScanLimit)
               more == {m \in ToSet(page) : post[m].kind # "own"}
    <3>1. /\ wait'[k].at = wait[k].at /\ wait'[k].channels = wait[k].channels
          /\ wait'[k].buffered = wait[k].buffered /\ wait'[k].todo = wait[k].todo \ {c}
          /\ delivered' = delivered
      BY <2>5, Scanning
    <3>2. CASE c \notin live
      <4>1. wait'[k].got = wait[k].got /\ wait'[k].full = wait[k].full
        BY <2>5, <3>2, Scanning
      <4>2. post[i].chan # c
        BY <2>1, <3>2 DEF Outstanding, Readable
      <4>3. wait[k] \in Session
        BY <1>0 DEF TypeOK
      <4> QED BY <1>1, <1>2, <2>1, <3>1, <4>1, <4>2, <4>3
    <3>3. CASE c \in live
      <4>1. /\ wait'[k].got = wait[k].got \cup more
            /\ wait'[k].full = IF Len(page) >= ScanLimit THEN wait[k].full \cup {c} ELSE wait[k].full
            /\ skipped' = skipped \cup LeftOut(c, wait[k].base[c], page)
        BY <2>5, <3>3, Scanning
      <4>2. CASE post[i].chan = c
        <5>1. Marks(c, wait[k].base[c]) /\ ScanLimit \in Nat \ {0}
          BY LimitsAssumption DEF IInv, CursorsMark, Marked
        <5>2. Readable(i) /\ post[i].kind # "own"
          BY <1>1, <2>1 DEF Outstanding
        <5>3. i \in Had \cup LeftOut(c, wait[k].base[c], page) \cup more \/ Len(page) >= ScanLimit
          BY <2>1, <3>3, <4>2, <5>1, <5>2, PageClears
        <5> HIDE DEF more, page
        <5>4. i \in more
          BY <1>1, <2>1, <3>1, <4>1, <4>2, <5>3 DEF Had
        <5> QED BY <4>1, <5>4
      <4>3. CASE post[i].chan # c
        <5> HIDE DEF more, page
        <5>1. post[i].chan \notin wait[k].full
          BY <1>1, <2>1, <4>1
        <5>2. wait[k] \in Session
          BY <1>0 DEF TypeOK
        <5>3. i \in wait[k].got \/ post[i].chan \in wait[k].todo
          BY <1>1, <1>2, <2>1, <3>1, <5>1, <5>2
        <5> QED BY <2>1, <3>1, <4>1, <4>3, <5>3
      <4> QED BY <4>2, <4>3
    <3> QED BY <3>2, <3>3
  <2>6. ASSUME Settle(k) \/ Advance(k) \/ wait'[k] = Idle PROVE FALSE
    BY <1>0, <2>6, Settling, Advancing, Idles
  <2> QED BY <1>0, <1>4, <2>2, <2>3, <2>4, <2>5, <2>6, Turns
<1> QED BY <1>3, <1>4

\* activeChatWaiters leads to the one session that is not finished: a new call cancels the older
\* one, and whatever finishes a session takes the entry out.
LEMMA WaiterKept ==
  ASSUME IInv, [Next]_vars
  PROVE  WaiterIsFound'
<1> DEFINE Up(s) == s.at \in {"draining", "parked", "waking"}
<1>0. TypeOK /\ wait \in [Wait -> Session] /\ waiter \in Wait \cup {NoWait} /\ NoWait \notin Wait
  BY NoWaitAssumption DEF IInv, TypeOK
<1>1. \A k \in Wait : Up(wait[k]) <=> waiter = k
  BY DEF IInv, WaiterIsFound, Waiting
<1> SUFFICES \A k \in Wait : Up(wait'[k]) <=> waiter' = k
  BY DEF WaiterIsFound, Waiting
<1>2. CASE UNCHANGED <<wait, waiter>>
  BY <1>1, <1>2
<1>3. ASSUME waiter' = waiter, NEW k \in Wait, Up(wait'[k]) <=> Up(wait[k]), \A j \in Wait \ {k} : wait'[j] = wait[j]
      PROVE  \A j \in Wait : Up(wait'[j]) <=> waiter' = j
  <2> HIDE DEF Up
  <2> QED BY <1>1, <1>3
<1>4. ASSUME waiter' = NoWait, NEW k \in Wait, waiter = k, ~ Up(wait'[k]), \A j \in Wait \ {k} : wait'[j] = wait[j]
      PROVE  \A j \in Wait : Up(wait'[j]) <=> waiter' = j
  <2> HIDE DEF Up
  <2> QED BY <1>0, <1>1, <1>4
<1>5. ASSUME NEW i \in Sent, Announce(i) PROVE \A k \in Wait : Up(wait'[k]) <=> waiter' = k
  <2>1. waiter' = waiter /\ i \in 1 .. N /\ unread' \in SUBSET Chan
    BY <1>5, Numbers, TypeKept DEF TypeOK, Announce
  <2>2. ASSUME NEW k \in Wait PROVE Up(wait'[k]) <=> Up(wait[k])
    <3>1. wait'[k] = Heard(k, i, unread')
      BY <1>5 DEF Announce
    <3>2. ASSUME NEW counted \in SUBSET Chan PROVE Up(Heard(k, i, counted)) <=> Up(wait[k])
      BY <1>0, <2>1, Hearing
    <3> QED BY <2>1, <3>1, <3>2
  <2> HIDE DEF Up
  <2> QED BY <1>1, <2>1, <2>2
<1>6. ASSUME NEW k \in Wait, NEW channels \in Filter, Start(k, channels)
      PROVE  \A j \in Wait : Up(wait'[j]) <=> waiter' = j
  <2>1. /\ wait' = [j \in Wait |-> IF j = k THEN Begin(channels) ELSE IF j = waiter THEN Idle ELSE wait[j]]
        /\ waiter' = k
    BY <1>6 DEF Start
  <2>2. Up(Begin(channels))
    BY DEF Begin, Idle
  <2>3. ~ Up(Idle)
    BY DEF Idle
  <2> HIDE DEF Up
  <2> QED BY <1>0, <1>1, <2>1, <2>2, <2>3
<1>7. ASSUME NEW k \in Wait, Park(k) PROVE \A j \in Wait : Up(wait'[j]) <=> waiter' = j
  <2>1. wait'[k].at = "parked" /\ wait[k].at = "draining" /\ waiter' = waiter
    BY <1>0, <1>7, Parking
  <2>2. \A j \in Wait \ {k} : wait'[j] = wait[j]
    BY <1>0, <1>7 DEF Park
  <2> QED BY <1>3, <2>1, <2>2
<1>8. ASSUME NEW k \in Wait, Settle(k) PROVE \A j \in Wait : Up(wait'[j]) <=> waiter' = j
  <2>1. wait'[k].at = "settling" /\ wait[k].at \in {"draining", "waking"} /\ waiter' = NoWait
    BY <1>0, <1>8, Settling DEF Settle
  <2>2. \A j \in Wait \ {k} : wait'[j] = wait[j]
    BY <1>0, <1>8 DEF Settle
  <2>3. waiter = k /\ ~ Up(wait'[k])
    BY <1>1, <2>1
  <2> HIDE DEF Up
  <2> QED BY <1>4, <2>1, <2>2, <2>3
<1>9. ASSUME NEW k \in Wait, Advance(k) PROVE \A j \in Wait : Up(wait'[j]) <=> waiter' = j
  <2>1. wait'[k].at = "advanced" /\ wait[k].at = "settling" /\ waiter' = waiter
    BY <1>0, <1>9, Advancing DEF Advance
  <2>2. \A j \in Wait \ {k} : wait'[j] = wait[j]
    BY <1>0, <1>9 DEF Advance
  <2> QED BY <1>3, <2>1, <2>2
<1>10. ASSUME NEW k \in Wait, Resolve(k) PROVE \A j \in Wait : Up(wait'[j]) <=> waiter' = j
  <2>1. wait'[k].at = "idle" /\ wait[k].at = "advanced" /\ waiter' = waiter
    BY <1>0, <1>10, Idles DEF Resolve
  <2>2. \A j \in Wait \ {k} : wait'[j] = wait[j]
    BY <1>0, <1>10 DEF Resolve
  <2> QED BY <1>3, <2>1, <2>2
<1>11. ASSUME NEW k \in Wait, End(k) PROVE \A j \in Wait : Up(wait'[j]) <=> waiter' = j
  <2>1. wait'[k].at = "idle" /\ Up(wait[k]) /\ waiter' = NoWait
    BY <1>0, <1>11, Idles DEF End, Waiting
  <2>2. \A j \in Wait \ {k} : wait'[j] = wait[j]
    BY <1>0, <1>11 DEF End
  <2>3. waiter = k /\ ~ Up(wait'[k])
    BY <1>1, <2>1
  <2> HIDE DEF Up
  <2> QED BY <1>4, <2>1, <2>2, <2>3
<1>12. ASSUME NEW k \in Wait, NEW c \in Chan, Scan(k, c) PROVE \A j \in Wait : Up(wait'[j]) <=> waiter' = j
  <2>1. wait'[k].at = wait[k].at /\ waiter' = waiter
    BY <1>12, Scanning
  <2>2. \A j \in Wait \ {k} : wait'[j] = wait[j]
    BY <1>0, <1>12 DEF Scan
  <2> QED BY <1>3, <2>1, <2>2
<1>13. ASSUME NEW c \in Deletable, Delete(c) PROVE \A j \in Wait : Up(wait'[j]) <=> waiter' = j
  <2> DEFINE hit == {k \in Waiting : c \in wait[k].channels}
  <2>1. /\ wait' = [k \in Wait |-> IF k \in hit THEN Idle ELSE wait[k]]
        /\ waiter' = IF waiter \in hit THEN NoWait ELSE waiter
    BY <1>13 DEF Delete
  <2>2. \A k \in hit : k \in Wait /\ Up(wait[k])
    BY DEF Waiting
  <2>3. ~ Up(Idle)
    BY DEF Idle
  <2> HIDE DEF Up, hit
  <2> QED BY <1>0, <1>1, <2>1, <2>2, <2>3
<1>14. CASE (\E c \in Chan, kind \in Kinds : Send(c, kind)) \/ (\E i \in Sent : Write(i)) \/ (\E c \in Chan : Read(c))
            \/ FinishRead \/ UNCHANGED vars
  BY <1>2, <1>14 DEF Send, Write, Read, FinishRead, vars
<1> HIDE DEF Up
<1> QED BY <1>5, <1>6, <1>7, <1>8, <1>9, <1>10, <1>11, <1>12, <1>13, <1>14 DEF Next

----------------------------------------------------------------------------
(* The beginning. *)

\* A set as a sequence: each of its elements once.
LEMMA Sequence ==
  ASSUME NEW S, IsFiniteSet(S)
  PROVE  LET s == SetToSeq(S) IN
         /\ s \in Seq(S) /\ Len(s) = Cardinality(S) /\ DOMAIN s = 1 .. Len(s) /\ Len(s) \in Nat
         /\ \A p, q \in DOMAIN s : s[p] = s[q] => p = q
         /\ ToSet(s) = S
<1> DEFINE s == SetToSeq(S)
           D == 1 .. Cardinality(S)
<1>1. Cardinality(S) \in Nat /\ \E f \in Bijection(D, S) : TRUE
  BY FS_CardinalityType DEF ExistsBijection
<1>2. \E f \in [D -> S] : \A p, q \in DOMAIN f : f[p] = f[q] => p = q
  BY <1>1 DEF Bijection, Injection, IsInjective
<1>3. s \in [D -> S] /\ \A p, q \in DOMAIN s : s[p] = s[q] => p = q
  BY <1>2 DEF SetToSeq, IsInjective
<1> HIDE DEF s
<1>4. s \in Seq(S) /\ Len(s) = Cardinality(S) /\ DOMAIN s = D
  BY <1>1, <1>3
<1>5. ToSet(s) = S
  <2>1. s \in Injection(D, S)
    BY <1>3 DEF Injection, IsInjective
  <2>2. IsFiniteSet(D) /\ Cardinality(D) = Cardinality(S)
    BY <1>1, FS_Interval
  <2>3. s \in Surjection(D, S)
    <3> HIDE DEF D
    <3> QED BY <2>1, <2>2, FS_Injection
  <2> QED BY <1>4, <2>3 DEF Surjection, ToSet
<1> QED BY <1>1, <1>3, <1>4, <1>5 DEF s

\* Every channel of Met begins with a message that the worker has read.
LEMMA Beginning ==
  ASSUME Init
  PROVE  IInv
<1> DEFINE met == SetToSeq(Met)
<1>1. /\ met \in Seq(Met) /\ Len(met) = Cardinality(Met) /\ DOMAIN met = 1 .. Len(met) /\ Len(met) \in Nat
      /\ \A i, j \in DOMAIN met : met[i] = met[j] => i = j
      /\ ToSet(met) = Met
  BY ChannelsAssumption, Sequence
<1>2. /\ Len(met) <= N /\ N \in Nat /\ Met \subseteq Chan
      /\ \A i \in DOMAIN met : met[i] \in Chan
  <2>1. \A i \in DOMAIN met : met[i] \in ToSet(met)
    BY DEF ToSet
  <2> QED BY <1>1, <2>1, ChannelsAssumption, LimitsAssumption
<1>3. /\ live = Chan /\ unread = {} /\ waiter = NoWait /\ reading = <<>> /\ skipped = {} /\ delivered = DOMAIN post
      /\ post = [i \in DOMAIN met |-> [chan |-> met[i], kind |-> "routed", at |-> "announced"]]
      /\ log = [c \in Chan |-> SetToSeq(First(c))]
      /\ cursor = [c \in Chan |-> IF c \in Met THEN Max(First(c)) ELSE 0]
      /\ wait = [k \in Wait |-> Idle]
  BY DEF Init
<1>4. \A c \in Chan : First(c) = {i \in DOMAIN met : met[i] = c}
  BY DEF First
<1> HIDE DEF met
<1>5. /\ post \in Seq(Post) /\ Len(post) = Len(met) /\ Sent = 1 .. Len(met)
      /\ \A i \in Sent : post[i] = [chan |-> met[i], kind |-> "routed", at |-> "announced"]
  <2>1. Sent = 1 .. Len(met) /\ \A i \in Sent : post[i] = [chan |-> met[i], kind |-> "routed", at |-> "announced"]
    BY <1>1, <1>3 DEF Sent
  <2>2. ASSUME NEW i \in Sent PROVE post[i] \in Post
    <3>1. met[i] \in Chan
      BY <1>1, <1>2, <2>1
    <3>2. post[i] = [chan |-> met[i], kind |-> "routed", at |-> "announced"]
      BY <2>1
    <3> QED BY <3>1, <3>2 DEF Post
  <2>3. post \in [1 .. Len(met) -> Post]
    BY <1>1, <1>3, <2>1, <2>2
  <2>4. post \in Seq(Post) /\ Len(post) = Len(met)
    BY <1>1, <2>3
  <2> QED BY <2>1, <2>4
<1>6. ASSUME NEW c \in Chan
      PROVE  /\ First(c) \in SUBSET Sent /\ First(c) \in SUBSET (1 .. N) /\ IsFiniteSet(First(c))
             /\ \A i, j \in First(c) : i = j
             /\ \A i \in First(c) : Written(i) /\ post[i].chan = c
             /\ c \in Met => First(c) # {}
  <2>1. First(c) \in SUBSET Sent /\ First(c) \in SUBSET (1 .. N) /\ \A i, j \in First(c) : i = j
    BY <1>1, <1>2, <1>4, <1>5
  <2>2. IsFiniteSet(First(c))
    BY <1>2, <2>1, FS_Interval, FS_Subset
  <2>3. \A i \in First(c) : Written(i) /\ post[i].chan = c
    BY <1>1, <1>4, <1>5, <2>1 DEF Written
  <2>4. c \in Met => First(c) # {}
    BY <1>1, <1>4 DEF ToSet
  <2> QED BY <2>1, <2>2, <2>3, <2>4
<1>7. ASSUME NEW c \in Chan
      PROVE  /\ log[c] \in Seq(Sent) /\ Increasing(log[c])
             /\ \A i \in ToSet(log[c]) : Written(i) /\ post[i].chan = c
  <2>1. /\ log[c] \in Seq(First(c)) /\ ToSet(log[c]) = First(c)
        /\ DOMAIN log[c] = 1 .. Len(log[c]) /\ Len(log[c]) \in Nat
        /\ \A p, q \in DOMAIN log[c] : log[c][p] = log[c][q] => p = q
    BY <1>3, <1>6, Sequence
  <2>2. log[c] \in Seq(Sent)
    BY <1>6, <2>1, WiderSeq
  <2>3. ASSUME NEW p \in DOMAIN log[c], NEW q \in DOMAIN log[c], p < q PROVE FALSE
    <3>1. log[c][p] \in First(c) /\ log[c][q] \in First(c)
      BY <2>1 DEF ToSet
    <3>2. p = q
      BY <1>6, <2>1, <3>1
    <3> QED BY <2>1, <2>3, <3>2
  <2> QED BY <1>6, <2>1, <2>2, <2>3 DEF Increasing
<1>8. ASSUME NEW c \in Chan
      PROVE  /\ cursor[c] \in 0 .. N
             /\ cursor[c] # 0 => Written(cursor[c]) /\ post[cursor[c]].chan = c
  <2>1. CASE c \in Met
    <3>1. Max(First(c)) \in First(c)
      BY <1>2, <1>6, <2>1, MaxIsIn
    <3>2. cursor[c] \in First(c)
      BY <1>3, <2>1, <3>1
    <3>3. 1 .. N \subseteq 0 .. N
      BY <1>2
    <3> QED BY <1>6, <3>2, <3>3
  <2>2. CASE c \notin Met
    BY <1>2, <1>3, <2>2
  <2> QED BY <2>1, <2>2
<1>9. \A k \in Wait : /\ wait[k] = Idle /\ wait[k] \in Session /\ wait[k].at = "idle" /\ wait[k].base = NoCursor
                      /\ wait[k].got = {} /\ wait[k].moves = {}
  BY <1>3, Idles
<1>10. TypeOK /\ Numbered
  <2>1. log \in [Chan -> Seq(Sent)] /\ cursor \in [Chan -> 0 .. N] /\ wait \in [Wait -> Session]
    BY <1>3, <1>7, <1>8, <1>9
  <2>2. delivered \subseteq 1 .. N
    BY <1>2, <1>3, <1>5 DEF Sent
  <2>3. reading \in Seq(Sent)
    BY <1>3
  <2> QED BY <1>2, <1>3, <1>5, <2>1, <2>2, <2>3 DEF TypeOK, Numbered
<1>11. WaiterIsFound
  BY <1>3, <1>9, NoWaitAssumption DEF WaiterIsFound, Waiting
<1>12. Filed /\ InTurn
  <2>1. ASSUME NEW i \in Sent PROVE post[i].at # "sent"
    <3>1. post[i] = [chan |-> met[i], kind |-> "routed", at |-> "announced"]
      BY <1>5
    <3> QED BY <3>1
  <2> QED BY <1>7, <2>1 DEF Filed, InTurn
<1>13. CursorsMark
  <2> SUFFICES ASSUME NEW c \in Chan, NEW m \in Marked(c) PROVE Marks(c, m)
    BY DEF CursorsMark
  <2>1. m = cursor[c] \/ m = 0
    BY <1>9 DEF Marked, NoCursor
  <2>2. m # 0 => Written(m) /\ post[m].chan = c
    BY <1>8, <2>1
  <2>3. Behind(m) \subseteq Had
    BY <1>3 DEF Behind, Had, Sent
  <2> QED BY <2>2, <2>3 DEF Marks
<1>14. SessionsClear /\ ReadClears /\ Parks /\ Finds
  BY <1>3, <1>9 DEF SessionsClear, ReadClears, Parks, Finds
<1> QED BY <1>10, <1>11, <1>12, <1>13, <1>14 DEF IInv

----------------------------------------------------------------------------
(* Theorems. *)

\* The invariant that all of the following rests on.
THEOREM Invariance == Spec => []IInv
<1>1. Init => IInv
  BY Beginning
<1>2. IInv /\ [Next]_vars => IInv'
  <2> SUFFICES ASSUME IInv, [Next]_vars PROVE IInv'
    OBVIOUS
  <2>1. TypeOK' /\ Filed' /\ InTurn' /\ WaiterIsFound'
    BY TypeKept, FiledKept, InTurnKept, WaiterKept
  <2>2. Numbered'
    BY Lasting DEF Numbered
  <2>3. CursorsMark' /\ SessionsClear' /\ ReadClears' /\ Parks' /\ Finds'
    BY MarksKept, SessionsKept, ReadsKept, ParksKept, FindsKept
  <2> QED BY <2>1, <2>2, <2>3 DEF IInv
<1> QED BY <1>1, <1>2, PTL DEF Spec

\* Sessions are typed, and the one that is not finished is the one that a cancellation finds: Start
\* cancels the older waiter (chatWaiters.ts), every end of a session takes its entry out.
THEOREM CancellationFindsIt == Spec => []Inv
<1>1. IInv => Inv
  BY DEF IInv, Inv
<1> QED BY <1>1, Invariance, PTL

\* Whatever bursts are cut, sessions cancelled, and reads interleaved: a cursor is never past a message
\* that the worker neither got nor sent nor was left without by a first read.
THEOREM NothingIsStranded == Spec => []CursorsPassNothing
<1>1. IInv => CursorsPassNothing
  <2> SUFFICES ASSUME IInv, NEW i \in Sent, Readable(i), i <= cursor[post[i].chan], post[i].kind # "own"
               PROVE  i \in delivered \cup skipped
    BY DEF CursorsPassNothing
  <2> DEFINE c == post[i].chan
             m == cursor[c]
  <2>1. c \in Chan /\ i \in 1 .. N
    BY Numbers DEF Post
  <2>2. Marks(c, m) /\ m \in 0 .. N /\ N \in Nat
    BY <2>1, Numbers DEF IInv, CursorsMark, Marked, TypeOK
  <2>3. m # 0
    <3> HIDE DEF c
    <3>1. i <= m
      BY DEF c
    <3> HIDE DEF m
    <3> QED BY <2>1, <2>2, <3>1
  <2>4. post[m].chan = c /\ Behind(m) \subseteq Had
    BY <2>2, <2>3 DEF Marks
  <2>5. i \in Behind(m)
    BY <2>4 DEF Behind
  <2> QED BY <2>4, <2>5 DEF Had
<1> QED BY <1>1, Invariance, PTL

\* What is announced before, during or after the drain of a chat_wait ends the wait, but for a message
\* in a channel that the drain did not read to the end.
THEOREM NothingIsSleptThrough == Spec => []NobodySleepsOnUnread
<1>1. IInv => NobodySleepsOnUnread
  <2> SUFFICES ASSUME IInv, NEW k \in Wait, NEW i \in Sent, wait[k].at = "parked", Outstanding(i),
                      Relevant(k, i), post[i].chan \notin wait[k].full,
                      wait[k].channels = {} => post[i].chan \in unread
               PROVE  FALSE
    BY DEF NobodySleepsOnUnread
  <2>1. wait[k].got = {} /\ wait[k].todo = {} /\ wait[k].buffered = {}
    BY DEF IInv, Parks
  <2>2. i \in Unheard(k)
    BY DEF Unheard
  <2> QED BY <2>1, <2>2 DEF IInv, Finds
<1> QED BY <1>1, Invariance, PTL

=============================================================================
