------------------------- MODULE BoardClientProofs -------------------------
(* Proofs about BoardClient: its invariant for any number of attempts, and that the retries come to an
   end for as many as the code allows. *)
EXTENDS BoardClient, TLAPS

\* While a session is on, the user has not disconnected, and only the timer has connected; and a user
\* who has disconnected has stopped the timer.
Ours ==
  /\ session => ~manual /\ (attempt # "none" => by = "timer")
  /\ manual => ~timer

IInv == Inv /\ Ours

\* What scheduleReconnect leaves behind, in all the handlers that call it.
LEMMA Scheduling ==
  ASSUME NEW armed \in BOOLEAN, NEW byUser \in BOOLEAN, NEW down \in BOOLEAN,
         attempts \in 0 .. MaxAttempts + 1, offer \in BOOLEAN,
         ScheduleReconnect(armed, byUser, down)
  PROVE  /\ timer' \in BOOLEAN /\ offer' \in BOOLEAN
         /\ attempts' \in 0 .. MaxAttempts + 1
         /\ AutoConnect /\ ~down /\ ~byUser => timer' \/ attempts' > MaxAttempts
         /\ byUser /\ ~armed => ~timer'
<1> USE BoardClientAssumption DEF BoardClientAssumption
<1>1. CASE MayRetry(armed, byUser, down)
  <2>1. timer' = (attempts < MaxAttempts) /\ offer' = (offer \/ attempts >= MaxAttempts)
    BY <1>1 DEF ScheduleReconnect
  <2>2. attempts' = IF attempts > MaxAttempts THEN attempts ELSE attempts + 1
    BY <1>1 DEF ScheduleReconnect
  <2>3. attempts' \in 0 .. MaxAttempts + 1
    BY <2>2
  <2>4. attempts < MaxAttempts \/ attempts' > MaxAttempts
    BY <2>2
  <2>5. timer' \in BOOLEAN /\ offer' \in BOOLEAN
    <3>1. (attempts < MaxAttempts) \in BOOLEAN /\ (attempts >= MaxAttempts) \in BOOLEAN
      OBVIOUS
    <3> QED
      BY <2>1, <3>1, Zenon
  <2>6. timer' \/ attempts' > MaxAttempts
    BY <2>1, <2>4, Zenon
  <2> QED
    BY <1>1, <2>3, <2>5, <2>6 DEF MayRetry
<1>2. CASE ~MayRetry(armed, byUser, down)
  BY <1>2 DEF ScheduleReconnect, MayRetry
<1> QED
  BY <1>1, <1>2

LEMMA InitIInv == Init => IInv
<1> SUFFICES ASSUME Init
             PROVE  IInv
  OBVIOUS
<1>1. 0 \in 0 .. MaxAttempts + 1
  BY BoardClientAssumption DEF BoardClientAssumption
<1> QED
  BY <1>1 DEF Init, IInv, Inv, TypeOK, OneConnection, Ours, LostIsRetried

LEMMA NextIInv == IInv /\ [Next]_vars => IInv'
<1> SUFFICES ASSUME IInv, [Next]_vars
             PROVE  IInv'
  OBVIOUS
<1> USE BoardClientAssumption DEF BoardClientAssumption, IInv, Inv, TypeOK, OneConnection, Ours, LostIsRetried
<1>1. ASSUME NEW fromOffer \in BOOLEAN, UserConnects(fromOffer) PROVE IInv'
  <2>1. offer' \in BOOLEAN /\ timer' = timer /\ ping' = ping
    BY <1>1 DEF UserConnects
  <2>2. attempts' \in 0 .. MaxAttempts + 1 /\ session' = FALSE
    BY <1>1 DEF UserConnects
  <2>3. BeginConnect("user", connectionState, attempt)
    BY <1>1 DEF UserConnects
  <2> QED
    BY <2>1, <2>2, <2>3 DEF BeginConnect
<1>2. CASE UserDisconnects
  BY <1>2 DEF UserDisconnects, LetGo, GivenUp
<1>3. CASE UserReconnects
  BY <1>3 DEF UserReconnects, BeginConnect, GivenUp
<1>4. CASE TimerFires
  BY <1>4 DEF TimerFires, BeginConnect
<1>5. CASE StartFails
  BY <1>5, Scheduling DEF StartFails, retry
<1>6. CASE StartEnds
  BY <1>6 DEF StartEnds, retry
<1>7. CASE Opened
  BY <1>7 DEF Opened
<1>8. CASE HandshakeFails
  BY <1>8, Scheduling DEF HandshakeFails
<1>9. CASE AbandonedCloses
  BY <1>9, Scheduling DEF AbandonedCloses, retry
<1>10. CASE Lost
  BY <1>10, Scheduling DEF Lost
<1>11. CASE Mismatch
  BY <1>11, Scheduling DEF Mismatch, LetGo, GivenUp
<1>12. CASE GoodBye
  BY <1>12, Scheduling DEF GoodBye, LetGo, GivenUp
<1>13. CASE UNCHANGED vars
  BY <1>13 DEF vars
<1> QED
  BY <1>1, <1>2, <1>3, <1>4, <1>5, <1>6, <1>7, <1>8, <1>9, <1>10, <1>11, <1>12, <1>13 DEF Next

LEMMA Invariance == Spec => []IInv
  BY InitIInv, NextIInv, PTL DEF Spec

\* One connection at a time, one attempt at a time, and a ping only while connected: the guard of
\* connect() and the hand-over of sockets between its handlers.  And a lost connection is tried again
\* until the attempts are exhausted: scheduleReconnect is reached on every way an attempt can fail.
THEOREM LossIsRetried == Spec => []Inv
<1>1. IInv => Inv
  BY DEF IInv
<1> QED
  BY <1>1, Invariance, PTL

\* A user who disconnects stays disconnected, but for an attempt that waited for the daemon: no handler
\* schedules, and none of the ways a socket given up can close brings it back.
THEOREM UsersWordStands == Spec => DisconnectStays
<1> DEFINE Stays == manual /\ manual' =>
                      ~timer' /\ (attempt # "starting" /\ connectionState = "disconnected"
                                    => connectionState' = "disconnected" /\ attempt' # "starting")
<1>1. ASSUME IInv, [Next]_vars
      PROVE  [Stays]_vars
  <2> SUFFICES ASSUME manual, manual'
               PROVE  ~timer' /\ (attempt # "starting" /\ connectionState = "disconnected"
                                     => connectionState' = "disconnected" /\ attempt' # "starting")
    OBVIOUS
  <2>1. ~timer'
    BY <1>1, NextIInv DEF IInv, Ours
  <2> QED
    BY <1>1, <2>1
    DEF IInv, Inv, TypeOK, OneConnection, Next, vars, retry, UserConnects, UserDisconnects, UserReconnects,
        TimerFires, StartFails, StartEnds, Opened, HandshakeFails, AbandonedCloses, Lost, Mismatch,
        GoodBye, LetGo, GivenUp, BeginConnect
<1>2. IInv /\ [Next]_vars => [Stays]_vars
  BY <1>1
<1> QED
  BY <1>2, Invariance, PTL DEF Spec, DisconnectStays

----------------------------------------------------------------------------
(***************************************************************************)
(* The retries come to an end.  An attempt goes from the wait for the      *)
(* daemon to its socket and from there to its end, or its socket is given  *)
(* up and closes.  While a session is on, only the timer tries, and each   *)
(* of its attempts that fails is counted.                                  *)
(***************************************************************************)

\* The fairness of FairSpec, with the guard of each action for what ENABLED says of it.
BoardFairness ==
  /\ []<>~timer \/ []<><<TimerFires>>_vars
  /\ []<>~(attempt = "starting") \/ []<><<StartFails \/ StartEnds>>_vars
  /\ []<>~(attempt = "handshake") \/ []<><<Opened \/ HandshakeFails>>_vars
  /\ []<>~(attempt = "abandoned") \/ []<><<AbandonedCloses>>_vars

Starting == attempt = "starting"
Shaking == attempt = "handshake"
Abandoned == attempt = "abandoned"
Idle == attempt = "none"

\* An attempt only goes on: to its socket, to a socket that is given up, or to its end.
LEMMA AttemptsGoOn ==
  ASSUME IInv, [Next]_vars
  PROVE  /\ Starting => Starting' \/ Shaking' \/ Idle'
         /\ Shaking => Shaking' \/ Abandoned' \/ Idle'
         /\ Abandoned => Abandoned' \/ Idle'
         /\ Starting /\ (StartFails \/ StartEnds) => ~Starting'
         /\ Opened \/ HandshakeFails \/ AbandonedCloses => Idle'
<1> USE DEF Starting, Shaking, Abandoned, Idle
<1>1. attempt \in {"none", "starting", "handshake", "abandoned"}
  BY DEF IInv, Inv, TypeOK
<1>2. CASE TimerFires \/ UserReconnects \/ \E fromOffer \in BOOLEAN : UserConnects(fromOffer)
  BY <1>1, <1>2
  DEF UserConnects, UserReconnects, TimerFires, GivenUp, BeginConnect, StartFails, StartEnds, Opened,
      HandshakeFails, AbandonedCloses, IInv, Inv, OneConnection
<1>3. CASE UserDisconnects \/ Lost \/ Mismatch \/ GoodBye
  BY <1>1, <1>3
  DEF UserDisconnects, Lost, Mismatch, GoodBye, LetGo, GivenUp, StartFails, StartEnds, Opened,
      HandshakeFails, AbandonedCloses
<1>4. CASE StartFails \/ StartEnds \/ Opened \/ HandshakeFails \/ AbandonedCloses
  BY <1>1, <1>4 DEF StartFails, StartEnds, Opened, HandshakeFails, AbandonedCloses
<1>5. CASE UNCHANGED vars
  BY <1>1, <1>5 DEF vars, StartFails, StartEnds, Opened, HandshakeFails, AbandonedCloses
<1> QED
  BY <1>2, <1>3, <1>4, <1>5 DEF Next

LEMMA AttemptsAreOver == Spec /\ BoardFairness => (attempt # "none" ~> attempt = "none")
<1>1. IInv => Idle \/ Starting \/ Shaking \/ Abandoned
  BY DEF IInv, Inv, TypeOK, Idle, Starting, Shaking, Abandoned
<1> DEFINE World == IInv /\ [Next]_vars
<1>2. World /\ Starting => (Starting' \/ Shaking' \/ Idle')
                             /\ (<<StartFails \/ StartEnds>>_vars => ~Starting')
  BY AttemptsGoOn
<1>3. World /\ Shaking => (Shaking' \/ Abandoned' \/ Idle')
                            /\ (<<Opened \/ HandshakeFails>>_vars => Idle')
  BY AttemptsGoOn
<1>4. World /\ Abandoned => (Abandoned' \/ Idle') /\ (<<AbandonedCloses>>_vars => Idle')
  BY AttemptsGoOn
<1>5. /\ Starting <=> attempt = "starting"
      /\ Shaking <=> attempt = "handshake"
      /\ Abandoned <=> attempt = "abandoned"
      /\ Idle <=> attempt = "none"
  BY DEF Starting, Shaking, Abandoned, Idle
<1>6. []IInv /\ [][Next]_vars /\ BoardFairness => (Abandoned ~> Idle)
  BY <1>4, <1>5, PTL DEF BoardFairness
<1>7. []IInv /\ [][Next]_vars /\ BoardFairness => (Shaking ~> Abandoned \/ Idle)
  BY <1>3, <1>5, PTL DEF BoardFairness
<1>8. (Starting => ~Idle /\ ~Shaking) /\ (Shaking => ~Starting) /\ (Idle => ~Starting)
  BY DEF Starting, Shaking, Idle
<1>9. []IInv /\ [][Next]_vars /\ BoardFairness => (Starting ~> Shaking \/ Idle)
  BY <1>2, <1>5, PTL DEF BoardFairness
<1> QED
  BY <1>1, <1>5, <1>6, <1>7, <1>9, Invariance, PTL DEF Spec

\* A session that lost its connection, after n attempts at least.
Trying(n) ==
  /\ session /\ ~shuttingDown /\ AutoConnect
  /\ connectionState # "connected"
  /\ attempts >= n

\* What the retries lead to.
RetriesEnd == connectionState = "connected" \/ attempts > MaxAttempts \/ ~session

\* While a session is on, no timer is set beside an attempt, and no socket is given up.
Alternates == session => attempt # "abandoned" /\ ~(timer /\ attempt # "none")

LEMMA AlternatesStep == IInv /\ Alternates /\ [Next]_vars => Alternates'
<1> SUFFICES ASSUME IInv, Alternates, [Next]_vars, session'
             PROVE  attempt' # "abandoned" /\ ~(timer' /\ attempt' # "none")
  BY DEF Alternates
<1> USE DEF IInv, Inv, TypeOK, OneConnection, Alternates
<1>1. CASE UNCHANGED vars
  BY <1>1 DEF vars
<1>2. CASE TimerFires
  BY <1>2 DEF TimerFires, BeginConnect
<1>3. CASE StartFails \/ HandshakeFails \/ AbandonedCloses \/ Opened
  BY <1>3 DEF StartFails, HandshakeFails, AbandonedCloses, Opened
<1>4. CASE StartEnds
  BY <1>4 DEF StartEnds, retry
<1>5. CASE Lost \/ Mismatch \/ GoodBye
  BY <1>5 DEF Lost, Mismatch, GoodBye, LetGo, GivenUp
<1>6. ~UserDisconnects /\ ~UserReconnects /\ ~\E fromOffer \in BOOLEAN : UserConnects(fromOffer)
  BY DEF UserDisconnects, UserReconnects, UserConnects
<1> QED
  BY <1>1, <1>2, <1>3, <1>4, <1>5, <1>6 DEF Next

\* One step of the retries, between the end of one attempt and the end of the next.
LEMMA RetriesStep ==
  ASSUME IInv, Alternates, [Next]_vars, NEW n \in Nat, NEW m \in Nat, m = n + 1,
         Trying(n), ~RetriesEnd, ~Trying(m), ~RetriesEnd', ~Trying(m)'
  PROVE  /\ Trying(n)'
         /\ Idle => timer
         /\ ~Abandoned
         /\ Idle => Idle' \/ Starting'
         /\ Idle /\ TimerFires => Starting'
         /\ Starting => Starting' \/ Shaking'
         /\ Starting /\ (StartFails \/ StartEnds) => Shaking'
         /\ Shaking => Shaking'
         /\ ~(Opened \/ HandshakeFails)
<1> USE BoardClientAssumption DEF BoardClientAssumption, IInv, Inv, TypeOK, OneConnection, Ours, LostIsRetried,
        Alternates, Idle, Starting, Shaking, Abandoned
<1>1. /\ session /\ ~shuttingDown /\ AutoConnect /\ ~manual
      /\ connectionState # "connected" /\ attempts = n /\ attempts <= MaxAttempts
  BY DEF Trying, RetriesEnd
<1>2. session' /\ connectionState' # "connected" /\ attempts' <= MaxAttempts
  <2>1. attempts' \in Nat
    BY NextIInv
  <2> QED BY <2>1 DEF RetriesEnd
<1>3. ~(Idle /\ ~timer) /\ ~Abandoned
  BY <1>1
<1>4. ~UserDisconnects /\ ~UserReconnects /\ ~\E fromOffer \in BOOLEAN : UserConnects(fromOffer)
  BY <1>2 DEF UserDisconnects, UserReconnects, UserConnects
<1>5. ~Lost /\ ~Mismatch /\ ~GoodBye /\ ~Opened
  BY <1>1, <1>2 DEF Lost, Mismatch, GoodBye, Opened
<1>6. ~StartFails /\ ~HandshakeFails
  <2> SUFFICES ASSUME StartFails \/ HandshakeFails
               PROVE  Trying(m)'
    OBVIOUS
  <2>1. attempt # "none" /\ ~timer /\ by = "timer"
    BY <1>1 DEF StartFails, HandshakeFails
  <2>2. MayRetry(timer, manual, shuttingDown)
    BY <1>1, <2>1 DEF MayRetry
  <2>3. ScheduleReconnect(timer, manual, shuttingDown) /\ UNCHANGED shuttingDown
    BY <2>1 DEF StartFails, HandshakeFails
  <2>4. attempts' = m
    BY <1>1, <2>2, <2>3 DEF ScheduleReconnect
  <2> QED
    BY <1>1, <1>2, <2>3, <2>4 DEF Trying
<1>7. ~AbandonedCloses
  BY <1>3 DEF AbandonedCloses
<1>8. CASE TimerFires
  <2>1. attempts' = attempts
    BY <1>8 DEF TimerFires
  <2>2. attempt = "none" /\ connectionState = "disconnected"
    BY <1>1, <1>8 DEF TimerFires
  <2>3. attempt' = "starting" /\ ~shuttingDown'
    BY <1>8, <2>2 DEF TimerFires, BeginConnect
  <2> QED
    BY <1>1, <1>2, <1>3, <1>5, <1>6, <2>1, <2>2, <2>3 DEF Trying
<1>9. CASE StartEnds
  BY <1>1, <1>2, <1>3, <1>5, <1>6, <1>9 DEF StartEnds, retry, Trying, TimerFires
<1>10. CASE UNCHANGED vars
  BY <1>1, <1>2, <1>3, <1>5, <1>6, <1>10 DEF vars, Trying, TimerFires, StartEnds
<1> QED
  BY <1>4, <1>5, <1>6, <1>7, <1>8, <1>9, <1>10 DEF Next

\* One attempt: a session that lost its connection gets it back, ends, or tries once more.
LEMMA RetriesAreCounted ==
  ASSUME NEW n \in Nat, NEW m \in Nat, m = n + 1
  PROVE  Spec /\ BoardFairness => (Trying(n) ~> RetriesEnd \/ Trying(m))
<1> DEFINE Out == RetriesEnd \/ Trying(m)
           World == IInv /\ Alternates /\ [Next]_vars /\ ~Out /\ ~Out'
           Waits == Trying(n) /\ Idle
           Begins == Trying(n) /\ Starting
           Shakes == Trying(n) /\ Shaking
<1>1. World /\ Waits => timer /\ (Waits' \/ Begins') /\ (<<TimerFires>>_vars => Begins' /\ ~Waits')
  <2>1. Starting' => ~Idle'
    BY DEF Starting, Idle
  <2> QED BY <2>1, RetriesStep
<1>2. World /\ Begins => /\ Begins' \/ Shakes'
                         /\ <<StartFails \/ StartEnds>>_vars => Shakes' /\ ~Begins'
  <2>1. Shaking' => ~Starting'
    BY DEF Starting, Shaking
  <2> QED BY <2>1, RetriesStep
<1>3. World /\ Shakes => Shakes' /\ ~<<Opened \/ HandshakeFails>>_vars
  BY RetriesStep
<1>4. IInv /\ Trying(n) => Waits \/ Begins \/ Shakes \/ (Trying(n) /\ Abandoned)
  BY DEF IInv, Inv, TypeOK, Idle, Starting, Shaking, Abandoned
<1>5. Alternates => ~(Trying(n) /\ Abandoned)
  BY DEF Alternates, Trying, Abandoned
<1>6. (Begins => attempt = "starting") /\ (Shakes => attempt = "handshake")
  BY DEF Starting, Shaking
<1> DEFINE Always == []IInv /\ []Alternates /\ [][Next]_vars
<1> HIDE DEF Out, Waits, Begins, Shakes
<1>7. Always /\ BoardFairness => (Shakes ~> Out)
  BY <1>3, <1>6, PTL DEF BoardFairness
<1>8. Always /\ BoardFairness => (Begins ~> Shakes \/ Out)
  BY <1>2, <1>6, PTL DEF BoardFairness
<1>9. Always /\ BoardFairness => (Waits ~> Begins \/ Out)
  BY <1>1, PTL DEF BoardFairness
<1>10. Init => Alternates
  BY DEF Init, Alternates
<1>11. Spec => Always
  BY <1>10, AlternatesStep, Invariance, PTL DEF Spec
<1>12. Spec /\ BoardFairness => (Trying(n) ~> Out)
  BY <1>4, <1>5, <1>7, <1>8, <1>9, <1>11, PTL
<1> QED
  BY <1>12 DEF Out

\* Four attempts.
LEMMA FourRetriesAreCounted ==
  ASSUME NEW j \in Nat, NEW k \in Nat, k = j + 4
  PROVE  Spec /\ BoardFairness => (Trying(j) ~> RetriesEnd \/ Trying(k))
<1> DEFINE World == Spec /\ BoardFairness
<1>0. PICK a \in Nat, b \in Nat, c \in Nat : a = j + 1 /\ b = j + 2 /\ c = j + 3
  OBVIOUS
<1>1. World => (Trying(j) ~> RetriesEnd \/ Trying(a))
  <2>1. PICK n \in Nat, m \in Nat : n = j /\ m = n + 1
    BY <1>0
  <2>2. World => (Trying(n) ~> RetriesEnd \/ Trying(m))
    BY <2>1, RetriesAreCounted
  <2>3. (Trying(n) <=> Trying(j)) /\ (Trying(m) <=> Trying(a))
    BY <1>0, <2>1
  <2> QED BY <2>2, <2>3, PTL
<1>2. World => (Trying(a) ~> RetriesEnd \/ Trying(b))
  <2>1. PICK n \in Nat, m \in Nat : n = a /\ m = n + 1
    BY <1>0
  <2>2. World => (Trying(n) ~> RetriesEnd \/ Trying(m))
    BY <2>1, RetriesAreCounted
  <2>3. (Trying(n) <=> Trying(a)) /\ (Trying(m) <=> Trying(b))
    BY <1>0, <2>1
  <2> QED BY <2>2, <2>3, PTL
<1>3. World => (Trying(b) ~> RetriesEnd \/ Trying(c))
  <2>1. PICK n \in Nat, m \in Nat : n = b /\ m = n + 1
    BY <1>0
  <2>2. World => (Trying(n) ~> RetriesEnd \/ Trying(m))
    BY <2>1, RetriesAreCounted
  <2>3. (Trying(n) <=> Trying(b)) /\ (Trying(m) <=> Trying(c))
    BY <1>0, <2>1
  <2> QED BY <2>2, <2>3, PTL
<1>4. World => (Trying(c) ~> RetriesEnd \/ Trying(k))
  <2>1. PICK n \in Nat, m \in Nat : n = c /\ m = n + 1
    BY <1>0
  <2>2. World => (Trying(n) ~> RetriesEnd \/ Trying(m))
    BY <2>1, RetriesAreCounted
  <2>3. (Trying(n) <=> Trying(c)) /\ (Trying(m) <=> Trying(k))
    BY <1>0, <2>1
  <2> QED BY <2>2, <2>3, PTL
<1> QED
  BY <1>1, <1>2, <1>3, <1>4, PTL

\* With the ten attempts that the code allows, no connect() lasts for ever, and a lost connection comes
\* back, or the session ends, or as many attempts have failed as there may.
THEOREM RetriesComeToAnEnd ==
  ASSUME MaxAttempts <= 10
  PROVE  Spec /\ BoardFairness => AttemptsEnd
<1> DEFINE World == Spec /\ BoardFairness
<1>1. World => (Trying(0) ~> RetriesEnd \/ Trying(4))
  <2>1. PICK j \in Nat, k \in Nat : j = 0 /\ k = j + 4
    OBVIOUS
  <2>2. World => (Trying(j) ~> RetriesEnd \/ Trying(k))
    BY <2>1, FourRetriesAreCounted
  <2>3. (Trying(j) <=> Trying(0)) /\ (Trying(k) <=> Trying(4))
    BY <2>1
  <2> QED BY <2>2, <2>3, PTL
<1>2. World => (Trying(4) ~> RetriesEnd \/ Trying(8))
  <2>1. PICK j \in Nat, k \in Nat : j = 4 /\ k = j + 4
    OBVIOUS
  <2>2. World => (Trying(j) ~> RetriesEnd \/ Trying(k))
    BY <2>1, FourRetriesAreCounted
  <2>3. (Trying(j) <=> Trying(4)) /\ (Trying(k) <=> Trying(8))
    BY <2>1
  <2> QED BY <2>2, <2>3, PTL
<1>3. World => (Trying(8) ~> RetriesEnd \/ Trying(12))
  <2>1. PICK j \in Nat, k \in Nat : j = 8 /\ k = j + 4
    OBVIOUS
  <2>2. World => (Trying(j) ~> RetriesEnd \/ Trying(k))
    BY <2>1, FourRetriesAreCounted
  <2>3. (Trying(j) <=> Trying(8)) /\ (Trying(k) <=> Trying(12))
    BY <2>1
  <2> QED BY <2>2, <2>3, PTL
<1>4. IInv /\ Trying(12) => RetriesEnd
  BY BoardClientAssumption DEF BoardClientAssumption, Trying, RetriesEnd, IInv, Inv, TypeOK
<1>5. IInv /\ session /\ ~shuttingDown /\ AutoConnect /\ connectionState = "disconnected" => Trying(0)
  BY BoardClientAssumption DEF BoardClientAssumption, Trying, IInv, Inv, TypeOK
<1>6. RetriesEnd <=> connectionState = "connected" \/ attempts > MaxAttempts \/ ~session
  BY DEF RetriesEnd
<1> QED
  BY <1>1, <1>2, <1>3, <1>4, <1>5, <1>6, AttemptsAreOver, Invariance, PTL DEF AttemptsEnd


============================================================================
