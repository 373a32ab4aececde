-------------------------- MODULE OwnershipProofs --------------------------
(***************************************************************************)
(* Theorems about Ownership for any number of tasks, workers and epics.    *)
(*                                                                         *)
(* Every step either leaves a task's record alone or takes its assignee    *)
(* away (Drops), except a claim, which gives one active task to a worker   *)
(* that holds no other (Claims).  From this dichotomy follow both the      *)
(* invariants of the task records and the refinement of Lease.             *)
(*                                                                         *)
(* The pointers of the workers are an invariant of their own: a step       *)
(* keeps them at tasks on record, or deletes a task and clears each        *)
(* pointer to it.  What the sweep spares follows from the invariants in    *)
(* one state, and what becomes of an evicted worker from the one action    *)
(* that hands a task on.  That a dangling assignment ends needs nothing but *)
(* what one sweep does, and that sweeps recur (SweepFairness).             *)
(***************************************************************************)
EXTENDS Ownership, TLAPS

\* No assignment is made: a task keeps its column and assignee or has no assignee now.
Drops ==
  \A u \in Task : task'[u] = task[u] \/ task'[u].assignedWorkerId = Nobody

\* One assignment is made, of an active task, to a worker that holds at most that one; others
\* may be taken away on the way.
Claims ==
  \E w \in Worker, t \in Task, skipped \in SUBSET Task :
    /\ HeldBy(w) \subseteq {t}
    /\ task[t].status \in ActiveAssignment
    /\ task' = Assigned(w, t, skipped)

----------------------------------------------------------------------------
(* The types of what the shared helpers return. *)

LEMMA ReleaseStatus ==
  ASSUME NEW t \in Task, NEW done
  PROVE  NextStatusForRelease(t, done) \in Columns
BY DEF NextStatusForRelease, Columns

LEMMA LetGoType ==
  ASSUME TypeOK, NEW t, NEW s
  PROVE  LetGo(t, s) \in [Worker -> WorkerRecord]
BY DEF TypeOK, LetGo, WorkerRecord, WorkerStatuses

LEMMA TouchedType ==
  ASSUME NEW W \in [Worker -> WorkerRecord], NEW c,
         NEW s \in WorkerStatuses, NEW t \in Task \cup {NoTask}
  PROVE  Touched(W, c, s, t) \in [Worker -> WorkerRecord]
BY DEF Touched, WorkerRecord

LEMMA LandsType ==
  ASSUME TypeOK,
         NEW first \in [Worker -> WorkerRecord],
         NEW last \in [Worker -> WorkerRecord],
         Lands(first, last)
  PROVE  worker' \in [Worker -> WorkerRecord]
BY DEF TypeOK, Lands

----------------------------------------------------------------------------
(* What each action does to the task records. *)

\* What archiving an epic writes, wherever a failing write ends it.
LEMMA ArchiveWrites ==
  ASSUME TypeOK, NEW e, ArchiveEpic(e)
  PROVE  /\ TypeOK'
         /\ \A t \in Task : task'[t] = task[t]
                          \/ task'[t] = [status |-> "ARCHIVED", assignedWorkerId |-> Nobody]
         /\ \A w \in Worker : worker'[w] = worker[w] \/ worker'[w].currentTaskId = NoTask
         /\ \A w \in Worker : worker'[w].status \in {worker[w].status, "IDLE"}
<1> DEFINE cards == {t \in Task : EpicOf[t] = e /\ Exists(t) /\ task[t].status # "ARCHIVED"}
<1>1. PICK left \in Losses(cards) :
        /\ task' = [t \in Task |->
                      IF t \in cards \ left
                      THEN [status |-> "ARCHIVED", assignedWorkerId |-> Nobody]
                      ELSE task[t]]
        /\ \E stuck \in LastLost(cards \ left) :
             worker' = [w \in Worker |->
                          IF \E t \in cards \ left :
                               Owner(t) = w /\ worker[w].currentTaskId = t /\ t \notin stuck
                          THEN [worker[w] EXCEPT !.currentTaskId = NoTask,
                                                 !.status = IF @ \in TaskBound THEN "IDLE" ELSE @]
                          ELSE worker[w]]
  BY DEF ArchiveEpic
<1>2. PICK stuck \in LastLost(cards \ left) :
        worker' = [w \in Worker |->
                     IF \E t \in cards \ left :
                          Owner(t) = w /\ worker[w].currentTaskId = t /\ t \notin stuck
                     THEN [worker[w] EXCEPT !.currentTaskId = NoTask,
                                            !.status = IF @ \in TaskBound THEN "IDLE" ELSE @]
                     ELSE worker[w]]
  BY <1>1
<1> DEFINE hit == {w \in Worker : \E t \in cards \ left :
                      Owner(t) = w /\ worker[w].currentTaskId = t /\ t \notin stuck}
<1>3. worker' = [w \in Worker |->
                   IF w \in hit
                   THEN [worker[w] EXCEPT !.currentTaskId = NoTask,
                                          !.status = IF @ \in TaskBound THEN "IDLE" ELSE @]
                   ELSE worker[w]]
  BY <1>2
<1> HIDE DEF hit, cards
<1>4. \A t \in Task : task'[t] = task[t]
                    \/ task'[t] = [status |-> "ARCHIVED", assignedWorkerId |-> Nobody]
  BY <1>1
<1>5. \A w \in Worker : /\ worker'[w] = worker[w] \/ worker'[w].currentTaskId = NoTask
                      /\ worker'[w].status \in {worker[w].status, "IDLE"}
  BY <1>3 DEF TypeOK, WorkerRecord
<1>6. task' \in [Task -> TaskRecord]
  BY <1>1 DEF TypeOK, TaskRecord, Columns
<1>7. worker' \in [Worker -> WorkerRecord]
  BY <1>3 DEF TypeOK, WorkerRecord, WorkerStatuses
<1> QED BY <1>4, <1>5, <1>6, <1>7 DEF TypeOK

LEMMA BoardDrops ==
  ASSUME TypeOK, BoardStep
  PROVE  Drops
<1>1. ASSUME NEW t \in Task, NEW s \in Columns, CreateTask(t, s) PROVE Drops
  BY <1>1 DEF CreateTask, Drops, TypeOK, TaskRecord
<1>2. ASSUME NEW t \in Task, NEW s \in Columns, MoveCard(t, s) PROVE Drops
  BY <1>2 DEF MoveCard, Moved, Drops, TypeOK, TaskRecord, Owner
<1>3. ASSUME NEW t \in Task, DeleteTask(t) PROVE Drops
  BY <1>3 DEF DeleteTask, NoTaskRecord, Drops, TypeOK, TaskRecord
<1>4. ASSUME NEW e \in Epic, ArchiveEpic(e) PROVE Drops
  BY <1>4, ArchiveWrites DEF Drops
<1>5. QED
  BY <1>1, <1>2, <1>3, <1>4 DEF BoardStep

LEMMA ClaimClaims ==
  ASSUME TypeOK, ClaimStep
  PROVE  Claims \/ Drops
<1>1. ASSUME NEW w \in Worker, NEW t \in Task, NEW replace \in BOOLEAN,
             NEW skipped \in SUBSET Skippable(w), ClaimNext(w, t, replace, skipped)
      PROVE  Claims
  BY <1>1 DEF ClaimNext, FreeToClaim, Claims, Skippable
<1>2. ASSUME NEW w \in Worker, NEW t \in Task, NEW replace \in BOOLEAN, ClaimNamed(w, t, replace)
      PROVE  Claims
  BY <1>2 DEF ClaimNamed, FreeToClaim, Claims
<1>3. ASSUME NEW w \in Worker, NEW t \in Task, ClaimReplacing(w, t) PROVE Claims
  BY <1>3 DEF ClaimReplacing, FreeToClaim, Claims
<1>4. ASSUME NEW w \in Worker, NEW skipped, ClaimFindsTaken(w, skipped) PROVE Drops
  BY <1>4 DEF ClaimFindsTaken, Drops, TypeOK, TaskRecord
<1>5. QED
  BY <1>1, <1>2, <1>3, <1>4 DEF ClaimStep

LEMMA HandOverDrops ==
  ASSUME TypeOK, NEW c, NEW t \in Task, NEW s, HandOver(c, t, s)
  PROVE  Drops
BY DEF HandOver, Drops, TypeOK, TaskRecord

LEMMA AgentDrops ==
  ASSUME TypeOK, AgentStep
  PROVE  Drops
<1> SUFFICES ASSUME NEW c \in Worker \cup {Nobody}, NEW t \in Task,
                    \/ SubmitPlan(c, t)
                    \/ WorkOnStep(c, t)
                    \/ CompleteTask(c, t)
                    \/ QaApprove(c, t)
                    \/ QaReject(c, t)
                    \/ RequestReplan(c, t)
                    \/ ReportBlocked(c, t)
             PROVE  Drops
  BY DEF AgentStep
<1>1. CASE SubmitPlan(c, t)
  BY <1>1 DEF SubmitPlan, Drops, TypeOK, TaskRecord
<1>2. CASE WorkOnStep(c, t)
  BY <1>2 DEF WorkOnStep, Drops
<1>3. CASE CompleteTask(c, t)
  BY <1>3, HandOverDrops DEF CompleteTask
<1>4. CASE QaApprove(c, t)
  BY <1>4, HandOverDrops DEF QaApprove
<1>5. CASE QaReject(c, t)
  BY <1>5, HandOverDrops DEF QaReject
<1>6. CASE RequestReplan(c, t)
  BY <1>6 DEF RequestReplan, Moved, Drops, TypeOK, TaskRecord, Owner
<1>7. CASE ReportBlocked(c, t)
  BY <1>7 DEF ReportBlocked, Drops
<1>8. QED
  BY <1>1, <1>2, <1>3, <1>4, <1>5, <1>6, <1>7

LEMMA ReleaseDrops ==
  ASSUME TypeOK, ReleaseStep
  PROVE  Drops
<1>1. ASSUME NEW t \in Task, NEW done, NEW parked, ReleaseTask(t, done, parked) PROVE Drops
  BY <1>1 DEF ReleaseTask, Drops, TypeOK, TaskRecord
<1>2. ASSUME NEW t \in Task, ReleaseUnassigned(t) PROVE Drops
  BY <1>2 DEF ReleaseUnassigned, Drops, Owner, TypeOK, TaskRecord
<1>3. ASSUME NEW w \in Worker, NEW done, UnblockAndRelease(w, done) PROVE Drops
  BY <1>3 DEF UnblockAndRelease, HeldBy, ReleaseAll, Drops
<1>4. ASSUME NEW w \in Worker, NEW done, EnterGovernance(w, done) PROVE Drops
  BY <1>4 DEF EnterGovernance, ReleaseAll, Drops
<1>5. ASSUME NEW w \in Worker, NEW done, DeregisterWorker(w, done) PROVE Drops
  BY <1>5 DEF DeregisterWorker, ReleaseAll, Drops
<1>6. QED
  BY <1>1, <1>2, <1>3, <1>4, <1>5 DEF ReleaseStep

LEMMA WorkerDrops ==
  ASSUME TypeOK, WorkerStep
  PROVE  Drops
<1>1. ASSUME NEW w \in Worker, NEW role, JoinTeam(w, role) PROVE Drops
  BY <1>1 DEF JoinTeam, Drops
<1>2. ASSUME NEW w \in Worker, LeaveTeam(w) \/ UnblockAndRetry(w) PROVE Drops
  BY <1>2 DEF LeaveTeam, UnblockAndRetry, Drops
<1>3. ASSUME NEW g \in Worker, NEW t \in Task, BlockPlan(g, t) PROVE Drops
  BY <1>3 DEF BlockPlan, Moved, Drops, TypeOK, TaskRecord, Owner
<1>4. QED
  BY <1>1, <1>2, <1>3 DEF WorkerStep

\* The first phase, and the second for whichever cards it gets to: tasks are freed, none given away,
\* no card goes missing, and a pointer that changes is cleared.
LEMMA TimeoutPhase ==
  ASSUME TypeOK, NEW blockedOver
  PROVE  LET S == AfterTimeout(blockedOver) IN
         /\ S.tasks \in [Task -> TaskRecord] /\ S.workers \in [Worker -> WorkerRecord]
         /\ \A t \in Task : S.tasks[t] = task[t]
                          \/ S.tasks[t] = [status |-> "BACKLOG", assignedWorkerId |-> Nobody]
         /\ \A w \in Worker : S.workers[w] = worker[w] \/ S.workers[w].currentTaskId = NoTask
         /\ \A w \in Worker : S.workers[w].status \in {worker[w].status, "IDLE"}
<1> DEFINE S == AfterTimeout(blockedOver)
<1>1. S.tasks \in [Task -> TaskRecord]
  BY DEF AfterTimeout, TypeOK, TaskRecord, Columns
<1>2. S.workers \in [Worker -> WorkerRecord]
  BY DEF AfterTimeout, TypeOK, WorkerRecord, WorkerStatuses
<1>3. \A t \in Task : S.tasks[t] = task[t]
                    \/ S.tasks[t] = [status |-> "BACKLOG", assignedWorkerId |-> Nobody]
  BY DEF AfterTimeout
<1>4. \A w \in Worker : S.workers[w] = worker[w] \/ S.workers[w].currentTaskId = NoTask
  BY DEF AfterTimeout, TypeOK, WorkerRecord
<1>5. \A w \in Worker : S.workers[w].status \in {worker[w].status, "IDLE"}
  BY DEF AfterTimeout, TypeOK, WorkerRecord
<1> QED BY <1>1, <1>2, <1>3, <1>4, <1>5

LEMMA HealPhase ==
  ASSUME NEW S, S.tasks \in [Task -> TaskRecord], S.workers \in [Worker -> WorkerRecord],
         NEW cards, NEW stuck
  PROVE  LET H == Healed(S, cards, stuck) IN
         /\ H.tasks \in [Task -> TaskRecord] /\ H.workers \in [Worker -> WorkerRecord]
         /\ \A t \in Task : H.tasks[t].status = S.tasks[t].status
         /\ \A t \in Task : H.tasks[t] = S.tasks[t] \/ H.tasks[t].assignedWorkerId = Nobody
         /\ \A w \in Worker : H.workers[w] = S.workers[w] \/ H.workers[w].currentTaskId = NoTask
         /\ \A w \in Worker : H.workers[w].status = S.workers[w].status
<1> DEFINE H == Healed(S, cards, stuck)
<1>1. H.tasks \in [Task -> TaskRecord] /\ H.workers \in [Worker -> WorkerRecord]
  BY DEF Healed, TaskRecord, WorkerRecord
<1>2. \A t \in Task : H.tasks[t].status = S.tasks[t].status
  BY DEF Healed, TaskRecord
<1>3. \A t \in Task : H.tasks[t] = S.tasks[t] \/ H.tasks[t].assignedWorkerId = Nobody
  BY DEF Healed, TaskRecord
<1>4. \A w \in Worker : H.workers[w] = S.workers[w] \/ H.workers[w].currentTaskId = NoTask
  BY DEF Healed, WorkerRecord
<1>5. \A w \in Worker : H.workers[w].status = S.workers[w].status
  BY DEF Healed, WorkerRecord
<1> HIDE DEF H
<1> QED BY <1>1, <1>2, <1>3, <1>4, <1>5 DEF H

\* A sweep frees tasks and gives none away, however far it gets.
LEMMA SweepDrops ==
  ASSUME TypeOK, SweepStep
  PROVE  Drops
<1>1. ASSUME NEW blockedOver, NEW reviewOver, NEW staleOver, NEW done, NEW lost,
             Sweep(blockedOver, reviewOver, staleOver, done, lost)
      PROVE  Drops
  <2> DEFINE S1 == AfterTimeout(blockedOver)
             S2 == AfterReviewHeal(S1, reviewOver \ TimedOut(blockedOver))
  <2>1. \A u \in Task : task[u] = S2.tasks[u] \/ S2.tasks[u].assignedWorkerId = Nobody
    BY TimeoutPhase, HealPhase DEF AfterReviewHeal
  <2>2. \A u \in Task : task'[u] = S2.tasks[u] \/ task'[u].assignedWorkerId = Nobody
    BY <1>1 DEF Sweep, AfterSweep, AfterPrune
  <2> QED BY <2>1, <2>2 DEF Drops
<1>2. ASSUME NEW through, NEW w \in Worker, NEW parked, SweepStopsInTimeout(through, w, parked)
      PROVE  Drops
  BY <1>2, TimeoutPhase DEF SweepStopsInTimeout, Drops
<1>3. ASSUME NEW blockedOver, NEW reviewOver, SweepStopsInHeal(blockedOver, reviewOver) PROVE Drops
  <2>1. PICK cards, stuck : task' = Healed(AfterTimeout(blockedOver), cards, stuck).tasks
    BY <1>3 DEF SweepStopsInHeal
  <2> QED BY <2>1, TimeoutPhase, HealPhase DEF Drops
<1> QED BY <1>1, <1>2, <1>3 DEF SweepStep, BlockedWorkers

LEMMA RestartDrops ==
  ASSUME NEW done, Restart(done)
  PROVE  Drops
BY DEF Restart, Drops

\* The dichotomy: a step of any handler drops assignments or makes one.
LEMMA DropsOrClaims ==
  ASSUME TypeOK, [Next]_vars
  PROVE  Drops \/ Claims
<1>1. CASE UNCHANGED vars
  BY <1>1 DEF vars, Drops
<1>2. CASE Next
  BY <1>2, BoardDrops, ClaimClaims, AgentDrops, ReleaseDrops, WorkerDrops, SweepDrops, RestartDrops
     DEF Next
<1>3. QED
  BY <1>1, <1>2

----------------------------------------------------------------------------
(* Type correctness. *)

LEMMA BoardType ==
  ASSUME TypeOK, BoardStep
  PROVE  TypeOK'
<1>1. ASSUME NEW t \in Task, NEW s \in Columns, CreateTask(t, s) PROVE TypeOK'
  BY <1>1 DEF CreateTask, TypeOK, TaskRecord
<1>2. ASSUME NEW t \in Task, NEW s \in Columns, MoveCard(t, s) PROVE TypeOK'
  <2>1. task' \in [Task -> TaskRecord]
    BY <1>2 DEF MoveCard, Moved, TypeOK, TaskRecord, Owner
  <2>2. worker' \in [Worker -> WorkerRecord]
    BY <1>2, LetGoType, LandsType DEF MoveCard, TypeOK
  <2>3. QED
    BY <2>1, <2>2 DEF TypeOK
<1>3. ASSUME NEW t \in Task, DeleteTask(t) PROVE TypeOK'
  <2>1. task' \in [Task -> TaskRecord]
    BY <1>3 DEF DeleteTask, NoTaskRecord, TypeOK, TaskRecord
  <2>2. PICK idled : worker' = [w \in Worker |->
                                 IF w \in idled
                                 THEN [worker[w] EXCEPT !.currentTaskId = NoTask, !.status = "IDLE"]
                                 ELSE worker[w]]
    BY <1>3 DEF DeleteTask
  <2>3. worker' \in [Worker -> WorkerRecord]
    BY <2>2 DEF TypeOK, WorkerRecord, WorkerStatuses
  <2> QED BY <2>1, <2>3 DEF TypeOK
<1>4. ASSUME NEW e \in Epic, ArchiveEpic(e) PROVE TypeOK'
  BY <1>4, ArchiveWrites
<1>5. QED
  BY <1>1, <1>2, <1>3, <1>4 DEF BoardStep

\* The claimer's record is well typed whatever record it had.
LEMMA ClaimedType ==
  ASSUME NEW W \in [Worker -> WorkerRecord], NEW w \in Worker, NEW t \in Task
  PROVE  Claimed(W, w, t) \in [Worker -> WorkerRecord]
BY DEF Claimed, WorkerRecord, WorkerStatuses

LEMMA AssignedType ==
  ASSUME TypeOK, NEW w \in Worker, NEW t \in Task, NEW skipped
  PROVE  Assigned(w, t, skipped) \in [Task -> TaskRecord]
BY DEF Assigned, TypeOK, TaskRecord

LEMMA ClaimType ==
  ASSUME TypeOK, ClaimStep
  PROVE  TypeOK'
<1> SUFFICES ASSUME NEW w \in Worker,
                    \/ \E t \in Task, replace \in BOOLEAN, skipped \in SUBSET Skippable(w) :
                         ClaimNext(w, t, replace, skipped)
                    \/ \E skipped \in SUBSET Skippable(w) : ClaimFindsTaken(w, skipped)
                    \/ \E t \in Task, replace \in BOOLEAN : ClaimNamed(w, t, replace)
                    \/ \E t \in Task : ClaimReplacing(w, t)
             PROVE  TypeOK'
  BY DEF ClaimStep
<1>1. /\ worker \in [Worker -> WorkerRecord]
      /\ \A t \in Task : Claimed(worker, w, t) \in [Worker -> WorkerRecord]
  BY ClaimedType DEF TypeOK
<1>2. ASSUME NEW t \in Task, NEW replace, NEW skipped, ClaimNext(w, t, replace, skipped)
      PROVE  TypeOK'
  BY <1>1, <1>2, AssignedType, LandsType DEF ClaimNext, TypeOK
<1>3. ASSUME NEW skipped, ClaimFindsTaken(w, skipped) PROVE TypeOK'
  BY <1>3 DEF ClaimFindsTaken, TypeOK, TaskRecord
<1>4. ASSUME NEW t \in Task, NEW replace, ClaimNamed(w, t, replace) PROVE TypeOK'
  BY <1>1, <1>4, AssignedType, LandsType DEF ClaimNamed, TypeOK
<1>5. ASSUME NEW t \in Task, ClaimReplacing(w, t) PROVE TypeOK'
  <2>1. task' \in [Task -> TaskRecord]
    BY <1>5, AssignedType DEF ClaimReplacing
  <2>2. Touched(worker, Owner(t), "IDLE", NoTask) \in [Worker -> WorkerRecord]
    BY <1>1, TouchedType DEF WorkerStatuses
  <2>3. PICK evicted \in [Worker -> WorkerRecord] : Lands(evicted, Claimed(evicted, w, t))
    BY <1>1, <1>5, <2>2 DEF ClaimReplacing
  <2>4. Claimed(evicted, w, t) \in [Worker -> WorkerRecord]
    BY <2>3, ClaimedType
  <2>5. worker' \in [Worker -> WorkerRecord]
    BY <2>3, <2>4, LandsType
  <2>6. QED
    BY <2>1, <2>5 DEF TypeOK
<1>6. QED
  BY <1>2, <1>3, <1>4, <1>5

\* The common last write: the dropped owner let go, whoever handed over idled.
LEMMA HandedOverType ==
  ASSUME TypeOK, NEW t \in Task, NEW s, NEW who,
         Lands(LetGo(t, s), Touched(LetGo(t, s), who, "IDLE", NoTask))
  PROVE  worker' \in [Worker -> WorkerRecord]
<1>1. LetGo(t, s) \in [Worker -> WorkerRecord]
  BY LetGoType
<1>2. Touched(LetGo(t, s), who, "IDLE", NoTask) \in [Worker -> WorkerRecord]
  BY <1>1, TouchedType DEF WorkerStatuses
<1>3. QED
  BY <1>1, <1>2, LandsType

LEMMA HandOverType ==
  ASSUME TypeOK, NEW c, NEW t \in Task, NEW s \in Columns, HandOver(c, t, s)
  PROVE  TypeOK'
<1>1. task' \in [Task -> TaskRecord]
  BY DEF HandOver, TypeOK, TaskRecord
<1>2. worker' \in [Worker -> WorkerRecord]
  BY HandedOverType DEF HandOver
<1>3. QED
  BY <1>1, <1>2 DEF TypeOK

LEMMA AgentType ==
  ASSUME TypeOK, AgentStep
  PROVE  TypeOK'
<1> SUFFICES ASSUME NEW c \in Worker \cup {Nobody}, NEW t \in Task,
                    \/ SubmitPlan(c, t)
                    \/ WorkOnStep(c, t)
                    \/ CompleteTask(c, t)
                    \/ QaApprove(c, t)
                    \/ QaReject(c, t)
                    \/ RequestReplan(c, t)
                    \/ ReportBlocked(c, t)
             PROVE  TypeOK'
  BY DEF AgentStep
<1>1. CASE SubmitPlan(c, t)
  <2> DEFINE first == LetGo(t, "AWAITING_APPROVAL")
             last  == Touched(first, Handoff(c, t), "IDLE", NoTask)
  <2>1. task' \in [Task -> TaskRecord]
    BY <1>1 DEF SubmitPlan, TypeOK, TaskRecord, Columns
  <2>2. first \in [Worker -> WorkerRecord]
    BY LetGoType
  <2>3. last \in [Worker -> WorkerRecord]
    BY <2>2, TouchedType DEF WorkerStatuses
  <2>4. worker' = last \/ worker' = first \/ worker' = worker
    BY <1>1 DEF SubmitPlan
  <2>5. QED
    BY <2>1, <2>2, <2>3, <2>4 DEF TypeOK
<1>2. CASE WorkOnStep(c, t)
  BY <1>2, TouchedType DEF WorkOnStep, TypeOK, WorkerStatuses
<1>3. CASE CompleteTask(c, t)
  BY <1>3, HandOverType DEF CompleteTask, Columns
<1>4. CASE QaApprove(c, t)
  BY <1>4, HandOverType DEF QaApprove, Columns
<1>5. CASE QaReject(c, t)
  BY <1>5, HandOverType DEF QaReject, Columns
<1>6. CASE RequestReplan(c, t)
  <2>1. task' \in [Task -> TaskRecord]
    BY <1>6 DEF RequestReplan, Moved, TypeOK, TaskRecord, Columns, Owner
  <2>2. worker' \in [Worker -> WorkerRecord]
    BY <1>6, HandedOverType DEF RequestReplan
  <2>3. QED
    BY <2>1, <2>2 DEF TypeOK
<1>7. CASE ReportBlocked(c, t)
  BY <1>7 DEF ReportBlocked, TypeOK, WorkerRecord, WorkerStatuses
<1>8. QED
  BY <1>1, <1>2, <1>3, <1>4, <1>5, <1>6, <1>7

LEMMA ReleaseAllType ==
  ASSUME TypeOK, NEW w, NEW done
  PROVE  ReleaseAll(w, done) \in [Task -> TaskRecord]
BY ReleaseStatus DEF ReleaseAll, TypeOK, TaskRecord

LEMMA ReleaseType ==
  ASSUME TypeOK, ReleaseStep
  PROVE  TypeOK'
<1>1. ASSUME NEW t \in Task, NEW done, NEW parked, ReleaseTask(t, done, parked) PROVE TypeOK'
  <2> DEFINE freed == [worker EXCEPT ![Owner(t)].status = "IDLE",
                                     ![Owner(t)].currentTaskId = NoTask]
  <2>1. task' \in [Task -> TaskRecord]
    BY <1>1, ReleaseStatus DEF ReleaseTask, TypeOK, TaskRecord, Columns
  <2>2. worker \in [Worker -> WorkerRecord] /\ freed \in [Worker -> WorkerRecord]
    BY DEF TypeOK, WorkerRecord, WorkerStatuses
  <2>3. worker' \in [Worker -> WorkerRecord]
    BY <1>1, <2>2 DEF ReleaseTask, Lands
  <2>4. QED
    BY <2>1, <2>3 DEF TypeOK
<1>2. ASSUME NEW t \in Task, ReleaseUnassigned(t) PROVE TypeOK'
  BY <1>2 DEF ReleaseUnassigned, TypeOK, TaskRecord, Columns
<1>3. ASSUME NEW w \in Worker, NEW done, UnblockAndRelease(w, done) PROVE TypeOK'
  <2>1. task' \in [Task -> TaskRecord]
    BY <1>3, ReleaseAllType DEF UnblockAndRelease, TypeOK
  <2>2. worker' \in [Worker -> WorkerRecord]
    BY <1>3 DEF UnblockAndRelease, Lands, TypeOK, WorkerRecord, WorkerStatuses
  <2>3. QED
    BY <2>1, <2>2 DEF TypeOK
<1>4. ASSUME NEW w \in Worker, NEW done, EnterGovernance(w, done) PROVE TypeOK'
  <2>1. task' \in [Task -> TaskRecord]
    BY <1>4, ReleaseAllType DEF EnterGovernance, TypeOK
  <2>2. worker' \in [Worker -> WorkerRecord]
    BY <1>4 DEF EnterGovernance, Lands, TypeOK, WorkerRecord, WorkerStatuses
  <2>3. QED
    BY <2>1, <2>2 DEF TypeOK
<1>5. ASSUME NEW w \in Worker, NEW done, DeregisterWorker(w, done) PROVE TypeOK'
  <2>1. task' \in [Task -> TaskRecord]
    BY <1>5, ReleaseAllType DEF DeregisterWorker, TypeOK
  <2>2. worker' \in [Worker -> WorkerRecord]
    BY <1>5 DEF DeregisterWorker, Lands, TypeOK, WorkerRecord, WorkerStatuses
  <2>3. QED
    BY <2>1, <2>2 DEF TypeOK
<1>6. QED
  BY <1>1, <1>2, <1>3, <1>4, <1>5 DEF ReleaseStep

LEMMA WorkerType ==
  ASSUME TypeOK, WorkerStep
  PROVE  TypeOK'
<1>1. ASSUME NEW w \in Worker, NEW role \in {"member", "governor"}, JoinTeam(w, role) PROVE TypeOK'
  <2>1. worker[w].status \in WorkerStatuses \cup {"ABSENT"} /\ worker[w] \in WorkerRecord
    BY DEF TypeOK, WorkerRecord
  <2>2. worker'[w] \in WorkerRecord
    BY <1>1, <2>1 DEF JoinTeam, TypeOK, WorkerRecord, WorkerStatuses, Roles
  <2>3. worker' = [worker EXCEPT ![w] = worker'[w]]
    BY <1>1 DEF JoinTeam, TypeOK
  <2> QED BY <1>1, <2>2, <2>3 DEF JoinTeam, TypeOK
<1>2. ASSUME NEW w \in Worker, LeaveTeam(w) PROVE TypeOK'
  BY <1>2 DEF LeaveTeam, TypeOK, WorkerRecord, Roles
<1>3. ASSUME NEW w \in Worker, UnblockAndRetry(w) PROVE TypeOK'
  BY <1>3 DEF UnblockAndRetry, TypeOK, WorkerRecord, WorkerStatuses
<1>4. ASSUME NEW g \in Worker, NEW t \in Task, BlockPlan(g, t) PROVE TypeOK'
  <2>1. task' \in [Task -> TaskRecord]
    BY <1>4 DEF BlockPlan, Moved, TypeOK, TaskRecord, Columns, Owner
  <2>2. worker' \in [Worker -> WorkerRecord]
    BY <1>4, HandedOverType DEF BlockPlan
  <2>3. QED
    BY <2>1, <2>2 DEF TypeOK
<1>5. QED
  BY <1>1, <1>2, <1>3, <1>4 DEF WorkerStep

LEMMA SweepType ==
  ASSUME TypeOK, SweepStep
  PROVE  TypeOK'
<1>1. ASSUME NEW blockedOver, NEW reviewOver, NEW staleOver, NEW done, NEW lost,
             Sweep(blockedOver, reviewOver, staleOver, done, lost)
      PROVE  TypeOK'
  <2> DEFINE S1 == AfterTimeout(blockedOver)
             S2 == AfterReviewHeal(S1, reviewOver \ TimedOut(blockedOver))
  <2>1. S2.tasks \in [Task -> TaskRecord] /\ S2.workers \in [Worker -> WorkerRecord]
    BY TimeoutPhase, HealPhase DEF AfterReviewHeal
  <2>2. task' \in [Task -> TaskRecord]
    BY <1>1, <2>1 DEF Sweep, AfterSweep, AfterPrune, TaskRecord, Columns
  <2>3. worker' \in [Worker -> WorkerRecord]
    BY <1>1, <2>1 DEF Sweep, AfterSweep, AfterPrune, NoWorkerRecord, WorkerRecord, Roles
  <2> QED BY <2>2, <2>3 DEF TypeOK
<1>2. ASSUME NEW through, NEW w \in Worker, NEW parked, SweepStopsInTimeout(through, w, parked)
      PROVE  TypeOK'
  <2> DEFINE S == AfterTimeout(through)
  <2>1. S.tasks \in [Task -> TaskRecord] /\ S.workers \in [Worker -> WorkerRecord]
    BY TimeoutPhase
  <2>2. task' \in [Task -> TaskRecord]
    BY <1>2, <2>1 DEF SweepStopsInTimeout, TaskRecord, Columns
  <2>3. worker' \in [Worker -> WorkerRecord]
    BY <1>2, <2>1 DEF SweepStopsInTimeout, WorkerRecord
  <2> QED BY <2>2, <2>3 DEF TypeOK
<1>3. ASSUME NEW blockedOver, NEW reviewOver, SweepStopsInHeal(blockedOver, reviewOver) PROVE TypeOK'
  <2>1. PICK cards, stuck : /\ task' = Healed(AfterTimeout(blockedOver), cards, stuck).tasks
                            /\ worker' = Healed(AfterTimeout(blockedOver), cards, stuck).workers
    BY <1>3 DEF SweepStopsInHeal
  <2> QED BY <2>1, TimeoutPhase, HealPhase DEF TypeOK
<1> QED BY <1>1, <1>2, <1>3 DEF SweepStep, BlockedWorkers

LEMMA RestartType ==
  ASSUME TypeOK, NEW done, Restart(done)
  PROVE  TypeOK'
<1>1. task' \in [Task -> TaskRecord]
  BY ReleaseStatus DEF Restart, TypeOK, TaskRecord
<1>2. worker' \in [Worker -> WorkerRecord]
  BY DEF Restart, NoWorkerRecord, WorkerRecord, Roles
<1>3. QED
  BY <1>1, <1>2 DEF TypeOK

LEMMA TypeStep ==
  ASSUME TypeOK, [Next]_vars
  PROVE  TypeOK'
<1>1. CASE UNCHANGED vars
  BY <1>1 DEF vars, TypeOK
<1>2. CASE Next
  BY <1>2, BoardType, ClaimType, AgentType, ReleaseType, WorkerType, SweepType, RestartType DEF Next
<1>3. QED
  BY <1>1, <1>2

LEMMA TypeInit ==
  Init => TypeOK
BY DEF Init, TypeOK, NoTaskRecord, NoWorkerRecord, TaskRecord, WorkerRecord, Roles

\* The records of the daemon keep their types: no handler writes a column, a status or an id that
\* the schema does not know.
THEOREM TypeCorrect ==
  Spec => []TypeOK
BY TypeInit, TypeStep, PTL DEF Spec

----------------------------------------------------------------------------
(* The assignments.  OneTaskPerWorker is not inductive alone: the claim     *)
(* looks only at the active tasks of the worker, so it needs to know that   *)
(* every assigned task is active.                                           *)

IInv == TypeOK /\ OneTaskPerWorker /\ AssignedIsActive

LEMMA DropsKeepInv ==
  ASSUME IInv, Drops
  PROVE  OneTaskPerWorker' /\ AssignedIsActive'
<1>1. OneTaskPerWorker'
  BY DEF IInv, Drops, OneTaskPerWorker, Owner
<1>2. AssignedIsActive'
  BY DEF IInv, Drops, AssignedIsActive, Owner
<1>3. QED
  BY <1>1, <1>2

LEMMA ClaimsKeepInv ==
  ASSUME IInv, Claims
  PROVE  OneTaskPerWorker' /\ AssignedIsActive'
<1>1. PICK w \in Worker, t \in Task, skipped \in SUBSET Task :
        /\ HeldBy(w) \subseteq {t}
        /\ task[t].status \in ActiveAssignment
        /\ task' = Assigned(w, t, skipped)
  BY DEF Claims
<1>2. \A u \in Task \ {t} :
        /\ task'[u] = task[u] \/ task'[u].assignedWorkerId = Nobody
        /\ Owner(u) # w
  BY <1>1, NobodyAssumption DEF Assigned, HeldBy, IInv, AssignedIsActive, TypeOK, TaskRecord, Owner
<1>3. task'[t].status = task[t].status /\ task'[t].assignedWorkerId = w
  BY <1>1 DEF Assigned, IInv, TypeOK, TaskRecord
<1>4. OneTaskPerWorker'
  BY <1>2, <1>3 DEF IInv, OneTaskPerWorker, Owner
<1>5. AssignedIsActive'
  BY <1>1, <1>2, <1>3 DEF IInv, AssignedIsActive, Owner
<1>6. QED
  BY <1>4, <1>5

LEMMA InvInit ==
  Init => IInv
<1>1. Init => OneTaskPerWorker /\ AssignedIsActive
  BY DEF Init, OneTaskPerWorker, AssignedIsActive, Owner, NoTaskRecord
<1>2. QED
  BY <1>1, TypeInit DEF IInv

LEMMA InvStep ==
  IInv /\ [Next]_vars => IInv'
<1> SUFFICES ASSUME IInv, [Next]_vars PROVE IInv'
  OBVIOUS
<1>1. TypeOK'
  BY TypeStep DEF IInv
<1>2. Drops \/ Claims
  BY DropsOrClaims DEF IInv
<1>3. OneTaskPerWorker' /\ AssignedIsActive'
  BY <1>2, DropsKeepInv, ClaimsKeepInv
<1>4. QED
  BY <1>1, <1>3 DEF IInv

LEMMA InvAlways ==
  Spec => []IInv
BY InvInit, InvStep, PTL DEF Spec

\* One task per worker, for any number of both and whatever the disk does: no interleaving of
\* claims, replacements, releases, sweeps and restarts records a worker as the owner of two tasks.
THEOREM OneTaskEach ==
  Spec => []OneTaskPerWorker
BY InvAlways, PTL DEF IInv

\* An assignment never outlives its column: what is shelved, finished or deleted is held by nobody.
THEOREM ActiveOnly ==
  Spec => []AssignedIsActive
BY InvAlways, PTL DEF IInv

----------------------------------------------------------------------------
(* The daemon implements the lease.                                         *)

LEMMA LeaseInit ==
  Init => Leases!Init
BY DEF Init, Leases!Init, Owner, NoTaskRecord

LEMMA LeaseStep ==
  IInv /\ [Next]_vars => [Leases!Next]_([t \in Task |-> Owner(t)])
<1> SUFFICES ASSUME IInv, [Next]_vars PROVE Leases!Next
  OBVIOUS
<1> DEFINE holder == [t \in Task |-> Owner(t)]
<1>1. CASE Drops
  <2> DEFINE S == {t \in Task : task'[t].assignedWorkerId = Nobody}
  <2>1. holder' = [t \in Task |-> IF t \in S THEN Nobody ELSE holder[t]]
    BY <1>1 DEF Drops, Owner
  <2>2. Leases!Revoke(S)
    BY <2>1 DEF Leases!Revoke
  <2>3. QED
    BY <2>2 DEF Leases!Next
<1>2. CASE Claims
  <2>1. PICK w \in Worker, t \in Task, skipped \in SUBSET Task :
          /\ HeldBy(w) \subseteq {t}
          /\ task[t].status \in ActiveAssignment
          /\ task' = Assigned(w, t, skipped)
    BY <1>2 DEF Claims
  <2>2. \A u \in Task \ {t} : holder[u] # w
    BY <2>1, NobodyAssumption DEF HeldBy, IInv, AssignedIsActive, Owner
  <2>3. holder' = [u \in Task |-> IF u = t THEN w ELSE IF u \in skipped THEN Nobody ELSE holder[u]]
    BY <2>1 DEF Assigned, IInv, TypeOK, TaskRecord, Owner
  <2>4. Leases!Grant(t, w, skipped)
    BY <2>2, <2>3 DEF Leases!Grant
  <2>5. QED
    BY <2>4 DEF Leases!Next
<1>3. QED
  BY <1>1, <1>2, DropsOrClaims DEF IInv

\* Every handler, sweep, failed write and restart is a grant of one lease to a worker without
\* another, or a revocation: the daemon implements the lease it promises.
THEOREM ImplementsLease ==
  Spec => KeepsLease
BY LeaseInit, LeaseStep, InvAlways, PTL DEF Spec, KeepsLease, Leases!Spec

----------------------------------------------------------------------------
(* Owners are live while no write fails.  A step that drops assignments     *)
(* keeps the property if it leaves every remaining owner live (Spares).     *)

Live(W, w) == W[w].status \notin {"ABSENT", "DEAD", "GOVERNING"}

\* A worker that keeps a task, and was live, is live afterwards.
Spares ==
  \A t \in Task :
    Owner(t) # Nobody /\ Live(worker, Owner(t)) /\ Owner(t)' = Owner(t) => Live(worker', Owner(t))

LEMMA SparesKeepsLive ==
  ASSUME OwnersAreLive, Drops, Spares
  PROVE  OwnersAreLive'
BY DEF OwnersAreLive, Drops, Spares, Live, Owner

LEMMA LetGoSpares ==
  ASSUME TypeOK, NEW t, NEW s, NEW w \in Worker, Live(worker, w)
  PROVE  Live(LetGo(t, s), w)
BY DEF LetGo, Live, TypeOK, WorkerRecord

LEMMA TouchedSpares ==
  ASSUME NEW W \in [Worker -> WorkerRecord], NEW c, NEW s \in {"IDLE", "CODING"}, NEW t,
         NEW w \in Worker, Live(W, w)
  PROVE  Live(Touched(W, c, s, t), w)
BY DEF Touched, Live, WorkerRecord

LEMMA OwnerType ==
  ASSUME TypeOK, NEW t \in Task
  PROVE  Owner(t) \in Worker \cup {Nobody}
BY DEF TypeOK, TaskRecord, Owner

\* The common last write spares everyone.
LEMMA HandedOverSpares ==
  ASSUME TypeOK, FaultyDisk = FALSE, NEW t \in Task, NEW s, NEW who,
         Lands(LetGo(t, s), Touched(LetGo(t, s), who, "IDLE", NoTask))
  PROVE  Spares
<1>1. worker' = Touched(LetGo(t, s), who, "IDLE", NoTask)
  BY DEF Lands
<1>2. LetGo(t, s) \in [Worker -> WorkerRecord]
  BY LetGoType
<1>3. \A w \in Worker : Live(worker, w) => Live(worker', w)
  BY <1>1, <1>2, LetGoSpares, TouchedSpares
<1>4. QED
  BY <1>3, OwnerType DEF Spares

LEMMA BoardSpares ==
  ASSUME TypeOK, FaultyDisk = FALSE, BoardStep
  PROVE  Spares
<1>1. ASSUME NEW t \in Task, NEW s \in Columns, CreateTask(t, s) PROVE Spares
  BY <1>1 DEF CreateTask, Spares
<1>2. ASSUME NEW t \in Task, NEW s \in Columns, MoveCard(t, s) PROVE Spares
  <2>1. worker' = LetGo(t, s)
    BY <1>2 DEF MoveCard, Lands
  <2>2. QED
    BY <2>1, LetGoSpares, OwnerType DEF Spares
<1>3. ASSUME NEW t \in Task, DeleteTask(t) PROVE Spares
  BY <1>3, OwnerType DEF DeleteTask, Spares, Live, TypeOK, WorkerRecord
<1>4. ASSUME NEW e \in Epic, ArchiveEpic(e) PROVE Spares
  <2>1. \A w \in Worker : Live(worker, w) => Live(worker', w)
    BY <1>4, ArchiveWrites DEF Live
  <2> QED BY <2>1, OwnerType DEF Spares
<1>5. QED
  BY <1>1, <1>2, <1>3, <1>4 DEF BoardStep

LEMMA AgentSpares ==
  ASSUME TypeOK, FaultyDisk = FALSE, AgentStep
  PROVE  Spares
<1> SUFFICES ASSUME NEW c \in Worker \cup {Nobody}, NEW t \in Task,
                    \/ SubmitPlan(c, t)
                    \/ WorkOnStep(c, t)
                    \/ CompleteTask(c, t)
                    \/ QaApprove(c, t)
                    \/ QaReject(c, t)
                    \/ RequestReplan(c, t)
                    \/ ReportBlocked(c, t)
             PROVE  Spares
  BY DEF AgentStep
<1>1. CASE SubmitPlan(c, t)
  BY <1>1, HandedOverSpares DEF SubmitPlan, Lands
<1>2. CASE WorkOnStep(c, t)
  <2>1. worker' = Touched(worker, Handoff(c, t), "CODING", t) /\ worker \in [Worker -> WorkerRecord]
    BY <1>2 DEF WorkOnStep, TypeOK
  <2>2. QED
    BY <2>1, TouchedSpares, OwnerType DEF Spares
<1>3. CASE CompleteTask(c, t)
  BY <1>3, HandedOverSpares DEF CompleteTask, HandOver
<1>4. CASE QaApprove(c, t)
  BY <1>4, HandedOverSpares DEF QaApprove, HandOver
<1>5. CASE QaReject(c, t)
  BY <1>5, HandedOverSpares DEF QaReject, HandOver
<1>6. CASE RequestReplan(c, t)
  BY <1>6, HandedOverSpares DEF RequestReplan
<1>7. CASE ReportBlocked(c, t)
  BY <1>7, OwnerType DEF ReportBlocked, Spares, Live, TypeOK, WorkerRecord
<1>8. QED
  BY <1>1, <1>2, <1>3, <1>4, <1>5, <1>6, <1>7

LEMMA ReleaseSpares ==
  ASSUME TypeOK, FaultyDisk = FALSE, ReleaseStep
  PROVE  Spares
<1>1. ASSUME NEW t \in Task, NEW done, NEW parked, ReleaseTask(t, done, parked) PROVE Spares
  <2>1. Owner(t) \in Worker
    BY <1>1, OwnerType DEF ReleaseTask
  <2>2. worker' = worker \/ worker' = [worker EXCEPT ![Owner(t)].status = "IDLE",
                                                     ![Owner(t)].currentTaskId = NoTask]
    BY <1>1 DEF ReleaseTask, Lands
  <2>3. \A w \in Worker : Live(worker, w) => Live(worker', w)
    BY <2>1, <2>2 DEF Live, TypeOK, WorkerRecord
  <2>4. QED
    BY <2>3, OwnerType DEF Spares
<1>2. ASSUME NEW t \in Task, ReleaseUnassigned(t) PROVE Spares
  BY <1>2 DEF ReleaseUnassigned, Spares
<1>3. ASSUME NEW w \in Worker, NEW done, UnblockAndRelease(w, done) PROVE Spares
  BY <1>3, OwnerType DEF UnblockAndRelease, Lands, Spares, Live, TypeOK, WorkerRecord
<1>4. ASSUME NEW w \in Worker, NEW done, EnterGovernance(w, done) PROVE Spares
  <2>1. \A u \in Task : Owner(u) = w => Owner(u)' = Nobody
    BY <1>4 DEF EnterGovernance, ReleaseAll, Owner
  <2>2. \A v \in Worker \ {w} : worker'[v] = worker[v]
    BY <1>4 DEF EnterGovernance, Lands, TypeOK
  <2>3. QED
    BY <2>1, <2>2, OwnerType, NobodyAssumption DEF Spares, Live
<1>5. ASSUME NEW w \in Worker, NEW done, DeregisterWorker(w, done) PROVE Spares
  <2>1. \A u \in Task : Owner(u) = w => Owner(u)' = Nobody
    BY <1>5 DEF DeregisterWorker, ReleaseAll, Owner
  <2>2. \A v \in Worker \ {w} : worker'[v] = worker[v]
    BY <1>5 DEF DeregisterWorker, Lands, TypeOK
  <2>3. QED
    BY <2>1, <2>2, OwnerType, NobodyAssumption DEF Spares, Live
<1>6. QED
  BY <1>1, <1>2, <1>3, <1>4, <1>5 DEF ReleaseStep

LEMMA WorkerSpares ==
  ASSUME TypeOK, FaultyDisk = FALSE, WorkerStep
  PROVE  Spares
<1>1. ASSUME NEW w \in Worker, NEW role \in {"member", "governor"}, JoinTeam(w, role) PROVE Spares
  BY <1>1, OwnerType DEF JoinTeam, Spares, Live, TypeOK, WorkerRecord
<1>2. ASSUME NEW w \in Worker, LeaveTeam(w) PROVE Spares
  BY <1>2, OwnerType DEF LeaveTeam, Spares, Live, TypeOK, WorkerRecord
<1>3. ASSUME NEW w \in Worker, UnblockAndRetry(w) PROVE Spares
  BY <1>3, OwnerType DEF UnblockAndRetry, Spares, Live, TypeOK, WorkerRecord
<1>4. ASSUME NEW g \in Worker, NEW t \in Task, BlockPlan(g, t) PROVE Spares
  BY <1>4, HandedOverSpares DEF BlockPlan
<1>5. QED
  BY <1>1, <1>2, <1>3, <1>4 DEF WorkerStep

\* Whoever the sweep prunes, it frees first, when no write is lost.
LEMMA SweepSpares ==
  ASSUME TypeOK, FaultyDisk = FALSE, SweepStep
  PROVE  Spares
<1>1. PICK blockedOver, reviewOver, staleOver, done : Sweep(blockedOver, reviewOver, staleOver, done, {})
  BY DEF SweepStep, Losses, SweepStopsInTimeout, SweepStopsInHeal
<1> DEFINE S1 == AfterTimeout(blockedOver)
           S2 == AfterReviewHeal(S1, reviewOver \ TimedOut(blockedOver))
           gone == Pruned(S2, staleOver \ TimedOut(blockedOver))
<1>2. \A w \in Worker : Live(worker, w) => Live(S2.workers, w)
  BY TimeoutPhase, HealPhase DEF AfterReviewHeal, Live
<1>3. \A w \in Worker \ gone : worker'[w] = S2.workers[w]
  BY <1>1 DEF Sweep, AfterSweep, AfterPrune
<1>4. \A t \in Task : Owner(t)' # Nobody => Owner(t)' = S2.tasks[t].assignedWorkerId
                                            /\ Owner(t)' \notin gone
  BY <1>1 DEF Sweep, AfterSweep, AfterPrune, Owner
<1> QED BY <1>2, <1>3, <1>4, OwnerType DEF Spares, Live

LEMMA RestartSpares ==
  ASSUME TypeOK, NEW done, Restart(done)
  PROVE  Spares
BY DEF Restart, Spares, Owner

LEMMA ClaimKeepsLive ==
  ASSUME IInv, OwnersAreLive, FaultyDisk = FALSE, ClaimStep
  PROVE  OwnersAreLive'
<1> SUFFICES ASSUME NEW w \in Worker,
                    \/ \E t \in Task, replace \in BOOLEAN, skipped \in SUBSET Skippable(w) :
                         ClaimNext(w, t, replace, skipped)
                    \/ \E skipped \in SUBSET Skippable(w) : ClaimFindsTaken(w, skipped)
                    \/ \E t \in Task, replace \in BOOLEAN : ClaimNamed(w, t, replace)
                    \/ \E t \in Task : ClaimReplacing(w, t)
             PROVE  OwnersAreLive'
  BY DEF ClaimStep
<1> USE DEF IInv
<1>1. ASSUME NEW W \in [Worker -> WorkerRecord],
             \A v \in Worker : Live(worker, v) => Live(W, v),
             NEW t \in Task, NEW skipped,
             worker' = Claimed(W, w, t),
             task' = Assigned(w, t, skipped)
      PROVE  OwnersAreLive'
  <2>1. worker'[w].status = "READING_CONTEXT" /\ \A v \in Worker \ {w} : worker'[v] = W[v]
    BY <1>1 DEF Claimed, WorkerRecord
  <2>2. \A u \in Task : Owner(u)' \in {w, Nobody} \/ Owner(u)' = Owner(u)
    BY <1>1 DEF Assigned, TypeOK, TaskRecord, Owner
  <2>3. QED
    BY <1>1, <2>1, <2>2, OwnerType DEF OwnersAreLive, Live
<1>2. worker \in [Worker -> WorkerRecord]
  BY DEF TypeOK
<1>3. ASSUME NEW t \in Task, NEW replace, NEW skipped, ClaimNext(w, t, replace, skipped)
      PROVE  OwnersAreLive'
  BY <1>1, <1>2, <1>3 DEF ClaimNext, Lands
<1>4. ASSUME NEW skipped, ClaimFindsTaken(w, skipped) PROVE OwnersAreLive'
  BY <1>4 DEF ClaimFindsTaken, OwnersAreLive, TypeOK, TaskRecord, Owner
<1>5. ASSUME NEW t \in Task, NEW replace, ClaimNamed(w, t, replace) PROVE OwnersAreLive'
  BY <1>1, <1>2, <1>5 DEF ClaimNamed, Lands
<1>6. ASSUME NEW t \in Task, ClaimReplacing(w, t) PROVE OwnersAreLive'
  <2> DEFINE evicted == Touched(worker, Owner(t), "IDLE", NoTask)
  <2>1. evicted \in [Worker -> WorkerRecord]
    BY <1>2, TouchedType DEF WorkerStatuses
  <2>2. \A v \in Worker : Live(worker, v) => Live(evicted, v)
    BY <1>2, TouchedSpares
  <2>3. worker' = Claimed(evicted, w, t) /\ task' = Assigned(w, t, {})
    BY <1>6 DEF ClaimReplacing, Lands
  <2>4. QED
    BY <1>1, <2>1, <2>2, <2>3
<1>7. QED
  BY <1>3, <1>4, <1>5, <1>6

LEMMA LiveStep ==
  ASSUME FaultyDisk = FALSE, IInv, OwnersAreLive, [Next]_vars
  PROVE  OwnersAreLive'
<1> USE DEF IInv
<1>1. CASE UNCHANGED vars
  BY <1>1 DEF vars, OwnersAreLive, Owner
<1>2. CASE BoardStep
  BY <1>2, BoardDrops, BoardSpares, SparesKeepsLive
<1>3. CASE ClaimStep
  BY <1>3, ClaimKeepsLive
<1>4. CASE AgentStep
  BY <1>4, AgentDrops, AgentSpares, SparesKeepsLive
<1>5. CASE ReleaseStep
  BY <1>5, ReleaseDrops, ReleaseSpares, SparesKeepsLive
<1>6. CASE WorkerStep
  BY <1>6, WorkerDrops, WorkerSpares, SparesKeepsLive
<1>7. CASE SweepStep
  BY <1>7, SweepDrops, SweepSpares, SparesKeepsLive
<1>8. ASSUME NEW done, Restart(done) PROVE OwnersAreLive'
  BY <1>8, RestartDrops, RestartSpares, SparesKeepsLive
<1>9. QED
  BY <1>1, <1>2, <1>3, <1>4, <1>5, <1>6, <1>7, <1>8 DEF Next

\* While no write fails, a task is never left to a worker that is off the record, deregistered or
\* governing: each of these exits releases what the worker held before, or as, it takes effect.
THEOREM LiveOwners ==
  ASSUME FaultyDisk = FALSE
  PROVE  Spec => []OwnersAreLive
<1>1. Init => OwnersAreLive
  BY DEF Init, OwnersAreLive, Owner, NoTaskRecord
<1>2. IInv /\ OwnersAreLive /\ [Next]_vars => OwnersAreLive'
  BY LiveStep
<1>3. QED
  BY <1>1, <1>2, InvAlways, PTL DEF Spec

----------------------------------------------------------------------------
(* The workers' side.  A worker map points into S if whoever has a task in  *)
(* it has one of S, and is on record and not deregistered.  Every helper    *)
(* keeps that, and no handler but DeleteTask takes a task off the record.   *)

Existing == {t \in Task : Exists(t)}

PointsInto(W, S) ==
  \A w \in Worker : W[w].currentTaskId # NoTask =>
    W[w].currentTaskId \in S /\ W[w].status \notin {"ABSENT", "DEAD"}

\* What a step that deletes nothing does to the pointers.
KeepsPointers == Existing \subseteq Existing' /\ PointsInto(worker', Existing)

LEMMA ResolvesIsPointsInto ==
  ASSUME TypeOK
  PROVE  PointersResolve <=> PointsInto(worker, Existing)
BY DEF TypeOK, WorkerRecord, PointersResolve, PointsInto, Existing

LEMMA KeepsPointersResolves ==
  ASSUME TypeOK', KeepsPointers
  PROVE  PointersResolve'
BY DEF TypeOK, WorkerRecord, PointersResolve, PointsInto, Existing, KeepsPointers

LEMMA LetGoPoints ==
  ASSUME TypeOK, NEW S, PointsInto(worker, S), NEW t, NEW s
  PROVE  PointsInto(LetGo(t, s), S)
BY DEF LetGo, PointsInto, TypeOK, WorkerRecord

LEMMA TouchedPoints ==
  ASSUME NEW S, NEW W \in [Worker -> WorkerRecord], PointsInto(W, S),
         NEW c, NEW s \in {"IDLE", "CODING"}, NEW t \in S \cup {NoTask}
  PROVE  PointsInto(Touched(W, c, s, t), S)
BY DEF Touched, PointsInto, WorkerRecord

LEMMA ClaimedPoints ==
  ASSUME NEW S, NEW W \in [Worker -> WorkerRecord], PointsInto(W, S), NEW w \in Worker, NEW t \in S
  PROVE  PointsInto(Claimed(W, w, t), S)
BY DEF Claimed, PointsInto, WorkerRecord

LEMMA LandsPoints ==
  ASSUME NEW S, PointsInto(worker, S), NEW first, PointsInto(first, S), NEW last, PointsInto(last, S),
         Lands(first, last)
  PROVE  PointsInto(worker', S)
BY DEF Lands

\* A worker whose record is rewritten points nowhere; the others are as they were.
LEMMA ClearedPoints ==
  ASSUME NEW S, NEW W \in [Worker -> WorkerRecord], PointsInto(W, S), NEW w \in Worker,
         NEW V \in [Worker -> WorkerRecord], V[w].currentTaskId = NoTask, \A v \in Worker \ {w} : V[v] = W[v]
  PROVE  PointsInto(V, S)
BY DEF PointsInto

LEMMA HandedOverPoints ==
  ASSUME TypeOK, NEW S, PointsInto(worker, S), NEW t, NEW s, NEW who,
         Lands(LetGo(t, s), Touched(LetGo(t, s), who, "IDLE", NoTask))
  PROVE  PointsInto(worker', S)
<1>1. LetGo(t, s) \in [Worker -> WorkerRecord] /\ PointsInto(LetGo(t, s), S)
  BY LetGoType, LetGoPoints
<1>2. PointsInto(Touched(LetGo(t, s), who, "IDLE", NoTask), S)
  BY <1>1, TouchedPoints
<1> QED BY <1>1, <1>2, LandsPoints

\* Whoever moves a card moves it to a column.
LEMMA MovedRemains ==
  ASSUME TypeOK, NEW t \in Task, NEW s \in Columns,
         task' = Moved(t, s) \/ \E who : task' = [task EXCEPT ![t] = [status |-> s, assignedWorkerId |-> who]]
  PROVE  Existing \subseteq Existing'
BY DEF Existing, Exists, Moved, TypeOK, TaskRecord, Columns

LEMMA TransitionType ==
  ASSUME NEW old \in Columns, NEW s \in Transitions[old]
  PROVE  s \in Columns
BY DEF Transitions, Columns

LEMMA BoardPoints ==
  ASSUME TypeOK, FaultyDisk = FALSE, PointersResolve, BoardStep, TypeOK'
  PROVE  PointersResolve'
<1>1. PointsInto(worker, Existing)
  BY ResolvesIsPointsInto
<1>2. ASSUME NEW t \in Task, NEW s \in Columns, CreateTask(t, s) PROVE KeepsPointers
  BY <1>1, <1>2, MovedRemains DEF CreateTask, KeepsPointers
<1>3. ASSUME NEW t \in Task, NEW s \in Columns, MoveCard(t, s) PROVE KeepsPointers
  BY <1>1, <1>3, MovedRemains, LetGoPoints, LandsPoints DEF MoveCard, KeepsPointers
<1>4. ASSUME NEW t \in Task, DeleteTask(t) PROVE PointersResolve'
  <2>1. \A w \in Worker : worker[w].currentTaskId = t => Present(w)
    BY NoTaskAssumption DEF PointersResolve, Present
  <2>2. \A w \in Worker : \/ worker'[w] = worker[w] /\ worker[w].currentTaskId # t
                          \/ worker'[w].currentTaskId = NoTask
    <3> DEFINE pointing == {w \in Worker : Present(w) /\ worker[w].currentTaskId = t}
    <3>1. Losses(pointing) = {{}}
      BY DEF Losses
    <3>2. worker' = [w \in Worker |->
                       IF w \in pointing
                       THEN [worker[w] EXCEPT !.currentTaskId = NoTask, !.status = "IDLE"]
                       ELSE worker[w]]
      BY <1>4, <3>1 DEF DeleteTask
    <3> QED BY <2>1, <3>2 DEF TypeOK, WorkerRecord
  <2>3. \A u \in Task \ {t} : task'[u] = task[u]
    BY <1>4 DEF DeleteTask, TypeOK
  <2> QED BY <2>2, <2>3 DEF PointersResolve, Exists, TypeOK, WorkerRecord
<1>5. ASSUME NEW e \in Epic, ArchiveEpic(e) PROVE KeepsPointers
  BY <1>1, <1>5, ArchiveWrites DEF KeepsPointers, PointsInto, Existing, Exists
<1> QED BY <1>2, <1>3, <1>4, <1>5, KeepsPointersResolves DEF BoardStep

LEMMA ClaimPoints ==
  ASSUME TypeOK, PointersResolve, ClaimStep
  PROVE  KeepsPointers
<1> SUFFICES ASSUME NEW w \in Worker,
                    \/ \E t \in Task, replace \in BOOLEAN, skipped \in SUBSET Skippable(w) :
                         ClaimNext(w, t, replace, skipped)
                    \/ \E skipped \in SUBSET Skippable(w) : ClaimFindsTaken(w, skipped)
                    \/ \E t \in Task, replace \in BOOLEAN : ClaimNamed(w, t, replace)
                    \/ \E t \in Task : ClaimReplacing(w, t)
             PROVE  KeepsPointers
  BY DEF ClaimStep
<1>1. worker \in [Worker -> WorkerRecord] /\ PointsInto(worker, Existing)
  BY ResolvesIsPointsInto DEF TypeOK
<1>2. \A t \in Task : task[t].status \in ActiveAssignment => t \in Existing
  BY DEF Existing, Exists, ActiveAssignment
<1>3. \A t \in Existing : PointsInto(Claimed(worker, w, t), Existing)
  BY <1>1, ClaimedPoints
<1>4. ASSUME NEW t \in Task, NEW skipped, task' = Assigned(w, t, skipped)
      PROVE  Existing \subseteq Existing'
  BY <1>4 DEF Assigned, Existing, Exists, TypeOK, TaskRecord
<1>5. ASSUME NEW t \in Task, NEW replace, NEW skipped, ClaimNext(w, t, replace, skipped)
      PROVE  KeepsPointers
  BY <1>1, <1>2, <1>3, <1>4, <1>5, LandsPoints DEF ClaimNext, KeepsPointers
<1>6. ASSUME NEW skipped, ClaimFindsTaken(w, skipped) PROVE KeepsPointers
  BY <1>1, <1>6 DEF ClaimFindsTaken, KeepsPointers, Existing, Exists, TypeOK, TaskRecord
<1>7. ASSUME NEW t \in Task, NEW replace, ClaimNamed(w, t, replace) PROVE KeepsPointers
  BY <1>1, <1>2, <1>3, <1>4, <1>7, LandsPoints DEF ClaimNamed, KeepsPointers
<1>8. ASSUME NEW t \in Task, ClaimReplacing(w, t) PROVE KeepsPointers
  <2>1. PICK evicted \in {Touched(worker, Owner(t), "IDLE", NoTask)} \cup {worker} :
          Lands(evicted, Claimed(evicted, w, t))
    BY <1>8 DEF ClaimReplacing
  <2>2. evicted \in [Worker -> WorkerRecord] /\ PointsInto(evicted, Existing)
    <3>1. Touched(worker, Owner(t), "IDLE", NoTask) \in [Worker -> WorkerRecord]
      BY <1>1, TouchedType DEF WorkerStatuses
    <3>2. PointsInto(Touched(worker, Owner(t), "IDLE", NoTask), Existing)
      BY <1>1, TouchedPoints
    <3> QED BY <1>1, <2>1, <3>1, <3>2
  <2>3. t \in Existing /\ task' = Assigned(w, t, {})
    BY <1>2, <1>8 DEF ClaimReplacing
  <2>4. PointsInto(Claimed(evicted, w, t), Existing)
    BY <2>2, <2>3, ClaimedPoints
  <2>5. PointsInto(worker', Existing)
    BY <1>1, <2>1, <2>2, <2>4, LandsPoints
  <2> QED BY <1>4, <2>3, <2>5 DEF KeepsPointers
<1> QED BY <1>5, <1>6, <1>7, <1>8

LEMMA HandOverPoints ==
  ASSUME TypeOK, PointsInto(worker, Existing), NEW c, NEW t \in Task, NEW s \in Columns, HandOver(c, t, s)
  PROVE  KeepsPointers
BY HandedOverPoints, MovedRemains DEF HandOver, KeepsPointers

LEMMA AgentPoints ==
  ASSUME TypeOK, PointersResolve, AgentStep
  PROVE  KeepsPointers
<1> SUFFICES ASSUME NEW c \in Worker \cup {Nobody}, NEW t \in Task,
                    \/ SubmitPlan(c, t)
                    \/ WorkOnStep(c, t)
                    \/ CompleteTask(c, t)
                    \/ QaApprove(c, t)
                    \/ QaReject(c, t)
                    \/ RequestReplan(c, t)
                    \/ ReportBlocked(c, t)
             PROVE  KeepsPointers
  BY DEF AgentStep
<1>1. worker \in [Worker -> WorkerRecord] /\ PointsInto(worker, Existing)
  BY ResolvesIsPointsInto DEF TypeOK
<1>2. CASE SubmitPlan(c, t)
  <2> DEFINE first == LetGo(t, "AWAITING_APPROVAL")
             last  == Touched(first, Handoff(c, t), "IDLE", NoTask)
  <2>1. first \in [Worker -> WorkerRecord] /\ PointsInto(first, Existing)
    BY <1>1, LetGoType, LetGoPoints
  <2>2. PointsInto(last, Existing)
    BY <2>1, TouchedPoints
  <2>3. PointsInto(worker', Existing)
    BY <1>1, <1>2, <2>1, <2>2 DEF SubmitPlan
  <2>4. Existing \subseteq Existing'
    BY <1>2, MovedRemains DEF SubmitPlan, Columns
  <2> QED BY <2>3, <2>4 DEF KeepsPointers
<1>3. CASE WorkOnStep(c, t)
  <2>1. t \in Existing /\ Existing' = Existing /\ worker' = Touched(worker, Handoff(c, t), "CODING", t)
    BY <1>3 DEF WorkOnStep, Existing, Exists
  <2> QED BY <1>1, <2>1, TouchedPoints DEF KeepsPointers
<1>4. CASE CompleteTask(c, t)
  BY <1>1, <1>4, HandOverPoints DEF CompleteTask, Columns
<1>5. CASE QaApprove(c, t)
  BY <1>1, <1>5, HandOverPoints DEF QaApprove, Columns
<1>6. CASE QaReject(c, t)
  BY <1>1, <1>6, HandOverPoints DEF QaReject, Columns
<1>7. CASE RequestReplan(c, t)
  BY <1>1, <1>7, HandedOverPoints, MovedRemains DEF RequestReplan, KeepsPointers, Columns
<1>8. CASE ReportBlocked(c, t)
  <2>1. /\ \A w \in Worker : worker'[w].currentTaskId = worker[w].currentTaskId
        /\ \A w \in Worker : worker'[w].status \in {worker[w].status, "BLOCKED"}
    BY <1>1, <1>8, OwnerType DEF ReportBlocked, WorkerRecord
  <2> QED BY <1>1, <1>8, <2>1 DEF ReportBlocked, KeepsPointers, PointsInto, Existing, Exists
<1> QED BY <1>2, <1>3, <1>4, <1>5, <1>6, <1>7, <1>8

LEMMA ReleasePoints ==
  ASSUME TypeOK, PointersResolve, ReleaseStep
  PROVE  KeepsPointers
<1>1. worker \in [Worker -> WorkerRecord] /\ PointsInto(worker, Existing)
  BY ResolvesIsPointsInto DEF TypeOK
<1>2. \A w \in Worker, s \in WorkerStatuses :
        PointsInto([worker EXCEPT ![w].status = s, ![w].currentTaskId = NoTask], Existing)
  BY <1>1 DEF PointsInto, WorkerRecord
<1>3. ASSUME \A t \in Task : task'[t] = task[t] \/ task'[t].status \in Columns
      PROVE  Existing \subseteq Existing'
  BY <1>3 DEF Existing, Exists, Columns
<1>4. ASSUME NEW t \in Task, NEW done, NEW parked, ReleaseTask(t, done, parked) PROVE KeepsPointers
  <2>1. Owner(t) \in Worker
    BY <1>4, OwnerType DEF ReleaseTask
  <2>2. PointsInto(worker', Existing)
    BY <1>1, <1>2, <1>4, <2>1, LandsPoints DEF ReleaseTask, WorkerStatuses
  <2>3. Existing \subseteq Existing'
    BY <1>3, <1>4, ReleaseStatus DEF ReleaseTask, TypeOK, Columns
  <2> QED BY <2>2, <2>3 DEF KeepsPointers
<1>5. ASSUME NEW t \in Task, ReleaseUnassigned(t) PROVE KeepsPointers
  BY <1>1, <1>5 DEF ReleaseUnassigned, KeepsPointers, Existing, Exists, TypeOK, TaskRecord
<1>6. ASSUME NEW w \in Worker, NEW done, NEW t \in Task
      PROVE  ReleaseAll(w, done)[t] = task[t] \/ ReleaseAll(w, done)[t].status \in Columns
  BY ReleaseStatus DEF ReleaseAll
<1>7. ASSUME NEW w \in Worker, NEW done, UnblockAndRelease(w, done) PROVE KeepsPointers
  <2>1. PointsInto(worker', Existing)
    BY <1>1, <1>2, <1>7, LandsPoints DEF UnblockAndRelease, WorkerStatuses
  <2>2. \A t \in Task : task'[t] = task[t] \/ task'[t].status \in Columns
    BY <1>6, <1>7 DEF UnblockAndRelease
  <2> QED BY <1>3, <2>1, <2>2 DEF KeepsPointers
<1>8. ASSUME NEW w \in Worker, NEW done, EnterGovernance(w, done) PROVE KeepsPointers
  <2>1. PointsInto(worker', Existing)
    BY <1>1, <1>2, <1>8, LandsPoints DEF EnterGovernance, WorkerStatuses
  <2>2. \A t \in Task : task'[t] = task[t] \/ task'[t].status \in Columns
    BY <1>6, <1>8 DEF EnterGovernance
  <2> QED BY <1>3, <2>1, <2>2 DEF KeepsPointers
<1>9. ASSUME NEW w \in Worker, NEW done, DeregisterWorker(w, done) PROVE KeepsPointers
  <2>1. PointsInto(worker', Existing)
    BY <1>1, <1>2, <1>9, LandsPoints DEF DeregisterWorker, WorkerStatuses
  <2>2. \A t \in Task : task'[t] = task[t] \/ task'[t].status \in Columns
    BY <1>6, <1>9 DEF DeregisterWorker
  <2> QED BY <1>3, <2>1, <2>2 DEF KeepsPointers
<1> QED BY <1>4, <1>5, <1>7, <1>8, <1>9 DEF ReleaseStep

LEMMA WorkerPoints ==
  ASSUME TypeOK, PointersResolve, WorkerStep
  PROVE  KeepsPointers
<1>1. worker \in [Worker -> WorkerRecord] /\ PointsInto(worker, Existing)
  BY ResolvesIsPointsInto DEF TypeOK
<1>2. ASSUME NEW w \in Worker, NEW role, JoinTeam(w, role) PROVE KeepsPointers
  BY <1>1, <1>2 DEF JoinTeam, KeepsPointers, PointsInto, Existing, Exists, WorkerRecord
<1>3. ASSUME NEW w \in Worker, LeaveTeam(w) \/ UnblockAndRetry(w) PROVE KeepsPointers
  BY <1>1, <1>3 DEF LeaveTeam, UnblockAndRetry, KeepsPointers, PointsInto, Existing, Exists, WorkerRecord
<1>4. ASSUME NEW g \in Worker, NEW t \in Task, BlockPlan(g, t) PROVE KeepsPointers
  BY <1>1, <1>4, HandedOverPoints, MovedRemains DEF BlockPlan, KeepsPointers, Columns
<1> QED BY <1>2, <1>3, <1>4 DEF WorkerStep

LEMMA SweepPoints ==
  ASSUME TypeOK, FaultyDisk = FALSE, PointersResolve, SweepStep
  PROVE  KeepsPointers
<1>1. PICK blockedOver, reviewOver, staleOver, done : Sweep(blockedOver, reviewOver, staleOver, done, {})
  BY DEF SweepStep, Losses, SweepStopsInTimeout, SweepStopsInHeal
<1> DEFINE S1 == AfterTimeout(blockedOver)
           S2 == AfterReviewHeal(S1, reviewOver \ TimedOut(blockedOver))
<1>2. worker \in [Worker -> WorkerRecord] /\ PointsInto(worker, Existing)
  BY ResolvesIsPointsInto DEF TypeOK
<1>3. \A w \in Worker : S2.workers[w] = worker[w] \/ S2.workers[w].currentTaskId = NoTask
  BY TimeoutPhase, HealPhase DEF AfterReviewHeal
<1>4. \A w \in Worker : worker'[w] = S2.workers[w] \/ worker'[w].currentTaskId = NoTask
  BY <1>1 DEF Sweep, AfterSweep, AfterPrune, NoWorkerRecord
<1>5. \A t \in Task : S2.tasks[t].status \in {task[t].status, "BACKLOG"}
  BY TimeoutPhase, HealPhase DEF AfterReviewHeal
<1>6. \A t \in Task : task'[t].status \in {S2.tasks[t].status, "REVIEW"}
  BY <1>1 DEF Sweep, AfterSweep, AfterPrune
<1>7. Existing \subseteq Existing'
  BY <1>5, <1>6 DEF Existing, Exists
<1> QED BY <1>2, <1>3, <1>4, <1>7 DEF KeepsPointers, PointsInto

LEMMA RestartPoints ==
  ASSUME TypeOK, NEW done, Restart(done)
  PROVE  KeepsPointers
<1>1. Existing \subseteq Existing'
  BY ReleaseStatus DEF Restart, Existing, Exists, Columns
<1> QED BY <1>1 DEF Restart, KeepsPointers, PointsInto, NoWorkerRecord

\* While no write fails, no worker points at a task that is gone, and a deregistered worker at none,
\* for any number of both: deletion clears every pointer, and not the owner's alone.  A deletion whose
\* loop over the workers ends at a failing write leaves the pointers behind it dangling.
THEOREM PointersAreGood ==
  ASSUME FaultyDisk = FALSE
  PROVE  Spec => []PointersResolve
<1>1. Init => PointersResolve
  BY DEF Init, PointersResolve, NoWorkerRecord
<1>2. TypeOK /\ TypeOK' /\ PointersResolve /\ [Next]_vars => PointersResolve'
  <2> SUFFICES ASSUME TypeOK, TypeOK', PointersResolve, [Next]_vars
               PROVE  PointersResolve'
    OBVIOUS
  <2>1. CASE UNCHANGED vars
    BY <2>1 DEF vars, PointersResolve, Exists
  <2>2. CASE Next
    BY <2>2, KeepsPointersResolves, BoardPoints, ClaimPoints, AgentPoints, ReleasePoints, WorkerPoints,
       SweepPoints, RestartPoints DEF Next
  <2> QED BY <2>1, <2>2
<1> QED BY <1>1, <1>2, TypeCorrect, PTL DEF Spec

----------------------------------------------------------------------------
(* What a sweep and an eviction leave alone.                                *)

\* A worker that holds a planned or coded task and is not blocked, through the three phases.  The
\* second could take its task away only if it also held a card in REVIEW, so one task per worker
\* is what the phases rest on.
LEMMA SweepPasses ==
  ASSUME IInv, NEW blockedOver, NEW reviewOver, NEW staleOver, NEW done,
         NEW t \in Task, task[t].status \in {"PLANNING", "WORKING"}, NEW w \in Worker, Owner(t) = w,
         worker[w].status \notin {"BLOCKED", "DEAD", "ABSENT"}
  PROVE  LET S == AfterSweep(blockedOver, reviewOver, staleOver, done, {}) IN
         S.tasks[t] = task[t] /\ S.workers[w] = worker[w]
<1> DEFINE S1 == AfterTimeout(blockedOver)
           S2 == AfterReviewHeal(S1, reviewOver \ TimedOut(blockedOver))
           S3 == AfterPrune(S2, staleOver \ TimedOut(blockedOver), done, {})
<1>1. /\ S1.tasks[t] = task[t] /\ S1.workers[w] = worker[w]
      /\ \A u \in Task : S1.tasks[u].assignedWorkerId = w => Owner(u) = w
  BY NobodyAssumption DEF AfterTimeout, TimedOut, Owner
<1>2. \A u \in Task : S1.tasks[u].assignedWorkerId = w => u = t
  BY <1>1, NobodyAssumption DEF IInv, OneTaskPerWorker
<1>3. t \notin Stranded(S1, reviewOver \ TimedOut(blockedOver))
  BY <1>1 DEF Stranded
<1>4. S2.tasks[t] = task[t] /\ S2.workers[w] = worker[w]
  BY <1>1, <1>2, <1>3 DEF AfterReviewHeal, Healed, Stranded
<1>5. S2.tasks[t].assignedWorkerId = w /\ S2.tasks[t].status \in ActiveAssignment
  BY <1>4 DEF Owner, ActiveAssignment
<1>6. w \notin Pruned(S2, staleOver \ TimedOut(blockedOver))
  BY <1>4, <1>5 DEF Pruned, EligibleForStaleCleanup
<1>7. S3.tasks[t] = task[t] /\ S3.workers[w] = worker[w]
  BY <1>4, <1>5, <1>6 DEF AfterPrune
<1> QED BY <1>7 DEF AfterSweep

\* Whatever the clocks say, a sweep leaves a task in PLANNING or WORKING, and its worker, as they
\* are, unless that worker is BLOCKED or DEAD.
THEOREM SweepYanksNothing ==
  Spec => []SweepNeverYanks
<1>1. IInv => SweepNeverYanks
  <2> SUFFICES ASSUME IInv,
                      NEW blockedOver \in SUBSET BlockedWorkers, NEW reviewOver \in SUBSET Reviewers,
                      NEW staleOver \in SUBSET OnRecord, NEW done \in SUBSET Unfinished,
                      NEW t \in Task, task[t].status \in {"PLANNING", "WORKING"}, Owner(t) # Nobody,
                      worker[Owner(t)].status \notin {"BLOCKED", "DEAD", "ABSENT"}
               PROVE  LET S == AfterSweep(blockedOver, reviewOver, staleOver, done, {}) IN
                      S.tasks[t] = task[t] /\ S.workers[Owner(t)] = worker[Owner(t)]
    BY DEF SweepNeverYanks
  <2>1. Owner(t) \in Worker
    BY OwnerType DEF IInv
  <2> QED BY <2>1, SweepPasses
<1> QED BY <1>1, InvAlways, PTL

\* A task passes directly to another worker only by a claim that replaces its owner.
LEMMA PassesByReplacing ==
  ASSUME TypeOK, [Next]_vars, NEW t \in Task,
         Owner(t) \in Worker, ~Inactive(Owner(t)), Owner(t)' \notin {Owner(t), Nobody}
  PROVE  \E w \in Worker \ {Owner(t)} : ClaimReplacing(w, t)
<1>1. ~Drops
  BY DEF Drops, Owner
<1>2. ClaimStep
  BY <1>1, BoardDrops, AgentDrops, ReleaseDrops, WorkerDrops, SweepDrops, RestartDrops DEF Next, Drops, vars
<1>3. PICK w \in Worker :
        \/ \E u \in Task, replace \in BOOLEAN, skipped \in SUBSET Skippable(w) :
             ClaimNext(w, u, replace, skipped)
        \/ \E skipped \in SUBSET Skippable(w) : ClaimFindsTaken(w, skipped)
        \/ \E u \in Task, replace \in BOOLEAN : ClaimNamed(w, u, replace)
        \/ \E u \in Task : ClaimReplacing(w, u)
  BY <1>2 DEF ClaimStep
<1>4. ASSUME NEW u \in Task, NEW skipped, task' = Assigned(w, u, skipped)
      PROVE  u = t /\ w # Owner(t)
  BY <1>4 DEF Assigned, TypeOK, TaskRecord, Owner
<1>5. ASSUME NEW u \in Task, NEW replace, NEW skipped, ClaimNext(w, u, replace, skipped) PROVE FALSE
  BY <1>4, <1>5, NobodyAssumption DEF ClaimNext, Claimable
<1>6. ASSUME NEW skipped, ClaimFindsTaken(w, skipped) PROVE FALSE
  BY <1>1, <1>6 DEF ClaimFindsTaken, Drops, TypeOK, TaskRecord
<1>7. ASSUME NEW u \in Task, NEW replace, ClaimNamed(w, u, replace) PROVE FALSE
  BY <1>4, <1>7, NobodyAssumption DEF ClaimNamed, Claimable
<1>8. PICK u \in Task : ClaimReplacing(w, u)
  BY <1>3, <1>5, <1>6, <1>7
<1>9. u = t /\ w # Owner(t)
  BY <1>4, <1>8 DEF ClaimReplacing
<1> QED BY <1>8, <1>9

\* While no write fails, a live worker whose task passes to another is left idle and pointing at
\* nothing, in the same step: nobody goes on coding on a task that was taken over.
THEOREM EvictionFrees ==
  ASSUME FaultyDisk = FALSE
  PROVE  Spec => EvictedIsFree
<1>1. TypeOK /\ [Next]_vars =>
        [\A t \in Task :
           LET w == Owner(t) IN
           /\ w # Nobody /\ ~Inactive(w)
           /\ Owner(t)' \notin {w, Nobody}
           => worker'[w].status = "IDLE" /\ worker'[w].currentTaskId = NoTask]_vars
  <2> SUFFICES ASSUME TypeOK, [Next]_vars, NEW t \in Task, Owner(t) # Nobody, ~Inactive(Owner(t)),
                      Owner(t)' \notin {Owner(t), Nobody}
               PROVE  worker'[Owner(t)].status = "IDLE" /\ worker'[Owner(t)].currentTaskId = NoTask
    OBVIOUS
  <2> DEFINE evicted == Touched(worker, Owner(t), "IDLE", NoTask)
  <2>1. Owner(t) \in Worker /\ worker \in [Worker -> WorkerRecord]
    BY OwnerType DEF TypeOK
  <2>2. PICK w \in Worker \ {Owner(t)} : ClaimReplacing(w, t)
    BY <2>1, PassesByReplacing
  <2>3. worker' = Claimed(evicted, w, t)
    BY <2>2 DEF ClaimReplacing, Lands
  <2>4. evicted[Owner(t)].status = "IDLE" /\ evicted[Owner(t)].currentTaskId = NoTask
    BY <2>1 DEF Touched, Inactive, WorkerRecord
  <2>5. worker'[Owner(t)] = evicted[Owner(t)]
    BY <2>1, <2>2, <2>3, TouchedType DEF Claimed, WorkerStatuses
  <2> QED BY <2>4, <2>5
<1> QED BY <1>1, TypeCorrect, PTL DEF Spec, EvictedIsFree

----------------------------------------------------------------------------
(* What a deregistration leaves dangling is healed. *)

SomebodyIsDead == \E w \in Worker : worker[w].status = "DEAD"

\* The fairness of FairSpec: as long as a worker is on record as DEAD, which is when SweepDead
\* changes something, a sweep comes that finds it silent for too long.
SweepFairness == []<>~SomebodyIsDead \/ []<><<SweepDead>>_vars

\* A sweep that finds a DEAD worker past its threshold takes everything it owns.
LEMMA SweepDeadFrees ==
  ASSUME SweepDead, NEW w \in Worker, worker[w].status = "DEAD", NEW t \in Task
  PROVE  Owner(t)' # w
<1> DEFINE dead == {v \in Worker : worker[v].status = "DEAD"}
           S1 == AfterTimeout({})
           S2 == AfterReviewHeal(S1, {} \ TimedOut({}))
<1>1. TimedOut({}) = {}
  BY DEF TimedOut
<1>2. S1.workers[w] = worker[w]
  BY <1>1 DEF AfterTimeout
<1>3. Stranded(S1, {} \ TimedOut({})) = {}
  BY DEF Stranded
<1>4. S2.workers[w] = worker[w]
  BY <1>2, <1>3 DEF AfterReviewHeal, Healed
<1>5. w \in Pruned(S2, dead \ TimedOut({}))
  BY <1>1, <1>4 DEF Pruned, EligibleForStaleCleanup
<1>6. task' = AfterPrune(S2, dead \ TimedOut({}), {}, {}).tasks
  BY DEF SweepDead, Sweep, AfterSweep
<1> HIDE DEF S2, dead
<1>7. task'[t].assignedWorkerId # w
  BY <1>5, <1>6, NobodyAssumption DEF AfterPrune
<1> QED BY <1>7 DEF Owner

\* A deregistration that failed half way leaves a task with a worker that will never come back:
\* no later call has to repair it, for the sweep does.
THEOREM DanglingEnds == Spec /\ SweepFairness => DanglingIsHealed
<1> SUFFICES ASSUME NEW t \in Task, NEW w \in Worker
             PROVE  Spec /\ SweepFairness =>
                      ((Owner(t) = w /\ worker[w].status = "DEAD")
                         ~> ~(Owner(t) = w /\ worker[w].status = "DEAD"))
  BY DEF DanglingIsHealed
<1> DEFINE Dangling == Owner(t) = w /\ worker[w].status = "DEAD"
<1>1. Dangling => SomebodyIsDead
  BY DEF SomebodyIsDead
<1>2. Dangling /\ <<SweepDead>>_vars => ~Dangling'
  BY SweepDeadFrees
<1> HIDE DEF Dangling
<1>3. SweepFairness => (Dangling ~> ~Dangling)
  BY <1>1, <1>2, PTL DEF SweepFairness
<1> QED BY <1>3 DEF Dangling

=============================================================================
