----------------------------- MODULE Ownership -----------------------------
(***************************************************************************)
(* Who holds which task in the Moe daemon.                                 *)
(*                                                                         *)
(* Ownership is kept twice: a task names its worker (assignedWorkerId) and *)
(* a worker names its task (currentTaskId).  Every MCP tool, board command *)
(* and background sweep that moves a card or touches a worker rewrites one *)
(* pointer or both.  Handlers run to completion under the state mutex      *)
(* (module AsyncMutex), so each is one action here, with every write it    *)
(* makes.  What a plan contains, why QA rejects and what the counters say  *)
(* is module TaskLifecycle; here these decide only among the outcomes they *)
(* can lead to, so a handler that depends on them chooses nondeterminately.*)
(***************************************************************************)
EXTENDS Integers, FiniteSets

CONSTANTS
  Task,        \* task ids; a slot is used again after its task is deleted
  Worker,      \* worker ids
  Epic,        \* epic ids
  EpicOf,      \* the epic of each task
  Nobody,      \* null as an assignedWorkerId, and the caller of a board command
  NoTask,      \* null as a currentTaskId
  FaultyDisk   \* TRUE: a write may fail after others of the same handler have been made

ASSUME EpicOfAssumption   == EpicOf \in [Task -> Epic]
ASSUME NobodyAssumption   == Nobody \notin Worker
ASSUME NoTaskAssumption   == NoTask \notin Task
ASSUME FaultyDiskAssumption == FaultyDisk \in BOOLEAN

VARIABLES
  task,        \* the task records: column and assignee
  worker       \* the worker records: status, current task, team role

vars == <<task, worker>>

----------------------------------------------------------------------------
(* The records.  "ABSENT" stands for "no such record". *)

Columns == {"BACKLOG", "PLANNING", "AWAITING_APPROVAL", "WORKING", "REVIEW",
            "DONE", "ARCHIVED"}

\* The columns an agent claims from, and in which an assignment is active.
ActiveAssignment == {"PLANNING", "WORKING", "REVIEW"}

\* The statuses the daemon writes; PLANNING and AWAITING_APPROVAL of the type are never written.
WorkerStatuses == {"IDLE", "READING_CONTEXT", "CODING", "BLOCKED", "GOVERNING", "DEAD"}

\* The statuses updateTask turns to IDLE when it takes the worker's task away.
TaskBound == {"READING_CONTEXT", "CODING"}

Roles == {"none", "member", "governor"}

TaskRecord ==
  [status : Columns \cup {"ABSENT"}, assignedWorkerId : Worker \cup {Nobody}]

WorkerRecord ==
  [status : WorkerStatuses \cup {"ABSENT"}, currentTaskId : Task \cup {NoTask}, role : Roles]

NoTaskRecord   == [status |-> "ABSENT", assignedWorkerId |-> Nobody]
NoWorkerRecord == [status |-> "ABSENT", currentTaskId |-> NoTask, role |-> "none"]

\* The moves moe.set_task_status accepts. A board drag, approve, reject, reopen and archive
\* accept a subset of them (module TaskLifecycle tells them apart).
Transitions ==
  [BACKLOG           |-> {"PLANNING", "WORKING", "REVIEW", "ARCHIVED"},
   PLANNING          |-> {"AWAITING_APPROVAL", "BACKLOG"},
   AWAITING_APPROVAL |-> {"WORKING", "PLANNING"},
   WORKING           |-> {"REVIEW", "PLANNING", "BACKLOG"},
   REVIEW            |-> {"DONE", "WORKING", "BACKLOG", "PLANNING", "ARCHIVED"},
   DONE              |-> {"BACKLOG", "WORKING", "ARCHIVED"},
   ARCHIVED          |-> {"BACKLOG", "WORKING"}]

Exists(t)  == task[t].status # "ABSENT"
Present(w) == worker[w].status # "ABSENT"
Owner(t)   == task[t].assignedWorkerId

\* A worker that can no longer act on what it owns: no record, or marked DEAD.
Inactive(w) == w \in Worker /\ worker[w].status \in {"ABSENT", "DEAD"}

\* assertWorkerOwns: an unassigned task, and a caller without an id, pass.
MayAct(c, t) == Owner(t) = Nobody \/ c = Nobody \/ c = Owner(t)

HeldBy(w) == {t \in Task : Owner(t) = w /\ task[t].status \in ActiveAssignment}

----------------------------------------------------------------------------
(* What the shared helpers write.  done is the set of tasks with a plan     *)
(* whose every step is COMPLETED, which Ownership does not track.           *)

\* Mutant of Moved: the assignee survives the change of column.
MovedKeepingOwner(t, s) == [task EXCEPT ![t].status = s]

\* updateTask with a new column and no assignee: leaving a column drops the assignee.
Moved(t, s) ==
  [task EXCEPT ![t] =
     [status |-> s, assignedWorkerId |-> IF s = task[t].status THEN Owner(t) ELSE Nobody]]

\* The worker records after such an update: the owner it dropped is let go of the task.
LetGo(t, s) ==
  IF s # task[t].status /\ Owner(t) # Nobody
  THEN [w \in Worker |->
          IF w = Owner(t) /\ Present(w) /\ worker[w].currentTaskId = t
          THEN [worker[w] EXCEPT !.currentTaskId = NoTask,
                                 !.status = IF @ \in TaskBound THEN "IDLE" ELSE @]
          ELSE worker[w]]
  ELSE worker

\* touchWorker: missing and DEAD workers are skipped.
Touched(W, c, s, t) ==
  [w \in Worker |->
     IF w = c /\ W[w].status \notin {"ABSENT", "DEAD"}
     THEN [W[w] EXCEPT !.status = s, !.currentTaskId = t]
     ELSE W[w]]

\* The worker a handler idles once the task is handed over.
Handoff(c, t) == IF Owner(t) # Nobody THEN Owner(t) ELSE c

\* A handler's last write to a worker may fail, and so may the one before it.
Lands(first, last) == worker' = last \/ (FaultyDisk /\ worker' \in {first, worker})

\* The writes of a loop over S that a failure may leave out: any for a loop it ends at some element,
\* and the last one made for a write that follows it.
Losses(S)   == IF FaultyDisk THEN SUBSET S ELSE {{}}
LastLost(S) == IF FaultyDisk THEN {{}} \cup {{x} : x \in S} ELSE {{}}

NextStatusForRelease(t, done) ==
  CASE task[t].status = "WORKING" -> IF t \in done THEN "REVIEW" ELSE "WORKING"
    [] task[t].status \in {"PLANNING", "AWAITING_APPROVAL", "REVIEW", "DONE", "ARCHIVED"}
         -> task[t].status
    [] OTHER -> "BACKLOG"

\* releaseWorkerTasks, and the release loops of the handlers that inline it.
ReleaseAll(w, done) ==
  [t \in Task |->
     IF Owner(t) = w
     THEN [status |-> NextStatusForRelease(t, done), assignedWorkerId |-> Nobody]
     ELSE task[t]]

----------------------------------------------------------------------------
(* Cards: creation, moves, deletion. *)

\* moe.create_task and CREATE_TASK: the caller may choose the column.
CreateTask(t, s) ==
  /\ ~Exists(t)
  /\ task' = [task EXCEPT ![t] = [status |-> s, assignedWorkerId |-> Nobody]]
  /\ UNCHANGED worker

\* Mutant of DeleteTask: only the owner's pointer is cleared, not every pointer to the task.
DeleteTaskOfOwner(t) ==
  /\ Exists(t)
  /\ task' = [task EXCEPT ![t] = NoTaskRecord]
  /\ worker' = [w \in Worker |->
                  IF w = Owner(t) /\ worker[w].currentTaskId = t
                  THEN [worker[w] EXCEPT !.currentTaskId = NoTask, !.status = "IDLE"]
                  ELSE worker[w]]

\* moe.delete_task and DELETE_TASK: every worker that points at the task is idled, by a write each;
\* one that fails ends the loop, and the workers behind it point at a task that is gone.
DeleteTask(t) ==
  LET pointing == {w \in Worker : Present(w) /\ worker[w].currentTaskId = t} IN
  /\ Exists(t)
  /\ task' = [task EXCEPT ![t] = NoTaskRecord]
  /\ \E left \in Losses(pointing) :
       worker' = [w \in Worker |->
                    IF w \in pointing \ left
                    THEN [worker[w] EXCEPT !.currentTaskId = NoTask, !.status = "IDLE"]
                    ELSE worker[w]]

\* moe.set_task_status and the board commands that end in the same updateTask.
MoveCard(t, s) ==
  /\ Exists(t)
  /\ s \in Transitions[task[t].status]
  /\ task' = Moved(t, s)
  /\ Lands(worker, LetGo(t, s))

\* moe.archive_epic: refused while a task of the epic is in flight.  A write that fails ends the
\* loop over the cards, at a card or at the owner of the one that was just written (stuck).
ArchiveEpic(e) ==
  LET cards == {t \in Task : EpicOf[t] = e /\ Exists(t) /\ task[t].status # "ARCHIVED"} IN
  /\ cards # {}
  /\ \A t \in cards : task[t].status \in {"BACKLOG", "REVIEW", "DONE"}
  /\ \E left \in Losses(cards) :
       /\ task' = [t \in Task |->
                     IF t \in cards \ left
                     THEN [status |-> "ARCHIVED", assignedWorkerId |-> Nobody]
                     ELSE task[t]]
       /\ \E stuck \in LastLost(cards \ left) :
            worker' = [w \in Worker |->
                         IF \E t \in cards \ left :
                              Owner(t) = w /\ worker[w].currentTaskId = t /\ t \notin stuck
                         THEN [worker[w] EXCEPT !.currentTaskId = NoTask,
                                                !.status = IF @ \in TaskBound THEN "IDLE" ELSE @]
                         ELSE worker[w]]

----------------------------------------------------------------------------
(* Claiming. *)

\* Mutant of FreeToClaim: what the worker already holds is not looked at.
FreeToClaimAnyway(w, named) == worker[w].role # "governor"

\* One task per worker: w holds no active task, but for the one it names.
FreeToClaim(w, named) ==
  /\ worker[w].role # "governor"
  /\ HeldBy(w) \subseteq named

\* A different task of the same epic and column is held by another live worker.
TakenByOther(w, t) ==
  \E u \in Task \ {t} :
    /\ EpicOf[u] = EpicOf[t]
    /\ task[u].status = task[t].status
    /\ Owner(u) \notin {Nobody, w}
    /\ ~Inactive(Owner(u))

\* Solo workers share no epic and column; teams, and replaceExisting, do.
SoloBlocked(w, t) == worker[w].role = "none" /\ TakenByOther(w, t)

Claimable(t) == Owner(t) = Nobody \/ Inactive(Owner(t))

\* The claimer's record once it holds t: created, or updated whatever its status was.
Claimed(W, w, t) ==
  [W EXCEPT ![w].status = "READING_CONTEXT", ![w].currentTaskId = t]

\* Candidates the solo rule passes over whose owner is inactive: the assignment is cleared first.
Skippable(w) ==
  {t \in Task : task[t].status \in ActiveAssignment /\ Inactive(Owner(t)) /\ SoloBlocked(w, t)}

\* w is given t; the assignments of the candidates passed over are cleared.
Assigned(w, t, skipped) ==
  [u \in Task |-> IF u = t THEN [task[u] EXCEPT !.assignedWorkerId = w]
                  ELSE IF u \in skipped THEN [task[u] EXCEPT !.assignedWorkerId = Nobody]
                  ELSE task[u]]

\* moe.claim_next_task from the ranked queue.  The columns and the epic asked for, priority, order
\* and parking decide which candidates come before t; replaceExisting passes over none.
ClaimNext(w, t, replace, skipped) ==
  /\ FreeToClaim(w, {})
  /\ task[t].status \in ActiveAssignment
  /\ Claimable(t)
  /\ replace \/ ~SoloBlocked(w, t)
  /\ replace => skipped = {}
  /\ task' = Assigned(w, t, skipped)
  /\ Lands(worker, Claimed(worker, w, t))

\* The same, or the claim of one task by name, every candidate being taken: nothing is claimed,
\* and what is left are the inactive owners' assignments cleared on the way.
ClaimFindsTaken(w, skipped) ==
  /\ skipped # {}
  /\ FreeToClaim(w, {}) \/ (\E t \in Task : skipped = {t} /\ FreeToClaim(w, {t}))
  /\ task' = [t \in Task |-> IF t \in skipped THEN [task[t] EXCEPT !.assignedWorkerId = Nobody]
                             ELSE task[t]]
  /\ UNCHANGED worker

\* moe.claim_next_task of a named task: a resume by its owner, or the claim of a free task.
ClaimNamed(w, t, replace) ==
  /\ FreeToClaim(w, {t})
  /\ task[t].status \in ActiveAssignment
  /\ Claimable(t) \/ Owner(t) = w
  /\ replace \/ ~SoloBlocked(w, t)
  /\ task' = Assigned(w, t, {})
  /\ Lands(worker, Claimed(worker, w, t))

\* Mutant of ClaimReplacing: the evicted worker's record is left alone.
ClaimReplacingSilently(w, t) ==
  /\ FreeToClaim(w, {t})
  /\ task[t].status \in ActiveAssignment
  /\ Owner(t) \notin {Nobody, w}
  /\ ~Inactive(Owner(t))
  /\ task' = Assigned(w, t, {})
  /\ Lands(worker, Claimed(worker, w, t))

\* ... with replaceExisting: its live owner is evicted and idled, no one else's task is touched.
\* The handler goes on when it could not idle the evicted worker.
ClaimReplacing(w, t) ==
  /\ FreeToClaim(w, {t})
  /\ task[t].status \in ActiveAssignment
  /\ Owner(t) \notin {Nobody, w}
  /\ ~Inactive(Owner(t))
  /\ task' = Assigned(w, t, {})
  /\ \E evicted \in {Touched(worker, Owner(t), "IDLE", NoTask)}
                    \cup (IF FaultyDisk THEN {worker} ELSE {}) :
       Lands(evicted, Claimed(evicted, w, t))

----------------------------------------------------------------------------
(* Working on a task.  c is the calling worker, or Nobody.                  *)

\* The task goes to column s and whoever handed it over is idled.
HandOver(c, t, s) ==
  /\ MayAct(c, t)
  /\ task' = [task EXCEPT ![t] = [status |-> s, assignedWorkerId |-> Nobody]]
  /\ Lands(LetGo(t, s), Touched(LetGo(t, s), Handoff(c, t), "IDLE", NoTask))

\* moe.submit_plan: awaiting approval; approved at once in TURBO mode; sent back by the size critic.
\* It stops short when the owner it dropped cannot be let go, and goes on when that one is not idled.
SubmitPlan(c, t) ==
  LET first == LetGo(t, "AWAITING_APPROVAL")
      last  == Touched(first, Handoff(c, t), "IDLE", NoTask)
      Lies(s) == task' = [task EXCEPT ![t] = [status |-> s, assignedWorkerId |-> Nobody]]
  IN
  /\ task[t].status = "PLANNING"
  /\ MayAct(c, t)
  /\ \/ /\ \E s \in {"AWAITING_APPROVAL", "WORKING", "PLANNING"} : Lies(s)
        /\ worker' = last \/ (FaultyDisk /\ worker' = first)
     \/ FaultyDisk /\ Lies("AWAITING_APPROVAL") /\ UNCHANGED worker

\* moe.start_step and moe.complete_step: the worker is marked as coding on the task.
WorkOnStep(c, t) ==
  /\ task[t].status = "WORKING"
  /\ MayAct(c, t)
  /\ UNCHANGED task
  /\ worker' = Touched(worker, Handoff(c, t), "CODING", t)

CompleteTask(c, t) == task[t].status = "WORKING" /\ HandOver(c, t, "REVIEW")

QaApprove(c, t) == task[t].status = "REVIEW" /\ HandOver(c, t, "DONE")

\* moe.qa_reject: back to the worker, to the architect, or parked in REVIEW for a human.
QaReject(c, t) ==
  /\ task[t].status = "REVIEW"
  /\ \E s \in {"WORKING", "PLANNING", "REVIEW"} : HandOver(c, t, s)

\* moe.request_replan: only the owner is idled, and only when there is one.
RequestReplan(c, t) ==
  /\ task[t].status = "WORKING"
  /\ MayAct(c, t)
  /\ task' = Moved(t, "PLANNING")
  /\ Lands(LetGo(t, "PLANNING"), Touched(LetGo(t, "PLANNING"), Owner(t), "IDLE", NoTask))

\* moe.submit_plan_critique, verdict block: a governor sends the plan back.
BlockPlan(g, t) ==
  /\ worker[g].role = "governor"
  /\ task[t].status \in {"AWAITING_APPROVAL", "WORKING"}
  /\ task' = Moved(t, "PLANNING")
  /\ Lands(LetGo(t, "PLANNING"), Touched(LetGo(t, "PLANNING"), Owner(t), "IDLE", NoTask))

\* moe.report_blocked: the owner is marked, whatever its status; an unassigned task marks nobody.
ReportBlocked(c, t) ==
  /\ Exists(t)
  /\ Owner(t) # Nobody /\ Present(Owner(t))
  /\ MayAct(c, t)
  /\ UNCHANGED task
  /\ worker' = [worker EXCEPT ![Owner(t)].status = "BLOCKED"]

\* moe.unblock_worker with retryTask: the worker keeps its task.
UnblockAndRetry(w) ==
  /\ worker[w].status = "BLOCKED"
  /\ UNCHANGED task
  /\ worker' = [worker EXCEPT ![w].status = "IDLE"]

\* ... and without: its active tasks go back to their columns.
UnblockAndRelease(w, done) ==
  /\ worker[w].status = "BLOCKED"
  /\ task' = [t \in Task |-> IF t \in HeldBy(w) THEN ReleaseAll(w, done)[t] ELSE task[t]]
  /\ Lands(worker, [worker EXCEPT ![w].status = "IDLE", ![w].currentTaskId = NoTask])

\* moe.release_task and RELEASE_TASK of a held task, by anyone. parked: refused once too often.
ReleaseTask(t, done, parked) ==
  LET w == Owner(t) IN
  /\ w # Nobody
  /\ parked => task[t].status \in ActiveAssignment
  /\ task' = [task EXCEPT ![t] =
                [status |-> IF parked THEN "BACKLOG" ELSE NextStatusForRelease(t, done),
                 assignedWorkerId |-> Nobody]]
  /\ Lands(worker,
           IF Present(w) /\ worker[w].currentTaskId = t
           THEN [worker EXCEPT ![w].status = "IDLE", ![w].currentTaskId = NoTask]
           ELSE worker)

\* ... of a task nobody holds: finished work stuck in WORKING is routed to QA.
ReleaseUnassigned(t) ==
  /\ Owner(t) = Nobody
  /\ task[t].status = "WORKING"
  /\ task' = [task EXCEPT ![t].status = "REVIEW"]
  /\ UNCHANGED worker

----------------------------------------------------------------------------
(* Workers and teams. *)

\* moe.join_team: an unknown worker is registered first.
JoinTeam(w, role) ==
  /\ worker[w].role # role
  /\ worker' = [worker EXCEPT ![w].role = role,
                              ![w].status = IF @ = "ABSENT" THEN "IDLE" ELSE @]
  /\ UNCHANGED task

\* moe.leave_team, and the deletion of its team.
LeaveTeam(w) ==
  /\ worker[w].role # "none"
  /\ worker' = [worker EXCEPT ![w].role = "none"]
  /\ UNCHANGED task

\* Mutant of EnterGovernance: the worker governs and keeps what it held.
EnterGovernanceHolding(w, done) ==
  /\ worker[w].role = "governor"
  /\ worker[w].status \notin {"ABSENT", "GOVERNING"}
  /\ UNCHANGED task
  /\ worker' = [worker EXCEPT ![w].status = "GOVERNING", ![w].currentTaskId = NoTask]

\* moe.enter_governance: everything held is released first; a second call only releases.  A release
\* that fails is swallowed, and the worker governs with its task.
EnterGovernance(w, done) ==
  /\ worker[w].role = "governor"
  /\ \/ task' = ReleaseAll(w, done)
     \/ FaultyDisk /\ UNCHANGED task
  /\ IF worker[w].status = "GOVERNING"
     THEN UNCHANGED worker
     ELSE Lands(worker, [worker EXCEPT ![w].status = "GOVERNING", ![w].currentTaskId = NoTask])

\* moe.deregister_worker: a failed release leaves the DEAD worker's assignment dangling.
DeregisterWorker(w, done) ==
  /\ Present(w)
  /\ worker[w].status = "DEAD" => \E t \in Task : Owner(t) = w
  /\ \/ task' = ReleaseAll(w, done)
     \/ FaultyDisk /\ UNCHANGED task
  /\ Lands(worker, [worker EXCEPT ![w].status = "DEAD", ![w].currentTaskId = NoTask])

----------------------------------------------------------------------------
(* The periodic sweep and the restart.                                      *)
(* How long a worker has been silent decides what the sweep does to it.  A  *)
(* heartbeat changes nothing else, so between two sweeps any workers may    *)
(* have stayed silent past any of the three thresholds, which are separate  *)
(* settings.                                                                *)

\* 1. BLOCKED workers past blockedTimeoutMs: what they hold is parked in BACKLOG.
TimedOut(blockedOver) == {w \in blockedOver : worker[w].status = "BLOCKED"}

AfterTimeout(blockedOver) ==
  [tasks |-> [t \in Task |->
                IF Owner(t) \in TimedOut(blockedOver) /\ task[t].status \in ActiveAssignment
                THEN [status |-> "BACKLOG", assignedWorkerId |-> Nobody]
                ELSE task[t]],
   workers |-> [w \in Worker |->
                  IF w \in TimedOut(blockedOver)
                  THEN [worker[w] EXCEPT !.status = "IDLE", !.currentTaskId = NoTask]
                  ELSE worker[w]]]

\* 2. REVIEW tasks whose owner is alive on record but silent past reviewStaleTimeoutMs.
Stranded(S, reviewOver) ==
  {t \in Task : /\ S.tasks[t].status = "REVIEW"
                /\ S.tasks[t].assignedWorkerId \in reviewOver
                /\ S.workers[S.tasks[t].assignedWorkerId].status \notin {"ABSENT", "DEAD"}}

\* The cards are taken from their owners, whose pointers are cleared but for those to stuck ones.
Healed(S, cards, stuck) ==
  [tasks |-> [t \in Task |->
                IF t \in cards
                THEN [S.tasks[t] EXCEPT !.assignedWorkerId = Nobody]
                ELSE S.tasks[t]],
   workers |-> [w \in Worker |->
                  IF \E t \in cards \ stuck :
                       S.tasks[t].assignedWorkerId = w /\ S.workers[w].currentTaskId = t
                  THEN [S.workers[w] EXCEPT !.currentTaskId = NoTask]
                  ELSE S.workers[w]]]

AfterReviewHeal(S, reviewOver) == Healed(S, Stranded(S, reviewOver), {})

\* Mutants of EligibleForStaleCleanup: silence alone is enough; a DEAD record must hold nothing.
EligibleWhenSilent(S, w) == S.workers[w].status # "ABSENT"

EligibleWhenIdle(S, w) ==
  /\ S.workers[w].status # "ABSENT"
  /\ \A t \in Task : S.tasks[t].assignedWorkerId = w => S.tasks[t].status \notin ActiveAssignment

\* 3. Records silent past staleWorkerTimeoutMs: DEAD ones, and those that hold no active task.
EligibleForStaleCleanup(S, w) ==
  \/ S.workers[w].status = "DEAD"
  \/ /\ S.workers[w].status # "ABSENT"
     /\ \A t \in Task : S.tasks[t].assignedWorkerId = w => S.tasks[t].status \notin ActiveAssignment

Pruned(S, staleOver) == {w \in staleOver : EligibleForStaleCleanup(S, w)}

\* What a pruned worker held is released, but for the tasks whose write is lost: the prune goes on.
AfterPrune(S, staleOver, done, lost) ==
  [tasks |-> [t \in Task |->
                IF S.tasks[t].assignedWorkerId \in Pruned(S, staleOver) /\ t \notin lost
                THEN [status |-> IF S.tasks[t].status = "WORKING" /\ t \in done THEN "REVIEW"
                                 ELSE S.tasks[t].status,
                      assignedWorkerId |-> Nobody]
                ELSE S.tasks[t]],
   workers |-> [w \in Worker |-> IF w \in Pruned(S, staleOver) THEN NoWorkerRecord ELSE S.workers[w]]]

\* A timed-out worker's record is fresh again for phases 2 and 3.
AfterSweep(blockedOver, reviewOver, staleOver, done, lost) ==
  LET S1 == AfterTimeout(blockedOver)
      S2 == AfterReviewHeal(S1, reviewOver \ TimedOut(blockedOver))
  IN  AfterPrune(S2, staleOver \ TimedOut(blockedOver), done, lost)

Sweep(blockedOver, reviewOver, staleOver, done, lost) ==
  LET S == AfterSweep(blockedOver, reviewOver, staleOver, done, lost)
  IN  task' = S.tasks /\ worker' = S.workers

\* A write of the first phase fails and ends the sweep: the workers through are done, and some cards
\* of the one it was at are parked, the last of them perhaps with its owner still pointing at it.
SweepStopsInTimeout(through, w, parked) ==
  LET S == AfterTimeout(through) IN
  /\ FaultyDisk
  /\ task' = [t \in Task |-> IF t \in parked
                            THEN [status |-> "BACKLOG", assignedWorkerId |-> Nobody]
                            ELSE S.tasks[t]]
  /\ \/ worker' = S.workers
     \/ worker' = [S.workers EXCEPT ![w].currentTaskId = IF @ \in parked THEN NoTask ELSE @]

\* A write of the second phase does: some cards are not healed, and one perhaps without its owner.
SweepStopsInHeal(blockedOver, reviewOver) ==
  LET S1    == AfterTimeout(blockedOver)
      cards == Stranded(S1, reviewOver \ TimedOut(blockedOver))
  IN  /\ FaultyDisk
      /\ \E healed \in SUBSET cards : \E stuck \in LastLost(healed) :
           LET S == Healed(S1, healed, stuck)
           IN  task' = S.tasks /\ worker' = S.workers

Unfinished == {t \in Task : task[t].status = "WORKING"}

BlockedWorkers == {w \in Worker : worker[w].status = "BLOCKED"}
Reviewers      == {w \in Worker : \E t \in Task : Owner(t) = w /\ task[t].status = "REVIEW"}
OnRecord       == {w \in Worker : Present(w)}

\* What the workers of W own.
OwnedBy(W) == {t \in Task : Owner(t) \in W}

\* purgeAllWorkers: a (re)started daemon forgets every worker and frees what they held.
Restart(done) ==
  /\ task' = [t \in Task |->
                IF Owner(t) # Nobody
                THEN [status |-> NextStatusForRelease(t, done), assignedWorkerId |-> Nobody]
                ELSE task[t]]
  /\ worker' = [w \in Worker |-> NoWorkerRecord]

----------------------------------------------------------------------------
Init ==
  /\ task = [t \in Task |-> NoTaskRecord]
  /\ worker = [w \in Worker |-> NoWorkerRecord]

BoardStep ==
  \/ \E t \in Task, s \in Columns : CreateTask(t, s) \/ MoveCard(t, s)
  \/ \E t \in Task : DeleteTask(t)
  \/ \E e \in Epic : ArchiveEpic(e)

ClaimStep ==
  \E w \in Worker :
    \/ \E t \in Task, replace \in BOOLEAN, skipped \in SUBSET Skippable(w) :
         ClaimNext(w, t, replace, skipped)
    \/ \E skipped \in SUBSET Skippable(w) : ClaimFindsTaken(w, skipped)
    \/ \E t \in Task, replace \in BOOLEAN : ClaimNamed(w, t, replace)
    \/ \E t \in Task : ClaimReplacing(w, t)

AgentStep ==
  \E c \in Worker \cup {Nobody}, t \in Task :
    \/ SubmitPlan(c, t)
    \/ WorkOnStep(c, t)
    \/ CompleteTask(c, t)
    \/ QaApprove(c, t)
    \/ QaReject(c, t)
    \/ RequestReplan(c, t)
    \/ ReportBlocked(c, t)

ReleaseStep ==
  \/ \E t \in Task, done \in SUBSET Unfinished, parked \in BOOLEAN : ReleaseTask(t, done, parked)
  \/ \E t \in Task : ReleaseUnassigned(t)
  \/ \E w \in Worker, done \in SUBSET Unfinished :
       UnblockAndRelease(w, done) \/ EnterGovernance(w, done) \/ DeregisterWorker(w, done)

WorkerStep ==
  \/ \E w \in Worker, role \in {"member", "governor"} : JoinTeam(w, role)
  \/ \E w \in Worker : LeaveTeam(w) \/ UnblockAndRetry(w)
  \/ \E g \in Worker, t \in Task : BlockPlan(g, t)

SweepStep ==
  \/ \E blockedOver \in SUBSET BlockedWorkers, reviewOver \in SUBSET Reviewers :
       \/ \E staleOver \in SUBSET OnRecord :
            \E done \in SUBSET (Unfinished \cap OwnedBy(staleOver)), lost \in Losses(OwnedBy(staleOver)) :
              Sweep(blockedOver, reviewOver, staleOver, done, lost)
       \/ SweepStopsInHeal(blockedOver, reviewOver)
  \/ \E w \in BlockedWorkers :
       \E through \in SUBSET (BlockedWorkers \ {w}), parked \in SUBSET HeldBy(w) :
         SweepStopsInTimeout(through, w, parked)

Next ==
  \/ BoardStep
  \/ ClaimStep
  \/ AgentStep
  \/ ReleaseStep
  \/ WorkerStep
  \/ SweepStep
  \/ \E done \in SUBSET Unfinished : Restart(done)

Spec == Init /\ [][Next]_vars

\* The sweep runs every five minutes, and nothing refreshes a DEAD record: it is past its threshold
\* at some sweep, and stays so.
SweepDead == Sweep({}, {}, {w \in Worker : worker[w].status = "DEAD"}, {}, {})

FairSpec == Spec /\ WF_vars(SweepDead)

----------------------------------------------------------------------------
(* Properties. *)

\* The records have their types.
TypeOK ==
  /\ task \in [Task -> TaskRecord]
  /\ worker \in [Worker -> WorkerRecord]

\* "One task per worker": whatever is replaced, released, swept, reopened or left half written,
\* no worker is ever recorded as the owner of two tasks.
OneTaskPerWorker ==
  \A t, u \in Task : Owner(t) = Owner(u) /\ Owner(t) # Nobody => t = u

\* An assignment never outlives the column it was made in: every handler that moves a card out of
\* an agent column drops the assignee, so a shelved, finished or deleted task holds nobody.
AssignedIsActive ==
  \A t \in Task : Owner(t) # Nobody => task[t].status \in ActiveAssignment

\* With a disk that works, who owns a task is on record, not deregistered and not governing:
\* deregistration, governance, pruning and restart each release what the worker held.
OwnersAreLive ==
  \A t \in Task :
    Owner(t) # Nobody => worker[Owner(t)].status \notin {"ABSENT", "DEAD", "GOVERNING"}

\* With a disk that works, no worker points at a task that does not exist, and a deregistered worker
\* points at none: a deletion clears every pointer, and not the owner's alone.
PointersResolve ==
  \A w \in Worker :
    worker[w].currentTaskId # NoTask =>
      Exists(worker[w].currentTaskId) /\ worker[w].status \notin {"ABSENT", "DEAD"}

\* "WORKING/PLANNING assignments are deliberately never yanked by staleness": a sweep takes a task
\* that is being planned or coded only from a worker that is BLOCKED or DEAD.
SweepNeverYanks ==
  \A blockedOver \in SUBSET BlockedWorkers, reviewOver \in SUBSET Reviewers,
     staleOver \in SUBSET OnRecord, done \in SUBSET Unfinished :
    LET S == AfterSweep(blockedOver, reviewOver, staleOver, done, {}) IN
    \A t \in Task :
      (/\ task[t].status \in {"PLANNING", "WORKING"}
       /\ Owner(t) # Nobody
       /\ worker[Owner(t)].status \notin {"BLOCKED", "DEAD", "ABSENT"})
      => S.tasks[t] = task[t] /\ S.workers[Owner(t)] = worker[Owner(t)]

\* The lease that the tasks' side of the assignment keeps.
Leases == INSTANCE Lease WITH holder <- [t \in Task |-> Owner(t)]

\* Whatever is replaced, swept or left half written, a step grants at most one lease, and that to a
\* worker without another, or revokes some: a failed write never leaves a lease of its own.
KeepsLease == Leases!Spec

\* A live worker whose task passes directly to another is left idle and pointing at nothing,
\* so that it can claim again: nobody keeps coding on a task that was taken over.
EvictedIsFree ==
  [][\A t \in Task :
       LET w == Owner(t) IN
       /\ w # Nobody /\ ~Inactive(w)
       /\ Owner(t)' \notin {w, Nobody}
       => worker'[w].status = "IDLE" /\ worker'[w].currentTaskId = NoTask]_vars

\* A task left assigned to a deregistered worker by a failed release does not stay so: the stale
\* sweep prunes the record and frees the task, unless somebody claims one or the other first.
DanglingIsHealed ==
  \A t \in Task, w \in Worker :
    (Owner(t) = w /\ worker[w].status = "DEAD") ~> ~(Owner(t) = w /\ worker[w].status = "DEAD")

=============================================================================
