--------------------------- MODULE TaskLifecycle ---------------------------
(***************************************************************************)
(* One task of the Moe daemon from its creation to its archive.            *)
(*                                                                         *)
(* Module Ownership follows every pointer of many tasks; this one follows  *)
(* everything the daemon decides about a single task: the plan and its     *)
(* steps, the approval modes and the SPEED timer, who has read the         *)
(* context, and the counters that stop a task from bouncing for ever       *)
(* between agents.  A handler runs under the state mutex and is one action.*)
(* Which worker record changes is left to Ownership.                       *)
(***************************************************************************)
EXTENDS Integers, FiniteSets

CONSTANTS
  Worker,            \* worker ids
  Nobody,            \* null as an assignee, and a caller without a workerId
  Step,              \* the steps of a plan
  DodItem,           \* the items of the definition of done
  Modes,             \* the approval modes the settings may take
  MaxReopens,        \* task.maxReopens
  MaxCritiqueBlocks, \* MAX_CRITIQUE_BLOCKS_DEFAULT
  RefusalThreshold   \* REFUSAL_CASCADE_THRESHOLD

ASSUME CallerAssumption == Nobody \notin Worker
ASSUME StepAssumption   == Step # {}
ASSUME ModesAssumption  == Modes # {} /\ Modes \subseteq {"CONTROL", "SPEED", "TURBO"}
ASSUME CapsAssumption   ==
  MaxReopens \in Nat \ {0} /\ MaxCritiqueBlocks \in Nat /\ RefusalThreshold \in Nat \ {0}

VARIABLES
  task,          \* the task record
  approvalMode,  \* project.settings.approvalMode
  speedTimer,    \* TRUE: a SPEED auto-approval of the task is scheduled
  history        \* what has happened to the task; nothing in the code reads it

vars == <<task, approvalMode, speedTimer, history>>

----------------------------------------------------------------------------
(* Types. *)

Columns == {"BACKLOG", "PLANNING", "AWAITING_APPROVAL", "WORKING", "REVIEW", "DONE", "ARCHIVED"}

AgentClaimable == {"PLANNING", "WORKING", "REVIEW"}

StepStatus == {"PENDING", "IN_PROGRESS", "COMPLETED"}

\* A task without steps.
NoPlan == [s \in {} |-> "PENDING"]

\* The QA rejection that parks the task.  reopenCount grows for ever, but is only compared with
\* this cap, so it is kept up to there.
HardCap == MaxReopens + 1

TaskRecord ==
  [status             : Columns,
   assignedWorkerId   : Worker \cup {Nobody},
   implementationPlan : [Step -> StepStatus] \cup {NoPlan},
   reopenCount        : 0 .. HardCap,
   needsHumanReview   : BOOLEAN,
   critiqueBlockCount : 0 .. MaxCritiqueBlocks,
   failedDodItems     : SUBSET DodItem,
   contextFetchedBy   : SUBSET Worker,
   refusals           : 0 .. RefusalThreshold]  \* empty-progress handoffs of the last 24h

\* bounces:  QA rejections that sent the task back to agents
\* owed:     sent back, and no step completed since
\* unread:   workers that have not called get_context since the task was last sent back
\* approved: a human, a timer, TURBO or the gated tool call let the present plan into WORKING
HistoryRecord ==
  [bounces : 0 .. HardCap, owed : BOOLEAN, unread : SUBSET Worker, approved : BOOLEAN]

Owner == task.assignedWorkerId

Finished(plan) == plan # NoPlan /\ \A s \in DOMAIN plan : plan[s] = "COMPLETED"

----------------------------------------------------------------------------
(* What the shared helpers write. *)

UpTo(cap, n) == IF n < cap THEN n + 1 ELSE cap

ResetPlan(plan) == [s \in DOMAIN plan |-> "PENDING"]

\* updateTask with a status and no assignee.
MovedTo(t, s) ==
  [t EXCEPT !.status = s, !.assignedWorkerId = IF s = t.status THEN @ ELSE Nobody]

\* Mutants of Scrubbed: the steps, or the context stamps, survive the reopening.
ScrubbedButSteps(t) ==
  [t EXCEPT !.needsHumanReview = FALSE, !.critiqueBlockCount = 0, !.failedDodItems = {},
            !.contextFetchedBy = {}]

ScrubbedButContext(t) ==
  [t EXCEPT !.needsHumanReview = FALSE, !.critiqueBlockCount = 0, !.failedDodItems = {},
            !.implementationPlan = ResetPlan(@)]

\* buildReopenClearingUpdates.
Scrubbed(t) ==
  [t EXCEPT !.needsHumanReview = FALSE, !.critiqueBlockCount = 0, !.failedDodItems = {},
            !.contextFetchedBy = {}, !.implementationPlan = ResetPlan(@)]

Reopened(t, s) ==
  [MovedTo(Scrubbed(t), s) EXCEPT !.reopenCount = UpTo(HardCap, @)]

\* A move out of the resting columns is a reopening, whoever makes it.
IsReopening(s) ==
  task.status \in {"REVIEW", "DONE", "ARCHIVED"} /\ s \in {"WORKING", "BACKLOG", "PLANNING"}

StatusSet(s) == IF IsReopening(s) THEN Reopened(task, s) ELSE MovedTo(task, s)

\* What history records of a step: a plan that goes back to planning is nobody's approved plan,
\* and a task that is sent back owes work to people who have read why.
Noted(sentBack, approved) ==
  [history EXCEPT !.owed = @ \/ sentBack,
                  !.unread = IF sentBack THEN Worker ELSE @,
                  !.approved = approved /\ task'.status # "PLANNING"]

Untouched == Noted(FALSE, history.approved)

----------------------------------------------------------------------------
(* Moves by tools and by the board. *)

\* VALID_TRANSITIONS of setTaskStatus.ts.
ToolTransitions ==
  [BACKLOG           |-> {"PLANNING", "WORKING", "REVIEW", "ARCHIVED"},
   PLANNING          |-> {"AWAITING_APPROVAL", "BACKLOG"},
   AWAITING_APPROVAL |-> {"WORKING", "PLANNING"},
   WORKING           |-> {"REVIEW", "PLANNING", "BACKLOG"},
   REVIEW            |-> {"DONE", "WORKING", "BACKLOG", "PLANNING", "ARCHIVED"},
   DONE              |-> {"BACKLOG", "WORKING", "ARCHIVED"},
   ARCHIVED          |-> {"BACKLOG", "WORKING"}]

\* VALID_TRANSITIONS of WebSocketServer.ts.
BoardTransitions == [ToolTransitions EXCEPT !.BACKLOG = @ \ {"REVIEW"}]

\* moe.set_task_status and moe.archive_task.
SetTaskStatus(s) ==
  LET isPlanApproval == task.status = "AWAITING_APPROVAL" /\ s = "WORKING" IN
  /\ s \in ToolTransitions[task.status]
  /\ isPlanApproval => approvalMode # "CONTROL"
  /\ task' = StatusSet(s)
  /\ history' = Noted(IsReopening(s), history.approved \/ isPlanApproval)
  /\ UNCHANGED <<approvalMode, speedTimer>>

\* APPROVE_TASK, and a drag from AWAITING_APPROVAL to WORKING.
ApproveTask ==
  /\ task.status = "AWAITING_APPROVAL"
  /\ task' = MovedTo(task, "WORKING")
  /\ speedTimer' = FALSE
  /\ history' = Noted(FALSE, TRUE)
  /\ UNCHANGED approvalMode

\* UPDATE_TASK with a status; ARCHIVE_DONE_TASKS.
DragCard(s) ==
  /\ s \in BoardTransitions[task.status]
  /\ <<task.status, s>> # <<"AWAITING_APPROVAL", "WORKING">>
  /\ task' = StatusSet(s)
  /\ history' = Noted(IsReopening(s), history.approved \/ s = "WORKING")
  /\ UNCHANGED <<approvalMode, speedTimer>>

\* REJECT_TASK.
RejectTask ==
  /\ task.status = "AWAITING_APPROVAL"
  /\ task' = MovedTo(task, "PLANNING")
  /\ speedTimer' = FALSE
  /\ history' = Untouched
  /\ UNCHANGED approvalMode

\* REOPEN_TASK.
ReopenTask ==
  /\ task.status \in {"DONE", "REVIEW"}
  /\ task' = Reopened(task, "BACKLOG")
  /\ history' = Noted(TRUE, history.approved)
  /\ UNCHANGED <<approvalMode, speedTimer>>

\* UPDATE_SETTINGS: a timer that is running is left to run.
UpdateSettings(mode) ==
  /\ mode # approvalMode
  /\ approvalMode' = mode
  /\ UNCHANGED <<task, speedTimer, history>>

----------------------------------------------------------------------------
(* Agents.  c is the caller: a worker, or Nobody. *)

\* assertWorkerOwns.
MayAct(c) == Owner = Nobody \/ c = Nobody \/ c = Owner

\* assertContextFetched.
HasContext(c) == Owner = Nobody \/ c = Nobody \/ c \in task.contextFetchedBy

\* Mutant of Claim: a parked task is as good as any other.
ClaimEvenParked(w) ==
  /\ task.status \in AgentClaimable
  /\ task' = [task EXCEPT !.assignedWorkerId = w]
  /\ UNCHANGED <<approvalMode, speedTimer, history>>

\* moe.claim_next_task; who may be replaced, module Ownership says.
Claim(w) ==
  /\ task.status \in AgentClaimable
  /\ ~(task.status = "REVIEW" /\ task.needsHumanReview)
  /\ task' = [task EXCEPT !.assignedWorkerId = w]
  /\ UNCHANGED <<approvalMode, speedTimer, history>>

\* moe.get_context.
GetContext(w) ==
  /\ task' = [task EXCEPT !.contextFetchedBy = @ \cup {w}]
  /\ history' = [history EXCEPT !.unread = @ \ {w}]
  /\ UNCHANGED <<approvalMode, speedTimer>>

\* The task as the first write of moe.submit_plan leaves it.
Submitted ==
  [MovedTo(task, "AWAITING_APPROVAL") EXCEPT
     !.implementationPlan = [s \in Step |-> "PENDING"], !.failedDodItems = {}]

MaySubmit(c) == task.status = "PLANNING" /\ MayAct(c)

\* moe.submit_plan.  oversized: past the warning size, autoCritique on and no governor online.
SubmitPlan(c, oversized) ==
  /\ MaySubmit(c)
  /\ \/ /\ approvalMode = "TURBO"
        /\ task' = MovedTo(Submitted, "WORKING")
        /\ history' = Noted(FALSE, TRUE)
        /\ UNCHANGED speedTimer
     \/ /\ approvalMode = "SPEED"
        /\ task' = Submitted
        /\ history' = Noted(FALSE, FALSE)
        /\ speedTimer' = TRUE
     \/ /\ approvalMode = "CONTROL"
        /\ task' = IF oversized /\ task.critiqueBlockCount < MaxCritiqueBlocks
                   THEN [MovedTo(Submitted, "PLANNING") EXCEPT !.critiqueBlockCount = @ + 1]
                   ELSE Submitted
        /\ history' = Noted(FALSE, FALSE)
        /\ UNCHANGED speedTimer
  /\ UNCHANGED approvalMode

\* moe.start_step.
StartStep(c, s) ==
  /\ task.status = "WORKING" /\ MayAct(c) /\ HasContext(c)
  /\ s \in DOMAIN task.implementationPlan
  /\ task.implementationPlan[s] = "PENDING"
  /\ task' = [task EXCEPT !.implementationPlan[s] = "IN_PROGRESS"]
  /\ UNCHANGED <<approvalMode, speedTimer, history>>

\* moe.complete_step.
CompleteStep(c, s) ==
  /\ task.status = "WORKING" /\ MayAct(c) /\ HasContext(c)
  /\ s \in DOMAIN task.implementationPlan
  /\ task.implementationPlan[s] = "IN_PROGRESS"
  /\ task' = [task EXCEPT !.implementationPlan[s] = "COMPLETED"]
  /\ history' = [history EXCEPT !.owed = FALSE]
  /\ UNCHANGED <<approvalMode, speedTimer>>

\* moe.complete_task.
CompleteTask(c) ==
  /\ task.status = "WORKING" /\ MayAct(c)
  /\ Finished(task.implementationPlan)
  /\ task' = MovedTo(task, "REVIEW")
  /\ history' = Untouched
  /\ UNCHANGED <<approvalMode, speedTimer>>

\* moe.qa_approve.
QaApprove(c) ==
  /\ task.status = "REVIEW" /\ MayAct(c) /\ HasContext(c)
  /\ task' = [MovedTo(task, "DONE") EXCEPT !.needsHumanReview = FALSE, !.critiqueBlockCount = 0]
  /\ history' = Untouched
  /\ UNCHANGED <<approvalMode, speedTimer>>

\* Mutant of Destination: the cap is compared with the count before this rejection.
DestinationByOldCount(failed) ==
  LET count == task.reopenCount IN
  IF count >= HardCap THEN "REVIEW"
  ELSE IF count >= MaxReopens \/ failed \cap task.failedDodItems # {} THEN "PLANNING"
  ELSE "WORKING"

\* Where a rejection sends the task: to a human, to the architect or back to the worker.
Destination(failed) ==
  LET count == task.reopenCount + 1 IN
  IF count >= HardCap THEN "REVIEW"
  ELSE IF count >= MaxReopens \/ failed \cap task.failedDodItems # {} THEN "PLANNING"
  ELSE "WORKING"

\* moe.qa_reject.  A parked task keeps its steps for the human.
QaReject(c, failed) ==
  LET s        == Destination(failed)
      parked   == s = "REVIEW"
  IN
  /\ task.status = "REVIEW" /\ MayAct(c) /\ HasContext(c)
  /\ task' = [MovedTo(task, s) EXCEPT
                !.reopenCount = UpTo(HardCap, @),
                !.failedDodItems = @ \cup failed,
                !.contextFetchedBy = {},
                !.assignedWorkerId = Nobody,
                !.needsHumanReview = @ \/ parked,
                !.implementationPlan = IF parked THEN @ ELSE ResetPlan(@)]
  /\ history' = [Noted(~parked, history.approved) EXCEPT
                   !.unread = Worker,
                   !.bounces = IF parked THEN @ ELSE UpTo(HardCap, @)]
  /\ UNCHANGED <<approvalMode, speedTimer>>

\* moe.request_replan.
RequestReplan(c) ==
  /\ task.status = "WORKING" /\ MayAct(c)
  /\ task' = [MovedTo(task, "PLANNING") EXCEPT !.implementationPlan = NoPlan]
  /\ history' = Untouched
  /\ UNCHANGED <<approvalMode, speedTimer>>

\* Mutants of BlockPlan: blocking without end; blocking whatever the column.
BlockPlanWithoutCap ==
  /\ task.status \in {"AWAITING_APPROVAL", "WORKING"}
  /\ task' = [MovedTo(task, "PLANNING") EXCEPT !.critiqueBlockCount = @ + 1]
  /\ history' = Untouched
  /\ UNCHANGED <<approvalMode, speedTimer>>

BlockPlanAnywhere ==
  /\ task.critiqueBlockCount < MaxCritiqueBlocks
  /\ task' = [MovedTo(task, "PLANNING") EXCEPT !.critiqueBlockCount = @ + 1]
  /\ history' = Untouched
  /\ UNCHANGED <<approvalMode, speedTimer>>

\* moe.submit_plan_critique with verdict block, while it still flips the task.
BlockPlan ==
  /\ task.status \in {"AWAITING_APPROVAL", "WORKING"}
  /\ task.critiqueBlockCount < MaxCritiqueBlocks
  /\ task' = [MovedTo(task, "PLANNING") EXCEPT !.critiqueBlockCount = @ + 1]
  /\ history' = Untouched
  /\ UNCHANGED <<approvalMode, speedTimer>>

----------------------------------------------------------------------------
(* Releases, sweeps, timers and restarts. *)

\* nextStatusForRelease of a task that keeps its column, unless its work is finished.
ReleasedStatus ==
  IF task.status = "WORKING" /\ Finished(task.implementationPlan) THEN "REVIEW" ELSE task.status

\* The handoffs that report no progress, this one included; any of the older ones may be past 24h.
Counted(recent) == UpTo(RefusalThreshold, recent)

\* moe.release_task of a held task.  refusal: its handoff note reports no progress.
ReleaseTask(refusal) ==
  /\ Owner # Nobody
  /\ \E recent \in 0 .. task.refusals :
       LET count    == IF refusal THEN Counted(recent) ELSE task.refusals
           cascaded == refusal /\ count >= RefusalThreshold
       IN
       task' = [task EXCEPT !.status = IF cascaded THEN "BACKLOG" ELSE ReleasedStatus,
                            !.assignedWorkerId = Nobody,
                            !.needsHumanReview = FALSE,
                            !.refusals = count]
  /\ history' = Untouched
  /\ UNCHANGED <<approvalMode, speedTimer>>

\* Mutant of ReleaseUnassigned: a late release routes finished work to QA from any column.
ReleaseUnassignedLate(refusal) ==
  /\ Owner = Nobody
  /\ task' = [task EXCEPT !.status = IF Finished(task.implementationPlan) THEN "REVIEW" ELSE @,
                          !.needsHumanReview = FALSE]
  /\ history' = Untouched
  /\ UNCHANGED <<approvalMode, speedTimer>>

\* ... of a task that nobody holds: repaired, unparked, and its handoff note recorded all the same.
ReleaseUnassigned(refusal) ==
  /\ Owner = Nobody
  /\ task.status \notin {"DONE", "ARCHIVED"}
  /\ \E recent \in 0 .. task.refusals :
       task' = [task EXCEPT !.status = ReleasedStatus,
                            !.needsHumanReview = FALSE,
                            !.refusals = IF refusal THEN Counted(recent) ELSE @]
  /\ history' = Untouched
  /\ UNCHANGED <<approvalMode, speedTimer>>

\* The holder is deregistered, pruned, unblocked without retry or silent over a review.
HolderReleased ==
  /\ Owner # Nobody
  /\ task' = [task EXCEPT !.status = ReleasedStatus, !.assignedWorkerId = Nobody]
  /\ history' = Untouched
  /\ UNCHANGED <<approvalMode, speedTimer>>

\* runBlockedTimeoutSweep: the holder was BLOCKED for too long.
HolderTimedOut ==
  /\ Owner # Nobody
  /\ task.status \in AgentClaimable
  /\ task' = MovedTo(task, "BACKLOG")
  /\ history' = Untouched
  /\ UNCHANGED <<approvalMode, speedTimer>>

\* The callback that armSpeedModeApproval scheduled.
SpeedTimerFires ==
  /\ speedTimer
  /\ speedTimer' = FALSE
  /\ IF task.status = "AWAITING_APPROVAL"
     THEN task' = MovedTo(task, "WORKING") /\ history' = Noted(FALSE, TRUE)
     ELSE UNCHANGED <<task, history>>
  /\ UNCHANGED approvalMode

\* Mutant of Rearmed: a restart forgets the timers.
RearmedNever(t) == FALSE

\* rearmSpeedModeApprovals.
Rearmed(t) == t.status = "AWAITING_APPROVAL" /\ approvalMode = "SPEED"

\* The daemon stops, or dies, and starts: every holder is forgotten, timers are rebuilt.
Restart ==
  /\ task' = IF Owner = Nobody THEN task
             ELSE [task EXCEPT !.status = ReleasedStatus, !.assignedWorkerId = Nobody]
  /\ speedTimer' = Rearmed(task')
  /\ history' = Untouched
  /\ UNCHANGED approvalMode

\* The daemon dies after the first write of moe.submit_plan, and starts.
CrashInSubmit(c) ==
  /\ MaySubmit(c)
  /\ task' = Submitted
  /\ speedTimer' = Rearmed(task')
  /\ history' = Noted(FALSE, FALSE)
  /\ UNCHANGED approvalMode

----------------------------------------------------------------------------
\* moe.create_task and CREATE_TASK choose the column; a plan comes later.
Init ==
  /\ task \in [status : Columns, assignedWorkerId : {Nobody}, implementationPlan : {NoPlan},
               reopenCount : {0}, needsHumanReview : {FALSE}, critiqueBlockCount : {0},
               failedDodItems : {{}}, contextFetchedBy : {{}}, refusals : {0}]
  /\ approvalMode \in Modes
  /\ speedTimer = FALSE
  /\ history = [bounces |-> 0, owed |-> FALSE, unread |-> Worker,
                approved |-> FALSE]

Board ==
  \/ \E s \in Columns : DragCard(s)
  \/ ApproveTask
  \/ RejectTask
  \/ ReopenTask
  \/ \E mode \in Modes : UpdateSettings(mode)

Agents ==
  \/ \E s \in Columns : SetTaskStatus(s)
  \/ \E w \in Worker : Claim(w) \/ GetContext(w)
  \/ \E c \in Worker \cup {Nobody} :
       \/ \E oversized \in BOOLEAN : SubmitPlan(c, oversized)
       \/ \E s \in Step : StartStep(c, s) \/ CompleteStep(c, s)
       \/ CompleteTask(c)
       \/ QaApprove(c)
       \/ \E failed \in SUBSET DodItem : QaReject(c, failed)
       \/ RequestReplan(c)
  \/ BlockPlan

Daemon ==
  \/ \E refusal \in BOOLEAN : ReleaseTask(refusal) \/ ReleaseUnassigned(refusal)
  \/ HolderReleased
  \/ HolderTimedOut
  \/ SpeedTimerFires
  \/ Restart
  \/ \E c \in Worker \cup {Nobody} : CrashInSubmit(c)

Next == Board \/ Agents \/ Daemon

Spec == Init /\ [][Next]_vars

\* A timer that is set goes off: nothing holds the state mutex for ever.
FairSpec == Spec /\ WF_vars(SpeedTimerFires)

----------------------------------------------------------------------------
(* Properties. *)

\* The record keeps its type; in particular a governor's and the size critic's blocks are bounded.
TypeOK ==
  /\ task \in TaskRecord
  /\ approvalMode \in Modes
  /\ speedTimer \in BOOLEAN
  /\ history \in HistoryRecord

\* A task parked for a human is held by no agent and is in no agent's column but REVIEW, until a
\* release or a reopening clears the flag: neither claims, sweeps nor restarts carry it elsewhere.
ParkedIsResting ==
  task.needsHumanReview =>
    Owner = Nobody /\ task.status \in {"REVIEW", "DONE", "ARCHIVED"}

\* QA sends a task back to agents at most MaxReopens times in its whole life, however often humans
\* reopen, unpark or archive it in between: "an unbounded loop" is what the hard cap is for.
BouncesAreBounded == history.bounces <= MaxReopens

\* A task that was rejected or reopened cannot be completed on the strength of the previous
\* attempt: until a step is completed anew, its plan is never all COMPLETED in an agent's column.
OwedWorkIsPending == history.owed => ~Finished(task.implementationPlan)

\* Every way of sending a task back voids every context stamp: a worker the daemon takes for
\* informed has read the task since its last rejection or reopening.
InformedHaveRead == task.contextFetchedBy \cap history.unread = {}

\* Whatever moves a card, a tool, a drag, a release, a sweep, QA or a timer, moves it along the
\* published transitions; only TURBO skips the approval column.
CardsFollowTransitions ==
  [][task'.status # task.status =>
       \/ task'.status \in ToolTransitions[task.status]
       \/ approvalMode = "TURBO" /\ task.status = "PLANNING" /\ task'.status = "WORKING"]_vars

\* Finished work is not resurrected: a DONE or ARCHIVED task leaves these columns only as a
\* counted reopening, with its attempt, its readers and its escalation wiped.
FinishedRests ==
  [][task.status \in {"DONE", "ARCHIVED"} /\ task'.status \notin {"DONE", "ARCHIVED"} =>
       /\ task'.reopenCount = UpTo(HardCap, task.reopenCount)
       /\ task'.contextFetchedBy = {} /\ ~task'.needsHumanReview
       /\ \A s \in DOMAIN task'.implementationPlan : task'.implementationPlan[s] = "PENDING"]_vars

\* A plan that waits with a timer does not wait for ever while the mode is SPEED, whatever crashes,
\* restarts and changes of the mode come between.
SpeedPlansMove ==
  (task.status = "AWAITING_APPROVAL" /\ speedTimer)
    ~> (task.status # "AWAITING_APPROVAL" \/ approvalMode # "SPEED")

\* What the code says, and does not do.

\* setTaskStatus.ts: an agent "self-approving via this tool must NOT bypass CONTROL-mode human
\* approval".  A plan is not worked on unless somebody entitled to has let it into WORKING.
WorkIsApproved ==
  task.status = "WORKING" /\ task.implementationPlan # NoPlan => history.approved

=============================================================================
