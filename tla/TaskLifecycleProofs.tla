------------------------- MODULE TaskLifecycleProofs -------------------------
(***************************************************************************)
(* Proofs about TaskLifecycle for any workers, plans, definitions of done  *)
(* and caps: what a task carries from one attempt to the next.             *)
(*                                                                         *)
(* The four safety properties are proved from one inductive invariant.     *)
(* Three parts are added to them: a task that somebody holds is in a       *)
(* column of agents (HeldIsActive), so that a release cannot move a        *)
(* resting task; a parked task has used up its reopenings (ParkedAtCap),   *)
(* so that a second rejection parks it again; and QA's bounces are among   *)
(* the counted reopenings (BouncesAreCounted), which is what makes the     *)
(* hard cap on the count a cap on the bounces.                             *)
(*                                                                         *)
(* That a plan in SPEED mode moves rests on the timer, which stays set as  *)
(* long as the plan waits and the mode stays (TimerLasts), and which fires *)
(* (TimerFairness).                                                        *)
(***************************************************************************)
EXTENDS TaskLifecycle, TLAPS

HeldIsActive == Owner # Nobody => task.status \in AgentClaimable

ParkedAtCap == task.needsHumanReview => task.reopenCount = HardCap

BouncesAreCounted == history.bounces <= task.reopenCount

IInv ==
  /\ TypeOK
  /\ ParkedIsResting /\ ParkedAtCap
  /\ HeldIsActive
  /\ OwedWorkIsPending
  /\ BouncesAreCounted /\ BouncesAreBounded
  /\ InformedHaveRead

----------------------------------------------------------------------------
(* Records. *)

LEMMA UpToType ==
  ASSUME NEW cap \in Nat, NEW n \in 0 .. cap
  PROVE  UpTo(cap, n) \in 0 .. cap /\ UpTo(cap, n) >= n /\ (n < cap => UpTo(cap, n) = n + 1)
BY DEF UpTo

Plans == [Step -> StepStatus] \cup {NoPlan}

\* A reset plan is a plan, and has nothing completed.
LEMMA ResetPlanType ==
  ASSUME NEW plan \in Plans
  PROVE  /\ ResetPlan(plan) \in Plans
         /\ ~Finished(ResetPlan(plan))
         /\ \A s \in DOMAIN ResetPlan(plan) : ResetPlan(plan)[s] = "PENDING"
BY StepAssumption DEF Plans, ResetPlan, NoPlan, StepStatus, Finished

LEMMA MovedToFields ==
  ASSUME NEW t \in TaskRecord, NEW s \in Columns
  PROVE  /\ MovedTo(t, s) \in TaskRecord
         /\ MovedTo(t, s).status = s
         /\ MovedTo(t, s).assignedWorkerId = IF s = t.status THEN t.assignedWorkerId ELSE Nobody
         /\ MovedTo(t, s).implementationPlan = t.implementationPlan
         /\ MovedTo(t, s).reopenCount = t.reopenCount
         /\ MovedTo(t, s).needsHumanReview = t.needsHumanReview
         /\ MovedTo(t, s).critiqueBlockCount = t.critiqueBlockCount
         /\ MovedTo(t, s).contextFetchedBy = t.contextFetchedBy
BY DEF MovedTo, TaskRecord

\* A reopened task starts over.
LEMMA ReopenedFields ==
  ASSUME NEW t \in TaskRecord, NEW s \in Columns, s # t.status
  PROVE  /\ Reopened(t, s) \in TaskRecord
         /\ Reopened(t, s).status = s
         /\ Reopened(t, s).assignedWorkerId = Nobody
         /\ Reopened(t, s).implementationPlan = ResetPlan(t.implementationPlan)
         /\ Reopened(t, s).reopenCount = UpTo(HardCap, t.reopenCount)
         /\ Reopened(t, s).needsHumanReview = FALSE
         /\ Reopened(t, s).contextFetchedBy = {}
<1>1. /\ Scrubbed(t) \in TaskRecord
      /\ Scrubbed(t).status = t.status
      /\ Scrubbed(t).implementationPlan = ResetPlan(t.implementationPlan)
      /\ Scrubbed(t).reopenCount = t.reopenCount
      /\ Scrubbed(t).needsHumanReview = FALSE
      /\ Scrubbed(t).contextFetchedBy = {}
  <2>1. ResetPlan(t.implementationPlan) \in Plans
    BY ResetPlanType DEF TaskRecord, Plans
  <2>2. 0 \in 0 .. MaxCritiqueBlocks
    BY CapsAssumption
  <2> QED BY <2>1, <2>2 DEF Scrubbed, TaskRecord, Plans
<1>2. UpTo(HardCap, t.reopenCount) \in 0 .. HardCap
  BY UpToType, CapsAssumption DEF HardCap, TaskRecord
<1>3. MovedTo(Scrubbed(t), s) \in TaskRecord
  BY <1>1, MovedToFields
<1> QED BY <1>1, <1>2, <1>3, MovedToFields DEF Reopened, TaskRecord

LEMMA NotedFields ==
  ASSUME history \in HistoryRecord, NEW sentBack, NEW approved
  PROVE  /\ Noted(sentBack, approved) \in HistoryRecord
         /\ Noted(sentBack, approved).bounces = history.bounces
         /\ Noted(sentBack, approved).owed => history.owed \/ sentBack
         /\ Noted(sentBack, approved).unread = IF sentBack THEN Worker ELSE history.unread
BY DEF Noted, HistoryRecord

----------------------------------------------------------------------------
(* Two kinds of steps. *)

Resting == {"REVIEW", "DONE", "ARCHIVED"}

\* The card stays where it is with its owner, or loses its owner; its attempt, if it is finished,
\* was before; and nobody is sent back.
LEMMA QuietStep ==
  ASSUME IInv,
         task' \in TaskRecord, approvalMode' \in Modes, speedTimer' \in BOOLEAN,
         history' = history \/ \E approved \in BOOLEAN : history' = Noted(FALSE, approved),
         task'.reopenCount = task.reopenCount,
         task'.contextFetchedBy = task.contextFetchedBy,
         task'.implementationPlan = task.implementationPlan \/ ~Finished(task'.implementationPlan),
         task'.needsHumanReview => task.needsHumanReview /\ task'.status \in Resting,
         task'.assignedWorkerId = Nobody
           \/ (task'.status = task.status /\ task'.assignedWorkerId = task.assignedWorkerId)
  PROVE  IInv'
<1> USE DEF IInv
<1>1. /\ history' \in HistoryRecord
      /\ history'.bounces = history.bounces
      /\ history'.owed => history.owed
      /\ history'.unread = history.unread
  BY NotedFields DEF TypeOK
<1>2. TypeOK'
  BY <1>1 DEF TypeOK
<1>3. ParkedIsResting' /\ ParkedAtCap' /\ HeldIsActive'
  BY DEF ParkedIsResting, ParkedAtCap, HeldIsActive, Owner, Resting
<1>4. OwedWorkIsPending'
  BY <1>1 DEF OwedWorkIsPending, Finished
<1>5. BouncesAreCounted' /\ BouncesAreBounded' /\ InformedHaveRead'
  BY <1>1 DEF BouncesAreCounted, BouncesAreBounded, InformedHaveRead
<1> QED BY <1>2, <1>3, <1>4, <1>5

\* A reopening.
LEMMA ReopeningStep ==
  ASSUME IInv, NEW s \in Columns \ {task.status},
         task' = Reopened(task, s),
         NEW approved \in BOOLEAN, history' = Noted(TRUE, approved),
         UNCHANGED <<approvalMode, speedTimer>>
  PROVE  IInv'
<1> USE DEF IInv
<1>1. /\ history' \in HistoryRecord
      /\ history'.bounces = history.bounces
  BY NotedFields DEF TypeOK
<1>2. /\ task' \in TaskRecord
      /\ task'.assignedWorkerId = Nobody /\ ~task'.needsHumanReview
      /\ task'.contextFetchedBy = {}
      /\ task'.implementationPlan = ResetPlan(task.implementationPlan)
      /\ task'.reopenCount >= task.reopenCount
  <2>1. task.reopenCount \in 0 .. HardCap /\ HardCap \in Nat
    BY CapsAssumption DEF TypeOK, TaskRecord, HardCap
  <2>2. UpTo(HardCap, task.reopenCount) >= task.reopenCount
    BY <2>1, UpToType
  <2>3. task \in TaskRecord /\ s # task.status
    BY DEF TypeOK
  <2> QED BY <2>2, <2>3, ReopenedFields
<1>3. TypeOK'
  BY <1>1, <1>2 DEF TypeOK
<1>4. ParkedIsResting' /\ ParkedAtCap' /\ HeldIsActive'
  BY <1>2 DEF ParkedIsResting, ParkedAtCap, HeldIsActive, Owner
<1>5. OwedWorkIsPending'
  <2>1. ~Finished(task'.implementationPlan)
    BY <1>2, ResetPlanType DEF TypeOK, TaskRecord, Plans
  <2> QED BY <2>1 DEF OwedWorkIsPending, Finished
<1>6. InformedHaveRead'
  BY <1>2 DEF InformedHaveRead
<1>7. BouncesAreCounted' /\ BouncesAreBounded'
  <2>1. task.reopenCount \in Int /\ task'.reopenCount \in Int /\ history.bounces \in Int
    BY <1>2, CapsAssumption DEF TypeOK, TaskRecord, HistoryRecord, HardCap
  <2>2. BouncesAreCounted'
    <3>1. task'.reopenCount >= task.reopenCount /\ history'.bounces = history.bounces
      BY <1>1, <1>2
    <3>2. history.bounces <= task.reopenCount
      BY DEF BouncesAreCounted
    <3>3. ASSUME NEW a \in Int, NEW b \in Int, NEW c \in Int, a <= b, c >= b PROVE a <= c
      BY <3>3
    <3>4. history'.bounces <= task'.reopenCount
      BY <2>1, <3>1, <3>2, <3>3, Zenon
    <3> QED BY <3>4 DEF BouncesAreCounted
  <2>3. BouncesAreBounded'
    BY <1>1 DEF BouncesAreBounded
  <2> QED BY <2>2, <2>3
<1> QED BY <1>3, <1>4, <1>5, <1>6, <1>7

----------------------------------------------------------------------------
(* The board. *)

LEMMA StatusSetKeeps ==
  ASSUME IInv, NEW s \in Columns \ {task.status}, NEW approved \in BOOLEAN,
         task.status \in Resting => s # "AWAITING_APPROVAL",
         task' = StatusSet(s),
         history' = Noted(IsReopening(s), approved),
         UNCHANGED <<approvalMode, speedTimer>>
  PROVE  IInv'
<1>1. CASE IsReopening(s)
  <2>1. history' = Noted(TRUE, approved)
    BY <1>1 DEF Noted
  <2>2. task' = Reopened(task, s)
    BY <1>1 DEF StatusSet
  <2> QED BY <2>1, <2>2, ReopeningStep
<1>2. CASE ~IsReopening(s)
  <2>1. history' = Noted(FALSE, approved)
    BY <1>2 DEF Noted
  <2>2. task' = MovedTo(task, s) /\ task \in TaskRecord
    BY <1>2 DEF StatusSet, IInv, TypeOK
  <2>3. task'.needsHumanReview => task.needsHumanReview /\ task'.status \in Resting
    BY <1>2, <2>2, MovedToFields DEF IInv, ParkedIsResting, IsReopening, Resting, Columns
  <2>4. /\ task' \in TaskRecord
        /\ task'.reopenCount = task.reopenCount
        /\ task'.contextFetchedBy = task.contextFetchedBy
        /\ task'.implementationPlan = task.implementationPlan
        /\ task'.assignedWorkerId = Nobody
    BY <2>2, MovedToFields
  <2>5. approvalMode' \in Modes /\ speedTimer' \in BOOLEAN
    BY DEF IInv, TypeOK
  <2> QED BY <2>1, <2>3, <2>4, <2>5, QuietStep
<1> QED BY <1>1, <1>2

LEMMA BoardKeeps == IInv /\ Board => IInv'
<1> SUFFICES ASSUME IInv, Board PROVE IInv'
  OBVIOUS
<1> USE DEF IInv
<1>0. task \in TaskRecord
  BY DEF TypeOK
<1>1. ASSUME NEW s \in Columns, DragCard(s) PROVE IInv'
  <2>1. s # task.status /\ (task.status \in Resting => s # "AWAITING_APPROVAL")
    BY <1>0, <1>1 DEF DragCard, BoardTransitions, ToolTransitions, TaskRecord, Columns, Resting
  <2>2. (history.approved \/ s = "WORKING") \in BOOLEAN
    OBVIOUS
  <2> QED BY <1>1, <2>1, <2>2, StatusSetKeeps DEF DragCard
<1>2. CASE ApproveTask
  BY <1>0, <1>2, MovedToFields, QuietStep DEF ApproveTask, TypeOK, ParkedIsResting, Columns
<1>3. CASE RejectTask
  BY <1>0, <1>3, MovedToFields, QuietStep DEF RejectTask, Untouched, TypeOK, HistoryRecord, ParkedIsResting, Columns
<1>4. CASE ReopenTask
  <2>1. history.approved \in BOOLEAN /\ "BACKLOG" \in Columns \ {task.status}
    BY <1>4 DEF ReopenTask, TypeOK, HistoryRecord, Columns
  <2> QED BY <1>4, <2>1, ReopeningStep DEF ReopenTask
<1>5. ASSUME NEW mode \in Modes, UpdateSettings(mode) PROVE IInv'
  BY <1>0, <1>5, QuietStep DEF UpdateSettings, TypeOK, ParkedIsResting, Owner, Resting
<1> QED BY <1>1, <1>2, <1>3, <1>4, <1>5 DEF Board

----------------------------------------------------------------------------
(* Agents. *)

LEMMA SetTaskStatusKeeps ==
  ASSUME IInv, NEW s \in Columns, SetTaskStatus(s)
  PROVE  IInv'
<1>0. task \in TaskRecord
  BY DEF IInv, TypeOK
<1>1. s # task.status /\ (task.status \in Resting => s # "AWAITING_APPROVAL")
  BY <1>0 DEF SetTaskStatus, ToolTransitions, TaskRecord, Columns, Resting
<1>2. \E approved \in BOOLEAN : history' = Noted(IsReopening(s), approved)
  BY DEF SetTaskStatus
<1> QED BY <1>1, <1>2, StatusSetKeeps DEF SetTaskStatus

LEMMA ClaimKeeps ==
  ASSUME IInv, NEW w \in Worker, Claim(w)
  PROVE  IInv'
<1> USE DEF IInv
<1>1. TypeOK'
  BY DEF TypeOK, Claim, TaskRecord
<1>2. ~task.needsHumanReview
  BY DEF Claim, ParkedIsResting, AgentClaimable
<1> QED BY <1>1, <1>2 DEF TypeOK, TaskRecord, Claim, Owner, ParkedIsResting, ParkedAtCap, HeldIsActive, OwedWorkIsPending, Finished,
           BouncesAreCounted, BouncesAreBounded, InformedHaveRead

LEMMA GetContextKeeps ==
  ASSUME IInv, NEW w \in Worker, GetContext(w)
  PROVE  IInv'
<1> USE DEF IInv
<1>1. task' \in TaskRecord
  BY DEF TypeOK, GetContext, TaskRecord
<1>2. history' \in HistoryRecord
  BY DEF TypeOK, GetContext, HistoryRecord
<1> QED BY <1>1, <1>2 DEF TypeOK, TaskRecord, HistoryRecord, GetContext, Owner, ParkedIsResting, ParkedAtCap, HeldIsActive,
           OwedWorkIsPending, Finished, BouncesAreCounted, BouncesAreBounded, InformedHaveRead

LEMMA SubmittedFields ==
  ASSUME IInv
  PROVE  /\ Submitted \in TaskRecord
         /\ Submitted.status = "AWAITING_APPROVAL" /\ (task.status = "PLANNING" => Submitted.assignedWorkerId = Nobody)
         /\ ~Finished(Submitted.implementationPlan)
         /\ Submitted.reopenCount = task.reopenCount
         /\ Submitted.critiqueBlockCount = task.critiqueBlockCount
         /\ Submitted.contextFetchedBy = task.contextFetchedBy
         /\ Submitted.needsHumanReview = task.needsHumanReview
<1>0. task \in TaskRecord /\ "AWAITING_APPROVAL" \in Columns
  BY DEF IInv, TypeOK, Columns
<1> DEFINE plan == [s \in Step |-> "PENDING"]
<1>1. plan \in [Step -> StepStatus] /\ ~Finished(plan)
  BY StepAssumption DEF StepStatus, Finished
<1> HIDE DEF plan
<1>2. Submitted = [MovedTo(task, "AWAITING_APPROVAL") EXCEPT !.implementationPlan = plan, !.failedDodItems = {}]
  BY DEF Submitted, plan
<1> DEFINE t == MovedTo(task, "AWAITING_APPROVAL")
<1>3. /\ t \in TaskRecord
      /\ t.status = "AWAITING_APPROVAL" /\ (task.status = "PLANNING" => t.assignedWorkerId = Nobody)
      /\ t.reopenCount = task.reopenCount /\ t.critiqueBlockCount = task.critiqueBlockCount
      /\ t.contextFetchedBy = task.contextFetchedBy /\ t.needsHumanReview = task.needsHumanReview
  BY <1>0, MovedToFields
<1> HIDE DEF t
<1>4. Submitted = [t EXCEPT !.implementationPlan = plan, !.failedDodItems = {}]
  BY <1>2 DEF t
<1> QED BY <1>1, <1>3, <1>4 DEF TaskRecord

LEMMA SubmitPlanKeeps ==
  ASSUME IInv, NEW c \in Worker \cup {Nobody}, NEW oversized \in BOOLEAN, SubmitPlan(c, oversized)
  PROVE  IInv'
<1> USE DEF IInv
<1>0. task \in TaskRecord /\ task.status = "PLANNING" /\ ~task.needsHumanReview
  BY DEF TypeOK, SubmitPlan, MaySubmit, ParkedIsResting
<1>1. CASE task' = Submitted
  BY <1>0, <1>1, SubmittedFields, QuietStep DEF SubmitPlan, TypeOK
<1>2. CASE task' = MovedTo(Submitted, "WORKING")
  <2>1. /\ task' \in TaskRecord
        /\ task'.assignedWorkerId = Nobody /\ ~task'.needsHumanReview
        /\ task'.reopenCount = task.reopenCount /\ task'.contextFetchedBy = task.contextFetchedBy
        /\ ~Finished(task'.implementationPlan)
    BY <1>0, <1>2, SubmittedFields, MovedToFields DEF Columns
  <2> QED BY <2>1, QuietStep DEF SubmitPlan, TypeOK
<1>3. CASE /\ task.critiqueBlockCount < MaxCritiqueBlocks
           /\ task' = [MovedTo(Submitted, "PLANNING") EXCEPT !.critiqueBlockCount = @ + 1]
  <2>1. MovedTo(Submitted, "PLANNING").critiqueBlockCount + 1 \in 0 .. MaxCritiqueBlocks
    BY <1>0, <1>3, SubmittedFields, MovedToFields, CapsAssumption DEF TaskRecord, Columns
  <2>2. /\ task' \in TaskRecord
        /\ task'.assignedWorkerId = Nobody /\ ~task'.needsHumanReview
        /\ task'.reopenCount = task.reopenCount /\ task'.contextFetchedBy = task.contextFetchedBy
        /\ ~Finished(task'.implementationPlan)
    BY <1>0, <1>3, <2>1, SubmittedFields, MovedToFields DEF TaskRecord, Columns
  <2> QED BY <2>2, QuietStep DEF SubmitPlan, TypeOK
<1> QED BY <1>1, <1>2, <1>3 DEF SubmitPlan

LEMMA StepsKeep ==
  ASSUME IInv, NEW c \in Worker \cup {Nobody}, NEW s \in Step,
         StartStep(c, s) \/ CompleteStep(c, s)
  PROVE  IInv'
<1> USE DEF IInv
<1>0. task \in TaskRecord /\ s \in DOMAIN task.implementationPlan
  BY DEF TypeOK, StartStep, CompleteStep
<1>1. task.implementationPlan \in [Step -> StepStatus]
  BY <1>0 DEF TaskRecord, NoPlan
<1>2. ASSUME NEW status \in StepStatus
      PROVE  [task EXCEPT !.implementationPlan[s] = status] \in TaskRecord
  BY <1>0, <1>1 DEF TaskRecord
<1>3. CASE StartStep(c, s)
  <2>1. task' \in TaskRecord
    BY <1>2, <1>3 DEF StartStep, StepStatus
  <2>2. ~Finished(task'.implementationPlan)
    BY <1>0, <1>1, <1>3 DEF StartStep, Finished, TaskRecord
  <2> QED BY <1>0, <1>3, <2>1, <2>2, QuietStep DEF StartStep, TypeOK, TaskRecord, ParkedIsResting, Owner
<1>4. CASE CompleteStep(c, s)
  <2>1. task' \in TaskRecord
    BY <1>2, <1>4 DEF CompleteStep, StepStatus
  <2>2. history' \in HistoryRecord /\ ~history'.owed /\ history'.bounces = history.bounces /\ history'.unread = history.unread
    BY <1>4 DEF CompleteStep, TypeOK, HistoryRecord
  <2> QED BY <1>0, <1>4, <2>1, <2>2 DEF CompleteStep, TypeOK, TaskRecord, Owner, ParkedIsResting, ParkedAtCap, HeldIsActive,
             OwedWorkIsPending, BouncesAreCounted, BouncesAreBounded, InformedHaveRead
<1> QED BY <1>3, <1>4

LEMMA QaRejectKeeps ==
  ASSUME IInv, NEW c \in Worker \cup {Nobody}, NEW failed \in SUBSET DodItem, QaReject(c, failed)
  PROVE  IInv'
<1> USE DEF IInv
<1> DEFINE s      == Destination(failed)
           parked == s = "REVIEW"
           plan   == IF parked THEN task.implementationPlan ELSE ResetPlan(task.implementationPlan)
<1>0. task \in TaskRecord /\ task.status = "REVIEW" /\ history \in HistoryRecord
  BY DEF TypeOK, QaReject
<1>1. /\ s \in Columns
      /\ ~parked => task.reopenCount < MaxReopens
  BY <1>0, CapsAssumption DEF Destination, Columns, TaskRecord, HardCap
<1>2. task.reopenCount \in 0 .. HardCap /\ HardCap \in Nat /\ HardCap = MaxReopens + 1
  BY <1>0, CapsAssumption DEF TaskRecord, HardCap
<1>3. UpTo(HardCap, task.reopenCount) \in 0 .. HardCap /\ UpTo(HardCap, task.reopenCount) >= task.reopenCount
  BY <1>2, UpToType
<1>4. plan \in Plans /\ (~parked => ~Finished(plan))
  BY <1>0, ResetPlanType DEF TaskRecord, Plans
<1> DEFINE t == MovedTo(task, s)
<1>5. t \in TaskRecord /\ t.status = s /\ t.implementationPlan = task.implementationPlan
      /\ t.reopenCount = task.reopenCount /\ t.needsHumanReview = task.needsHumanReview
  BY <1>0, <1>1, MovedToFields
<1>6. task' = [t EXCEPT !.reopenCount = UpTo(HardCap, t.reopenCount),
                        !.failedDodItems = t.failedDodItems \cup failed,
                        !.contextFetchedBy = {},
                        !.assignedWorkerId = Nobody,
                        !.needsHumanReview = t.needsHumanReview \/ parked,
                        !.implementationPlan = plan]
  BY <1>5 DEF QaReject
<1> HIDE DEF t, plan
<1>7. /\ task' \in TaskRecord
      /\ task'.status = s /\ task'.assignedWorkerId = Nobody /\ task'.contextFetchedBy = {}
      /\ task'.reopenCount = UpTo(HardCap, task.reopenCount)
      /\ task'.implementationPlan = plan
      /\ task'.needsHumanReview = (task.needsHumanReview \/ parked)
  BY <1>1, <1>3, <1>4, <1>5, <1>6 DEF TaskRecord, Plans
<1> DEFINE h == Noted(~parked, history.approved)
<1>8. /\ h \in HistoryRecord /\ h.bounces = history.bounces /\ (h.owed => history.owed \/ ~parked)
  BY <1>0, NotedFields
<1>9. history' = [h EXCEPT !.unread = Worker, !.bounces = IF parked THEN history.bounces ELSE UpTo(HardCap, history.bounces)]
  BY <1>8 DEF QaReject
<1>10. UpTo(HardCap, history.bounces) \in 0 .. HardCap
  BY <1>0, <1>2, UpToType DEF HistoryRecord
<1> HIDE DEF h
<1>11. /\ history' \in HistoryRecord /\ (history'.owed => history.owed \/ ~parked)
       /\ history'.bounces = IF parked THEN history.bounces ELSE UpTo(HardCap, history.bounces)
  BY <1>8, <1>9, <1>10 DEF HistoryRecord
<1>12. TypeOK'
  BY <1>7, <1>11 DEF TypeOK, QaReject
<1>13. ParkedIsResting' /\ ParkedAtCap' /\ HeldIsActive' /\ InformedHaveRead'
  <2>1. task.needsHumanReview => parked
    BY <1>2, <1>0 DEF ParkedAtCap, Destination
  <2>2. parked => task.reopenCount >= MaxReopens
    BY <1>0, <1>2, CapsAssumption DEF Destination
  <2>3. parked => UpTo(HardCap, task.reopenCount) = HardCap
    BY <1>2, <2>2, CapsAssumption DEF UpTo
  <2> QED BY <1>7, <2>1, <2>3 DEF ParkedIsResting, ParkedAtCap, HeldIsActive, InformedHaveRead, Owner
<1>14. OwedWorkIsPending'
  BY <1>4, <1>7, <1>11 DEF OwedWorkIsPending, plan
<1>15. BouncesAreCounted' /\ BouncesAreBounded'
  <2>1. CASE parked
    BY <1>2, <1>3, <1>7, <1>11, <2>1 DEF BouncesAreCounted, BouncesAreBounded, HistoryRecord
  <2>2. CASE ~parked
    BY <1>0, <1>1, <1>2, <1>7, <1>11, <2>2, UpToType, CapsAssumption DEF BouncesAreCounted, BouncesAreBounded, HistoryRecord, UpTo
  <2> QED BY <2>1, <2>2
<1> QED BY <1>12, <1>13, <1>14, <1>15

LEMMA AgentsKeep == IInv /\ Agents => IInv'
<1> SUFFICES ASSUME IInv, Agents PROVE IInv'
  OBVIOUS
<1> USE DEF IInv
<1>0. task \in TaskRecord /\ history \in HistoryRecord
  BY DEF TypeOK
<1>1. ASSUME NEW c \in Worker \cup {Nobody}, CompleteTask(c) PROVE IInv'
  <2>1. task' = MovedTo(task, "REVIEW") /\ ~task.needsHumanReview /\ task.status # "REVIEW"
    BY <1>1 DEF CompleteTask, ParkedIsResting
  <2>2. /\ task' \in TaskRecord /\ task'.assignedWorkerId = Nobody /\ ~task'.needsHumanReview
        /\ task'.reopenCount = task.reopenCount /\ task'.contextFetchedBy = task.contextFetchedBy
        /\ task'.implementationPlan = task.implementationPlan
    BY <1>0, <2>1, MovedToFields DEF Columns
  <2> QED BY <1>0, <1>1, <2>2, QuietStep DEF CompleteTask, Untouched, TypeOK, HistoryRecord
<1>2. ASSUME NEW c \in Worker \cup {Nobody}, QaApprove(c) PROVE IInv'
  <2> DEFINE t == MovedTo(task, "DONE")
  <2>1. /\ t \in TaskRecord /\ t.assignedWorkerId = Nobody
        /\ t.reopenCount = task.reopenCount /\ t.contextFetchedBy = task.contextFetchedBy
        /\ t.implementationPlan = task.implementationPlan
    BY <1>0, <1>2, MovedToFields DEF QaApprove, Columns
  <2>2. task' = [t EXCEPT !.needsHumanReview = FALSE, !.critiqueBlockCount = 0]
    BY <1>2 DEF QaApprove
  <2> HIDE DEF t
  <2>3. 0 \in 0 .. MaxCritiqueBlocks
    BY CapsAssumption
  <2>4. task' \in TaskRecord
    BY <2>1, <2>2, <2>3 DEF TaskRecord
  <2>5. /\ task'.assignedWorkerId = Nobody /\ ~task'.needsHumanReview
        /\ task'.reopenCount = task.reopenCount /\ task'.contextFetchedBy = task.contextFetchedBy
        /\ task'.implementationPlan = task.implementationPlan
    BY <2>1, <2>2 DEF TaskRecord
  <2> QED BY <1>0, <1>2, <2>4, <2>5, QuietStep DEF QaApprove, Untouched, TypeOK, HistoryRecord
<1>3. ASSUME NEW c \in Worker \cup {Nobody}, RequestReplan(c) PROVE IInv'
  <2> DEFINE t == MovedTo(task, "PLANNING")
  <2>1. /\ t \in TaskRecord /\ t.assignedWorkerId = Nobody /\ ~t.needsHumanReview
        /\ t.reopenCount = task.reopenCount /\ t.contextFetchedBy = task.contextFetchedBy
    BY <1>0, <1>3, MovedToFields DEF RequestReplan, Columns, ParkedIsResting
  <2>2. task' = [t EXCEPT !.implementationPlan = NoPlan]
    BY <1>3 DEF RequestReplan
  <2> HIDE DEF t
  <2>3. /\ task' \in TaskRecord /\ task'.assignedWorkerId = Nobody /\ ~task'.needsHumanReview
        /\ task'.reopenCount = task.reopenCount /\ task'.contextFetchedBy = task.contextFetchedBy
        /\ ~Finished(task'.implementationPlan)
    BY <2>1, <2>2 DEF TaskRecord, Finished
  <2> QED BY <1>0, <1>3, <2>3, QuietStep DEF RequestReplan, Untouched, TypeOK, HistoryRecord
<1>4. CASE BlockPlan
  <2> DEFINE t == MovedTo(task, "PLANNING")
  <2>1. /\ t \in TaskRecord /\ t.assignedWorkerId = Nobody /\ ~t.needsHumanReview
        /\ t.reopenCount = task.reopenCount /\ t.contextFetchedBy = task.contextFetchedBy
        /\ t.implementationPlan = task.implementationPlan
        /\ t.critiqueBlockCount = task.critiqueBlockCount
    BY <1>0, <1>4, MovedToFields DEF BlockPlan, Columns, ParkedIsResting
  <2>2. task' = [t EXCEPT !.critiqueBlockCount = @ + 1]
    BY <1>4 DEF BlockPlan
  <2>3. t.critiqueBlockCount + 1 \in 0 .. MaxCritiqueBlocks
    BY <1>0, <1>4, <2>1, CapsAssumption DEF BlockPlan, TaskRecord
  <2> HIDE DEF t
  <2>4. task' \in TaskRecord
    BY <2>1, <2>2, <2>3 DEF TaskRecord
  <2>5. /\ task'.assignedWorkerId = Nobody /\ ~task'.needsHumanReview
        /\ task'.reopenCount = task.reopenCount /\ task'.contextFetchedBy = task.contextFetchedBy
        /\ task'.implementationPlan = task.implementationPlan
    BY <2>1, <2>2 DEF TaskRecord
  <2> QED BY <1>0, <1>4, <2>4, <2>5, QuietStep DEF BlockPlan, Untouched, TypeOK, HistoryRecord
<1> QED
  BY <1>1, <1>2, <1>3, <1>4, SetTaskStatusKeeps, ClaimKeeps, GetContextKeeps, SubmitPlanKeeps, StepsKeep, QaRejectKeeps
  DEF Agents

----------------------------------------------------------------------------
(* Releases, sweeps, timers and restarts. *)

LEMMA ReleasedStatusType ==
  ASSUME TypeOK
  PROVE  ReleasedStatus \in Columns /\ (task.status \in Resting => ReleasedStatus = task.status)
BY DEF ReleasedStatus, TypeOK, TaskRecord, Columns, Resting

LEMMA DaemonKeeps == IInv /\ Daemon => IInv'
<1> SUFFICES ASSUME IInv, Daemon PROVE IInv'
  OBVIOUS
<1> USE DEF IInv
<1>0. /\ task \in TaskRecord /\ history \in HistoryRecord
      /\ ReleasedStatus \in Columns /\ "BACKLOG" \in Columns /\ "WORKING" \in Columns
      /\ task.status \in Resting => ReleasedStatus = task.status
  BY ReleasedStatusType DEF TypeOK, Columns
<1>1. ASSUME NEW refusal \in BOOLEAN, NEW recent \in 0 .. task.refusals
      PROVE  (IF refusal THEN Counted(recent) ELSE task.refusals) \in 0 .. RefusalThreshold
  <2>1. recent \in 0 .. RefusalThreshold
    BY <1>0, CapsAssumption DEF TaskRecord
  <2> QED BY <1>0, <2>1, UpToType, CapsAssumption DEF Counted, TaskRecord
<1>2. ASSUME NEW s \in Columns, NEW count \in 0 .. RefusalThreshold,
             task' = [task EXCEPT !.status = s, !.assignedWorkerId = Nobody, !.needsHumanReview = FALSE,
                                  !.refusals = count],
             history' = Untouched, UNCHANGED <<approvalMode, speedTimer>>
      PROVE  IInv'
  <2>1. /\ task' \in TaskRecord /\ task'.assignedWorkerId = Nobody /\ ~task'.needsHumanReview
        /\ task'.reopenCount = task.reopenCount /\ task'.contextFetchedBy = task.contextFetchedBy
        /\ task'.implementationPlan = task.implementationPlan
    BY <1>0, <1>2 DEF TaskRecord
  <2> QED BY <1>0, <1>2, <2>1, QuietStep DEF Untouched, TypeOK, HistoryRecord
<1>3. ASSUME NEW refusal \in BOOLEAN, ReleaseTask(refusal) PROVE IInv'
  BY <1>0, <1>1, <1>2, <1>3 DEF ReleaseTask
<1>4. ASSUME NEW refusal \in BOOLEAN, ReleaseUnassigned(refusal) PROVE IInv'
  <2>1. PICK recent \in 0 .. task.refusals :
          task' = [task EXCEPT !.status = ReleasedStatus, !.needsHumanReview = FALSE,
                               !.refusals = IF refusal THEN Counted(recent) ELSE @]
    BY <1>4 DEF ReleaseUnassigned
  <2>2. task' = [task EXCEPT !.status = ReleasedStatus, !.assignedWorkerId = Nobody, !.needsHumanReview = FALSE,
                             !.refusals = IF refusal THEN Counted(recent) ELSE task.refusals]
    BY <1>0, <1>4, <2>1 DEF ReleaseUnassigned, Owner, TaskRecord
  <2> QED BY <1>0, <1>1, <1>2, <1>4, <2>2 DEF ReleaseUnassigned
<1>5. ASSUME Owner # Nobody,
             task' = [task EXCEPT !.status = ReleasedStatus, !.assignedWorkerId = Nobody],
             history' = Untouched, approvalMode' = approvalMode, speedTimer' \in BOOLEAN
      PROVE  IInv'
  <2>1. /\ task' \in TaskRecord /\ task'.assignedWorkerId = Nobody /\ ~task'.needsHumanReview
        /\ task'.reopenCount = task.reopenCount /\ task'.contextFetchedBy = task.contextFetchedBy
        /\ task'.implementationPlan = task.implementationPlan
    BY <1>0, <1>5 DEF TaskRecord, ParkedIsResting
  <2> QED BY <1>0, <1>5, <2>1, QuietStep DEF Untouched, TypeOK, HistoryRecord
<1>6. CASE HolderReleased
  BY <1>5, <1>6 DEF HolderReleased, TypeOK
<1>7. CASE HolderTimedOut
  <2>1. ~task.needsHumanReview /\ task.status # "BACKLOG"
    BY <1>7 DEF HolderTimedOut, ParkedIsResting, AgentClaimable
  <2>2. /\ task' \in TaskRecord /\ task'.assignedWorkerId = Nobody /\ ~task'.needsHumanReview
        /\ task'.reopenCount = task.reopenCount /\ task'.contextFetchedBy = task.contextFetchedBy
        /\ task'.implementationPlan = task.implementationPlan
    BY <1>0, <1>7, <2>1, MovedToFields DEF HolderTimedOut
  <2> QED BY <1>0, <1>7, <2>2, QuietStep DEF HolderTimedOut, Untouched, TypeOK, HistoryRecord
<1>8. CASE SpeedTimerFires
  <2>1. CASE task.status = "AWAITING_APPROVAL"
    <3>1. ~task.needsHumanReview
      BY <2>1 DEF ParkedIsResting
    <3>2. /\ task' \in TaskRecord /\ task'.assignedWorkerId = Nobody /\ ~task'.needsHumanReview
          /\ task'.reopenCount = task.reopenCount /\ task'.contextFetchedBy = task.contextFetchedBy
          /\ task'.implementationPlan = task.implementationPlan
      BY <1>0, <1>8, <2>1, <3>1, MovedToFields DEF SpeedTimerFires
    <3> QED BY <1>0, <1>8, <2>1, <3>2, QuietStep DEF SpeedTimerFires, TypeOK
  <2>2. CASE task.status # "AWAITING_APPROVAL"
    BY <1>0, <1>8, <2>2, QuietStep DEF SpeedTimerFires, TypeOK, ParkedIsResting, Resting
  <2> QED BY <2>1, <2>2
<1>9. CASE Restart
  <2>1. speedTimer' \in BOOLEAN
    BY <1>9 DEF Restart, Rearmed
  <2>2. CASE Owner = Nobody
    BY <1>0, <1>9, <2>1, <2>2, QuietStep DEF Restart, Untouched, TypeOK, HistoryRecord, ParkedIsResting, Resting
  <2>3. CASE Owner # Nobody
    BY <1>5, <1>9, <2>1, <2>3 DEF Restart
  <2> QED BY <2>2, <2>3
<1>10. ASSUME NEW c \in Worker \cup {Nobody}, CrashInSubmit(c) PROVE IInv'
  <2>1. task.status = "PLANNING" /\ ~task.needsHumanReview /\ task' = Submitted
    BY <1>10 DEF CrashInSubmit, MaySubmit, ParkedIsResting
  <2>2. speedTimer' \in BOOLEAN
    BY <1>10 DEF CrashInSubmit, Rearmed
  <2> QED BY <1>0, <1>10, <2>1, <2>2, SubmittedFields, QuietStep DEF CrashInSubmit, TypeOK
<1> QED BY <1>3, <1>4, <1>6, <1>7, <1>8, <1>9, <1>10 DEF Daemon

----------------------------------------------------------------------------
(* The theorems. *)

LEMMA InitIInv == Init => IInv
<1> SUFFICES ASSUME Init PROVE IInv
  OBVIOUS
<1>1. /\ 0 \in 0 .. HardCap /\ 0 \in 0 .. MaxCritiqueBlocks /\ 0 \in 0 .. RefusalThreshold
      /\ 0 <= MaxReopens
  BY CapsAssumption DEF HardCap
<1>2. /\ task.status \in Columns /\ task.assignedWorkerId = Nobody /\ task.implementationPlan = NoPlan
      /\ task.reopenCount = 0 /\ task.needsHumanReview = FALSE /\ task.critiqueBlockCount = 0
      /\ task.failedDodItems = {} /\ task.contextFetchedBy = {} /\ task.refusals = 0
  BY DEF Init
<1>3. task \in TaskRecord
  BY <1>1 DEF Init, TaskRecord
<1>4. history \in HistoryRecord
  BY <1>1 DEF Init, HistoryRecord
<1>5. history.bounces = 0 /\ ~history.owed
  BY DEF Init
<1>6. TypeOK
  BY <1>3, <1>4 DEF Init, TypeOK
<1> QED BY <1>1, <1>2, <1>5, <1>6 DEF IInv, ParkedIsResting, ParkedAtCap, HeldIsActive, Owner, OwedWorkIsPending,
           BouncesAreCounted, BouncesAreBounded, InformedHaveRead

LEMMA StepIInv == IInv /\ [Next]_vars => IInv'
<1>1. IInv /\ UNCHANGED vars => IInv'
  BY DEF IInv, TypeOK, ParkedIsResting, ParkedAtCap, HeldIsActive, Owner, OwedWorkIsPending, Finished,
         BouncesAreCounted, BouncesAreBounded, InformedHaveRead, vars
<1> QED BY <1>1, BoardKeeps, AgentsKeep, DaemonKeeps DEF Next

LEMMA IInvAlways == Spec => []IInv
BY InitIInv, StepIInv, PTL DEF Spec

\* Whatever agents, humans, timers, sweeps and restarts do to a task, its record keeps its type: the
\* counters stay within their caps and the steps within the plan.
THEOREM TaskTypeCorrect == Spec => []TypeOK
<1>1. IInv => TypeOK
  BY DEF IInv
<1> QED BY <1>1, IInvAlways, PTL

\* A task that waits for a human is held by nobody and leaves the resting columns only unparked.
THEOREM ParkedStays == Spec => []ParkedIsResting
<1>1. IInv => ParkedIsResting
  BY DEF IInv
<1> QED BY <1>1, IInvAlways, PTL

\* QA sends a task back to agents at most MaxReopens times in its life, for every cap.
THEOREM BouncesEnd == Spec => []BouncesAreBounded
<1>1. IInv => BouncesAreBounded
  BY DEF IInv
<1> QED BY <1>1, IInvAlways, PTL

\* A task that was sent back is never complete on the strength of its previous attempt.
THEOREM WorkIsDoneAnew == Spec => []OwedWorkIsPending
<1>1. IInv => OwedWorkIsPending
  BY DEF IInv
<1> QED BY <1>1, IInvAlways, PTL

\* A worker that counts as informed has read the task since it was last sent back.
THEOREM ReadersAreInformed == Spec => []InformedHaveRead
<1>1. IInv => InformedHaveRead
  BY DEF IInv
<1> QED BY <1>1, IInvAlways, PTL

----------------------------------------------------------------------------
(* What a step may do to the card. *)

\* The column after the step is one the transitions allow, or the same.
Follows ==
  \/ task'.status = task.status
  \/ task'.status \in ToolTransitions[task.status]
  \/ approvalMode = "TURBO" /\ task.status = "PLANNING" /\ task'.status = "WORKING"

\* A resting task leaves only as one that starts over.
StartsOver ==
  task.status \in {"DONE", "ARCHIVED"} /\ task'.status \notin {"DONE", "ARCHIVED"} =>
    /\ task'.reopenCount = UpTo(HardCap, task.reopenCount)
    /\ task'.contextFetchedBy = {} /\ ~task'.needsHumanReview
    /\ \A s \in DOMAIN task'.implementationPlan : task'.implementationPlan[s] = "PENDING"

\* Every step from the columns before DONE, and every step that keeps the column, is as good.
LEMMA StartsOverElsewhere ==
  ASSUME task.status \notin {"DONE", "ARCHIVED"} \/ task'.status = task.status
  PROVE  StartsOver
BY DEF StartsOver

LEMMA StatusSetFollows ==
  ASSUME IInv, NEW s \in Columns \ {task.status}, s \in ToolTransitions[task.status],
         task' = StatusSet(s)
  PROVE  Follows /\ StartsOver
<1>0. task \in TaskRecord
  BY DEF IInv, TypeOK
<1>1. CASE IsReopening(s)
  <2>1. task' = Reopened(task, s)
    BY <1>1 DEF StatusSet
  <2>2. /\ task'.status = s
        /\ task'.implementationPlan = ResetPlan(task.implementationPlan)
        /\ task'.reopenCount = UpTo(HardCap, task.reopenCount)
        /\ ~task'.needsHumanReview
        /\ task'.contextFetchedBy = {}
    <3>1. s \in Columns /\ s # task.status
      OBVIOUS
    <3> DEFINE t == Reopened(task, s)
    <3>2. /\ t.status = s /\ t.implementationPlan = ResetPlan(task.implementationPlan)
          /\ t.reopenCount = UpTo(HardCap, task.reopenCount)
          /\ ~t.needsHumanReview /\ t.contextFetchedBy = {}
      BY <1>0, <3>1, ReopenedFields
    <3> QED BY <2>1, <3>2
  <2>3. \A x \in DOMAIN task'.implementationPlan : task'.implementationPlan[x] = "PENDING"
    BY <1>0, <2>2, ResetPlanType DEF TaskRecord, Plans
  <2> QED BY <2>2, <2>3 DEF Follows, StartsOver
<1>2. CASE ~IsReopening(s)
  <2>1. task'.status = s
    BY <1>0, <1>2, MovedToFields DEF StatusSet
  <2>2. task.status \in {"DONE", "ARCHIVED"} => s \in {"DONE", "ARCHIVED"}
    BY <1>2 DEF IsReopening, ToolTransitions
  <2> QED BY <2>1, <2>2 DEF Follows, StartsOver
<1> QED BY <1>1, <1>2

LEMMA BoardFollows == IInv /\ Board => Follows /\ StartsOver
<1> SUFFICES ASSUME IInv, Board PROVE Follows /\ StartsOver
  OBVIOUS
<1>0. task \in TaskRecord
  BY DEF IInv, TypeOK
<1>1. ASSUME NEW s \in Columns, DragCard(s) PROVE Follows /\ StartsOver
  <2>1. s # task.status /\ s \in ToolTransitions[task.status]
    BY <1>0, <1>1 DEF DragCard, BoardTransitions, ToolTransitions, TaskRecord, Columns
  <2> QED BY <1>1, <2>1, StatusSetFollows DEF DragCard
<1>2. CASE ApproveTask \/ RejectTask
  <2>1. task.status = "AWAITING_APPROVAL" /\ \E s \in {"WORKING", "PLANNING"} : task' = MovedTo(task, s)
    BY <1>2 DEF ApproveTask, RejectTask
  <2>2. task'.status \in {"WORKING", "PLANNING"}
    BY <1>0, <2>1, MovedToFields DEF Columns
  <2> QED BY <2>1, <2>2, StartsOverElsewhere DEF Follows, ToolTransitions
<1>3. CASE ReopenTask
  <2>1. /\ "BACKLOG" \in Columns \ {task.status} /\ "BACKLOG" \in ToolTransitions[task.status]
        /\ task' = StatusSet("BACKLOG")
    BY <1>3 DEF ReopenTask, Columns, ToolTransitions, StatusSet, IsReopening
  <2> QED BY <2>1, StatusSetFollows
<1>4. ASSUME NEW mode \in Modes, UpdateSettings(mode) PROVE Follows /\ StartsOver
  BY <1>4 DEF UpdateSettings, Follows, StartsOver
<1> QED BY <1>1, <1>2, <1>3, <1>4 DEF Board

LEMMA AgentsFollow == IInv /\ Agents => Follows /\ StartsOver
<1> SUFFICES ASSUME IInv, Agents PROVE Follows /\ StartsOver
  OBVIOUS
<1>0. task \in TaskRecord
  BY DEF IInv, TypeOK
<1>1. ASSUME NEW s \in Columns, SetTaskStatus(s) PROVE Follows /\ StartsOver
  <2>1. s # task.status /\ s \in ToolTransitions[task.status]
    BY <1>0, <1>1 DEF SetTaskStatus, ToolTransitions, TaskRecord, Columns
  <2> QED BY <1>1, <2>1, StatusSetFollows DEF SetTaskStatus
<1>2. ASSUME NEW w \in Worker, Claim(w) \/ GetContext(w) PROVE Follows /\ StartsOver
  <2>1. task'.status = task.status
    BY <1>0, <1>2 DEF Claim, GetContext, TaskRecord
  <2> QED BY <2>1, StartsOverElsewhere DEF Follows
<1>3. ASSUME NEW c \in Worker \cup {Nobody}, NEW s \in Step, StartStep(c, s) \/ CompleteStep(c, s)
      PROVE  Follows /\ StartsOver
  <2>1. task'.status = task.status
    BY <1>0, <1>3 DEF StartStep, CompleteStep, TaskRecord
  <2> QED BY <2>1, StartsOverElsewhere DEF Follows
<1>4. ASSUME NEW c \in Worker \cup {Nobody}, NEW oversized \in BOOLEAN, SubmitPlan(c, oversized)
      PROVE  Follows /\ StartsOver
  <2>1. task.status = "PLANNING"
    BY <1>4 DEF SubmitPlan, MaySubmit
  <2>2. CASE task' = Submitted
    BY <2>1, <2>2, SubmittedFields, StartsOverElsewhere DEF Follows, ToolTransitions
  <2>3. CASE approvalMode = "TURBO" /\ task' = MovedTo(Submitted, "WORKING")
    <3>1. task'.status = "WORKING"
      BY <2>3, SubmittedFields, MovedToFields DEF Columns
    <3> QED BY <2>1, <2>3, <3>1, StartsOverElsewhere DEF Follows
  <2>4. CASE task' = [MovedTo(Submitted, "PLANNING") EXCEPT !.critiqueBlockCount = @ + 1]
    <3>1. task'.status = "PLANNING"
      BY <2>4, SubmittedFields, MovedToFields DEF Columns, TaskRecord
    <3> QED BY <2>1, <3>1, StartsOverElsewhere DEF Follows
  <2> QED BY <1>4, <2>2, <2>3, <2>4 DEF SubmitPlan
<1>5. ASSUME NEW c \in Worker \cup {Nobody}, CompleteTask(c) \/ QaApprove(c) \/ RequestReplan(c)
      PROVE  Follows /\ StartsOver
  <2>1. \/ task.status = "WORKING" /\ task'.status \in {"REVIEW", "PLANNING"}
        \/ task.status = "REVIEW" /\ task'.status = "DONE"
    <3>1. CASE CompleteTask(c)
      BY <1>0, <3>1, MovedToFields DEF CompleteTask, Columns
    <3>2. CASE QaApprove(c)
      BY <1>0, <3>2, MovedToFields DEF QaApprove, Columns, TaskRecord
    <3>3. CASE RequestReplan(c)
      BY <1>0, <3>3, MovedToFields DEF RequestReplan, Columns, TaskRecord
    <3> QED BY <1>5, <3>1, <3>2, <3>3
  <2> QED BY <2>1, StartsOverElsewhere DEF Follows, ToolTransitions
<1>6. ASSUME NEW c \in Worker \cup {Nobody}, NEW failed \in SUBSET DodItem, QaReject(c, failed)
      PROVE  Follows /\ StartsOver
  <2>1. task.status = "REVIEW" /\ Destination(failed) \in {"REVIEW", "PLANNING", "WORKING"}
    BY <1>6 DEF QaReject, Destination
  <2>2. task'.status = Destination(failed)
    BY <1>0, <1>6, <2>1, MovedToFields DEF QaReject, Columns, TaskRecord
  <2> QED BY <2>1, <2>2, StartsOverElsewhere DEF Follows, ToolTransitions
<1>7. CASE BlockPlan
  <2>1. task.status \in {"AWAITING_APPROVAL", "WORKING"} /\ task'.status = "PLANNING"
    BY <1>0, <1>7, MovedToFields DEF BlockPlan, Columns, TaskRecord
  <2> QED BY <2>1, StartsOverElsewhere DEF Follows, ToolTransitions
<1> QED BY <1>1, <1>2, <1>3, <1>4, <1>5, <1>6, <1>7 DEF Agents

LEMMA DaemonFollows == IInv /\ Daemon => Follows /\ StartsOver
<1> SUFFICES ASSUME IInv, Daemon PROVE Follows /\ StartsOver
  OBVIOUS
<1>0. task \in TaskRecord
  BY DEF IInv, TypeOK
<1>1. Owner # Nobody => task.status \in AgentClaimable
  BY DEF IInv, HeldIsActive
<1>2. ReleasedStatus = task.status \/ (task.status = "WORKING" /\ ReleasedStatus = "REVIEW")
  BY DEF ReleasedStatus
<1>3. ASSUME task'.status = ReleasedStatus PROVE Follows /\ StartsOver
  BY <1>2, <1>3, StartsOverElsewhere DEF Follows, ToolTransitions
<1>4. ASSUME task.status \in AgentClaimable, task'.status = "BACKLOG" PROVE Follows /\ StartsOver
  BY <1>4, StartsOverElsewhere DEF Follows, ToolTransitions, AgentClaimable
<1>5. ASSUME NEW refusal \in BOOLEAN, ReleaseTask(refusal) PROVE Follows /\ StartsOver
  <2>1. task'.status \in {"BACKLOG", ReleasedStatus}
    BY <1>0, <1>5 DEF ReleaseTask, TaskRecord
  <2> QED BY <1>1, <1>3, <1>4, <1>5, <2>1 DEF ReleaseTask
<1>6. ASSUME NEW refusal \in BOOLEAN, ReleaseUnassigned(refusal) PROVE Follows /\ StartsOver
  <2>1. task'.status = ReleasedStatus
    BY <1>0, <1>6 DEF ReleaseUnassigned, TaskRecord
  <2> QED BY <1>3, <2>1
<1>7. CASE HolderReleased
  <2>1. task'.status = ReleasedStatus
    BY <1>0, <1>7 DEF HolderReleased, TaskRecord
  <2> QED BY <1>3, <2>1
<1>8. CASE HolderTimedOut
  <2>1. task'.status = "BACKLOG"
    BY <1>0, <1>8, MovedToFields DEF HolderTimedOut, Columns
  <2> QED BY <1>4, <1>8, <2>1 DEF HolderTimedOut
<1>9. CASE SpeedTimerFires
  <2>1. \/ task.status = "AWAITING_APPROVAL" /\ task'.status = "WORKING"
        \/ task' = task
    <3>1. CASE task.status = "AWAITING_APPROVAL"
      <4>1. task' = MovedTo(task, "WORKING") /\ "WORKING" \in Columns
        BY <1>9, <3>1 DEF SpeedTimerFires, Columns
      <4> QED BY <1>0, <3>1, <4>1, MovedToFields
    <3>2. CASE task.status # "AWAITING_APPROVAL"
      BY <1>9, <3>2 DEF SpeedTimerFires
    <3> QED BY <3>1, <3>2
  <2> QED BY <2>1, StartsOverElsewhere DEF Follows, ToolTransitions
<1>10. CASE Restart
  <2>1. task'.status \in {task.status, ReleasedStatus}
    BY <1>0, <1>10 DEF Restart, TaskRecord
  <2> QED BY <1>2, <1>3, <2>1, StartsOverElsewhere DEF Follows
<1>11. ASSUME NEW c \in Worker \cup {Nobody}, CrashInSubmit(c) PROVE Follows /\ StartsOver
  <2>1. task.status = "PLANNING" /\ task'.status = "AWAITING_APPROVAL"
    BY <1>11, SubmittedFields DEF CrashInSubmit, MaySubmit
  <2> QED BY <2>1, StartsOverElsewhere DEF Follows, ToolTransitions
<1> QED BY <1>5, <1>6, <1>7, <1>8, <1>9, <1>10, <1>11 DEF Daemon

LEMMA StepFollows == IInv /\ [Next]_vars => task' = task \/ (Follows /\ StartsOver)
BY BoardFollows, AgentsFollow, DaemonFollows DEF Next, vars

\* Every card moves along the published transitions, whoever or whatever moves it.
THEOREM CardsAreMovedByTheRules == Spec => CardsFollowTransitions
<1>1. IInv /\ [Next]_vars =>
        [task'.status # task.status =>
           \/ task'.status \in ToolTransitions[task.status]
           \/ approvalMode = "TURBO" /\ task.status = "PLANNING" /\ task'.status = "WORKING"]_vars
  BY StepFollows DEF Follows
<1> QED BY <1>1, IInvAlways, PTL DEF Spec, CardsFollowTransitions

\* Work that is DONE or ARCHIVED comes back only as a counted reopening that starts over.
THEOREM FinishedWorkRests == Spec => FinishedRests
<1>1. IInv /\ [Next]_vars =>
        [task.status \in {"DONE", "ARCHIVED"} /\ task'.status \notin {"DONE", "ARCHIVED"} =>
           /\ task'.reopenCount = UpTo(HardCap, task.reopenCount)
           /\ task'.contextFetchedBy = {} /\ ~task'.needsHumanReview
           /\ \A s \in DOMAIN task'.implementationPlan : task'.implementationPlan[s] = "PENDING"]_vars
  BY StepFollows DEF StartsOver
<1> QED BY <1>1, IInvAlways, PTL DEF Spec, FinishedRests

----------------------------------------------------------------------------
(* Plans in SPEED mode move. *)

\* The fairness of FairSpec: a timer that stays set goes off.  speedTimer is the guard of
\* SpeedTimerFires, which always changes it, and stands for what ENABLED says of it.
TimerFairness == []<>~speedTimer \/ []<><<SpeedTimerFires>>_vars

\* A plan whose timer is set keeps both as long as the mode is SPEED: a restart sets the timer
\* again, and the timer that goes off takes the plan out of the column.
LEMMA TimerLasts ==
  ASSUME IInv, [Next]_vars, task.status = "AWAITING_APPROVAL", speedTimer
  PROVE  task'.status # "AWAITING_APPROVAL" \/ speedTimer' \/ approvalMode # "SPEED"
<1>1. CASE Board
  <2>1. CASE ApproveTask \/ RejectTask
    BY <2>1, MovedToFields DEF ApproveTask, RejectTask, IInv, TypeOK, Columns
  <2>2. CASE ReopenTask \/ (\E s \in Columns : DragCard(s)) \/ (\E mode \in Modes : UpdateSettings(mode))
    BY <2>2 DEF DragCard, ReopenTask, UpdateSettings
  <2> QED BY <1>1, <2>1, <2>2 DEF Board
<1>2. CASE Agents
  BY <1>2 DEF Agents, SetTaskStatus, Claim, GetContext, SubmitPlan, StartStep, CompleteStep,
              CompleteTask, QaApprove, QaReject, RequestReplan, BlockPlan
<1>3. CASE Daemon
  <2>1. CASE SpeedTimerFires
    BY <2>1, MovedToFields DEF SpeedTimerFires, IInv, TypeOK, Columns
  <2>2. CASE Restart \/ (\E c \in Worker \cup {Nobody} : CrashInSubmit(c))
    BY <2>2 DEF Restart, CrashInSubmit, Rearmed
  <2>3. CASE \/ \E refusal \in BOOLEAN : ReleaseTask(refusal) \/ ReleaseUnassigned(refusal)
             \/ HolderReleased \/ HolderTimedOut
    BY <2>3 DEF ReleaseTask, ReleaseUnassigned, HolderReleased, HolderTimedOut
  <2> QED BY <1>3, <2>1, <2>2, <2>3 DEF Daemon
<1> QED BY <1>1, <1>2, <1>3 DEF Next, vars

\* A plan submitted in SPEED mode does not wait for ever, however many restarts, releases, claims
\* and changes of its other fields come between: while the mode stays, the timer stays, and goes off.
THEOREM PlansMove == Spec /\ TimerFairness => SpeedPlansMove
<1> DEFINE Waits == task.status = "AWAITING_APPROVAL" /\ approvalMode = "SPEED"
<1>1. IInv /\ [Next]_vars /\ Waits /\ speedTimer => speedTimer' \/ ~Waits'
  BY TimerLasts
<1>2. IInv /\ Waits /\ <<SpeedTimerFires>>_vars => ~Waits'
  <2> SUFFICES ASSUME IInv, Waits, SpeedTimerFires PROVE task'.status # "AWAITING_APPROVAL"
    OBVIOUS
  <2> QED BY MovedToFields DEF SpeedTimerFires, IInv, TypeOK, Columns
<1>3. (task.status = "AWAITING_APPROVAL" /\ speedTimer)
        => ~Waits \/ (Waits /\ speedTimer)
  OBVIOUS
<1>4. ~Waits <=> (task.status # "AWAITING_APPROVAL" \/ approvalMode # "SPEED")
  OBVIOUS
<1> HIDE DEF Waits
<1>5. []IInv /\ [][Next]_vars /\ TimerFairness => (Waits /\ speedTimer ~> ~Waits)
  BY <1>1, <1>2, PTL DEF TimerFairness
<1> QED BY <1>3, <1>4, <1>5, IInvAlways, PTL DEF Spec, SpeedPlansMove

=============================================================================
