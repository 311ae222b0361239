-------------------------- MODULE RunLifecycleProofs --------------------------
(***************************************************************************)
(* Proofs about RunLifecycle, for any sets of runs, workers and requests   *)
(* and any bounds.                                                         *)
(***************************************************************************)
EXTENDS RunLifecycle, TLAPS

USE DEF FaultKinds

------------------------------------------------------------------------------
(***************************************************************************)
(* Type correctness.  The lemmas follow the grouping of Next.              *)
(***************************************************************************)

\* Init is well typed.
LEMMA InitTypeOK == ASSUME Init PROVE TypeOK
  BY ConstantsAssumption
  DEF Init, TypeOK, RunStatus, TaskStatus, Session, IdleSession, Request, IdleRequest

\* A counter of a family that is below its bound can be incremented.
LEMMA Increment ==
  ASSUME NEW S, NEW bound \in Nat, NEW f \in [S -> 0..bound], NEW x, f[x] < bound
  PROVE  [f EXCEPT ![x] = @ + 1] \in [S -> 0..bound]
<1>1. CASE x \in S
  BY <1>1
<1>2. CASE x \notin S
  BY <1>2
<1> QED BY <1>1, <1>2

\* The queue's bookkeeping, and the row that starts a run, are well typed.
LEMMA SubmitTypeOK ==
  ASSUME TypeOK, NEW r, Submit(r)
  PROVE  /\ broker' \in [Runs -> 0..MaxDeliveries]
         /\ undelivered' \in [Runs -> BOOLEAN]
<1>1. undelivered' \in [Runs -> BOOLEAN]
  BY DEF Submit, TypeOK
<1>2. ASSUME broker[r] < MaxDeliveries, broker' = [broker EXCEPT ![r] = @ + 1]
      PROVE  broker' \in [Runs -> 0..MaxDeliveries]
  BY <1>2, Increment, ConstantsAssumption DEF TypeOK
<1>3. \/ broker[r] < MaxDeliveries /\ broker' = [broker EXCEPT ![r] = @ + 1]
      \/ broker' = broker
  BY DEF Submit
<1> QED BY <1>1, <1>2, <1>3 DEF TypeOK

LEMMA TaskAfterStartType ==
  ASSUME TypeOK, NEW loaded PROVE TaskAfterStart(loaded) \in TaskStatus
  BY DEF TypeOK, TaskAfterStart, TaskStatus

LEMMA IdleRequestType == IdleRequest \in Request
  BY DEF IdleRequest, Request, TaskStatus

LEMMA IdleSessionType == IdleSession \in Session
  BY DEF IdleSession, Session, TaskStatus

\* What the API handlers, the recovery and the queue write is well typed.
LEMMA UserTypeOK ==
  ASSUME TypeOK, UserStep \/ \E r \in Runs : RecoverStaleRun(r)
  PROVE  TypeOK'
<1> USE ConstantsAssumption DEF TypeOK
<1>1. ASSUME NEW q \in Requests, CheckStart(q) PROVE TypeOK'
  BY <1>1 DEF CheckStart, Request, IdleRequest, TaskStatus
<1>2. ASSUME NEW q \in Requests, NEW r \in Runs, NEW m \in Modes, StartTaskRun(q, r, m)
      PROVE  TypeOK'
  <2>1. broker' \in [Runs -> 0..MaxDeliveries] /\ undelivered' \in [Runs -> BOOLEAN]
    BY <1>2, SubmitTypeOK DEF StartTaskRun
  <2>2. task' \in TaskStatus
    BY <1>2, TaskAfterStartType DEF StartTaskRun
  <2>3. req' \in [Requests -> Request]
    BY <1>2, IdleRequestType DEF StartTaskRun
  <2> QED BY <1>2, <2>1, <2>2, <2>3 DEF StartTaskRun, RunStatus
<1>3. ASSUME NEW old \in Runs, NEW new \in Runs, RetryRun(old, new) \/ ReplayRun(old, new)
      PROVE  TypeOK'
  <2>1. PICK copied \in BOOLEAN : CopyRun(old, new, copied)
    BY <1>3 DEF RetryRun, ReplayRun
  <2>2. broker' \in [Runs -> 0..MaxDeliveries] /\ undelivered' \in [Runs -> BOOLEAN]
    BY <2>1, SubmitTypeOK DEF CopyRun
  <2>3. step' \in [Runs -> BOOLEAN]
    BY <2>1 DEF CopyRun
  <2> QED BY <2>1, <2>2, <2>3 DEF CopyRun, RunStatus, TaskStatus
<1>4. ASSUME NEW r \in Runs, CancelRun(r) PROVE TypeOK'
  BY <1>4 DEF CancelRun, RunStatus, TaskStatus
<1>5. ASSUME NEW q \in Requests, NEW r \in Runs,
             CheckResume(q, r) \/ CheckApproval(q, r) \/ CheckRejection(q, r) \/ CheckPlan(q, r)
      PROVE  TypeOK'
  <2>1. ASSUME NEW kind \in {"resume", "approve", "reject", "plan"}, Check(q, kind, r)
        PROVE  req' \in [Requests -> Request]
    <3>1. [IdleRequest EXCEPT !.kind = kind, !.run = r] \in Request
      BY DEF IdleRequest, Request, TaskStatus
    <3> QED BY <2>1, <3>1 DEF Check
  <2>2. ASSUME Decide(r) PROVE pending' \in [Runs -> 0..MaxPending]
    BY <2>2 DEF Decide
  <2>3. CASE CheckResume(q, r)
    BY <2>3, <2>1 DEF CheckResume
  <2>4. CASE CheckApproval(q, r)
    BY <2>4, <2>1, <2>2 DEF CheckApproval
  <2>5. CASE CheckRejection(q, r)
    <3>1. task' \in TaskStatus
      BY <2>5 DEF CheckRejection, TaskStatus
    <3> QED BY <2>5, <2>1, <2>2, <3>1 DEF CheckRejection
  <2>6. CASE CheckPlan(q, r)
    BY <2>6, <2>1 DEF CheckPlan
  <2> QED BY <1>5, <2>3, <2>4, <2>5, <2>6
<1>6. ASSUME NEW q \in Requests, NEW kind, NEW s \in RunStatus, WriteStatus(q, kind, s),
             kind # "start"
      PROVE  /\ status' \in [Runs -> RunStatus]
             /\ ousted' \in [Runs -> BOOLEAN]
             /\ req' \in [Requests -> Request]
  <2>1. ousted' \in [Runs -> BOOLEAN]
    BY <1>6 DEF WriteStatus, Held
  <2> QED BY <1>6, <2>1, IdleRequestType DEF WriteStatus
<1>7. ASSUME NEW q \in Requests, ResumeRun(q) \/ ApproveRequest(q) PROVE TypeOK'
  <2>1. broker' \in [Runs -> 0..MaxDeliveries] /\ undelivered' \in [Runs -> BOOLEAN]
    BY <1>7, SubmitTypeOK DEF ResumeRun, ApproveRequest
  <2> QED BY <1>6, <1>7, <2>1 DEF ResumeRun, ApproveRequest, RunStatus, TaskStatus
<1>8. ASSUME NEW q \in Requests, RejectRequest(q) PROVE TypeOK'
  <2>1. undelivered' \in [Runs -> BOOLEAN]
    BY <1>8 DEF RejectRequest
  <2> QED BY <1>6, <1>8, <2>1 DEF RejectRequest, RunStatus, TaskStatus
<1>9. ASSUME NEW s \in ManualStatuses, UpdateTask(s) PROVE TypeOK'
  BY <1>9 DEF UpdateTask
<1>10. ASSUME NEW r \in Runs, RecoverStaleRun(r) PROVE TypeOK'
  BY <1>10 DEF RecoverStaleRun, RunStatus
<1>11. ASSUME NEW r \in Runs, NEW m \in Modes, CreatePlannedRun(r, m) PROVE TypeOK'
  BY <1>11 DEF CreatePlannedRun, RunStatus
<1>12. ASSUME NEW q \in Requests, ApprovePlan(q) PROVE TypeOK'
  BY <1>6, <1>12 DEF ApprovePlan, RunStatus
<1> QED BY <1>1, <1>2, <1>3, <1>4, <1>5, <1>6, <1>7, <1>8, <1>9, <1>10, <1>11, <1>12 DEF UserStep

\* What the workers write is well typed.
LEMMA ReceiveTypeOK ==
  ASSUME TypeOK, NEW w \in Workers, NEW r \in Runs, ReceiveRun(w, r)
  PROVE  TypeOK'
<1>1. ASSUME Deliver(w, r) PROVE broker' \in [Runs -> 0..MaxDeliveries]
  BY <1>1, ConstantsAssumption DEF Deliver, TypeOK
<1>2. CASE Claim(w, r)
  <2> DEFINE seen == IF task = "queued" THEN "planned" ELSE task
  <2>1. seen \in TaskStatus
    BY DEF TypeOK, TaskStatus
  <2>2. [IdleSession EXCEPT !.pc = "claimed", !.run = r, !.task = seen, !.step = step[r]]
          \in Session
    BY <2>1 DEF IdleSession, Session, TypeOK
  <2>3. sess' \in [Workers -> Session]
    BY <1>2, <2>2 DEF Claim, TypeOK
  <2>4. undelivered' \in [Runs -> BOOLEAN] /\ ousted' \in [Runs -> BOOLEAN]
    BY <1>2 DEF Claim, TypeOK, Held
  <2>5. status' \in [Runs -> RunStatus]
    BY <1>2 DEF Claim, TypeOK, RunStatus
  <2> QED BY <1>1, <1>2, <2>1, <2>3, <2>4, <2>5 DEF Claim, TypeOK
<1>3. CASE IgnoreDelivery(w, r)
  BY <1>1, <1>3 DEF IgnoreDelivery, TypeOK
<1>4. CASE AbortClaim(w, r)
  <2>1. undelivered' \in [Runs -> BOOLEAN]
    BY <1>4 DEF AbortClaim, TypeOK
  <2> QED BY <1>1, <1>4, <2>1 DEF AbortClaim, TypeOK
<1> QED BY <1>2, <1>3, <1>4 DEF ReceiveRun

\* The helpers of the except clauses and of the completion are well typed.
LEMMA HelpersTypeOK ==
  ASSUME TypeOK, NEW w \in Workers
  PROVE  /\ CommitOutcome(w) /\ sess[w].outcome # "none" => status' \in [Runs -> RunStatus]
         /\ \A next \in TaskStatus : TransitionTask(w, next) => task' \in TaskStatus
         /\ \A outcome \in {"failed", "blocked"} :
              Raise(w, outcome) => sess' \in [Workers -> Session]
<1>1. sess[w] \in Session
  BY DEF TypeOK
<1>2. ASSUME CommitOutcome(w), sess[w].outcome # "none" PROVE status' \in [Runs -> RunStatus]
  BY <1>1, <1>2 DEF CommitOutcome, TypeOK, Session, RunStatus
<1>3. ASSUME NEW next \in TaskStatus, TransitionTask(w, next) PROVE task' \in TaskStatus
  BY <1>3 DEF TransitionTask, TypeOK
<1>4. ASSUME NEW outcome \in {"failed", "blocked"}, Raise(w, outcome)
      PROVE  sess' \in [Workers -> Session]
  BY <1>1, <1>4 DEF Raise, TypeOK, Session
<1> QED BY <1>2, <1>3, <1>4

\* One lemma per phase of execute_run; each also keeps the session's outcome.
LEMMA BodyStepOK ==
  ASSUME TypeOK, SessionOutcome, NEW w \in Workers,
         \/ StartTask(w) \/ HandOffReview(w) \/ RequestApproval(w)
         \/ \E current \in BOOLEAN : MarkStep(w, current)
         \/ \E next \in TaskStatus : ReviewVerdict(w, next)
         \/ \E outcome \in {"failed", "blocked"} : BodyRaises(w, outcome)
  PROVE  TypeOK' /\ SessionOutcome'
<1> USE DEF TypeOK, SessionOutcome
<1>1. sess[w] \in Session
  OBVIOUS
<1>2. ASSUME StartTask(w) PROVE TypeOK' /\ SessionOutcome'
  <2>1. task' \in TaskStatus
    BY <1>2 DEF StartTask, TaskStatus
  <2>2. sess' \in [Workers -> Session]
    BY <1>1, <1>2 DEF StartTask, Session, TaskStatus
  <2>3. SessionOutcome'
    BY <1>1, <1>2 DEF StartTask, Session
  <2> QED BY <1>2, <2>1, <2>2, <2>3 DEF StartTask
<1>3. ASSUME HandOffReview(w) PROVE TypeOK' /\ SessionOutcome'
  BY <1>1, <1>3 DEF HandOffReview, Session
<1>4. ASSUME NEW outcome \in {"failed", "blocked"}, Raise(w, outcome)
      PROVE  sess' \in [Workers -> Session] /\ SessionOutcome'
  BY <1>1, <1>4, HelpersTypeOK DEF Raise, Session
<1>5. ASSUME RequestApproval(w) PROVE TypeOK' /\ SessionOutcome'
  <2>1. pending' \in [Runs -> 0..MaxPending]
    BY <1>5, Increment, ConstantsAssumption DEF RequestApproval
  <2> QED BY <1>4, <1>5, <2>1 DEF RequestApproval
<1>6. ASSUME NEW current \in BOOLEAN, MarkStep(w, current) PROVE TypeOK' /\ SessionOutcome'
  <2>1. step' \in [Runs -> BOOLEAN]
    BY <1>6 DEF MarkStep
  <2>2. sess' \in [Workers -> Session]
    BY <1>1, <1>6 DEF MarkStep, Session
  <2>3. SessionOutcome'
    BY <1>1, <1>6 DEF MarkStep, Session
  <2> QED BY <1>6, <2>1, <2>2, <2>3 DEF MarkStep
<1>7. ASSUME NEW outcome \in {"failed", "blocked"}, BodyRaises(w, outcome)
      PROVE  TypeOK' /\ SessionOutcome'
  BY <1>4, <1>7 DEF BodyRaises
<1>8. ASSUME NEW next \in TaskStatus, ReviewVerdict(w, next) PROVE TypeOK' /\ SessionOutcome'
  <2>1. CASE ~IsValidTransition(sess[w].task, next)
    BY <1>4, <1>8, <2>1 DEF ReviewVerdict
  <2>2. CASE IsValidTransition(sess[w].task, next)
    <3>1. task' \in TaskStatus
      BY <1>8, <2>2, HelpersTypeOK DEF ReviewVerdict
    <3> DEFINE blocks == next = "planned" /\ mode[sess[w].run] = "manager_worker"
    <3>2. sess' = [sess EXCEPT ![w].pc = IF blocks THEN "handling" ELSE "reviewed",
                               ![w].task = next,
                               ![w].outcome = IF blocks THEN "blocked" ELSE @,
                               ![w].dirty = blocks]
      BY <1>8, <2>2 DEF ReviewVerdict
    <3>3. blocks \in BOOLEAN
      OBVIOUS
    <3> HIDE DEF blocks
    <3>4. sess' \in [Workers -> Session]
      BY <1>1, <3>2, <3>3 DEF Session
    <3>5. SessionOutcome'
      <4>1. CASE blocks
        BY <1>1, <3>2, <4>1 DEF Session
      <4>2. CASE ~blocks
        BY <1>1, <3>2, <4>2 DEF Session
      <4> QED BY <4>1, <4>2
    <3> QED BY <1>8, <3>1, <3>4, <3>5 DEF ReviewVerdict
  <2> QED BY <2>1, <2>2
<1> QED BY <1>2, <1>3, <1>5, <1>6, <1>7, <1>8

LEMMA CompletionStepOK ==
  ASSUME TypeOK, SessionOutcome, NEW w \in Workers,
         \/ \E next \in TaskStatus : CompleteWithTask(w, next)
         \/ CompleteWithoutTask(w) \/ EmitCompleted(w) \/ EmitConflict(w)
         \/ PublishFails(w) \/ FinishRun(w)
  PROVE  TypeOK' /\ SessionOutcome'
<1> USE DEF TypeOK, SessionOutcome
<1>1. sess[w] \in Session
  OBVIOUS
<1>2. ASSUME Raise(w, "failed") PROVE sess' \in [Workers -> Session] /\ SessionOutcome'
  BY <1>1, <1>2, HelpersTypeOK DEF Raise, Session
<1>3. ASSUME NEW next \in TaskStatus, CompleteWithTask(w, next)
      PROVE  TypeOK' /\ SessionOutcome'
  <2>1. CASE IsValidTransition(sess[w].task, next)
    <3>1. status' \in [Runs -> RunStatus] /\ step' \in [Runs -> BOOLEAN] /\ task' \in TaskStatus
      BY <1>3, <2>1 DEF CompleteWithTask, RunStatus
    <3>2. sess' = [sess EXCEPT ![w].pc = "closing", ![w].outcome = "completed",
                               ![w].task = next, ![w].step = FALSE]
      BY <1>3, <2>1 DEF CompleteWithTask
    <3>3. ~sess[w].dirty
      BY <1>1, <1>3 DEF CompleteWithTask, BodyDone
    <3>4. sess' \in [Workers -> Session]
      BY <1>1, <3>2 DEF Session
    <3>5. SessionOutcome'
      BY <1>1, <3>2, <3>3 DEF Session
    <3> QED BY <1>3, <3>1, <3>4, <3>5 DEF CompleteWithTask
  <2>2. CASE ~IsValidTransition(sess[w].task, next)
    <3>1. sess' = [sess EXCEPT ![w].pc = "handling", ![w].outcome = "failed",
                               ![w].step = FALSE, ![w].dirty = TRUE]
      BY <1>3, <2>2 DEF CompleteWithTask
    <3>2. sess' \in [Workers -> Session]
      BY <1>1, <3>1 DEF Session
    <3>3. SessionOutcome'
      BY <1>1, <3>1 DEF Session
    <3> QED BY <1>3, <2>2, <3>2, <3>3 DEF CompleteWithTask
  <2> QED BY <2>1, <2>2
<1>4. ASSUME CompleteWithoutTask(w) PROVE TypeOK' /\ SessionOutcome'
  <2>1. sess' \in [Workers -> Session]
    BY <1>1, <1>4 DEF CompleteWithoutTask, Session
  <2>2. SessionOutcome'
    BY <1>1, <1>4 DEF CompleteWithoutTask, Session
  <2> QED BY <1>4, <2>1, <2>2 DEF CompleteWithoutTask
<1>5. ASSUME EmitCompleted(w) PROVE TypeOK' /\ SessionOutcome'
  <2>1. status' \in [Runs -> RunStatus]
    BY <1>1, <1>5, HelpersTypeOK DEF EmitCompleted
  <2>2. step' \in [Runs -> BOOLEAN]
    BY <1>5 DEF EmitCompleted
  <2>3. sess' \in [Workers -> Session]
    BY <1>1, <1>5 DEF EmitCompleted, Session
  <2>4. SessionOutcome'
    BY <1>1, <1>5 DEF EmitCompleted, Session
  <2> QED BY <1>5, <2>1, <2>2, <2>3, <2>4 DEF EmitCompleted
<1>6. ASSUME EmitConflict(w) PROVE TypeOK' /\ SessionOutcome'
  <2>1. CASE IsValidTransition(sess[w].task, "blocked")
    <3>1. status' \in [Runs -> RunStatus]
      BY <1>1, <1>6, <2>1, HelpersTypeOK DEF EmitConflict
    <3>2. task' \in TaskStatus
      BY <1>6, <2>1, HelpersTypeOK DEF EmitConflict, TaskStatus
    <3>3. step' \in [Runs -> BOOLEAN]
      BY <1>6, <2>1 DEF EmitConflict
    <3>4. pending' \in [Runs -> 0..MaxPending]
      BY <1>6, <2>1, Increment, ConstantsAssumption DEF EmitConflict
    <3>5. sess' \in [Workers -> Session]
      BY <1>1, <1>6, <2>1 DEF EmitConflict, Session, TaskStatus
    <3>6. SessionOutcome'
      BY <1>1, <1>6, <2>1 DEF EmitConflict, Session
    <3> QED BY <1>6, <3>1, <3>2, <3>3, <3>4, <3>5, <3>6 DEF EmitConflict
  <2>2. CASE ~IsValidTransition(sess[w].task, "blocked")
    BY <1>2, <1>6, <2>2 DEF EmitConflict
  <2> QED BY <2>1, <2>2
<1>7. ASSUME ProposeComment(w) PROVE pending' \in [Runs -> 0..MaxPending]
  BY <1>7, Increment, ConstantsAssumption DEF ProposeComment
<1>8. ASSUME PublishFails(w) PROVE TypeOK' /\ SessionOutcome'
  BY <1>2, <1>7, <1>8 DEF PublishFails
<1>9. ASSUME FinishRun(w) PROVE TypeOK' /\ SessionOutcome'
  <2>1. sess' \in [Workers -> Session] /\ SessionOutcome'
    BY <1>9, IdleSessionType DEF FinishRun, IdleSession
  <2> QED BY <1>7, <1>9, <2>1 DEF FinishRun
<1> QED BY <1>3, <1>4, <1>5, <1>6, <1>8, <1>9

LEMMA EndStepOK ==
  ASSUME TypeOK, SessionOutcome, NEW w \in Workers,
         MarkInterruptedStep(w) \/ SettleTask(w) \/ SoftTimeLimit(w) \/ Crash(w) \/ Redeliver(w)
  PROVE  TypeOK' /\ SessionOutcome'
<1> USE DEF TypeOK, SessionOutcome
<1>1. sess[w] \in Session
  OBVIOUS
<1>2. ASSUME sess' = [sess EXCEPT ![w] = IdleSession]
      PROVE  sess' \in [Workers -> Session] /\ SessionOutcome'
  BY <1>2, IdleSessionType DEF IdleSession
<1>3. ASSUME broker[sess[w].run] < MaxDeliveries,
             broker' = [broker EXCEPT ![sess[w].run] = @ + 1]
      PROVE  broker' \in [Runs -> 0..MaxDeliveries]
  BY <1>3, Increment, ConstantsAssumption
<1>4. ASSUME MarkInterruptedStep(w) PROVE TypeOK' /\ SessionOutcome'
  <2>1. status' \in [Runs -> RunStatus]
    BY <1>1, <1>4, HelpersTypeOK DEF MarkInterruptedStep
  <2>2. step' \in [Runs -> BOOLEAN]
    BY <1>4 DEF MarkInterruptedStep
  <2>3. sess' \in [Workers -> Session]
    BY <1>1, <1>4 DEF MarkInterruptedStep, Session
  <2>4. SessionOutcome'
    BY <1>1, <1>4 DEF MarkInterruptedStep, Session
  <2> QED BY <1>4, <2>1, <2>2, <2>3, <2>4 DEF MarkInterruptedStep
<1>5. ASSUME SettleTask(w) PROVE TypeOK' /\ SessionOutcome'
  <2>1. sess[w].outcome \in {"blocked", "failed"}
    BY <1>1, <1>5 DEF SettleTask
  <2>2. status' \in [Runs -> RunStatus]
    BY <1>5, <2>1, HelpersTypeOK DEF SettleTask
  <2>3. task' \in TaskStatus
    BY <1>5, <2>1, HelpersTypeOK DEF SettleTask, TaskStatus
  <2> QED BY <1>2, <1>5, <2>2, <2>3 DEF SettleTask
<1>6. ASSUME SoftTimeLimit(w) PROVE TypeOK' /\ SessionOutcome'
  <2>1. status' \in [Runs -> RunStatus]
    BY <1>6 DEF SoftTimeLimit, RunStatus
  <2> QED BY <1>2, <1>6, <2>1 DEF SoftTimeLimit
<1>7. ASSUME Crash(w) PROVE TypeOK' /\ SessionOutcome'
  BY <1>2, <1>3, <1>7 DEF Crash
<1>8. ASSUME Redeliver(w) PROVE TypeOK' /\ SessionOutcome'
  BY <1>3, <1>8 DEF Redeliver
<1> QED BY <1>4, <1>5, <1>6, <1>7, <1>8

LEMMA NextTypeOK ==
  ASSUME TypeOK, SessionOutcome, [Next]_vars
  PROVE  TypeOK' /\ SessionOutcome'
<1>1. CASE UserStep \/ \E r \in Runs : RecoverStaleRun(r)
  <2>1. sess' = sess
    BY <1>1 DEF UserStep, RecoverStaleRun, CheckStart, StartTaskRun, RetryRun, ReplayRun, CopyRun,
                CancelRun, CheckResume, CheckApproval, CheckRejection, CheckPlan, ResumeRun,
                ApproveRequest, RejectRequest, CreatePlannedRun, ApprovePlan, UpdateTask
  <2> QED BY <1>1, <2>1, UserTypeOK DEF SessionOutcome
<1>2. ASSUME NEW w \in Workers, NEW r \in Runs, ReceiveRun(w, r)
      PROVE  TypeOK' /\ SessionOutcome'
  <2>1. CASE Claim(w, r)
    <3>1. SessionOutcome'
      BY <2>1 DEF Claim, SessionOutcome, TypeOK, IdleSession
    <3> QED BY <1>2, <3>1, ReceiveTypeOK
  <2>2. CASE IgnoreDelivery(w, r) \/ AbortClaim(w, r)
    BY <1>2, <2>2, ReceiveTypeOK DEF IgnoreDelivery, AbortClaim, SessionOutcome
  <2> QED BY <1>2, <2>1, <2>2 DEF ReceiveRun
<1>3. ASSUME NEW w \in Workers, ExecuteRun(w) \/ Redeliver(w) \/ Crash(w)
      PROVE  TypeOK' /\ SessionOutcome'
  BY <1>3, BodyStepOK, CompletionStepOK, EndStepOK DEF ExecuteRun, Proceed
<1>4. CASE UNCHANGED vars
  BY <1>4 DEF vars, TypeOK, SessionOutcome
<1> QED BY <1>1, <1>2, <1>3, <1>4 DEF Next

\* Every variable stays in its range: the rows of task_runs and orchestrator_tasks
\* only ever hold a status of the code's vocabulary.
THEOREM TypeCorrect == Spec => []TypeOK
<1>1. Init => TypeOK /\ SessionOutcome
  BY InitTypeOK DEF Init, SessionOutcome, IdleSession
<1>2. TypeOK /\ SessionOutcome /\ [Next]_vars => TypeOK' /\ SessionOutcome'
  BY NextTypeOK
<1> QED BY <1>1, <1>2, PTL DEF Spec

------------------------------------------------------------------------------
(***************************************************************************)
(* Exclusive execution.  A step either belongs to one session, which may   *)
(* write the row of the run it holds, or to an API handler, which marks    *)
(* the run as ousted when it writes over a claim, or it is the claim.      *)
(***************************************************************************)

\* A session that gains no run and writes only the row it holds keeps the claims
\* of all sessions, provided what it leaves behind cannot be claimed while it
\* still holds the run.
LEMMA SessionKeepsClaims ==
  ASSUME ClaimIsRespected, ExclusiveUnlessOusted, NEW w \in Workers,
         ousted' = ousted,
         \A v \in Workers \ {w} : sess'[v] = sess[v],
         \A r \in Runs : Holds(w, r)' => Holds(w, r),
         \A r \in Runs : status'[r] # status[r] => Holds(w, r),
         \A r \in Runs : Holds(w, r)' => status'[r] \in { status[r], "completed" }
  PROVE  ClaimIsRespected' /\ ExclusiveUnlessOusted'
<1>1. \A v \in Workers, r \in Runs : Holds(v, r)' => Holds(v, r)
  BY DEF Holds
<1>2. ExclusiveUnlessOusted'
  BY <1>1 DEF ExclusiveUnlessOusted
<1>3. ASSUME NEW v \in Workers, NEW r \in Runs, Holds(v, r)', ~ousted'[r]
      PROVE  status'[r] \in { "in_progress", "completed", "cancelled" }
  <2>1. Holds(v, r) /\ status[r] \in { "in_progress", "completed", "cancelled" }
    BY <1>1, <1>3 DEF ClaimIsRespected
  <2>2. CASE v = w
    BY <1>3, <2>1, <2>2
  <2>3. CASE v # w
    BY <1>3, <2>1, <2>3 DEF ExclusiveUnlessOusted
  <2> QED BY <2>2, <2>3
<1>4. ClaimIsRespected'
  BY <1>3 DEF ClaimIsRespected
<1> QED BY <1>2, <1>4

\* A handler that leaves the sessions alone keeps the claims if it marks every
\* held run whose row it makes claimable.
LEMMA HandlerKeepsClaims ==
  ASSUME ClaimIsRespected, ExclusiveUnlessOusted, sess' = sess,
         \A r \in Runs : ousted[r] => ousted'[r],
         \A r \in Runs : Held(r) /\ ~ousted'[r] => status'[r] \in { status[r], "cancelled" }
  PROVE  ClaimIsRespected' /\ ExclusiveUnlessOusted'
<1>1. \A v \in Workers, r \in Runs : Holds(v, r)' <=> Holds(v, r)
  BY DEF Holds
<1>2. ExclusiveUnlessOusted'
  BY <1>1 DEF ExclusiveUnlessOusted
<1>3. ClaimIsRespected'
  BY <1>1 DEF ClaimIsRespected, Held
<1> QED BY <1>2, <1>3

\* No handler gets past a claim unmarked.
LEMMA UserKeepsClaims ==
  ASSUME ClaimInvariant, UserStep \/ \E r \in Runs : RecoverStaleRun(r)
  PROVE  ClaimIsRespected' /\ ExclusiveUnlessOusted'
<1> USE DEF ClaimInvariant, TypeOK
<1>1. \A r \in Runs : Held(r) /\ ~ousted[r] => status[r] # "absent"
  BY DEF ClaimIsRespected, Held
<1>2. ASSUME NEW r \in Runs, NEW s, status[r] = "absent", status' = [status EXCEPT ![r] = s],
             sess' = sess, ousted' = ousted
      PROVE  ClaimIsRespected' /\ ExclusiveUnlessOusted'
  BY <1>1, <1>2, HandlerKeepsClaims
<1>3. ASSUME sess' = sess, status' = status, ousted' = ousted
      PROVE  ClaimIsRespected' /\ ExclusiveUnlessOusted'
  BY <1>3, HandlerKeepsClaims
<1>4. ASSUME NEW q \in Requests, NEW kind, NEW s, WriteStatus(q, kind, s), sess' = sess
      PROVE  ClaimIsRespected' /\ ExclusiveUnlessOusted'
  <2>1. \A r \in Runs : ousted[r] => ousted'[r]
    BY <1>4 DEF WriteStatus, Held
  <2>2. \A r \in Runs : Held(r) /\ ~ousted'[r] => r # req[q].run
    BY <1>4 DEF WriteStatus
  <2>3. \A r \in Runs : r # req[q].run => status'[r] = status[r]
    BY <1>4 DEF WriteStatus
  <2> QED BY <1>4, <2>1, <2>2, <2>3, HandlerKeepsClaims
<1>5. CASE \E q \in Requests, r \in Runs, m \in Modes : StartTaskRun(q, r, m)
  BY <1>2, <1>5 DEF StartTaskRun
<1>6. CASE \E r \in Runs, new \in Runs : RetryRun(r, new) \/ ReplayRun(r, new)
  BY <1>2, <1>6 DEF RetryRun, ReplayRun, CopyRun
<1>7. CASE \E r \in Runs : CancelRun(r)
  BY <1>7, HandlerKeepsClaims DEF CancelRun
<1>8. CASE \E q \in Requests :
             ResumeRun(q) \/ ApproveRequest(q) \/ RejectRequest(q) \/ ApprovePlan(q)
  BY <1>4, <1>8 DEF ResumeRun, ApproveRequest, RejectRequest, ApprovePlan
<1>9. CASE \/ \E q \in Requests : CheckStart(q)
           \/ \E s \in ManualStatuses : UpdateTask(s)
           \/ \E q \in Requests, r \in Runs :
                CheckResume(q, r) \/ CheckApproval(q, r) \/ CheckRejection(q, r) \/ CheckPlan(q, r)
  BY <1>3, <1>9 DEF CheckStart, CheckResume, CheckApproval, CheckRejection, CheckPlan, UpdateTask
<1>10. ASSUME NEW r \in Runs, RecoverStaleRun(r)
       PROVE  ClaimIsRespected' /\ ExclusiveUnlessOusted'
  <2>1. ~Held(r)
    BY <1>10 DEF RecoverStaleRun, Held, Holds, Serves
  <2> QED BY <1>10, <2>1, HandlerKeepsClaims DEF RecoverStaleRun
<1>11. CASE \E r \in Runs, m \in Modes : CreatePlannedRun(r, m)
  BY <1>2, <1>11 DEF CreatePlannedRun
<1> QED BY <1>5, <1>6, <1>7, <1>8, <1>9, <1>10, <1>11 DEF UserStep

\* The claim itself: a run that somebody holds unmarked is not claimable.
LEMMA ReceiveKeepsClaims ==
  ASSUME ClaimInvariant, NEW w \in Workers, NEW r \in Runs, ReceiveRun(w, r)
  PROVE  ClaimIsRespected' /\ ExclusiveUnlessOusted'
<1> USE DEF ClaimInvariant, TypeOK
<1>1. CASE Claim(w, r)
  <2>1. \A v \in Workers : Holds(v, r) => ousted[r]
    BY <1>1 DEF Claim, ClaimIsRespected, IsRunExecutionClaimable, NON_CLAIMABLE_RUN_STATUSES
  <2>2. \A v \in Workers, x \in Runs : Holds(v, x)' => (v = w /\ x = r) \/ (v # w /\ Holds(v, x))
    BY <1>1 DEF Claim, Holds, IdleSession
  <2>3. \A v \in Workers : Holds(v, r) => ousted'[r]
    BY <1>1, <2>1 DEF Claim, Held
  <2>4. \A x \in Runs : x # r => ousted'[x] = ousted[x] /\ status'[x] = status[x]
    BY <1>1 DEF Claim
  <2>5. status'[r] = "in_progress"
    BY <1>1 DEF Claim
  <2>6. ExclusiveUnlessOusted'
    BY <2>2, <2>3, <2>4 DEF ExclusiveUnlessOusted
  <2>7. ClaimIsRespected'
    BY <2>2, <2>3, <2>4, <2>5 DEF ClaimIsRespected
  <2> QED BY <2>6, <2>7
<1>2. CASE IgnoreDelivery(w, r) \/ AbortClaim(w, r)
  BY <1>2, HandlerKeepsClaims DEF IgnoreDelivery, AbortClaim
<1> QED BY <1>1, <1>2 DEF ReceiveRun

\* No stage of execute_run makes a run claimable while its worker holds it.
LEMMA WorkerKeepsClaims ==
  ASSUME ClaimInvariant, NEW w \in Workers, ExecuteRun(w) \/ Redeliver(w) \/ Crash(w)
  PROVE  ClaimIsRespected' /\ ExclusiveUnlessOusted'
<1> USE DEF ClaimInvariant, TypeOK, Holds
<1>1. sess[w] \in Session
  OBVIOUS
<1>2. ASSUME status' = status, ousted' = ousted,
             \A v \in Workers \ {w} : sess'[v] = sess[v],
             \A r \in Runs : Holds(w, r)' => Holds(w, r)
      PROVE  ClaimIsRespected' /\ ExclusiveUnlessOusted'
  BY <1>2, SessionKeepsClaims
<1>3. ASSUME NEW s, status' = [status EXCEPT ![sess[w].run] = s], ousted' = ousted,
             \A v \in Workers \ {w} : sess'[v] = sess[v],
             Holds(w, sess[w].run),
             \A r \in Runs : Holds(w, r)' => r = sess[w].run /\ s = "completed"
      PROVE  ClaimIsRespected' /\ ExclusiveUnlessOusted'
  BY <1>3, SessionKeepsClaims
<1>4. CASE StartTask(w) \/ HandOffReview(w) \/ \E current \in BOOLEAN : MarkStep(w, current)
  <2>1. \A r \in Runs : Holds(w, r)' => Holds(w, r)
    BY <1>1, <1>4 DEF StartTask, HandOffReview, MarkStep, Session
  <2> QED BY <1>2, <1>4, <2>1 DEF StartTask, HandOffReview, MarkStep
<1>5. ASSUME NEW outcome, Raise(w, outcome), Holds(w, sess[w].run), status' = status,
             ousted' = ousted
      PROVE  ClaimIsRespected' /\ ExclusiveUnlessOusted'
  <2>1. \A r \in Runs : Holds(w, r)' => Holds(w, r)
    BY <1>1, <1>5 DEF Raise, Session
  <2> QED BY <1>2, <1>5, <2>1 DEF Raise
<1>6. CASE RequestApproval(w) \/ PublishFails(w)
           \/ \E outcome \in {"failed", "blocked"} : BodyRaises(w, outcome)
  BY <1>5, <1>6 DEF RequestApproval, PublishFails, BodyRaises
<1>7. ASSUME NEW next \in TaskStatus, ReviewVerdict(w, next)
      PROVE  ClaimIsRespected' /\ ExclusiveUnlessOusted'
  <2>1. \A r \in Runs : Holds(w, r)' => Holds(w, r)
    BY <1>1, <1>7 DEF ReviewVerdict, Raise, Session
  <2> QED BY <1>2, <1>7, <2>1 DEF ReviewVerdict, Raise
<1>8. ASSUME NEW next \in TaskStatus, CompleteWithTask(w, next)
      PROVE  ClaimIsRespected' /\ ExclusiveUnlessOusted'
  <2>1. Holds(w, sess[w].run)
    BY <1>8 DEF CompleteWithTask, BodyDone
  <2>2. CASE IsValidTransition(sess[w].task, next)
    <3>1. /\ status' = [status EXCEPT ![sess[w].run] = "completed"]
          /\ \A v \in Workers \ {w} : sess'[v] = sess[v]
          /\ ousted' = ousted
      BY <1>8, <2>2 DEF CompleteWithTask
    <3>2. \A r \in Runs : Holds(w, r)' => r = sess[w].run
      BY <1>1, <1>8, <2>2 DEF CompleteWithTask, Session
    <3> QED BY <1>3, <2>1, <3>1, <3>2
  <2>3. CASE ~IsValidTransition(sess[w].task, next)
    <3>1. /\ status' = status /\ ousted' = ousted
          /\ \A v \in Workers \ {w} : sess'[v] = sess[v]
      BY <1>8, <2>3 DEF CompleteWithTask
    <3>2. \A r \in Runs : Holds(w, r)' => Holds(w, r)
      BY <1>1, <1>8, <2>1, <2>3 DEF CompleteWithTask, Session
    <3> QED BY <1>2, <3>1, <3>2
  <2> QED BY <2>2, <2>3
<1>9. CASE CompleteWithoutTask(w)
  <2>1. \A r \in Runs : Holds(w, r)' => Holds(w, r)
    BY <1>1, <1>9 DEF CompleteWithoutTask, BodyDone, Session
  <2> QED BY <1>2, <1>9, <2>1 DEF CompleteWithoutTask
\* A commit of a session that holds its run, and then holds it only as completed.
<1>10. ASSUME CommitOutcome(w), ousted' = ousted, Holds(w, sess[w].run),
              \A v \in Workers \ {w} : sess'[v] = sess[v],
              \A r \in Runs : Holds(w, r)' => r = sess[w].run /\ sess[w].outcome = "completed"
       PROVE  ClaimIsRespected' /\ ExclusiveUnlessOusted'
  <2>1. CASE sess[w].dirty
    BY <1>3, <1>10, <2>1 DEF CommitOutcome
  <2>2. CASE ~sess[w].dirty
    BY <1>2, <1>10, <2>2 DEF CommitOutcome
  <2> QED BY <2>1, <2>2
<1>11. CASE EmitCompleted(w)
  <2>1. \A r \in Runs : Holds(w, r)' => r = sess[w].run /\ sess[w].outcome = "completed"
    BY <1>1, <1>11 DEF EmitCompleted, Session, SessionOutcome
  <2> QED BY <1>10, <1>11, <2>1 DEF EmitCompleted
<1>12. CASE EmitConflict(w)
  <2>1. Holds(w, sess[w].run)
    BY <1>12 DEF EmitConflict
  <2>2. CASE IsValidTransition(sess[w].task, "blocked")
    <3>1. \A r \in Runs : Holds(w, r)' => r = sess[w].run /\ sess[w].outcome = "completed"
      BY <1>1, <1>12, <2>2 DEF EmitConflict, Session, SessionOutcome
    <3> QED BY <1>10, <1>12, <2>1, <2>2, <3>1 DEF EmitConflict
  <2>3. CASE ~IsValidTransition(sess[w].task, "blocked")
    BY <1>5, <1>12, <2>1, <2>3 DEF EmitConflict
  <2> QED BY <2>2, <2>3
\* A session that ends holds nothing.
<1>13. ASSUME sess' = [sess EXCEPT ![w] = IdleSession]
       PROVE  /\ \A r \in Runs : ~Holds(w, r)'
              /\ \A v \in Workers \ {w} : sess'[v] = sess[v]
  BY <1>13 DEF IdleSession
<1>14. CASE FinishRun(w) \/ Crash(w)
  BY <1>2, <1>13, <1>14 DEF FinishRun, Crash
<1>15. CASE Redeliver(w)
  BY <1>2, <1>15 DEF Redeliver
<1>16. CASE SoftTimeLimit(w)
  BY <1>3, <1>13, <1>16 DEF SoftTimeLimit
<1>17. CASE MarkInterruptedStep(w)
  <2>1. \A r \in Runs : ~Holds(w, r)'
    BY <1>1, <1>17 DEF MarkInterruptedStep, Session
  <2>2. \A v \in Workers \ {w} : sess'[v] = sess[v]
    BY <1>17 DEF MarkInterruptedStep
  <2>3. CASE sess[w].dirty
    BY <1>10, <1>17, <2>1, <2>2, <2>3 DEF MarkInterruptedStep
  <2>4. CASE ~sess[w].dirty
    BY <1>2, <1>17, <2>1, <2>2, <2>4 DEF MarkInterruptedStep, CommitOutcome
  <2> QED BY <2>3, <2>4
<1>18. CASE SettleTask(w)
  <2>1. CommitOutcome(w) \/ status' = status
    BY <1>18 DEF SettleTask
  <2>2. CASE sess[w].dirty /\ CommitOutcome(w)
    BY <1>10, <1>13, <1>18, <2>2 DEF SettleTask
  <2>3. CASE status' = status
    BY <1>2, <1>13, <1>18, <2>3 DEF SettleTask
  <2> QED BY <2>1, <2>2, <2>3 DEF CommitOutcome
<1> QED
  BY <1>4, <1>6, <1>7, <1>8, <1>9, <1>11, <1>12, <1>14, <1>15, <1>16, <1>17, <1>18
  DEF ExecuteRun, Proceed

LEMMA ClaimInvariantInductive ==
  ASSUME ClaimInvariant, [Next]_vars PROVE ClaimInvariant'
<1>1. TypeOK' /\ SessionOutcome'
  BY NextTypeOK DEF ClaimInvariant
<1>2. ClaimIsRespected' /\ ExclusiveUnlessOusted'
  <2>1. CASE UserStep \/ \E r \in Runs : RecoverStaleRun(r)
    BY <2>1, UserKeepsClaims
  <2>2. CASE \E w \in Workers, r \in Runs : ReceiveRun(w, r)
    BY <2>2, ReceiveKeepsClaims
  <2>3. CASE \E w \in Workers : ExecuteRun(w) \/ Redeliver(w) \/ Crash(w)
    BY <2>3, WorkerKeepsClaims
  <2>4. CASE UNCHANGED vars
    <3>1. status' = status /\ sess' = sess /\ ousted' = ousted
      BY <2>4 DEF vars
    <3>2. ClaimIsRespected /\ ExclusiveUnlessOusted
      BY DEF ClaimInvariant
    <3> QED BY <3>1, <3>2, HandlerKeepsClaims
  <2> QED BY <2>1, <2>2, <2>3, <2>4 DEF Next
<1> QED BY <1>1, <1>2 DEF ClaimInvariant

LEMMA InitClaimInvariant == Init => ClaimInvariant
  BY InitTypeOK
  DEF Init, ClaimInvariant, SessionOutcome, ClaimIsRespected, ExclusiveUnlessOusted, Holds,
      IdleSession

\* The row's status, the sessions that hold the run and the outcomes they carry
\* agree in every reachable state.
THEOREM ClaimInvariantHolds == Spec => []ClaimInvariant
  BY InitClaimInvariant, ClaimInvariantInductive, PTL DEF Spec

\* Until a request has written over it, the row of a run that a worker executes
\* has a status that no delivery can claim.
THEOREM ClaimRespected == Spec => []ClaimIsRespected
<1>1. ClaimInvariant => ClaimIsRespected
  BY DEF ClaimInvariant
<1> QED BY <1>1, ClaimInvariantHolds, PTL

\* However many workers, deliveries and crashes there are, two workers execute one
\* run only after a request that had checked its status wrote it under the first.
THEOREM Exclusive == Spec => []ExclusiveUnlessOusted
<1>1. ClaimInvariant => ExclusiveUnlessOusted
  BY DEF ClaimInvariant
<1> QED BY <1>1, ClaimInvariantHolds, PTL

------------------------------------------------------------------------------
(***************************************************************************)
(* Queued runs are deliverable.                                            *)
(***************************************************************************)

\* Submitting a run makes it deliverable or records that it was not sent, and
\* leaves every other run alone.
LEMMA SubmitDelivers ==
  ASSUME TypeOK, QueuedRunIsDeliverable, NEW x, Submit(x),
         \A r \in Runs \ {x} : status'[r] = status[r]
  PROVE  QueuedRunIsDeliverable'
<1>1. \A r \in Runs \ {x} : broker'[r] = broker[r] /\ undelivered'[r] = undelivered[r]
  BY DEF Submit, TypeOK
<1>2. x \in Runs => undelivered'[x] \/ broker'[x] > 0
  BY DEF Submit, TypeOK
<1> QED BY <1>1, <1>2 DEF QueuedRunIsDeliverable

\* A step that queues no run and takes no message keeps the queued runs deliverable.
LEMMA NothingQueued ==
  ASSUME TypeOK, QueuedRunIsDeliverable, NEW x,
         \A r \in Runs \ {x} : status'[r] = status[r] /\ undelivered'[r] = undelivered[r],
         x \in Runs => status'[x] # "queued",
         \A r \in Runs \ {x} : broker'[r] = broker[r]
  PROVE  QueuedRunIsDeliverable'
  BY DEF QueuedRunIsDeliverable

LEMMA UserKeepsDeliverable ==
  ASSUME TypeOK, QueuedRunIsDeliverable, UserStep \/ \E r \in Runs : RecoverStaleRun(r)
  PROVE  QueuedRunIsDeliverable'
<1>1. ASSUME NEW q \in Requests, NEW r \in Runs, NEW m \in Modes, StartTaskRun(q, r, m)
      PROVE  QueuedRunIsDeliverable'
  BY <1>1, SubmitDelivers DEF StartTaskRun, TypeOK
<1>2. ASSUME NEW old \in Runs, NEW new \in Runs, NEW copied, CopyRun(old, new, copied)
      PROVE  QueuedRunIsDeliverable'
  BY <1>2, SubmitDelivers DEF CopyRun, TypeOK
<1>3. ASSUME NEW r \in Runs, CancelRun(r) PROVE QueuedRunIsDeliverable'
  BY <1>3, NothingQueued DEF CancelRun, TypeOK
<1>4. ASSUME NEW q \in Requests, ResumeRun(q) \/ ApproveRequest(q)
      PROVE  QueuedRunIsDeliverable'
  <2>1. Submit(req[q].run) /\ \A r \in Runs \ {req[q].run} : status'[r] = status[r]
    BY <1>4 DEF ResumeRun, ApproveRequest, WriteStatus, TypeOK
  <2> QED BY <2>1, SubmitDelivers
<1>5. ASSUME NEW q \in Requests, RejectRequest(q) \/ ApprovePlan(q) PROVE QueuedRunIsDeliverable'
  BY <1>5, NothingQueued DEF RejectRequest, ApprovePlan, WriteStatus, TypeOK
<1>6. ASSUME NEW r \in Runs, RecoverStaleRun(r) PROVE QueuedRunIsDeliverable'
  BY <1>6, NothingQueued DEF RecoverStaleRun, TypeOK
<1>7. CASE \/ \E q \in Requests : CheckStart(q)
           \/ \E s \in ManualStatuses : UpdateTask(s)
           \/ \E q \in Requests, r \in Runs :
                CheckResume(q, r) \/ CheckApproval(q, r) \/ CheckRejection(q, r) \/ CheckPlan(q, r)
  <2>1. status' = status /\ broker' = broker /\ undelivered' = undelivered
    BY <1>7 DEF CheckStart, CheckResume, CheckApproval, CheckRejection, CheckPlan, UpdateTask
  <2> QED BY <2>1 DEF QueuedRunIsDeliverable
<1>8. ASSUME NEW r \in Runs, NEW m \in Modes, CreatePlannedRun(r, m)
      PROVE  QueuedRunIsDeliverable'
  BY <1>8, NothingQueued DEF CreatePlannedRun, TypeOK
<1> QED BY <1>1, <1>2, <1>3, <1>4, <1>5, <1>6, <1>7, <1>8 DEF UserStep, RetryRun, ReplayRun

LEMMA ReceiveKeepsDeliverable ==
  ASSUME TypeOK, QueuedRunIsDeliverable, NEW w \in Workers, NEW r \in Runs, ReceiveRun(w, r)
  PROVE  QueuedRunIsDeliverable'
<1>1. CASE Claim(w, r)
  BY <1>1, NothingQueued DEF Claim, Deliver, TypeOK
<1>2. CASE IgnoreDelivery(w, r)
  BY <1>2, NothingQueued
  DEF IgnoreDelivery, Deliver, TypeOK, IsRunExecutionClaimable, NON_CLAIMABLE_RUN_STATUSES
<1>3. CASE AbortClaim(w, r)
  <2>1. \A x \in Runs \ {r} : broker'[x] = broker[x] /\ undelivered'[x] = undelivered[x]
    BY <1>3 DEF AbortClaim, Deliver, TypeOK
  <2>2. status' = status /\ (status[r] = "queued" => undelivered'[r])
    BY <1>3 DEF AbortClaim, TypeOK
  <2> QED BY <2>1, <2>2 DEF QueuedRunIsDeliverable
<1> QED BY <1>1, <1>2, <1>3 DEF ReceiveRun

\* A worker never writes "queued" and never takes a message away from the queue
\* after it has claimed its run.
LEMMA WorkerNeverQueues ==
  ASSUME TypeOK, SessionOutcome, NEW w \in Workers, ExecuteRun(w) \/ Redeliver(w) \/ Crash(w)
  PROVE  /\ undelivered' = undelivered
         /\ \A r \in Runs : status'[r] \in { status[r], "completed", "blocked", "failed" }
         /\ broker' = broker \/ broker' = [broker EXCEPT ![sess[w].run] = @ + 1]
<1> DEFINE Goal ==
       /\ undelivered' = undelivered
       /\ \A r \in Runs : status'[r] \in { status[r], "completed", "blocked", "failed" }
       /\ broker' = broker \/ broker' = [broker EXCEPT ![sess[w].run] = @ + 1]
<1>1. sess[w] \in Session
  BY DEF TypeOK
<1>2. ASSUME CommitOutcome(w), sess[w].outcome # "none"
      PROVE  \A r \in Runs : status'[r] \in { status[r], "completed", "blocked", "failed" }
  BY <1>1, <1>2 DEF CommitOutcome, TypeOK, Session
<1>3. CASE \/ StartTask(w) \/ HandOffReview(w) \/ RequestApproval(w)
           \/ \E current \in BOOLEAN : MarkStep(w, current)
           \/ \E next \in TaskStatus : ReviewVerdict(w, next)
           \/ \E outcome \in {"failed", "blocked"} : BodyRaises(w, outcome)
           \/ CompleteWithoutTask(w) \/ PublishFails(w) \/ FinishRun(w)
  BY <1>3 DEF StartTask, HandOffReview, RequestApproval, MarkStep, ReviewVerdict, BodyRaises,
              CompleteWithoutTask, PublishFails, FinishRun
<1>4. ASSUME NEW next \in TaskStatus, CompleteWithTask(w, next) PROVE Goal
  BY <1>4 DEF CompleteWithTask, TypeOK
<1>5. CASE EmitCompleted(w)
  BY <1>2, <1>5 DEF EmitCompleted, SessionOutcome
<1>6. CASE EmitConflict(w)
  BY <1>2, <1>6 DEF EmitConflict, SessionOutcome
<1>7. CASE MarkInterruptedStep(w)
  BY <1>2, <1>7 DEF MarkInterruptedStep, SessionOutcome
<1>8. CASE SettleTask(w)
  BY <1>2, <1>8 DEF SettleTask, SessionOutcome
<1>9. CASE SoftTimeLimit(w)
  BY <1>9 DEF SoftTimeLimit, TypeOK
<1>10. CASE Redeliver(w) \/ Crash(w)
  BY <1>10 DEF Redeliver, Crash
<1> QED
  BY <1>3, <1>4, <1>5, <1>6, <1>7, <1>8, <1>9, <1>10 DEF ExecuteRun, Proceed

\* No lost wake-up in the queue: whoever queues a run submits it, and a message is
\* consumed only together with the "queued" it stands for.
THEOREM Deliverable == Spec => []QueuedRunIsDeliverable
<1> DEFINE Inv == TypeOK /\ SessionOutcome /\ QueuedRunIsDeliverable
<1>1. Init => Inv
  BY InitTypeOK DEF Init, SessionOutcome, IdleSession, QueuedRunIsDeliverable
<1>2. ASSUME Inv, [Next]_vars PROVE Inv'
  <2>1. TypeOK' /\ SessionOutcome'
    BY <1>2, NextTypeOK
  <2>2. QueuedRunIsDeliverable'
    <3>1. CASE UserStep \/ \E r \in Runs : RecoverStaleRun(r)
      BY <1>2, <3>1, UserKeepsDeliverable
    <3>2. CASE \E w \in Workers, r \in Runs : ReceiveRun(w, r)
      BY <1>2, <3>2, ReceiveKeepsDeliverable
    <3>3. ASSUME NEW w \in Workers, ExecuteRun(w) \/ Redeliver(w) \/ Crash(w)
          PROVE  QueuedRunIsDeliverable'
      <4>1. \A r \in Runs : broker'[r] >= broker[r]
        BY <1>2, <3>3, WorkerNeverQueues DEF TypeOK
      <4> QED BY <1>2, <3>3, <4>1, WorkerNeverQueues DEF TypeOK, QueuedRunIsDeliverable
    <3>4. CASE UNCHANGED vars
      BY <1>2, <3>4 DEF vars, QueuedRunIsDeliverable
    <3> QED BY <1>2, <3>1, <3>2, <3>3, <3>4 DEF Next
  <2> QED BY <2>1, <2>2
<1> QED BY <1>1, <1>2, PTL DEF Spec

------------------------------------------------------------------------------
(***************************************************************************)
(* Runs at rest.                                                           *)
(***************************************************************************)

\* A completed or cancelled run that no worker holds and no checked request is
\* about to write stays as it is, unless a user cancels it.
THEOREM TerminalAtRest == Spec => TerminalRunIsAtRest
<1> DEFINE AtRest(r) == /\ status[r] \in { "completed", "cancelled" }
                        /\ ~Held(r)
                        /\ \A q \in Requests : req[q].run # r
           Rests == \A r \in Runs : AtRest(r) => status'[r] \in { status[r], "cancelled" }
<1>0. ASSUME TypeOK, NEW x \in Runs, NEW s, status' = [status EXCEPT ![x] = s],
             ~AtRest(x) \/ s = "cancelled"
      PROVE  Rests
  BY <1>0 DEF TypeOK
<1>1. ASSUME TypeOK, UserStep \/ \E r \in Runs : RecoverStaleRun(r) PROVE Rests
  <2>1. ASSUME NEW r \in Runs, status[r] = "absent", status' = [status EXCEPT ![r] = "queued"]
        PROVE  Rests
    BY <1>0, <1>1, <2>1
  <2>2. ASSUME NEW r \in Runs,
               \/ \E q \in Requests, m \in Modes : StartTaskRun(q, r, m)
               \/ \E old \in Runs : RetryRun(old, r) \/ ReplayRun(old, r)
        PROVE  Rests
    <3>1. status[r] = "absent" /\ status' = [status EXCEPT ![r] = "queued"]
      BY <2>2 DEF StartTaskRun, RetryRun, ReplayRun, CopyRun
    <3> QED BY <2>1, <3>1
  <2>3. ASSUME NEW r \in Runs, CancelRun(r) PROVE Rests
    BY <1>0, <1>1, <2>3 DEF CancelRun
  <2>4. ASSUME NEW r \in Runs, RecoverStaleRun(r) PROVE Rests
    <3>1. status[r] = "in_progress" /\ status' = [status EXCEPT ![r] = "failed"]
      BY <2>4 DEF RecoverStaleRun
    <3> QED BY <1>0, <1>1, <3>1
  <2>5. ASSUME NEW q \in Requests,
               ResumeRun(q) \/ ApproveRequest(q) \/ RejectRequest(q) \/ ApprovePlan(q)
        PROVE  Rests
    <3>1. PICK s \in RunStatus : status' = [status EXCEPT ![req[q].run] = s]
      BY <2>5 DEF ResumeRun, ApproveRequest, RejectRequest, ApprovePlan, WriteStatus, RunStatus
    <3> QED BY <1>1, <3>1 DEF TypeOK
  <2>6. ASSUME \/ \E q \in Requests : CheckStart(q)
               \/ \E s \in ManualStatuses : UpdateTask(s)
               \/ \E q \in Requests, r \in Runs :
                    CheckResume(q, r) \/ CheckApproval(q, r) \/ CheckRejection(q, r) \/ CheckPlan(q, r)
        PROVE  Rests
    BY <2>6 DEF CheckStart, CheckResume, CheckApproval, CheckRejection, CheckPlan, UpdateTask
  <2>7. ASSUME NEW r \in Runs, NEW m \in Modes, CreatePlannedRun(r, m) PROVE Rests
    <3>1. status[r] = "absent" /\ status' = [status EXCEPT ![r] = "awaiting_approval"]
      BY <2>7 DEF CreatePlannedRun
    <3> QED BY <1>0, <1>1, <3>1
  <2> QED BY <1>1, <2>2, <2>3, <2>4, <2>5, <2>6, <2>7 DEF UserStep
<1>2. ASSUME TypeOK, NEW w \in Workers, NEW r \in Runs, ReceiveRun(w, r) PROVE Rests
  BY <1>2 DEF ReceiveRun, Claim, IgnoreDelivery, AbortClaim, IsRunExecutionClaimable,
              NON_CLAIMABLE_RUN_STATUSES, TypeOK
<1>3. ASSUME TypeOK, NEW w \in Workers, ExecuteRun(w) \/ Redeliver(w) \/ Crash(w) PROVE Rests
  <2> USE DEF TypeOK
  <2>1. ASSUME NEW s, status' = [status EXCEPT ![sess[w].run] = s], Holds(w, sess[w].run)
        PROVE  Rests
    BY <2>1 DEF Held
  <2>2. ASSUME CommitOutcome(w) PROVE Rests
    <3>1. CASE sess[w].dirty
      BY <2>1, <2>2, <3>1 DEF CommitOutcome, Holds
    <3>2. CASE ~sess[w].dirty
      BY <2>2, <3>2 DEF CommitOutcome
    <3> QED BY <3>1, <3>2
  <2>3. CASE status' = status
    BY <2>3
  <2>4. ASSUME NEW next \in TaskStatus, CompleteWithTask(w, next) PROVE Rests
    <3>1. Holds(w, sess[w].run)
      BY <2>4 DEF CompleteWithTask, BodyDone, Holds
    <3>2. status' = [status EXCEPT ![sess[w].run] = "completed"] \/ status' = status
      BY <2>4 DEF CompleteWithTask
    <3> QED BY <2>1, <2>3, <3>1, <3>2
  <2>5. CASE SoftTimeLimit(w)
    <3>1. Holds(w, sess[w].run) /\ status' = [status EXCEPT ![sess[w].run] = "failed"]
      BY <2>5 DEF SoftTimeLimit, Holds
    <3> QED BY <2>1, <3>1
  <2>6. CASE EmitCompleted(w) \/ EmitConflict(w) \/ MarkInterruptedStep(w) \/ SettleTask(w)
    <3>1. CommitOutcome(w) \/ status' = status
      BY <2>6 DEF EmitCompleted, EmitConflict, MarkInterruptedStep, SettleTask
    <3> QED BY <2>2, <2>3, <3>1
  <2>7. CASE \/ StartTask(w) \/ HandOffReview(w) \/ RequestApproval(w)
             \/ \E current \in BOOLEAN : MarkStep(w, current)
             \/ \E next \in TaskStatus : ReviewVerdict(w, next)
             \/ \E outcome \in {"failed", "blocked"} : BodyRaises(w, outcome)
             \/ CompleteWithoutTask(w) \/ PublishFails(w) \/ FinishRun(w)
             \/ Redeliver(w) \/ Crash(w)
    <3>1. status' = status
      BY <2>7 DEF StartTask, HandOffReview, RequestApproval, MarkStep, ReviewVerdict, BodyRaises,
                  CompleteWithoutTask, PublishFails, FinishRun, Redeliver, Crash
    <3> QED BY <2>3, <3>1
  <2> QED BY <1>3, <2>4, <2>5, <2>6, <2>7 DEF ExecuteRun, Proceed
<1>4. TypeOK /\ [Next]_vars => [Rests]_vars
  BY <1>1, <1>2, <1>3 DEF Next
<1> QED BY <1>4, TypeCorrect, PTL DEF Spec, TerminalRunIsAtRest

------------------------------------------------------------------------------
(***************************************************************************)
(* The task follows its runs.  Every session goes by its own copy of the   *)
(* task and writes the row only where the copy changes, so two sessions    *)
(* can leave each other's status behind.  What saves the task is that      *)
(* "in_progress" is only ever written by StartTask, and that every way out *)
(* of the body moves a copy that says so: completion, verdict, conflict    *)
(* and the except clauses, whose transitions from "in_progress" the state  *)
(* machine never refuses.                                                  *)
(***************************************************************************)

\* What the theorem takes for granted: no worker is lost, no run is a brainstorm (its end
\* leaves the task alone), nobody sets the task "in_progress" by hand.
OrderlyRuns ==
  /\ "crash" \notin Faults
  /\ "brainstorm" \notin Modes
  /\ "in_progress" \notin ManualStatuses

\* The worker's session is past StartTask, and its copy of the task says "in_progress".
WorksOnTask(w) ==
  /\ sess[w].pc \in { "working", "reviewed", "handling", "settling" }
  /\ sess[w].task = "in_progress"

TaskIsWorkedOn ==
  /\ task = "in_progress" => \E w \in Workers : WorksOnTask(w)
  /\ \A w \in Workers : sess[w].pc \in { "closing", "publishing" } => sess[w].task # "in_progress"

\* A session that is not idle has the run it claimed.
RunInHand == \A w \in Workers : sess[w].pc # "idle" => sess[w].run \in Runs

LEMMA NextRunInHand ==
  ASSUME TypeOK, RunInHand, [Next]_vars
  PROVE  RunInHand'
<1> USE DEF RunInHand
<1>0. sess \in [Workers -> Session]
  BY DEF TypeOK
<1>1. CASE UserStep \/ (\E r \in Runs : RecoverStaleRun(r)) \/ UNCHANGED vars
  <2>1. sess' = sess
    BY <1>1
    DEF vars, UserStep, RecoverStaleRun, CheckStart, StartTaskRun, RetryRun, ReplayRun, CopyRun,
        CancelRun, CheckResume, CheckApproval, CheckRejection, CheckPlan, ResumeRun,
        ApproveRequest, RejectRequest, CreatePlannedRun, ApprovePlan, UpdateTask
  <2> QED BY <2>1
<1>2. ASSUME NEW w \in Workers, NEW r \in Runs, ReceiveRun(w, r) PROVE RunInHand'
  <2>1. CASE Claim(w, r)
    <3>1. sess'[w].run = r /\ \A v \in Workers \ {w} : sess'[v] = sess[v]
      BY <1>0, <2>1 DEF Claim, IdleSession
    <3> QED BY <3>1
  <2>2. CASE IgnoreDelivery(w, r) \/ AbortClaim(w, r)
    BY <2>2 DEF IgnoreDelivery, AbortClaim
  <2> QED BY <1>2, <2>1, <2>2 DEF ReceiveRun
<1>3. ASSUME NEW w \in Workers, ExecuteRun(w) \/ Redeliver(w) \/ Crash(w) PROVE RunInHand'
  <2>0. sess[w] \in Session
    BY <1>0
  <2>1. CASE \A v \in Workers : sess'[v] = sess[v]
    BY <2>1
  <2>2. ASSUME sess[w].pc # "idle", \A v \in Workers \ {w} : sess'[v] = sess[v],
               sess'[w].pc = "idle" \/ sess'[w].run = sess[w].run
        PROVE  RunInHand'
    <3>1. ASSUME NEW v \in Workers, sess'[v].pc # "idle" PROVE sess'[v].run \in Runs
      BY <2>2, <3>1
    <3> QED BY <3>1
  <2> HIDE DEF RunInHand
  <2>3. ASSUME NEW outcome, Raise(w, outcome), sess[w].pc # "idle" PROVE RunInHand'
    BY <1>0, <2>0, <2>2, <2>3 DEF Raise, Session
  <2>4. CASE StartTask(w)
    BY <1>0, <2>0, <2>2, <2>4 DEF StartTask, Session
  <2>5. CASE HandOffReview(w)
    BY <1>0, <2>0, <2>2, <2>5 DEF HandOffReview, Session
  <2>6. CASE RequestApproval(w)
    BY <2>3, <2>6 DEF RequestApproval
  <2>7. ASSUME NEW current \in BOOLEAN, MarkStep(w, current) PROVE RunInHand'
    BY <1>0, <2>0, <2>2, <2>7 DEF MarkStep, Session
  <2>8. ASSUME NEW outcome, BodyRaises(w, outcome) PROVE RunInHand'
    BY <2>3, <2>8 DEF BodyRaises
  <2>9. ASSUME NEW next \in TaskStatus, ReviewVerdict(w, next) PROVE RunInHand'
    <3> DEFINE blocks == next = "planned" /\ mode[sess[w].run] = "manager_worker"
    <3>1. CASE Raise(w, "failed")
      BY <2>3, <2>9, <3>1 DEF ReviewVerdict
    <3>2. CASE sess' = [sess EXCEPT ![w].pc = IF blocks THEN "handling" ELSE "reviewed",
                                    ![w].task = next,
                                    ![w].outcome = IF blocks THEN "blocked" ELSE @,
                                    ![w].dirty = blocks]
      <4>1. sess[w].pc # "idle"
        BY <2>9 DEF ReviewVerdict
      <4> HIDE DEF blocks
      <4> QED BY <1>0, <2>0, <2>2, <3>2, <4>1 DEF Session
    <3> QED BY <2>9, <3>1, <3>2 DEF ReviewVerdict
  <2>10. ASSUME NEW next \in TaskStatus, CompleteWithTask(w, next) PROVE RunInHand'
    <3>1. \/ sess' = [sess EXCEPT ![w].pc = "closing", ![w].outcome = "completed",
                                  ![w].task = next, ![w].step = FALSE]
          \/ sess' = [sess EXCEPT ![w].pc = "handling", ![w].outcome = "failed",
                                  ![w].step = FALSE, ![w].dirty = TRUE]
      BY <2>10 DEF CompleteWithTask
    <3>2. sess[w].pc # "idle"
      BY <2>10 DEF CompleteWithTask, BodyDone
    <3> QED BY <1>0, <2>0, <2>2, <3>1, <3>2 DEF Session
  <2>11. CASE CompleteWithoutTask(w)
    <3>1. sess[w].pc # "idle"
      BY <2>11 DEF CompleteWithoutTask, BodyDone
    <3> QED BY <1>0, <2>0, <2>2, <2>11, <3>1 DEF CompleteWithoutTask, Session
  <2>12. CASE EmitCompleted(w)
    BY <1>0, <2>0, <2>2, <2>12 DEF EmitCompleted, Session
  <2>13. CASE EmitConflict(w)
    <3>1. CASE Raise(w, "failed")
      BY <2>3, <2>13, <3>1 DEF EmitConflict
    <3>2. CASE sess' = [sess EXCEPT ![w].pc = "publishing", ![w].task = "blocked",
                                    ![w].dirty = FALSE]
      <4>1. sess[w].pc # "idle"
        BY <2>13 DEF EmitConflict
      <4> QED BY <1>0, <2>0, <2>2, <3>2, <4>1 DEF Session
    <3> QED BY <2>13, <3>1, <3>2 DEF EmitConflict
  <2>14. CASE PublishFails(w)
    BY <2>3, <2>14 DEF PublishFails
  <2>15. CASE MarkInterruptedStep(w)
    BY <1>0, <2>0, <2>2, <2>15 DEF MarkInterruptedStep, Session
  <2>16. CASE FinishRun(w) \/ SettleTask(w) \/ SoftTimeLimit(w) \/ Crash(w)
    <3>1. sess' = [sess EXCEPT ![w] = IdleSession] /\ sess[w].pc # "idle"
      BY <2>16 DEF FinishRun, SettleTask, SoftTimeLimit, Crash
    <3> QED BY <1>0, <2>2, <3>1 DEF IdleSession
  <2>17. CASE Redeliver(w)
    BY <2>1, <2>17 DEF Redeliver
  <2> QED
    BY <1>3, <2>4, <2>5, <2>6, <2>7, <2>8, <2>9, <2>10, <2>11, <2>12, <2>13, <2>14, <2>15,
       <2>16, <2>17
    DEF ExecuteRun, Proceed
<1> QED BY <1>1, <1>2, <1>3 DEF Next

\* A step of one session keeps TaskIsWorkedOn if the session takes its copy of the task
\* along, or moves the row on.
LEMMA SessionMovesTask ==
  ASSUME TaskIsWorkedOn, NEW w \in Workers, \A v \in Workers \ {w} : sess'[v] = sess[v],
         task' \in { task } \/ task' # "in_progress" \/ WorksOnTask(w)',
         WorksOnTask(w) => WorksOnTask(w)' \/ task' # "in_progress",
         sess'[w].pc \in { "closing", "publishing" } => sess'[w].task # "in_progress"
  PROVE  TaskIsWorkedOn'
<1>1. ASSUME task' = "in_progress" PROVE \E v \in Workers : WorksOnTask(v)'
  <2>1. CASE WorksOnTask(w)'
    BY <2>1
  <2>2. CASE ~WorksOnTask(w)'
    <3>1. PICK v \in Workers : WorksOnTask(v)
      BY <1>1, <2>2 DEF TaskIsWorkedOn
    <3>2. v # w
      BY <1>1, <2>2, <3>1
    <3>3. sess'[v] = sess[v]
      BY <3>2
    <3> QED BY <3>1, <3>3 DEF WorksOnTask
  <2> QED BY <2>1, <2>2
<1>2. ASSUME NEW v \in Workers, sess'[v].pc \in { "closing", "publishing" }
      PROVE  sess'[v].task # "in_progress"
  BY <1>2 DEF TaskIsWorkedOn
<1> QED BY <1>1, <1>2 DEF TaskIsWorkedOn

\* The handlers never write "in_progress", and leave the sessions alone.
LEMMA HandlersMoveTask ==
  ASSUME OrderlyRuns, TaskIsWorkedOn, UserStep \/ \E r \in Runs : RecoverStaleRun(r)
  PROVE  TaskIsWorkedOn'
<1>1. sess' = sess
  BY DEF UserStep, RecoverStaleRun, CheckStart, StartTaskRun, RetryRun, ReplayRun, CopyRun,
         CancelRun, CheckResume, CheckApproval, CheckRejection, CheckPlan, ResumeRun,
         ApproveRequest, RejectRequest, CreatePlannedRun, ApprovePlan, UpdateTask
<1>2. task' = task \/ task' # "in_progress"
  <2>1. \A q \in Requests : TaskAfterStart(req[q].task) \in { "queued", "planned", task }
    BY DEF TaskAfterStart
  <2> QED
    BY <2>1
    DEF OrderlyRuns, UserStep, RecoverStaleRun, CheckStart, StartTaskRun, RetryRun, ReplayRun,
        CopyRun, CancelRun, CheckResume, CheckApproval, CheckRejection, CheckPlan, ResumeRun,
        ApproveRequest, RejectRequest, CreatePlannedRun, ApprovePlan, UpdateTask
<1> QED BY <1>1, <1>2 DEF TaskIsWorkedOn, WorksOnTask

\* What the state machine allows from "in_progress" is what the ends of a run ask for.
LEMMA InProgressMovesOn ==
  \A next \in { "blocked", "failed", "completed", "needs_review", "planned" } :
    IsValidTransition("in_progress", next)
  BY DEF IsValidTransition, TASK_TRANSITIONS, TaskStatus

LEMMA ReceiveMovesTask ==
  ASSUME TypeOK, TaskIsWorkedOn, NEW w \in Workers, NEW r \in Runs, ReceiveRun(w, r)
  PROVE  TaskIsWorkedOn'
<1>1. CASE Claim(w, r)
  <2>1. sess[w].pc = "idle" /\ sess'[w].pc = "claimed"
    BY <1>1 DEF Claim, Deliver, IdleSession, TypeOK
  <2>2. \A v \in Workers \ {w} : sess'[v] = sess[v]
    BY <1>1 DEF Claim, TypeOK
  <2>3. task' = task \/ task' = "planned"
    BY <1>1 DEF Claim
  <2> QED BY <2>1, <2>2, <2>3, SessionMovesTask DEF WorksOnTask
<1>2. CASE IgnoreDelivery(w, r) \/ AbortClaim(w, r)
  BY <1>2 DEF IgnoreDelivery, AbortClaim, TaskIsWorkedOn, WorksOnTask
<1> QED BY <1>1, <1>2 DEF ReceiveRun

LEMMA BodyMovesTask ==
  ASSUME TypeOK, TaskIsWorkedOn, NEW w \in Workers,
         \/ StartTask(w) \/ HandOffReview(w) \/ RequestApproval(w)
         \/ \E current \in BOOLEAN : MarkStep(w, current)
         \/ \E next \in TaskStatus : ReviewVerdict(w, next)
         \/ \E outcome \in {"failed", "blocked"} : BodyRaises(w, outcome)
  PROVE  TaskIsWorkedOn'
<1>1. sess \in [Workers -> Session] /\ sess[w] \in Session
  BY DEF TypeOK
<1>2. ASSUME NEW outcome, Raise(w, outcome), task' = task,
             sess[w].pc \in { "working", "reviewed" }
      PROVE  TaskIsWorkedOn'
  BY <1>1, <1>2, SessionMovesTask DEF Raise, WorksOnTask, Session
<1>3. CASE StartTask(w)
  BY <1>1, <1>3, SessionMovesTask DEF StartTask, WorksOnTask, Session
<1>4. CASE HandOffReview(w)
  BY <1>1, <1>4, SessionMovesTask DEF HandOffReview, WorksOnTask, Session
<1>5. CASE RequestApproval(w)
  BY <1>2, <1>5 DEF RequestApproval
<1>6. ASSUME NEW current \in BOOLEAN, MarkStep(w, current) PROVE TaskIsWorkedOn'
  BY <1>1, <1>6, SessionMovesTask DEF MarkStep, WorksOnTask, Session
<1>7. ASSUME NEW outcome \in {"failed", "blocked"}, BodyRaises(w, outcome) PROVE TaskIsWorkedOn'
  BY <1>2, <1>7 DEF BodyRaises
<1>8. ASSUME NEW next \in TaskStatus, ReviewVerdict(w, next) PROVE TaskIsWorkedOn'
  <2>1. CASE ~IsValidTransition(sess[w].task, next)
    BY <1>2, <1>8, <2>1 DEF ReviewVerdict
  <2>2. CASE IsValidTransition(sess[w].task, next)
    <3>1. next # "in_progress" /\ (sess[w].task = "in_progress" => task' = next)
      BY <1>8, <2>2 DEF ReviewVerdict, TransitionTask
    <3>2. task' = task \/ task' = next
      BY <1>8, <2>2 DEF ReviewVerdict, TransitionTask
    <3>3. /\ \A v \in Workers \ {w} : sess'[v] = sess[v]
          /\ sess'[w].pc \in { "handling", "reviewed" }
      <4> DEFINE blocks == next = "planned" /\ mode[sess[w].run] = "manager_worker"
      <4>1. sess' = [sess EXCEPT ![w].pc = IF blocks THEN "handling" ELSE "reviewed",
                                 ![w].task = next,
                                 ![w].outcome = IF blocks THEN "blocked" ELSE @,
                                 ![w].dirty = blocks]
        BY <1>8, <2>2 DEF ReviewVerdict
      <4> HIDE DEF blocks
      <4> QED BY <1>1, <4>1 DEF Session
    <3>4. task' \in { task } \/ task' # "in_progress" \/ WorksOnTask(w)'
      BY <3>1, <3>2
    <3>5. WorksOnTask(w) => WorksOnTask(w)' \/ task' # "in_progress"
      BY <3>1 DEF WorksOnTask
    <3> QED BY <3>3, <3>4, <3>5, SessionMovesTask
  <2> QED BY <2>1, <2>2
<1> QED BY <1>3, <1>4, <1>5, <1>6, <1>7, <1>8

LEMMA EndMovesTask ==
  ASSUME OrderlyRuns, TypeOK, SessionOutcome, RunInHand, TaskIsWorkedOn, NEW w \in Workers,
         \/ \E next \in TaskStatus : CompleteWithTask(w, next)
         \/ CompleteWithoutTask(w) \/ EmitCompleted(w) \/ EmitConflict(w)
         \/ PublishFails(w) \/ FinishRun(w)
         \/ MarkInterruptedStep(w) \/ SettleTask(w) \/ SoftTimeLimit(w)
  PROVE  TaskIsWorkedOn'
<1>1. sess \in [Workers -> Session] /\ sess[w] \in Session
  BY DEF TypeOK
<1>2. ASSUME NEW next \in TaskStatus, CompleteWithTask(w, next) PROVE TaskIsWorkedOn'
  <2>1. next \in { "needs_review", "completed" } /\ sess[w].pc \in { "working", "reviewed" }
    BY <1>2 DEF CompleteWithTask, TaskAfterCompletion, BodyDone
  <2>2. CASE IsValidTransition(sess[w].task, next)
    <3>1. task' = next /\ sess'[w].task = next /\ \A v \in Workers \ {w} : sess'[v] = sess[v]
      BY <1>1, <1>2, <2>2 DEF CompleteWithTask, Session
    <3> QED BY <2>1, <3>1, SessionMovesTask DEF WorksOnTask
  <2>3. CASE ~IsValidTransition(sess[w].task, next)
    <3>1. sess[w].task # "in_progress"
      BY <2>1, <2>3, InProgressMovesOn
    <3>2. /\ task' = task /\ sess'[w].pc = "handling"
          /\ \A v \in Workers \ {w} : sess'[v] = sess[v]
      <4>1. /\ sess' = [sess EXCEPT ![w].pc = "handling", ![w].outcome = "failed",
                                    ![w].step = FALSE, ![w].dirty = TRUE]
            /\ task' = task
        BY <1>2, <2>3 DEF CompleteWithTask
      <4> QED BY <1>1, <4>1 DEF Session
    <3>3. ~WorksOnTask(w) /\ task' \in { task }
      BY <3>1, <3>2 DEF WorksOnTask
    <3>4. sess'[w].pc \notin { "closing", "publishing" }
      BY <3>2
    <3> QED BY <3>2, <3>3, <3>4, SessionMovesTask
  <2> QED BY <2>2, <2>3
<1>3. CASE CompleteWithoutTask(w)
  <2>1. mode[sess[w].run] # "brainstorm"
    BY <1>3 DEF CompleteWithoutTask, BodyDone, RunInHand, OrderlyRuns, TypeOK
  <2>2. sess[w].task # "in_progress"
    <3>1. "completed" \notin TaskAfterCompletion(w)
      BY <1>3 DEF CompleteWithoutTask
    <3> QED BY <2>1, <3>1 DEF TaskAfterCompletion, SettledTaskStatuses
  <2>3. /\ task' = task /\ sess'[w].task = sess[w].task
        /\ \A v \in Workers \ {w} : sess'[v] = sess[v]
    BY <1>1, <1>3 DEF CompleteWithoutTask, Session
  <2> QED BY <2>2, <2>3, SessionMovesTask DEF WorksOnTask
<1>4. CASE EmitCompleted(w)
  <2>1. /\ task' = task /\ sess'[w].task = sess[w].task /\ sess[w].task # "in_progress"
        /\ \A v \in Workers \ {w} : sess'[v] = sess[v]
    BY <1>1, <1>4 DEF EmitCompleted, Session, TaskIsWorkedOn
  <2> QED BY <2>1, SessionMovesTask DEF WorksOnTask
<1>5. ASSUME Raise(w, "failed"), task' = task, sess[w].pc \in { "closing", "publishing" }
      PROVE  TaskIsWorkedOn'
  <2>1. /\ sess'[w].task = sess[w].task /\ sess[w].task # "in_progress"
        /\ \A v \in Workers \ {w} : sess'[v] = sess[v]
    BY <1>1, <1>5 DEF Raise, Session, TaskIsWorkedOn
  <2> QED BY <1>5, <2>1, SessionMovesTask DEF WorksOnTask
<1>6. CASE EmitConflict(w)
  <2>1. CASE IsValidTransition(sess[w].task, "blocked")
    <3>1. /\ task' = task \/ task' = "blocked"
          /\ sess[w].task # "in_progress" /\ sess'[w].task = "blocked"
          /\ \A v \in Workers \ {w} : sess'[v] = sess[v]
      BY <1>1, <1>6, <2>1 DEF EmitConflict, TransitionTask, Session, TaskIsWorkedOn
    <3> QED BY <3>1, SessionMovesTask DEF WorksOnTask
  <2>2. CASE ~IsValidTransition(sess[w].task, "blocked")
    BY <1>5, <1>6, <2>2 DEF EmitConflict
  <2> QED BY <2>1, <2>2
<1>7. CASE PublishFails(w)
  BY <1>5, <1>7 DEF PublishFails
<1>8. CASE FinishRun(w)
  <2>1. /\ task' = task /\ sess'[w].pc = "idle" /\ sess[w].pc = "publishing"
        /\ \A v \in Workers \ {w} : sess'[v] = sess[v]
    BY <1>1, <1>8 DEF FinishRun, IdleSession
  <2> QED BY <2>1, SessionMovesTask DEF WorksOnTask
<1>9. CASE MarkInterruptedStep(w)
  <2>1. /\ task' = task /\ sess'[w].pc = "settling" /\ sess'[w].task = sess[w].task
        /\ sess[w].pc = "handling"
        /\ \A v \in Workers \ {w} : sess'[v] = sess[v]
    BY <1>1, <1>9 DEF MarkInterruptedStep, Session
  <2> QED BY <2>1, SessionMovesTask DEF WorksOnTask
<1>10. CASE SettleTask(w)
  <2>1. /\ sess[w].outcome \in { "blocked", "failed" }
        /\ sess'[w].pc = "idle" /\ \A v \in Workers \ {w} : sess'[v] = sess[v]
    BY <1>1, <1>10 DEF SettleTask, IdleSession, SessionOutcome
  <2>2. task' = task \/ task' = sess[w].outcome
    BY <1>10 DEF SettleTask, TransitionTask
  <2>3. sess[w].task = "in_progress" => task' = sess[w].outcome
    BY <1>10, <2>1, InProgressMovesOn DEF SettleTask, TransitionTask
  <2> QED BY <2>1, <2>2, <2>3, SessionMovesTask DEF WorksOnTask
<1>11. CASE SoftTimeLimit(w)
  <2>1. /\ task' = task /\ sess'[w].pc = "idle" /\ sess[w].pc = "claimed"
        /\ \A v \in Workers \ {w} : sess'[v] = sess[v]
    BY <1>1, <1>11 DEF SoftTimeLimit, IdleSession
  <2> QED BY <2>1, SessionMovesTask DEF WorksOnTask
<1> QED BY <1>2, <1>3, <1>4, <1>6, <1>7, <1>8, <1>9, <1>10, <1>11

\* While the task says "in_progress" a worker is at work on it that will move it on; so the
\* task is not left there when all its runs have ended (execution.py, the completion and
\* the except clauses).
THEOREM TaskMovedOn ==
  ASSUME OrderlyRuns
  PROVE  Spec => [](TaskIsWorkedOn /\ TaskNotLeftInProgress)
<1> DEFINE Inv == TypeOK /\ SessionOutcome /\ RunInHand /\ TaskIsWorkedOn
<1>1. Init => Inv
  BY InitTypeOK DEF Init, SessionOutcome, IdleSession, RunInHand, TaskIsWorkedOn
<1>2. ASSUME Inv, [Next]_vars PROVE Inv'
  <2>1. TypeOK' /\ SessionOutcome' /\ RunInHand'
    BY <1>2, NextTypeOK, NextRunInHand
  <2>2. TaskIsWorkedOn'
    <3>1. CASE UserStep \/ \E r \in Runs : RecoverStaleRun(r)
      BY <1>2, <3>1, HandlersMoveTask
    <3>2. CASE \E w \in Workers, r \in Runs : ReceiveRun(w, r)
      BY <1>2, <3>2, ReceiveMovesTask
    <3>3. ASSUME NEW w \in Workers, ExecuteRun(w) PROVE TaskIsWorkedOn'
      BY <1>2, <3>3, BodyMovesTask, EndMovesTask DEF ExecuteRun, Proceed
    <3>4. CASE \E w \in Workers : Redeliver(w) \/ Crash(w)
      BY <1>2, <3>4 DEF Redeliver, Crash, OrderlyRuns, TaskIsWorkedOn, WorksOnTask
    <3>5. CASE UNCHANGED vars
      BY <1>2, <3>5 DEF vars, TaskIsWorkedOn, WorksOnTask
    <3> QED BY <1>2, <3>1, <3>2, <3>3, <3>4, <3>5 DEF Next
  <2> QED BY <2>1, <2>2
<1>3. Inv => TaskIsWorkedOn /\ TaskNotLeftInProgress
  BY DEF TaskIsWorkedOn, WorksOnTask, TaskNotLeftInProgress
<1> QED BY <1>1, <1>2, <1>3, PTL DEF Spec

==============================================================================
