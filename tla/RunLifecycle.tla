----------------------------- MODULE RunLifecycle -----------------------------
(***************************************************************************)
(* The durable life of the task runs of one orchestrator task.             *)
(*                                                                         *)
(* A run is a row of task_runs.  API handlers create, cancel, resume,      *)
(* retry and replay runs and decide the approvals a run waits for; Celery  *)
(* workers execute them.  The row is the only thing the two sides share:   *)
(* the queue delivers a run id at least once, a worker claims the row      *)
(* under SELECT ... FOR UPDATE, and from its first commit on it works with *)
(* the copy of run and task its own session loaded (the sessions are made  *)
(* with expire_on_commit=False and never refresh either row).  The API     *)
(* handlers that check the run's status do so without a lock, and write    *)
(* after more awaits.  Each action below ends at a commit, at a status     *)
(* check that a later commit relies on, or at the end of the session.      *)
(*                                                                         *)
(* All runs here belong to the same task: two tasks share no state that    *)
(* these handlers read or write.                                           *)
(***************************************************************************)
EXTENDS TaskTransitions, Naturals

CONSTANTS
  Runs,               \* ids the task's runs can take
  Workers,            \* Celery worker processes
  Requests,           \* API requests that can be in flight at a time
  NoRun,              \* the run of an idle worker or request
  Modes,              \* run_mode values that start_task_run is asked for
  ManualStatuses,     \* task statuses a user asks for in update_task
  Asks,               \* what people are asked to approve, a subset of AskKinds
  MaxDeliveries,      \* bound: copies of one run's message in the broker
  MaxPending,         \* bound: undecided approvals of one run
  Faults,             \* the faults that can happen, a subset of FaultKinds
  RecoveryRegistered  \* is there a task behind beat's "stale_in_progress_recovery"

\* A worker process is lost; the visibility timeout passes under a busy worker; the
\* API process dies before it sends a message; a check aborts a worker's claim.
FaultKinds == { "crash", "redelivery", "unsent", "abort" }

\* A tool call or a question of a body; the conflict of two results; the comment on a
\* finished task's issue; the plan of a planned run.
AskKinds == { "tool", "conflict", "comment", "plan" }

ASSUME ConstantsAssumption ==
  /\ NoRun \notin Runs
  /\ ManualStatuses \subseteq TaskStatus
  /\ Asks \subseteq AskKinds
  /\ MaxDeliveries \in Nat
  /\ MaxPending \in Nat
  /\ Faults \subseteq FaultKinds
  /\ RecoveryRegistered \in BOOLEAN

VARIABLES
  status,   \* task_runs.status, "absent" before the row exists
  step,     \* does the row's checkpoint have a (resumable) current step
  mode,     \* task_runs.run_mode
  task,     \* orchestrator_tasks.status
  pending,  \* approval_requests of the run that are still "pending"
  broker,   \* copies of the run's message that the queue may deliver
  sess,     \* what each worker's session is doing and what it remembers
  req,      \* API requests between their check of a run's status and their commit
  undelivered, \* history: the queued run's message was never sent, or was dropped
  ousted    \* history: a request wrote a run's status while a worker held it

vars == << status, step, mode, task, pending, broker, sess, req,
           undelivered, ousted >>

------------------------------------------------------------------------------
\* What the sessions and rows range over.

RunStatus == { "absent", "queued", "in_progress", "blocked", "awaiting_approval",
               "completed", "failed", "cancelled" }

\* Mutants: an active, or a cancelled, run is left out.
NonClaimableWithoutActive == { "completed", "cancelled", "awaiting_approval" }

NonClaimableWithoutCancelled == { "in_progress", "completed", "awaiting_approval" }

NON_CLAIMABLE_RUN_STATUSES == { "in_progress", "completed", "cancelled", "awaiting_approval" }

IsRunExecutionClaimable(s) == s \notin NON_CLAIMABLE_RUN_STATUSES

TerminalRunStatuses == { "completed", "failed", "cancelled" }

\* run_mode values whose body ends with a reviewer's verdict on the task.
Reviewing == { "review", "manager_worker" }

\* Task statuses that the end of a run leaves as they are.
SettledTaskStatuses == { "blocked", "approved", "completed", "needs_review" }

(***************************************************************************)
(* A worker's session.  pc: "claimed" after the claim's commit, "working"  *)
(* and "reviewed" inside the mode's body before and after the verdict,     *)
(* "closing" from run.status = "completed" to the completion event,        *)
(* "publishing" from there to the final commit, "handling" and "settling"  *)
(* inside the except clauses, before and after their first commit.  task   *)
(* and step are the session's copies; outcome is its run.status when it    *)
(* left "in_progress"; dirty says that no commit has written it yet.       *)
(***************************************************************************)
Session ==
  [ pc      : { "idle", "claimed", "working", "reviewed", "closing", "publishing",
                "handling", "settling" },
    run     : Runs \cup {NoRun},
    outcome : { "none", "completed", "blocked", "failed" },
    task    : TaskStatus,
    step    : BOOLEAN,
    dirty   : BOOLEAN ]

IdleSession ==
  [ pc |-> "idle", run |-> NoRun, outcome |-> "none", task |-> "backlog",
    step |-> FALSE, dirty |-> FALSE ]

\* The worker has claimed the run and has not yet given the row its outcome.
Holds(w, r) ==
  /\ sess[w].run = r
  /\ \/ sess[w].pc \in { "claimed", "working", "reviewed", "closing", "publishing" }
     \/ sess[w].dirty

Held(r) == \E w \in Workers : Holds(w, r)

Serves(w, r) == sess[w].run = r

\* A request that has found the run fit for what was asked of it, or that has
\* loaded the task it will start a run of.
Request ==
  [ kind : { "idle", "start", "resume", "approve", "reject", "plan" },
    run  : Runs \cup {NoRun},
    task : TaskStatus ]

IdleRequest == [ kind |-> "idle", run |-> NoRun, task |-> "backlog" ]

Init ==
  /\ status = [r \in Runs |-> "absent"]
  /\ step = [r \in Runs |-> FALSE]
  /\ mode = [r \in Runs |-> "none"]
  /\ task = "backlog"
  /\ pending = [r \in Runs |-> 0]
  /\ broker = [r \in Runs |-> 0]
  /\ sess = [w \in Workers |-> IdleSession]
  /\ req = [q \in Requests |-> IdleRequest]
  /\ undelivered = [r \in Runs |-> FALSE]
  /\ ousted = [r \in Runs |-> FALSE]

------------------------------------------------------------------------------
\* The queue.

(***************************************************************************)
(* submit_orchestration_run is called after the handler's last commit.  A  *)
(* process that dies in between leaves the row without a message.          *)
(***************************************************************************)
Submit(r) ==
  \/ /\ broker[r] < MaxDeliveries
     /\ broker' = [broker EXCEPT ![r] = @ + 1]
     /\ undelivered' = [undelivered EXCEPT ![r] = FALSE]
  \/ /\ "unsent" \in Faults
     /\ undelivered' = [undelivered EXCEPT ![r] = TRUE]
     /\ UNCHANGED broker

\* The visibility timeout passes while the worker still holds the message.
Redeliver(w) ==
  LET r == sess[w].run IN
  /\ "redelivery" \in Faults
  /\ sess[w].pc # "idle"
  /\ broker[r] < MaxDeliveries
  /\ broker' = [broker EXCEPT ![r] = @ + 1]
  /\ UNCHANGED << status, step, mode, task, pending, sess, req, undelivered, ousted >>

Deliver(w, r) ==
  /\ sess[w].pc = "idle"
  /\ broker[r] > 0
  /\ broker' = [broker EXCEPT ![r] = @ - 1]

------------------------------------------------------------------------------
\* API handlers.

\* retry_run and replay_run make a new row, and answer 409 unless the task may
\* be queued; a replay carries the old run's checkpoint over.
CopyRun(old, new, newStep) ==
  /\ status[old] # "absent"
  /\ status[new] = "absent"
  /\ IsValidTransition(task, "queued")
  /\ status' = [status EXCEPT ![new] = "queued"]
  /\ mode' = [mode EXCEPT ![new] = mode[old]]
  /\ step' = [step EXCEPT ![new] = newStep]
  /\ task' = "queued"
  /\ Submit(new)
  /\ UNCHANGED << pending, sess, req, ousted >>

RetryRun(old, new) == CopyRun(old, new, FALSE)

ReplayRun(old, new) == CopyRun(old, new, step[old])

\* No guard on the run's status: a completed run can be cancelled too.
CancelRun(r) ==
  /\ status[r] # "absent"
  /\ status' = [status EXCEPT ![r] = "cancelled"]
  /\ task' = IF task \in {"queued", "planned", "in_progress"} THEN "planned" ELSE task
  /\ undelivered' = [undelivered EXCEPT ![r] = FALSE]
  /\ UNCHANGED << step, mode, pending, broker, sess, req, ousted >>

RunIsResumable(r) == status[r] \in {"failed", "blocked"} /\ step[r]

(***************************************************************************)
(* resume_run and decide_approval read the run's status without a lock and *)
(* write it after further awaits.  A decision holds the lock of its        *)
(* approval row, which no other request can decide any more.               *)
(***************************************************************************)
Check(q, kind, r) ==
  /\ req[q] = IdleRequest
  /\ req' = [req EXCEPT ![q] = [IdleRequest EXCEPT !.kind = kind, !.run = r]]

\* Mutant: the decision forgets to look whether the approval is still pending.
DecideTwice(r) == pending' = [pending EXCEPT ![r] = @ - 1]

Decide(r) ==
  /\ pending[r] > 0
  /\ pending' = [pending EXCEPT ![r] = @ - 1]

CheckResume(q, r) ==
  /\ RunIsResumable(r)
  /\ Check(q, "resume", r)
  /\ UNCHANGED << status, step, mode, task, pending, broker, sess, undelivered, ousted >>

\* decide_approval, "approved": only a run that is already blocked is queued.
CheckApproval(q, r) ==
  /\ Decide(r)
  /\ IF status[r] = "blocked" THEN Check(q, "approve", r) ELSE UNCHANGED req
  /\ UNCHANGED << status, step, mode, task, broker, sess, undelivered, ousted >>

\* decide_approval, "rejected": every run that is not terminal is failed, the
\* one a worker is executing included.
CheckRejection(q, r) ==
  /\ Decide(r)
  /\ IF status[r] \notin TerminalRunStatuses
     THEN Check(q, "reject", r) /\ UNCHANGED task
     ELSE /\ task' = IF task \in {"blocked", "approved", "completed"} THEN "planned" ELSE task
          /\ UNCHANGED req
  /\ UNCHANGED << status, step, mode, broker, sess, undelivered, ousted >>

\* start_task_run loads the task first, then selects agents and checks budgets.
CheckStart(q) ==
  /\ req[q] = IdleRequest
  /\ req' = [req EXCEPT ![q] = [IdleRequest EXCEPT !.kind = "start", !.task = task]]
  /\ UNCHANGED << status, step, mode, task, pending, broker, sess, undelivered, ousted >>

\* The task of a new run: queued if the state machine allows it, a completed
\* task goes back to planned, any other task is left as it is.
TaskAfterStart(loaded) ==
  IF "queued" \in TASK_TRANSITIONS[loaded] THEN "queued"
  ELSE IF loaded = "completed" THEN "planned" ELSE task

StartTaskRun(q, r, m) ==
  /\ req[q].kind = "start"
  /\ status[r] = "absent"
  /\ status' = [status EXCEPT ![r] = "queued"]
  /\ mode' = [mode EXCEPT ![r] = m]
  /\ task' = TaskAfterStart(req[q].task)
  /\ req' = [req EXCEPT ![q] = IdleRequest]
  /\ Submit(r)
  /\ UNCHANGED << step, pending, sess, ousted >>

\* create_planned_run: the plan waits for its approval, nothing is sent to a worker.
CreatePlannedRun(r, m) ==
  /\ "plan" \in Asks
  /\ status[r] = "absent"
  /\ status' = [status EXCEPT ![r] = "awaiting_approval"]
  /\ mode' = [mode EXCEPT ![r] = m]
  /\ UNCHANGED << step, task, pending, broker, sess, req, undelivered, ousted >>

\* approve_plan loads the run to authorize the user; the locked read that follows finds
\* the row in the session and leaves the loaded copy as it is.
CheckPlan(q, r) ==
  /\ status[r] = "awaiting_approval"
  /\ Check(q, "plan", r)
  /\ UNCHANGED << status, step, mode, task, pending, broker, sess, undelivered, ousted >>

\* The checked request writes the run's status, whatever the row holds by now.
WriteStatus(q, kind, s) ==
  LET r == req[q].run IN
  /\ req[q].kind = kind
  /\ status' = [status EXCEPT ![r] = s]
  /\ ousted' = [ousted EXCEPT ![r] = @ \/ Held(r)]
  /\ req' = [req EXCEPT ![q] = IdleRequest]

\* Mutant: the resumed run is not submitted.
ResumeWithoutSubmit(q) ==
  /\ WriteStatus(q, "resume", "queued")
  /\ UNCHANGED << step, mode, task, pending, broker, sess, undelivered >>

ResumeRun(q) ==
  /\ WriteStatus(q, "resume", "queued")
  /\ Submit(req[q].run)
  /\ UNCHANGED << step, mode, task, pending, sess >>

\* Mutant: the approved run is not submitted.
ApproveWithoutSubmit(q) ==
  /\ WriteStatus(q, "approve", "queued")
  /\ task' = IF task = "blocked" THEN "planned" ELSE task
  /\ UNCHANGED << step, mode, pending, broker, sess, undelivered >>

ApproveRequest(q) ==
  /\ WriteStatus(q, "approve", "queued")
  /\ Submit(req[q].run)
  /\ task' = IF task = "blocked" THEN "planned" ELSE task
  /\ UNCHANGED << step, mode, pending, sess >>

RejectRequest(q) ==
  /\ WriteStatus(q, "reject", "failed")
  /\ task' = IF IsValidTransition(task, "planned") THEN "planned" ELSE task
  /\ undelivered' = [undelivered EXCEPT ![req[q].run] = FALSE]
  /\ UNCHANGED << step, mode, pending, broker, sess >>

\* Mutant: the approved plan is queued for a worker, and nothing is sent.
QueueThePlan(q) ==
  /\ WriteStatus(q, "plan", "queued")
  /\ UNCHANGED << step, mode, task, pending, broker, sess, undelivered >>

\* The rest of approve_plan is one transaction: every step is marked and completed, the
\* artifact written.
ApprovePlan(q) ==
  /\ WriteStatus(q, "plan", "completed")
  /\ step' = [step EXCEPT ![req[q].run] = FALSE]
  /\ UNCHANGED << mode, task, pending, broker, sess, undelivered >>

\* update_task with a status, and the other handlers that move a task by hand.
UpdateTask(s) ==
  /\ s # task
  /\ IsValidTransition(task, s)
  /\ task' = s
  /\ UNCHANGED << status, step, mode, pending, broker, sess, req, undelivered, ousted >>

\* Mutant: only runs without a checkpoint are recovered.
RecoverFreshRun(r) ==
  /\ RecoveryRegistered
  /\ status[r] = "in_progress"
  /\ ~step[r]
  /\ \A w \in Workers : ~Serves(w, r)
  /\ status' = [status EXCEPT ![r] = "failed"]
  /\ UNCHANGED << step, mode, task, pending, broker, sess, req, undelivered, ousted >>

\* Mutant: a run is recovered however young it is.
RecoverYoungRun(r) ==
  /\ RecoveryRegistered
  /\ status[r] = "in_progress"
  /\ status' = [status EXCEPT ![r] = "failed"]
  /\ UNCHANGED << step, mode, task, pending, broker, sess, req, undelivered, ousted >>

(***************************************************************************)
(* recover_stale_in_progress_runs.  The handler exists, but no Celery task *)
(* carries the name beat schedules, so as built nothing calls it           *)
(* (RecoveryRegistered = FALSE).  Its age limit is not below the hard time *)
(* limit of a task, so a run it picks has no worker any more.              *)
(***************************************************************************)
RecoverStaleRun(r) ==
  /\ RecoveryRegistered
  /\ status[r] = "in_progress"
  /\ \A w \in Workers : ~Serves(w, r)
  /\ status' = [status EXCEPT ![r] = "failed"]
  /\ UNCHANGED << step, mode, task, pending, broker, sess, req, undelivered, ousted >>

------------------------------------------------------------------------------
\* The worker: claiming a run.

\* get_run_for_worker to the first commit: one transaction under the row lock.
Claim(w, r) ==
  LET seen == IF task = "queued" THEN "planned" ELSE task IN
  /\ Deliver(w, r)
  /\ IsRunExecutionClaimable(status[r])
  /\ status' = [status EXCEPT ![r] = "in_progress"]
  /\ task' = seen
  /\ sess' = [sess EXCEPT ![w] = [IdleSession EXCEPT !.pc = "claimed", !.run = r,
                                                   !.task = seen, !.step = step[r]]]
  /\ undelivered' = [undelivered EXCEPT ![r] = FALSE]
  /\ ousted' = [ousted EXCEPT ![r] = @ /\ Held(r)]
  /\ UNCHANGED << step, mode, pending, req >>

IgnoreDelivery(w, r) ==
  /\ Deliver(w, r)
  /\ ~IsRunExecutionClaimable(status[r])
  /\ UNCHANGED << status, step, mode, task, pending, sess, req, undelivered, ousted >>

\* The owner or budget checks raise: the claim is rolled back, the message is
\* acknowledged all the same.
AbortClaim(w, r) ==
  /\ "abort" \in Faults
  /\ Deliver(w, r)
  /\ IsRunExecutionClaimable(status[r])
  /\ undelivered' = [undelivered EXCEPT ![r] = status[r] = "queued"]
  /\ UNCHANGED << status, step, mode, task, pending, sess, req, ousted >>

------------------------------------------------------------------------------
\* The worker: inside the try block.

\* A transition of the session's own copy; the row is written only if the copy
\* changes, whatever the row holds by now.
TransitionTask(w, next) ==
  task' = IF sess[w].task = next THEN task ELSE next

\* The commit that first carries the session's outcome writes it over the row.
CommitOutcome(w) ==
  status' = IF sess[w].dirty THEN [status EXCEPT ![sess[w].run] = sess[w].outcome]
            ELSE status

\* An exception reaches one of execute_run's except clauses.
Raise(w, outcome) ==
  sess' = [sess EXCEPT ![w].pc = "handling", ![w].outcome = outcome, ![w].dirty = TRUE]

StartTask(w) ==
  LET starts == sess[w].task \in {"planned", "blocked"} IN
  /\ sess[w].pc = "claimed"
  /\ task' = IF starts THEN "in_progress" ELSE task
  /\ sess' = [sess EXCEPT ![w].pc = "working",
                         ![w].task = IF starts THEN "in_progress" ELSE @]
  /\ UNCHANGED << status, step, mode, pending, broker, req, undelivered, ousted >>

\* _mark_run_step "in_progress" and "completed".
MarkStep(w, current) ==
  /\ sess[w].pc \in {"working", "reviewed"}
  /\ sess[w].step # current
  /\ step' = [step EXCEPT ![sess[w].run] = current]
  /\ sess' = [sess EXCEPT ![w].step = current]
  /\ UNCHANGED << status, mode, task, pending, broker, req, undelivered, ousted >>

\* The reviewer's verdict: "approved", or "planned" when rework is requested. A
\* transition the state machine refuses (409) fails the run. After a
\* manager-worker rework the body raises BlockedExecution.
ReviewVerdict(w, next) ==
  /\ sess[w].pc = "working"
  /\ mode[sess[w].run] \in Reviewing
  /\ next \in {"approved", "planned"}
  /\ IF ~IsValidTransition(sess[w].task, next)
     THEN Raise(w, "failed") /\ UNCHANGED task
     ELSE /\ TransitionTask(w, next)
          /\ LET blocks == next = "planned" /\ mode[sess[w].run] = "manager_worker" IN
             sess' = [sess EXCEPT ![w].pc = IF blocks THEN "handling" ELSE "reviewed",
                                  ![w].task = next,
                                  ![w].outcome = IF blocks THEN "blocked" ELSE @,
                                  ![w].dirty = blocks]
  /\ UNCHANGED << status, step, mode, pending, broker, req, undelivered, ousted >>

\* A review run hands the task to the next reviewer of the chain.
HandOffReview(w) ==
  /\ sess[w].pc = "working"
  /\ mode[sess[w].run] = "review"
  /\ sess' = [sess EXCEPT ![w].pc = "reviewed"]
  /\ UNCHANGED << status, step, mode, task, pending, broker, req, undelivered, ousted >>

\* The body raises: any exception, the soft time limit, or BlockedExecution.
BodyRaises(w, outcome) ==
  /\ sess[w].pc \in {"working", "reviewed"}
  /\ outcome \in {"failed", "blocked"}
  /\ Raise(w, outcome)
  /\ UNCHANGED << status, step, mode, task, pending, broker, req, undelivered, ousted >>

\* An approval is requested and committed, then BlockedExecution is raised.
RequestApproval(w) ==
  LET r == sess[w].run IN
  /\ "tool" \in Asks
  /\ sess[w].pc = "working"
  /\ pending[r] < MaxPending
  /\ pending' = [pending EXCEPT ![r] = @ + 1]
  /\ Raise(w, "blocked")
  /\ UNCHANGED << status, step, mode, task, broker, req, undelivered, ousted >>

------------------------------------------------------------------------------
\* The worker: completing the run.

BodyDone(w) ==
  \/ sess[w].pc = "reviewed"
  \/ sess[w].pc = "working" /\ mode[sess[w].run] \notin Reviewing

\* The statuses the end of the run may move the session's copy of the task to
\* ("needs_review" when the task has a reviewer).
TaskAfterCompletion(w) ==
  IF mode[sess[w].run] = "brainstorm" THEN {}
  ELSE IF sess[w].task \notin SettledTaskStatuses THEN {"needs_review", "completed"}
  ELSE IF mode[sess[w].run] = "manager_worker" /\ sess[w].task = "approved"
       THEN {"completed"} ELSE {}

\* run.status = "completed" and, in the same commit, the task's transition.
CompleteWithTask(w, next) ==
  LET r == sess[w].run IN
  /\ BodyDone(w)
  /\ next \in TaskAfterCompletion(w)
  /\ IF IsValidTransition(sess[w].task, next)
     THEN /\ status' = [status EXCEPT ![r] = "completed"]
          /\ step' = [step EXCEPT ![r] = FALSE]
          /\ task' = next
          /\ sess' = [sess EXCEPT ![w].pc = "closing", ![w].outcome = "completed",
                                 ![w].task = next, ![w].step = FALSE]
     ELSE /\ sess' = [sess EXCEPT ![w].pc = "handling", ![w].outcome = "failed",
                                 ![w].step = FALSE, ![w].dirty = TRUE]
          /\ UNCHANGED << status, step, task >>
  /\ UNCHANGED << mode, pending, broker, req, undelivered, ousted >>

\* The task is left alone: nothing is committed before the completion event.
CompleteWithoutTask(w) ==
  /\ BodyDone(w)
  /\ TaskAfterCompletion(w) = {}
  /\ sess' = [sess EXCEPT ![w].pc = "closing", ![w].outcome = "completed",
                         ![w].step = FALSE, ![w].dirty = TRUE]
  /\ UNCHANGED << status, step, mode, task, pending, broker, req, undelivered, ousted >>

\* The completion event is committed.
EmitCompleted(w) ==
  /\ sess[w].pc = "closing"
  /\ CommitOutcome(w)
  /\ step' = [step EXCEPT ![sess[w].run] = FALSE]
  /\ sess' = [sess EXCEPT ![w].pc = "publishing", ![w].dirty = FALSE]
  /\ UNCHANGED << mode, task, pending, broker, req, undelivered, ousted >>

(***************************************************************************)
(* _detect_and_log_task_output_conflict: another completed run of the task *)
(* contradicts this one.  An approval is created and the task is blocked.  *)
(* When the state machine refuses that, the 409 fails the run, and the     *)
(* approval, not committed yet, is left out: SettleTask is refused too.    *)
(***************************************************************************)
EmitConflict(w) ==
  LET r == sess[w].run IN
  /\ "conflict" \in Asks
  /\ sess[w].pc = "closing"
  /\ mode[r] # "brainstorm"
  /\ pending[r] < MaxPending
  /\ \E other \in Runs \ {r} : status[other] = "completed"
  /\ IF IsValidTransition(sess[w].task, "blocked")
     THEN /\ CommitOutcome(w)
          /\ TransitionTask(w, "blocked")
          /\ step' = [step EXCEPT ![r] = FALSE]
          /\ pending' = [pending EXCEPT ![r] = @ + 1]
          /\ sess' = [sess EXCEPT ![w].pc = "publishing", ![w].task = "blocked",
                                 ![w].dirty = FALSE]
     ELSE Raise(w, "failed") /\ UNCHANGED << status, task, step, pending >>
  /\ UNCHANGED << mode, broker, req, undelivered, ousted >>

\* A task linked to an issue gets a comment to approve.
ProposeComment(w) ==
  LET r == sess[w].run IN
  \/ UNCHANGED pending
  \/ "comment" \in Asks /\ pending[r] < MaxPending /\ pending' = [pending EXCEPT ![r] = @ + 1]

\* A stage after the completion event raises, before or after the final commit.
PublishFails(w) ==
  /\ sess[w].pc = "publishing"
  /\ Raise(w, "failed")
  /\ ProposeComment(w)
  /\ UNCHANGED << status, step, mode, task, broker, req, undelivered, ousted >>

\* The final commit.
FinishRun(w) ==
  /\ sess[w].pc = "publishing"
  /\ ProposeComment(w)
  /\ sess' = [sess EXCEPT ![w] = IdleSession]
  /\ UNCHANGED << status, step, mode, task, broker, req, undelivered, ousted >>

------------------------------------------------------------------------------
\* The worker: the except clauses of execute_run.

\* A current step is marked with the outcome, and that commit carries run.status.
MarkInterruptedStep(w) ==
  /\ sess[w].pc = "handling"
  /\ sess[w].step
  /\ CommitOutcome(w)
  /\ step' = [step EXCEPT ![sess[w].run] = TRUE]
  /\ sess' = [sess EXCEPT ![w].pc = "settling", ![w].dirty = FALSE]
  /\ UNCHANGED << mode, task, pending, broker, req, undelivered, ousted >>

\* Mutant: a failing run leaves the task to its user.
SettleBlockedTaskOnly(w) ==
  LET outcome == sess[w].outcome IN
  /\ sess[w].pc = "settling" \/ (sess[w].pc = "handling" /\ ~sess[w].step)
  /\ CommitOutcome(w)
  /\ IF outcome = "failed" THEN UNCHANGED task ELSE TransitionTask(w, outcome)
  /\ sess' = [sess EXCEPT ![w] = IdleSession]
  /\ UNCHANGED << step, mode, pending, broker, req, undelivered, ousted >>

(***************************************************************************)
(* The task follows the run to "blocked" or "failed" (a failing run leaves *)
(* a blocked task alone) and the outcome is committed.  When the state     *)
(* machine refuses the transition, the 409 leaves execute_run: the session *)
(* is closed and what it had not committed is lost, run.status included.   *)
(***************************************************************************)
SettleTask(w) ==
  LET outcome == sess[w].outcome
      leaves  == outcome = "failed" /\ sess[w].task = "blocked"
  IN
  /\ sess[w].pc = "settling" \/ (sess[w].pc = "handling" /\ ~sess[w].step)
  /\ \/ /\ leaves \/ IsValidTransition(sess[w].task, outcome)
        /\ CommitOutcome(w)
        /\ IF leaves THEN UNCHANGED task ELSE TransitionTask(w, outcome)
     \/ /\ ~leaves /\ ~IsValidTransition(sess[w].task, outcome)
        /\ UNCHANGED << status, task >>
  /\ sess' = [sess EXCEPT ![w] = IdleSession]
  /\ UNCHANGED << step, mode, pending, broker, req, undelivered, ousted >>

------------------------------------------------------------------------------
\* The worker: losing the process.

\* The soft time limit before the try block: execute in workers/orchestration.py
\* fails the run and leaves the task alone.
SoftTimeLimit(w) ==
  /\ sess[w].pc = "claimed"
  /\ status' = [status EXCEPT ![sess[w].run] = "failed"]
  /\ sess' = [sess EXCEPT ![w] = IdleSession]
  /\ UNCHANGED << step, mode, task, pending, broker, req, undelivered, ousted >>

\* The process is lost, or an error leaves execute_run, with the transaction it was
\* in. A lost worker's message goes back to the queue (acks_late and
\* reject_on_worker_lost), a transient error submits it again; the hard time limit
\* and any other error acknowledge it.
Crash(w) ==
  LET r == sess[w].run IN
  /\ "crash" \in Faults
  /\ sess[w].pc # "idle"
  /\ sess' = [sess EXCEPT ![w] = IdleSession]
  /\ \/ UNCHANGED broker
     \/ broker[r] < MaxDeliveries /\ broker' = [broker EXCEPT ![r] = @ + 1]
  /\ UNCHANGED << status, step, mode, task, pending, req, undelivered, ousted >>

------------------------------------------------------------------------------

UserStep ==
  \/ \E r \in Runs :
       \/ \E q \in Requests, m \in Modes : StartTaskRun(q, r, m)
       \/ \E new \in Runs : RetryRun(r, new) \/ ReplayRun(r, new)
       \/ \E m \in Modes : CreatePlannedRun(r, m)
       \/ CancelRun(r)
       \/ \E q \in Requests :
            CheckResume(q, r) \/ CheckApproval(q, r) \/ CheckRejection(q, r) \/ CheckPlan(q, r)
  \/ \E q \in Requests :
       CheckStart(q) \/ ResumeRun(q) \/ ApproveRequest(q) \/ RejectRequest(q) \/ ApprovePlan(q)
  \/ \E s \in ManualStatuses : UpdateTask(s)

\* What an idle worker does with a message of the run.
ReceiveRun(w, r) == Claim(w, r) \/ IgnoreDelivery(w, r) \/ AbortClaim(w, r)

\* What a worker does with the run it has claimed.
Proceed(w) ==
  \/ StartTask(w)
  \/ \E next \in TaskStatus : ReviewVerdict(w, next) \/ CompleteWithTask(w, next)
  \/ HandOffReview(w)
  \/ \E outcome \in {"failed", "blocked"} : BodyRaises(w, outcome)
  \/ RequestApproval(w)
  \/ CompleteWithoutTask(w)
  \/ EmitCompleted(w)
  \/ EmitConflict(w)
  \/ PublishFails(w)
  \/ FinishRun(w)
  \/ MarkInterruptedStep(w)
  \/ SettleTask(w)
  \/ SoftTimeLimit(w)

ExecuteRun(w) == Proceed(w) \/ \E current \in BOOLEAN : MarkStep(w, current)

Next ==
  \/ UserStep
  \/ \E r \in Runs : RecoverStaleRun(r)
  \/ \E w \in Workers :
       \/ \E r \in Runs : ReceiveRun(w, r)
       \/ ExecuteRun(w)
       \/ Redeliver(w)
       \/ Crash(w)

Spec == Init /\ [][Next]_vars

(***************************************************************************)
(* Every stage of a body but the marking of a step is bounded by the soft  *)
(* time limit, so a worker that is not lost gets on with its run.  The     *)
(* queue hands out messages in order, so one run's message is not passed   *)
(* over for ever by workers that become idle again and again.  Beat's      *)
(* timer fires for ever.  Users, crashes and redeliveries are not fair.    *)
(***************************************************************************)
FairSpec ==
  /\ Spec
  /\ \A w \in Workers : WF_vars(Proceed(w))
  /\ \A r \in Runs : SF_vars(\E w \in Workers : ReceiveRun(w, r))
  /\ \A r \in Runs : WF_vars(RecoverStaleRun(r))

------------------------------------------------------------------------------
\* Properties.

\* Every variable stays in its range; the histories and the bounds included.
TypeOK ==
  /\ status \in [Runs -> RunStatus]
  /\ step \in [Runs -> BOOLEAN]
  /\ mode \in [Runs -> Modes \cup {"none"}]
  /\ task \in TaskStatus
  /\ pending \in [Runs -> 0..MaxPending]
  /\ broker \in [Runs -> 0..MaxDeliveries]
  /\ sess \in [Workers -> Session]
  /\ req \in [Requests -> Request]
  /\ undelivered \in [Runs -> BOOLEAN]
  /\ ousted \in [Runs -> BOOLEAN]

\* The claim of execute_run keeps every other worker out: until a request has
\* written over the row, a held run's status is one that no delivery can claim.
ClaimIsRespected ==
  \A w \in Workers, r \in Runs :
    Holds(w, r) /\ ~ousted[r] => status[r] \in { "in_progress", "completed", "cancelled" }

\* Duplicate deliveries, redeliveries after a crash, resumes, cancellations and
\* stale recovery never put two workers on one run.  Only a request that checked
\* the run's status earlier and commits while a worker holds it can.
ExclusiveUnlessOusted ==
  \A v, w \in Workers, r \in Runs :
    v # w /\ Holds(v, r) /\ Holds(w, r) => ousted[r]

\* A session that has left the body knows the outcome it is about to write, and
\* only one that is closing or handling has it uncommitted.
SessionOutcome ==
  \A w \in Workers :
    /\ sess[w].pc = "closing" => sess[w].outcome = "completed"
    /\ sess[w].pc \in { "handling", "settling" } => sess[w].outcome \in { "blocked", "failed" }
    /\ sess[w].dirty => sess[w].pc \in { "closing", "handling" }

\* The inductive invariant behind the exclusion of execute_run's claim: the row's
\* status, the sessions that hold the run and the outcomes they carry agree.
ClaimInvariant == TypeOK /\ SessionOutcome /\ ClaimIsRespected /\ ExclusiveUnlessOusted

\* The stated purpose of is_run_execution_claimable: no delivery starts a run
\* that is already active, so no two workers ever execute the same run.
ExclusiveExecution ==
  \A v, w \in Workers, r \in Runs : Holds(v, r) /\ Holds(w, r) => v = w

\* No lost wake-up in the queue: a run that start, retry, replay, resume or an
\* approval has queued has a message, unless the API process died before sending
\* it or the owner or budget check of a worker dropped it.
QueuedRunIsDeliverable ==
  \A r \in Runs : status[r] = "queued" /\ ~undelivered[r] => broker[r] > 0

\* A run that nobody holds and that no checked request is about to write is at
\* rest once it is completed or cancelled: late messages, recovery and the
\* task's other runs leave it alone; only cancel_run may still mark it.
TerminalRunIsAtRest ==
  [][\A r \in Runs :
       /\ status[r] \in { "completed", "cancelled" }
       /\ ~Held(r)
       /\ \A q \in Requests : req[q].run # r
       => status'[r] \in { status[r], "cancelled" }]_vars

\* Where no worker is lost ("crash" not in Faults) and no run is a brainstorm, the
\* task is not left "in_progress" when all its runs have ended: the last session,
\* or the cancellation, has moved it on.
TaskNotLeftInProgress ==
  (\A w \in Workers : sess[w].pc = "idle")
    /\ (\A r \in Runs : status[r] \in TerminalRunStatuses \cup { "absent" })
  => task # "in_progress"

\* The domain state machine has no move from "completed" to "in_progress", and
\* every session checks it: a completed task is never put back to work without
\* going through "planned".
CompletedTaskIsNotRestarted == [][~(task = "completed" /\ task' = "in_progress")]_vars

\* recover_stale_in_progress_runs: a run whose worker is gone does not stay
\* "in_progress" for ever.
StuckRunReleased ==
  \A r \in Runs : (status[r] = "in_progress") ~> (status[r] # "in_progress")

\* A queued run whose message was sent is claimed or cancelled in the end.
QueuedRunStarts ==
  \A r \in Runs : (status[r] = "queued" /\ ~undelivered[r])
                     ~> (status[r] # "queued" \/ undelivered[r])

==============================================================================
