# TLA+ models of troop's durable execution

`troop` is a multi-agent orchestration service: users give tasks to agents, the
agents' work is a *run*, Celery workers execute runs, and what an agent may do to
the outside world waits for a human approval.  This directory holds TLA+ models of
that core, TLC configurations that check them on small instances, and TLAPS proofs
of the properties that matter for every instance.

Contents: [files](#files) · [inventory](#inventory) · [task
runs](#the-model-of-task-runs) · [approved effects](#the-model-of-an-approved-effect) ·
[workflow runs](#the-model-of-a-workflow-run) · [gated
runs](#the-model-of-a-run-that-meets-people) · [mail
inbox](#the-model-of-the-mail-inbox) · [runs and bounds](#runs-and-bounds) ·
[fairness](#fairness) · [findings](#findings) · [proofs](#proofs) · [not
modelled](#what-is-not-modelled) · [plan](#plan)

Paths below are relative to `backend/` unless they start with `src/`.

## Files

| file | what it is |
|------|------------|
| `TaskTransitions.tla` | the domain state machine of a task (`modules/workforce/constants.py`, `policies.py`) |
| `RunLifecycle.tla` | the runs of one task: API handlers, queue, workers, faults |
| `ApprovedEffect.tla` | abstract: what the approval of an external effect promises |
| `ExternalEffect.tla` | one approved effect through any connector: decision, resume, claim, call, receipt; implements `ApprovedEffect` |
| `WorkflowPromise.tla` | abstract: what a workflow run promises of all it commits |
| `WorkflowRuntime.tla` | one run of a workflow graph and the sessions that advance it; implements `WorkflowPromise` |
| `Approvers.tla` | who may decide an approval: roles, routing, fallback, delegation |
| `GatedRun.tla` | a manager-worker or single-agent run whose tool calls need grants; uses `Approvers` |
| `MailInbox.tla` | one mailbox: notifications, webhook, events, history, the runs that messages start |
| `MC*.tla` | values of constants for TLC: symmetry sets, connectors, graphs, plans, people |
| `RunLifecycleProofs.tla`, `ExternalEffectProofs.tla`, `WorkflowRuntimeProofs.tla`, `WorkflowJoinProofs.tla`, `WorkflowWakeProofs.tla`, `WorkflowPromiseProofs.tla`, `GatedRunProofs.tla`, `MailInboxProofs.tla` | theorems, checked by TLAPS |
| `*.cfg` | one configuration per run of `PROJECT.json` |
| `PROJECT.json` | components, runs, mutants, the map from definitions to source lines, findings, hazards, theorems |

`tlc -config RunExclusive.cfg MCRunLifecycle` runs a configuration, `tlapm
RunLifecycleProofs.tla` checks the proofs.

How the modules meet: a task run (`RunLifecycle`) is executed by a worker.  What it does
inside its body when it meets people is `GatedRun`, which takes from `RunLifecycle` that
one worker has the run at a time.  A workflow (`WorkflowRuntime`) starts task runs as the
children of its agent nodes and is woken by their end; there a child is just active,
completed or failed (cancelled runs are failed to their parent), and moves between these as
`RunLifecycle` lets it: an ended run can be queued again or cancelled.  An approved
tool node of a workflow is one step of `WorkflowRuntime`; `ExternalEffect` opens that step
and looks at everything between the approval and the provider's answer.  `MailInbox` ends
where `WorkflowRuntime` begins: its `Start` is the other's `StartRun`.

## Inventory

| component | state it keeps | operations | interacts with | what is hard | what makes it correct |
|---|---|---|---|---|---|
| **Task run lifecycle** `orchestration/execution/run_lifecycle/` | `task_runs` rows: status, mode, checkpoint (steps, current step, signals) | start, cancel, resume, retry, replay, execute, recover stale | queue (messages), tasks, approvals, workflow hooks | handlers check without locks; a worker's session keeps the copies it loaded; many small commits | one worker per run; no forgotten run; ended runs stay ended; the task follows its runs |
| **Task state machine** `workforce/constants.py`, `policies.py` | `orchestrator_tasks.status` | `_transition_task_status`, manual updates | every handler above | checked on a stale copy | only legal moves |
| **Run queue, Celery workers** `durable_execution.py`, `workers/` | Redis queue, beat schedule | submit, deliver, redeliver, time limits | all of the above | at-least-once delivery, lost workers, visibility timeout | every queued run is started in the end |
| **Approvals** `approvals_service.py`, `execution/hitl/` | `approval_requests`: status, expiry, delegations, SLA state, consumed grants | request, decide, delegate, expire, warn and escalate, consume | runs (resume, fail), effects, workflow hooks | decision racing the run that asks, expiry, two consumers of one grant | decided once; a decision reaches the run that waits for it; a grant is used once |
| **Commit authorization, exact effects** `hitl/commit_authorization.py`, `exact_effect.py` | `external_action_executions` by idempotency key | authorize and claim, mark sending / succeeded / failed / stale / unknown | approvals, every connector | crash or error between the provider's answer and the commit | at most one effect per approval, and only the approved one |
| **Connectors** `workforce/integrations/`, `github/service.py` | tokens, drafts, subscriptions, sync events | exactly-once sends, webhooks, polls | commit authorization, workflow runtime | ambiguous outcomes, duplicate webhooks | as above; an event is handled once |
| **Connector events** `workforce/integrations/events.py`, `workers/integrations.py` | `trigger_subscriptions`: status, cursor; `external_events`: one row a notification, one a message | publish, disable, disconnect, renew; webhooks; process an event, retry | provider (notifications, history), queue, workflow runtime | several events for one message; cursors written by sessions that read long ago; the row commits before its task is sent | no message is lost behind a cursor; a message is not taken for handled without a run; an event keeps its task |
| **Workflow runtime, hooks** `workforce/services/workflow_runtime.py`, `workflow_hooks.py` | `workflow_runs` (cursor, context), child executions | start, advance, pause, fork, join, loop, delay, resume, cancel | task runs, approvals, timers | several resumers of one paused run, hooks after the commit | every node at most once per visit; a paused run is resumed when what it waits for has happened |
| **Distributed lock** `core/distributed_lock.py` | a Redis key with a token and a TTL | acquire, release | singleton jobs | a holder that outlives its lease | release never frees another's lease |
| **Manager-worker, parallel groups** `manager_worker/`, `parallel_group.py` | child runs, branch results in the checkpoint | plan, run branches, escalate, review | runs, approvals | resuming after a blocked branch | dependencies respected, results in order, progress after a resume |
| **Planned runs** `orchestration/services/planned_runs.py` | a run `awaiting_approval` with a plan | create, approve, cancel | runs | the check after the lock reads the copy from before it | a plan is executed once |
| **Brainstorms, routing, evaluations** `services/` | rounds, provider health, failover budget | loops over model calls | runs | long sequential bodies, limits | bounded rounds and attempts |
| **Memory** `modules/memory/` | entries, ingest jobs, embeddings | ingest, expire, compact, promote | singleton jobs | retried jobs | a job is done or dead |
| projects, companies, calendar, team, users, settings, platform, notifications, audit, observability, ai, identity, frontend, infra, migrations | rows | CRUD, reports, permission checks | – | nothing concurrent of their own | – |

The hazards of this code, each at its line and with the properties that would catch
it, are listed in `PROJECT.json`.

## The model of task runs

`RunLifecycle` models all runs of **one task**.  The database rows are `status`,
`step`, `mode`, `task`, `pending`; the queue is `broker` (copies of a run's message
it may still deliver); `sess` is what each worker's session is doing and remembers;
`req` holds the API requests that have checked something and not yet written it.
`undelivered` and `ousted` are histories that only properties read.

How it corresponds to the code:

* **Grain.**  An action ends at a commit, at a status check a later commit relies
  on, or at the end of a session.  `_transition_task_status` and `_emit_run_event`
  commit on their own, so what looks like one update in `execute_run` is several
  actions here (`StartTask`, `CompleteWithTask`, `EmitCompleted`, ...).  Between
  two commits nothing another process can see changes.
* **Sessions keep their copies.**  The sessions have `expire_on_commit=False` and
  never refresh run or task, so a worker decides by `sess[w].task`, not by the row;
  `run.status = ...` is written by the commit that comes next (`dirty`,
  `CommitOutcome`) over whatever the row holds by then.  A column is written only if
  it changes in the session: `TransitionTask` leaves the row alone when the copy
  already has the value.
* **The claim** (`Claim`, `IgnoreDelivery`, `AbortClaim`) is one transaction under
  `SELECT ... FOR UPDATE`.  From its commit on the row is unlocked.
* **API handlers.**  `start_task_run`, `resume_run` and `decide_approval` read
  without a lock and write later: each is a *check* action and a *write* action.  A
  request that fails between the two has changed nothing, so it is left out.
  `cancel_run`, `retry_run`, `replay_run` read the task right before they write it
  and are one action each, as is `update_task`.
* **Planned runs** (`CreatePlannedRun`, `CheckPlan`, `ApprovePlan`) wait for the approval of
  their plan and are completed by it in one transaction, without a worker.
  `approve_plan` locks the row after its session has loaded it, so the status it checks
  is the one from before the lock: a check and a write like the others.
* `Asks` restricts what people are asked to approve in an instance: a tool call, the
  conflict of two results, a comment, a plan.
* **Modes.**  The body of a mode is `MarkStep`, `RequestApproval`, a verdict
  (`ReviewVerdict`, `HandOffReview`) and `BodyRaises` in any order the code allows;
  what it computes is abstracted.  `"debate"` behaves like `"single_agent"`.
* **Faults** are chosen by the constant `Faults`: `"crash"` (the process is lost, or
  an error leaves `execute_run`; with or without the message coming back),
  `"redelivery"` (the visibility timeout passes under a busy worker), `"unsent"`
  (the API process dies between commit and submission), `"abort"` (a check rolls
  the claim back and the message is acknowledged).
* `RecoveryRegistered` says whether a task stands behind beat's
  `stale_in_progress_recovery` entry.  In the repository none does.

## The model of an approved effect

`ExternalEffect` models one effect on an external system, from the pending approval to the
provider's answer, through one connector (`connector`, a record of what connectors differ
in: does it send a draft kept at the provider, does it claim an execution row, does the
code after a successful call succeed, does a missing draft count as sent, is the call part
of `decide_approval`).  The connectors of the repository are the records `Gmail` ...
`GithubComment`.

* **Rows**: `approval` and `execution` by version of the effect (an edit of a mail is a new
  version with a new approval), `consumed`, `pending` and `run` of the workflow run.
  `lock` is the row lock that a session's first flush takes.  `draft`, `thread` and
  `recorded` are the mailbox and what the database holds of it.
* **Transactions.**  What a session flushes under the lock stays in `sess[s]` until it
  commits (`CommitReceipt`, `CommitFailure`, `CommitDecision`); `RollBack` drops it.
  `CommitHalfDone` is a decision taken in a chat: the hook swallows the exception and the
  handler commits half the work.
* **Steps.**  `Load` reads run and approval without a lock; `Execute` waits for the row and
  claims (`Claim` is `authorize_and_claim_execution`); `Reconcile`, `CheckDraft` and
  `Prepare` lead to the `"sending"` mark; `CallSucceeds`, `CallFails`, `CallFindsNoDraft`,
  `CallRaises` are the provider's answers; the edits and updates of drafts and the
  mailbox's owner act in between.
* **Abstract specification.**  `ApprovedEffect` knows versions that are granted, how often
  each was performed, and how many of these calls no session could record; an effect is
  performed only under a grant, and again only after every earlier outcome was lost.
  `ExternalEffect` implements it (`KeepsPromise`) with `granted` mapped to the versions
  that are approved or in a session's hands, for the connectors that claim a row.  The
  calendar connectors claim none, and break it (finding 4).
* The hash over an effect's arguments is abstracted to the version it is of.  `Load` asks for
  the approval's hash to be that of the pending tool's parameters (`HashAgrees`).  It is so of
  the first version only: an edit stores parameters with a `body_text` beside the `body`
  (`approval_edit.py:64-69`, `:133`), and hashes the canonical effect, which has none
  (`exact_effect.py:214`).

What the model shows of the code beside its properties: once the body of a mail has been
edited, the replacement can be approved, but no session can consume it
(`workflow_runtime.py:729-731`); the hook swallows the error and the run waits for ever.  So
all that is performed is the unedited version, and an edit's effect on the rest is that it
withdraws the approval, rewrites the draft, and races with the sessions that hold the version
before it.

## The model of a workflow run

`WorkflowRuntime` models one run of a workflow version.  A version (`graph`) is data: the
kinds of the nodes, the edges by the last condition, a join policy and what a rejection
does.  `row` is the committed row of `workflow_runs`; `child`, `childRow`, `approval` and
`timer` are the rows and messages the run makes; `hook` holds the ends of children, with their status, for which
`on_task_run_terminal` has yet to be called.

* A run has no process.  `StartRun`, `UserResumes`, `ChildHook`, `DecisionHook` and
  `TimerFires` let a session read the row without a lock (`sess[s].base`), and that session
  advances node by node on its own copies.  The first flush takes `lock`; a session that
  goes on from a row that has changed since it read it sets `raced`.
* `Fits` is what `resume_run` asks for at the node the run waits at.  What the node does not
  ask for is ignored: an approval brought to another node stays unconsumed (`Loaded`).
* An action is one node, or one branch of a parallel node.  `start_task_run` commits on
  its own, so an agent node is two actions: `StartChild` commits the parent as `"running"`
  and submits the child, `NoteChild` writes where the child belongs.  A successful tool
  commits on the way too (`ToolCommits`).
* `Join` is `_evaluate_parallel_join`, with the five policies and the two that end a visit
  before its last branch; `BranchOf` is the refresh of a branch from its child's row.
* **Branches** by kind: `StartBranch`, `NoteBranch` and `RefreshBranch` are agents,
  `DelayBranch` delays, `RefuseBranch` the kinds that are no branches (they fail at once).
  `SimpleBranch`, `CommittingBranch` and `ToolBranch` are the simple types (`SimpleKind`): the executor's
  result for a failure has a third member, which is taken for a pause
  (`workflow_runtime.py:1271`, `:1310`, `:1700`).  So a branch that fails, like one that asks
  for an approval, is recorded as `"paused"`, and `SkipBranch` passes it on every later visit:
  a `fail_fast`, `all_success` or `n_of_m` join that needs it waits for ever.
* **Children** end (`ChildEnds`, by their worker or a cancellation; `ChildFailsUnsaid`, by what
  calls no hook) and move again (`ChildResumed`, or `ChildEnds` once more).  `done` is the
  history of a child that has completed once, for a parent may have gone on from it before
  the child was cancelled or queued again.  A hook is called with the status that its caller
  wrote, and the session it wakes goes on seeing that status (`saw`, `Seen`): it is the
  session that wrote it.
* `SessionLost` drops a session, or leaves what it had flushed for its worker to commit.
* **Abstract specification.**  `WorkflowPromise` knows no sessions, locks, cursors or joins,
  only what outlives them: which nodes the run has got past, which it was given a task run or
  an approval for, how these ended, and whether the run is open.  Progress is never taken
  back, each node passed had its cause, a node has one task run, an approval is spent only
  once it was given, an ended run does nothing more.  `WorkflowRuntime` implements it
  (`KeepsPromise`): `passed` is the committed row's completed nodes, `started` and `done` are
  the nodes of the children and of those that have completed once, whatever has become of them
  since, `approved`, `spent` and `rejected` come from the approvals, and `void` is `raced`,
  after which nothing is promised.

## The model of a run that meets people

`GatedRun` models one task run from the view of the people it waits for; `Approvers` says
who they are.  A plan (`plan`) is data: branches in order, their dependencies, which may
run in parallel, the cap, who is capable, the tool calls of each branch with the gates in
front of them, and whether a reviewer is asked.

* `Claim`, `Dispatch`, `StartBranch`, `Report`, `EndOfBranches` are the dispatcher's rounds:
  ready parallel branches up to the cap, ready sequential ones, the overflow.  Results are
  checkpointed once, by `EndOfBranches`; a run blocked before that starts its branches
  again, and one blocked after it never does.
* `PassGate`, `AskAtGate`, `ForbidTool`, `PerformTool`, `ToolFails`, `AskForPolicy`,
  `RefuseAgain` are `_execute_one_tool_call`.  A grant is consumed in a commit of its own
  before the tool is called; a request is committed before the run is blocked (`Block`),
  and a decision between the two finds nothing to queue (`late`).
* `EscalateBranch` and `RaiseEscalated` ask about the blocked branches at every resume;
  `Approve`, `RequestRework`, `Complete` are synthesis and review.
* `DecideApproved`, `DecideRejected`, `DelegateApproval`, `EscalateApproval`, `ResumeRun`
  and `LeaveWorkspace` are people.  Who may decide is resolved anew at every use
  (`MayDecide`), as the code does; the snapshot stored on a request is only shown.
* One worker at a time has the run (how several compete for it is `RunLifecycle`'s
  matter), and the child runs of a branch are represented by the last one.

## The model of the mail inbox

`MailInbox` models one connected mailbox, Gmail's or Outlook's (`provider`), from the
provider's notification of a message to the workflow run started for it.  Messages are
numbered as they arrive, and a number is a history id too.

* **Rows**: `installation`, `subscription` and `cursor` by workflow trigger, `event` (one
  row for each subscription and notification) and `child` (one row for each message, that is to
  carry its run's id; `"processed"` when it has it).  `runs` counts the workflow runs of a
  message.  `queue` holds, by event, the attempts of its Celery task.
* **Subscriptions.**  `Register` and `Publish` are the two ends of the request that
  publishes a workflow: the provider sends from the first, the row is seen from the second.
  `RenewAsk` and `RenewCommit` are the renewal scan, which asks the provider for each
  subscription and commits once; a Gmail watch answers with a history id, which becomes the
  cursor.  `Disable` and `Disconnect` are users.
* **Webhook.**  `Deliver` reads the subscriptions, `Ingest` commits an event,
  `IngestDuplicate` is the unique key's refusal, `Accept` submits the tasks and answers.
  The rollback after a duplicate expires the objects of the session, and what the request
  then reads of them raises.
* **Workers.**  `Claim` locks the event's row until the session's next commit and loads the
  subscription's cursor; `List` is the history request; `Look`, `Fetch`, `Start` handle one
  message: its row, its text and an insertion, `start_run`, which commits.  The run's id is
  put on the message's row after that, and written by the commit that comes next
  (`Committed`).  `Finish` writes cursor and outcome.
* **Errors.**  The except clause of `process` commits whatever the session holds
  (`Failed`).  Errors that the connectors raise as their own are retried (`ProviderFails`,
  `Retry`).  Others are not: a call without an answer, which no client turns into such an error
  (`TransportFails`; `gmail.py:358`, `outlook.py:363`), a workflow that does not start
  (`StartRefused`), and a duplicate key on a message's row, which leaves a session that can commit
  nothing, the except clause's `failed` neither (`FetchConflict`).  They end the task, and
  nothing takes the event again: it is `stranded`.
* `Disturbances` is what may happen besides: lost workers, refused and unanswered calls, an expired cursor, a
  revoked token, workflows that do not start, lost requests, second deliveries and
  notifications, renewals, users.
* It is assumed that the provider's answers carry a history id, and that history is listed
  in the order of the ids.

What the model shows of the code beside its properties: a message can start two runs (a
worker that finds the message's row without its run's id starts another: two workers with
two notifications of Gmail, or a worker lost between `start_run`'s commit and the next
one), where `docs/EMAIL_TELEGRAM_INTEGRATIONS.md:60` has "Duplicate Pub/Sub notifications,
callbacks, and Celery retries are expected and handled by database uniqueness/single-use
checks".  The message's row is keyed by the installation, so of two workflows subscribed to one
mailbox a message starts one only.  A notification repeated for two subscriptions ends in an
error, after which new events have no task (`IngestDuplicate`); nothing looks for events
that have lost theirs.  A renewal, and a page of more than 100 records, move the cursor over
messages that nobody has read (`skipped`).

## Runs and bounds

| run | instance | checks | distinct states |
|---|---|---|---|
| `RunExclusive` | 1 run (planned or not), 2 workers, 2 requests, modes `manager_worker` and `brainstorm`, crashes, redeliveries, aborted claims, recovery on | `TypeOK`, `ClaimIsRespected`, `ExclusiveUnlessOusted`, `QueuedRunIsDeliverable`, `TerminalRunIsAtRest` | 2.1 million |
| `RunsOfOneTask` | 2 runs, 2 workers, 1 request, two modes, a user who cancels the task, conflicts, comments and plans to approve, unsent messages, aborted claims | `QueuedRunIsDeliverable`, `TaskNotLeftInProgress` | 1.6 million |
| `RunLiveness` | 1 run, 1 worker, all four modes, all faults, recovery on, `FairSpec` | `StuckRunReleased`, `QueuedRunStarts` | 73 thousand |
| `EffectPromise` | 9 claiming connectors, 3 sessions, 2 versions, 3 calls of each, all faults | `TypeOK`, `RunAwaitsCurrentVersion`, `SentAsApproved`, `SucceededWasPerformed`, `DoneIsOnRecord`, `OutcomeIsFinal`, `KeepsPromise` | 24 thousand |
| `WorkflowAdvance` | 16 graphs of 4 nodes, 2 sessions, 2 children, 2 approvals, 1 disturbance, all faults, `FairSpec` | `TypeOK`, `OneChildPerNode`, `PassedWithCause`, `JoinedWithCause`, `RunningHasSession`, `NoLostWakeUp`, `EndIsFinal`, `KeepsPromise`, `ChildrenWakeRun` | 393 thousand |
| `GatedRun` | 7 plans of 2 branches, 3 users, 3 approvals, errors and a member who leaves, `FairSpec` | `TypeOK`, `SomebodyCanDecide`, `PerformedWasGranted`, `DependenciesFirst`, `BlockedForReason`, `CompletedMeansDone`, `RunSettles` | 483 thousand |
| `MailInbox` | 2 subscriptions, 2 messages, 1 webhook request, 2 workers, pages of 1, 1 retry, 1 disturbance of 12 kinds, either provider | `TypeOK`, `CursorBehindRuns`, `ProcessedIsHandled`, `OneWorkerPerEvent`, `InsertedStartsFirst`, `NoEventForgotten` | 2.5 million |
| `RecoveryUnregistered` | 1 run, 1 worker, crashes, recovery as built, `FairSpec` | `StuckRunReleased`, violated | – |
| `RejectedWhileHeld` | 1 run, 2 workers, 1 request, no faults | `ExclusiveExecution`, violated | – |
| `TaskRestarted` | 2 runs, 2 workers, no faults | `CompletedTaskIsNotRestarted`, violated | – |
| `EffectRepeated` | the 2 calendar connectors, 2 sessions, no faults | `ApprovalActsOnce`, violated | – |
| `GrantForAnother` | 2 branches that call the same tool, no faults | `GrantMatchesAction`, violated | – |

What the properties say:

* `ClaimIsRespected`, `ExclusiveUnlessOusted` – the claim protocol works against
  everything the queue can do: no combination of duplicate deliveries, redeliveries,
  crashes, cancellations and recovery puts two workers on one run.  The one way
  left is a request that checked the run's status earlier and writes it while a
  worker holds the run (`ousted`); `ExclusiveExecution` is the promise without that
  exception, and fails.
* `QueuedRunIsDeliverable` – no lost wake-up: whoever writes `"queued"` also sends a
  message, and a message is consumed only together with the `"queued"` it stands
  for.  The two exceptions the code has are the histories of `undelivered`.
* `TerminalRunIsAtRest` – late messages, other runs, recovery and stale requests
  leave a completed or cancelled run alone once no session holds it.
* `TaskNotLeftInProgress` – when all runs of a task have ended and no worker was
  lost, the task is not left in progress.  A run of mode `brainstorm` does leave it
  there (its end skips the task), so the runs that check this have other modes.
* `StuckRunReleased`, `QueuedRunStarts` – with recovery registered, every
  `in_progress` run leaves that status and every sent run is claimed or cancelled.
* `KeepsPromise` of `EffectPromise`, `OutcomeIsFinal` – the protocol around the execution row: no crash,
  ambiguous answer, retry or second session makes an effect happen twice unless the
  first outcome was lost with its session, and an outcome on record is never revised.
* `SentAsApproved` – mail goes out as a draft that others can rewrite: what is sent is the
  approved text unless the draft was rewritten in a way the record does not show.
* `SucceededWasPerformed`, `DoneIsOnRecord`, `RunAwaitsCurrentVersion` – what users see
  (the row, the run, the approval on display) agrees with what happened.
* `OneChildPerNode`, `PassedWithCause`, `JoinedWithCause` – however often the run is
  paused, woken, lost and resumed, each agent node has one task run, and the run gets past
  a node only for the reason the node has.  The exceptions are the history `raced` (a second
  resumer of one paused run; in `OneChildPerNode` only) and, in the other two, a rejection
  that routes the run on.  That rejection need not be of the node the run waits at: a fork joined without its tool
  branch leaves that branch's approval open, and `on_approval_decided` applies its later
  rejection to whatever the run is waiting for (`workflow_hooks.py:143-149`).  One of the
  graphs (`Leftover`) gets there; tied to the node, the property would fail on it.
* `RunningHasSession` – nothing resumes a workflow run that says `"running"`; it has a
  session unless one was lost (`stranded`).  `EndIsFinal` – no hook, timer, decision or late
  commit moves a run that has ended.
* `KeepsPromise` of `WorkflowAdvance` – a run is advanced by many sessions, each from the copy
  it read, and each may be rolled back to the row or committed half-way; all that shows of
  them in the database is what `WorkflowPromise` allows.
* `NoLostWakeUp` – a child may end before its parent has noted it, while a session is passing
  its branch, or between that session's look at the branch and its commit.  Whenever the run
  is paused and would no longer pause, the end of a child it has noted is still on its way to
  it: its hook is to come, is known to have missed the run, or has woken a session that has
  yet to go on from the row.
* `ChildrenWakeRun` – the end of the awaited children wakes the run, unless a hook came
  before the parent was paused or was lost (`missed`).
* `SomebodyCanDecide`, `BlockedForReason` – a blocked run has somebody who can unblock it
  (other than a run whose decision came before it was blocked, `late`: that one waits for a
  user who resumes it);
  `RunSettles` – the worker comes to an end with every plan, cycles included.
* `PerformedWasGranted` – a gated tool acts at most once per approval of its call;
  `GrantMatchesAction`, the same for the exact branch, fails (finding 5).
* `DependenciesFirst`, `CompletedMeansDone` – branches run after what they depend on, and
  a completed run has all its results.

* `CursorBehindRuns` – workers that list one mailbox at different moments write one cursor
  in any order, so it may go back; it never goes past a message without a run, other than
  those in `skipped`.
* `ProcessedIsHandled`, `InsertedStartsFirst` – the message's row, in whatever state a failure
  or another worker left it, is not mistaken for a handled message; only one worker inserts
  it, and that one starts the message's first run.
* `OneWorkerPerEvent`, `NoEventForgotten` – the claim of an event against redelivery, retry
  and crash; and the complete list of the ways in which an event loses its task
  (`stranded`).

Bounds: `MaxDeliveries = 1` copy of a message in the broker at a time (a second
delivery of one run comes from a redelivery or a new submission while a worker is
busy, so duplicates do happen); `MaxPending = 1` open approval per run.
`RunExclusive` has two requests between check and write, so that two resumes, or a
resume and a decision, can both pass the check; its two modes end in every way a
body can (with a verdict, with and without a commit of the task).  `review`'s
hand-over and `single_agent` are in the other runs.  The runs with two runs of the
task have one such request: what they look at is the task's row, which a checked
request writes no differently than the atomic handlers do.  Two runs and two workers
are what the stale-copy hazards need: each takes one session that loads, and another
that writes in between.  A second run adds nothing to exclusion, which is per run.  A submission
whose message does not fit the bound is disabled, not lost.

`EffectPromise`: two versions are one edit, after which the chain of versions repeats;
three sessions are a resumer, its rival and an editor; three calls of a version that take
effect are the first, a repetition and the one that would be a repetition too many.
`WorkflowAdvance`: four nodes hold a fork with two branches and a node after it, a loop, and
every kind of node next to the ones it can follow; two sessions are the two resumers of one
run; two children and two approvals let a node ask again.  One disturbance (`MaxDisturbances`:
a session lost, a hook lost or never called, an ended child that moves again) happens at any
point of any behaviour.  Two of them were checked with the same graphs, and one with two-agent
forks under the other three policies, for all properties but `ChildrenWakeRun` (2.3 million and
700 thousand states).  `GatedRun`: two branches are
enough for an order, a cap below the number of ready branches, a cycle, and two callers of
one tool;
three approvals let a run be blocked, granted and blocked again; the oldest request alone
is delegated and escalated, since requests do not interact.
`MailInbox`: two subscriptions and two messages are what two events for one message, a page
that is too short, and cursors that overtake each other need; two workers are the two that
meet at one row.  A page has 1 record for the code's 100 and a message of the queue 1 retry
for the code's 5.  One disturbance at any point of any behaviour; three of them were
checked with one message for redelivery, crash and failed calls together, and for
redelivery, refused workflows and disconnection together.  Tool approvals, and redeliveries
of runs, are in `RunExclusive` and `RunLiveness`, not in `RunsOfOneTask`.

Every property of a passing run is paired in `PROJECT.json` with a mutant of the
modelled code (an active run left claimable, a resume without a submission, a
decision that does not look at the approval's status, ...) under which TLC finds it
violated.

## Fairness

`FairSpec` assumes weak fairness of `Proceed(w)`: every stage of a worker's body is
bounded by the soft time limit, so a worker that is not lost gets on.  `MarkStep` is
outside it (a body may mark steps for ever and still be cut off).  It assumes strong
fairness of handing one run's message to some worker: the queue is served in order,
so a message is not passed over for ever by workers that become idle again and
again; weak fairness would not do, since they need not be idle continuously.  Beat's
timer fires for ever (weak fairness of `RecoverStaleRun`).  Users, crashes,
redeliveries and aborts are never fair.

`WorkflowRuntime` assumes weak fairness of the sessions' `AdvanceStep` together: while
sessions are at work, one of them goes on, for those that wait for the row lock wait for one
that does not; and strong fairness of the hook that the worker of an ended child calls, which
waits for a session that users take again and again.  In `GatedRun` the worker's step is
weakly fair: messages are delivered, and the worker that has the run goes on.  Errors of
models and tools are outside it.

## Findings

1. **Nothing recovers a stuck run** (`RecoveryUnregistered`).  `beat_schedule`
   (`workers/celery_app.py:139`) names `...stale_in_progress_recovery`; no Celery task
   has that name, `recover_stale_in_progress_runs` is only a method
   (`workers/orchestration.py:134`).  A run whose worker is lost after the claim
   stays `in_progress`: deliveries ignore it, `resume_run` refuses it.
2. **Two workers on one run** (`RejectedWhileHeld`).  A rejection fails a run that a
   worker still has in hand; the failed run can be resumed; its message is claimed by
   a second worker while the first is still in its except clause.
3. **A completed task is put back in progress** (`TaskRestarted`).  The state machine is
   checked on the session's copy of the task.
4. **An approved calendar event is created twice** (`EffectRepeated`).  `resume_run` reads
   the run and its approval without a lock and marks the approval consumed in its own copy;
   the calendar connectors claim no execution row, so a second session that has read the
   run before the first commits performs the effect again.
5. **A grant is used for another action** (`GrantForAnother`).  A grant matches by type, run,
   tool and position in the branch's own list.  Branches share the run's id: the first
   call of one branch consumes the grant given for the first call of another.

## Proofs

`RunLifecycleProofs` proves, for every number of runs, workers and requests, every
bound, every set of faults and either value of `RecoveryRegistered`:

* `TypeCorrect` – `Spec => []TypeOK`;
* `ClaimInvariantHolds`, `ClaimRespected`, `Exclusive` – the exclusion of the claim;
* `Deliverable` – `Spec => []QueuedRunIsDeliverable`;
* `TerminalAtRest` – `Spec => TerminalRunIsAtRest`;
* `TaskMovedOn` – `Spec => []TaskNotLeftInProgress`, where no worker is lost, no run is a
  brainstorm and nobody sets `in_progress` by hand (`OrderlyRuns`).

The only assumption of the others is `ConstantsAssumption` (`NoRun` is not a run, the bounds
are naturals, the statuses and faults are known ones).

*Exclusion.*  `ExclusiveUnlessOusted` alone is not inductive: nothing in it says why
a second worker's claim fails.  `ClaimIsRespected` supplies that – the row of a held
run has a status outside the claimable ones – and its own induction needs to know
which outcome a session is about to write: a session that stops holding its run
writes its outcome with that very commit, and one that goes on holding it
(`"closing"`) can only write `"completed"`, which is not claimable.  That is
`SessionOutcome`.  `ClaimInvariant` is the conjunction of the four.  Each lemma
treats one group of actions (`UserKeepsClaims`, `ReceiveKeepsClaims`,
`WorkerKeepsClaims`), with one step per action; `HandlerKeepsClaims` is the common
case of an action that touches no session and writes one row while recording it in
`ousted`.

*The task* is left `in_progress` by nobody because of what each session knows of it.  A
session writes the task's status from its own copy, and only if that copy has changed, so
"the row says `in_progress`" and "a session will move it on" have to be linked through the
copies: while the row says `in_progress`, some session has started the task and not yet
moved it on, and its copy says `in_progress` too; a session past that point has a copy that
does not (`TaskIsWorkedOn`).  A step of one session keeps this if the session takes its copy
with it (`SessionMovesTask`).  The assumption names the three ways in which the code does
leave a task there.

*Deliverability* needs `TypeOK` (the counters are numbers) and `SessionOutcome` (a
worker never writes `"queued"`).  *Terminal runs* needs `TypeOK` alone.

`ExternalEffectProofs` proves, for any set of the known connectors, sessions, versions,
bounds and faults:

* `TypeCorrect`, `AwaitsCurrentVersion`, and `OutcomeStays` – `Spec => OutcomeIsFinal`;
* `PromiseKept` – `Spec => Promise!Spec`, the refinement, assuming that every connector
  claims an execution row.

The inductive invariant `EffectInv` says of each session what its place implies
(`SessionInv`: who works on the rows holds their lock; the approval it works for stands; a
settled execution is only replayed; what the session knows of its own call is so), that the
versions form a chain of which `pending` is the current one (`CurrentVersion`), that a call
made inside the decision comes before any outcome (`OpenDecision`), and that every call that
took effect is lost, settled, has taken the draft with it, or is known to the session that
made it (`Accounted`).  `Accounted` is what the guard of the abstract `Perform` needs: a
session that reaches the call holds the lock, has found no outcome on record and, if it
sends a draft, the draft still there, so all earlier calls were lost.
Each action is shown to keep `EffectInv` and, under it, to be a step of `ApprovedEffect`
or a stutter (`ResumeRefines`, `CallRefines`, `EndRefines`, `OthersRefine`).

The second part of the module is about what users see of the effect: `SuccessIsReal` –
`Spec => []SucceededWasPerformed` –, `DoneIsTrue` – `Spec => []DoneIsOnRecord` – and
`ApprovedTextIsSent` – `Spec => []SentAsApproved`.  The rows follow what sessions hold, so
the invariant `RecordInv` says of each session's copy what the properties say of the rows
(`SessionRecord`): who holds "succeeded" stands for a call, who finishes the run has its
receipt on record, and who is about to send believes of the draft what is so – an edit by
anybody else takes that belief away (`Disturbed`).  `DoneInv` adds that a run that is done
waits for no decision: otherwise a later edit would give it a version without an effect.

`GatedRunProofs` proves, for any plans, branches, users, roles, bounds and faults:

* `TypeCorrect`, with the worker's own fields (`TypeInv`);
* `SomebodyIsEligible`, `DelegationMovesTheRight` – facts about `Approvers` alone: a request
  all of whose delegates may decide has somebody eligible, and who has delegated is
  eligible again only if the right was delegated back;
* `AlwaysDecidable` – `Spec => []SomebodyCanDecide`, by `DelegatesCanDecide` (every delegate
  on record has a role that decides while nobody has left);
* `BlockedRunsWait` – `Spec => []BlockedForReason`, by `WaitingInv`: a worker about to block
  for a decision has asked, and its request is pending unless `late` says otherwise;
* `PerformedOnlyWhenGranted` – `Spec => []PerformedWasGranted`, by `GrantedInv`: a worker past
  the gate has consumed one grant more than it has performed calls.

The second part of the module is about the plan: `BranchesInOrder` – `Spec => []DependenciesFirst` – and
`CompletedIsDone` – `Spec => []CompletedMeansDone` – from one invariant, `PlanInv`.  What the
branches of a round and the branches with a result depend on has completed, and is not in
the round (`RoundInv`): so the results that the round gives take nothing back, whatever the
order and the cap.  The worker's place says whose results it has (`PlaceInv`): nothing is on
the checkpoint until the rounds are over, afterwards it is what the worker goes by.  A
branch with a result is not at work, unless it is executed again after a block (`ChildInv`,
`CheckpointInv`).  Both need that a plan names a branch once, as `pending_by_id` does.

`MailInboxProofs` proves every property of the run, for any subscriptions, workers,
requests, page size, retries, numbers of messages and disturbances, of either provider:

* `TypeCorrect`, `EventWorkedOnce`, `FirstRunOnce`, `ProcessedHasRun`, `CursorLosesNothing`,
  `NoTaskLostOtherwise`, all from `Inductive` – `Spec => []IInv`.

`IInv` adds to the properties what each of them leans on.  `OneWorkerPerEvent` needs that a
worker between claim and outcome holds the row's lock or has committed `"processing"`
(`ClaimInv`).  `InsertedStartsFirst` needs that a message whose row is missing has no run
(`RowInv`), which with `noted` also says that a row with a run's id has one.
`CursorBehindRuns` is about what a worker writes at its end, so it needs what the worker
read at its beginning: all messages up to `from` are covered, and of the page it listed,
each is still to do or has a run (`ReadInv`); coverage is never undone (`Monotone`).
`ProcessedIsHandled` follows from the same two, for the event's message lies in the page or
was skipped.  `NoEventForgotten` needs that a session about to acknowledge has either
processed the event or recorded that it is stranded (`TaskInv`).  Underneath all of them,
no row, page or cursor is for a message that has not arrived (`Arrived`).

`WorkflowRuntimeProofs` proves, for any graphs, sessions, bounds and faults:

* `TypeCorrect`, `OnlyWithCause` – `Spec => []PassedWithCause`, `RunningIsRun` –
  `Spec => []RunningHasSession`, and `EndsForGood` – `Spec => EndIsFinal`;
* `OneTaskRun` – `Spec => []OneChildPerNode`, assuming that no branch of a parallel node is
  also the entry, the route or the end of an edge (`BranchesApart`).

All five follow from one inductive invariant, `Inv` (`Invariance`).  None of the properties
is inductive: the row's vars are written from a session's copy, which was read earlier, and
a commit may write one column of the row and keep another.  So `Inv` says of *records* what
the properties say of the row: every `vars`, the row's or a session's, knows only children
that exist at their nodes and has passed only nodes with a cause (`VarsInv`), and what is
true of a record stays true while children end and approvals are decided and consumed
(`RowKept`, `SessionKept`).  That part holds even among racing sessions, which is why
`OnlyWithCause` needs no exception for them; `SessionInv` adds what a session's place
implies, such as that the approval it brings is approved and of its node.  `Solo` is the
part that races end: at most one session advances the run, it has the row as it is, it
holds the lock or the row says `"running"`, the run has not ended, and its copy knows of
every child but the one it has yet to note.  `EndsForGood` and `OneTaskRun` are consequences
of `Solo`.  Each kind of step has a lemma (`SessionStep`, `FinishStep`, `CommitStep`,
`HopStep`, `BranchStep`, `WorldKeeps`), and each action is shown to be of its kind.

`WorkflowJoinProofs` proves `JoinedAsAsked` – `Spec => []JoinedWithCause` – for every join
policy and number of branches, without an exception for races. Its invariant, `Joins`, again
speaks of every copy of the vars: a branch that counts as succeeded has its completed child,
and a parallel node that was passed has the good branches its policy asks for (`JoinInv`).  A
simple branch that failed is paused in every copy, so it is never among them. Good branches
stay good, because a child that has completed once has done so whatever it does later
(`done`), and a later visit takes a branch back only when it has a child to show for it; so
the set of good branches only grows, and with it what `Joined` needs of it, its cardinality
included (`JoinedStays`, `JoinGrows`). That the code's own count, `_evaluate_parallel_join`,
concludes "succeeded" only on enough good branches is `JoinSucceeds`. `Inv` is used for
where a session is and what its place implies.  A rejection that is routed on is the one
exception, since the run it moves may wait at a parallel node.

`WorkflowWakeProofs` proves `NoWakeUpLost` – `Spec => []NoLostWakeUp`.  That the run waits and
need not is a fact about the row and the children; that somebody is on the way is one about
hooks and sessions.  `Wakes` ties the two together along the session's visit of a parallel
node.  A child is *tracked* if, should it have ended, its end is announced: a hook is to
come, has missed the run, or has woken a session that has not taken the row yet.  Every
branch that a visit has passed as still waiting is tracked (`Passed`), and so is a child that
is started and not noted (`Unnoted`); a visit that ends with a pause hands this on to the
row (`Settled`), which keeps the weaker `Awaited`: the woken session may by now be at work on
the row, and then it is the only one and starts its visit at the first branch
(`EnterWakes`).  A session that races breaks exactly this, hence the exception.

`WorkflowPromiseProofs` proves the refinement, `RunKeepsPromise` – `Spec => KeepsPromise` –,
for graphs with `BranchesApart`, which `Launch` needs to give a node one task run.
`WorkflowPromise` sees only commits, so the proof has to know of what is not yet committed
that committing it is a legal step.  The invariant `Progress` says so of the session at work:
what its copy spends, and what is consumed, is approved; and unless sessions have raced, the
session that advances the run is ahead of the row (`Ahead`): it has passed all the nodes that
the row has.  That what it has passed besides had its cause is part of `Inv`.  So whichever of
its flushes is committed, the row moves forwards.  A rollback leaves the row as it is, which
is a stutter.
Every kind of step that writes is described once by what it commits (`Commits`), with one
lemma for each – a step aside, onward, the end, a stop, a hop, the commit, the start – and the
lemma hands back the abstract step it makes: `PromiseAdvances`, `PromiseLaunches`,
`PromiseTaskEnds`, `PromiseDecides`.  A step that ends with `raced` is the abstract `Race`.

The assumptions are the named ones of the modules.

Only model-checked: all liveness properties (`StuckRunReleased`, `QueuedRunStarts`,
`ChildrenWakeRun`, `RunSettles`) and all counterexamples.  Liveness and `ENABLED` are outside
TLAPS.

## What is not modelled

* Of task runs: the cascade of a cancellation to child runs, the durable signal queue,
  the contents of checkpoints, budgets other than as a reason to abort a claim.
* `cancel_run`, `retry_run` and `replay_run` read the task's status and write it in
  one step; the window between the two is a few awaits wide in the code.  The stale
  scan's list-then-write is one step per run: its age limit is not below the hard
  time limit, so the runs it lists have no worker.
* What is modelled and has no property, because as built the code does not do better: a second
  approval of a plan executes it again (`planned_runs.py:164`, `ApprovePlan`); the conflict of
  two runs that the task's state machine refuses turns a completion into a failure
  (`approvals.py:62`, `EmitConflict`); an edited approval is not accepted
  (`approval_edit.py:133`, `HashAgrees`).
* Two tasks share nothing that these handlers read or write, so one is modelled.
* Of effects: read operations and OAuth of the connectors; the computation of the hash.
* Of workflow runs: subworkflow nodes and `on_workflow_run_completed`, the merge of the
  branches' outputs, test runs, the graph editor, nodes that are a branch and are also reached
  by an edge (`Vars` keeps one child of a node, the code one for either), and agent nodes
  without an agent, project or task, which succeed with a hand-off
  (`workflow_runtime.py:1085`), agent branches of a project without an owner, and delays of no
  seconds.  The child's
  `checkpoint_json` is written after its submission (`workflow_runtime.py:1028-1057`); what
  it holds is not modelled.
* Of gated runs: the permission check in front of the gates (`tool_execution.py:83`) and the
  planner's own blocks (`planner.py:112`), which both block a call of a branch, or the run,
  as a forbidden tool does (`ForbidTool`); several workers and lost ones (that is
  `RunLifecycle`), parallel groups of read-only tool calls, planning prompts, reminders and
  due dates of approvals.
* Of the inbox: publications that fail at the provider or are rolled back after the
  provider has registered them, the deletion of workflow runs (which clears the ids on
  message rows), an error in the advance of the new run after that has committed a child, the
  webhooks of Telegram, Slack and Teams, batches of Outlook's notifications (`events.py:195`
  takes a list; here a request has one), the delivery of approval requests to channels.
  There is no liveness property: the code does not promise that every message starts a run,
  and the behaviours above show that it need not.
* The Redis lease of the singleton jobs: the models let the scans they have run at any
  moment, which is what a lease that has run out allows.
* Components with status `not_modelled` in `PROJECT.json`, each with its reason there.

## Plan

1. **RunLifecycle** (+ `TaskTransitions`, proofs) – done.
2. **ExternalEffect** (+ `ApprovedEffect`, refinement, proofs) – done.
3. **WorkflowRuntime** (+ `WorkflowPromise`, refinement, proofs) – done but for subworkflows.
4. **Approvers, GatedRun** (+ proofs) – done but for parallel groups.
5. **MailInbox** (+ proofs) – done; the other webhooks, and the delivery of approval requests
   to channels, are next to it.
6. Signals, with the checkpoint, in `RunLifecycle`.
7. **RedisLease** – acquire, expire, release; singleton jobs.
8. Proofs: abstract specifications, and their refinement, for `RunLifecycle`, `GatedRun` and
   `MailInbox`, as `ApprovedEffect` and `WorkflowPromise` are for the other two.
