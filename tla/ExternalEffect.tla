---------------------------- MODULE ExternalEffect ----------------------------
(***************************************************************************)
(* One approved effect on an external system, from the pending approval to *)
(* the provider's answer.                                                  *)
(*                                                                         *)
(* A workflow waits at a tool node for an approval of the exact effect.    *)
(* Whoever resumes it (the hook of the decision, a user's request) reads   *)
(* the run without a lock, consumes the approval in its session, takes the *)
(* row lock with its first flush, claims a row of                          *)
(* external_action_executions, calls the provider, and commits only after  *)
(* the call: whatever ends the session before that takes consumption,      *)
(* claim and "sending" mark with it.  A decision taken in a chat goes on   *)
(* to commit after the hook swallowed an exception, half-way states and    *)
(* all.  Mail is kept as a draft at the provider, which edits of the       *)
(* approval, other runs and the mailbox's owner rewrite meanwhile.         *)
(*                                                                         *)
(* Each action below ends at a call to the provider, at a commit, or where *)
(* the session waits for the row lock.                                     *)
(***************************************************************************)
EXTENDS Naturals, FiniteSets

CONSTANTS
  Connectors,   \* the connectors an effect may go through, each one of KnownConnectors
  Sessions,     \* database sessions of the API and of workers
  Nobody,       \* the holder of a free row lock
  MaxVersions,  \* bound: versions of the effect, the first and its edits
  MaxCalls,     \* bound: calls of one version that take effect
  Faults        \* the faults that can happen, a subset of FaultKinds

\* A process is lost; a call ends in something else than the connector's own error
\* (a transport timeout); the decision comes from a chat; a provider performs a call
\* that it answers with an error; the mailbox's owner touches the draft.
FaultKinds == { "crash", "raise", "chat", "ambiguous", "owner" }

Version == 1 .. MaxVersions

Foreign == 0                  \* a text that no version of the effect has
Gone == MaxVersions + 1       \* the draft was sent or deleted

------------------------------------------------------------------------------
\* What connectors differ in.

Profile ==
  [ drafts     : BOOLEAN,   \* the effect sends a draft kept at the provider
    claims     : BOOLEAN,   \* the call is guarded by an execution row
    receipt    : BOOLEAN,   \* the code after a successful call succeeds
    goneIsSent : BOOLEAN,   \* a draft the call does not find counts as sent
    atDecision : BOOLEAN ]  \* the call is part of decide_approval's transaction

Gmail ==
  [ drafts |-> TRUE, claims |-> TRUE, receipt |-> TRUE, goneIsSent |-> FALSE,
    atDecision |-> FALSE ]

Outlook == [Gmail EXCEPT !.goneIsSent = TRUE]

\* mark_execution_succeeded is called with a keyword it does not take.
Slack == [Gmail EXCEPT !.drafts = FALSE, !.receipt = FALSE]
Teams == Slack
Jira == Slack
Linear == Slack
HubSpot == Slack
Salesforce == Slack

\* No claim: the adapter calls the provider and returns.
GoogleCalendar == [Gmail EXCEPT !.drafts = FALSE, !.claims = FALSE]
MicrosoftCalendar == GoogleCalendar

GithubComment == [Gmail EXCEPT !.drafts = FALSE, !.atDecision = TRUE]

KnownConnectors ==
  { Gmail, Outlook, Slack, Teams, Jira, Linear, HubSpot, Salesforce, GoogleCalendar,
    MicrosoftCalendar, GithubComment }

ASSUME ConstantsAssumption ==
  /\ Connectors \subseteq KnownConnectors
  /\ Nobody \notin Sessions
  /\ MaxVersions \in Nat \ {0}
  /\ MaxCalls \in Nat \ {0}
  /\ Faults \subseteq FaultKinds

------------------------------------------------------------------------------
VARIABLES
  connector,  \* the profile in use
  approval,   \* approval_requests.status of each version
  consumed,   \* versions whose approval carries _consumed_at
  expired,    \* versions whose expires_at has passed
  pending,    \* the version in the run's vars.pending_tool
  run,        \* workflow_runs.status: "running" is committed only by half-done work
  execution,  \* external_action_executions.status of each version
  draft,      \* the text of the draft at the provider
  recorded,   \* the text that draft_execution_metadata.content_hash is of
  thread,     \* has the mail thread kept its fingerprint
  lock,       \* the session that holds the rows of the run and its approval
  sess,       \* what each session is doing, with the rows it has not committed
  effects,    \* history: how often the provider has performed each version
  lost,       \* history: how many of these calls left no recorded outcome
  sent        \* history: what was sent under each approval

rows == << approval, consumed, pending, run, execution >>
mailbox == << draft, thread >>
history == << effects, lost, sent >>
vars == << connector, rows, expired, mailbox, recorded, lock, sess, history >>

ExecutionStatus ==
  { "absent", "claimed", "sending", "retryable_failure", "failed", "stale",
    "outcome_unknown", "succeeded" }

(***************************************************************************)
(* pc: "loaded" when the approval is consumed in the session's copy,       *)
(* "claimed" and "reconciled" before the checks, "sending" up to the call, *)
(* "succeeded", "failed" and "raising" after it, "finishing" between the   *)
(* commit of the receipt and that of the run.  exec is the execution's     *)
(* status in this transaction; called, that a call of this session took    *)
(* effect; matched, that the draft was the one on record when it was       *)
(* checked and nobody has touched it since.                                *)
(***************************************************************************)
Session ==
  [ pc      : { "idle", "loaded", "claimed", "reconciled", "sending", "succeeded",
                "failed", "raising", "finishing", "editing", "updating" },
    v       : Version,
    exec    : ExecutionStatus,
    called  : BOOLEAN,
    matched : BOOLEAN ]

IdleSession ==
  [ pc |-> "idle", v |-> 1, exec |-> "absent", called |-> FALSE, matched |-> TRUE ]

Init ==
  /\ connector \in Connectors
  /\ approval = [v \in Version |-> IF v = 1 THEN "pending" ELSE "absent"]
  /\ consumed = {}
  /\ expired = {}
  /\ pending = 1
  /\ run = "waiting"
  /\ execution = [v \in Version |-> "absent"]
  /\ draft = 1
  /\ recorded = 1
  /\ thread = "same"
  /\ lock = Nobody
  /\ sess = [s \in Sessions |-> IdleSession]
  /\ effects = [v \in Version |-> 0]
  /\ lost = [v \in Version |-> 0]
  /\ sent = {}

\* The session's next place, and there the status of its execution row.
Goes(s, pc, exec) == sess' = [sess EXCEPT ![s].pc = pc, ![s].exec = exec]

\* A rewritten draft is no longer the one that a session about to send has checked.
Disturbed(ss) ==
  [t \in Sessions |->
     IF ss[t].pc = "sending" THEN [ss[t] EXCEPT !.matched = FALSE] ELSE ss[t]]

------------------------------------------------------------------------------
\* The decision.

Approve(v) ==
  /\ ~connector.atDecision
  /\ approval[v] = "pending"
  /\ v \notin expired
  /\ lock = Nobody
  /\ approval' = [approval EXCEPT ![v] = "approved"]
  /\ UNCHANGED << connector, consumed, pending, run, execution, expired, mailbox,
                  recorded, lock, sess, history >>

DecideTooLate(v) ==
  /\ approval[v] = "pending"
  /\ v \in expired
  /\ lock = Nobody
  /\ approval' = [approval EXCEPT ![v] = "stale"]
  /\ UNCHANGED << connector, consumed, pending, run, execution, expired, mailbox,
                  recorded, lock, sess, history >>

Reject(v) ==
  /\ approval[v] = "pending"
  /\ v \notin expired
  /\ lock = Nobody
  /\ approval' = [approval EXCEPT ![v] = "rejected"]
  /\ UNCHANGED << connector, consumed, pending, run, execution, expired, mailbox,
                  recorded, lock, sess, history >>

\* The hook of a rejection fails the run (on_reject is "fail" by default).
RejectRun ==
  /\ run = "waiting"
  /\ approval[pending] = "rejected"
  /\ run' = "failed"
  /\ UNCHANGED << connector, approval, consumed, pending, execution, expired, mailbox,
                  recorded, lock, sess, history >>

------------------------------------------------------------------------------
\* Resuming the run, up to the call.

\* The hash on the approval is that of the pending tool's parameters.  An edit hashes the
\* canonical effect and leaves in the parameters a body_text that it does not have.
HashAgrees(v) == v = 1

\* resume_run finds the run waiting and consumes the approval, both in this session only.
Load(s) ==
  /\ ~connector.atDecision
  /\ sess[s].pc = "idle"
  /\ run = "waiting"
  /\ approval[pending] = "approved"
  /\ pending \notin consumed
  /\ HashAgrees(pending)
  /\ sess' = [sess EXCEPT ![s] = [IdleSession EXCEPT !.pc = "loaded", !.v = pending]]
  /\ UNCHANGED << connector, rows, expired, mailbox, recorded, lock, history >>

\* Mutant: the row of a settled attempt does not stop the claim.
ClaimSettled(s, v) ==
  \/ v \notin expired /\ execution[v] # "succeeded" /\ Goes(s, "claimed", "claimed")
  \/ v \notin expired /\ execution[v] = "succeeded" /\ Goes(s, "succeeded", "succeeded")
  \/ v \in expired /\ Goes(s, "failed", execution[v])

\* authorize_and_claim_execution: the approval must not have expired; a row of an
\* earlier attempt is replayed, taken over, or blocks this one.
Claim(s, v) ==
  \/ /\ v \notin expired
     /\ execution[v] = "absent"
     /\ Goes(s, "claimed", "claimed")
  \/ /\ v \notin expired
     /\ execution[v] = "succeeded"
     /\ Goes(s, "succeeded", "succeeded")
  \/ /\ v \notin expired
     /\ execution[v] \in { "claimed", "sending", "retryable_failure" }
     /\ Goes(s, "claimed", execution[v])
  \/ /\ v \in expired \/ execution[v] \in { "failed", "stale", "outcome_unknown" }
     /\ Goes(s, "failed", execution[v])

\* The first flush waits for the row lock and keeps it; then the adapter starts.
Execute(s) ==
  /\ sess[s].pc = "loaded"
  /\ lock = Nobody
  /\ lock' = s
  /\ IF connector.claims THEN Claim(s, sess[s].v) ELSE Goes(s, "sending", "absent")
  /\ UNCHANGED << connector, rows, expired, mailbox, recorded, history >>

\* An earlier attempt may have sent the mail: is the draft still there?
Reconcile(s) ==
  /\ sess[s].pc = "claimed"
  /\ connector.drafts
  /\ sess[s].exec \in { "sending", "retryable_failure" }
  /\ \/ draft = Gone /\ Goes(s, "failed", "outcome_unknown")
     \/ draft # Gone /\ sess[s].exec = "sending" /\ Goes(s, "failed", "sending")
     \/ draft # Gone /\ sess[s].exec # "sending" /\ Goes(s, "reconciled", sess[s].exec)
     \/ "ambiguous" \in Faults /\ Goes(s, "failed", sess[s].exec)   \* the GET failed
  /\ UNCHANGED << connector, rows, expired, mailbox, recorded, lock, history >>

\* Mutant: the recorded text is not compared with the approved one.
CheckThreadOnly(s) ==
  /\ \/ thread = "changed" /\ Goes(s, "failed", "stale")
     \/ /\ thread = "same"
        /\ sess' = [sess EXCEPT ![s].pc = "sending", ![s].exec = "sending",
                                ![s].matched = draft = recorded]

\* Draft and thread against what was approved.
CheckDraft(s) ==
  /\ \/ recorded # sess[s].v /\ Goes(s, "failed", "failed")
     \/ /\ recorded = sess[s].v
        /\ thread = "changed"
        /\ Goes(s, "failed", "stale")
     \/ /\ recorded = sess[s].v
        /\ thread = "same"
        /\ sess' = [sess EXCEPT ![s].pc = "sending", ![s].exec = "sending",
                                ![s].matched = draft = recorded]

\* Up to the "sending" mark.
Prepare(s) ==
  /\ \/ sess[s].pc = "claimed" /\ (connector.drafts => sess[s].exec = "claimed")
     \/ sess[s].pc = "reconciled"
  /\ IF connector.drafts THEN CheckDraft(s) ELSE Goes(s, "sending", "sending")
  /\ UNCHANGED << connector, rows, expired, mailbox, recorded, lock, history >>

\* Reading the mail thread can end in an exception too.
PrepareRaises(s) ==
  /\ "raise" \in Faults
  /\ connector.drafts
  /\ sess[s].pc \in { "claimed", "reconciled" }
  /\ Goes(s, "raising", sess[s].exec)
  /\ UNCHANGED << connector, rows, expired, mailbox, recorded, lock, history >>

\* decide_approval calls GitHub while it holds the approval's row.
DecideAndCall(s, v) ==
  /\ connector.atDecision
  /\ sess[s].pc = "idle"
  /\ approval[v] = "pending"
  /\ v \notin expired
  /\ lock = Nobody
  /\ lock' = s
  /\ sess' = [sess EXCEPT ![s] = [IdleSession EXCEPT !.pc = "sending", !.v = v,
                                                     !.exec = "sending"]]
  /\ UNCHANGED << connector, rows, expired, mailbox, recorded, history >>

------------------------------------------------------------------------------
\* The call.

\* Where the answer leaves the session: with or without the effect.
Answered(s, pc, exec, called) ==
  sess' = [sess EXCEPT ![s].pc = pc, ![s].exec = exec, ![s].called = called]

\* The provider performs the call: what it sends is what is in the draft now.
Performed(s) ==
  /\ ~(connector.drafts /\ draft = Gone)
  /\ effects[sess[s].v] < MaxCalls
  /\ effects' = [effects EXCEPT ![sess[s].v] = @ + 1]
  /\ sent' = sent \cup { [ v |-> sess[s].v,
                           text |-> IF connector.drafts THEN draft ELSE sess[s].v,
                           matched |-> sess[s].matched ] }
  /\ draft' = IF connector.drafts THEN Gone ELSE draft

NotPerformed(s) == UNCHANGED << effects, sent, draft >>

\* What the adapter makes of a call that succeeded: the receipt, or the exception that
\* writing it ends in.
AfterSuccess(s, called) ==
  IF connector.receipt
  THEN Answered(s, "succeeded", IF connector.claims THEN "succeeded" ELSE "absent", called)
  ELSE Answered(s, "raising", sess[s].exec, called)

\* What it makes of the connector's own error: inside decide_approval it is raised.
AfterError(s, called) ==
  IF connector.atDecision
  THEN Answered(s, "raising", "failed", called)
  ELSE \/ Answered(s, "failed", IF connector.claims THEN "failed" ELSE "absent", called)
       \/ connector.drafts /\ Answered(s, "failed", "retryable_failure", called)

CallSucceeds(s) ==
  /\ sess[s].pc = "sending"
  /\ Performed(s)
  /\ AfterSuccess(s, TRUE)
  /\ UNCHANGED << connector, rows, expired, thread, recorded, lock, lost >>

CallFails(s) ==
  /\ sess[s].pc = "sending"
  /\ \/ NotPerformed(s) /\ AfterError(s, FALSE)
     \/ "ambiguous" \in Faults /\ Performed(s) /\ AfterError(s, TRUE)
  /\ UNCHANGED << connector, rows, expired, thread, recorded, lock, lost >>

\* Mutant: every connector takes a missing draft for a sent one.
MissingDraftIsSent(s) ==
  /\ sess[s].pc = "sending"
  /\ connector.drafts
  /\ draft = Gone
  /\ NotPerformed(s)
  /\ AfterSuccess(s, FALSE)
  /\ UNCHANGED << connector, rows, expired, thread, recorded, lock, lost >>

\* The draft is not found: Outlook takes this for a mail that has been sent.
CallFindsNoDraft(s) ==
  /\ sess[s].pc = "sending"
  /\ connector.drafts
  /\ draft = Gone
  /\ NotPerformed(s)
  /\ IF connector.goneIsSent THEN AfterSuccess(s, FALSE) ELSE Answered(s, "failed", "failed", FALSE)
  /\ UNCHANGED << connector, rows, expired, thread, recorded, lock, lost >>

\* A timeout of the transport, or GitHub's refusal to close the issue it commented.
CallRaises(s) ==
  /\ "raise" \in Faults
  /\ sess[s].pc = "sending"
  /\ \/ NotPerformed(s) /\ Answered(s, "raising", sess[s].exec, FALSE)
     \/ Performed(s) /\ Answered(s, "raising", sess[s].exec, TRUE)
  /\ UNCHANGED << connector, rows, expired, thread, recorded, lock, lost >>

------------------------------------------------------------------------------
\* The end of the session.

\* Mutant: the outcome is left in the session.
WriteWithoutOutcome(s) ==
  /\ consumed' = consumed \cup { sess[s].v }
  /\ UNCHANGED execution

\* What a commit writes of the session's copies.
Write(s) ==
  /\ execution' = [execution EXCEPT ![sess[s].v] = sess[s].exec]
  /\ consumed' = consumed \cup { sess[s].v }

\* ConnectorToolProvider.execute commits the receipt, and with it the run as "running".
CommitReceipt(s) ==
  /\ sess[s].pc = "succeeded"
  /\ ~connector.atDecision
  /\ Write(s)
  /\ run' = "running"
  /\ lock' = Nobody
  /\ Goes(s, "finishing", sess[s].exec)
  /\ UNCHANGED << connector, approval, pending, expired, mailbox, recorded, history >>

FinishRun(s) ==
  /\ sess[s].pc = "finishing"
  /\ lock = Nobody
  /\ run' = "done"
  /\ sess' = [sess EXCEPT ![s] = IdleSession]
  /\ UNCHANGED << connector, approval, consumed, pending, execution, expired, mailbox,
                  recorded, lock, history >>

\* Mutant: the approval takes over the status of the execution.
CommitFailureOnApproval(s) ==
  /\ sess[s].pc = "failed"
  /\ Write(s)
  /\ approval' = [approval EXCEPT ![sess[s].v] = sess[s].exec]
  /\ run' = "failed"
  /\ lock' = Nobody
  /\ sess' = [sess EXCEPT ![s] = IdleSession]
  /\ UNCHANGED << connector, pending, expired, mailbox, recorded, history >>

\* The tool node failed, and with it the run.
CommitFailure(s) ==
  /\ sess[s].pc = "failed"
  /\ Write(s)
  /\ approval' = IF sess[s].exec = "stale"
                 THEN [approval EXCEPT ![sess[s].v] = "stale"] ELSE approval
  /\ run' = "failed"
  /\ lock' = Nobody
  /\ sess' = [sess EXCEPT ![s] = IdleSession]
  /\ UNCHANGED << connector, pending, expired, mailbox, recorded, history >>

CommitDecision(s) ==
  /\ sess[s].pc = "succeeded"
  /\ connector.atDecision
  /\ Write(s)
  /\ approval' = [approval EXCEPT ![sess[s].v] = "approved"]
  /\ run' = "done"
  /\ lock' = Nobody
  /\ sess' = [sess EXCEPT ![s] = IdleSession]
  /\ UNCHANGED << connector, pending, expired, mailbox, recorded, history >>

\* The outcome of a call that took effect goes with the session.
Lost(s) == lost' = [lost EXCEPT ![sess[s].v] = @ + (IF sess[s].called THEN 1 ELSE 0)]

\* A decision from a chat: the hook swallows the exception, the handler commits.
CommitHalfDone(s) ==
  /\ "chat" \in Faults
  /\ sess[s].pc = "raising"
  /\ ~connector.atDecision
  /\ Write(s)
  /\ run' = "running"
  /\ lock' = Nobody
  /\ sess' = [sess EXCEPT ![s] = IdleSession]
  /\ Lost(s)
  /\ UNCHANGED << connector, approval, pending, expired, mailbox, recorded, effects, sent >>

\* An exception or the loss of the process rolls the transaction back.
RollBack(s) ==
  /\ \/ sess[s].pc = "raising"
     \/ sess[s].pc \notin { "idle", "finishing" } /\ "crash" \in Faults
     \/ sess[s].pc \in { "editing", "updating" } /\ "raise" \in Faults
  /\ lock' = IF lock = s THEN Nobody ELSE lock
  /\ sess' = [sess EXCEPT ![s] = IdleSession]
  /\ Lost(s)
  /\ UNCHANGED << connector, rows, expired, mailbox, recorded, effects, sent >>

\* The process is lost after the receipt's commit: the run stays "running".
CrashAfterReceipt(s) ==
  /\ "crash" \in Faults
  /\ sess[s].pc = "finishing"
  /\ sess' = [sess EXCEPT ![s] = IdleSession]
  /\ UNCHANGED << connector, rows, expired, mailbox, recorded, lock, history >>

------------------------------------------------------------------------------
\* Edits of the draft.

\* replace_email_approval_draft rewrites the draft at the provider first.
StartEdit(s, v) ==
  /\ connector = Gmail
  /\ sess[s].pc = "idle"
  /\ approval[v] = "pending"
  /\ v < MaxVersions
  /\ draft # Gone
  /\ lock = Nobody
  /\ lock' = s
  /\ draft' = v + 1
  /\ sess' = Disturbed([sess EXCEPT ![s] = [IdleSession EXCEPT !.pc = "editing", !.v = v]])
  /\ UNCHANGED << connector, rows, expired, thread, recorded, history >>

\* Mutant: the run still waits for the replaced version.
CommitEditOfApproval(s) ==
  /\ sess[s].pc = "editing"
  /\ recorded' = sess[s].v + 1
  /\ approval' = [approval EXCEPT ![sess[s].v] = "invalidated",
                                  ![sess[s].v + 1] = "pending"]
  /\ lock' = Nobody
  /\ sess' = [sess EXCEPT ![s] = IdleSession]
  /\ UNCHANGED << connector, consumed, pending, run, execution, expired, mailbox, history >>

CommitEdit(s) ==
  /\ sess[s].pc = "editing"
  /\ recorded' = sess[s].v + 1
  /\ approval' = [approval EXCEPT ![sess[s].v] = "invalidated",
                                  ![sess[s].v + 1] = "pending"]
  /\ pending' = sess[s].v + 1
  /\ lock' = Nobody
  /\ sess' = [sess EXCEPT ![s] = IdleSession]
  /\ UNCHANGED << connector, consumed, run, execution, expired, mailbox, history >>

\* The update_draft tool of another run: at the provider, then on record.
StartUpdate(s) ==
  /\ connector.drafts
  /\ sess[s].pc = "idle"
  /\ draft # Gone
  /\ draft' = Foreign
  /\ sess' = Disturbed([sess EXCEPT ![s].pc = "updating"])
  /\ UNCHANGED << connector, rows, expired, thread, recorded, lock, history >>

CommitUpdate(s) ==
  /\ sess[s].pc = "updating"
  /\ recorded' = Foreign
  /\ sess' = [sess EXCEPT ![s] = IdleSession]
  /\ UNCHANGED << connector, rows, expired, mailbox, lock, history >>

------------------------------------------------------------------------------
\* The world.

Expire(v) ==
  /\ approval[v] # "absent"
  /\ expired' = expired \cup {v}
  /\ UNCHANGED << connector, rows, mailbox, recorded, lock, sess, history >>

ThreadMoves ==
  /\ connector.drafts
  /\ thread' = "changed"
  /\ UNCHANGED << connector, rows, expired, draft, recorded, lock, sess, history >>

OwnerTouchesDraft ==
  /\ "owner" \in Faults
  /\ connector.drafts
  /\ draft # Gone
  /\ draft' \in { Foreign, Gone }
  /\ sess' = Disturbed(sess)
  /\ UNCHANGED << connector, rows, expired, thread, recorded, lock, history >>

------------------------------------------------------------------------------
DecisionStep == \E v \in Version : Approve(v) \/ DecideTooLate(v) \/ Reject(v)

\* resume_run up to the call of the provider.
ResumeStep(s) ==
  \/ Load(s)
  \/ Execute(s)
  \/ Reconcile(s)
  \/ Prepare(s)
  \/ PrepareRaises(s)

CallStep(s) == CallSucceeds(s) \/ CallFails(s) \/ CallFindsNoDraft(s) \/ CallRaises(s)

EndStep(s) ==
  \/ CommitReceipt(s)
  \/ FinishRun(s)
  \/ CommitFailure(s)
  \/ CommitDecision(s)
  \/ CommitHalfDone(s)
  \/ RollBack(s)
  \/ CrashAfterReceipt(s)

EditStep(s) ==
  \/ \E v \in Version : StartEdit(s, v)
  \/ CommitEdit(s)
  \/ StartUpdate(s)
  \/ CommitUpdate(s)

WorldStep == (\E v \in Version : Expire(v)) \/ ThreadMoves \/ OwnerTouchesDraft

Next ==
  \/ DecisionStep
  \/ RejectRun
  \/ \E s \in Sessions :
       \/ ResumeStep(s)
       \/ \E v \in Version : DecideAndCall(s, v)
       \/ CallStep(s)
       \/ EndStep(s)
       \/ EditStep(s)
  \/ WorldStep

Spec == Init /\ [][Next]_vars

------------------------------------------------------------------------------
\* Properties.

ApprovalStatus ==
  { "absent", "pending", "approved", "rejected", "stale", "invalidated" }

\* The rows, the mailbox and the sessions stay within what the columns and the code
\* allow.
TypeOK ==
  /\ connector \in Connectors
  /\ approval \in [Version -> ApprovalStatus]
  /\ consumed \subseteq Version
  /\ expired \subseteq Version
  /\ pending \in Version
  /\ run \in { "waiting", "running", "done", "failed" }
  /\ execution \in [Version -> ExecutionStatus]
  /\ draft \in 0 .. Gone
  /\ recorded \in 0 .. MaxVersions
  /\ thread \in { "same", "changed" }
  /\ lock \in Sessions \cup {Nobody}
  /\ sess \in [Sessions -> Session]
  /\ effects \in [Version -> 0 .. MaxCalls]
  /\ lost \in [Version -> 0 .. MaxCalls]
  /\ sent \subseteq [v : Version, text : 0 .. MaxVersions, matched : BOOLEAN]

(***************************************************************************)
(* What approval promises (module ApprovedEffect): every call that takes   *)
(* effect is made under a grant, a version that is approved or that a      *)
(* session already holds as approved, and a version takes effect again     *)
(* only after the outcome of each earlier call was lost.  True of the      *)
(* connectors that claim an execution row before they call.                *)
(***************************************************************************)
InHand(v) ==
  \E s \in Sessions :
    /\ sess[s].v = v
    /\ sess[s].pc \notin { "idle", "finishing", "editing", "updating" }

Promise == INSTANCE ApprovedEffect WITH
  Versions <- Version,
  granted <- { v \in Version : approval[v] = "approved" \/ InHand(v) }

KeepsPromise == Promise!Spec

\* The run waits for the one version that an edit has not replaced: after any sequence of
\* edits, failed edits and decisions, the approval that a person can decide is the one that
\* the run's pending tool names (replace_email_approval_draft, decide_approval).  That it
\* is accepted there does not follow (HashAgrees).
RunAwaitsCurrentVersion ==
  \A v \in Version : approval[v] \notin { "absent", "invalidated" } <=> v = pending

\* What is sent under an approval is the text approved, unless the draft at the provider
\* was not the one on record when send_draft_exactly_once checked the record, or was
\* rewritten after that.
SentAsApproved ==
  \A e \in sent : e.matched => e.text = e.v

\* An execution row that says "succeeded" stands for a call that took effect, unless the
\* connector takes a missing draft for a sent one.
SucceededWasPerformed ==
  \A v \in Version :
    execution[v] = "succeeded" /\ ~connector.goneIsSent => effects[v] > 0

\* A run is reported done only when the effect it asked for is on record.
DoneIsOnRecord ==
  run = "done" /\ connector.claims => execution[pending] = "succeeded"

\* Once an attempt has a final outcome on record, no later session changes it or performs
\* the effect again (authorize_and_claim_execution replays or refuses).
Settled == { "succeeded", "failed", "stale", "outcome_unknown" }

OutcomeIsFinal ==
  [][\A v \in Version :
       connector.claims /\ execution[v] \in Settled =>
         execution'[v] = execution[v] /\ effects'[v] = effects[v]]_vars

\* "The workflow consumes approval once": no approval lets the effect happen twice.
\* (docs/EMAIL_TELEGRAM_INTEGRATIONS.md; checked for connectors that claim no row.)
ApprovalActsOnce == \A v \in Version : effects[v] <= 1

==============================================================================
