------------------------- MODULE ExternalEffectProofs -------------------------
(***************************************************************************)
(* Proofs about ExternalEffect, for any connectors, sessions, numbers of   *)
(* versions and calls, and faults.                                         *)
(***************************************************************************)
EXTENDS ExternalEffect, TLAPS

------------------------------------------------------------------------------
\* The inductive invariant.

\* Past the first flush, before the commit.
Working == { "claimed", "reconciled", "sending", "succeeded", "failed", "raising" }

\* What holds of each session: who works on the rows holds their lock; the approval it works
\* for stands; a settled execution is only replayed; what it knows of its own call is so.
SessionInv(s) ==
  LET v == sess[s].v
      working == sess[s].pc \in Working
  IN
  /\ working \/ sess[s].pc = "editing" => lock = s
  /\ sess[s].pc = "idle" => sess[s] = IdleSession
  /\ sess[s].called => sess[s].pc \in { "succeeded", "failed", "raising", "finishing" }
  /\ sess[s].pc = "editing" => connector = Gmail /\ approval[v] = "pending" /\ v < MaxVersions
  /\ sess[s].pc \notin { "idle", "editing", "updating" } /\ ~connector.atDecision =>
       approval[v] \in { "approved", "stale" }
  /\ sess[s].pc # "idle" /\ connector.atDecision =>
       sess[s].pc \in { "sending", "succeeded", "raising" } /\ approval[v] = "pending"
  /\ connector.claims /\ working /\ execution[v] \in Settled =>
       sess[s].pc \in { "succeeded", "failed" } /\ sess[s].exec = execution[v]
  /\ working /\ sess[s].called =>
       /\ lost[v] < effects[v]
       /\ connector.claims => effects[v] = lost[v] + 1
       /\ connector.drafts => draft = Gone
       /\ sess[s].pc = "failed" /\ connector.claims => sess[s].exec = "failed" \/ connector.drafts
  /\ sess[s].pc = "succeeded" /\ connector.claims => sess[s].exec = "succeeded"

\* Older versions are invalidated, newer ones do not exist yet.
CurrentVersion ==
  /\ \A v \in Version : v < pending => approval[v] = "invalidated"
  /\ \A v \in Version : v > pending => approval[v] = "absent"
  /\ approval[pending] \notin { "absent", "invalidated" }

\* A call that is part of the decision is made before there is an outcome.
OpenDecision ==
  connector.claims /\ connector.atDecision =>
    \A v \in Version : approval[v] = "pending" => execution[v] \notin Settled

\* Every call that took effect is lost, or settled, or has taken the draft with it, or is
\* still known to the session that made it.
Knows(s, v) == sess[s].pc \in Working /\ sess[s].called /\ sess[s].v = v

Accounted ==
  \A v \in Version :
    /\ lost[v] <= effects[v]
    /\ connector.claims =>
         \/ effects[v] = lost[v]
         \/ execution[v] \in Settled
         \/ connector.drafts /\ draft = Gone
         \/ \E s \in Sessions : Knows(s, v)

EffectInv ==
  /\ TypeOK
  /\ \A s \in Sessions : SessionInv(s)
  /\ CurrentVersion
  /\ OpenDecision
  /\ Accounted

LEMMA ConnectorFacts ==
  ASSUME connector \in Connectors
  PROVE  /\ connector \in Profile
         /\ connector.atDecision => ~connector.drafts
         /\ connector.drafts => connector.claims
         /\ connector = Gmail => ~connector.atDecision
<1>1. Gmail \in Profile /\ Gmail.drafts /\ Gmail.claims /\ ~Gmail.atDecision
  BY DEF Gmail, Profile
<1>2. Outlook \in Profile /\ Outlook.drafts /\ Outlook.claims /\ ~Outlook.atDecision
  BY DEF Outlook, Gmail, Profile
<1>3. Slack \in Profile /\ ~Slack.drafts /\ Slack.claims /\ ~Slack.atDecision
  BY DEF Slack, Gmail, Profile
<1>4. GoogleCalendar \in Profile /\ ~GoogleCalendar.drafts /\ ~GoogleCalendar.atDecision
  BY DEF GoogleCalendar, Gmail, Profile
<1>5. GithubComment \in Profile /\ ~GithubComment.drafts /\ GithubComment.atDecision
  BY DEF GithubComment, Gmail, Profile
<1>6. connector \in { Gmail, Outlook, Slack, GoogleCalendar, GithubComment }
  BY ConstantsAssumption DEF KnownConnectors, Teams, Jira, Linear, HubSpot, Salesforce,
     MicrosoftCalendar
<1> QED BY <1>1, <1>2, <1>3, <1>4, <1>5, <1>6

LEMMA InitEffectInv == Init => EffectInv
<1> SUFFICES ASSUME Init PROVE EffectInv
  OBVIOUS
<1> USE ConstantsAssumption DEF Init, IdleSession
<1>1. TypeOK
  <2>1. IdleSession \in Session
    BY DEF Session, Version, ExecutionStatus
  <2>2. 1 \in Version /\ draft \in 0 .. Gone /\ recorded \in 0 .. MaxVersions
    BY DEF Version, Gone
  <2>3. sess \in [Sessions -> Session]
    BY <2>1 DEF IdleSession
  <2> QED BY <2>2, <2>3 DEF TypeOK, ApprovalStatus, ExecutionStatus
<1>2. \A s \in Sessions : SessionInv(s)
  BY DEF SessionInv, Working
<1>3. CurrentVersion
  BY DEF CurrentVersion, Version
<1>4. OpenDecision /\ Accounted
  BY DEF OpenDecision, Accounted, Settled, Version
<1> QED BY <1>1, <1>2, <1>3, <1>4 DEF EffectInv

------------------------------------------------------------------------------
\* Steps that change the sessions.

\* The session goes on with its work and its rows in hand.
LEMMA GoesType ==
  ASSUME sess \in [Sessions -> Session], NEW s \in Sessions,
         NEW pc \in { "loaded", "claimed", "reconciled", "sending", "succeeded", "failed",
                      "raising", "finishing" },
         NEW exec \in ExecutionStatus, Goes(s, pc, exec)
  PROVE  /\ sess' \in [Sessions -> Session]
         /\ sess'[s].pc = pc /\ sess'[s].exec = exec /\ sess'[s].v = sess[s].v
         /\ sess'[s].called = sess[s].called /\ sess'[s].matched = sess[s].matched
         /\ \A t \in Sessions \ {s} : sess'[t] = sess[t]
<1>1. sess[s] \in Session
  OBVIOUS
<1>2. sess' = [sess EXCEPT ![s] = [sess[s] EXCEPT !.pc = pc, !.exec = exec]]
  BY DEF Goes
<1>3. [sess[s] EXCEPT !.pc = pc, !.exec = exec] \in Session
  BY <1>1 DEF Session
<1> QED BY <1>1, <1>2, <1>3 DEF Session

LEMMA AnsweredType ==
  ASSUME sess \in [Sessions -> Session], NEW s \in Sessions,
         NEW pc \in { "succeeded", "failed", "raising" },
         NEW exec \in ExecutionStatus, NEW called \in BOOLEAN, Answered(s, pc, exec, called)
  PROVE  /\ sess' \in [Sessions -> Session]
         /\ sess'[s].pc = pc /\ sess'[s].exec = exec /\ sess'[s].v = sess[s].v
         /\ sess'[s].called = called
         /\ \A t \in Sessions \ {s} : sess'[t] = sess[t]
<1>1. sess[s] \in Session
  OBVIOUS
<1>2. sess' = [sess EXCEPT ![s] = [sess[s] EXCEPT !.pc = pc, !.exec = exec, !.called = called]]
  BY DEF Answered
<1>3. [sess[s] EXCEPT !.pc = pc, !.exec = exec, !.called = called] \in Session
  BY <1>1 DEF Session
<1> QED BY <1>1, <1>2, <1>3 DEF Session

\* A disturbed session differs in what it may believe of the draft only.
LEMMA DisturbedType ==
  ASSUME NEW ss \in [Sessions -> Session], sess' = Disturbed(ss)
  PROVE  /\ sess' \in [Sessions -> Session]
         /\ \A t \in Sessions :
              /\ sess'[t].pc = ss[t].pc /\ sess'[t].exec = ss[t].exec /\ sess'[t].v = ss[t].v
              /\ sess'[t].called = ss[t].called
              /\ sess'[t].pc = "sending" => ~sess'[t].matched
              /\ sess'[t].pc # "sending" => sess'[t] = ss[t]
<1>1. ASSUME NEW t \in Sessions PROVE [ss[t] EXCEPT !.matched = FALSE] \in Session
  BY DEF Session
<1> QED BY <1>1 DEF Disturbed, Session

LEMMA IdleSessionType ==
  /\ IdleSession \in Session
  /\ IdleSession.pc = "idle" /\ ~IdleSession.called
<1>1. 1 \in Version
  BY ConstantsAssumption DEF Version
<1> QED BY <1>1 DEF IdleSession, Session, ExecutionStatus

\* What the invariant asks of a session that holds no lock: nothing but its approval.
LEMMA Idler ==
  ASSUME NEW t \in Sessions, SessionInv(t), sess[t].pc \notin Working \cup {"editing"},
         sess'[t] = sess[t], connector' = connector,
         approval'[sess[t].v] = approval[sess[t].v]
           \/ approval'[sess[t].v] \in { "approved", "stale" }
  PROVE  SessionInv(t)'
  BY DEF SessionInv, Working

\* A session is not disturbed by what does not touch its rows.
LEMMA Kept ==
  ASSUME NEW t \in Sessions, SessionInv(t), connector' = connector,
         sess'[t].pc = sess[t].pc, sess'[t].v = sess[t].v, sess'[t].exec = sess[t].exec,
         sess'[t].called = sess[t].called,
         sess[t].pc = "idle" => sess'[t] = sess[t],
         approval'[sess[t].v] = approval[sess[t].v],
         UNCHANGED << lock, execution, effects, lost >>,
         draft' = draft \/ draft # Gone
  PROVE  SessionInv(t)'
  BY DEF SessionInv, Working

\* While one session has the lock, or nobody has, the others do not work on the rows.
LEMMA OthersIdle ==
  ASSUME EffectInv, NEW s, lock \in {s, Nobody}, NEW t \in Sessions \ {s}
  PROVE  sess[t].pc \notin Working \cup {"editing"}
<1>1. t # Nobody /\ SessionInv(t)
  BY ConstantsAssumption DEF EffectInv
<1> QED BY <1>1 DEF SessionInv

------------------------------------------------------------------------------
\* The decision and the world leave the sessions alone.

LEMMA DecisionKeeps ==
  ASSUME EffectInv, DecisionStep \/ RejectRun \/ ThreadMoves \/ (\E v \in Version : Expire(v))
  PROVE  EffectInv'
<1> USE DEF EffectInv, rows, history
<1>1. CASE RejectRun \/ ThreadMoves \/ (\E v \in Version : Expire(v))
  <2>1. /\ UNCHANGED << connector, approval, consumed, pending, execution, recorded, draft, lock,
                        sess, effects, lost, sent >>
        /\ TypeOK'
    BY <1>1 DEF RejectRun, ThreadMoves, Expire, TypeOK, mailbox
  <2>2. \A t \in Sessions : SessionInv(t)'
    BY <2>1, Kept
  <2>3. CurrentVersion' /\ OpenDecision' /\ Accounted'
    BY <2>1 DEF CurrentVersion, OpenDecision, Accounted, Knows
  <2> QED BY <2>1, <2>2, <2>3
<1>2. CASE DecisionStep
  <2>1. PICK v \in Version, to \in { "approved", "stale", "rejected" } :
          /\ approval[v] = "pending"
          /\ lock = Nobody
          /\ approval' = [approval EXCEPT ![v] = to]
          /\ UNCHANGED << connector, consumed, pending, run, execution, expired, mailbox,
                          recorded, lock, sess, history >>
    BY <1>2 DEF DecisionStep, Approve, DecideTooLate, Reject
  <2>2. TypeOK'
    BY <2>1 DEF TypeOK, ApprovalStatus, mailbox
  <2>3. ASSUME NEW t \in Sessions PROVE SessionInv(t)'
    <3>1. sess[t].pc \notin Working \cup {"editing"} /\ SessionInv(t)
      BY <2>1, ConstantsAssumption, OthersIdle
    <3>2. CASE sess[t].v = v
      <4>1. sess[t].pc \in { "idle", "updating" }
        BY <2>1, <3>1, <3>2 DEF SessionInv, Working
      <4> QED BY <2>1, <3>1, <4>1 DEF SessionInv, Working
    <3>3. CASE sess[t].v # v
      BY <2>1, <3>1, <3>3, Idler DEF TypeOK
    <3> QED BY <3>2, <3>3
  <2>4. v = pending
    BY <2>1 DEF CurrentVersion, TypeOK, Version
  <2>5. CurrentVersion' /\ OpenDecision' /\ Accounted'
    BY <2>1, <2>4 DEF CurrentVersion, OpenDecision, Accounted, Knows, TypeOK, mailbox
  <2> QED BY <2>2, <2>3, <2>5
<1> QED BY <1>1, <1>2

------------------------------------------------------------------------------
\* Resuming the run.

\* A session goes on: it has taken the lock or had it, and has not called.
LEMMA Advances ==
  ASSUME EffectInv, NEW s \in Sessions, NEW pc \in Working, NEW exec \in ExecutionStatus,
         sess' \in [Sessions -> Session],
         lock \in {s, Nobody}, lock' = s,
         UNCHANGED << connector, rows, expired, mailbox, recorded, history >>,
         \A t \in Sessions \ {s} : sess'[t] = sess[t],
         sess'[s].pc = pc, sess'[s].exec = exec, ~sess[s].called, ~sess'[s].called,
         \/ /\ ~connector.atDecision
            /\ approval[sess'[s].v] \in { "approved", "stale" }
            /\ connector.claims =>
                 /\ pc = "succeeded" => exec = "succeeded"
                 /\ execution[sess'[s].v] \in Settled =>
                      pc \in { "succeeded", "failed" } /\ exec = execution[sess'[s].v]
         \/ connector.atDecision /\ pc = "sending" /\ approval[sess'[s].v] = "pending"
  PROVE  EffectInv'
<1> USE DEF EffectInv, rows, history, mailbox
<1>1. TypeOK'
  BY DEF TypeOK
<1>2. ASSUME NEW t \in Sessions \ {s} PROVE SessionInv(t)'
  BY OthersIdle, Idler
<1>3. SessionInv(s)'
  <2>1. connector.claims /\ connector.atDecision => execution[sess'[s].v] \notin Settled
    BY DEF OpenDecision, TypeOK, Session
  <2> QED BY <2>1 DEF SessionInv, Working
<1>4. CurrentVersion' /\ OpenDecision'
  BY DEF CurrentVersion, OpenDecision
<1>5. Accounted'
  <2>1. \A t \in Sessions, v \in Version : Knows(t, v) => Knows(t, v)'
    BY DEF Knows
  <2> QED BY <2>1 DEF Accounted
<1> QED BY <1>1, <1>2, <1>3, <1>4, <1>5

LEMMA LoadKeeps == ASSUME EffectInv, NEW s \in Sessions, Load(s) PROVE EffectInv'
<1> USE DEF EffectInv, rows, history, mailbox
<1> DEFINE new == [IdleSession EXCEPT !.pc = "loaded", !.v = pending]
<1>1. /\ sess' = [sess EXCEPT ![s] = new]
      /\ ~connector.atDecision /\ approval[pending] = "approved" /\ sess[s].pc = "idle"
      /\ UNCHANGED << connector, rows, expired, mailbox, recorded, lock, history >>
  BY DEF Load
<1>2. /\ new \in Session /\ new.pc = "loaded" /\ new.v = pending /\ ~new.called
  BY IdleSessionType DEF Session, TypeOK, IdleSession
<1> HIDE DEF new
<1>3. TypeOK'
  BY <1>1, <1>2 DEF TypeOK
<1>4. sess'[s] = new /\ \A t \in Sessions \ {s} : sess'[t] = sess[t]
  BY <1>1 DEF TypeOK
<1>5. \A t \in Sessions \ {s} : SessionInv(t)'
  BY <1>1, <1>4, Kept
<1>6. SessionInv(s)'
  BY <1>1, <1>2, <1>4 DEF SessionInv, Working
<1>7. CurrentVersion' /\ OpenDecision'
  BY <1>1 DEF CurrentVersion, OpenDecision
<1>8. Accounted'
  <2>1. \A t \in Sessions, v \in Version : Knows(t, v) => Knows(t, v)'
    BY <1>1, <1>4 DEF Knows, Working
  <2> QED BY <1>1, <2>1 DEF Accounted
<1> QED BY <1>3, <1>5, <1>6, <1>7, <1>8

\* What Advances asks of a session that goes from one place to the next.
LEMMA GoesKeeps ==
  ASSUME EffectInv, NEW s \in Sessions, NEW pc \in Working, NEW exec \in ExecutionStatus,
         Goes(s, pc, exec), sess[s].pc \in { "loaded", "claimed", "reconciled" },
         lock \in {s, Nobody}, lock' = s,
         UNCHANGED << connector, rows, expired, mailbox, recorded, history >>,
         connector.claims =>
           /\ pc = "succeeded" => exec = "succeeded"
           /\ execution[sess[s].v] \in Settled =>
                pc \in { "succeeded", "failed" } /\ exec = execution[sess[s].v]
  PROVE  EffectInv'
<1>1. SessionInv(s) /\ sess \in [Sessions -> Session] /\ connector' = connector
  BY DEF EffectInv, TypeOK
<1>2. ~sess[s].called /\ ~connector.atDecision /\ approval[sess[s].v] \in { "approved", "stale" }
  BY <1>1 DEF SessionInv
<1>3. /\ sess' \in [Sessions -> Session]
      /\ sess'[s].pc = pc /\ sess'[s].exec = exec /\ sess'[s].v = sess[s].v
      /\ sess'[s].called = sess[s].called
      /\ \A t \in Sessions \ {s} : sess'[t] = sess[t]
  BY <1>1, GoesType DEF Working
<1> QED BY <1>2, <1>3, Advances

LEMMA ExecuteKeeps == ASSUME EffectInv, NEW s \in Sessions, Execute(s) PROVE EffectInv'
<1>1. /\ sess[s].pc = "loaded" /\ lock = Nobody /\ lock' = s
      /\ UNCHANGED << connector, rows, expired, mailbox, recorded, history >>
  BY DEF Execute
<1>2. sess[s].v \in Version /\ execution[sess[s].v] \in ExecutionStatus
  BY DEF EffectInv, TypeOK, Session
<1>3. CASE ~connector.claims
  <2>1. Goes(s, "sending", "absent")
    BY <1>3 DEF Execute
  <2>2. "sending" \in Working /\ "absent" \in ExecutionStatus
    BY DEF Working, ExecutionStatus
  <2> QED BY <1>1, <1>3, <2>1, <2>2, GoesKeeps
<1>4. CASE connector.claims
  <2>1. \E pc \in { "claimed", "succeeded", "failed" }, exec \in ExecutionStatus :
          /\ Goes(s, pc, exec)
          /\ pc = "succeeded" => exec = "succeeded"
          /\ execution[sess[s].v] \in Settled =>
               pc \in { "succeeded", "failed" } /\ exec = execution[sess[s].v]
    <3>1. Claim(s, sess[s].v)
      BY <1>4 DEF Execute
    <3> QED BY <1>2, <3>1 DEF Claim, Settled, ExecutionStatus
  <2>2. { "claimed", "succeeded", "failed" } \subseteq Working
    BY DEF Working
  <2> QED BY <1>1, <2>1, <2>2, GoesKeeps
<1> QED BY <1>3, <1>4

\* What works on the rows without having called finds no settled execution.
LEMMA NotSettled ==
  ASSUME EffectInv, NEW s \in Sessions,
         sess[s].pc \in { "claimed", "reconciled", "sending" }
  PROVE  /\ lock = s /\ ~sess[s].called
         /\ connector.claims => execution[sess[s].v] \notin Settled
  BY DEF EffectInv, SessionInv, Working

LEMMA PrepareKeeps ==
  ASSUME EffectInv, NEW s \in Sessions, Reconcile(s) \/ Prepare(s) \/ PrepareRaises(s)
  PROVE  EffectInv'
<1>1. /\ sess[s].pc \in { "claimed", "reconciled" }
      /\ UNCHANGED << connector, rows, expired, mailbox, recorded, lock, history >>
  BY DEF Reconcile, Prepare, PrepareRaises
<1>2. /\ lock = s /\ lock' = s
      /\ connector.claims => execution[sess[s].v] \notin Settled
  BY <1>1, NotSettled
<1>3. sess[s] \in Session /\ sess \in [Sessions -> Session]
  BY DEF EffectInv, TypeOK
<1>4. ASSUME NEW pc \in { "failed", "reconciled", "sending", "raising" }, NEW exec \in ExecutionStatus,
             Goes(s, pc, exec)
      PROVE  EffectInv'
  <2>1. pc \in Working /\ pc # "succeeded"
    BY DEF Working
  <2> QED BY <1>1, <1>2, <1>4, <2>1, GoesKeeps
<1>5. CASE Reconcile(s) \/ PrepareRaises(s)
  BY <1>3, <1>4, <1>5 DEF Reconcile, PrepareRaises, Session, ExecutionStatus
<1>6. CASE Prepare(s)
  <2>1. CASE \E pc \in { "failed", "sending" }, exec \in ExecutionStatus : Goes(s, pc, exec)
    BY <1>4, <2>1
  <2>2. CASE sess' = [sess EXCEPT ![s].pc = "sending", ![s].exec = "sending",
                                  ![s].matched = draft = recorded]
    <3> DEFINE new == [sess[s] EXCEPT !.pc = "sending", !.exec = "sending", !.matched = (draft = recorded)]
    <3>1. new \in Session /\ new.pc = "sending" /\ new.exec = "sending" /\ new.v = sess[s].v
          /\ new.called = sess[s].called
      BY <1>3 DEF Session, ExecutionStatus
    <3>2. sess' = [sess EXCEPT ![s] = new]
      BY <2>2
    <3> HIDE DEF new
    <3>3. /\ sess' \in [Sessions -> Session] /\ sess'[s] = new
          /\ \A t \in Sessions \ {s} : sess'[t] = sess[t]
      BY <1>3, <3>1, <3>2
    <3>4. "sending" \in Working /\ "sending" \in ExecutionStatus
      BY DEF Working, ExecutionStatus
    <3>5. ~connector.atDecision /\ approval[sess[s].v] \in { "approved", "stale" } /\ ~sess[s].called
      BY <1>1, NotSettled DEF EffectInv, SessionInv
    <3> QED BY <1>1, <1>2, <3>1, <3>3, <3>4, <3>5, Advances
  <2> QED BY <1>6, <2>1, <2>2 DEF Prepare, CheckDraft, ExecutionStatus
<1> QED BY <1>5, <1>6

LEMMA DecideAndCallKeeps ==
  ASSUME EffectInv, NEW s \in Sessions, NEW v \in Version, DecideAndCall(s, v)
  PROVE  EffectInv'
<1> DEFINE new == [IdleSession EXCEPT !.pc = "sending", !.v = v, !.exec = "sending"]
<1>1. /\ sess' = [sess EXCEPT ![s] = new]
      /\ connector.atDecision /\ approval[v] = "pending" /\ lock = Nobody /\ lock' = s
      /\ sess[s].pc = "idle"
      /\ UNCHANGED << connector, rows, expired, mailbox, recorded, history >>
  BY DEF DecideAndCall
<1>2. new \in Session /\ new.pc = "sending" /\ new.v = v /\ new.exec = "sending" /\ ~new.called
  BY IdleSessionType DEF Session, ExecutionStatus, IdleSession
<1> HIDE DEF new
<1>3. /\ sess' \in [Sessions -> Session] /\ sess'[s] = new
      /\ \A t \in Sessions \ {s} : sess'[t] = sess[t]
  BY <1>1, <1>2 DEF EffectInv, TypeOK
<1>4. ~sess[s].called
  BY <1>1 DEF EffectInv, SessionInv
<1>5. "sending" \in Working /\ "sending" \in ExecutionStatus
  BY DEF Working, ExecutionStatus
<1> QED BY <1>1, <1>2, <1>3, <1>4, <1>5, Advances

------------------------------------------------------------------------------
\* The call.

\* A session about to call has nothing unaccounted: what took effect before is lost.
LEMMA CallIsFresh ==
  ASSUME EffectInv, NEW s \in Sessions, sess[s].pc = "sending", connector.claims,
         ~(connector.drafts /\ draft = Gone)
  PROVE  effects[sess[s].v] = lost[sess[s].v]
<1>1. sess[s].v \in Version
  BY DEF EffectInv, TypeOK, Session
<1>2. lock = s /\ ~sess[s].called /\ execution[sess[s].v] \notin Settled
  BY NotSettled
<1>3. \A t \in Sessions : ~Knows(t, sess[s].v)
  BY <1>2, OthersIdle DEF Knows, Working
<1> QED BY <1>1, <1>2, <1>3 DEF EffectInv, Accounted

LEMMA PerformedType ==
  ASSUME TypeOK, NEW s \in Sessions, Performed(s)
  PROVE  /\ effects' \in [Version -> 0 .. MaxCalls]
         /\ effects'[sess[s].v] = effects[sess[s].v] + 1
         /\ \A v \in Version \ {sess[s].v} : effects'[v] = effects[v]
         /\ sent' \subseteq [v : Version, text : 0 .. MaxVersions, matched : BOOLEAN]
         /\ draft' \in 0 .. Gone
         /\ connector.drafts => draft # Gone /\ draft' = Gone
         /\ ~connector.drafts => draft' = draft
<1>1. sess[s] \in Session /\ sess[s].v \in Version /\ sess[s].matched \in BOOLEAN
  BY DEF TypeOK, Session
<1>2. effects[sess[s].v] \in 0 .. MaxCalls /\ effects[sess[s].v] < MaxCalls
  BY <1>1 DEF TypeOK, Performed
<1>3. effects' = [effects EXCEPT ![sess[s].v] = effects[sess[s].v] + 1]
  BY DEF Performed
<1>4. effects[sess[s].v] + 1 \in 0 .. MaxCalls
  BY <1>2, ConstantsAssumption
<1>5. effects' \in [Version -> 0 .. MaxCalls]
  BY <1>3, <1>4 DEF TypeOK
<1>6. (IF connector.drafts THEN draft ELSE sess[s].v) \in 0 .. MaxVersions
  BY <1>1, ConstantsAssumption DEF Performed, TypeOK, Gone, Version
<1>7. sent' \subseteq [v : Version, text : 0 .. MaxVersions, matched : BOOLEAN]
  BY <1>1, <1>6 DEF Performed, TypeOK
<1>8. draft' \in 0 .. Gone
  BY ConstantsAssumption DEF Performed, TypeOK, Gone
<1> QED BY <1>1, <1>3, <1>5, <1>7, <1>8 DEF Performed, TypeOK

\* The answer of a call, whether it took effect or not.
LEMMA AnswerKeeps ==
  ASSUME EffectInv, NEW s \in Sessions, sess[s].pc = "sending",
         NEW pc \in { "succeeded", "failed", "raising" }, NEW exec \in ExecutionStatus,
         NEW called \in BOOLEAN, Answered(s, pc, exec, called),
         IF called THEN Performed(s) ELSE NotPerformed(s),
         pc = "succeeded" /\ connector.claims => exec = "succeeded",
         pc = "failed" /\ called /\ connector.claims => exec = "failed" \/ connector.drafts,
         pc = "failed" => ~connector.atDecision,
         UNCHANGED << connector, rows, expired, thread, recorded, lock, lost >>
  PROVE  EffectInv'
<1> DEFINE v == sess[s].v
<1> USE DEF rows
<1>0. TypeOK /\ SessionInv(s) /\ v \in Version /\ sess \in [Sessions -> Session]
  BY DEF EffectInv, TypeOK, Session
<1>1. /\ lock = s /\ ~sess[s].called
      /\ connector.claims => execution[v] \notin Settled
  BY NotSettled
<1>2. /\ sess' \in [Sessions -> Session]
      /\ sess'[s].pc = pc /\ sess'[s].exec = exec /\ sess'[s].v = v
      /\ sess'[s].called = called
      /\ \A t \in Sessions \ {s} : sess'[t] = sess[t]
  BY <1>0, AnsweredType
<1>3. /\ effects' \in [Version -> 0 .. MaxCalls]
      /\ sent' \subseteq [v : Version, text : 0 .. MaxVersions, matched : BOOLEAN]
      /\ draft' \in 0 .. Gone
      /\ draft = Gone => draft' = Gone
      /\ \A w \in Version \ {v} : effects'[w] = effects[w]
      /\ IF called THEN effects'[v] = effects[v] + 1 /\ (connector.drafts => draft # Gone /\ draft' = Gone)
         ELSE effects' = effects /\ draft' = draft
  <2>1. CASE called
    BY <1>0, <2>1, PerformedType
  <2>2. CASE ~called
    BY <1>0, <2>2 DEF NotPerformed, TypeOK
  <2> QED BY <2>1, <2>2
<1>4. TypeOK'
  BY <1>0, <1>2, <1>3 DEF TypeOK
<1>5. \A t \in Sessions \ {s} : SessionInv(t)'
  <2> TAKE t \in Sessions \ {s}
  <2>1. sess[t].pc \notin Working \cup {"editing"} /\ SessionInv(t)
    BY <1>1, OthersIdle DEF EffectInv
  <2> QED BY <1>2, <2>1, Idler
<1>6. lost[v] \in Nat /\ effects[v] \in Nat /\ lost[v] <= effects[v]
  BY <1>0, ConstantsAssumption DEF TypeOK, EffectInv, Accounted
<1>7. SessionInv(s)'
  <2>1. called /\ connector.claims => effects[v] = lost[v]
    BY <1>3, CallIsFresh
  <2> QED BY <1>0, <1>1, <1>2, <1>3, <1>6, <2>1 DEF SessionInv, Working
<1>8. CurrentVersion' /\ OpenDecision'
  BY DEF EffectInv, CurrentVersion, OpenDecision
<1>9. Accounted'
  <2> SUFFICES ASSUME NEW w \in Version
               PROVE  /\ lost[w] <= effects'[w]
                      /\ connector.claims =>
                           \/ effects'[w] = lost[w]
                           \/ execution[w] \in Settled
                           \/ connector.drafts /\ draft' = Gone
                           \/ \E t \in Sessions : Knows(t, w)'
    BY DEF Accounted
  <2>1. /\ lost[w] <= effects[w]
        /\ connector.claims =>
             \/ effects[w] = lost[w]
             \/ execution[w] \in Settled
             \/ connector.drafts /\ draft = Gone
             \/ \E t \in Sessions : Knows(t, w)
    BY DEF EffectInv, Accounted
  <2>2. \A t \in Sessions : ~Knows(t, w)
    BY <1>1, OthersIdle DEF Knows
  <2>3. CASE w = v /\ called
    <3>1. Knows(s, w)'
      BY <1>2, <2>3 DEF Knows, Working
    <3> QED BY <1>3, <1>6, <2>3, <3>1
  <2>4. CASE w # v \/ ~called
    BY <1>3, <2>1, <2>2, <2>4
  <2> QED BY <2>3, <2>4
<1> QED BY <1>4, <1>5, <1>7, <1>8, <1>9 DEF EffectInv

LEMMA CallKeeps ==
  ASSUME EffectInv, NEW s \in Sessions, CallStep(s)
  PROVE  EffectInv'
<1>0. sess[s].pc = "sending" /\ UNCHANGED << connector, rows, expired, thread, recorded, lock, lost >>
  BY DEF CallStep, CallSucceeds, CallFails, CallFindsNoDraft, CallRaises
<1>1. /\ sess[s].exec \in ExecutionStatus
      /\ connector.atDecision => ~connector.drafts
  BY ConnectorFacts DEF EffectInv, TypeOK, Session
<1>2. PICK pc \in { "succeeded", "failed", "raising" }, exec \in ExecutionStatus, called \in BOOLEAN :
        /\ Answered(s, pc, exec, called)
        /\ IF called THEN Performed(s) ELSE NotPerformed(s)
        /\ pc = "succeeded" /\ connector.claims => exec = "succeeded"
        /\ pc = "failed" /\ called /\ connector.claims => exec = "failed" \/ connector.drafts
        /\ pc = "failed" => ~connector.atDecision
  <2>1. CASE CallSucceeds(s)
    BY <1>1, <2>1 DEF CallSucceeds, AfterSuccess, ExecutionStatus
  <2>2. CASE CallFails(s)
    BY <1>1, <2>2 DEF CallFails, AfterError, ExecutionStatus
  <2>3. CASE CallFindsNoDraft(s)
    BY <1>1, <2>3 DEF CallFindsNoDraft, AfterSuccess, ExecutionStatus
  <2>4. CASE CallRaises(s)
    BY <1>1, <2>4 DEF CallRaises
  <2> QED BY <2>1, <2>2, <2>3, <2>4 DEF CallStep
<1> QED BY <1>0, <1>2, AnswerKeeps

------------------------------------------------------------------------------
\* The end of the session.

\* Only the session that has the lock can know of a call.
LEMMA OneKnows ==
  ASSUME EffectInv, NEW s \in Sessions, lock \in {s, Nobody}, NEW t \in Sessions, NEW v, Knows(t, v)
  PROVE  t = s
  BY OthersIdle DEF Knows

\* A session commits: it lets go of the rows, and its execution goes on record.
LEMMA CommitKeeps ==
  ASSUME EffectInv, NEW s \in Sessions, sess[s].pc \in Working, lock' = Nobody,
         Write(s), TypeOK',
         UNCHANGED << connector, pending, draft, effects >>,
         \A t \in Sessions \ {s} : sess'[t] = sess[t],
         \/ sess'[s] = IdleSession
         \/ sess'[s].pc = "finishing" /\ ~connector.atDecision /\ sess'[s].v = sess[s].v,
         \A w \in Version \ {sess[s].v} : approval'[w] = approval[w] /\ lost'[w] = lost[w],
         approval'[sess[s].v] \in { "approved", "stale" },
         lost'[sess[s].v] <= effects[sess[s].v],
         connector.claims =>
           \/ effects[sess[s].v] = lost'[sess[s].v]
           \/ sess[s].exec \in Settled
           \/ connector.drafts /\ draft = Gone
  PROVE  EffectInv'
<1> DEFINE v == sess[s].v
<1>0. /\ TypeOK /\ SessionInv(s) /\ v \in Version /\ lock = s
      /\ execution' = [execution EXCEPT ![v] = sess[s].exec]
  BY DEF EffectInv, TypeOK, Session, SessionInv, Write
<1>1. v = pending
  <2>1. approval[v] \in { "approved", "stale", "pending" }
    BY <1>0 DEF SessionInv, Working
  <2>2. CurrentVersion /\ pending \in Version
    BY <1>0 DEF EffectInv, TypeOK
  <2> QED
    BY ONLY <1>0, <2>1, <2>2, ConstantsAssumption DEF CurrentVersion, Version
<1>2. ASSUME NEW t \in Sessions \ {s} PROVE SessionInv(t)'
  <2>1. sess[t].pc \notin Working \cup {"editing"} /\ SessionInv(t)
    BY <1>0, OthersIdle DEF EffectInv
  <2>2. sess[t].v \in Version
    BY <1>0 DEF TypeOK, Session
  <2> QED BY <2>1, <2>2, Idler
<1>3. SessionInv(s)'
  <2>1. CASE sess'[s] = IdleSession
    BY <2>1, IdleSessionType DEF SessionInv, Working
  <2>2. CASE sess'[s].pc = "finishing" /\ ~connector.atDecision /\ sess'[s].v = sess[s].v
    BY <2>2 DEF SessionInv, Working
  <2> QED BY <2>1, <2>2
<1>4. CurrentVersion'
  BY <1>0, <1>1 DEF EffectInv, CurrentVersion, TypeOK, Version
<1>5. OpenDecision'
  BY <1>0 DEF EffectInv, OpenDecision, TypeOK
<1>6. Accounted'
  <2> SUFFICES ASSUME NEW w \in Version
               PROVE  /\ lost'[w] <= effects[w]
                      /\ connector.claims =>
                           \/ effects[w] = lost'[w]
                           \/ execution'[w] \in Settled
                           \/ connector.drafts /\ draft = Gone
                           \/ \E t \in Sessions : Knows(t, w)'
    BY DEF Accounted
  <2>1. CASE w = v
    BY <1>0, <2>1 DEF TypeOK
  <2>2. CASE w # v
    <3>1. \A t \in Sessions : ~Knows(t, w)
      BY <1>0, <2>2, OneKnows DEF Knows
    <3>2. execution'[w] = execution[w]
      BY <1>0, <2>2 DEF TypeOK
    <3> QED BY <2>2, <3>1, <3>2 DEF EffectInv, Accounted
  <2> QED BY <2>1, <2>2
<1> QED BY <1>2, <1>3, <1>4, <1>5, <1>6 DEF EffectInv

LEMMA LostType ==
  ASSUME EffectInv, NEW s \in Sessions, Lost(s), sess[s].pc # "finishing"
  PROVE  /\ lost' \in [Version -> 0 .. MaxCalls]
         /\ \A w \in Version \ {sess[s].v} : lost'[w] = lost[w]
         /\ lost'[sess[s].v] = lost[sess[s].v] + (IF sess[s].called THEN 1 ELSE 0)
         /\ lost'[sess[s].v] <= effects[sess[s].v]
         /\ sess[s].called => sess[s].pc \in Working
         /\ ~sess[s].called => lost' = lost
<1> DEFINE v == sess[s].v
<1>1. TypeOK /\ SessionInv(s) /\ v \in Version /\ lost' = [lost EXCEPT ![v] = @ + (IF sess[s].called THEN 1 ELSE 0)]
  BY DEF EffectInv, TypeOK, Session, Lost
<1>2. lost[v] \in 0 .. MaxCalls /\ effects[v] \in 0 .. MaxCalls /\ lost[v] <= effects[v]
  BY <1>1 DEF TypeOK, EffectInv, Accounted
<1>3. sess[s].called => sess[s].pc \in Working /\ lost[v] < effects[v]
  BY <1>1 DEF SessionInv, Working
<1>4. lost[v] + (IF sess[s].called THEN 1 ELSE 0) \in 0 .. MaxCalls
  BY <1>2, <1>3, ConstantsAssumption
<1>5. lost'[v] = lost[v] + (IF sess[s].called THEN 1 ELSE 0)
  BY <1>1 DEF TypeOK
<1>6. ~sess[s].called => lost' = lost
  BY <1>1, <1>2 DEF TypeOK
<1> QED BY <1>1, <1>2, <1>3, <1>4, <1>5, <1>6 DEF TypeOK

LEMMA CommitsKeep ==
  ASSUME EffectInv, NEW s \in Sessions,
         CommitReceipt(s) \/ CommitFailure(s) \/ CommitDecision(s) \/ CommitHalfDone(s)
  PROVE  EffectInv'
<1> DEFINE v == sess[s].v
<1> USE DEF mailbox, history
<1>0. /\ TypeOK /\ SessionInv(s) /\ v \in Version /\ sess[s] \in Session
      /\ approval[v] \in { "approved", "stale", "pending" }
      /\ connector.atDecision <=> approval[v] = "pending"
      /\ lost[v] <= effects[v]
      /\ sess[s].pc \in Working
    <2>1. TypeOK /\ SessionInv(s) /\ v \in Version /\ sess[s] \in Session /\ lost[v] <= effects[v]
      BY DEF EffectInv, TypeOK, Session, Accounted
    <2>2. sess[s].pc \in { "succeeded", "failed", "raising" }
      BY DEF CommitReceipt, CommitFailure, CommitDecision, CommitHalfDone
    <2> QED BY <2>1, <2>2 DEF SessionInv, Working
<1>1. /\ Write(s) /\ lock' = Nobody
      /\ consumed' \subseteq Version
      /\ execution' \in [Version -> ExecutionStatus]
      /\ UNCHANGED << connector, pending, expired, draft, thread, recorded, effects, sent >>
  BY <1>0 DEF CommitReceipt, CommitFailure, CommitDecision, CommitHalfDone, Write, TypeOK, Session
<1>2. /\ sess' \in [Sessions -> Session]
      /\ \A t \in Sessions \ {s} : sess'[t] = sess[t]
      /\ \/ sess'[s] = IdleSession
         \/ sess'[s].pc = "finishing" /\ ~connector.atDecision /\ sess'[s].v = sess[s].v
  <2>1. CASE CommitReceipt(s)
    <3>1. Goes(s, "finishing", sess[s].exec) /\ sess[s].exec \in ExecutionStatus /\ ~connector.atDecision
      BY <1>0, <2>1 DEF CommitReceipt, Session
    <3> QED BY <1>0, <3>1, GoesType DEF TypeOK
  <2>2. CASE CommitFailure(s) \/ CommitDecision(s) \/ CommitHalfDone(s)
    <3>1. sess' = [sess EXCEPT ![s] = IdleSession]
      BY <2>2 DEF CommitFailure, CommitDecision, CommitHalfDone
    <3> QED BY <1>0, <3>1, IdleSessionType DEF TypeOK
  <2> QED BY <2>1, <2>2
<1>3. ~sess[s].called /\ connector.claims =>
        \/ effects[v] = lost[v]
        \/ execution[v] \in Settled
        \/ connector.drafts /\ draft = Gone
  <2>1. lock = s
    BY <1>0 DEF SessionInv
  <2>2. ~sess[s].called => \A t \in Sessions : ~Knows(t, v)
    BY <2>1, OneKnows DEF Knows
  <2> QED BY <1>0, <2>2 DEF EffectInv, Accounted
<1>4. CASE CommitReceipt(s) \/ CommitFailure(s) \/ CommitDecision(s)
  <2>1. lost' = lost
    BY <1>4 DEF CommitReceipt, CommitFailure, CommitDecision
  <2>2. /\ \A w \in Version \ {v} : approval'[w] = approval[w]
        /\ approval'[v] \in { "approved", "stale" }
        /\ approval' \in [Version -> ApprovalStatus]
        /\ run' \in { "waiting", "running", "done", "failed" }
    <3>1. CASE CommitReceipt(s)
      BY <1>0, <3>1 DEF CommitReceipt, TypeOK
    <3>2. CASE CommitFailure(s)
      <4>1. ~connector.atDecision
        BY <1>0, <3>2 DEF CommitFailure, SessionInv
      <4> QED BY <1>0, <3>2, <4>1 DEF CommitFailure, TypeOK, ApprovalStatus
    <3>3. CASE CommitDecision(s)
      BY <1>0, <3>3 DEF CommitDecision, TypeOK, ApprovalStatus
    <3> QED BY <1>4, <3>1, <3>2, <3>3
  <2>3. TypeOK'
    BY <1>0, <1>1, <1>2, <2>1, <2>2 DEF TypeOK
  <2>4. connector.claims =>
           \/ effects[v] = lost[v]
           \/ sess[s].exec \in Settled
           \/ connector.drafts /\ draft = Gone
    <3>1. CASE sess[s].pc = "succeeded"
      BY <1>0, <3>1 DEF SessionInv, Settled
    <3>2. CASE sess[s].pc = "failed"
      BY <1>0, <1>3, <3>2 DEF SessionInv, Settled
    <3> QED BY <1>4, <3>1, <3>2 DEF CommitReceipt, CommitFailure, CommitDecision
  <2> QED BY <1>0, <1>1, <1>2, <2>1, <2>2, <2>3, <2>4, CommitKeeps
<1>5. CASE CommitHalfDone(s)
  <2>1. /\ Lost(s) /\ sess[s].pc = "raising" /\ ~connector.atDecision
        /\ approval' = approval /\ run' = "running"
    BY <1>5 DEF CommitHalfDone
  <2>2. /\ lost' \in [Version -> 0 .. MaxCalls]
        /\ \A w \in Version \ {v} : lost'[w] = lost[w]
        /\ lost'[v] = lost[v] + (IF sess[s].called THEN 1 ELSE 0)
        /\ lost'[v] <= effects[v]
        /\ ~sess[s].called => lost' = lost
    BY <2>1, LostType
  <2>3. TypeOK'
    BY <1>0, <1>1, <1>2, <2>1, <2>2 DEF TypeOK
  <2>4. connector.claims =>
           \/ effects[v] = lost'[v]
           \/ connector.drafts /\ draft = Gone
    <3>1. CASE sess[s].called
      BY <1>0, <2>2, <3>1 DEF SessionInv
    <3>2. CASE ~sess[s].called
      BY <1>0, <1>3, <2>1, <2>2, <3>2 DEF SessionInv
    <3> QED BY <3>1, <3>2
  <2> QED BY <1>0, <1>1, <1>2, <2>1, <2>2, <2>3, <2>4, CommitKeeps
<1> QED BY <1>4, <1>5

\* A session without the lock is over: nobody else notices.
LEMMA EndsKeep ==
  ASSUME EffectInv, NEW s \in Sessions, sess[s].pc \notin Working \cup {"editing"},
         sess' = [sess EXCEPT ![s] = IdleSession], TypeOK',
         UNCHANGED << connector, approval, pending, execution, draft, lock, effects, lost >>
  PROVE  EffectInv'
<1>1. /\ sess'[s] = IdleSession
      /\ \A t \in Sessions \ {s} : sess'[t] = sess[t]
  BY DEF EffectInv, TypeOK
<1>2. SessionInv(s)'
  BY <1>1, IdleSessionType DEF SessionInv, Working
<1>3. \A t \in Sessions \ {s} : SessionInv(t)'
  BY <1>1, Kept DEF EffectInv
<1>4. CurrentVersion' /\ OpenDecision'
  BY DEF EffectInv, CurrentVersion, OpenDecision
<1>5. Accounted'
  <2>1. \A t \in Sessions, v \in Version : Knows(t, v) => Knows(t, v)'
    BY <1>1 DEF Knows
  <2> QED BY <2>1 DEF EffectInv, Accounted
<1> QED BY <1>2, <1>3, <1>4, <1>5 DEF EffectInv

LEMMA EndKeeps ==
  ASSUME EffectInv, NEW s \in Sessions,
         FinishRun(s) \/ CrashAfterReceipt(s) \/ CommitUpdate(s)
  PROVE  EffectInv'
<1> USE DEF rows, mailbox, history
<1>1. sess' = [sess EXCEPT ![s] = IdleSession] /\ sess[s].pc \in { "finishing", "updating" }
  BY DEF FinishRun, CrashAfterReceipt, CommitUpdate
<1>2. sess' \in [Sessions -> Session]
  BY <1>1, IdleSessionType DEF EffectInv, TypeOK
<1>3. TypeOK'
  BY <1>2, ConstantsAssumption DEF FinishRun, CrashAfterReceipt, CommitUpdate, EffectInv, TypeOK, Foreign
<1>4. UNCHANGED << connector, approval, pending, execution, draft, lock, effects, lost >>
  BY DEF FinishRun, CrashAfterReceipt, CommitUpdate
<1> QED BY <1>1, <1>3, <1>4, EndsKeep DEF Working

LEMMA RollBackKeeps == ASSUME EffectInv, NEW s \in Sessions, RollBack(s) PROVE EffectInv'
<1> DEFINE v == sess[s].v
<1> USE DEF rows, mailbox, history
<1>0. /\ TypeOK /\ SessionInv(s) /\ v \in Version
      /\ sess[s].pc # "finishing"
      /\ lock' = (IF lock = s THEN Nobody ELSE lock)
      /\ sess' = [sess EXCEPT ![s] = IdleSession]
      /\ UNCHANGED << connector, rows, expired, mailbox, recorded, effects, sent >>
  BY DEF RollBack, EffectInv, TypeOK, Session
<1>1. /\ lost' \in [Version -> 0 .. MaxCalls]
      /\ \A w \in Version \ {v} : lost'[w] = lost[w]
      /\ lost'[v] = lost[v] + (IF sess[s].called THEN 1 ELSE 0)
      /\ lost'[v] <= effects[v]
      /\ sess[s].called => sess[s].pc \in Working
      /\ ~sess[s].called => lost' = lost
  BY <1>0, LostType DEF RollBack
<1>2. /\ sess' \in [Sessions -> Session]
      /\ sess'[s] = IdleSession
      /\ \A t \in Sessions \ {s} : sess'[t] = sess[t]
  BY <1>0, IdleSessionType DEF TypeOK
<1>3. TypeOK'
  BY <1>0, <1>1, <1>2 DEF TypeOK
<1>4. CASE lock # s
  <2>1. sess[s].pc \notin Working \cup {"editing"} /\ ~sess[s].called
    BY <1>0, <1>1, <1>4 DEF SessionInv
  <2> QED BY <1>0, <1>1, <1>3, <1>4, <2>1, EndsKeep
<1>5. CASE lock = s
  <2>1. SessionInv(s)'
    BY <1>2, IdleSessionType DEF SessionInv, Working
  <2>2. ASSUME NEW t \in Sessions \ {s} PROVE SessionInv(t)'
    <3>1. sess[t].pc \notin Working \cup {"editing"} /\ SessionInv(t)
      BY <1>5, OthersIdle DEF EffectInv
    <3> QED BY <1>0, <1>2, <3>1, Idler
  <2>3. CurrentVersion' /\ OpenDecision'
    BY <1>0 DEF EffectInv, CurrentVersion, OpenDecision
  <2>4. Accounted'
    <3> SUFFICES ASSUME NEW w \in Version
                 PROVE  /\ lost'[w] <= effects[w]
                        /\ connector.claims =>
                             \/ effects[w] = lost'[w]
                             \/ execution[w] \in Settled
                             \/ connector.drafts /\ draft = Gone
      BY <1>0 DEF Accounted
    <3>1. /\ lost[w] <= effects[w]
          /\ connector.claims =>
               \/ effects[w] = lost[w]
               \/ execution[w] \in Settled
               \/ connector.drafts /\ draft = Gone
               \/ \E t \in Sessions : Knows(t, w)
      BY DEF EffectInv, Accounted
    <3>2. \A t \in Sessions : Knows(t, w) => t = s /\ sess[s].called /\ w = v
      BY <1>5, OneKnows DEF Knows
    <3>3. CASE w = v /\ sess[s].called
      BY <1>0, <1>1, <3>3 DEF SessionInv
    <3>4. CASE ~(w = v /\ sess[s].called)
      BY <1>1, <3>1, <3>2, <3>4
    <3> QED BY <3>3, <3>4
  <2> QED BY <1>3, <2>1, <2>2, <2>3, <2>4 DEF EffectInv
<1> QED BY <1>4, <1>5

------------------------------------------------------------------------------
\* Edits, and the owner of the mailbox.

LEMMA StartEditKeeps ==
  ASSUME EffectInv, NEW s \in Sessions, NEW v \in Version, StartEdit(s, v)
  PROVE  EffectInv'
<1> DEFINE new == [IdleSession EXCEPT !.pc = "editing", !.v = v]
           ss == [sess EXCEPT ![s] = new]
<1> USE DEF rows, mailbox, history
<1>0. /\ TypeOK /\ connector = Gmail /\ ~connector.atDecision /\ v < MaxVersions
      /\ sess[s].pc = "idle" /\ approval[v] = "pending" /\ draft # Gone
      /\ lock = Nobody /\ lock' = s /\ draft' = v + 1
      /\ sess' = Disturbed(ss)
      /\ UNCHANGED << connector, rows, expired, thread, recorded, history >>
  BY ConnectorFacts DEF StartEdit, EffectInv, TypeOK
<1>1. new \in Session /\ new.pc = "editing" /\ new.v = v /\ ~new.called
  BY IdleSessionType DEF Session, IdleSession
<1> HIDE DEF new
<1>2. /\ ss \in [Sessions -> Session] /\ ss[s] = new
      /\ \A t \in Sessions \ {s} : ss[t] = sess[t]
  BY <1>0, <1>1 DEF TypeOK
<1> HIDE DEF ss
<1>3. ASSUME NEW t \in Sessions \ {s}
      PROVE  sess[t].pc \notin Working \cup {"editing"} /\ SessionInv(t)
  <2>1. SessionInv(t)
    BY DEF EffectInv
  <2>2. lock \in {s, Nobody}
    BY <1>0
  <2> QED BY <2>1, <2>2, OthersIdle
<1>4. /\ sess' \in [Sessions -> Session]
      /\ sess'[s] = new
      /\ \A t \in Sessions \ {s} : sess'[t] = sess[t]
  BY <1>0, <1>1, <1>2, <1>3, DisturbedType DEF Working
<1>5. TypeOK'
  <2>1. v + 1 \in 0 .. Gone
    BY ConstantsAssumption DEF Version, Gone
  <2> QED BY <1>0, <1>4, <2>1 DEF TypeOK
<1>6. SessionInv(s)'
  BY <1>0, <1>1, <1>4 DEF SessionInv, Working
<1>7. \A t \in Sessions \ {s} : SessionInv(t)'
  BY <1>0, <1>3, <1>4, Idler
<1>8. CurrentVersion' /\ OpenDecision'
  BY <1>0 DEF EffectInv, CurrentVersion, OpenDecision
<1>9. Accounted'
  <2>1. \A t \in Sessions, w \in Version : ~Knows(t, w)
    BY <1>0, <1>3 DEF Knows, Working
  <2> QED BY <1>0, <2>1 DEF EffectInv, Accounted
<1> QED BY <1>5, <1>6, <1>7, <1>8, <1>9 DEF EffectInv

LEMMA CommitEditKeeps == ASSUME EffectInv, NEW s \in Sessions, CommitEdit(s) PROVE EffectInv'
<1> DEFINE v == sess[s].v
<1> USE DEF rows, mailbox, history
<1>0. /\ TypeOK /\ SessionInv(s) /\ v \in Version /\ lock = s
      /\ ~connector.atDecision /\ approval[v] = "pending" /\ v < MaxVersions
  BY ConnectorFacts DEF CommitEdit, EffectInv, TypeOK, Session, SessionInv
<1>1. /\ approval' = [approval EXCEPT ![v] = "invalidated", ![v + 1] = "pending"]
      /\ recorded' = v + 1 /\ pending' = v + 1 /\ lock' = Nobody
      /\ sess' = [sess EXCEPT ![s] = IdleSession]
      /\ UNCHANGED << connector, consumed, run, execution, expired, mailbox, history >>
  BY DEF CommitEdit
<1>2. v = pending /\ v + 1 \in Version /\ v \in Nat
  <2>1. v \in Nat /\ pending \in Nat /\ v + 1 \in Version
    BY <1>0, ConstantsAssumption DEF TypeOK, Version
  <2>2. ~(v < pending) /\ ~(v > pending)
    BY <1>0 DEF EffectInv, CurrentVersion
  <2> QED BY <2>1, <2>2
<1>3. approval[v + 1] = "absent"
  BY <1>2 DEF EffectInv, CurrentVersion, Version
<1>4. /\ approval' \in [Version -> ApprovalStatus]
      /\ approval'[v] = "invalidated" /\ approval'[v + 1] = "pending"
      /\ \A w \in Version \ {v, v + 1} : approval'[w] = approval[w]
  BY <1>0, <1>1, <1>2 DEF TypeOK, ApprovalStatus
<1>5. /\ sess' \in [Sessions -> Session]
      /\ sess'[s] = IdleSession
      /\ \A t \in Sessions \ {s} : sess'[t] = sess[t]
  BY <1>0, <1>1, IdleSessionType DEF TypeOK
<1>6. TypeOK'
  <2>1. v + 1 \in 0 .. MaxVersions
    BY <1>2 DEF Version
  <2>2. lock' \in Sessions \cup {Nobody}
    BY <1>1
  <2> QED BY <1>0, <1>1, <1>2, <1>4, <1>5, <2>1, <2>2 DEF TypeOK
<1>7. SessionInv(s)'
  BY <1>5, IdleSessionType DEF SessionInv, Working
<1>8. ASSUME NEW t \in Sessions \ {s} PROVE SessionInv(t)'
  <2>1. sess[t].pc \notin Working \cup {"editing"} /\ SessionInv(t) /\ sess[t].v \in Version
    BY <1>0, OthersIdle DEF EffectInv, TypeOK, Session
  <2>2. CASE sess[t].pc \in { "idle", "updating" }
    BY <1>0, <1>1, <1>5, <2>1, <2>2 DEF SessionInv, Working
  <2>3. CASE sess[t].pc \notin { "idle", "updating" }
    <3>1. approval[sess[t].v] \in { "approved", "stale" }
      BY <1>0, <2>1, <2>3 DEF SessionInv
    <3>2. sess[t].v # v /\ sess[t].v # v + 1
      BY <1>0, <1>3, <3>1
    <3> QED BY <1>1, <1>4, <1>5, <2>1, <3>2, Idler
  <2> QED BY <2>2, <2>3
<1>9. CurrentVersion'
  BY <1>1, <1>2, <1>4 DEF EffectInv, CurrentVersion, Version
<1>10. OpenDecision'
  BY <1>0, <1>1 DEF OpenDecision
<1>11. Accounted'
  <2>1. \A t \in Sessions, w \in Version : ~Knows(t, w)
    <3>1. ~sess[s].called
      BY <1>0 DEF CommitEdit, SessionInv
    <3> QED BY <1>0, <3>1, OneKnows DEF Knows
  <2> QED BY <1>1, <2>1 DEF EffectInv, Accounted
<1> QED BY <1>6, <1>7, <1>8, <1>9, <1>10, <1>11 DEF EffectInv

LEMMA UpdateKeeps ==
  ASSUME EffectInv, OwnerTouchesDraft \/ \E s \in Sessions : StartUpdate(s)
  PROVE  EffectInv'
<1> USE DEF rows, mailbox, history
<1>0. /\ TypeOK /\ draft # Gone /\ draft' \in { Foreign, Gone } /\ ~connector.atDecision
      /\ UNCHANGED << connector, rows, expired, thread, recorded, lock, history >>
  BY ConnectorFacts DEF OwnerTouchesDraft, StartUpdate, EffectInv, TypeOK
<1>1. PICK ss \in [Sessions -> Session] :
        /\ sess' = Disturbed(ss)
        /\ \A t \in Sessions :
             \/ ss[t] = sess[t]
             \/ /\ sess[t].pc = "idle" /\ ss[t].pc = "updating" /\ ~ss[t].called
  <2>1. CASE OwnerTouchesDraft
    BY <1>0, <2>1 DEF OwnerTouchesDraft, TypeOK
  <2>2. ASSUME NEW s \in Sessions, StartUpdate(s)
        PROVE  \E ss \in [Sessions -> Session] :
                 /\ sess' = Disturbed(ss)
                 /\ \A t \in Sessions :
                      \/ ss[t] = sess[t]
                      \/ /\ sess[t].pc = "idle" /\ ss[t].pc = "updating" /\ ~ss[t].called
    <3> DEFINE new == [sess[s] EXCEPT !.pc = "updating"]
    <3>1. sess[s] \in Session /\ sess[s].pc = "idle" /\ ~sess[s].called
      BY <1>0, <2>2 DEF StartUpdate, TypeOK, EffectInv, SessionInv
    <3>2. new \in Session /\ new.pc = "updating" /\ ~new.called
      BY <3>1 DEF Session
    <3>3. sess' = Disturbed([sess EXCEPT ![s] = new])
      BY <2>2 DEF StartUpdate
    <3> HIDE DEF new
    <3> DEFINE given == [sess EXCEPT ![s] = new]
    <3>4. /\ given \in [Sessions -> Session]
          /\ given[s] = new
          /\ \A t \in Sessions \ {s} : given[t] = sess[t]
      BY <1>0, <3>2 DEF TypeOK
    <3>5. sess' = Disturbed(given)
      BY <3>3
    <3> HIDE DEF given
    <3> QED BY <3>1, <3>2, <3>4, <3>5
  <2> QED BY <2>1, <2>2
<1>2. /\ sess' \in [Sessions -> Session]
      /\ \A t \in Sessions :
           /\ sess'[t].pc = ss[t].pc /\ sess'[t].exec = ss[t].exec /\ sess'[t].v = ss[t].v
           /\ sess'[t].called = ss[t].called
           /\ sess'[t].pc # "sending" => sess'[t] = ss[t]
  BY <1>1, DisturbedType
<1>3. TypeOK'
  <2>1. Foreign \in 0 .. Gone /\ Gone \in 0 .. Gone
    BY ConstantsAssumption DEF Foreign, Gone
  <2> QED BY <1>0, <1>2, <2>1 DEF TypeOK
<1>4. ASSUME NEW t \in Sessions PROVE SessionInv(t)'
  <2>1. SessionInv(t)
    BY DEF EffectInv
  <2>2. CASE ss[t] = sess[t]
    BY <1>0, <1>2, <2>1, <2>2, Kept
  <2>3. CASE sess[t].pc = "idle" /\ ss[t].pc = "updating" /\ ~ss[t].called
    BY <1>0, <1>2, <2>3 DEF SessionInv, Working
  <2> QED BY <1>1, <2>2, <2>3
<1>5. CurrentVersion' /\ OpenDecision'
  BY <1>0 DEF EffectInv, CurrentVersion, OpenDecision
<1>6. Accounted'
  <2>1. \A t \in Sessions, v \in Version : Knows(t, v) => Knows(t, v)'
    BY <1>1, <1>2 DEF Knows, Working
  <2> QED BY <1>0, <2>1 DEF EffectInv, Accounted
<1> QED BY <1>3, <1>4, <1>5, <1>6 DEF EffectInv

LEMMA NextKeeps == EffectInv /\ [Next]_vars => EffectInv'
<1> SUFFICES ASSUME EffectInv, [Next]_vars PROVE EffectInv'
  OBVIOUS
<1>1. CASE DecisionStep \/ RejectRun \/ ThreadMoves \/ (\E v \in Version : Expire(v))
  BY <1>1, DecisionKeeps
<1>2. ASSUME NEW s \in Sessions, ResumeStep(s) PROVE EffectInv'
  BY <1>2, LoadKeeps, ExecuteKeeps, PrepareKeeps DEF ResumeStep
<1>3. ASSUME NEW s \in Sessions, NEW v \in Version, DecideAndCall(s, v) PROVE EffectInv'
  BY <1>3, DecideAndCallKeeps
<1>4. ASSUME NEW s \in Sessions, CallStep(s) PROVE EffectInv'
  BY <1>4, CallKeeps
<1>5. ASSUME NEW s \in Sessions, EndStep(s) PROVE EffectInv'
  BY <1>5, CommitsKeep, EndKeeps, RollBackKeeps DEF EndStep
<1>6. ASSUME NEW s \in Sessions, EditStep(s) PROVE EffectInv'
  BY <1>6, StartEditKeeps, CommitEditKeeps, UpdateKeeps, EndKeeps DEF EditStep
<1>7. CASE OwnerTouchesDraft
  BY <1>7, UpdateKeeps
<1>8. CASE UNCHANGED vars
  <2>1. \A s \in Sessions : SessionInv(s)'
    BY <1>8 DEF EffectInv, SessionInv, vars, rows, history, mailbox
  <2>2. TypeOK' /\ CurrentVersion' /\ OpenDecision' /\ Accounted'
    BY <1>8 DEF EffectInv, TypeOK, CurrentVersion, OpenDecision, Accounted, Knows, vars, rows,
       history, mailbox
  <2> QED BY <2>1, <2>2 DEF EffectInv
<1> QED BY <1>1, <1>2, <1>3, <1>4, <1>5, <1>6, <1>7, <1>8 DEF Next, WorldStep

LEMMA EffectInvariant == Spec => []EffectInv
  BY InitEffectInv, NextKeeps, PTL DEF Spec

\* Every reachable state of an effect is well typed: no more calls are lost than took effect.
THEOREM TypeCorrect == Spec => []TypeOK
  BY EffectInvariant, PTL DEF EffectInv

\* After any sequence of edits and decisions the run waits for the version people see.
THEOREM AwaitsCurrentVersion == Spec => []RunAwaitsCurrentVersion
<1>1. EffectInv => RunAwaitsCurrentVersion
  BY DEF EffectInv, CurrentVersion, RunAwaitsCurrentVersion, TypeOK, Version
<1> QED BY <1>1, EffectInvariant, PTL

------------------------------------------------------------------------------
\* The outcome of an attempt.

LEMMA OutcomeKept ==
  ASSUME EffectInv, [Next]_vars, NEW v \in Version, connector.claims, execution[v] \in Settled
  PROVE  execution'[v] = execution[v] /\ effects'[v] = effects[v]
<1> USE DEF rows, history
<1>1. CASE DecisionStep \/ RejectRun \/ WorldStep \/ UNCHANGED vars
  BY <1>1 DEF DecisionStep, Approve, DecideTooLate, Reject, RejectRun, WorldStep, Expire,
     ThreadMoves, OwnerTouchesDraft, vars
<1>2. ASSUME NEW s \in Sessions,
             ResumeStep(s) \/ EditStep(s) \/ (\E w \in Version : DecideAndCall(s, w))
             \/ FinishRun(s) \/ RollBack(s) \/ CrashAfterReceipt(s)
      PROVE  execution' = execution /\ effects' = effects
  BY <1>2 DEF ResumeStep, Load, Execute, Reconcile, Prepare, PrepareRaises, EditStep, StartEdit,
     CommitEdit, StartUpdate, CommitUpdate, DecideAndCall, FinishRun, RollBack, CrashAfterReceipt
<1>3. ASSUME NEW s \in Sessions, CallStep(s)
      PROVE  execution'[v] = execution[v] /\ effects'[v] = effects[v]
  <2>1. sess[s].pc = "sending" /\ execution' = execution
    BY <1>3 DEF CallStep, CallSucceeds, CallFails, CallFindsNoDraft, CallRaises
  <2>2. sess[s].v # v
    BY <2>1, NotSettled
  <2>3. effects' = effects \/ Performed(s)
    BY <1>3 DEF CallStep, CallSucceeds, CallFails, CallFindsNoDraft, CallRaises, NotPerformed
  <2>4. Performed(s) => effects'[v] = effects[v]
    BY <2>2, PerformedType DEF EffectInv
  <2> QED BY <2>1, <2>3, <2>4
<1>4. ASSUME NEW s \in Sessions,
             CommitReceipt(s) \/ CommitFailure(s) \/ CommitDecision(s) \/ CommitHalfDone(s)
      PROVE  execution'[v] = execution[v] /\ effects'[v] = effects[v]
  <2>1. /\ effects' = effects /\ sess[s].pc \in { "succeeded", "failed", "raising" }
        /\ execution' = [execution EXCEPT ![sess[s].v] = sess[s].exec]
    BY <1>4 DEF CommitReceipt, CommitFailure, CommitDecision, CommitHalfDone, Write
  <2>2. sess[s].v = v => sess[s].exec = execution[v]
    BY <2>1 DEF EffectInv, SessionInv, Working
  <2> QED BY <2>1, <2>2 DEF EffectInv, TypeOK
<1> QED BY <1>1, <1>2, <1>3, <1>4 DEF Next, EndStep

\* No later session changes an outcome on record, or performs the effect again: for any
\* connectors, any number of sessions and any faults.
THEOREM OutcomeStays == Spec => OutcomeIsFinal
<1>1. EffectInv /\ [Next]_vars =>
        [\A v \in Version :
           connector.claims /\ execution[v] \in Settled =>
             execution'[v] = execution[v] /\ effects'[v] = effects[v]]_vars
  BY OutcomeKept
<1> QED BY <1>1, EffectInvariant, PTL DEF Spec, OutcomeIsFinal

------------------------------------------------------------------------------
\* What approval promises.

\* The versions that may be performed, as the refinement has them.
Granted == { v \in Version : approval[v] = "approved" \/ InHand(v) }

PromiseStep == [Promise!Next]_(Promise!vars)

LEMMA PromiseStutters ==
  ASSUME Granted' = Granted, UNCHANGED << effects, lost >> PROVE PromiseStep
  BY DEF Granted, PromiseStep, Promise!vars

LEMMA PromiseGrants ==
  ASSUME NEW v \in Version, Granted' = Granted \cup {v}, UNCHANGED << effects, lost >>
  PROVE  PromiseStep
<1>1. Promise!Grant(v)
  BY DEF Promise!Grant, Granted
<1> QED BY <1>1 DEF PromiseStep, Promise!Next

LEMMA PromiseWithdraws ==
  ASSUME NEW v \in Version, Granted' \in { Granted, Granted \ {v} }, UNCHANGED << effects, lost >>
  PROVE  PromiseStep
<1>1. CASE Granted' = Granted \ {v}
  <2>1. Promise!Withdraw(v)
    BY <1>1 DEF Promise!Withdraw, Granted
  <2> QED BY <2>1 DEF PromiseStep, Promise!Next
<1>2. CASE Granted' = Granted
  BY <1>2, PromiseStutters
<1> QED BY <1>1, <1>2

LEMMA PromisePerforms ==
  ASSUME NEW v \in Version, v \in Granted, effects[v] = lost[v],
         effects' = [effects EXCEPT ![v] = @ + 1], Granted' = Granted, lost' = lost
  PROVE  PromiseStep
<1>1. Promise!Perform(v)
  BY DEF Promise!Perform, Granted
<1> QED BY <1>1 DEF PromiseStep, Promise!Next

LEMMA PromiseLoses ==
  ASSUME NEW v \in Version, Granted' \in { Granted, Granted \ {v} }, lost[v] < effects[v],
         lost' = [lost EXCEPT ![v] = @ + 1], effects' = effects
  PROVE  PromiseStep
<1>1. Promise!Lose(v)
  BY DEF Promise!Lose, Granted
<1> QED BY <1>1 DEF PromiseStep, Promise!Next

\* Where a session has nothing in hand.
Out == { "idle", "finishing", "editing", "updating" }

\* Nothing comes into a hand or out of one.
LEMMA SameHands ==
  ASSUME \A t \in Sessions :
           /\ sess'[t].pc \in Out <=> sess[t].pc \in Out
           /\ sess[t].pc \notin Out => sess'[t].v = sess[t].v,
         \A v \in Version : approval'[v] = "approved" <=> approval[v] = "approved"
  PROVE  Granted' = Granted
<1>1. \A v \in Version : InHand(v)' <=> InHand(v)
  BY DEF InHand, Out
<1> QED BY <1>1 DEF Granted

\* One session takes a version in hand.
LEMMA TakesInHand ==
  ASSUME NEW s \in Sessions, sess[s].pc \in Out, sess'[s].pc \notin Out, sess'[s].v \in Version,
         \A t \in Sessions \ {s} : sess'[t] = sess[t], approval' = approval
  PROVE  Granted' = Granted \cup { sess'[s].v }
<1>1. \A v \in Version : InHand(v)' <=> InHand(v) \/ v = sess'[s].v
  BY DEF InHand, Out
<1> QED BY <1>1 DEF Granted

\* One session lets go of its version, whose approval may change with that.
LEMMA LetsGo ==
  ASSUME NEW s \in Sessions, sess[s].v \in Version, sess[s].pc \notin Out, sess'[s].pc \in Out,
         \A t \in Sessions \ {s} : sess'[t] = sess[t],
         \A w \in Version \ { sess[s].v } : approval'[w] = approval[w]
  PROVE  Granted' \in { Granted, Granted \ { sess[s].v } }
<1>1. \A w \in Version \ { sess[s].v } : InHand(w)' <=> InHand(w)
  BY DEF InHand, Out
<1>2. \A w \in Version \ { sess[s].v } : w \in Granted' <=> w \in Granted
  BY <1>1 DEF Granted
<1>3. sess[s].v \in Granted
  BY DEF Granted, InHand, Out
<1>4. Granted \subseteq Version /\ Granted' \subseteq Version
  BY DEF Granted
<1> QED BY <1>2, <1>3, <1>4

LEMMA ResumeRefines ==
  ASSUME EffectInv, NEW s \in Sessions,
         ResumeStep(s) \/ (\E v \in Version : DecideAndCall(s, v))
  PROVE  PromiseStep
<1> USE DEF rows, history
<1>0. sess \in [Sessions -> Session] /\ UNCHANGED << approval, effects, lost >>
  BY DEF EffectInv, TypeOK, ResumeStep, Load, Execute, Reconcile, Prepare, PrepareRaises, DecideAndCall
<1>1. CASE Load(s) \/ \E v \in Version : DecideAndCall(s, v)
  <2>0. PICK v \in Version : \E new :
          /\ sess' = [sess EXCEPT ![s] = new]
          /\ new.v = v /\ new.pc \in { "loaded", "sending" }
          /\ sess[s].pc = "idle"
    <3>1. CASE Load(s)
      <4>1. pending \in Version
        BY DEF EffectInv, TypeOK
      <4>2. [IdleSession EXCEPT !.pc = "loaded", !.v = pending].v = pending
        BY DEF IdleSession
      <4>3. [IdleSession EXCEPT !.pc = "loaded", !.v = pending].pc = "loaded"
        BY DEF IdleSession
      <4> QED BY <3>1, <4>1, <4>2, <4>3 DEF Load
    <3>2. ASSUME NEW v \in Version, DecideAndCall(s, v)
          PROVE  \E new : /\ sess' = [sess EXCEPT ![s] = new]
                          /\ new.v = v /\ new.pc \in { "loaded", "sending" }
                          /\ sess[s].pc = "idle"
      <4> DEFINE new == [IdleSession EXCEPT !.pc = "sending", !.v = v, !.exec = "sending"]
      <4>1. new.v = v /\ new.pc = "sending"
        BY DEF IdleSession
      <4>2. sess' = [sess EXCEPT ![s] = new] /\ sess[s].pc = "idle"
        BY <3>2 DEF DecideAndCall
      <4> HIDE DEF new
      <4> QED BY <4>1, <4>2
    <3> QED BY <1>1, <3>1, <3>2
  <2>1. PICK new :
          /\ sess' = [sess EXCEPT ![s] = new]
          /\ new.v = v /\ new.pc \in { "loaded", "sending" }
          /\ sess[s].pc = "idle"
    BY <2>0
  <2>2. sess'[s] = new /\ \A t \in Sessions \ {s} : sess'[t] = sess[t]
    BY <1>0, <2>1
  <2>3. sess[s].pc \in Out /\ sess'[s].pc \notin Out /\ sess'[s].v = v
    BY <2>1, <2>2 DEF Out
  <2>4. Granted' = Granted \cup {v}
    BY <1>0, <2>2, <2>3, TakesInHand
  <2> QED BY <1>0, <2>4, PromiseGrants
<1>2. CASE Execute(s) \/ Reconcile(s) \/ Prepare(s) \/ PrepareRaises(s)
  <2>1. sess[s].pc \notin Out
    BY <1>2 DEF Execute, Reconcile, Prepare, PrepareRaises, Out
  <2> DEFINE Stays == /\ sess'[s].pc \notin Out /\ sess'[s].v = sess[s].v
                      /\ \A t \in Sessions \ {s} : sess'[t] = sess[t]
  <2>2. ASSUME NEW pc, NEW exec, Goes(s, pc, exec), pc \notin Out PROVE Stays
    BY <1>0, <2>2 DEF Goes, Session
  <2>3. Stays
    <3> HIDE DEF Stays
    <3>1. /\ "claimed" \notin Out /\ "succeeded" \notin Out /\ "failed" \notin Out
          /\ "sending" \notin Out /\ "reconciled" \notin Out /\ "raising" \notin Out
      BY DEF Out
    <3>2. CASE Execute(s)
      BY <2>2, <3>1, <3>2 DEF Execute, Claim
    <3>3. CASE Reconcile(s) \/ PrepareRaises(s)
      BY <2>2, <3>1, <3>3 DEF Reconcile, PrepareRaises
    <3>4. CASE Prepare(s)
      <4>1. CASE sess' = [sess EXCEPT ![s].pc = "sending", ![s].exec = "sending",
                                      ![s].matched = draft = recorded]
        BY <1>0, <3>1, <4>1 DEF Session, Stays
      <4> QED BY <2>2, <3>1, <3>4, <4>1 DEF Prepare, CheckDraft
    <3> QED BY <1>2, <3>2, <3>3, <3>4
  <2>4. Granted' = Granted
    BY <1>0, <2>1, <2>3, SameHands
  <2> QED BY <1>0, <2>4, PromiseStutters
<1> QED BY <1>1, <1>2 DEF ResumeStep

LEMMA CallRefines ==
  ASSUME EffectInv, connector.claims, NEW s \in Sessions, CallStep(s)
  PROVE  PromiseStep
<1> USE DEF rows
<1>0. /\ sess[s].pc = "sending" /\ sess \in [Sessions -> Session] /\ sess[s].v \in Version
      /\ UNCHANGED << approval, lost >>
  BY DEF CallStep, CallSucceeds, CallFails, CallFindsNoDraft, CallRaises, EffectInv, TypeOK, Session
<1>1. PICK pc \in { "succeeded", "failed", "raising" } : \E exec, called : Answered(s, pc, exec, called)
  BY DEF CallStep, CallSucceeds, CallFails, CallFindsNoDraft, CallRaises, AfterSuccess, AfterError
<1>2. /\ sess'[s].pc = pc /\ sess'[s].v = sess[s].v
      /\ \A t \in Sessions \ {s} : sess'[t] = sess[t]
  BY <1>0, <1>1 DEF Answered, Session
<1>3. Granted' = Granted
  BY <1>0, <1>2, SameHands DEF Out
<1>4. CASE NotPerformed(s)
  BY <1>0, <1>3, <1>4, PromiseStutters DEF NotPerformed
<1>5. CASE Performed(s)
  <2>1. effects[sess[s].v] = lost[sess[s].v]
    BY <1>0, <1>5, CallIsFresh DEF Performed
  <2>2. sess[s].v \in Granted
    BY <1>0 DEF Granted, InHand
  <2> QED BY <1>0, <1>3, <1>5, <2>1, <2>2, PromisePerforms DEF Performed
<1> QED BY <1>4, <1>5 DEF CallStep, CallSucceeds, CallFails, CallFindsNoDraft, CallRaises

\* A session that knows of its call has not told anybody; who knows nothing loses nothing.
LEMMA EndRefines ==
  ASSUME EffectInv, NEW s \in Sessions, EndStep(s)
  PROVE  PromiseStep
<1> USE DEF rows, history
<1> DEFINE v == sess[s].v
<1>0. /\ SessionInv(s) /\ sess \in [Sessions -> Session] /\ v \in Version
      /\ approval \in [Version -> ApprovalStatus] /\ effects' = effects
      /\ lost \in [Version -> 0 .. MaxCalls]
  BY DEF EffectInv, TypeOK, Session, EndStep, CommitReceipt, FinishRun, CommitFailure,
     CommitDecision, CommitHalfDone, RollBack, CrashAfterReceipt
<1>1. /\ sess'[s].pc \in Out
      /\ \A t \in Sessions \ {s} : sess'[t] = sess[t]
  <2>1. CASE CommitReceipt(s)
    BY <1>0, <2>1 DEF CommitReceipt, Goes, Out, Session
  <2>2. CASE ~CommitReceipt(s)
    <3>1. sess' = [sess EXCEPT ![s] = IdleSession]
      BY <2>2 DEF EndStep, FinishRun, CommitFailure, CommitDecision, CommitHalfDone, RollBack,
         CrashAfterReceipt
    <3> QED BY <1>0, <3>1 DEF IdleSession, Out
  <2> QED BY <2>1, <2>2
<1>2. \A w \in Version \ {v} : approval'[w] = approval[w]
  BY <1>0 DEF EndStep, CommitReceipt, FinishRun, CommitFailure, CommitDecision, CommitHalfDone,
     RollBack, CrashAfterReceipt
<1>3. CASE sess[s].pc \notin Out
  <2>1. Granted' \in { Granted, Granted \ {v} }
    BY <1>0, <1>1, <1>2, <1>3, LetsGo
  <2>2. CASE lost' = lost
    BY <1>0, <2>1, <2>2, PromiseWithdraws
  <2>3. CASE lost' # lost
    <3>1. Lost(s)
      BY <2>3 DEF EndStep, CommitReceipt, FinishRun, CommitFailure, CommitDecision,
         CommitHalfDone, RollBack, CrashAfterReceipt
    <3>2. sess[s].called /\ sess[s].pc \in Working
      BY <1>0, <1>3, <2>3, <3>1, LostType DEF Out
    <3>3. lost[v] < effects[v]
      BY <1>0, <3>2 DEF SessionInv
    <3>4. lost' = [lost EXCEPT ![v] = @ + 1]
      BY <3>1, <3>2 DEF Lost
    <3> QED BY <1>0, <2>1, <3>3, <3>4, PromiseLoses
  <2> QED BY <2>2, <2>3
<1>4. CASE sess[s].pc \in Out
  <2>1. FinishRun(s) \/ RollBack(s) \/ CrashAfterReceipt(s)
    BY <1>4 DEF EndStep, CommitReceipt, CommitFailure, CommitDecision, CommitHalfDone, Out
  <2>2. approval' = approval
    BY <2>1 DEF FinishRun, RollBack, CrashAfterReceipt
  <2>3. lost' = lost
    <3>1. CASE RollBack(s)
      <4>1. Lost(s) /\ sess[s].pc # "finishing"
        BY <3>1 DEF RollBack
      <4>2. ~sess[s].called
        BY <1>0, <1>4, <4>1 DEF SessionInv, Out
      <4> QED BY <4>1, <4>2, LostType
    <3>2. CASE ~RollBack(s)
      BY <2>1, <3>2 DEF FinishRun, CrashAfterReceipt
    <3> QED BY <3>1, <3>2
  <2>4. Granted' = Granted
    BY <1>1, <1>4, <2>2, SameHands
  <2> QED BY <1>0, <2>3, <2>4, PromiseStutters
<1> QED BY <1>3, <1>4

LEMMA OthersRefine ==
  ASSUME EffectInv,
         \/ DecisionStep \/ RejectRun \/ WorldStep \/ UNCHANGED vars
         \/ \E s \in Sessions : EditStep(s)
  PROVE  PromiseStep
<1> USE DEF rows, history
<1>0. /\ sess \in [Sessions -> Session] /\ approval \in [Version -> ApprovalStatus]
      /\ UNCHANGED << effects, lost >>
  BY DEF EffectInv, TypeOK, DecisionStep, Approve, DecideTooLate, Reject, RejectRun, WorldStep,
     Expire, ThreadMoves, OwnerTouchesDraft, EditStep, StartEdit, CommitEdit, StartUpdate,
     CommitUpdate, vars
<1>1. ASSUME NEW v \in Version, Approve(v) PROVE PromiseStep
  <2>1. sess' = sess /\ approval' = [approval EXCEPT ![v] = "approved"]
    BY <1>1 DEF Approve
  <2>2. \A w \in Version : InHand(w)' <=> InHand(w)
    BY <2>1 DEF InHand
  <2>3. Granted' = Granted \cup {v}
    BY <1>0, <2>1, <2>2 DEF Granted
  <2> QED BY <1>0, <2>3, PromiseGrants
<1>2. CASE \/ \E v \in Version : DecideTooLate(v) \/ Reject(v) \/ Expire(v)
           \/ RejectRun \/ ThreadMoves \/ UNCHANGED vars
  <2>1. sess' = sess /\ \A w \in Version : approval'[w] = "approved" <=> approval[w] = "approved"
    BY <1>0, <1>2 DEF DecideTooLate, Reject, Expire, RejectRun, ThreadMoves, vars
  <2> QED BY <1>0, <2>1, SameHands, PromiseStutters
<1>3. CASE OwnerTouchesDraft \/ \E s \in Sessions : EditStep(s)
  <2>1. \A w \in Version : approval'[w] = "approved" <=> approval[w] = "approved"
    <3>1. ASSUME NEW s \in Sessions, CommitEdit(s)
          PROVE  \A w \in Version : approval'[w] = "approved" <=> approval[w] = "approved"
      <4>1. approval[sess[s].v] = "pending"
        BY <3>1 DEF CommitEdit, EffectInv, SessionInv
      <4>2. sess[s].v \in Version /\ pending \in Version
        BY <1>0 DEF EffectInv, TypeOK, Session
      <4>3. sess[s].v = pending
        BY <4>1, <4>2 DEF EffectInv, CurrentVersion, Version
      <4>4. sess[s].v + 1 \in Version => approval[sess[s].v + 1] = "absent"
        BY <4>2, <4>3 DEF EffectInv, CurrentVersion, Version
      <4>5. approval' = [approval EXCEPT ![sess[s].v] = "invalidated", ![sess[s].v + 1] = "pending"]
        BY <3>1 DEF CommitEdit
      <4> QED BY <1>0, <4>1, <4>4, <4>5
    <3> QED BY <1>3, <3>1 DEF OwnerTouchesDraft, EditStep, StartEdit, StartUpdate, CommitUpdate
  <2>2. PICK ss \in [Sessions -> Session] :
          /\ sess' = ss \/ sess' = Disturbed(ss)
          /\ \A t \in Sessions : ss[t] = sess[t] \/ (sess[t].pc \in Out /\ ss[t].pc \in Out)
    <3>1. CASE OwnerTouchesDraft
      BY <1>0, <3>1 DEF OwnerTouchesDraft
    <3>2. ASSUME NEW s \in Sessions, NEW new \in Session, sess[s].pc \in Out, new.pc \in Out,
                 sess' = [sess EXCEPT ![s] = new] \/ sess' = Disturbed([sess EXCEPT ![s] = new])
          PROVE  \E ss \in [Sessions -> Session] :
                   /\ sess' = ss \/ sess' = Disturbed(ss)
                   /\ \A t \in Sessions : ss[t] = sess[t] \/ (sess[t].pc \in Out /\ ss[t].pc \in Out)
      <4> DEFINE given == [sess EXCEPT ![s] = new]
      <4>1. /\ given \in [Sessions -> Session]
            /\ \A t \in Sessions : given[t] = sess[t] \/ (sess[t].pc \in Out /\ given[t].pc \in Out)
        BY <1>0, <3>2
      <4>2. sess' = given \/ sess' = Disturbed(given)
        BY <3>2
      <4> HIDE DEF given
      <4> QED BY <4>1, <4>2
    <3>3. ASSUME NEW s \in Sessions, CommitEdit(s) \/ CommitUpdate(s)
          PROVE  sess[s].pc \in Out /\ sess' = [sess EXCEPT ![s] = IdleSession]
      BY <3>3 DEF CommitEdit, CommitUpdate, Out
    <3>4. ASSUME NEW s \in Sessions, NEW v \in Version, StartEdit(s, v)
          PROVE  \E new \in Session : /\ sess[s].pc \in Out /\ new.pc \in Out
                                      /\ sess' = Disturbed([sess EXCEPT ![s] = new])
      <4> DEFINE new == [IdleSession EXCEPT !.pc = "editing", !.v = v]
      <4>1. new \in Session /\ new.pc \in Out
        BY IdleSessionType DEF Session, IdleSession, Out
      <4>2. sess[s].pc \in Out /\ sess' = Disturbed([sess EXCEPT ![s] = new])
        BY <3>4 DEF StartEdit, Out
      <4> HIDE DEF new
      <4> QED BY <4>1, <4>2
    <3>5. ASSUME NEW s \in Sessions, StartUpdate(s)
          PROVE  \E new \in Session : /\ sess[s].pc \in Out /\ new.pc \in Out
                                      /\ sess' = Disturbed([sess EXCEPT ![s] = new])
      <4> DEFINE new == [sess[s] EXCEPT !.pc = "updating"]
      <4>1. new \in Session /\ new.pc \in Out
        BY <1>0 DEF Session, Out
      <4>2. sess[s].pc \in Out /\ sess' = Disturbed([sess EXCEPT ![s] = new])
        BY <3>5 DEF StartUpdate, Out
      <4> HIDE DEF new
      <4> QED BY <4>1, <4>2
    <3>6. IdleSession \in Session /\ IdleSession.pc \in Out
      BY IdleSessionType DEF Out
    <3> QED BY <1>3, <3>1, <3>2, <3>3, <3>4, <3>5, <3>6 DEF EditStep
  <2>3. \A t \in Sessions : sess'[t].pc = ss[t].pc /\ sess'[t].v = ss[t].v
    BY <2>2, DisturbedType
  <2>4. Granted' = Granted
    BY <2>1, <2>2, <2>3, SameHands
  <2> QED BY <1>0, <2>4, PromiseStutters
<1> QED BY <1>1, <1>2, <1>3 DEF DecisionStep, WorldStep

\* What approval promises holds of every connector that claims an execution row before it
\* calls: for any number of sessions, versions and calls, and with any faults, an effect is
\* performed under a grant, and again only after the outcome of each earlier call was lost.
THEOREM PromiseKept ==
  ASSUME \A c \in Connectors : c.claims
  PROVE  Spec => KeepsPromise
<1>1. Init => Promise!Init
  <2> SUFFICES ASSUME Init PROVE Promise!Init
    OBVIOUS
  <2>1. \A v \in Version : approval[v] # "approved" /\ ~InHand(v)
    BY DEF Init, InHand, IdleSession
  <2>2. /\ effects = [v \in Version |-> 0]
        /\ lost = [v \in Version |-> 0]
    BY DEF Init
  <2> QED BY <2>1, <2>2 DEF Promise!Init
<1>2. EffectInv /\ [Next]_vars => PromiseStep
  <2> SUFFICES ASSUME EffectInv, [Next]_vars PROVE PromiseStep
    OBVIOUS
  <2>1. connector.claims
    BY DEF EffectInv, TypeOK
  <2> QED BY <2>1, ResumeRefines, CallRefines, EndRefines, OthersRefine DEF Next
<1> QED BY <1>1, <1>2, EffectInvariant, PTL DEF Spec, KeepsPromise, Promise!Spec, PromiseStep

------------------------------------------------------------------------------
\* What users see of an effect agrees with what happened: the execution row, the run's status
\* and the text that was sent.  The rows follow what sessions hold, so the invariant says of
\* a session's copy what the properties say of the rows.

\* A session that has "succeeded" in hand stands for a call, one that finishes the run has
\* its receipt on record, and one about to send believes of the draft what is so.
SessionRecord(s) ==
  LET v == sess[s].v IN
  /\ sess[s].exec = "succeeded" /\ ~connector.goneIsSent => effects[v] > 0
  /\ sess[s].pc = "finishing" /\ connector.claims => execution[v] = "succeeded"
  /\ sess[s].pc = "sending" /\ connector.drafts /\ sess[s].matched => draft = v

\* A run that is done waits for no decision, so no edit replaces its version.
DoneInv ==
  run = "done" /\ connector.claims =>
    execution[pending] = "succeeded" /\ approval[pending] # "pending"

RecordInv ==
  /\ \A s \in Sessions : SessionRecord(s)
  /\ SucceededWasPerformed
  /\ DoneInv
  /\ SentAsApproved

------------------------------------------------------------------------------

LEMMA InitRecord == ASSUME Init PROVE RecordInv
<1>1. \A s \in Sessions : sess[s] = IdleSession
  BY DEF Init
<1>2. \A s \in Sessions : SessionRecord(s)
  BY <1>1 DEF SessionRecord, IdleSession
<1>3. SucceededWasPerformed /\ DoneInv /\ SentAsApproved
  BY DEF Init, SucceededWasPerformed, DoneInv, SentAsApproved
<1> QED BY <1>2, <1>3 DEF RecordInv

\* A receipt on record stays.
LEMMA ReceiptKept ==
  ASSUME EffectInv, [Next]_vars, NEW v \in Version, connector.claims,
         execution[v] = "succeeded"
  PROVE  execution'[v] = "succeeded"
  BY OutcomeKept DEF Settled

\* A session keeps what it has in hand, or believes less of the draft.
LEMMA HandKept ==
  ASSUME EffectInv, NEW t \in Sessions, SessionRecord(t), [Next]_vars, connector' = connector,
         sess'[t].pc = sess[t].pc, sess'[t].v = sess[t].v, sess'[t].exec = sess[t].exec,
         \/ sess[t].pc # "sending"
         \/ ~sess'[t].matched
         \/ sess'[t].matched = sess[t].matched /\ draft' = draft,
         \A v \in Version : effects'[v] >= effects[v]
  PROVE  SessionRecord(t)'
<1>1. sess[t].v \in Version /\ effects[sess[t].v] \in 0 .. MaxCalls /\ MaxCalls \in Nat
  BY ConstantsAssumption DEF EffectInv, TypeOK, Session
<1>2. effects[sess[t].v] > 0 => effects'[sess[t].v] > 0
  <2>1. EffectInv'
    BY NextKeeps
  <2>2. effects'[sess[t].v] \in 0 .. MaxCalls
    BY <1>1, <2>1 DEF EffectInv, TypeOK
  <2>3. effects'[sess[t].v] >= effects[sess[t].v]
    BY <1>1
  <2> QED BY <1>1, <2>2, <2>3
<1>3. connector.claims /\ execution[sess[t].v] = "succeeded" => execution'[sess[t].v] = "succeeded"
  BY <1>1, ReceiptKept
<1> QED BY <1>2, <1>3 DEF SessionRecord

\* The session is over.
LEMMA IdleHand ==
  ASSUME NEW t \in Sessions, sess'[t] = IdleSession
  PROVE  SessionRecord(t)'
  BY DEF SessionRecord, IdleSession

\* Nothing is written but what does not matter.
LEMMA RecordKept ==
  ASSUME EffectInv, RecordInv, [Next]_vars, \A t \in Sessions : SessionRecord(t)',
         UNCHANGED << connector, execution, pending, effects, sent >>,
         run' = "done" => run = "done",
         approval'[pending] = "pending" => approval[pending] = "pending"
  PROVE  RecordInv'
<1>1. SucceededWasPerformed' /\ SentAsApproved'
  BY DEF RecordInv, SucceededWasPerformed, SentAsApproved
<1>2. DoneInv'
  BY DEF RecordInv, DoneInv
<1> QED BY <1>1, <1>2 DEF RecordInv

------------------------------------------------------------------------------
\* The decision and the world.

LEMMA DecisionRecord ==
  ASSUME EffectInv, RecordInv, [Next]_vars,
         \/ DecisionStep \/ RejectRun \/ ThreadMoves \/ (\E v \in Version : Expire(v))
         \/ UNCHANGED vars
  PROVE  RecordInv'
<1> USE DEF rows, mailbox, history
<1>1. UNCHANGED << connector, execution, pending, effects, sent, sess, draft >>
  BY DEF DecisionStep, Approve, DecideTooLate, Reject, RejectRun, ThreadMoves, Expire, vars
<1>2. run' = "done" => run = "done"
  BY DEF DecisionStep, Approve, DecideTooLate, Reject, RejectRun, ThreadMoves, Expire, vars
<1>3. approval'[pending] = "pending" => approval[pending] = "pending"
  <2>1. CASE DecisionStep
    <3>1. PICK v \in Version, to \in { "approved", "stale", "rejected" } :
            approval' = [approval EXCEPT ![v] = to]
      BY <2>1 DEF DecisionStep, Approve, DecideTooLate, Reject
    <3> QED BY <3>1 DEF EffectInv, TypeOK
  <2>2. CASE ~DecisionStep
    BY <2>2 DEF RejectRun, ThreadMoves, Expire, vars
  <2> QED BY <2>1, <2>2
<1>4. \A v \in Version : effects'[v] >= effects[v]
  <2>1. \A v \in Version : effects[v] \in 0 .. MaxCalls
    BY DEF EffectInv, TypeOK
  <2> QED BY <1>1, <2>1, ConstantsAssumption
<1>5. ASSUME NEW t \in Sessions PROVE SessionRecord(t)'
  BY <1>1, <1>4, HandKept DEF RecordInv
<1> QED BY <1>1, <1>2, <1>3, <1>5, RecordKept

------------------------------------------------------------------------------
\* Up to the call.

\* One session moves, and only in its own copies.
LEMMA OwnStep ==
  ASSUME EffectInv, RecordInv, [Next]_vars, NEW s \in Sessions,
         UNCHANGED << connector, rows, expired, mailbox, history >>,
         \A t \in Sessions \ {s} : sess'[t] = sess[t], SessionRecord(s)'
  PROVE  RecordInv'
<1> USE DEF rows, mailbox, history
<1>1. \A v \in Version : effects'[v] >= effects[v]
  <2>1. \A v \in Version : effects[v] \in 0 .. MaxCalls
    BY DEF EffectInv, TypeOK
  <2> QED BY <2>1, ConstantsAssumption
<1>2. \A t \in Sessions : SessionRecord(t)'
  BY <1>1, HandKept DEF RecordInv
<1> QED BY <1>2, RecordKept

\* A session goes on with the execution it has in hand, or with what the row says.
LEMMA OnwardRecord ==
  ASSUME EffectInv, RecordInv, [Next]_vars, NEW s \in Sessions,
         NEW pc \in { "claimed", "reconciled", "sending", "succeeded", "failed", "raising" },
         NEW exec \in ExecutionStatus, Goes(s, pc, exec),
         UNCHANGED << connector, rows, expired, mailbox, history >>,
         exec = "succeeded" => exec = sess[s].exec \/ exec = execution[sess[s].v],
         pc = "sending" => ~connector.drafts
  PROVE  RecordInv'
<1> USE DEF rows, mailbox, history
<1>1. /\ sess'[s].pc = pc /\ sess'[s].exec = exec /\ sess'[s].v = sess[s].v
      /\ \A t \in Sessions \ {s} : sess'[t] = sess[t]
  BY GoesType DEF EffectInv, TypeOK
<1>2. sess[s].v \in Version
  BY DEF EffectInv, TypeOK, Session
<1>3. exec = "succeeded" /\ ~connector.goneIsSent => effects[sess[s].v] > 0
  BY <1>2 DEF RecordInv, SessionRecord, SucceededWasPerformed
<1>4. SessionRecord(s)'
  BY <1>1, <1>3 DEF SessionRecord
<1> QED BY <1>1, <1>4, OwnStep

LEMMA ResumeRecord ==
  ASSUME EffectInv, RecordInv, [Next]_vars, NEW s \in Sessions,
         ResumeStep(s) \/ \E v \in Version : DecideAndCall(s, v)
  PROVE  RecordInv'
<1> DEFINE v == sess[s].v
<1> USE DEF rows, mailbox, history
<1>0. /\ sess \in [Sessions -> Session] /\ sess[s] \in Session /\ v \in Version
      /\ sess[s].exec \in ExecutionStatus /\ execution[v] \in ExecutionStatus
      /\ connector \in Profile /\ (connector.atDecision => ~connector.drafts)
      /\ (connector.drafts => connector.claims)
  BY ConnectorFacts DEF EffectInv, TypeOK, Session
<1>a. /\ UNCHANGED << connector, rows, expired, mailbox, history >>
  BY DEF ResumeStep, Load, Execute, Reconcile, Prepare, PrepareRaises, DecideAndCall
<1>1. CASE Load(s)
  <2>1. sess' = [sess EXCEPT ![s] = [IdleSession EXCEPT !.pc = "loaded", !.v = pending]]
    BY <1>1 DEF Load
  <2>2. sess'[s].pc = "loaded" /\ sess'[s].exec = "absent"
    BY <1>0, <2>1 DEF IdleSession
  <2>3. \A t \in Sessions \ {s} : sess'[t] = sess[t]
    BY <1>0, <2>1
  <2>4. SessionRecord(s)'
    BY <2>2 DEF SessionRecord
  <2> QED BY <1>a, <2>3, <2>4, OwnStep
<1>2. ASSUME NEW w \in Version, DecideAndCall(s, w) PROVE RecordInv'
  <2>1. sess' = [sess EXCEPT ![s] = [IdleSession EXCEPT !.pc = "sending", !.v = w,
                                                        !.exec = "sending"]]
    BY <1>2 DEF DecideAndCall
  <2>2. sess'[s].pc = "sending" /\ sess'[s].exec = "sending" /\ ~connector.drafts
    <3>1. sess'[s] = [IdleSession EXCEPT !.pc = "sending", !.v = w, !.exec = "sending"]
      BY <1>0, <2>1
    <3>2. sess'[s].pc = "sending" /\ sess'[s].exec = "sending"
      BY <3>1 DEF IdleSession
    <3>3. connector.atDecision
      BY <1>2 DEF DecideAndCall
    <3> QED BY <1>0, <3>2, <3>3
  <2>3. \A t \in Sessions \ {s} : sess'[t] = sess[t]
    BY <1>0, <2>1
  <2>4. SessionRecord(s)'
    BY <1>a, <2>2 DEF SessionRecord
  <2> QED BY <1>a, <2>3, <2>4, OwnStep
<1>3. CASE Execute(s)
  <2>1. CASE connector.claims
    <3>1. \/ Goes(s, "claimed", "claimed")
          \/ Goes(s, "succeeded", "succeeded") /\ execution[v] = "succeeded"
          \/ Goes(s, "claimed", execution[v])
          \/ Goes(s, "failed", execution[v])
      BY <1>3, <2>1 DEF Execute, Claim
    <3>2. "claimed" \in ExecutionStatus /\ "succeeded" \in ExecutionStatus
      BY DEF ExecutionStatus
    <3> QED BY <1>0, <1>a, <3>1, <3>2, OnwardRecord
  <2>2. CASE ~connector.claims
    <3>1. Goes(s, "sending", "absent") /\ "absent" \in ExecutionStatus
      BY <1>3, <2>2 DEF Execute, ExecutionStatus
    <3> QED BY <1>0, <1>a, <2>2, <3>1, OnwardRecord
  <2> QED BY <2>1, <2>2
<1>4. CASE Reconcile(s)
  <2>1. \/ Goes(s, "failed", "outcome_unknown")
        \/ Goes(s, "failed", "sending")
        \/ Goes(s, "reconciled", sess[s].exec)
        \/ Goes(s, "failed", sess[s].exec)
    BY <1>4 DEF Reconcile
  <2>2. "outcome_unknown" \in ExecutionStatus /\ "sending" \in ExecutionStatus
    BY DEF ExecutionStatus
  <2> QED BY <1>0, <1>a, <2>1, <2>2, OnwardRecord
<1>5. CASE Prepare(s)
  <2>1. CASE connector.drafts
    <3>1. CASE Goes(s, "failed", "failed") \/ Goes(s, "failed", "stale")
      BY <1>0, <1>a, <3>1, OnwardRecord DEF ExecutionStatus
    <3>2. CASE /\ recorded = sess[s].v
               /\ sess' = [sess EXCEPT ![s].pc = "sending", ![s].exec = "sending",
                                       ![s].matched = draft = recorded]
      <4>1. /\ sess'[s].pc = "sending" /\ sess'[s].exec = "sending" /\ sess'[s].v = v
            /\ (sess'[s].matched => draft = v)
            /\ \A t \in Sessions \ {s} : sess'[t] = sess[t]
        BY <1>0, <3>2 DEF Session
      <4>2. SessionRecord(s)'
        BY <1>a, <4>1 DEF SessionRecord
      <4> QED BY <1>a, <4>1, <4>2, OwnStep
    <3> QED BY <1>5, <2>1, <3>1, <3>2 DEF Prepare, CheckDraft
  <2>2. CASE ~connector.drafts
    <3>1. Goes(s, "sending", "sending") /\ "sending" \in ExecutionStatus
      BY <1>5, <2>2 DEF Prepare, ExecutionStatus
    <3> QED BY <1>0, <1>a, <2>2, <3>1, OnwardRecord
  <2> QED BY <2>1, <2>2
<1>6. CASE PrepareRaises(s)
  <2>1. Goes(s, "raising", sess[s].exec)
    BY <1>6 DEF PrepareRaises
  <2> QED BY <1>0, <1>a, <2>1, OnwardRecord
<1> QED BY <1>1, <1>2, <1>3, <1>4, <1>5, <1>6 DEF ResumeStep

------------------------------------------------------------------------------
\* The call.

LEMMA AnswerRecord ==
  ASSUME EffectInv, RecordInv, [Next]_vars, NEW s \in Sessions, sess[s].pc = "sending",
         NEW pc \in { "succeeded", "failed", "raising" }, NEW exec \in ExecutionStatus,
         NEW called \in BOOLEAN, Answered(s, pc, exec, called),
         IF called THEN Performed(s) ELSE NotPerformed(s),
         exec = "succeeded" => called \/ connector.goneIsSent \/ exec = sess[s].exec,
         UNCHANGED << connector, rows, expired, lock, lost >>
  PROVE  RecordInv'
<1> DEFINE v == sess[s].v
<1> USE DEF rows
<1>0. /\ TypeOK /\ v \in Version /\ sess[s] \in Session /\ MaxCalls \in Nat /\ lock = s
      /\ effects \in [Version -> 0 .. MaxCalls]
  BY ConstantsAssumption DEF EffectInv, TypeOK, Session, SessionInv, Working
<1>1. /\ sess'[s].pc = pc /\ sess'[s].exec = exec /\ sess'[s].v = v
      /\ \A t \in Sessions \ {s} : sess'[t] = sess[t]
  BY <1>0, AnsweredType DEF TypeOK
<1>2. \A w \in Version : effects'[w] >= effects[w]
  <2>1. CASE called
    BY <1>0, <2>1, PerformedType
  <2>2. CASE ~called
    BY <1>0, <2>2 DEF NotPerformed
  <2> QED BY <2>1, <2>2
<1>3. effects[v] > 0 => effects'[v] > 0
  <2>1. EffectInv'
    BY NextKeeps
  <2>2. effects'[v] \in 0 .. MaxCalls
    BY <1>0, <2>1 DEF EffectInv, TypeOK
  <2> QED BY <1>0, <1>2, <2>2
<1>4. called => effects'[v] > 0
  BY <1>0, PerformedType
<1>5. SessionRecord(s)'
  BY <1>1, <1>3, <1>4 DEF RecordInv, SessionRecord
<1>6. ASSUME NEW t \in Sessions \ {s} PROVE SessionRecord(t)'
  <2>1. sess[t].pc # "sending"
    BY <1>0, OthersIdle DEF Working
  <2> QED BY <1>1, <1>2, <2>1, HandKept DEF RecordInv
<1>7. SucceededWasPerformed'
  <2> SUFFICES ASSUME NEW w \in Version, execution[w] = "succeeded", ~connector.goneIsSent
               PROVE  effects'[w] > 0
    BY DEF SucceededWasPerformed
  <2>1. effects[w] > 0
    BY DEF RecordInv, SucceededWasPerformed
  <2>2. EffectInv'
    BY NextKeeps
  <2>3. effects'[w] \in 0 .. MaxCalls
    BY <2>2 DEF EffectInv, TypeOK
  <2> QED BY <1>0, <1>2, <2>1, <2>3
<1>8. SentAsApproved'
  <2>1. CASE called
    <3>1. sent' = sent \cup { [ v |-> v, text |-> IF connector.drafts THEN draft ELSE v,
                                matched |-> sess[s].matched ] }
      BY <2>1 DEF Performed
    <3>2. sess[s].matched => (IF connector.drafts THEN draft ELSE v) = v
      BY DEF RecordInv, SessionRecord
    <3> QED BY <3>1, <3>2 DEF RecordInv, SentAsApproved
  <2>2. CASE ~called
    BY <2>2 DEF NotPerformed, RecordInv, SentAsApproved
  <2> QED BY <2>1, <2>2
<1>9. DoneInv'
  BY DEF RecordInv, DoneInv
<1> QED BY <1>5, <1>6, <1>7, <1>8, <1>9 DEF RecordInv

LEMMA CallRecord ==
  ASSUME EffectInv, RecordInv, [Next]_vars, NEW s \in Sessions, CallStep(s)
  PROVE  RecordInv'
<1>0. /\ sess[s].pc = "sending" /\ UNCHANGED << connector, rows, expired, lock, lost >>
      /\ sess[s].exec \in ExecutionStatus
  BY DEF CallStep, CallSucceeds, CallFails, CallFindsNoDraft, CallRaises, rows, EffectInv, TypeOK,
     Session
<1>1. { "succeeded", "failed", "absent", "retryable_failure" } \subseteq ExecutionStatus
  BY DEF ExecutionStatus
<1>2. CASE CallSucceeds(s)
  BY <1>0, <1>1, <1>2, AnswerRecord DEF CallSucceeds, AfterSuccess
<1>3. CASE CallFails(s)
  BY <1>0, <1>1, <1>3, AnswerRecord DEF CallFails, AfterError
<1>4. CASE CallFindsNoDraft(s)
  BY <1>0, <1>1, <1>4, AnswerRecord DEF CallFindsNoDraft, AfterSuccess
<1>5. CASE CallRaises(s)
  BY <1>0, <1>1, <1>5, AnswerRecord DEF CallRaises
<1> QED BY <1>2, <1>3, <1>4, <1>5 DEF CallStep

------------------------------------------------------------------------------
\* The end of the session.

\* The version a session works for is the one the run waits for.
LEMMA WorksForPending ==
  ASSUME EffectInv, NEW s \in Sessions,
         sess[s].pc \in Working \cup { "finishing", "editing" }
  PROVE  sess[s].v = pending /\ sess[s].v \in Version
<1>1. SessionInv(s) /\ CurrentVersion /\ pending \in Version /\ sess[s].v \in Version
  BY DEF EffectInv, TypeOK, Session
<1>2. approval[sess[s].v] \in { "approved", "stale", "pending" }
  BY <1>1 DEF SessionInv, Working
<1> QED BY <1>1, <1>2, ConstantsAssumption DEF CurrentVersion, Version

LEMMA CommitRecord ==
  ASSUME EffectInv, RecordInv, [Next]_vars, NEW s \in Sessions,
         CommitReceipt(s) \/ CommitFailure(s) \/ CommitDecision(s) \/ CommitHalfDone(s)
  PROVE  RecordInv'
<1> DEFINE v == sess[s].v
<1>0. /\ TypeOK /\ SessionInv(s) /\ sess[s].pc \in { "succeeded", "failed", "raising" }
      /\ v \in Version /\ v = pending /\ sess[s].exec \in ExecutionStatus
  <2>1. sess[s].pc \in { "succeeded", "failed", "raising" }
    BY DEF CommitReceipt, CommitFailure, CommitDecision, CommitHalfDone
  <2> QED BY <2>1, WorksForPending DEF EffectInv, TypeOK, Session, Working
<1>1. /\ execution' = [execution EXCEPT ![v] = sess[s].exec]
      /\ UNCHANGED << connector, pending, effects, sent, draft >>
  BY DEF CommitReceipt, CommitFailure, CommitDecision, CommitHalfDone, Write, mailbox, history
<1>2. /\ \A w \in Version \ {v} : execution'[w] = execution[w]
      /\ execution'[v] = sess[s].exec
  BY <1>0, <1>1 DEF TypeOK
<1>3. /\ \A t \in Sessions \ {s} : sess'[t] = sess[t]
      /\ \/ sess'[s] = IdleSession
         \/ CommitReceipt(s) /\ sess'[s].pc = "finishing" /\ sess'[s].v = v
            /\ sess'[s].exec = sess[s].exec
  <2>1. CASE CommitReceipt(s)
    BY <1>0, <2>1, GoesType DEF CommitReceipt, TypeOK
  <2>2. CASE CommitFailure(s) \/ CommitDecision(s) \/ CommitHalfDone(s)
    BY <1>0, <2>2 DEF CommitFailure, CommitDecision, CommitHalfDone, TypeOK
  <2> QED BY <2>1, <2>2
<1>4. \A w \in Version : effects'[w] >= effects[w]
  <2>1. \A w \in Version : effects[w] \in 0 .. MaxCalls
    BY <1>0 DEF TypeOK
  <2> QED BY <1>1, <2>1, ConstantsAssumption
<1>5. ASSUME NEW t \in Sessions \ {s} PROVE SessionRecord(t)'
  BY <1>1, <1>3, <1>4, HandKept DEF RecordInv
<1>6. SessionRecord(s)'
  <2>1. CASE sess'[s] = IdleSession
    BY <2>1, IdleHand
  <2>2. CASE CommitReceipt(s) /\ sess'[s].pc = "finishing" /\ sess'[s].v = v
             /\ sess'[s].exec = sess[s].exec
    <3>1. connector.claims => sess[s].exec = "succeeded"
      BY <1>0, <2>2 DEF CommitReceipt, SessionInv
    <3> QED BY <1>1, <1>2, <2>2, <3>1 DEF RecordInv, SessionRecord
  <2> QED BY <1>3, <2>1, <2>2
<1>7. SucceededWasPerformed'
  <2>1. sess[s].exec = "succeeded" /\ ~connector.goneIsSent => effects[v] > 0
    BY DEF RecordInv, SessionRecord
  <2> QED BY <1>1, <1>2, <2>1 DEF RecordInv, SucceededWasPerformed
<1>8. DoneInv'
  <2>1. CASE CommitDecision(s)
    <3>1. connector.claims => sess[s].exec = "succeeded"
      BY <1>0, <2>1 DEF CommitDecision, SessionInv
    <3>2. approval'[v] = "approved"
      BY <1>0, <2>1 DEF CommitDecision, TypeOK
    <3> QED BY <1>0, <1>1, <1>2, <3>1, <3>2 DEF DoneInv
  <2>2. CASE CommitReceipt(s) \/ CommitFailure(s) \/ CommitHalfDone(s)
    BY <2>2 DEF CommitReceipt, CommitFailure, CommitHalfDone, DoneInv
  <2> QED BY <2>1, <2>2
<1>9. SentAsApproved'
  BY <1>1 DEF RecordInv, SentAsApproved
<1> QED BY <1>5, <1>6, <1>7, <1>8, <1>9 DEF RecordInv

LEMMA EndRecord ==
  ASSUME EffectInv, RecordInv, [Next]_vars, NEW s \in Sessions,
         FinishRun(s) \/ RollBack(s) \/ CrashAfterReceipt(s) \/ CommitUpdate(s)
  PROVE  RecordInv'
<1> USE DEF rows, mailbox, history
<1>1. /\ sess' = [sess EXCEPT ![s] = IdleSession]
      /\ UNCHANGED << connector, execution, pending, approval, effects, sent, draft >>
  BY DEF FinishRun, RollBack, CrashAfterReceipt, CommitUpdate
<1>2. sess'[s] = IdleSession /\ \A t \in Sessions \ {s} : sess'[t] = sess[t]
  BY <1>1 DEF EffectInv, TypeOK
<1>3. \A w \in Version : effects'[w] >= effects[w]
  <2>1. \A w \in Version : effects[w] \in 0 .. MaxCalls
    BY DEF EffectInv, TypeOK
  <2> QED BY <1>1, <2>1, ConstantsAssumption
<1>4. \A t \in Sessions : SessionRecord(t)'
  BY <1>1, <1>2, <1>3, HandKept, IdleHand DEF RecordInv
<1>5. CASE ~FinishRun(s)
  <2>1. run' = run
    BY <1>5 DEF RollBack, CrashAfterReceipt, CommitUpdate
  <2> QED BY <1>1, <1>4, <2>1, RecordKept
<1>6. CASE FinishRun(s)
  <2>1. sess[s].pc = "finishing"
    BY <1>6 DEF FinishRun
  <2>2. sess[s].v = pending /\ SessionInv(s)
    BY <2>1, WorksForPending DEF EffectInv
  <2>3. connector.claims => execution[pending] = "succeeded"
    BY <2>1, <2>2 DEF RecordInv, SessionRecord
  <2>4. approval[pending] # "pending"
    BY <2>1, <2>2 DEF SessionInv
  <2>5. DoneInv'
    BY <1>1, <2>3, <2>4 DEF DoneInv
  <2>6. SucceededWasPerformed' /\ SentAsApproved'
    BY <1>1 DEF RecordInv, SucceededWasPerformed, SentAsApproved
  <2> QED BY <1>4, <2>5, <2>6 DEF RecordInv
<1> QED BY <1>5, <1>6

------------------------------------------------------------------------------
\* Edits, and the owner of the mailbox.

\* Whoever rewrites the draft disturbs the session that is about to send it.
LEMMA DisturbedRecord ==
  ASSUME EffectInv, RecordInv, [Next]_vars, NEW ss \in [Sessions -> Session],
         sess' = Disturbed(ss), UNCHANGED << connector, rows, history >>,
         \A t \in Sessions :
           \/ ss[t] = sess[t]
           \/ ss[t].exec = "absent" /\ ss[t].pc \in { "editing", "updating" }
  PROVE  RecordInv'
<1> USE DEF rows, history
<1>1. \A t \in Sessions :
        /\ sess'[t].pc = ss[t].pc /\ sess'[t].exec = ss[t].exec /\ sess'[t].v = ss[t].v
        /\ sess'[t].pc = "sending" => ~sess'[t].matched
  BY DisturbedType
<1>2. \A w \in Version : effects'[w] >= effects[w]
  <2>1. \A w \in Version : effects[w] \in 0 .. MaxCalls
    BY DEF EffectInv, TypeOK
  <2> QED BY <2>1, ConstantsAssumption
<1>3. ASSUME NEW t \in Sessions PROVE SessionRecord(t)'
  <2>1. CASE ss[t] = sess[t]
    BY <1>1, <1>2, <2>1, HandKept DEF RecordInv
  <2>2. CASE ss[t].exec = "absent" /\ ss[t].pc \in { "editing", "updating" }
    BY <1>1, <2>2 DEF SessionRecord
  <2> QED BY <2>1, <2>2
<1> QED BY <1>3, RecordKept

LEMMA EditRecord ==
  ASSUME EffectInv, RecordInv, [Next]_vars,
         \/ \E s \in Sessions :
              (\E v \in Version : StartEdit(s, v)) \/ CommitEdit(s) \/ StartUpdate(s)
         \/ OwnerTouchesDraft
  PROVE  RecordInv'
<1> USE DEF rows, history
<1>0. TypeOK
  BY DEF EffectInv
<1>1. ASSUME NEW s \in Sessions, NEW v \in Version, StartEdit(s, v) PROVE RecordInv'
  <2> DEFINE new == [IdleSession EXCEPT !.pc = "editing", !.v = v]
             ss == [sess EXCEPT ![s] = new]
  <2>1. new \in Session /\ new.pc = "editing" /\ new.exec = "absent"
    BY IdleSessionType DEF Session, IdleSession
  <2>2. sess' = Disturbed(ss) /\ UNCHANGED << connector, rows, history >>
    BY <1>1 DEF StartEdit
  <2> HIDE DEF new
  <2>3. ss \in [Sessions -> Session] /\ ss[s] = new /\ \A t \in Sessions \ {s} : ss[t] = sess[t]
    BY <1>0, <2>1 DEF TypeOK
  <2> HIDE DEF ss
  <2> QED BY <2>1, <2>2, <2>3, DisturbedRecord
<1>2. ASSUME NEW s \in Sessions, StartUpdate(s) PROVE RecordInv'
  <2> DEFINE new == [sess[s] EXCEPT !.pc = "updating"]
             ss == [sess EXCEPT ![s] = new]
  <2>1. sess[s] = IdleSession
    BY <1>2 DEF StartUpdate, EffectInv, SessionInv
  <2>2. new \in Session /\ new.pc = "updating" /\ new.exec = "absent"
    <3>1. new = [IdleSession EXCEPT !.pc = "updating"]
      BY <2>1
    <3> HIDE DEF new
    <3> QED BY <3>1, IdleSessionType DEF Session, IdleSession
  <2>3. sess' = Disturbed(ss) /\ UNCHANGED << connector, rows, history >>
    BY <1>2 DEF StartUpdate
  <2> HIDE DEF new
  <2>4. ss \in [Sessions -> Session] /\ ss[s] = new /\ \A t \in Sessions \ {s} : ss[t] = sess[t]
    BY <1>0, <2>2 DEF TypeOK
  <2> HIDE DEF ss
  <2> QED BY <2>2, <2>3, <2>4, DisturbedRecord
<1>3. CASE OwnerTouchesDraft
  BY <1>0, <1>3, DisturbedRecord DEF OwnerTouchesDraft, TypeOK
<1>4. ASSUME NEW s \in Sessions, CommitEdit(s) PROVE RecordInv'
  <2>1. /\ sess[s].pc = "editing" /\ sess' = [sess EXCEPT ![s] = IdleSession]
        /\ UNCHANGED << connector, run, execution, draft, effects, sent >>
    BY <1>4 DEF CommitEdit, mailbox
  <2>2. sess'[s] = IdleSession /\ \A t \in Sessions \ {s} : sess'[t] = sess[t]
    BY <1>0, <2>1 DEF TypeOK
  <2>3. \A w \in Version : effects'[w] >= effects[w]
    <3>1. \A w \in Version : effects[w] \in 0 .. MaxCalls
      BY <1>0 DEF TypeOK
    <3> QED BY <2>1, <3>1, ConstantsAssumption
  <2>4. \A t \in Sessions : SessionRecord(t)'
    BY <2>1, <2>2, <2>3, HandKept, IdleHand DEF RecordInv
  <2>5. approval[pending] = "pending"
    BY <2>1, WorksForPending DEF EffectInv, SessionInv
  <2>6. DoneInv'
    BY <2>1, <2>5 DEF RecordInv, DoneInv
  <2>7. SucceededWasPerformed' /\ SentAsApproved'
    BY <2>1 DEF RecordInv, SucceededWasPerformed, SentAsApproved
  <2> QED BY <2>4, <2>6, <2>7 DEF RecordInv
<1> QED BY <1>1, <1>2, <1>3, <1>4

------------------------------------------------------------------------------
LEMMA NextRecord == EffectInv /\ RecordInv /\ [Next]_vars => RecordInv'
<1> SUFFICES ASSUME EffectInv, RecordInv, [Next]_vars PROVE RecordInv'
  OBVIOUS
<1>1. CASE DecisionStep \/ RejectRun \/ ThreadMoves \/ (\E v \in Version : Expire(v))
           \/ UNCHANGED vars
  BY <1>1, DecisionRecord
<1>2. ASSUME NEW s \in Sessions, ResumeStep(s) \/ \E v \in Version : DecideAndCall(s, v)
      PROVE  RecordInv'
  BY <1>2, ResumeRecord
<1>3. ASSUME NEW s \in Sessions, CallStep(s) PROVE RecordInv'
  BY <1>3, CallRecord
<1>4. ASSUME NEW s \in Sessions, EndStep(s) PROVE RecordInv'
  BY <1>4, CommitRecord, EndRecord DEF EndStep
<1>5. ASSUME NEW s \in Sessions, EditStep(s) PROVE RecordInv'
  BY <1>5, EditRecord, EndRecord DEF EditStep
<1>6. CASE OwnerTouchesDraft
  BY <1>6, EditRecord
<1> QED BY <1>1, <1>2, <1>3, <1>4, <1>5, <1>6 DEF Next, WorldStep

LEMMA RecordInvariance == Spec => []RecordInv
  BY InitRecord, NextRecord, EffectInvariant, PTL DEF Spec

\* An execution row that says "succeeded" stands for a call that took effect, through any
\* number of crashes, retries and replays (external_actions.py, the claim and the receipt).
THEOREM SuccessIsReal == Spec => []SucceededWasPerformed
<1>1. RecordInv => SucceededWasPerformed
  BY DEF RecordInv
<1> QED BY <1>1, RecordInvariance, PTL

\* A run is reported done only with its effect on record, although receipt and run are
\* committed one after the other (tool_provider.py, workflow_runtime.py).
THEOREM DoneIsTrue == Spec => []DoneIsOnRecord
<1>1. RecordInv => DoneIsOnRecord
  BY DEF RecordInv, DoneInv, DoneIsOnRecord
<1> QED BY <1>1, RecordInvariance, PTL

\* The text sent is the text approved, unless somebody rewrote the draft behind the record
\* or after the check of send_draft_exactly_once.
THEOREM ApprovedTextIsSent == Spec => []SentAsApproved
<1>1. RecordInv => SentAsApproved
  BY DEF RecordInv
<1> QED BY <1>1, RecordInvariance, PTL

==============================================================================
