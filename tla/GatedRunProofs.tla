---------------------------- MODULE GatedRunProofs ----------------------------
(***************************************************************************)
(* Proofs about GatedRun, for any users, roles, plans and bounds.          *)
(***************************************************************************)
EXTENDS GatedRun, FiniteSetTheorems, TLAPS

------------------------------------------------------------------------------
\* Who may decide.

\* A delegate who may decide approvals is eligible.
LEMMA TargetIsEligible ==
  ASSUME NEW r, NEW m, NEW d \in r.delegations, CanDecide(m[d.to])
  PROVE  d.to \in Eligible(r, m)
  BY DEF Eligible, DelegateTargets

\* The project's owner is eligible as long as nothing is delegated.
LEMMA OwnerIsEligible ==
  ASSUME NEW r, NEW m, r.delegations = { }
  PROVE  ProjectOwner \in Eligible(r, m)
  BY DEF Eligible, Resolved, DelegatedAway

\* Routing never leaves a request without an approver: whatever roles and users it is
\* routed to, if every delegate may decide, somebody may (resolve_eligible_approvers,
\* delegate_approval).
THEOREM SomebodyIsEligible ==
  ASSUME NEW r, NEW m, \A d \in r.delegations : CanDecide(m[d.to])
  PROVE  Eligible(r, m) # { }
<1>1. CASE r.delegations = { }
  BY <1>1, OwnerIsEligible
<1>2. CASE r.delegations # { }
  <2>1. PICK d \in r.delegations : TRUE
    BY <1>2
  <2> QED BY <2>1, TargetIsEligible
<1> QED BY <1>1, <1>2

\* Nobody without the permission to decide is eligible by a delegation, and somebody who
\* delegated is eligible only if the right was delegated back.
THEOREM DelegationMovesTheRight ==
  ASSUME NEW r, NEW m, NEW d \in r.delegations, d.from \in Eligible(r, m)
  PROVE  CanDecide(m[d.from]) /\ \E e \in r.delegations : e.to = d.from
<1>1. d.from \in DelegatedAway(r)
  BY DEF DelegatedAway
<1>2. d.from \in DelegateTargets(r) /\ CanDecide(m[d.from])
  BY <1>1 DEF Eligible
<1> QED BY <1>2 DEF DelegateTargets

------------------------------------------------------------------------------
\* Type correctness.

PC == { "idle", "select", "branch", "call", "toolbox", "resolve", "blocking", "failing",
        "completing" }

\* The worker is a record; nothing is said of what is left of a round.
WorkerType ==
  /\ worker = [ pc |-> worker.pc, results |-> worker.results, todo |-> worker.todo,
                upfront |-> worker.upfront, branch |-> worker.branch, index |-> worker.index,
                failures |-> worker.failures, escalated |-> worker.escalated,
                reason |-> worker.reason ]
  /\ worker.pc \in PC
  /\ worker.results \in [Branches -> Result]
  /\ worker.branch \in Branches \cup {NoBranch}
  /\ worker.index \in Nat \ {0}
  /\ worker.reason \in Reason
  /\ worker.pc \in { "call", "toolbox" } => worker.branch \in Branches
  /\ worker.pc = "toolbox" => worker.index <= Len(Calls)

TypeInv ==
  /\ TypeOK
  /\ WorkerType
  /\ performed \in [Tools -> [1 .. MaxIndex(plan) -> Nat]]

LEMMA PlanType ==
  ASSUME plan \in Plans
  PROVE  /\ plan.order \in Seq(Branches)
         /\ plan.staffed \subseteq Branches
         /\ plan.calls \in [Branches -> Seq(Call)]
         /\ ~Managed => plan.order[1] \in Branches
         /\ InPlan \subseteq Branches
<1>1. IsPlan(plan)
  BY GatedRunAssumption
<1>2. ~Managed => Len(plan.order) = 1
  BY <1>1 DEF IsPlan, Managed
<1>3. plan.order \in Seq(Branches)
  BY <1>1 DEF IsPlan
<1>4. ~Managed => plan.order[1] \in Branches
  BY <1>2, <1>3
<1>5. InPlan \subseteq Branches
  BY <1>3 DEF InPlan
<1> QED BY <1>1, <1>3, <1>4, <1>5 DEF IsPlan

LEMMA InitTypeInv == ASSUME Init PROVE TypeInv
<1> USE GatedRunAssumption DEF Init
<1>1. NoResults \in [Branches -> Result]
  BY DEF NoResults, Result
<1>2. TypeOK
  <2>1. approval = << >> /\ Len(approval) <= MaxApprovals
    OBVIOUS
  <2>2. worker.results = NoResults /\ worker.branch = NoBranch
    BY DEF IdleWorker
  <2>3. child \in [Branches -> ChildStatus] /\ member \in Members
    BY DEF ChildStatus
  <2>4. approval \in Seq(ApprovalRequest)
    BY <2>1
  <2>5. checkpoint \in [Branches -> Result] \cup {<< >>}
    OBVIOUS
  <2>6. status \in RunStatus /\ reason \in Reason
    BY DEF RunStatus, Reason
  <2>7. plan \in Plans /\ submitted \in BOOLEAN /\ late \in BOOLEAN
    OBVIOUS
  <2> QED
    BY <1>1, <2>1, <2>2, <2>3, <2>4, <2>5, <2>6, <2>7, Zenon DEF TypeOK
<1>3. WorkerType
  BY <1>1 DEF WorkerType, IdleWorker, PC, Reason
<1>4. performed \in [Tools -> [1 .. MaxIndex(plan) -> Nat]]
  OBVIOUS
<1> QED BY <1>2, <1>3, <1>4 DEF TypeInv

\* Asking, consuming a grant, and what people write keep the requests well typed.
LEMMA AskType ==
  ASSUME TypeOK, NEW q \in ApprovalRequest, Ask(q)
  PROVE  approval' \in Seq(ApprovalRequest) /\ Len(approval') <= MaxApprovals
<1> USE GatedRunAssumption DEF TypeOK, Ask
<1>1. approval' \in Seq(ApprovalRequest)
  OBVIOUS
<1>2. Len(approval') = Len(approval) + 1
  OBVIOUS
<1> QED BY <1>1, <1>2

LEMMA ConsumeType ==
  ASSUME TypeOK, NEW t, NEW n, ConsumeGrant(t, n), worker.branch \in Branches
  PROVE  approval' \in Seq(ApprovalRequest) /\ Len(approval') <= MaxApprovals
<1>1. PICK i \in Grants(t, n) : approval' = [approval EXCEPT ![i].usedBy = worker.branch]
  BY DEF ConsumeGrant
<1>2. i \in DOMAIN approval /\ approval[i] \in ApprovalRequest
  BY DEF Grants, TypeOK
<1>3. [approval[i] EXCEPT !.usedBy = worker.branch] \in ApprovalRequest
  BY <1>2 DEF ApprovalRequest
<1>4. approval' = [approval EXCEPT ![i] = [approval[i] EXCEPT !.usedBy = worker.branch]]
  BY <1>1
<1> QED BY <1>2, <1>3, <1>4 DEF TypeOK

\* A call at the gate or at the toolbox is one of the plan.
LEMMA CallType ==
  ASSUME TypeInv, AtCall \/ At("toolbox")
  PROVE  CallNow \in Call /\ worker.branch \in Branches
<1>1. worker.branch \in Branches /\ worker.index \in Nat \ {0}
  BY DEF TypeInv, WorkerType, AtCall, At
<1>2. worker.index <= Len(Calls)
  BY DEF TypeInv, WorkerType, AtCall, At
<1>3. Calls \in Seq(Call)
  BY <1>1, PlanType DEF TypeInv, TypeOK, Calls
<1> QED BY <1>1, <1>2, <1>3 DEF CallNow

LEMMA RequestType ==
  ASSUME NEW type \in {Grant, Escalation}, NEW t \in Tools \cup {NoTool}, NEW n \in Nat,
         NEW b \in Branches \cup {NoBranch}
  PROVE  Request(type, t, n, b) \in ApprovalRequest
  BY DEF Request, ApprovalRequest

\* The worker after a change of its fields.
LEMMA IdleType == WorkerType /\ worker' = IdleWorker /\ plan' = plan => WorkerType'
<1>1. NoResults \in [Branches -> Result]
  BY DEF NoResults, Result
<1> QED BY <1>1 DEF WorkerType, IdleWorker, PC, Reason

LEMMA RaiseType ==
  ASSUME WorkerType, NEW why \in Reason, Raise(why)
  PROVE  WorkerType'
  BY DEF WorkerType, Raise, PC

LEMMA EndBranchType ==
  ASSUME TypeInv, NEW b, NEW result \in Result \cap ChildStatus, EndBranch(b, result),
         plan' = plan
  PROVE  WorkerType' /\ child' \in [Branches -> ChildStatus]
<1>1. child' \in [Branches -> ChildStatus]
  BY DEF EndBranch, TypeInv, TypeOK
<1>2. [worker.results EXCEPT ![b] = result] \in [Branches -> Result]
  BY DEF TypeInv, WorkerType
<1>3. worker' = [ pc |-> IF worker.todo \ {b} = { } THEN "select" ELSE "branch",
                  results |-> [worker.results EXCEPT ![b] = result],
                  todo |-> worker.todo \ {b}, upfront |-> worker.upfront \ {b},
                  branch |-> NoBranch, index |-> worker.index,
                  failures |-> worker.failures, escalated |-> worker.escalated,
                  reason |-> worker.reason ]
  BY DEF EndBranch, TypeInv, WorkerType
<1>4. WorkerType'
  BY <1>2, <1>3 DEF TypeInv, WorkerType, PC
<1> QED BY <1>1, <1>4

\* Every step of the worker keeps the types.
LEMMA WorkerTypeInv == ASSUME TypeInv, WorkerStep \/ Failure PROVE TypeInv'
<1> USE DEF TypeInv
<1> DEFINE Rest == /\ plan' = plan
                   /\ status' \in RunStatus /\ reason' \in Reason
                   /\ submitted' \in BOOLEAN /\ late' \in BOOLEAN
                   /\ member' \in Members
           Requests == approval' \in Seq(ApprovalRequest) /\ Len(approval') <= MaxApprovals
           Results == /\ checkpoint' \in [Branches -> Result] \cup {<< >>}
                      /\ child' \in [Branches -> ChildStatus]
           Performed == performed' \in [Tools -> [1 .. MaxIndex(plan) -> Nat]]
<1>0. ASSUME Rest, Requests, Results, Performed, WorkerType' PROVE TypeInv'
  BY <1>0 DEF TypeOK, WorkerType
<1>a. UNCHANGED << approval >> => Requests
  BY DEF TypeOK
<1>b. UNCHANGED << checkpoint, child >> => Results
  BY DEF TypeOK
<1>c. UNCHANGED << performed, plan >> => Performed
  OBVIOUS
<1>d. UNCHANGED << plan, status, reason, submitted, late, member >> => Rest
  BY DEF TypeOK
<1> HIDE DEF Rest, Requests, Results, Performed
<1>1. CASE Claim
  <2>1. Rest
    BY <1>1 DEF Claim, Rest, TypeOK, RunStatus
  <2>2. WorkerType'
    <3>1. CASE worker' = worker
      BY <1>1, <3>1 DEF Claim, WorkerType, Calls
    <3>2. CASE checkpoint # << >> /\ worker' = [IdleWorker EXCEPT !.pc = "resolve", !.results = checkpoint]
      <4>1. checkpoint \in [Branches -> Result] /\ plan' = plan
        BY <1>1, <3>2 DEF Claim, TypeOK
      <4>2. worker' = [ pc |-> "resolve", results |-> checkpoint, todo |-> { },
                        upfront |-> { }, branch |-> NoBranch, index |-> 1, failures |-> 0,
                        escalated |-> { }, reason |-> "none" ]
        BY <3>2 DEF IdleWorker
      <4> QED BY <4>1, <4>2 DEF WorkerType, PC, Reason
    <3>3. CASE worker' = [IdleWorker EXCEPT !.pc = "select"]
      <4>1. NoResults \in [Branches -> Result]
        BY DEF NoResults, Result
      <4>2. worker' = [ pc |-> "select", results |-> NoResults, todo |-> { },
                        upfront |-> { }, branch |-> NoBranch, index |-> 1, failures |-> 0,
                        escalated |-> { }, reason |-> "none" ]
        BY <3>3 DEF IdleWorker
      <4> QED BY <4>1, <4>2 DEF WorkerType, PC, Reason
    <3>4. CASE ~Managed /\ worker' = [IdleWorker EXCEPT !.pc = "call", !.branch = plan.order[1]]
      <4>1. NoResults \in [Branches -> Result]
        BY DEF NoResults, Result
      <4>2. plan.order[1] \in Branches
        BY <3>4, PlanType DEF TypeOK
      <4>3. worker' = [ pc |-> "call", results |-> NoResults, todo |-> { },
                        upfront |-> { }, branch |-> plan.order[1], index |-> 1, failures |-> 0,
                        escalated |-> { }, reason |-> "none" ]
        BY <3>4 DEF IdleWorker
      <4> QED BY <4>1, <4>2, <4>3 DEF WorkerType, PC, Reason
    <3> QED BY <1>1, <3>1, <3>2, <3>3, <3>4 DEF Claim
  <2> QED BY <1>0, <1>1, <1>a, <1>b, <1>c, <2>1, <2>2 DEF Claim
<1>2. CASE Dispatch
  <2>1. WorkerType'
    BY <1>2 DEF Dispatch, WorkerType, PC
  <2>2. child' \in [Branches -> ChildStatus]
    BY <1>2 DEF Dispatch, TypeOK, ChildStatus
  <2>3. Results
    BY <1>2, <2>2 DEF Dispatch, TypeOK, Results
  <2> QED BY <1>0, <1>2, <1>a, <1>c, <1>d, <2>1, <2>3 DEF Dispatch, peopleVars
<1>3. CASE EndOfBranches
  <2> DEFINE results == [b \in Branches |-> IF b \in InPlan /\ PendingBranch(b) THEN "blocked"
                                            ELSE worker.results[b]]
  <2>1. results \in [Branches -> Result]
    BY DEF WorkerType, Result
  <2>2. worker' = [worker EXCEPT !.pc = "resolve", !.results = results] /\ checkpoint' = results
    BY <1>3 DEF EndOfBranches
  <2>3. plan' = plan /\ child' = child
    BY <1>3 DEF EndOfBranches, runVars
  <2> HIDE DEF results
  <2>4. WorkerType'
    BY <2>1, <2>2, <2>3 DEF WorkerType, PC
  <2>5. Results
    BY <2>1, <2>2, <2>3 DEF TypeOK, Results
  <2> QED BY <1>0, <1>3, <1>a, <1>c, <1>d, <2>4, <2>5 DEF EndOfBranches, runVars, peopleVars
<1>4. CASE StartBranch
  <2>0. UNCHANGED << plan, status, reason, checkpoint, submitted, peopleVars, performed, late >>
    BY <1>4 DEF StartBranch
  <2>b. PICK b \in worker.todo :
          IF b \in plan.staffed
          THEN /\ child' = [child EXCEPT ![b] = "in_progress"]
               /\ worker' = [worker EXCEPT !.pc = "call", !.branch = b, !.index = 1,
                                           !.failures = 0]
          ELSE EndBranch(b, "blocked")
    BY <1>4 DEF StartBranch
  <2>1. CASE b \in plan.staffed
    <3>1. b \in Branches
      BY <2>1, PlanType DEF TypeOK
    <3>2. worker' = [worker EXCEPT !.pc = "call", !.branch = b, !.index = 1, !.failures = 0]
      BY <2>b, <2>1
    <3>3. WorkerType'
      <4>1. worker' = [ pc |-> "call", results |-> worker.results, todo |-> worker.todo,
                        upfront |-> worker.upfront, branch |-> b, index |-> 1, failures |-> 0,
                        escalated |-> worker.escalated, reason |-> worker.reason ]
        BY <3>2 DEF WorkerType
      <4> QED BY <3>1, <4>1 DEF WorkerType, PC
    <3>4. child' \in [Branches -> ChildStatus]
      BY <2>b, <2>1 DEF TypeOK, ChildStatus
    <3> QED BY <3>3, <3>4, <2>0, <1>0, <1>a, <1>c, <1>d DEF Results, TypeOK, peopleVars
  <2>2. CASE b \notin plan.staffed
    <3>1. EndBranch(b, "blocked")
      BY <2>b, <2>2
    <3>2. WorkerType' /\ child' \in [Branches -> ChildStatus]
      BY <2>0, <3>1, EndBranchType DEF Result, ChildStatus
    <3> QED BY <3>2, <2>0, <1>0, <1>a, <1>c, <1>d DEF Results, TypeOK, peopleVars
  <2> QED BY <2>1, <2>2
<1>5. CASE PassGate
  <2>1. CallNow \in Call /\ worker.branch \in Branches
    BY <1>5, CallType DEF PassGate
  <2>2. Requests
    BY <1>5, <2>1, <1>a, ConsumeType DEF PassGate, Requests
  <2>3. WorkerType'
    BY <1>5, <2>1 DEF PassGate, AtCall, WorkerType, PC, Calls
  <2> QED BY <1>0, <1>5, <1>b, <1>c, <1>d, <2>2, <2>3 DEF PassGate, runVars
<1>6. ASSUME NEW type \in {Grant, Escalation}, NEW t \in Tools \cup {NoTool}, NEW n \in Nat,
             NEW b \in Branches \cup {NoBranch}, Ask(Request(type, t, n, b)),
             NEW why \in Reason, Raise(why),
             UNCHANGED << plan, runVars, checkpoint, member, performed >>
      PROVE  TypeInv'
  <2>1. Requests
    BY <1>6, RequestType, AskType DEF Requests
  <2>2. WorkerType'
    BY <1>6, RaiseType
  <2> QED BY <1>0, <1>6, <1>b, <1>c, <1>d, <2>1, <2>2 DEF runVars
<1>7. CASE AskAtGate \/ AskForPolicy
  <2>1. CallNow \in Call /\ worker.branch \in Branches /\ worker.index \in Nat
    BY <1>7, CallType DEF AskAtGate, AskForPolicy, Allowed, WorkerType
  <2>2. CallNow.tool \in Tools
    BY <2>1 DEF Call
  <2> QED BY <1>6, <1>7, <2>1, <2>2 DEF AskAtGate, AskForPolicy, AskForGrant, Reason
<1>8. CASE ForbidTool \/ RaiseEscalated
  <2>1. WorkerType'
    BY <1>8, RaiseType DEF ForbidTool, RaiseEscalated, Reason
  <2> QED BY <1>0, <1>8, <1>a, <1>b, <1>c, <1>d, <2>1
          DEF ForbidTool, RaiseEscalated, runVars, peopleVars
<1>9. ASSUME NEW n, At("toolbox"), NextCall(n) PROVE WorkerType'
  <2>1. worker' = [ pc |-> "call", results |-> worker.results, todo |-> worker.todo,
                    upfront |-> worker.upfront, branch |-> worker.branch, index |-> worker.index + 1,
                    failures |-> n, escalated |-> worker.escalated,
                    reason |-> worker.reason ]
    BY <1>9 DEF NextCall, WorkerType
  <2>2. worker.branch \in Branches /\ worker.index + 1 \in Nat \ {0}
    BY <1>9 DEF At, WorkerType
  <2> QED BY <2>1, <2>2 DEF WorkerType, PC
<1>10. CASE PerformTool
  <2>1. WorkerType'
    BY <1>9, <1>10 DEF PerformTool, Allowed
  <2>2. Performed
    <3>1. ASSUME NEW t, NEW n, NEW c \in BOOLEAN,
                 performed' = [performed EXCEPT ![t][n] = IF c THEN @ + 1 ELSE @]
          PROVE  performed' \in [Tools -> [1 .. MaxIndex(plan) -> Nat]]
      <4>1. ASSUME NEW u \in Tools PROVE performed'[u] \in [1 .. MaxIndex(plan) -> Nat]
        <5>1. performed[u] \in [1 .. MaxIndex(plan) -> Nat]
          OBVIOUS
        <5>2. CASE u = t
          <6> DEFINE more == IF c THEN performed[u][n] + 1 ELSE performed[u][n]
          <6>1. performed'[u] = [performed[u] EXCEPT ![n] = more]
            BY <3>1, <5>2
          <6>2. n \in 1 .. MaxIndex(plan) => more \in Nat
            BY <5>1
          <6> QED BY <5>1, <6>1, <6>2
        <5>3. CASE u # t
          BY <3>1, <5>1, <5>3
        <5> QED BY <5>2, <5>3
      <4>2. DOMAIN performed' = Tools /\ performed' = [u \in Tools |-> performed'[u]]
        BY <3>1
      <4> QED BY <4>1, <4>2
    <3> QED BY <1>10, <3>1 DEF PerformTool, Performed
  <2> QED BY <1>0, <1>10, <1>a, <1>b, <1>d, <2>1, <2>2 DEF PerformTool, runVars, peopleVars
<1>11. CASE ToolFails
  <2>1. CASE worker.failures = 0
    <3>1. WorkerType' /\ UNCHANGED approval
      BY <1>9, <1>11, <2>1 DEF ToolFails, Allowed
    <3> QED BY <1>0, <1>11, <1>a, <1>b, <1>c, <1>d, <3>1 DEF ToolFails, runVars
  <2>2. CASE worker.failures # 0
    BY <1>6, <1>11, <2>2 DEF ToolFails, Reason, WorkerType
  <2> QED BY <2>1, <2>2
<1>12. CASE RefuseAgain
  <2>1. Requests
    BY <1>12, CallType, ConsumeType DEF RefuseAgain, Allowed, Requests
  <2>2. WorkerType'
    BY <1>12 DEF RefuseAgain, WorkerType, PC
  <2> QED BY <1>0, <1>12, <1>b, <1>c, <1>d, <2>1, <2>2 DEF RefuseAgain, runVars
<1>13. CASE Report
  <2>0. UNCHANGED << plan, status, reason, submitted, peopleVars, performed, late >>
    BY <1>13 DEF Report
  <2>1. CASE Managed
    <3>1. PICK result \in Contract : EndBranch(worker.branch, result)
      BY <1>13, <2>1 DEF Report
    <3>2. WorkerType' /\ child' \in [Branches -> ChildStatus]
      BY <2>0, <3>1, EndBranchType DEF Contract, Result, ChildStatus
    <3>3. Results
      BY <1>13, <2>1, <3>2 DEF Report, TypeOK, Results
    <3> QED BY <3>2, <3>3, <2>0, <1>0, <1>a, <1>c, <1>d DEF peopleVars
  <2>2. CASE ~Managed
    <3> DEFINE results == [NoResults EXCEPT ![worker.branch] = "completed"]
    <3>1. results \in [Branches -> Result]
      BY DEF NoResults, Result
    <3>2. /\ worker' = [worker EXCEPT !.pc = "resolve", !.results = results]
          /\ checkpoint' = results
          /\ child' = child
      BY <1>13, <2>2 DEF Report
    <3> HIDE DEF results
    <3>3. WorkerType'
      BY <2>0, <3>1, <3>2 DEF WorkerType, PC
    <3>4. Results
      BY <3>1, <3>2 DEF TypeOK, Results
    <3> QED BY <3>3, <3>4, <2>0, <1>0, <1>a, <1>c, <1>d DEF peopleVars
  <2> QED BY <2>1, <2>2
<1>14. CASE EscalateBranch
  <2>1. PICK i \in DOMAIN plan.order :
          /\ Ask(Request(Escalation, NoTool, 0, plan.order[i]))
          /\ worker' = [worker EXCEPT !.escalated = @ \cup {plan.order[i]}]
    BY <1>14 DEF EscalateBranch
  <2>2. plan.order[i] \in Branches
    BY PlanType DEF TypeOK
  <2>3. Requests
    BY <2>1, <2>2, RequestType, AskType DEF Requests
  <2>4. WorkerType'
    BY <1>14, <2>1 DEF EscalateBranch, At, WorkerType
  <2> QED BY <1>0, <1>14, <1>b, <1>c, <1>d, <2>3, <2>4 DEF EscalateBranch, runVars
<1>15. CASE Approve \/ ModelFails
  <2>1. WorkerType'
    BY <1>15 DEF Approve, ModelFails, WorkerType, PC
  <2> QED BY <1>0, <1>15, <1>a, <1>b, <1>c, <1>d, <2>1
          DEF Approve, ModelFails, runVars, peopleVars
<1>16. CASE RequestRework
  <2>1. WorkerType'
    BY <1>16, RaiseType DEF RequestRework, Reason
  <2>2. child' \in [Branches -> ChildStatus]
    BY <1>16 DEF RequestRework, TypeOK, ChildStatus
  <2>3. Results
    BY <1>16, <2>2 DEF RequestRework, TypeOK, Results
  <2> QED BY <1>0, <1>16, <1>a, <1>c, <1>d, <2>1, <2>3 DEF RequestRework, peopleVars
<1>17. CASE Block \/ Fail \/ Complete
  <2>1. PICK to \in RunStatus, why \in Reason : Leave(to, why)
    BY <1>17 DEF Block, Fail, Complete, RunStatus, Reason, WorkerType
  <2>2. WorkerType'
    BY <2>1, IdleType DEF Leave
  <2>3. Rest
    BY <2>1 DEF Leave, Rest, TypeOK, peopleVars
  <2> QED BY <1>0, <1>a, <1>b, <1>c, <2>1, <2>2, <2>3 DEF Leave, peopleVars
<1> QED BY <1>1, <1>2, <1>3, <1>4, <1>5, <1>7, <1>8, <1>10, <1>11, <1>12, <1>13, <1>14,
           <1>15, <1>16, <1>17 DEF WorkerStep, Failure

\* One field of a request changes.
LEMMA UpdateType ==
  ASSUME TypeOK, NEW i \in DOMAIN approval, NEW q \in ApprovalRequest,
         approval' = [approval EXCEPT ![i] = q]
  PROVE  approval' \in Seq(ApprovalRequest) /\ Len(approval') <= MaxApprovals
  BY DEF TypeOK

\* What people do keeps the types, and touches the worker and the plan nowhere.
LEMMA PeopleTypeInv == ASSUME TypeInv, PeopleStep PROVE TypeInv'
<1> USE DEF TypeInv
<1>0. UNCHANGED << plan, checkpoint, worker, performed >>
  BY DEF PeopleStep, DecideApproved, DecideRejected, DelegateApproval, EscalateApproval,
         ResumeRun, LeaveWorkspace
<1>1. WorkerType' /\ performed' \in [Tools -> [1 .. MaxIndex(plan) -> Nat]]
  BY <1>0 DEF WorkerType, Calls
<1>2. ASSUME /\ status' \in RunStatus /\ reason' \in Reason /\ submitted' \in BOOLEAN
             /\ late' \in BOOLEAN /\ member' \in Members
             /\ child' \in [Branches -> ChildStatus]
             /\ approval' \in Seq(ApprovalRequest) /\ Len(approval') <= MaxApprovals
      PROVE  TypeInv'
  BY <1>0, <1>1, <1>2 DEF TypeOK
<1>3. ASSUME NEW i \in DOMAIN approval, NEW u \in Users, DecideApproved(u, i) PROVE TypeInv'
  <2>1. approval[i] \in ApprovalRequest
    BY DEF TypeOK
  <2>2. [approval[i] EXCEPT !.status = "approved"] \in ApprovalRequest
    BY <2>1 DEF ApprovalRequest
  <2>3. approval' \in Seq(ApprovalRequest) /\ Len(approval') <= MaxApprovals
    BY <1>3, <2>2, UpdateType DEF DecideApproved
  <2> QED BY <1>2, <1>3, <2>3 DEF DecideApproved, TypeOK, RunStatus, Reason
<1>4. ASSUME NEW i \in DOMAIN approval, NEW u \in Users, DecideRejected(u, i) PROVE TypeInv'
  <2>1. approval[i] \in ApprovalRequest
    BY DEF TypeOK
  <2>2. [approval[i] EXCEPT !.status = "rejected"] \in ApprovalRequest
    BY <2>1 DEF ApprovalRequest
  <2>3. approval' \in Seq(ApprovalRequest) /\ Len(approval') <= MaxApprovals
    BY <1>4, <2>2, UpdateType DEF DecideRejected
  <2> QED BY <1>2, <1>4, <2>3 DEF DecideRejected, TypeOK, RunStatus, Reason
<1>5. ASSUME NEW i \in DOMAIN approval, NEW u \in Users, NEW v \in Users,
             DelegateApproval(u, v, i)
      PROVE  TypeInv'
  <2> DEFINE given == Delegate(RoutingOf(approval[i]), u, v).delegations
  <2>1. approval[i] \in ApprovalRequest
    BY DEF TypeOK
  <2>2. given = approval[i].delegations \cup { [from |-> u, to |-> v] }
    BY DEF Delegate, RoutingOf
  <2>3. given \in SUBSET Delegation
    BY <2>1, <2>2 DEF ApprovalRequest, Delegation
  <2>4. approval' = [approval EXCEPT ![i] = [approval[i] EXCEPT !.delegations = given]]
    BY <1>5 DEF DelegateApproval
  <2> HIDE DEF given
  <2>5. [approval[i] EXCEPT !.delegations = given] \in ApprovalRequest
    BY <2>1, <2>3 DEF ApprovalRequest
  <2>6. approval' \in Seq(ApprovalRequest) /\ Len(approval') <= MaxApprovals
    BY <2>4, <2>5, UpdateType
  <2> QED BY <1>2, <1>5, <2>6 DEF DelegateApproval, runVars, TypeOK
<1>6. ASSUME NEW i \in DOMAIN approval, EscalateApproval(i) PROVE TypeInv'
  <2>1. approval[i] \in ApprovalRequest
    BY DEF TypeOK
  <2>2. [approval[i] EXCEPT !.escalated = TRUE] \in ApprovalRequest
    BY <2>1 DEF ApprovalRequest
  <2>3. approval' \in Seq(ApprovalRequest) /\ Len(approval') <= MaxApprovals
    BY <1>6, <2>2, UpdateType DEF EscalateApproval
  <2> QED BY <1>2, <1>6, <2>3 DEF EscalateApproval, runVars, TypeOK
<1>7. CASE ResumeRun
  <2>1. child' \in [Branches -> ChildStatus]
    BY <1>7 DEF ResumeRun, TypeOK, ChildStatus
  <2> QED BY <1>2, <1>7, <2>1 DEF ResumeRun, peopleVars, TypeOK, RunStatus, Reason
<1>8. ASSUME NEW u \in Users, LeaveWorkspace(u) PROVE TypeInv'
  <2>1. member' \in Members
    BY <1>8 DEF LeaveWorkspace, TypeOK, Members
  <2> QED BY <1>2, <1>8, <2>1 DEF LeaveWorkspace, runVars, TypeOK
<1> QED BY <1>3, <1>4, <1>5, <1>6, <1>7, <1>8 DEF PeopleStep

LEMMA NextTypeInv == TypeInv /\ [Next]_vars => TypeInv'
<1>1. ASSUME TypeInv, UNCHANGED vars PROVE TypeInv'
  BY <1>1 DEF vars, TypeInv, TypeOK, WorkerType, Calls
<1> QED BY <1>1, WorkerTypeInv, PeopleTypeInv DEF Next

THEOREM TypeInvariant == Spec => []TypeInv
  BY InitTypeInv, NextTypeInv, PTL DEF Spec

\* Every reachable state of a gated run is well typed.
THEOREM TypeCorrect == Spec => []TypeOK
  BY TypeInvariant, PTL DEF TypeInv

------------------------------------------------------------------------------
\* Somebody can decide.

\* As long as nobody has left, every delegate has the permission to decide.
DelegatesCanDecide ==
  member = Roles =>
    \A i \in DOMAIN approval : \A d \in approval[i].delegations : CanDecide(member[d.to])

\* Steps that only ask, consume or decide leave the delegations as they are.
LEMMA DelegationsKept ==
  ASSUME TypeOK, member' = member, DelegatesCanDecide,
         \A i \in DOMAIN approval' :
           \/ approval'[i].delegations = { }
           \/ i \in DOMAIN approval /\ approval'[i].delegations = approval[i].delegations
  PROVE  DelegatesCanDecide'
  BY DEF DelegatesCanDecide

LEMMA AskKeepsDelegations ==
  ASSUME TypeOK, NEW type, NEW t, NEW n, NEW b, Ask(Request(type, t, n, b)),
         NEW i \in DOMAIN approval'
  PROVE  \/ approval'[i].delegations = { }
         \/ i \in DOMAIN approval /\ approval'[i].delegations = approval[i].delegations
<1>1. approval' = Append(approval, Request(type, t, n, b))
  BY DEF Ask
<1>2. CASE i \in DOMAIN approval
  BY <1>1, <1>2 DEF TypeOK
<1>3. CASE i \notin DOMAIN approval
  <2>1. approval'[i] = Request(type, t, n, b)
    BY <1>1, <1>3 DEF TypeOK
  <2> QED BY <2>1 DEF Request
<1> QED BY <1>2, <1>3

\* A step of the worker adds a request, marks a grant, or leaves the requests alone.
LEMMA WorkerOnRequests ==
  ASSUME WorkerStep \/ Failure
  PROVE  /\ member' = member
         /\ \/ approval' = approval
            \/ \E type \in {Grant, Escalation} : \E t, n, b : Ask(Request(type, t, n, b))
            \/ \E t, n : ConsumeGrant(t, n)
<1> USE DEF peopleVars
<1>1. CASE AskAtGate \/ AskForPolicy
  BY <1>1 DEF AskAtGate, AskForPolicy, AskForGrant
<1>2. CASE ToolFails
  BY <1>2 DEF ToolFails
<1>3. CASE EscalateBranch
  BY <1>3 DEF EscalateBranch
<1>4. CASE PassGate \/ RefuseAgain
  BY <1>4 DEF PassGate, RefuseAgain
<1>5. CASE \/ Claim \/ Dispatch \/ EndOfBranches \/ StartBranch \/ ForbidTool \/ PerformTool
           \/ Report \/ RaiseEscalated \/ Approve \/ RequestRework \/ ModelFails
  BY <1>5 DEF Claim, Dispatch, EndOfBranches, StartBranch, ForbidTool, PerformTool, Report,
              RaiseEscalated, Approve, RequestRework, ModelFails
<1>6. CASE Block \/ Fail \/ Complete
  BY <1>6 DEF Block, Fail, Complete, Leave
<1> QED BY <1>1, <1>2, <1>3, <1>4, <1>5, <1>6 DEF WorkerStep, Failure

\* What a request has become when a grant is marked.
LEMMA ConsumeChanges ==
  ASSUME TypeOK, NEW t, NEW n, ConsumeGrant(t, n)
  PROVE  /\ DOMAIN approval' = DOMAIN approval
         /\ \E i \in Grants(t, n) :
              approval' = [approval EXCEPT ![i] = [approval[i] EXCEPT !.usedBy = worker.branch]]
<1>1. PICK i \in Grants(t, n) : approval' = [approval EXCEPT ![i].usedBy = worker.branch]
  BY DEF ConsumeGrant
<1>2. approval' = [approval EXCEPT ![i] = [approval[i] EXCEPT !.usedBy = worker.branch]]
  BY <1>1
<1> QED BY <1>2

LEMMA DelegatesNext == TypeInv /\ DelegatesCanDecide /\ [Next]_vars => DelegatesCanDecide'
<1> SUFFICES ASSUME TypeInv, DelegatesCanDecide, [Next]_vars PROVE DelegatesCanDecide'
  OBVIOUS
<1>0. TypeOK
  BY DEF TypeInv
<1> DEFINE Kept(i) == \/ approval'[i].delegations = { }
                      \/ /\ i \in DOMAIN approval
                         /\ approval'[i].delegations = approval[i].delegations
<1>a. ASSUME member' = member, \A i \in DOMAIN approval' : Kept(i) PROVE DelegatesCanDecide'
  BY <1>a, <1>0, DelegationsKept
<1>1. CASE WorkerStep \/ Failure
  <2>1. member' = member
    BY <1>1, WorkerOnRequests
  <2>2. CASE approval' = approval
    BY <2>1, <2>2, <1>a
  <2>3. ASSUME NEW type, NEW t, NEW n, NEW b, Ask(Request(type, t, n, b))
        PROVE  DelegatesCanDecide'
    BY <2>1, <2>3, <1>0, <1>a, AskKeepsDelegations
  <2>4. ASSUME NEW t, NEW n, ConsumeGrant(t, n) PROVE DelegatesCanDecide'
    <3>1. PICK i \in Grants(t, n) :
            approval' = [approval EXCEPT ![i] = [approval[i] EXCEPT !.usedBy = worker.branch]]
      BY <2>4, <1>0, ConsumeChanges
    <3>2. \A j \in DOMAIN approval' : approval[j] \in ApprovalRequest /\ j \in DOMAIN approval
      BY <2>4, <1>0, ConsumeChanges DEF TypeOK
    <3>3. \A j \in DOMAIN approval' : approval'[j].delegations = approval[j].delegations
      BY <3>1, <3>2 DEF ApprovalRequest
    <3> QED BY <2>1, <3>2, <3>3, <1>a
  <2> QED BY <1>1, <2>2, <2>3, <2>4, WorkerOnRequests
<1>2. ASSUME NEW i \in DOMAIN approval, NEW u \in Users, DecideApproved(u, i) \/ DecideRejected(u, i)
      PROVE  DelegatesCanDecide'
  <2>1. PICK to : approval' = [approval EXCEPT ![i] = [approval[i] EXCEPT !.status = to]]
    BY <1>2 DEF DecideApproved, DecideRejected
  <2>2. \A j \in DOMAIN approval : approval[j] \in ApprovalRequest
    BY <1>0 DEF TypeOK
  <2>3. \A j \in DOMAIN approval' : Kept(j)
    BY <2>1, <2>2 DEF ApprovalRequest
  <2> QED BY <1>2, <1>a, <2>3 DEF DecideApproved, DecideRejected
<1>3. ASSUME NEW i \in DOMAIN approval, EscalateApproval(i) PROVE DelegatesCanDecide'
  <2>1. approval' = [approval EXCEPT ![i] = [approval[i] EXCEPT !.escalated = TRUE]]
    BY <1>3 DEF EscalateApproval
  <2>2. \A j \in DOMAIN approval : approval[j] \in ApprovalRequest
    BY <1>0 DEF TypeOK
  <2>3. \A j \in DOMAIN approval' : Kept(j)
    BY <2>1, <2>2 DEF ApprovalRequest
  <2> QED BY <1>3, <1>a, <2>3 DEF EscalateApproval
<1>4. ASSUME NEW i \in DOMAIN approval, NEW u \in Users, NEW v \in Users,
             DelegateApproval(u, v, i)
      PROVE  DelegatesCanDecide'
  <2> DEFINE given == approval[i].delegations \cup { [from |-> u, to |-> v] }
  <2>1. Delegate(RoutingOf(approval[i]), u, v).delegations = given
    BY DEF Delegate, RoutingOf
  <2>2. approval' = [approval EXCEPT ![i] = [approval[i] EXCEPT !.delegations = given]]
    BY <1>4, <2>1 DEF DelegateApproval
  <2>3. CanDecide(member[v]) /\ member' = member
    BY <1>4 DEF DelegateApproval, CanDelegate
  <2>4. \A j \in DOMAIN approval : approval[j] \in ApprovalRequest
    BY <1>0 DEF TypeOK
  <2> SUFFICES ASSUME member' = Roles, NEW j \in DOMAIN approval', NEW d \in approval'[j].delegations
               PROVE  CanDecide(member[d.to])
    BY <2>3 DEF DelegatesCanDecide
  <2>5. CASE j # i
    BY <2>2, <2>3, <2>5 DEF DelegatesCanDecide
  <2>6. CASE j = i
    <3>1. approval'[j].delegations = given
      BY <2>2, <2>4, <2>6 DEF ApprovalRequest
    <3>2. CASE d \in approval[i].delegations
      BY <2>3, <3>2 DEF DelegatesCanDecide
    <3>3. CASE d = [from |-> u, to |-> v]
      BY <2>3, <3>3
    <3> QED BY <3>1, <3>2, <3>3
  <2> QED BY <2>5, <2>6
<1>5. CASE ResumeRun \/ UNCHANGED vars
  <2>1. member' = member /\ approval' = approval
    BY <1>5 DEF ResumeRun, vars, peopleVars
  <2> QED BY <2>1 DEF DelegatesCanDecide
<1>6. ASSUME NEW u \in Users, LeaveWorkspace(u) PROVE DelegatesCanDecide'
  <2>1. member = Roles /\ CanDecide(member[u]) /\ member' = [member EXCEPT ![u] = NoRole]
    BY <1>6 DEF LeaveWorkspace
  <2>2. ~CanDecide(NoRole)
    BY DEF CanDecide, RoleHasPermission, Permissions, NoRole
  <2>3. member'[u] = NoRole
    BY <2>1, <1>0 DEF TypeOK, Members
  <2>4. member' # Roles
    BY <2>1, <2>2, <2>3
  <2> QED BY <2>4 DEF DelegatesCanDecide
<1> QED BY <1>1, <1>2, <1>3, <1>4, <1>5, <1>6 DEF Next, PeopleStep

\* A pending request of a run always has somebody who may decide it, as long as nobody has
\* left the workspace: for any roles, however requests are delegated and escalated.
THEOREM AlwaysDecidable == Spec => []SomebodyCanDecide
<1>1. Init => DelegatesCanDecide
  BY DEF Init, DelegatesCanDecide
<1>2. DelegatesCanDecide => SomebodyCanDecide
  <2> SUFFICES ASSUME DelegatesCanDecide, member = Roles, NEW i \in DOMAIN approval
               PROVE  MayDecide(i) # { }
    BY DEF SomebodyCanDecide
  <2>1. RoutingOf(approval[i]).delegations = approval[i].delegations
    BY DEF RoutingOf
  <2>2. \A d \in RoutingOf(approval[i]).delegations : CanDecide(member[d.to])
    BY <2>1 DEF DelegatesCanDecide
  <2> QED BY <2>2, SomebodyIsEligible DEF MayDecide
<1> QED BY <1>1, <1>2, TypeInvariant, DelegatesNext, PTL DEF Spec

------------------------------------------------------------------------------
\* A blocked run waits for somebody.

Waiting == \E i \in DOMAIN approval : approval[i].status = "pending"

\* The request is there from the time the worker asks: when it raises, and while it goes on
\* to escalate other branches.  A worker holds a run in progress, or a decision came.
WaitingInv ==
  /\ BlockedForReason
  /\ At("blocking") /\ worker.reason \in { "approval", "escalated" } => late \/ Waiting
  /\ worker.escalated # { } => At("resolve") \/ At("blocking") \/ At("failing") \/ At("completing")
  /\ At("resolve") /\ worker.escalated # { } => late \/ Waiting
  /\ ~At("idle") => status = "in_progress" \/ late

\* Only a decision takes a request out of the pending ones.
LEMMA WorkerKeepsWaiting ==
  ASSUME TypeOK, WorkerStep \/ Failure, Waiting
  PROVE  Waiting'
<1>1. PICK i \in DOMAIN approval : approval[i].status = "pending"
  BY DEF Waiting
<1>2. CASE approval' = approval
  BY <1>1, <1>2 DEF Waiting
<1>3. ASSUME NEW q, Ask(q) PROVE Waiting'
  <2>1. approval' = Append(approval, q)
    BY <1>3 DEF Ask
  <2>2. i \in DOMAIN approval' /\ approval'[i] = approval[i]
    BY <2>1 DEF TypeOK
  <2> QED BY <1>1, <2>2 DEF Waiting
<1>4. ASSUME NEW t, NEW n, ConsumeGrant(t, n) PROVE Waiting'
  <2>1. PICK j \in Grants(t, n) :
          approval' = [approval EXCEPT ![j] = [approval[j] EXCEPT !.usedBy = worker.branch]]
    BY <1>4, ConsumeChanges
  <2>2. j # i
    BY <1>1 DEF Grants
  <2>3. i \in DOMAIN approval' /\ approval'[i] = approval[i]
    BY <2>1, <2>2
  <2> QED BY <1>1, <2>3 DEF Waiting
<1> QED BY <1>2, <1>3, <1>4, WorkerOnRequests

LEMMA AskedIsWaiting ==
  ASSUME TypeOK, NEW type, NEW t, NEW n, NEW b, Ask(Request(type, t, n, b))
  PROVE  Waiting'
<1>1. approval' = Append(approval, Request(type, t, n, b))
  BY DEF Ask
<1>2. Len(approval) + 1 \in DOMAIN approval' /\ approval'[Len(approval) + 1] = Request(type, t, n, b)
  BY <1>1 DEF TypeOK
<1> QED BY <1>2 DEF Waiting, Request

LEMMA WaitingWorker ==
  ASSUME TypeInv, WaitingInv, WorkerStep \/ Failure
  PROVE  WaitingInv'
<1> USE DEF WaitingInv, BlockedForReason, At
<1>0. TypeOK /\ WorkerType
  BY DEF TypeInv
<1>a. Waiting => Waiting'
  BY <1>0, WorkerKeepsWaiting
<1> HIDE DEF Waiting
<1>b. BlockedForReason <=> (status = "blocked" /\ reason \in { "approval", "escalated" } => late \/ Waiting)
  BY DEF BlockedForReason, Waiting
<1>c. BlockedForReason' <=> (status' = "blocked" /\ reason' \in { "approval", "escalated" } => late' \/ Waiting')
  BY DEF BlockedForReason, Waiting
<1> HIDE DEF BlockedForReason
<1>1. CASE Claim
  <2>1. CASE worker' = worker /\ UNCHANGED << status, late >>
    BY <1>1, <1>a, <1>b, <1>c, <2>1 DEF Claim
  <2>2. CASE status' = "in_progress"
    <3>1. worker'.escalated = { } /\ worker'.pc # "blocking"
      BY <1>1, <1>b, <2>2 DEF Claim, IdleWorker
    <3> QED BY <1>c, <2>2, <3>1
  <2> QED BY <1>1, <2>1, <2>2 DEF Claim
<1>2. CASE \/ Dispatch \/ EndOfBranches \/ StartBranch \/ PassGate \/ PerformTool \/ Report
           \/ RefuseAgain \/ ModelFails \/ Approve
           \/ ToolFails /\ NextCall(1)
  <2>1. /\ UNCHANGED << status, reason, late >>
        /\ worker'.escalated = worker.escalated
        /\ worker.pc # "idle"
        /\ worker'.pc # "blocking"
        /\ \/ worker.escalated = { }
           \/ worker.pc = "resolve" /\ worker'.pc \in { "completing", "failing" }
    <3>1. CASE Dispatch \/ EndOfBranches \/ ModelFails \/ Approve
      BY <1>0, <3>1 DEF WorkerType, Dispatch, EndOfBranches, ModelFails, Approve, runVars
    <3>2. CASE StartBranch \/ Report
      BY <1>0, <3>2 DEF WorkerType, StartBranch, EndBranch, Report, runVars
    <3>3. CASE PassGate \/ PerformTool \/ RefuseAgain \/ (ToolFails /\ NextCall(1))
      BY <1>0, <3>3 DEF WorkerType, PassGate, AtCall, PerformTool, Allowed, NextCall, RefuseAgain,
         ToolFails, runVars
    <3> QED BY <1>2, <3>1, <3>2, <3>3
  <2> QED BY <1>a, <1>b, <1>c, <2>1
<1>3. CASE AskAtGate \/ AskForPolicy \/ (ToolFails /\ Raise("escalated"))
  <2>1. Waiting'
    <3>1. \E type, t, n, b : Ask(Request(type, t, n, b))
      <4>1. CASE AskAtGate \/ AskForPolicy
        BY <4>1 DEF AskAtGate, AskForPolicy, AskForGrant
      <4>2. CASE ToolFails /\ Raise("escalated")
        <5>1. worker.failures # 0
          BY <1>0, <4>2 DEF ToolFails, NextCall, Raise, WorkerType
        <5> QED BY <4>2, <5>1 DEF ToolFails
      <4> QED BY <1>3, <4>1, <4>2
    <3> QED BY <1>0, <3>1, AskedIsWaiting
  <2>2. /\ UNCHANGED << status, late >>
        /\ worker'.escalated = worker.escalated
        /\ worker.pc # "idle"
        /\ worker'.pc = "blocking"
    BY <1>0, <1>3 DEF WorkerType, AskAtGate, AskForPolicy, ToolFails, Allowed, AtCall, Raise, runVars
  <2> QED BY <1>c, <2>1, <2>2
<1>4. CASE ForbidTool \/ RequestRework
  <2>1. /\ UNCHANGED << status, reason, late >>
        /\ worker'.escalated = worker.escalated
        /\ worker.pc # "idle"
        /\ worker'.pc = "blocking"
        /\ worker'.reason \notin { "approval", "escalated" }
    BY <1>0, <1>4 DEF WorkerType, ForbidTool, RequestRework, Raise, runVars
  <2> QED BY <1>a, <1>b, <1>c, <2>1
<1>5. CASE EscalateBranch
  <2>1. Waiting'
    <3>1. \E type, t, n, b : Ask(Request(type, t, n, b))
      BY <1>5 DEF EscalateBranch
    <3> QED BY <1>0, <3>1, AskedIsWaiting
  <2>2. UNCHANGED << status, late >> /\ worker.pc = "resolve" /\ worker'.pc = "resolve"
    BY <1>0, <1>5 DEF WorkerType, EscalateBranch, runVars
  <2> QED BY <1>c, <2>1, <2>2
<1>6. CASE RaiseEscalated
  <2>1. worker.escalated # { }
    BY <1>6 DEF RaiseEscalated, NoBlocker
  <2>2. /\ UNCHANGED << status, reason, late >>
        /\ worker.pc = "resolve" /\ worker'.pc = "blocking"
    BY <1>0, <1>6 DEF WorkerType, RaiseEscalated, Raise, runVars
  <2> QED BY <1>a, <1>b, <1>c, <2>1, <2>2
<1>7. CASE Block \/ Fail \/ Complete
  <2>1. worker' = IdleWorker /\ late' = late
    BY <1>7 DEF Block, Fail, Complete, Leave
  <2>2. worker'.pc = "idle" /\ worker'.escalated = { }
    BY <2>1 DEF IdleWorker
  <2>3. CASE Block
    <3>1. reason' = worker.reason /\ worker.pc = "blocking"
      BY <2>3 DEF Block, Leave
    <3> QED BY <1>a, <1>c, <2>1, <2>2, <3>1
  <2>4. CASE Fail \/ Complete
    <3>1. status' # "blocked"
      BY <2>4 DEF Fail, Complete, Leave
    <3> QED BY <1>c, <2>2, <3>1
  <2> QED BY <1>7, <2>3, <2>4
<1>8. ToolFails => NextCall(1) \/ Raise("escalated")
  BY DEF ToolFails
<1> QED BY <1>1, <1>2, <1>3, <1>4, <1>5, <1>6, <1>7, <1>8 DEF WorkerStep, Failure

\* A request keeps its place, and its status unless it is the one that is decided.
LEMMA PeopleOnRequests ==
  ASSUME TypeOK, PeopleStep
  PROVE  /\ DOMAIN approval' = DOMAIN approval
         /\ \A i \in DOMAIN approval :
              /\ approval'[i].type = approval[i].type
              /\ approval'[i].tool = approval[i].tool
              /\ approval'[i].index = approval[i].index
              /\ approval'[i].usedBy = approval[i].usedBy
              /\ approval'[i].status # approval[i].status => approval[i].status = "pending"
<1>0. \A i \in DOMAIN approval : approval[i] \in ApprovalRequest
  BY DEF TypeOK
<1>1. ASSUME NEW i \in DOMAIN approval, NEW u \in Users, DecideApproved(u, i) \/ DecideRejected(u, i)
      PROVE  \E q : /\ approval' = [approval EXCEPT ![i] = q]
                    /\ approval[i].status = "pending"
                    /\ << q.type, q.tool, q.index, q.usedBy >>
                       = << approval[i].type, approval[i].tool, approval[i].index, approval[i].usedBy >>
  <2>1. PICK to : approval' = [approval EXCEPT ![i] = [approval[i] EXCEPT !.status = to]]
    BY <1>1 DEF DecideApproved, DecideRejected
  <2> WITNESS [approval[i] EXCEPT !.status = to]
  <2> QED BY <1>0, <1>1, <2>1 DEF ApprovalRequest, DecideApproved, DecideRejected
<1>2. ASSUME NEW i \in DOMAIN approval, NEW u \in Users, NEW v \in Users, DelegateApproval(u, v, i)
      PROVE  \E given : approval' = [approval EXCEPT ![i] = [approval[i] EXCEPT !.delegations = given]]
  BY <1>2 DEF DelegateApproval
<1>3. ASSUME NEW i \in DOMAIN approval, EscalateApproval(i)
      PROVE  approval' = [approval EXCEPT ![i] = [approval[i] EXCEPT !.escalated = TRUE]]
  BY <1>3 DEF EscalateApproval
<1>4. CASE ResumeRun \/ \E u \in Users : LeaveWorkspace(u)
  BY <1>4 DEF ResumeRun, LeaveWorkspace, peopleVars
<1>5. CASE \E i \in DOMAIN approval : \E u \in Users : DecideApproved(u, i) \/ DecideRejected(u, i)
  BY <1>0, <1>1, <1>5
<1>6. CASE \E i \in DOMAIN approval : \E u \in Users, v \in Users : DelegateApproval(u, v, i)
  BY <1>0, <1>2, <1>6 DEF ApprovalRequest
<1>7. CASE \E i \in DOMAIN approval : EscalateApproval(i)
  BY <1>0, <1>3, <1>7 DEF ApprovalRequest
<1> QED BY <1>4, <1>5, <1>6, <1>7 DEF PeopleStep

LEMMA WaitingPeople ==
  ASSUME TypeInv, WaitingInv, PeopleStep
  PROVE  WaitingInv'
<1>0. TypeOK /\ worker' = worker
  BY DEF TypeInv, PeopleStep, DecideApproved, DecideRejected, DelegateApproval,
         EscalateApproval, ResumeRun, LeaveWorkspace
<1>b. BlockedForReason <=> (status = "blocked" /\ reason \in { "approval", "escalated" } => late \/ Waiting)
  BY DEF BlockedForReason, Waiting
<1>c. BlockedForReason' <=> (status' = "blocked" /\ reason' \in { "approval", "escalated" } => late' \/ Waiting')
  BY DEF BlockedForReason, Waiting
<1>1. ASSUME NEW i \in DOMAIN approval, NEW u \in Users, DecideApproved(u, i)
      PROVE  WaitingInv'
  <2>1. /\ status' # "blocked"
        /\ late' = (late \/ status = "in_progress")
        /\ status' # status => status = "blocked"
    BY <1>1 DEF DecideApproved
  <2>2. ~At("idle") => late'
    BY <2>1 DEF WaitingInv
  <2> QED BY <1>0, <1>c, <2>1, <2>2 DEF WaitingInv, At
<1>2. ASSUME NEW i \in DOMAIN approval, NEW u \in Users, DecideRejected(u, i)
      PROVE  WaitingInv'
  <2>1. status' # "blocked" /\ (worker.pc # "idle" => late')
    BY <1>2 DEF DecideRejected
  <2> QED BY <1>0, <1>c, <2>1 DEF WaitingInv, At
<1>3. CASE \/ \E i \in DOMAIN approval :
                \/ EscalateApproval(i)
                \/ \E u \in Users, v \in Users : DelegateApproval(u, v, i)
           \/ \E u \in Users : LeaveWorkspace(u)
  <2>1. UNCHANGED << status, reason, late >>
    BY <1>3 DEF EscalateApproval, DelegateApproval, LeaveWorkspace, runVars
  <2>2. Waiting => Waiting'
    <3>0. \A j \in DOMAIN approval : approval[j] \in ApprovalRequest
      BY <1>0 DEF TypeOK
    <3>1. CASE \E i \in DOMAIN approval : EscalateApproval(i)
      <4>1. PICK i \in DOMAIN approval :
              approval' = [approval EXCEPT ![i] = [approval[i] EXCEPT !.escalated = TRUE]]
        BY <3>1 DEF EscalateApproval
      <4> QED BY <3>0, <4>1 DEF Waiting, ApprovalRequest
    <3>2. CASE \E i \in DOMAIN approval : \E u \in Users, v \in Users : DelegateApproval(u, v, i)
      <4>1. PICK i \in DOMAIN approval : \E given :
              approval' = [approval EXCEPT ![i] = [approval[i] EXCEPT !.delegations = given]]
        BY <3>2 DEF DelegateApproval
      <4> QED BY <3>0, <4>1 DEF Waiting, ApprovalRequest
    <3>3. CASE \E u \in Users : LeaveWorkspace(u)
      BY <3>3 DEF LeaveWorkspace, Waiting
    <3> QED BY <1>3, <3>1, <3>2, <3>3
  <2> HIDE DEF Waiting
  <2> QED BY <1>0, <1>b, <1>c, <2>1, <2>2 DEF WaitingInv, At
<1>4. CASE ResumeRun
  <2>1. /\ status' # "blocked" /\ late' = late /\ status \in { "failed", "blocked" }
        /\ approval' = approval
    BY <1>4 DEF ResumeRun, peopleVars
  <2>2. Waiting' = Waiting
    BY <2>1 DEF Waiting
  <2> QED BY <1>0, <1>c, <2>1, <2>2 DEF WaitingInv, At
<1> QED BY <1>1, <1>2, <1>3, <1>4 DEF PeopleStep

\* A run that is blocked for want of a decision has a request waiting for it, unless a
\* decision came while a worker had the run.
THEOREM BlockedRunsWait == Spec => []BlockedForReason
<1>1. Init => WaitingInv
  BY DEF Init, IdleWorker, WaitingInv, BlockedForReason, At
<1>2. TypeInv /\ WaitingInv /\ [Next]_vars => WaitingInv'
  <2>1. ASSUME WaitingInv, UNCHANGED vars PROVE WaitingInv'
    BY <2>1 DEF WaitingInv, BlockedForReason, Waiting, At, vars
  <2> QED BY <2>1, WaitingWorker, WaitingPeople DEF Next
<1>3. WaitingInv => BlockedForReason
  BY DEF WaitingInv
<1> QED BY <1>1, <1>2, <1>3, TypeInvariant, PTL DEF Spec

------------------------------------------------------------------------------
\* Tools behind the gate and their grants.

\* The grants of a call that have been used.
Used(t, n) ==
  { i \in DOMAIN approval :
      /\ approval[i].tool = t
      /\ approval[i].index = n
      /\ approval[i].status = "approved"
      /\ approval[i].usedBy # NoBranch }

\* The worker has passed the gate of this call and has not tried the tool yet.
InHand(t, n) ==
  At("toolbox") /\ "hitl" \in CallNow.gates /\ CallNow.tool = t /\ worker.index = n

\* The grant in hand is not yet performed.
GrantedInv ==
  /\ \A t \in Tools, n \in 1 .. MaxIndex(plan) :
       IF InHand(t, n) THEN performed[t][n] + 1 <= Cardinality(Used(t, n))
       ELSE performed[t][n] <= Cardinality(Used(t, n))
  /\ \A i \in DOMAIN approval : approval[i].usedBy # NoBranch => approval[i].status = "approved"

LEMMA UsedFinite ==
  ASSUME approval \in Seq(ApprovalRequest), NEW t, NEW n
  PROVE  IsFiniteSet(Used(t, n)) /\ Cardinality(Used(t, n)) \in Nat
<1>1. Used(t, n) \subseteq 1 .. Len(approval)
  BY DEF Used
<1>2. IsFiniteSet(1 .. Len(approval))
  BY FS_Interval
<1> QED BY <1>1, <1>2, FS_Subset, FS_CardinalityType

\* What was used stays used.
LEMMA UsedGrows ==
  ASSUME TypeOK, TypeOK', NEW t, NEW n, Used(t, n) \subseteq Used(t, n)'
  PROVE  /\ Cardinality(Used(t, n)) \in Nat
         /\ Cardinality(Used(t, n)') \in Nat
         /\ Cardinality(Used(t, n)) <= Cardinality(Used(t, n)')
<1>1. IsFiniteSet(Used(t, n)) /\ Cardinality(Used(t, n)) \in Nat
  BY UsedFinite DEF TypeOK
<1>2. approval' \in Seq(ApprovalRequest)
  BY DEF TypeOK
<1>3. Used(t, n)' \subseteq 1 .. Len(approval')
  BY <1>2 DEF Used
<1>4. IsFiniteSet(Used(t, n)')
  BY <1>2, <1>3, FS_Interval, FS_Subset
<1>5. Cardinality(Used(t, n)') \in Nat
  BY <1>4, FS_CardinalityType
<1>6. Cardinality(Used(t, n)) <= Cardinality(Used(t, n)')
  BY <1>4, FS_Subset
<1> QED BY <1>1, <1>5, <1>6

\* Using a grant of a call counts one more, and only for that call.
LEMMA ConsumeUses ==
  ASSUME TypeOK, TypeOK', NEW t, NEW n, ConsumeGrant(t, n), worker.branch \in Branches,
         \A i \in DOMAIN approval : approval[i].usedBy # NoBranch => approval[i].status = "approved"
  PROVE  /\ \A u, m : Used(u, m) \subseteq Used(u, m)'
         /\ Cardinality(Used(t, n)') = Cardinality(Used(t, n)) + 1
         /\ \A i \in DOMAIN approval' : approval'[i].usedBy # NoBranch => approval'[i].status = "approved"
<1>1. PICK i \in Grants(t, n) :
        approval' = [approval EXCEPT ![i] = [approval[i] EXCEPT !.usedBy = worker.branch]]
  BY ConsumeChanges
<1>2. \A j \in DOMAIN approval : approval[j] \in ApprovalRequest
  BY DEF TypeOK
<1>3. i \in DOMAIN approval /\ i \notin Used(t, n)
  BY DEF Grants, Used
<1>4. worker.branch # NoBranch
  BY GatedRunAssumption
<1>5. Used(t, n)' = Used(t, n) \cup {i}
  BY <1>1, <1>2, <1>4 DEF Used, Grants, ApprovalRequest
<1>6. \A u, m : Used(u, m) \subseteq Used(u, m)'
  BY <1>1, <1>2, <1>4 DEF Used, Grants, ApprovalRequest
<1>7. Cardinality(Used(t, n)') = Cardinality(Used(t, n)) + 1
  <2>1. IsFiniteSet(Used(t, n))
    BY UsedFinite DEF TypeOK
  <2> QED BY <1>3, <1>5, <2>1, FS_AddElement
<1>8. \A j \in DOMAIN approval' : approval'[j].usedBy # NoBranch => approval'[j].status = "approved"
  BY <1>1, <1>2 DEF Grants, ApprovalRequest
<1> QED BY <1>6, <1>7, <1>8

\* Every other step leaves the used grants as they are.
LEMMA OthersKeepUsed ==
  ASSUME TypeOK,
         \/ approval' = approval
         \/ \E type, t, n, b : Ask(Request(type, t, n, b))
         \/ PeopleStep,
         \A i \in DOMAIN approval : approval[i].usedBy # NoBranch => approval[i].status = "approved"
  PROVE  /\ \A u, m : Used(u, m) \subseteq Used(u, m)'
         /\ \A i \in DOMAIN approval' : approval'[i].usedBy # NoBranch => approval'[i].status = "approved"
<1>1. CASE approval' = approval
  BY <1>1 DEF Used
<1>2. ASSUME NEW type, NEW t, NEW n, NEW b, Ask(Request(type, t, n, b))
      PROVE  /\ \A u, m : Used(u, m) \subseteq Used(u, m)'
             /\ \A i \in DOMAIN approval' : approval'[i].usedBy # NoBranch => approval'[i].status = "approved"
  <2>1. approval' = Append(approval, Request(type, t, n, b))
    BY <1>2 DEF Ask
  <2>2. \A i \in DOMAIN approval : i \in DOMAIN approval' /\ approval'[i] = approval[i]
    BY <2>1 DEF TypeOK
  <2>3. \A i \in DOMAIN approval' : i \in DOMAIN approval \/ approval'[i].usedBy = NoBranch
    BY <2>1 DEF TypeOK, Request
  <2> QED BY <2>2, <2>3 DEF Used
<1>3. CASE PeopleStep
  <2>1. /\ DOMAIN approval' = DOMAIN approval
        /\ \A i \in DOMAIN approval :
             /\ approval'[i].tool = approval[i].tool
             /\ approval'[i].index = approval[i].index
             /\ approval'[i].usedBy = approval[i].usedBy
             /\ approval'[i].status # approval[i].status => approval[i].status = "pending"
    BY <1>3, PeopleOnRequests
  <2>2. \A i \in DOMAIN approval :
          approval[i].usedBy # NoBranch => approval'[i].status = approval[i].status
    BY <2>1
  <2>3. \A u, m : Used(u, m) \subseteq Used(u, m)'
    BY <2>1, <2>2 DEF Used
  <2> QED BY <2>1, <2>2, <2>3
<1> QED BY <1>1, <1>2, <1>3

LEMMA GrantedNext ==
  ASSUME TypeInv, TypeInv', GrantedInv, Next
  PROVE  GrantedInv'
<1>0. TypeOK /\ TypeOK' /\ WorkerType /\ performed \in [Tools -> [1 .. MaxIndex(plan) -> Nat]]
  BY DEF TypeInv
<1>1. \A i \in DOMAIN approval : approval[i].usedBy # NoBranch => approval[i].status = "approved"
  BY DEF GrantedInv
<1>p. plan' = plan
  BY DEF Next, WorkerStep, Failure, PeopleStep, Claim, Dispatch, EndOfBranches, StartBranch, PassGate,
         AskAtGate, ForbidTool, PerformTool, AskForPolicy, RefuseAgain, Report, EscalateBranch,
         RaiseEscalated, Approve, RequestRework, Block, Fail, Complete, ToolFails, ModelFails, Leave,
         DecideApproved, DecideRejected, DelegateApproval, EscalateApproval, ResumeRun, LeaveWorkspace
<1>q. \A t \in Tools, n \in 1 .. MaxIndex(plan) : performed[t][n] \in Nat
  BY <1>0
\* Nothing is performed, nothing comes into hand.
<1>2. ASSUME performed' = performed,
             \A u, m : Used(u, m) \subseteq Used(u, m)',
             \A u, m : InHand(u, m)' => InHand(u, m),
             \A i \in DOMAIN approval' : approval'[i].usedBy # NoBranch => approval'[i].status = "approved"
      PROVE  GrantedInv'
  <2>1. ASSUME NEW t \in Tools, NEW n \in 1 .. MaxIndex(plan)
        PROVE  IF InHand(t, n)' THEN performed[t][n] + 1 <= Cardinality(Used(t, n)')
               ELSE performed[t][n] <= Cardinality(Used(t, n)')
    <3>1. /\ Cardinality(Used(t, n)) \in Nat
          /\ Cardinality(Used(t, n)') \in Nat
          /\ Cardinality(Used(t, n)) <= Cardinality(Used(t, n)')
      BY <1>0, <1>2, UsedGrows
    <3>2. IF InHand(t, n) THEN performed[t][n] + 1 <= Cardinality(Used(t, n))
          ELSE performed[t][n] <= Cardinality(Used(t, n))
      BY DEF GrantedInv
    <3>3. InHand(t, n)' => InHand(t, n)
      BY <1>2
    <3>4. performed[t][n] \in Nat
      BY <1>q
    <3> QED BY <3>1, <3>2, <3>3, <3>4
  <2> QED BY <1>2, <1>p, <2>1 DEF GrantedInv
<1>3. CASE PeopleStep
  <2>1. worker' = worker /\ performed' = performed
    BY <1>3 DEF PeopleStep, DecideApproved, DecideRejected, DelegateApproval, EscalateApproval,
                ResumeRun, LeaveWorkspace
  <2>2. \A u, m : InHand(u, m)' => InHand(u, m)
    BY <1>p, <2>1 DEF InHand, At, CallNow, Calls
  <2> QED BY <1>0, <1>1, <1>2, <1>3, <2>1, <2>2, OthersKeepUsed
<1>4. CASE PassGate
  <2>0. PICK t0, n0 : t0 = CallNow.tool /\ n0 = worker.index
    OBVIOUS
  <2>1. /\ worker' = [worker EXCEPT !.pc = "toolbox"] /\ performed' = performed
        /\ worker.pc = "call" /\ worker.branch \in Branches
        /\ t0 \in Tools /\ n0 \in Nat
    BY <1>0, <1>4, <2>0, CallType DEF PassGate, AtCall, At, WorkerType, Call
  <2>2. \A u, m : ~InHand(u, m)
    BY <2>1 DEF InHand, At
  <2>3. CallNow' = CallNow /\ worker'.index = worker.index /\ worker'.pc = "toolbox"
    BY <1>0, <1>p, <2>1 DEF CallNow, Calls, WorkerType
  <2>4. \A u, m : InHand(u, m)' <=> "hitl" \in CallNow.gates /\ t0 = u /\ n0 = m
    BY <2>0, <2>3 DEF InHand, At
  <2>5. CASE "hitl" \notin CallNow.gates
    <3>1. approval' = approval
      BY <1>4, <2>5 DEF PassGate
    <3> QED BY <1>0, <1>1, <1>2, <2>1, <2>4, <2>5, <3>1, OthersKeepUsed
  <2>6. CASE "hitl" \in CallNow.gates
    <3>0. ConsumeGrant(t0, n0)
      BY <1>4, <2>0, <2>6 DEF PassGate
    <3>1. /\ \A u, m : Used(u, m) \subseteq Used(u, m)'
          /\ Cardinality(Used(t0, n0)') = Cardinality(Used(t0, n0)) + 1
          /\ \A i \in DOMAIN approval' : approval'[i].usedBy # NoBranch => approval'[i].status = "approved"
      BY <1>0, <1>1, <2>1, <3>0, ConsumeUses
    <3>2. ASSUME NEW t \in Tools, NEW n \in 1 .. MaxIndex(plan)
          PROVE  IF InHand(t, n)' THEN performed[t][n] + 1 <= Cardinality(Used(t, n)')
                 ELSE performed[t][n] <= Cardinality(Used(t, n)')
      <4>1. /\ Cardinality(Used(t, n)) \in Nat
            /\ Cardinality(Used(t, n)') \in Nat
            /\ Cardinality(Used(t, n)) <= Cardinality(Used(t, n)')
        BY <1>0, <3>1, UsedGrows
      <4>2. performed[t][n] <= Cardinality(Used(t, n)) /\ performed[t][n] \in Nat
        BY <1>q, <2>2 DEF GrantedInv
      <4>3. InHand(t, n)' => Cardinality(Used(t, n)') = Cardinality(Used(t, n)) + 1
        BY <2>4, <3>1
      <4> QED BY <4>1, <4>2, <4>3
    <3> QED BY <1>p, <2>1, <3>1, <3>2 DEF GrantedInv
  <2> QED BY <2>5, <2>6
<1>5. CASE RefuseAgain
  <2>1. /\ worker' = [worker EXCEPT !.pc = "failing"] /\ performed' = performed
        /\ ConsumeGrant(CallNow.tool, worker.index)
    BY <1>5 DEF RefuseAgain
  <2>2. worker.branch \in Branches
    BY <1>5, CallType DEF RefuseAgain, Allowed
  <2>3. \A u, m : ~InHand(u, m)'
    BY <1>0, <2>1 DEF InHand, At, WorkerType
  <2> QED BY <1>0, <1>1, <1>2, <2>1, <2>2, <2>3, ConsumeUses
<1>6. CASE PerformTool
  <2> DEFINE t0 == CallNow.tool
             n0 == worker.index
  <2>1. approval' = approval /\ worker'.pc = "call" /\ At("toolbox")
    BY <1>0, <1>6 DEF PerformTool, peopleVars, NextCall, Allowed, WorkerType
  <2>2. \A u, m : ~InHand(u, m)' /\ Used(u, m)' = Used(u, m)
    BY <2>1 DEF InHand, At, Used
  <2>3. ASSUME NEW t \in Tools, NEW n \in 1 .. MaxIndex(plan)
        PROVE  performed'[t][n] <= Cardinality(Used(t, n))
    <3>0. performed' = [performed EXCEPT ![t0][n0] =
                          IF "hitl" \in CallNow.gates THEN @ + 1 ELSE @]
      BY <1>6 DEF PerformTool
    <3>1. /\ performed[t] \in [1 .. MaxIndex(plan) -> Nat]
          /\ performed[t][n] \in Nat
          /\ Cardinality(Used(t, n)) \in Nat
      BY <1>0, <1>q, UsedFinite DEF TypeOK
    <3>2. IF InHand(t, n) THEN performed[t][n] + 1 <= Cardinality(Used(t, n))
          ELSE performed[t][n] <= Cardinality(Used(t, n))
      BY DEF GrantedInv
    <3>3. CASE t = t0 /\ n = n0
      <4> DEFINE more == IF "hitl" \in CallNow.gates THEN performed[t][n] + 1 ELSE performed[t][n]
      <4>1. performed'[t][n] = more
        BY <1>0, <3>0, <3>1, <3>3
      <4>2. "hitl" \in CallNow.gates => InHand(t, n)
        BY <2>1, <3>3 DEF InHand
      <4> QED BY <3>1, <3>2, <4>1, <4>2
    <3>4. CASE ~(t = t0 /\ n = n0)
      <4>1. performed'[t][n] = performed[t][n]
        BY <1>0, <3>0, <3>1, <3>4
      <4> QED BY <3>1, <3>2, <4>1
    <3> QED BY <3>3, <3>4
  <2> QED BY <1>1, <1>p, <2>1, <2>2, <2>3 DEF GrantedInv
\* All other steps of the worker leave for another place than the toolbox.
<1>7. CASE (WorkerStep \/ Failure) /\ ~PassGate /\ ~RefuseAgain /\ ~PerformTool
  <2>1. performed' = performed
    BY <1>7 DEF WorkerStep, Failure, Claim, Dispatch, EndOfBranches, StartBranch, AskAtGate,
                ForbidTool, AskForPolicy, Report, EscalateBranch, RaiseEscalated, Approve,
                RequestRework, Block, Fail, Complete, ToolFails, ModelFails, Leave
  <2>2. worker'.pc # "toolbox" \/ worker' = worker
    <3>1. CASE Claim
      BY <3>1 DEF Claim, IdleWorker
    <3>2. CASE Block \/ Fail \/ Complete
      BY <3>2 DEF Block, Fail, Complete, Leave, IdleWorker
    <3>3. CASE StartBranch \/ Report
      <4>1. CASE StartBranch
        BY <1>0, <4>1 DEF StartBranch, EndBranch, WorkerType
      <4>2. CASE Report
        BY <1>0, <4>2 DEF Report, EndBranch, WorkerType
      <4> QED BY <3>3, <4>1, <4>2
    <3>4. CASE EscalateBranch
      BY <1>0, <3>4 DEF EscalateBranch, WorkerType, At
    <3>5. CASE \/ Dispatch \/ EndOfBranches \/ AskAtGate \/ ForbidTool \/ AskForPolicy
               \/ RaiseEscalated \/ Approve \/ RequestRework \/ ToolFails \/ ModelFails
      BY <1>0, <3>5 DEF Dispatch, EndOfBranches, AskAtGate, ForbidTool, AskForPolicy, RaiseEscalated,
         Approve, RequestRework, ToolFails, ModelFails, Raise, NextCall, WorkerType
    <3> QED BY <1>7, <3>1, <3>2, <3>3, <3>4, <3>5 DEF WorkerStep, Failure
  <2>3. \A u, m : InHand(u, m)' => InHand(u, m)
    BY <1>p, <2>2 DEF InHand, At, CallNow, Calls
  <2>4. approval' = approval \/ \E type, t, n, b : Ask(Request(type, t, n, b))
    <3>1. CASE AskAtGate \/ AskForPolicy
      BY <3>1 DEF AskAtGate, AskForPolicy, AskForGrant
    <3>2. CASE ToolFails \/ EscalateBranch
      BY <3>2 DEF ToolFails, EscalateBranch
    <3>3. CASE \/ Claim \/ Dispatch \/ EndOfBranches \/ StartBranch \/ ForbidTool \/ Report
               \/ RaiseEscalated \/ Approve \/ RequestRework \/ ModelFails
               \/ Block \/ Fail \/ Complete
      BY <3>3 DEF Claim, Dispatch, EndOfBranches, StartBranch, ForbidTool, Report, RaiseEscalated,
         Approve, RequestRework, ModelFails, Block, Fail, Complete, Leave, peopleVars
    <3> QED BY <1>7, <3>1, <3>2, <3>3 DEF WorkerStep, Failure
  <2> QED BY <1>0, <1>1, <1>2, <2>1, <2>3, <2>4, OthersKeepUsed
<1> QED BY <1>3, <1>4, <1>5, <1>6, <1>7 DEF Next

\* However often a run is blocked, resumed and executed again, a tool behind the gate takes
\* effect at most as often as people have approved its call: for any plan, any number of
\* requests and any decisions.
THEOREM PerformedOnlyWhenGranted == Spec => []PerformedWasGranted
<1>1. TypeInv /\ Init => GrantedInv
  <2> SUFFICES ASSUME TypeInv, Init PROVE GrantedInv
    OBVIOUS
  <2>1. approval = << >> /\ ~At("toolbox")
    BY DEF Init, IdleWorker, At
  <2>2. \A t, n : Cardinality(Used(t, n)) = 0 /\ ~InHand(t, n)
    BY <2>1, FS_EmptySet DEF Used, InHand
  <2>3. \A t \in Tools, n \in 1 .. MaxIndex(plan) : performed[t][n] = 0
    BY DEF Init
  <2> QED BY <2>1, <2>2, <2>3 DEF GrantedInv
<1>2. TypeInv /\ TypeInv' /\ GrantedInv /\ [Next]_vars => GrantedInv'
  <2>1. ASSUME GrantedInv, UNCHANGED vars PROVE GrantedInv'
    BY <2>1 DEF GrantedInv, InHand, At, CallNow, Calls, Used, vars
  <2> QED BY <2>1, GrantedNext
<1>3. TypeInv /\ GrantedInv => PerformedWasGranted
  <2> SUFFICES ASSUME TypeInv, GrantedInv, NEW t \in Tools, NEW n \in DOMAIN performed[t]
               PROVE  performed[t][n] <= Cardinality(Used(t, n))
    BY DEF PerformedWasGranted, Used
  <2>1. n \in 1 .. MaxIndex(plan) /\ performed[t][n] \in Nat
    BY DEF TypeInv
  <2>2. Cardinality(Used(t, n)) \in Nat
    BY UsedFinite DEF TypeInv, TypeOK
  <2> QED BY <2>1, <2>2 DEF GrantedInv
<1>4. Init => TypeInv
  BY InitTypeInv
<1> QED BY <1>1, <1>2, <1>3, <1>4, TypeInvariant, PTL DEF Spec

------------------------------------------------------------------------------
\* The plan: its branches are executed in the order of their dependencies, and a run that is
\* completed is done.  A round is the set of branches that the worker found ready.  While it
\* goes through the round, it gives results to branches that no other branch of the round,
\* and none with a result, depends on: so what was ready stays ready, and a result rests on
\* completed dependencies.

\* The invariant.

Ended == { b \in InPlan : worker.results[b] \in { "completed", "failed" } }
AtWork(b) == child[b] \in { "in_progress", "blocked" }

\* What the round and the results depend on has completed, and is not in the round.
RoundInv ==
  /\ worker.todo \subseteq InPlan
  /\ \A b \in worker.todo \cup Ended : plan.deps[b] \subseteq Completed \ worker.todo

\* What the worker's place implies.
PlaceInv ==
  /\ worker.pc = "idle" => worker = IdleWorker
  /\ worker.pc \in { "select", "branch" } => Managed /\ checkpoint = << >>
  /\ worker.pc \in { "select", "branch", "resolve", "completing" } =>
       ~Managed \/ worker.branch = NoBranch
  /\ worker.pc \in { "call", "toolbox" } =>
       /\ checkpoint = << >>
       /\ IF Managed THEN worker.branch \in worker.todo
          ELSE worker.branch = plan.order[1]
  /\ worker.pc \in { "resolve", "completing" } =>
       worker.results = checkpoint /\ \A b \in InPlan : ~PendingBranch(b)
  /\ worker.pc = "completing" => NoBlocker

\* A branch with a result is not at work, unless it is executed again.
ChildInv ==
  /\ \A b \in Ended : ~AtWork(b) \/ b = worker.branch
  /\ ~Managed => \A b \in Branches : ~AtWork(b)

\* So it is on record.
CheckpointInv ==
  checkpoint # << >> =>
    \A b \in InPlan :
      /\ checkpoint[b] # "none"
      /\ checkpoint[b] \in { "completed", "failed" } =>
           /\ plan.deps[b] \subseteq { d \in InPlan : checkpoint[d] = "completed" }
           /\ ~AtWork(b)

PlanInv ==
  /\ RoundInv
  /\ PlaceInv
  /\ ChildInv
  /\ CheckpointInv
  /\ DependenciesFirst
  /\ CompletedMeansDone
  /\ status = "completed" => worker.pc = "idle"

------------------------------------------------------------------------------
LEMMA PlanFacts ==
  ASSUME plan \in Plans
  PROVE  /\ plan.deps \in [Branches -> SUBSET Branches]
         /\ InPlan \subseteq Branches
         /\ NoBranch \notin Branches
         /\ ~Managed => InPlan = {plan.order[1]} /\ plan.deps[plan.order[1]] = { }
<1>1. IsPlan(plan) /\ NoBranch \notin Branches
  BY GatedRunAssumption
<1>2. ~Managed => Len(plan.order) = 1 /\ plan.deps[plan.order[1]] = { }
  BY <1>1 DEF IsPlan, Managed
<1>3. plan.order \in Seq(Branches)
  BY <1>1 DEF IsPlan
<1>4. ~Managed => InPlan = {plan.order[1]}
  BY <1>2, <1>3 DEF InPlan
<1> QED BY <1>1, <1>2, <1>3, <1>4, PlanType DEF IsPlan

LEMMA InitPlan == ASSUME Init PROVE PlanInv
<1>1. worker = IdleWorker /\ checkpoint = << >> /\ status = "queued"
  BY DEF Init
<1>2. \A b \in Branches : child[b] = "none" /\ worker.results[b] = "none"
  BY <1>1 DEF Init, IdleWorker, NoResults
<1>3. InPlan \subseteq Branches /\ NoBranch \notin InPlan
  BY PlanFacts DEF Init
<1>4. Ended = { } /\ \A b \in Branches : ~AtWork(b)
  BY <1>2, <1>3 DEF Ended, AtWork
<1>5. worker.todo = { } /\ worker.branch = NoBranch /\ worker.pc = "idle"
  BY <1>1 DEF IdleWorker
<1> QED BY <1>1, <1>3, <1>4, <1>5 DEF PlanInv, RoundInv, PlaceInv, ChildInv, CheckpointInv,
           DependenciesFirst, CompletedMeansDone

\* A step that gives no result, starts no branch and puts no branch to work.
LEMMA AsidePlan ==
  ASSUME TypeInv, PlanInv, PlaceInv',
         worker'.results = worker.results, worker'.todo = worker.todo,
         worker'.branch = worker.branch, UNCHANGED << plan, checkpoint >>,
         \A b \in Branches : AtWork(b)' => AtWork(b),
         status' = "completed" => status = "completed" /\ worker'.pc = "idle"
  PROVE  PlanInv'
<1>1. InPlan' = InPlan /\ Completed' = Completed /\ Ended' = Ended /\ (Managed' <=> Managed)
  BY DEF InPlan, Completed, Ended, Managed
<1>2. InPlan \subseteq Branches
  BY PlanFacts DEF TypeInv, TypeOK
<1>3. Ended \subseteq Branches
  BY <1>2 DEF Ended
<1>4. RoundInv'
  BY <1>1 DEF PlanInv, RoundInv
<1>5. ChildInv'
  BY <1>1, <1>3 DEF PlanInv, ChildInv
<1>6. CheckpointInv'
  BY <1>1, <1>2 DEF PlanInv, CheckpointInv
<1>7. DependenciesFirst'
  BY <1>1 DEF PlanInv, DependenciesFirst
<1>8. CompletedMeansDone'
  BY <1>1, <1>2 DEF PlanInv, CompletedMeansDone, AtWork
<1> QED BY <1>4, <1>5, <1>6, <1>7, <1>8 DEF PlanInv

\* The worker goes on with its branch, asks, fails, or looks at the blocked branches.
LEMMA WorkerAside ==
  ASSUME TypeInv, PlanInv,
         \/ PassGate \/ AskAtGate \/ ForbidTool \/ PerformTool \/ AskForPolicy \/ RefuseAgain
         \/ ToolFails \/ EscalateBranch \/ RaiseEscalated \/ Approve \/ ModelFails
         \/ RequestRework
  PROVE  PlanInv'
<1> USE DEF At
<1>0. WorkerType
  BY DEF TypeInv
<1>1. /\ worker'.results = worker.results /\ worker'.todo = worker.todo
      /\ worker'.branch = worker.branch /\ UNCHANGED << plan, checkpoint, status >>
      /\ worker.pc # "idle"
  BY <1>0 DEF WorkerType, PassGate, AskAtGate, ForbidTool, PerformTool, AskForPolicy, RefuseAgain,
     ToolFails, EscalateBranch, RaiseEscalated, Approve, ModelFails, RequestRework, AtCall, Allowed,
     NextCall, Raise, runVars
<1>2. \/ worker.pc \in { "call", "toolbox" } /\ worker'.pc \in { "call", "toolbox" }
      \/ worker.pc = "resolve" /\ worker'.pc = "resolve"
      \/ worker.pc = "resolve" /\ worker'.pc = "completing" /\ NoBlocker
      \/ worker'.pc \in { "blocking", "failing" }
  BY <1>0 DEF WorkerType, PassGate, AskAtGate, ForbidTool, PerformTool, AskForPolicy, RefuseAgain,
     ToolFails, EscalateBranch, RaiseEscalated, Approve, ModelFails, RequestRework, AtCall, Allowed,
     NextCall, Raise
<1>3. \A b \in Branches : AtWork(b)' => AtWork(b)
  <2>1. child' = child \/ RequestRework
    BY DEF PassGate, AskAtGate, ForbidTool, PerformTool, AskForPolicy, RefuseAgain, ToolFails,
       EscalateBranch, RaiseEscalated, Approve, ModelFails, runVars
  <2> QED BY <2>1 DEF RequestRework, AtWork
<1>4. /\ InPlan' = InPlan /\ (Managed' <=> Managed) /\ (NoBlocker' <=> NoBlocker)
      /\ \A b : PendingBranch(b)' <=> PendingBranch(b)
  BY <1>1 DEF InPlan, Managed, NoBlocker, BlockedBranches, PendingBranch
<1>5. PlaceInv'
  BY <1>1, <1>2, <1>4 DEF PlanInv, PlaceInv
<1>6. status' # "completed"
  BY <1>1 DEF PlanInv
<1> QED BY <1>1, <1>3, <1>5, <1>6, AsidePlan

\* What people do.
LEMMA PeoplePlan == ASSUME TypeInv, PlanInv, PeopleStep PROVE PlanInv'
<1>1. UNCHANGED << plan, checkpoint, worker >>
  BY DEF PeopleStep, DecideApproved, DecideRejected, DelegateApproval, EscalateApproval,
         ResumeRun, LeaveWorkspace, runVars
<1>2. \A b \in Branches : AtWork(b)' => AtWork(b)
  <2>1. child' = child \/ ResumeRun
    BY DEF PeopleStep, DecideApproved, DecideRejected, DelegateApproval, EscalateApproval,
           LeaveWorkspace, runVars
  <2> QED BY <2>1 DEF ResumeRun, AtWork
<1>3. status' = "completed" => status = "completed"
  BY DEF PeopleStep, DecideApproved, DecideRejected, DelegateApproval, EscalateApproval,
         ResumeRun, LeaveWorkspace, runVars
<1>4. PlaceInv'
  BY <1>1 DEF PlanInv, PlaceInv, Managed, InPlan, PendingBranch, NoBlocker, BlockedBranches
<1>5. status' = "completed" => worker'.pc = "idle"
  BY <1>1, <1>3 DEF PlanInv
<1> QED BY <1>1, <1>2, <1>3, <1>4, <1>5, AsidePlan

------------------------------------------------------------------------------
\* The worker takes the run, or leaves it.

LEMMA ClaimPlan == ASSUME TypeInv, PlanInv, Claim PROVE PlanInv'
<1>0. UNCHANGED << plan, checkpoint, child >> /\ InPlan \subseteq Branches /\ NoBranch \notin InPlan
  BY PlanFacts DEF Claim, TypeInv, TypeOK
<1>1. CASE worker' = worker /\ status' = status
  <2>1. PlaceInv'
    BY <1>0, <1>1 DEF PlanInv, PlaceInv, Managed, InPlan, PendingBranch, NoBlocker, BlockedBranches
  <2>2. \A b \in Branches : AtWork(b)' => AtWork(b)
    BY <1>0 DEF AtWork
  <2>3. status' = "completed" => status = "completed" /\ worker'.pc = "idle"
    BY <1>1 DEF Claim, At
  <2> QED BY <1>0, <1>1, <2>1, <2>2, <2>3, AsidePlan
<1>2. ASSUME status' = "in_progress", worker'.todo = { },
             worker'.branch = NoBranch \/ (~Managed /\ worker'.branch = plan.order[1]),
             PlaceInv', \A b \in Ended' : plan.deps[b] \subseteq Completed' /\ ~AtWork(b)
      PROVE  PlanInv'
  <2>1. InPlan' = InPlan /\ (Managed' <=> Managed) /\ \A b : AtWork(b)' <=> AtWork(b)
    BY <1>0 DEF InPlan, Managed, AtWork
  <2>2. RoundInv'
    BY <1>0, <1>2, <2>1 DEF RoundInv
  <2>3. ChildInv'
    BY <1>0, <1>2, <2>1 DEF ChildInv, PlanInv
  <2>4. CheckpointInv'
    BY <1>0, <2>1 DEF CheckpointInv, PlanInv
  <2>5. DependenciesFirst'
    BY <1>0, <1>2, <2>1, PlanFacts DEF DependenciesFirst, TypeInv, TypeOK
  <2>6. CompletedMeansDone' /\ status' # "completed"
    BY <1>2 DEF CompletedMeansDone
  <2> QED BY <1>2, <2>2, <2>3, <2>4, <2>5, <2>6 DEF PlanInv
<1>3. CASE /\ checkpoint # << >>
           /\ worker' = [IdleWorker EXCEPT !.pc = "resolve", !.results = checkpoint]
  <2>1. /\ worker'.results = checkpoint /\ worker'.pc = "resolve" /\ worker'.todo = { }
        /\ worker'.branch = NoBranch
    BY <1>3 DEF IdleWorker
  <2>2. \A b \in Ended' : plan.deps[b] \subseteq Completed' /\ ~AtWork(b)
    BY <1>0, <1>3, <2>1 DEF PlanInv, CheckpointInv, Ended, Completed, InPlan
  <2>3. PlaceInv'
    BY <1>0, <1>3, <2>1 DEF PlanInv, CheckpointInv, PlaceInv, InPlan, PendingBranch
  <2>4. status' = "in_progress" \/ (worker' = worker /\ status' = status)
    BY DEF Claim
  <2> QED BY <1>1, <1>2, <2>1, <2>2, <2>3, <2>4
<1>4. ASSUME checkpoint = << >>, worker'.results = NoResults, worker'.todo = { },
             status' = "in_progress",
             \/ Managed /\ worker'.pc = "select" /\ worker'.branch = NoBranch
             \/ ~Managed /\ worker'.pc = "call" /\ worker'.branch = plan.order[1]
      PROVE  PlanInv'
  <2>1. \A b \in InPlan : worker'.results[b] = "none"
    BY <1>0, <1>4 DEF NoResults
  <2>2. Ended' = { }
    BY <1>0, <2>1 DEF Ended, InPlan
  <2>3. PlaceInv'
    BY <1>0, <1>4 DEF PlaceInv, Managed
  <2> QED BY <1>2, <1>4, <2>2, <2>3
<1>5. CASE worker' = [IdleWorker EXCEPT !.pc = "select"] /\ Managed /\ checkpoint = << >>
           /\ status' = "in_progress"
  BY <1>4, <1>5 DEF IdleWorker
<1>6. CASE worker' = [IdleWorker EXCEPT !.pc = "call", !.branch = plan.order[1]] /\ ~Managed
           /\ checkpoint = << >> /\ status' = "in_progress"
  BY <1>4, <1>6 DEF IdleWorker
<1> QED BY <1>1, <1>3, <1>5, <1>6 DEF Claim

LEMMA LeavePlan == ASSUME TypeInv, PlanInv, Block \/ Fail \/ Complete PROVE PlanInv'
<1>0. /\ UNCHANGED << plan, checkpoint, child >> /\ worker' = IdleWorker
      /\ InPlan \subseteq Branches /\ NoBranch \notin InPlan
  BY PlanFacts DEF Block, Fail, Complete, Leave, TypeInv, TypeOK
<1>1. /\ worker'.todo = { } /\ worker'.branch = NoBranch /\ worker'.pc = "idle"
      /\ worker'.results = NoResults
  BY <1>0 DEF IdleWorker
<1>2. InPlan' = InPlan /\ (Managed' <=> Managed) /\ \A b : AtWork(b)' <=> AtWork(b)
  BY <1>0 DEF InPlan, Managed, AtWork
<1>3. Ended' = { }
  BY <1>0, <1>1, <1>2 DEF Ended, NoResults
<1>4. RoundInv' /\ PlaceInv' /\ ChildInv' /\ DependenciesFirst'
  BY <1>0, <1>1, <1>2, <1>3 DEF RoundInv, PlaceInv, ChildInv, DependenciesFirst, PlanInv
<1>5. CheckpointInv'
  BY <1>0, <1>2 DEF CheckpointInv, PlanInv
<1>6. CompletedMeansDone'
  <2>1. CASE Block \/ Fail
    BY <2>1 DEF Block, Fail, Leave, CompletedMeansDone
  <2>2. CASE Complete
    <3>1. /\ worker.results = checkpoint /\ BlockedBranches = { }
          /\ \A b \in InPlan : worker.results[b] # "none"
      BY <2>2 DEF Complete, At, PlanInv, PlaceInv, NoBlocker, PendingBranch
    <3>2. \A b \in InPlan : worker.results[b] \in { "completed", "failed" }
      BY <1>0, <3>1 DEF BlockedBranches, TypeInv, TypeOK, Result
    <3>3. Ended = InPlan
      BY <3>2 DEF Ended
    <3>4. \A b \in InPlan : plan.deps[b] \subseteq Completed
      BY <3>3 DEF PlanInv, RoundInv
    <3>5. \A b \in InPlan : ~AtWork(b)
      BY <1>0, <2>2, <3>3 DEF PlanInv, ChildInv, PlaceInv, Complete, At
    <3> QED BY <1>0, <1>2, <3>1, <3>2, <3>4, <3>5 DEF CompletedMeansDone, Completed, AtWork
  <2> QED BY <2>1, <2>2
<1> QED BY <1>1, <1>4, <1>5, <1>6 DEF PlanInv

------------------------------------------------------------------------------
\* The rounds.

LEMMA DispatchPlan == ASSUME TypeInv, PlanInv, Dispatch PROVE PlanInv'
<1>0. WorkerType /\ InPlan \subseteq Branches /\ NoBranch \notin InPlan
  BY PlanFacts DEF TypeInv, TypeOK
<1>1. /\ worker'.pc = "branch" /\ worker'.todo = Ready /\ worker'.results = worker.results
      /\ worker'.branch = worker.branch /\ worker.pc = "select"
      /\ UNCHANGED << plan, checkpoint, status >>
  BY <1>0 DEF Dispatch, WorkerType, At
<1>2. \A b \in Branches : AtWork(b)' => AtWork(b)
  BY DEF Dispatch, AtWork
<1>3. InPlan' = InPlan /\ Completed' = Completed /\ Ended' = Ended /\ (Managed' <=> Managed)
  BY <1>1 DEF InPlan, Completed, Ended, Managed
<1>4. Managed /\ checkpoint = << >> /\ worker.branch = NoBranch /\ status # "completed"
  BY <1>1 DEF PlanInv, PlaceInv
<1>5. Ready \cap Completed = { } /\ \A b \in Ready : plan.deps[b] \subseteq Completed
  BY DEF Ready, ReadyBranch, PendingBranch, Completed
<1>6. RoundInv'
  <2>1. \A b \in Ready \cup Ended : plan.deps[b] \subseteq Completed
    BY <1>5 DEF PlanInv, RoundInv
  <2>2. Ready \subseteq InPlan
    BY DEF Ready
  <2> QED BY <1>1, <1>3, <1>5, <2>1, <2>2 DEF RoundInv
<1>7. PlaceInv'
  BY <1>1, <1>3, <1>4 DEF PlaceInv
<1>8. ChildInv'
  BY <1>0, <1>1, <1>2, <1>3 DEF PlanInv, ChildInv, Ended
<1>9. CheckpointInv' /\ CompletedMeansDone' /\ DependenciesFirst' /\ status' # "completed"
  BY <1>0, <1>1, <1>3, <1>4 DEF CheckpointInv, CompletedMeansDone, DependenciesFirst
<1> QED BY <1>6, <1>7, <1>8, <1>9 DEF PlanInv

LEMMA EndOfBranchesPlan == ASSUME TypeInv, PlanInv, EndOfBranches PROVE PlanInv'
<1> DEFINE results == [b \in Branches |-> IF b \in InPlan /\ PendingBranch(b) THEN "blocked"
                                          ELSE worker.results[b]]
<1>0. WorkerType /\ InPlan \subseteq Branches /\ NoBranch \notin InPlan
  BY PlanFacts DEF TypeInv, TypeOK
<1>1. /\ worker' = [worker EXCEPT !.pc = "resolve", !.results = results]
      /\ checkpoint' = results /\ worker.pc = "select" /\ UNCHANGED << plan, child, status >>
  BY DEF EndOfBranches, At, runVars
<1>a. \A b \in InPlan : results[b] = IF worker.results[b] = "none" THEN "blocked"
                                     ELSE worker.results[b]
  BY <1>0 DEF PendingBranch
<1> HIDE DEF results
<1>2. /\ worker'.pc = "resolve" /\ worker'.todo = worker.todo /\ worker'.results = results
      /\ worker'.branch = worker.branch
  BY <1>0, <1>1 DEF WorkerType
<1>3. /\ InPlan' = InPlan /\ Completed' = Completed /\ Ended' = Ended /\ (Managed' <=> Managed)
      /\ \A b : AtWork(b)' <=> AtWork(b)
  BY <1>1, <1>2, <1>a DEF InPlan, Completed, Ended, Managed, AtWork
<1>4. Managed /\ worker.branch = NoBranch /\ status # "completed"
  BY <1>1 DEF PlanInv, PlaceInv
<1>5. RoundInv'
  BY <1>1, <1>2, <1>3 DEF PlanInv, RoundInv
<1>6. ChildInv'
  BY <1>1, <1>2, <1>3 DEF PlanInv, ChildInv
<1>7. \A b \in InPlan : results[b] # "none"
  BY <1>a
<1>8. PlaceInv'
  BY <1>1, <1>2, <1>3, <1>4, <1>7 DEF PlaceInv, PendingBranch
<1>9. CheckpointInv'
  <2>1. \A b \in InPlan : results[b] \in { "completed", "failed" } => b \in Ended'
    BY <1>2, <1>3 DEF Ended
  <2>2. Completed = { d \in InPlan : results[d] = "completed" }
    BY <1>2, <1>3 DEF Completed
  <2>3. \A b \in Ended' : plan.deps[b] \subseteq Completed /\ ~AtWork(b)
    BY <1>0, <1>3, <1>4 DEF PlanInv, RoundInv, ChildInv, Ended
  <2> QED BY <1>1, <1>3, <1>7, <2>1, <2>2, <2>3 DEF CheckpointInv
<1>10. CompletedMeansDone' /\ DependenciesFirst' /\ status' # "completed"
  BY <1>0, <1>1, <1>2, <1>3, <1>4 DEF CompletedMeansDone, DependenciesFirst
<1> QED BY <1>5, <1>6, <1>8, <1>9, <1>10 DEF PlanInv

\* A branch of the round gets its result.
LEMMA EndBranchPlan ==
  ASSUME TypeInv, PlanInv, NEW b \in worker.todo, NEW result \in Contract,
         EndBranch(b, result), Managed, checkpoint = << >>, status # "completed",
         UNCHANGED << plan, checkpoint, status >>, worker.branch \in {NoBranch, b}
  PROVE  PlanInv'
<1>0. WorkerType /\ InPlan \subseteq Branches /\ NoBranch \notin InPlan /\ b \in InPlan
  BY PlanFacts DEF TypeInv, TypeOK, PlanInv, RoundInv
<1>1. /\ worker'.pc \in { "select", "branch" } /\ worker'.todo = worker.todo \ {b}
      /\ worker'.branch = NoBranch
      /\ worker'.results = [worker.results EXCEPT ![b] = result]
  BY <1>0 DEF EndBranch, WorkerType
<1>2. /\ \A c \in Branches \ {b} : /\ worker'.results[c] = worker.results[c]
                                   /\ child'[c] = child[c]
      /\ worker'.results[b] = result /\ child'[b] = result
  BY <1>0, <1>1 DEF EndBranch, WorkerType, TypeInv, TypeOK
<1>3. InPlan' = InPlan /\ (Managed' <=> Managed)
  BY DEF InPlan, Managed
<1>4. \A c \in worker.todo \cup Ended : plan.deps[c] \subseteq Completed \ {b}
  BY DEF PlanInv, RoundInv
<1>5. Completed \ {b} \subseteq Completed'
  BY <1>0, <1>2, <1>3 DEF Completed
<1>6. Ended' \subseteq Ended \cup {b}
  BY <1>0, <1>2, <1>3 DEF Ended
<1>7. RoundInv'
  <2>1. \A c \in worker.todo \cup Ended : plan.deps[c] \cap worker.todo = { }
    BY DEF PlanInv, RoundInv
  <2>2. \A c \in worker'.todo \cup Ended' :
          plan.deps[c] \subseteq Completed' /\ plan.deps[c] \cap worker'.todo = { }
    BY <1>1, <1>4, <1>5, <1>6, <2>1
  <2>3. worker'.todo \subseteq InPlan
    BY <1>1 DEF PlanInv, RoundInv
  <2> QED BY <1>3, <2>2, <2>3 DEF RoundInv
<1>8. PlaceInv'
  BY <1>1, <1>3 DEF PlaceInv
<1>9. ChildInv'
  <2>1. ASSUME NEW c \in Ended' PROVE ~AtWork(c)'
    <3>1. CASE c = b
      BY <1>2, <3>1, <2>1 DEF Ended, AtWork
    <3>2. CASE c # b
      <4>1. c \in Ended /\ c \in Branches /\ c # worker.branch
        BY <1>0, <1>6, <2>1, <3>2 DEF Ended
      <4> QED BY <1>2, <3>2, <4>1 DEF PlanInv, ChildInv, AtWork
    <3> QED BY <3>1, <3>2
  <2> QED BY <1>3, <2>1 DEF ChildInv
<1>10. CheckpointInv' /\ CompletedMeansDone' /\ DependenciesFirst' /\ status' # "completed"
  BY <1>0, <1>1, <1>3 DEF CheckpointInv, CompletedMeansDone, DependenciesFirst
<1> QED BY <1>7, <1>8, <1>9, <1>10 DEF PlanInv

LEMMA StartBranchPlan == ASSUME TypeInv, PlanInv, StartBranch PROVE PlanInv'
<1>0. WorkerType /\ InPlan \subseteq Branches
  BY PlanFacts DEF TypeInv, TypeOK
<1>1. UNCHANGED << plan, checkpoint, status >> /\ worker.pc = "branch"
  BY DEF StartBranch, At
<1>2. Managed /\ checkpoint = << >> /\ worker.branch = NoBranch /\ status # "completed"
  BY <1>1 DEF PlanInv, PlaceInv
<1>3. PICK b \in worker.todo :
        IF b \in plan.staffed
        THEN /\ child' = [child EXCEPT ![b] = "in_progress"]
             /\ worker' = [worker EXCEPT !.pc = "call", !.branch = b, !.index = 1, !.failures = 0]
        ELSE EndBranch(b, "blocked")
  BY DEF StartBranch
<1>4. CASE b \notin plan.staffed
  BY <1>1, <1>2, <1>3, <1>4, EndBranchPlan DEF Contract
<1>5. CASE b \in plan.staffed
  <2>1. /\ worker'.pc = "call" /\ worker'.branch = b /\ worker'.todo = worker.todo
        /\ worker'.results = worker.results
    BY <1>0, <1>3, <1>5 DEF WorkerType
  <2>2. InPlan' = InPlan /\ Completed' = Completed /\ Ended' = Ended /\ (Managed' <=> Managed)
    BY <1>1, <2>1 DEF InPlan, Completed, Ended, Managed
  <2>3. \A c \in Branches \ {b} : AtWork(c)' <=> AtWork(c)
    BY <1>3, <1>5 DEF AtWork, TypeInv, TypeOK
  <2>4. RoundInv' /\ PlaceInv'
    BY <1>1, <1>2, <2>1, <2>2 DEF PlanInv, RoundInv, PlaceInv
  <2>5. NoBranch \notin InPlan
    BY <1>0, PlanFacts DEF TypeInv, TypeOK
  <2>6. ChildInv'
    BY <1>0, <1>2, <2>1, <2>2, <2>3, <2>5 DEF PlanInv, ChildInv, Ended
  <2>7. DependenciesFirst'
    BY <1>1, <2>1, <2>2 DEF PlanInv, RoundInv, DependenciesFirst
  <2>8. CheckpointInv' /\ CompletedMeansDone' /\ status' # "completed"
    BY <1>1, <1>2 DEF CheckpointInv, CompletedMeansDone
  <2> QED BY <2>4, <2>6, <2>7, <2>8 DEF PlanInv
<1> QED BY <1>4, <1>5

LEMMA ReportPlan == ASSUME TypeInv, PlanInv, Report PROVE PlanInv'
<1>0. /\ WorkerType /\ InPlan \subseteq Branches /\ NoBranch \notin InPlan
      /\ ~Managed => InPlan = {plan.order[1]} /\ plan.deps[plan.order[1]] = { }
  BY PlanFacts DEF TypeInv, TypeOK
<1>1. UNCHANGED << plan, status >> /\ worker.pc = "call"
  BY DEF Report, At
<1>2. checkpoint = << >> /\ status # "completed"
  BY <1>1 DEF PlanInv, PlaceInv
<1>3. CASE Managed
  <2>1. worker.branch \in worker.todo
    BY <1>1, <1>3 DEF PlanInv, PlaceInv
  <2>2. PICK result \in Contract : EndBranch(worker.branch, result) /\ checkpoint' = checkpoint
    BY <1>3 DEF Report
  <2> QED BY <1>1, <1>2, <1>3, <2>1, <2>2, EndBranchPlan
<1>4. CASE ~Managed
  <2> DEFINE results == [NoResults EXCEPT ![worker.branch] = "completed"]
  <2>1. /\ worker' = [worker EXCEPT !.pc = "resolve", !.results = results]
        /\ checkpoint' = results /\ child' = child
    BY <1>4 DEF Report
  <2>2. worker.branch = plan.order[1] /\ InPlan = {worker.branch}
    BY <1>0, <1>1, <1>4 DEF PlanInv, PlaceInv
  <2>3. results[worker.branch] = "completed"
    BY <1>0, <2>2 DEF NoResults
  <2> HIDE DEF results
  <2>4. /\ worker'.pc = "resolve" /\ worker'.results = results /\ worker'.todo = worker.todo
        /\ worker'.branch = worker.branch
    BY <1>0, <2>1 DEF WorkerType
  <2>5. InPlan' = InPlan /\ (Managed' <=> Managed) /\ \A b : AtWork(b)' <=> AtWork(b)
    BY <1>1, <2>1 DEF InPlan, Managed, AtWork
  <2>6. \A b \in InPlan : plan.deps[b] = { } /\ ~AtWork(b)
    BY <1>0, <1>4, <2>2 DEF PlanInv, ChildInv
  <2>7. RoundInv'
    BY <1>1, <2>4, <2>5, <2>6 DEF PlanInv, RoundInv, Ended
  <2>8. PlaceInv'
    BY <1>4, <2>1, <2>2, <2>3, <2>4, <2>5 DEF PlaceInv, PendingBranch
  <2>9. ChildInv' /\ CheckpointInv' /\ DependenciesFirst'
    BY <1>1, <1>4, <2>1, <2>2, <2>3, <2>4, <2>5, <2>6
       DEF PlanInv, ChildInv, CheckpointInv, DependenciesFirst, Ended
  <2>10. CompletedMeansDone' /\ status' # "completed"
    BY <1>1, <1>2 DEF CompletedMeansDone
  <2> QED BY <2>7, <2>8, <2>9, <2>10 DEF PlanInv
<1> QED BY <1>3, <1>4

------------------------------------------------------------------------------
LEMMA NextPlan == TypeInv /\ PlanInv /\ [Next]_vars => PlanInv'
<1> SUFFICES ASSUME TypeInv, PlanInv, [Next]_vars PROVE PlanInv'
  OBVIOUS
<1>1. CASE UNCHANGED vars
  BY <1>1 DEF vars, PlanInv, RoundInv, PlaceInv, ChildInv, CheckpointInv, DependenciesFirst,
     CompletedMeansDone, Completed, Ended, InPlan, Managed, AtWork, PendingBranch, NoBlocker,
     BlockedBranches
<1>2. CASE WorkerStep
  BY <1>2, ClaimPlan, DispatchPlan, EndOfBranchesPlan, StartBranchPlan, WorkerAside, ReportPlan,
     LeavePlan DEF WorkerStep
<1>3. CASE Failure
  BY <1>3, WorkerAside DEF Failure
<1>4. CASE PeopleStep
  BY <1>4, PeoplePlan
<1> QED BY <1>1, <1>2, <1>3, <1>4 DEF Next

LEMMA PlanInvariance == Spec => [](TypeInv /\ PlanInv)
<1>1. Init => PlanInv
  BY InitPlan
<1> QED BY <1>1, NextPlan, TypeInvariant, PTL DEF Spec

\* However often the run is blocked, resumed and executed again, whatever the cap and the
\* order of the branches: a branch works only when all it depends on has completed
\* (dispatcher.py, the ready set).
THEOREM BranchesInOrder == Spec => []DependenciesFirst
<1>1. PlanInv => DependenciesFirst
  BY DEF PlanInv
<1> QED BY <1>1, PlanInvariance, PTL

\* A run that says "completed" has a result of every branch on its checkpoint, none of them
\* blocked, each resting on completed dependencies, and no branch at work (dispatcher.py, the
\* branch results; single_agent.py).
THEOREM CompletedIsDone == Spec => []CompletedMeansDone
<1>1. PlanInv => CompletedMeansDone
  BY DEF PlanInv
<1> QED BY <1>1, PlanInvariance, PTL

==============================================================================
