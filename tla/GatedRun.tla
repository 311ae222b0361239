------------------------------- MODULE GatedRun -------------------------------
(***************************************************************************)
(* One task run that meets people: a worker executes a plan of branches    *)
(* whose tool calls may need a grant, blocks the run when it has none, and *)
(* is called again by the decision of an approval or by a user.            *)
(*                                                                         *)
(* A manager-worker run executes its branches one after the other in its   *)
(* own session, with its own id on every tool call and approval; a         *)
(* single-agent run is a plan of one branch without a child run.  What a   *)
(* branch or a list of calls has done is checkpointed only when all of it  *)
(* is done, so a run that was blocked starts its branches again.           *)
(*                                                                         *)
(* Each action ends where the worker commits something another session     *)
(* acts on.  One worker at a time has the run: how several compete for it, *)
(* and how one is lost, is the matter of RunLifecycle.                     *)
(***************************************************************************)
EXTENDS Approvers, Naturals, Sequences, FiniteSets

CONSTANTS
  Branches,        \* ids of the plan's branches
  NoBranch,
  Tools,
  NoTool,          \* what an escalation has instead
  Plans,           \* the plans a run may have
  Roles,           \* the roles of users at the start, one of Members
  MaxApprovals,    \* bound: approval requests of the run
  MaxRerouted,     \* bound: requests, the oldest ones, that get delegated or escalated
  Faults           \* a subset of FaultKinds

\* A model call or a tool ends in an error; a member leaves the workspace.
FaultKinds == { "error", "leave" }

\* What stands between a call and its tool: an approval before it is tried, an approval
\* the toolbox asks for, a tool the agent is not allowed.
Gate == { "hitl", "policy", "forbidden" }

Call == [tool : Tools, gates : SUBSET Gate]

\* The routed sub-tasks, each once.  A branch that is not in order is not in the plan.
IsPlan(p) ==
  /\ p.mode \in { "manager_worker", "single_agent" }
  /\ p.order \in Seq(Branches)
  /\ \A i, j \in DOMAIN p.order : p.order[i] = p.order[j] => i = j
  /\ p.deps \in [Branches -> SUBSET Branches]
  /\ p.parallelizable \subseteq Branches
  /\ p.staffed \subseteq Branches
  /\ p.calls \in [Branches -> Seq(Call)]
  /\ p.cap \in Nat \ {0}
  /\ p.reviewer \in BOOLEAN
  /\ p.mode = "single_agent" =>
       Len(p.order) = 1 /\ p.deps[p.order[1]] = { } /\ ~p.reviewer

ASSUME GatedRunAssumption ==
  /\ NoBranch \notin Branches
  /\ NoTool \notin Tools
  /\ \A p \in Plans : IsPlan(p)
  /\ Roles \in Members
  /\ MaxApprovals \in Nat
  /\ MaxRerouted \in Nat
  /\ Faults \subseteq FaultKinds

RunStatus == { "queued", "in_progress", "blocked", "failed", "completed" }
Reason == { "none", "approval", "escalated", "forbidden", "rework" }
Result == { "none", "completed", "failed", "blocked" }
ChildStatus == { "none", "queued", "in_progress", "completed", "failed", "blocked", "planned" }

------------------------------------------------------------------------------
VARIABLES
  plan,        \* the checkpointed plan and routing of the run
  status,      \* task_runs.status
  reason,      \* why it is blocked (task_runs.error_message)
  checkpoint,  \* manager_worker.branch_results, or single_agent.tool_results
  child,       \* the status of each branch's last child run
  submitted,   \* a message for the run is on its way to a worker
  approval,    \* the run's approval requests, oldest first
  member,      \* the active memberships of the workspace
  worker,      \* the worker that has the run
  performed,   \* history: how often the call of a tool at an index took effect
  late         \* history: a decision came while the worker had the run

vars == << plan, status, reason, checkpoint, child, submitted, approval, member, worker,
           performed, late >>

runVars == << status, reason, child, submitted, late >>
peopleVars == << approval, member >>

NoResults == [b \in Branches |-> "none"]

IdleWorker ==
  [ pc |-> "idle", results |-> NoResults, todo |-> { }, upfront |-> { }, branch |-> NoBranch,
    index |-> 1, failures |-> 0, escalated |-> { }, reason |-> "none" ]

InPlan == { plan.order[i] : i \in DOMAIN plan.order }
Managed == plan.mode = "manager_worker"
Calls == plan.calls[worker.branch]
CallNow == Calls[worker.index]

\* The index an approval carries is the position in the branch's own list.
MaxIndex(p) == CHOOSE n \in { Len(p.calls[b]) : b \in Branches } :
                 \A b \in Branches : Len(p.calls[b]) <= n

Init ==
  /\ plan \in Plans
  /\ status = "queued"
  /\ reason = "none"
  /\ checkpoint = << >>
  /\ child = [b \in Branches |-> "none"]
  /\ submitted = TRUE
  /\ approval = << >>
  /\ member = Roles
  /\ worker = IdleWorker
  /\ performed = [t \in Tools |-> [i \in 1 .. MaxIndex(plan) |-> 0]]
  /\ late = FALSE

------------------------------------------------------------------------------
\* Approval requests.

\* tool and index of a grant; an escalation has no tool that a call would match.
Grant == "dangerous_tool_call"
Escalation == "task_escalation"

ApprovalRequest ==
  [ type : {Grant, Escalation}, tool : Tools \cup {NoTool}, index : Nat,
    branch : Branches \cup {NoBranch}, status : { "pending", "approved", "rejected" },
    usedBy : Branches \cup {NoBranch}, escalated : BOOLEAN, delegations : SUBSET Delegation ]

Request(type, tool, index, branch) ==
  [ type |-> type, tool |-> tool, index |-> index, branch |-> branch, status |-> "pending",
    usedBy |-> NoBranch, escalated |-> FALSE, delegations |-> { } ]

\* The payloads of these requests name no approvers and no risk.
RoutingOf(a) ==
  [ approvers |-> { }, roles |-> { }, highRisk |-> FALSE,
    escalated |-> IF a.escalated THEN { "admin", "owner" } ELSE { },
    delegations |-> a.delegations ]

MayDecide(i) == Eligible(RoutingOf(approval[i]), member)

\* The approved, unused grants of a tool at an index.
Grants(tool, index) ==
  { i \in DOMAIN approval :
      /\ approval[i].type = Grant
      /\ approval[i].status = "approved"
      /\ approval[i].usedBy = NoBranch
      /\ approval[i].tool = tool
      /\ approval[i].index = index }

\* Mutant: the grant is not marked.
LeaveGrant(tool, index) == Grants(tool, index) # { } /\ UNCHANGED approval

\* _consume_hitl_grant, which commits with its event.
ConsumeGrant(tool, index) ==
  \E i \in Grants(tool, index) :
    /\ \A j \in Grants(tool, index) : i <= j
    /\ approval' = [approval EXCEPT ![i].usedBy = worker.branch]

Ask(request) ==
  /\ Len(approval) < MaxApprovals
  /\ approval' = Append(approval, request)

AskForGrant(call) ==
  Ask(Request(Grant, call.tool, worker.index, worker.branch))

------------------------------------------------------------------------------
\* The worker takes the run and goes through the branches.

At(pc) == worker.pc = pc

\* BlockedExecution is raised; the handler of execute_run commits it (Block).
Raise(why) == worker' = [worker EXCEPT !.pc = "blocking", !.reason = why]

Claim ==
  /\ At("idle")
  /\ submitted
  /\ submitted' = FALSE
  /\ IF status \in { "queued", "blocked", "failed" }
     THEN /\ status' = "in_progress"
          /\ late' = FALSE
          /\ worker' =
               IF checkpoint # << >>
               THEN [IdleWorker EXCEPT !.pc = "resolve", !.results = checkpoint]
               ELSE IF Managed THEN [IdleWorker EXCEPT !.pc = "select"]
               ELSE [IdleWorker EXCEPT !.pc = "call", !.branch = plan.order[1]]
     ELSE UNCHANGED << status, late, worker >>
  /\ UNCHANGED << plan, reason, checkpoint, child, approval, member, performed >>

PendingBranch(b) == worker.results[b] = "none"
Completed == { b \in InPlan : worker.results[b] = "completed" }

\* Mutant: a dependency that has ended is enough.
ReadyWhenEnded(b) ==
  PendingBranch(b) /\ plan.deps[b] \subseteq { d \in InPlan : ~PendingBranch(d) }

ReadyBranch(b) == PendingBranch(b) /\ plan.deps[b] \subseteq Completed

Ready == { b \in InPlan : ReadyBranch(b) }
ReadyParallel == Ready \cap plan.parallelizable

Precedes(b, c) ==
  \E i, j \in DOMAIN plan.order : i < j /\ plan.order[i] = b /\ plan.order[j] = c

\* At most cap branches get their child runs at once; the others go to the end of the round.
Upfront == { b \in ReadyParallel :
               Cardinality({ c \in ReadyParallel : Precedes(c, b) }) < plan.cap }

Dispatch ==
  /\ At("select")
  /\ Ready # { }
  /\ worker' = [worker EXCEPT !.pc = "branch", !.todo = Ready, !.upfront = Upfront]
  /\ child' = [b \in Branches |-> IF b \in Upfront THEN "queued" ELSE child[b]]
  /\ UNCHANGED << plan, status, reason, checkpoint, submitted, peopleVars, performed, late >>

\* Mutant: the worker waits for a dependency that nothing completes.
EndWhenAllHaveResults ==
  /\ At("select")
  /\ \A b \in InPlan : ~PendingBranch(b)
  /\ checkpoint' = worker.results
  /\ worker' = [worker EXCEPT !.pc = "resolve"]
  /\ UNCHANGED << plan, runVars, peopleVars, performed >>

\* No branch is ready: what is left is blocked, and the results are checkpointed.
EndOfBranches ==
  LET results == [b \in Branches |-> IF b \in InPlan /\ PendingBranch(b) THEN "blocked"
                                     ELSE worker.results[b]]
  IN  /\ At("select")
      /\ Ready = { }
      /\ checkpoint' = results
      /\ worker' = [worker EXCEPT !.pc = "resolve", !.results = results]
      /\ UNCHANGED << plan, runVars, peopleVars, performed >>

\* The branch has its result: on to the next of the round.
EndBranch(b, result) ==
  /\ child' = [child EXCEPT ![b] = result]
  /\ worker' = [worker EXCEPT !.pc = IF worker.todo \ {b} = { } THEN "select" ELSE "branch",
                              !.results[b] = result, !.todo = @ \ {b}, !.upfront = @ \ {b},
                              !.branch = NoBranch]

\* First the branches with child runs, then the sequential ones, then the rest.
Turn(b) == IF b \in worker.upfront THEN 1 ELSE IF b \notin plan.parallelizable THEN 2 ELSE 3

IsNext(b) ==
  \A c \in worker.todo \ {b} : Turn(b) < Turn(c) \/ (Turn(b) = Turn(c) /\ Precedes(b, c))

StartBranch ==
  /\ At("branch")
  /\ \E b \in worker.todo :
       /\ IsNext(b)
       /\ IF b \in plan.staffed
          THEN /\ child' = [child EXCEPT ![b] = "in_progress"]
               /\ worker' = [worker EXCEPT !.pc = "call", !.branch = b, !.index = 1,
                                           !.failures = 0]
          ELSE EndBranch(b, "blocked")
  /\ UNCHANGED << plan, status, reason, checkpoint, submitted, peopleVars, performed, late >>

------------------------------------------------------------------------------
\* A tool call (_execute_one_tool_call).

AtCall == At("call") /\ worker.index <= Len(Calls)

\* The gate in front of the call.
PassGate ==
  /\ AtCall
  /\ IF "hitl" \in CallNow.gates THEN ConsumeGrant(CallNow.tool, worker.index)
     ELSE UNCHANGED approval
  /\ worker' = [worker EXCEPT !.pc = "toolbox"]
  /\ UNCHANGED << plan, runVars, checkpoint, member, performed >>

AskAtGate ==
  /\ AtCall
  /\ "hitl" \in CallNow.gates
  /\ Grants(CallNow.tool, worker.index) = { }
  /\ AskForGrant(CallNow)
  /\ Raise("approval")
  /\ UNCHANGED << plan, runVars, checkpoint, member, performed >>

ForbidTool ==
  /\ At("toolbox")
  /\ "forbidden" \in CallNow.gates
  /\ Raise("forbidden")
  /\ UNCHANGED << plan, runVars, checkpoint, peopleVars, performed >>

Allowed == At("toolbox") /\ "forbidden" \notin CallNow.gates

NextCall(failures) ==
  worker' = [worker EXCEPT !.pc = "call", !.index = @ + 1, !.failures = failures]

PerformTool ==
  /\ Allowed
  /\ "policy" \notin CallNow.gates
  /\ performed' = [performed EXCEPT ![CallNow.tool][worker.index] =
                     IF "hitl" \in CallNow.gates THEN @ + 1 ELSE @]
  /\ NextCall(worker.failures)
  /\ UNCHANGED << plan, runVars, checkpoint, peopleVars >>

\* The first failure of a list is a result, the second one escalates.
ToolFails ==
  /\ Allowed
  /\ "error" \in Faults
  /\ IF worker.failures = 0
     THEN NextCall(1) /\ UNCHANGED approval
     ELSE /\ Ask(Request(Escalation, NoTool, 0, worker.branch))
          /\ Raise("escalated")
  /\ UNCHANGED << plan, runVars, checkpoint, member, performed >>

\* The toolbox looks for a grant with the hash of the arguments, which no request made
\* here carries: it always asks, and refuses again with a grant, which is spent.
AskForPolicy ==
  /\ Allowed
  /\ "policy" \in CallNow.gates
  /\ Grants(CallNow.tool, worker.index) = { }
  /\ AskForGrant(CallNow)
  /\ Raise("approval")
  /\ UNCHANGED << plan, runVars, checkpoint, member, performed >>

RefuseAgain ==
  /\ Allowed
  /\ "policy" \in CallNow.gates
  /\ ConsumeGrant(CallNow.tool, worker.index)
  /\ worker' = [worker EXCEPT !.pc = "failing"]
  /\ UNCHANGED << plan, runVars, checkpoint, member, performed >>

\* Mutant: the model's word is taken as it comes.
RawContract == { "completed", "blocked", "failed", "in_review" }

\* worker_result_contract reads any other word as "completed".
Contract == { "completed", "blocked", "failed" }

\* The calls are done: the worker's answer (its contract) is the result of the branch; the
\* calls of a single-agent run are checkpointed.
Report ==
  /\ At("call")
  /\ worker.index > Len(Calls)
  /\ IF Managed
     THEN /\ \E result \in Contract : EndBranch(worker.branch, result)
          /\ UNCHANGED checkpoint
     ELSE LET results == [NoResults EXCEPT ![worker.branch] = "completed"] IN
          /\ checkpoint' = results
          /\ worker' = [worker EXCEPT !.pc = "resolve", !.results = results]
          /\ UNCHANGED child
  /\ UNCHANGED << plan, status, reason, submitted, peopleVars, performed, late >>

------------------------------------------------------------------------------
\* The end of an execution.

BlockedBranches == { b \in InPlan : worker.results[b] = "blocked" }

\* Mutant: only the branches that depend on nothing are looked at.
NoBlockedRoot == \A b \in BlockedBranches : plan.deps[b] # { }

NoBlocker == BlockedBranches = { }

\* The blocked branches are escalated one by one, at every resume again.
NextBlocker(i) ==
  /\ plan.order[i] \in BlockedBranches \ worker.escalated
  /\ \A j \in 1 .. i - 1 : plan.order[j] \notin BlockedBranches \ worker.escalated

\* Mutant: nobody is asked.
EscalateSilently ==
  /\ At("resolve")
  /\ \E i \in DOMAIN plan.order :
       NextBlocker(i) /\ worker' = [worker EXCEPT !.escalated = @ \cup {plan.order[i]}]
  /\ UNCHANGED << plan, runVars, checkpoint, peopleVars, performed >>

EscalateBranch ==
  /\ At("resolve")
  /\ \E i \in DOMAIN plan.order :
       /\ NextBlocker(i)
       /\ Ask(Request(Escalation, NoTool, 0, plan.order[i]))
       /\ worker' = [worker EXCEPT !.escalated = @ \cup {plan.order[i]}]
  /\ UNCHANGED << plan, runVars, checkpoint, member, performed >>

RaiseEscalated ==
  /\ At("resolve")
  /\ ~NoBlocker
  /\ BlockedBranches \subseteq worker.escalated
  /\ Raise("escalated")
  /\ UNCHANGED << plan, runVars, checkpoint, peopleVars, performed >>

\* Synthesis and review.
Approve ==
  /\ At("resolve")
  /\ NoBlocker
  /\ worker' = [worker EXCEPT !.pc = "completing"]
  /\ UNCHANGED << plan, runVars, checkpoint, peopleVars, performed >>

RequestRework ==
  /\ At("resolve")
  /\ NoBlocker
  /\ plan.reviewer
  /\ \E scope \in SUBSET InPlan \ {{ }} :
       child' = [b \in Branches |-> IF b \in scope THEN "planned" ELSE child[b]]
  /\ Raise("rework")
  /\ UNCHANGED << plan, status, reason, checkpoint, submitted, peopleVars, performed, late >>

\* A model call raises.
ModelFails ==
  /\ "error" \in Faults
  /\ \/ At("select")
     \/ At("resolve") /\ worker.escalated = { }
     \/ At("call") /\ worker.index > Len(Calls)
  /\ worker' = [worker EXCEPT !.pc = "failing"]
  /\ UNCHANGED << plan, runVars, checkpoint, peopleVars, performed >>

\* The handler writes the run's status whatever others have written meanwhile.
Leave(to, why) ==
  /\ status' = to
  /\ reason' = why
  /\ worker' = IdleWorker
  /\ UNCHANGED << plan, checkpoint, child, submitted, peopleVars, performed, late >>

Block == At("blocking") /\ Leave("blocked", worker.reason)
Fail == At("failing") /\ Leave("failed", "none")
Complete == At("completing") /\ Leave("completed", "none")

------------------------------------------------------------------------------
\* People.

\* Only a run that is blocked already is queued by the approval.
DecideApproved(u, i) ==
  /\ approval[i].status = "pending"
  /\ u \in MayDecide(i)
  /\ approval' = [approval EXCEPT ![i].status = "approved"]
  /\ IF status = "blocked"
     THEN status' = "queued" /\ reason' = "none" /\ submitted' = TRUE
     ELSE UNCHANGED << status, reason, submitted >>
  /\ late' = (late \/ status = "in_progress")
  /\ UNCHANGED << plan, checkpoint, child, member, worker, performed >>

DecideRejected(u, i) ==
  /\ approval[i].status = "pending"
  /\ u \in MayDecide(i)
  /\ approval' = [approval EXCEPT ![i].status = "rejected"]
  /\ IF status \in { "completed", "failed" }
     THEN UNCHANGED << status, reason >>
     ELSE status' = "failed" /\ reason' = "none"
  /\ late' = (late \/ worker.pc # "idle")
  /\ UNCHANGED << plan, checkpoint, child, submitted, member, worker, performed >>

DelegateApproval(u, v, i) ==
  /\ i <= MaxRerouted
  /\ approval[i].status = "pending"
  /\ CanDelegate(RoutingOf(approval[i]), member, u, v)
  /\ approval' =
       [approval EXCEPT ![i].delegations = Delegate(RoutingOf(approval[i]), u, v).delegations]
  /\ UNCHANGED << plan, runVars, checkpoint, member, worker, performed >>

\* scan_pending_approval_sla, when the deadline has passed.
EscalateApproval(i) ==
  /\ i <= MaxRerouted
  /\ approval[i].status = "pending"
  /\ ~approval[i].escalated
  /\ approval' = [approval EXCEPT ![i].escalated = TRUE]
  /\ UNCHANGED << plan, runVars, checkpoint, member, worker, performed >>

\* resume_run: the children are queued too, but nothing is submitted for them.
ResumeRun ==
  /\ status \in { "failed", "blocked" }
  /\ status' = "queued"
  /\ reason' = "none"
  /\ submitted' = TRUE
  /\ child' = [b \in Branches |-> IF child[b] \in { "blocked", "failed" } THEN "queued"
                                  ELSE child[b]]
  /\ UNCHANGED << plan, checkpoint, peopleVars, worker, performed, late >>

\* At most one of those who may decide does.
LeaveWorkspace(u) ==
  /\ "leave" \in Faults
  /\ member = Roles
  /\ CanDecide(member[u])
  /\ member' = [member EXCEPT ![u] = NoRole]
  /\ UNCHANGED << plan, runVars, checkpoint, approval, worker, performed >>

------------------------------------------------------------------------------
WorkerStep ==
  \/ Claim
  \/ Dispatch
  \/ EndOfBranches
  \/ StartBranch
  \/ PassGate
  \/ AskAtGate
  \/ ForbidTool
  \/ PerformTool
  \/ AskForPolicy
  \/ RefuseAgain
  \/ Report
  \/ EscalateBranch
  \/ RaiseEscalated
  \/ Approve
  \/ RequestRework
  \/ Block
  \/ Fail
  \/ Complete

PeopleStep ==
  \/ \E i \in DOMAIN approval :
       \/ \E u \in Users :
            \/ DecideApproved(u, i)
            \/ DecideRejected(u, i)
            \/ \E v \in Users : DelegateApproval(u, v, i)
       \/ EscalateApproval(i)
  \/ ResumeRun
  \/ \E u \in Users : LeaveWorkspace(u)

Failure == ToolFails \/ ModelFails

Next == WorkerStep \/ Failure \/ PeopleStep

\* Messages are delivered and a worker that has the run goes on.
Fairness == WF_vars(WorkerStep)

Spec == Init /\ [][Next]_vars
FairSpec == Spec /\ Fairness

------------------------------------------------------------------------------
\* Properties.

TypeOK ==
  /\ plan \in Plans
  /\ status \in RunStatus
  /\ reason \in Reason
  /\ checkpoint \in [Branches -> Result] \cup {<< >>}
  /\ child \in [Branches -> ChildStatus]
  /\ submitted \in BOOLEAN
  /\ Len(approval) <= MaxApprovals
  /\ approval \in Seq(ApprovalRequest)
  /\ member \in Members
  /\ worker.results \in [Branches -> Result]
  /\ worker.branch \in Branches \cup {NoBranch}
  /\ late \in BOOLEAN

\* Whatever is delegated and escalated, a pending request has somebody who may decide it,
\* as long as no member has left the workspace (approver_resolver.py,
\* approval_delegation.py): the owner counts without a role, and gives the right away only
\* to somebody who can use it.
SomebodyCanDecide ==
  member = Roles =>
    \A i \in DOMAIN approval : approval[i].status = "pending" => MayDecide(i) # { }

\* However often the run is blocked, resumed and executed again, a tool behind the gate
\* takes effect at most once for each approval of its call (grants.py: the grant is marked
\* in a commit of its own before the tool is called).
PerformedWasGranted ==
  \A t \in Tools : \A n \in DOMAIN performed[t] :
    performed[t][n] <=
      Cardinality({ i \in DOMAIN approval :
                      /\ approval[i].tool = t
                      /\ approval[i].index = n
                      /\ approval[i].status = "approved"
                      /\ approval[i].usedBy # NoBranch })

\* The grant a call uses is the one somebody gave for that branch's call (the docstring of
\* _consume_hitl_grant: "matched to the exact run/action").
GrantMatchesAction ==
  \A i \in DOMAIN approval : approval[i].usedBy \in { NoBranch, approval[i].branch }

\* A branch works only when the branches it depends on have completed, those that the cap
\* moved to the end of the round included (dispatcher.py, the ready set).
DependenciesFirst ==
  worker.branch \in InPlan => plan.deps[worker.branch] \subseteq Completed

\* A run blocked for want of a decision has a request somebody may still decide, unless a
\* decision came while the worker had the run: between the commit of the request and the
\* commit of "blocked" the decision finds nothing to queue.
BlockedForReason ==
  status = "blocked" /\ reason \in { "approval", "escalated" } =>
    late \/ \E i \in DOMAIN approval : approval[i].status = "pending"

\* A completed run has a result for every branch, none blocked, and every branch that has
\* run had its dependencies completed: a failed branch is accepted only where nothing
\* depends on it.  No branch of it is still at work.
CompletedMeansDone ==
  status = "completed" =>
    \A b \in InPlan :
      /\ checkpoint[b] \in { "completed", "failed" }
      /\ \A d \in plan.deps[b] : checkpoint[d] = "completed"
      /\ child[b] \notin { "in_progress", "blocked" }

\* The worker comes to an end with every plan, one with a cycle of dependencies included,
\* unless it needs more approval requests than the model has.
AtBound == Len(approval) + Len(plan.order) > MaxApprovals

RunSettles ==
  status \in { "queued", "in_progress" } ~> status \in { "blocked", "failed", "completed" } \/ AtBound

==============================================================================
