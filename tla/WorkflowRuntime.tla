---------------------------- MODULE WorkflowRuntime ----------------------------
(***************************************************************************)
(* One run of a workflow graph and the sessions that advance it.           *)
(*                                                                         *)
(* A run has no process of its own.  Whoever starts or resumes it (a       *)
(* request, the hook of a child task run or of a decision, a delay timer)  *)
(* advances it in its own database session until a node must wait or the   *)
(* run ends.  The run's status is read without a lock; the row lock is     *)
(* taken by the first flush and goes with each commit.  An agent node      *)
(* commits in the middle of the advance, because start_task_run commits    *)
(* and submits the child before the parent has noted it anywhere: the      *)
(* child lives, and may end, while its parent is not yet paused.           *)
(*                                                                         *)
(* An action is one node (or one branch of a parallel node), up to the     *)
(* commit it ends with, if any: what a session does under the row lock and *)
(* has not committed, nobody else sees.                                    *)
(***************************************************************************)
EXTENDS Naturals, Sequences, FiniteSets

CONSTANTS
  Graphs,          \* the workflow versions (below) a run may be of
  Sessions,        \* database sessions of the API and of workers
  Nobody,          \* the holder of a free row lock
  Nodes,           \* node ids
  End,             \* the next node of a last node
  MaxChildren,     \* bound: task runs started for the run
  MaxApprovals,    \* bound: approval requests made for the run
  MaxDisturbances, \* bound: sessions and hooks lost, and moves of ended task runs
  Faults           \* the faults that can happen, a subset of FaultKinds

\* A process is lost or an exception ends a session; a child's worker is lost between
\* its last commit and the hook; the broker does not take the timer's message.
FaultKinds == { "crash", "hook", "timer" }

ASSUME ConstantsAssumption ==
  /\ Nobody \notin Sessions
  /\ End \notin Nodes
  /\ MaxChildren \in Nat
  /\ MaxApprovals \in Nat
  /\ MaxDisturbances \in Nat
  /\ Faults \subseteq FaultKinds

------------------------------------------------------------------------------
\* Graphs.

Kind == { "agent", "tool", "approval", "human_input", "condition", "router", "delay",
          "parallel", "trigger" }

JoinPolicy == { "all_success", "any_success", "best_effort", "fail_fast", "n_of_m" }

\* The edge a finished node leaves by depends on the last condition the run evaluated.
Condition == { "none", "true", "false" }

Graph ==
  [ entry    : Nodes,
    kind     : [Nodes -> Kind],
    next     : [Nodes -> [Condition -> Nodes \cup {End}]],
    children : [Nodes -> Seq(Nodes)],   \* the branches of a parallel node
    policy   : JoinPolicy,
    need     : Nat,                     \* n of n_of_m
    onReject : { "fail", "cancel", "route_to", "request_changes" },
    route    : Nodes ]

ASSUME GraphsAssumption == Graphs \subseteq Graph

\* Succeeded and failed branches among those of a parallel node.
Count(statuses, x) == Cardinality({ i \in DOMAIN statuses : statuses[i] = x })

\* _evaluate_parallel_join
Join(policy, need, statuses) ==
  LET succeeded == Count(statuses, "succeeded")
      failed == Count(statuses, "failed")
      waiting == Len(statuses) - succeeded - failed
  IN  CASE policy \in { "any_success", "best_effort" } ->
             IF succeeded > 0 THEN "succeeded" ELSE IF waiting = 0 THEN "failed" ELSE "paused"
        [] policy = "fail_fast" ->
             IF failed > 0 THEN "failed" ELSE IF waiting > 0 THEN "paused" ELSE "succeeded"
        [] policy = "n_of_m" ->
             IF succeeded >= need THEN "succeeded"
             ELSE IF succeeded + waiting < need THEN "failed" ELSE "paused"
        [] policy = "all_success" ->
             IF waiting > 0 THEN "paused" ELSE IF failed > 0 THEN "failed" ELSE "succeeded"

------------------------------------------------------------------------------
VARIABLES
  graph,        \* the version in use
  row,          \* the committed row of workflow_runs
  child,        \* the task runs started for it, in the order of their start
  childRow,     \* those with a committed row in workflow_child_executions
  approval,     \* the approval requests made for it
  timer,        \* nodes with a delay message at the broker
  due,          \* delay nodes whose time has come
  hook,         \* calls of the hook to come: the child and the end it is called with
  lock,         \* the session that holds the row
  sess,         \* what each session is doing
  raced,        \* history: a session went on from a row that had changed since it read it
  stranded,     \* history: a session was lost after it had committed "running"
  missed,       \* history: children an end of which woke nobody
  disturbances  \* lost sessions and hooks, and moves of ended children, so far

allVars == << graph, row, child, childRow, approval, timer, due, hook, lock, sess,
              raced, stranded, missed, disturbances >>

Resumable == { "paused", "waiting_approval", "waiting_input" }
RunTerminal == { "completed", "failed", "cancelled" }
RunStatus == { "absent", "running" } \cup Resumable \cup RunTerminal

\* A task run that is queued, worked on or blocked is "active"; one that was cancelled is
\* "failed", too: neither the hook nor the parent tells the two apart.
ChildEnd == { "completed", "failed" }
ChildStatus == { "active" } \cup ChildEnd

\* done is history: an end is not for ever, but the parent may have gone on from it.
Child == [ node : Nodes, status : ChildStatus, done : BOOLEAN ]

HookCall == [ child : 1 .. MaxChildren, status : ChildEnd ]
Approval ==
  [ node : Nodes, status : { "pending", "approved", "rejected" }, consumed : BOOLEAN ]

ChildId == 1 .. MaxChildren
ApprovalId == 1 .. MaxApprovals
None == 0            \* no child, no approval

BranchStatus == { "pending", "paused", "succeeded", "failed" }

(***************************************************************************)
(* context_json of the run.  agents holds vars._agent_runs, and under a    *)
(* parallel node the child_run_id of its branches.  The code keeps both of *)
(* a node that is a branch and is also reached by an edge; here they share *)
(* one field, so the graphs to look at have their branches apart.          *)
(***************************************************************************)
Vars ==
  [ agents    : [Nodes -> 0 .. MaxChildren],
    approval  : 0 .. MaxApprovals,            \* pending_approval_request_id
    delay     : Nodes \cup {End},             \* _delay_resume.node_id
    branches  : [Nodes -> BranchStatus],
    condition : Condition,
    completed : SUBSET Nodes ]

InitVars ==
  [ agents |-> [n \in Nodes |-> None], approval |-> None, delay |-> End,
    branches |-> [n \in Nodes |-> "pending"], condition |-> "none", completed |-> {} ]

Row == [ status : RunStatus, cursor : Nodes \cup {End}, vars : Vars ]

(***************************************************************************)
(* pc: "decided" between the commit of a decision and its hook, "loaded"   *)
(* and "rejecting" before the first flush, "working" from there on,        *)
(* "started" between the commit inside start_task_run and the note of the  *)
(* child, "performed" after the commit of a tool's provider.               *)
(* base is the row as this session last read or wrote it; granted and      *)
(* human are what the resumption brought, spent the approval it will have  *)
(* consumed at its next commit; branch is the next branch of a parallel    *)
(* node; mine are the children and made the approvals whose rows it has    *)
(* not committed; woke is the child whose hook it is, and saw the status   *)
(* it has for it: the session is the one that wrote that status, and keeps *)
(* its copy of the child's row.                                            *)
(***************************************************************************)
Session ==
  [ pc      : { "idle", "decided", "rejecting", "loaded", "working", "started",
                "performed" },
    base    : Row,
    cursor  : Nodes \cup {End},
    vars    : Vars,
    granted : 0 .. MaxApprovals,
    spent   : 0 .. MaxApprovals,
    human   : BOOLEAN,
    steps   : Nat,
    branch  : Nat \ {0},
    mine    : SUBSET ChildId,
    made    : Seq(Nodes),
    woke    : 0 .. MaxChildren,
    saw     : ChildStatus ]

InitRow == [ status |-> "absent", cursor |-> End, vars |-> InitVars ]

IdleSession ==
  [ pc |-> "idle", base |-> InitRow, cursor |-> End, vars |-> InitVars, granted |-> None,
    spent |-> None, human |-> FALSE, steps |-> 0, branch |-> 1, mine |-> {},
    made |-> << >>, woke |-> None, saw |-> "active" ]

Init ==
  /\ graph \in Graphs
  /\ row = InitRow
  /\ child = << >>
  /\ childRow = {}
  /\ approval = << >>
  /\ timer = {}
  /\ due = {}
  /\ hook = {}
  /\ lock = Nobody
  /\ sess = [s \in Sessions |-> IdleSession]
  /\ raced = FALSE
  /\ stranded = FALSE
  /\ missed = {}
  /\ disturbances = 0

------------------------------------------------------------------------------
\* Commits.

\* An UPDATE names the columns that the session has changed.
Saved(s, status, cursor, vars) ==
  [ status |-> status,
    cursor |-> IF cursor # sess[s].base.cursor THEN cursor ELSE row.cursor,
    vars   |-> IF vars # sess[s].base.vars THEN vars ELSE row.vars ]

NewApproval(n) == [ node |-> n, status |-> "pending", consumed |-> FALSE ]

\* The approvals as the session's commit leaves them.
SavedApprovals(s, new) ==
  [a \in DOMAIN approval |->
     IF a = sess[s].spent THEN [approval[a] EXCEPT !.consumed = TRUE] ELSE approval[a]]
  \o [i \in DOMAIN (sess[s].made \o new) |-> NewApproval((sess[s].made \o new)[i])]

MayWrite(s) == lock \in { Nobody, s }

\* The session's last commit.
Finish(s, status, cursor, vars, new) ==
  /\ Len(approval) + Len(sess[s].made) + Len(new) <= MaxApprovals
  /\ row' = Saved(s, status, cursor, vars)
  /\ childRow' = childRow \cup sess[s].mine
  /\ approval' = SavedApprovals(s, new)
  /\ lock' = Nobody
  /\ sess' = [sess EXCEPT ![s] = IdleSession]

\* A commit on the way: the row says "running", with the vars of before.
CommitOnTheWay(s) ==
  /\ Len(approval) + Len(sess[s].made) <= MaxApprovals
  /\ row' = Saved(s, "running", sess[s].cursor, sess[s].base.vars)
  /\ childRow' = childRow \cup sess[s].mine
  /\ approval' = SavedApprovals(s, << >>)
  /\ lock' = Nobody

\* The session goes on, and what it has flushed keeps the row locked.
GoOn(s, fields) ==
  /\ sess' = [sess EXCEPT ![s] = fields]
  /\ lock' = s
  /\ UNCHANGED << row, childRow, approval >>

\* Mutant: the status of the waiting run is not set.
PauseRunning(s, status, vars, new) == Finish(s, "running", sess[s].cursor, vars, new)

Pause(s, status, vars, new) == Finish(s, status, sess[s].cursor, vars, new)

FailRun(s, vars) == Finish(s, "failed", sess[s].cursor, vars, << >>)

------------------------------------------------------------------------------
\* Starting and resuming.

KindAtCursor == IF row.cursor = End THEN "trigger" ELSE graph.kind[row.cursor]

\* The run waits at a node that has to be approved.
AsksApproval == KindAtCursor = "approval" \/ (KindAtCursor = "tool" /\ row.vars.approval # None)

\* Mutant: an approval nobody has decided yet is good enough.
FitsUndecided(granted, human) ==
  IF AsksApproval
  THEN granted # None /\ ~approval[granted].consumed /\ approval[granted].node = row.cursor
  ELSE KindAtCursor = "human_input" => human

\* What resume_run asks for at the node the run waits at.
Fits(granted, human) ==
  IF AsksApproval
  THEN /\ granted # None
       /\ approval[granted].status = "approved"
       /\ ~approval[granted].consumed
       /\ approval[granted].node = row.cursor
  ELSE KindAtCursor = "human_input" => human

\* Mutant: a run that has ended is resumed, too.
CanResumeEnded(granted, human) ==
  row.status \in Resumable \cup RunTerminal /\ Fits(granted, human)

CanResume(granted, human) == row.status \in Resumable /\ Fits(granted, human)

\* What the node does not ask for is ignored.
Loaded(s, pc, granted, human, woke, saw) ==
  LET taken == IF AsksApproval THEN granted ELSE None
  IN  sess' = [sess EXCEPT ![s] =
        [ IdleSession EXCEPT !.pc = pc, !.base = row, !.cursor = row.cursor, !.vars = row.vars,
                             !.granted = taken, !.spent = taken,
                             !.human = human /\ KindAtCursor = "human_input",
                             !.woke = woke, !.saw = saw ]]

\* start_run creates the row in the transaction that first advances it.
StartRun(s) ==
  /\ row.status = "absent"
  /\ \A t \in Sessions : sess[t].pc = "idle"
  /\ lock' = s
  /\ sess' = [sess EXCEPT ![s] = [IdleSession EXCEPT !.pc = "working", !.cursor = graph.entry]]
  /\ UNCHANGED << graph, row, child, childRow, approval, timer, due, hook, raced, stranded,
                  missed, disturbances >>

UserResumes(s) ==
  /\ sess[s].pc = "idle"
  /\ \E granted \in { None } \cup DOMAIN approval, human \in BOOLEAN :
       CanResume(granted, human) /\ Loaded(s, "loaded", granted, human, None, "active")
  /\ UNCHANGED << graph, row, child, childRow, approval, timer, due, hook, lock, raced,
                  stranded, missed, disturbances >>

\* Mutant: the hook takes a finished child for one of no workflow.
ChildHookWithoutRow(s, h) ==
  /\ sess[s].pc = "idle"
  /\ hook' = hook \ {h}
  /\ UNCHANGED << graph, row, child, childRow, approval, timer, due, lock, raced, stranded,
                  sess, missed, disturbances >>

\* on_task_run_terminal finds the parent by the child's committed row.
ChildHook(s, h) ==
  /\ sess[s].pc = "idle"
  /\ hook' = hook \ {h}
  /\ IF h.child \in childRow /\ CanResume(None, FALSE)
     THEN Loaded(s, "loaded", None, FALSE, h.child, h.status) /\ UNCHANGED missed
     ELSE missed' = missed \cup { h.child } /\ UNCHANGED sess
  /\ UNCHANGED << graph, row, child, childRow, approval, timer, due, lock, raced, stranded,
                  disturbances >>

\* resume_workflow_after_delay goes by vars._delay_resume, which no branch sets.
TimerFires(s, n) ==
  /\ sess[s].pc = "idle"
  /\ n \in timer
  /\ n \in due
  /\ timer' = timer \ {n}
  /\ IF row.status = "paused" /\ row.cursor = n /\ row.vars.delay = n
     THEN Loaded(s, "loaded", None, FALSE, None, "active")
     ELSE UNCHANGED sess
  /\ UNCHANGED << graph, row, child, childRow, approval, due, hook, lock, raced, stranded,
                  missed, disturbances >>

Decide(s, a, status) ==
  /\ sess[s].pc = "idle"
  /\ a \in DOMAIN approval
  /\ approval[a].status = "pending"
  /\ approval' = [approval EXCEPT ![a].status = status]
  /\ sess' = [sess EXCEPT ![s] = [IdleSession EXCEPT !.pc = "decided", !.granted = a]]
  /\ UNCHANGED << graph, row, child, childRow, timer, due, hook, lock, raced, stranded,
                  missed, disturbances >>

\* on_approval_decided
DecisionHook(s) ==
  LET a == sess[s].granted
  IN  /\ sess[s].pc = "decided"
      /\ IF approval[a].status = "approved" /\ CanResume(a, FALSE)
         THEN Loaded(s, "loaded", a, FALSE, None, "active")
         ELSE IF approval[a].status = "rejected" /\ row.status = "waiting_approval"
         THEN Loaded(s, "rejecting", None, FALSE, None, "active")
         ELSE sess' = [sess EXCEPT ![s] = IdleSession]
      /\ UNCHANGED << graph, row, child, childRow, approval, timer, due, hook, lock, raced,
                      stranded, missed, disturbances >>

\* The first flush waits for the row; what was read before stays.
Enter(s) ==
  /\ sess[s].pc = "loaded"
  /\ lock = Nobody
  /\ lock' = s
  /\ sess' = [sess EXCEPT ![s] = [sess[s] EXCEPT !.pc = "working"]]
  /\ raced' = (raced \/ row # sess[s].base)
  /\ UNCHANGED << graph, row, child, childRow, approval, timer, due, hook, stranded, missed,
                  disturbances >>

\* apply_approval_rejection, by the on_reject of the node the run waits at.
ApplyRejection(s) ==
  LET vars == [sess[s].vars EXCEPT !.approval = None]
      routed == [vars EXCEPT !.completed = @ \cup { sess[s].cursor }]
      onReject == IF sess[s].cursor = End THEN "fail" ELSE graph.onReject
  IN  /\ sess[s].pc = "rejecting"
      /\ lock = Nobody
      /\ \/ onReject = "request_changes" /\ Pause(s, "waiting_input", vars, << >>)
         \/ onReject = "cancel" /\ Finish(s, "cancelled", sess[s].cursor, vars, << >>)
         \/ onReject = "fail" /\ FailRun(s, vars)
         \/ /\ onReject = "route_to"
            /\ GoOn(s, [sess[s] EXCEPT !.pc = "working", !.cursor = graph.route,
                                       !.vars = routed])
      /\ raced' = (raced \/ row # sess[s].base)
      /\ UNCHANGED << graph, child, timer, due, hook, stranded, missed, disturbances >>

------------------------------------------------------------------------------
\* _advance, node by node.

MaxSteps == 3 * Cardinality(Nodes)

At(s, kind) ==
  /\ sess[s].pc = "working"
  /\ MayWrite(s)
  /\ sess[s].steps < MaxSteps
  /\ sess[s].cursor # End
  /\ graph.kind[sess[s].cursor] = kind

\* Mutant: the list of completed nodes starts anew.
HopAfresh(s, vars, cond) ==
  LET here == sess[s].cursor
      next == graph.next[here][cond]
      done == [vars EXCEPT !.completed = {here}]
  IN  IF next = End
      THEN Finish(s, "completed", End, done, << >>)
      ELSE GoOn(s, [sess[s] EXCEPT !.cursor = next, !.vars = done, !.branch = 1,
                                   !.steps = @ + 1, !.granted = None, !.human = FALSE])

\* On to the node that the edge for cond leads to, or to the end of the run.
Hop(s, vars, cond) ==
  LET here == sess[s].cursor
      next == graph.next[here][cond]
      done == [vars EXCEPT !.completed = @ \cup {here}]
  IN  IF next = End
      THEN Finish(s, "completed", End, done, << >>)
      ELSE GoOn(s, [sess[s] EXCEPT !.cursor = next, !.vars = done, !.branch = 1,
                                   !.steps = @ + 1, !.granted = None, !.human = FALSE])

Here(s) == UNCHANGED << graph, child, timer, due, hook, raced, stranded, missed, disturbances >>

\* A paused run without a current node, which only racing sessions leave, is complete.
StepPastEnd(s) ==
  /\ sess[s].pc = "working"
  /\ sess[s].cursor = End
  /\ MayWrite(s)
  /\ Finish(s, "completed", End, sess[s].vars, << >>)
  /\ Here(s)

\* Nodes that need nobody: triggers, skills, tools that may act unasked, unknown types.
StepTrigger(s) ==
  /\ At(s, "trigger")
  /\ \/ Hop(s, sess[s].vars, sess[s].vars.condition)
     \/ FailRun(s, sess[s].vars)
  /\ Here(s)

StepCondition(s) ==
  /\ At(s, "condition")
  /\ \E cond \in { "true", "false" } : Hop(s, [sess[s].vars EXCEPT !.condition = cond], cond)
  /\ Here(s)

StepRouter(s) ==
  /\ At(s, "router")
  /\ \E cond \in Condition : Hop(s, sess[s].vars, cond)
  /\ Here(s)

StepHumanInput(s) ==
  /\ At(s, "human_input")
  /\ \/ /\ sess[s].human
        /\ Hop(s, sess[s].vars, sess[s].vars.condition)
     \/ /\ ~sess[s].human
        /\ Pause(s, "waiting_input", sess[s].vars, << >>)
  /\ Here(s)

\* The run asks for an approval, unless it has an open one.
AskApproval(s) ==
  \/ /\ sess[s].vars.approval # None
     /\ Pause(s, "waiting_approval", sess[s].vars, << >>)
  \/ /\ sess[s].vars.approval = None
     /\ Pause(s, "waiting_approval",
              [sess[s].vars EXCEPT !.approval = Len(approval) + Len(sess[s].made) + 1],
              << sess[s].cursor >>)

StepApproval(s) ==
  /\ At(s, "approval")
  /\ \/ /\ sess[s].granted # None
        /\ Hop(s, [sess[s].vars EXCEPT !.approval = None], sess[s].vars.condition)
     \/ sess[s].granted = None /\ AskApproval(s)
  /\ Here(s)

\* A tool that has to be approved, unless it is forbidden.
StepTool(s) ==
  /\ At(s, "tool")
  /\ \/ sess[s].granted = None /\ AskApproval(s)
     \/ /\ sess[s].granted = None
        /\ sess[s].vars.approval = None
        /\ FailRun(s, sess[s].vars)
     \/ sess[s].granted # None /\ FailRun(s, [sess[s].vars EXCEPT !.approval = None])
  /\ Here(s)

\* The provider of a connector's tool commits after a successful call.
ToolCommits(s) ==
  /\ \/ At(s, "tool") /\ sess[s].granted # None
     \/ At(s, "trigger")
  /\ CommitOnTheWay(s)
  /\ sess' = [sess EXCEPT ![s] =
       [sess[s] EXCEPT !.base = row', !.granted = None, !.spent = None, !.mine = {},
                       !.made = << >>, !.pc = "performed",
                       !.vars = IF graph.kind[sess[s].cursor] = "tool"
                                THEN [sess[s].vars EXCEPT !.approval = None]
                                ELSE sess[s].vars]]
  /\ Here(s)

AfterTool(s) ==
  /\ sess[s].pc = "performed"
  /\ MayWrite(s)
  /\ LET next == graph.next[sess[s].cursor][sess[s].vars.condition]
         done == [sess[s].vars EXCEPT !.completed = @ \cup { sess[s].cursor }]
     IN  IF next = End
         THEN Finish(s, "completed", End, done, << >>)
         ELSE GoOn(s, [sess[s] EXCEPT !.pc = "working", !.cursor = next, !.vars = done,
                                      !.branch = 1, !.steps = @ + 1])
  /\ Here(s)

\* _schedule_delay_resume swallows the broker's errors.
Schedule(n) ==
  \/ timer' = timer \cup {n}
  \/ "timer" \in Faults /\ UNCHANGED timer

StepDelay(s) ==
  LET n == sess[s].cursor
      vars == sess[s].vars
  IN  /\ At(s, "delay")
      /\ \/ /\ vars.delay = n
            /\ n \in due
            /\ Hop(s, [vars EXCEPT !.delay = End], vars.condition)
            /\ UNCHANGED << timer, due >>
         \/ /\ vars.delay = n
            /\ n \notin due
            /\ Pause(s, "paused", vars, << >>)
            /\ UNCHANGED << timer, due >>
         \/ /\ vars.delay # n
            /\ Pause(s, "paused", [vars EXCEPT !.delay = n], << >>)
            /\ Schedule(n)
            /\ due' = due \ {n}
      /\ UNCHANGED << graph, child, hook, raced, stranded, missed, disturbances >>

\* start_task_run commits, submits the child, and returns.
StartChild(s, n) ==
  /\ Len(child) < MaxChildren
  /\ CommitOnTheWay(s)
  /\ child' = Append(child, [ node |-> n, status |-> "active", done |-> FALSE ])
  /\ sess' = [sess EXCEPT ![s] =
       [sess[s] EXCEPT !.base = row', !.pc = "started", !.granted = None, !.spent = None,
                       !.mine = { Len(child) + 1 }, !.made = << >>]]
  /\ UNCHANGED << graph, timer, due, hook, raced, stranded, missed, disturbances >>

\* A session has the status of a child from the row, but of its own child from its copy.
Seen(s, c) == IF c = sess[s].woke THEN sess[s].saw ELSE child[c].status

\* Mutant: the agent node does not look for the child it has started.
StepAgentAnew(s) ==
  /\ At(s, "agent")
  /\ StartChild(s, sess[s].cursor)

StepAgent(s) ==
  LET n == sess[s].cursor
      c == sess[s].vars.agents[n]
  IN  /\ At(s, "agent")
      /\ \/ c = None /\ StartChild(s, n)
         \/ /\ c # None
            /\ Seen(s, c) = "completed"
            /\ Hop(s, sess[s].vars, sess[s].vars.condition)
            /\ Here(s)
         \/ /\ c # None
            /\ Seen(s, c) = "failed"
            /\ FailRun(s, sess[s].vars)
            /\ Here(s)
         \/ /\ c # None
            /\ Seen(s, c) = "active"
            /\ Pause(s, "paused", sess[s].vars, << >>)
            /\ Here(s)

\* The child is noted: at an agent node the run pauses, at a parallel one it goes on.
NoteChild(s) ==
  /\ sess[s].pc = "started"
  /\ graph.kind[sess[s].cursor] = "agent"
  /\ MayWrite(s)
  /\ \E c \in sess[s].mine :
       Pause(s, "paused",
             [sess[s].vars EXCEPT !.agents =
                [sess[s].vars.agents EXCEPT ![sess[s].cursor] = c]], << >>)
  /\ Here(s)

------------------------------------------------------------------------------
\* _execute_parallel_node, branch by branch.

Branches(n) == graph.children[n]

BranchStatuses(n, vars) == [i \in DOMAIN Branches(n) |-> vars.branches[Branches(n)[i]]]

JoinOf(n, vars) == Join(graph.policy, graph.need, BranchStatuses(n, vars))

\* Two policies end the visit before its last branch.
EndsEarly(n, vars) ==
  \/ graph.policy = "fail_fast" /\ Count(BranchStatuses(n, vars), "failed") > 0
  \/ graph.policy = "n_of_m" /\ JoinOf(n, vars) # "paused"

InParallel(s) ==
  /\ sess[s].pc = "working"
  /\ sess[s].steps < MaxSteps
  /\ sess[s].cursor # End
  /\ graph.kind[sess[s].cursor] = "parallel"

AtBranch(s, kind, status) ==
  /\ InParallel(s)
  /\ sess[s].branch <= Len(Branches(sess[s].cursor))
  /\ ~EndsEarly(sess[s].cursor, sess[s].vars)
  /\ LET b == Branches(sess[s].cursor)[sess[s].branch]
     IN  graph.kind[b] = kind /\ sess[s].vars.branches[b] \in status

\* The visit goes on with the next branch; it has not touched the run's row.
NextBranch(s, status, made) ==
  LET b == Branches(sess[s].cursor)[sess[s].branch]
      vars == sess[s].vars
  IN  /\ sess' = [sess EXCEPT ![s] =
           [sess[s] EXCEPT !.vars = [vars EXCEPT !.branches =
                                       [vars.branches EXCEPT ![b] = status]],
                           !.branch = @ + 1, !.made = @ \o made]]
      /\ UNCHANGED << row, childRow, approval, lock >>

SettledBranch == { "succeeded", "failed" }

\* A simple branch that could not do its work at once is paused, and no refresh knows of it.
SimpleKind == { "trigger", "tool" }

SkipBranch(s) ==
  /\ \/ \E kind \in Kind, status \in SettledBranch :
          AtBranch(s, kind, {status}) /\ NextBranch(s, status, << >>)
     \/ \E kind \in SimpleKind :
          AtBranch(s, kind, {"paused"}) /\ NextBranch(s, "paused", << >>)
  /\ Here(s)

\* A condition always has a result; a skill may be missing, a tool may fail.
SimpleBranch(s) ==
  /\ \/ AtBranch(s, "condition", {"pending"}) /\ NextBranch(s, "succeeded", << >>)
     \/ /\ AtBranch(s, "trigger", {"pending"})
        /\ \E status \in { "succeeded", "paused" } : NextBranch(s, status, << >>)
  /\ Here(s)

\* The provider's commit, while the run is at its parallel node.
CommittingBranch(s) ==
  /\ AtBranch(s, "trigger", {"pending"})
  /\ MayWrite(s)
  /\ CommitOnTheWay(s)
  /\ LET b == Branches(sess[s].cursor)[sess[s].branch]
         vars == sess[s].vars
     IN  sess' = [sess EXCEPT ![s] =
           [sess[s] EXCEPT !.base = row', !.granted = None, !.spent = None, !.mine = {},
                           !.made = << >>, !.branch = @ + 1,
                           !.vars = [vars EXCEPT !.branches =
                                       [vars.branches EXCEPT ![b] = "succeeded"]]]]
  /\ Here(s)

\* A tool that has to be approved, or is forbidden.  The approval is asked for, but its
\* pending_tool is left in the branch's copy of the vars.
ToolBranch(s) ==
  /\ AtBranch(s, "tool", {"pending"})
  /\ \E made \in { << >>, << Branches(sess[s].cursor)[sess[s].branch] >> } :
       NextBranch(s, "paused", made)
  /\ Here(s)

\* Nodes of the other kinds are no branches.
RefuseBranch(s) ==
  /\ \E kind \in { "approval", "human_input", "router", "parallel" } :
       AtBranch(s, kind, {"pending"})
  /\ NextBranch(s, "failed", << >>)
  /\ Here(s)

DelayBranch(s) ==
  LET b == Branches(sess[s].cursor)[sess[s].branch]
  IN  /\ \/ /\ AtBranch(s, "delay", {"pending"})
            /\ NextBranch(s, "paused", << >>)
            /\ Schedule(sess[s].cursor)
         \/ /\ AtBranch(s, "delay", {"paused"})
            /\ NextBranch(s, IF b \in due THEN "succeeded" ELSE "paused", << >>)
            /\ UNCHANGED timer
      /\ UNCHANGED << graph, child, due, hook, raced, stranded, missed, disturbances >>

StartBranch(s) ==
  /\ AtBranch(s, "agent", {"pending"})
  /\ MayWrite(s)
  /\ StartChild(s, Branches(sess[s].cursor)[sess[s].branch])

NoteBranch(s) ==
  /\ sess[s].pc = "started"
  /\ graph.kind[sess[s].cursor] = "parallel"
  /\ \E c \in sess[s].mine :
       LET b == child[c].node
           vars == sess[s].vars
       IN  sess' = [sess EXCEPT ![s] =
             [sess[s] EXCEPT !.pc = "working", !.branch = @ + 1,
                             !.vars = [vars EXCEPT
                                         !.branches = [vars.branches EXCEPT ![b] = "paused"],
                                         !.agents = [vars.agents EXCEPT ![b] = c]]]]
  /\ UNCHANGED << row, childRow, approval, lock >>
  /\ Here(s)

\* Mutant: a child that has failed counts as one that is done.
BranchOfAnyEnd(status) == IF status = "active" THEN "paused" ELSE "succeeded"

\* Mutant: the status of the child is taken for the status of the branch.
BranchOfRaw(status) == status

\* _refresh_parallel_branch_status, by the status of the child.
BranchOf(status) ==
  CASE status = "active" -> "paused"
    [] status = "completed" -> "succeeded"
    [] status = "failed" -> "failed"

RefreshBranch(s) ==
  LET c == sess[s].vars.agents[Branches(sess[s].cursor)[sess[s].branch]]
  IN  /\ AtBranch(s, "agent", {"paused"})
      /\ NextBranch(s, BranchOf(Seen(s, c)), << >>)
      /\ Here(s)

Conclude(s) ==
  LET n == sess[s].cursor
      vars == sess[s].vars
  IN  /\ InParallel(s)
      /\ MayWrite(s)
      /\ sess[s].branch > Len(Branches(n)) \/ EndsEarly(n, vars)
      /\ \/ JoinOf(n, vars) = "succeeded" /\ Hop(s, vars, vars.condition)
         \/ JoinOf(n, vars) = "failed" /\ FailRun(s, vars)
         \/ JoinOf(n, vars) = "paused" /\ Pause(s, "paused", vars, << >>)
      /\ Here(s)

------------------------------------------------------------------------------
\* The rest.

\* _advance gives up after three times the number of nodes: the run stays "running".
RunOutOfSteps(s) ==
  /\ sess[s].pc = "working"
  /\ sess[s].steps = MaxSteps
  /\ MayWrite(s)
  /\ Finish(s, "running", sess[s].cursor, sess[s].vars, << >>)
  /\ stranded' = TRUE
  /\ UNCHANGED << graph, child, timer, due, hook, raced, missed, disturbances >>

Disturb ==
  /\ disturbances < MaxDisturbances
  /\ disturbances' = disturbances + 1

Moves(c, status) ==
  /\ c \in DOMAIN child
  /\ child' = [child EXCEPT ![c].status = status,
                            ![c].done = @ \/ status = "completed"]

\* Whoever commits the end of a task run then calls the hook, if it still can: the worker,
\* which writes its outcome over what others have written meanwhile, or a user's cancel_run,
\* which asks for no status.
ChildEnds(c, status) ==
  /\ Moves(c, status)
  /\ \/ /\ hook' = hook \cup { [ child |-> c, status |-> status ] }
        /\ \/ child[c].status = "active" /\ UNCHANGED disturbances
           \/ child[c].status # "active" /\ Disturb
        /\ UNCHANGED missed
     \/ /\ "hook" \in Faults
        /\ Disturb
        /\ missed' = missed \cup {c}
        /\ UNCHANGED hook
  /\ UNCHANGED << graph, row, childRow, approval, timer, due, lock, sess, raced, stranded >>

\* The recovery scan, the time limit and the refusal of an approval call no hook.
ChildFailsUnsaid(c) ==
  /\ Moves(c, "failed")
  /\ child[c].status = "active"
  /\ Disturb
  /\ missed' = missed \cup {c}
  /\ UNCHANGED << graph, row, childRow, approval, timer, due, hook, lock, sess, raced,
                  stranded >>

\* resume_run queues the task run again; others may have moved it since it read "failed".
ChildResumed(c) ==
  /\ Moves(c, "active")
  /\ child[c].status # "active"
  /\ Disturb
  /\ UNCHANGED << graph, row, childRow, approval, timer, due, hook, lock, sess, raced,
                  stranded, missed >>

TimePasses(n) ==
  /\ graph.kind[n] = "delay"
  /\ n \in timer \/ row.vars.delay = n \/ row.vars.branches[n] = "paused"
  /\ due' = due \cup {n}
  /\ UNCHANGED << graph, row, child, childRow, approval, timer, hook, lock, sess, raced,
                  stranded, missed, disturbances >>

\* The session is lost.  The hooks swallow an exception, and what the session had flushed
\* is kept when its worker commits again.
SessionLost(s) ==
  /\ "crash" \in Faults
  /\ Disturb
  /\ sess[s].pc # "idle"
  /\ sess' = [sess EXCEPT ![s] = IdleSession]
  /\ \/ /\ lock' = IF lock = s THEN Nobody ELSE lock
        /\ stranded' = (stranded \/ sess[s].base.status = "running")
        /\ UNCHANGED << row, childRow, approval >>
     \/ /\ sess[s].pc = "working"
        /\ MayWrite(s)
        /\ CommitOnTheWay(s)
        /\ stranded' = TRUE
  /\ missed' = missed \cup ({ sess[s].woke } \ { None })
  /\ UNCHANGED << graph, child, timer, due, hook, raced >>

------------------------------------------------------------------------------
\* What a session does without anybody's help.
AdvanceStep(s) ==
  \/ DecisionHook(s)
  \/ Enter(s)
  \/ ApplyRejection(s)
  \/ StepPastEnd(s)
  \/ StepTrigger(s)
  \/ StepCondition(s)
  \/ StepRouter(s)
  \/ StepHumanInput(s)
  \/ StepApproval(s)
  \/ StepTool(s)
  \/ ToolCommits(s)
  \/ AfterTool(s)
  \/ StepDelay(s)
  \/ StepAgent(s)
  \/ NoteChild(s)
  \/ SkipBranch(s)
  \/ SimpleBranch(s)
  \/ CommittingBranch(s)
  \/ ToolBranch(s)
  \/ RefuseBranch(s)
  \/ DelayBranch(s)
  \/ StartBranch(s)
  \/ NoteBranch(s)
  \/ RefreshBranch(s)
  \/ Conclude(s)
  \/ RunOutOfSteps(s)

UserStep(s) ==
  \/ StartRun(s)
  \/ UserResumes(s)
  \/ \E a \in ApprovalId, status \in { "approved", "rejected" } : Decide(s, a, status)

WorldStep ==
  \/ \E c \in ChildId, status \in ChildEnd : ChildEnds(c, status)
  \/ \E c \in ChildId : ChildFailsUnsaid(c) \/ ChildResumed(c)
  \/ \E n \in Nodes : TimePasses(n)

Next ==
  \/ \E s \in Sessions :
       \/ AdvanceStep(s)
       \/ UserStep(s)
       \/ \E h \in hook : ChildHook(s, h)
       \/ \E n \in Nodes : TimerFires(s, n)
       \/ SessionLost(s)
  \/ WorldStep

\* While sessions are at work one of them goes on, and the worker of an ended child calls
\* the hook, which waits for a free session.
Fairness ==
  /\ WF_allVars(\E s \in Sessions : AdvanceStep(s))
  /\ SF_allVars(\E s \in Sessions : \E h \in hook : ChildHook(s, h))

Spec == Init /\ [][Next]_allVars
FairSpec == Spec /\ Fairness

------------------------------------------------------------------------------
\* Properties.

TypeOK ==
  /\ graph \in Graphs
  /\ row \in Row
  /\ child \in Seq(Child) /\ Len(child) <= MaxChildren
  /\ childRow \subseteq DOMAIN child
  /\ approval \in Seq(Approval) /\ Len(approval) <= MaxApprovals
  /\ timer \subseteq Nodes
  /\ due \subseteq Nodes
  /\ hook \subseteq HookCall /\ \A h \in hook : h.child \in DOMAIN child
  /\ lock \in Sessions \cup {Nobody}
  /\ sess \in [Sessions -> Session]
  /\ raced \in BOOLEAN
  /\ stranded \in BOOLEAN
  /\ missed \subseteq DOMAIN child
  /\ disturbances \in 0 .. MaxDisturbances

\* However often the run is paused, woken, resumed and rolled back, an agent node is given
\* one task run: a second one works on the task of the first (_agent_runs,
\* child_run_id).  Only a session that went on from a row it had read too early starts
\* another, in graphs whose parallel nodes have their branches to themselves (validate_graph
\* allows others).
OneChildPerNode ==
  \A c, d \in DOMAIN child : child[c].node = child[d].node => c = d \/ raced

\* A rejection routes the run on from the node it stands at.
Routed ==
  /\ graph.onReject = "route_to"
  /\ \E a \in DOMAIN approval : approval[a].status = "rejected"

\* The run gets past an agent node only with that node's completed task run, past an
\* approval node or an approved tool only with a consumed approval of that node, unless a
\* rejection routes it on.  The rejection need not be of the node the run waits at:
\* on_approval_decided does not compare the two, and a run joined without its tool branch
\* leaves that branch's approval open (workflow_hooks.py:143-149).
PassedWithCause ==
  \A n \in row.vars.completed :
    \/ Routed
    \/ /\ graph.kind[n] = "agent" =>
            \E c \in DOMAIN child : child[c].node = n /\ child[c].done
       /\ graph.kind[n] \in { "approval", "tool" } =>
            \E a \in DOMAIN approval :
              /\ approval[a].node = n
              /\ approval[a].status = "approved"
              /\ approval[a].consumed

\* The run gets past a parallel node only when its children really ended as its policy asks,
\* unless a rejection routes it on: racing sessions can leave a run that waits for an approval
\* at a parallel node (workflow_runtime.py, _evaluate_parallel_join and
\* _refresh_parallel_branch_status).
JoinedWithCause ==
  \A n \in row.vars.completed :
    graph.kind[n] = "parallel" =>
      LET good(b) == IF graph.kind[b] = "agent"
                     THEN \E c \in DOMAIN child : child[c].node = b /\ child[c].done
                     ELSE row.vars.branches[b] = "succeeded"
          goods == { i \in DOMAIN Branches(n) : good(Branches(n)[i]) }
      IN  \/ Routed
          \/ graph.policy \in { "all_success", "fail_fast" } /\ goods = DOMAIN Branches(n)
          \/ graph.policy = "n_of_m" /\ Cardinality(goods) >= graph.need
          \/ graph.policy \in { "any_success", "best_effort" } /\ goods # {}

\* A run that says "running" has a session that runs it, unless one was lost after it had
\* committed half of an advance, or gave up: nothing resumes a "running" run.
RunningHasSession ==
  row.status = "running" =>
    \/ stranded
    \/ raced
    \/ \E s \in Sessions : sess[s].pc # "idle" /\ sess[s].base.status = "running"

\* A run that ended stays as it ended.
EndIsFinal ==
  [][row.status \in RunTerminal => row'.status = row.status \/ raced']_allVars

\* What the paused run waits for has come: its node would no longer pause.
Refreshed(n) ==
  [ row.vars EXCEPT !.branches =
      [b \in Nodes |-> IF /\ row.vars.branches[b] = "paused"
                          /\ graph.kind[b] = "agent"
                       THEN BranchOf(child[row.vars.agents[b]].status)
                       ELSE row.vars.branches[b]] ]

Ready ==
  /\ row.status = "paused"
  /\ \/ /\ KindAtCursor = "agent"
        /\ child[row.vars.agents[row.cursor]].status # "active"
     \/ /\ KindAtCursor = "parallel"
        /\ JoinOf(row.cursor, Refreshed(row.cursor)) # "paused"

\* No wake-up is lost: a paused run that need not wait any longer has noted a child that has
\* ended, and that child's hook is still to come, or came and found the run not waiting or
\* was lost, or has woken a session that has yet to look at the row or is about to go on
\* from it (workflow_hooks.py, on_task_run_terminal, reads the run before it locks the row,
\* and another session may be passing the child's branch at that time).
NoLostWakeUp ==
  Ready /\ ~raced =>
    \E c \in DOMAIN child :
      /\ row.vars.agents[child[c].node] = c
      /\ child[c].status # "active"
      /\ \/ c \in missed \cup { h.child : h \in hook }
         \/ \E s \in Sessions : sess[s].pc \in { "loaded", "working" } /\ sess[s].woke = c

\* The end of the children it waits for wakes the run, unless the hook of one of them came
\* before the parent was paused or was lost (workflow_hooks.py, on_task_run_terminal).
ChildrenWakeRun ==
  Ready ~> ~Ready \/ missed # {} \/ raced

------------------------------------------------------------------------------
\* The promise.

OfKind(kinds) == { n \in Nodes : graph.kind[n] \in kinds }

\* The nodes of the children, or of the approvals, with one of these statuses.
NodesWith(q, statuses) == { q[i].node : i \in { j \in DOMAIN q : q[j].status \in statuses } }

DoneNodes(ch) == { ch[c].node : c \in { d \in DOMAIN ch : ch[d].done } }

SpentNodes(ap) == { ap[a].node : a \in { b \in DOMAIN ap : ap[b].consumed } }

HasRejected(ap) == \E a \in DOMAIN ap : ap[a].status = "rejected"

Outcome(status) == IF status \in RunTerminal \cup { "absent" } THEN status ELSE "open"

Promise == INSTANCE WorkflowPromise WITH
  agents <- OfKind({ "agent" }),
  gates <- OfKind({ "approval", "tool" }),
  reroutes <- graph.onReject = "route_to",
  status <- Outcome(row.status),
  passed <- row.vars.completed,
  started <- NodesWith(child, ChildStatus),
  done <- DoneNodes(child),
  approved <- NodesWith(approval, { "approved" }),
  spent <- SpentNodes(approval),
  rejected <- HasRejected(approval),
  void <- raced

\* The abstract run of WorkflowPromise is what the run commits: whatever its sessions do
\* between their commits, none of it is taken back and none of it is out of turn
\* (workflow_runtime.py, resume_run and _advance), as long as no session goes on from a row
\* that has changed.
KeepsPromise == Promise!Spec

==============================================================================
