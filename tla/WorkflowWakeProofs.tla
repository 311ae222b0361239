--------------------------- MODULE WorkflowWakeProofs ---------------------------
(***************************************************************************)
(* No child of a run of WorkflowRuntime ends unheard: a paused run that    *)
(* need not wait any longer is being woken, for any graphs, sessions,      *)
(* bounds and faults, as long as no session went on from a row that had    *)
(* changed.                                                                *)
(*                                                                         *)
(* A child may end at any time: before its parent has noted it, while a    *)
(* session is passing its branch, or between the session's look at the     *)
(* branch and its commit.  The argument follows the end of each child to   *)
(* the session it wakes, and the session that is advancing the run from    *)
(* branch to branch.                                                       *)
(***************************************************************************)
EXTENDS WorkflowRuntimeProofs

------------------------------------------------------------------------------
\* The invariant.

Over(c) == child[c].status # "active"

\* The end of c has been heard of: its hook is to come or is known to have missed the run,
\* or it has woken a session, which has not looked at the run yet.
Announced(c) ==
  \/ c \in missed \cup { h.child : h \in hook }
  \/ \E t \in Sessions : sess[t].pc = "loaded" /\ sess[t].woke = c

\* Who looked at the run before, need not have seen it.
Tracked(c) == Over(c) => Announced(c)

\* The run, as it waits, has seen nothing of it: the session it has woken may be at work.
Awaited(c) ==
  Over(c) => Announced(c) \/ \E t \in Sessions : sess[t].pc = "working" /\ sess[t].woke = c

\* A branch whose child is still at work, for all that v knows.
Waits(b, v) == graph.kind[b] = "agent" /\ v.branches[b] = "paused"

RowWaits ==
  row.status = "paused" =>
    /\ KindAtCursor = "agent" =>
         /\ row.vars.agents[row.cursor] \in DOMAIN child
         /\ Awaited(row.vars.agents[row.cursor])
    /\ KindAtCursor = "parallel" =>
         /\ JoinOf(row.cursor, row.vars) = "paused"
         /\ \A i \in DOMAIN Branches(row.cursor) :
              Waits(Branches(row.cursor)[i], row.vars) =>
                Awaited(row.vars.agents[Branches(row.cursor)[i]])

\* What the session x may leave behind when it pauses the run at n with the vars v.
Settled(n, v) ==
  /\ graph.kind[n] = "agent" => v.agents[n] \in DOMAIN child /\ Tracked(v.agents[n])
  /\ graph.kind[n] = "parallel" =>
       /\ JoinOf(n, v) = "paused"
       /\ \A i \in DOMAIN Branches(n) :
            Waits(Branches(n)[i], v) => Tracked(v.agents[Branches(n)[i]])

\* The branches that the session's visit has passed.
Passed(x) ==
  x.pc \in { "working", "started" } /\ x.cursor # End /\ graph.kind[x.cursor] = "parallel" =>
    \A i \in DOMAIN Branches(x.cursor) :
      i < x.branch /\ Waits(Branches(x.cursor)[i], x.vars) =>
        Tracked(x.vars.agents[Branches(x.cursor)[i]])

\* The child that it has started and not noted.
Unnoted(x) ==
  x.pc = "started" =>
    \A c \in x.mine :
      /\ Tracked(c)
      /\ graph.kind[x.cursor] = "parallel" =>
           /\ x.branch \in DOMAIN Branches(x.cursor)
           /\ child[c].node = Branches(x.cursor)[x.branch]

Visit(x) ==
  /\ Passed(x)
  /\ Unnoted(x)
  /\ x.pc \in ReadPC => x.branch = 1

Wakes == ~raced => RowWaits /\ \A s \in Sessions : Visit(sess[s])

------------------------------------------------------------------------------
\* What a step must keep.

LEMMA NotedChild ==
  ASSUME NEW v, NEW g, NEW ch, Sound(v, g, ch), NEW b \in Nodes,
         g.kind[b] = "agent", v.branches[b] = "paused"
  PROVE  v.agents[b] \in DOMAIN ch
  BY DEF Sound

LEMMA BranchesType ==
  ASSUME Inv, NEW n \in Nodes
  PROVE  /\ Branches(n) \in Seq(Nodes)
         /\ \A i \in DOMAIN Branches(n) : Branches(n)[i] \in Nodes /\ i >= 1 /\ i \in Nat
<1>1. Branches(n) \in Seq(Nodes)
  BY GraphType DEF Graph, Branches
<1> QED BY <1>1

\* The visits of the other sessions.
LEMMA VisitKept ==
  ASSUME Inv, NEW s \in Sessions, Visit(sess[s]), graph' = graph,
         \A c \in DOMAIN child :
           c \in DOMAIN child' /\ child'[c].node = child[c].node /\ (Tracked(c) => Tracked(c)'),
         sess'[s] = sess[s]
  PROVE  Visit(sess[s])'
<1>1. /\ Sound(sess[s].vars, graph, child)
      /\ sess[s].cursor \in Nodes \cup {End} /\ sess[s].mine \subseteq DOMAIN child
  BY OfSession DEF SessionInv, VarsInv
<1>2. Passed(sess[s])'
  <2>1. ASSUME sess[s].pc \in { "working", "started" }, sess[s].cursor # End,
               graph.kind[sess[s].cursor] = "parallel",
               NEW i \in DOMAIN Branches(sess[s].cursor), i < sess[s].branch,
               Waits(Branches(sess[s].cursor)[i], sess[s].vars)
        PROVE  Tracked(sess[s].vars.agents[Branches(sess[s].cursor)[i]])'
    <3>1. Branches(sess[s].cursor)[i] \in Nodes
      BY <1>1, <2>1, BranchesType
    <3>2. sess[s].vars.agents[Branches(sess[s].cursor)[i]] \in DOMAIN child
      BY <1>1, <2>1, <3>1, NotedChild DEF Waits
    <3>3. Tracked(sess[s].vars.agents[Branches(sess[s].cursor)[i]])
      BY <2>1 DEF Visit, Passed
    <3>4. PICK c \in DOMAIN child :
            c = sess[s].vars.agents[Branches(sess[s].cursor)[i]]
      BY <3>2
    <3>5. Tracked(c)'
      BY <3>3, <3>4
    <3>6. (sess[s].vars.agents[Branches(sess[s].cursor)[i]])' = c
      BY <3>4 DEF Branches
    <3> QED BY <3>5, <3>6 DEF Tracked, Over, Announced
  <2> QED BY <2>1 DEF Passed, Waits, Branches
<1>3. Unnoted(sess[s])'
  <2>1. ASSUME NEW c \in sess[s].mine, Tracked(c) PROVE Tracked(c)'
    BY <1>1, <2>1
  <2> QED BY <1>1, <2>1 DEF Visit, Unnoted, Branches
<1> QED BY <1>2, <1>3 DEF Visit

LEMMA WakeStep ==
  ASSUME Inv, Wakes, graph' = graph,
         \A c \in DOMAIN child :
           c \in DOMAIN child' /\ child'[c].node = child[c].node /\ (Tracked(c) => Tracked(c)'),
         NEW s \in Sessions, NEW x, sess' = [sess EXCEPT ![s] = x],
         ~raced' => ~raced /\ RowWaits' /\ Visit(x)'
  PROVE  Wakes'
<1>1. sess'[s] = x /\ \A t \in Sessions \ {s} : sess'[t] = sess[t]
  BY DEF Inv, Rows
<1>2. ASSUME ~raced', NEW t \in Sessions PROVE Visit(sess[t])'
  <2>1. CASE t = s
    BY <1>1, <1>2, <2>1
  <2>2. CASE t # s
    BY <1>1, <1>2, <2>2, VisitKept DEF Wakes
  <2> QED BY <2>1, <2>2
<1> QED BY <1>2 DEF Wakes

\* The row goes on waiting as it is.
LEMMA RowGoesOn ==
  ASSUME Inv, RowWaits, graph' = graph, row' = row,
         \A c \in DOMAIN child : c \in DOMAIN child' /\ (Awaited(c) => Awaited(c)')
  PROVE  RowWaits'
<1>1. Sound(row.vars, graph, child) /\ row.cursor \in Nodes \cup {End}
  BY DEF Inv, RowInv, Row, VarsInv
<1>2. ASSUME row.status = "paused", KindAtCursor = "agent"
      PROVE  /\ (row.vars.agents[row.cursor])' \in DOMAIN child'
             /\ Awaited(row.vars.agents[row.cursor])'
  <2>1. PICK c \in DOMAIN child : c = row.vars.agents[row.cursor] /\ Awaited(c)
    BY <1>2 DEF RowWaits
  <2>2. (row.vars.agents[row.cursor])' = c /\ c \in DOMAIN child' /\ Awaited(c)'
    BY <2>1
  <2> QED BY <2>2 DEF Awaited, Over, Announced
<1>3. ASSUME row.status = "paused", KindAtCursor = "parallel"
      PROVE  /\ JoinOf(row.cursor, row.vars)' = "paused"
             /\ \A i \in DOMAIN Branches(row.cursor) :
                  Waits(Branches(row.cursor)[i], row.vars) =>
                    Awaited(row.vars.agents[Branches(row.cursor)[i]])'
  <2>1. JoinOf(row.cursor, row.vars)' = JoinOf(row.cursor, row.vars)
    BY DEF JoinOf, BranchStatuses, Branches
  <2>2. ASSUME NEW i \in DOMAIN Branches(row.cursor),
               Waits(Branches(row.cursor)[i], row.vars)
        PROVE  Awaited(row.vars.agents[Branches(row.cursor)[i]])'
    <3>1. row.cursor \in Nodes
      BY <1>1, <1>3 DEF KindAtCursor
    <3>2. Branches(row.cursor)[i] \in Nodes
      BY <2>2, <3>1, BranchesType
    <3>3. PICK c \in DOMAIN child : c = row.vars.agents[Branches(row.cursor)[i]]
      BY <1>1, <2>2, <3>2, NotedChild DEF Waits
    <3>4. Awaited(c)'
      BY <1>3, <2>2, <3>3 DEF RowWaits
    <3>5. (row.vars.agents[Branches(row.cursor)[i]])' = c
      BY <3>3 DEF Branches
    <3> QED BY <3>4, <3>5 DEF Awaited, Over, Announced
  <2> QED BY <1>3, <2>1, <2>2 DEF RowWaits
<1> QED BY <1>2, <1>3 DEF RowWaits, KindAtCursor, Branches, Waits

------------------------------------------------------------------------------
\* The kinds of steps.

\* What has been announced stays announced, unless the session it woke goes to work.
LEMMA StillAnnounced ==
  ASSUME Inv, NEW s \in Sessions, NEW x, sess' = [sess EXCEPT ![s] = x], hook' = hook,
         missed \subseteq missed',
         \/ sess[s].pc # "loaded"
         \/ sess[s].woke \in missed' \cup {None}
         \/ x.pc = "loaded" /\ x.woke = sess[s].woke,
         NEW c \in DOMAIN child, Announced(c)
  PROVE  Announced(c)'
<1>1. sess'[s] = x /\ \A t \in Sessions \ {s} : sess'[t] = sess[t]
  BY DEF Inv, Rows
<1>2. c # None
  BY ChildType
<1>3. ASSUME NEW t \in Sessions, sess[t].pc = "loaded", sess[t].woke = c PROVE Announced(c)'
  <2>1. CASE t = s
    BY <1>1, <1>2, <1>3, <2>1 DEF Announced
  <2>2. CASE t # s
    BY <1>1, <1>3, <2>2 DEF Announced
  <2> QED BY <2>1, <2>2
<1> QED BY <1>3 DEF Announced

LEMMA StillAwaited ==
  ASSUME Inv, NEW s \in Sessions, NEW x, sess' = [sess EXCEPT ![s] = x], hook' = hook,
         missed \subseteq missed', child' = child,
         \/ sess[s].pc \notin { "loaded", "working" }
         \/ sess[s].woke \in missed' \cup {None}
         \/ x.pc \in { sess[s].pc, "working" } /\ x.woke = sess[s].woke,
         NEW c \in DOMAIN child, Awaited(c)
  PROVE  Awaited(c)'
<1>1. sess'[s] = x /\ \A t \in Sessions \ {s} : sess'[t] = sess[t]
  BY DEF Inv, Rows
<1>2. c # None
  BY ChildType
<1>3. ASSUME NEW t \in Sessions, sess[t].pc \in { "loaded", "working" }, sess[t].woke = c
      PROVE  Awaited(c)'
  <2>1. CASE t = s
    BY <1>1, <1>2, <1>3, <2>1 DEF Awaited, Announced
  <2>2. CASE t # s
    BY <1>1, <1>3, <2>2 DEF Awaited, Announced
  <2> QED BY <2>1, <2>2
<1>4. CASE ~Over(c)
  BY <1>4 DEF Awaited, Over
<1>5. CASE c \in missed \cup { h.child : h \in hook }
  BY <1>5 DEF Awaited, Announced
<1> QED BY <1>3, <1>4, <1>5 DEF Awaited, Announced

\* A step of one session that changes no child, and nothing of the row.
LEMMA WakeAside ==
  ASSUME Inv, Wakes, NEW s \in Sessions, NEW x, sess' = [sess EXCEPT ![s] = x],
         UNCHANGED << graph, row, child, hook >>, missed \subseteq missed', raced => raced',
         ~raced' =>
           /\ Visit(x)'
           /\ \/ sess[s].pc # "loaded"
              \/ sess[s].woke \in missed' \cup {None}
              \/ x.pc = "loaded" /\ x.woke = sess[s].woke
           /\ \/ sess[s].pc # "working"
              \/ sess[s].woke \in missed' \cup {None}
              \/ x.pc = "working" /\ x.woke = sess[s].woke
  PROVE  Wakes'
<1> SUFFICES ASSUME ~raced' PROVE Wakes'
  BY DEF Wakes
<1>1. ASSUME NEW c \in DOMAIN child
      PROVE  (Tracked(c) => Tracked(c)') /\ (Awaited(c) => Awaited(c)')
  BY <1>1, StillAnnounced, StillAwaited DEF Tracked, Over
<1>2. RowWaits'
  BY <1>1, RowGoesOn DEF Wakes
<1> QED BY <1>1, <1>2, WakeStep

\* A session starts, or goes on to another node: no branch is behind it.
LEMMA FreshVisit ==
  ASSUME Inv, NEW x, x.pc \notin { "started" }, x.branch = 1 \/ x.pc \notin { "working" },
         x.pc \in ReadPC => x.branch = 1, graph' = graph, x.cursor \in Nodes \cup {End}
  PROVE  Visit(x)'
<1>1. ASSUME x.cursor # End, NEW i \in DOMAIN Branches(x.cursor), x.branch = 1
      PROVE  ~(i < x.branch)
  BY <1>1, BranchesType
<1>2. Passed(x)'
  BY <1>1 DEF Passed, Branches
<1> QED BY <1>2 DEF Visit, Unnoted

\* The session advances the run, and nothing of it changes.
LEMMA WakeGoesOn ==
  ASSUME Inv, Wakes, NEW s \in Sessions, Active(s), NEW x, sess' = [sess EXCEPT ![s] = x],
         UNCHANGED << graph, row, child, hook, missed, raced >>,
         x.pc = "working", x.woke = sess[s].woke, ~raced => Visit(x)'
  PROVE  Wakes'
  BY WakeAside DEF Active, ActivePC

\* Where no session raced, the session's last commit writes what the session holds.
LEMMA Written ==
  ASSUME Inv, ~raced, NEW s \in Sessions, Active(s), NEW status, NEW cursor, NEW v,
         NEW new, Finish(s, status, cursor, v, new)
  PROVE  row'.status = status /\ row'.cursor = cursor /\ row'.vars = v
<1>1. sess[s].base = row
  BY DEF Inv, Solo, Alone
<1> QED BY <1>1 DEF Finish, Saved

LEMMA WakeFinish ==
  ASSUME Inv, Wakes, NEW s \in Sessions, Active(s), NEW status, NEW cursor \in Nodes \cup {End},
         NEW v, NEW new, Finish(s, status, cursor, v, new),
         UNCHANGED << graph, child, hook, missed, raced >>,
         status = "paused" /\ ~raced =>
           cursor # End /\ Settled(cursor, v) /\ Sound(v, graph, child)
  PROVE  Wakes'
<1> SUFFICES ASSUME ~raced PROVE Wakes'
  BY DEF Wakes
<1>1. sess' = [sess EXCEPT ![s] = IdleSession]
  BY DEF Finish
<1>2. row'.status = status /\ row'.cursor = cursor /\ row'.vars = v
  BY Written
<1>3. sess[s].pc # "loaded"
  BY DEF Active, ActivePC
<1>4. ASSUME NEW c \in DOMAIN child, Tracked(c) PROVE Tracked(c)' /\ Awaited(c)'
  <2>1. Tracked(c)'
    BY <1>1, <1>3, <1>4, StillAnnounced DEF Tracked, Over
  <2> QED BY <2>1 DEF Tracked, Awaited
<1>5. RowWaits'
  <2>1. ASSUME status = "paused", graph.kind[cursor] = "agent"
        PROVE  v.agents[cursor] \in DOMAIN child /\ Awaited(v.agents[cursor])'
    <3>1. PICK c \in DOMAIN child : c = v.agents[cursor] /\ Tracked(c)
      BY <2>1 DEF Settled
    <3> QED BY <1>4, <3>1
  <2>2. ASSUME status = "paused", graph.kind[cursor] = "parallel",
               NEW i \in DOMAIN Branches(cursor), Waits(Branches(cursor)[i], v)
        PROVE  Awaited(v.agents[Branches(cursor)[i]])'
    <3>1. Branches(cursor)[i] \in Nodes
      BY <2>2, BranchesType
    <3>2. PICK c \in DOMAIN child : c = v.agents[Branches(cursor)[i]]
      BY <2>2, <3>1, NotedChild DEF Waits
    <3>3. Tracked(c)
      BY <2>2, <3>2 DEF Settled
    <3>4. Awaited(c)'
      BY <1>4, <3>3
    <3>5. (v.agents[Branches(cursor)[i]])' = c
      BY <3>2 DEF Branches
    <3> QED BY <3>4, <3>5 DEF Awaited, Over, Announced
  <2>3. status = "paused" /\ graph.kind[cursor] = "parallel" => JoinOf(cursor, v)' = "paused"
    BY DEF Settled, JoinOf, BranchStatuses, Branches
  <2>4. ASSUME row'.status = "paused", KindAtCursor' = "agent"
        PROVE  /\ row'.vars.agents[row'.cursor] \in DOMAIN child'
               /\ Awaited(row.vars.agents[row.cursor])'
    BY <1>2, <2>1, <2>4 DEF KindAtCursor, Awaited, Over, Announced
  <2>5. ASSUME row'.status = "paused", KindAtCursor' = "parallel"
        PROVE  /\ JoinOf(row.cursor, row.vars)' = "paused"
               /\ \A i \in DOMAIN Branches(row.cursor)' :
                    Waits(Branches(row.cursor)[i], row.vars)' =>
                      Awaited(row.vars.agents[Branches(row.cursor)[i]])'
    <3>1. status = "paused" /\ graph.kind[cursor] = "parallel"
      BY <1>2, <2>5 DEF KindAtCursor
    <3>2. JoinOf(row.cursor, row.vars)' = "paused"
      BY <1>2, <2>3, <3>1 DEF JoinOf, BranchStatuses, Branches
    <3> QED BY <1>2, <2>2, <3>1, <3>2 DEF Waits, Branches, Awaited, Over, Announced
  <2> QED BY <2>4, <2>5 DEF RowWaits
<1>6. Visit(IdleSession)'
  BY DEF Visit, Passed, Unnoted, IdleSession, ReadPC
<1> QED BY <1>1, <1>4, <1>5, <1>6, WakeStep

LEMMA WakeStop ==
  ASSUME Inv, Wakes, NEW s \in Sessions, Active(s), NEW status, status # "paused", NEW v,
         NEW cursor \in Nodes \cup {End}, NEW new, Finish(s, status, cursor, v, new),
         UNCHANGED << graph, child, hook, missed, raced >>
  PROVE  Wakes'
  BY WakeFinish

LEMMA WakeHop ==
  ASSUME Inv, Wakes, NEW s \in Sessions, sess[s].pc = "working", sess[s].cursor # End,
         NEW v, NEW cond \in Condition, Hop(s, v, cond),
         UNCHANGED << graph, child, hook, missed, raced >>
  PROVE  Wakes'
<1>1. Active(s) /\ sess[s] \in Session /\ sess[s].cursor \in Nodes
  BY OfSession DEF Active, ActivePC
<1>2. PICK next : next = graph.next[sess[s].cursor][cond]
  OBVIOUS
<1>3. next \in Nodes \cup {End}
  BY <1>1, <1>2, GraphType
<1>4. PICK done : done = [v EXCEPT !.completed = @ \cup { sess[s].cursor }]
  OBVIOUS
<1>5. CASE next = End
  <2>1. Finish(s, "completed", End, done, << >>)
    BY <1>2, <1>4, <1>5 DEF Hop
  <2> QED BY <1>1, <2>1, WakeStop
<1>6. CASE next # End
  <2>1. PICK x : x = [sess[s] EXCEPT !.cursor = next, !.vars = done, !.branch = 1,
                                     !.steps = @ + 1, !.granted = None, !.human = FALSE]
    OBVIOUS
  <2>2. sess' = [sess EXCEPT ![s] = x] /\ row' = row
    BY <1>2, <1>4, <1>6, <2>1 DEF Hop, GoOn
  <2>3. x.pc = "working" /\ x.branch = 1 /\ x.woke = sess[s].woke /\ x.cursor = next
    BY <1>1, <2>1 DEF Session
  <2>4. Visit(x)'
    BY <1>3, <2>3, FreshVisit DEF ReadPC
  <2> QED BY <1>1, <2>2, <2>3, <2>4, WakeGoesOn
<1> QED BY <1>5, <1>6

\* A commit on the way: the run no longer waits.
LEMMA WakeCommit ==
  ASSUME Inv, Wakes, NEW s \in Sessions, sess[s].pc = "working", CommitOnTheWay(s),
         NEW x, sess' = [sess EXCEPT ![s] = x], UNCHANGED << graph, hook, missed, raced >>,
         \A c \in DOMAIN child : c \in DOMAIN child' /\ child'[c] = child[c],
         ~raced => Visit(x)'
  PROVE  Wakes'
<1>1. row'.status = "running"
  BY DEF CommitOnTheWay, Saved
<1>2. RowWaits'
  BY <1>1 DEF RowWaits
<1>3. ASSUME NEW c \in DOMAIN child, Tracked(c) PROVE Tracked(c)'
  BY <1>3, StillAnnounced DEF Tracked, Over
<1> QED BY <1>2, <1>3, WakeStep DEF Wakes

------------------------------------------------------------------------------
\* The nodes.

LEMMA NodeOfSession ==
  ASSUME Inv, NEW s \in Sessions, NEW kind, At(s, kind)
  PROVE  /\ Active(s) /\ sess[s].pc = "working"
         /\ sess[s].cursor # End /\ sess[s].cursor \in Nodes
         /\ graph.kind[sess[s].cursor] = kind
  BY OfSession DEF At, Active, ActivePC

LEMMA HereStays ==
  ASSUME NEW s, Here(s) PROVE UNCHANGED << graph, child, hook, missed, raced >>
  BY DEF Here

LEMMA SimpleNodesWake ==
  ASSUME Inv, Wakes, NEW s \in Sessions,
         StepTrigger(s) \/ StepCondition(s) \/ StepRouter(s) \/ StepHumanInput(s)
  PROVE  Wakes'
<1>1. /\ Here(s) /\ Active(s) /\ sess[s].pc = "working"
      /\ sess[s].cursor # End /\ sess[s].cursor \in Nodes \cup {End}
  BY NodeOfSession DEF StepTrigger, StepCondition, StepRouter, StepHumanInput
<1>2. \/ \E cond \in Condition : \E v : Hop(s, v, cond)
      \/ FailRun(s, sess[s].vars)
      \/ Pause(s, "waiting_input", sess[s].vars, << >>)
  <2>1. sess[s].vars.condition \in Condition /\ { "true", "false" } \subseteq Condition
    BY OfSession, ConditionOfVars DEF Condition
  <2> QED BY <2>1 DEF StepTrigger, StepCondition, StepRouter, StepHumanInput
<1>3. CASE \E cond \in Condition : \E v : Hop(s, v, cond)
  BY <1>1, <1>3, HereStays, WakeHop
<1>4. CASE FailRun(s, sess[s].vars) \/ Pause(s, "waiting_input", sess[s].vars, << >>)
  BY <1>1, <1>4, HereStays, WakeStop DEF FailRun, Pause
<1> QED BY <1>2, <1>3, <1>4

LEMMA GatedNodesWake ==
  ASSUME Inv, Wakes, NEW s \in Sessions, StepApproval(s) \/ StepTool(s) PROVE Wakes'
<1>1. /\ Here(s) /\ Active(s) /\ sess[s].pc = "working"
      /\ sess[s].cursor # End /\ sess[s].cursor \in Nodes \cup {End}
  BY NodeOfSession DEF StepApproval, StepTool
<1>2. CASE AskApproval(s)
  BY <1>1, <1>2, HereStays, WakeStop DEF AskApproval, Pause
<1>3. CASE Hop(s, [sess[s].vars EXCEPT !.approval = None], sess[s].vars.condition)
  BY <1>1, <1>3, HereStays, WakeHop, OfSession, ConditionOfVars
<1>4. CASE FailRun(s, [sess[s].vars EXCEPT !.approval = None]) \/ FailRun(s, sess[s].vars)
  BY <1>1, <1>4, HereStays, WakeStop DEF FailRun
<1> QED BY <1>2, <1>3, <1>4 DEF StepApproval, StepTool

LEMMA ToolCommitsWake == ASSUME Inv, Wakes, NEW s \in Sessions, ToolCommits(s) PROVE Wakes'
<1>1. sess[s].pc = "working" /\ Here(s) /\ CommitOnTheWay(s) /\ sess[s] \in Session
  BY OfSession DEF ToolCommits, At
<1>2. PICK x : x = [sess[s] EXCEPT !.base = row', !.granted = None, !.spent = None,
                                   !.mine = {}, !.made = << >>, !.pc = "performed",
                                   !.vars = IF graph.kind[sess[s].cursor] = "tool"
                                            THEN [sess[s].vars EXCEPT !.approval = None]
                                            ELSE sess[s].vars]
  OBVIOUS
<1>3. sess' = [sess EXCEPT ![s] = x]
  BY <1>2 DEF ToolCommits
<1>4. x.pc = "performed"
  BY <1>1, <1>2 DEF Session
<1>5. Visit(x)'
  BY <1>4 DEF Visit, Passed, Unnoted, ReadPC
<1> QED BY <1>1, <1>3, <1>5, HereStays, WakeCommit

LEMMA AfterToolWakes == ASSUME Inv, Wakes, NEW s \in Sessions, AfterTool(s) PROVE Wakes'
<1>1. /\ sess[s].pc = "performed" /\ Here(s) /\ sess[s] \in Session /\ Active(s)
      /\ sess[s].cursor \in Nodes
  BY OfSession DEF AfterTool, Active, ActivePC, SessionInv
<1>2. PICK next : next = graph.next[sess[s].cursor][sess[s].vars.condition]
  OBVIOUS
<1>3. next \in Nodes \cup {End}
  BY <1>1, <1>2, GraphType, OfSession, ConditionOfVars
<1>4. PICK done : done = [sess[s].vars EXCEPT !.completed = @ \cup { sess[s].cursor }]
  OBVIOUS
<1>5. CASE next = End
  <2>1. Finish(s, "completed", End, done, << >>)
    BY <1>2, <1>4, <1>5 DEF AfterTool
  <2> QED BY <1>1, <2>1, HereStays, WakeStop
<1>6. CASE next # End
  <2>1. PICK x : x = [sess[s] EXCEPT !.pc = "working", !.cursor = next, !.vars = done,
                                     !.branch = 1, !.steps = @ + 1]
    OBVIOUS
  <2>2. sess' = [sess EXCEPT ![s] = x] /\ row' = row
    BY <1>2, <1>4, <1>6, <2>1 DEF AfterTool, GoOn
  <2>3. x.pc = "working" /\ x.branch = 1 /\ x.woke = sess[s].woke /\ x.cursor = next
    BY <1>1, <2>1 DEF Session
  <2>4. Visit(x)'
    BY <1>1, <1>3, <2>3, HereStays, FreshVisit DEF ReadPC
  <2> QED BY <1>1, <2>2, <2>3, <2>4, HereStays, WakeGoesOn
<1> QED BY <1>5, <1>6

LEMMA StepDelayWakes == ASSUME Inv, Wakes, NEW s \in Sessions, StepDelay(s) PROVE Wakes'
<1>1. /\ At(s, "delay") /\ UNCHANGED << graph, child, hook, missed, raced >>
      /\ Active(s) /\ sess[s].pc = "working"
      /\ sess[s].cursor # End /\ sess[s].cursor \in Nodes
      /\ graph.kind[sess[s].cursor] = "delay"
  BY NodeOfSession DEF StepDelay
<1>2. CASE Hop(s, [sess[s].vars EXCEPT !.delay = End], sess[s].vars.condition)
  BY <1>1, <1>2, WakeHop, OfSession, ConditionOfVars
<1>3. ASSUME NEW v \in { sess[s].vars, [sess[s].vars EXCEPT !.delay = sess[s].cursor] },
             Pause(s, "paused", v, << >>)
      PROVE  Wakes'
  <2>1. Settled(sess[s].cursor, v)
    BY <1>1 DEF Settled
  <2>2. v.agents = sess[s].vars.agents /\ v.branches = sess[s].vars.branches
    BY <1>3, OfSession DEF Vars
  <2>3. Sound(v, graph, child)
    BY <2>2, OfSession DEF VarsInv, Sound
  <2> QED BY <1>1, <1>3, <2>1, <2>3, WakeFinish DEF Pause
<1> QED BY <1>2, <1>3 DEF StepDelay

------------------------------------------------------------------------------
\* Children.

LEMMA StartChildWakes ==
  ASSUME Inv, Wakes, NEW s \in Sessions, sess[s].pc = "working", sess[s].cursor \in Nodes,
         NEW n, StartChild(s, n),
         graph.kind[sess[s].cursor] = "parallel" =>
           /\ sess[s].branch \in DOMAIN Branches(sess[s].cursor)
           /\ n = Branches(sess[s].cursor)[sess[s].branch]
  PROVE  Wakes'
<1>1. PICK c : c = Len(child) + 1
  OBVIOUS
<1>2. PICK x : x = [sess[s] EXCEPT !.base = row', !.pc = "started", !.granted = None,
                                   !.spent = None, !.mine = {c}, !.made = << >>]
  OBVIOUS
<1>3. /\ CommitOnTheWay(s) /\ sess' = [sess EXCEPT ![s] = x]
      /\ child' = Append(child, [ node |-> n, status |-> "active", done |-> FALSE ])
      /\ UNCHANGED << graph, hook, missed, raced >>
  BY <1>1, <1>2 DEF StartChild
<1>4. child \in Seq(Child)
  BY DEF Inv, Rows
<1>5. /\ \A d \in DOMAIN child : d \in DOMAIN child' /\ child'[d] = child[d]
      /\ child'[c] = [ node |-> n, status |-> "active", done |-> FALSE ]
  BY <1>1, <1>3, <1>4
<1>6. /\ x.pc = "started" /\ x.mine = {c} /\ x.vars = sess[s].vars
      /\ x.cursor = sess[s].cursor /\ x.branch = sess[s].branch
  BY <1>2, OfSession DEF Session
<1>7. ASSUME ~raced PROVE Passed(x)'
  <2>1. ASSUME graph.kind[x.cursor] = "parallel", NEW i \in DOMAIN Branches(x.cursor),
               i < x.branch, Waits(Branches(x.cursor)[i], x.vars)
        PROVE  Tracked(x.vars.agents[Branches(x.cursor)[i]])'
    <3>1. Branches(x.cursor)[i] \in Nodes /\ x.cursor # End
      BY <1>6, <2>1, BranchesType, EndIsNoNode
    <3>2. PICK d \in DOMAIN child : d = x.vars.agents[Branches(x.cursor)[i]]
      BY <1>6, <2>1, <3>1, NotedChild, OfSession DEF Waits, VarsInv
    <3>3. Tracked(d)
      BY <1>6, <1>7, <2>1, <3>1, <3>2 DEF Wakes, Visit, Passed
    <3>4. Announced(d) => Announced(d)'
      BY <1>3, StillAnnounced
    <3>5. Tracked(d)'
      BY <1>5, <3>3, <3>4 DEF Tracked, Over
    <3>6. (x.vars.agents[Branches(x.cursor)[i]])' = d
      BY <1>3, <3>2 DEF Branches
    <3> QED BY <3>5, <3>6 DEF Tracked, Over, Announced
  <2> QED BY <1>3, <2>1 DEF Passed, Waits, Branches
<1>8. Unnoted(x)'
  <2>1. Tracked(c)'
    BY <1>5 DEF Tracked, Over
  <2>2. child'[c].node = n
    BY <1>5
  <2> QED BY <1>3, <1>6, <2>1, <2>2 DEF Unnoted, Branches
<1>9. ~raced => Visit(x)'
  BY <1>6, <1>7, <1>8 DEF Visit, ReadPC
<1> QED BY <1>3, <1>5, <1>9, WakeCommit

LEMMA StepAgentWakes == ASSUME Inv, Wakes, NEW s \in Sessions, StepAgent(s) PROVE Wakes'
<1>1. /\ Active(s) /\ sess[s].pc = "working" /\ sess[s].cursor # End /\ sess[s].cursor \in Nodes
      /\ graph.kind[sess[s].cursor] = "agent"
  BY NodeOfSession DEF StepAgent
<1>2. PICK c : c = sess[s].vars.agents[sess[s].cursor]
  OBVIOUS
<1>3. CASE StartChild(s, sess[s].cursor)
  BY <1>1, <1>3, StartChildWakes
<1>4. CASE Hop(s, sess[s].vars, sess[s].vars.condition) /\ Here(s)
  BY <1>1, <1>4, HereStays, WakeHop, OfSession, ConditionOfVars
<1>5. CASE FailRun(s, sess[s].vars) /\ Here(s)
  BY <1>1, <1>5, HereStays, WakeStop DEF FailRun
<1>6. CASE /\ c # None /\ Seen(s, c) = "active"
           /\ Pause(s, "paused", sess[s].vars, << >>) /\ Here(s)
  <2>1. c \in DOMAIN child /\ Sound(sess[s].vars, graph, child)
    BY <1>1, <1>2, <1>6, OfSession DEF VarsInv, Sound
  <2>2. Settled(sess[s].cursor, sess[s].vars)
    BY <1>1, <1>2, <1>6, <2>1, SeenActive DEF Settled, Tracked, Over
  <2> QED BY <1>1, <1>6, <2>1, <2>2, HereStays, WakeFinish DEF Pause
<1> QED BY <1>2, <1>3, <1>4, <1>5, <1>6 DEF StepAgent

LEMMA NoteChildWakes == ASSUME Inv, Wakes, NEW s \in Sessions, NoteChild(s) PROVE Wakes'
<1>1. sess[s].pc = "started" /\ graph.kind[sess[s].cursor] = "agent" /\ Here(s)
  BY DEF NoteChild
<1>2. PICK c \in sess[s].mine :
        Pause(s, "paused",
              [sess[s].vars EXCEPT !.agents =
                 [sess[s].vars.agents EXCEPT ![sess[s].cursor] = c]], << >>)
  BY DEF NoteChild
<1>3. PICK q : q = [sess[s].vars.agents EXCEPT ![sess[s].cursor] = c]
  OBVIOUS
<1>4. PICK v : v = [sess[s].vars EXCEPT !.agents = q]
  OBVIOUS
<1>5. /\ c \in DOMAIN child /\ c # None /\ child[c].node = sess[s].cursor
      /\ sess[s].cursor \in Nodes /\ sess[s].cursor # End
  BY <1>1, StartedChild, EndIsNoNode
<1>6. sess[s].vars \in Vars /\ sess[s].vars.agents \in [Nodes -> 0 .. MaxChildren]
  BY OfSession DEF Vars
<1>7. /\ v.agents = q /\ v.branches = sess[s].vars.branches
      /\ q[sess[s].cursor] = c
      /\ \A n \in Nodes \ { sess[s].cursor } : q[n] = sess[s].vars.agents[n]
  BY <1>3, <1>4, <1>5, <1>6 DEF Vars
<1>8. Sound(v, graph, child)
  BY <1>5, <1>7, OfSession DEF VarsInv, Sound
<1>9. ~raced => Settled(sess[s].cursor, v)
  BY <1>1, <1>5, <1>7 DEF Settled, Wakes, Visit, Unnoted
<1>10. Active(s) /\ Finish(s, "paused", sess[s].cursor, v, << >>)
  BY <1>1, <1>2, <1>3, <1>4 DEF Active, ActivePC, Pause
<1> QED BY <1>1, <1>5, <1>8, <1>9, <1>10, HereStays, WakeFinish

------------------------------------------------------------------------------
\* Parallel nodes, branch by branch.

LEMMA BranchWakes ==
  ASSUME Inv, Wakes, NEW s \in Sessions, NEW kind, NEW was, AtBranch(s, kind, was),
         NEW b, b = Branches(sess[s].cursor)[sess[s].branch], NEW status \in BranchStatus,
         NEW made, NextBranch(s, status, made),
         UNCHANGED << graph, child, hook, missed, raced >>,
         kind = "agent" /\ status = "paused" =>
           sess[s].vars.agents[b] \in DOMAIN child /\ Tracked(sess[s].vars.agents[b])
  PROVE  Wakes'
<1>1. PICK q : q = [sess[s].vars.branches EXCEPT ![b] = status]
  OBVIOUS
<1>2. PICK v : v = [sess[s].vars EXCEPT !.branches = q]
  OBVIOUS
<1>3. PICK x : x = [sess[s] EXCEPT !.vars = v, !.branch = @ + 1, !.made = @ \o made]
  OBVIOUS
<1>4. sess' = [sess EXCEPT ![s] = x] /\ row' = row
  BY <1>1, <1>2, <1>3 DEF NextBranch
<1>5. /\ sess[s].pc = "working" /\ sess[s].cursor \in Nodes /\ sess[s].cursor # End
      /\ graph.kind[sess[s].cursor] = "parallel" /\ b \in Nodes /\ graph.kind[b] = kind
  BY BranchOfGraph, EndIsNoNode
<1>6. /\ sess[s] \in Session /\ sess[s].vars \in Vars
      /\ sess[s].vars.branches \in [Nodes -> BranchStatus] /\ sess[s].branch \in Nat
  BY OfSession DEF Vars, Session
<1>7. /\ x.pc = "working" /\ x.cursor = sess[s].cursor /\ x.vars = v
      /\ x.branch = sess[s].branch + 1 /\ x.woke = sess[s].woke
  BY <1>3, <1>5, <1>6 DEF Session
<1>8. v.agents = sess[s].vars.agents /\ v.branches = q
  BY <1>2, <1>6 DEF Vars
<1>9. q[b] = status /\ \A n \in Nodes \ {b} : q[n] = sess[s].vars.branches[n]
  BY <1>1, <1>5, <1>6
<1>10. ASSUME ~raced, NEW i \in DOMAIN Branches(x.cursor), i < x.branch,
              Waits(Branches(x.cursor)[i], x.vars)
       PROVE  /\ x.vars.agents[Branches(x.cursor)[i]] \in DOMAIN child
              /\ Tracked(x.vars.agents[Branches(x.cursor)[i]])
  <2>1. Branches(x.cursor)[i] \in Nodes /\ i \in Nat
    BY <1>5, <1>7, BranchesType
  <2>2. CASE Branches(x.cursor)[i] = b
    BY <1>5, <1>7, <1>8, <1>9, <1>10, <2>2 DEF Waits
  <2>3. CASE Branches(x.cursor)[i] # b
    <3>1. i < sess[s].branch
      BY <1>6, <1>7, <1>10, <2>1, <2>3
    <3>2. Waits(Branches(x.cursor)[i], sess[s].vars)
      BY <1>7, <1>8, <1>9, <1>10, <2>1, <2>3 DEF Waits
    <3>3. Tracked(x.vars.agents[Branches(x.cursor)[i]])
      BY <1>5, <1>7, <1>8, <1>10, <3>1, <3>2 DEF Wakes, Visit, Passed
    <3> QED BY <1>7, <1>8, <2>1, <3>2, <3>3, NotedChild, OfSession DEF Waits, VarsInv
  <2> QED BY <2>2, <2>3
<1>11. Active(s) /\ sess[s].pc # "loaded"
  BY <1>5 DEF Active, ActivePC
<1>12. ASSUME NEW c \in DOMAIN child, Tracked(c) PROVE Tracked(c)'
  BY <1>4, <1>11, <1>12, StillAnnounced DEF Tracked, Over
<1>13. ASSUME ~raced PROVE Visit(x)'
  <2>1. ASSUME NEW i \in DOMAIN Branches(x.cursor), i < x.branch,
               Waits(Branches(x.cursor)[i], x.vars)
        PROVE  Tracked(x.vars.agents[Branches(x.cursor)[i]])'
    <3>1. PICK c \in DOMAIN child : c = x.vars.agents[Branches(x.cursor)[i]] /\ Tracked(c)
      BY <1>10, <1>13, <2>1
    <3>2. (x.vars.agents[Branches(x.cursor)[i]])' = c
      BY <3>1 DEF Branches
    <3>3. Tracked(c)'
      BY <1>12, <3>1
    <3> QED BY <3>2, <3>3 DEF Tracked, Over, Announced
  <2> QED BY <1>5, <1>7, <2>1 DEF Visit, Passed, Unnoted, ReadPC, Waits, Branches
<1> QED BY <1>4, <1>7, <1>11, <1>13, WakeGoesOn

LEMMA BranchesWake ==
  ASSUME Inv, Wakes, NEW s \in Sessions,
         \/ SkipBranch(s) \/ SimpleBranch(s) \/ ToolBranch(s) \/ RefuseBranch(s)
         \/ DelayBranch(s)
  PROVE  Wakes'
<1>1. UNCHANGED << graph, child, hook, missed, raced >>
  BY DEF SkipBranch, SimpleBranch, ToolBranch, RefuseBranch, DelayBranch, Here
<1>2. PICK b : b = Branches(sess[s].cursor)[sess[s].branch]
  OBVIOUS
<1>3. ASSUME NEW kind, NEW was, NEW status \in { "paused", "succeeded", "failed" }, NEW made,
             AtBranch(s, kind, was), NextBranch(s, status, made),
             kind # "agent" \/ status # "paused"
      PROVE  Wakes'
  <2>1. status \in BranchStatus
    BY DEF BranchStatus
  <2> QED BY <1>1, <1>2, <1>3, <2>1, BranchWakes
<1>4. ASSUME SkipBranch(s) PROVE Wakes'
  BY <1>3, <1>4 DEF SkipBranch, SettledBranch, SimpleKind
<1>5. ASSUME SimpleBranch(s) PROVE Wakes'
  <2>1. PICK kind \in { "condition", "trigger" }, status \in { "succeeded", "paused" } :
          AtBranch(s, kind, {"pending"}) /\ NextBranch(s, status, << >>)
    BY <1>5 DEF SimpleBranch
  <2>2. kind # "agent"
    OBVIOUS
  <2> QED BY <1>3, <2>1, <2>2
<1>6. ASSUME ToolBranch(s) PROVE Wakes'
  <2>1. PICK made : AtBranch(s, "tool", {"pending"}) /\ NextBranch(s, "paused", made)
    BY <1>6 DEF ToolBranch
  <2> QED BY <1>3, <2>1
<1>7. ASSUME RefuseBranch(s) PROVE Wakes'
  <2>1. PICK kind : AtBranch(s, kind, {"pending"}) /\ NextBranch(s, "failed", << >>)
    BY <1>7 DEF RefuseBranch
  <2> QED BY <1>3, <2>1
<1>8. ASSUME DelayBranch(s) PROVE Wakes'
  <2>1. PICK was \in { {"pending"}, {"paused"} }, status \in { "paused", "succeeded" } :
          AtBranch(s, "delay", was) /\ NextBranch(s, status, << >>)
    BY <1>8 DEF DelayBranch
  <2> QED BY <1>3, <2>1
<1> QED BY <1>4, <1>5, <1>6, <1>7, <1>8

LEMMA CommittingBranchWakes ==
  ASSUME Inv, Wakes, NEW s \in Sessions, CommittingBranch(s) PROVE Wakes'
<1>1. PICK b : b = Branches(sess[s].cursor)[sess[s].branch]
  OBVIOUS
<1>2. PICK q : q = [sess[s].vars.branches EXCEPT ![b] = "succeeded"]
  OBVIOUS
<1>3. PICK v : v = [sess[s].vars EXCEPT !.branches = q]
  OBVIOUS
<1>4. PICK x : x = [sess[s] EXCEPT !.base = row', !.granted = None, !.spent = None, !.mine = {},
                                   !.made = << >>, !.branch = @ + 1, !.vars = v]
  OBVIOUS
<1>5. /\ AtBranch(s, "trigger", {"pending"}) /\ CommitOnTheWay(s)
      /\ sess' = [sess EXCEPT ![s] = x]
      /\ UNCHANGED << graph, child, hook, missed, raced >>
  BY <1>1, <1>2, <1>3, <1>4 DEF CommittingBranch, Here
<1>6. /\ sess[s].pc = "working" /\ sess[s].cursor \in Nodes /\ sess[s].cursor # End
      /\ graph.kind[sess[s].cursor] = "parallel" /\ b \in Nodes /\ graph.kind[b] = "trigger"
  BY <1>1, <1>5, BranchOfGraph, EndIsNoNode
<1>7. /\ sess[s] \in Session /\ sess[s].vars \in Vars
      /\ sess[s].vars.branches \in [Nodes -> BranchStatus] /\ sess[s].branch \in Nat
  BY OfSession DEF Vars, Session
<1>8. /\ x.pc = "working" /\ x.cursor = sess[s].cursor /\ x.vars = v
      /\ x.branch = sess[s].branch + 1
  BY <1>4, <1>6, <1>7 DEF Session
<1>9. v.agents = sess[s].vars.agents /\ v.branches = q
  BY <1>3, <1>7 DEF Vars
<1>10. \A n \in Nodes \ {b} : q[n] = sess[s].vars.branches[n]
  BY <1>2, <1>6, <1>7
\* The branch is none of those that wait; the earlier ones are as they were.
<1>11. ASSUME ~raced, NEW i \in DOMAIN Branches(x.cursor), i < x.branch,
              Waits(Branches(x.cursor)[i], x.vars)
       PROVE  Tracked(x.vars.agents[Branches(x.cursor)[i]])'
  <2>1. Branches(x.cursor)[i] \in Nodes /\ i \in Nat /\ Branches(x.cursor)[i] # b
    BY <1>6, <1>8, <1>11, BranchesType DEF Waits
  <2>2. i < sess[s].branch
    BY <1>1, <1>7, <1>8, <1>11, <2>1
  <2>3. Waits(Branches(x.cursor)[i], sess[s].vars)
    BY <1>8, <1>9, <1>10, <1>11, <2>1 DEF Waits
  <2>4. PICK c \in DOMAIN child : c = x.vars.agents[Branches(x.cursor)[i]]
    BY <1>8, <1>9, <2>1, <2>3, NotedChild, OfSession DEF Waits, VarsInv
  <2>5. Tracked(c)
    BY <1>6, <1>8, <1>9, <1>11, <2>2, <2>3, <2>4 DEF Wakes, Visit, Passed
  <2>6. Announced(c) => Announced(c)'
    BY <1>5, <1>6, StillAnnounced
  <2>7. Tracked(c)'
    BY <1>5, <2>5, <2>6 DEF Tracked, Over
  <2>8. (x.vars.agents[Branches(x.cursor)[i]])' = c
    BY <1>5, <2>4 DEF Branches
  <2> QED BY <2>7, <2>8 DEF Tracked, Over, Announced
<1>12. ASSUME ~raced PROVE Visit(x)'
  BY <1>5, <1>8, <1>11, <1>12 DEF Visit, Passed, Unnoted, ReadPC, Waits, Branches
<1> QED BY <1>5, <1>6, <1>12, WakeCommit

LEMMA RefreshBranchWakes == ASSUME Inv, Wakes, NEW s \in Sessions, RefreshBranch(s) PROVE Wakes'
<1>1. PICK b : b = Branches(sess[s].cursor)[sess[s].branch]
  OBVIOUS
<1>2. PICK c : c = sess[s].vars.agents[b]
  OBVIOUS
<1>3. PICK status : status = BranchOf(Seen(s, c))
  OBVIOUS
<1>4. /\ AtBranch(s, "agent", {"paused"}) /\ NextBranch(s, status, << >>)
      /\ UNCHANGED << graph, child, hook, missed, raced >>
  BY <1>1, <1>2, <1>3 DEF RefreshBranch, Here
<1>5. b \in Nodes /\ graph.kind[b] = "agent" /\ sess[s].vars.branches[b] = "paused"
  BY <1>1, <1>4, BranchOfGraph
<1>6. c \in DOMAIN child
  BY <1>2, <1>5, NotedChild, OfSession DEF VarsInv
<1>7. Seen(s, c) \in { "active", "completed", "failed" }
  BY <1>6, SeenTold DEF ChildStatus, ChildEnd
<1>8. status \in BranchStatus /\ (status = "paused" => Seen(s, c) = "active")
  BY <1>3, <1>7 DEF BranchOf, BranchStatus
<1>9. status = "paused" => Tracked(c)
  BY <1>6, <1>8, SeenActive DEF Tracked, Over
<1> QED BY <1>1, <1>2, <1>4, <1>6, <1>8, <1>9, BranchWakes

LEMMA StartBranchWakes == ASSUME Inv, Wakes, NEW s \in Sessions, StartBranch(s) PROVE Wakes'
<1>1. PICK b : b = Branches(sess[s].cursor)[sess[s].branch]
  OBVIOUS
<1>2. /\ AtBranch(s, "agent", {"pending"}) /\ StartChild(s, b)
      /\ sess[s].branch <= Len(Branches(sess[s].cursor))
  BY <1>1 DEF StartBranch, AtBranch
<1>3. sess[s].pc = "working" /\ sess[s].cursor \in Nodes
  BY <1>1, <1>2, BranchOfGraph
<1>4. sess[s].branch \in DOMAIN Branches(sess[s].cursor)
  BY <1>2, <1>3, BranchesType, OfSession DEF Session
<1> QED BY <1>1, <1>2, <1>3, <1>4, StartChildWakes

LEMMA NoteBranchWakes == ASSUME Inv, Wakes, NEW s \in Sessions, NoteBranch(s) PROVE Wakes'
<1>1. /\ sess[s].pc = "started" /\ graph.kind[sess[s].cursor] = "parallel" /\ Here(s)
      /\ row' = row
  BY DEF NoteBranch
<1>2. PICK c \in sess[s].mine :
        sess' = [sess EXCEPT ![s] =
             [sess[s] EXCEPT !.pc = "working", !.branch = @ + 1,
                             !.vars = [sess[s].vars EXCEPT
                                         !.branches = [sess[s].vars.branches EXCEPT
                                                         ![child[c].node] = "paused"],
                                         !.agents = [sess[s].vars.agents EXCEPT
                                                       ![child[c].node] = c]]]]
  BY DEF NoteBranch
<1>3. PICK b : b = child[c].node
  OBVIOUS
<1>4. PICK p : p = [sess[s].vars.branches EXCEPT ![b] = "paused"]
  OBVIOUS
<1>5. PICK q : q = [sess[s].vars.agents EXCEPT ![b] = c]
  OBVIOUS
<1>6. PICK v : v = [sess[s].vars EXCEPT !.branches = p, !.agents = q]
  OBVIOUS
<1>7. PICK x : x = [sess[s] EXCEPT !.pc = "working", !.branch = @ + 1, !.vars = v]
  OBVIOUS
<1>8. sess' = [sess EXCEPT ![s] = x]
  BY <1>2, <1>3, <1>4, <1>5, <1>6, <1>7
<1>9. /\ c \in DOMAIN child /\ c # None /\ b \in Nodes
      /\ sess[s].cursor \in Nodes /\ sess[s].cursor # End
  BY <1>1, <1>3, StartedChild, EndIsNoNode
<1>10. /\ sess[s].vars \in Vars /\ sess[s].vars.branches \in [Nodes -> BranchStatus]
       /\ sess[s].vars.agents \in [Nodes -> 0 .. MaxChildren]
       /\ sess[s] \in Session /\ sess[s].branch \in Nat
  BY OfSession DEF Vars, Session
<1>11. /\ p[b] = "paused" /\ \A n \in Nodes \ {b} : p[n] = sess[s].vars.branches[n]
       /\ q[b] = c /\ \A n \in Nodes \ {b} : q[n] = sess[s].vars.agents[n]
  BY <1>4, <1>5, <1>9, <1>10
<1>12. v.agents = q /\ v.branches = p
  BY <1>6, <1>10 DEF Vars
<1>13. /\ x.pc = "working" /\ x.cursor = sess[s].cursor /\ x.vars = v
       /\ x.branch = sess[s].branch + 1 /\ x.woke = sess[s].woke
  BY <1>7, <1>10 DEF Session
<1>14. Active(s) /\ sess[s].pc # "loaded"
  BY <1>1 DEF Active, ActivePC
<1>15. UNCHANGED << graph, child, hook, missed, raced >>
  BY <1>1, HereStays
<1>16. ASSUME NEW d \in DOMAIN child, Tracked(d) PROVE Tracked(d)'
  BY <1>8, <1>14, <1>15, <1>16, StillAnnounced DEF Tracked, Over
<1>17. ASSUME ~raced, NEW i \in DOMAIN Branches(x.cursor), i < x.branch,
              Waits(Branches(x.cursor)[i], x.vars)
       PROVE  /\ x.vars.agents[Branches(x.cursor)[i]] \in DOMAIN child
              /\ Tracked(x.vars.agents[Branches(x.cursor)[i]])
  <2>1. Branches(x.cursor)[i] \in Nodes /\ i \in Nat
    BY <1>9, <1>13, BranchesType
  <2>2. Tracked(c) /\ b = Branches(sess[s].cursor)[sess[s].branch]
    BY <1>1, <1>3, <1>17 DEF Wakes, Visit, Unnoted
  <2>3. CASE Branches(x.cursor)[i] = b
    BY <1>9, <1>11, <1>12, <1>13, <2>2, <2>3
  <2>4. CASE Branches(x.cursor)[i] # b
    <3>1. i < sess[s].branch
      BY <1>10, <1>13, <1>17, <2>1, <2>2, <2>4
    <3>2. Waits(Branches(x.cursor)[i], sess[s].vars)
      BY <1>11, <1>12, <1>13, <1>17, <2>1, <2>4 DEF Waits
    <3>3. Tracked(sess[s].vars.agents[Branches(x.cursor)[i]])
      BY <1>1, <1>9, <1>13, <1>17, <3>1, <3>2 DEF Wakes, Visit, Passed
    <3>4. sess[s].vars.agents[Branches(x.cursor)[i]] \in DOMAIN child
      BY <2>1, <3>2, NotedChild, OfSession DEF Waits, VarsInv
    <3> QED BY <1>11, <1>12, <1>13, <2>1, <2>4, <3>3, <3>4
  <2> QED BY <2>3, <2>4
<1>18. ASSUME ~raced PROVE Visit(x)'
  <2>1. ASSUME NEW i \in DOMAIN Branches(x.cursor), i < x.branch,
               Waits(Branches(x.cursor)[i], x.vars)
        PROVE  Tracked(x.vars.agents[Branches(x.cursor)[i]])'
    <3>1. PICK d \in DOMAIN child : d = x.vars.agents[Branches(x.cursor)[i]] /\ Tracked(d)
      BY <1>17, <1>18, <2>1
    <3>2. (x.vars.agents[Branches(x.cursor)[i]])' = d
      BY <1>15, <3>1 DEF Branches
    <3>3. Tracked(d)'
      BY <1>16, <3>1
    <3> QED BY <3>2, <3>3 DEF Tracked, Over, Announced
  <2> QED BY <1>13, <1>15, <2>1 DEF Visit, Passed, Unnoted, ReadPC, Waits, Branches
<1> QED BY <1>1, <1>8, <1>13, <1>14, <1>15, <1>18, WakeGoesOn

\* A visit that ends early does not wait.
LEMMA WholeVisit ==
  ASSUME NEW n, NEW v, JoinOf(n, v) = "paused" PROVE ~EndsEarly(n, v)
  BY DEF EndsEarly, JoinOf, Join

LEMMA ConcludeWakes == ASSUME Inv, Wakes, NEW s \in Sessions, Conclude(s) PROVE Wakes'
<1>1. /\ sess[s].pc = "working" /\ sess[s].cursor # End /\ sess[s].cursor \in Nodes /\ Here(s)
      /\ graph.kind[sess[s].cursor] = "parallel"
      /\ Active(s)
  BY OfSession DEF Conclude, InParallel, Active, ActivePC
<1>2. CASE Hop(s, sess[s].vars, sess[s].vars.condition)
  BY <1>1, <1>2, HereStays, WakeHop, OfSession, ConditionOfVars
<1>3. CASE FailRun(s, sess[s].vars)
  BY <1>1, <1>3, HereStays, WakeStop DEF FailRun
<1>4. CASE JoinOf(sess[s].cursor, sess[s].vars) = "paused"
           /\ Pause(s, "paused", sess[s].vars, << >>)
  <2>1. sess[s].branch > Len(Branches(sess[s].cursor))
    BY <1>4, WholeVisit DEF Conclude
  <2>2. \A i \in DOMAIN Branches(sess[s].cursor) : i < sess[s].branch
    <3>1. Branches(sess[s].cursor) \in Seq(Nodes) /\ sess[s].branch \in Nat
      BY <1>1, BranchesType, OfSession DEF Session
    <3> QED BY <2>1, <3>1
  <2>3. ~raced => Settled(sess[s].cursor, sess[s].vars)
    BY <1>1, <1>4, <2>2 DEF Settled, Wakes, Visit, Passed
  <2>4. Sound(sess[s].vars, graph, child)
    BY OfSession DEF VarsInv
  <2> QED BY <1>1, <1>4, <2>3, <2>4, HereStays, WakeFinish DEF Pause
<1> QED BY <1>2, <1>3, <1>4 DEF Conclude

LEMMA EndsWake ==
  ASSUME Inv, Wakes, NEW s \in Sessions, StepPastEnd(s) \/ RunOutOfSteps(s) PROVE Wakes'
<1>1. Active(s) /\ sess[s].cursor \in Nodes \cup {End}
  BY OfSession DEF StepPastEnd, RunOutOfSteps, Active, ActivePC
<1> QED BY <1>1, WakeStop DEF StepPastEnd, RunOutOfSteps, Here

------------------------------------------------------------------------------
\* Reading the row.

\* No session moves.
LEMMA WakeRest ==
  ASSUME Inv, Wakes, UNCHANGED << graph, row, sess >>, raced => raced',
         \A c \in DOMAIN child :
           /\ c \in DOMAIN child' /\ child'[c].node = child[c].node
           /\ Tracked(c) => Tracked(c)'
           /\ Awaited(c) => Awaited(c)'
  PROVE  Wakes'
<1> SUFFICES ASSUME ~raced' PROVE Wakes'
  BY DEF Wakes
<1>1. RowWaits'
  BY RowGoesOn DEF Wakes
<1>2. ASSUME NEW s \in Sessions PROVE Visit(sess[s])'
  BY VisitKept DEF Wakes
<1> QED BY <1>1, <1>2 DEF Wakes

LEMMA WakeSame ==
  ASSUME Inv, Wakes, UNCHANGED << graph, row, child, hook, missed, sess, raced >>
  PROVE  Wakes'
  BY WakeRest DEF Tracked, Awaited, Over, Announced

LEMMA WakeLoad ==
  ASSUME Inv, Wakes, NEW s \in Sessions, sess[s].pc \in { "idle", "decided" },
         NEW pc \in ReadPC, NEW granted, NEW human, NEW woke, NEW saw,
         Loaded(s, pc, granted, human, woke, saw), graph' = graph
  PROVE  \E x : /\ sess' = [sess EXCEPT ![s] = x] /\ Visit(x)'
                /\ x.pc = pc /\ x.woke = woke
<1> DEFINE taken == IF AsksApproval THEN granted ELSE None
<1>1. PICK x :
        x = [ IdleSession EXCEPT !.pc = pc, !.base = row, !.cursor = row.cursor,
                                 !.vars = row.vars, !.granted = taken, !.spent = taken,
                                 !.human = human /\ KindAtCursor = "human_input",
                                 !.woke = woke, !.saw = saw ]
  OBVIOUS
<1>2. sess' = [sess EXCEPT ![s] = x]
  BY <1>1 DEF Loaded
<1>3. x.pc = pc /\ x.branch = 1 /\ x.cursor = row.cursor /\ x.woke = woke
  BY <1>1 DEF IdleSession
<1>4. row.cursor \in Nodes \cup {End}
  BY DEF Inv, RowInv, Row
<1>5. Visit(x)'
  BY <1>3, <1>4, FreshVisit DEF ReadPC
<1> QED BY <1>2, <1>3, <1>5

LEMMA ReadsWake ==
  ASSUME Inv, Wakes, NEW s \in Sessions,
         UserResumes(s) \/ DecisionHook(s) \/ \E n \in Nodes : TimerFires(s, n)
  PROVE  Wakes'
<1>1. /\ sess[s].pc \in { "idle", "decided" }
      /\ UNCHANGED << graph, row, child, hook, missed, raced >>
  BY DEF UserResumes, DecisionHook, TimerFires
<1>2. ASSUME NEW pc \in ReadPC, NEW granted, NEW human,
             Loaded(s, pc, granted, human, None, "active")
      PROVE  Wakes'
  <2>1. PICK x : sess' = [sess EXCEPT ![s] = x] /\ Visit(x)'
    BY <1>1, <1>2, WakeLoad
  <2> QED BY <1>1, <2>1, WakeAside
<1>3. CASE sess' = sess
  BY <1>1, <1>3, WakeSame
<1>4. CASE sess' = [sess EXCEPT ![s] = IdleSession]
  <2>1. Visit(IdleSession)'
    BY DEF Visit, Passed, Unnoted, IdleSession, ReadPC
  <2> QED BY <1>1, <1>4, <2>1, WakeAside
<1>5. "loaded" \in ReadPC /\ "rejecting" \in ReadPC
  BY DEF ReadPC
<1>6. CASE UserResumes(s)
  BY <1>2, <1>5, <1>6 DEF UserResumes
<1>7. CASE DecisionHook(s)
  BY <1>2, <1>4, <1>5, <1>7 DEF DecisionHook
<1>8. CASE \E n \in Nodes : TimerFires(s, n)
  BY <1>2, <1>3, <1>5, <1>8 DEF TimerFires
<1> QED BY <1>6, <1>7, <1>8

LEMMA ChildHookWakes ==
  ASSUME Inv, Wakes, NEW s \in Sessions, NEW h \in hook, ChildHook(s, h)
  PROVE  Wakes'
<1> DEFINE c == h.child
<1>1. /\ sess[s].pc = "idle" /\ hook' = hook \ {h}
      /\ UNCHANGED << graph, row, child, raced >>
  BY DEF ChildHook
<1>2. ASSUME NEW d \in DOMAIN child, Announced(d) => Announced(d)',
             \A t \in Sessions : sess[t].pc = "working" => sess'[t] = sess[t]
      PROVE  (Tracked(d) => Tracked(d)') /\ (Awaited(d) => Awaited(d)')
  BY <1>1, <1>2 DEF Tracked, Awaited, Over
<1>3. CASE Loaded(s, "loaded", None, FALSE, c, h.status) /\ UNCHANGED missed
  <2>1. PICK x : /\ sess' = [sess EXCEPT ![s] = x] /\ Visit(x)'
                 /\ x.pc = "loaded" /\ x.woke = c
    <3>1. PICK pc \in ReadPC : pc = "loaded"
      BY DEF ReadPC
    <3>2. PICK human : human = FALSE
      OBVIOUS
    <3>3. Loaded(s, pc, None, human, c, h.status) /\ sess[s].pc \in { "idle", "decided" }
      BY <1>1, <1>3, <3>1, <3>2
    <3> QED BY <1>1, <3>1, <3>3, WakeLoad
  <2>2. sess'[s] = x /\ \A t \in Sessions \ {s} : sess'[t] = sess[t]
    BY <2>1 DEF Inv, Rows
  <2>3. ASSUME NEW d \in DOMAIN child, Announced(d) PROVE Announced(d)'
    <3>1. CASE d = c
      BY <2>1, <2>2, <3>1 DEF Announced
    <3>2. CASE d # c /\ d \in missed \cup { g.child : g \in hook }
      BY <1>1, <1>3, <3>2 DEF Announced
    <3>3. ASSUME NEW t \in Sessions, sess[t].pc = "loaded", sess[t].woke = d
          PROVE  Announced(d)'
      BY <1>1, <2>2, <3>3 DEF Announced
    <3> QED BY <2>3, <3>1, <3>2, <3>3 DEF Announced
  <2>4. \A t \in Sessions : sess[t].pc = "working" => sess'[t] = sess[t]
    BY <1>1, <2>2
  <2>5. ~raced => RowWaits'
    BY <1>1, <1>2, <2>3, <2>4, RowGoesOn DEF Wakes
  <2> QED BY <1>1, <1>2, <2>1, <2>3, <2>4, <2>5, WakeStep
<1>4. CASE missed' = missed \cup {c} /\ UNCHANGED sess
  <2>1. \A d \in DOMAIN child : Announced(d) => Announced(d)'
    BY <1>1, <1>4 DEF Announced
  <2> QED BY <1>1, <1>2, <1>4, <2>1, WakeRest
<1> QED BY <1>3, <1>4 DEF ChildHook

LEMMA DecideWakes ==
  ASSUME Inv, Wakes, NEW s \in Sessions, NEW a, NEW status, Decide(s, a, status)
  PROVE  Wakes'
<1>1. PICK x : x = [IdleSession EXCEPT !.pc = "decided", !.granted = a]
  OBVIOUS
<1>2. /\ sess' = [sess EXCEPT ![s] = x] /\ sess[s].pc = "idle"
      /\ UNCHANGED << graph, row, child, hook, missed, raced >>
  BY <1>1 DEF Decide
<1>3. x.pc = "decided"
  BY <1>1 DEF IdleSession
<1>4. Visit(x)'
  BY <1>3 DEF Visit, Passed, Unnoted, ReadPC
<1> QED BY <1>2, <1>4, WakeAside

LEMMA StartRunWakes == ASSUME Inv, Wakes, NEW s \in Sessions, StartRun(s) PROVE Wakes'
<1>1. PICK x : x = [IdleSession EXCEPT !.pc = "working", !.cursor = graph.entry]
  OBVIOUS
<1>2. /\ sess' = [sess EXCEPT ![s] = x] /\ sess[s].pc = "idle"
      /\ UNCHANGED << graph, row, child, hook, missed, raced >>
  BY <1>1 DEF StartRun
<1>3. x.pc = "working" /\ x.branch = 1 /\ x.cursor = graph.entry
  BY <1>1 DEF IdleSession
<1>4. Visit(x)'
  BY <1>2, <1>3, GraphType, FreshVisit DEF ReadPC
<1> QED BY <1>2, <1>4, WakeAside

------------------------------------------------------------------------------
\* Taking the row.

LEMMA EnterWakes == ASSUME Inv, Wakes, NEW s \in Sessions, Enter(s) PROVE Wakes'
<1>1. /\ sess[s].pc = "loaded" /\ lock = Nobody /\ sess[s].pc \in ReadPC
      /\ raced' = (raced \/ row # sess[s].base)
      /\ UNCHANGED << graph, row, child, hook, missed >>
  BY DEF Enter, ReadPC
<1> SUFFICES ASSUME ~raced' PROVE Wakes'
  BY DEF Wakes
<1>2. PICK x : x = [sess[s] EXCEPT !.pc = "working"]
  OBVIOUS
<1>3. sess' = [sess EXCEPT ![s] = x]
  BY <1>2 DEF Enter
<1>4. /\ x.pc = "working" /\ x.branch = sess[s].branch /\ x.cursor = sess[s].cursor
      /\ x.woke = sess[s].woke
  BY <1>2, OfSession DEF Session
<1>5. sess'[s] = x /\ \A t \in Sessions \ {s} : sess'[t] = sess[t]
  BY <1>3 DEF Inv, Rows
<1>6. \A t \in Sessions : ~Active(t) /\ Visit(sess[t])
  BY <1>1, TakesRow DEF Wakes
<1>7. RowWaits'
  BY <1>1, <1>3, <1>4, StillAwaited, RowGoesOn DEF Wakes
<1>8. Visit(x)'
  <2>1. sess[s].branch = 1
    BY <1>1, <1>6 DEF Visit
  <2> QED BY <1>1, <1>4, <2>1, OfSession, FreshVisit DEF ReadPC
<1>9. ASSUME NEW t \in Sessions PROVE Visit(sess[t])'
  <2>1. CASE t = s
    BY <1>5, <1>8, <2>1
  <2>2. CASE t # s
    <3>1. sess'[t] = sess[t] /\ sess[t].pc \notin { "working", "started" }
      BY <1>5, <1>6, <2>2 DEF Active, ActivePC
    <3> QED BY <1>6, <3>1 DEF Visit, Passed, Unnoted
  <2> QED BY <2>1, <2>2
<1> QED BY <1>7, <1>9 DEF Wakes

LEMMA ApplyRejectionWakes ==
  ASSUME Inv, Wakes, NEW s \in Sessions, ApplyRejection(s) PROVE Wakes'
<1>1. /\ sess[s].pc = "rejecting" /\ raced' = (raced \/ row # sess[s].base)
      /\ UNCHANGED << graph, child, hook, missed >>
  BY DEF ApplyRejection
<1>2. PICK v : v = [sess[s].vars EXCEPT !.approval = None]
  OBVIOUS
<1>3. ASSUME NEW status \in { "waiting_input", "cancelled", "failed" },
             Finish(s, status, sess[s].cursor, v, << >>)
      PROVE  Wakes'
  <2>1. sess' = [sess EXCEPT ![s] = IdleSession] /\ row'.status # "paused"
    BY <1>3 DEF Finish, Saved
  <2>2. Visit(IdleSession)'
    BY DEF Visit, Passed, Unnoted, IdleSession, ReadPC
  <2>3. ASSUME NEW c \in DOMAIN child, Tracked(c) PROVE Tracked(c)'
    BY <1>1, <2>1, <2>3, StillAnnounced DEF Tracked, Over
  <2>4. RowWaits'
    BY <2>1 DEF RowWaits
  <2> QED BY <1>1, <2>1, <2>2, <2>3, <2>4, WakeStep
<1>4. ASSUME NEW w, GoOn(s, [sess[s] EXCEPT !.pc = "working", !.cursor = graph.route,
                                            !.vars = w])
      PROVE  Wakes'
  <2>1. PICK x : x = [sess[s] EXCEPT !.pc = "working", !.cursor = graph.route, !.vars = w]
    OBVIOUS
  <2>2. sess' = [sess EXCEPT ![s] = x] /\ row' = row
    BY <1>4, <2>1 DEF GoOn
  <2>3. x.pc = "working" /\ x.branch = sess[s].branch /\ x.cursor = graph.route
    BY <2>1, OfSession DEF Session
  <2>4. ~raced => Visit(x)'
    <3>1. ~raced => x.branch = 1
      BY <1>1, <2>3 DEF Wakes, Visit, ReadPC
    <3> QED BY <1>1, <2>3, <3>1, GraphType, FreshVisit DEF ReadPC
  <2> QED BY <1>1, <2>2, <2>4, WakeAside
<1>5. PICK onReject \in { "fail", "cancel", "request_changes", "route_to" } :
        onReject = IF sess[s].cursor = End THEN "fail" ELSE graph.onReject
  BY GraphType DEF Graph
<1>6. CASE onReject = "route_to"
  BY <1>4, <1>5, <1>6 DEF ApplyRejection
<1>7. CASE onReject # "route_to"
  <2>1. PICK status \in { "waiting_input", "cancelled", "failed" } :
          Finish(s, status, sess[s].cursor, v, << >>)
    BY <1>2, <1>5, <1>7 DEF ApplyRejection, Pause, FailRun
  <2> QED BY <1>3, <2>1
<1> QED BY <1>6, <1>7

------------------------------------------------------------------------------
\* A session is lost, and the rest of the world.

LEMMA SessionLostWakes == ASSUME Inv, Wakes, NEW s \in Sessions, SessionLost(s) PROVE Wakes'
<1>1. /\ sess' = [sess EXCEPT ![s] = IdleSession]
      /\ missed' = missed \cup ({ sess[s].woke } \ { None })
      /\ UNCHANGED << graph, child, hook, raced >>
  BY DEF SessionLost
<1>2. sess[s].woke \in missed' \cup {None} /\ missed \subseteq missed'
  BY <1>1
<1>3. Visit(IdleSession)'
  BY DEF Visit, Passed, Unnoted, IdleSession, ReadPC
<1>4. CASE UNCHANGED row
  BY <1>1, <1>2, <1>3, <1>4, WakeAside
<1>5. CASE CommitOnTheWay(s)
  <2>1. RowWaits'
    BY <1>5 DEF CommitOnTheWay, Saved, RowWaits
  <2>2. ASSUME NEW c \in DOMAIN child, Tracked(c) PROVE Tracked(c)'
    BY <1>1, <1>2, <2>2, StillAnnounced DEF Tracked, Over
  <2> QED BY <1>1, <1>3, <2>1, <2>2, WakeStep
<1> QED BY <1>4, <1>5 DEF SessionLost

\* A child has moved: whatever end it came to is announced.
LEMMA MovesWake ==
  ASSUME Inv, Wakes, NEW c, NEW status \in ChildStatus, Moves(c, status),
         hook \subseteq hook', missed \subseteq missed',
         status # "active" => c \in missed' \cup { h.child : h \in hook' },
         UNCHANGED << graph, row, sess, raced >>
  PROVE  Wakes'
<1>1. /\ c \in DOMAIN child /\ DOMAIN child' = DOMAIN child /\ child'[c].status = status
      /\ \A d \in DOMAIN child \ {c} : child'[d] = child[d]
      /\ KeptChildren(child, child')
  BY MovesKept
<1>2. ASSUME NEW d \in DOMAIN child
      PROVE  d \in DOMAIN child' /\ child'[d].node = child[d].node
  BY <1>1 DEF KeptChildren
<1>3. ASSUME NEW d \in DOMAIN child
      PROVE  (Tracked(d) => Tracked(d)') /\ (Awaited(d) => Awaited(d)')
  <2>1. Announced(d) => Announced(d)'
    BY DEF Announced
  <2>2. CASE d = c
    BY <1>1, <2>2 DEF Tracked, Awaited, Announced, Over
  <2>3. CASE d # c
    BY <1>1, <2>1, <2>3 DEF Tracked, Awaited, Over
  <2> QED BY <2>2, <2>3
<1> QED BY <1>2, <1>3, WakeRest

\* The end of a child is announced with it.
LEMMA ChildEndsWakes ==
  ASSUME Inv, Wakes, NEW c \in ChildId, NEW status \in ChildEnd, ChildEnds(c, status)
  PROVE  Wakes'
<1>1. PICK h : h = [ child |-> c, status |-> status ]
  OBVIOUS
<1>2. /\ Moves(c, status) /\ UNCHANGED << graph, row, sess, raced >>
      /\ \/ hook' = hook \cup {h} /\ UNCHANGED missed
         \/ missed' = missed \cup {c} /\ UNCHANGED hook
  BY <1>1 DEF ChildEnds
<1>3. h.child = c /\ status \in ChildStatus
  BY <1>1 DEF ChildStatus
<1>4. c \in missed' \cup { g.child : g \in hook' }
  BY <1>2, <1>3
<1>5. hook \subseteq hook' /\ missed \subseteq missed'
  BY <1>2
<1> QED BY <1>2, <1>3, <1>4, <1>5, MovesWake

LEMMA ChildMovesWake ==
  ASSUME Inv, Wakes, NEW c \in ChildId, ChildFailsUnsaid(c) \/ ChildResumed(c)
  PROVE  Wakes'
<1>1. CASE ChildFailsUnsaid(c)
  <2>1. "failed" \in ChildStatus
    BY DEF ChildStatus, ChildEnd
  <2>2. /\ Moves(c, "failed") /\ hook' = hook /\ missed' = missed \cup {c}
        /\ UNCHANGED << graph, row, sess, raced >>
    BY <1>1 DEF ChildFailsUnsaid
  <2> QED BY <2>1, <2>2, MovesWake
<1>2. CASE ChildResumed(c)
  <2>1. "active" \in ChildStatus
    BY DEF ChildStatus
  <2>2. /\ Moves(c, "active") /\ UNCHANGED << graph, row, sess, raced, hook, missed >>
    BY <1>2 DEF ChildResumed
  <2> QED BY <2>1, <2>2, MovesWake
<1> QED BY <1>1, <1>2

LEMMA TimePassesWakes == ASSUME Inv, Wakes, NEW n, TimePasses(n) PROVE Wakes'
  BY WakeSame DEF TimePasses

------------------------------------------------------------------------------
\* The theorem.

LEMMA InitWakes == ASSUME Init PROVE Wakes
<1>1. row.status = "absent" /\ \A s \in Sessions : sess[s] = IdleSession
  BY DEF Init, InitRow
<1>2. RowWaits
  BY <1>1 DEF RowWaits
<1>3. \A s \in Sessions : Visit(sess[s])
  BY <1>1 DEF Visit, Passed, Unnoted, IdleSession, ReadPC
<1> QED BY <1>2, <1>3 DEF Wakes

LEMMA NextWakes == ASSUME Inv, Wakes, [Next]_allVars PROVE Wakes'
<1>1. ASSUME NEW s \in Sessions, AdvanceStep(s) PROVE Wakes'
  BY <1>1, ReadsWake, EnterWakes, ApplyRejectionWakes, EndsWake, SimpleNodesWake,
     GatedNodesWake, ToolCommitsWake, AfterToolWakes, StepDelayWakes, StepAgentWakes,
     NoteChildWakes, BranchesWake, CommittingBranchWakes, StartBranchWakes, NoteBranchWakes,
     RefreshBranchWakes, ConcludeWakes
  DEF AdvanceStep
<1>2. ASSUME NEW s \in Sessions, UserStep(s) PROVE Wakes'
  BY <1>2, StartRunWakes, ReadsWake, DecideWakes DEF UserStep
<1>3. ASSUME NEW s \in Sessions,
             \/ \E h \in hook : ChildHook(s, h)
             \/ \E n \in Nodes : TimerFires(s, n)
             \/ SessionLost(s)
      PROVE  Wakes'
  BY <1>3, ChildHookWakes, ReadsWake, SessionLostWakes
<1>4. ASSUME WorldStep PROVE Wakes'
  BY <1>4, ChildEndsWakes, ChildMovesWake, TimePassesWakes DEF WorldStep
<1>5. ASSUME UNCHANGED allVars PROVE Wakes'
  BY <1>5, WakeSame DEF allVars
<1> QED BY <1>1, <1>2, <1>3, <1>4, <1>5 DEF Next

\* A branch that would no longer be waited for has a child that has ended.
LEMMA ReadyBranch ==
  ASSUME Inv, NEW n \in Nodes, JoinOf(n, row.vars) = "paused",
         JoinOf(n, Refreshed(n)) # "paused"
  PROVE  \E i \in DOMAIN Branches(n) :
           Waits(Branches(n)[i], row.vars) /\ Over(row.vars.agents[Branches(n)[i]])
<1> SUFFICES ASSUME \A i \in DOMAIN Branches(n) :
                      Waits(Branches(n)[i], row.vars) =>
                        ~Over(row.vars.agents[Branches(n)[i]])
             PROVE  FALSE
  OBVIOUS
<1>1. row.vars \in Vars /\ row.vars.branches \in [Nodes -> BranchStatus]
  BY DEF Inv, RowInv, VarsInv, Vars
<1>2. PICK q : q = [b \in Nodes |-> IF /\ row.vars.branches[b] = "paused"
                                       /\ graph.kind[b] = "agent"
                                    THEN BranchOf(child[row.vars.agents[b]].status)
                                    ELSE row.vars.branches[b]]
  OBVIOUS
<1>3. Refreshed(n).branches = q
  BY <1>1, <1>2 DEF Refreshed, Vars
<1>4. ASSUME NEW i \in DOMAIN Branches(n)
      PROVE  q[Branches(n)[i]] = row.vars.branches[Branches(n)[i]]
  <2>1. PICK b \in Nodes : b = Branches(n)[i]
    BY <1>4, BranchesType
  <2>2. CASE Waits(b, row.vars)
    <3>1. child[row.vars.agents[b]].status = "active"
      BY <1>4, <2>1, <2>2 DEF Over
    <3> QED BY <1>2, <2>1, <2>2, <3>1 DEF Waits, BranchOf
  <2>3. CASE ~Waits(b, row.vars)
    BY <1>2, <2>1, <2>3 DEF Waits
  <2> QED BY <2>1, <2>2, <2>3
<1>5. BranchStatuses(n, Refreshed(n)) = BranchStatuses(n, row.vars)
  BY <1>3, <1>4 DEF BranchStatuses
<1> QED BY <1>5 DEF JoinOf

\* A child may end before its parent has noted it, while a session passes its branch, or
\* after a hook has looked at the run: if the run is left waiting for nothing, the hook of
\* one of its noted children is to come, has been missed, or has woken a session that has
\* yet to go on (workflow_hooks.py, on_task_run_terminal).
THEOREM NoWakeUpLost == Spec => []NoLostWakeUp
<1>1. Init => Inv /\ Wakes
  BY InitInv, InitWakes
<1>2. Inv /\ Wakes /\ [Next]_allVars => (Inv /\ Wakes)'
  BY NextInv, NextWakes
<1>3. Inv /\ Wakes => NoLostWakeUp
  <2> SUFFICES ASSUME Inv, Wakes, Ready, ~raced
               PROVE  \E c \in DOMAIN child :
                        /\ row.vars.agents[child[c].node] = c
                        /\ child[c].status # "active"
                        /\ \/ c \in missed \cup { h.child : h \in hook }
                           \/ \E s \in Sessions :
                                sess[s].pc \in { "loaded", "working" } /\ sess[s].woke = c
    BY DEF NoLostWakeUp
  <2>1. /\ row.status = "paused" /\ RowWaits
        /\ Sound(row.vars, graph, child) /\ row.cursor \in Nodes \cup {End}
    BY DEF Ready, Wakes, Inv, RowInv, Row, VarsInv
  <2>2. ASSUME NEW b \in Nodes, row.vars.agents[b] \in DOMAIN child,
               Over(row.vars.agents[b]), Awaited(row.vars.agents[b])
        PROVE  \E c \in DOMAIN child :
                 /\ row.vars.agents[child[c].node] = c
                 /\ child[c].status # "active"
                 /\ \/ c \in missed \cup { h.child : h \in hook }
                    \/ \E s \in Sessions :
                         sess[s].pc \in { "loaded", "working" } /\ sess[s].woke = c
    <3>1. PICK c \in DOMAIN child : c = row.vars.agents[b]
      BY <2>2
    <3>2. child[c].node = b
      BY <2>1, <2>2, <3>1, ChildType DEF Sound
    <3> QED BY <2>2, <3>1, <3>2 DEF Awaited, Announced, Over
  <2>3. CASE /\ KindAtCursor = "agent"
             /\ child[row.vars.agents[row.cursor]].status # "active"
    <3>1. row.cursor \in Nodes
      BY <2>1, <2>3 DEF KindAtCursor
    <3> QED BY <2>1, <2>2, <2>3, <3>1 DEF RowWaits, Over
  <2>4. CASE /\ KindAtCursor = "parallel"
             /\ JoinOf(row.cursor, Refreshed(row.cursor)) # "paused"
    <3>1. row.cursor \in Nodes
      BY <2>1, <2>4 DEF KindAtCursor
    <3>2. PICK i \in DOMAIN Branches(row.cursor) :
            /\ Waits(Branches(row.cursor)[i], row.vars)
            /\ Over(row.vars.agents[Branches(row.cursor)[i]])
      BY <2>1, <2>4, <3>1, ReadyBranch DEF RowWaits
    <3>3. PICK b \in Nodes : b = Branches(row.cursor)[i]
      BY <3>1, BranchesType
    <3>4. row.vars.agents[b] \in DOMAIN child
      BY <2>1, <3>2, <3>3, NotedChild DEF Waits
    <3> QED BY <2>1, <2>2, <2>4, <3>2, <3>3, <3>4 DEF RowWaits
  <2> QED BY <2>3, <2>4 DEF Ready
<1> QED BY <1>1, <1>2, <1>3, PTL DEF Spec

==============================================================================
