-------------------------- MODULE WorkflowPromiseProofs --------------------------
(***************************************************************************)
(* WorkflowRuntime implements WorkflowPromise: every commit of a session   *)
(* is a step of the abstract run, and what happens between commits is      *)
(* none, for any sessions, bounds and faults, and any graphs whose         *)
(* branches are only branches.                                             *)
(***************************************************************************)
EXTENDS WorkflowWakeProofs

PromiseStep == [Promise!Next]_(Promise!vars)

------------------------------------------------------------------------------
\* The invariant.

\* What is consumed with a commit has been approved.
SpendsApproved(sp, ap) == sp # None => sp \in DOMAIN ap /\ ap[sp].status = "approved"

\* The session that advances the run has not forgotten what the run got past.
Ahead(x) == row.vars.completed \subseteq x.vars.completed

Progress ==
  /\ \A s \in Sessions : SpendsApproved(sess[s].spent, approval)
  /\ \A a \in DOMAIN approval : approval[a].consumed => approval[a].status = "approved"
  /\ ~raced => \A s \in Sessions : Active(s) => Ahead(sess[s])

------------------------------------------------------------------------------
\* Approvals as a commit leaves them: some approved ones are consumed, new ones are pending.

Commits(ap, ap2) ==
  /\ DOMAIN ap \subseteq DOMAIN ap2
  /\ \A a \in DOMAIN ap :
       /\ ap2[a].node = ap[a].node
       /\ ap2[a].status = ap[a].status
       /\ ap[a].consumed => ap2[a].consumed
       /\ ap2[a].consumed => ap2[a].status = "approved"
  /\ \A a \in DOMAIN ap2 \ DOMAIN ap : ap2[a].status = "pending" /\ ~ap2[a].consumed

LEMMA SameCommits == ASSUME Progress PROVE Commits(approval, approval)
  BY DEF Progress, Commits

LEMMA SavedCommits ==
  ASSUME Inv, Progress, NEW s \in Sessions, NEW new \in Seq(Nodes),
         NEW q, q = SavedApprovals(s, new)
  PROVE  Commits(approval, q)
<1> DEFINE more == sess[s].made \o new
           old == [a \in DOMAIN approval |->
                     IF a = sess[s].spent THEN [approval[a] EXCEPT !.consumed = TRUE]
                     ELSE approval[a]]
           fresh == [i \in DOMAIN more |-> NewApproval(more[i])]
<1>1. more \in Seq(Nodes) /\ approval \in Seq(Approval)
  BY OfSession DEF Inv, Rows
<1>2. \A a \in DOMAIN approval : approval[a] \in Approval
  BY <1>1
<1>3. /\ old \in Seq(Approval) /\ Len(old) = Len(approval)
      /\ \A a \in DOMAIN approval :
           /\ old[a].node = approval[a].node
           /\ old[a].status = approval[a].status
           /\ approval[a].consumed => old[a].consumed
           /\ old[a].consumed => old[a].status = "approved"
  <2>1. ASSUME NEW a \in DOMAIN approval
        PROVE  /\ old[a] \in Approval
               /\ old[a].node = approval[a].node
               /\ old[a].status = approval[a].status
               /\ approval[a].consumed => old[a].consumed
               /\ old[a].consumed => old[a].status = "approved"
    <3>1. PICK r : r = [approval[a] EXCEPT !.consumed = TRUE]
      OBVIOUS
    <3>2. r \in Approval /\ r.node = approval[a].node /\ r.status = approval[a].status
          /\ r.consumed
      BY <1>2, <3>1 DEF Approval
    <3>3. CASE a = sess[s].spent
      <4>1. approval[a].status = "approved"
        BY <1>1, <3>3, NotAnIndex DEF Progress, SpendsApproved
      <4>2. old[a] = r
        BY <3>1, <3>3
      <4> HIDE DEF old
      <4> QED BY <3>2, <4>1, <4>2
    <3>4. CASE a # sess[s].spent
      <4>1. old[a] = approval[a]
        BY <3>4
      <4> HIDE DEF old
      <4> QED BY <1>2, <4>1 DEF Progress
    <3> QED BY <3>3, <3>4
  <2>2. DOMAIN approval = 1 .. Len(approval) /\ Len(approval) \in Nat
    BY <1>1
  <2> HIDE DEF old
  <2>3. old = [a \in 1 .. Len(approval) |-> old[a]]
    BY <2>2 DEF old
  <2> QED BY <2>1, <2>2, <2>3
<1>4. /\ fresh \in Seq(Approval)
      /\ \A i \in DOMAIN fresh : fresh[i].status = "pending" /\ ~fresh[i].consumed
  <2> HIDE DEF more
  <2>1. \A i \in DOMAIN more :
          fresh[i] \in Approval /\ fresh[i].status = "pending" /\ ~fresh[i].consumed
    BY <1>1 DEF NewApproval, Approval
  <2>2. DOMAIN more = 1 .. Len(more) /\ Len(more) \in Nat /\ DOMAIN fresh = DOMAIN more
    BY <1>1
  <2> HIDE DEF fresh
  <2>3. fresh = [i \in 1 .. Len(more) |-> fresh[i]]
    BY <2>2 DEF fresh
  <2> QED BY <2>1, <2>2, <2>3
<1>5. q = old \o fresh
  BY DEF SavedApprovals
<1> HIDE DEF old, fresh, more
<1>6. /\ q \in Seq(Approval) /\ Len(q) = Len(old) + Len(fresh)
      /\ \A i \in 1 .. Len(old) : i \in DOMAIN q /\ q[i] = old[i]
  <2>0. old \in Seq(Approval) /\ fresh \in Seq(Approval)
    BY <1>3, <1>4
  <2>1. q \in Seq(Approval) /\ Len(q) = Len(old) + Len(fresh)
    BY <2>0, <1>5, ConcatProperties, Zenon
  <2>2. \A i \in 1 .. Len(old) : i \in DOMAIN q /\ q[i] = old[i]
    BY <1>3, <1>4, <1>5
  <2> QED BY <2>1, <2>2
<1>7. DOMAIN approval = 1 .. Len(old) /\ DOMAIN q = 1 .. Len(q)
  BY <1>1, <1>3, <1>6
<1>8. ASSUME NEW i \in DOMAIN q \ DOMAIN approval
      PROVE  q[i].status = "pending" /\ ~q[i].consumed
  <2>1. /\ Len(old) \in Nat /\ Len(fresh) \in Nat /\ DOMAIN fresh = 1 .. Len(fresh)
        /\ i \in 1 .. Len(old) + Len(fresh) /\ i \notin 1 .. Len(old)
    BY <1>3, <1>4, <1>6, <1>7
  <2>2. i - Len(old) \in DOMAIN fresh
    BY <2>1
  <2>3. q[i] = fresh[i - Len(old)]
    BY <1>3, <1>4, <1>5, <2>1, ConcatProperties
  <2> QED BY <1>4, <2>2, <2>3
<1> QED BY <1>3, <1>6, <1>7, <1>8 DEF Commits

------------------------------------------------------------------------------
\* Sets of nodes.

LEMMA NodesWithSame ==
  ASSUME NEW q, NEW r, NEW st, DOMAIN q \subseteq DOMAIN r,
         \A i \in DOMAIN q : r[i].node = q[i].node /\ (r[i].status \in st <=> q[i].status \in st),
         \A i \in DOMAIN r \ DOMAIN q : r[i].status \notin st
  PROVE  NodesWith(r, st) = NodesWith(q, st)
  BY DEF NodesWith

\* r is q with one more record, and q with another status at c.
Added(q, r, n, status) ==
  \E c \in DOMAIN r \ DOMAIN q :
    /\ DOMAIN r = DOMAIN q \cup {c}
    /\ r[c].node = n /\ r[c].status = status
    /\ \A i \in DOMAIN q : r[i] = q[i]

Changed(q, r, c, status) ==
  /\ DOMAIN r = DOMAIN q
  /\ r[c].status = status
  /\ \A i \in DOMAIN q : r[i].node = q[i].node
  /\ \A i \in DOMAIN q \ {c} : r[i].status = q[i].status

LEMMA AddedNodes ==
  ASSUME NEW q, NEW r, NEW n, NEW status, Added(q, r, n, status), NEW st
  PROVE  /\ status \in st => NodesWith(r, st) = NodesWith(q, st) \cup {n}
         /\ status \notin st => NodesWith(r, st) = NodesWith(q, st)
<1>1. PICK c \in DOMAIN r \ DOMAIN q :
        /\ DOMAIN r = DOMAIN q \cup {c}
        /\ r[c].node = n /\ r[c].status = status
        /\ \A i \in DOMAIN q : r[i] = q[i]
  BY DEF Added
<1>2. ASSUME NEW m \in NodesWith(r, st)
      PROVE  m \in NodesWith(q, st) \/ (m = n /\ status \in st)
  BY <1>1 DEF NodesWith
<1>3. ASSUME NEW m \in NodesWith(q, st) PROVE m \in NodesWith(r, st)
  BY <1>1 DEF NodesWith
<1>4. status \in st => n \in NodesWith(r, st)
  BY <1>1 DEF NodesWith
<1> QED BY <1>2, <1>3, <1>4

LEMMA ChangedNodes ==
  ASSUME NEW q, NEW r, NEW c \in DOMAIN q, NEW status, Changed(q, r, c, status), NEW st
  PROVE  /\ status \in st => NodesWith(r, st) = NodesWith(q, st) \cup { q[c].node }
         /\ status \notin st /\ q[c].status \notin st => NodesWith(r, st) = NodesWith(q, st)
<1>1. ASSUME NEW m \in NodesWith(r, st)
      PROVE  m \in NodesWith(q, st) \/ (m = q[c].node /\ status \in st)
  <2>1. PICK i \in DOMAIN r : r[i].status \in st /\ m = r[i].node
    BY <1>1 DEF NodesWith
  <2> QED BY <2>1 DEF Changed, NodesWith
<1>2. ASSUME NEW m \in NodesWith(q, st), status \in st \/ q[c].status \notin st
      PROVE  m \in NodesWith(r, st)
  <2>1. PICK i \in DOMAIN q : q[i].status \in st /\ m = q[i].node
    BY <1>2 DEF NodesWith
  <2>2. r[i].status \in st /\ r[i].node = m /\ i \in DOMAIN r
    BY <1>2, <2>1 DEF Changed
  <2> QED BY <2>2 DEF NodesWith
<1>3. status \in st => q[c].node \in NodesWith(r, st)
  BY DEF Changed, NodesWith
<1> QED BY <1>1, <1>2, <1>3

LEMMA CommitsNodes ==
  ASSUME NEW ap, NEW ap2, Commits(ap, ap2)
  PROVE  /\ NodesWith(ap2, { "approved" }) = NodesWith(ap, { "approved" })
         /\ HasRejected(ap2) = HasRejected(ap)
         /\ SpentNodes(ap) \subseteq SpentNodes(ap2)
         /\ SpentNodes(ap2) \subseteq NodesWith(ap, { "approved" })
<1>1. NodesWith(ap2, { "approved" }) = NodesWith(ap, { "approved" })
  BY NodesWithSame DEF Commits
<1>2. HasRejected(ap2) = HasRejected(ap)
  BY DEF HasRejected, Commits
<1>3. ASSUME NEW n \in SpentNodes(ap) PROVE n \in SpentNodes(ap2)
  <2>1. PICK a \in DOMAIN ap : ap[a].consumed /\ n = ap[a].node
    BY <1>3 DEF SpentNodes
  <2> QED BY <2>1 DEF SpentNodes, Commits
<1>4. ASSUME NEW n \in SpentNodes(ap2) PROVE n \in NodesWith(ap, { "approved" })
  <2>1. PICK a \in DOMAIN ap2 : ap2[a].consumed /\ n = ap2[a].node
    BY <1>4 DEF SpentNodes
  <2> QED BY <2>1 DEF NodesWith, Commits
<1> QED BY <1>1, <1>2, <1>3, <1>4

------------------------------------------------------------------------------
\* The steps of the abstract run.

LEMMA PromiseRaces == ASSUME raced' PROVE PromiseStep
  BY DEF PromiseStep, Promise!Next, Promise!Race

LEMMA PromiseStutters ==
  ASSUME UNCHANGED << graph, row, child, approval, raced >> PROVE PromiseStep
  BY DEF PromiseStep, Promise!vars, Promise!plan, Promise!tasks, Promise!answers, OfKind

\* What lets the run past n is a cause the abstract run knows.
LEMMA PassableCause ==
  ASSUME NEW n \in Nodes, NEW g, NEW ch, NEW T, NEW ap \in Seq(T), Passable(n, None, g, ch, ap)
  PROVE  \/ g.onReject = "route_to" /\ HasRejected(ap)
         \/ /\ g.kind[n] = "agent" => n \in DoneNodes(ch)
            /\ g.kind[n] \in { "approval", "tool" } => n \in SpentNodes(ap)
<1>1. ASSUME NEW c \in DOMAIN ch, ch[c].node = n, ch[c].done
      PROVE  n \in DoneNodes(ch)
  BY <1>1 DEF DoneNodes
<1>2. ASSUME NEW a \in DOMAIN ap, ap[a].node = n, ap[a].consumed \/ a = None
      PROVE  n \in SpentNodes(ap)
  BY <1>2, NotAnIndex DEF SpentNodes
<1> QED BY <1>1, <1>2 DEF Passable, HasRejected

LEMMA PromiseAdvances ==
  ASSUME Inv, Inv', ~raced, ~raced', graph' = graph, child' = child,
         row.status \notin RunTerminal, row'.status \in RunStatus \ {"absent"},
         Commits(approval, approval'), row.vars.completed \subseteq row'.vars.completed
  PROVE  PromiseStep
<1>1. /\ Outcome(row.status) \notin Promise!Ended
      /\ Outcome(row'.status) \in { "open" } \cup Promise!Ended
  BY DEF Outcome, Promise!Ended, RunTerminal
<1>2. ASSUME NEW n \in row'.vars.completed PROVE Promise!Cause(n)'
  <2>1. VarsInv(row'.vars, None, graph', child', approval') /\ approval' \in Seq(Approval)
    BY DEF Inv, RowInv, Rows
  <2>2. n \in Nodes /\ Passable(n, None, graph', child', approval')
    BY <1>2, <2>1 DEF VarsInv, Vars
  <2> QED BY <2>1, <2>2, PassableCause DEF Promise!Cause, OfKind
<1>3. /\ NodesWith(approval', { "approved" }) = NodesWith(approval, { "approved" })
      /\ HasRejected(approval') = HasRejected(approval)
      /\ Promise!Spend
  BY CommitsNodes DEF Promise!Spend
<1>4. UNCHANGED << Promise!plan, Promise!tasks, Promise!answers, raced >>
  <2>1. UNCHANGED Promise!plan
    BY DEF Promise!plan, OfKind
  <2>4. UNCHANGED raced
    BY Zenon DEF Inv, Aux
  <2>3. UNCHANGED Promise!tasks
    BY DEF Promise!tasks
  <2>2. UNCHANGED Promise!answers
    BY <1>3 DEF Promise!answers
  <2> QED BY <2>1, <2>2, <2>3, <2>4
<1>5. Promise!Advance
  BY <1>1, <1>2, <1>3, <1>4 DEF Promise!Advance
<1> QED BY <1>5 DEF PromiseStep, Promise!Next

LEMMA PromiseLaunches ==
  ASSUME Inv, ~raced, UNCHANGED << graph, raced >>, NEW n \in Nodes, graph.kind[n] = "agent",
         Added(child, child', n, "active"), DoneNodes(child') = DoneNodes(child),
         OneEach(child'), row.status \notin RunTerminal, row'.status = "running",
         row'.vars.completed = row.vars.completed, Commits(approval, approval')
  PROVE  PromiseStep
<1>1. NodesWith(child', ChildStatus) = NodesWith(child, ChildStatus) \cup {n}
  <2>1. "active" \in ChildStatus
    BY DEF ChildStatus
  <2> QED BY <2>1, AddedNodes
<1>2. n \notin NodesWith(child, ChildStatus)
  <2> SUFFICES ASSUME NEW d \in DOMAIN child, child[d].node = n PROVE FALSE
    BY DEF NodesWith
  <2> QED BY DEF OneEach, Added
<1>3. n \in OfKind({ "agent" })
  BY DEF OfKind
<1>4. /\ Outcome(row.status) \notin Promise!Ended
      /\ Outcome(row'.status) = "open"
  BY DEF Outcome, Promise!Ended, RunTerminal
<1>5. /\ NodesWith(approval', { "approved" }) = NodesWith(approval, { "approved" })
      /\ HasRejected(approval') = HasRejected(approval)
      /\ Promise!Spend
  BY CommitsNodes DEF Promise!Spend
<1>6. UNCHANGED Promise!plan
  BY DEF Promise!plan, OfKind
<1>7. UNCHANGED Promise!answers
  BY <1>5 DEF Promise!answers
<1>8. Promise!Launch(n)
  BY <1>1, <1>2, <1>3, <1>4, <1>5, <1>6, <1>7 DEF Promise!Launch
<1> QED BY <1>8 DEF PromiseStep, Promise!Next

\* A child has moved: the abstract run sees the first time that it completes.
LEMMA PromiseTaskMoves ==
  ASSUME Inv, ~raced, NEW c, NEW status \in ChildStatus, Moves(c, status),
         UNCHANGED << graph, row, approval, raced >>
  PROVE  PromiseStep
<1>1. /\ c \in DOMAIN child /\ DOMAIN child' = DOMAIN child
      /\ child \in Seq(Child) /\ child' \in Seq(Child)
      /\ \A d \in DOMAIN child \ {c} : child'[d] = child[d]
      /\ \A d \in DOMAIN child :
           child'[d].node = child[d].node /\ (child[d].done => child'[d].done)
  BY MovesKept DEF KeptChildren, Inv, Rows
<1>2. PICK n : n = child[c].node
  OBVIOUS
<1>3. \A d \in DOMAIN child : child[d].status \in ChildStatus /\ child'[d].status \in ChildStatus
  <2>1. \A d \in DOMAIN child : child[d] \in Child /\ child'[d] \in Child
    BY <1>1
  <2>2. \A q \in Child : q.status \in ChildStatus
    BY DEF Child
  <2> QED BY <2>1, <2>2
<1>4. n \in Nodes /\ n \in NodesWith(child, ChildStatus)
  <2>1. child[c] \in Child
    BY <1>1
  <2>2. n \in Nodes
    BY <1>2, <2>1 DEF Child
  <2>3. n \in NodesWith(child, ChildStatus)
    BY <1>1, <1>2, <1>3 DEF NodesWith
  <2> QED BY <2>2, <2>3
<1>5. NodesWith(child', ChildStatus) = NodesWith(child, ChildStatus)
  BY <1>1, <1>3, NodesWithSame
<1>6. DoneNodes(child') \in { DoneNodes(child), DoneNodes(child) \cup {n} }
  <2>1. \A m \in DoneNodes(child) : m \in DoneNodes(child')
    BY <1>1 DEF DoneNodes
  <2>2. \A m \in DoneNodes(child') : m \in DoneNodes(child) \/ m = n
    BY <1>1, <1>2 DEF DoneNodes
  <2> QED BY <2>1, <2>2
<1>7. UNCHANGED Promise!plan /\ UNCHANGED Promise!answers
  BY DEF Promise!plan, Promise!answers, OfKind
<1>8. CASE DoneNodes(child') = DoneNodes(child)
  <2>1. UNCHANGED Promise!tasks
    BY <1>5, <1>8 DEF Promise!tasks
  <2> QED BY <1>7, <2>1 DEF PromiseStep, Promise!vars
<1>9. CASE n \notin DoneNodes(child) /\ DoneNodes(child') = DoneNodes(child) \cup {n}
  <2>1. Promise!TaskCompletes(n)
    BY <1>4, <1>5, <1>7, <1>9 DEF Promise!TaskCompletes
  <2> QED BY <1>4, <2>1 DEF PromiseStep, Promise!Next
<1> QED BY <1>6, <1>8, <1>9

LEMMA PromiseDecides ==
  ASSUME Inv, ~raced, NEW a \in DOMAIN approval, approval[a].status = "pending",
         NEW status \in { "approved", "rejected" }, Changed(approval, approval', a, status),
         \A b \in DOMAIN approval : approval'[b].consumed = approval[b].consumed,
         UNCHANGED << graph, row, child, raced >>
  PROVE  PromiseStep
<1>1. approval \in Seq(Approval) /\ approval[a] \in Approval
  BY DEF Inv, Rows
<1>2. PICK n : n = approval[a].node
  OBVIOUS
<1>3. n \in Nodes
  BY <1>1, <1>2 DEF Approval
<1>4. SpentNodes(approval') = SpentNodes(approval)
  BY DEF SpentNodes, Changed
<1>5. ASSUME NEW st
      PROVE  /\ status \in st => NodesWith(approval', st) = NodesWith(approval, st) \cup {n}
             /\ status \notin st /\ "pending" \notin st =>
                  NodesWith(approval', st) = NodesWith(approval, st)
  BY <1>2, ChangedNodes
<1>6. \/ /\ NodesWith(approval', { "approved" }) = NodesWith(approval, { "approved" }) \cup {n}
         /\ HasRejected(approval') = HasRejected(approval)
      \/ /\ NodesWith(approval', { "approved" }) = NodesWith(approval, { "approved" })
         /\ HasRejected(approval') = TRUE
  <2>1. CASE status = "approved"
    <3>1. HasRejected(approval') = HasRejected(approval)
      BY <2>1 DEF HasRejected, Changed
    <3> QED BY <1>5, <2>1, <3>1
  <2>2. CASE status = "rejected"
    <3>1. HasRejected(approval')
      BY <2>2 DEF HasRejected, Changed
    <3>2. HasRejected(approval') = TRUE
      BY <3>1 DEF HasRejected
    <3> QED BY <1>5, <2>2, <3>2
  <2> QED BY <2>1, <2>2
<1>7. UNCHANGED Promise!plan /\ UNCHANGED Promise!tasks
  BY DEF Promise!plan, Promise!tasks, OfKind
<1>8. Promise!Decide(n)
  BY <1>4, <1>6, <1>7 DEF Promise!Decide
<1> QED BY <1>3, <1>8 DEF PromiseStep, Promise!Next

------------------------------------------------------------------------------
\* The kinds of steps.

\* A step of one session that has the invariant after it.
LEMMA ProgressStep ==
  ASSUME Inv, Progress, NEW s \in Sessions, NEW x, sess' = [sess EXCEPT ![s] = x],
         raced => raced',
         \A a \in DOMAIN approval : approval[a].status = "approved" =>
           a \in DOMAIN approval' /\ approval'[a].status = "approved",
         \A a \in DOMAIN approval' : approval'[a].consumed => approval'[a].status = "approved",
         SpendsApproved(x.spent, approval'),
         ~raced' =>
           /\ x.pc \in ActivePC => row'.vars.completed \subseteq x.vars.completed
           /\ row' = row \/ \A t \in Sessions \ {s} : ~Active(t)
  PROVE  Progress'
<1>1. sess'[s] = x /\ \A t \in Sessions \ {s} : sess'[t] = sess[t]
  BY DEF Inv, Rows
<1>2. ASSUME NEW t \in Sessions PROVE SpendsApproved(sess'[t].spent, approval')
  <2>1. CASE t = s
    BY <1>1, <2>1
  <2>2. CASE t # s
    BY <1>1, <2>2 DEF Progress, SpendsApproved
  <2> QED BY <2>1, <2>2
<1>3. ASSUME ~raced', NEW t \in Sessions, Active(t)' PROVE Ahead(sess[t])'
  <2>1. CASE t = s
    BY <1>1, <1>3, <2>1 DEF Active, Ahead
  <2>2. CASE t # s
    BY <1>1, <1>3, <2>2 DEF Progress, Active, Ahead
  <2> QED BY <2>1, <2>2
<1> QED BY <1>2, <1>3 DEF Progress

\* As a commit leaves the approvals, all is well with them.
LEMMA ProgressCommit ==
  ASSUME Inv, Progress, NEW s \in Sessions, NEW x, sess' = [sess EXCEPT ![s] = x],
         raced => raced', Commits(approval, approval'),
         SpendsApproved(x.spent, approval),
         ~raced' =>
           /\ x.pc \in ActivePC => row'.vars.completed \subseteq x.vars.completed
           /\ row' = row \/ \A t \in Sessions \ {s} : ~Active(t)
  PROVE  Progress'
<1>1. \A a \in DOMAIN approval : approval[a].status = "approved" =>
        a \in DOMAIN approval' /\ approval'[a].status = "approved"
  BY DEF Commits
<1>2. \A a \in DOMAIN approval' : approval'[a].consumed => approval'[a].status = "approved"
  BY DEF Commits
<1>3. SpendsApproved(x.spent, approval')
  BY DEF Commits, SpendsApproved
<1> QED BY <1>1, <1>2, <1>3, ProgressStep

\* A session changes nothing of the run.
LEMMA PromiseAside ==
  ASSUME Inv, Inv', Progress, NEW s \in Sessions, NEW x, sess' = [sess EXCEPT ![s] = x],
         UNCHANGED << graph, row, child, approval >>, raced => raced',
         SpendsApproved(x.spent, approval), ~raced' /\ x.pc \in ActivePC => Ahead(x)
  PROVE  Progress' /\ PromiseStep
<1>1. Progress'
  <2>1. Commits(approval, approval')
    BY SameCommits
  <2> QED BY <2>1, ProgressCommit DEF Ahead
<1>2. CASE raced'
  BY <1>1, <1>2, PromiseRaces
<1>3. CASE ~raced'
  <2>1. UNCHANGED raced
    BY <1>3, Zenon DEF Inv, Aux
  <2> QED BY <1>1, <2>1, PromiseStutters
<1> QED BY <1>2, <1>3

\* The session that advances the run goes on.
LEMMA PromiseOnward ==
  ASSUME Inv, Inv', Progress, NEW s \in Sessions, Active(s), NEW x,
         sess' = [sess EXCEPT ![s] = x], UNCHANGED << graph, row, child, approval, raced >>,
         x.spent = sess[s].spent, sess[s].vars.completed \subseteq x.vars.completed
  PROVE  Progress' /\ PromiseStep
<1>1. SpendsApproved(x.spent, approval) /\ (~raced => Ahead(x))
  BY DEF Progress, Ahead
<1> QED BY <1>1, PromiseAside

\* A session's last commit.
LEMMA PromiseFinish ==
  ASSUME Inv, Inv', Progress, NEW s \in Sessions, NEW status \in RunStatus \ {"absent"},
         NEW cursor, NEW v, NEW new \in Seq(Nodes), Finish(s, status, cursor, v, new),
         UNCHANGED << graph, child >>, raced => raced',
         ~raced' =>
           /\ sess[s].base = row /\ row.status \notin RunTerminal
           /\ row.vars.completed \subseteq v.completed
           /\ \A t \in Sessions \ {s} : ~Active(t)
  PROVE  Progress' /\ PromiseStep
<1>1. /\ approval' = SavedApprovals(s, new) /\ row' = Saved(s, status, cursor, v)
      /\ sess' = [sess EXCEPT ![s] = IdleSession]
  BY DEF Finish
<1>2. Commits(approval, approval')
  BY <1>1, SavedCommits
<1>3. IdleSession.spent = None /\ IdleSession.pc \notin ActivePC
  BY DEF IdleSession, ActivePC
<1>4. Progress'
  BY <1>1, <1>2, <1>3, ProgressCommit DEF SpendsApproved
<1>5. ASSUME ~raced' PROVE PromiseStep
  <2>1. row'.status = status /\ row'.vars = v
    BY <1>1, <1>5 DEF Saved
  <2> QED BY <1>2, <1>5, <2>1, PromiseAdvances
<1> QED BY <1>4, <1>5, PromiseRaces

\* The session that advances the run ends.
LEMMA PromiseStop ==
  ASSUME Inv, Inv', Progress, NEW s \in Sessions, Active(s),
         NEW status \in RunStatus \ {"absent"}, NEW cursor, NEW v, NEW new \in Seq(Nodes),
         Finish(s, status, cursor, v, new), UNCHANGED << graph, child, raced >>,
         sess[s].vars.completed \subseteq v.completed
  PROVE  Progress' /\ PromiseStep
<1>1. ~raced' =>
        /\ sess[s].base = row /\ row.status \notin RunTerminal
        /\ row.vars.completed \subseteq v.completed
        /\ \A t \in Sessions \ {s} : ~Active(t)
  BY DEF Inv, Solo, Alone, Progress, Ahead
<1> QED BY <1>1, PromiseFinish

LEMMA PromiseHop ==
  ASSUME Inv, Inv', Progress, NEW s \in Sessions, sess[s].pc = "working", NEW v \in Vars,
         v.completed = sess[s].vars.completed, NEW cond, Hop(s, v, cond),
         UNCHANGED << graph, child, raced >>
  PROVE  Progress' /\ PromiseStep
<1>1. Active(s) /\ sess[s] \in Session
  BY OfSession DEF Active, ActivePC
<1>2. PICK done : done = [v EXCEPT !.completed = @ \cup { sess[s].cursor }]
  OBVIOUS
<1>3. sess[s].vars.completed \subseteq done.completed
  BY <1>2 DEF Vars
<1>4. CASE Finish(s, "completed", End, done, << >>)
  <2>1. "completed" \in RunStatus \ {"absent"}
    BY Statuses
  <2> QED BY <1>1, <1>3, <1>4, <2>1, NoneMade, PromiseStop
<1>5. ASSUME NEW next,
             GoOn(s, [sess[s] EXCEPT !.cursor = next, !.vars = done, !.branch = 1,
                                     !.steps = @ + 1, !.granted = None, !.human = FALSE])
      PROVE  Progress' /\ PromiseStep
  <2>1. PICK x : x = [sess[s] EXCEPT !.cursor = next, !.vars = done, !.branch = 1,
                                     !.steps = @ + 1, !.granted = None, !.human = FALSE]
    OBVIOUS
  <2>2. sess' = [sess EXCEPT ![s] = x] /\ row' = row /\ approval' = approval
    BY <1>5, <2>1 DEF GoOn
  <2>3. x.spent = sess[s].spent /\ x.vars = done
    BY <1>1, <2>1 DEF Session
  <2> QED BY <1>1, <1>3, <2>2, <2>3, PromiseOnward
<1> QED BY <1>2, <1>4, <1>5 DEF Hop

\* A commit on the way leaves what the run got past as it is.
LEMMA CommitsOnTheWay ==
  ASSUME Inv, Progress, NEW s \in Sessions, CommitOnTheWay(s)
  PROVE  /\ Commits(approval, approval')
         /\ row'.status = "running" /\ row'.vars = row.vars
<1>1. approval' = SavedApprovals(s, << >>)
  BY DEF CommitOnTheWay
<1>2. Commits(approval, approval')
  BY <1>1, NoneMade, SavedCommits
<1> QED BY <1>2 DEF CommitOnTheWay, Saved

LEMMA PromiseCommit ==
  ASSUME Inv, Inv', Progress, NEW s \in Sessions, Active(s), CommitOnTheWay(s), NEW x,
         sess' = [sess EXCEPT ![s] = x], UNCHANGED << graph, child, raced >>,
         x.spent = None,
         x.pc \in ActivePC => sess[s].vars.completed \subseteq x.vars.completed
  PROVE  Progress' /\ PromiseStep
<1>1. /\ Commits(approval, approval')
      /\ row'.status = "running" /\ row'.vars = row.vars
  BY CommitsOnTheWay
<1>2. ~raced => /\ row.status \notin RunTerminal
                /\ row.vars.completed \subseteq sess[s].vars.completed
                /\ \A t \in Sessions \ {s} : ~Active(t)
  BY DEF Inv, Solo, Alone, Progress, Ahead
<1>3. Progress'
  BY <1>1, <1>2, ProgressCommit DEF SpendsApproved
<1>4. ASSUME ~raced' PROVE PromiseStep
  <2>1. "running" \in RunStatus \ {"absent"}
    BY DEF RunStatus
  <2> QED BY <1>1, <1>2, <1>4, <2>1, PromiseAdvances
<1> QED BY <1>3, <1>4, PromiseRaces

\* A task run is started.
LEMMA PromiseStart ==
  ASSUME Inv, Inv', Progress, BranchesApart(graph), NEW s \in Sessions, Active(s),
         NEW n \in Nodes, graph.kind[n] = "agent", StartChild(s, n)
  PROVE  Progress' /\ PromiseStep
<1>1. PICK x : x = [sess[s] EXCEPT !.base = row', !.pc = "started", !.granted = None,
                                   !.spent = None, !.mine = { Len(child) + 1 },
                                   !.made = << >>]
  OBVIOUS
<1>2. /\ CommitOnTheWay(s) /\ sess' = [sess EXCEPT ![s] = x]
      /\ child' = Append(child, [ node |-> n, status |-> "active", done |-> FALSE ])
      /\ UNCHANGED << graph, raced >>
  BY <1>1 DEF StartChild
<1>3. x.spent = None /\ x.vars = sess[s].vars
  BY <1>1, OfSession DEF Session
<1>4. /\ Commits(approval, approval')
      /\ row'.status = "running" /\ row'.vars = row.vars
  BY <1>2, CommitsOnTheWay
<1>5. ~raced => /\ row.status \notin RunTerminal
                /\ row.vars.completed \subseteq sess[s].vars.completed
                /\ \A t \in Sessions \ {s} : ~Active(t)
  BY DEF Inv, Solo, Alone, Progress, Ahead
<1>6. Progress'
  BY <1>2, <1>3, <1>4, <1>5, ProgressCommit DEF SpendsApproved
<1>7. ASSUME ~raced' PROVE PromiseStep
  <2>1. Added(child, child', n, "active") /\ DoneNodes(child') = DoneNodes(child)
    <3>1. PICK c : c = Len(child) + 1
      OBVIOUS
    <3>2. child \in Seq(Child)
      BY DEF Inv, Rows
    <3>3. /\ c \in DOMAIN child' \ DOMAIN child /\ DOMAIN child' = DOMAIN child \cup {c}
          /\ child'[c].node = n /\ child'[c].status = "active" /\ child'[c].done = FALSE
          /\ \A d \in DOMAIN child : child'[d] = child[d]
      BY <1>2, <3>1, <3>2
    <3> QED BY <3>3 DEF Added, DoneNodes
  <2>2. OneEach(child')
    BY <1>2, <1>7 DEF Inv, Solo
  <2>3. ~raced /\ graph' = graph
    BY <1>2, <1>7
  <2> QED BY <1>2, <1>4, <1>5, <2>1, <2>2, <2>3, PromiseLaunches
<1> QED BY <1>6, <1>7, PromiseRaces

------------------------------------------------------------------------------
\* The nodes.

\* What a step needs to be one of the abstract run, and that it is one.
Before == Inv /\ Inv' /\ Progress /\ BranchesApart(graph)
Promised == Progress' /\ PromiseStep

\* The run waits, fails, or gets past its node.
LEMMA StopsHere ==
  ASSUME Before, NEW s \in Sessions, Active(s), NEW v,
         v.completed = sess[s].vars.completed, NEW new \in Seq(Nodes), NEW status,
         Pause(s, status, v, new), status \in { "paused", "waiting_approval", "waiting_input" },
         UNCHANGED << graph, child, raced >>
  PROVE  Promised
<1>1. status \in RunStatus \ {"absent"}
  BY Statuses
<1>2. Finish(s, status, sess[s].cursor, v, new)
  BY DEF Pause
<1> QED BY <1>1, <1>2, PromiseStop DEF Before, Promised

LEMMA FailsHere ==
  ASSUME Before, NEW s \in Sessions, Active(s), NEW v,
         v.completed = sess[s].vars.completed, FailRun(s, v), UNCHANGED << graph, child, raced >>
  PROVE  Promised
<1>1. "failed" \in RunStatus \ {"absent"}
  BY Statuses
<1>2. Finish(s, "failed", sess[s].cursor, v, << >>)
  BY DEF FailRun
<1> QED BY <1>1, <1>2, NoneMade, PromiseStop DEF Before, Promised

LEMMA HopsHere ==
  ASSUME Before, NEW s \in Sessions, sess[s].pc = "working", NEW v \in Vars,
         v.completed = sess[s].vars.completed, NEW cond, Hop(s, v, cond),
         UNCHANGED << graph, child, raced >>
  PROVE  Promised
  BY PromiseHop DEF Before, Promised

LEMMA SimpleNodesPromised ==
  ASSUME Before, NEW s \in Sessions,
         StepTrigger(s) \/ StepCondition(s) \/ StepRouter(s) \/ StepHumanInput(s)
  PROVE  Promised
<1>1. Active(s) /\ sess[s].pc = "working" /\ UNCHANGED << graph, child, raced >>
  BY NodeOfSession, HereStays
  DEF Before, StepTrigger, StepCondition, StepRouter, StepHumanInput
<1>2. sess[s].vars \in Vars
  BY OfSession DEF Before
<1>3. CASE \E cond \in Condition : Hop(s, sess[s].vars, cond)
  BY <1>1, <1>2, <1>3, HopsHere
<1>4. CASE FailRun(s, sess[s].vars)
  BY <1>1, <1>4, FailsHere
<1>5. CASE Pause(s, "waiting_input", sess[s].vars, << >>)
  BY <1>1, <1>5, NoneMade, StopsHere
<1>6. ASSUME NEW cond \in { "true", "false" },
             Hop(s, [sess[s].vars EXCEPT !.condition = cond], cond)
      PROVE  Promised
  <2>1. PICK v : v = [sess[s].vars EXCEPT !.condition = cond]
    OBVIOUS
  <2>2. v \in Vars /\ v.completed = sess[s].vars.completed
    BY <1>2, <2>1 DEF Vars, Condition
  <2> QED BY <1>1, <1>6, <2>1, <2>2, HopsHere
<1>7. sess[s].vars.condition \in Condition
  BY <1>2, ConditionOfVars
<1> QED BY <1>3, <1>4, <1>5, <1>6, <1>7
        DEF StepTrigger, StepCondition, StepRouter, StepHumanInput

LEMMA GatedNodesPromised ==
  ASSUME Before, NEW s \in Sessions, StepApproval(s) \/ StepTool(s) PROVE Promised
<1>1. /\ Active(s) /\ sess[s].pc = "working" /\ UNCHANGED << graph, child, raced >>
      /\ sess[s].cursor \in Nodes
  BY NodeOfSession, HereStays DEF Before, StepApproval, StepTool
<1>2. sess[s].vars \in Vars
  BY OfSession DEF Before
<1>3. PICK v : v = [sess[s].vars EXCEPT !.approval = None]
  OBVIOUS
<1>4. v \in Vars /\ v.completed = sess[s].vars.completed
  BY <1>2, <1>3, ConstantsAssumption DEF Vars, None
<1>5. CASE Hop(s, v, sess[s].vars.condition)
  BY <1>1, <1>4, <1>5, HopsHere
<1>6. CASE FailRun(s, v) \/ FailRun(s, sess[s].vars)
  BY <1>1, <1>4, <1>6, FailsHere
<1>7. CASE Pause(s, "waiting_approval", sess[s].vars, << >>)
  BY <1>1, <1>7, NoneMade, StopsHere
<1>8. CASE Pause(s, "waiting_approval",
                 [sess[s].vars EXCEPT !.approval = Len(approval) + Len(sess[s].made) + 1],
                 << sess[s].cursor >>)
  <2>1. PICK w : w = [sess[s].vars EXCEPT
                        !.approval = Len(approval) + Len(sess[s].made) + 1]
    OBVIOUS
  <2>2. w.completed = sess[s].vars.completed
    BY <1>2, <2>1 DEF Vars
  <2>3. << sess[s].cursor >> \in Seq(Nodes)
    BY <1>1
  <2>4. Pause(s, "waiting_approval", w, << sess[s].cursor >>)
    BY <1>8, <2>1
  <2> QED BY <1>1, <2>2, <2>3, <2>4, StopsHere
<1> QED BY <1>3, <1>5, <1>6, <1>7, <1>8 DEF StepApproval, StepTool, AskApproval

LEMMA ToolCommitsPromised ==
  ASSUME Before, NEW s \in Sessions, ToolCommits(s) PROVE Promised
<1>1. CommitOnTheWay(s) /\ Active(s) /\ UNCHANGED << graph, child, raced >>
  BY HereStays DEF ToolCommits, At, Active, ActivePC
<1>2. PICK v : v = IF graph.kind[sess[s].cursor] = "tool"
                   THEN [sess[s].vars EXCEPT !.approval = None] ELSE sess[s].vars
  OBVIOUS
<1>3. PICK x : x = [sess[s] EXCEPT !.base = row', !.granted = None, !.spent = None,
                                   !.mine = {}, !.made = << >>, !.pc = "performed",
                                   !.vars = v]
  OBVIOUS
<1>4. sess' = [sess EXCEPT ![s] = x]
  BY <1>2, <1>3 DEF ToolCommits
<1>5. x.spent = None /\ x.vars.completed = sess[s].vars.completed
  BY <1>2, <1>3, OfSession DEF Before, Session, Vars
<1> QED BY <1>1, <1>4, <1>5, PromiseCommit DEF Before, Promised

LEMMA AfterToolPromised ==
  ASSUME Before, NEW s \in Sessions, AfterTool(s) PROVE Promised
<1>1. Active(s) /\ UNCHANGED << graph, child, raced >> /\ sess[s] \in Session
  BY OfSession, HereStays DEF Before, AfterTool, Active, ActivePC
<1>2. PICK next : next = graph.next[sess[s].cursor][sess[s].vars.condition]
  OBVIOUS
<1>3. PICK done : done = [sess[s].vars EXCEPT !.completed = @ \cup { sess[s].cursor }]
  OBVIOUS
<1>4. sess[s].vars.completed \subseteq done.completed
  BY <1>3, OfSession DEF Before, Vars
<1>5. CASE Finish(s, "completed", End, done, << >>)
  <2>1. "completed" \in RunStatus \ {"absent"}
    BY Statuses
  <2> QED BY <1>1, <1>4, <1>5, <2>1, NoneMade, PromiseStop DEF Before, Promised
<1>6. CASE GoOn(s, [sess[s] EXCEPT !.pc = "working", !.cursor = next, !.vars = done,
                                   !.branch = 1, !.steps = @ + 1])
  <2>1. PICK x : x = [sess[s] EXCEPT !.pc = "working", !.cursor = next, !.vars = done,
                                     !.branch = 1, !.steps = @ + 1]
    OBVIOUS
  <2>2. sess' = [sess EXCEPT ![s] = x] /\ row' = row /\ approval' = approval
    BY <1>6, <2>1 DEF GoOn
  <2>3. x.spent = sess[s].spent /\ x.vars = done
    BY <1>1, <2>1 DEF Session
  <2> QED BY <1>1, <1>4, <2>2, <2>3, PromiseOnward DEF Before, Promised
<1> QED BY <1>2, <1>3, <1>5, <1>6 DEF AfterTool

LEMMA StepDelayPromised ==
  ASSUME Before, NEW s \in Sessions, StepDelay(s) PROVE Promised
<1>1. Active(s) /\ sess[s].pc = "working" /\ UNCHANGED << graph, child, raced >>
  BY NodeOfSession DEF Before, StepDelay
<1>2. sess[s].vars \in Vars /\ sess[s].cursor \in Nodes \cup {End}
  BY OfSession DEF Before
<1>3. PICK v : v = [sess[s].vars EXCEPT !.delay = End]
  OBVIOUS
<1>4. PICK w : w = [sess[s].vars EXCEPT !.delay = sess[s].cursor]
  OBVIOUS
<1>5. /\ v \in Vars /\ v.completed = sess[s].vars.completed
      /\ w.completed = sess[s].vars.completed
  BY <1>2, <1>3, <1>4 DEF Vars
<1>6. CASE Hop(s, v, sess[s].vars.condition)
  BY <1>1, <1>5, <1>6, HopsHere
<1>7. CASE Pause(s, "paused", sess[s].vars, << >>)
  BY <1>1, <1>7, NoneMade, StopsHere
<1>8. CASE Pause(s, "paused", w, << >>)
  BY <1>1, <1>5, <1>8, NoneMade, StopsHere
<1> QED BY <1>3, <1>4, <1>6, <1>7, <1>8 DEF StepDelay

LEMMA StepAgentPromised ==
  ASSUME Before, NEW s \in Sessions, StepAgent(s) PROVE Promised
<1>1. /\ Active(s) /\ sess[s].pc = "working" /\ sess[s].cursor \in Nodes
      /\ graph.kind[sess[s].cursor] = "agent"
  BY NodeOfSession DEF Before, StepAgent
<1>2. sess[s].vars \in Vars
  BY OfSession DEF Before
<1>3. CASE StartChild(s, sess[s].cursor)
  BY <1>1, <1>3, PromiseStart DEF Before, Promised
<1>4. CASE Hop(s, sess[s].vars, sess[s].vars.condition) /\ Here(s)
  BY <1>1, <1>2, <1>4, HereStays, HopsHere
<1>5. CASE FailRun(s, sess[s].vars) /\ Here(s)
  BY <1>1, <1>5, HereStays, FailsHere
<1>6. CASE Pause(s, "paused", sess[s].vars, << >>) /\ Here(s)
  BY <1>1, <1>6, HereStays, NoneMade, StopsHere
<1> QED BY <1>3, <1>4, <1>5, <1>6 DEF StepAgent

LEMMA NoteChildPromised ==
  ASSUME Before, NEW s \in Sessions, NoteChild(s) PROVE Promised
<1>1. Active(s) /\ UNCHANGED << graph, child, raced >>
  BY HereStays DEF NoteChild, Active, ActivePC
<1>2. PICK c \in sess[s].mine :
        Pause(s, "paused",
              [sess[s].vars EXCEPT !.agents =
                 [sess[s].vars.agents EXCEPT ![sess[s].cursor] = c]], << >>)
  BY DEF NoteChild
<1>3. PICK v : v = [sess[s].vars EXCEPT !.agents =
                      [sess[s].vars.agents EXCEPT ![sess[s].cursor] = c]]
  OBVIOUS
<1>4. v.completed = sess[s].vars.completed
  BY <1>3, OfSession DEF Before, Vars
<1>5. Pause(s, "paused", v, << >>)
  BY <1>2, <1>3
<1> QED BY <1>1, <1>4, <1>5, NoneMade, StopsHere

LEMMA EndsPromised ==
  ASSUME Before, NEW s \in Sessions, StepPastEnd(s) \/ RunOutOfSteps(s) PROVE Promised
<1>1. Active(s) /\ UNCHANGED << graph, child, raced >>
  BY HereStays DEF StepPastEnd, RunOutOfSteps, Active, ActivePC
<1>2. PICK status \in { "completed", "running" }, cursor \in { sess[s].cursor, End } :
        Finish(s, status, cursor, sess[s].vars, << >>)
  BY DEF StepPastEnd, RunOutOfSteps
<1>3. status \in RunStatus \ {"absent"}
  BY DEF RunStatus, RunTerminal
<1> QED BY <1>1, <1>2, <1>3, NoneMade, PromiseStop DEF Before, Promised

------------------------------------------------------------------------------
\* Parallel nodes.

LEMMA BranchPromised ==
  ASSUME Before, NEW s \in Sessions, InParallel(s), NEW status, NEW made,
         NextBranch(s, status, made), UNCHANGED << graph, child, raced >>
  PROVE  Promised
<1>1. PICK b : b = Branches(sess[s].cursor)[sess[s].branch]
  OBVIOUS
<1>2. PICK v : v = [sess[s].vars EXCEPT !.branches =
                      [sess[s].vars.branches EXCEPT ![b] = status]]
  OBVIOUS
<1>3. PICK x : x = [sess[s] EXCEPT !.vars = v, !.branch = @ + 1, !.made = @ \o made]
  OBVIOUS
<1>4. sess' = [sess EXCEPT ![s] = x] /\ UNCHANGED << row, approval >>
  BY <1>1, <1>2, <1>3 DEF NextBranch
<1>5. x.spent = sess[s].spent /\ x.vars.completed = sess[s].vars.completed
  BY <1>2, <1>3, OfSession DEF Before, Session, Vars
<1>6. Active(s)
  BY DEF InParallel, Active, ActivePC
<1> QED BY <1>4, <1>5, <1>6, PromiseOnward DEF Before, Promised

LEMMA BranchesPromised ==
  ASSUME Before, NEW s \in Sessions,
         \/ SkipBranch(s) \/ SimpleBranch(s) \/ ToolBranch(s) \/ RefuseBranch(s)
         \/ DelayBranch(s) \/ RefreshBranch(s)
  PROVE  Promised
<1>1. UNCHANGED << graph, child, raced >> /\ InParallel(s)
  BY DEF SkipBranch, SimpleBranch, ToolBranch, RefuseBranch, DelayBranch, RefreshBranch, Here,
         AtBranch
<1>2. \E status, made : NextBranch(s, status, made)
  BY DEF SkipBranch, SimpleBranch, ToolBranch, RefuseBranch, DelayBranch, RefreshBranch
<1> QED BY <1>1, <1>2, BranchPromised

LEMMA CommittingBranchPromised ==
  ASSUME Before, NEW s \in Sessions, CommittingBranch(s) PROVE Promised
<1>1. CommitOnTheWay(s) /\ Active(s) /\ UNCHANGED << graph, child, raced >>
  BY HereStays DEF CommittingBranch, AtBranch, InParallel, Active, ActivePC
<1>2. PICK b : b = Branches(sess[s].cursor)[sess[s].branch]
  OBVIOUS
<1>3. PICK v : v = [sess[s].vars EXCEPT !.branches =
                      [sess[s].vars.branches EXCEPT ![b] = "succeeded"]]
  OBVIOUS
<1>4. PICK x : x = [sess[s] EXCEPT !.base = row', !.granted = None, !.spent = None, !.mine = {},
                                   !.made = << >>, !.branch = @ + 1, !.vars = v]
  OBVIOUS
<1>5. sess' = [sess EXCEPT ![s] = x]
  BY <1>2, <1>3, <1>4 DEF CommittingBranch
<1>6. x.spent = None /\ x.vars.completed = sess[s].vars.completed
  BY <1>3, <1>4, OfSession DEF Before, Session, Vars
<1> QED BY <1>1, <1>5, <1>6, PromiseCommit DEF Before, Promised

LEMMA StartBranchPromised ==
  ASSUME Before, NEW s \in Sessions, StartBranch(s) PROVE Promised
<1>1. PICK b : b = Branches(sess[s].cursor)[sess[s].branch]
  OBVIOUS
<1>2. AtBranch(s, "agent", {"pending"}) /\ StartChild(s, b)
  BY <1>1 DEF StartBranch
<1>3. b \in Nodes /\ graph.kind[b] = "agent" /\ sess[s].pc = "working"
  BY <1>1, <1>2, BranchOfGraph DEF Before
<1>4. Active(s)
  BY <1>3 DEF Active, ActivePC
<1> QED BY <1>2, <1>3, <1>4, PromiseStart DEF Before, Promised

LEMMA NoteBranchPromised ==
  ASSUME Before, NEW s \in Sessions, NoteBranch(s) PROVE Promised
<1>1. Active(s) /\ UNCHANGED << graph, row, child, approval, raced >>
  BY HereStays DEF NoteBranch, Active, ActivePC
<1>2. PICK c \in sess[s].mine :
        sess' = [sess EXCEPT ![s] =
             [sess[s] EXCEPT !.pc = "working", !.branch = @ + 1,
                             !.vars = [sess[s].vars EXCEPT
                                         !.branches = [sess[s].vars.branches EXCEPT
                                                         ![child[c].node] = "paused"],
                                         !.agents = [sess[s].vars.agents EXCEPT
                                                       ![child[c].node] = c]]]]
  BY DEF NoteBranch
<1>3. PICK v : v = [sess[s].vars EXCEPT
                      !.branches = [sess[s].vars.branches EXCEPT ![child[c].node] = "paused"],
                      !.agents = [sess[s].vars.agents EXCEPT ![child[c].node] = c]]
  OBVIOUS
<1>4. PICK x : x = [sess[s] EXCEPT !.pc = "working", !.branch = @ + 1, !.vars = v]
  OBVIOUS
<1>5. sess' = [sess EXCEPT ![s] = x]
  BY <1>2, <1>3, <1>4
<1>6. x.spent = sess[s].spent /\ x.vars.completed = sess[s].vars.completed
  BY <1>3, <1>4, OfSession DEF Before, Session, Vars
<1> QED BY <1>1, <1>5, <1>6, PromiseOnward DEF Before, Promised

LEMMA ConcludePromised ==
  ASSUME Before, NEW s \in Sessions, Conclude(s) PROVE Promised
<1>1. Active(s) /\ sess[s].pc = "working" /\ UNCHANGED << graph, child, raced >>
  BY HereStays DEF Conclude, InParallel, Active, ActivePC
<1>2. sess[s].vars \in Vars
  BY OfSession DEF Before
<1>3. CASE Hop(s, sess[s].vars, sess[s].vars.condition)
  BY <1>1, <1>2, <1>3, HopsHere
<1>4. CASE FailRun(s, sess[s].vars)
  BY <1>1, <1>4, FailsHere
<1>5. CASE Pause(s, "paused", sess[s].vars, << >>)
  BY <1>1, <1>5, NoneMade, StopsHere
<1> QED BY <1>3, <1>4, <1>5 DEF Conclude

------------------------------------------------------------------------------
\* Reading and taking the row.

LEMMA AsidePromised ==
  ASSUME Before, NEW s \in Sessions, NEW x, sess' = [sess EXCEPT ![s] = x],
         UNCHANGED << graph, row, child, approval >>, raced => raced',
         SpendsApproved(x.spent, approval), ~raced' /\ x.pc \in ActivePC => Ahead(x)
  PROVE  Promised
  BY PromiseAside DEF Before, Promised

LEMMA IdlePromised ==
  ASSUME Before, NEW s \in Sessions, sess' = [sess EXCEPT ![s] = IdleSession],
         UNCHANGED << graph, row, child, approval, raced >>
  PROVE  Promised
<1>1. IdleSession.spent = None /\ IdleSession.pc \notin ActivePC
  BY DEF IdleSession, ActivePC
<1> QED BY <1>1, AsidePromised DEF SpendsApproved

LEMMA SamePromised ==
  ASSUME Before, UNCHANGED << graph, row, child, approval, sess, raced >> PROVE Promised
<1>1. Progress'
  BY DEF Before, Progress, Active, Ahead
<1> QED BY <1>1, PromiseStutters DEF Promised

\* What a resumption brings has been approved.
LEMMA LoadPromised ==
  ASSUME Before, NEW s \in Sessions, NEW pc \in ReadPC, NEW granted, NEW human, NEW woke,
         NEW saw, Loaded(s, pc, granted, human, woke, saw),
         UNCHANGED << graph, row, child, approval, raced >>,
         AsksApproval /\ granted # None =>
           granted \in DOMAIN approval /\ approval[granted].status = "approved"
  PROVE  Promised
<1> DEFINE taken == IF AsksApproval THEN granted ELSE None
<1>1. PICK x :
        x = [ IdleSession EXCEPT !.pc = pc, !.base = row, !.cursor = row.cursor,
                                 !.vars = row.vars, !.granted = taken, !.spent = taken,
                                 !.human = human /\ KindAtCursor = "human_input",
                                 !.woke = woke, !.saw = saw ]
  OBVIOUS
<1>2. sess' = [sess EXCEPT ![s] = x]
  BY <1>1 DEF Loaded
<1>3. x.pc \notin ActivePC /\ x.spent = taken
  BY <1>1 DEF IdleSession, ReadPC, ActivePC
<1>4. SpendsApproved(x.spent, approval)
  BY <1>3 DEF SpendsApproved
<1> QED BY <1>2, <1>3, <1>4, AsidePromised

LEMMA ReadsPromised ==
  ASSUME Before, NEW s \in Sessions,
         \/ UserResumes(s) \/ DecisionHook(s)
         \/ \E h \in hook : ChildHook(s, h)
         \/ \E n \in Nodes : TimerFires(s, n)
  PROVE  Promised
<1>1. UNCHANGED << graph, row, child, approval, raced >>
  BY DEF UserResumes, DecisionHook, ChildHook, TimerFires
<1>2. ASSUME NEW pc \in ReadPC, NEW granted \in { None } \cup DOMAIN approval, NEW human,
             NEW woke, NEW saw, granted = None \/ CanResume(granted, human),
             Loaded(s, pc, granted, human, woke, saw)
      PROVE  Promised
  <2>1. AsksApproval /\ granted # None =>
          granted \in DOMAIN approval /\ approval[granted].status = "approved"
    BY <1>2, ResumeFits DEF Before
  <2> QED BY <1>1, <1>2, <2>1, LoadPromised
<1>3. CASE sess' = sess
  BY <1>1, <1>3, SamePromised
<1>4. CASE sess' = [sess EXCEPT ![s] = IdleSession]
  BY <1>1, <1>4, IdlePromised
<1>5. "loaded" \in ReadPC /\ "rejecting" \in ReadPC
  BY DEF ReadPC
<1>6. PICK no : no = FALSE
  OBVIOUS
<1>7. CASE UserResumes(s)
  BY <1>2, <1>5, <1>7 DEF UserResumes
<1>8. CASE DecisionHook(s)
  <2>1. sess[s].granted \in DOMAIN approval
    BY <1>8 DEF DecisionHook, Before, Inv, SessionInv
  <2>2. CASE /\ CanResume(sess[s].granted, no)
             /\ Loaded(s, "loaded", sess[s].granted, no, None, "active")
    BY <1>2, <1>5, <2>1, <2>2
  <2>3. CASE Loaded(s, "rejecting", None, no, None, "active")
    BY <1>2, <1>5, <2>3
  <2> QED BY <1>4, <1>6, <1>8, <2>2, <2>3 DEF DecisionHook
<1>9. CASE \E h \in hook : ChildHook(s, h)
  <2>1. PICK h \in hook : sess' = sess \/ Loaded(s, "loaded", None, no, h.child, h.status)
    BY <1>6, <1>9 DEF ChildHook
  <2> QED BY <1>2, <1>3, <1>5, <2>1
<1>10. CASE \E n \in Nodes : TimerFires(s, n)
  <2>1. sess' = sess \/ Loaded(s, "loaded", None, no, None, "active")
    BY <1>6, <1>10 DEF TimerFires
  <2> QED BY <1>2, <1>3, <1>5, <2>1
<1> QED BY <1>7, <1>8, <1>9, <1>10

LEMMA StartRunPromised ==
  ASSUME Before, NEW s \in Sessions, StartRun(s) PROVE Promised
<1>1. row.status = "absent" /\ UNCHANGED << graph, row, child, approval, raced >>
  BY DEF StartRun
<1>2. PICK x : x = [IdleSession EXCEPT !.pc = "working", !.cursor = graph.entry]
  OBVIOUS
<1>3. sess' = [sess EXCEPT ![s] = x]
  BY <1>2 DEF StartRun
<1>4. x.spent = None
  BY <1>2 DEF IdleSession
<1>5. Ahead(x)
  <2>1. row.vars.completed = {}
    BY <1>1 DEF Before, Inv, RowInv, InitRow, InitVars
  <2> QED BY <2>1 DEF Ahead
<1> QED BY <1>1, <1>3, <1>4, <1>5, AsidePromised DEF SpendsApproved

LEMMA EnterPromised == ASSUME Before, NEW s \in Sessions, Enter(s) PROVE Promised
<1>1. /\ sess[s].pc \in ReadPC /\ lock = Nobody
      /\ raced' = (raced \/ row # sess[s].base)
      /\ UNCHANGED << graph, row, child, approval >>
  BY DEF Enter, ReadPC
<1>2. PICK x : x = [sess[s] EXCEPT !.pc = "working"]
  OBVIOUS
<1>3. sess' = [sess EXCEPT ![s] = x]
  BY <1>2 DEF Enter
<1>4. x.spent = sess[s].spent /\ x.vars = sess[s].vars
  BY <1>2, OfSession DEF Before, Session
<1>5. SpendsApproved(x.spent, approval)
  BY <1>4 DEF Before, Progress
<1>6. ~raced' => Ahead(x)
  BY <1>1, <1>4, TakesRow DEF Before, Ahead
<1> QED BY <1>1, <1>3, <1>5, <1>6, AsidePromised

LEMMA ApplyRejectionPromised ==
  ASSUME Before, NEW s \in Sessions, ApplyRejection(s) PROVE Promised
<1>1. /\ sess[s].pc \in ReadPC /\ lock = Nobody
      /\ raced' = (raced \/ row # sess[s].base)
      /\ UNCHANGED << graph, child >>
  BY DEF ApplyRejection, ReadPC
<1>2. ASSUME ~raced'
      PROVE  /\ sess[s].base = row /\ row.status \notin RunTerminal
             /\ sess[s].vars = row.vars
             /\ \A t \in Sessions : ~Active(t)
  BY <1>1, <1>2, TakesRow DEF Before
<1>3. PICK v : v = [sess[s].vars EXCEPT !.approval = None]
  OBVIOUS
<1>4. PICK w : w = [v EXCEPT !.completed = @ \cup { sess[s].cursor }]
  OBVIOUS
<1>5. /\ v.completed = sess[s].vars.completed
      /\ sess[s].vars.completed \subseteq w.completed
  BY <1>3, <1>4, OfSession DEF Before, Vars
<1>6. ASSUME NEW status \in { "waiting_input", "cancelled", "failed" },
             Finish(s, status, sess[s].cursor, v, << >>)
      PROVE  Promised
  <2>1. status \in RunStatus \ {"absent"}
    BY Statuses
  <2> QED BY <1>1, <1>2, <1>5, <1>6, <2>1, NoneMade, PromiseFinish DEF Before, Promised
<1>7. CASE GoOn(s, [sess[s] EXCEPT !.pc = "working", !.cursor = graph.route, !.vars = w])
  <2>1. PICK x : x = [sess[s] EXCEPT !.pc = "working", !.cursor = graph.route, !.vars = w]
    OBVIOUS
  <2>2. sess' = [sess EXCEPT ![s] = x] /\ UNCHANGED << row, approval >>
    BY <1>7, <2>1 DEF GoOn
  <2>3. x.spent = sess[s].spent /\ x.vars = w
    BY <2>1, OfSession DEF Before, Session
  <2>4. SpendsApproved(x.spent, approval)
    BY <2>3 DEF Before, Progress
  <2>5. ~raced' => Ahead(x)
    BY <1>2, <1>5, <2>3 DEF Ahead
  <2> QED BY <1>1, <2>2, <2>4, <2>5, AsidePromised
<1>8. PICK onReject \in { "fail", "cancel", "request_changes", "route_to" } :
        onReject = IF sess[s].cursor = End THEN "fail" ELSE graph.onReject
  BY GraphType DEF Before, Inv, Rows, Graph
<1>9. CASE onReject = "route_to"
  BY <1>3, <1>4, <1>7, <1>8, <1>9 DEF ApplyRejection
<1>10. CASE onReject # "route_to"
  <2>1. PICK status \in { "waiting_input", "cancelled", "failed" } :
          Finish(s, status, sess[s].cursor, v, << >>)
    BY <1>3, <1>8, <1>10 DEF ApplyRejection, Pause, FailRun
  <2> QED BY <1>6, <2>1
<1> QED BY <1>9, <1>10

------------------------------------------------------------------------------
\* Decisions, losses, and the rest of the world.

LEMMA DecidePromised ==
  ASSUME Before, NEW s \in Sessions, NEW a, NEW status \in { "approved", "rejected" },
         Decide(s, a, status)
  PROVE  Promised
<1>1. PICK x : x = [IdleSession EXCEPT !.pc = "decided", !.granted = a]
  OBVIOUS
<1>2. /\ a \in DOMAIN approval /\ approval[a].status = "pending"
      /\ sess' = [sess EXCEPT ![s] = x]
      /\ UNCHANGED << graph, row, child, raced >>
  BY <1>1 DEF Decide
<1>3. x.pc \notin ActivePC /\ x.spent = None
  BY <1>1 DEF IdleSession, ActivePC
<1>4. approval \in Seq(Approval) /\ approval[a] \in Approval
  BY <1>2 DEF Before, Inv, Rows
<1>5. PICK q : q = [approval[a] EXCEPT !.status = status]
  OBVIOUS
<1>6. q.node = approval[a].node /\ q.status = status /\ q.consumed = approval[a].consumed
  BY <1>4, <1>5 DEF Approval
<1>7. approval' = [approval EXCEPT ![a] = q]
  BY <1>5 DEF Decide
<1>8. /\ Changed(approval, approval', a, status)
      /\ \A b \in DOMAIN approval : approval'[b].consumed = approval[b].consumed
  BY <1>2, <1>4, <1>6, <1>7 DEF Changed
<1>9. ~approval[a].consumed
  BY <1>2 DEF Before, Progress
<1>10. \A b \in DOMAIN approval : approval[b].status = "approved" =>
         b \in DOMAIN approval' /\ approval'[b].status = "approved"
  BY <1>2, <1>8 DEF Changed
<1>11. \A b \in DOMAIN approval' :
         approval'[b].consumed => approval'[b].status = "approved"
  BY <1>8, <1>9 DEF Changed, Before, Progress
<1>12. Progress'
  BY <1>2, <1>3, <1>10, <1>11, ProgressStep DEF Before, SpendsApproved
<1>13. ASSUME ~raced' PROVE PromiseStep
  <2>1. ~raced
    BY <1>2, <1>13
  <2> QED BY <1>2, <1>8, <2>1, PromiseDecides DEF Before
<1> QED BY <1>12, <1>13, PromiseRaces DEF Promised

LEMMA SessionLostPromised ==
  ASSUME Before, NEW s \in Sessions, SessionLost(s) PROVE Promised
<1>1. sess' = [sess EXCEPT ![s] = IdleSession] /\ UNCHANGED << graph, child, raced >>
  BY DEF SessionLost
<1>2. CASE UNCHANGED << row, approval >>
  BY <1>1, <1>2, IdlePromised
<1>3. CASE sess[s].pc = "working" /\ CommitOnTheWay(s)
  <2>1. IdleSession.spent = None /\ IdleSession.pc \notin ActivePC
    BY DEF IdleSession, ActivePC
  <2>2. Active(s)
    BY <1>3 DEF Active, ActivePC
  <2> QED BY <1>1, <1>3, <2>1, <2>2, PromiseCommit DEF Before, Promised
<1> QED BY <1>2, <1>3 DEF SessionLost

LEMMA ChildMovesPromised ==
  ASSUME Before, NEW c \in ChildId,
         \/ \E status \in ChildEnd : ChildEnds(c, status)
         \/ ChildFailsUnsaid(c)
         \/ ChildResumed(c)
  PROVE  Promised
<1>1. UNCHANGED << graph, row, approval, sess, raced >>
  BY DEF ChildEnds, ChildFailsUnsaid, ChildResumed
<1>2. \E status \in ChildStatus : Moves(c, status)
  BY DEF ChildEnds, ChildFailsUnsaid, ChildResumed, ChildStatus, ChildEnd
<1>3. Progress'
  BY <1>1 DEF Before, Progress, Active, Ahead
<1>4. ASSUME ~raced' PROVE PromiseStep
  BY <1>1, <1>2, <1>4, PromiseTaskMoves DEF Before
<1> QED BY <1>3, <1>4, PromiseRaces DEF Promised

LEMMA TimePassesPromised == ASSUME Before, NEW n, TimePasses(n) PROVE Promised
  BY SamePromised DEF TimePasses

------------------------------------------------------------------------------
\* The theorem.

LEMMA InitPromised == ASSUME Init PROVE Promise!Init /\ Progress
<1>1. /\ row = InitRow /\ child = << >> /\ approval = << >> /\ raced = FALSE
      /\ \A s \in Sessions : sess[s] = IdleSession
  BY DEF Init
<1>2. /\ DOMAIN child = {} /\ DOMAIN approval = {}
  BY <1>1
<1>3. \A st : NodesWith(child, st) = {} /\ NodesWith(approval, st) = {}
  BY <1>2 DEF NodesWith
<1>4. SpentNodes(approval) = {} /\ DoneNodes(child) = {}
  BY <1>2 DEF SpentNodes, DoneNodes
<1>5. HasRejected(approval) = FALSE
  BY <1>2 DEF HasRejected
<1>6. Outcome(row.status) = "absent" /\ row.vars.completed = {}
  BY <1>1 DEF Outcome, InitRow, InitVars
<1>7. OfKind({ "agent" }) \subseteq Nodes
      /\ OfKind({ "approval", "tool" }) \subseteq Nodes \ OfKind({ "agent" })
  BY DEF OfKind
<1>8. (graph.onReject = "route_to") \in BOOLEAN
  OBVIOUS
<1>9. Promise!Init
  BY <1>1, <1>3, <1>4, <1>5, <1>6, <1>7, <1>8 DEF Promise!Init
<1>10. Progress
  BY <1>1, <1>2 DEF Progress, SpendsApproved, Active, ActivePC, IdleSession
<1> QED BY <1>9, <1>10

LEMMA NextPromised == ASSUME Before, [Next]_allVars PROVE Promised
<1>1. ASSUME NEW s \in Sessions, AdvanceStep(s) PROVE Promised
  BY <1>1, ReadsPromised, EnterPromised, ApplyRejectionPromised, EndsPromised,
     SimpleNodesPromised, GatedNodesPromised, ToolCommitsPromised, AfterToolPromised,
     StepDelayPromised, StepAgentPromised, NoteChildPromised, BranchesPromised,
     CommittingBranchPromised, StartBranchPromised, NoteBranchPromised, ConcludePromised
  DEF AdvanceStep
<1>2. ASSUME NEW s \in Sessions, UserStep(s) PROVE Promised
  BY <1>2, StartRunPromised, ReadsPromised, DecidePromised DEF UserStep
<1>3. ASSUME NEW s \in Sessions,
             \/ \E h \in hook : ChildHook(s, h)
             \/ \E n \in Nodes : TimerFires(s, n)
             \/ SessionLost(s)
      PROVE  Promised
  BY <1>3, ReadsPromised, SessionLostPromised
<1>4. ASSUME WorldStep PROVE Promised
  BY <1>4, ChildMovesPromised, TimePassesPromised DEF WorldStep
<1>5. ASSUME UNCHANGED allVars PROVE Promised
  BY <1>5, SamePromised DEF allVars
<1> QED BY <1>1, <1>2, <1>3, <1>4, <1>5 DEF Next

\* Where no branch of a parallel node can also be reached by an edge, the run, seen by what
\* its sessions commit, takes only steps that the promise allows: however often it is paused,
\* woken, resumed, rolled back or lost, no commit takes progress back, passes a node without
\* its cause, starts a node's task run again, spends what was not approved, or moves a run
\* that has ended (workflow_runtime.py, resume_run and _advance).
THEOREM RunKeepsPromise ==
  ASSUME \A g \in Graphs : BranchesApart(g)
  PROVE  Spec => KeepsPromise
<1>1. Init => Promise!Init /\ Inv /\ Progress
  BY InitPromised, InitInv
<1>2. Inv /\ Progress /\ [Next]_allVars => Inv' /\ Progress' /\ PromiseStep
  <2> SUFFICES ASSUME Inv, Progress, [Next]_allVars PROVE Inv' /\ Progress' /\ PromiseStep
    OBVIOUS
  <2>1. Inv'
    BY NextInv
  <2>2. Before
    BY <2>1 DEF Before, Inv, Rows
  <2> QED BY <2>1, <2>2, NextPromised DEF Promised
<1> QED BY <1>1, <1>2, PTL DEF Spec, KeepsPromise, Promise!Spec, PromiseStep

==============================================================================
