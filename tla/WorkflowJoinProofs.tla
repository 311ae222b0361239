--------------------------- MODULE WorkflowJoinProofs ---------------------------
(***************************************************************************)
(* A run of WorkflowRuntime gets past a parallel node only when its        *)
(* branches ended as the join policy asks, for any graphs, sessions,       *)
(* bounds and faults, racing sessions included.                            *)
(*                                                                         *)
(* The argument is once more about records: in every copy of the vars, a   *)
(* branch that counts as succeeded has its completed child, and what was   *)
(* good of the branches of a completed parallel node stays good, although  *)
(* later visits, other sessions and late commits go on writing vars.       *)
(***************************************************************************)
EXTENDS WorkflowRuntimeProofs

------------------------------------------------------------------------------
\* The invariant.

\* A branch that ended well.
Good(b, v, g, ch) ==
  IF g.kind[b] = "agent"
  THEN \E c \in DOMAIN ch : ch[c].node = b /\ ch[c].done
  ELSE v.branches[b] = "succeeded"

Goods(n, v, g, ch) == { i \in DOMAIN g.children[n] : Good(g.children[n][i], v, g, ch) }

Joined(n, v, g, ch) ==
  \/ g.policy \in { "all_success", "fail_fast" } /\ Goods(n, v, g, ch) = DOMAIN g.children[n]
  \/ g.policy = "n_of_m" /\ Cardinality(Goods(n, v, g, ch)) >= g.need
  \/ g.policy \in { "any_success", "best_effort" } /\ Goods(n, v, g, ch) # {}

Reroutes(g, ap) == g.onReject = "route_to" /\ \E a \in DOMAIN ap : ap[a].status = "rejected"

JoinInv(v, g, ch, ap) ==
  /\ v \in Vars
  /\ \A b \in Nodes : v.branches[b] = "succeeded" => Good(b, v, g, ch)
  /\ \A n \in v.completed : g.kind[n] = "parallel" => Reroutes(g, ap) \/ Joined(n, v, g, ch)

OfAgents(g, ch) == \A c \in DOMAIN ch : g.kind[ch[c].node] = "agent"

Joins ==
  /\ OfAgents(graph, child)
  /\ JoinInv(row.vars, graph, child, approval)
  /\ \A s \in Sessions :
       /\ JoinInv(sess[s].vars, graph, child, approval)
       /\ JoinInv(sess[s].base.vars, graph, child, approval)

------------------------------------------------------------------------------
\* What a join needs stays once it is there.

LEMMA JoinedStays ==
  ASSUME NEW g \in Graph, NEW n \in Nodes, NEW v, NEW w, NEW ch, NEW ch2,
         Joined(n, v, g, ch), \A b \in Nodes : Good(b, v, g, ch) => Good(b, w, g, ch2)
  PROVE  Joined(n, w, g, ch2)
<1>1. g.children[n] \in Seq(Nodes)
  BY DEF Graph
<1>2. DOMAIN g.children[n] = 1 .. Len(g.children[n]) /\ Len(g.children[n]) \in Nat
  BY <1>1
<1>3. \A i \in DOMAIN g.children[n] : g.children[n][i] \in Nodes
  BY <1>1
<1>4. Goods(n, v, g, ch) \subseteq Goods(n, w, g, ch2)
  BY <1>3 DEF Goods
<1>5. Goods(n, w, g, ch2) \subseteq DOMAIN g.children[n]
  BY DEF Goods
<1>6. IsFiniteSet(DOMAIN g.children[n])
  BY <1>2, FS_Interval
<1>7. IsFiniteSet(Goods(n, w, g, ch2)) /\ IsFiniteSet(Goods(n, v, g, ch))
  BY <1>4, <1>5, <1>6, FS_Subset
<1>8. Cardinality(Goods(n, v, g, ch)) <= Cardinality(Goods(n, w, g, ch2))
  BY <1>4, <1>7, FS_Subset
<1>9. /\ Cardinality(Goods(n, v, g, ch)) \in Nat /\ Cardinality(Goods(n, w, g, ch2)) \in Nat
      /\ g.need \in Nat
  BY <1>7, FS_CardinalityType DEF Graph
<1> QED BY <1>4, <1>5, <1>8, <1>9 DEF Joined

\* What the vars w say follows from what v say, if only agents' branches were taken back.
LEMMA JoinGrows ==
  ASSUME NEW g \in Graph, NEW v, NEW w \in Vars, NEW ch, NEW ap, NEW ch2, NEW ap2,
         JoinInv(v, g, ch, ap), KeptChildren(ch, ch2), KeptApprovals(ap, ap2),
         \A b \in Nodes :
           v.branches[b] = "succeeded" => w.branches[b] = "succeeded" \/ g.kind[b] = "agent",
         \A b \in Nodes :
           w.branches[b] = "succeeded" => v.branches[b] = "succeeded" \/ Good(b, w, g, ch2),
         \A n \in w.completed \ v.completed :
           g.kind[n] = "parallel" => Reroutes(g, ap2) \/ Joined(n, w, g, ch2)
  PROVE  JoinInv(w, g, ch2, ap2)
<1>1. \A b \in Nodes : Good(b, v, g, ch) => Good(b, w, g, ch2)
  BY DEF Good, KeptChildren
<1>2. \A b \in Nodes : w.branches[b] = "succeeded" => Good(b, w, g, ch2)
  BY <1>1 DEF JoinInv
<1>3. Reroutes(g, ap) => Reroutes(g, ap2)
  BY DEF Reroutes, KeptApprovals
<1>4. v.completed \subseteq Nodes
  BY DEF JoinInv, Vars
<1>5. \A n \in v.completed : g.kind[n] = "parallel" => Reroutes(g, ap2) \/ Joined(n, w, g, ch2)
  BY <1>1, <1>3, <1>4, JoinedStays DEF JoinInv
<1> QED BY <1>2, <1>5 DEF JoinInv

LEMMA JoinKept ==
  ASSUME NEW g \in Graph, NEW v, NEW ch, NEW ap, NEW ch2, NEW ap2,
         JoinInv(v, g, ch, ap), KeptChildren(ch, ch2), KeptApprovals(ap, ap2)
  PROVE  JoinInv(v, g, ch2, ap2)
  BY JoinGrows DEF JoinInv

\* Nothing but the branches and the completed nodes counts.
LEMMA JoinAlike ==
  ASSUME NEW g, NEW v, NEW w \in Vars, NEW ch, NEW ap, JoinInv(v, g, ch, ap),
         w.branches = v.branches, w.completed = v.completed
  PROVE  JoinInv(w, g, ch, ap)
  BY DEF JoinInv, Joined, Goods, Good

LEMMA JoinInit == ASSUME NEW g, NEW ch, NEW ap PROVE JoinInv(InitVars, g, ch, ap)
<1>1. InitVars \in Vars
  BY ConstantsAssumption DEF InitVars, Vars, BranchStatus, Condition, None
<1>2. \A b \in Nodes : InitVars.branches[b] = "pending"
  BY DEF InitVars
<1>3. InitVars.completed = {}
  BY DEF InitVars
<1> QED BY <1>1, <1>2, <1>3 DEF JoinInv

------------------------------------------------------------------------------
\* What the policies ask for.

LEMMA JoinSucceeds ==
  ASSUME graph \in Graph, NEW n \in Nodes, NEW v, JoinInv(v, graph, child, approval),
         JoinOf(n, v) = "succeeded"
  PROVE  Joined(n, v, graph, child)
<1> DEFINE st == BranchStatuses(n, v)
           D == DOMAIN graph.children[n]
           S == { i \in D : st[i] = "succeeded" }
           F == { i \in D : st[i] = "failed" }
<1>1. /\ graph.children[n] \in Seq(Nodes) /\ D = 1 .. Len(graph.children[n])
      /\ Len(graph.children[n]) \in Nat /\ \A i \in D : graph.children[n][i] \in Nodes
  BY DEF Graph
<1>2. DOMAIN st = D /\ \A i \in D : st[i] = v.branches[graph.children[n][i]]
  BY DEF BranchStatuses, Branches
<1>3. Len(st) = Len(graph.children[n])
  BY <1>1, <1>2 DEF BranchStatuses, Branches
<1>4. S \subseteq Goods(n, v, graph, child) /\ Goods(n, v, graph, child) \subseteq D
  BY <1>1, <1>2 DEF JoinInv, Goods
<1>5. IsFiniteSet(D) /\ Cardinality(D) = Len(graph.children[n])
  BY <1>1, FS_Interval
<1>6. IsFiniteSet(Goods(n, v, graph, child))
  BY <1>4, <1>5, FS_Subset
<1>7. /\ IsFiniteSet(S) /\ IsFiniteSet(F)
      /\ Cardinality(S) \in Nat /\ Cardinality(F) \in Nat
  BY <1>5, FS_Subset, FS_CardinalityType
<1>8. Cardinality(S) <= Cardinality(Goods(n, v, graph, child))
  BY <1>4, <1>6, FS_Subset
<1>9. Cardinality(S) = Cardinality(D) => S = D
  BY <1>5, FS_Subset
<1>10. Cardinality(S) <= Cardinality(D)
  BY <1>5, FS_Subset
<1>11. Count(st, "succeeded") = Cardinality(S) /\ Count(st, "failed") = Cardinality(F)
  BY <1>2 DEF Count
<1>12. Cardinality(S) > 0 => S # {}
  BY FS_EmptySet
<1>13. graph.policy \in JoinPolicy /\ graph.need \in Nat
  BY DEF Graph
<1>14. Cardinality(Goods(n, v, graph, child)) \in Nat
  BY <1>6, FS_CardinalityType
<1>15. PICK succeeded \in Nat : succeeded = Cardinality(S)
  BY <1>7
<1>16. PICK failed \in Nat : failed = Cardinality(F)
  BY <1>7
<1>17. PICK all \in Nat : all = Len(graph.children[n])
  BY <1>1
<1>18. JoinOf(n, v) = Join(graph.policy, graph.need, st)
  BY DEF JoinOf
<1> HIDE DEF st, D, S, F
<1>19. CASE graph.policy \in { "any_success", "best_effort" }
  <2>1. succeeded > 0
    BY <1>3, <1>11, <1>15, <1>16, <1>17, <1>18, <1>19 DEF Join
  <2> QED BY <1>4, <1>12, <1>15, <1>19, <2>1 DEF Joined
<1>20. CASE graph.policy = "n_of_m"
  <2>1. succeeded >= graph.need
    BY <1>3, <1>11, <1>15, <1>16, <1>17, <1>18, <1>20 DEF Join
  <2> QED BY <1>8, <1>13, <1>14, <1>15, <1>20, <2>1 DEF Joined
<1>21. CASE graph.policy \in { "all_success", "fail_fast" }
  <2>1. failed = 0 /\ ~(all - succeeded - failed > 0)
    BY <1>3, <1>11, <1>15, <1>16, <1>17, <1>18, <1>21 DEF Join
  <2>2. succeeded = all
    BY <1>5, <1>10, <1>15, <1>17, <2>1
  <2>3. Goods(n, v, graph, child) = D
    BY <1>4, <1>5, <1>9, <1>15, <1>17, <2>2
  <2> QED BY <1>21, <2>3 DEF Joined, D
<1> QED BY <1>13, <1>19, <1>20, <1>21 DEF JoinPolicy

------------------------------------------------------------------------------
\* The kinds of steps.

LEMMA JoinStep ==
  ASSUME Inv, Joins, graph' = graph,
         KeptChildren(child, child'), KeptApprovals(approval, approval'),
         OfAgents(graph, child'), JoinInv(row'.vars, graph, child', approval'),
         NEW s \in Sessions, NEW x, sess' = [sess EXCEPT ![s] = x],
         JoinInv(x.vars, graph, child', approval'),
         JoinInv(x.base.vars, graph, child', approval')
  PROVE  Joins'
<1>1. graph \in Graph
  BY GraphType
<1>2. sess'[s] = x /\ \A t \in Sessions \ {s} : sess'[t] = sess[t]
  BY DEF Inv, Rows
<1>3. ASSUME NEW t \in Sessions
      PROVE  /\ JoinInv(sess'[t].vars, graph, child', approval')
             /\ JoinInv(sess'[t].base.vars, graph, child', approval')
  <2>1. CASE t = s
    BY <1>2, <2>1
  <2>2. CASE t # s
    BY <1>1, <1>2, <2>2, JoinKept DEF Joins
  <2> QED BY <2>1, <2>2
<1> QED BY <1>3 DEF Joins

\* A step of a session that nobody else sees.
LEMMA JoinAside ==
  ASSUME Inv, Joins, UNCHANGED << graph, row, child >>, KeptApprovals(approval, approval'),
         NEW s \in Sessions, NEW x, sess' = [sess EXCEPT ![s] = x],
         JoinInv(x.vars, graph, child, approval),
         JoinInv(x.base.vars, graph, child, approval)
  PROVE  Joins'
<1>1. graph \in Graph /\ KeptChildren(child, child')
  BY GraphType, SameKept
<1>2. /\ JoinInv(row'.vars, graph, child', approval')
      /\ JoinInv(x.vars, graph, child', approval')
      /\ JoinInv(x.base.vars, graph, child', approval')
  BY <1>1, JoinKept DEF Joins
<1>3. OfAgents(graph, child')
  BY DEF Joins
<1> QED BY <1>1, <1>2, <1>3, JoinStep

LEMMA JoinIdle ==
  ASSUME NEW g, NEW ch, NEW ap
  PROVE  JoinInv(IdleSession.vars, g, ch, ap) /\ JoinInv(IdleSession.base.vars, g, ch, ap)
  BY JoinInit DEF IdleSession, InitRow

LEMMA JoinSaved ==
  ASSUME NEW s, NEW status, NEW cursor, NEW v, NEW g, NEW ch, NEW ap,
         JoinInv(row.vars, g, ch, ap), JoinInv(v, g, ch, ap)
  PROVE  JoinInv(Saved(s, status, cursor, v).vars, g, ch, ap)
  BY DEF Saved

LEMMA JoinFinish ==
  ASSUME Inv, Joins, NEW s \in Sessions, NEW status, NEW cursor, NEW v,
         NEW new \in Seq(Nodes), Finish(s, status, cursor, v, new),
         UNCHANGED << graph, child >>, JoinInv(v, graph, child, approval)
  PROVE  Joins'
<1>1. /\ approval' = SavedApprovals(s, new)
      /\ row' = Saved(s, status, cursor, v)
      /\ sess' = [sess EXCEPT ![s] = IdleSession]
      /\ Len(approval) + Len(sess[s].made) + Len(new) <= MaxApprovals
  BY DEF Finish
<1>2. KeptApprovals(approval, approval') /\ KeptChildren(child, child')
  BY <1>1, SavedApprovalsKeep, OfSession, SameKept DEF Inv
<1>4. JoinInv(row'.vars, graph, child', approval')
  BY <1>1, <1>2, GraphType, JoinKept, JoinSaved DEF Joins
<1>5. OfAgents(graph, child')
  BY DEF Joins
<1> QED BY <1>1, <1>2, <1>4, <1>5, JoinIdle, JoinStep

LEMMA JoinCommit ==
  ASSUME Inv, Joins, NEW s \in Sessions, CommitOnTheWay(s), graph' = graph,
         KeptChildren(child, child'), OfAgents(graph, child'),
         NEW x, sess' = [sess EXCEPT ![s] = x],
         JoinInv(x.vars, graph, child, approval),
         x.base \in { row', InitRow }
  PROVE  Joins'
<1>1. row' = Saved(s, "running", sess[s].cursor, sess[s].base.vars)
  BY DEF CommitOnTheWay
<1>2. KeptApprovals(approval, approval')
  BY CommitApprovals
<1>3. JoinInv(row'.vars, graph, child', approval')
  BY <1>1, <1>2, GraphType, JoinKept, JoinSaved DEF Joins
<1>4. JoinInv(x.vars, graph, child', approval')
  BY <1>2, GraphType, JoinKept
<1>5. JoinInv(x.base.vars, graph, child', approval')
  BY <1>3, JoinInit DEF InitRow
<1> QED BY <1>2, <1>3, <1>4, <1>5, JoinStep

LEMMA JoinDone ==
  ASSUME NEW g \in Graph, NEW n \in Nodes, NEW v, NEW ch, NEW ap, JoinInv(v, g, ch, ap),
         g.kind[n] = "parallel" => Reroutes(g, ap) \/ Joined(n, v, g, ch),
         NEW w, w = [v EXCEPT !.completed = @ \cup {n}]
  PROVE  JoinInv(w, g, ch, ap)
<1>1. v \in Vars
  BY DEF JoinInv
<1>2. w \in Vars
  BY <1>1, VarsFields
<1>3. w.branches = v.branches /\ w.completed = v.completed \cup {n}
  BY <1>1 DEF Vars
<1>4. \A b \in Nodes : Good(b, v, g, ch) => Good(b, w, g, ch)
  BY <1>3 DEF Good
<1>5. g.kind[n] = "parallel" => Reroutes(g, ap) \/ Joined(n, w, g, ch)
  BY <1>4, JoinedStays
<1> QED BY <1>2, <1>3, <1>5, JoinGrows, SameKept

LEMMA JoinHop ==
  ASSUME Inv, Joins, NEW s \in Sessions, sess[s].cursor # End, NEW v, NEW cond \in Condition,
         Hop(s, v, cond), UNCHANGED << graph, child >>, JoinInv(v, graph, child, approval),
         graph.kind[sess[s].cursor] = "parallel" => Joined(sess[s].cursor, v, graph, child)
  PROVE  Joins'
<1>1. PICK done : done = [v EXCEPT !.completed = @ \cup { sess[s].cursor }]
  OBVIOUS
<1>2. JoinInv(done, graph, child, approval)
  BY <1>1, GraphType, OfSession, JoinDone
<1>3. PICK next : next = graph.next[sess[s].cursor][cond]
  OBVIOUS
<1>4. CASE next = End
  <2>1. Finish(s, "completed", End, done, << >>)
    BY <1>1, <1>3, <1>4 DEF Hop
  <2> QED BY <1>2, <2>1, JoinFinish, NoneMade
<1>5. CASE next # End
  <2>1. PICK x : x = [sess[s] EXCEPT !.cursor = next, !.vars = done, !.branch = 1,
                                     !.steps = @ + 1, !.granted = None, !.human = FALSE]
    OBVIOUS
  <2>2. sess' = [sess EXCEPT ![s] = x] /\ UNCHANGED << row, approval >>
    BY <1>1, <1>3, <1>5, <2>1 DEF Hop, GoOn
  <2>3. x.vars = done /\ x.base = sess[s].base
    BY <2>1, OfSession DEF Session
  <2>4. JoinInv(x.base.vars, graph, child, approval)
    BY <2>3 DEF Joins
  <2> QED BY <1>2, <2>2, <2>3, <2>4, JoinAside, SameKept
<1> QED BY <1>4, <1>5

------------------------------------------------------------------------------
\* The actions.

\* Fields that joins do not look at.
LEMMA JoinOthers ==
  ASSUME NEW v, NEW g, NEW ch, NEW ap, JoinInv(v, g, ch, ap)
  PROVE  /\ \A a \in 0 .. MaxApprovals : JoinInv([v EXCEPT !.approval = a], g, ch, ap)
         /\ \A n \in Nodes \cup {End} : JoinInv([v EXCEPT !.delay = n], g, ch, ap)
         /\ \A cond \in Condition : JoinInv([v EXCEPT !.condition = cond], g, ch, ap)
         /\ \A q \in [Nodes -> 0 .. MaxChildren] : JoinInv([v EXCEPT !.agents = q], g, ch, ap)
<1>1. v \in Vars
  BY DEF JoinInv
<1>2. ASSUME NEW a \in 0 .. MaxApprovals PROVE JoinInv([v EXCEPT !.approval = a], g, ch, ap)
  <2>1. PICK w : w = [v EXCEPT !.approval = a]
    OBVIOUS
  <2>2. w \in Vars /\ w.branches = v.branches /\ w.completed = v.completed
    BY <1>1, <2>1 DEF Vars
  <2> QED BY <2>1, <2>2, JoinAlike
<1>3. ASSUME NEW n \in Nodes \cup {End} PROVE JoinInv([v EXCEPT !.delay = n], g, ch, ap)
  <2>1. PICK w : w = [v EXCEPT !.delay = n]
    OBVIOUS
  <2>2. w \in Vars /\ w.branches = v.branches /\ w.completed = v.completed
    BY <1>1, <2>1 DEF Vars
  <2> QED BY <2>1, <2>2, JoinAlike
<1>4. ASSUME NEW cond \in Condition PROVE JoinInv([v EXCEPT !.condition = cond], g, ch, ap)
  <2>1. PICK w : w = [v EXCEPT !.condition = cond]
    OBVIOUS
  <2>2. w \in Vars /\ w.branches = v.branches /\ w.completed = v.completed
    BY <1>1, <2>1 DEF Vars
  <2> QED BY <2>1, <2>2, JoinAlike
<1>5. ASSUME NEW q \in [Nodes -> 0 .. MaxChildren]
      PROVE  JoinInv([v EXCEPT !.agents = q], g, ch, ap)
  <2>1. PICK w : w = [v EXCEPT !.agents = q]
    OBVIOUS
  <2>2. w \in Vars /\ w.branches = v.branches /\ w.completed = v.completed
    BY <1>1, <2>1 DEF Vars
  <2> QED BY <2>1, <2>2, JoinAlike
<1> QED BY <1>2, <1>3, <1>4, <1>5

LEMMA NoneIsNone == None \in 0 .. MaxApprovals
  BY ConstantsAssumption DEF None

LEMMA OfJoins ==
  ASSUME Inv, Joins, NEW s \in Sessions
  PROVE  /\ JoinInv(sess[s].vars, graph, child, approval)
         /\ JoinInv(sess[s].base.vars, graph, child, approval)
         /\ JoinInv([sess[s].vars EXCEPT !.approval = None], graph, child, approval)
<1>1. JoinInv(sess[s].vars, graph, child, approval)
  BY DEF Joins
<1> QED BY <1>1, JoinOthers, NoneIsNone DEF Joins

\* The run stops with the vars it has, or without the approval it has asked for.
LEMMA StopJoins ==
  ASSUME Inv, Joins, NEW s \in Sessions, UNCHANGED << graph, child >>, NEW status, NEW cursor,
         \/ Finish(s, status, cursor, sess[s].vars, << >>)
         \/ Finish(s, status, cursor, [sess[s].vars EXCEPT !.approval = None], << >>)
  PROVE  Joins'
  BY OfJoins, JoinFinish, NoneMade

LEMMA AskJoins ==
  ASSUME Inv, Joins, NEW s \in Sessions, sess[s].cursor # End, AskApproval(s), Here(s)
  PROVE  Joins'
<1>1. CASE Pause(s, "waiting_approval", sess[s].vars, << >>)
  BY <1>1, StopJoins DEF Pause, Here
<1>2. CASE Pause(s, "waiting_approval",
                 [sess[s].vars EXCEPT !.approval = Len(approval) + Len(sess[s].made) + 1],
                 << sess[s].cursor >>)
  <2>1. PICK a : a = Len(approval) + Len(sess[s].made) + 1
    OBVIOUS
  <2>2. PICK new : new = << sess[s].cursor >>
    OBVIOUS
  <2>3. new \in Seq(Nodes) /\ Len(new) = 1
    BY <2>2, OfSession
  <2>4. Finish(s, "waiting_approval", sess[s].cursor, [sess[s].vars EXCEPT !.approval = a], new)
    BY <1>2, <2>1, <2>2 DEF Pause
  <2>5. Len(approval) + Len(sess[s].made) + Len(new) <= MaxApprovals
    BY <2>4 DEF Finish
  <2>6. Len(approval) \in Nat /\ Len(sess[s].made) \in Nat
    BY OfSession DEF Inv, Rows
  <2>7. a \in 0 .. MaxApprovals
    BY <2>1, <2>3, <2>5, <2>6, ConstantsAssumption
  <2>8. JoinInv([sess[s].vars EXCEPT !.approval = a], graph, child, approval)
    BY <2>7, OfJoins, JoinOthers
  <2> QED BY <2>3, <2>4, <2>8, JoinFinish DEF Here
<1> QED BY <1>1, <1>2 DEF AskApproval

\* A node that is no parallel one hops.
LEMMA PlainHopJoins ==
  ASSUME Inv, Joins, NEW s \in Sessions, NEW kind, kind # "parallel", At(s, kind),
         NEW v, NEW cond \in Condition, Hop(s, v, cond), UNCHANGED << graph, child >>,
         JoinInv(v, graph, child, approval)
  PROVE  Joins'
<1>1. sess[s].cursor # End /\ graph.kind[sess[s].cursor] # "parallel"
  BY DEF At
<1> QED BY <1>1, JoinHop

LEMMA SimpleNodesJoin ==
  ASSUME Inv, Joins, NEW s \in Sessions,
         StepTrigger(s) \/ StepCondition(s) \/ StepRouter(s) \/ StepHumanInput(s)
  PROVE  Joins'
<1>1. ASSUME StepTrigger(s) PROVE Joins'
  <2>1. At(s, "trigger") /\ UNCHANGED << graph, child >>
    BY <1>1 DEF StepTrigger, Here
  <2>2. CASE Hop(s, sess[s].vars, sess[s].vars.condition)
    BY <2>1, <2>2, OfJoins, OfSession, ConditionOfVars, PlainHopJoins
  <2>3. CASE FailRun(s, sess[s].vars)
    BY <2>1, <2>3, StopJoins DEF FailRun
  <2> QED BY <1>1, <2>2, <2>3 DEF StepTrigger
<1>2. ASSUME StepCondition(s) PROVE Joins'
  <2>1. At(s, "condition") /\ UNCHANGED << graph, child >>
    BY <1>2 DEF StepCondition, Here
  <2>2. PICK cond \in { "true", "false" } :
          Hop(s, [sess[s].vars EXCEPT !.condition = cond], cond)
    BY <1>2 DEF StepCondition
  <2>3. cond \in Condition
    BY DEF Condition
  <2>4. JoinInv([sess[s].vars EXCEPT !.condition = cond], graph, child, approval)
    BY <2>3, OfJoins, JoinOthers
  <2> QED BY <2>1, <2>2, <2>3, <2>4, PlainHopJoins
<1>3. ASSUME StepRouter(s) PROVE Joins'
  <2>1. At(s, "router") /\ UNCHANGED << graph, child >>
    BY <1>3 DEF StepRouter, Here
  <2>2. PICK cond \in Condition : Hop(s, sess[s].vars, cond)
    BY <1>3 DEF StepRouter
  <2> QED BY <2>1, <2>2, OfJoins, PlainHopJoins
<1>4. ASSUME StepHumanInput(s) PROVE Joins'
  <2>1. At(s, "human_input") /\ UNCHANGED << graph, child >>
    BY <1>4 DEF StepHumanInput, Here
  <2>2. CASE Hop(s, sess[s].vars, sess[s].vars.condition)
    BY <2>1, <2>2, OfJoins, OfSession, ConditionOfVars, PlainHopJoins
  <2>3. CASE Pause(s, "waiting_input", sess[s].vars, << >>)
    BY <2>1, <2>3, StopJoins DEF Pause
  <2> QED BY <1>4, <2>2, <2>3 DEF StepHumanInput
<1> QED BY <1>1, <1>2, <1>3, <1>4

LEMMA GatedNodesJoin ==
  ASSUME Inv, Joins, NEW s \in Sessions, StepApproval(s) \/ StepTool(s) PROVE Joins'
<1>1. sess[s].cursor # End /\ Here(s) /\ UNCHANGED << graph, child >>
  BY DEF StepApproval, StepTool, At, Here
<1>2. CASE AskApproval(s)
  BY <1>1, <1>2, AskJoins
<1>3. CASE /\ At(s, "approval")
           /\ Hop(s, [sess[s].vars EXCEPT !.approval = None], sess[s].vars.condition)
  BY <1>1, <1>3, OfJoins, OfSession, ConditionOfVars, PlainHopJoins
<1>4. CASE \/ FailRun(s, sess[s].vars)
           \/ FailRun(s, [sess[s].vars EXCEPT !.approval = None])
  BY <1>1, <1>4, StopJoins DEF FailRun
<1> QED BY <1>2, <1>3, <1>4 DEF StepApproval, StepTool

LEMMA ToolCommitsJoin == ASSUME Inv, Joins, NEW s \in Sessions, ToolCommits(s) PROVE Joins'
<1>1. PICK v : v = IF graph.kind[sess[s].cursor] = "tool"
                   THEN [sess[s].vars EXCEPT !.approval = None]
                   ELSE sess[s].vars
  OBVIOUS
<1>2. PICK x : x = [sess[s] EXCEPT !.base = row', !.granted = None, !.spent = None,
                                   !.mine = {}, !.made = << >>, !.pc = "performed",
                                   !.vars = v]
  OBVIOUS
<1>3. CommitOnTheWay(s) /\ sess' = [sess EXCEPT ![s] = x] /\ UNCHANGED << graph, child >>
  BY <1>1, <1>2 DEF ToolCommits, Here
<1>4. x.base = row' /\ x.vars = v
  BY <1>2, OfSession DEF Session
<1>5. JoinInv(x.vars, graph, child, approval)
  BY <1>1, <1>4, OfJoins
<1>6. OfAgents(graph, child') /\ KeptChildren(child, child')
  BY <1>3, SameKept DEF Joins
<1> QED BY <1>3, <1>4, <1>5, <1>6, JoinCommit

LEMMA AfterToolJoins == ASSUME Inv, Joins, NEW s \in Sessions, AfterTool(s) PROVE Joins'
<1>1. PICK done : done = [sess[s].vars EXCEPT !.completed = @ \cup { sess[s].cursor }]
  OBVIOUS
<1>2. PICK next : next = graph.next[sess[s].cursor][sess[s].vars.condition]
  OBVIOUS
<1>3. /\ sess[s].pc = "performed" /\ UNCHANGED << graph, child >>
      /\ SessionInv(sess[s], graph, child, approval)
  BY OfSession DEF AfterTool, Here
<1>4. sess[s].cursor \in Nodes /\ Passable(sess[s].cursor, None, graph, child, approval)
  BY <1>3 DEF SessionInv
<1>5. graph.kind[sess[s].cursor] # "parallel"
  BY <1>3 DEF SessionInv
<1>6. JoinInv(done, graph, child, approval)
  BY <1>1, <1>4, <1>5, GraphType, OfJoins, JoinDone
<1>7. CASE next = End
  BY <1>1, <1>2, <1>3, <1>6, <1>7, JoinFinish, NoneMade DEF AfterTool
<1>8. CASE next # End
  <2>1. PICK x : x = [sess[s] EXCEPT !.pc = "working", !.cursor = next, !.vars = done,
                                     !.branch = 1, !.steps = @ + 1]
    OBVIOUS
  <2>2. sess' = [sess EXCEPT ![s] = x] /\ UNCHANGED << row, approval >>
    BY <1>1, <1>2, <1>8, <2>1 DEF AfterTool, GoOn
  <2>3. x.vars = done /\ x.base = sess[s].base
    BY <2>1, OfSession DEF Session
  <2> QED BY <1>3, <1>6, <2>2, <2>3, OfJoins, JoinAside, SameKept
<1> QED BY <1>7, <1>8

LEMMA StepDelayJoins == ASSUME Inv, Joins, NEW s \in Sessions, StepDelay(s) PROVE Joins'
<1>1. At(s, "delay") /\ UNCHANGED << graph, child >> /\ sess[s].cursor \in Nodes
  BY OfSession DEF StepDelay, At
<1>2. \A n \in Nodes \cup {End} :
        JoinInv([sess[s].vars EXCEPT !.delay = n], graph, child, approval)
  BY OfJoins, JoinOthers
<1>3. CASE Hop(s, [sess[s].vars EXCEPT !.delay = End], sess[s].vars.condition)
  BY <1>1, <1>2, <1>3, OfSession, ConditionOfVars, PlainHopJoins
<1>4. CASE Pause(s, "paused", sess[s].vars, << >>)
  BY <1>1, <1>4, StopJoins DEF Pause
<1>5. CASE Pause(s, "paused", [sess[s].vars EXCEPT !.delay = sess[s].cursor], << >>)
  <2>1. Finish(s, "paused", sess[s].cursor,
               [sess[s].vars EXCEPT !.delay = sess[s].cursor], << >>)
    BY <1>5 DEF Pause
  <2> QED BY <1>1, <1>2, <2>1, JoinFinish, NoneMade
<1> QED BY <1>3, <1>4, <1>5 DEF StepDelay

LEMMA StartChildJoins ==
  ASSUME Inv, Joins, NEW s \in Sessions, NEW n \in Nodes, graph.kind[n] = "agent",
         StartChild(s, n)
  PROVE  Joins'
<1>1. PICK x : x = [sess[s] EXCEPT !.base = row', !.pc = "started", !.granted = None,
                                   !.spent = None, !.mine = { Len(child) + 1 },
                                   !.made = << >>]
  OBVIOUS
<1>2. /\ CommitOnTheWay(s) /\ sess' = [sess EXCEPT ![s] = x] /\ graph' = graph
      /\ child' = Append(child, [ node |-> n, status |-> "active", done |-> FALSE ])
  BY <1>1 DEF StartChild
<1>3. x.base = row' /\ x.vars = sess[s].vars
  BY <1>1, OfSession DEF Session
<1>4. child \in Seq(Child)
  BY DEF Inv, Rows
<1>5. /\ DOMAIN child' = DOMAIN child \cup { Len(child) + 1 }
      /\ \A c \in DOMAIN child : child'[c] = child[c]
      /\ child'[Len(child) + 1] = [ node |-> n, status |-> "active", done |-> FALSE ]
  <2>1. [ node |-> n, status |-> "active", done |-> FALSE ] \in Child
    BY DEF Child, ChildStatus
  <2> QED BY <1>2, <1>4, <2>1
<1>6. KeptChildren(child, child')
  BY <1>5 DEF KeptChildren
<1>7. OfAgents(graph, child')
  BY <1>5 DEF Joins, OfAgents
<1> QED BY <1>2, <1>3, <1>6, <1>7, OfJoins, JoinCommit

LEMMA AgentNodesJoin ==
  ASSUME Inv, Joins, NEW s \in Sessions, StepAgent(s) \/ NoteChild(s) PROVE Joins'
<1>1. ASSUME StepAgent(s) PROVE Joins'
  <2>1. /\ At(s, "agent") /\ sess[s].cursor \in Nodes
        /\ graph.kind[sess[s].cursor] = "agent"
    BY <1>1, OfSession DEF StepAgent, At
  <2>2. CASE StartChild(s, sess[s].cursor)
    BY <2>1, <2>2, StartChildJoins
  <2>3. CASE Hop(s, sess[s].vars, sess[s].vars.condition) /\ Here(s)
    BY <2>1, <2>3, OfJoins, OfSession, ConditionOfVars, PlainHopJoins DEF Here
  <2>4. CASE FailRun(s, sess[s].vars) /\ Here(s)
    BY <2>4, StopJoins DEF FailRun, Here
  <2>5. CASE Pause(s, "paused", sess[s].vars, << >>) /\ Here(s)
    BY <2>5, StopJoins DEF Pause, Here
  <2> QED BY <1>1, <2>2, <2>3, <2>4, <2>5 DEF StepAgent
<1>2. ASSUME NoteChild(s) PROVE Joins'
  <2>1. PICK c \in sess[s].mine :
          Pause(s, "paused",
                [sess[s].vars EXCEPT !.agents =
                   [sess[s].vars.agents EXCEPT ![sess[s].cursor] = c]], << >>)
    BY <1>2 DEF NoteChild
  <2>2. PICK q : q = [sess[s].vars.agents EXCEPT ![sess[s].cursor] = c]
    OBVIOUS
  <2>3. c \in 0 .. MaxChildren
    BY <1>2, StartedChild DEF NoteChild
  <2>4. sess[s].vars.agents \in [Nodes -> 0 .. MaxChildren]
    BY OfSession DEF Vars
  <2>5. q \in [Nodes -> 0 .. MaxChildren]
    BY <2>2, <2>3, <2>4
  <2>6. JoinInv([sess[s].vars EXCEPT !.agents = q], graph, child, approval)
    BY <2>5, OfJoins, JoinOthers
  <2>7. Finish(s, "paused", sess[s].cursor, [sess[s].vars EXCEPT !.agents = q], << >>)
    BY <2>1, <2>2 DEF Pause
  <2> QED BY <1>2, <2>6, <2>7, JoinFinish, NoneMade DEF NoteChild, Here
<1> QED BY <1>1, <1>2

LEMMA BranchJoins ==
  ASSUME Inv, Joins, NEW s \in Sessions, NEW kind, NEW was, AtBranch(s, kind, was),
         NEW status \in BranchStatus, NEW made, NextBranch(s, status, made),
         UNCHANGED << graph, child >>, "succeeded" \in was => status = "succeeded",
         NEW b, b = Branches(sess[s].cursor)[sess[s].branch],
         kind = "agent" /\ status = "succeeded" =>
           \/ sess[s].vars.branches[b] = "succeeded"
           \/ \E c \in DOMAIN child : child[c].node = b /\ child[c].done
  PROVE  Joins'
<1>1. PICK q : q = [sess[s].vars.branches EXCEPT ![b] = status]
  OBVIOUS
<1>2. PICK v : v = [sess[s].vars EXCEPT !.branches = q]
  OBVIOUS
<1>3. PICK x : x = [sess[s] EXCEPT !.vars = v, !.branch = @ + 1, !.made = @ \o made]
  OBVIOUS
<1>4. sess' = [sess EXCEPT ![s] = x] /\ UNCHANGED << row, approval >>
  BY <1>1, <1>2, <1>3 DEF NextBranch
<1>5. b \in Nodes /\ graph.kind[b] = kind /\ sess[s].vars.branches[b] \in was
  BY BranchOfGraph
<1>6. sess[s].vars \in Vars /\ sess[s].vars.branches \in [Nodes -> BranchStatus]
  BY OfSession DEF Vars
<1>7. /\ q \in [Nodes -> BranchStatus] /\ q[b] = status
      /\ \A n \in Nodes \ {b} : q[n] = sess[s].vars.branches[n]
  BY <1>1, <1>5, <1>6
<1>8. v \in Vars
  BY <1>2, <1>6, <1>7, VarsFields
<1>9. v.branches = q /\ v.completed = sess[s].vars.completed
  BY <1>2, <1>6 DEF Vars
<1>10. \/ Good(b, v, graph, child)
       \/ status # "succeeded"
       \/ sess[s].vars.branches[b] = "succeeded"
  BY <1>5, <1>7, <1>9 DEF Good
<1>11. JoinInv(v, graph, child, approval)
  <2>1. \A n \in Nodes :
          sess[s].vars.branches[n] = "succeeded" => v.branches[n] = "succeeded"
    BY <1>5, <1>7, <1>9
  <2>2. \A n \in Nodes :
          v.branches[n] = "succeeded" =>
            sess[s].vars.branches[n] = "succeeded" \/ Good(n, v, graph, child)
    BY <1>7, <1>9, <1>10
  <2> QED BY <1>8, <1>9, <2>1, <2>2, GraphType, OfJoins, JoinGrows, SameKept
<1>12. x.vars = v /\ x.base = sess[s].base
  BY <1>3, OfSession DEF Session
<1> QED BY <1>4, <1>11, <1>12, OfJoins, JoinAside, SameKept

LEMMA BranchesJoin ==
  ASSUME Inv, Joins, NEW s \in Sessions,
         \/ SkipBranch(s) \/ SimpleBranch(s) \/ ToolBranch(s) \/ RefuseBranch(s)
         \/ DelayBranch(s)
  PROVE  Joins'
<1>1. PICK b : b = Branches(sess[s].cursor)[sess[s].branch]
  OBVIOUS
<1>2. UNCHANGED << graph, child >>
  BY DEF SkipBranch, SimpleBranch, ToolBranch, RefuseBranch, DelayBranch, Here
<1>3. { "paused", "succeeded", "failed" } \subseteq BranchStatus
  BY DEF BranchStatus
<1>4. ASSUME NEW kind \in Kind, NEW status \in SettledBranch,
             AtBranch(s, kind, {status}), NextBranch(s, status, << >>)
      PROVE  Joins'
  <2>1. status \in BranchStatus
    BY <1>3 DEF SettledBranch
  <2>2. sess[s].vars.branches[b] = status
    BY <1>1, <1>4, BranchOfGraph
  <2> QED BY <1>1, <1>2, <1>4, <2>1, <2>2, BranchJoins
\* The other visits are of branches that have not succeeded.
<1>5. ASSUME NEW kind, NEW was \in { {"pending"}, {"paused"} },
             NEW status \in { "paused", "succeeded", "failed" }, NEW made,
             AtBranch(s, kind, was), NextBranch(s, status, made),
             kind # "agent" \/ status # "succeeded"
      PROVE  Joins'
  <2>1. "succeeded" \notin was
    OBVIOUS
  <2> QED BY <1>1, <1>2, <1>3, <1>5, <2>1, BranchJoins
<1>6. ASSUME SkipBranch(s) PROVE Joins'
  BY <1>4, <1>5, <1>6 DEF SkipBranch, SimpleKind
<1>7. ASSUME SimpleBranch(s) PROVE Joins'
  <2>1. PICK kind \in { "condition", "trigger" }, status \in { "succeeded", "paused" } :
          AtBranch(s, kind, {"pending"}) /\ NextBranch(s, status, << >>)
    BY <1>7 DEF SimpleBranch
  <2>2. kind # "agent"
    OBVIOUS
  <2> QED BY <1>5, <2>1, <2>2
<1>8. ASSUME ToolBranch(s) PROVE Joins'
  <2>1. PICK made : AtBranch(s, "tool", {"pending"}) /\ NextBranch(s, "paused", made)
    BY <1>8 DEF ToolBranch
  <2> QED BY <1>5, <2>1
<1>9. ASSUME RefuseBranch(s) PROVE Joins'
  <2>1. PICK kind : AtBranch(s, kind, {"pending"}) /\ NextBranch(s, "failed", << >>)
    BY <1>9 DEF RefuseBranch
  <2> QED BY <1>5, <2>1
<1>10. ASSUME DelayBranch(s) PROVE Joins'
  <2>1. PICK was \in { {"pending"}, {"paused"} }, status \in { "paused", "succeeded" } :
          AtBranch(s, "delay", was) /\ NextBranch(s, status, << >>)
    BY <1>10 DEF DelayBranch
  <2> QED BY <1>5, <2>1
<1> QED BY <1>6, <1>7, <1>8, <1>9, <1>10

LEMMA CommittingBranchJoins ==
  ASSUME Inv, Joins, NEW s \in Sessions, CommittingBranch(s) PROVE Joins'
<1>1. PICK b : b = Branches(sess[s].cursor)[sess[s].branch]
  OBVIOUS
<1>2. PICK q : q = [sess[s].vars.branches EXCEPT ![b] = "succeeded"]
  OBVIOUS
<1>3. PICK v : v = [sess[s].vars EXCEPT !.branches = q]
  OBVIOUS
<1>4. PICK x : x = [sess[s] EXCEPT !.base = row', !.granted = None, !.spent = None, !.mine = {},
                                   !.made = << >>, !.branch = @ + 1, !.vars = v]
  OBVIOUS
<1>5. /\ AtBranch(s, "trigger", {"pending"}) /\ CommitOnTheWay(s)
      /\ sess' = [sess EXCEPT ![s] = x] /\ UNCHANGED << graph, child >>
  BY <1>1, <1>2, <1>3, <1>4 DEF CommittingBranch, Here
<1>6. b \in Nodes /\ graph.kind[b] = "trigger"
  BY <1>1, <1>5, BranchOfGraph
<1>7. sess[s].vars \in Vars /\ sess[s].vars.branches \in [Nodes -> BranchStatus]
  BY OfSession DEF Vars
<1>8. /\ q \in [Nodes -> BranchStatus] /\ q[b] = "succeeded"
      /\ \A n \in Nodes \ {b} : q[n] = sess[s].vars.branches[n]
  BY <1>2, <1>6, <1>7 DEF BranchStatus
<1>9. v \in Vars /\ v.branches = q /\ v.completed = sess[s].vars.completed
  BY <1>3, <1>7, <1>8, VarsFields DEF Vars
<1>10. JoinInv(v, graph, child, approval)
  <2>1. \A n \in Nodes :
          sess[s].vars.branches[n] = "succeeded" => v.branches[n] = "succeeded"
    BY <1>8, <1>9
  <2>2. Good(b, v, graph, child)
    BY <1>6, <1>8, <1>9 DEF Good
  <2>3. \A n \in Nodes :
          v.branches[n] = "succeeded" =>
            sess[s].vars.branches[n] = "succeeded" \/ Good(n, v, graph, child)
    BY <1>8, <1>9, <2>2
  <2> QED BY <1>9, <2>1, <2>3, GraphType, OfJoins, JoinGrows, SameKept
<1>11. x.vars = v /\ x.base = row'
  BY <1>4, OfSession DEF Session
<1>12. OfAgents(graph, child') /\ KeptChildren(child, child')
  BY <1>5, SameKept DEF Joins
<1> QED BY <1>5, <1>10, <1>11, <1>12, JoinCommit

LEMMA RefreshBranchJoins == ASSUME Inv, Joins, NEW s \in Sessions, RefreshBranch(s) PROVE Joins'
<1>1. PICK b : b = Branches(sess[s].cursor)[sess[s].branch]
  OBVIOUS
<1>2. PICK c : c = sess[s].vars.agents[b]
  OBVIOUS
<1>3. PICK status : status = BranchOf(Seen(s, c))
  OBVIOUS
<1>4. /\ AtBranch(s, "agent", {"paused"}) /\ NextBranch(s, status, << >>)
      /\ UNCHANGED << graph, child >>
  BY <1>1, <1>2, <1>3 DEF RefreshBranch, Here
<1>5. b \in Nodes /\ graph.kind[b] = "agent" /\ sess[s].vars.branches[b] = "paused"
  BY <1>1, <1>4, BranchOfGraph
<1>6. c \in DOMAIN child /\ child[c].node = b
  BY <1>2, <1>5, OfSession DEF VarsInv, Sound
<1>7. Seen(s, c) \in ChildStatus /\ (Seen(s, c) = "completed" => child[c].done)
  BY <1>6, SeenTold DEF Told
<1>8. status \in BranchStatus /\ (status = "succeeded" => child[c].done)
  BY <1>3, <1>7 DEF BranchOf, BranchStatus, ChildStatus, ChildEnd
<1> QED BY <1>1, <1>4, <1>6, <1>8, BranchJoins

\* The branch whose child is noted is an agent's: its child, not its status, counts.
LEMMA StartedBranchesJoin ==
  ASSUME Inv, Joins, NEW s \in Sessions, StartBranch(s) \/ NoteBranch(s) PROVE Joins'
<1>1. ASSUME StartBranch(s) PROVE Joins'
  <2>1. PICK b : b = Branches(sess[s].cursor)[sess[s].branch]
    OBVIOUS
  <2>2. AtBranch(s, "agent", {"pending"}) /\ StartChild(s, b)
    BY <1>1, <2>1 DEF StartBranch
  <2> QED BY <2>1, <2>2, BranchOfGraph, StartChildJoins
<1>2. ASSUME NoteBranch(s) PROVE Joins'
  <2>1. sess[s].pc = "started" /\ UNCHANGED << graph, child, row, approval >>
    BY <1>2 DEF NoteBranch, Here
  <2>2. PICK c \in sess[s].mine :
          sess' = [sess EXCEPT ![s] =
             [sess[s] EXCEPT !.pc = "working", !.branch = @ + 1,
                             !.vars = [sess[s].vars EXCEPT
                                         !.branches = [sess[s].vars.branches EXCEPT
                                                         ![child[c].node] = "paused"],
                                         !.agents = [sess[s].vars.agents EXCEPT
                                                       ![child[c].node] = c]]]]
    BY <1>2 DEF NoteBranch
  <2>3. PICK b : b = child[c].node
    OBVIOUS
  <2>4. PICK p : p = [sess[s].vars.branches EXCEPT ![b] = "paused"]
    OBVIOUS
  <2>5. PICK q : q = [sess[s].vars.agents EXCEPT ![b] = c]
    OBVIOUS
  <2>6. PICK v : v = [sess[s].vars EXCEPT !.branches = p, !.agents = q]
    OBVIOUS
  <2>7. PICK x : x = [sess[s] EXCEPT !.pc = "working", !.branch = @ + 1, !.vars = v]
    OBVIOUS
  <2>8. sess' = [sess EXCEPT ![s] = x]
    BY <2>2, <2>3, <2>4, <2>5, <2>6, <2>7
  <2>9. c \in DOMAIN child /\ c \in 0 .. MaxChildren /\ b \in Nodes
    BY <2>1, <2>3, StartedChild
  <2>10. graph.kind[b] = "agent"
    BY <2>3, <2>9 DEF Joins, OfAgents
  <2>11. /\ sess[s].vars \in Vars /\ sess[s].vars.branches \in [Nodes -> BranchStatus]
         /\ sess[s].vars.agents \in [Nodes -> 0 .. MaxChildren]
    BY OfSession DEF Vars
  <2>12. /\ p \in [Nodes -> BranchStatus] /\ p[b] = "paused"
         /\ \A n \in Nodes \ {b} : p[n] = sess[s].vars.branches[n]
         /\ q \in [Nodes -> 0 .. MaxChildren]
    BY <2>4, <2>5, <2>9, <2>11 DEF BranchStatus
  <2>13. v \in Vars /\ v.branches = p /\ v.completed = sess[s].vars.completed
    BY <2>6, <2>11, <2>12 DEF Vars
  <2>14. JoinInv(v, graph, child, approval)
    <3>1. \A n \in Nodes :
            sess[s].vars.branches[n] = "succeeded" =>
              v.branches[n] = "succeeded" \/ graph.kind[n] = "agent"
      BY <2>10, <2>12, <2>13
    <3>2. \A n \in Nodes : v.branches[n] = "succeeded" => sess[s].vars.branches[n] = "succeeded"
      BY <2>12, <2>13
    <3> QED BY <2>13, <3>1, <3>2, GraphType, OfJoins, JoinGrows, SameKept
  <2>15. x.vars = v /\ x.base = sess[s].base
    BY <2>7, OfSession DEF Session
  <2> QED BY <2>1, <2>8, <2>14, <2>15, OfJoins, JoinAside, SameKept
<1> QED BY <1>1, <1>2

LEMMA ConcludeJoins == ASSUME Inv, Joins, NEW s \in Sessions, Conclude(s) PROVE Joins'
<1>1. /\ sess[s].cursor # End /\ sess[s].cursor \in Nodes /\ UNCHANGED << graph, child >>
  BY OfSession DEF Conclude, InParallel, Here
<1>2. CASE /\ JoinOf(sess[s].cursor, sess[s].vars) = "succeeded"
           /\ Hop(s, sess[s].vars, sess[s].vars.condition)
  <2>1. Joined(sess[s].cursor, sess[s].vars, graph, child)
    BY <1>1, <1>2, GraphType, OfJoins, JoinSucceeds
  <2> QED BY <1>1, <1>2, <2>1, OfJoins, OfSession, ConditionOfVars, JoinHop
<1>3. CASE FailRun(s, sess[s].vars)
  BY <1>1, <1>3, StopJoins DEF FailRun
<1>4. CASE Pause(s, "paused", sess[s].vars, << >>)
  BY <1>1, <1>4, StopJoins DEF Pause
<1> QED BY <1>2, <1>3, <1>4 DEF Conclude

------------------------------------------------------------------------------
\* Sessions that read the row, losses, and the rest of the world.

\* No session's copy and nothing of the row changes.
LEMMA JoinStays ==
  ASSUME Inv, Joins, UNCHANGED << graph, row, sess >>, KeptChildren(child, child'),
         KeptApprovals(approval, approval'), OfAgents(graph, child')
  PROVE  Joins'
<1>1. graph \in Graph
  BY GraphType
<1>2. JoinInv(row.vars, graph, child', approval')
  BY <1>1, JoinKept DEF Joins
<1>3. \A t \in Sessions :
        /\ JoinInv(sess[t].vars, graph, child', approval')
        /\ JoinInv(sess[t].base.vars, graph, child', approval')
  BY <1>1, JoinKept DEF Joins
<1> QED BY <1>2, <1>3 DEF Joins

LEMMA LoadedJoins ==
  ASSUME Inv, Joins, NEW s \in Sessions, NEW pc, NEW granted, NEW human, NEW woke,
         NEW saw, Loaded(s, pc, granted, human, woke, saw),
         UNCHANGED << graph, row, child, approval >>
  PROVE  Joins'
<1> DEFINE taken == IF AsksApproval THEN granted ELSE None
<1>1. PICK x :
        x = [ IdleSession EXCEPT !.pc = pc, !.base = row, !.cursor = row.cursor,
                                 !.vars = row.vars, !.granted = taken, !.spent = taken,
                                 !.human = human /\ KindAtCursor = "human_input",
                                 !.woke = woke, !.saw = saw ]
  OBVIOUS
<1>2. sess' = [sess EXCEPT ![s] = x]
  BY <1>1 DEF Loaded
<1>3. x.vars = row.vars /\ x.base = row
  BY <1>1 DEF IdleSession
<1>4. JoinInv(row.vars, graph, child, approval)
  BY DEF Joins
<1> QED BY <1>2, <1>3, <1>4, JoinAside, SameKept

\* The session is idle but for fields that hold no vars.
LEMMA UnreadJoins ==
  ASSUME Inv, Joins, NEW s \in Sessions, NEW x, sess' = [sess EXCEPT ![s] = x],
         x.vars = InitVars, x.base = InitRow, UNCHANGED << graph, row, child >>,
         KeptApprovals(approval, approval')
  PROVE  Joins'
<1>1. /\ JoinInv(x.vars, graph, child, approval)
      /\ JoinInv(x.base.vars, graph, child, approval)
  BY JoinInit DEF InitRow
<1> QED BY <1>1, JoinAside

LEMMA UserJoins ==
  ASSUME Inv, Joins, NEW s \in Sessions, UserStep(s) PROVE Joins'
<1>1. ASSUME StartRun(s) PROVE Joins'
  <2>1. PICK x : x = [IdleSession EXCEPT !.pc = "working", !.cursor = graph.entry]
    OBVIOUS
  <2>2. sess' = [sess EXCEPT ![s] = x] /\ UNCHANGED << graph, row, child, approval >>
    BY <1>1, <2>1 DEF StartRun
  <2>3. x.vars = InitVars /\ x.base = InitRow
    BY <2>1 DEF IdleSession
  <2> QED BY <2>2, <2>3, UnreadJoins, SameKept
<1>2. ASSUME UserResumes(s) PROVE Joins'
  BY <1>2, LoadedJoins DEF UserResumes
<1>3. ASSUME NEW a \in ApprovalId, NEW status \in { "approved", "rejected" },
             Decide(s, a, status)
      PROVE  Joins'
  <2>1. PICK x : x = [IdleSession EXCEPT !.pc = "decided", !.granted = a]
    OBVIOUS
  <2>2. /\ sess' = [sess EXCEPT ![s] = x] /\ UNCHANGED << graph, row, child >>
        /\ a \in DOMAIN approval /\ approval[a].status = "pending"
        /\ approval' = [approval EXCEPT ![a].status = status]
    BY <1>3, <2>1 DEF Decide
  <2>3. x.vars = InitVars /\ x.base = InitRow
    BY <2>1 DEF IdleSession
  <2>4. KeptApprovals(approval, approval')
    <3>1. approval \in Seq(Approval) /\ approval[a] \in Approval
      BY <2>2 DEF Inv, Rows
    <3>2. PICK r : r = [approval[a] EXCEPT !.status = status]
      OBVIOUS
    <3>3. r.node = approval[a].node /\ r.consumed = approval[a].consumed
      BY <3>1, <3>2 DEF Approval
    <3>4. approval' = [approval EXCEPT ![a] = r]
      BY <2>2, <3>2
    <3> QED BY <2>2, <3>1, <3>3, <3>4 DEF KeptApprovals
  <2> QED BY <2>2, <2>3, <2>4, UnreadJoins
<1> QED BY <1>1, <1>2, <1>3 DEF UserStep

LEMMA HooksJoin ==
  ASSUME Inv, Joins, NEW s \in Sessions,
         \/ DecisionHook(s)
         \/ \E h \in hook : ChildHook(s, h)
         \/ \E n \in Nodes : TimerFires(s, n)
  PROVE  Joins'
<1>1. UNCHANGED << graph, row, child, approval >>
  BY DEF DecisionHook, ChildHook, TimerFires
<1>2. \/ \E pc, granted, human, woke, saw : Loaded(s, pc, granted, human, woke, saw)
      \/ sess' = [sess EXCEPT ![s] = IdleSession]
      \/ sess' = sess
  BY DEF DecisionHook, ChildHook, TimerFires
<1>3. CASE sess' = sess
  BY <1>1, <1>3, JoinStays, SameKept DEF Joins
<1>4. CASE sess' = [sess EXCEPT ![s] = IdleSession]
  <2>1. IdleSession.vars = InitVars /\ IdleSession.base = InitRow
    BY DEF IdleSession
  <2> QED BY <1>1, <1>4, <2>1, UnreadJoins, SameKept
<1>5. CASE \E pc, granted, human, woke, saw : Loaded(s, pc, granted, human, woke, saw)
  BY <1>1, <1>5, LoadedJoins
<1> QED BY <1>2, <1>3, <1>4, <1>5

LEMMA EnterJoins == ASSUME Inv, Joins, NEW s \in Sessions, Enter(s) PROVE Joins'
<1>1. PICK x : x = [sess[s] EXCEPT !.pc = "working"]
  OBVIOUS
<1>2. sess' = [sess EXCEPT ![s] = x] /\ UNCHANGED << graph, row, child, approval >>
  BY <1>1 DEF Enter
<1>3. x.vars = sess[s].vars /\ x.base = sess[s].base
  BY <1>1, OfSession DEF Session
<1> QED BY <1>2, <1>3, OfJoins, JoinAside, SameKept

LEMMA ApplyRejectionJoins ==
  ASSUME Inv, Joins, NEW s \in Sessions, ApplyRejection(s) PROVE Joins'
<1>1. /\ sess[s].pc = "rejecting" /\ UNCHANGED << graph, child >>
      /\ \E a \in DOMAIN approval : approval[a].status = "rejected"
  BY OfSession DEF ApplyRejection, SessionInv
<1>2. PICK v : v = [sess[s].vars EXCEPT !.approval = None]
  OBVIOUS
<1>3. JoinInv(v, graph, child, approval)
  BY <1>2, OfJoins
<1>4. CASE \E status : Finish(s, status, sess[s].cursor, v, << >>)
  BY <1>1, <1>3, <1>4, JoinFinish, NoneMade
<1>5. CASE /\ sess[s].cursor # End /\ graph.onReject = "route_to"
           /\ GoOn(s, [sess[s] EXCEPT !.pc = "working", !.cursor = graph.route,
                                      !.vars = [v EXCEPT !.completed =
                                                  @ \cup { sess[s].cursor }]])
  <2>1. PICK w : w = [v EXCEPT !.completed = @ \cup { sess[s].cursor }]
    OBVIOUS
  <2>2. PICK x : x = [sess[s] EXCEPT !.pc = "working", !.cursor = graph.route, !.vars = w]
    OBVIOUS
  <2>3. sess' = [sess EXCEPT ![s] = x] /\ UNCHANGED << row, approval >>
    BY <1>5, <2>1, <2>2 DEF GoOn
  <2>4. sess[s].cursor \in Nodes
    BY <1>5, OfSession
  <2>5. Reroutes(graph, approval)
    BY <1>1, <1>5 DEF Reroutes
  <2>6. JoinInv(w, graph, child, approval)
    BY <1>3, <2>1, <2>4, <2>5, GraphType, JoinDone
  <2>7. x.vars = w /\ x.base = sess[s].base
    BY <2>2, OfSession DEF Session
  <2> QED BY <1>1, <2>3, <2>6, <2>7, OfJoins, JoinAside, SameKept
<1>6. PICK onReject : onReject = IF sess[s].cursor = End THEN "fail" ELSE graph.onReject
  OBVIOUS
<1>7. CASE onReject = "route_to"
  BY <1>2, <1>5, <1>6, <1>7 DEF ApplyRejection
<1>8. CASE onReject # "route_to"
  BY <1>2, <1>4, <1>6, <1>8 DEF ApplyRejection, Pause, FailRun
<1> QED BY <1>7, <1>8

LEMMA SessionLostJoins == ASSUME Inv, Joins, NEW s \in Sessions, SessionLost(s) PROVE Joins'
<1>1. sess' = [sess EXCEPT ![s] = IdleSession] /\ UNCHANGED << graph, child >>
  BY DEF SessionLost
<1>2. IdleSession.vars = InitVars /\ IdleSession.base = InitRow
  BY DEF IdleSession
<1>3. CASE UNCHANGED << row, approval >>
  BY <1>1, <1>2, <1>3, UnreadJoins, SameKept
<1>4. CASE CommitOnTheWay(s)
  <2>1. OfAgents(graph, child') /\ KeptChildren(child, child')
    BY <1>1, SameKept DEF Joins
  <2> QED BY <1>1, <1>2, <1>4, <2>1, JoinIdle, JoinCommit
<1> QED BY <1>3, <1>4 DEF SessionLost

LEMMA WorldJoins == ASSUME Inv, Joins, WorldStep PROVE Joins'
<1>1. ASSUME NEW c, NEW status \in ChildStatus, Moves(c, status),
             UNCHANGED << graph, row, approval, sess >>
      PROVE  Joins'
  <2>1. KeptChildren(child, child') /\ DOMAIN child' = DOMAIN child
    BY <1>1, MovesKept
  <2>2. OfAgents(graph, child')
    BY <2>1 DEF KeptChildren, OfAgents, Joins
  <2> QED BY <1>1, <2>1, <2>2, JoinStays, SameKept
<1>2. ASSUME NEW c, NEW status \in ChildEnd, ChildEnds(c, status) PROVE Joins'
  BY <1>1, <1>2 DEF ChildEnds, ChildStatus
<1>3. ASSUME NEW c, ChildFailsUnsaid(c) \/ ChildResumed(c) PROVE Joins'
  BY <1>1, <1>3 DEF ChildFailsUnsaid, ChildResumed, ChildStatus, ChildEnd
<1>4. ASSUME NEW n \in Nodes, TimePasses(n) PROVE Joins'
  BY <1>4, JoinStays, SameKept DEF TimePasses, Joins
<1> QED BY <1>2, <1>3, <1>4 DEF WorldStep

LEMMA EndsJoin ==
  ASSUME Inv, Joins, NEW s \in Sessions, StepPastEnd(s) \/ RunOutOfSteps(s) PROVE Joins'
  BY StopJoins DEF StepPastEnd, RunOutOfSteps, Here

LEMMA InitJoins == ASSUME Init PROVE Joins
<1>1. /\ row.vars = InitVars /\ child = << >>
      /\ \A s \in Sessions : sess[s].vars = InitVars /\ sess[s].base.vars = InitVars
  BY DEF Init, IdleSession, InitRow
<1> QED BY <1>1, JoinInit DEF Joins, OfAgents

LEMMA NextJoins == ASSUME Inv, Joins, [Next]_allVars PROVE Joins'
<1>1. ASSUME NEW s \in Sessions, AdvanceStep(s) PROVE Joins'
  BY <1>1, HooksJoin, EnterJoins, ApplyRejectionJoins, EndsJoin, SimpleNodesJoin,
     GatedNodesJoin, ToolCommitsJoin, AfterToolJoins, StepDelayJoins, AgentNodesJoin,
     BranchesJoin, CommittingBranchJoins, StartedBranchesJoin, RefreshBranchJoins, ConcludeJoins
  DEF AdvanceStep
<1>2. ASSUME NEW s \in Sessions,
             \/ \E h \in hook : ChildHook(s, h)
             \/ \E n \in Nodes : TimerFires(s, n)
      PROVE  Joins'
  BY <1>2, HooksJoin
<1>3. ASSUME UNCHANGED allVars PROVE Joins'
  BY <1>3, JoinStays, SameKept DEF allVars, Joins
<1> QED BY <1>1, <1>2, <1>3, UserJoins, SessionLostJoins, WorldJoins DEF Next

\* Whatever the policy, and however often the parallel node is visited, by however many
\* sessions: the run gets past it only with the branches that the policy asks for really
\* ended, or by a routed rejection (workflow_runtime.py, _evaluate_parallel_join).
THEOREM JoinedAsAsked == Spec => []JoinedWithCause
<1>1. Init => Joins
  BY InitJoins
<1>2. Inv /\ Joins /\ [Next]_allVars => Joins'
  BY NextJoins
<1>3. Joins => JoinedWithCause
  BY DEF Joins, JoinInv, Reroutes, Routed, Joined, Goods, Good, JoinedWithCause, Branches
<1> QED BY <1>1, <1>2, <1>3, Invariance, PTL DEF Spec

==============================================================================
