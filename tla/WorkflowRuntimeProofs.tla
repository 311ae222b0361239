------------------------- MODULE WorkflowRuntimeProofs -------------------------
(***************************************************************************)
(* Proofs about WorkflowRuntime, for any graphs, sessions, bounds and      *)
(* faults.                                                                 *)
(*                                                                         *)
(* One inductive invariant carries them all.  RowInv and SessionInv say of *)
(* the row, and of each session's copy of it, what holds even among racing *)
(* sessions; Solo says that, as long as no session went on from a row that *)
(* had changed, at most one session advances the run, from the row as it   *)
(* is, and knows of every child.  They are stated of records and not of    *)
(* variables, so that what is read stays true of the copy that is kept     *)
(* while the children and approvals it speaks of go on.                    *)
(***************************************************************************)
EXTENDS WorkflowRuntime, SequenceTheorems, FiniteSetTheorems, TLAPS

------------------------------------------------------------------------------
\* The invariant.

\* Nodes a run can be at, and nodes that a parallel node runs.
Reached(g) ==
  { g.entry, g.route } \cup { g.next[n][cond] : n \in Nodes, cond \in Condition } \cup {End}

IsBranch(b, g) == \E n \in Nodes : \E i \in DOMAIN g.children[n] : g.children[n][i] = b

BranchesApart(g) == \A b \in Nodes : IsBranch(b, g) => b \notin Reached(g)

\* What is told of a child has been true of it.
Told(status, c, ch) == c \in DOMAIN ch /\ (status = "completed" => ch[c].done)

\* The children noted in vars exist, each at its node.
Sound(v, g, ch) ==
  \A n \in Nodes :
    /\ v.agents[n] # None => v.agents[n] \in DOMAIN ch /\ ch[v.agents[n]].node = n
    /\ g.kind[n] = "agent" /\ v.branches[n] = "paused" => v.agents[n] # None

\* A branch whose child is noted is not started again.
Fresh(v, g) ==
  \A b \in Nodes : IsBranch(b, g) /\ v.agents[b] # None => v.branches[b] # "pending"

\* What lets the run past n; spent is consumed with the commit of what it let past.
Passable(n, spent, g, ch, ap) ==
  \/ g.onReject = "route_to" /\ \E a \in DOMAIN ap : ap[a].status = "rejected"
  \/ /\ g.kind[n] = "agent" =>
          \E c \in DOMAIN ch : ch[c].node = n /\ ch[c].done
     /\ g.kind[n] \in { "approval", "tool" } =>
          \E a \in DOMAIN ap :
            /\ ap[a].node = n
            /\ ap[a].status = "approved"
            /\ ap[a].consumed \/ a = spent

VarsInv(v, spent, g, ch, ap) ==
  /\ v \in Vars
  /\ Sound(v, g, ch)
  /\ BranchesApart(g) => Fresh(v, g)
  /\ \A n \in v.completed : Passable(n, spent, g, ch, ap)

RowInv(r, g, ch, ap) ==
  /\ r \in Row
  /\ VarsInv(r.vars, None, g, ch, ap)
  /\ r.cursor \in Reached(g)
  /\ r.status = "absent" => r = InitRow

ActivePC == { "working", "started", "performed" }
ReadPC == { "loaded", "rejecting" }

SessionInv(x, g, ch, ap) ==
  /\ x \in Session
  /\ RowInv(x.base, g, ch, ap)
  /\ VarsInv(x.vars, x.spent, g, ch, ap)
  /\ x.cursor \in Reached(g)
  /\ x.mine \subseteq DOMAIN ch
  /\ x.woke # None => x.saw # "active" /\ Told(x.saw, x.woke, ch)
  /\ x.granted # None => x.granted \in DOMAIN ap
  /\ x.pc \in { "started", "performed" } => x.cursor \in Nodes
  /\ x.pc = "decided" => x.granted # None
  /\ x.pc = "rejecting" =>
       x.granted = None /\ \E a \in DOMAIN ap : ap[a].status = "rejected"
  /\ x.pc \in ReadPC =>
       x.vars = x.base.vars /\ x.cursor = x.base.cursor /\ x.base.status \in Resumable
  /\ x.pc \in { "loaded", "working" } /\ x.granted # None /\ x.cursor # End =>
       (g.kind[x.cursor] \in { "approval", "tool" } =>
          /\ x.spent = x.granted
          /\ ap[x.granted].status = "approved"
          /\ ap[x.granted].node = x.cursor)
  /\ x.pc = "performed" =>
       /\ Passable(x.cursor, None, g, ch, ap)
       /\ x.granted = None
       /\ g.kind[x.cursor] \in { "tool", "trigger" }
  /\ x.pc = "started" =>
       \E c \in DOMAIN ch :
         /\ x.mine = {c}
         /\ g.kind[x.cursor] = "agent" => ch[c].node = x.cursor
         /\ g.kind[x.cursor] = "parallel" => IsBranch(ch[c].node, g)

\* vars knows of the children but those in rest.
Knows(v, ch, rest) == \A c \in DOMAIN ch \ rest : v.agents[ch[c].node] = c

OneEach(ch) == \A c, d \in DOMAIN ch : ch[c].node = ch[d].node => c = d

Active(s) == sess[s].pc \in ActivePC

\* The children the session has still to note.
ToNote(x) == IF x.pc = "started" THEN x.mine ELSE {}

Alone(s) ==
  /\ sess[s].base = row
  /\ row.status \notin RunTerminal
  /\ lock = s \/ row.status = "running"
  /\ BranchesApart(graph) => Knows(sess[s].vars, child, ToNote(sess[s]))

Solo ==
  /\ \A s \in Sessions : Active(s) => Alone(s)
  /\ \A s, t \in Sessions : Active(s) /\ Active(t) => s = t
  /\ row.status = "running" => stranded \/ \E s \in Sessions : Active(s)
  /\ BranchesApart(graph) =>
       OneEach(child) /\ (row.status # "running" => Knows(row.vars, child, {}))

Aux ==
  /\ timer \subseteq Nodes
  /\ due \subseteq Nodes
  /\ hook \subseteq HookCall
  /\ \A h \in hook : Told(h.status, h.child, child)
  /\ \A c \in DOMAIN child : Told(child[c].status, c, child)
  /\ missed \subseteq DOMAIN child
  /\ disturbances \in 0 .. MaxDisturbances
  /\ raced \in BOOLEAN
  /\ stranded \in BOOLEAN

Rows ==
  /\ graph \in Graphs
  /\ child \in Seq(Child) /\ Len(child) <= MaxChildren
  /\ approval \in Seq(Approval) /\ Len(approval) <= MaxApprovals
  /\ childRow \subseteq DOMAIN child
  /\ lock \in Sessions \cup {Nobody}
  /\ sess \in [Sessions -> Session]

Inv ==
  /\ Rows
  /\ Aux
  /\ RowInv(row, graph, child, approval)
  /\ \A s \in Sessions : SessionInv(sess[s], graph, child, approval)
  /\ ~raced => Solo

------------------------------------------------------------------------------
\* What is true of a record stays true while children end and approvals are decided.

KeptChildren(ch, ch2) ==
  /\ DOMAIN ch \subseteq DOMAIN ch2
  /\ \A c \in DOMAIN ch :
       /\ ch2[c].node = ch[c].node
       /\ ch[c].done => ch2[c].done

KeptApprovals(ap, ap2) ==
  /\ DOMAIN ap \subseteq DOMAIN ap2
  /\ \A a \in DOMAIN ap :
       /\ ap2[a].node = ap[a].node
       /\ ap[a].status \in { "approved", "rejected" } => ap2[a].status = ap[a].status
       /\ ap[a].consumed => ap2[a].consumed

LEMMA SameKept == ASSUME NEW ch, NEW ap PROVE KeptChildren(ch, ch) /\ KeptApprovals(ap, ap)
  BY DEF KeptChildren, KeptApprovals

\* By the time spent is consumed, what it let past needs it no more.
LEMMA PassableKept ==
  ASSUME NEW n, NEW sp, NEW sp2, NEW g, NEW ch, NEW ap, NEW ch2, NEW ap2,
         Passable(n, sp, g, ch, ap), KeptChildren(ch, ch2), KeptApprovals(ap, ap2),
         sp = sp2 \/ (sp \in DOMAIN ap => ap2[sp].consumed)
  PROVE  Passable(n, sp2, g, ch2, ap2)
<1> DEFINE routed == g.onReject = "route_to" /\ \E a \in DOMAIN ap : ap[a].status = "rejected"
<1>1. CASE routed
  BY <1>1 DEF Passable, KeptApprovals
<1>2. ASSUME ~routed, g.kind[n] = "agent"
      PROVE  \E c \in DOMAIN ch2 : ch2[c].node = n /\ ch2[c].done
  <2>1. PICK c \in DOMAIN ch : ch[c].node = n /\ ch[c].done
    BY <1>2 DEF Passable
  <2> QED BY <2>1 DEF KeptChildren
<1>3. ASSUME ~routed, g.kind[n] \in { "approval", "tool" }
      PROVE  \E a \in DOMAIN ap2 :
               /\ ap2[a].node = n
               /\ ap2[a].status = "approved"
               /\ ap2[a].consumed \/ a = sp2
  <2>1. PICK a \in DOMAIN ap :
          /\ ap[a].node = n
          /\ ap[a].status = "approved"
          /\ ap[a].consumed \/ a = sp
    BY <1>3 DEF Passable
  <2>2. a \in DOMAIN ap2 /\ ap2[a].node = ap[a].node /\ ap2[a].status = "approved"
    BY <2>1 DEF KeptApprovals
  <2>3. ap2[a].consumed \/ a = sp2
    BY <2>1 DEF KeptApprovals
  <2> QED BY <2>1, <2>2, <2>3
<1> QED BY <1>1, <1>2, <1>3 DEF Passable

\* What needs nothing of spent stays passable whatever is spent.
LEMMA PassableMore ==
  ASSUME NEW n, NEW sp, NEW g, NEW ch, NEW T, NEW ap \in Seq(T), Passable(n, None, g, ch, ap)
  PROVE  Passable(n, sp, g, ch, ap)
  BY DEF Passable, None

LEMMA VarsKept ==
  ASSUME NEW v, NEW sp, NEW sp2, NEW g, NEW ch, NEW ap, NEW ch2, NEW ap2,
         VarsInv(v, sp, g, ch, ap), KeptChildren(ch, ch2), KeptApprovals(ap, ap2),
         sp = sp2 \/ (sp \in DOMAIN ap => ap2[sp].consumed)
  PROVE  VarsInv(v, sp2, g, ch2, ap2)
<1>1. Sound(v, g, ch2)
  BY DEF VarsInv, Sound, KeptChildren
<1>2. \A n \in v.completed : Passable(n, sp2, g, ch2, ap2)
  BY PassableKept DEF VarsInv
<1> QED BY <1>1, <1>2 DEF VarsInv

LEMMA RowKept ==
  ASSUME NEW r, NEW g, NEW ch, NEW ap, NEW ch2, NEW ap2,
         RowInv(r, g, ch, ap), KeptChildren(ch, ch2), KeptApprovals(ap, ap2)
  PROVE  RowInv(r, g, ch2, ap2)
  BY VarsKept DEF RowInv

LEMMA SessionKept ==
  ASSUME NEW x, NEW g, NEW ch, NEW ap, NEW ch2, NEW ap2,
         SessionInv(x, g, ch, ap), KeptChildren(ch, ch2), KeptApprovals(ap, ap2)
  PROVE  SessionInv(x, g, ch2, ap2)
<1>1. RowInv(x.base, g, ch2, ap2)
  BY RowKept DEF SessionInv
<1>2. VarsInv(x.vars, x.spent, g, ch2, ap2)
  BY VarsKept DEF SessionInv
<1>3. x.pc = "performed" => Passable(x.cursor, None, g, ch2, ap2)
  BY PassableKept DEF SessionInv
<1>4. x.pc = "started" =>
        \E c \in DOMAIN ch2 :
          /\ x.mine = {c}
          /\ g.kind[x.cursor] = "agent" => ch2[c].node = x.cursor
          /\ g.kind[x.cursor] = "parallel" => IsBranch(ch2[c].node, g)
  BY DEF SessionInv, KeptChildren
<1>5. x.pc = "rejecting" => \E a \in DOMAIN ap2 : ap2[a].status = "rejected"
  BY DEF SessionInv, KeptApprovals
<1>6. x.granted # None => x.granted \in DOMAIN ap2
  BY DEF SessionInv, KeptApprovals
<1>7. x.pc \in { "loaded", "working" } /\ x.granted # None /\ x.cursor # End =>
        (g.kind[x.cursor] \in { "approval", "tool" } =>
           /\ x.spent = x.granted
           /\ ap2[x.granted].status = "approved"
           /\ ap2[x.granted].node = x.cursor)
  BY DEF SessionInv, KeptApprovals
<1>8. /\ x.mine \subseteq DOMAIN ch2
      /\ x.woke # None => x.saw # "active" /\ Told(x.saw, x.woke, ch2)
  BY DEF SessionInv, KeptChildren, Told
<1> QED BY <1>1, <1>2, <1>3, <1>4, <1>5, <1>6, <1>7, <1>8 DEF SessionInv

------------------------------------------------------------------------------
\* The commits of a session.

LEMMA NotAnIndex == ASSUME NEW T, NEW q \in Seq(T) PROVE None \notin DOMAIN q
  BY DEF None

LEMMA SavedApprovalsKeep ==
  ASSUME Rows, NEW s \in Sessions, sess[s].made \in Seq(Nodes), NEW new \in Seq(Nodes),
         NEW q, q = SavedApprovals(s, new),
         Len(approval) + Len(sess[s].made) + Len(new) <= MaxApprovals
  PROVE  /\ q \in Seq(Approval)
         /\ Len(q) <= MaxApprovals
         /\ KeptApprovals(approval, q)
         /\ sess[s].spent \in DOMAIN approval => q[sess[s].spent].consumed
<1> DEFINE more == sess[s].made \o new
           old == [a \in DOMAIN approval |->
                     IF a = sess[s].spent THEN [approval[a] EXCEPT !.consumed = TRUE]
                     ELSE approval[a]]
           fresh == [i \in DOMAIN more |-> NewApproval(more[i])]
<1>1. more \in Seq(Nodes) /\ Len(more) = Len(sess[s].made) + Len(new)
  OBVIOUS
<1>2. approval \in Seq(Approval)
  BY DEF Rows
<1>3. old \in Seq(Approval) /\ Len(old) = Len(approval)
  <2>1. \A a \in DOMAIN approval : old[a] \in Approval
    <3> SUFFICES ASSUME NEW a \in DOMAIN approval PROVE old[a] \in Approval
      OBVIOUS
    <3>1. approval[a] \in Approval
      BY <1>2
    <3>2. [approval[a] EXCEPT !.consumed = TRUE] \in Approval
      BY <3>1 DEF Approval
    <3> QED BY <3>1, <3>2
  <2>2. DOMAIN approval = 1 .. Len(approval) /\ Len(approval) \in Nat
    BY <1>2
  <2> HIDE DEF old
  <2>3. old = [a \in 1 .. Len(approval) |-> old[a]]
    BY <2>2 DEF old
  <2> QED BY <2>1, <2>2, <2>3
<1>4. fresh \in Seq(Approval) /\ Len(fresh) = Len(more)
  <2> HIDE DEF more
  <2>1. \A i \in DOMAIN more : fresh[i] \in Approval
    BY <1>1 DEF NewApproval, Approval
  <2>2. DOMAIN more = 1 .. Len(more) /\ Len(more) \in Nat
    BY <1>1
  <2> HIDE DEF fresh
  <2>3. fresh = [i \in 1 .. Len(more) |-> fresh[i]]
    BY <2>2 DEF fresh
  <2> QED BY <2>1, <2>2, <2>3
<1>5. q = old \o fresh
  BY DEF SavedApprovals
<1>6. /\ \A a \in DOMAIN approval : old[a].node = approval[a].node
      /\ \A a \in DOMAIN approval : old[a].status = approval[a].status
      /\ \A a \in DOMAIN approval : approval[a].consumed => old[a].consumed
      /\ sess[s].spent \in DOMAIN approval => old[sess[s].spent].consumed
  BY <1>2 DEF Approval
<1> HIDE DEF old, fresh, more
<1>7. /\ q \in Seq(Approval) /\ Len(q) = Len(approval) + Len(more)
      /\ \A a \in DOMAIN approval : a \in DOMAIN q /\ q[a] = old[a]
  <2>1. q \in Seq(Approval) /\ Len(q) = Len(old) + Len(fresh)
    BY <1>3, <1>4, <1>5, ConcatProperties, Zenon
  <2>2. \A i \in 1 .. Len(old) : i \in DOMAIN q /\ q[i] = old[i]
    BY <1>3, <1>4, <1>5
  <2>3. DOMAIN approval = 1 .. Len(approval)
    BY <1>2
  <2> QED BY <1>3, <1>4, <2>1, <2>2, <2>3
<1>8. Len(q) <= MaxApprovals
  BY <1>1, <1>7, <1>2, ConstantsAssumption
<1>9. KeptApprovals(approval, q)
  BY <1>6, <1>7 DEF KeptApprovals
<1> QED BY <1>6, <1>7, <1>8, <1>9

\* A column is either the session's or the row's as it is.
LEMMA SavedRow ==
  ASSUME NEW s, NEW status \in RunStatus \ {"absent"}, NEW cursor, NEW v,
         NEW g, NEW ch, NEW ap, RowInv(row, g, ch, ap), VarsInv(v, None, g, ch, ap),
         cursor \in Reached(g), cursor \in Nodes \cup {End},
         NEW r, r = Saved(s, status, cursor, v)
  PROVE  RowInv(r, g, ch, ap) /\ r.status = status
<1>1. r.status = status /\ r.vars \in { v, row.vars } /\ r.cursor \in { cursor, row.cursor }
  BY DEF Saved
<1>2. r \in Row
  BY DEF Saved, Row, RowInv, VarsInv
<1>3. RowInv(r, g, ch, ap)
  BY <1>1, <1>2 DEF RowInv
<1> QED BY <1>1, <1>3

------------------------------------------------------------------------------
\* The steps a session can take: it changes only itself, it ends, it commits on the way.

\* What every step leaves as it is, and the history it adds to.
Frame ==
  /\ graph' = graph
  /\ Aux'
  /\ raced => raced'
  /\ stranded => stranded'

\* The other sessions stay what they were.
LEMMA OthersKeep ==
  ASSUME Inv, NEW s \in Sessions, NEW x, sess' = [sess EXCEPT ![s] = x],
         NEW ch, NEW ap, KeptChildren(child, ch), KeptApprovals(approval, ap),
         SessionInv(x, graph, ch, ap)
  PROVE  /\ sess'[s] = x
         /\ \A t \in Sessions \ {s} : sess'[t] = sess[t]
         /\ sess' \in [Sessions -> Session]
         /\ \A t \in Sessions : SessionInv(sess'[t], graph, ch, ap)
<1>1. x \in Session /\ sess \in [Sessions -> Session]
  BY DEF SessionInv, Inv, Rows
<1>2. /\ sess'[s] = x
      /\ \A t \in Sessions \ {s} : sess'[t] = sess[t]
      /\ sess' \in [Sessions -> Session]
  BY <1>1
<1>3. \A t \in Sessions : SessionInv(sess'[t], graph, ch, ap)
  BY <1>2, SessionKept DEF Inv
<1> QED BY <1>2, <1>3

LEMMA SessionStep ==
  ASSUME Inv, NEW s \in Sessions, NEW x, sess' = [sess EXCEPT ![s] = x], Frame,
         UNCHANGED << row, child, childRow >>,
         approval' \in Seq(Approval), Len(approval') <= MaxApprovals,
         KeptApprovals(approval, approval'),
         lock' \in Sessions \cup {Nobody},
         SessionInv(x, graph, child, approval'),
         ~raced' /\ x.pc \in ActivePC =>
           /\ x.base = row
           /\ row.status \notin RunTerminal
           /\ lock' = s \/ row.status = "running"
           /\ BranchesApart(graph) => Knows(x.vars, child, ToNote(x))
           /\ \A t \in Sessions \ {s} : ~Active(t),
         ~raced' /\ x.pc \notin ActivePC =>
           /\ \A t \in Sessions \ {s} : Active(t) /\ lock = t => lock' = t
           /\ Active(s) /\ row.status = "running" => stranded'
  PROVE  Inv'
<1>1. /\ sess'[s] = x
      /\ \A t \in Sessions \ {s} : sess'[t] = sess[t]
      /\ sess' \in [Sessions -> Session]
      /\ \A t \in Sessions : SessionInv(sess'[t], graph, child, approval')
  BY OthersKeep, SameKept
<1>2. Rows' /\ Aux'
  BY <1>1 DEF Inv, Rows, Frame
<1>3. RowInv(row, graph, child, approval')
  BY RowKept, SameKept DEF Inv
<1>4. ASSUME ~raced' PROVE Solo'
  <2>1. Solo
    BY <1>4 DEF Inv, Frame
  <2>2. \A t \in Sessions \ {s} : Active(t)' <=> Active(t)
    BY <1>1 DEF Active
  <2>3. Active(s)' <=> x.pc \in ActivePC
    BY <1>1 DEF Active
  <2>4. ASSUME NEW t \in Sessions, Active(t)' PROVE Alone(t)'
    <3>1. CASE t = s
      BY <1>1, <1>4, <2>3, <2>4, <3>1 DEF Alone, Frame
    <3>2. CASE t # s
      <4>1. Active(t) /\ Alone(t) /\ sess'[t] = sess[t]
        BY <1>1, <2>1, <2>2, <2>4, <3>2 DEF Solo
      <4>2. x.pc \notin ActivePC
        BY <1>4, <3>2, <4>1
      <4>3. lock = t => lock' = t
        BY <1>4, <3>2, <4>1, <4>2
      <4> QED BY <4>1, <4>3 DEF Alone, Frame
    <3> QED BY <3>1, <3>2
  <2>5. ASSUME NEW t \in Sessions, NEW u \in Sessions, Active(t)', Active(u)' PROVE t = u
    BY <1>4, <2>1, <2>2, <2>3, <2>5 DEF Solo
  <2>6. ASSUME row'.status = "running" PROVE stranded' \/ \E t \in Sessions : Active(t)'
    BY <1>4, <2>1, <2>2, <2>3, <2>6 DEF Solo, Frame
  <2>7. BranchesApart(graph') =>
          OneEach(child') /\ (row'.status # "running" => Knows(row'.vars, child', {}))
    BY <2>1 DEF Solo, Frame
  <2> QED BY <2>4, <2>5, <2>6, <2>7 DEF Solo
<1> QED BY <1>1, <1>2, <1>3, <1>4 DEF Inv, Frame

\* A session that advances the run goes on, and nothing of the run changes.
LEMMA OnwardStep ==
  ASSUME Inv, NEW s \in Sessions, Active(s), NEW x, sess' = [sess EXCEPT ![s] = x],
         graph' = graph, Aux', UNCHANGED << row, child, childRow, approval, raced, stranded >>,
         lock' \in { lock, s },
         SessionInv(x, graph, child, approval),
         x.pc = "working", x.base = sess[s].base,
         OneEach(child) /\ Knows(sess[s].vars, child, ToNote(sess[s])) =>
           Knows(x.vars, child, {})
  PROVE  Inv'
<1>1. ToNote(x) = {}
  BY DEF ToNote
<1>2. lock' \in Sessions \cup {Nobody}
  BY DEF Inv, Rows
<1>3. ASSUME ~raced'
      PROVE  /\ Alone(s)
             /\ \A t \in Sessions \ {s} : ~Active(t)
             /\ BranchesApart(graph) => OneEach(child)
  BY <1>3 DEF Inv, Solo
<1>4. approval' \in Seq(Approval) /\ Len(approval') <= MaxApprovals
  BY DEF Inv, Rows
<1>5. Frame
  BY DEF Frame
<1>6. ~raced' =>
           /\ x.base = row
           /\ row.status \notin RunTerminal
           /\ lock' = s \/ row.status = "running"
           /\ BranchesApart(graph) => Knows(x.vars, child, ToNote(x))
           /\ \A t \in Sessions \ {s} : ~Active(t)
  BY <1>1, <1>3 DEF Alone
<1>7. x.pc \in ActivePC
  BY DEF ActivePC
<1> QED BY <1>2, <1>4, <1>5, <1>6, <1>7, SessionStep, SameKept

\* A session that does not advance the run does something else.
LEMMA ReadStep ==
  ASSUME Inv, NEW s \in Sessions, ~Active(s), NEW x, sess' = [sess EXCEPT ![s] = x],
         graph' = graph, Aux', UNCHANGED << row, child, childRow, raced, stranded, lock >>,
         approval' \in Seq(Approval), Len(approval') <= MaxApprovals,
         KeptApprovals(approval, approval'),
         SessionInv(x, graph, child, approval'), x.pc \notin ActivePC
  PROVE  Inv'
<1>1. lock' \in Sessions \cup {Nobody}
  BY DEF Inv, Rows
<1>2. Frame
  BY DEF Frame
<1> QED BY <1>1, <1>2, SessionStep

LEMMA IdleInv ==
  ASSUME NEW g, NEW ch, NEW ap, RowInv(InitRow, g, ch, ap)
  PROVE  SessionInv(IdleSession, g, ch, ap)
<1> DEFINE x == IdleSession
<1>1. x \in Session
  BY ConstantsAssumption DEF IdleSession, Session, RowInv, Row, InitRow, None, ChildStatus
<1>2. /\ x.pc = "idle" /\ x.base = InitRow /\ x.vars = InitRow.vars /\ x.spent = None
      /\ x.cursor = InitRow.cursor /\ x.mine = {} /\ x.woke = None /\ x.granted = None
  BY DEF IdleSession, InitRow
<1> HIDE DEF x
<1>3. SessionInv(x, g, ch, ap)
  BY <1>1, <1>2 DEF SessionInv, RowInv, ReadPC
<1> QED BY <1>3 DEF x

LEMMA InitRowInv ==
  ASSUME NEW g \in Graphs, NEW ch, NEW ap
  PROVE  RowInv(InitRow, g, ch, ap)
<1>1. InitVars \in Vars
  BY ConstantsAssumption DEF InitVars, Vars, BranchStatus, Condition, None
<1>2. /\ InitRow.vars = InitVars /\ InitRow.cursor = End
      /\ \A n \in Nodes : InitVars.agents[n] = None /\ InitVars.branches[n] = "pending"
      /\ InitVars.completed = {}
  BY DEF InitRow, InitVars
<1>3. InitRow \in Row
  BY <1>1 DEF InitRow, Row, RunStatus
<1>4. VarsInv(InitVars, None, g, ch, ap)
  BY <1>1, <1>2 DEF VarsInv, Sound, Fresh
<1>5. End \in Reached(g)
  BY DEF Reached
<1> QED BY <1>2, <1>3, <1>4, <1>5 DEF RowInv

LEMMA FinishStep ==
  ASSUME Inv, NEW s \in Sessions, NEW status \in RunStatus \ {"absent"}, NEW cursor, NEW v,
         NEW new \in Seq(Nodes), Finish(s, status, cursor, v, new),
         Frame, child' = child,
         cursor \in Reached(graph), cursor \in Nodes \cup {End},
         VarsInv(v, sess[s].spent, graph, child, approval),
         ~raced' =>
           /\ sess[s].base = row
           /\ \A t \in Sessions \ {s} : ~Active(t)
           /\ status = "running" => stranded'
           /\ BranchesApart(graph) /\ status # "running" => Knows(v, child, {})
  PROVE  Inv'
<1>1. SessionInv(sess[s], graph, child, approval) /\ sess[s] \in Session
  BY DEF Inv, SessionInv
<1>2. sess[s].made \in Seq(Nodes) /\ sess[s].mine \subseteq DOMAIN child
  BY <1>1 DEF Session, SessionInv
<1>3. /\ approval' = SavedApprovals(s, new)
      /\ row' = Saved(s, status, cursor, v)
      /\ childRow' = childRow \cup sess[s].mine
      /\ lock' = Nobody
      /\ sess' = [sess EXCEPT ![s] = IdleSession]
      /\ Len(approval) + Len(sess[s].made) + Len(new) <= MaxApprovals
  BY DEF Finish
<1>4. /\ approval' \in Seq(Approval)
      /\ Len(approval') <= MaxApprovals
      /\ KeptApprovals(approval, approval')
      /\ sess[s].spent \in DOMAIN approval => approval'[sess[s].spent].consumed
  BY <1>2, <1>3, SavedApprovalsKeep DEF Inv
<1>5. VarsInv(v, None, graph, child, approval')
  BY <1>4, VarsKept, SameKept
<1>6. RowInv(row, graph, child, approval')
  BY <1>4, RowKept, SameKept DEF Inv
<1>7. /\ RowInv(row', graph, child, approval')
      /\ row'.status = status
      /\ sess[s].base = row => row'.vars = v
  <2>1. RowInv(row', graph, child, approval')
    BY <1>3, <1>5, <1>6, SavedRow
  <2>2. row'.status = status /\ (sess[s].base = row => row'.vars = v)
    BY <1>3 DEF Saved
  <2> QED BY <2>1, <2>2
<1>8. SessionInv(IdleSession, graph, child, approval')
  BY InitRowInv, IdleInv DEF Inv, Rows
<1>9. /\ sess'[s] = IdleSession
      /\ \A t \in Sessions \ {s} : sess'[t] = sess[t]
      /\ sess' \in [Sessions -> Session]
      /\ \A t \in Sessions : SessionInv(sess'[t], graph, child, approval')
  BY <1>3, <1>4, <1>8, OthersKeep, SameKept
<1>10. Rows' /\ Aux'
  BY <1>2, <1>3, <1>4, <1>9 DEF Inv, Rows, Frame
<1>11. ASSUME ~raced' PROVE Solo'
  <2>1. Solo
    BY <1>11 DEF Inv, Frame
  <2>2. \A t \in Sessions : ~Active(t)'
    BY <1>9, <1>11 DEF Active, IdleSession, ActivePC
  <2>3. row'.status = "running" => stranded'
    BY <1>7, <1>11
  <2>4. BranchesApart(graph') =>
          OneEach(child') /\ (row'.status # "running" => Knows(row'.vars, child', {}))
    BY <1>7, <1>11, <2>1 DEF Solo, Frame
  <2> QED BY <2>2, <2>3, <2>4 DEF Solo
<1> QED BY <1>7, <1>9, <1>10, <1>11 DEF Inv, Frame

\* The session that advances the run ends: only what it knows is left to show.
LEMMA EndStep ==
  ASSUME Inv, NEW s \in Sessions, Active(s), NEW status \in RunStatus \ {"absent"},
         NEW cursor, NEW v, NEW new \in Seq(Nodes), Finish(s, status, cursor, v, new),
         Frame, raced' = raced, child' = child,
         cursor \in Reached(graph), cursor \in Nodes \cup {End},
         VarsInv(v, sess[s].spent, graph, child, approval),
         status = "running" => stranded',
         OneEach(child) /\ Knows(sess[s].vars, child, ToNote(sess[s])) => Knows(v, child, {})
  PROVE  Inv'
<1>1. ASSUME ~raced'
      PROVE  /\ Alone(s)
             /\ \A t \in Sessions \ {s} : ~Active(t)
             /\ BranchesApart(graph) => OneEach(child)
  BY <1>1 DEF Inv, Solo
<1>2. ~raced' =>
           /\ sess[s].base = row
           /\ \A t \in Sessions \ {s} : ~Active(t)
           /\ status = "running" => stranded'
           /\ BranchesApart(graph) /\ status # "running" => Knows(v, child, {})
  BY <1>1 DEF Alone
<1> QED BY <1>2, FinishStep

LEMMA CommitApprovals ==
  ASSUME Inv, NEW s \in Sessions, CommitOnTheWay(s)
  PROVE  /\ approval' \in Seq(Approval)
         /\ Len(approval') <= MaxApprovals
         /\ KeptApprovals(approval, approval')
         /\ sess[s].spent \in DOMAIN approval => approval'[sess[s].spent].consumed
<1>1. sess[s].made \in Seq(Nodes)
  BY DEF Inv, SessionInv, Session
<1>2. approval' = SavedApprovals(s, << >>) /\ Len(approval) + Len(sess[s].made) <= MaxApprovals
  BY DEF CommitOnTheWay
<1>3. << >> \in Seq(Nodes) /\ Len(<< >>) = 0
  OBVIOUS
<1>4. Len(approval) + Len(sess[s].made) + Len(<< >>) <= MaxApprovals
  BY <1>1, <1>2, <1>3 DEF Inv, Rows
<1> QED BY <1>1, <1>2, <1>3, <1>4, SavedApprovalsKeep DEF Inv

LEMMA CommitStep ==
  ASSUME Inv, NEW s \in Sessions, Active(s), CommitOnTheWay(s), NEW x,
         sess' = [sess EXCEPT ![s] = x],
         Frame, raced' = raced,
         child' \in Seq(Child), Len(child') <= MaxChildren, KeptChildren(child, child'),
         \A c \in DOMAIN child : child'[c].node = child[c].node,
         RowInv(row', graph, child', approval') => SessionInv(x, graph, child', approval'),
         x.pc \in ActivePC => x.base = row',
         x.pc \notin ActivePC => stranded',
         ~raced /\ BranchesApart(graph) /\ OneEach(child)
           /\ Knows(sess[s].vars, child, ToNote(sess[s])) =>
           /\ OneEach(child')
           /\ x.pc \in ActivePC => Knows(x.vars, child', ToNote(x))
  PROVE  Inv'
<1>1. SessionInv(sess[s], graph, child, approval) /\ sess[s] \in Session
  BY DEF Inv, SessionInv
<1>2. /\ sess[s].made \in Seq(Nodes) /\ sess[s].mine \subseteq DOMAIN child
      /\ sess[s].cursor \in Nodes \cup {End} /\ sess[s].cursor \in Reached(graph)
      /\ VarsInv(sess[s].base.vars, None, graph, child, approval)
  BY <1>1 DEF Session, SessionInv, RowInv
<1>3. /\ row' = Saved(s, "running", sess[s].cursor, sess[s].base.vars)
      /\ childRow' = childRow \cup sess[s].mine
      /\ lock' = Nobody
  BY DEF CommitOnTheWay
<1>4. /\ approval' \in Seq(Approval)
      /\ Len(approval') <= MaxApprovals
      /\ KeptApprovals(approval, approval')
  BY CommitApprovals
<1>5. VarsInv(sess[s].base.vars, None, graph, child', approval')
  BY <1>2, <1>4, VarsKept
<1>6. RowInv(row, graph, child', approval')
  BY <1>4, RowKept DEF Inv
<1>7. RowInv(row', graph, child', approval') /\ row'.status = "running"
  <2>1. "running" \in RunStatus \ {"absent"}
    BY DEF RunStatus
  <2> QED BY <1>2, <1>3, <1>5, <1>6, <2>1, SavedRow
<1>8. SessionInv(x, graph, child', approval')
  BY <1>7
<1>9. /\ sess'[s] = x
      /\ \A t \in Sessions \ {s} : sess'[t] = sess[t]
      /\ sess' \in [Sessions -> Session]
      /\ \A t \in Sessions : SessionInv(sess'[t], graph, child', approval')
  BY <1>4, <1>8, OthersKeep
<1>10. childRow' \subseteq DOMAIN child'
  BY <1>2, <1>3 DEF Inv, Rows, KeptChildren
<1>11. Rows' /\ Aux'
  BY <1>3, <1>4, <1>9, <1>10 DEF Inv, Rows, Frame
<1>12. ASSUME ~raced' PROVE Solo'
  <2>1. Solo /\ ~raced
    BY <1>12 DEF Inv, Frame
  <2>2. Alone(s) /\ \A t \in Sessions \ {s} : ~Active(t)
    BY <2>1 DEF Solo
  <2>3. \A t \in Sessions \ {s} : ~Active(t)'
    BY <1>9, <2>2 DEF Active
  <2>4. Active(s)' <=> x.pc \in ActivePC
    BY <1>9 DEF Active
  <2>5. BranchesApart(graph) =>
          OneEach(child') /\ (x.pc \in ActivePC => Knows(x.vars, child', ToNote(x)))
    BY <2>1, <2>2 DEF Solo, Alone
  <2>6. Active(s)' => Alone(s)'
    BY <1>7, <1>9, <2>4, <2>5 DEF Alone, Frame, RunTerminal
  <2>7. stranded' \/ Active(s)'
    BY <2>4
  <2>8. BranchesApart(graph') => OneEach(child')
    BY <2>5 DEF Frame
  <2> QED BY <1>7, <2>3, <2>6, <2>7, <2>8 DEF Solo
<1> QED BY <1>7, <1>9, <1>11, <1>12 DEF Inv, Frame

------------------------------------------------------------------------------
\* What a node does to vars.

\* The condition, the open approval and the delay bear on nothing.
LEMMA VarsAlike ==
  ASSUME NEW v, NEW w \in Vars, NEW sp, NEW g, NEW ch, NEW ap, VarsInv(v, sp, g, ch, ap),
         w.agents = v.agents, w.branches = v.branches, w.completed = v.completed
  PROVE  VarsInv(w, sp, g, ch, ap)
<1>1. Sound(w, g, ch)
  BY DEF VarsInv, Sound
<1>2. BranchesApart(g) => Fresh(w, g)
  BY DEF VarsInv, Fresh
<1> QED BY <1>1, <1>2 DEF VarsInv

LEMMA VarsFields ==
  ASSUME NEW v \in Vars
  PROVE  /\ \A a \in 0 .. MaxApprovals : [v EXCEPT !.approval = a] \in Vars
         /\ \A n \in Nodes \cup {End} : [v EXCEPT !.delay = n] \in Vars
         /\ \A cond \in Condition : [v EXCEPT !.condition = cond] \in Vars
         /\ \A n \in Nodes : [v EXCEPT !.completed = @ \cup {n}] \in Vars
         /\ \A q \in [Nodes -> BranchStatus] : [v EXCEPT !.branches = q] \in Vars
         /\ \A q \in [Nodes -> 0 .. MaxChildren] : [v EXCEPT !.agents = q] \in Vars
  BY DEF Vars

\* The node the run leaves is noted as completed.
LEMMA VarsDone ==
  ASSUME NEW v, NEW n \in Nodes, NEW sp, NEW g, NEW ch, NEW ap, VarsInv(v, sp, g, ch, ap),
         Passable(n, sp, g, ch, ap), NEW w, w = [v EXCEPT !.completed = @ \cup {n}]
  PROVE  VarsInv(w, sp, g, ch, ap) /\ w.agents = v.agents
<1>1. v \in Vars
  BY DEF VarsInv
<1>2. w \in Vars
  BY <1>1, VarsFields
<1>3. w.agents = v.agents /\ w.branches = v.branches /\ w.completed = v.completed \cup {n}
  BY <1>1 DEF Vars
<1>4. Sound(w, g, ch)
  BY <1>3 DEF VarsInv, Sound
<1>5. BranchesApart(g) => Fresh(w, g)
  BY <1>3 DEF VarsInv, Fresh
<1> QED BY <1>2, <1>3, <1>4, <1>5 DEF VarsInv

\* Only agents counts for what vars knows of the children.
LEMMA KnowsAlike ==
  ASSUME NEW v, NEW w, w.agents = v.agents, NEW ch, NEW rest, Knows(v, ch, rest)
  PROVE  Knows(w, ch, rest)
  BY DEF Knows

\* Nodes that need neither a child nor an approval.
LEMMA PassableAnyway ==
  ASSUME NEW n, NEW sp, NEW g, NEW ch, NEW ap, g.kind[n] \notin { "agent", "approval", "tool" }
  PROVE  Passable(n, sp, g, ch, ap)
  BY DEF Passable

LEMMA GraphType ==
  ASSUME Inv
  PROVE  /\ graph \in Graph
         /\ graph.entry \in Nodes /\ graph.entry \in Reached(graph)
         /\ graph.route \in Nodes /\ graph.route \in Reached(graph)
         /\ End \in Reached(graph)
         /\ \A n \in Nodes, cond \in Condition :
              /\ graph.next[n][cond] \in Nodes \cup {End}
              /\ graph.next[n][cond] \in Reached(graph)
<1>1. graph \in Graph
  BY GraphsAssumption DEF Inv, Rows
<1> QED BY <1>1 DEF Graph, Reached

------------------------------------------------------------------------------
\* Hopping to the next node.

\* A session that works on, at the node cursor and with vars v.
LEMMA WorkingInv ==
  ASSUME NEW x, NEW y, NEW g, NEW ch, NEW ap, SessionInv(x, g, ch, ap),
         x.pc \in { "working", "performed" }, y \in Session,
         y.pc = "working", y.base = x.base, y.spent = x.spent, y.mine = x.mine,
         y.woke = x.woke, y.saw = x.saw, y.granted = None,
         VarsInv(y.vars, y.spent, g, ch, ap), y.cursor \in Reached(g)
  PROVE  SessionInv(y, g, ch, ap)
  BY DEF SessionInv, ReadPC

LEMMA SessionHops ==
  ASSUME NEW x \in Session, NEW n \in Nodes \cup {End}, NEW w \in Vars
  PROVE  [x EXCEPT !.cursor = n, !.vars = w, !.branch = 1, !.steps = @ + 1,
                   !.granted = None, !.human = FALSE] \in Session
<1>1. x.steps + 1 \in Nat /\ 1 \in Nat \ {0} /\ None \in 0 .. MaxApprovals
  BY ConstantsAssumption DEF Session, None
<1> QED BY <1>1 DEF Session

LEMMA SessionCommits ==
  ASSUME NEW x \in Session, NEW r \in Row, NEW w \in Vars
  PROVE  [x EXCEPT !.base = r, !.granted = None, !.spent = None, !.mine = {}, !.made = << >>,
                   !.pc = "performed", !.vars = w] \in Session
<1>1. None \in 0 .. MaxApprovals /\ {} \in SUBSET ChildId /\ << >> \in Seq(Nodes)
  BY ConstantsAssumption DEF None
<1> QED BY <1>1 DEF Session

LEMMA SessionGoesOn ==
  ASSUME NEW x \in Session, NEW n \in Nodes \cup {End}, NEW w \in Vars
  PROVE  [x EXCEPT !.pc = "working", !.cursor = n, !.vars = w, !.branch = 1, !.steps = @ + 1]
           \in Session
<1>1. x.steps + 1 \in Nat /\ 1 \in Nat \ {0}
  BY DEF Session
<1> QED BY <1>1 DEF Session

LEMMA SessionStarts ==
  ASSUME NEW x \in Session, NEW r \in Row, NEW c \in ChildId
  PROVE  [x EXCEPT !.base = r, !.pc = "started", !.granted = None, !.spent = None,
                   !.mine = {c}, !.made = << >>] \in Session
<1>1. None \in 0 .. MaxApprovals /\ {c} \in SUBSET ChildId /\ << >> \in Seq(Nodes)
  BY ConstantsAssumption DEF None
<1> QED BY <1>1 DEF Session

LEMMA SessionBranches ==
  ASSUME NEW x \in Session, NEW w \in Vars, NEW made \in Seq(Nodes)
  PROVE  /\ [x EXCEPT !.vars = w, !.branch = @ + 1, !.made = @ \o made] \in Session
         /\ [x EXCEPT !.pc = "working", !.branch = @ + 1, !.vars = w] \in Session
<1>1. x.branch + 1 \in Nat \ {0} /\ x.made \o made \in Seq(Nodes)
  BY DEF Session
<1> QED BY <1>1 DEF Session

LEMMA HopStep ==
  ASSUME Inv, NEW s \in Sessions, sess[s].pc = "working", sess[s].cursor # End,
         NEW v, NEW cond \in Condition, Hop(s, v, cond),
         graph' = graph, Aux', UNCHANGED << child, raced, stranded >>,
         VarsInv(v, sess[s].spent, graph, child, approval), v.agents = sess[s].vars.agents,
         Passable(sess[s].cursor, sess[s].spent, graph, child, approval)
  PROVE  Inv'
<1> DEFINE here == sess[s].cursor
           next == graph.next[here][cond]
           done == [v EXCEPT !.completed = @ \cup {here}]
           x == [sess[s] EXCEPT !.cursor = next, !.vars = done, !.branch = 1,
                                !.steps = @ + 1, !.granted = None, !.human = FALSE]
<1>1. SessionInv(sess[s], graph, child, approval) /\ sess[s] \in Session
  BY DEF Inv, SessionInv
<1>2. here \in Nodes
  BY <1>1 DEF Session
<1>3. next \in Nodes \cup {End} /\ next \in Reached(graph)
  BY <1>2, GraphType
<1>4. VarsInv(done, sess[s].spent, graph, child, approval) /\ done.agents = v.agents
  BY <1>2, VarsDone
<1>5. ToNote(sess[s]) = {} /\ Active(s)
  BY DEF ToNote, Active, ActivePC
<1>6. Knows(sess[s].vars, child, ToNote(sess[s])) => Knows(done, child, {})
  BY <1>4, <1>5, KnowsAlike
<1>7. Frame
  BY DEF Frame
<1>8. CASE next = End
  <2>1. Finish(s, "completed", End, done, << >>)
    BY <1>8 DEF Hop
  <2>2. "completed" \in RunStatus \ {"absent"} /\ << >> \in Seq(Nodes)
    BY DEF RunStatus, RunTerminal
  <2> QED BY <1>3, <1>4, <1>5, <1>6, <1>7, <1>8, <2>1, <2>2, EndStep
<1>9. CASE next # End
  <2>1. GoOn(s, x)
    BY <1>9 DEF Hop
  <2>2. done \in Vars
    BY <1>4 DEF VarsInv
  <2>3. x \in Session
    BY <1>1, <1>3, <2>2, SessionHops
  <2>4. /\ x.pc = sess[s].pc /\ x.base = sess[s].base /\ x.spent = sess[s].spent
        /\ x.mine = sess[s].mine /\ x.granted = None
        /\ x.woke = sess[s].woke /\ x.saw = sess[s].saw
        /\ x.vars = done /\ x.cursor = next
    BY <1>1 DEF Session
  <2> HIDE DEF x
  <2>5. SessionInv(x, graph, child, approval)
    BY <1>1, <1>3, <1>4, <2>3, <2>4, WorkingInv
  <2>6. /\ sess' = [sess EXCEPT ![s] = x] /\ lock' = s
        /\ UNCHANGED << row, childRow, approval >>
    BY <2>1 DEF GoOn
  <2> QED BY <1>5, <1>6, <2>4, <2>5, <2>6, OnwardStep
<1> QED BY <1>8, <1>9

------------------------------------------------------------------------------
\* The nodes, one by one.

LEMMA HereFrame ==
  ASSUME Inv, NEW s, Here(s)
  PROVE  Frame /\ Aux' /\ graph' = graph /\ UNCHANGED << child, raced, stranded >>
  BY DEF Inv, Aux, Frame, Here

LEMMA OfSession ==
  ASSUME Inv, NEW s \in Sessions
  PROVE  /\ SessionInv(sess[s], graph, child, approval)
         /\ sess[s] \in Session
         /\ sess[s].vars \in Vars
         /\ VarsInv(sess[s].vars, sess[s].spent, graph, child, approval)
         /\ sess[s].cursor \in Reached(graph)
         /\ sess[s].cursor \in Nodes \cup {End}
         /\ sess[s].made \in Seq(Nodes)
  BY DEF Inv, SessionInv, VarsInv, Session

\* The run waits or ends at its node.
LEMMA StopStep ==
  ASSUME Inv, NEW s \in Sessions, sess[s].pc \in { "working", "performed" },
         NEW status \in RunStatus \ { "absent", "running" }, NEW v, NEW new \in Seq(Nodes),
         Finish(s, status, sess[s].cursor, v, new),
         Frame, UNCHANGED << child, raced >>,
         VarsInv(v, sess[s].spent, graph, child, approval), v.agents = sess[s].vars.agents
  PROVE  Inv'
<1>1. Active(s) /\ ToNote(sess[s]) = {}
  BY DEF Active, ActivePC, ToNote
<1>2. Knows(sess[s].vars, child, ToNote(sess[s])) => Knows(v, child, {})
  BY <1>1, KnowsAlike
<1>3. sess[s].cursor \in Reached(graph) /\ sess[s].cursor \in Nodes \cup {End}
  BY OfSession
<1> QED BY <1>1, <1>2, <1>3, EndStep

LEMMA EndIsNoNode == End \notin Nodes
  BY ConstantsAssumption

LEMMA Statuses ==
  { "paused", "waiting_approval", "waiting_input", "completed", "failed", "cancelled" }
    \subseteq RunStatus \ { "absent", "running" }
  BY DEF RunStatus, Resumable, RunTerminal

\* With the vars as they are.
LEMMA FailStep ==
  ASSUME Inv, NEW s \in Sessions, sess[s].pc \in { "working", "performed" }, Here(s),
         FailRun(s, sess[s].vars)
  PROVE  Inv'
<1>1. Finish(s, "failed", sess[s].cursor, sess[s].vars, << >>) /\ << >> \in Seq(Nodes)
  BY DEF FailRun
<1>2. VarsInv(sess[s].vars, sess[s].spent, graph, child, approval)
  BY OfSession
<1>3. "failed" \in RunStatus \ { "absent", "running" }
  BY Statuses
<1> QED BY <1>1, <1>2, <1>3, HereFrame, StopStep

LEMMA PauseStep ==
  ASSUME Inv, NEW s \in Sessions, sess[s].pc \in { "working", "performed" }, Here(s),
         NEW status \in Resumable, Pause(s, status, sess[s].vars, << >>)
  PROVE  Inv'
<1>1. Finish(s, status, sess[s].cursor, sess[s].vars, << >>) /\ << >> \in Seq(Nodes)
  BY DEF Pause
<1>2. VarsInv(sess[s].vars, sess[s].spent, graph, child, approval)
  BY OfSession
<1>3. status \in RunStatus \ { "absent", "running" }
  BY Statuses DEF Resumable
<1> QED BY <1>1, <1>2, <1>3, HereFrame, StopStep

LEMMA StepPastEndKeeps == ASSUME Inv, NEW s \in Sessions, StepPastEnd(s) PROVE Inv'
<1>1. /\ sess[s].pc = "working" /\ sess[s].cursor = End /\ Here(s)
      /\ Finish(s, "completed", sess[s].cursor, sess[s].vars, << >>) /\ << >> \in Seq(Nodes)
  BY DEF StepPastEnd
<1>2. VarsInv(sess[s].vars, sess[s].spent, graph, child, approval)
  BY OfSession
<1>3. "completed" \in RunStatus \ { "absent", "running" }
  BY Statuses
<1> QED BY <1>1, <1>2, <1>3, HereFrame, StopStep

\* A node that needs nobody hops with vars that are alike.
LEMMA FreeHop ==
  ASSUME Inv, NEW s \in Sessions, NEW kind \in Kind \ { "agent", "approval", "tool" },
         At(s, kind), NEW v \in Vars, NEW cond \in Condition, Hop(s, v, cond),
         graph' = graph, Aux', UNCHANGED << child, raced, stranded >>,
         v.agents = sess[s].vars.agents, v.branches = sess[s].vars.branches,
         v.completed = sess[s].vars.completed
  PROVE  Inv'
<1>1. sess[s].pc = "working" /\ sess[s].cursor # End /\ graph.kind[sess[s].cursor] = kind
  BY DEF At
<1>2. VarsInv(v, sess[s].spent, graph, child, approval)
  BY OfSession, VarsAlike
<1>3. Passable(sess[s].cursor, sess[s].spent, graph, child, approval)
  BY <1>1, PassableAnyway
<1> QED BY <1>1, <1>2, <1>3, HopStep

LEMMA ConditionOfVars == ASSUME NEW v \in Vars PROVE v.condition \in Condition
  BY DEF Vars

LEMMA StepTriggerKeeps == ASSUME Inv, NEW s \in Sessions, StepTrigger(s) PROVE Inv'
<1>1. At(s, "trigger") /\ Here(s) /\ sess[s].pc = "working"
  BY DEF StepTrigger, At
<1>2. CASE Hop(s, sess[s].vars, sess[s].vars.condition)
  BY <1>1, <1>2, FreeHop, HereFrame, OfSession, ConditionOfVars DEF Kind
<1>3. CASE FailRun(s, sess[s].vars)
  BY <1>1, <1>3, FailStep
<1> QED BY <1>2, <1>3 DEF StepTrigger

LEMMA StepConditionKeeps == ASSUME Inv, NEW s \in Sessions, StepCondition(s) PROVE Inv'
<1>1. At(s, "condition") /\ Here(s)
  BY DEF StepCondition
<1>2. PICK cond \in { "true", "false" } : Hop(s, [sess[s].vars EXCEPT !.condition = cond], cond)
  BY DEF StepCondition
<1> DEFINE v == [sess[s].vars EXCEPT !.condition = cond]
<1>3. cond \in Condition
  BY DEF Condition
<1>4. v \in Vars
  BY <1>3, OfSession, VarsFields
<1>5. /\ v.agents = sess[s].vars.agents /\ v.branches = sess[s].vars.branches
      /\ v.completed = sess[s].vars.completed
  BY OfSession DEF Vars
<1>6. "condition" \in Kind \ { "agent", "approval", "tool" }
  BY DEF Kind
<1> HIDE DEF v
<1> QED BY <1>1, <1>2, <1>3, <1>4, <1>5, <1>6, FreeHop, HereFrame DEF v

LEMMA StepRouterKeeps == ASSUME Inv, NEW s \in Sessions, StepRouter(s) PROVE Inv'
<1>1. At(s, "router") /\ Here(s)
  BY DEF StepRouter
<1>2. PICK cond \in Condition : Hop(s, sess[s].vars, cond)
  BY DEF StepRouter
<1>3. "router" \in Kind \ { "agent", "approval", "tool" }
  BY DEF Kind
<1> QED BY <1>1, <1>2, <1>3, FreeHop, HereFrame, OfSession

LEMMA StepHumanInputKeeps == ASSUME Inv, NEW s \in Sessions, StepHumanInput(s) PROVE Inv'
<1>1. At(s, "human_input") /\ Here(s) /\ sess[s].pc = "working"
  BY DEF StepHumanInput, At
<1>2. CASE Hop(s, sess[s].vars, sess[s].vars.condition)
  BY <1>1, <1>2, FreeHop, HereFrame, OfSession, ConditionOfVars DEF Kind
<1>3. CASE Pause(s, "waiting_input", sess[s].vars, << >>)
  BY <1>1, <1>3, PauseStep DEF Resumable
<1> QED BY <1>2, <1>3 DEF StepHumanInput

LEMMA AskKeeps ==
  ASSUME Inv, NEW s \in Sessions, sess[s].pc = "working", sess[s].cursor # End,
         AskApproval(s), Here(s)
  PROVE  Inv'
<1>1. CASE Pause(s, "waiting_approval", sess[s].vars, << >>)
  BY <1>1, PauseStep DEF Resumable
<1>2. CASE Pause(s, "waiting_approval",
                 [sess[s].vars EXCEPT !.approval = Len(approval) + Len(sess[s].made) + 1],
                 << sess[s].cursor >>)
  <2> DEFINE a == Len(approval) + Len(sess[s].made) + 1
             v == [sess[s].vars EXCEPT !.approval = a]
             new == << sess[s].cursor >>
  <2>1. Finish(s, "waiting_approval", sess[s].cursor, v, new)
    BY <1>2 DEF Pause
  <2>2. new \in Seq(Nodes) /\ Len(new) = 1
    BY OfSession
  <2>3. Len(approval) + Len(sess[s].made) + Len(new) <= MaxApprovals
    BY <2>1 DEF Finish
  <2>4. Len(approval) \in Nat /\ Len(sess[s].made) \in Nat
    BY OfSession DEF Inv, Rows
  <2>5. a \in 0 .. MaxApprovals
    BY <2>2, <2>3, <2>4, ConstantsAssumption
  <2>6. v \in Vars
    BY <2>5, OfSession, VarsFields
  <2>7. /\ v.agents = sess[s].vars.agents /\ v.branches = sess[s].vars.branches
        /\ v.completed = sess[s].vars.completed
    BY OfSession DEF Vars
  <2> HIDE DEF v, new
  <2>8. VarsInv(v, sess[s].spent, graph, child, approval)
    BY <2>6, <2>7, OfSession, VarsAlike
  <2> QED BY <2>1, <2>2, <2>7, <2>8, HereFrame, StopStep, Statuses
<1> QED BY <1>1, <1>2 DEF AskApproval

\* The approval a session brought is of its node.
LEMMA GrantedPassable ==
  ASSUME Inv, NEW s \in Sessions, sess[s].pc = "working", sess[s].granted # None,
         sess[s].cursor # End, graph.kind[sess[s].cursor] \in { "approval", "tool" }
  PROVE  Passable(sess[s].cursor, sess[s].spent, graph, child, approval)
<1>1. /\ sess[s].granted \in DOMAIN approval
      /\ sess[s].spent = sess[s].granted
      /\ approval[sess[s].granted].status = "approved"
      /\ approval[sess[s].granted].node = sess[s].cursor
  BY DEF Inv, SessionInv
<1> QED BY <1>1 DEF Passable

\* The approval asked for is forgotten.
LEMMA NoApproval ==
  ASSUME Inv, NEW s \in Sessions, NEW v, v = [sess[s].vars EXCEPT !.approval = None]
  PROVE  /\ v \in Vars
         /\ v.agents = sess[s].vars.agents
         /\ VarsInv(v, sess[s].spent, graph, child, approval)
<1>1. None \in 0 .. MaxApprovals
  BY ConstantsAssumption DEF None
<1>2. v \in Vars
  BY <1>1, OfSession, VarsFields
<1>3. /\ v.agents = sess[s].vars.agents /\ v.branches = sess[s].vars.branches
      /\ v.completed = sess[s].vars.completed
  BY OfSession DEF Vars
<1> QED BY <1>2, <1>3, OfSession, VarsAlike

LEMMA StepApprovalKeeps == ASSUME Inv, NEW s \in Sessions, StepApproval(s) PROVE Inv'
<1>1. /\ sess[s].pc = "working" /\ sess[s].cursor # End /\ Here(s)
      /\ graph.kind[sess[s].cursor] = "approval"
  BY DEF StepApproval, At
<1>2. CASE AskApproval(s)
  BY <1>1, <1>2, AskKeeps
<1>3. CASE /\ sess[s].granted # None
           /\ Hop(s, [sess[s].vars EXCEPT !.approval = None], sess[s].vars.condition)
  <2>1. Passable(sess[s].cursor, sess[s].spent, graph, child, approval)
    BY <1>1, <1>3, GrantedPassable
  <2> QED BY <1>1, <1>3, <2>1, NoApproval, HopStep, HereFrame, OfSession, ConditionOfVars
<1> QED BY <1>2, <1>3 DEF StepApproval

LEMMA StepToolKeeps == ASSUME Inv, NEW s \in Sessions, StepTool(s) PROVE Inv'
<1>1. sess[s].pc = "working" /\ sess[s].cursor # End /\ Here(s)
  BY DEF StepTool, At
<1>2. CASE AskApproval(s)
  BY <1>1, <1>2, AskKeeps
<1>3. CASE FailRun(s, [sess[s].vars EXCEPT !.approval = None])
  <2>1. PICK v : v = [sess[s].vars EXCEPT !.approval = None]
    OBVIOUS
  <2>2. Finish(s, "failed", sess[s].cursor, v, << >>) /\ << >> \in Seq(Nodes)
    BY <1>3, <2>1 DEF FailRun
  <2> QED BY <1>1, <2>1, <2>2, NoApproval, StopStep, HereFrame, Statuses
<1>4. CASE FailRun(s, sess[s].vars)
  BY <1>1, <1>4, FailStep
<1> QED BY <1>2, <1>3, <1>4 DEF StepTool

LEMMA ToolCommitsKeeps == ASSUME Inv, NEW s \in Sessions, ToolCommits(s) PROVE Inv'
<1> DEFINE here == sess[s].cursor
           v == IF graph.kind[here] = "tool" THEN [sess[s].vars EXCEPT !.approval = None]
                ELSE sess[s].vars
           x == [sess[s] EXCEPT !.base = row', !.granted = None, !.spent = None, !.mine = {},
                                !.made = << >>, !.pc = "performed", !.vars = v]
<1>1. /\ sess[s].pc = "working" /\ here # End /\ Here(s) /\ CommitOnTheWay(s)
      /\ graph.kind[here] \in { "tool", "trigger" }
      /\ graph.kind[here] = "tool" => sess[s].granted # None
  BY DEF ToolCommits, At
<1>2. sess' = [sess EXCEPT ![s] = x]
  BY DEF ToolCommits
<1>3. /\ sess[s] \in Session /\ SessionInv(sess[s], graph, child, approval)
      /\ sess[s].cursor \in Nodes
  BY <1>1, OfSession
<1>4. KeptApprovals(approval, approval')
         /\ (sess[s].spent \in DOMAIN approval => approval'[sess[s].spent].consumed)
  BY <1>1, CommitApprovals
<1>5. /\ v \in Vars /\ v.agents = sess[s].vars.agents
      /\ VarsInv(v, sess[s].spent, graph, child, approval)
  BY NoApproval, OfSession
<1>6. VarsInv(v, None, graph, child, approval')
  <2> HIDE DEF v
  <2> QED BY <1>4, <1>5, VarsKept, SameKept
<1>7. Passable(here, None, graph, child, approval')
  <2>1. CASE graph.kind[here] = "tool"
    BY <1>1, <1>4, <2>1, GrantedPassable, PassableKept, SameKept
  <2>2. CASE graph.kind[here] = "trigger"
    BY <2>2, PassableAnyway
  <2> QED BY <1>1, <2>1, <2>2
<1>8. /\ x.pc = "performed" /\ x.base = row' /\ x.vars = v /\ x.spent = None /\ x.mine = {}
      /\ x.granted = None /\ x.cursor = here
      /\ x.woke = sess[s].woke /\ x.saw = sess[s].saw
  BY <1>3 DEF Session
<1>9. ASSUME RowInv(row', graph, child', approval')
      PROVE  SessionInv(x, graph, child', approval')
  <2>1. row' \in Row
    BY <1>9 DEF RowInv
  <2>2. x \in Session
    BY <1>3, <1>5, <2>1, SessionCommits
  <2>3. child' = child
    BY <1>1, HereFrame
  <2> HIDE DEF x, v
  <2> QED BY <1>1, <1>3, <1>6, <1>7, <1>8, <1>9, <2>2, <2>3 DEF SessionInv, ReadPC
<1>10. Active(s) /\ ToNote(sess[s]) = {} /\ ToNote(x) = {}
  BY <1>1, <1>8 DEF Active, ActivePC, ToNote
<1>11. Knows(sess[s].vars, child, ToNote(sess[s])) => Knows(x.vars, child, ToNote(x))
  <2> HIDE DEF x, v
  <2> QED BY <1>5, <1>8, <1>10, KnowsAlike
<1>12. child' \in Seq(Child) /\ Len(child') <= MaxChildren /\ child' = child
  BY <1>1, HereFrame DEF Inv, Rows
<1>13. x.pc \in ActivePC
  BY <1>8 DEF ActivePC
<1> HIDE DEF x
<1> QED
  BY <1>1, <1>2, <1>8, <1>9, <1>10, <1>11, <1>12, <1>13, CommitStep, HereFrame, SameKept

LEMMA AfterToolKeeps == ASSUME Inv, NEW s \in Sessions, AfterTool(s) PROVE Inv'
<1> DEFINE here == sess[s].cursor
           next == graph.next[here][sess[s].vars.condition]
           done == [sess[s].vars EXCEPT !.completed = @ \cup {here}]
           x == [sess[s] EXCEPT !.pc = "working", !.cursor = next, !.vars = done,
                                !.branch = 1, !.steps = @ + 1]
<1>1. sess[s].pc = "performed" /\ Here(s)
  BY DEF AfterTool
<1>2. /\ sess[s] \in Session /\ SessionInv(sess[s], graph, child, approval)
      /\ here \in Nodes /\ Passable(here, None, graph, child, approval)
  BY <1>1, OfSession DEF SessionInv
<1>3. next \in Nodes \cup {End} /\ next \in Reached(graph)
  BY <1>2, GraphType, OfSession, ConditionOfVars
<1>4. Passable(here, sess[s].spent, graph, child, approval)
  BY <1>2, PassableMore DEF Inv, Rows
<1>5. VarsInv(done, sess[s].spent, graph, child, approval) /\ done.agents = sess[s].vars.agents
  BY <1>2, <1>4, OfSession, VarsDone
<1>6. ToNote(sess[s]) = {} /\ Active(s)
  BY <1>1 DEF ToNote, Active, ActivePC
<1>7. Knows(sess[s].vars, child, ToNote(sess[s])) => Knows(done, child, {})
  BY <1>5, <1>6, KnowsAlike
<1>8. CASE next = End
  <2>1. Finish(s, "completed", End, done, << >>)
    BY <1>8 DEF AfterTool
  <2>2. "completed" \in RunStatus \ { "absent", "running" } /\ << >> \in Seq(Nodes)
    BY Statuses
  <2> QED BY <1>1, <1>3, <1>5, <1>6, <1>7, <1>8, <2>1, <2>2, EndStep, HereFrame
<1>9. CASE next # End
  <2>1. GoOn(s, x)
    BY <1>9 DEF AfterTool
  <2>2. done \in Vars
    BY <1>5 DEF VarsInv
  <2>3. x \in Session
    BY <1>2, <1>3, <2>2, SessionGoesOn
  <2>4. /\ x.pc = "working" /\ x.base = sess[s].base /\ x.spent = sess[s].spent
        /\ x.mine = sess[s].mine /\ x.granted = sess[s].granted
        /\ x.woke = sess[s].woke /\ x.saw = sess[s].saw
        /\ x.vars = done /\ x.cursor = next
    BY <1>2 DEF Session
  <2>5. sess[s].granted = None
    BY <1>1, <1>2 DEF SessionInv
  <2> HIDE DEF x
  <2>6. SessionInv(x, graph, child, approval)
    BY <1>1, <1>2, <1>3, <1>5, <2>3, <2>4, <2>5, WorkingInv
  <2>7. /\ sess' = [sess EXCEPT ![s] = x] /\ lock' = s
        /\ UNCHANGED << row, childRow, approval >>
    BY <2>1 DEF GoOn
  <2> QED BY <1>1, <1>6, <1>7, <2>4, <2>6, <2>7, OnwardStep, HereFrame
<1> QED BY <1>8, <1>9

LEMMA StepDelayKeeps == ASSUME Inv, NEW s \in Sessions, StepDelay(s) PROVE Inv'
<1> DEFINE n == sess[s].cursor
           vars == sess[s].vars
<1>1. /\ At(s, "delay") /\ sess[s].pc = "working" /\ n \in Nodes
      /\ UNCHANGED << graph, child, hook, raced, stranded, missed, disturbances >>
  BY OfSession DEF StepDelay, At
<1>2. timer' \subseteq Nodes /\ due' \subseteq Nodes
  BY <1>1 DEF StepDelay, Schedule, Inv, Aux
<1>3. Frame /\ Aux'
  BY <1>1, <1>2 DEF Frame, Inv, Aux
<1>4. "delay" \in Kind \ { "agent", "approval", "tool" }
  BY DEF Kind
<1>5. \A m \in Nodes \cup {End} :
        /\ [vars EXCEPT !.delay = m] \in Vars
        /\ [vars EXCEPT !.delay = m].agents = vars.agents
        /\ [vars EXCEPT !.delay = m].branches = vars.branches
        /\ [vars EXCEPT !.delay = m].completed = vars.completed
  <2> SUFFICES ASSUME NEW m \in Nodes \cup {End}
               PROVE  /\ [vars EXCEPT !.delay = m] \in Vars
                      /\ [vars EXCEPT !.delay = m].agents = vars.agents
                      /\ [vars EXCEPT !.delay = m].branches = vars.branches
                      /\ [vars EXCEPT !.delay = m].completed = vars.completed
    OBVIOUS
  <2>1. vars \in Vars
    BY OfSession
  <2> HIDE DEF vars
  <2>2. [vars EXCEPT !.delay = m] \in Vars
    BY <2>1, VarsFields
  <2> QED BY <2>1, <2>2 DEF Vars
<1>6. CASE Hop(s, [vars EXCEPT !.delay = End], vars.condition)
  <2>1. PICK v : v = [vars EXCEPT !.delay = End]
    OBVIOUS
  <2> QED BY <1>1, <1>3, <1>4, <1>5, <1>6, <2>1, FreeHop, OfSession, ConditionOfVars
<1>7. ASSUME NEW v \in { vars, [vars EXCEPT !.delay = n] }, Pause(s, "paused", v, << >>)
      PROVE  Inv'
  <2>1. Finish(s, "paused", sess[s].cursor, v, << >>) /\ << >> \in Seq(Nodes)
    BY <1>7 DEF Pause
  <2>2. VarsInv(v, sess[s].spent, graph, child, approval) /\ v.agents = vars.agents
    BY <1>1, <1>5, <1>7, OfSession, VarsAlike
  <2> QED BY <1>1, <1>3, <2>1, <2>2, StopStep, Statuses
<1> QED BY <1>6, <1>7 DEF StepDelay

------------------------------------------------------------------------------
\* Children.

LEMMA StartChildKeeps ==
  ASSUME Inv, NEW s \in Sessions, sess[s].pc = "working", sess[s].cursor \in Nodes,
         NEW n \in Nodes, StartChild(s, n),
         graph.kind[sess[s].cursor] = "agent" => n = sess[s].cursor,
         graph.kind[sess[s].cursor] = "parallel" => IsBranch(n, graph),
         BranchesApart(graph) => sess[s].vars.agents[n] = None
  PROVE  Inv'
<1> DEFINE c == Len(child) + 1
           x == [sess[s] EXCEPT !.base = row', !.pc = "started", !.granted = None,
                                !.spent = None, !.mine = {c}, !.made = << >>]
<1>1. /\ CommitOnTheWay(s) /\ Len(child) < MaxChildren
      /\ child' = Append(child, [ node |-> n, status |-> "active", done |-> FALSE ])
      /\ sess' = [sess EXCEPT ![s] = x]
      /\ UNCHANGED << graph, timer, due, hook, raced, stranded, missed, disturbances >>
  BY DEF StartChild
<1>2. child \in Seq(Child)
  BY DEF Inv, Rows
<1>3. /\ child' \in Seq(Child) /\ Len(child') <= MaxChildren
      /\ DOMAIN child' = DOMAIN child \cup {c}
      /\ child'[c] = [ node |-> n, status |-> "active", done |-> FALSE ]
      /\ \A d \in DOMAIN child : d # c /\ child'[d] = child[d] /\ d # None
      /\ c \in ChildId
  <2>1. [ node |-> n, status |-> "active", done |-> FALSE ] \in Child
    BY DEF Child, ChildStatus
  <2> QED BY <1>1, <1>2, <2>1, ConstantsAssumption DEF ChildId, None
<1>4. KeptChildren(child, child')
  BY <1>3 DEF KeptChildren
<1>5. /\ KeptApprovals(approval, approval')
      /\ sess[s].spent \in DOMAIN approval => approval'[sess[s].spent].consumed
  BY <1>1, CommitApprovals
<1>6. /\ sess[s] \in Session /\ SessionInv(sess[s], graph, child, approval)
      /\ VarsInv(sess[s].vars, None, graph, child', approval')
  BY <1>4, <1>5, OfSession, VarsKept
<1>7. /\ x.pc = "started" /\ x.base = row' /\ x.vars = sess[s].vars /\ x.spent = None
      /\ x.mine = {c} /\ x.granted = None /\ x.cursor = sess[s].cursor
      /\ x.woke = sess[s].woke /\ x.saw = sess[s].saw
  BY <1>6 DEF Session
<1>8. ASSUME RowInv(row', graph, child', approval')
      PROVE  SessionInv(x, graph, child', approval')
  <2>1. row' \in Row
    BY <1>8 DEF RowInv
  <2>2. x \in Session
    BY <1>3, <1>6, <2>1, SessionStarts
  <2>3. x.woke # None => x.saw # "active" /\ Told(x.saw, x.woke, child')
    BY <1>3, <1>6, <1>7 DEF SessionInv, Told
  <2> HIDE DEF x, c
  <2>4. \E d \in DOMAIN child' :
          /\ x.mine = {d}
          /\ graph.kind[x.cursor] = "agent" => child'[d].node = x.cursor
          /\ graph.kind[x.cursor] = "parallel" => IsBranch(child'[d].node, graph)
    BY <1>3, <1>7
  <2>5. x.cursor \in Reached(graph)
    BY <1>7, OfSession
  <2> QED BY <1>3, <1>6, <1>7, <1>8, <2>2, <2>3, <2>4, <2>5 DEF SessionInv, ReadPC
<1> HIDE DEF x, c
<1>9. Active(s) /\ ToNote(sess[s]) = {} /\ ToNote(x) = {c} /\ x.pc \in ActivePC
  BY <1>7 DEF Active, ActivePC, ToNote
<1>10. ASSUME BranchesApart(graph), OneEach(child), Knows(sess[s].vars, child, {})
       PROVE  OneEach(child') /\ Knows(x.vars, child', {c})
  <2>1. \A d \in DOMAIN child : child[d].node # n
    BY <1>3, <1>10 DEF Knows
  <2>2. OneEach(child')
    BY <1>3, <1>10, <2>1 DEF OneEach
  <2>3. Knows(x.vars, child', {c})
    BY <1>3, <1>7, <1>10 DEF Knows
  <2> QED BY <2>2, <2>3
<1>11. Frame
  <2>1. /\ \A h \in hook : Told(h.status, h.child, child')
        /\ \A d \in DOMAIN child' : Told(child'[d].status, d, child')
        /\ missed \subseteq DOMAIN child'
    BY <1>3 DEF Inv, Aux, Told
  <2> QED BY <1>1, <2>1 DEF Frame, Inv, Aux
<1>12. \A d \in DOMAIN child : child'[d].node = child[d].node
  BY <1>3
<1> QED
  BY <1>1, <1>3, <1>4, <1>7, <1>8, <1>9, <1>10, <1>11, <1>12, CommitStep

\* What a session knows of a child has been true of it.
LEMMA SeenTold ==
  ASSUME Inv, NEW s \in Sessions, NEW c \in DOMAIN child
  PROVE  Told(Seen(s, c), c, child) /\ Seen(s, c) \in ChildStatus
<1>1. child \in Seq(Child) /\ child[c] \in Child /\ c # None
  BY NotAnIndex DEF Inv, Rows
<1>2. Told(child[c].status, c, child) /\ child[c].status \in ChildStatus
  BY <1>1 DEF Inv, Aux, Child
<1>3. c = sess[s].woke => Told(sess[s].saw, c, child)
  BY <1>1, OfSession DEF SessionInv
<1>4. sess[s].saw \in ChildStatus
  BY OfSession DEF Session
<1> QED BY <1>2, <1>3, <1>4 DEF Seen

\* A child that is at work for the session is at work.
LEMMA SeenActive ==
  ASSUME Inv, NEW s \in Sessions, NEW c \in DOMAIN child, Seen(s, c) = "active"
  PROVE  child[c].status = "active"
<1>1. c # None
  BY NotAnIndex DEF Inv, Rows
<1>2. c = sess[s].woke => sess[s].saw # "active"
  BY <1>1, OfSession DEF SessionInv
<1> QED BY <1>2 DEF Seen

LEMMA StepAgentKeeps == ASSUME Inv, NEW s \in Sessions, StepAgent(s) PROVE Inv'
<1> DEFINE n == sess[s].cursor
           c == sess[s].vars.agents[n]
<1>1. sess[s].pc = "working" /\ n \in Nodes /\ graph.kind[n] = "agent"
  BY OfSession DEF StepAgent, At
<1>2. CASE c = None /\ StartChild(s, n)
  BY <1>1, <1>2, StartChildKeeps
<1>3. CASE /\ c # None /\ Seen(s, c) = "completed" /\ Here(s)
           /\ Hop(s, sess[s].vars, sess[s].vars.condition)
  <2>1. c \in DOMAIN child /\ child[c].node = n
    BY <1>1, <1>3, OfSession DEF VarsInv, Sound
  <2>2. child[c].done
    BY <1>3, <2>1, SeenTold DEF Told
  <2>3. Passable(n, sess[s].spent, graph, child, approval)
    BY <1>1, <2>1, <2>2 DEF Passable
  <2> QED BY <1>1, <1>3, <2>3, HopStep, HereFrame, OfSession, ConditionOfVars,
         EndIsNoNode
<1>4. CASE FailRun(s, sess[s].vars) /\ Here(s)
  BY <1>1, <1>4, FailStep
<1>5. CASE Pause(s, "paused", sess[s].vars, << >>) /\ Here(s)
  BY <1>1, <1>5, PauseStep DEF Resumable
<1> QED BY <1>2, <1>3, <1>4, <1>5 DEF StepAgent

\* A child is noted at its node.
LEMMA VarsNote ==
  ASSUME NEW v, NEW sp, NEW g, NEW ch, NEW ap, VarsInv(v, sp, g, ch, ap),
         NEW c \in DOMAIN ch, c # None, NEW n \in Nodes, ch[c].node = n,
         NEW w \in Vars, w.agents = [v.agents EXCEPT ![n] = c],
         w.completed = v.completed,
         w.branches = v.branches \/ w.branches = [v.branches EXCEPT ![n] = "paused"],
         BranchesApart(g) /\ IsBranch(n, g) => w.branches[n] = "paused"
  PROVE  VarsInv(w, sp, g, ch, ap)
<1>1. /\ v \in Vars /\ v.agents \in [Nodes -> 0 .. MaxChildren]
      /\ v.branches \in [Nodes -> BranchStatus]
  BY DEF VarsInv, Vars
<1>2. /\ w.agents[n] = c
      /\ \A m \in Nodes \ {n} : w.agents[m] = v.agents[m] /\ w.branches[m] = v.branches[m]
  BY <1>1
<1>3. Sound(w, g, ch)
  BY <1>2 DEF VarsInv, Sound
<1>4. BranchesApart(g) => Fresh(w, g)
  BY <1>2 DEF VarsInv, Fresh
<1> QED BY <1>3, <1>4 DEF VarsInv

LEMMA KnowsNote ==
  ASSUME NEW v \in Vars, NEW ch, NEW c, NEW w, NEW n \in Nodes,
         w.agents = [v.agents EXCEPT ![n] = c], n = ch[c].node, OneEach(ch), c \in DOMAIN ch,
         \A d \in DOMAIN ch : ch[d].node \in Nodes,
         Knows(v, ch, {c})
  PROVE  Knows(w, ch, {})
<1>1. v.agents \in [Nodes -> 0 .. MaxChildren]
  BY DEF Vars
<1>2. w.agents[n] = c /\ \A m \in Nodes \ {n} : w.agents[m] = v.agents[m]
  BY <1>1
<1>3. \A d \in DOMAIN ch \ {c} : ch[d].node # n
  BY DEF OneEach
<1> QED BY <1>2, <1>3 DEF Knows

LEMMA ChildType ==
  ASSUME Inv, NEW c \in DOMAIN child
  PROVE  /\ child[c].node \in Nodes
         /\ child[c].status \in ChildStatus
         /\ c # None /\ c \in 0 .. MaxChildren
<1>1. child \in Seq(Child) /\ Len(child) <= MaxChildren
  BY DEF Inv, Rows
<1>2. c \in 1 .. Len(child) /\ child[c] \in Child
  BY <1>1
<1>3. c # None /\ c \in 0 .. MaxChildren
  BY <1>1, <1>2, ConstantsAssumption DEF None
<1> QED BY <1>2, <1>3 DEF Child

\* What a session that has just started a child knows of it.
LEMMA StartedChild ==
  ASSUME Inv, NEW s \in Sessions, sess[s].pc = "started", NEW c \in sess[s].mine
  PROVE  /\ sess[s].mine = {c} /\ c \in DOMAIN child /\ c # None /\ c \in 0 .. MaxChildren
         /\ child[c].node \in Nodes
         /\ graph.kind[sess[s].cursor] = "agent" => child[c].node = sess[s].cursor
         /\ graph.kind[sess[s].cursor] = "parallel" => IsBranch(child[c].node, graph)
         /\ sess[s].cursor \in Nodes
         /\ ToNote(sess[s]) = {c}
         /\ \A d \in DOMAIN child : child[d].node \in Nodes
<1>1. SessionInv(sess[s], graph, child, approval)
  BY DEF Inv
<1>2. PICK d \in DOMAIN child :
        /\ sess[s].mine = {d}
        /\ graph.kind[sess[s].cursor] = "agent" => child[d].node = sess[s].cursor
        /\ graph.kind[sess[s].cursor] = "parallel" => IsBranch(child[d].node, graph)
  BY <1>1 DEF SessionInv
<1>3. d = c
  BY <1>2
<1>4. \A e \in DOMAIN child : child[e].node \in Nodes /\ e # None /\ e \in 0 .. MaxChildren
  BY ChildType
<1> QED BY <1>1, <1>2, <1>3, <1>4 DEF SessionInv, ToNote

LEMMA NoteChildKeeps == ASSUME Inv, NEW s \in Sessions, NoteChild(s) PROVE Inv'
<1> DEFINE n == sess[s].cursor
<1>1. sess[s].pc = "started" /\ graph.kind[n] = "agent" /\ Here(s)
  BY DEF NoteChild
<1>2. PICK c \in sess[s].mine :
        Pause(s, "paused",
              [sess[s].vars EXCEPT !.agents = [sess[s].vars.agents EXCEPT ![n] = c]], << >>)
  BY DEF NoteChild
<1>3. /\ c \in DOMAIN child /\ c # None /\ c \in 0 .. MaxChildren /\ child[c].node = n
      /\ n \in Nodes /\ ToNote(sess[s]) = {c} /\ \A d \in DOMAIN child : child[d].node \in Nodes
  BY <1>1, StartedChild
<1>4. PICK q : q = [sess[s].vars.agents EXCEPT ![n] = c]
  OBVIOUS
<1>5. PICK v : v = [sess[s].vars EXCEPT !.agents = q]
  OBVIOUS
<1>6. sess[s].vars \in Vars /\ sess[s].vars.agents \in [Nodes -> 0 .. MaxChildren]
  BY OfSession DEF Vars
<1>7. v \in Vars
  <2>1. q \in [Nodes -> 0 .. MaxChildren]
    BY <1>3, <1>4, <1>6
  <2> QED BY <1>5, <1>6, <2>1, VarsFields
<1>8. /\ v.agents = q /\ v.branches = sess[s].vars.branches
      /\ v.completed = sess[s].vars.completed
  BY <1>5, <1>6 DEF Vars
<1>9. ~(BranchesApart(graph) /\ IsBranch(n, graph))
  BY <1>3, OfSession DEF BranchesApart
<1>10. VarsInv(v, sess[s].spent, graph, child, approval)
  <2>1. v.agents = [sess[s].vars.agents EXCEPT ![n] = c]
    BY <1>4, <1>8
  <2>2. VarsInv(sess[s].vars, sess[s].spent, graph, child, approval)
    BY OfSession
  <2> QED BY <1>3, <1>7, <1>8, <1>9, <2>1, <2>2, VarsNote
<1>11. OneEach(child) /\ Knows(sess[s].vars, child, ToNote(sess[s])) => Knows(v, child, {})
  BY <1>3, <1>4, <1>6, <1>8, KnowsNote
<1>12. Finish(s, "paused", n, v, << >>) /\ << >> \in Seq(Nodes)
  BY <1>2, <1>4, <1>5 DEF Pause
<1>13. Active(s)
  BY <1>1 DEF Active, ActivePC
<1> QED BY <1>1, <1>10, <1>11, <1>12, <1>13, EndStep, HereFrame, OfSession, Statuses

------------------------------------------------------------------------------
\* Parallel nodes.

LEMMA BranchOfGraph ==
  ASSUME Inv, NEW s \in Sessions, NEW kind, NEW status, AtBranch(s, kind, status),
         NEW b, b = Branches(sess[s].cursor)[sess[s].branch]
  PROVE  /\ sess[s].pc = "working" /\ sess[s].cursor \in Nodes
         /\ graph.kind[sess[s].cursor] = "parallel"
         /\ b \in Nodes /\ IsBranch(b, graph)
         /\ graph.kind[b] = kind /\ sess[s].vars.branches[b] \in status
<1>1. /\ sess[s].pc = "working" /\ sess[s].cursor \in Nodes
      /\ graph.kind[sess[s].cursor] = "parallel"
      /\ sess[s].branch <= Len(Branches(sess[s].cursor))
      /\ graph.kind[b] = kind /\ sess[s].vars.branches[b] \in status
  BY OfSession DEF AtBranch, InParallel
<1>2. Branches(sess[s].cursor) \in Seq(Nodes)
  BY <1>1, GraphType DEF Branches, Graph
<1>3. sess[s].branch \in DOMAIN Branches(sess[s].cursor)
  BY <1>1, <1>2, OfSession DEF Session
<1>4. b \in Nodes /\ IsBranch(b, graph)
  BY <1>1, <1>2, <1>3 DEF IsBranch, Branches
<1> QED BY <1>1, <1>4

LEMMA BranchStep ==
  ASSUME Inv, NEW s \in Sessions, NEW kind, NEW was, AtBranch(s, kind, was),
         NEW status \in BranchStatus \ {"pending"}, NEW made \in Seq(Nodes),
         NextBranch(s, status, made),
         graph' = graph, Aux', UNCHANGED << child, raced, stranded >>,
         kind = "agent" /\ status = "paused" => was = {"paused"}
  PROVE  Inv'
<1>1. PICK b : b = Branches(sess[s].cursor)[sess[s].branch]
  OBVIOUS
<1>2. PICK q : q = [sess[s].vars.branches EXCEPT ![b] = status]
  OBVIOUS
<1>3. PICK v : v = [sess[s].vars EXCEPT !.branches = q]
  OBVIOUS
<1>4. PICK x : x = [sess[s] EXCEPT !.vars = v, !.branch = @ + 1, !.made = @ \o made]
  OBVIOUS
<1>5. sess' = [sess EXCEPT ![s] = x] /\ UNCHANGED << row, childRow, approval, lock >>
  BY <1>1, <1>2, <1>3, <1>4 DEF NextBranch
<1>6. /\ sess[s].pc = "working" /\ b \in Nodes
      /\ graph.kind[b] = kind /\ sess[s].vars.branches[b] \in was
      /\ graph.kind[sess[s].cursor] = "parallel"
  BY <1>1, BranchOfGraph
<1>7. sess[s].vars \in Vars /\ sess[s].vars.branches \in [Nodes -> BranchStatus]
  BY OfSession DEF Vars
<1>8. /\ q \in [Nodes -> BranchStatus] /\ q[b] = status
      /\ \A n \in Nodes \ {b} : q[n] = sess[s].vars.branches[n]
  BY <1>2, <1>6, <1>7
<1>9. v \in Vars
  BY <1>3, <1>7, <1>8, VarsFields
<1>10. v.agents = sess[s].vars.agents /\ v.branches = q /\ v.completed = sess[s].vars.completed
  BY <1>3, <1>7 DEF Vars
<1>11. VarsInv(sess[s].vars, sess[s].spent, graph, child, approval)
  BY OfSession
<1>12. Sound(v, graph, child)
  BY <1>6, <1>8, <1>10, <1>11 DEF Sound, VarsInv
<1>13. BranchesApart(graph) => Fresh(v, graph)
  BY <1>6, <1>8, <1>10, <1>11 DEF Fresh, VarsInv
<1>14. VarsInv(v, sess[s].spent, graph, child, approval)
  BY <1>9, <1>10, <1>11, <1>12, <1>13 DEF VarsInv
<1>15. x \in Session
  BY <1>4, <1>9, OfSession, SessionBranches
<1>16. /\ x.pc = "working" /\ x.base = sess[s].base /\ x.vars = v /\ x.cursor = sess[s].cursor
       /\ x.granted = sess[s].granted /\ x.spent = sess[s].spent /\ x.mine = sess[s].mine
       /\ x.woke = sess[s].woke /\ x.saw = sess[s].saw
  BY <1>4, <1>6, OfSession DEF Session
<1>17. SessionInv(x, graph, child, approval)
  BY <1>6, <1>14, <1>15, <1>16, OfSession DEF SessionInv, ReadPC
<1>18. Active(s) /\ ToNote(sess[s]) = {}
  BY <1>6 DEF Active, ActivePC, ToNote
<1>19. Knows(sess[s].vars, child, ToNote(sess[s])) => Knows(x.vars, child, {})
  BY <1>10, <1>16, <1>18, KnowsAlike
<1> QED BY <1>5, <1>16, <1>17, <1>18, <1>19, OnwardStep

LEMMA NoneMade == << >> \in Seq(Nodes)
  OBVIOUS

LEMMA SkipBranchKeeps == ASSUME Inv, NEW s \in Sessions, SkipBranch(s) PROVE Inv'
<1>1. Here(s)
  BY DEF SkipBranch
<1>2. CASE \E kind \in Kind, status \in SettledBranch :
             AtBranch(s, kind, {status}) /\ NextBranch(s, status, << >>)
  <2>1. PICK kind \in Kind, status \in SettledBranch :
          AtBranch(s, kind, {status}) /\ NextBranch(s, status, << >>)
    BY <1>2
  <2>2. status \in BranchStatus \ {"pending"} /\ status # "paused"
    BY DEF SettledBranch, BranchStatus
  <2> QED BY <1>1, <2>1, <2>2, HereFrame, BranchStep, NoneMade
<1>3. CASE \E kind \in SimpleKind :
             AtBranch(s, kind, {"paused"}) /\ NextBranch(s, "paused", << >>)
  <2>1. PICK kind \in SimpleKind :
          AtBranch(s, kind, {"paused"}) /\ NextBranch(s, "paused", << >>)
    BY <1>3
  <2>2. "paused" \in BranchStatus \ {"pending"}
    BY DEF BranchStatus
  <2> QED BY <1>1, <2>1, <2>2, HereFrame, BranchStep, NoneMade
<1> QED BY <1>2, <1>3 DEF SkipBranch

LEMMA SimpleBranchKeeps == ASSUME Inv, NEW s \in Sessions, SimpleBranch(s) PROVE Inv'
<1>1. Here(s) /\ { "succeeded", "paused" } \subseteq BranchStatus \ {"pending"}
  BY DEF SimpleBranch, BranchStatus
<1>2. PICK kind \in { "trigger", "condition" }, status \in { "succeeded", "paused" } :
        AtBranch(s, kind, {"pending"}) /\ NextBranch(s, status, << >>)
  BY DEF SimpleBranch
<1>3. kind # "agent"
  OBVIOUS
<1> QED BY <1>1, <1>2, <1>3, HereFrame, BranchStep, NoneMade

LEMMA RefuseBranchKeeps == ASSUME Inv, NEW s \in Sessions, RefuseBranch(s) PROVE Inv'
<1>1. Here(s) /\ "failed" \in BranchStatus \ {"pending"} /\ "failed" # "paused"
  BY DEF RefuseBranch, BranchStatus
<1>2. PICK kind : AtBranch(s, kind, {"pending"}) /\ NextBranch(s, "failed", << >>)
  BY DEF RefuseBranch
<1> QED BY <1>1, <1>2, HereFrame, BranchStep, NoneMade

LEMMA SessionCommitsBranch ==
  ASSUME NEW x \in Session, NEW r \in Row, NEW w \in Vars
  PROVE  [x EXCEPT !.base = r, !.granted = None, !.spent = None, !.mine = {}, !.made = << >>,
                   !.branch = @ + 1, !.vars = w] \in Session
<1>1. None \in 0 .. MaxApprovals /\ {} \in SUBSET ChildId /\ << >> \in Seq(Nodes)
  BY ConstantsAssumption DEF None
<1>2. x.branch + 1 \in Nat \ {0}
  BY DEF Session
<1> QED BY <1>1, <1>2 DEF Session

LEMMA CommittingBranchKeeps == ASSUME Inv, NEW s \in Sessions, CommittingBranch(s) PROVE Inv'
<1>1. /\ AtBranch(s, "trigger", {"pending"}) /\ Here(s) /\ CommitOnTheWay(s)
  BY DEF CommittingBranch
<1>2. PICK b : b = Branches(sess[s].cursor)[sess[s].branch]
  OBVIOUS
<1>3. PICK q : q = [sess[s].vars.branches EXCEPT ![b] = "succeeded"]
  OBVIOUS
<1>4. PICK v : v = [sess[s].vars EXCEPT !.branches = q]
  OBVIOUS
<1>5. PICK x : x = [sess[s] EXCEPT !.base = row', !.granted = None, !.spent = None, !.mine = {},
                                   !.made = << >>, !.branch = @ + 1, !.vars = v]
  OBVIOUS
<1>6. sess' = [sess EXCEPT ![s] = x]
  BY <1>2, <1>3, <1>4, <1>5 DEF CommittingBranch
<1>7. /\ sess[s].pc = "working" /\ b \in Nodes /\ graph.kind[b] = "trigger"
  BY <1>1, <1>2, BranchOfGraph
<1>8. /\ sess[s] \in Session /\ SessionInv(sess[s], graph, child, approval)
      /\ sess[s].vars \in Vars /\ sess[s].vars.branches \in [Nodes -> BranchStatus]
      /\ VarsInv(sess[s].vars, sess[s].spent, graph, child, approval)
  BY OfSession DEF Vars
<1>9. /\ q \in [Nodes -> BranchStatus] /\ q[b] = "succeeded"
      /\ \A n \in Nodes \ {b} : q[n] = sess[s].vars.branches[n]
  BY <1>3, <1>7, <1>8 DEF BranchStatus
<1>10. v \in Vars
  BY <1>4, <1>8, <1>9, VarsFields
<1>11. v.agents = sess[s].vars.agents /\ v.branches = q /\ v.completed = sess[s].vars.completed
  BY <1>4, <1>8 DEF Vars
<1>12. VarsInv(v, sess[s].spent, graph, child, approval)
  <2>1. Sound(v, graph, child)
    BY <1>7, <1>8, <1>9, <1>11 DEF Sound, VarsInv
  <2>2. BranchesApart(graph) => Fresh(v, graph)
    BY <1>7, <1>8, <1>9, <1>11 DEF Fresh, VarsInv
  <2> QED BY <1>8, <1>10, <1>11, <2>1, <2>2 DEF VarsInv
<1>13. /\ KeptApprovals(approval, approval')
       /\ sess[s].spent \in DOMAIN approval => approval'[sess[s].spent].consumed
  BY <1>1, CommitApprovals
<1>14. VarsInv(v, None, graph, child, approval')
  BY <1>12, <1>13, VarsKept, SameKept
<1>15. /\ x.pc = "working" /\ x.base = row' /\ x.vars = v /\ x.spent = None /\ x.mine = {}
       /\ x.granted = None /\ x.cursor = sess[s].cursor
       /\ x.woke = sess[s].woke /\ x.saw = sess[s].saw
  BY <1>5, <1>7, <1>8 DEF Session
<1>16. ASSUME RowInv(row', graph, child', approval')
       PROVE  SessionInv(x, graph, child', approval')
  <2>1. row' \in Row
    BY <1>16 DEF RowInv
  <2>2. x \in Session
    BY <1>5, <1>8, <1>10, <2>1, SessionCommitsBranch
  <2>3. child' = child
    BY <1>1, HereFrame
  <2> QED BY <1>8, <1>14, <1>15, <1>16, <2>2, <2>3 DEF SessionInv, ReadPC
<1>17. Active(s) /\ ToNote(sess[s]) = {} /\ ToNote(x) = {}
  BY <1>7, <1>15 DEF Active, ActivePC, ToNote
<1>18. Knows(sess[s].vars, child, ToNote(sess[s])) => Knows(x.vars, child, ToNote(x))
  BY <1>11, <1>15, <1>17, KnowsAlike
<1>19. child' \in Seq(Child) /\ Len(child') <= MaxChildren /\ child' = child
  BY <1>1, HereFrame DEF Inv, Rows
<1>20. x.pc \in ActivePC
  BY <1>15 DEF ActivePC
<1> QED
  BY <1>1, <1>6, <1>15, <1>16, <1>17, <1>18, <1>19, <1>20, CommitStep, HereFrame, SameKept

LEMMA ToolBranchKeeps == ASSUME Inv, NEW s \in Sessions, ToolBranch(s) PROVE Inv'
<1>1. Here(s) /\ "paused" \in BranchStatus \ {"pending"} /\ "tool" # "agent"
  BY DEF ToolBranch, BranchStatus
<1>2. PICK made \in { << >>, << Branches(sess[s].cursor)[sess[s].branch] >> } :
        AtBranch(s, "tool", {"pending"}) /\ NextBranch(s, "paused", made)
  BY DEF ToolBranch
<1>3. made \in Seq(Nodes)
  <2>1. PICK b : b = Branches(sess[s].cursor)[sess[s].branch]
    OBVIOUS
  <2>2. b \in Nodes
    BY <1>2, <2>1, BranchOfGraph
  <2>3. made = << >> \/ made = << b >>
    BY <2>1
  <2>4. << >> \in Seq(Nodes) /\ << b >> \in Seq(Nodes)
    BY <2>2
  <2> QED BY <2>3, <2>4
<1> QED BY <1>1, <1>2, <1>3, HereFrame, BranchStep

LEMMA DelayBranchKeeps == ASSUME Inv, NEW s \in Sessions, DelayBranch(s) PROVE Inv'
<1> DEFINE b == Branches(sess[s].cursor)[sess[s].branch]
<1>1. /\ UNCHANGED << graph, child, due, hook, raced, stranded, missed, disturbances >>
      /\ "paused" \in BranchStatus \ {"pending"} /\ "succeeded" \in BranchStatus \ {"pending"}
  BY DEF DelayBranch, BranchStatus
<1>2. CASE /\ AtBranch(s, "delay", {"pending"})
           /\ NextBranch(s, "paused", << >>)
           /\ Schedule(sess[s].cursor)
  <2>1. sess[s].cursor \in Nodes
    BY <1>2, BranchOfGraph
  <2>2. Aux'
    BY <1>1, <1>2, <2>1 DEF Schedule, Inv, Aux
  <2>3. "delay" # "agent"
    OBVIOUS
  <2> QED BY <1>1, <1>2, <2>2, <2>3, BranchStep, NoneMade
<1>3. CASE /\ AtBranch(s, "delay", {"paused"})
           /\ NextBranch(s, IF b \in due THEN "succeeded" ELSE "paused", << >>)
           /\ UNCHANGED timer
  <2>1. Aux'
    BY <1>1, <1>3 DEF Inv, Aux
  <2>2. PICK status : status = IF b \in due THEN "succeeded" ELSE "paused"
    OBVIOUS
  <2> HIDE DEF b
  <2> QED BY <1>1, <1>3, <2>1, <2>2, BranchStep, NoneMade
<1> QED BY <1>2, <1>3 DEF DelayBranch

LEMMA RefreshBranchKeeps == ASSUME Inv, NEW s \in Sessions, RefreshBranch(s) PROVE Inv'
<1>1. PICK b : b = Branches(sess[s].cursor)[sess[s].branch]
  OBVIOUS
<1>2. PICK status : status = BranchOf(Seen(s, sess[s].vars.agents[b]))
  OBVIOUS
<1>3. AtBranch(s, "agent", {"paused"}) /\ NextBranch(s, status, << >>) /\ Here(s)
  BY <1>1, <1>2 DEF RefreshBranch
<1>4. b \in Nodes /\ graph.kind[b] = "agent" /\ sess[s].vars.branches[b] = "paused"
  BY <1>1, <1>3, BranchOfGraph
<1>5. sess[s].vars.agents[b] \in DOMAIN child
  BY <1>4, OfSession DEF VarsInv, Sound
<1>6. Seen(s, sess[s].vars.agents[b]) \in ChildStatus
  BY <1>5, SeenTold
<1>7. status \in BranchStatus \ {"pending"}
  BY <1>2, <1>6 DEF BranchOf, BranchStatus, ChildStatus, ChildEnd
<1> QED BY <1>3, <1>7, HereFrame, BranchStep, NoneMade

LEMMA StartBranchKeeps == ASSUME Inv, NEW s \in Sessions, StartBranch(s) PROVE Inv'
<1>1. PICK b : b = Branches(sess[s].cursor)[sess[s].branch]
  OBVIOUS
<1>2. AtBranch(s, "agent", {"pending"}) /\ StartChild(s, b)
  BY <1>1 DEF StartBranch
<1>3. /\ sess[s].pc = "working" /\ sess[s].cursor \in Nodes
      /\ graph.kind[sess[s].cursor] = "parallel"
      /\ b \in Nodes /\ IsBranch(b, graph) /\ sess[s].vars.branches[b] = "pending"
  BY <1>1, <1>2, BranchOfGraph
<1>4. BranchesApart(graph) => sess[s].vars.agents[b] = None
  BY <1>3, OfSession DEF VarsInv, Fresh
<1> QED BY <1>2, <1>3, <1>4, StartChildKeeps

LEMMA NoteBranchKeeps == ASSUME Inv, NEW s \in Sessions, NoteBranch(s) PROVE Inv'
<1> DEFINE vars == sess[s].vars
<1>1. /\ sess[s].pc = "started" /\ graph.kind[sess[s].cursor] = "parallel" /\ Here(s)
      /\ UNCHANGED << row, childRow, approval, lock >>
  BY DEF NoteBranch
<1>2. PICK c \in sess[s].mine :
        sess' = [sess EXCEPT ![s] =
             [sess[s] EXCEPT !.pc = "working", !.branch = @ + 1,
                             !.vars = [vars EXCEPT
                                         !.branches = [vars.branches EXCEPT
                                                         ![child[c].node] = "paused"],
                                         !.agents = [vars.agents EXCEPT
                                                       ![child[c].node] = c]]]]
  BY DEF NoteBranch
<1>3. PICK b : b = child[c].node
  OBVIOUS
<1>4. PICK p : p = [vars.branches EXCEPT ![b] = "paused"]
  OBVIOUS
<1>5. PICK q : q = [vars.agents EXCEPT ![b] = c]
  OBVIOUS
<1>6. PICK v : v = [vars EXCEPT !.branches = p, !.agents = q]
  OBVIOUS
<1>7. PICK x : x = [sess[s] EXCEPT !.pc = "working", !.branch = @ + 1, !.vars = v]
  OBVIOUS
<1>8. sess' = [sess EXCEPT ![s] = x]
  BY <1>2, <1>3, <1>4, <1>5, <1>6, <1>7
<1>9. /\ c \in DOMAIN child /\ c # None /\ c \in 0 .. MaxChildren /\ b \in Nodes
      /\ ToNote(sess[s]) = {c} /\ \A d \in DOMAIN child : child[d].node \in Nodes
  BY <1>1, <1>3, StartedChild
<1>10. /\ vars \in Vars /\ vars.branches \in [Nodes -> BranchStatus]
       /\ vars.agents \in [Nodes -> 0 .. MaxChildren]
  BY OfSession DEF Vars
<1>11. /\ p \in [Nodes -> BranchStatus] /\ q \in [Nodes -> 0 .. MaxChildren]
       /\ p[b] = "paused"
  BY <1>4, <1>5, <1>9, <1>10 DEF BranchStatus
<1>12. v \in Vars /\ v.agents = q /\ v.branches = p /\ v.completed = vars.completed
  BY <1>6, <1>10, <1>11 DEF Vars
<1>13. VarsInv(v, sess[s].spent, graph, child, approval)
  BY <1>3, <1>4, <1>5, <1>9, <1>11, <1>12, OfSession, VarsNote
<1>14. OneEach(child) /\ Knows(vars, child, ToNote(sess[s])) => Knows(v, child, {})
  BY <1>3, <1>5, <1>9, <1>10, <1>12, KnowsNote
<1>15. x \in Session
  BY <1>7, <1>12, OfSession, SessionBranches, NoneMade
<1>16. /\ x.pc = "working" /\ x.base = sess[s].base /\ x.vars = v /\ x.cursor = sess[s].cursor
       /\ x.granted = sess[s].granted /\ x.spent = sess[s].spent /\ x.mine = sess[s].mine
       /\ x.woke = sess[s].woke /\ x.saw = sess[s].saw
  BY <1>7, OfSession DEF Session
<1>17. SessionInv(x, graph, child, approval)
  BY <1>1, <1>13, <1>15, <1>16, OfSession DEF SessionInv, ReadPC
<1>18. Active(s)
  BY <1>1 DEF Active, ActivePC
<1> QED BY <1>1, <1>8, <1>14, <1>16, <1>17, <1>18, OnwardStep, HereFrame

LEMMA ConcludeKeeps == ASSUME Inv, NEW s \in Sessions, Conclude(s) PROVE Inv'
<1>1. /\ sess[s].pc = "working" /\ sess[s].cursor # End /\ Here(s)
      /\ graph.kind[sess[s].cursor] = "parallel"
  BY DEF Conclude, InParallel
<1>2. CASE Hop(s, sess[s].vars, sess[s].vars.condition)
  <2>1. Passable(sess[s].cursor, sess[s].spent, graph, child, approval)
    BY <1>1, PassableAnyway
  <2> QED BY <1>1, <1>2, <2>1, HopStep, HereFrame, OfSession, ConditionOfVars
<1>3. CASE FailRun(s, sess[s].vars)
  BY <1>1, <1>3, FailStep
<1>4. CASE Pause(s, "paused", sess[s].vars, << >>)
  BY <1>1, <1>4, PauseStep DEF Resumable
<1> QED BY <1>2, <1>3, <1>4 DEF Conclude

LEMMA RunOutOfStepsKeeps == ASSUME Inv, NEW s \in Sessions, RunOutOfSteps(s) PROVE Inv'
<1>1. /\ sess[s].pc = "working"
      /\ Finish(s, "running", sess[s].cursor, sess[s].vars, << >>)
      /\ stranded' = TRUE
      /\ UNCHANGED << graph, child, timer, due, hook, raced, missed, disturbances >>
  BY DEF RunOutOfSteps
<1>2. Frame
  BY <1>1 DEF Frame, Inv, Aux
<1>3. "running" \in RunStatus \ {"absent"}
  BY DEF RunStatus
<1>4. Active(s) /\ ToNote(sess[s]) = {}
  BY <1>1 DEF Active, ActivePC, ToNote
<1>5. Knows(sess[s].vars, child, ToNote(sess[s])) => Knows(sess[s].vars, child, {})
  BY <1>4
<1> QED BY <1>1, <1>2, <1>3, <1>4, <1>5, EndStep, OfSession, NoneMade

------------------------------------------------------------------------------
\* Sessions that read the row, decisions, and losses.

LEMMA StatusesOfRow == Resumable \cap (RunTerminal \cup { "absent", "running" }) = {}
  BY DEF Resumable, RunTerminal

\* While the row is free and the run waits, no session advances it.
LEMMA NobodyActive ==
  ASSUME Inv, ~raced, lock = Nobody, row.status \in Resumable
  PROVE  \A t \in Sessions : ~Active(t)
<1>1. row.status # "running"
  BY StatusesOfRow
<1> QED BY <1>1, ConstantsAssumption DEF Inv, Solo, Alone

LEMMA LoadedKeeps ==
  ASSUME Inv, NEW s \in Sessions, ~Active(s), NEW pc \in ReadPC, NEW granted,
         NEW human \in BOOLEAN, NEW woke, NEW saw \in ChildStatus,
         Loaded(s, pc, granted, human, woke, saw),
         graph' = graph, Aux',
         UNCHANGED << row, child, childRow, approval, lock, raced, stranded >>,
         row.status \in Resumable,
         granted = None \/ granted \in DOMAIN approval,
         woke = None \/ (saw # "active" /\ Told(saw, woke, child)),
         pc = "rejecting" =>
           granted = None /\ \E a \in DOMAIN approval : approval[a].status = "rejected",
         AsksApproval /\ granted # None =>
           approval[granted].status = "approved" /\ approval[granted].node = row.cursor
  PROVE  Inv'
<1> DEFINE taken == IF AsksApproval THEN granted ELSE None
<1>1. PICK x :
        x = [ IdleSession EXCEPT !.pc = pc, !.base = row, !.cursor = row.cursor,
                                 !.vars = row.vars, !.granted = taken, !.spent = taken,
                                 !.human = human /\ KindAtCursor = "human_input",
                                 !.woke = woke, !.saw = saw ]
  OBVIOUS
<1>2. sess' = [sess EXCEPT ![s] = x]
  BY <1>1 DEF Loaded
<1>3. /\ taken \in 0 .. MaxApprovals /\ woke \in 0 .. MaxChildren
      /\ taken = None \/ taken \in DOMAIN approval
      /\ taken # None => AsksApproval /\ taken = granted
  <2>1. /\ approval \in Seq(Approval) /\ Len(approval) <= MaxApprovals
        /\ child \in Seq(Child) /\ Len(child) <= MaxChildren
    BY DEF Inv, Rows
  <2>2. DOMAIN approval = 1 .. Len(approval) /\ DOMAIN child = 1 .. Len(child)
        /\ Len(approval) \in Nat /\ Len(child) \in Nat
    BY <2>1
  <2>3. woke = None \/ woke \in DOMAIN child
    BY DEF Told
  <2> QED BY <2>1, <2>2, <2>3, ConstantsAssumption DEF None
<1>4. RowInv(row, graph, child, approval) /\ row \in Row
  BY DEF Inv, RowInv
<1>5. /\ x \in Session
      /\ x.pc = pc /\ x.base = row /\ x.cursor = row.cursor /\ x.vars = row.vars
      /\ x.granted = taken /\ x.spent = taken /\ x.woke = woke /\ x.saw = saw /\ x.mine = {}
  <2>1. /\ x.pc = pc /\ x.base = row /\ x.cursor = row.cursor /\ x.vars = row.vars
        /\ x.granted = taken /\ x.spent = taken /\ x.woke = woke /\ x.saw = saw /\ x.mine = {}
    BY <1>1 DEF IdleSession
  <2>2. /\ pc \in { "idle", "decided", "rejecting", "loaded", "working", "started", "performed" }
        /\ row.cursor \in Nodes \cup {End} /\ row.vars \in Vars
        /\ 1 \in Nat \ {0} /\ {} \in SUBSET ChildId /\ << >> \in Seq(Nodes) /\ 0 \in Nat
        /\ (human /\ KindAtCursor = "human_input") \in BOOLEAN
    BY <1>4 DEF ReadPC, Row
  <2>3. x \in Session
    BY <1>1, <1>3, <1>4, <2>2 DEF IdleSession, Session
  <2> QED BY <2>1, <2>3
<1>6. VarsInv(x.vars, x.spent, graph, child, approval)
  <2>1. VarsInv(row.vars, None, graph, child, approval) /\ approval \in Seq(Approval)
    BY <1>4 DEF RowInv, Inv, Rows
  <2>2. VarsInv(row.vars, taken, graph, child, approval)
    BY <2>1, PassableMore DEF VarsInv
  <2> QED BY <1>5, <2>2
<1>7. x.pc \notin ActivePC
  BY <1>5 DEF ReadPC, ActivePC
<1>8. SessionInv(x, graph, child, approval)
  BY <1>3, <1>4, <1>5, <1>6 DEF SessionInv, ReadPC, RowInv
<1>9. approval' \in Seq(Approval) /\ Len(approval') <= MaxApprovals
  BY DEF Inv, Rows
<1> QED BY <1>2, <1>7, <1>8, <1>9, ReadStep, SameKept

\* What resume_run asks for is what the node will ask for.
LEMMA ResumeFits ==
  ASSUME Inv, NEW granted, NEW human, CanResume(granted, human)
  PROVE  /\ row.status \in Resumable
         /\ AsksApproval => approval[granted].status = "approved"
                              /\ approval[granted].node = row.cursor
  BY DEF CanResume, Fits

LEMMA IdleIsInactive ==
  ASSUME NEW s, sess[s].pc \in { "idle", "decided", "loaded", "rejecting" }
  PROVE  ~Active(s)
  BY DEF Active, ActivePC

LEMMA UserResumesKeeps == ASSUME Inv, NEW s \in Sessions, UserResumes(s) PROVE Inv'
<1>1. PICK granted \in { None } \cup DOMAIN approval, human \in BOOLEAN :
        CanResume(granted, human) /\ Loaded(s, "loaded", granted, human, None, "active")
  BY DEF UserResumes
<1>2. /\ sess[s].pc = "idle"
      /\ UNCHANGED << graph, row, child, childRow, approval, timer, due, hook, lock, raced,
                      stranded, missed, disturbances >>
  BY DEF UserResumes
<1>3. Aux'
  BY <1>2 DEF Inv, Aux
<1>4. "loaded" \in ReadPC /\ "loaded" # "rejecting" /\ "active" \in ChildStatus
  BY DEF ReadPC, ChildStatus
<1>5. /\ row.status \in Resumable
      /\ AsksApproval => approval[granted].status = "approved"
                           /\ approval[granted].node = row.cursor
  BY <1>1, ResumeFits
<1>6. ~Active(s)
  BY <1>2, IdleIsInactive
<1>7. granted = None \/ granted \in DOMAIN approval
  BY <1>1
<1> QED BY <1>1, <1>2, <1>3, <1>4, <1>5, <1>6, <1>7, LoadedKeeps

\* The session is as it was, or idle.
LEMMA StaysOrIdle ==
  ASSUME Inv, NEW s \in Sessions, ~Active(s),
         sess' = sess \/ sess' = [sess EXCEPT ![s] = IdleSession],
         graph' = graph, Aux',
         UNCHANGED << row, child, childRow, approval, lock, raced, stranded >>
  PROVE  Inv'
<1>1. PICK x \in { sess[s], IdleSession } : sess' = [sess EXCEPT ![s] = x]
  BY DEF Inv, Rows
<1>2. SessionInv(x, graph, child, approval)
  BY InitRowInv, IdleInv DEF Inv, Rows
<1>3. x.pc \notin ActivePC
  BY DEF Active, IdleSession, ActivePC
<1>4. approval' \in Seq(Approval) /\ Len(approval') <= MaxApprovals
  BY DEF Inv, Rows
<1> QED BY <1>1, <1>2, <1>3, <1>4, ReadStep, SameKept

LEMMA ChildHookKeeps ==
  ASSUME Inv, NEW s \in Sessions, NEW h \in hook, ChildHook(s, h)
  PROVE  Inv'
<1>1. /\ sess[s].pc = "idle" /\ hook' = hook \ {h}
      /\ UNCHANGED << graph, row, child, childRow, approval, timer, due, lock, raced, stranded,
                      disturbances >>
      /\ missed' \in { missed, missed \cup { h.child } }
  BY DEF ChildHook
<1>2. /\ h \in HookCall /\ Told(h.status, h.child, child) /\ h.child \in DOMAIN child
      /\ h.status \in ChildStatus /\ h.status # "active"
  BY DEF Inv, Aux, Told, HookCall, ChildStatus, ChildEnd
<1>3. Aux' /\ ~Active(s)
  BY <1>1, <1>2, IdleIsInactive DEF Inv, Aux
<1>4. CASE CanResume(None, FALSE) /\ Loaded(s, "loaded", None, FALSE, h.child, h.status)
  <2>1. "loaded" \in ReadPC /\ "loaded" # "rejecting" /\ "active" \in ChildStatus
    BY DEF ReadPC, ChildStatus
  <2> QED BY <1>1, <1>2, <1>3, <1>4, <2>1, LoadedKeeps, ResumeFits
<1>5. CASE sess' = sess
  BY <1>1, <1>3, <1>5, StaysOrIdle
<1> QED BY <1>4, <1>5 DEF ChildHook

LEMMA TimerFiresKeeps ==
  ASSUME Inv, NEW s \in Sessions, NEW n \in Nodes, TimerFires(s, n)
  PROVE  Inv'
<1>1. /\ sess[s].pc = "idle" /\ timer' = timer \ {n}
      /\ UNCHANGED << graph, row, child, childRow, approval, due, hook, lock, raced, stranded,
                      missed, disturbances >>
  BY DEF TimerFires
<1>2. Aux' /\ ~Active(s)
  BY <1>1, IdleIsInactive DEF Inv, Aux
<1>3. CASE row.status = "paused" /\ Loaded(s, "loaded", None, FALSE, None, "active")
  <2>1. "loaded" \in ReadPC /\ "loaded" # "rejecting" /\ "active" \in ChildStatus
    BY DEF ReadPC, ChildStatus
  <2> QED BY <1>1, <1>2, <1>3, <2>1, LoadedKeeps DEF Resumable
<1>4. CASE sess' = sess
  BY <1>1, <1>2, <1>4, StaysOrIdle
<1> QED BY <1>3, <1>4 DEF TimerFires

LEMMA DecideKeeps ==
  ASSUME Inv, NEW s \in Sessions, NEW a \in ApprovalId,
         NEW status \in { "approved", "rejected" }, Decide(s, a, status)
  PROVE  Inv'
<1>1. /\ sess[s].pc = "idle" /\ a \in DOMAIN approval /\ approval[a].status = "pending"
      /\ approval' = [approval EXCEPT ![a].status = status]
      /\ sess' = [sess EXCEPT ![s] = [IdleSession EXCEPT !.pc = "decided", !.granted = a]]
      /\ UNCHANGED << graph, row, child, childRow, timer, due, hook, lock, raced, stranded,
                      missed, disturbances >>
  BY DEF Decide
<1>2. approval \in Seq(Approval) /\ Len(approval) <= MaxApprovals
  BY DEF Inv, Rows
<1>3. approval[a] \in Approval
  BY <1>1, <1>2
<1>4. PICK q : q = [approval[a] EXCEPT !.status = status]
  OBVIOUS
<1>5. /\ q \in Approval /\ q.node = approval[a].node /\ q.status = status
      /\ q.consumed = approval[a].consumed
  BY <1>3, <1>4 DEF Approval
<1>6. approval' = [approval EXCEPT ![a] = q]
  BY <1>1, <1>4
<1>7. /\ approval' \in Seq(Approval) /\ Len(approval') <= MaxApprovals
      /\ DOMAIN approval' = DOMAIN approval /\ approval'[a] = q
      /\ \A b \in DOMAIN approval \ {a} : approval'[b] = approval[b]
  BY <1>1, <1>2, <1>5, <1>6
<1>8. KeptApprovals(approval, approval')
  BY <1>1, <1>5, <1>7 DEF KeptApprovals
<1>9. PICK x : x = [IdleSession EXCEPT !.pc = "decided", !.granted = a]
  OBVIOUS
<1>10. /\ x.pc = "decided" /\ x.base = IdleSession.base /\ x.vars = IdleSession.vars
       /\ x.spent = IdleSession.spent /\ x.cursor = IdleSession.cursor
       /\ x.mine = IdleSession.mine /\ x.woke = IdleSession.woke
       /\ x.saw = IdleSession.saw /\ x.granted = a
  BY <1>9 DEF IdleSession
<1>11. SessionInv(IdleSession, graph, child, approval') /\ IdleSession \in Session
  BY InitRowInv, IdleInv DEF Inv, Rows, SessionInv
<1>12. x \in Session
  <2>1. a \in 0 .. MaxApprovals
    BY ConstantsAssumption DEF ApprovalId
  <2> QED BY <1>9, <1>11, <2>1 DEF Session
<1>13. a # None
  BY ConstantsAssumption DEF None, ApprovalId
<1>14. SessionInv(x, graph, child, approval')
  BY <1>1, <1>7, <1>10, <1>11, <1>12, <1>13 DEF SessionInv, ReadPC
<1>15. Aux' /\ ~Active(s) /\ x.pc \notin ActivePC
  BY <1>1, <1>10, IdleIsInactive DEF Inv, Aux, ActivePC
<1> QED BY <1>1, <1>7, <1>8, <1>9, <1>14, <1>15, ReadStep

LEMMA DecisionHookKeeps == ASSUME Inv, NEW s \in Sessions, DecisionHook(s) PROVE Inv'
<1> DEFINE a == sess[s].granted
<1>1. /\ sess[s].pc = "decided"
      /\ UNCHANGED << graph, row, child, childRow, approval, timer, due, hook, lock, raced,
                      stranded, missed, disturbances >>
  BY DEF DecisionHook
<1>2. a \in DOMAIN approval
  BY <1>1 DEF Inv, SessionInv
<1>3. Aux' /\ ~Active(s)
  BY <1>1, IdleIsInactive DEF Inv, Aux
<1>4. /\ "loaded" \in ReadPC /\ "rejecting" \in ReadPC /\ "loaded" # "rejecting"
      /\ "active" \in ChildStatus
  BY DEF ReadPC, ChildStatus
<1>5. CASE CanResume(a, FALSE) /\ Loaded(s, "loaded", a, FALSE, None, "active")
  BY <1>1, <1>2, <1>3, <1>4, <1>5, LoadedKeeps, ResumeFits
<1>6. CASE /\ approval[a].status = "rejected" /\ row.status = "waiting_approval"
           /\ Loaded(s, "rejecting", None, FALSE, None, "active")
  <2>1. row.status \in Resumable
    BY <1>6 DEF Resumable
  <2> QED BY <1>1, <1>2, <1>3, <1>4, <1>6, <2>1, LoadedKeeps
<1>7. CASE sess' = [sess EXCEPT ![s] = IdleSession]
  BY <1>1, <1>3, <1>7, StaysOrIdle
<1> QED BY <1>5, <1>6, <1>7 DEF DecisionHook

LEMMA StartRunKeeps == ASSUME Inv, NEW s \in Sessions, StartRun(s) PROVE Inv'
<1>1. /\ row.status = "absent" /\ \A t \in Sessions : sess[t].pc = "idle"
      /\ lock' = s
      /\ UNCHANGED << graph, row, child, childRow, approval, timer, due, hook, raced, stranded,
                      missed, disturbances >>
  BY DEF StartRun
<1>2. PICK x : x = [IdleSession EXCEPT !.pc = "working", !.cursor = graph.entry]
  OBVIOUS
<1>3. sess' = [sess EXCEPT ![s] = x]
  BY <1>2 DEF StartRun
<1>4. /\ x.pc = "working" /\ x.base = IdleSession.base /\ x.vars = IdleSession.vars
      /\ x.spent = IdleSession.spent /\ x.cursor = graph.entry
      /\ x.mine = IdleSession.mine /\ x.woke = IdleSession.woke
      /\ x.saw = IdleSession.saw /\ x.granted = None
  BY <1>2 DEF IdleSession
<1>5. SessionInv(IdleSession, graph, child, approval) /\ IdleSession \in Session
  BY InitRowInv, IdleInv DEF Inv, Rows, SessionInv
<1>6. graph.entry \in Nodes /\ graph.entry \in Reached(graph)
  BY GraphType
<1>7. x \in Session
  BY <1>2, <1>5, <1>6 DEF Session
<1>8. SessionInv(x, graph, child, approval)
  BY <1>4, <1>5, <1>6, <1>7 DEF SessionInv, ReadPC
<1>9. row = InitRow /\ x.base = row /\ x.vars = row.vars
  BY <1>1, <1>4 DEF Inv, RowInv, IdleSession, InitRow
<1>10. \A t \in Sessions : ~Active(t)
  BY <1>1, IdleIsInactive
<1>11. row.status \notin RunTerminal /\ row.status # "running"
  BY <1>1 DEF RunTerminal
<1>12. ~raced /\ BranchesApart(graph) => Knows(x.vars, child, ToNote(x))
  BY <1>4, <1>9, <1>11 DEF Inv, Solo, ToNote
<1>13. Frame /\ approval' \in Seq(Approval) /\ Len(approval') <= MaxApprovals
  BY <1>1 DEF Frame, Inv, Aux, Rows
<1>14. lock' \in Sessions \cup {Nobody} /\ x.pc \in ActivePC
  BY <1>1, <1>4 DEF ActivePC
<1> QED
  BY <1>1, <1>3, <1>8, <1>9, <1>10, <1>11, <1>12, <1>13, <1>14, SessionStep, SameKept

\* A session that takes the row finds it free and, unless it races, as it read it.
LEMMA TakesRow ==
  ASSUME Inv, NEW s \in Sessions, sess[s].pc \in ReadPC, lock = Nobody,
         ~raced, row = sess[s].base
  PROVE  /\ row.status \in Resumable
         /\ row.status \notin RunTerminal
         /\ \A t \in Sessions : ~Active(t)
         /\ sess[s].vars = row.vars
         /\ BranchesApart(graph) => Knows(row.vars, child, {})
<1>1. row.status \in Resumable /\ sess[s].vars = row.vars
  BY DEF Inv, SessionInv
<1>2. \A t \in Sessions : ~Active(t)
  BY <1>1, NobodyActive
<1>3. row.status \notin RunTerminal /\ row.status # "running"
  BY <1>1, StatusesOfRow
<1> QED BY <1>1, <1>2, <1>3 DEF Inv, Solo

LEMMA EnterKeeps == ASSUME Inv, NEW s \in Sessions, Enter(s) PROVE Inv'
<1>1. /\ sess[s].pc = "loaded" /\ lock = Nobody /\ lock' = s
      /\ raced' = (raced \/ row # sess[s].base)
      /\ UNCHANGED << graph, row, child, childRow, approval, timer, due, hook, stranded, missed,
                      disturbances >>
  BY DEF Enter
<1>2. PICK x : x = [sess[s] EXCEPT !.pc = "working"]
  OBVIOUS
<1>3. sess' = [sess EXCEPT ![s] = x]
  BY <1>2 DEF Enter
<1>4. x \in Session
  BY <1>2, OfSession DEF Session
<1>5. /\ x.pc = "working" /\ x.base = sess[s].base /\ x.vars = sess[s].vars
      /\ x.cursor = sess[s].cursor /\ x.granted = sess[s].granted /\ x.spent = sess[s].spent
      /\ x.mine = sess[s].mine /\ x.woke = sess[s].woke /\ x.saw = sess[s].saw
  BY <1>2, OfSession DEF Session
<1>6. SessionInv(x, graph, child, approval)
  BY <1>1, <1>4, <1>5, OfSession DEF SessionInv, ReadPC
<1>7. Frame /\ approval' \in Seq(Approval) /\ Len(approval') <= MaxApprovals
  BY <1>1 DEF Frame, Inv, Aux, Rows
<1>8. ASSUME ~raced'
      PROVE  /\ x.base = row
             /\ row.status \notin RunTerminal
             /\ BranchesApart(graph) => Knows(x.vars, child, ToNote(x))
             /\ \A t \in Sessions : ~Active(t)
  <2>1. ~raced /\ row = sess[s].base /\ sess[s].pc \in ReadPC
    BY <1>1, <1>8 DEF ReadPC
  <2> QED BY <1>1, <1>5, <2>1, TakesRow DEF ToNote
<1>9. lock' \in Sessions \cup {Nobody} /\ x.pc \in ActivePC
  BY <1>1, <1>5 DEF ActivePC
<1> QED BY <1>1, <1>3, <1>6, <1>7, <1>8, <1>9, SessionStep, SameKept

LEMMA ApplyRejectionKeeps == ASSUME Inv, NEW s \in Sessions, ApplyRejection(s) PROVE Inv'
<1>1. PICK v : v = [sess[s].vars EXCEPT !.approval = None]
  OBVIOUS
<1>2. /\ sess[s].pc = "rejecting" /\ lock = Nobody /\ sess[s].pc \in ReadPC
      /\ raced' = (raced \/ row # sess[s].base)
      /\ UNCHANGED << graph, child, timer, due, hook, stranded, missed, disturbances >>
  BY DEF ApplyRejection, ReadPC
<1>3. /\ v.agents = sess[s].vars.agents
      /\ VarsInv(v, sess[s].spent, graph, child, approval)
  BY <1>1, NoApproval
<1>4. Frame
  BY <1>2 DEF Frame, Inv, Aux
<1>5. ASSUME ~raced'
      PROVE  /\ sess[s].base = row
             /\ row.status \notin RunTerminal
             /\ \A t \in Sessions : ~Active(t)
             /\ BranchesApart(graph) => Knows(v, child, {})
  BY <1>2, <1>3, <1>5, TakesRow, KnowsAlike
<1>6. ASSUME NEW status \in { "waiting_input", "cancelled", "failed" },
             Finish(s, status, sess[s].cursor, v, << >>)
      PROVE  Inv'
  <2>1. status \in RunStatus \ {"absent"} /\ status # "running"
    BY Statuses
  <2> QED BY <1>2, <1>3, <1>4, <1>5, <1>6, <2>1, FinishStep, OfSession, NoneMade
<1>7. CASE /\ sess[s].cursor # End /\ graph.onReject = "route_to"
           /\ GoOn(s, [sess[s] EXCEPT !.pc = "working", !.cursor = graph.route,
                                      !.vars = [v EXCEPT !.completed =
                                                  @ \cup { sess[s].cursor }]])
  <2>1. PICK w : w = [v EXCEPT !.completed = @ \cup { sess[s].cursor }]
    OBVIOUS
  <2>2. PICK x : x = [sess[s] EXCEPT !.pc = "working", !.cursor = graph.route, !.vars = w]
    OBVIOUS
  <2>3. sess' = [sess EXCEPT ![s] = x] /\ lock' = s /\ UNCHANGED << row, childRow, approval >>
    BY <1>7, <2>1, <2>2 DEF GoOn
  <2>4. /\ SessionInv(sess[s], graph, child, approval) /\ sess[s] \in Session
        /\ sess[s].cursor \in Nodes
    BY <1>7, OfSession
  <2>5. Passable(sess[s].cursor, sess[s].spent, graph, child, approval)
    BY <1>2, <1>7, <2>4 DEF SessionInv, Passable
  <2>6. VarsInv(w, sess[s].spent, graph, child, approval) /\ w.agents = v.agents
    BY <1>3, <2>1, <2>4, <2>5, VarsDone
  <2>7. w \in Vars
    BY <2>6 DEF VarsInv
  <2>8. graph.route \in Nodes /\ graph.route \in Reached(graph)
    BY GraphType
  <2>9. x \in Session
    BY <2>2, <2>4, <2>7, <2>8 DEF Session
  <2>10. /\ x.pc = "working" /\ x.base = sess[s].base /\ x.vars = w /\ x.cursor = graph.route
         /\ x.granted = sess[s].granted /\ x.spent = sess[s].spent /\ x.mine = sess[s].mine
         /\ x.woke = sess[s].woke /\ x.saw = sess[s].saw
    BY <2>2, <2>4 DEF Session
  <2>11. sess[s].granted = None
    BY <1>2, <2>4 DEF SessionInv
  <2>12. SessionInv(x, graph, child, approval)
    BY <2>4, <2>6, <2>8, <2>9, <2>10, <2>11 DEF SessionInv, ReadPC
  <2>13. BranchesApart(graph) /\ ~raced' => Knows(x.vars, child, ToNote(x))
    BY <1>5, <2>6, <2>10, KnowsAlike DEF ToNote
  <2>14. approval' \in Seq(Approval) /\ Len(approval') <= MaxApprovals
    BY <2>3 DEF Inv, Rows
  <2>15. lock' \in Sessions \cup {Nobody} /\ x.pc \in ActivePC
    BY <2>3, <2>10 DEF ActivePC
  <2> QED
    BY <1>2, <1>4, <1>5, <2>3, <2>10, <2>12, <2>13, <2>14, <2>15, SessionStep, SameKept
<1>8. PICK onReject \in { "fail", "cancel", "request_changes", "route_to" } :
        onReject = IF sess[s].cursor = End THEN "fail" ELSE graph.onReject
  BY GraphType DEF Graph
<1>9. CASE onReject = "route_to"
  BY <1>1, <1>7, <1>8, <1>9 DEF ApplyRejection
<1>10. CASE onReject # "route_to"
  <2>1. PICK status \in { "waiting_input", "cancelled", "failed" } :
          Finish(s, status, sess[s].cursor, v, << >>)
    BY <1>1, <1>8, <1>10 DEF ApplyRejection, Pause, FailRun
  <2> QED BY <1>6, <2>1
<1> QED BY <1>9, <1>10

LEMMA DisturbanceCounts ==
  ASSUME Inv, (UNCHANGED disturbances) \/ Disturb
  PROVE  disturbances' \in 0 .. MaxDisturbances
BY ConstantsAssumption DEF Inv, Aux, Disturb

LEMMA SessionLostKeeps == ASSUME Inv, NEW s \in Sessions, SessionLost(s) PROVE Inv'
<1>1. /\ sess[s].pc # "idle" /\ sess' = [sess EXCEPT ![s] = IdleSession]
      /\ missed' = missed \cup ({ sess[s].woke } \ { None })
      /\ UNCHANGED << graph, child, timer, due, hook, raced >>
      /\ Disturb
  BY DEF SessionLost
<1>2. missed' \subseteq DOMAIN child /\ disturbances' \in 0 .. MaxDisturbances
  BY <1>1, DisturbanceCounts DEF Inv, Aux, SessionInv, Told
<1>3. IdleSession.pc \notin ActivePC /\ IdleSession.pc = "idle"
  BY DEF IdleSession, ActivePC
<1>4. CASE /\ lock' = IF lock = s THEN Nobody ELSE lock
           /\ stranded' = (stranded \/ sess[s].base.status = "running")
           /\ UNCHANGED << row, childRow, approval >>
  <2>1. stranded' \in BOOLEAN
    BY <1>4 DEF Inv, Aux
  <2>2. Frame
    BY <1>1, <1>2, <1>4, <2>1 DEF Frame, Inv, Aux
  <2>3. /\ approval' \in Seq(Approval) /\ Len(approval') <= MaxApprovals
        /\ lock' \in Sessions \cup {Nobody}
    BY <1>4 DEF Inv, Rows
  <2>4. SessionInv(IdleSession, graph, child, approval')
    BY InitRowInv, IdleInv DEF Inv, Rows
  <2>5. \A t \in Sessions \ {s} : Active(t) /\ lock = t => lock' = t
    BY <1>4
  <2>6. ~raced' /\ Active(s) /\ row.status = "running" => stranded'
    BY <1>1, <1>4 DEF Inv, Solo, Alone
  <2> QED BY <1>1, <1>3, <1>4, <2>2, <2>3, <2>4, <2>5, <2>6, SessionStep, SameKept
<1>5. CASE /\ sess[s].pc = "working" /\ CommitOnTheWay(s) /\ stranded' = TRUE
  <2>1. Frame
    BY <1>1, <1>2, <1>5 DEF Frame, Inv, Aux
  <2>2. Active(s)
    BY <1>5 DEF Active, ActivePC
  <2>3. child' \in Seq(Child) /\ Len(child') <= MaxChildren
    BY <1>1 DEF Inv, Rows
  <2>4. SessionInv(IdleSession, graph, child', approval')
    BY InitRowInv, IdleInv DEF Inv, Rows
  <2> QED BY <1>1, <1>3, <1>5, <2>1, <2>2, <2>3, <2>4, CommitStep, SameKept
<1> QED BY <1>4, <1>5 DEF SessionLost

------------------------------------------------------------------------------
\* The rest of the world.

LEMMA WorldKeeps ==
  ASSUME Inv, UNCHANGED << graph, row, childRow, approval, lock, sess, raced, stranded >>,
         child' \in Seq(Child), Len(child') = Len(child), KeptChildren(child, child'), Aux'
  PROVE  Inv'
<1>1. child \in Seq(Child)
  BY DEF Inv, Rows
<1>2. DOMAIN child' = DOMAIN child /\ \A c \in DOMAIN child : child'[c].node = child[c].node
  BY <1>1 DEF KeptChildren
<1>3. Rows'
  BY <1>2 DEF Inv, Rows
<1>4. /\ RowInv(row, graph, child', approval)
      /\ \A s \in Sessions : SessionInv(sess[s], graph, child', approval)
  BY RowKept, SessionKept, SameKept DEF Inv
<1>5. ASSUME ~raced' PROVE Solo'
  <2>1. Solo
    BY <1>5 DEF Inv
  <2>2. \A v, rest : Knows(v, child, rest) => Knows(v, child', rest)
    BY <1>2 DEF Knows
  <2>3. OneEach(child) => OneEach(child')
    BY <1>2 DEF OneEach
  <2>4. \A s \in Sessions : (Active(s)' <=> Active(s)) /\ (Alone(s) => Alone(s)')
    BY <2>2 DEF Active, Alone
  <2>5. (row'.status = "running" => stranded' \/ \E s \in Sessions : Active(s)')
    BY <2>1, <2>4 DEF Solo
  <2> QED BY <2>1, <2>2, <2>3, <2>4, <2>5 DEF Solo
<1> QED BY <1>3, <1>4, <1>5 DEF Inv

\* What any move of a child leaves true.
LEMMA MovesKept ==
  ASSUME Inv, NEW c, NEW status \in ChildStatus, Moves(c, status)
  PROVE  /\ c \in DOMAIN child /\ c \in 1 .. MaxChildren
         /\ child' \in Seq(Child) /\ Len(child') = Len(child)
         /\ DOMAIN child' = DOMAIN child
         /\ child'[c].status = status
         /\ \A d \in DOMAIN child \ {c} : child'[d] = child[d]
         /\ KeptChildren(child, child')
         /\ \A d \in DOMAIN child' : Told(child'[d].status, d, child')
         /\ \A st, d : Told(st, d, child) => Told(st, d, child')
         /\ Told(status, c, child')
<1>1. c \in DOMAIN child
  BY DEF Moves
<1>2. child \in Seq(Child) /\ Len(child) <= MaxChildren /\ child[c] \in Child
  BY <1>1 DEF Inv, Rows
<1>3. PICK q : q = [child[c] EXCEPT !.status = status, !.done = @ \/ status = "completed"]
  OBVIOUS
<1>4. /\ q \in Child /\ q.node = child[c].node /\ q.status = status
      /\ child[c].done => q.done
      /\ status = "completed" => q.done
  BY <1>2, <1>3 DEF Child
<1>5. child' = [child EXCEPT ![c] = q]
  BY <1>1, <1>2, <1>3 DEF Moves
<1>6. /\ child' \in Seq(Child) /\ Len(child') = Len(child)
      /\ DOMAIN child' = DOMAIN child /\ child'[c] = q
      /\ \A d \in DOMAIN child \ {c} : child'[d] = child[d]
      /\ c \in 1 .. MaxChildren
  BY <1>1, <1>2, <1>4, <1>5, ConstantsAssumption
<1>7. KeptChildren(child, child')
  BY <1>4, <1>6 DEF KeptChildren
<1>8. \A d \in DOMAIN child' : Told(child'[d].status, d, child')
  BY <1>4, <1>6 DEF Told, Inv, Aux
<1>9. \A st, d : Told(st, d, child) => Told(st, d, child')
  BY <1>7 DEF Told, KeptChildren
<1> QED BY <1>1, <1>4, <1>6, <1>7, <1>8, <1>9 DEF Told

LEMMA ChildEndsKeeps ==
  ASSUME Inv, NEW c \in ChildId, NEW status \in ChildEnd, ChildEnds(c, status)
  PROVE  Inv'
<1>1. PICK h : h = [ child |-> c, status |-> status ]
  OBVIOUS
<1>2. /\ Moves(c, status)
      /\ hook' \subseteq hook \cup {h} /\ missed' \subseteq missed \cup {c}
      /\ (UNCHANGED disturbances) \/ Disturb
      /\ UNCHANGED << graph, row, childRow, approval, timer, due, lock, sess, raced, stranded >>
  BY <1>1 DEF ChildEnds
<1>3. h \in HookCall /\ h.child = c /\ h.status = status /\ status \in ChildStatus
  BY <1>1 DEF HookCall, ChildId, ChildStatus
<1>4. Aux'
  BY <1>2, <1>3, MovesKept, DisturbanceCounts DEF Inv, Aux
<1> QED BY <1>2, <1>3, <1>4, MovesKept, WorldKeeps

LEMMA ChildFailsUnsaidKeeps ==
  ASSUME Inv, NEW c \in ChildId, ChildFailsUnsaid(c)
  PROVE  Inv'
<1>1. /\ Moves(c, "failed") /\ missed' = missed \cup {c} /\ Disturb
      /\ UNCHANGED << graph, row, childRow, approval, timer, due, hook, lock, sess, raced,
                      stranded >>
  BY DEF ChildFailsUnsaid
<1>2. "failed" \in ChildStatus
  BY DEF ChildStatus, ChildEnd
<1>3. Aux'
  BY <1>1, <1>2, MovesKept, DisturbanceCounts DEF Inv, Aux
<1> QED BY <1>1, <1>2, <1>3, MovesKept, WorldKeeps

LEMMA ChildResumedKeeps ==
  ASSUME Inv, NEW c \in ChildId, ChildResumed(c)
  PROVE  Inv'
<1>1. /\ Moves(c, "active") /\ Disturb
      /\ UNCHANGED << graph, row, childRow, approval, timer, due, hook, lock, sess, raced,
                      stranded, missed >>
  BY DEF ChildResumed
<1>2. "active" \in ChildStatus
  BY DEF ChildStatus
<1>3. Aux'
  BY <1>1, <1>2, MovesKept, DisturbanceCounts DEF Inv, Aux
<1> QED BY <1>1, <1>2, <1>3, MovesKept, WorldKeeps

LEMMA TimePassesKeeps == ASSUME Inv, NEW n \in Nodes, TimePasses(n) PROVE Inv'
<1>1. /\ due' = due \cup {n}
      /\ UNCHANGED << graph, row, child, childRow, approval, timer, hook, lock, sess, raced,
                      stranded, missed, disturbances >>
  BY DEF TimePasses
<1>2. child' \in Seq(Child) /\ Len(child') = Len(child) /\ KeptChildren(child, child') /\ Aux'
  BY <1>1, SameKept DEF Inv, Rows, Aux
<1> QED BY <1>1, <1>2, WorldKeeps

LEMMA InitInv == ASSUME Init PROVE Inv
<1>1. /\ graph \in Graphs /\ row = InitRow /\ child = << >> /\ childRow = {}
      /\ approval = << >> /\ timer = {} /\ due = {} /\ hook = {} /\ lock = Nobody
      /\ sess = [s \in Sessions |-> IdleSession] /\ raced = FALSE /\ stranded = FALSE
      /\ missed = {} /\ disturbances = 0
  BY DEF Init
<1>2. RowInv(InitRow, graph, child, approval)
  BY <1>1, InitRowInv
<1>3. SessionInv(IdleSession, graph, child, approval) /\ IdleSession \in Session
  BY <1>2, IdleInv DEF SessionInv
<1>4. Rows
  <2>1. child \in Seq(Child) /\ Len(child) <= MaxChildren
    BY <1>1, ConstantsAssumption
  <2>2. approval \in Seq(Approval) /\ Len(approval) <= MaxApprovals
    BY <1>1, ConstantsAssumption
  <2> QED BY <1>1, <1>3, <2>1, <2>2 DEF Rows
<1>5. Aux
  <2>1. DOMAIN child = {} /\ 0 \in 0 .. MaxDisturbances
    BY <1>1, ConstantsAssumption
  <2> QED BY <1>1, <2>1 DEF Aux
<1>6. Solo
  <2>1. \A s \in Sessions : ~Active(s)
    BY <1>1, IdleIsInactive DEF IdleSession
  <2>2. row.status = "absent"
    BY <1>1 DEF InitRow
  <2>3. OneEach(child) /\ Knows(row.vars, child, {})
    BY <1>1 DEF OneEach, Knows
  <2> QED BY <2>1, <2>2, <2>3 DEF Solo
<1> QED BY <1>1, <1>2, <1>3, <1>4, <1>5, <1>6 DEF Inv

LEMMA NextInv == ASSUME Inv, [Next]_allVars PROVE Inv'
<1>1. ASSUME NEW s \in Sessions, AdvanceStep(s) PROVE Inv'
  BY <1>1, DecisionHookKeeps, EnterKeeps, ApplyRejectionKeeps, StepPastEndKeeps,
     StepTriggerKeeps, StepConditionKeeps, StepRouterKeeps, StepHumanInputKeeps,
     StepApprovalKeeps, StepToolKeeps, ToolCommitsKeeps, AfterToolKeeps, StepDelayKeeps,
     StepAgentKeeps, NoteChildKeeps, SkipBranchKeeps, SimpleBranchKeeps, ToolBranchKeeps,
     CommittingBranchKeeps, RefuseBranchKeeps,
     DelayBranchKeeps, StartBranchKeeps, NoteBranchKeeps, RefreshBranchKeeps, ConcludeKeeps,
     RunOutOfStepsKeeps
  DEF AdvanceStep
<1>2. ASSUME NEW s \in Sessions, UserStep(s) PROVE Inv'
  BY <1>2, StartRunKeeps, UserResumesKeeps, DecideKeeps DEF UserStep
<1>3. ASSUME WorldStep PROVE Inv'
  BY <1>3, ChildEndsKeeps, ChildFailsUnsaidKeeps, ChildResumedKeeps, TimePassesKeeps
  DEF WorldStep
<1>4. ASSUME NEW s \in Sessions,
             \/ \E h \in hook : ChildHook(s, h)
             \/ \E n \in Nodes : TimerFires(s, n)
             \/ SessionLost(s)
      PROVE  Inv'
  BY <1>4, ChildHookKeeps, TimerFiresKeeps, SessionLostKeeps
<1>5. ASSUME UNCHANGED allVars PROVE Inv'
  <2>1. /\ UNCHANGED << graph, row, childRow, approval, lock, sess, raced, stranded >>
        /\ UNCHANGED << child, timer, due, hook, missed, disturbances >>
    BY <1>5 DEF allVars
  <2>2. child' \in Seq(Child) /\ Len(child') = Len(child) /\ KeptChildren(child, child') /\ Aux'
    BY <2>1, SameKept DEF Inv, Rows, Aux
  <2> QED BY <2>1, <2>2, WorldKeeps
<1> QED BY <1>1, <1>2, <1>3, <1>4, <1>5 DEF Next

LEMMA Invariance == Spec => []Inv
<1>1. Init => Inv
  BY InitInv
<1>2. Inv /\ [Next]_allVars => Inv'
  BY NextInv
<1> QED BY <1>1, <1>2, PTL DEF Spec

------------------------------------------------------------------------------
\* The theorems.

\* Every session's copy of the run, the run's row, its children and its requests stay in
\* their ranges, whatever the graph and however the sessions race (workflow_runtime.py,
\* _advance).
THEOREM TypeCorrect == Spec => []TypeOK
<1>1. Inv => TypeOK
  BY DEF Inv, Rows, Aux, RowInv, Told, TypeOK
<1> QED BY <1>1, Invariance, PTL

\* Racing, crashing and rejecting included: a node is among the completed ones only with a
\* completed child or a consumed approval of its own, or by a routed rejection
\* (workflow_runtime.py, _consume_approval_for_node and the agent node).
THEOREM OnlyWithCause == Spec => []PassedWithCause
<1>1. Inv => PassedWithCause
  <2> SUFFICES ASSUME Inv, NEW n \in row.vars.completed, ~Routed
               PROVE  /\ graph.kind[n] = "agent" =>
                           \E c \in DOMAIN child :
                             child[c].node = n /\ child[c].done
                      /\ graph.kind[n] \in { "approval", "tool" } =>
                           \E a \in DOMAIN approval :
                             /\ approval[a].node = n
                             /\ approval[a].status = "approved"
                             /\ approval[a].consumed
    BY DEF PassedWithCause
  <2>1. Passable(n, None, graph, child, approval)
    BY DEF Inv, RowInv, VarsInv
  <2>2. None \notin DOMAIN approval
    BY NotAnIndex DEF Inv, Rows
  <2> QED BY <2>1, <2>2 DEF Passable, Routed
<1> QED BY <1>1, Invariance, PTL

\* While no session has gone on from a row that had changed, a run that says "running" has
\* the session that runs it, unless that session was lost or gave up (workflow_runtime.py,
\* _advance; nothing resumes a "running" run).
THEOREM RunningIsRun == Spec => []RunningHasSession
<1>1. Inv => RunningHasSession
  BY IdleIsInactive DEF Inv, Solo, Alone, Active, ActivePC, RunningHasSession
<1> QED BY <1>1, Invariance, PTL

\* The session that advances the run is the one its row belongs to.
LEMMA OfItsOwn ==
  ASSUME Inv, NEW s \in Sessions, AdvanceStep(s), ~ApplyRejection(s)
  PROVE  UNCHANGED row \/ (Active(s) /\ UNCHANGED raced)
<1>1. CASE DecisionHook(s) \/ Enter(s)
  BY <1>1 DEF DecisionHook, Enter
<1>2. CASE StepPastEnd(s) \/ RunOutOfSteps(s)
  BY <1>2 DEF StepPastEnd, RunOutOfSteps, Here, Active, ActivePC
<1>3. CASE StepTrigger(s) \/ StepCondition(s) \/ StepRouter(s) \/ StepHumanInput(s)
  BY <1>3 DEF StepTrigger, StepCondition, StepRouter, StepHumanInput, At, Here, Active,
              ActivePC
<1>4. CASE StepApproval(s) \/ StepTool(s) \/ ToolCommits(s) \/ AfterTool(s) \/ StepDelay(s)
  BY <1>4 DEF StepApproval, StepTool, ToolCommits, AfterTool, StepDelay, At, Here, Active,
              ActivePC
<1>5. CASE StepAgent(s) \/ NoteChild(s) \/ StartBranch(s) \/ CommittingBranch(s)
  BY <1>5 DEF CommittingBranch, StepAgent, NoteChild, StartBranch, StartChild, At, AtBranch,
              InParallel, Here, Active, ActivePC
<1>6. CASE \/ SkipBranch(s) \/ SimpleBranch(s) \/ ToolBranch(s) \/ RefuseBranch(s)
           \/ DelayBranch(s)
  BY <1>6 DEF SkipBranch, SimpleBranch, ToolBranch, RefuseBranch, DelayBranch, NextBranch
<1>7. CASE NoteBranch(s) \/ RefreshBranch(s) \/ Conclude(s)
  BY <1>7 DEF NoteBranch, RefreshBranch, Conclude, NextBranch, InParallel, Here, Active,
              ActivePC
<1> QED BY <1>1, <1>2, <1>3, <1>4, <1>5, <1>6, <1>7 DEF AdvanceStep

\* Whoever writes the row has not found it ended.
LEMMA NotEnded ==
  ASSUME Inv, [Next]_allVars, ~raced'
  PROVE  UNCHANGED row \/ row.status \notin RunTerminal
<1>1. ASSUME NEW s \in Sessions, Active(s), UNCHANGED raced PROVE row.status \notin RunTerminal
  BY <1>1 DEF Inv, Solo, Alone
<1>2. ASSUME NEW s \in Sessions, ApplyRejection(s) PROVE row.status \notin RunTerminal
  <2>1. row = sess[s].base /\ sess[s].pc = "rejecting"
    BY <1>2 DEF ApplyRejection
  <2>2. sess[s].base.status \in Resumable
    BY <2>1 DEF Inv, SessionInv, ReadPC
  <2> QED BY <2>1, <2>2, StatusesOfRow
<1>3. ASSUME NEW s \in Sessions, AdvanceStep(s)
      PROVE  UNCHANGED row \/ row.status \notin RunTerminal
  BY <1>1, <1>2, <1>3, OfItsOwn
<1>4. ASSUME NEW s \in Sessions, SessionLost(s)
      PROVE  UNCHANGED row \/ row.status \notin RunTerminal
  <2>1. UNCHANGED raced /\ (UNCHANGED row \/ Active(s))
    BY <1>4 DEF SessionLost, Active, ActivePC
  <2> QED BY <1>1, <2>1
<1>5. ASSUME NEW s \in Sessions, UserStep(s) PROVE UNCHANGED row
  BY <1>5 DEF UserStep, StartRun, UserResumes, Decide
<1>6. ASSUME NEW s \in Sessions,
             \/ \E h \in hook : ChildHook(s, h)
             \/ \E n \in Nodes : TimerFires(s, n)
      PROVE  UNCHANGED row
  BY <1>6 DEF ChildHook, TimerFires
<1>7. ASSUME WorldStep PROVE UNCHANGED row
  BY <1>7 DEF WorldStep, ChildEnds, ChildFailsUnsaid, ChildResumed, TimePasses
<1>8. ASSUME UNCHANGED allVars PROVE UNCHANGED row
  BY <1>8 DEF allVars
<1> QED BY <1>3, <1>4, <1>5, <1>6, <1>7, <1>8 DEF Next

\* No hook, timer, decision or late commit moves a run that has ended, until a session goes
\* on from a row that had changed since it read it (workflow_runtime.py, resume_run reads
\* the status without a lock).
THEOREM EndsForGood == Spec => EndIsFinal
<1>1. Inv /\ [Next]_allVars =>
        [row.status \in RunTerminal => row'.status = row.status \/ raced']_allVars
  BY NotEnded
<1> QED BY <1>1, Invariance, PTL DEF Spec, EndIsFinal

\* Where no branch of a parallel node can also be reached by an edge, an agent node gets one
\* task run, however often the run is paused, woken, resumed and rolled back
\* (workflow_runtime.py, _agent_runs and child_run_id).
THEOREM OneTaskRun ==
  ASSUME \A g \in Graphs : BranchesApart(g)
  PROVE  Spec => []OneChildPerNode
<1>1. Inv => OneChildPerNode
  BY DEF Inv, Rows, Solo, OneEach, OneChildPerNode
<1> QED BY <1>1, Invariance, PTL

==============================================================================
