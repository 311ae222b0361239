---------------------------- MODULE WorkflowPromise ----------------------------
(***************************************************************************)
(* What a workflow run promises those who look only at what it commits,    *)
(* however often it is paused, woken, resumed and rolled back: progress is *)
(* never taken back and each node passed had its cause, a node is given    *)
(* one task run and only while the run is open, an approval is spent only  *)
(* after it was given, and an ended run does nothing more.                 *)
(*                                                                         *)
(* The promise is void once two sessions have advanced the run from one    *)
(* state of it.                                                            *)
(***************************************************************************)
CONSTANT Nodes

VARIABLES
  agents,    \* the nodes that are passed by a task run
  gates,     \* the nodes that are passed by an approval
  reroutes,  \* a rejection sends the run on
  status,    \* of the run: not there, open, or as it ended
  passed,    \* the nodes the run has got past
  started,   \* the nodes it was given a task run for
  done,      \* those whose task run has completed, whatever has become of it since
  approved,  \* the nodes it was given an approval for
  spent,     \* the nodes whose approval was spent
  rejected,  \* an approval was refused
  void       \* nothing is promised any more

plan == << agents, gates, reroutes >>
tasks == << started, done >>
answers == << approved, rejected >>
vars == << plan, status, passed, tasks, answers, spent, void >>

Ended == { "completed", "failed", "cancelled" }

Init ==
  /\ agents \subseteq Nodes
  /\ gates \subseteq Nodes \ agents
  /\ reroutes \in BOOLEAN
  /\ status = "absent"
  /\ passed = {} /\ spent = {}
  /\ started = {} /\ done = {}
  /\ approved = {} /\ rejected = FALSE
  /\ void = FALSE

\* What lets the run past n.
Cause(n) ==
  \/ reroutes /\ rejected
  \/ (n \in agents => n \in done) /\ (n \in gates => n \in spent)

Spend == spent \subseteq spent' /\ spent' \subseteq approved

\* The run gets on, waits or ends.
Advance ==
  /\ status \notin Ended
  /\ status' \in { "open" } \cup Ended
  /\ Spend
  /\ passed \subseteq passed'
  /\ \A n \in passed' \ passed : Cause(n)'
  /\ UNCHANGED << plan, tasks, answers, void >>

Launch(n) ==
  /\ status \notin Ended
  /\ n \in agents \ started
  /\ started' = started \cup {n}
  /\ status' = "open"
  /\ Spend
  /\ UNCHANGED << plan, passed, done, answers, void >>

\* A task run completes in its own time, whatever has become of the run.  Users may cancel
\* or resume it then; what the run has made of its end stays.
TaskCompletes(n) ==
  /\ n \in started \ done
  /\ done' = done \cup {n}
  /\ UNCHANGED << plan, status, passed, started, answers, spent, void >>

Decide(n) ==
  /\ \/ approved' = approved \cup {n} /\ UNCHANGED rejected
     \/ rejected' = TRUE /\ UNCHANGED approved
  /\ UNCHANGED << plan, status, passed, tasks, spent, void >>

\* After the sessions have raced, anything goes.
Race == void'

Next ==
  \/ Race
  \/ ~void /\ Advance
  \/ ~void /\ \E n \in Nodes : Launch(n) \/ TaskCompletes(n) \/ Decide(n)

Spec == Init /\ [][Next]_vars

==============================================================================
