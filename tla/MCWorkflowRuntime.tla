--------------------------- MODULE MCWorkflowRuntime ---------------------------
(***************************************************************************)
(* The workflow versions that the runs of WorkflowRuntime are of.  Nodes   *)
(* are numbers; End is 0.                                                  *)
(***************************************************************************)
EXTENDS WorkflowRuntime, TLC

Straight(n) == [cond \in Condition |-> n]

NoChildren == [n \in Nodes |-> << >>]

Kinds(first, second, third, fourth) == << first, second, third, fourth >>

Base ==
  [ entry |-> 1, kind |-> Kinds("trigger", "trigger", "trigger", "trigger"),
    next |-> [n \in Nodes |-> Straight(End)], children |-> NoChildren,
    policy |-> "all_success", need |-> 1, onReject |-> "fail", route |-> 4 ]

\* 1 asks, 2 asks and acts; a rejection ends the run or leads to 3.
Line(onReject) ==
  [ Base EXCEPT !.kind = Kinds("approval", "tool", "agent", "trigger"),
                !.next[1] = Straight(2),
                !.onReject = onReject, !.route = 3 ]

\* 1 works, 2 decides whether it works again.
Loop ==
  [ Base EXCEPT !.kind = Kinds("agent", "condition", "human_input", "trigger"),
                !.next = << Straight(2), [none |-> 3, true |-> 1, false |-> 3],
                            Straight(End), Straight(End) >> ]

Triggered ==
  [ Base EXCEPT !.kind = Kinds("trigger", "agent", "approval", "trigger"),
                !.next = << Straight(2), Straight(3), Straight(End), Straight(End) >> ]

Waits ==
  [ Base EXCEPT !.kind = Kinds("delay", "router", "approval", "trigger"),
                !.next = << Straight(2), [none |-> End, true |-> 1, false |-> 3],
                            Straight(End), Straight(End) >> ]

\* 1 runs the branches 2 and 3.
Fork(second, policy) ==
  [ Base EXCEPT !.kind = Kinds("parallel", "agent", second, "trigger"),
                !.children = << << 2, 3 >>, << >>, << >>, << >> >>,
                !.policy = policy ]

\* 1 is done with its trigger and leaves the approval of its tool open; 4 asks for another.
Leftover ==
  [ Base EXCEPT !.kind = Kinds("parallel", "tool", "trigger", "approval"),
                !.next[1] = Straight(4),
                !.children[1] = << 2, 3 >>,
                !.policy = "any_success", !.onReject = "route_to", !.route = 3 ]

AllGraphs ==
  { Line(r) : r \in { "fail", "cancel", "route_to", "request_changes" } } \cup
  { Loop, Triggered, Waits, Leftover } \cup
  { Fork("agent", policy) : policy \in { "fail_fast", "n_of_m" } } \cup
  { Fork("tool", "any_success"), Fork("tool", "all_success"), Fork("delay", "best_effort"),
    Fork("trigger", "fail_fast"), Fork("condition", "all_success"),
    Fork("human_input", "n_of_m") }

==============================================================================
