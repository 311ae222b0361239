------------------------------ MODULE MCGatedRun ------------------------------
\* Plans and people for TLC.
EXTENDS GatedRun, TLC

CONSTANTS owner, ann, vic, left, right, write, fetch

\* The project's owner (in no role), somebody with the role of an approver, and one who may
\* only look.
MCRoles == (owner :> NoRole) @@ (ann :> "approver") @@ (vic :> "viewer")

MCCall(t, gates) == [tool |-> t, gates |-> gates]

\* Two branches that call the same tool behind the gate: parallel ones of which the cap
\* lets one start.
Twins ==
  [ mode |-> "manager_worker", order |-> << left, right >>, deps |-> [x \in Branches |-> { }],
    parallelizable |-> {left, right}, staffed |-> {left, right},
    calls |-> [x \in Branches |-> << MCCall(write, {"hitl"}) >>],
    cap |-> 1, reviewer |-> FALSE ]

\* right, first in the order, needs left.
Chain ==
  [ Twins EXCEPT !.order = << right, left >>, !.deps = (left :> { }) @@ (right :> {left}), !.cap = 2,
                 !.calls = [x \in Branches |-> << MCCall(fetch, { }) >>] ]

\* Each needs the other.
Cycle == [Twins EXCEPT !.deps = (left :> {right}) @@ (right :> {left})]

\* Nobody is capable of left; right may not use its tool.
Unable ==
  [ Twins EXCEPT !.staffed = {right}, !.parallelizable = { },
                 !.calls = (left :> << >>) @@ (right :> << MCCall(fetch, {"forbidden"}) >>) ]

\* One agent, two calls behind the gate, then two that may fail.
Single ==
  [ Twins EXCEPT !.mode = "single_agent", !.order = << left >>,
                 !.calls = [x \in Branches |->
                    << MCCall(write, {"hitl"}), MCCall(write, {"hitl"}),
                       MCCall(fetch, { }), MCCall(fetch, { }) >>] ]

\* A reviewer, who may ask for rework.
Reviewed ==
  [ Twins EXCEPT !.calls = [x \in Branches |-> << MCCall(fetch, { }) >>], !.reviewer = TRUE ]

\* The toolbox asks for the approval, too.
Refused ==
  [ Single EXCEPT !.calls = [x \in Branches |-> << MCCall(write, {"hitl", "policy"}) >>] ]

MCPlans == { Twins, Chain, Cycle, Unable, Single, Reviewed, Refused }
TwinsOnly == { Twins }
==============================================================================
