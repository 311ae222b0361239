---------------------------- MODULE ApprovedEffect ----------------------------
(***************************************************************************)
(* What approval of an external effect promises, whatever the connector:   *)
(* an effect is performed only under a grant, and a second time only when  *)
(* what is known of the first was lost (its session ended, by a crash or   *)
(* an exception, before it could record how the provider's call went).     *)
(***************************************************************************)
EXTENDS Naturals

CONSTANT Versions   \* the versions of the effect that were put up for approval

VARIABLES
  granted,   \* versions that may be performed
  effects,   \* how often the provider has performed each version
  lost       \* how many of these no session could record the outcome of

vars == << granted, effects, lost >>

Init ==
  /\ granted = {}
  /\ effects = [v \in Versions |-> 0]
  /\ lost = [v \in Versions |-> 0]

Grant(v) ==
  /\ granted' = granted \cup {v}
  /\ UNCHANGED << effects, lost >>

Withdraw(v) ==
  /\ granted' = granted \ {v}
  /\ UNCHANGED << effects, lost >>

Perform(v) ==
  /\ v \in granted
  /\ effects[v] = lost[v]
  /\ effects' = [effects EXCEPT ![v] = @ + 1]
  /\ UNCHANGED << granted, lost >>

\* The grant may be gone with the session that held it.
Lose(v) ==
  /\ lost[v] < effects[v]
  /\ lost' = [lost EXCEPT ![v] = @ + 1]
  /\ granted' \in { granted, granted \ {v} }
  /\ UNCHANGED effects

Next == \E v \in Versions : Grant(v) \/ Withdraw(v) \/ Perform(v) \/ Lose(v)

Spec == Init /\ [][Next]_vars

==============================================================================
