---------------------------- MODULE MCRunLifecycle ----------------------------
(***************************************************************************)
(* Symmetry sets for the safety runs of RunLifecycle.                      *)
(***************************************************************************)
EXTENDS RunLifecycle, TLC

Symmetry == Permutations(Workers) \cup Permutations(Runs) \cup Permutations(Requests)

==============================================================================
