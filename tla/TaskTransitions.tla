--------------------------- MODULE TaskTransitions ---------------------------
(***************************************************************************)
(* The domain state machine of an orchestrator task: the statuses a task   *)
(* row can hold and the moves the code accepts.  Every status change that  *)
(* goes through _transition_task_status is checked against this relation   *)
(* (in memory, on the caller's own copy of the task).                      *)
(***************************************************************************)

TaskStatus ==
  { "backlog", "ready", "queued", "planned", "in_progress", "needs_input",
    "blocked", "needs_review", "needs_approval", "approved", "completed",
    "failed", "synced_to_github", "cancelled", "archived" }

\* workforce/constants.py: TASK_TRANSITIONS.
TASK_TRANSITIONS ==
  [ s \in TaskStatus |->
      CASE s = "backlog"     -> {"ready", "queued", "planned", "archived", "cancelled"}
        [] s = "ready"       -> {"planned", "in_progress", "blocked", "archived", "cancelled"}
        [] s = "queued"      -> {"ready", "planned", "blocked", "failed", "archived",
                                 "cancelled"}
        [] s = "planned"     -> {"in_progress", "blocked", "archived", "failed",
                                 "cancelled", "needs_input"}
        [] s = "in_progress" -> {"blocked", "needs_input", "needs_review",
                                 "needs_approval", "completed", "failed", "planned",
                                 "cancelled"}
        [] s = "needs_input" -> {"in_progress", "planned", "blocked", "cancelled",
                                 "archived"}
        [] s = "blocked"     -> {"planned", "in_progress", "ready", "failed", "archived",
                                 "cancelled"}
        [] s = "needs_review" -> {"needs_approval", "approved", "planned", "blocked",
                                  "failed", "in_progress", "cancelled"}
        [] s = "needs_approval" -> {"completed", "approved", "planned", "blocked",
                                    "cancelled"}
        [] s = "approved"    -> {"completed", "planned", "archived", "needs_approval"}
        [] s = "completed"   -> {"synced_to_github", "planned", "archived", "cancelled"}
        [] s = "failed"      -> {"planned", "queued", "ready", "archived", "cancelled"}
        [] s = "synced_to_github" -> {"archived", "planned", "completed"}
        [] s = "cancelled"   -> {"backlog", "archived"}
        [] s = "archived"    -> {} ]

\* policies.py: is_valid_task_transition.
IsValidTransition(current, next) ==
  current = next \/ next \in TASK_TRANSITIONS[current]

==============================================================================
