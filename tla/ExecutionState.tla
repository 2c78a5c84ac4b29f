--------------------------- MODULE ExecutionState ---------------------------
(***************************************************************************)
(* The two transition tables of services/execution_state.py.  A call of    *)
(* transition_run / transition_step whose target is not in the table       *)
(* raises InvalidTransitionError and changes nothing: CanRun and CanStep   *)
(* are the guards of those calls.                                          *)
(***************************************************************************)

RunStatus ==
  {"pending", "running", "paused", "awaiting_approval", "awaiting_input",
   "awaiting_reauth", "blocked", "partially_completed", "completed",
   "failed", "cancelled", "archived", "timed_out"}

RunTransitions ==
  [pending             |-> {"running", "cancelled", "blocked"},
   running             |-> {"paused", "awaiting_approval", "awaiting_input",
                            "awaiting_reauth", "completed", "failed",
                            "cancelled", "partially_completed"},
   paused              |-> {"running", "cancelled"},
   awaiting_approval   |-> {"running", "cancelled", "failed"},
   awaiting_input      |-> {"running", "cancelled", "failed"},
   awaiting_reauth     |-> {"pending", "running", "cancelled", "failed"},
   blocked             |-> {"pending", "cancelled"},
   partially_completed |-> {"running", "completed", "failed", "cancelled"},
   completed           |-> {"archived"},
   failed              |-> {"pending"},
   cancelled           |-> {},
   archived            |-> {},
   timed_out           |-> {"pending", "cancelled"}]

StepStatus ==
  {"pending", "ready", "running", "waiting_approval", "awaiting_input",
   "blocked", "completed", "completed_unverified", "partially_completed",
   "failed", "skipped", "cancelled", "timed_out"}

StepTransitions ==
  [pending              |-> {"ready", "skipped", "blocked"},
   ready                |-> {"running", "skipped"},
   running              |-> {"completed", "completed_unverified",
                             "partially_completed", "failed",
                             "waiting_approval", "awaiting_input", "skipped",
                             "timed_out", "cancelled"},
   waiting_approval     |-> {"running", "skipped"},
   awaiting_input       |-> {"running", "skipped", "cancelled"},
   blocked              |-> {"pending", "skipped"},
   completed            |-> {},
   completed_unverified |-> {"completed", "partially_completed"},
   partially_completed  |-> {},
   failed               |-> {"pending"},
   skipped              |-> {},
   cancelled            |-> {},
   timed_out            |-> {"pending", "skipped"}]

\* What counts as a satisfied dependency.
TerminalSuccess == {"completed", "completed_unverified"}

CanRun(from, to) == to \in RunTransitions[from]
CanStep(from, to) == to \in StepTransitions[from]
=============================================================================
