------------------------- MODULE PerceptionPolicy -------------------------
(***************************************************************************)
(* The scheduling row of one perception source (PerceptionState) and what  *)
(* PerceptionPolicyService and ReauthService do to it, as operators from   *)
(* rows to rows.  next_run_at is kept as `due': a time in the future is    *)
(* FALSE, and the clock makes it TRUE; likewise `cooled' says that *)
(* CIRCUIT_COOLDOWN_S have passed since circuit_opened_at.  How far in the  *)
(* future the interval, the backoff, the budget stretch, the starvation     *)
(* ceiling or the lease put next_run_at is left open.                       *)
(***************************************************************************)
EXTENDS Naturals, FiniteSetsExt

CONSTANT Threshold  \* [ErrorClass -> failures after which the circuit opens]

ErrorClass == {"transient", "unknown", "permanent"}

ASSUME ThresholdAssumption == Threshold \in [ErrorClass -> Nat \ {0}]

\* No threshold tells counts from MaxFails on apart.
MaxFails == Max({Threshold[c] : c \in ErrorClass})

PolicyRow ==
  [mode    : {"on", "paused"},
   err     : {"none", "needs_reauth", "failed"},
   pending : BOOLEAN,
   due     : BOOLEAN,
   circuit : {"closed", "open", "half_open"},
   cooled  : BOOLEAN,
   fails   : 0 .. MaxFails]

FreshRow ==
  [mode |-> "on", err |-> "none", pending |-> FALSE, due |-> TRUE,
   circuit |-> "closed", cooled |-> FALSE, fails |-> 0]

\* The WHERE clause of get_due_sources_all_users.
IsDue(row) ==
  /\ row.mode # "paused"
  /\ row.pending \/ row.due \/ (row.circuit = "open" /\ row.cooled)

\* Faulty: an open circuit is never tried again.
ReopenedNever(row) == row

\* _maybe_reopen_circuit: a cooled circuit admits a trial and forgets the
\* failures that opened it.
Reopened(row) ==
  IF row.circuit = "open" /\ row.cooled
  THEN [row EXCEPT !.circuit = "half_open", !.cooled = FALSE, !.fails = 0]
  ELSE row

Runnable(row) == IsDue(row) /\ Reopened(row).circuit # "open"

\* claim_due_sources: clear the flag and lease the source.
Claimed(row) == [Reopened(row) EXCEPT !.pending = FALSE, !.due = FALSE]

RecordSuccess(row) ==
  [row EXCEPT !.fails = 0, !.err = "none", !.circuit = "closed",
              !.cooled = FALSE, !.pending = FALSE, !.due = FALSE]

\* record_failure: at the threshold of the error's class the circuit opens
\* and next_run_at stays what it was.
RecordFailure(row, class) ==
  LET n == row.fails + 1
      counted == [row EXCEPT !.fails = IF n > MaxFails THEN MaxFails ELSE n,
                             !.err = "failed", !.pending = FALSE]
  IN IF n >= Threshold[class]
     THEN [counted EXCEPT !.circuit = "open", !.cooled = FALSE]
     ELSE [counted EXCEPT !.due = FALSE]

\* Faulty: a signal that arrived during the cycle is swallowed.
RecordOutcomeSwallows(row, outcome) ==
  IF outcome = "ok" THEN RecordSuccess(row) ELSE RecordFailure(row, outcome)

\* _record_outcome: a signal that arrived during the cycle is armed again.
RecordOutcome(row, outcome) ==
  LET new == IF outcome = "ok" THEN RecordSuccess(row)
                               ELSE RecordFailure(row, outcome)
  IN IF row.pending THEN [new EXCEPT !.pending = TRUE, !.due = TRUE] ELSE new

\* request_run: only the wake signals reach a paused source.
Hears(row, wakes) == row.mode # "paused" \/ wakes
RequestRun(row) == [row EXCEPT !.mode = "on", !.pending = TRUE]

\* apply_agent_policy: a new next_run_at in the middle of the cycle.
ApplyAgentPolicy(row) == [row EXCEPT !.due = FALSE]

\* pause_perception_sources and resume_perception_sources.
PausedForReauth(row) == [row EXCEPT !.mode = "paused", !.err = "needs_reauth"]
Resumed(row) ==
  [row EXCEPT !.mode = "on", !.pending = TRUE, !.circuit = "closed",
              !.cooled = FALSE, !.fails = 0, !.err = "none"]
===========================================================================
