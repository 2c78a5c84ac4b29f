---------------------------- MODULE Perception ----------------------------
(***************************************************************************)
(* When one OAuth-backed source is polled: scheduler workers claim it when   *)
(* it is due, release its row and run the cycle unlocked, while signals      *)
(* arrive, the clock runs, the provider revokes and restores the credential, *)
(* and the executor or the OAuth callback pause and resume the source.       *)
(* What the cycle does to the events is in Ingestion; here it is its answer  *)
(* and the schedule it leaves.                                              *)
(*                                                                         *)
(* The sub-tick budget (300 s) is longer than the lease (180 s), and the     *)
(* agent's policy overwrites the lease, so a source may come due at any time *)
(* during its cycle and be claimed by a second worker.                      *)
(***************************************************************************)
EXTENDS PerceptionPolicy

CONSTANTS
  Workers,     \* scheduler processes
  MaxCancelled \* bound: cancelled or crashed cycles

ASSUME PerceptionAssumption == MaxCancelled \in Nat

VARIABLES
  row,      \* the source's scheduling row
  token,    \* TRUE when the provider accepts the stored credential
  owed,     \* a signal was accepted and no poll has answered it yet
  stage,    \* [Workers -> where the cycle is]
  outcome,  \* [Workers -> "ok" or the class of the cycle's error]
  cancelled \* cycles cancelled or crashed so far

scheduleVars == <<row, token, owed, stage, outcome, cancelled>>

ScheduleTypeOK ==
  /\ row \in PolicyRow /\ token \in BOOLEAN /\ owed \in BOOLEAN
  /\ stage \in [Workers -> {"idle", "poll", "plan", "record"}]
  /\ outcome \in [Workers -> ErrorClass \cup {"ok"}]
  /\ cancelled \in 0 .. MaxCancelled

ScheduleInit ==
  /\ row \in {FreshRow, [FreshRow EXCEPT !.mode = "paused"]}
  /\ token = TRUE /\ owed = FALSE
  /\ stage = [w \in Workers |-> "idle"]
  /\ outcome = [w \in Workers |-> "ok"]
  /\ cancelled = 0

MoveTo(w, to) == stage' = [stage EXCEPT ![w] = to]

---------------------------------------------------------------------------
(* The clock, the signals and the credential.                               *)

\* The clock reaches next_run_at, and the end of the cooldown.
ComesDue ==
  /\ ~row.due
  /\ row' = [row EXCEPT !.due = TRUE]
  /\ UNCHANGED <<token, owed, stage, outcome, cancelled>>

CoolsDown ==
  /\ row.circuit = "open" /\ ~row.cooled
  /\ row' = [row EXCEPT !.cooled = TRUE]
  /\ UNCHANGED <<token, owed, stage, outcome, cancelled>>

\* request_run by a webhook, which does not wake a paused source, or by the
\* user, the agent or bootstrap, who do.
Signal(wakes) ==
  /\ Hears(row, wakes)
  /\ row' = RequestRun(row)
  /\ owed' = TRUE
  /\ UNCHANGED <<token, stage, outcome, cancelled>>

TokenLost ==
  /\ token /\ token' = FALSE
  /\ UNCHANGED <<row, owed, stage, outcome, cancelled>>

\* A run was deferred for a new login: mark_needs_reauth in a session of its
\* own, beside whatever cycle is running.
MarkNeedsReauth ==
  /\ ~token
  /\ row' = PausedForReauth(row)
  /\ UNCHANGED <<token, owed, stage, outcome, cancelled>>

\* The credential becomes valid again, with the OAuth callback or without.
Reconnect ==
  /\ ~token /\ token' = TRUE
  /\ row' \in {row, Resumed(row)}
  /\ UNCHANGED <<owed, stage, outcome, cancelled>>

\* Faulty: the reaper looks for rows that are not paused.
ReauthRecoveryUnpaused ==
  /\ token /\ row.mode # "paused" /\ row.err = "needs_reauth"
  /\ row' = Resumed(row)
  /\ UNCHANGED <<token, owed, stage, outcome, cancelled>>

\* _tick_reauth_recovery, for a source whose callback was missed.
ReauthRecovery ==
  /\ token /\ row.mode = "paused" /\ row.err = "needs_reauth"
  /\ row' = Resumed(row)
  /\ UNCHANGED <<token, owed, stage, outcome, cancelled>>

---------------------------------------------------------------------------
(* _tick_perception.                                                        *)

\* A permanent reason drops the source and pauses it in the same transaction.
DropTokenless(w) ==
  /\ stage[w] = "idle" /\ Runnable(row) /\ ~token
  /\ row' = PausedForReauth(Reopened(row))
  /\ UNCHANGED <<token, owed, stage, outcome, cancelled>>

\* The gate keeps a source whose check itself failed, so the token may be lost.
Claim(w) ==
  /\ stage[w] = "idle" /\ Runnable(row)
  /\ row' = Claimed(row)
  /\ MoveTo(w, "poll")
  /\ UNCHANGED <<token, owed, outcome, cancelled>>

\* A poll that failed: no credential, or an error of some class.
PollFails(w) ==
  /\ stage[w] = "poll"
  /\ \E c \in IF token THEN ErrorClass ELSE {"permanent"} :
       outcome' = [outcome EXCEPT ![w] = c]
  /\ owed' = FALSE
  /\ MoveTo(w, "record")
  /\ UNCHANGED <<row, token, cancelled>>

\* A poll that answered, empty or not; budget and MCP-only skips end here too.
PollAnswers(w) ==
  /\ stage[w] = "poll" /\ token
  /\ owed' = FALSE
  /\ \E to \in {"plan", "record"} : MoveTo(w, to)
  /\ UNCHANGED <<row, token, outcome, cancelled>>

\* New events: the planner's policy, or its default, replaces next_run_at,
\* unless the signal is suppressed or a step of the cycle raises.
Plan(w) ==
  /\ stage[w] = "plan"
  /\ \/ row' \in {row, ApplyAgentPolicy(row)} /\ UNCHANGED outcome
     \/ /\ \E c \in {"transient", "unknown"} : outcome' = [outcome EXCEPT ![w] = c]
        /\ UNCHANGED row
  /\ MoveTo(w, "record")
  /\ UNCHANGED <<token, owed, cancelled>>

Record(w) ==
  /\ stage[w] = "record"
  /\ row' = RecordOutcome(row, outcome[w])
  /\ outcome' = [outcome EXCEPT ![w] = "ok"]
  /\ MoveTo(w, "idle")
  /\ UNCHANGED <<token, owed, cancelled>>

\* Another claimed cycle is still to poll.
PollAhead(w) == \E v \in Workers \ {w} : stage[v] = "poll"

\* The sub-tick budget cancels the cycle, or its process dies: no outcome is
\* recorded.  A signal this cycle had taken is left to the schedule.
Cancel(w) ==
  /\ stage[w] # "idle" /\ cancelled < MaxCancelled
  /\ cancelled' = cancelled + 1
  /\ owed' = (owed /\ (row.pending \/ PollAhead(w)))
  /\ outcome' = [outcome EXCEPT ![w] = "ok"]
  /\ MoveTo(w, "idle")
  /\ UNCHANGED <<row, token>>

CycleStep(w) == PollFails(w) \/ PollAnswers(w) \/ Plan(w) \/ Record(w)

ScheduleNext ==
  \/ ComesDue \/ CoolsDown \/ (\E wakes \in BOOLEAN : Signal(wakes))
  \/ TokenLost \/ MarkNeedsReauth \/ Reconnect \/ ReauthRecovery
  \/ \E w \in Workers : DropTokenless(w) \/ Claim(w) \/ CycleStep(w) \/ Cancel(w)

ScheduleSpec == ScheduleInit /\ [][ScheduleNext]_scheduleVars

\* The scheduler keeps ticking, its clock runs and its cycles go on.
FairScheduleSpec ==
  /\ ScheduleSpec
  /\ WF_scheduleVars(ComesDue) /\ WF_scheduleVars(CoolsDown) /\ WF_scheduleVars(ReauthRecovery)
  /\ WF_scheduleVars(\E w \in Workers : DropTokenless(w) \/ Claim(w))
  /\ \A w \in Workers : WF_scheduleVars(CycleStep(w))

---------------------------------------------------------------------------
\* A signal that was accepted is not forgotten: until a poll answers it, it is
\* still flagged or a claimed cycle is yet to poll, although the claim clears
\* the flag and the recording of an older cycle writes it as well (and the
\* state is well typed).
SignalKept ==
  ScheduleTypeOK /\ (owed => row.pending \/ \E w \in Workers : stage[w] = "poll")

\* A source that is not paused is polled again, whatever its last cycles came
\* to: no lease, backoff or open circuit holds it for ever.
PolledAgain ==
  row.mode = "on" ~> row.mode = "paused" \/ \E w \in Workers : stage[w] = "poll"

\* A source paused for a new login, whose row says so, comes back once the
\* credential is valid, with or without the callback.
ReauthHeals ==
  row.mode = "paused" /\ row.err = "needs_reauth" /\ token
    ~> row.mode = "on" \/ row.err # "needs_reauth" \/ ~token
===========================================================================
