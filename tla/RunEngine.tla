------------------------------ MODULE RunEngine ------------------------------
(***************************************************************************)
(* One durable run: the DAG loop (services/dag_runner.py), the coordinator *)
(* that drives it (services/graph_executor.py), the scheduler sub-ticks    *)
(* that start, resume, reap and time it out, and the API routes that       *)
(* approve, reject, cancel, resume and retry it.                           *)
(*                                                                         *)
(* A driver works in one database transaction: it loads the rows, changes  *)
(* them in its session (flush) and commits once, when the DAG returns.     *)
(* db is what is committed and tx what the session holds; a crash, or the  *)
(* sub-tick budget running out, discards tx.  The run row is locked (FOR   *)
(* UPDATE) from the driver's SELECT to its commit or rollback, so an API   *)
(* write to that row waits for Unlocked; an API read does not wait.        *)
(*                                                                         *)
(* Only one driver works at a time: that is the lease of OwnerLock.        *)
(***************************************************************************)
EXTENDS Naturals, ExecutionState

CONSTANTS
  Steps,       \* the run's steps
  Deps,        \* [Steps -> SUBSET Steps]: depends_on
  Kind,        \* [Steps -> StepKind]
  Presence,    \* is a human on the run: "present" or "absent"
  MaxTries,    \* step.max_retries
  MaxRetries,  \* run.max_retries
  ReapMax,     \* resume_reaper_max_attempts
  MaxFaults    \* bound on crashes, raised exceptions and failed commits

StepKind ==
  {"user",     \* the founder's own step
   "invalid",  \* no capability: fails closed
   "exempt",   \* a read or a system action: never gated
   "write"}    \* gated by the TrustEngine

ASSUME EngineAssumption ==
  /\ Deps \in [Steps -> SUBSET Steps]
  /\ Kind \in [Steps -> StepKind]
  /\ Presence \in {"present", "absent"}
  /\ MaxTries \in Nat \ {0} /\ MaxRetries \in Nat \ {0}
  /\ ReapMax \in Nat \ {0} /\ MaxFaults \in Nat

VARIABLES
  db,       \* the committed rows of the run
  tx,       \* the driver's session
  pc,       \* where the driver is
  batch,    \* ready steps the DAG loop has still to dispatch
  cur,      \* the step whose action is running (meaningful in "call")
  via,      \* how cur was let through the gate
  driver,   \* the sub-tick and entry point that drives the run
  appr,     \* [Steps -> status of the step's latest approval row]
  clicks,   \* steps whose approve request is between its two commits
  request,  \* a run route that has read the row and waits to write it
  faults    \* faults so far

vars == <<db, tx, pc, batch, cur, via, driver, appr, clicks, request, faults>>
control == <<batch, cur, via, driver>>
requests == <<appr, clicks, request>>

Row ==
  [run     : RunStatus,
   source  : {"background", "approval_resume"},
   step    : [Steps -> StepStatus],
   tries   : [Steps -> 0 .. MaxTries],    \* step.retry_count
   retries : 0 .. ReapMax + MaxRetries,   \* run.retry_count, saturating
   cp      : SUBSET Steps,                \* checkpoint["completed_steps"]
   trust   : [Steps -> 0 .. 2],           \* trust increments for the step
   asked   : SUBSET Steps]                \* history: the gate wanted a human

TypeOK ==
  /\ db \in Row /\ tx \in Row
  /\ pc \in {"idle", "dag", "batch", "call", "commit", "escaped"}
  /\ batch \subseteq Steps
  /\ cur \in Steps
  /\ via \in {"resumed", "exempt", "auto", "prepare"}
  /\ driver \in {"execute", "resume", "reap"}
  /\ appr \in [Steps -> {"none", "pending", "approved", "rejected", "expired"}]
  /\ clicks \subseteq Steps
  /\ request \in {"none", "cancel", "resume", "retry"}
  /\ faults \in 0 .. MaxFaults

Init ==
  /\ db = [run |-> "pending", source |-> "background",
           step |-> [s \in Steps |-> "pending"],
           tries |-> [s \in Steps |-> 0], retries |-> 0, cp |-> {},
           trust |-> [s \in Steps |-> 0], asked |-> {}]
  /\ tx = db
  /\ pc = "idle"
  /\ batch = {}
  /\ cur \in Steps
  /\ via = "auto"
  /\ driver = "execute"
  /\ appr = [s \in Steps |-> "none"]
  /\ clicks = {} /\ request = "none"
  /\ faults = 0

----------------------------------------------------------------------------
\* No driver holds the lock on the run row.
Unlocked == pc \in {"idle", "escaped"}
Driving == pc \in {"dag", "batch", "call"}

Succeeded(row) == {s \in Steps : row.step[s] \in TerminalSuccess}
InStatus(row, S) == {s \in Steps : row.step[s] \in S}

SetStep(row, s, status) == [row EXCEPT !.step[s] = status]
SetRun(row, status) == [row EXCEPT !.run = status]
Bump(n) == IF n < ReapMax + MaxRetries THEN n + 1 ELSE n

\* A committed write by someone who is not the driver.
Store(row) == db' = row /\ tx' = row

Fault == faults < MaxFaults /\ faults' = faults + 1

----------------------------------------------------------------------------
(* Drivers.  The background tick selects a pending run (execute_run) or an  *)
(* approved one that awaits its resume (resume_run); the reaper re-drives   *)
(* an approved run that has sat too long, and gives up after ReapMax.       *)

Begin(row, entry) ==
  /\ pc = "idle"
  /\ tx' = SetRun(row, "running")
  /\ pc' = "dag"
  /\ driver' = entry
  /\ UNCHANGED <<db, batch, cur, via, requests, faults>>

AwaitsResume ==
  db.run = "awaiting_approval" /\ db.source = "approval_resume"

TickExecute == db.run = "pending" /\ Begin(db, "execute")

TickResume ==
  AwaitsResume /\ Begin([db EXCEPT !.source = "background"], "resume")

ReapResume ==
  /\ AwaitsResume
  /\ db.retries + 1 <= ReapMax
  /\ Begin([db EXCEPT !.source = "background", !.retries = @ + 1], "reap")

ReapExhausted ==
  /\ pc = "idle"
  /\ AwaitsResume
  /\ db.retries + 1 > ReapMax
  /\ Store(SetRun(db, "failed"))
  /\ UNCHANGED <<pc, control, requests, faults>>

----------------------------------------------------------------------------
(* The DAG loop.                                                            *)

\* Faulty: a dependency that merely ended counts as satisfied.
ReleasableWhenEnded(row, s) ==
  /\ row.step[s] = "pending"
  /\ \A d \in Deps[s] : row.step[d] \notin {"pending", "ready", "running"}

\* A pending step whose dependencies have all succeeded.
Releasable(row, s) ==
  row.step[s] = "pending" /\ Deps[s] \subseteq Succeeded(row)

\* get_ready_steps: release what can be released; "ready" and "running"
\* steps are picked up as they are.
Released(row) ==
  [row EXCEPT !.step =
     [s \in Steps |-> IF Releasable(row, s) THEN "ready" ELSE row.step[s]]]
ReadySteps(row) == InStatus(Released(row), {"ready", "running"})

GetReadySteps ==
  /\ pc = "dag"
  /\ ReadySteps(tx) # {}
  /\ tx' = Released(tx)
  /\ batch' = ReadySteps(tx)
  /\ pc' = "batch"
  /\ UNCHANGED <<db, cur, via, driver, requests, faults>>

\* Faulty: a failed step no longer keeps the run from being completed.
FinishRegardless ==
  /\ InStatus(tx, {"pending"}) = {}
  /\ tx' \in {SetRun(tx, "partially_completed"), SetRun(tx, "completed")}

\* Nothing is ready: the run is over, or blocked by a failure, or blocked on
\* the founder, or left as it is.
Finish ==
  /\ InStatus(tx, {"pending"}) = {}
  /\ \/ tx' = SetRun(tx, "partially_completed")  \* the verifier raised, or
                                                 \* a step did not succeed
     \/ /\ InStatus(tx, {"failed", "timed_out"}) = {}
        /\ tx' = SetRun(tx, "completed")

BlockedByFailure ==
  /\ InStatus(tx, {"pending"}) # {}
  /\ InStatus(tx, {"failed"}) # {}
  /\ tx' = SetRun(tx, "failed")

\* park_if_blocked_on_founder
BlockedOnFounder ==
  /\ \E s \in Steps : Kind[s] = "user" /\ tx.step[s] = "skipped"
  /\ InStatus(tx, {"waiting_approval", "awaiting_input"}) = {}

BlockedOtherwise ==
  /\ InStatus(tx, {"pending"}) # {}
  /\ InStatus(tx, {"failed"}) = {}
  /\ tx' = IF BlockedOnFounder THEN SetRun(tx, "awaiting_input") ELSE tx

NothingReady ==
  /\ pc = "dag"
  /\ ReadySteps(tx) = {}
  /\ Finish \/ BlockedByFailure \/ BlockedOtherwise
  /\ pc' = "commit"
  /\ UNCHANGED <<db, control, requests, faults>>

----------------------------------------------------------------------------
(* execute_step, up to the step's action.  All steps of a run are inserted *)
(* in one transaction, so ORDER BY created_at leaves their order open.     *)

\* The step is over as far as this batch goes.
Advance(s) ==
  /\ batch' = batch \ {s}
  /\ pc' = IF batch = {s} THEN "dag" ELSE "batch"

\* The founder's own step is skipped; a step that cannot be gated fails.
SettleUngated(s) ==
  /\ pc = "batch" /\ s \in batch
  /\ tx.step[s] = "ready"
  /\ \/ Kind[s] = "user" /\ tx' = SetStep(tx, s, "skipped")
     \/ Kind[s] = "invalid" /\ tx' = SetStep(tx, s, "failed")
  /\ Advance(s)
  /\ UNCHANGED <<db, cur, via, driver, requests, faults>>

\* create_approval_and_pause: the gate wants a human and one is present.
PauseForApproval(s) ==
  /\ pc = "batch" /\ s \in batch
  /\ tx.step[s] = "ready" /\ Kind[s] = "write"
  /\ Presence = "present"
  /\ tx' = [tx EXCEPT !.step[s] = "waiting_approval",
                      !.run = "awaiting_approval",
                      !.cp = Succeeded(tx),
                      !.asked = @ \cup {s}]
  /\ batch' = {}
  /\ pc' = "commit"
  /\ UNCHANGED <<db, cur, via, driver, requests, faults>>

Dispatch(s, how) ==
  /\ cur' = s
  /\ via' = how
  /\ pc' = "call"
  /\ UNCHANGED <<db, batch, driver, requests, faults>>

\* A step found "running" is taken for one resumed after approval.
StartResumed(s) ==
  /\ pc = "batch" /\ s \in batch
  /\ tx.step[s] = "running"
  /\ Dispatch(s, "resumed")
  /\ UNCHANGED tx

StartExempt(s) ==
  /\ pc = "batch" /\ s \in batch
  /\ tx.step[s] = "ready" /\ Kind[s] = "exempt"
  /\ tx' = SetStep(tx, s, "running")
  /\ Dispatch(s, "exempt")

\* The gate clears the capability: auto_execute_notify or _silent.
StartCleared(s) ==
  /\ pc = "batch" /\ s \in batch
  /\ tx.step[s] = "ready" /\ Kind[s] = "write"
  /\ tx' = [tx EXCEPT !.step[s] = "running", !.asked = @ \ {s}]
  /\ Dispatch(s, "auto")

\* Faulty: nobody is asked although somebody is present.
StartPreparedAlways(s) ==
  /\ pc = "batch" /\ s \in batch
  /\ tx.step[s] = "ready" /\ Kind[s] = "write"
  /\ tx' = [tx EXCEPT !.step[s] = "running", !.asked = @ \cup {s}]
  /\ Dispatch(s, "auto")

\* The gate wants a human and none is present: run it un-pre-approved.
StartPrepared(s) ==
  /\ pc = "batch" /\ s \in batch
  /\ tx.step[s] = "ready" /\ Kind[s] = "write"
  /\ Presence # "present"
  /\ tx' = [tx EXCEPT !.step[s] = "running", !.asked = @ \cup {s}]
  /\ Dispatch(s, "prepare")

----------------------------------------------------------------------------
(* What the step's action comes back with.                                 *)

Returns ==
  /\ pc = "call"
  /\ Advance(cur)
  /\ UNCHANGED <<db, cur, via, driver, requests>>

\* verdict_to_step_status: only a gated write is read back.
Verdicts ==
  IF Kind[cur] = "write"
    THEN {"completed", "completed_unverified", "partially_completed"}
    ELSE {"completed"}

\* Faulty: trust is strengthened whatever the read-back says.
CreditsUnverified(status) == via \in {"auto", "resumed"}

\* A confirmed step the gate let through strengthens trust.  A prepared one
\* and an exempt one do not.
Credits(status) == status = "completed" /\ via \in {"auto", "resumed"}

\* Faulty: the checkpoint is taken before the step is marked.
StepReturnsCheckpointFirst ==
  /\ Returns
  /\ \E status \in Verdicts :
       tx' = [tx EXCEPT !.step[cur] = status, !.cp = Succeeded(tx),
                        !.trust[cur] = IF Credits(status) /\ @ < 2
                                         THEN @ + 1 ELSE @]
  /\ UNCHANGED faults

\* finalize_step: transition, checkpoint and event in one transaction.
StepReturns ==
  /\ Returns
  /\ \E status \in Verdicts :
       LET done == SetStep(tx, cur, status) IN
       tx' = [done EXCEPT !.cp = Succeeded(done),
                          !.trust[cur] = IF Credits(status) /\ @ < 2
                                           THEN @ + 1 ELSE @]
  /\ UNCHANGED faults

StepTimesOut ==
  /\ Returns
  /\ tx' = SetStep(tx, cur, "timed_out")
  /\ UNCHANGED faults

\* handle_step_failure: failed -> pending while attempts remain.
StepFails ==
  /\ Returns
  /\ LET n == tx.tries[cur] + 1 IN
     tx' = [tx EXCEPT !.tries[cur] = n,
                      !.step[cur] = IF n < MaxTries THEN "pending" ELSE "failed"]
  /\ UNCHANGED faults

\* _defer_for_reauth: the run is parked and the step left "running".
DeferForReauth ==
  /\ pc = "call"
  /\ tx' = SetRun(tx, "awaiting_reauth")
  /\ batch' = {}
  /\ pc' = "commit"
  /\ UNCHANGED <<db, cur, via, driver, requests, faults>>

\* An exception outside the handled ones: logged, the step stays "running".
StepBlowsUp ==
  /\ Returns
  /\ Fault
  /\ UNCHANGED tx

----------------------------------------------------------------------------
(* How a drive ends.                                                       *)

\* An exception leaves the DAG: the run is marked failed, on top of what the
\* session holds or, when the session is poisoned, of the committed rows.
DagRaises ==
  /\ Driving
  /\ Fault
  /\ tx' \in {SetRun(tx, "failed"), SetRun(db, "failed")}
  /\ pc' = "commit"
  /\ batch' = {}
  /\ UNCHANGED <<db, cur, via, driver, requests>>

\* The approval row of a step that paused is inserted in this transaction.
NewApprovals ==
  [s \in Steps |-> IF /\ tx.step[s] = "waiting_approval"
                      /\ db.step[s] # "waiting_approval"
                     THEN "pending" ELSE appr[s]]

Commit ==
  /\ pc = "commit"
  /\ db' = tx
  /\ appr' = NewApprovals
  /\ pc' = "idle"
  /\ UNCHANGED <<tx, control, clicks, request, faults>>

RollBack ==
  /\ tx' = db
  /\ batch' = {}
  /\ UNCHANGED <<db, cur, via, driver, requests>>

\* wait_for(_execute_dag, timeout): only execute_run has it.  The handler's
\* own transition raises when the table has no running -> timed_out.
RunTimesOut ==
  /\ Driving /\ driver = "execute"
  /\ Fault
  /\ LET legal == CanRun("running", "timed_out") IN
     /\ tx' = IF legal THEN SetRun(tx, "timed_out") ELSE db
     /\ pc' = IF legal THEN "commit" ELSE "escaped"
  /\ batch' = {}
  /\ UNCHANGED <<db, cur, via, driver, requests>>

CommitFails == pc = "commit" /\ Fault /\ RollBack /\ pc' = "escaped"

\* The process dies, or _run_subtick's budget cancels the tick.
Crash == pc # "idle" /\ Fault /\ RollBack /\ pc' = "idle"

\* The tick's except branch, on a re-fetched row: retry, then give up.  The
\* reaper's except branch keeps the attempt and the run's eligibility.
Bookkeep ==
  /\ pc = "escaped"
  /\ LET n == Bump(db.retries) IN
     Store(IF driver = "reap"
             THEN [db EXCEPT !.retries = n, !.source = "approval_resume"]
             ELSE [db EXCEPT !.retries = n,
                             !.run = IF n >= MaxRetries THEN "failed"
                                                        ELSE "pending"])
  /\ pc' = "idle"
  /\ UNCHANGED <<control, requests, faults>>

----------------------------------------------------------------------------
(* The API routes, and the other ticks, on committed rows.                 *)

\* approve_action, first commit: the decision.
Approve(s) ==
  /\ appr[s] = "pending"
  /\ appr' = [appr EXCEPT ![s] = "approved"]
  /\ clicks' = clicks \cup {s}
  /\ UNCHANGED <<db, tx, pc, control, request, faults>>

\* approve_action, second commit: queue the run for the scheduler.
QueueResume(s) ==
  /\ s \in clicks /\ Unlocked
  /\ Store([db EXCEPT !.step[s] = IF @ = "waiting_approval" THEN "running"
                                                            ELSE @,
                      !.source = "approval_resume"])
  /\ clicks' = clicks \ {s}
  /\ UNCHANGED <<pc, control, appr, request, faults>>

\* The second commit does not happen: the API process dies, or the wait for
\* the row outlasts statement_timeout and _mark_run_failed_after_resume
\* fails the run, if it can.
QueueFails(s) ==
  /\ s \in clicks /\ Fault
  /\ clicks' = clicks \ {s}
  /\ \/ UNCHANGED <<db, tx>>
     \/ /\ Unlocked
        /\ db.run \notin {"completed", "failed", "cancelled"}
        /\ CanRun(db.run, "failed")
        /\ Store(SetRun(db, "failed"))
  /\ UNCHANGED <<pc, control, appr, request>>

\* Faulty: every step that has not succeeded is marked, ended ones too.
CancelledAll(row) ==
  [row EXCEPT !.run = "cancelled",
              !.step = [s \in Steps |->
                 IF row.step[s] \in TerminalSuccess THEN row.step[s]
                                                    ELSE "cancelled"]]

\* cancel_run: the run, its running steps, and the steps not yet started.
Cancelled(row) ==
  [row EXCEPT !.run = "cancelled",
              !.step = [s \in Steps |->
                 CASE row.step[s] = "running" -> "cancelled"
                   [] row.step[s] \in {"pending", "ready"} -> "skipped"
                   [] OTHER -> row.step[s]]]

\* reject_action.  Marking the waiting step is a transition of its own; when
\* the table has none to "cancelled" the request raises and rolls back.  A
\* run that is not live is left alone.
Reject(s) ==
  /\ appr[s] = "pending"
  /\ LET live == db.run \in {"awaiting_approval", "running", "paused"}
         waits == db.step[s] = "waiting_approval"
         raises == live /\ waits /\ ~CanStep("waiting_approval", "cancelled")
         marked == IF waits THEN SetStep(db, s, "cancelled") ELSE db
     IN
     /\ IF live /\ ~raises THEN Unlocked /\ Store(Cancelled(marked))
                           ELSE UNCHANGED <<db, tx>>
     /\ appr' = IF raises THEN appr ELSE [appr EXCEPT ![s] = "rejected"]
  /\ UNCHANGED <<pc, control, clicks, request, faults>>

\* The cancel, resume and retry routes check the status they read without a
\* lock ...
Accepts(route) ==
  CASE route = "cancel" -> db.run \notin {"completed", "failed", "cancelled",
                                          "archived", "timed_out"}
    [] route = "resume" -> db.run \in {"paused", "awaiting_approval",
                                       "awaiting_input"}
    [] route = "retry"  -> db.run \in {"failed", "timed_out"}

RouteReads(route) ==
  /\ request = "none"
  /\ Accepts(route)
  /\ request' = route
  /\ UNCHANGED <<db, tx, pc, control, appr, clicks, faults>>

\* ... and their UPDATE waits for the lock; it writes the columns the route
\* changed.
RouteWrites(route, row) ==
  /\ request = route /\ Unlocked
  /\ Store(row)
  /\ request' = "none"
  /\ UNCHANGED <<pc, control, appr, clicks, faults>>

\* The cancellation event lives in the executor the route has just built, so
\* the driver never sees it.
CancelRoute == RouteWrites("cancel", Cancelled(db))

ResumeRoute ==
  RouteWrites("resume", [db EXCEPT !.source = "approval_resume"])

RetryRoute ==
  RouteWrites("retry", [db EXCEPT !.run = "pending",
                                  !.source = "approval_resume"])

\* The wait outlasts statement_timeout: the route answers with an error.
RouteGivesUp ==
  /\ request # "none" /\ ~Unlocked
  /\ request' = "none"
  /\ UNCHANGED <<db, tx, pc, control, appr, clicks, faults>>

\* requeue_deferred_runs: the provider has been reconnected.
Requeue ==
  /\ Unlocked
  /\ db.run = "awaiting_reauth"
  /\ Store(SetRun(db, "pending"))
  /\ UNCHANGED <<pc, control, requests, faults>>

\* run_startup_recovery: an old running run fails, old approvals expire.
Recover ==
  /\ Unlocked
  /\ \E row \in {db, IF db.run = "running" THEN SetRun(db, "failed") ELSE db},
        old \in SUBSET {s \in Steps : appr[s] = "pending"} :
       /\ row # db \/ old # {}
       /\ Store(row)
       /\ appr' = [s \in Steps |-> IF s \in old THEN "expired" ELSE appr[s]]
  /\ UNCHANGED <<pc, control, clicks, request, faults>>

\* Faulty: a run left "running" is not looked at.
HealthTickExpiryOnly ==
  /\ Unlocked
  /\ db.run = "awaiting_approval" /\ db.source # "approval_resume"
  /\ \E s \in Steps : \A t \in Steps : (appr[t] = "expired") <=> (t = s)
  /\ Store(SetRun(db, "cancelled"))
  /\ UNCHANGED <<pc, control, requests, faults>>

\* _tick_run_health_check.  transition_run(run, "timed_out") raises and the
\* status is then assigned.  scalar_one_or_none raises on a second row.
HealthTick ==
  /\ Unlocked
  /\ \/ /\ db.run = "running"
        /\ Store(SetRun(db, "timed_out"))
     \/ /\ db.run = "awaiting_approval" /\ db.source # "approval_resume"
        /\ \E s \in Steps : \A t \in Steps : (appr[t] = "expired") <=> (t = s)
        /\ Store(SetRun(db, "cancelled"))
  /\ UNCHANGED <<pc, control, requests, faults>>

----------------------------------------------------------------------------
Drive ==
  \/ GetReadySteps \/ NothingReady
  \/ \E s \in Steps :
       \/ SettleUngated(s) \/ PauseForApproval(s)
       \/ StartResumed(s) \/ StartExempt(s)
       \/ StartCleared(s) \/ StartPrepared(s)
  \/ StepReturns \/ StepTimesOut \/ StepFails \/ DeferForReauth
  \/ Commit \/ Bookkeep

Scheduler == TickExecute \/ TickResume \/ ReapResume \/ ReapExhausted

Faults == StepBlowsUp \/ DagRaises \/ RunTimesOut \/ CommitFails \/ Crash

Routes ==
  \/ \E s \in Steps :
       Approve(s) \/ QueueResume(s) \/ QueueFails(s) \/ Reject(s)
  \/ \E route \in {"cancel", "resume", "retry"} : RouteReads(route)
  \/ CancelRoute \/ ResumeRoute \/ RetryRoute \/ RouteGivesUp
  \/ Requeue

Next == Scheduler \/ Drive \/ Faults \/ Routes \/ Recover \/ HealthTick

Spec == Init /\ [][Next]_vars

\* The scheduler loop calls its ticks for ever; a drive runs to its end; a
\* request that waits for the row gets it (PostgreSQL queues lock waiters).
FairSpec ==
  /\ Spec
  /\ WF_vars(TickExecute) /\ WF_vars(TickResume) /\ WF_vars(HealthTick)
  /\ WF_vars(Drive)
  /\ SF_vars(CancelRoute \/ ResumeRoute \/ RetryRoute)
  /\ \A s \in Steps : SF_vars(QueueResume(s))

----------------------------------------------------------------------------
(* Properties.                                                             *)

\* No step gets past "pending" (other than by being skipped) before every
\* step it depends on has succeeded, in the session and in the committed
\* rows, whatever crashes, retries, resumes and cancellations happened.
DependenciesFirst ==
  \A row \in {db, tx} : \A s \in Steps :
    row.step[s] \notin {"pending", "skipped"} => Deps[s] \subseteq Succeeded(row)

\* A step whose gate asked for a human runs as cleared only after its
\* approval was granted (dag_runner.py: the gate, and already_approved).
ReviewedBeforeRun ==
  pc = "call" /\ cur \in tx.asked /\ via # "prepare" => appr[cur] = "approved"

\* Trust is strengthened at most once per step and only by a step that is
\* confirmed, although a crash or a resume can execute the step again.
TrustEarned ==
  \A s \in Steps : /\ db.trust[s] <= 1
                   /\ db.trust[s] = 1 => db.step[s] = "completed"

\* The committed checkpoint names exactly the steps that succeeded: this is
\* what _resume_run_body compares before it falls back on the event log.
CheckpointAgrees == db.cp = Succeeded(db)

\* A completed run has no failed, timed-out or unstarted step.
CompletedIsClean ==
  db.run = "completed" =>
    InStatus(db, {"pending", "ready", "failed", "timed_out"}) = {}

\* A step that has ended for good is never changed again by anyone: not by a
\* retry, a late cancellation or approval, nor by a driver with an old view.
\* A step that is completed but unverified is not at its end: a later check may
\* upgrade it (the table of execution_state.py), and nothing else may happen to
\* it.
EndedStepsStay ==
  [][\A s \in Steps :
       db.step[s] \notin {"pending", "ready", "running", "waiting_approval"}
         => \/ db'.step[s] = db.step[s]
            \/ /\ db.step[s] = "completed_unverified"
               /\ db'.step[s] \in StepTransitions["completed_unverified"]]_vars

\* A run does not stay pending or running for ever: each drive ends, and
\* what a drive leaves "running" the health tick times out.
Settles ==
  db.run \in {"pending", "running"} ~> db.run \notin {"pending", "running"}
=============================================================================
