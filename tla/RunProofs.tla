------------------------------ MODULE RunProofs ------------------------------
(***************************************************************************)
(* Proofs about RunEngine, for every set of steps, dependency graph and    *)
(* bound.                                                                  *)
(***************************************************************************)
EXTENDS RunEngine, TLAPS

----------------------------------------------------------------------------
(* Facts about rows.                                                       *)

\* Setting the run status keeps the rest of the row.
LEMMA SetRunRow ==
  ASSUME NEW row \in Row, NEW st \in RunStatus
  PROVE  /\ SetRun(row, st) \in Row
         /\ SetRun(row, st).run = st
         /\ SetRun(row, st).step = row.step
         /\ SetRun(row, st).tries = row.tries
         /\ SetRun(row, st).asked = row.asked
BY DEF SetRun, Row

\* Setting a step's status keeps the rest of the row.
LEMMA SetStepRow ==
  ASSUME NEW row \in Row, NEW s \in Steps, NEW st \in StepStatus
  PROVE  /\ SetStep(row, s, st) \in Row
         /\ SetStep(row, s, st).step = [row.step EXCEPT ![s] = st]
         /\ SetStep(row, s, st).tries = row.tries
         /\ SetStep(row, s, st).asked = row.asked
BY DEF SetStep, Row

\* get_ready_steps changes step statuses only.
LEMMA ReleasedRow ==
  ASSUME NEW row \in Row
  PROVE  /\ Released(row) \in Row
         /\ Released(row).step = [s \in Steps |-> IF Releasable(row, s)
                                    THEN "ready" ELSE row.step[s]]
         /\ Released(row).tries = row.tries
         /\ Released(row).asked = row.asked
BY DEF Released, Row, StepStatus

\* cancel_run changes the run's status and the status of unfinished steps.
LEMMA CancelledRow ==
  ASSUME NEW row \in Row
  PROVE  /\ Cancelled(row) \in Row
         /\ Cancelled(row).tries = row.tries
         /\ Cancelled(row).asked = row.asked
         /\ \A s \in Steps :
              Cancelled(row).step[s] =
                IF row.step[s] = "running" THEN "cancelled"
                ELSE IF row.step[s] \in {"pending", "ready"} THEN "skipped"
                ELSE row.step[s]
BY DEF Cancelled, Row, StepStatus, RunStatus

----------------------------------------------------------------------------
(* The invariant that carries types, dependencies and ended steps.         *)

\* A batch holds steps that may be started, and the step being called has
\* been started; a step that has used up its attempts has failed.
Attempts(row) ==
  \A s \in Steps : row.tries[s] = MaxTries => row.step[s] = "failed"
BatchOK ==
  /\ pc \in {"batch", "call"} =>
       \A s \in batch : tx.step[s] \in {"ready", "running"}
  /\ pc = "call" => tx.step[cur] = "running"

Inv == TypeOK /\ BatchOK /\ Attempts(db) /\ Attempts(tx)

\* The step statuses TLC's tables speak of, as sets of strings.
LEMMA Literals ==
  /\ {"pending", "running", "completed", "partially_completed", "failed",
      "cancelled", "timed_out", "awaiting_approval", "awaiting_input",
      "awaiting_reauth"} \subseteq RunStatus
  /\ {"pending", "ready", "running", "waiting_approval", "completed",
      "completed_unverified", "partially_completed", "failed", "skipped",
      "cancelled", "timed_out"} \subseteq StepStatus
BY DEF RunStatus, StepStatus

\* The initial rows satisfy the invariant.
LEMMA InvInit == Init => Inv
<1> SUFFICES ASSUME Init PROVE Inv
    OBVIOUS
<1>1. db \in Row
  BY EngineAssumption, Literals DEF Init, Row
<1>2. TypeOK
  BY <1>1, EngineAssumption DEF Init, TypeOK
<1> QED
  BY <1>2, EngineAssumption DEF Inv, BatchOK, Attempts, Init

----------------------------------------------------------------------------
(* What any writer may do to a row: a step that has ended keeps its status, *)
(* and a pending step is skipped, or released because what it depends on    *)
(* has succeeded.                                                           *)

Open == {"ready", "running", "waiting_approval"}

Evolves(r, q) ==
  /\ q \in Row
  /\ \A s \in Steps :
       /\ \/ q.step[s] = r.step[s]
          \/ r.step[s] \in Open
          \/ r.step[s] = "pending" /\ q.step[s] = "skipped"
          \/ r.step[s] = "pending" /\ Deps[s] \subseteq Succeeded(r)
       /\ \/ q.tries[s] = r.tries[s]
          \/ q.tries[s] = MaxTries => q.step[s] = "failed"

\* A row with the same steps.
LEMMA EvolvesSame ==
  ASSUME NEW r \in Row, NEW q \in Row, q.step = r.step, q.tries = r.tries
  PROVE  Evolves(r, q)
BY DEF Evolves

\* A change of the run status leaves the steps alone.
LEMMA EvolvesRun ==
  ASSUME NEW r \in Row, NEW st \in RunStatus
  PROVE  Evolves(r, SetRun(r, st))
BY SetRunRow, EvolvesSame

\* An open step may take any status.
LEMMA EvolvesStep ==
  ASSUME NEW r \in Row, NEW s \in Steps, r.step[s] \in Open,
         NEW q \in Row, q.tries = r.tries,
         \A t \in Steps \ {s} : q.step[t] = r.step[t]
  PROVE  Evolves(r, q)
BY DEF Evolves

\* ... in particular when only its status is set.
LEMMA EvolvesSetStep ==
  ASSUME NEW r \in Row, NEW s \in Steps, r.step[s] \in Open,
         NEW st \in StepStatus
  PROVE  Evolves(r, SetStep(r, s, st))
<1> DEFINE q == SetStep(r, s, st)
<1>1. q \in Row /\ q.tries = r.tries
  BY SetStepRow
<1>2. \A t \in Steps \ {s} : q.step[t] = r.step[t]
  BY DEF SetStep, Row
<1> QED
  BY <1>1, <1>2, EvolvesStep

\* get_ready_steps releases a step whose dependencies have succeeded.
LEMMA EvolvesReleased ==
  ASSUME NEW r \in Row
  PROVE  Evolves(r, Released(r))
BY ReleasedRow DEF Evolves, Releasable

\* cancel_run leaves ended and waiting steps alone.
LEMMA EvolvesCancelled ==
  ASSUME NEW r \in Row
  PROVE  Evolves(r, Cancelled(r))
BY CancelledRow DEF Evolves, Open

\* The three kinds of steps: the driver changes its session or starts over
\* from the committed rows; it commits; another process commits.
SessionStep == db' = db /\ (Evolves(tx, tx') \/ Evolves(db, tx'))
CommitStep == db' = tx /\ tx' = tx
StoreStep == db' = tx' /\ Evolves(db, db')

\* Every step of a run's life is of one of the three kinds.
LEMMA StepKinds ==
  ASSUME Inv, [Next]_vars
  PROVE  SessionStep \/ CommitStep \/ StoreStep
<1> db \in Row /\ tx \in Row
  BY DEF Inv, TypeOK
<1> USE Literals
<1>same. ASSUME UNCHANGED <<db, tx>> PROVE SessionStep
  BY <1>same, EvolvesSame DEF SessionStep
<1>begin. ASSUME NEW row \in Row, row.step = db.step, row.tries = db.tries,
                 NEW e, Begin(row, e)
          PROVE  SessionStep
  <2>1. db' = db /\ tx' = SetRun(row, "running")
    BY <1>begin DEF Begin
  <2>2. tx' \in Row /\ tx'.step = db.step /\ tx'.tries = db.tries
    BY <1>begin, <2>1 DEF SetRun, Row
  <2> QED
    BY <2>1, <2>2, EvolvesSame DEF SessionStep
<1>store. ASSUME NEW row, Evolves(db, row), Store(row) PROVE StoreStep
  BY <1>store DEF Store, StoreStep
<1>run. ASSUME NEW st \in RunStatus, Store(SetRun(db, st)) PROVE StoreStep
  BY <1>run, <1>store, EvolvesRun
<1>session. ASSUME NEW st \in RunStatus, tx' = SetRun(tx, st), db' = db
            PROVE  SessionStep
  BY <1>session, EvolvesRun DEF SessionStep
<1>1. CASE Scheduler
  <2>1. CASE TickExecute
    BY <2>1, <1>begin DEF TickExecute
  <2>2. CASE TickResume
    <3> DEFINE row == [db EXCEPT !.source = "background"]
    <3>1. row \in Row /\ row.step = db.step /\ row.tries = db.tries
      BY DEF Row
    <3>2. Begin(row, "resume")
      BY <2>2 DEF TickResume
    <3> HIDE DEF row
    <3> QED
      BY <3>1, <3>2, <1>begin
  <2>3. CASE ReapResume
    <3> DEFINE row == [db EXCEPT !.source = "background", !.retries = @ + 1]
    <3>0. db.retries + 1 \in 0 .. ReapMax + MaxRetries
      BY <2>3, EngineAssumption DEF Row, ReapResume
    <3>1. row \in Row
      BY <3>0 DEF Row
    <3>2. row.step = db.step /\ row.tries = db.tries
      BY DEF Row
    <3>3. Begin(row, "reap")
      BY <2>3 DEF ReapResume
    <3> HIDE DEF row
    <3> QED
      BY <3>1, <3>2, <3>3, <1>begin
  <2>4. CASE ReapExhausted
    BY <2>4, <1>run DEF ReapExhausted
  <2> QED
    BY <1>1, <2>1, <2>2, <2>3, <2>4 DEF Scheduler
<1>2. CASE Drive
  <2>1. CASE GetReadySteps
    BY <2>1, EvolvesReleased DEF GetReadySteps, SessionStep
  <2>2. CASE NothingReady
    <3>1. CASE Finish
      BY <3>1, <2>2, <1>session DEF Finish, NothingReady
    <3>2. CASE BlockedByFailure
      BY <3>2, <2>2, <1>session DEF BlockedByFailure, NothingReady
    <3>3. CASE BlockedOtherwise
      BY <3>3, <2>2, <1>session, <1>same DEF BlockedOtherwise, NothingReady
    <3> QED
      BY <2>2, <3>1, <3>2, <3>3 DEF NothingReady
  <2>3. ASSUME NEW s \in Steps, SettleUngated(s) PROVE SessionStep
    <3>1. PICK st \in StepStatus : tx' = SetStep(tx, s, st)
      BY <2>3 DEF SettleUngated
    <3>2. tx.step[s] \in Open
      BY <2>3 DEF SettleUngated, Open
    <3>3. Evolves(tx, tx')
      BY <3>1, <3>2, EvolvesSetStep
    <3> QED
      BY <2>3, <3>3 DEF SettleUngated, SessionStep
  <2>4. ASSUME NEW s \in Steps, PauseForApproval(s) PROVE SessionStep
    <3>1. tx' \in Row /\ tx'.tries = tx.tries
      BY <2>4 DEF PauseForApproval, Row, Succeeded
    <3>2. \A t \in Steps \ {s} : tx'.step[t] = tx.step[t]
      BY <2>4 DEF PauseForApproval, Row
    <3>3. Evolves(tx, tx')
      BY <2>4, <3>1, <3>2, EvolvesStep DEF PauseForApproval, Open
    <3> QED
      BY <2>4, <3>3 DEF PauseForApproval, SessionStep
  <2>5. ASSUME NEW s \in Steps, StartResumed(s) PROVE SessionStep
    BY <2>5, <1>same DEF StartResumed, Dispatch
  <2>6. ASSUME NEW s \in Steps,
               StartExempt(s) \/ StartCleared(s) \/ StartPrepared(s)
        PROVE  SessionStep
    <3>1. tx.step[s] \in Open /\ db' = db
      BY <2>6 DEF StartExempt, StartCleared, StartPrepared, Dispatch, Open
    <3>a. PICK wanted \in SUBSET Steps :
            tx' = [tx EXCEPT !.step[s] = "running", !.asked = wanted]
      <4>1. CASE StartExempt(s)
        BY <4>1 DEF StartExempt, SetStep, Row
      <4>2. CASE StartCleared(s)
        BY <4>2 DEF StartCleared, Row
      <4>3. CASE StartPrepared(s)
        BY <4>3 DEF StartPrepared, Row
      <4> QED
        BY <2>6, <4>1, <4>2, <4>3
    <3>2. tx' \in Row /\ tx'.tries = tx.tries
      BY <3>a DEF Row
    <3>3. \A t \in Steps \ {s} : tx'.step[t] = tx.step[t]
      BY <3>a DEF Row
    <3> QED
      BY <3>1, <3>2, <3>3, EvolvesStep DEF SessionStep
  <2>7. CASE StepReturns
    <3> cur \in Steps /\ tx.step[cur] \in Open
      BY <2>7 DEF Inv, TypeOK, BatchOK, StepReturns, Returns, Open
    <3>1. PICK st \in Verdicts :
            tx' = [SetStep(tx, cur, st) EXCEPT
                     !.cp = Succeeded(SetStep(tx, cur, st)),
                     !.trust[cur] = IF Credits(st) /\ @ < 2 THEN @ + 1 ELSE @]
      BY <2>7 DEF StepReturns
    <3>2. st \in StepStatus
      BY <3>1 DEF Verdicts
    <3> DEFINE done == SetStep(tx, cur, st)
               n == IF Credits(st) /\ done.trust[cur] < 2
                      THEN done.trust[cur] + 1 ELSE done.trust[cur]
    <3>a. done \in Row
      BY <3>2, SetStepRow
    <3>b. Evolves(tx, done)
      BY <3>2, EvolvesSetStep
    <3>3. tx' = [done EXCEPT !.cp = Succeeded(done),
                  !.trust[cur] = IF Credits(st) /\ @ < 2 THEN @ + 1 ELSE @]
      BY <3>1
    <3> HIDE DEF done
    <3>4. tx' = [done EXCEPT !.cp = Succeeded(done), !.trust[cur] = n]
      BY <3>a, <3>3 DEF Row
    <3>n. n \in 0 .. 2
      BY <3>a DEF Row
    <3> HIDE DEF n
    <3>5. Succeeded(done) \subseteq Steps
      BY DEF Succeeded
    <3>6. tx' \in Row /\ tx'.tries = done.tries /\ tx'.step = done.step
      BY <3>a, <3>4, <3>n, <3>5 DEF Row
    <3> QED
      BY <2>7, <3>b, <3>6 DEF Evolves, SessionStep, StepReturns, Returns
  <2>8. CASE StepTimesOut
    <3> cur \in Steps /\ tx.step[cur] \in Open
      BY <2>8 DEF Inv, TypeOK, BatchOK, StepTimesOut, Returns, Open
    <3>1. Evolves(tx, tx')
      BY <2>8, EvolvesSetStep DEF StepTimesOut
    <3> QED
      BY <2>8, <3>1 DEF SessionStep, StepTimesOut, Returns
  <2>9. CASE StepFails
    <3> cur \in Steps /\ tx.step[cur] = "running"
      BY <2>9 DEF Inv, TypeOK, BatchOK, StepFails, Returns
    <3> DEFINE n == tx.tries[cur] + 1
               st == IF n < MaxTries THEN "pending" ELSE "failed"
    <3>1. tx.tries[cur] \in 0 .. MaxTries /\ tx.tries[cur] # MaxTries
      BY DEF Inv, Attempts, Row
    <3>2. n \in 0 .. MaxTries /\ st \in StepStatus
          /\ (n = MaxTries => st = "failed")
      BY <3>1, EngineAssumption
    <3>3. tx' = [tx EXCEPT !.tries[cur] = n, !.step[cur] = st]
      BY <2>9 DEF StepFails
    <3> HIDE DEF n, st
    <3>4. tx' \in Row /\ tx'.tries = [tx.tries EXCEPT ![cur] = n]
          /\ tx'.step = [tx.step EXCEPT ![cur] = st]
      BY <3>2, <3>3 DEF Row
    <3>5. Evolves(tx, tx')
      BY <3>2, <3>4 DEF Evolves, Row, Open
    <3> QED
      BY <2>9, <3>5 DEF SessionStep, StepFails, Returns
  <2>10. CASE DeferForReauth
    BY <2>10, <1>session DEF DeferForReauth
  <2>11. CASE Commit
    BY <2>11 DEF Commit, CommitStep
  <2>12. CASE Bookkeep
    <3>1. PICK row \in {[db EXCEPT !.retries = Bump(db.retries),
                                   !.source = "approval_resume"],
                        [db EXCEPT !.retries = Bump(db.retries),
                                   !.run = "failed"],
                        [db EXCEPT !.retries = Bump(db.retries),
                                   !.run = "pending"]} : Store(row)
      BY <2>12 DEF Bookkeep
    <3>2. Bump(db.retries) \in 0 .. ReapMax + MaxRetries
      BY EngineAssumption DEF Row, Bump
    <3>3. row \in Row /\ row.step = db.step /\ row.tries = db.tries
      BY <3>1, <3>2 DEF Row
    <3> QED
      BY <3>1, <3>3, EvolvesSame, <1>store
  <2> QED
    BY <1>2, <2>1, <2>2, <2>3, <2>4, <2>5, <2>6, <2>7, <2>8, <2>9, <2>10,
       <2>11, <2>12 DEF Drive
<1>3. CASE Faults
  <2>1. CASE StepBlowsUp
    BY <2>1, <1>same DEF StepBlowsUp, Returns
  <2>2. CASE DagRaises
    <3>1. db' = db /\ (tx' = SetRun(tx, "failed") \/ tx' = SetRun(db, "failed"))
      BY <2>2 DEF DagRaises
    <3> QED
      BY <3>1, EvolvesRun DEF SessionStep
  <2>3. CASE RunTimesOut
    <3>1. db' = db /\ (tx' = SetRun(tx, "timed_out") \/ tx' = db)
      BY <2>3 DEF RunTimesOut
    <3> QED
      BY <3>1, EvolvesRun, EvolvesSame DEF SessionStep
  <2>4. CASE CommitFails \/ Crash
    BY <2>4, EvolvesSame DEF CommitFails, Crash, RollBack, SessionStep
  <2> QED
    BY <1>3, <2>1, <2>2, <2>3, <2>4 DEF Faults
<1>4. CASE Routes
  <2>1. ASSUME NEW s \in Steps, Approve(s) PROVE SessionStep
    BY <2>1, <1>same DEF Approve
  <2>2. ASSUME NEW s \in Steps, QueueResume(s) PROVE StoreStep
    <3> DEFINE st == IF db.step[s] = "waiting_approval" THEN "running"
                                                         ELSE db.step[s]
               row == [db EXCEPT !.step[s] = st, !.source = "approval_resume"]
    <3>1. Store(row)
      BY <2>2 DEF QueueResume
    <3>2. st \in StepStatus
      BY DEF Row
    <3>3. row \in Row /\ row.tries = db.tries
          /\ row.step = [db.step EXCEPT ![s] = st]
      BY <3>2 DEF Row
    <3>4. Evolves(db, row)
      BY <3>3 DEF Evolves, Row, Open
    <3> QED
      BY <3>1, <3>4, <1>store
  <2>3. ASSUME NEW s \in Steps, QueueFails(s) PROVE SessionStep \/ StoreStep
    BY <2>3, <1>same, <1>run DEF QueueFails
  <2>4. ASSUME NEW s \in Steps, Reject(s) PROVE SessionStep \/ StoreStep
    <3> DEFINE marked == IF db.step[s] = "waiting_approval"
                           THEN SetStep(db, s, "cancelled") ELSE db
    <3>1. Store(Cancelled(marked)) \/ UNCHANGED <<db, tx>>
      BY <2>4 DEF Reject
    <3>2. ASSUME db.step[s] = "waiting_approval"
          PROVE  Evolves(db, Cancelled(marked))
      <4>1. marked \in Row /\ marked.tries = db.tries
            /\ marked.step = [db.step EXCEPT ![s] = "cancelled"]
        BY <3>2, SetStepRow
      <4> HIDE DEF marked
      <4> QED
        BY <4>1, <3>2, CancelledRow DEF Evolves, Row, Open
    <3>3. Evolves(db, Cancelled(marked))
      BY <3>2, EvolvesCancelled
    <3> QED
      BY <3>1, <3>3, <1>store, <1>same
  <2>5. ASSUME NEW route, RouteReads(route) \/ RouteGivesUp PROVE SessionStep
    BY <2>5, <1>same DEF RouteReads, RouteGivesUp
  <2>6. CASE CancelRoute
    BY <2>6, <1>store, EvolvesCancelled DEF CancelRoute, RouteWrites
  <2>7. CASE ResumeRoute \/ RetryRoute
    <3>1. PICK row \in {[db EXCEPT !.source = "approval_resume"],
                        [db EXCEPT !.run = "pending",
                                   !.source = "approval_resume"]} : Store(row)
      BY <2>7 DEF ResumeRoute, RetryRoute, RouteWrites
    <3>2. row \in Row /\ row.step = db.step /\ row.tries = db.tries
      BY <3>1 DEF Row
    <3> QED
      BY <3>1, <3>2, <1>store, EvolvesSame
  <2>8. CASE Requeue
    BY <2>8, <1>run DEF Requeue
  <2> QED
    BY <1>4, <2>1, <2>2, <2>3, <2>4, <2>5, <2>6, <2>7, <2>8 DEF Routes
<1>5. CASE Recover
  <2>1. Store(db) \/ Store(SetRun(db, "failed"))
    BY <1>5 DEF Recover
  <2> QED
    BY <2>1, <1>store, <1>run, EvolvesSame
<1>6. CASE HealthTick
  BY <1>6, <1>run DEF HealthTick
<1>7. CASE UNCHANGED vars
  BY <1>7, <1>same DEF vars
<1> QED
  BY <1>1, <1>2, <1>3, <1>4, <1>5, <1>6, <1>7 DEF Next

\* Whatever the kind of the step, the rows stay rows.
LEMMA RowsStep ==
  ASSUME Inv, [Next]_vars
  PROVE  db' \in Row /\ tx' \in Row /\ Attempts(db)' /\ Attempts(tx)'
<1>1. db \in Row /\ tx \in Row /\ Attempts(db) /\ Attempts(tx)
  BY DEF Inv, TypeOK
<1>2. ASSUME NEW r \in Row, NEW q, Attempts(r), Evolves(r, q)
      PROVE  q \in Row /\ Attempts(q)
  BY <1>2 DEF Evolves, Attempts, Open
<1>3. CASE SessionStep
  <2>1. tx' \in Row /\ Attempts(tx')
    BY <1>1, <1>2, <1>3 DEF SessionStep
  <2> QED
    BY <1>1, <1>3, <2>1 DEF SessionStep, Attempts
<1>4. CASE CommitStep
  BY <1>1, <1>4 DEF CommitStep, Attempts
<1>5. CASE StoreStep
  <2>1. db' \in Row /\ Attempts(db')
    BY <1>1, <1>2, <1>5 DEF StoreStep
  <2> QED
    BY <1>5, <2>1 DEF StoreStep, Attempts
<1> QED
  BY StepKinds, <1>3, <1>4, <1>5

\* The variables other than the rows keep their types.
LEMMA TypeStep ==
  ASSUME Inv, [Next]_vars, db' \in Row, tx' \in Row
  PROVE  TypeOK'
<1> TypeOK
  BY DEF Inv
<1> USE DEF TypeOK, control, requests
<1>1. CASE Scheduler
  BY <1>1 DEF Scheduler, TickExecute, TickResume, ReapResume, ReapExhausted,
              Begin
<1>2. CASE Drive
  <2>1. CASE GetReadySteps \/ NothingReady
    BY <2>1 DEF GetReadySteps, NothingReady, ReadySteps, InStatus
  <2>2. ASSUME NEW s \in Steps, SettleUngated(s) \/ PauseForApproval(s)
        PROVE  TypeOK'
    BY <2>2 DEF SettleUngated, PauseForApproval, Advance
  <2>3. ASSUME NEW s \in Steps,
               \/ StartResumed(s) \/ StartExempt(s)
               \/ StartCleared(s) \/ StartPrepared(s)
        PROVE  TypeOK'
    BY <2>3 DEF StartResumed, StartExempt, StartCleared, StartPrepared,
                Dispatch
  <2>4. CASE StepReturns \/ StepTimesOut \/ StepFails \/ DeferForReauth
    BY <2>4 DEF StepReturns, StepTimesOut, StepFails, DeferForReauth, Returns,
                Advance
  <2>5. CASE Commit
    BY <2>5 DEF Commit, NewApprovals
  <2>6. CASE Bookkeep
    BY <2>6 DEF Bookkeep
  <2> QED
    BY <1>2, <2>1, <2>2, <2>3, <2>4, <2>5, <2>6 DEF Drive
<1>3. CASE Faults
  <2>1. faults' \in 0 .. MaxFaults
    BY <1>3, EngineAssumption
       DEF Faults, StepBlowsUp, DagRaises, RunTimesOut, CommitFails, Crash,
           Fault
  <2>2. CASE StepBlowsUp
    BY <2>1, <2>2 DEF StepBlowsUp, Returns, Advance
  <2>3. CASE DagRaises
    BY <2>1, <2>3 DEF DagRaises
  <2>4. CASE RunTimesOut
    BY <2>1, <2>4 DEF RunTimesOut
  <2>5. CASE CommitFails \/ Crash
    BY <2>1, <2>5 DEF CommitFails, Crash, RollBack
  <2> QED
    BY <1>3, <2>2, <2>3, <2>4, <2>5 DEF Faults
<1>4. CASE Routes
  <2>1. ASSUME NEW s \in Steps, Approve(s) PROVE TypeOK'
    BY <2>1 DEF Approve
  <2>2. ASSUME NEW s \in Steps, QueueResume(s) PROVE TypeOK'
    BY <2>2 DEF QueueResume
  <2>3. ASSUME NEW s \in Steps, QueueFails(s) PROVE TypeOK'
    <3>1. faults' \in 0 .. MaxFaults
      BY <2>3, EngineAssumption DEF QueueFails, Fault
    <3> QED
      BY <2>3, <3>1 DEF QueueFails
  <2>4. ASSUME NEW s \in Steps, Reject(s) PROVE TypeOK'
    BY <2>4 DEF Reject
  <2>5. ASSUME NEW route \in {"cancel", "resume", "retry"},
               RouteReads(route) \/ RouteGivesUp
        PROVE  TypeOK'
    BY <2>5 DEF RouteReads, RouteGivesUp
  <2>6. CASE CancelRoute \/ ResumeRoute \/ RetryRoute \/ Requeue
    BY <2>6 DEF CancelRoute, ResumeRoute, RetryRoute, RouteWrites, Requeue
  <2> QED
    BY <1>4, <2>1, <2>2, <2>3, <2>4, <2>5, <2>6 DEF Routes
<1>5. CASE Recover
  BY <1>5 DEF Recover
<1>6. CASE HealthTick
  BY <1>6 DEF HealthTick
<1>7. CASE UNCHANGED vars
  BY <1>7 DEF vars
<1> QED
  BY <1>1, <1>2, <1>3, <1>4, <1>5, <1>6, <1>7 DEF Next

\* What is in the batch can be started, and what is called has been.
LEMMA BatchStep ==
  ASSUME Inv, [Next]_vars
  PROVE  BatchOK'
<1> TypeOK /\ BatchOK /\ db \in Row /\ tx \in Row
  BY DEF Inv, TypeOK
<1> USE DEF BatchOK
<1>idle. ASSUME pc' \notin {"batch", "call"} PROVE BatchOK'
  BY <1>idle
<1>same. ASSUME UNCHANGED <<tx, pc, batch, cur>> PROVE BatchOK'
  BY <1>same
<1>1. CASE Scheduler
  BY <1>1, <1>idle DEF Scheduler, TickExecute, TickResume, ReapResume,
                       ReapExhausted, Begin
<1>2. CASE Drive
  <2>1. CASE GetReadySteps
    BY <2>1 DEF GetReadySteps, ReadySteps, InStatus
  <2>2. ASSUME NEW s \in Steps, SettleUngated(s) PROVE BatchOK'
    <3>1. \A t \in Steps \ {s} : tx'.step[t] = tx.step[t]
      BY <2>2 DEF SettleUngated, SetStep, Row
    <3> QED
      BY <2>2, <3>1 DEF SettleUngated, Advance, TypeOK
  <2>3. ASSUME NEW s \in Steps, PauseForApproval(s) PROVE BatchOK'
    BY <2>3, <1>idle DEF PauseForApproval
  <2>4. ASSUME NEW s \in Steps,
               \/ StartResumed(s) \/ StartExempt(s)
               \/ StartCleared(s) \/ StartPrepared(s)
        PROVE  BatchOK'
    <3>1. pc = "batch" /\ batch' = batch /\ cur' = s
      BY <2>4 DEF StartResumed, StartExempt, StartCleared, StartPrepared,
                  Dispatch
    <3>2. tx'.step[s] = "running"
          /\ \A t \in Steps \ {s} : tx'.step[t] = tx.step[t]
      BY <2>4 DEF StartResumed, StartExempt, StartCleared, StartPrepared,
                  SetStep, Row
    <3> QED
      BY <3>1, <3>2 DEF TypeOK
  <2>5. CASE StepReturns \/ StepTimesOut \/ StepFails
    <3>1. Returns /\ cur' = cur
      BY <2>5 DEF StepReturns, StepTimesOut, StepFails, Returns
    <3>2. \A t \in Steps \ {cur} : tx'.step[t] = tx.step[t]
      <4>1. CASE StepReturns
        BY <4>1 DEF StepReturns, SetStep, Row, TypeOK
      <4>2. CASE StepTimesOut
        BY <4>2 DEF StepTimesOut, SetStep, Row, TypeOK
      <4>3. CASE StepFails
        BY <4>3 DEF StepFails, Row, TypeOK
      <4> QED
        BY <2>5, <4>1, <4>2, <4>3
    <3> QED
      BY <3>1, <3>2 DEF Returns, Advance, TypeOK
  <2>6. CASE NothingReady \/ DeferForReauth \/ Commit \/ Bookkeep
    BY <2>6, <1>idle DEF NothingReady, DeferForReauth, Commit, Bookkeep
  <2> QED
    BY <1>2, <2>1, <2>2, <2>3, <2>4, <2>5, <2>6 DEF Drive
<1>3. CASE Faults
  <2>1. CASE StepBlowsUp
    BY <2>1 DEF StepBlowsUp, Returns, Advance
  <2>2. CASE DagRaises \/ RunTimesOut \/ CommitFails \/ Crash
    BY <2>2, <1>idle DEF DagRaises, RunTimesOut, CommitFails, Crash
  <2> QED
    BY <1>3, <2>1, <2>2 DEF Faults
<1>4. CASE Routes
  <2>1. ASSUME NEW s \in Steps,
               Approve(s) \/ QueueResume(s) \/ QueueFails(s) \/ Reject(s)
        PROVE  BatchOK'
    BY <2>1, <1>idle, <1>same
       DEF Approve, QueueResume, QueueFails, Reject, control, Unlocked
  <2>2. ASSUME NEW route, RouteReads(route) \/ RouteGivesUp PROVE BatchOK'
    BY <2>2, <1>same DEF RouteReads, RouteGivesUp, control
  <2>3. CASE CancelRoute \/ ResumeRoute \/ RetryRoute \/ Requeue
    BY <2>3, <1>idle DEF CancelRoute, ResumeRoute, RetryRoute, RouteWrites,
                         Requeue, Unlocked
  <2> QED
    BY <1>4, <2>1, <2>2, <2>3 DEF Routes
<1>5. CASE Recover \/ HealthTick
  BY <1>5, <1>idle DEF Recover, HealthTick, Unlocked
<1>6. CASE UNCHANGED vars
  BY <1>6, <1>same DEF vars
<1> QED
  BY <1>1, <1>2, <1>3, <1>4, <1>5, <1>6 DEF Next

\* Every step keeps the invariant.
LEMMA InvStep ==
  ASSUME Inv, [Next]_vars
  PROVE  Inv'
BY RowsStep, TypeStep, BatchStep DEF Inv

\* The invariant holds throughout the life of a run.
THEOREM Invariance == Spec => []Inv
BY InvInit, InvStep, PTL DEF Spec

\* Every reachable state of the run engine is well typed: in particular no
\* step is tried more than max_retries times (handle_step_failure).
THEOREM TypeCorrect == Spec => []TypeOK
<1>1. Inv => TypeOK
  BY DEF Inv
<1> QED
  BY <1>1, Invariance, PTL

----------------------------------------------------------------------------
(* Dependencies, and steps that have ended.                                *)

DepsFirst(row) ==
  \A s \in Steps :
    row.step[s] \notin {"pending", "skipped"} => Deps[s] \subseteq Succeeded(row)

Ended(row, s) ==
  row.step[s] \notin {"pending", "ready", "running", "waiting_approval"}

\* q was made from r without touching a step that had ended in r.
Kept(r, q) == \A s \in Steps : Ended(r, s) => q.step[s] = r.step[s]

\* No writer touches an ended step.
LEMMA EvolvesKeeps ==
  ASSUME NEW r, NEW q, Evolves(r, q)
  PROVE  Kept(r, q)
BY DEF Evolves, Kept, Ended, Open

\* Keeping ended steps composes.
LEMMA KeptTransitive ==
  ASSUME NEW p, NEW q, NEW r, Kept(p, q), Kept(q, r)
  PROVE  Kept(p, r)
BY DEF Kept, Ended

\* A step that succeeded stays so, and a step is released only after what it
\* depends on has succeeded.
LEMMA EvolvesDeps ==
  ASSUME NEW r, NEW q, Evolves(r, q), DepsFirst(r)
  PROVE  DepsFirst(q)
<1>1. Succeeded(r) \subseteq Succeeded(q)
  BY DEF Evolves, Open, Succeeded, TerminalSuccess
<1>2. SUFFICES ASSUME NEW s \in Steps, q.step[s] \notin {"pending", "skipped"}
               PROVE  Deps[s] \subseteq Succeeded(r)
  BY <1>1 DEF DepsFirst
<1>3. CASE r.step[s] = "pending"
  BY <1>2, <1>3 DEF Evolves, Open
<1>4. CASE r.step[s] = "skipped"
  BY <1>2, <1>4 DEF Evolves, Open
<1>5. CASE r.step[s] \notin {"pending", "skipped"}
  BY <1>5 DEF DepsFirst
<1> QED
  BY <1>3, <1>4, <1>5

\* The session never contradicts the committed rows about an ended step.
Order == DepsFirst(db) /\ DepsFirst(tx) /\ Kept(db, tx)

\* Every step keeps the order, and the committed ended steps.
LEMMA OrderStep ==
  ASSUME Inv, Order, [Next]_vars
  PROVE  Order' /\ Kept(db, db')
<1>1. CASE SessionStep
  <2>1. DepsFirst(tx')
    BY <1>1, EvolvesDeps DEF SessionStep, Order
  <2>2. Kept(db, tx')
    BY <1>1, EvolvesKeeps, KeptTransitive DEF SessionStep, Order
  <2> QED
    BY <1>1, <2>1, <2>2 DEF SessionStep, Order, DepsFirst, Kept, Succeeded,
                            Ended
<1>2. CASE CommitStep
  BY <1>2 DEF CommitStep, Order, DepsFirst, Kept, Succeeded, Ended
<1>3. CASE StoreStep
  <2>1. DepsFirst(db') /\ Kept(db, db')
    BY <1>3, EvolvesDeps, EvolvesKeeps DEF StoreStep, Order
  <2> QED
    BY <1>3, <2>1 DEF StoreStep, Order, DepsFirst, Kept, Succeeded, Ended
<1> QED
  BY <1>1, <1>2, <1>3, StepKinds

\* Initially every step is pending.
LEMMA OrderInit == Init => Order
BY DEF Init, Order, DepsFirst, Kept

\* Dependencies come first and the session keeps ended steps, always.
THEOREM OrderInvariant == Spec => []Order
<1>1. Inv /\ Order /\ [Next]_vars => Order'
  BY OrderStep
<1> QED
  BY <1>1, OrderInit, Invariance, PTL DEF Spec

\* For every dependency graph: no step is released, run or ended before all
\* the steps it depends on have succeeded (get_ready_steps), through every
\* crash, retry, approval, cancellation and recovery.
THEOREM DependenciesHold == Spec => []DependenciesFirst
<1>1. Order => DependenciesFirst
  BY DEF Order, DepsFirst, DependenciesFirst
<1> QED
  BY <1>1, OrderInvariant, PTL

\* A step that has ended in the committed rows keeps its status, but for the
\* upgrade of an unverified one: neither a driver with an old session nor a
\* route overwrites it.
THEOREM EndedStepsKept == Spec => EndedStepsStay
<1>1. Inv /\ Order /\ [Next]_vars =>
        [\A s \in Steps :
           db.step[s] \notin {"pending", "ready", "running",
                              "waiting_approval"}
             => \/ db'.step[s] = db.step[s]
                \/ /\ db.step[s] = "completed_unverified"
                   /\ db'.step[s] \in StepTransitions["completed_unverified"]]_vars
  BY OrderStep DEF Kept, Ended
<1> QED
  BY <1>1, OrderInvariant, Invariance, PTL DEF Spec, EndedStepsStay

----------------------------------------------------------------------------
(* The review of gated steps while a human is present.  The argument ties  *)
(* four things together: an open approval, or one whose click is between   *)
(* its two commits, belongs to a step that waits; the session agrees that  *)
(* it waits; so the only step that is running although its gate asked is   *)
(* one whose approval was granted.                                         *)

Waits(row, s) == row.step[s] = "waiting_approval"

Asked(row) ==
  \A s \in Steps : s \in row.asked =>
    Kind[s] = "write" /\ (row.step[s] = "running" => appr[s] = "approved")

Review ==
  /\ \A s \in Steps : appr[s] = "pending" \/ s \in clicks => Waits(db, s)
  /\ \A s \in Steps : s \in clicks => appr[s] = "approved"
  /\ \A s \in Steps : Waits(db, s) => Waits(tx, s)
  /\ Asked(db) /\ Asked(tx)

\* q was made from r without ending a wait or starting an asked-about step.
Careful(r, q) ==
  \A s \in Steps :
    /\ Waits(r, s) => Waits(q, s)
    /\ s \in q.asked => Kind[s] = "write"
    /\ s \in q.asked /\ q.step[s] = "running" =>
         s \in r.asked /\ r.step[s] = "running"

\* A row with the same steps.
LEMMA CarefulSame ==
  ASSUME NEW r, NEW q, Asked(r), q.step = r.step, q.asked = r.asked
  PROVE  Careful(r, q)
BY DEF Careful, Waits, Asked

\* A change of the run status.
LEMMA CarefulRun ==
  ASSUME NEW r \in Row, NEW st \in RunStatus, Asked(r)
  PROVE  Careful(r, SetRun(r, st))
BY SetRunRow, CarefulSame

\* A step that does not wait is moved, but not started.
LEMMA CarefulStep ==
  ASSUME NEW r \in Row, NEW s \in Steps, ~Waits(r, s), Asked(r),
         NEW q \in Row, q.asked = r.asked, q.step[s] # "running",
         \A t \in Steps \ {s} : q.step[t] = r.step[t]
  PROVE  Careful(r, q)
BY DEF Careful, Waits, Asked

\* A careful change of the session keeps the review invariant.
LEMMA CarefulSession ==
  ASSUME Review, UNCHANGED <<db, appr, clicks>>,
         Careful(tx, tx') \/ Careful(db, tx')
  PROVE  Review'
<1>1. \A s \in Steps : Waits(db, s) => Waits(tx', s)
  BY DEF Review, Careful
<1>2. Asked(tx)'
  BY DEF Review, Careful, Asked
<1> QED
  BY <1>1, <1>2 DEF Review, Asked, Waits

\* So does a careful commit by somebody else.
LEMMA CarefulStore ==
  ASSUME Review, UNCHANGED <<appr, clicks>>, NEW row, Store(row),
         Careful(db, row)
  PROVE  Review'
<1>1. db' = row /\ tx' = row
  BY DEF Store
<1>2. Asked(db)' /\ Asked(tx)'
  BY <1>1 DEF Review, Careful, Asked
<1> QED
  BY <1>1, <1>2 DEF Review, Careful, Waits

\* Every step keeps the review invariant while a human is present.
LEMMA ReviewStep ==
  ASSUME Inv, Review, Presence = "present", [Next]_vars
  PROVE  Review'
<1> /\ db \in Row /\ tx \in Row /\ Asked(db) /\ Asked(tx)
    /\ appr \in [Steps -> {"none", "pending", "approved", "rejected",
                           "expired"}]
  BY DEF Inv, TypeOK, Review
<1> USE Literals
<1>store. ASSUME UNCHANGED <<appr, clicks>>, NEW row \in Row, Store(row),
                 row.step = db.step, row.asked = db.asked
          PROVE  Review'
  BY <1>store, CarefulSame, CarefulStore
<1>run. ASSUME UNCHANGED <<appr, clicks>>, NEW st \in RunStatus,
               Store(SetRun(db, st))
        PROVE  Review'
  BY <1>run, CarefulRun, CarefulStore
<1>begin. ASSUME NEW row \in Row, row.step = db.step, row.asked = db.asked,
                 NEW e, Begin(row, e)
          PROVE  Review'
  <2>1. tx' = SetRun(row, "running") /\ UNCHANGED <<db, appr, clicks>>
    BY <1>begin DEF Begin, requests
  <2>2. tx'.step = db.step /\ tx'.asked = db.asked
    BY <1>begin, <2>1 DEF SetRun, Row
  <2> QED
    BY <2>1, <2>2, CarefulSame, CarefulSession
<1>same. ASSUME UNCHANGED <<db, tx, appr, clicks>> PROVE Review'
  BY <1>same, CarefulSame, CarefulSession
<1>session. ASSUME NEW st \in RunStatus, tx' = SetRun(tx, st),
                   UNCHANGED <<db, appr, clicks>>
            PROVE  Review'
  BY <1>session, CarefulRun, CarefulSession
<1>1. CASE Scheduler
  <2>1. CASE TickExecute
    BY <2>1, <1>begin DEF TickExecute
  <2>2. CASE TickResume
    <3> DEFINE row == [db EXCEPT !.source = "background"]
    <3>1. row \in Row /\ row.step = db.step /\ row.asked = db.asked
      BY DEF Row
    <3>2. Begin(row, "resume")
      BY <2>2 DEF TickResume
    <3> HIDE DEF row
    <3> QED
      BY <3>1, <3>2, <1>begin
  <2>3. CASE ReapResume
    <3> DEFINE row == [db EXCEPT !.source = "background", !.retries = @ + 1]
    <3>1. db.retries + 1 \in 0 .. ReapMax + MaxRetries
      BY <2>3, EngineAssumption DEF Row, ReapResume
    <3>2. row \in Row
      BY <3>1 DEF Row
    <3>3. row.step = db.step /\ row.asked = db.asked
      BY DEF Row
    <3>4. Begin(row, "reap")
      BY <2>3 DEF ReapResume
    <3> HIDE DEF row
    <3> QED
      BY <3>2, <3>3, <3>4, <1>begin
  <2>4. CASE ReapExhausted
    BY <2>4, <1>run DEF ReapExhausted, requests
  <2> QED
    BY <1>1, <2>1, <2>2, <2>3, <2>4 DEF Scheduler
<1>2. CASE Drive
  <2>1. CASE GetReadySteps
    <3>1. Careful(tx, tx')
      BY <2>1, ReleasedRow DEF GetReadySteps, Careful, Waits, Releasable, Asked
    <3> QED
      BY <2>1, <3>1, CarefulSession DEF GetReadySteps, requests
  <2>2. CASE NothingReady
    <3> UNCHANGED <<db, appr, clicks>>
      BY <2>2 DEF NothingReady, requests
    <3>1. CASE Finish
      BY <3>1, <1>session DEF Finish
    <3>2. CASE BlockedByFailure
      BY <3>2, <1>session DEF BlockedByFailure
    <3>3. CASE BlockedOtherwise
      BY <3>3, <1>session, <1>same DEF BlockedOtherwise
    <3> QED
      BY <2>2, <3>1, <3>2, <3>3 DEF NothingReady
  <2>3. ASSUME NEW s \in Steps, SettleUngated(s) PROVE Review'
    <3>1. ~Waits(tx, s) /\ UNCHANGED <<db, appr, clicks>>
      BY <2>3 DEF SettleUngated, Waits, requests
    <3>2. PICK st \in {"skipped", "failed"} : tx' = SetStep(tx, s, st)
      BY <2>3 DEF SettleUngated
    <3>3. /\ tx' \in Row /\ tx'.asked = tx.asked /\ tx'.step[s] # "running"
          /\ \A t \in Steps \ {s} : tx'.step[t] = tx.step[t]
      BY <3>2 DEF SetStep, Row
    <3> QED
      BY <3>1, <3>3, CarefulStep, CarefulSession
  <2>4. ASSUME NEW s \in Steps, PauseForApproval(s) PROVE Review'
    <3>1. /\ tx'.asked = tx.asked \cup {s}
          /\ tx'.step = [tx.step EXCEPT ![s] = "waiting_approval"]
      BY <2>4 DEF PauseForApproval, Row
    <3>2. Kind[s] = "write" /\ UNCHANGED <<db, appr, clicks>>
      BY <2>4 DEF PauseForApproval, requests
    <3>3. Careful(tx, tx')
      BY <3>1, <3>2 DEF Careful, Waits, Asked, Row
    <3> QED
      BY <3>2, <3>3, CarefulSession
  <2>5. ASSUME NEW s \in Steps, StartResumed(s) PROVE Review'
    BY <2>5, <1>same DEF StartResumed, Dispatch, requests
  <2>6. ASSUME NEW s \in Steps, StartExempt(s) PROVE Review'
    <3>1. /\ tx'.asked = tx.asked
          /\ tx'.step = [tx.step EXCEPT ![s] = "running"]
      BY <2>6 DEF StartExempt, SetStep, Row
    <3>2. s \notin tx.asked /\ ~Waits(tx, s)
      BY <2>6 DEF StartExempt, Asked, Waits
    <3>3. Careful(tx, tx')
      BY <3>1, <3>2 DEF Careful, Waits, Asked, Row
    <3> QED
      BY <2>6, <3>3, CarefulSession DEF StartExempt, Dispatch, requests
  <2>7. ASSUME NEW s \in Steps, StartCleared(s) PROVE Review'
    <3>1. /\ tx'.asked = tx.asked \ {s}
          /\ tx'.step = [tx.step EXCEPT ![s] = "running"]
      BY <2>7 DEF StartCleared, Row
    <3>2. ~Waits(tx, s)
      BY <2>7 DEF StartCleared, Waits
    <3>3. Careful(tx, tx')
      BY <3>1, <3>2 DEF Careful, Waits, Asked, Row
    <3> QED
      BY <2>7, <3>3, CarefulSession DEF StartCleared, Dispatch, requests
  <2>8. ASSUME NEW s \in Steps, StartPrepared(s) PROVE Review'
    BY <2>8 DEF StartPrepared
  <2>9. CASE StepReturns \/ StepTimesOut \/ StepFails
    <3> cur \in Steps /\ ~Waits(tx, cur) /\ UNCHANGED <<db, appr, clicks>>
      BY <2>9 DEF Inv, TypeOK, BatchOK, StepReturns, StepTimesOut, StepFails,
                  Returns, Waits, requests
    <3>1. /\ tx'.asked = tx.asked /\ tx'.step[cur] # "running"
          /\ \A t \in Steps \ {cur} : tx'.step[t] = tx.step[t]
      <4>1. CASE StepReturns
        BY <4>1 DEF StepReturns, Verdicts, SetStep, Row
      <4>2. CASE StepTimesOut
        BY <4>2 DEF StepTimesOut, SetStep, Row
      <4>3. CASE StepFails
        BY <4>3 DEF StepFails, Row
      <4> QED
        BY <2>9, <4>1, <4>2, <4>3
    <3>2. tx' \in Row
      BY RowsStep
    <3> QED
      BY <3>1, <3>2, CarefulStep, CarefulSession
  <2>10. CASE DeferForReauth
    BY <2>10, <1>session DEF DeferForReauth, requests
  <2>11. CASE Commit
    <3>1. /\ db' = tx /\ tx' = tx /\ clicks' = clicks
          /\ \A s \in Steps : appr'[s] =
               IF Waits(tx, s) /\ ~Waits(db, s) THEN "pending" ELSE appr[s]
      BY <2>11 DEF Commit, NewApprovals, Waits
    <3>2. Asked(db)' /\ Asked(tx)'
      BY <3>1 DEF Asked, Waits
    <3> QED
      BY <3>1, <3>2 DEF Review, Waits
  <2>12. CASE Bookkeep
    <3>1. PICK row \in {[db EXCEPT !.retries = Bump(db.retries),
                                   !.source = "approval_resume"],
                        [db EXCEPT !.retries = Bump(db.retries),
                                   !.run = "failed"],
                        [db EXCEPT !.retries = Bump(db.retries),
                                   !.run = "pending"]} : Store(row)
      BY <2>12 DEF Bookkeep
    <3>2. row.step = db.step /\ row.asked = db.asked
      BY <3>1 DEF Row
    <3> QED
      BY <2>12, <3>1, <3>2, CarefulSame, CarefulStore DEF Bookkeep, requests
  <2> QED
    BY <1>2, <2>1, <2>2, <2>3, <2>4, <2>5, <2>6, <2>7, <2>8, <2>9, <2>10,
       <2>11, <2>12 DEF Drive
<1>3. CASE Faults
  <2>1. CASE StepBlowsUp
    BY <2>1, <1>same DEF StepBlowsUp, Returns, requests
  <2>2. CASE DagRaises
    <3>1. /\ UNCHANGED <<db, appr, clicks>>
          /\ tx' = SetRun(tx, "failed") \/ tx' = SetRun(db, "failed")
      BY <2>2 DEF DagRaises, requests
    <3> QED
      BY <3>1, CarefulRun, CarefulSession
  <2>3. CASE RunTimesOut
    <3>1. /\ UNCHANGED <<db, appr, clicks>>
          /\ tx' = SetRun(tx, "timed_out") \/ tx' = db
      BY <2>3 DEF RunTimesOut, requests
    <3> QED
      BY <3>1, CarefulRun, CarefulSame, CarefulSession
  <2>4. CASE CommitFails \/ Crash
    BY <2>4, CarefulSame, CarefulSession DEF CommitFails, Crash, RollBack,
                                             requests
  <2> QED
    BY <1>3, <2>1, <2>2, <2>3, <2>4 DEF Faults
<1>4. CASE Routes
  <2>1. ASSUME NEW s \in Steps, Approve(s) PROVE Review'
    <3>1. /\ UNCHANGED <<db, tx>> /\ clicks' = clicks \cup {s}
          /\ appr[s] = "pending" /\ appr' = [appr EXCEPT ![s] = "approved"]
      BY <2>1 DEF Approve
    <3> QED
      BY <3>1 DEF Review, Asked, Waits
  <2>2. ASSUME NEW s \in Steps, QueueResume(s) PROVE Review'
    <3>1. s \in clicks /\ clicks' = clicks \ {s} /\ appr' = appr
          /\ tx' = db'
      BY <2>2 DEF QueueResume, Store
    <3>2. appr[s] = "approved" /\ Waits(db, s)
      BY <3>1 DEF Review
    <3>3. /\ db'.asked = db.asked
          /\ db'.step = [db.step EXCEPT ![s] = "running"]
      BY <2>2, <3>2 DEF QueueResume, Store, Waits, Row
    <3>4. \A t \in Steps : db'.step[t] = IF t = s THEN "running" ELSE db.step[t]
      BY <3>3 DEF Row
    <3> QED
      BY <3>1, <3>2, <3>3, <3>4 DEF Review, Asked, Waits
  <2>3. ASSUME NEW s \in Steps, QueueFails(s) PROVE Review'
    <3>1. clicks' \subseteq clicks /\ appr' = appr
      BY <2>3 DEF QueueFails
    <3>2. /\ tx'.step = tx.step /\ tx'.asked = tx.asked
          /\ db'.step = db.step /\ db'.asked = db.asked
          \/ Store(SetRun(db, "failed"))
      BY <2>3 DEF QueueFails
    <3>3. CASE Store(SetRun(db, "failed"))
      <4>1. /\ tx'.step = db.step /\ tx'.asked = db.asked
            /\ db'.step = db.step /\ db'.asked = db.asked
        BY <3>3, SetRunRow DEF Store
      <4> QED
        BY <3>1, <4>1 DEF Review, Asked, Waits
    <3> QED
      BY <3>1, <3>2, <3>3 DEF Review, Asked, Waits
  <2>4. ASSUME NEW s \in Steps, Reject(s) PROVE Review'
    <3>1. Waits(db, s)
      BY <2>4 DEF Reject, Review
    <3>2. ~CanStep("waiting_approval", "cancelled")
      BY DEF CanStep, StepTransitions
    <3>3. UNCHANGED <<db, tx, clicks>>
      BY <2>4, <3>1, <3>2 DEF Reject, Waits
    <3>4. appr' = appr \/ appr' = [appr EXCEPT ![s] = "rejected"]
      BY <2>4 DEF Reject
    <3>5. Waits(tx, s)
      BY <3>1 DEF Review
    <3>6. s \notin clicks
      BY <2>4 DEF Reject, Review
    <3> QED
      BY <3>1, <3>3, <3>4, <3>5, <3>6 DEF Review, Asked, Waits
  <2>5. ASSUME NEW route, RouteReads(route) \/ RouteGivesUp PROVE Review'
    BY <2>5, <1>same DEF RouteReads, RouteGivesUp
  <2>6. CASE CancelRoute
    <3>1. Careful(db, Cancelled(db))
      BY CancelledRow DEF Careful, Waits, Asked
    <3> QED
      BY <2>6, <3>1, CarefulStore DEF CancelRoute, RouteWrites
  <2>7. CASE ResumeRoute \/ RetryRoute
    <3>1. PICK row \in {[db EXCEPT !.source = "approval_resume"],
                        [db EXCEPT !.run = "pending",
                                   !.source = "approval_resume"]} : Store(row)
      BY <2>7 DEF ResumeRoute, RetryRoute, RouteWrites
    <3>2. row \in Row /\ row.step = db.step /\ row.asked = db.asked
      BY <3>1 DEF Row
    <3> QED
      BY <2>7, <3>1, <3>2, <1>store DEF ResumeRoute, RetryRoute, RouteWrites
  <2>8. CASE Requeue
    BY <2>8, <1>run DEF Requeue, requests
  <2> QED
    BY <1>4, <2>1, <2>2, <2>3, <2>4, <2>5, <2>6, <2>7, <2>8 DEF Routes
<1>5. CASE Recover
  <2>1. PICK old \in SUBSET {s \in Steps : appr[s] = "pending"} :
          /\ Store(db) \/ Store(SetRun(db, "failed"))
          /\ clicks' = clicks
          /\ \A s \in Steps : appr'[s] = IF s \in old THEN "expired" ELSE appr[s]
    <3>1. PICK row \in {db, SetRun(db, "failed")},
               old \in SUBSET {s \in Steps : appr[s] = "pending"} :
            /\ Store(row)
            /\ appr' = [s \in Steps |-> IF s \in old THEN "expired" ELSE appr[s]]
      BY <1>5 DEF Recover
    <3>2. clicks' = clicks
      BY <1>5 DEF Recover
    <3>3. \A s \in Steps : appr'[s] = IF s \in old THEN "expired" ELSE appr[s]
      BY <3>1
    <3>4. Store(db) \/ Store(SetRun(db, "failed"))
      BY <3>1
    <3> QED
      BY <3>2, <3>3, <3>4
  <2>2. /\ tx'.step = db.step /\ tx'.asked = db.asked
        /\ db'.step = db.step /\ db'.asked = db.asked
    <3>1. CASE Store(db)
      BY <3>1 DEF Store
    <3>2. CASE Store(SetRun(db, "failed"))
      BY <3>2, SetRunRow DEF Store
    <3> QED
      BY <2>1, <3>1, <3>2
  <2> QED
    BY <2>1, <2>2 DEF Review, Asked, Waits
<1>6. CASE HealthTick
  BY <1>6, <1>run DEF HealthTick, requests
<1>7. CASE UNCHANGED vars
  BY <1>7, <1>same DEF vars
<1> QED
  BY <1>1, <1>2, <1>3, <1>4, <1>5, <1>6, <1>7 DEF Next

\* Initially nothing was asked.
LEMMA ReviewInit == Init => Review
BY DEF Init, Review, Asked, Waits

\* With a human present, a step whose gate asked for one runs only after its
\* approval was granted, whatever the routes, the reaper and the crashes do
\* in between.
THEOREM ReviewHolds ==
  ASSUME Presence = "present"
  PROVE  Spec => []ReviewedBeforeRun
<1>1. Inv /\ Review /\ [Next]_vars => Review'
  BY ReviewStep, Presence = "present"
<1>2. Inv /\ Review => ReviewedBeforeRun
  BY DEF Inv, TypeOK, BatchOK, Review, Asked, ReviewedBeforeRun
<1> QED
  BY <1>1, <1>2, ReviewInit, Invariance, PTL DEF Spec
----------------------------------------------------------------------------
(* What a row records about its steps: the checkpoint, the trust they have  *)
(* earned and the run's verdict.                                            *)

Agrees(row) == row.cp = Succeeded(row)

Earned(row) ==
  \A s \in Steps : /\ row.trust[s] <= 1
                   /\ row.trust[s] = 1 => row.step[s] = "completed"

Clean(row) ==
  row.run = "completed" =>
    \A s \in Steps :
      row.step[s] \notin {"pending", "ready", "failed", "timed_out"}

Book(row) == Agrees(row) /\ Earned(row) /\ Clean(row)

\* The invariant speaks of the session too, since the session is what is
\* committed; a drive works on a run it has marked running, so that no step
\* fails under the verdict "completed".
Books == Book(db) /\ Book(tx) /\ (Driving => tx.run = "running")

\* A change that records no success and takes none back.
Minor(r, q) ==
  /\ q.cp = r.cp /\ q.trust = r.trust
  /\ \A s \in Steps :
       \/ q.step[s] = r.step[s]
       \/ r.step[s] \notin TerminalSuccess /\ q.step[s] \notin TerminalSuccess

\* A minor change keeps the books.
LEMMA BookMinor ==
  ASSUME NEW r \in Row, NEW q \in Row, Book(r), Minor(r, q), Clean(q)
  PROVE  Book(q)
<1>1. Succeeded(q) = Succeeded(r)
  BY DEF Succeeded, Minor
<1>2. Agrees(q)
  BY <1>1 DEF Minor, Book, Agrees
<1>3. Earned(q)
  BY DEF Minor, Book, Earned, TerminalSuccess
<1> QED
  BY <1>2, <1>3 DEF Book

\* A change of the other columns is minor.
LEMMA BookSame ==
  ASSUME NEW r \in Row, NEW q \in Row, Book(r),
         q.cp = r.cp, q.trust = r.trust, q.step = r.step,
         q.run = r.run \/ q.run # "completed"
  PROVE  Book(q)
BY BookMinor DEF Minor, Book, Clean

\* So is a change of the run status to anything but "completed".
LEMMA BookRun ==
  ASSUME NEW r \in Row, Book(r), NEW st \in RunStatus, st # "completed"
  PROVE  Book(SetRun(r, st))
<1> DEFINE q == SetRun(r, st)
<1>1. /\ q \in Row /\ q.cp = r.cp /\ q.trust = r.trust /\ q.step = r.step
      /\ q.run = st
  BY DEF SetRun, Row
<1> HIDE DEF q
<1>2. Book(q)
  BY <1>1, BookSame
<1> QED
  BY <1>2 DEF q

\* A driver's change to a step of a running run, other than to a success.
LEMMA BookStep ==
  ASSUME NEW r \in Row, NEW q \in Row, Book(r), NEW s \in Steps,
         r.step[s] \in Open, q.step[s] \notin TerminalSuccess,
         \A t \in Steps \ {s} : q.step[t] = r.step[t],
         q.cp = r.cp, q.trust = r.trust, q.run # "completed"
  PROVE  Book(q)
<1>1. Minor(r, q)
  BY DEF Minor, Open, TerminalSuccess
<1>2. Clean(q)
  BY DEF Clean
<1> QED
  BY <1>1, <1>2, BookMinor

\* cancel_run keeps the books: what has succeeded is left alone.
LEMMA BookCancelled ==
  ASSUME NEW r \in Row, Book(r)
  PROVE  Book(Cancelled(r))
<1> DEFINE q == Cancelled(r)
<1>1. q \in Row /\ \A s \in Steps :
        q.step[s] = IF r.step[s] = "running" THEN "cancelled"
                    ELSE IF r.step[s] \in {"pending", "ready"} THEN "skipped"
                    ELSE r.step[s]
  BY CancelledRow
<1>2. q.cp = r.cp /\ q.trust = r.trust /\ q.run = "cancelled"
  BY DEF Cancelled, Row
<1> HIDE DEF q
<1>3. Minor(r, q)
  BY <1>1, <1>2 DEF Minor, TerminalSuccess
<1>4. Book(q)
  BY <1>1, <1>2, <1>3, BookMinor DEF Clean
<1> QED
  BY <1>4 DEF q

\* get_ready_steps keeps the books.
LEMMA BookReleased ==
  ASSUME NEW r \in Row, Book(r), r.run = "running"
  PROVE  Book(Released(r)) /\ Released(r).run = "running"
<1> DEFINE q == Released(r)
<1>1. q \in Row /\ q.step = [s \in Steps |-> IF Releasable(r, s)
                               THEN "ready" ELSE r.step[s]]
  BY ReleasedRow
<1>2. q.cp = r.cp /\ q.trust = r.trust /\ q.run = r.run
  BY DEF Released, Row
<1> HIDE DEF q
<1>3. Minor(r, q)
  BY <1>1, <1>2 DEF Minor, TerminalSuccess, Releasable
<1>4. Book(q) /\ q.run = "running"
  BY <1>1, <1>2, <1>3, BookMinor DEF Clean
<1> QED
  BY <1>4 DEF q

\* finalize_step: the step that returns has earned nothing yet, and its
\* success enters the checkpoint in the same write.
LEMMA BookReturns ==
  ASSUME Inv, Book(tx), tx.run = "running", StepReturns, tx' \in Row
  PROVE  Book(tx') /\ tx'.run = "running"
<1> tx \in Row /\ cur \in Steps /\ tx.step[cur] = "running"
  BY DEF Inv, TypeOK, BatchOK, StepReturns, Returns
<1>1. PICK st \in Verdicts :
        tx' = [SetStep(tx, cur, st) EXCEPT
                 !.cp = Succeeded(SetStep(tx, cur, st)),
                 !.trust[cur] = IF Credits(st) /\ @ < 2 THEN @ + 1 ELSE @]
  BY DEF StepReturns
<1>2. st \in StepStatus /\ st \notin {"pending", "ready", "failed", "timed_out"}
  BY Literals DEF Verdicts
<1> DEFINE done == SetStep(tx, cur, st)
<1>3. /\ done \in Row /\ done.trust = tx.trust /\ done.run = tx.run
      /\ done.step = [tx.step EXCEPT ![cur] = st]
  BY <1>2, SetStepRow DEF SetStep, Row
<1>4. tx' = [done EXCEPT !.cp = Succeeded(done),
               !.trust[cur] = IF Credits(st) /\ @ < 2 THEN @ + 1 ELSE @]
  BY <1>1
<1> HIDE DEF done
<1>5. tx.trust[cur] = 0
  <2>1. tx.trust[cur] \in 0 .. 2 /\ tx.trust[cur] <= 1 /\ tx.trust[cur] # 1
    BY DEF Row, Book, Earned
  <2> QED
    BY <2>1
<1>6. PICK n \in {0, 1} :
        /\ n = 1 => st = "completed"
        /\ tx' = [done EXCEPT !.cp = Succeeded(done), !.trust[cur] = n]
  <2> DEFINE n == IF Credits(st) THEN 1 ELSE 0
  <2>1. n = 1 => st = "completed"
    BY DEF Credits
  <2>2. tx' = [done EXCEPT !.cp = Succeeded(done), !.trust[cur] = n]
    BY <1>3, <1>4, <1>5 DEF Row
  <2> QED
    BY <2>1, <2>2
<1>7. /\ tx'.step = done.step /\ tx'.run = "running"
      /\ tx'.cp = Succeeded(done)
      /\ tx'.trust = [tx.trust EXCEPT ![cur] = n]
  BY <1>3, <1>6 DEF Row
<1>8. Agrees(tx')
  BY <1>7 DEF Agrees, Succeeded
<1>9. Earned(tx')
  BY <1>3, <1>6, <1>7 DEF Earned, Book, Row
<1> QED
  BY <1>7, <1>8, <1>9 DEF Book, Clean

\* The books with a primed row.
LEMMA BookPrime ==
  /\ \A row : row = tx' /\ Book(row) => Book(tx)'
  /\ \A row : row = db' /\ Book(row) => Book(db)'
BY DEF Book, Agrees, Earned, Clean, Succeeded

\* Every step keeps the books.
LEMMA BooksStep ==
  ASSUME Inv, Books, [Next]_vars
  PROVE  Books'
<1> /\ db \in Row /\ tx \in Row /\ db' \in Row /\ tx' \in Row
    /\ Book(db) /\ Book(tx) /\ (Driving => tx.run = "running")
  BY RowsStep DEF Inv, TypeOK, Books
<1> USE Literals
<1>rows. ASSUME Book(db'), Book(tx'), Driving' => tx'.run = "running"
         PROVE  Books'
  BY <1>rows, BookPrime DEF Books
<1>same. ASSUME UNCHANGED <<db, tx>>, Driving' => Driving PROVE Books'
  BY <1>same, <1>rows
<1>begin. ASSUME NEW row \in Row, row.step = db.step, row.cp = db.cp,
                 row.trust = db.trust, NEW e, Begin(row, e)
          PROVE  Books'
  <2>1. db' = db /\ tx' = SetRun(row, "running")
    BY <1>begin DEF Begin
  <2>2. /\ tx'.step = db.step /\ tx'.cp = db.cp /\ tx'.trust = db.trust
        /\ tx'.run = "running"
    BY <1>begin, <2>1 DEF SetRun, Row
  <2>3. Book(tx')
    BY <2>2, BookSame
  <2> QED
    BY <2>1, <2>2, <2>3, <1>rows
<1>store. ASSUME NEW row, Book(row), Store(row), Unlocked, pc' \in {"idle", pc}
          PROVE  Books'
  <2>1. ~Driving'
    BY <1>store DEF Unlocked, Driving
  <2> QED
    BY <1>store, <2>1, <1>rows DEF Store
<1>run. ASSUME NEW st \in RunStatus, st # "completed", Store(SetRun(db, st)),
               Unlocked, pc' = pc
        PROVE  Books'
  BY <1>run, <1>store, BookRun
<1>session. ASSUME NEW row, Book(row), tx' = row, db' = db,
                   Driving' => row.run = "running"
            PROVE  Books'
  BY <1>session, <1>rows
<1>step. ASSUME NEW s \in Steps, Driving, db' = db, tx.step[s] \in Open,
                tx'.step[s] \notin TerminalSuccess,
                \A t \in Steps \ {s} : tx'.step[t] = tx.step[t],
                tx'.cp = tx.cp, tx'.trust = tx.trust, tx'.run = tx.run
         PROVE  Books'
  <2>1. Book(tx')
    BY <1>step, BookStep
  <2> QED
    BY <1>step, <2>1, <1>rows
<1>1. CASE Scheduler
  <2>1. CASE TickExecute
    BY <2>1, <1>begin DEF TickExecute
  <2>2. CASE TickResume
    <3> DEFINE row == [db EXCEPT !.source = "background"]
    <3>1. row \in Row /\ row.step = db.step /\ row.cp = db.cp
          /\ row.trust = db.trust
      BY DEF Row
    <3>2. Begin(row, "resume")
      BY <2>2 DEF TickResume
    <3> HIDE DEF row
    <3> QED
      BY <3>1, <3>2, <1>begin
  <2>3. CASE ReapResume
    <3> DEFINE row == [db EXCEPT !.source = "background", !.retries = @ + 1]
    <3>0. db.retries + 1 \in 0 .. ReapMax + MaxRetries
      BY <2>3, EngineAssumption DEF Row, ReapResume
    <3>1. row \in Row
      BY <3>0 DEF Row
    <3>2. row.step = db.step /\ row.cp = db.cp /\ row.trust = db.trust
      BY DEF Row
    <3>3. Begin(row, "reap")
      BY <2>3 DEF ReapResume
    <3> HIDE DEF row
    <3> QED
      BY <3>1, <3>2, <3>3, <1>begin
  <2>4. CASE ReapExhausted
    BY <2>4, <1>run DEF ReapExhausted, Unlocked
  <2> QED
    BY <1>1, <2>1, <2>2, <2>3, <2>4 DEF Scheduler
<1>2. CASE Drive
  <2>1. CASE GetReadySteps
    <3>1. db' = db /\ tx' = Released(tx) /\ Driving
      BY <2>1 DEF GetReadySteps, Driving
    <3> QED
      BY <3>1, BookReleased, <1>rows
  <2>2. CASE NothingReady
    <3>1. db' = db /\ ~Driving' /\ tx.run = "running"
      BY <2>2 DEF NothingReady, Driving
    <3>2. ASSUME NEW st \in RunStatus, st # "completed", tx' = SetRun(tx, st)
          PROVE  Books'
      BY <3>1, <3>2, BookRun, <1>rows
    <3>3. ASSUME tx' = SetRun(tx, "completed"),
                 InStatus(tx, {"pending"}) = {},
                 InStatus(tx, {"failed", "timed_out"}) = {}
          PROVE  Books'
      <4>1. tx'.step = tx.step /\ tx'.cp = tx.cp /\ tx'.trust = tx.trust
        BY <3>3 DEF SetRun, Row
      <4>2. \A s \in Steps : tx.step[s] # "ready"
        BY <2>2, ReleasedRow DEF NothingReady, ReadySteps, InStatus
      <4>3. Clean(tx')
        BY <3>3, <4>1, <4>2 DEF Clean, InStatus
      <4>4. Book(tx')
        BY <4>1, <4>3, BookMinor DEF Minor
      <4> QED
        BY <3>1, <4>4, <1>rows
    <3>4. CASE tx' = tx
      BY <3>1, <3>4, <1>rows
    <3>5. CASE Finish
      BY <3>5, <3>2, <3>3 DEF Finish
    <3>6. CASE BlockedByFailure
      BY <3>6, <3>2 DEF BlockedByFailure
    <3>7. CASE BlockedOtherwise
      BY <3>7, <3>2, <3>4 DEF BlockedOtherwise
    <3> QED
      BY <2>2, <3>5, <3>6, <3>7 DEF NothingReady
  <2>3. ASSUME NEW s \in Steps, SettleUngated(s) PROVE Books'
    <3>1. PICK st \in {"skipped", "failed"} : tx' = SetStep(tx, s, st)
      BY <2>3 DEF SettleUngated
    <3>2. db' = db /\ Driving /\ tx.step[s] \in Open
      BY <2>3 DEF SettleUngated, Driving, Open
    <3>3. /\ tx'.step = [tx.step EXCEPT ![s] = st]
          /\ tx'.cp = tx.cp /\ tx'.trust = tx.trust /\ tx'.run = tx.run
      BY <3>1 DEF SetStep, Row
    <3>4. tx'.step[s] \notin TerminalSuccess
          /\ \A t \in Steps \ {s} : tx'.step[t] = tx.step[t]
      BY <3>3 DEF Row, TerminalSuccess
    <3> QED
      BY <3>2, <3>3, <3>4, <1>step
  <2>4. ASSUME NEW s \in Steps, PauseForApproval(s) PROVE Books'
    <3>1. db' = db /\ ~Driving' /\ tx.step[s] = "ready"
      BY <2>4 DEF PauseForApproval, Driving
    <3>2. /\ tx'.step = [tx.step EXCEPT ![s] = "waiting_approval"]
          /\ tx'.cp = tx.cp /\ tx'.trust = tx.trust
          /\ tx'.run = "awaiting_approval"
      BY <2>4 DEF PauseForApproval, Row, Book, Agrees
    <3>3. Book(tx')
      <4>1. /\ tx.step[s] \in Open /\ tx'.step[s] \notin TerminalSuccess
            /\ \A t \in Steps \ {s} : tx'.step[t] = tx.step[t]
        BY <3>1, <3>2 DEF Row, Open, TerminalSuccess
      <4> QED
        BY <3>2, <4>1, BookStep
    <3> QED
      BY <3>1, <3>3, <1>rows
  <2>5. ASSUME NEW s \in Steps, StartResumed(s) PROVE Books'
    BY <2>5, <1>same DEF StartResumed, Dispatch, Driving
  <2>6. ASSUME NEW s \in Steps,
               StartExempt(s) \/ StartCleared(s) \/ StartPrepared(s)
        PROVE  Books'
    <3>1. tx.step[s] \in Open /\ db' = db /\ Driving
      BY <2>6 DEF StartExempt, StartCleared, StartPrepared, Dispatch, Open,
                  Driving
    <3>a. PICK wanted \in SUBSET Steps :
            tx' = [tx EXCEPT !.step[s] = "running", !.asked = wanted]
      <4>1. CASE StartExempt(s)
        <5>1. tx.asked \in SUBSET Steps
          BY DEF Row
        <5>2. tx' = [tx EXCEPT !.step[s] = "running"]
          BY <4>1 DEF StartExempt, SetStep
        <5>3. tx' = [tx EXCEPT !.step[s] = "running", !.asked = tx.asked]
          BY <5>2 DEF Row
        <5> QED
          BY <5>1, <5>3
      <4>2. CASE StartCleared(s)
        BY <4>2 DEF StartCleared, Row
      <4>3. CASE StartPrepared(s)
        BY <4>3 DEF StartPrepared, Row
      <4> QED
        BY <2>6, <4>1, <4>2, <4>3
    <3>2. /\ tx'.step = [tx.step EXCEPT ![s] = "running"]
          /\ tx'.cp = tx.cp /\ tx'.trust = tx.trust /\ tx'.run = tx.run
      BY <3>a DEF Row
    <3>3. tx'.step[s] \notin TerminalSuccess
          /\ \A t \in Steps \ {s} : tx'.step[t] = tx.step[t]
      BY <3>2 DEF Row, TerminalSuccess
    <3> QED
      BY <3>1, <3>2, <3>3, <1>step
  <2>7. CASE StepReturns
    <3>1. Driving /\ db' = db
      BY <2>7 DEF StepReturns, Returns, Driving
    <3> QED
      BY <2>7, <3>1, BookReturns, <1>rows
  <2>8. CASE StepTimesOut
    <3>1. /\ cur \in Steps /\ tx.step[cur] \in Open /\ Driving /\ db' = db
          /\ tx' = SetStep(tx, cur, "timed_out")
      BY <2>8 DEF Inv, TypeOK, BatchOK, StepTimesOut, Returns, Open, Driving
    <3>2. /\ tx'.step = [tx.step EXCEPT ![cur] = "timed_out"]
          /\ tx'.cp = tx.cp /\ tx'.trust = tx.trust /\ tx'.run = tx.run
      BY <3>1 DEF SetStep, Row
    <3>3. tx'.step[cur] \notin TerminalSuccess
          /\ \A t \in Steps \ {cur} : tx'.step[t] = tx.step[t]
      BY <3>1, <3>2 DEF Row, TerminalSuccess
    <3> QED
      BY <3>1, <3>2, <3>3, <1>step
  <2>9. CASE StepFails
    <3>1. /\ cur \in Steps /\ tx.step[cur] \in Open /\ Driving /\ db' = db
      BY <2>9 DEF Inv, TypeOK, BatchOK, StepFails, Returns, Open, Driving
    <3>a. PICK st \in {"pending", "failed"} :
            tx' = [tx EXCEPT !.tries[cur] = tx.tries[cur] + 1, !.step[cur] = st]
      BY <2>9 DEF StepFails
    <3>2. /\ tx'.step = [tx.step EXCEPT ![cur] = st]
          /\ tx'.cp = tx.cp /\ tx'.trust = tx.trust /\ tx'.run = tx.run
      BY <3>a DEF Row
    <3>3. tx'.step[cur] \notin TerminalSuccess
          /\ \A t \in Steps \ {cur} : tx'.step[t] = tx.step[t]
      BY <3>1, <3>2 DEF Row, TerminalSuccess
    <3> QED
      BY <3>1, <3>2, <3>3, <1>step
  <2>10. CASE DeferForReauth
    <3>1. db' = db /\ ~Driving' /\ tx' = SetRun(tx, "awaiting_reauth")
      BY <2>10 DEF DeferForReauth, Driving
    <3> QED
      BY <3>1, BookRun, <1>rows
  <2>11. CASE Commit
    BY <2>11, <1>rows DEF Commit, Driving
  <2>12. CASE Bookkeep
    <3>1. PICK row \in {[db EXCEPT !.retries = Bump(db.retries),
                                   !.source = "approval_resume"],
                        [db EXCEPT !.retries = Bump(db.retries),
                                   !.run = "failed"],
                        [db EXCEPT !.retries = Bump(db.retries),
                                   !.run = "pending"]} : Store(row)
      BY <2>12 DEF Bookkeep
    <3>2. row \in Row
      BY <3>1 DEF Store
    <3>3. /\ row.step = db.step /\ row.cp = db.cp /\ row.trust = db.trust
          /\ row.run = db.run \/ row.run # "completed"
      BY <3>1 DEF Row
    <3>4. Book(row)
      BY <3>2, <3>3, BookSame
    <3>5. Unlocked /\ pc' = "idle"
      BY <2>12 DEF Bookkeep, Unlocked
    <3> QED
      BY <3>1, <3>4, <3>5, <1>store
  <2> QED
    BY <1>2, <2>1, <2>2, <2>3, <2>4, <2>5, <2>6, <2>7, <2>8, <2>9, <2>10,
       <2>11, <2>12 DEF Drive
<1>3. CASE Faults
  <2>1. CASE StepBlowsUp
    BY <2>1, <1>same DEF StepBlowsUp, Returns, Driving
  <2>2. CASE DagRaises
    <3>1. /\ db' = db /\ ~Driving'
          /\ tx' = SetRun(tx, "failed") \/ tx' = SetRun(db, "failed")
      BY <2>2 DEF DagRaises, Driving
    <3> QED
      BY <3>1, BookRun, <1>rows
  <2>3. CASE RunTimesOut
    <3>1. /\ db' = db /\ ~Driving'
          /\ tx' = SetRun(tx, "timed_out") \/ tx' = db
      BY <2>3 DEF RunTimesOut, Driving
    <3> QED
      BY <3>1, BookRun, <1>rows
  <2>4. CASE CommitFails \/ Crash
    BY <2>4, <1>rows DEF CommitFails, Crash, RollBack, Driving
  <2> QED
    BY <1>3, <2>1, <2>2, <2>3, <2>4 DEF Faults
<1>4. CASE Routes
  <2>1. ASSUME NEW s \in Steps, Approve(s) PROVE Books'
    BY <2>1, <1>same DEF Approve, Driving
  <2>2. ASSUME NEW s \in Steps, QueueResume(s) PROVE Books'
    <3> DEFINE st == IF db.step[s] = "waiting_approval" THEN "running"
                                                         ELSE db.step[s]
               row == [db EXCEPT !.step[s] = st, !.source = "approval_resume"]
    <3>1. Store(row) /\ Unlocked /\ pc' = pc
      BY <2>2 DEF QueueResume
    <3>2. row \in Row
      BY <3>1 DEF Store
    <3>3. /\ row.step = [db.step EXCEPT ![s] = st]
          /\ row.cp = db.cp /\ row.trust = db.trust /\ row.run = db.run
      BY DEF Row
    <3>4. Minor(db, row) /\ Clean(row)
      BY <3>3 DEF Minor, Row, TerminalSuccess, Book, Clean
    <3> HIDE DEF row
    <3> QED
      BY <3>1, <3>2, <3>4, BookMinor, <1>store
  <2>3. ASSUME NEW s \in Steps, QueueFails(s) PROVE Books'
    <3>1. CASE UNCHANGED <<db, tx>>
      BY <2>3, <3>1, <1>same DEF QueueFails, Driving
    <3>2. CASE Unlocked /\ Store(SetRun(db, "failed"))
      BY <2>3, <3>2, <1>run DEF QueueFails
    <3> QED
      BY <2>3, <3>1, <3>2 DEF QueueFails
  <2>4. ASSUME NEW s \in Steps, Reject(s) PROVE Books'
    <3> DEFINE marked == IF db.step[s] = "waiting_approval"
                           THEN SetStep(db, s, "cancelled") ELSE db
    <3>1. /\ pc' = pc
          /\ \/ Unlocked /\ Store(Cancelled(marked))
             \/ UNCHANGED <<db, tx>>
      BY <2>4 DEF Reject
    <3>2. ASSUME db.step[s] = "waiting_approval"
          PROVE  marked \in Row /\ Book(marked)
      <4>1. /\ marked \in Row /\ marked.cp = db.cp /\ marked.trust = db.trust
            /\ marked.run = db.run
            /\ marked.step = [db.step EXCEPT ![s] = "cancelled"]
        BY <3>2 DEF SetStep, Row
      <4> HIDE DEF marked
      <4>2. Minor(db, marked) /\ Clean(marked)
        BY <4>1, <3>2 DEF Minor, Row, TerminalSuccess, Book, Clean
      <4> QED
        BY <4>1, <4>2, BookMinor
    <3>3. marked \in Row /\ Book(marked)
      BY <3>2
    <3> HIDE DEF marked
    <3>4. CASE Unlocked /\ Store(Cancelled(marked))
      BY <3>1, <3>3, <3>4, BookCancelled, <1>store
    <3>5. CASE UNCHANGED <<db, tx>>
      BY <3>1, <3>5, <1>same DEF Driving
    <3> QED
      BY <3>1, <3>4, <3>5
  <2>5. ASSUME NEW route, RouteReads(route) \/ RouteGivesUp PROVE Books'
    BY <2>5, <1>same DEF RouteReads, RouteGivesUp, Driving
  <2>6. CASE CancelRoute
    BY <2>6, <1>store, BookCancelled DEF CancelRoute, RouteWrites
  <2>7. CASE ResumeRoute \/ RetryRoute
    <3>1. PICK row \in {[db EXCEPT !.source = "approval_resume"],
                        [db EXCEPT !.run = "pending",
                                   !.source = "approval_resume"]} : Store(row)
      BY <2>7 DEF ResumeRoute, RetryRoute, RouteWrites
    <3>2. row \in Row
      BY <3>1 DEF Store
    <3>3. /\ row.step = db.step /\ row.cp = db.cp /\ row.trust = db.trust
          /\ row.run = db.run \/ row.run # "completed"
      BY <3>1 DEF Row
    <3>4. Book(row)
      BY <3>2, <3>3, BookSame
    <3>5. Unlocked /\ pc' = pc
      BY <2>7 DEF ResumeRoute, RetryRoute, RouteWrites
    <3> QED
      BY <3>1, <3>4, <3>5, <1>store
  <2>8. CASE Requeue
    BY <2>8, <1>run DEF Requeue
  <2> QED
    BY <1>4, <2>1, <2>2, <2>3, <2>4, <2>5, <2>6, <2>7, <2>8 DEF Routes
<1>5. CASE Recover
  <2>1. Unlocked /\ pc' = pc /\ (Store(db) \/ Store(SetRun(db, "failed")))
    BY <1>5 DEF Recover
  <2> QED
    BY <2>1, <1>store, <1>run
<1>6. CASE HealthTick
  BY <1>6, <1>run DEF HealthTick
<1>7. CASE UNCHANGED vars
  BY <1>7, <1>same DEF vars, Driving
<1> QED
  BY <1>1, <1>2, <1>3, <1>4, <1>5, <1>6, <1>7 DEF Next

\* Initially there is nothing to record.
LEMMA BooksInit == Init => Books
BY DEF Init, Books, Book, Agrees, Earned, Clean, Succeeded, TerminalSuccess,
       Driving

\* The books are in order at all times.
LEMMA BooksKept == Spec => []Books
<1>1. Inv /\ Books /\ [Next]_vars => Books'
  BY BooksStep
<1> QED
  BY <1>1, BooksInit, Invariance, PTL DEF Spec

\* The committed checkpoint names exactly the steps that have succeeded,
\* whatever was cancelled, rolled back, retried or resumed: the comparison
\* _resume_run_body makes never sends a healthy run to the event log.
THEOREM CheckpointHolds == Spec => []CheckpointAgrees
<1>1. Books => CheckpointAgrees
  BY DEF Books, Book, Agrees, CheckpointAgrees
<1> QED
  BY <1>1, BooksKept, PTL

\* Trust is strengthened at most once for a step, and only by a confirmed
\* one, although the step may be executed again after a crash.
THEOREM TrustHolds == Spec => []TrustEarned
<1>1. Books => TrustEarned
  BY DEF Books, Book, Earned, TrustEarned
<1> QED
  BY <1>1, BooksKept, PTL

\* A run is "completed" only over steps that were all started and none of
\* which failed, and no later request changes that under it.
THEOREM CompletedHolds == Spec => []CompletedIsClean
<1>1. Books => CompletedIsClean
  BY DEF Books, Book, Clean, CompletedIsClean, InStatus
<1> QED
  BY <1>1, BooksKept, PTL
=============================================================================
