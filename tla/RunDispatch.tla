----------------------------- MODULE RunDispatch -----------------------------
(***************************************************************************)
(* How the background tick (scheduler/background_tasks_tick.py) hands runs *)
(* to drivers.  A tick claims up to Limit pending runs with one SELECT ... *)
(* FOR UPDATE SKIP LOCKED, then drives them one after the other in the     *)
(* same session.  Three facts of that session decide what can happen:      *)
(*   - each driven run commits, and a commit releases every row lock of    *)
(*     the claim, also those of the runs not driven yet;                   *)
(*   - sessions are built with expire_on_commit=False, so the runs of the  *)
(*     claim keep the status they were loaded with;                        *)
(*   - a rollback expires every instance of the session, and reading an    *)
(*     expired attribute raises: the loop's next "run.run_id" ends the     *)
(*     tick before its commit.                                             *)
(* What a drive does inside the run is RunEngine's subject: here it is the *)
(* execution of the run's remaining work.  The run lease is OwnerLock's:   *)
(* here it is taken and given back atomically.                             *)
(***************************************************************************)
EXTENDS Naturals, FiniteSets

CONSTANTS
  Schedulers,  \* scheduler processes
  Runs,        \* background runs, numbered by created_at
  Limit,       \* .limit(3)
  MaxRetries,  \* run.max_retries
  Poison,      \* runs whose drive always raises (their plan is gone, say)
  MaxFaults    \* bound on crashes and on drives that raise by accident

ASSUME DispatchAssumption ==
  /\ Runs \subseteq Nat /\ IsFiniteSet(Runs)
  /\ Limit \in Nat \ {0} /\ MaxRetries \in Nat \ {0} /\ MaxFaults \in Nat
  /\ Poison \subseteq Runs
  /\ "none" \notin Schedulers

VARIABLES
  status,   \* [Runs -> committed status]
  work,     \* [Runs -> committed state of the run's steps]
  retries,  \* [Runs -> committed retry_count]
  ran,      \* history: [Runs -> how often the work was committed as executed]
  lock,     \* [Runs -> holder of the row lock or "none"]
  lease,    \* [Runs -> holder of the run lease or "none"]
  pc,       \* [Schedulers -> {"idle", "loop", "drive"}]
  todo,     \* [Schedulers -> runs of the claim not reached yet]
  at,       \* [Schedulers -> run being driven, 0 before the first]
  sees,     \* [Schedulers -> state of that run's steps as loaded]
  note,     \* [Schedulers -> retry bookkeeping not committed yet]
  expired,  \* [Schedulers -> the session's instances are expired]
  faults

vars == <<status, work, retries, ran, lock, lease, pc, todo, at, sees, note,
          expired, faults>>
rows == <<status, work, retries, ran>>

None == [run |-> 0, status |-> "none"]

TypeOK ==
  /\ status \in [Runs -> {"pending", "completed", "failed", "cancelled"}]
  /\ work \in [Runs -> {"todo", "done", "skipped"}]
  /\ retries \in [Runs -> 0 .. MaxRetries]
  /\ ran \in [Runs -> Nat]
  /\ lock \in [Runs -> Schedulers \cup {"none"}]
  /\ lease \in [Runs -> Schedulers \cup {"none"}]
  /\ pc \in [Schedulers -> {"idle", "loop", "drive"}]
  /\ todo \in [Schedulers -> SUBSET Runs]
  /\ at \in [Schedulers -> Runs \cup {0}]
  /\ sees \in [Schedulers -> {"todo", "done", "skipped"}]
  /\ note \in [Schedulers ->
                [run : Runs \cup {0},
                 status : {"none", "pending", "completed", "failed", "cancelled"}]]
  /\ expired \in [Schedulers -> BOOLEAN]
  /\ faults \in 0 .. MaxFaults

Init ==
  /\ status = [r \in Runs |-> "pending"]
  /\ work = [r \in Runs |-> "todo"]
  /\ retries = [r \in Runs |-> 0]
  /\ ran = [r \in Runs |-> 0]
  /\ lock = [r \in Runs |-> "none"]
  /\ lease = [r \in Runs |-> "none"]
  /\ pc = [p \in Schedulers |-> "idle"]
  /\ todo = [p \in Schedulers |-> {}]
  /\ at = [p \in Schedulers |-> 0]
  /\ sees = [p \in Schedulers |-> "todo"]
  /\ note = [p \in Schedulers |-> None]
  /\ expired = [p \in Schedulers |-> FALSE]
  /\ faults = 0

----------------------------------------------------------------------------
\* A transaction ends: all its row locks are released.
Released(held, p) == [r \in Runs |-> IF held[r] = p THEN "none" ELSE held[r]]

\* The oldest Limit of a set of runs.
Oldest(S) == {r \in S : Cardinality({q \in S : q < r}) < Limit}

Claim(p) ==
  /\ pc[p] = "idle"
  /\ LET free == {r \in Runs : status[r] = "pending" /\ lock[r] = "none"} IN
     /\ free # {}
     /\ lock' = [r \in Runs |-> IF r \in Oldest(free) THEN p ELSE lock[r]]
     /\ todo' = [todo EXCEPT ![p] = Oldest(free)]
  /\ pc' = [pc EXCEPT ![p] = "loop"]
  /\ expired' = [expired EXCEPT ![p] = FALSE]
  /\ UNCHANGED <<rows, lease, at, sees, note, faults>>

\* The run the loop turns to next.
NextRun(p, r) == r \in todo[p] /\ \A q \in todo[p] : r <= q

\* After a rollback in this tick, reading the next run raises out of the
\* loop: nothing more is driven and nothing is committed.
TickAborts(p) ==
  /\ pc[p] = "loop" /\ expired[p] /\ todo[p] # {}
  /\ pc' = [pc EXCEPT ![p] = "idle"]
  /\ todo' = [todo EXCEPT ![p] = {}]
  /\ note' = [note EXCEPT ![p] = None]
  /\ lock' = Released(lock, p)
  /\ UNCHANGED <<rows, lease, at, sees, expired, faults>>

\* The lease is held by another worker: back off.
BackOff(p, r) ==
  /\ pc[p] = "loop" /\ ~expired[p] /\ NextRun(p, r)
  /\ lease[r] # "none"
  /\ todo' = [todo EXCEPT ![p] = @ \ {r}]
  /\ UNCHANGED <<rows, lock, lease, pc, at, sees, note, expired, faults>>

\* Faulty: neither the lease nor the row lock is asked for.
MayDriveAlways(p, r) == TRUE

MayDrive(p, r) == lease[r] = "none" /\ lock[r] \in {p, "none"}

\* Faulty: the steps, too, are taken as they were when the run was claimed.
StartDriveStale(p, r) ==
  /\ pc[p] = "loop" /\ ~expired[p] /\ NextRun(p, r)
  /\ MayDrive(p, r)
  /\ lease' = [lease EXCEPT ![r] = p]
  /\ lock' = [lock EXCEPT ![r] = p]
  /\ at' = [at EXCEPT ![p] = r]
  /\ sees' = [sees EXCEPT ![p] = "todo"]
  /\ todo' = [todo EXCEPT ![p] = @ \ {r}]
  /\ pc' = [pc EXCEPT ![p] = "drive"]
  /\ UNCHANGED <<rows, note, expired, faults>>

\* execute_run.  The status is the one loaded by Claim, so the transition to
\* "running" succeeds whatever is committed by now; its flush locks the row.
\* The steps are read here for the first time.
StartDrive(p, r) ==
  /\ pc[p] = "loop" /\ ~expired[p] /\ NextRun(p, r)
  /\ MayDrive(p, r)
  /\ lease' = [lease EXCEPT ![r] = p]
  /\ lock' = [lock EXCEPT ![r] = p]
  /\ at' = [at EXCEPT ![p] = r]
  /\ sees' = [sees EXCEPT ![p] = work[r]]
  /\ todo' = [todo EXCEPT ![p] = @ \ {r}]
  /\ pc' = [pc EXCEPT ![p] = "drive"]
  /\ UNCHANGED <<rows, note, expired, faults>>

LeaveDrive(p) ==
  /\ pc' = [pc EXCEPT ![p] = "loop"]
  /\ lock' = Released(lock, p)
  /\ lease' = [lease EXCEPT ![at[p]] = "none"]
  /\ UNCHANGED <<todo, at, sees>>

\* The drive executes what is left of the work and commits.
DriveCommits(p) ==
  /\ pc[p] = "drive" /\ at[p] \notin Poison
  /\ status' = [status EXCEPT ![at[p]] = "completed"]
  /\ work' = [work EXCEPT ![at[p]] = IF sees[p] = "todo" THEN "done" ELSE @]
  /\ ran' = [ran EXCEPT ![at[p]] = IF sees[p] = "todo" THEN @ + 1 ELSE @]
  /\ LeaveDrive(p)
  /\ UNCHANGED <<retries, note, expired, faults>>

\* The drive raises: rollback, re-fetch, bookkeeping in memory.
DriveRaises(p) ==
  /\ pc[p] = "drive"
  /\ \/ at[p] \in Poison /\ UNCHANGED faults
     \/ at[p] \notin Poison /\ faults < MaxFaults /\ faults' = faults + 1
  /\ note' = [note EXCEPT ![p] = [run |-> at[p], status |-> status[at[p]]]]
  /\ expired' = [expired EXCEPT ![p] = TRUE]
  /\ LeaveDrive(p)
  /\ UNCHANGED rows

\* Faulty: the tick returns without ending its transaction.
EndTickKeepsLocks(p) ==
  /\ pc[p] = "loop" /\ todo[p] = {} /\ note[p] = None
  /\ pc' = [pc EXCEPT ![p] = "idle"]
  /\ UNCHANGED <<rows, lock, lease, todo, at, sees, note, expired, faults>>

\* The commit at the end of the tick: the bookkeeping of a run that raised
\* (retry, or give up), and the locks of runs that were not driven.  Only
\* columns that changed are written: a run re-fetched as "pending" and to be
\* retried keeps its committed status.
EndTick(p) ==
  /\ pc[p] = "loop" /\ todo[p] = {}
  /\ \/ note[p] = None /\ UNCHANGED rows
     \/ LET r == note[p].run
            n == IF retries[r] < MaxRetries THEN retries[r] + 1 ELSE MaxRetries
        IN
        /\ note[p] # None
        /\ lock[r] \in {p, "none"}
        /\ retries' = [retries EXCEPT ![r] = n]
        /\ status' = [status EXCEPT ![r] =
             IF n >= MaxRetries THEN "failed"
             ELSE IF note[p].status = "pending" THEN @ ELSE "pending"]
        /\ UNCHANGED <<work, ran>>
  /\ note' = [note EXCEPT ![p] = None]
  /\ lock' = Released(lock, p)
  /\ pc' = [pc EXCEPT ![p] = "idle"]
  /\ UNCHANGED <<lease, todo, at, sees, expired, faults>>

\* The cancel route on a run nobody has locked.
Cancel(r) ==
  /\ status[r] = "pending" /\ lock[r] = "none"
  /\ status' = [status EXCEPT ![r] = "cancelled"]
  /\ work' = [work EXCEPT ![r] = IF @ = "todo" THEN "skipped" ELSE @]
  /\ UNCHANGED <<retries, ran, lock, lease, pc, todo, at, sees, note, expired,
                 faults>>

\* The process dies, or the sub-tick budget ends the tick: the transaction
\* is rolled back; the lease goes with its context manager or its TTL.
Crash(p) ==
  /\ pc[p] # "idle" /\ faults < MaxFaults
  /\ faults' = faults + 1
  /\ pc' = [pc EXCEPT ![p] = "idle"]
  /\ todo' = [todo EXCEPT ![p] = {}]
  /\ note' = [note EXCEPT ![p] = None]
  /\ lock' = Released(lock, p)
  /\ lease' = Released(lease, p)
  /\ UNCHANGED <<rows, at, sees, expired>>

Tick(p) ==
  \/ Claim(p) \/ TickAborts(p)
  \/ \E r \in Runs : BackOff(p, r) \/ StartDrive(p, r)
  \/ DriveCommits(p) \/ DriveRaises(p) \/ EndTick(p)

Next ==
  \/ \E p \in Schedulers : Tick(p) \/ Crash(p)
  \/ \E r \in Runs : Cancel(r)

Spec == Init /\ [][Next]_vars

\* Every scheduler process keeps ticking.
FairSpec == Spec /\ \A p \in Schedulers : WF_vars(Tick(p))

----------------------------------------------------------------------------
(* Properties.                                                             *)

\* At most one scheduler drives a run at a time (execute_run's lease gate
\* and the claim's row lock), and the state is well typed.
OneDriver ==
  TypeOK /\ \A p, q \in Schedulers :
    pc[p] = "drive" /\ pc[q] = "drive" /\ at[p] = at[q] => p = q

\* A run driven again, from a stale claim or after a retry, does not repeat
\* work that is committed, nor do work that was skipped by a cancellation.
WorkOnce ==
  \A r \in Runs : /\ ran[r] <= 1
                  /\ work[r] = "skipped" => ran[r] = 0

\* Every pending run is eventually driven to an end or cancelled.
EveryRunEnds == \A r \in Runs : status[r] = "pending" ~> status[r] # "pending"
=============================================================================
