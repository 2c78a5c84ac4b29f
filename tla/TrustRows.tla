----------------------------- MODULE TrustRows -----------------------------
(* The trust rows of one capability, one for each risk level, and the        *)
(* database transactions that meet on them.                                  *)
(*                                                                           *)
(* get_or_create_trust_state selects FOR UPDATE: the session that evaluated  *)
(* a row, or inserted it, holds it until its transaction ends.  A drive of   *)
(* a run is one transaction (GraphExecutor commits at its end), so it holds  *)
(* every row its steps were gated by while they run, and an agent a step     *)
(* starts works in sessions of its own.  A session that found no row inserts *)
(* one; if another one inserted it meanwhile the unique key refuses.         *)
EXTENDS Graduation

CONSTANTS
  Keys,        \* the risk levels in play; each has its own row
  Drives,      \* sessions of GraphExecutor
  Present,     \* the drives somebody watches
  Rejecters,   \* requests that reject an approval of the capability
  Steps,       \* gated or approved steps of a drive, a bound
  Start,       \* the records the capability may begin with
  Choices,     \* ceilings the user may choose
  None, Free   \* no row; nobody

VARIABLES
  rows,      \* committed rows
  cool,      \* is cooldown_until ahead of the clock?
  ceiling,   \* TrustCeiling.max_level of the capability
  lock,      \* the session that holds the row, or its uncommitted insert
  pc, key,   \* control of the sessions, and the row they are about
  absent,    \* did the session's SELECT find no row?
  work,      \* rows as the open transactions see them
  credits,   \* approvals recorded in the open transaction
  left,      \* steps the drive may still take
  reset,     \* the rows reset_trust read: None before it, Free after it (one is enough)
  tally,     \* decisions committed since the last reset
  torn       \* rows a reset wrote over a change it had not read

vars == <<rows, cool, ceiling, lock, pc, key, absent, work, credits, left,
          reset, tally, torn>>
session == <<pc, key, absent, work, credits, left>>

Sessions == Drives \cup Rejecters
Rows == Row \cup {None}

ASSUME TrustRowsAssumption ==
  /\ Keys \subseteq RiskLevels
  /\ Present \subseteq Drives
  /\ Drives \cap Rejecters = {}
  /\ Free \notin Sessions
  /\ None \notin Row
  /\ Steps \in Nat
  /\ Choices \subseteq Ceilings
  /\ \A s \in Start : /\ s \in [Keys -> Rows]
                      /\ \A k \in Keys : s[k] # None => Earned(s[k])

TypeOK ==
  /\ rows \in [Keys -> Rows]
  /\ cool \in [Keys -> BOOLEAN]
  /\ ceiling \in Ceilings
  /\ lock \in [Keys -> Sessions \cup {Free}]
  /\ pc \in [Sessions -> {"ready", "gate", "credit", "run", "prepare", "inner",
                          "reject", "hold", "done"}]
  /\ key \in [Sessions -> Keys \cup {None}]
  /\ absent \in [Sessions -> BOOLEAN]
  /\ work \in [Sessions -> [Keys -> Row]]
  /\ credits \in [Sessions -> [Keys -> Nat]]
  /\ left \in [Drives -> 0 .. Steps]
  /\ reset \in [Keys -> Rows \X BOOLEAN] \cup {None, Free}
  /\ tally \in [Keys -> [a : Nat, r : Nat]]
  /\ torn \subseteq Keys

NoWork == [k \in Keys |-> FirstUse]
NoCredits == [k \in Keys |-> 0]

Count(row) == IF row = None THEN [a |-> 0, r |-> 0] ELSE [a |-> row.a, r |-> row.r]

Init ==
  /\ rows \in Start
  /\ cool = [k \in Keys |-> FALSE]
  /\ ceiling = "autonomous"            \* _DefaultCeiling
  /\ lock = [k \in Keys |-> Free]
  /\ pc = [x \in Sessions |-> "ready"]
  /\ key = [x \in Sessions |-> None]
  /\ absent = [x \in Sessions |-> FALSE]
  /\ work = [x \in Sessions |-> NoWork]
  /\ credits = [x \in Sessions |-> NoCredits]
  /\ left = [d \in Drives |-> Steps]
  /\ reset = None
  /\ tally = [k \in Keys |-> Count(rows[k])]
  /\ torn = {}
----------------------------------------------------------------------------
(* get_or_create_trust_state, in two steps.                                  *)

\* The SELECT is sent; with a row there, it waits for the lock.
Select(x, k, to) ==
  /\ pc' = [pc EXCEPT ![x] = to]
  /\ key' = [key EXCEPT ![x] = k]
  /\ absent' = [absent EXCEPT ![x] = rows[k] = None /\ lock[k] # x]

\* The INSERT meets a row committed since the SELECT: IntegrityError.
Conflict(x) == absent[x] /\ lock[key[x]] = Free /\ rows[key[x]] # None

\* The row as the transaction of x sees it.
View(x, k) == IF lock[k] = x THEN work[x][k]
              ELSE IF rows[k] = None THEN FirstUse ELSE rows[k]

\* Faulty: the SELECT does not lock the row it reads.
TakeUnlocked(x, row) ==
  /\ ~Conflict(x)
  /\ lock' = [lock EXCEPT ![key[x]] = x]
  /\ work' = [work EXCEPT ![x][key[x]] = row]

\* The row is x's own, or free; x leaves `row' in its transaction.
Take(x, row) ==
  /\ lock[key[x]] \in {Free, x}
  /\ ~Conflict(x)
  /\ lock' = [lock EXCEPT ![key[x]] = x]
  /\ work' = [work EXCEPT ![x][key[x]] = row]

\* x is about no row any more.
Ready(x) ==
  /\ pc' = [pc EXCEPT ![x] = "ready"]
  /\ key' = [key EXCEPT ![x] = None]
  /\ absent' = [absent EXCEPT ![x] = FALSE]

\* The transaction of x ends, and the session with it.
End(x) ==
  /\ pc' = [pc EXCEPT ![x] = "done"]
  /\ lock' = [k \in Keys |-> IF lock[k] = x THEN Free ELSE lock[k]]
  /\ key' = [key EXCEPT ![x] = None]
  /\ absent' = [absent EXCEPT ![x] = FALSE]
  /\ work' = [work EXCEPT ![x] = NoWork]
  /\ credits' = [credits EXCEPT ![x] = NoCredits]

Rollback(x) ==
  /\ End(x)
  /\ UNCHANGED <<rows, cool, ceiling, left, reset, tally, torn>>

\* x goes on without the row.
GoOn(x) ==
  /\ Ready(x)
  /\ UNCHANGED <<rows, cool, ceiling, lock, work, credits, left, reset, tally,
                 torn>>
----------------------------------------------------------------------------
(* A drive.                                                                  *)

\* The next ready step asks the gate; assess_step_risk picks the row.
NextStep(d) ==
  /\ pc[d] = "ready" /\ left[d] > 0
  /\ left' = [left EXCEPT ![d] = @ - 1]
  /\ \E k \in Keys : Select(d, k, "gate")
  /\ UNCHANGED <<rows, cool, ceiling, lock, work, credits, reset, tally, torn>>

\* TrustEngine.evaluate and what execute_step makes of it: run; pause with
\* an approval when somebody is present; otherwise run without the
\* capability being approved, so that the call itself is staged.
Gate(d) ==
  /\ pc[d] = "gate"
  /\ Take(d, View(d, key[d]))
  /\ IF Evaluate(View(d, key[d]), ceiling, key[d])
       THEN pc' = [pc EXCEPT ![d] = "run"] /\ UNCHANGED <<key, absent>>
       ELSE IF d \in Present THEN Ready(d)
       ELSE pc' = [pc EXCEPT ![d] = "prepare"] /\ UNCHANGED <<key, absent>>
  /\ UNCHANGED <<rows, cool, ceiling, credits, left, reset, tally, torn>>

\* evaluate raises: execute_run finds the session unusable and rolls back.
GateFails(d) == pc[d] = "gate" /\ Conflict(d) /\ Rollback(d)

\* record_approval_decision(..., "approved") in the drive's transaction.
RecordApproval(d) ==
  /\ Take(d, Approve(View(d, key[d]), cool[key[d]]))
  /\ credits' = [credits EXCEPT ![d][key[d]] = @ + 1]
  /\ Ready(d)
  /\ UNCHANGED <<rows, cool, ceiling, left, reset, tally, torn>>

\* The step ran without a human and its read-back confirmed it.
RanConfirmed(d) == pc[d] = "run" /\ RecordApproval(d)

\* It failed, timed out, or could not be confirmed.
RanOtherwise(d) == pc[d] = "run" /\ GoOn(d)

\* A step somebody had approved was resumed and confirmed.
ResumeApproved(d) ==
  /\ pc[d] = "ready" /\ left[d] > 0
  /\ left' = [left EXCEPT ![d] = @ - 1]
  /\ \E k \in Keys : Select(d, k, "credit")
  /\ UNCHANGED <<rows, cool, ceiling, lock, work, credits, reset, tally, torn>>

Credit(d) == pc[d] = "credit" /\ RecordApproval(d)

\* The savepoint around the record is rolled back; the drive goes on.
CreditFails(d) == pc[d] = "credit" /\ Conflict(d) /\ GoOn(d)

\* The agent of the step makes its call, whose arguments are assessed anew,
\* or ends without one.
Call(d) ==
  /\ pc[d] = "prepare"
  /\ \E k \in Keys : Select(d, k, "inner")
  /\ UNCHANGED <<rows, cool, ceiling, lock, work, credits, left, reset, tally, torn>>
NoCall(d) == pc[d] = "prepare" /\ GoOn(d)

\* _decide_and_maybe_persist in a session of its own: the call is staged and
\* a first-use row with it, or it is let through and the session closed.
\* This session is not the drive's: a row the drive holds is not free.
InnerGate(d) ==
  LET row == View(d, key[d])
  IN  /\ pc[d] = "inner"
      /\ lock[key[d]] = Free /\ ~Conflict(d)
      /\ \E irreversible \in BOOLEAN :
           rows' = IF Evaluate(row, ceiling, key[d]) /\ ~irreversible
                     THEN rows ELSE [rows EXCEPT ![key[d]] = row]
      /\ Ready(d)
      /\ UNCHANGED <<cool, ceiling, lock, work, credits, left, reset, tally, torn>>

\* The gate raises, and the step fails.
InnerFails(d) == pc[d] = "inner" /\ Conflict(d) /\ GoOn(d)

\* Faulty: the budget of the step does not reach the gate of its agent.
StepTimeoutOuter(d) ==
  pc[d] = "inner" /\ lock[key[d]] # d /\ GoOn(d)

\* asyncio.wait_for ends the step, and the waiting session with it.
StepTimeout(d) == pc[d] = "inner" /\ GoOn(d)

\* The drive ends: everything it recorded is committed at once.
Finish(d) ==
  /\ rows' = [k \in Keys |-> IF lock[k] = d THEN work[d][k] ELSE rows[k]]
  /\ tally' = [k \in Keys |-> [tally[k] EXCEPT !.a = @ + credits[d][k]]]
  /\ End(d)
  /\ UNCHANGED <<cool, ceiling, left, reset, torn>>

Commit(d) == pc[d] = "ready" /\ Finish(d)

\* The budget of the run, if it has one, ends while a step is at work.
RunTimeout(d) == pc[d] \in {"run", "prepare", "inner"} /\ Finish(d)

\* The process dies, or the budget of the scheduler's tick ends the drive.
Crash(d) == pc[d] # "done" /\ Rollback(d)
----------------------------------------------------------------------------
(* reject_action.                                                            *)

AskReject(c) ==
  /\ pc[c] = "ready"
  /\ \E k \in Keys : Select(c, k, "reject")
  /\ UNCHANGED <<rows, cool, ceiling, lock, work, credits, left, reset, tally, torn>>

TakeReject(c) ==
  /\ pc[c] = "reject"
  /\ Take(c, View(c, key[c]))
  /\ pc' = [pc EXCEPT ![c] = "hold"]
  /\ UNCHANGED <<rows, cool, ceiling, key, absent, credits, left, reset, tally, torn>>

CommitReject(c) ==
  LET k == key[c] IN
  /\ pc[c] = "hold"
  /\ rows' = [rows EXCEPT ![k] = Reject(work[c][k], cool[k])]
  /\ cool' = [cool EXCEPT ![k] = RejectionCools(work[c][k], @)]
  /\ tally' = [tally EXCEPT ![k].r = @ + 1]
  /\ End(c)
  /\ UNCHANGED <<ceiling, left, reset, torn>>

\* The failed flush is caught, but not undone: the commit of the whole
\* request raises, and the rejection itself is lost.
RejectFails(c) == pc[c] = "reject" /\ Conflict(c) /\ Rollback(c)

\* A session waits for a row of another one until PostgreSQL ends the wait:
\* it finds a deadlock, or statement_timeout passes.
WaitFails(x) ==
  /\ pc[x] \in {"gate", "credit", "reject"}
  /\ lock[key[x]] \notin {Free, x}
  /\ IF pc[x] = "credit" THEN GoOn(x) ELSE Rollback(x)
----------------------------------------------------------------------------
(* The user's settings, and time.                                            *)

\* set_ceiling, one statement; set_ceilings_batch by a policy mode.
SetCeiling ==
  /\ \E l \in Choices : ceiling' = l
  /\ UNCHANGED <<rows, cool, lock, session, reset, tally, torn>>

\* reset_trust_for_capability reads the rows without locking them ...
ResetRead ==
  /\ reset = None
  /\ reset' = [k \in Keys |-> <<rows[k], cool[k]>>]
  /\ UNCHANGED <<rows, cool, ceiling, lock, session, tally, torn>>

\* ... and writes, once nobody holds them, the columns that were not at
\* their first value when they were read.
ResetRow(was, row) ==
  [a     |-> IF was.a # 0 THEN 0 ELSE row.a,
   r     |-> IF was.r # 0 THEN 0 ELSE row.r,
   level |-> IF was.level # "first_use" THEN "first_use" ELSE row.level]

ResetWrite ==
  LET seen == {k \in Keys : reset[k][1] # None}
  IN  /\ reset \notin {None, Free}
      /\ \A k \in seen : lock[k] = Free
      /\ rows' = [k \in Keys |-> IF k \in seen THEN ResetRow(reset[k][1], rows[k])
                                 ELSE rows[k]]
      /\ cool' = [k \in Keys |-> cool[k] /\ ~(k \in seen /\ reset[k][2])]
      /\ tally' = [k \in Keys |-> IF k \in seen THEN Count(FirstUse) ELSE tally[k]]
      /\ torn' = torn \cup {k \in seen : rows[k] # reset[k][1]}
      /\ reset' = Free
      /\ UNCHANGED <<ceiling, lock, session>>

CooldownEnds ==
  /\ \E k \in Keys : cool[k] /\ cool' = [cool EXCEPT ![k] = FALSE]
  /\ UNCHANGED <<rows, ceiling, lock, session, reset, tally, torn>>
----------------------------------------------------------------------------
Drive(d) ==
  \/ NextStep(d) \/ Gate(d) \/ GateFails(d) \/ RanConfirmed(d) \/ RanOtherwise(d)
  \/ ResumeApproved(d) \/ Credit(d) \/ CreditFails(d) \/ Call(d) \/ NoCall(d)
  \/ InnerGate(d) \/ InnerFails(d) \/ StepTimeout(d) \/ Commit(d)

Rejection(c) == AskReject(c) \/ TakeReject(c) \/ CommitReject(c) \/ RejectFails(c)

Next ==
  \/ \E d \in Drives : Drive(d) \/ RunTimeout(d) \/ Crash(d)
  \/ \E c \in Rejecters : Rejection(c)
  \/ \E x \in Sessions : WaitFails(x)
  \/ SetCeiling \/ ResetRead \/ ResetWrite \/ CooldownEnds

Spec == Init /\ [][Next]_vars

\* A drive and a request go on, a step's budget passes, and PostgreSQL ends
\* waits; a run need not have a budget, nothing makes the user decide, and
\* nothing depends on when a cooldown ends.
FairSpec ==
  /\ Spec
  /\ \A d \in Drives : WF_vars(Drive(d))
  /\ \A c \in Rejecters : WF_vars(Rejection(c))
  /\ \A x \in Sessions : WF_vars(WaitFails(x))
----------------------------------------------------------------------------
\* A trust level always rests on the record that earns it: no interleaving of
\* drives, rejections and cooldowns leaves a capability with autonomy its
\* counters do not justify.  Excepted are rows a reset wrote over a change it
\* had not read (reset_trust_for_capability does not lock them).
LevelEarned ==
  /\ TypeOK
  /\ \A k \in Keys : rows[k] # None /\ k \notin torn => Earned(rows[k])

\* Every decision that was committed is counted, once: none is lost between
\* the read and the write of another session, and none counted that was
\* rolled back.
CountsKept ==
  \A k \in Keys : k \notin torn => Count(rows[k]) = tally[k]

\* Nobody waits for ever for a row: not two drives that hold each other's,
\* and not a drive whose own agent waits for a row the drive holds.
EveryoneFinishes == \A x \in Sessions : pc[x] # "ready" ~> pc[x] = "done"
=============================================================================
