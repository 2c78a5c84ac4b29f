------------------------- MODULE IdempotencyLedger -------------------------
(***************************************************************************)
(* The idempotency ledger and the write call it guards.                    *)
(*                                                                         *)
(* services/idempotency/wrapper.py turns one external write into           *)
(*    reserve(identity_key) -> call the tool -> record the outcome         *)
(* where the three parts are separate transactions, so that two drivers of *)
(* one step (an expired run lease, a double confirm) interleave inside it  *)
(* and a process may die, or be cancelled by the step timeout, between any *)
(* two of them.  The tool call is the session pool's: it retries transient *)
(* transport errors by itself and turns what is left into an envelope,     *)
(* whose SHAPE decides what the wrapper records.                           *)
(*                                                                         *)
(* A key stands for the pair (workspace_id, identity_key) of the unique    *)
(* index; a caller is one execution of the wrapped execute_tool_fn.        *)
(***************************************************************************)
EXTENDS Naturals

CONSTANTS
  Callers,      \* concurrent executions of _idempotent_execute
  Keys,         \* identity keys of logical writes
  MaxRetries,   \* call_tool's max_retries: attempts of one dispatched call
  MaxEffects,   \* bound: external effects counted per key
  Ambiguous     \* keys of tools whose errors may hide an effect that happened

ASSUME LedgerAssumption ==
  /\ MaxRetries \in Nat \ {0}
  /\ MaxEffects \in Nat \ {0}
  /\ Ambiguous \subseteq Keys

VARIABLES
  row,       \* [Keys -> status of the ledger row, "absent" before the INSERT]
  stored,    \* [Keys -> shape of row.result_json]
  pc,        \* [Callers -> where the caller is]
  target,    \* [Callers -> the key it writes]
  attempt,   \* [Callers -> attempts of call_tool's loop already made]
  shape,     \* [Callers -> shape of the tool result it holds]
  effects    \* [Keys -> how often the external effect really happened]

callerVars == <<pc, target, attempt, shape>>
vars == <<row, stored, callerVars, effects>>

----------------------------------------------------------------------------
\* The values of IdempotencyLedgerEntry.status.
RowStatus == {"absent", "in_flight", "completed", "failed"}

(***************************************************************************)
(* What the dispatcher hands back.  "ok" is a success body; "error_key" a  *)
(* body with a truthy "error" (dispatcher exception, validation refusal,   *)
(* auth_required); "status_error" the make_error_response / circuit_open   *)
(* envelope, which carries "status", "error_code" and "message" only.      *)
(***************************************************************************)
Shapes == {"ok", "error_key", "status_error"}

\* Faulty: the test is inverted.
IsErrInverted(s) == s # "error_key"

\* _idempotent_execute and execute_prepared_action:
\*   result.get("error") or result.get("is_error")
IsErr(s) == s = "error_key"

Stages == {"idle", "reserve", "resolve", "reopen", "fire", "record"}

\* The caller owns the reservation of its key: reserve() told it to fire.
Holding(c) == pc[c] \in {"fire", "record"}

TypeOK ==
  /\ row \in [Keys -> RowStatus]
  /\ stored \in [Keys -> Shapes \cup {"none"}]
  /\ pc \in [Callers -> Stages]
  /\ target \in [Callers -> Keys]
  /\ attempt \in [Callers -> 0 .. MaxRetries - 1]
  /\ shape \in [Callers -> Shapes]
  /\ effects \in [Keys -> 0 .. MaxEffects]

Init ==
  /\ row = [k \in Keys |-> "absent"]
  /\ stored = [k \in Keys |-> "none"]
  /\ pc = [c \in Callers |-> "idle"]
  /\ target \in [Callers -> Keys]
  /\ attempt = [c \in Callers |-> 0]
  /\ shape = [c \in Callers |-> "ok"]
  /\ effects = [k \in Keys |-> 0]

----------------------------------------------------------------------------
Goto(c, stage) == pc' = [pc EXCEPT ![c] = stage]

\* A write capability enters the wrapper and derives its key.
Call(c, k) ==
  /\ pc[c] = "idle"
  /\ Goto(c, "reserve")
  /\ target' = [target EXCEPT ![c] = k]
  /\ UNCHANGED <<row, stored, attempt, shape, effects>>

\* INSERT ... COMMIT under the unique index: the first caller creates the row
\* and may fire, every other one gets IntegrityError and rolls back.
ReserveInsert(c) ==
  LET k == target[c] IN
  /\ pc[c] = "reserve"
  /\ IF row[k] = "absent"
       THEN /\ row' = [row EXCEPT ![k] = "in_flight"]
            /\ Goto(c, "fire")
       ELSE /\ Goto(c, "resolve")
            /\ UNCHANGED row
  /\ UNCHANGED <<stored, target, attempt, shape, effects>>

\* Faulty: an in_flight row is reopened like a failed one.
ResolveReopensInFlight(c) ==
  LET k == target[c] IN
  /\ pc[c] = "resolve"
  /\ Goto(c, IF row[k] = "completed" THEN "idle"
             ELSE IF row[k] = "failed" THEN "reopen" ELSE "fire")
  /\ UNCHANGED <<row, stored, target, attempt, shape, effects>>

\* Faulty: the caller waits for a holder instead of answering a conflict.
ResolveWaits(c) ==
  LET k == target[c] IN
  /\ pc[c] = "resolve"
  /\ row[k] # "in_flight"
  /\ Goto(c, IF row[k] = "failed" THEN "reopen" ELSE "idle")
  /\ UNCHANGED <<row, stored, target, attempt, shape, effects>>

\* _resolve_existing reads the row: completed and in_flight answer at once
\* (skip with the stored result; idempotent_uncertain), failed goes on to the
\* guarded UPDATE in a later statement.
ResolveExisting(c) ==
  LET k == target[c] IN
  /\ pc[c] = "resolve"
  /\ Goto(c, IF row[k] = "failed" THEN "reopen" ELSE "idle")
  /\ UNCHANGED <<row, stored, target, attempt, shape, effects>>

\* Faulty: the UPDATE has no "status == failed" condition.
ReopenUnguarded(c) ==
  LET k == target[c] IN
  /\ pc[c] = "reopen"
  /\ row' = [row EXCEPT ![k] = "in_flight"]
  /\ stored' = [stored EXCEPT ![k] = "none"]
  /\ Goto(c, "fire")
  /\ UNCHANGED <<target, attempt, shape, effects>>

\* UPDATE ... WHERE status = 'failed': rowcount 0 means a racing caller
\* reopened it first, and this one is an in_flight conflict.
ReopenFailed(c) ==
  LET k == target[c] IN
  /\ pc[c] = "reopen"
  /\ IF row[k] = "failed"
       THEN /\ row' = [row EXCEPT ![k] = "in_flight"]
            /\ stored' = [stored EXCEPT ![k] = "none"]
            /\ Goto(c, "fire")
       ELSE /\ Goto(c, "idle")
            /\ UNCHANGED <<row, stored>>
  /\ UNCHANGED <<target, attempt, shape, effects>>

\* The external effect of key k happens n more times (n = 0 or 1).
Effect(k, n) ==
  /\ effects[k] + n <= MaxEffects
  /\ effects' = [effects EXCEPT ![k] = @ + n]

\* The dispatched call returns a body of shape s to the wrapper.
Return(c, s) ==
  /\ shape' = [shape EXCEPT ![c] = s]
  /\ attempt' = [attempt EXCEPT ![c] = 0]
  /\ Goto(c, "record")

\* One attempt of call_tool's loop succeeds.
FireOk(c) ==
  /\ pc[c] = "fire"
  /\ Effect(target[c], 1)
  /\ Return(c, "ok")
  /\ UNCHANGED <<row, stored, target>>

\* The dispatcher answers with a body that has an "error": an unknown or
\* disabled tool, bad arguments, auth_required, an internal tool's error, or
\* any exception of the dispatch itself.
FireError(c, hidden) ==
  /\ pc[c] = "fire"
  /\ Effect(target[c], hidden)
  /\ Return(c, "error_key")
  /\ UNCHANGED <<row, stored, target>>

\* A transport error classify_error calls transient (timeout, rate limit,
\* 5xx, lost session), with attempts left: sleep and call again.
FireTransient(c, hidden) ==
  /\ pc[c] = "fire"
  /\ attempt[c] < MaxRetries - 1
  /\ Effect(target[c], hidden)
  /\ attempt' = [attempt EXCEPT ![c] = @ + 1]
  /\ UNCHANGED <<row, stored, pc, target, shape>>

\* A permanent error, or a transient one on the last attempt: the loop breaks
\* and make_error_response builds the envelope.  An open circuit and a failed
\* session creation answer with the same shape before any attempt.
FireFailed(c, hidden) ==
  /\ pc[c] = "fire"
  /\ Effect(target[c], hidden)
  /\ Return(c, "status_error")
  /\ UNCHANGED <<row, stored, target>>

\* mark_failed or record_success, unconditional on the row reserve() named.
Record(c) ==
  LET k == target[c] IN
  /\ pc[c] = "record"
  /\ IF IsErr(shape[c])
       THEN /\ row' = [row EXCEPT ![k] = "failed"]
            /\ UNCHANGED stored
       ELSE /\ row' = [row EXCEPT ![k] = "completed"]
            /\ stored' = [stored EXCEPT ![k] = shape[c]]
  /\ Goto(c, "idle")
  /\ shape' = [shape EXCEPT ![c] = "ok"]
  /\ UNCHANGED <<target, attempt, effects>>

\* The process dies, the step timeout cancels the call, or a ledger write
\* raises.  A request already on the wire may still take effect.
Crash(c, late) ==
  /\ pc[c] # "idle"
  /\ late = 1 => pc[c] = "fire"
  /\ Effect(target[c], late)
  /\ Goto(c, "idle")
  /\ attempt' = [attempt EXCEPT ![c] = 0]
  /\ shape' = [shape EXCEPT ![c] = "ok"]
  /\ UNCHANGED <<row, stored, target>>

\* What an error can hide: nothing, or an effect that happened.
Hidden(c) == IF target[c] \in Ambiguous THEN {0, 1} ELSE {0}

Step(c) ==
  \/ ReserveInsert(c)
  \/ ResolveExisting(c)
  \/ ReopenFailed(c)
  \/ FireOk(c)
  \/ \E h \in Hidden(c) : FireError(c, h)
  \/ \E h \in Hidden(c) : FireTransient(c, h)
  \/ \E h \in Hidden(c) : FireFailed(c, h)
  \/ Record(c)

Next ==
  \E c \in Callers :
    \/ \E k \in Keys : Call(c, k)
    \/ Step(c)
    \/ \E late \in {0, 1} : Crash(c, late)

Spec == Init /\ [][Next]_vars

(***************************************************************************)
(* The event loop keeps scheduling a coroutine that can run, and every     *)
(* await of the wrapper (a commit, a tool call whose attempts are bounded) *)
(* returns or raises; nothing forces a new call or a crash.                *)
(***************************************************************************)
FairSpec == Spec /\ \A c \in Callers : WF_vars(Step(c))

----------------------------------------------------------------------------
(***************************************************************************)
(* Properties.                                                             *)
(***************************************************************************)

\* No two callers are ever past reserve() for one key, whatever the order of
\* their INSERT, SELECT and UPDATE: a racing reopen is an in_flight conflict.
SingleHolder ==
  \A c, d \in Callers :
    Holding(c) /\ Holding(d) /\ target[c] = target[d] => c = d

\* Once a row is completed no later call changes it, replaces its stored
\* result or makes the effect happen again: replays answer from the row.
CompletedIsFinal ==
  [][\A k \in Keys : row[k] = "completed" =>
        /\ row'[k] = "completed"
        /\ stored'[k] = stored[k]
        /\ effects'[k] = effects[k]]_vars

\* The row of a caller that vanished between reserve() and the record.
Orphan(k) ==
  /\ row[k] = "in_flight"
  /\ \A c \in Callers : ~(Holding(c) /\ target[c] = k)

\* Fail-closed: a write whose caller vanished mid-call is never fired again,
\* by any caller, retry or resume.
OrphanNeverRefired ==
  [][\A k \in Keys : Orphan(k) => Orphan(k)' /\ effects'[k] = effects[k]]_vars

\* "the idempotency ledger already makes the tool EFFECT exactly-once across a
\* double-drive" (autonomous_lease.py): it happens at most once, whatever the
\* interleaving, the retries and the crashes, unless the tool's errors hide
\* effects.
EffectAtMostOnce == \A k \in Keys \ Ambiguous : effects[k] <= 1

\* A row that may be reopened for retry belongs to a write that never happened.
FailedMeansNoEffect ==
  \A k \in Keys \ Ambiguous : row[k] = "failed" => effects[k] = 0

\* Every call returns an answer: nobody waits inside the ledger for a row
\* another caller holds, even one that will never be released.
CallReturns == \A c \in Callers : pc[c] # "idle" ~> pc[c] = "idle"

\* The ledger implements its abstract promise.
phaseBar == [k \in Keys |-> IF row[k] = "in_flight" THEN "claimed"
                           ELSE IF row[k] = "completed" THEN "done" ELSE "open"]
ownersBar == [k \in Keys |-> {c \in Callers : Holding(c) /\ target[c] = k}]

WO == INSTANCE WriteOnce WITH phase <- phaseBar, owners <- ownersBar

\* Every step of the ledger is a step of WriteOnce or leaves its state alone.
ImplementsWriteOnce == WO!Spec
=============================================================================
