----------------------------- MODULE GatedWrites -----------------------------
(***************************************************************************)
(* One conversation turn of the deep runtime and the confirmations of the  *)
(* writes it asks for.  The lead makes its write calls one after another;  *)
(* each passes the gates of the middleware chain before it reaches the     *)
(* tool.  A write that needs a person                                      *)
(*   - pauses the thread when someone is present: the approval row is      *)
(*     committed, the checkpoint is kept, and a resume request later       *)
(*     re-enters the thread with the decision;                             *)
(*   - is prepared when nobody is: the row is recorded, the turn goes on,  *)
(*     and the approval route later replays the recorded call through the  *)
(*     write lock and the idempotency ledger.                              *)
(* Rows also expire, and a sweep deletes the checkpoints of decided rows.  *)
(* Requests are cut off at any await (a crash, or the client going away).  *)
(*                                                                         *)
(* LangGraph is external: a checkpoint is written at every superstep, so   *)
(* one for call c exists before c reaches a gate, and a resume re-enters   *)
(* the call the checkpoint is at, with the decision it was given.  A round *)
(* of the lead holds one write.                                            *)
(***************************************************************************)
EXTENDS Naturals, FiniteSets

CONSTANTS
    N,          \* write calls of the turn
    Clients,    \* requests that decide approvals, each used again and again
    MaxCuts     \* bound: drivers that are cut off

ASSUME NAssumption == N \in Nat \ {0}
ASSUME ClientsAssumption == Clients # {} /\ "turn" \notin Clients
ASSUME MaxCutsAssumption == MaxCuts \in Nat

Calls == 1..N
Drivers == Clients \cup {"turn"}

VARIABLES
    present,    \* someone is on the turn to answer
    risky,      \* the calls the gates decide to ask about
    pc,         \* where each driver is
    at,         \* the call it is at
    word,       \* its decision, or the outcome it will record
    approval,   \* status of each call's approval row, "none" without one
    stamp,      \* decided_at of the row: "none", "fresh", or "old" past retention
    checkpoint, \* the call the thread's checkpoint is at, 0 without one
    effects,    \* times the call's write happened
    ledger,     \* status of a prepared call's ledger row
    overdue,    \* the rows an expiry has read as pending and not yet written
    sweep,      \* the sweep's reads: none, or the rows it saw pending
    granted,    \* history: the calls a person approved
    unsure,     \* history: the prepared calls whose replay raised: nobody knows
    orphans,    \* history: the calls whose driver was cut off
    lost        \* history: the calls whose pause was lost, by a failed pause or
                \* by a sweep that had read before they were pending

rows == <<approval, stamp>>
driver == <<pc, at, word>>
history == <<granted, unsure, orphans, lost>>
vars == <<present, risky, pc, at, word, approval, stamp, checkpoint, effects,
          ledger, overdue, sweep, granted, unsure, orphans, lost>>

Decided == {"approved", "rejected", "expired"}

TypeOK ==
    /\ present \in BOOLEAN
    /\ risky \subseteq Calls
    /\ pc \in [Drivers -> {"idle", "gate", "pausing", "guard", "load", "replay",
                           "exec", "next", "run", "call", "ok", "error", "settle"}]
    /\ at \in [Drivers -> Calls]
    /\ word \in [Drivers -> {"", "approved", "rejected", "pending", "executed", "failed"}]
    /\ approval \in [Calls -> {"none", "pending", "approved", "rejected", "expired",
                               "executed", "failed"}]
    /\ stamp \in [Calls -> {"none", "fresh", "old"}]
    /\ checkpoint \in 0..N
    /\ effects \in [Calls -> 0..2]
    /\ ledger \in [Calls -> {"none", "in_flight", "completed", "failed"}]
    /\ overdue \subseteq Calls
    /\ sweep \in [armed : BOOLEAN, saw : SUBSET Calls]
    /\ granted \subseteq Calls /\ unsure \subseteq Calls
    /\ orphans \subseteq Calls /\ lost \subseteq Calls

Init ==
    /\ present \in BOOLEAN
    /\ risky \in SUBSET Calls
    /\ pc = [d \in Drivers |-> IF d = "turn" THEN "gate" ELSE "idle"]
    /\ at = [d \in Drivers |-> 1]
    /\ word = [d \in Drivers |-> ""]
    /\ approval = [c \in Calls |-> "none"]
    /\ stamp = [c \in Calls |-> "none"]
    /\ checkpoint = 1
    /\ effects = [c \in Calls |-> 0]
    /\ ledger = [c \in Calls |-> "none"]
    /\ overdue = {}
    /\ sweep = [armed |-> FALSE, saw |-> {}]
    /\ granted = {} /\ unsure = {} /\ orphans = {} /\ lost = {}

Goto(d, where) == pc' = [pc EXCEPT ![d] = where]

\* The stream or the request ends.
End(d) ==
    /\ Goto(d, "idle")
    /\ at' = [at EXCEPT ![d] = 1]
    /\ word' = [word EXCEPT ![d] = ""]

(***************************************************************************)
(* The driver of the thread: the turn itself, or a request that resumed it *)
(***************************************************************************)

\* What a gate does with a write that needs a person.
ResolveConfirmation == IF present THEN "interrupt" ELSE "prepare"

\* _get_or_create_approval commits one pending row for the call.
Persist(c) ==
    /\ approval[c] = "none"
    /\ approval' = [approval EXCEPT ![c] = "pending"]

\* The permission gate asks: the row is committed before interrupt().
Ask(d) ==
    /\ pc[d] = "gate" /\ at[d] \in risky
    /\ ResolveConfirmation = "interrupt"
    /\ Persist(at[d])
    /\ Goto(d, "pausing")
    /\ UNCHANGED <<present, risky, at, word, stamp, checkpoint, effects, ledger,
                   overdue, sweep, history>>

\* A gate (the trust gate on an autonomous turn) records the write for review
\* and tells the lead it is staged.
Prepare(d) ==
    /\ pc[d] = "gate" /\ at[d] \in risky
    /\ ResolveConfirmation = "prepare"
    /\ Persist(at[d])
    /\ Goto(d, "next")
    /\ UNCHANGED <<present, risky, at, word, stamp, checkpoint, effects, ledger,
                   overdue, sweep, history>>

\* interrupt(): the stream ends with approval_needed and the thread is kept.
Pause(d) ==
    /\ pc[d] = "pausing"
    /\ End(d)
    /\ UNCHANGED <<present, risky, rows, checkpoint, effects, ledger,
                   overdue, sweep, history>>

\* The stream fails after the row was committed: an error frame is no pause,
\* and _stream_and_reap deletes the thread.
PauseFails(d) ==
    /\ pc[d] = "pausing"
    /\ End(d)
    /\ checkpoint' = 0
    /\ lost' = lost \cup ({at[d], checkpoint} \cap Calls)
    /\ UNCHANGED <<present, risky, rows, effects, ledger, overdue, sweep,
                   granted, unsure, orphans>>

\* A gate lets the write through: it is not risky, so nobody is asked.
Allow(d) ==
    /\ pc[d] = "gate" /\ at[d] \notin risky
    /\ Goto(d, "exec")
    /\ UNCHANGED <<present, risky, at, word, rows, checkpoint, effects, ledger,
                   overdue, sweep, history>>

\* The lead is given an error message instead of a result and goes on.
ToldNo(d) ==
    /\ Goto(d, "next")
    /\ UNCHANGED <<present, risky, at, word, rows, checkpoint, effects, ledger,
                   overdue, sweep, history>>

\* Before the gates, on the first pass and on the replay: the capability is out
\* of the agent's scope or cannot be looked up, or the tool is disabled; and on
\* the first pass its server, which may have failed earlier in the stream.
OutOfScope(d) == pc[d] \in {"gate", "replay"} /\ ToldNo(d)
ToolDisabled(d) == pc[d] \in {"gate", "replay"} /\ ToldNo(d)
ServerDown(d) == pc[d] = "gate" /\ ToldNo(d)

\* Behind them: the write lock is contended or Redis is missing, the tool used
\* up its argument repairs, or it answers with an error.
LockRefused(d) == pc[d] = "exec" /\ ToldNo(d)
RepairsSpent(d) == pc[d] = "exec" /\ ToldNo(d)
ToolAnswersError(d) == pc[d] = "exec" /\ ToldNo(d)

\* Faulty: the thread is resumed with an agent that has no gate.
ReplayUngated(d) ==
    /\ pc[d] = "replay"
    /\ Goto(d, "exec")
    /\ UNCHANGED <<present, risky, at, word, rows, checkpoint, effects, ledger,
                   overdue, sweep, history>>

\* The replayed gate finds the row, so interrupt() returns the decision.
Replay(d) ==
    /\ pc[d] = "replay"
    /\ Goto(d, IF word[d] = "approved" THEN "exec" ELSE "next")
    /\ UNCHANGED <<present, risky, at, word, rows, checkpoint, effects, ledger,
                   overdue, sweep, history>>

\* The dispatcher calls the tool.
Dispatch(d) ==
    /\ pc[d] = "exec"
    /\ effects' = [effects EXCEPT ![at[d]] = @ + 1]
    /\ Goto(d, "next")
    /\ UNCHANGED <<present, risky, at, word, rows, checkpoint, ledger, overdue,
                   sweep, history>>

\* The tool raises, its write done or not: the error frame ends the stream and
\* the thread is reaped.
DispatchRaises(d) ==
    /\ pc[d] = "exec"
    /\ \E done \in 0..1 : effects' = [effects EXCEPT ![at[d]] = @ + done]
    /\ checkpoint' = 0
    /\ End(d)
    /\ UNCHANGED <<present, risky, rows, ledger, overdue, sweep, history>>

\* The lead asks for its next write; the superstep is checkpointed first.
NextCall(d) ==
    /\ pc[d] = "next" /\ at[d] < N
    /\ at' = [at EXCEPT ![d] = @ + 1]
    /\ checkpoint' = at[d] + 1
    /\ Goto(d, "gate")
    /\ UNCHANGED <<present, risky, word, rows, effects, ledger, overdue, sweep,
                   history>>

\* The lead is done, or its model fails: the stream ends without a pause and
\* the thread is reaped.
Finish(d) ==
    /\ pc[d] = "next"
    /\ checkpoint' = 0
    /\ End(d)
    /\ UNCHANGED <<present, risky, rows, effects, ledger, overdue, sweep,
                   history>>

(***************************************************************************)
(* Resuming a paused thread                                                *)
(***************************************************************************)

\* _load_pending_approval: the row is pending and is not prepared work.
ResumeGuard(k, c, decision) ==
    /\ pc[k] = "idle"
    /\ present /\ approval[c] = "pending"
    /\ at' = [at EXCEPT ![k] = c]
    /\ word' = [word EXCEPT ![k] = decision]
    /\ Goto(k, "guard")
    /\ UNCHANGED <<present, risky, rows, checkpoint, effects, ledger, overdue,
                   sweep, history>>

\* Faulty: the decision is written whatever the row's status has become.
ResumeFlipBlind(k) ==
    /\ pc[k] = "guard"
    /\ approval' = [approval EXCEPT ![at[k]] = word[k]]
    /\ stamp' = [stamp EXCEPT ![at[k]] = "fresh"]
    /\ granted' = IF word[k] = "approved" THEN granted \cup {at[k]} ELSE granted
    /\ Goto(k, "load")
    /\ UNCHANGED <<present, risky, at, word, checkpoint, effects, ledger, overdue,
                   sweep, unsure, orphans, lost>>

\* _cas_flip_pending: of the requests that passed the guard one wins the row;
\* the others answer "approval not pending".
ResumeFlip(k) ==
    /\ pc[k] = "guard"
    /\ IF approval[at[k]] = "pending"
       THEN /\ approval' = [approval EXCEPT ![at[k]] = word[k]]
            /\ stamp' = [stamp EXCEPT ![at[k]] = "fresh"]
            /\ granted' = IF word[k] = "approved" THEN granted \cup {at[k]} ELSE granted
            /\ Goto(k, "load")
            /\ UNCHANGED <<at, word>>
       ELSE /\ End(k)
            /\ UNCHANGED <<rows, granted>>
    /\ UNCHANGED <<present, risky, checkpoint, effects, ledger, overdue,
                   sweep, unsure, orphans, lost>>

\* The agent is rebuilt and the thread re-entered where its checkpoint is; a
\* thread without one is an error frame.
ResumeLoad(k) ==
    /\ pc[k] = "load"
    /\ IF checkpoint = 0
       THEN End(k)
       ELSE Goto(k, "replay") /\ at' = [at EXCEPT ![k] = checkpoint] /\ UNCHANGED word
    /\ UNCHANGED <<present, risky, rows, checkpoint, effects, ledger, overdue,
                   sweep, history>>

(***************************************************************************)
(* Confirming prepared work                                                *)
(***************************************************************************)

\* approve_action locks the row, finds it pending and commits "approved"
\* before anything runs; an approved or executed row is answered as it is.
Confirm(k, c) ==
    /\ pc[k] = "idle"
    /\ ~present /\ approval[c] = "pending"
    /\ approval' = [approval EXCEPT ![c] = "approved"]
    /\ stamp' = [stamp EXCEPT ![c] = "fresh"]
    /\ granted' = granted \cup {c}
    /\ at' = [at EXCEPT ![k] = c]
    /\ Goto(k, "run")
    /\ UNCHANGED <<present, risky, word, checkpoint, effects, ledger, overdue, sweep,
                   unsure, orphans, lost>>

\* reject_action on prepared work: the write never runs.
Reject(k, c) ==
    /\ pc[k] = "idle"
    /\ ~present /\ approval[c] = "pending"
    /\ approval' = [approval EXCEPT ![c] = "rejected"]
    /\ stamp' = [stamp EXCEPT ![c] = "fresh"]
    /\ UNCHANGED <<present, risky, driver, checkpoint, effects, ledger, overdue,
                   sweep, history>>

\* What the confirmation will record.
Outcome(k, result) ==
    /\ word' = [word EXCEPT ![k] = result]
    /\ Goto(k, "settle")

\* The replay is refused (drift, scope, a clipped payload), finds the write
\* lock contended, or cannot reach the lock or the ledger.
ConfirmStops(k) ==
    /\ pc[k] = "run"
    /\ \E result \in {"failed", "pending"} : Outcome(k, result)
    /\ UNCHANGED <<present, risky, at, rows, checkpoint, effects, ledger, overdue,
                   sweep, history>>

\* The ledger: a completed write is not repeated, one in flight is left alone.
ConfirmReserve(k) ==
    /\ pc[k] = "run"
    /\ CASE ledger[at[k]] = "completed" -> Outcome(k, "executed") /\ UNCHANGED ledger
         [] ledger[at[k]] = "in_flight" -> Outcome(k, "pending") /\ UNCHANGED ledger
         [] OTHER -> /\ ledger' = [ledger EXCEPT ![at[k]] = "in_flight"]
                     /\ Goto(k, "call") /\ UNCHANGED word
    /\ UNCHANGED <<present, risky, at, rows, checkpoint, effects, overdue, sweep,
                   history>>

\* The tool answers, with or without an error.
ConfirmCall(k) ==
    /\ pc[k] = "call"
    /\ \/ /\ effects' = [effects EXCEPT ![at[k]] = @ + 1]
          /\ Goto(k, "ok")
       \/ /\ Goto(k, "error")
          /\ UNCHANGED effects
    /\ UNCHANGED <<present, risky, at, word, rows, checkpoint, ledger, overdue,
                   sweep, history>>

\* The ledger row is closed as the tool answered.
ConfirmRecord(k) ==
    /\ pc[k] \in {"ok", "error"}
    /\ IF pc[k] = "ok"
       THEN ledger' = [ledger EXCEPT ![at[k]] = "completed"] /\ Outcome(k, "executed")
       ELSE ledger' = [ledger EXCEPT ![at[k]] = "failed"] /\ Outcome(k, "failed")
    /\ UNCHANGED <<present, risky, at, rows, checkpoint, effects, overdue, sweep,
                   history>>

\* Faulty: the exception escapes and the row stays approved.
ConfirmRaisesOut(k) ==
    /\ pc[k] \in {"call", "ok", "error"}
    /\ End(k)
    /\ unsure' = unsure \cup {at[k]}
    /\ UNCHANGED <<present, risky, rows, checkpoint, effects, ledger,
                   overdue, sweep, granted, orphans, lost>>

\* The tool or the ledger raises: the row will go back to pending, while the
\* ledger row stays in flight.
ConfirmRaises(k) ==
    /\ pc[k] \in {"call", "ok", "error"}
    /\ \E done \in IF pc[k] = "call" THEN 0..1 ELSE {0} :
           effects' = [effects EXCEPT ![at[k]] = @ + done]
    /\ unsure' = unsure \cup {at[k]}
    /\ Outcome(k, "pending")
    /\ UNCHANGED <<present, risky, at, rows, checkpoint, ledger, overdue, sweep,
                   granted, orphans, lost>>

\* run_prepared_action writes the status and the route commits it.
ConfirmSettle(k) ==
    /\ pc[k] = "settle"
    /\ approval' = [approval EXCEPT ![at[k]] = word[k]]
    /\ stamp' = [stamp EXCEPT ![at[k]] = IF word[k] = "pending" THEN "none" ELSE @]
    /\ End(k)
    /\ UNCHANGED <<present, risky, checkpoint, effects, ledger, overdue,
                   sweep, history>>

(***************************************************************************)
(* Expiry, the sweep, and requests that are cut off                        *)
(***************************************************************************)

\* _expire_approvals reads the pending rows past their deadline (a thread has
\* one at a time, prepared work has no deadline); one heartbeat runs at a time.
ExpireRead(c) ==
    /\ present /\ approval[c] = "pending"
    /\ overdue = {}
    /\ overdue' = {c}
    /\ UNCHANGED <<present, risky, driver, rows, checkpoint, effects, ledger, sweep,
                   history>>

\* It then writes them by key, whatever they have become since.
ExpireWrite(c) ==
    /\ c \in overdue
    /\ overdue' = overdue \ {c}
    /\ approval' = [approval EXCEPT ![c] = "expired"]
    /\ stamp' = [stamp EXCEPT ![c] = "fresh"]
    /\ UNCHANGED <<present, risky, driver, checkpoint, effects, ledger, sweep,
                   history>>

\* Startup recovery expires a row too, without a decided_at.
ExpireAtStartup(c) ==
    /\ present /\ approval[c] = "pending"
    /\ approval' = [approval EXCEPT ![c] = "expired"]
    /\ UNCHANGED <<present, risky, driver, stamp, checkpoint, effects, ledger,
                   overdue, sweep, history>>

\* The decision passes the retention of 24 hours.
Age(c) ==
    /\ stamp[c] = "fresh"
    /\ stamp' = [stamp EXCEPT ![c] = "old"]
    /\ UNCHANGED <<present, risky, driver, approval, checkpoint, effects, ledger,
                   overdue, sweep, history>>

Pending == {c \in Calls : approval[c] = "pending"}
Old == {c \in Calls : stamp[c] = "old" /\ approval[c] \in Decided}

\* Faulty: a thread with a pending row is swept as well.
SweepReadAll ==
    /\ ~sweep.armed /\ checkpoint # 0
    /\ Old # {}
    /\ sweep' = [armed |-> TRUE, saw |-> Pending]
    /\ UNCHANGED <<present, risky, driver, rows, checkpoint, effects, ledger,
                   overdue, history>>

\* Faulty: expired rows are not swept.
SweepReadAnswered ==
    /\ ~sweep.armed /\ checkpoint # 0
    /\ {c \in Old : approval[c] # "expired"} # {} /\ Pending = {}
    /\ sweep' = [armed |-> TRUE, saw |-> Pending]
    /\ UNCHANGED <<present, risky, driver, rows, checkpoint, effects, ledger,
                   overdue, history>>

\* The sweep reads the old decided rows and the pending ones: a thread with a
\* pending row is left alone.
SweepRead ==
    /\ ~sweep.armed /\ checkpoint # 0
    /\ Old # {} /\ Pending = {}
    /\ sweep' = [armed |-> TRUE, saw |-> Pending]
    /\ UNCHANGED <<present, risky, driver, rows, checkpoint, effects, ledger,
                   overdue, history>>

\* The reads' session is closed when the thread is deleted.
SweepReap ==
    /\ sweep.armed
    /\ checkpoint' = 0
    /\ lost' = lost \cup ({checkpoint} \cap (Calls \ sweep.saw))
    /\ sweep' = [armed |-> FALSE, saw |-> {}]
    /\ UNCHANGED <<present, risky, driver, rows, effects, ledger, overdue, granted,
                   unsure, orphans>>

\* The process dies or the client goes away at an await.
CutOff(d) ==
    /\ pc[d] # "idle" /\ Cardinality(orphans) < MaxCuts
    /\ End(d)
    /\ orphans' = orphans \cup {at[d]}
    /\ UNCHANGED <<present, risky, rows, checkpoint, effects, ledger,
                   overdue, sweep, granted, unsure, lost>>

\* The middleware chain around one call, and the stream around the calls.
Chain(d) ==
    \/ OutOfScope(d) \/ ToolDisabled(d) \/ ServerDown(d)
    \/ Ask(d) \/ Prepare(d) \/ Allow(d) \/ Replay(d)
    \/ LockRefused(d) \/ RepairsSpent(d) \/ ToolAnswersError(d) \/ Dispatch(d)
Stream(d) ==
    \/ Pause(d) \/ PauseFails(d) \/ DispatchRaises(d) \/ NextCall(d) \/ Finish(d)

\* The rest of a resume and of a confirmation.
Resume(k) == ResumeFlip(k) \/ ResumeLoad(k)
RunPrepared(k) ==
    \/ ConfirmStops(k) \/ ConfirmReserve(k) \/ ConfirmCall(k)
    \/ ConfirmRecord(k) \/ ConfirmRaises(k) \/ ConfirmSettle(k)

Drive(d) == Chain(d) \/ Stream(d) \/ Resume(d) \/ RunPrepared(d)

Request(k) ==
    \E c \in Calls :
        \/ \E decision \in {"approved", "rejected"} : ResumeGuard(k, c, decision)
        \/ Confirm(k, c) \/ Reject(k, c)

Expire == \E c \in Calls : ExpireRead(c) \/ ExpireWrite(c)

Sweep == SweepRead \/ SweepReap

Next ==
    \/ \E d \in Drivers : Drive(d) \/ CutOff(d)
    \/ \E k \in Clients : Request(k)
    \/ Expire \/ Sweep
    \/ \E c \in Calls : ExpireAtStartup(c) \/ Age(c)

\* A request that is not cut off runs on; the heartbeat and the sweep are
\* scheduler ticks that come round again, and time passes.
Fairness ==
    /\ \A d \in Drivers : WF_vars(Drive(d))
    /\ WF_vars(Expire) /\ WF_vars(Sweep)
    /\ WF_vars(\E c \in Calls : Age(c))

Spec == Init /\ [][Next]_vars /\ Fairness

(***************************************************************************)
(* Properties                                                              *)
(***************************************************************************)

\* However many requests decide a call, and whatever raises or is cut off
\* between, its write happens at most once (and the state is well typed):
\* _cas_flip_pending for a paused write, the ledger for a prepared one.
AtMostOneWrite == TypeOK /\ \A c \in Calls : effects[c] <= 1

\* A write the gates ask about happens only after a person approved it, one
\* that was refused or failed did not happen, and one recorded as executed did
\* (a write whose tool raised is the exception: nobody knows).
AsDecided ==
    \A c \in Calls :
        /\ c \in risky /\ effects[c] > 0 => c \in granted
        /\ approval[c] \in {"rejected", "failed"} /\ effects[c] > 0 => c \in unsure
        /\ approval[c] = "executed" => effects[c] = 1

\* A pending confirmation of a paused turn can be answered: its thread still
\* has the checkpoint at that call.  Neither the reaping of ended streams nor
\* the sweep takes it, except a stream that failed in the act of pausing and a
\* sweep whose reads came before the pause.
PendingResumable ==
    present => \A c \in Calls :
        approval[c] = "pending" /\ c \notin lost => checkpoint = c

\* A prepared call does not stay "approved", where every later confirmation
\* would answer 200 and run nothing: a request is at work on it and will record
\* what happened, unless that request was cut off.
ApprovedIsWorkedOn ==
    ~present => \A c \in Calls :
        approval[c] = "approved" =>
            c \in orphans \/ \E k \in Clients : pc[k] # "idle" /\ at[k] = c

\* The checkpoint of a paused thread with a decided confirmation does not stay
\* for ever, also when no completed resume followed the decision.
ReaperCatches ==
    (present /\ \E c \in Calls : stamp[c] # "none" /\ approval[c] \in Decided) ~> checkpoint = 0
=============================================================================
