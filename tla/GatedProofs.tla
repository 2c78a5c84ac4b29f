---------------------------- MODULE GatedProofs ----------------------------
(***************************************************************************)
(* Proofs about GatedWrites, for any number of calls, requests and cuts.   *)
(***************************************************************************)
EXTENDS GatedWrites, TLAPS

\* The places of a request that replays a prepared write.
Confirming == {"run", "call", "ok", "error", "settle"}

\* The places of the one driver that moves the thread.  A driver that is about
\* to pause is not among them: its row may already have been decided, and the
\* request that decided it be at work.
Active(d) == pc[d] \in {"gate", "load", "replay", "exec", "next"}

----------------------------------------------------------------------------
\* Which driver can be where, and what it then carries.
ModeInv ==
  /\ present => \A d \in Drivers : pc[d] \notin Confirming
  /\ ~present => \A k \in Clients : pc[k] \in Confirming \cup {"idle"}
  /\ pc["turn"] \in {"idle", "gate", "pausing", "exec", "next"}
  /\ \A d \in Drivers : /\ pc[d] \in {"guard", "load", "replay"} => word[d] \in {"approved", "rejected"}
                        /\ pc[d] = "settle" => word[d] \in {"pending", "executed", "failed"}
  /\ sweep.saw = {}
  /\ ~present => overdue = {}

\* What the rows say: the gates ask about risky calls only, an approval comes
\* from a person, the outcomes of a replay are those of prepared work, and an
\* expiry writes rows that exist.
RowInv ==
  \A c \in Calls :
    /\ c \in overdue => approval[c] # "none"
    /\ c \notin risky => approval[c] = "none"
    /\ approval[c] = "approved" => c \in granted
    /\ approval[c] = "none" => ledger[c] = "none"
    /\ present => approval[c] \notin {"executed", "failed"}
    /\ c \in risky /\ effects[c] > 0 => c \in granted

\* The thread has not come to the calls after c.
Ahead(c) == \A b \in Calls : b > c => effects[b] = 0 /\ approval[b] = "none"

\* The thread can be taken up at c, or is known to be lost.
Kept(c) == checkpoint = c \/ (checkpoint = 0 /\ c \in lost)

\* Where the driver of the thread stands, nothing later has happened, and what
\* it is about to do was decided.
Moving(d) ==
  /\ Kept(at[d]) /\ Ahead(at[d])
  /\ pc[d] # "next" => effects[at[d]] = 0
  /\ pc[d] = "gate" => approval[at[d]] = "none"
  /\ pc[d] = "exec" => \/ at[d] \notin risky
                       \/ present /\ at[d] \in granted /\ approval[at[d]] \in {"approved", "expired"}
  /\ pc[d] \in {"load", "replay"} /\ word[d] = "approved" =>
       at[d] \in granted /\ approval[at[d]] \in {"approved", "expired"}

\* A pending question is where the thread stands, and nobody moves it on.
Waiting(c) ==
  /\ approval[c] = "pending" =>
       Kept(c) /\ Ahead(c) /\ effects[c] = 0 /\ \A d \in Drivers : ~Active(d)
  /\ approval[c] = "rejected" => effects[c] = 0

\* The thread has one driver, or one pending question, or neither.
ThreadInv ==
  /\ \A d, e \in Drivers : Active(d) /\ Active(e) => d = e
  /\ \A d \in Drivers : Active(d) => Moving(d)
  /\ present => \A c \in Calls : Waiting(c)

\* The write of a prepared call may be replayed: it has not happened, or a
\* replay raised and the ledger row it left in flight bars another one.
Open(c) ==
  \/ ledger[c] \in {"none", "failed"} /\ effects[c] = 0
  \/ ledger[c] = "in_flight" /\ c \in unsure

\* A request that replays has its row approved; where it stands says what the
\* ledger holds and whether the write has happened.
Working(k) ==
  /\ pc[k] # "idle" => approval[at[k]] = "approved"
  /\ pc[k] = "run" => Open(at[k])
  /\ pc[k] \in {"call", "ok", "error"} => ledger[at[k]] = "in_flight"
  /\ pc[k] \in {"call", "error"} => effects[at[k]] = 0
  /\ pc[k] = "ok" => effects[at[k]] = 1
  /\ pc[k] = "settle" => IF word[k] = "executed" THEN effects[at[k]] = 1 ELSE Open(at[k])

\* A row that waits can be replayed, and a closed one says what happened.
Written(c) ==
  /\ approval[c] = "pending" => Open(c)
  /\ approval[c] = "executed" => effects[c] = 1
  /\ approval[c] \in {"rejected", "failed"} /\ effects[c] > 0 => c \in unsure

\* No two requests replay one call.
ReplayInv ==
  ~present =>
    /\ \A j, k \in Clients : pc[j] # "idle" /\ pc[k] # "idle" /\ at[j] = at[k] => j = k
    /\ \A k \in Clients : Working(k)
    /\ \A c \in Calls : Written(c)

GatedInv == AtMostOneWrite /\ ModeInv /\ RowInv /\ ThreadInv /\ ReplayInv /\ ApprovedIsWorkedOn

----------------------------------------------------------------------------
USE NAssumption, ClientsAssumption, MaxCutsAssumption

\* A driver is at a call, and the calls are numbers.
LEMMA CallsAreNumbers ==
  /\ Calls \subseteq Nat \ {0} /\ 1 \in Calls
  /\ 0 \notin Calls /\ Calls \subseteq 0 .. N
  /\ \A c \in Calls : c < N => c + 1 \in Calls /\ c + 1 > c
BY DEF Calls

\* A write that has not happened may happen.
LEMMA OneMore ==
  ASSUME NEW f \in [Calls -> 0 .. 2], \A c \in Calls : f[c] <= 1,
         NEW c \in Calls, NEW n \in 0 .. 1
  PROVE  [f EXCEPT ![c] = @ + n] \in [Calls -> 0 .. 2]
BY DEF Calls

\* The actions, one by one.
LEMMA Actions ==
  ASSUME [Next]_vars
  PROVE  \/ \E d \in Drivers :
              \/ OutOfScope(d) \/ ToolDisabled(d) \/ ServerDown(d)
              \/ LockRefused(d) \/ RepairsSpent(d) \/ ToolAnswersError(d)
              \/ Ask(d) \/ Prepare(d) \/ Allow(d) \/ Replay(d) \/ Dispatch(d)
              \/ Pause(d) \/ PauseFails(d) \/ DispatchRaises(d) \/ NextCall(d) \/ Finish(d)
              \/ ResumeFlip(d) \/ ResumeLoad(d)
              \/ ConfirmStops(d) \/ ConfirmReserve(d) \/ ConfirmCall(d)
              \/ ConfirmRecord(d) \/ ConfirmRaises(d) \/ ConfirmSettle(d)
              \/ CutOff(d)
         \/ \E k \in Clients, c \in Calls :
              \/ \E decision \in {"approved", "rejected"} : ResumeGuard(k, c, decision)
              \/ Confirm(k, c) \/ Reject(k, c)
         \/ \E c \in Calls : \/ ExpireRead(c) \/ ExpireWrite(c)
                           \/ ExpireAtStartup(c) \/ Age(c)
         \/ SweepRead \/ SweepReap
         \/ UNCHANGED vars
BY DEF Next, Drive, Chain, Stream, Resume, RunPrepared, Request, Expire, Sweep

\* The six ways in which the lead is told that its call was not made.
Refused(d) == pc[d] \in {"gate", "replay", "exec"} /\ ToldNo(d)

\* They all start before or at the tool and change nothing but the place.
LEMMA RefusedAll ==
  ASSUME NEW d \in Drivers,
         \/ OutOfScope(d) \/ ToolDisabled(d) \/ ServerDown(d)
         \/ LockRefused(d) \/ RepairsSpent(d) \/ ToolAnswersError(d)
  PROVE  Refused(d)
BY DEF Refused, OutOfScope, ToolDisabled, ServerDown, LockRefused, RepairsSpent,
   ToolAnswersError

\* The four steps that may call the tool count its write at most once more.
LEMMA EffectsType ==
  ASSUME AtMostOneWrite, NEW d \in Drivers,
         Dispatch(d) \/ DispatchRaises(d) \/ ConfirmCall(d) \/ ConfirmRaises(d)
  PROVE  effects' \in [Calls -> 0 .. 2]
<1>1. effects \in [Calls -> 0 .. 2] /\ \A c \in Calls : effects[c] <= 1
  BY DEF AtMostOneWrite, TypeOK
<1>2. at[d] \in Calls
  BY DEF AtMostOneWrite, TypeOK
<1>3. \/ effects' = effects
      \/ effects' = [effects EXCEPT ![at[d]] = @ + 1]
      \/ \E done \in 0 .. 1 : effects' = [effects EXCEPT ![at[d]] = @ + done]
  <2>1. CASE Dispatch(d)
    BY <2>1 DEF Dispatch
  <2>2. CASE DispatchRaises(d)
    BY <2>2 DEF DispatchRaises
  <2>3. CASE ConfirmCall(d)
    BY <2>3 DEF ConfirmCall
  <2>4. CASE ConfirmRaises(d)
    <3>1. CASE pc[d] = "call"
      BY <2>4, <3>1 DEF ConfirmRaises
    <3>2. CASE pc[d] # "call"
      BY <2>4, <3>2, 0 \in 0 .. 1 DEF ConfirmRaises
    <3>3. QED
      BY <3>1, <3>2
  <2>5. QED
    BY <2>1, <2>2, <2>3, <2>4
<1>4. CASE effects' = effects
  BY <1>1, <1>4
<1>5. CASE effects' = [effects EXCEPT ![at[d]] = @ + 1]
  BY <1>1, <1>2, <1>5, OneMore, 1 \in 0 .. 1
<1>6. ASSUME NEW done \in 0 .. 1, effects' = [effects EXCEPT ![at[d]] = @ + done]
      PROVE  effects' \in [Calls -> 0 .. 2]
  BY <1>1, <1>2, <1>6, OneMore
<1>7. QED
  BY <1>3, <1>4, <1>5, <1>6

\* Every step keeps the state well typed: a write is counted at most twice.
LEMMA TypeStep == AtMostOneWrite /\ ModeInv /\ [Next]_vars => TypeOK'
<1> SUFFICES ASSUME AtMostOneWrite, ModeInv, [Next]_vars PROVE TypeOK'
  OBVIOUS
<1>a. TypeOK
  BY DEF AtMostOneWrite
<1>b. 1 \in Calls /\ 0 \in 0 .. N
  BY CallsAreNumbers
<1>c. checkpoint # 0 => checkpoint \in Calls
  <2>1. checkpoint \in 0 .. N
    BY <1>a DEF TypeOK
  <2>2. QED
    BY <2>1 DEF Calls
<1> USE <1>a, <1>b DEF TypeOK, Goto, End, Outcome, rows, driver, history, Drivers
<1>1. ASSUME NEW d \in Drivers, Refused(d) PROVE TypeOK'
  BY <1>1 DEF Refused, ToldNo
<1>2. ASSUME NEW d \in Drivers, Ask(d) PROVE TypeOK'
  BY <1>2 DEF Ask, Persist
<1>3. ASSUME NEW d \in Drivers, Prepare(d) PROVE TypeOK'
  BY <1>3 DEF Prepare, Persist
<1>4. ASSUME NEW d \in Drivers, Allow(d) PROVE TypeOK'
  BY <1>4 DEF Allow
<1>5. ASSUME NEW d \in Drivers, Replay(d) PROVE TypeOK'
  BY <1>5 DEF Replay
<1>6. ASSUME NEW d \in Drivers, Dispatch(d) PROVE TypeOK'
  <2>1. effects' \in [Calls -> 0 .. 2]
    BY <1>6, EffectsType
  <2>2. QED
    BY <1>6, <2>1 DEF Dispatch
<1>7. ASSUME NEW d \in Drivers, Pause(d) PROVE TypeOK'
  BY <1>7 DEF Pause
<1>8. ASSUME NEW d \in Drivers, PauseFails(d) PROVE TypeOK'
  BY <1>8 DEF PauseFails
<1>9. ASSUME NEW d \in Drivers, DispatchRaises(d) PROVE TypeOK'
  <2>1. effects' \in [Calls -> 0 .. 2]
    BY <1>9, EffectsType
  <2>2. QED
    BY <1>9, <2>1 DEF DispatchRaises
<1>10. ASSUME NEW d \in Drivers, NextCall(d) PROVE TypeOK'
  <2>1. at[d] + 1 \in Calls /\ at[d] + 1 \in 0 .. N
    BY <1>10, CallsAreNumbers DEF NextCall
  <2>2. QED
    BY <1>10, <2>1 DEF NextCall
<1>11. ASSUME NEW d \in Drivers, Finish(d) PROVE TypeOK'
  BY <1>11 DEF Finish
<1>12. ASSUME NEW d \in Drivers, ResumeFlip(d) PROVE TypeOK'
  <2>1. CASE approval[at[d]] = "pending"
    <3>1. word[d] \in {"approved", "rejected"}
      BY <1>12 DEF ResumeFlip, ModeInv
    <3>2. QED
      <4>1. approval' = [approval EXCEPT ![at[d]] = word[d]] /\ stamp' = [stamp EXCEPT ![at[d]] = "fresh"]
        BY <1>12, <2>1 DEF ResumeFlip
      <4>2. granted' \subseteq Calls
        <5>1. granted' = granted \/ granted' = granted \cup {at[d]}
          BY <1>12, <2>1 DEF ResumeFlip
        <5>2. at[d] \in Calls /\ granted \subseteq Calls
          OBVIOUS
        <5>3. QED
          BY <5>1, <5>2
      <4>3. QED
        BY <1>12, <2>1, <3>1, <4>1, <4>2 DEF ResumeFlip
  <2>2. CASE approval[at[d]] # "pending"
    BY <1>12, <2>2 DEF ResumeFlip
  <2>3. QED
    BY <2>1, <2>2
<1>13. ASSUME NEW d \in Drivers, ResumeLoad(d) PROVE TypeOK'
  <2>1. CASE checkpoint = 0
    BY <1>13, <2>1 DEF ResumeLoad
  <2>2. CASE checkpoint # 0
    <3>1. checkpoint \in Calls
      BY <1>c, <2>2
    <3>2. at' = [at EXCEPT ![d] = checkpoint] /\ pc' = [pc EXCEPT ![d] = "replay"]
      BY <1>13, <2>2 DEF ResumeLoad
    <3>3. QED
      BY <1>13, <3>1, <3>2 DEF ResumeLoad
  <2>3. QED
    BY <2>1, <2>2
<1>14. ASSUME NEW d \in Drivers, ConfirmStops(d) PROVE TypeOK'
  <2>1. PICK result \in {"failed", "pending"} : Outcome(d, result)
    BY <1>14 DEF ConfirmStops
  <2>2. QED
    BY <1>14, <2>1 DEF ConfirmStops
<1>15. ASSUME NEW d \in Drivers, ConfirmReserve(d) PROVE TypeOK'
  <2>1. CASE ledger[at[d]] = "completed"
    BY <1>15, <2>1 DEF ConfirmReserve
  <2>2. CASE ledger[at[d]] = "in_flight"
    BY <1>15, <2>2 DEF ConfirmReserve
  <2>3. CASE ledger[at[d]] \notin {"completed", "in_flight"}
    BY <1>15, <2>3 DEF ConfirmReserve
  <2>4. QED
    BY <2>1, <2>2, <2>3
<1>16. ASSUME NEW d \in Drivers, ConfirmCall(d) PROVE TypeOK'
  <2>1. effects' \in [Calls -> 0 .. 2]
    BY <1>16, EffectsType
  <2>2. QED
    <3>1. PICK place \in {"ok", "error"} : pc' = [pc EXCEPT ![d] = place]
      BY <1>16 DEF ConfirmCall
    <3>2. QED
      <4>1. UNCHANGED <<present, risky, at, word, approval, stamp, checkpoint, ledger, overdue,
                        sweep, granted, unsure, orphans, lost>>
        BY <1>16 DEF ConfirmCall
      <4>2. QED
        BY <2>1, <3>1, <4>1
<1>17. ASSUME NEW d \in Drivers, ConfirmRecord(d) PROVE TypeOK'
  BY <1>17 DEF ConfirmRecord
<1>18. ASSUME NEW d \in Drivers, ConfirmRaises(d) PROVE TypeOK'
  <2>1. effects' \in [Calls -> 0 .. 2]
    BY <1>18, EffectsType
  <2>2. QED
    BY <1>18, <2>1 DEF ConfirmRaises
<1>19. ASSUME NEW d \in Drivers, ConfirmSettle(d) PROVE TypeOK'
  BY <1>19 DEF ConfirmSettle, ModeInv
<1>20. ASSUME NEW d \in Drivers, CutOff(d) PROVE TypeOK'
  BY <1>20 DEF CutOff
<1>21. ASSUME NEW k \in Clients, NEW c \in Calls, NEW decision \in {"approved", "rejected"},
              ResumeGuard(k, c, decision)
       PROVE  TypeOK'
  BY <1>21 DEF ResumeGuard
<1>22. ASSUME NEW k \in Clients, NEW c \in Calls, Confirm(k, c) PROVE TypeOK'
  BY <1>22 DEF Confirm
<1>23. ASSUME NEW k \in Clients, NEW c \in Calls, Reject(k, c) PROVE TypeOK'
  BY <1>23 DEF Reject
<1>24. ASSUME NEW c \in Calls, ExpireRead(c) PROVE TypeOK'
  BY <1>24 DEF ExpireRead
<1>25. ASSUME NEW c \in Calls, ExpireWrite(c) PROVE TypeOK'
  BY <1>25 DEF ExpireWrite
<1>26. ASSUME NEW c \in Calls, ExpireAtStartup(c) PROVE TypeOK'
  BY <1>26 DEF ExpireAtStartup
<1>27. ASSUME NEW c \in Calls, Age(c) PROVE TypeOK'
  BY <1>27 DEF Age
<1>28. CASE SweepRead
  BY <1>28 DEF SweepRead, Pending
<1>29. CASE SweepReap
  BY <1>29 DEF SweepReap
<1>30. CASE UNCHANGED vars
  BY <1>30 DEF vars
<1> HIDE <1>a, <1>b DEF TypeOK, Goto, End, Outcome, rows, driver, history, Drivers
<1>31. QED
  BY Actions, RefusedAll, <1>1, <1>2, <1>3, <1>4, <1>5, <1>6, <1>7, <1>8, <1>9, <1>10, <1>11, <1>12,
     <1>13, <1>14, <1>15, <1>16, <1>17, <1>18, <1>19, <1>20, <1>21, <1>22, <1>23, <1>24,
     <1>25, <1>26, <1>27, <1>28, <1>29, <1>30

\* The parts of the state that are functions, and on what.
Shaped ==
  /\ pc = [d \in Drivers |-> pc[d]] /\ word = [d \in Drivers |-> word[d]]
  /\ at = [d \in Drivers |-> at[d]] /\ \A d \in Drivers : at[d] \in Calls
  /\ approval = [c \in Calls |-> approval[c]]
  /\ effects = [c \in Calls |-> effects[c]] /\ \A c \in Calls : effects[c] \in Nat
  /\ ledger = [c \in Calls |-> ledger[c]]

\* The type invariant gives those shapes.
LEMMA ShapedType == TypeOK => Shaped
<1> SUFFICES ASSUME TypeOK PROVE Shaped
  OBVIOUS
<1>1. \A c \in Calls : effects[c] \in Nat
  <2>1. effects \in [Calls -> 0 .. 2]
    BY DEF TypeOK
  <2>2. QED
    BY <2>1
<1>2. QED
  BY <1>1 DEF TypeOK, Shaped

\* The drivers are the turn and the requests.
LEMMA DriversAre ==
  Clients \subseteq Drivers /\ "turn" \in Drivers /\ \A d \in Drivers : d = "turn" \/ d \in Clients
BY DEF Drivers

\* Where the drivers of a turn can be depends on whether someone is present.
LEMMA ModeStep == TypeOK /\ ModeInv /\ [Next]_vars => ModeInv'
<1> SUFFICES ASSUME TypeOK, ModeInv, [Next]_vars PROVE ModeInv'
  OBVIOUS
<1> USE ShapedType, DriversAre DEF ModeInv, Shaped, Confirming
<1>1. ASSUME NEW d \in Drivers, Refused(d) PROVE ModeInv'
  BY <1>1 DEF Refused, ToldNo, Goto, rows, history
<1>2. ASSUME NEW d \in Drivers, Ask(d) PROVE ModeInv'
  BY <1>2 DEF Ask, Persist, ResolveConfirmation, Goto, history
<1>3. ASSUME NEW d \in Drivers, Prepare(d) PROVE ModeInv'
  BY <1>3 DEF Prepare, Persist, ResolveConfirmation, Goto, history
<1>4. ASSUME NEW d \in Drivers, Allow(d) PROVE ModeInv'
  BY <1>4 DEF Allow, Goto, rows, history
<1>5. ASSUME NEW d \in Drivers, Replay(d) PROVE ModeInv'
  BY <1>5 DEF Replay, Goto, rows, history
<1>6. ASSUME NEW d \in Drivers, Dispatch(d) PROVE ModeInv'
  BY <1>6 DEF Dispatch, Goto, rows, history
<1>7. ASSUME NEW d \in Drivers, Pause(d) PROVE ModeInv'
  BY <1>7 DEF Pause, Goto, End, rows, history
<1>8. ASSUME NEW d \in Drivers, PauseFails(d) PROVE ModeInv'
  BY <1>8 DEF PauseFails, Goto, End, rows
<1>9. ASSUME NEW d \in Drivers, DispatchRaises(d) PROVE ModeInv'
  BY <1>9 DEF DispatchRaises, Goto, End, rows, history
<1>10. ASSUME NEW d \in Drivers, NextCall(d) PROVE ModeInv'
  BY <1>10 DEF NextCall, Goto, rows, history
<1>11. ASSUME NEW d \in Drivers, Finish(d) PROVE ModeInv'
  BY <1>11 DEF Finish, Goto, End, rows, history
<1>12. ASSUME NEW d \in Drivers, ResumeFlip(d) PROVE ModeInv'
  BY <1>12 DEF ResumeFlip, Goto, End, rows
<1>13. ASSUME NEW d \in Drivers, ResumeLoad(d) PROVE ModeInv'
  BY <1>13 DEF ResumeLoad, Goto, End, rows, history
<1>14. ASSUME NEW d \in Drivers, ConfirmStops(d) PROVE ModeInv'
  BY <1>14 DEF ConfirmStops, Goto, Outcome, rows, history
<1>15. ASSUME NEW d \in Drivers, ConfirmReserve(d) PROVE ModeInv'
  BY <1>15 DEF ConfirmReserve, Goto, Outcome, rows, history
<1>16. ASSUME NEW d \in Drivers, ConfirmCall(d) PROVE ModeInv'
  BY <1>16 DEF ConfirmCall, Goto, rows, history
<1>17. ASSUME NEW d \in Drivers, ConfirmRecord(d) PROVE ModeInv'
  BY <1>17 DEF ConfirmRecord, Goto, Outcome, rows, history
<1>18. ASSUME NEW d \in Drivers, ConfirmRaises(d) PROVE ModeInv'
  BY <1>18 DEF ConfirmRaises, Goto, Outcome, rows
<1>19. ASSUME NEW d \in Drivers, ConfirmSettle(d) PROVE ModeInv'
  BY <1>19 DEF ConfirmSettle, Goto, End, history
<1>20. ASSUME NEW d \in Drivers, CutOff(d) PROVE ModeInv'
  BY <1>20 DEF CutOff, Goto, End, rows
<1>21. ASSUME NEW k \in Clients, NEW c \in Calls, NEW decision \in {"approved", "rejected"},
             ResumeGuard(k, c, decision)
      PROVE  ModeInv'
  BY <1>21 DEF ResumeGuard, Goto, rows, history
<1>22. ASSUME NEW k \in Clients, NEW c \in Calls, Confirm(k, c) PROVE ModeInv'
  BY <1>22 DEF Confirm, Goto
<1>23. ASSUME NEW k \in Clients, NEW c \in Calls, Reject(k, c) PROVE ModeInv'
  BY <1>23 DEF Reject, Goto, driver, history
<1>24. ASSUME NEW c \in Calls, ExpireRead(c) PROVE ModeInv'
  BY <1>24 DEF ExpireRead, Goto, rows, driver, history
<1>25. ASSUME NEW c \in Calls, ExpireWrite(c) PROVE ModeInv'
  BY <1>25 DEF ExpireWrite, Goto, driver, history
<1>26. ASSUME NEW c \in Calls, ExpireAtStartup(c) PROVE ModeInv'
  BY <1>26 DEF ExpireAtStartup, Goto, driver, history
<1>27. ASSUME NEW c \in Calls, Age(c) PROVE ModeInv'
  BY <1>27 DEF Age, Goto, driver, history
<1>28. CASE SweepRead
  BY <1>28 DEF SweepRead, Pending, Old, Goto, rows, driver, history
<1>29. CASE SweepReap
  BY <1>29 DEF SweepReap, Goto, rows, driver
<1>30. CASE UNCHANGED vars
  BY <1>30 DEF vars
<1>31. QED
  BY Actions, RefusedAll, <1>1, <1>2, <1>3, <1>4, <1>5, <1>6, <1>7, <1>8, <1>9, <1>10, <1>11,
     <1>12, <1>13, <1>14, <1>15, <1>16, <1>17, <1>18, <1>19, <1>20, <1>21, <1>22, <1>23,
     <1>24, <1>25, <1>26, <1>27, <1>28, <1>29, <1>30


\* A request that replays a prepared write works on an approved row.
LEMMA AtReplay ==
  ASSUME GatedInv, NEW k \in Drivers, pc[k] \in Confirming
  PROVE  /\ ~present /\ k \in Clients /\ at[k] \in Calls
         /\ approval[at[k]] = "approved" /\ at[k] \in risky /\ at[k] \in granted
<1>1. Shaped
  BY ShapedType DEF GatedInv, AtMostOneWrite
<1>2. ~present /\ k \in Clients
  BY DriversAre DEF GatedInv, ModeInv, Confirming
<1>3. pc[k] # "idle" /\ at[k] \in Calls
  BY <1>1 DEF Confirming, Shaped
<1>4. approval[at[k]] = "approved"
  BY <1>2, <1>3 DEF GatedInv, ReplayInv, Working
<1>5. QED
  BY <1>2, <1>3, <1>4 DEF GatedInv, RowInv

\* A driver that is let through to the tool makes a write that has not
\* happened and is either harmless or granted.
LEMMA AtExec ==
  ASSUME GatedInv, NEW d \in Drivers, pc[d] = "exec"
  PROVE  /\ at[d] \in Calls /\ effects[at[d]] = 0
         /\ \/ at[d] \notin risky /\ approval[at[d]] = "none"
            \/ present /\ at[d] \in granted /\ approval[at[d]] \in {"approved", "expired"}
<1>1. Shaped
  BY ShapedType DEF GatedInv, AtMostOneWrite
<1>2. Active(d)
  BY DEF Active
<1>3. QED
  BY <1>1, <1>2 DEF GatedInv, ThreadInv, Moving, RowInv, Shaped

\* The rows stay in line with what the gates ask, grants and the ledger say.
LEMMA RowStep == GatedInv /\ [Next]_vars => RowInv'
<1> SUFFICES ASSUME GatedInv, [Next]_vars PROVE RowInv'
  OBVIOUS
<1>a. Shaped
  BY ShapedType DEF GatedInv, AtMostOneWrite
<1>b. ModeInv /\ RowInv
  BY DEF GatedInv
<1> USE <1>a, <1>b, DriversAre DEF ModeInv, RowInv, Shaped, Confirming
<1>1. ASSUME NEW d \in Drivers, Refused(d) PROVE RowInv'
  BY <1>1 DEF Refused, ToldNo, Goto, rows, history
<1>2. ASSUME NEW d \in Drivers, Ask(d) PROVE RowInv'
  BY <1>2 DEF Ask, Persist, ResolveConfirmation, Goto, history
<1>3. ASSUME NEW d \in Drivers, Prepare(d) PROVE RowInv'
  BY <1>3 DEF Prepare, Persist, ResolveConfirmation, Goto, history
<1>4. ASSUME NEW d \in Drivers, Allow(d) PROVE RowInv'
  BY <1>4 DEF Allow, Goto, rows, history
<1>5. ASSUME NEW d \in Drivers, Replay(d) PROVE RowInv'
  BY <1>5 DEF Replay, Goto, rows, history
<1>6. ASSUME NEW d \in Drivers, Dispatch(d) PROVE RowInv'
  <2>1. at[d] \in Calls /\ (at[d] \notin risky \/ at[d] \in granted)
    BY <1>6, AtExec DEF Dispatch
  <2>2. \A c \in Calls : c # at[d] => effects'[c] = effects[c]
    BY <1>6 DEF Dispatch
  <2>3. QED
    BY <1>6, <2>1, <2>2 DEF Dispatch, Goto, rows, history
<1>7. ASSUME NEW d \in Drivers, Pause(d) PROVE RowInv'
  BY <1>7 DEF Pause, Goto, End, rows, history
<1>8. ASSUME NEW d \in Drivers, PauseFails(d) PROVE RowInv'
  BY <1>8 DEF PauseFails, Goto, End, rows
<1>9. ASSUME NEW d \in Drivers, DispatchRaises(d) PROVE RowInv'
  <2>1. at[d] \in Calls /\ (at[d] \notin risky \/ at[d] \in granted)
    BY <1>9, AtExec DEF DispatchRaises
  <2>2. \A c \in Calls : c # at[d] => effects'[c] = effects[c]
    BY <1>9 DEF DispatchRaises
  <2>3. QED
    BY <1>9, <2>1, <2>2 DEF DispatchRaises, Goto, End, rows, history
<1>10. ASSUME NEW d \in Drivers, NextCall(d) PROVE RowInv'
  BY <1>10 DEF NextCall, Goto, rows, history
<1>11. ASSUME NEW d \in Drivers, Finish(d) PROVE RowInv'
  BY <1>11 DEF Finish, Goto, End, rows, history
<1>12. ASSUME NEW d \in Drivers, ResumeFlip(d) PROVE RowInv'
  <2>1. CASE approval[at[d]] = "pending"
    BY <1>12, <2>1 DEF ResumeFlip, Goto, End, rows
  <2>2. CASE approval[at[d]] # "pending"
    BY <1>12, <2>2 DEF ResumeFlip, Goto, End, rows
  <2>3. QED
    BY <2>1, <2>2
<1>13. ASSUME NEW d \in Drivers, ResumeLoad(d) PROVE RowInv'
  BY <1>13 DEF ResumeLoad, Goto, End, rows, history
<1>14. ASSUME NEW d \in Drivers, ConfirmStops(d) PROVE RowInv'
  BY <1>14 DEF ConfirmStops, Goto, Outcome, rows, history
<1>15. ASSUME NEW d \in Drivers, ConfirmReserve(d) PROVE RowInv'
  <2>1. ~present /\ at[d] \in Calls /\ approval[at[d]] = "approved" /\ at[d] \in risky /\ at[d] \in granted
    BY <1>15, AtReplay DEF ConfirmReserve
  <2>2. QED
    BY <1>15, <2>1 DEF ConfirmReserve, Goto, Outcome, rows, history
<1>16. ASSUME NEW d \in Drivers, ConfirmCall(d) PROVE RowInv'
  <2>1. at[d] \in Calls /\ at[d] \in granted
    BY <1>16, AtReplay DEF ConfirmCall
  <2>2. \A c \in Calls : c # at[d] => effects'[c] = effects[c]
    BY <1>16 DEF ConfirmCall
  <2>3. QED
    BY <1>16, <2>1, <2>2 DEF ConfirmCall, Goto, rows, history
<1>17. ASSUME NEW d \in Drivers, ConfirmRecord(d) PROVE RowInv'
  <2>1. ~present /\ at[d] \in Calls /\ approval[at[d]] = "approved" /\ at[d] \in risky /\ at[d] \in granted
    BY <1>17, AtReplay DEF ConfirmRecord
  <2>2. QED
    BY <1>17, <2>1 DEF ConfirmRecord, Goto, Outcome, rows, history
<1>18. ASSUME NEW d \in Drivers, ConfirmRaises(d) PROVE RowInv'
  <2>1. at[d] \in Calls /\ at[d] \in granted
    BY <1>18, AtReplay DEF ConfirmRaises
  <2>2. \A c \in Calls : c # at[d] => effects'[c] = effects[c]
    BY <1>18 DEF ConfirmRaises
  <2>3. QED
    BY <1>18, <2>1, <2>2 DEF ConfirmRaises, Goto, Outcome, rows
<1>19. ASSUME NEW d \in Drivers, ConfirmSettle(d) PROVE RowInv'
  <2>1. ~present /\ at[d] \in Calls /\ approval[at[d]] = "approved" /\ at[d] \in risky /\ at[d] \in granted
    BY <1>19, AtReplay DEF ConfirmSettle
  <2>2. QED
    BY <1>19, <2>1 DEF ConfirmSettle, Goto, End, history
<1>20. ASSUME NEW d \in Drivers, CutOff(d) PROVE RowInv'
  BY <1>20 DEF CutOff, Goto, End, rows
<1>21. ASSUME NEW k \in Clients, NEW c \in Calls, NEW decision \in {"approved", "rejected"},
             ResumeGuard(k, c, decision)
      PROVE  RowInv'
  BY <1>21 DEF ResumeGuard, Goto, rows, history
<1>22. ASSUME NEW k \in Clients, NEW c \in Calls, Confirm(k, c) PROVE RowInv'
  BY <1>22 DEF Confirm, Goto
<1>23. ASSUME NEW k \in Clients, NEW c \in Calls, Reject(k, c) PROVE RowInv'
  BY <1>23 DEF Reject, Goto, driver, history
<1>24. ASSUME NEW c \in Calls, ExpireRead(c) PROVE RowInv'
  BY <1>24 DEF ExpireRead, Goto, rows, driver, history
<1>25. ASSUME NEW c \in Calls, ExpireWrite(c) PROVE RowInv'
  BY <1>25 DEF ExpireWrite, Goto, driver, history
<1>26. ASSUME NEW c \in Calls, ExpireAtStartup(c) PROVE RowInv'
  BY <1>26 DEF ExpireAtStartup, Goto, driver, history
<1>27. ASSUME NEW c \in Calls, Age(c) PROVE RowInv'
  BY <1>27 DEF Age, Goto, driver, history
<1>28. CASE SweepRead
  BY <1>28 DEF SweepRead, Pending, Old, Goto, rows, driver, history
<1>29. CASE SweepReap
  BY <1>29 DEF SweepReap, Goto, rows, driver
<1>30. CASE UNCHANGED vars
  BY <1>30 DEF vars
<1>31. QED
  BY Actions, RefusedAll, <1>1, <1>2, <1>3, <1>4, <1>5, <1>6, <1>7, <1>8, <1>9, <1>10, <1>11,
     <1>12, <1>13, <1>14, <1>15, <1>16, <1>17, <1>18, <1>19, <1>20, <1>21, <1>22, <1>23,
     <1>24, <1>25, <1>26, <1>27, <1>28, <1>29, <1>30

\* Nobody arrives at a turn, and nobody leaves it.
LEMMA PresentKept == [Next]_vars => present' = present
<1> SUFFICES ASSUME [Next]_vars PROVE present' = present
  OBVIOUS
<1>1. ASSUME NEW d \in Drivers,
             \/ Refused(d) \/ Ask(d) \/ Prepare(d) \/ Allow(d) \/ Replay(d) \/ Dispatch(d)
             \/ Pause(d) \/ PauseFails(d) \/ DispatchRaises(d) \/ NextCall(d) \/ Finish(d)
      PROVE  present' = present
  BY <1>1 DEF Refused, ToldNo, Ask, Prepare, Allow, Replay, Dispatch, Pause, PauseFails,
     DispatchRaises, NextCall, Finish
<1>2. ASSUME NEW d \in Drivers,
             \/ ResumeFlip(d) \/ ResumeLoad(d) \/ ConfirmStops(d) \/ ConfirmReserve(d)
             \/ ConfirmCall(d) \/ ConfirmRecord(d) \/ ConfirmRaises(d) \/ ConfirmSettle(d)
             \/ CutOff(d)
      PROVE  present' = present
  BY <1>2 DEF ResumeFlip, ResumeLoad, ConfirmStops, ConfirmReserve, ConfirmCall, ConfirmRecord,
     ConfirmRaises, ConfirmSettle, CutOff
<1>3. ASSUME NEW k \in Clients, NEW c \in Calls,
             \/ \E decision \in {"approved", "rejected"} : ResumeGuard(k, c, decision)
             \/ Confirm(k, c) \/ Reject(k, c)
      PROVE  present' = present
  BY <1>3 DEF ResumeGuard, Confirm, Reject
<1>4. ASSUME NEW c \in Calls, ExpireRead(c) \/ ExpireWrite(c) \/ ExpireAtStartup(c) \/ Age(c)
      PROVE  present' = present
  BY <1>4 DEF ExpireRead, ExpireWrite, ExpireAtStartup, Age
<1>5. CASE SweepRead \/ SweepReap
  BY <1>5 DEF SweepRead, SweepReap
<1>6. CASE UNCHANGED vars
  BY <1>6 DEF vars
<1>7. QED
  BY Actions, RefusedAll, <1>1, <1>2, <1>3, <1>4, <1>5, <1>6

\* A prepared call leaves "approved" with its request, or the request was cut off.
LEMMA WorkedOnStep == GatedInv /\ [Next]_vars => ApprovedIsWorkedOn'
<1> SUFFICES ASSUME GatedInv, [Next]_vars PROVE ApprovedIsWorkedOn'
  OBVIOUS
<1>a. Shaped
  BY ShapedType DEF GatedInv, AtMostOneWrite
<1>b. ModeInv /\ ApprovedIsWorkedOn
  BY DEF GatedInv
<1> USE <1>a, <1>b, DriversAre DEF ModeInv, ApprovedIsWorkedOn, Shaped, Confirming
<1>1. ASSUME NEW d \in Drivers, Refused(d) PROVE ApprovedIsWorkedOn'
  BY <1>1 DEF Refused, ToldNo, Goto, rows, history
<1>2. ASSUME NEW d \in Drivers, Ask(d) PROVE ApprovedIsWorkedOn'
  BY <1>2 DEF Ask, Persist, ResolveConfirmation, Goto, history
<1>3. ASSUME NEW d \in Drivers, Prepare(d) PROVE ApprovedIsWorkedOn'
  BY <1>3 DEF Prepare, Persist, ResolveConfirmation, Goto, history
<1>4. ASSUME NEW d \in Drivers, Allow(d) PROVE ApprovedIsWorkedOn'
  BY <1>4 DEF Allow, Goto, rows, history
<1>5. ASSUME NEW d \in Drivers, Replay(d) PROVE ApprovedIsWorkedOn'
  BY <1>5 DEF Replay, Goto, rows, history
<1>6. ASSUME NEW d \in Drivers, Dispatch(d) PROVE ApprovedIsWorkedOn'
  BY <1>6 DEF Dispatch, Goto, rows, history
<1>7. ASSUME NEW d \in Drivers, Pause(d) PROVE ApprovedIsWorkedOn'
  BY <1>7 DEF Pause, Goto, End, rows, history
<1>8. ASSUME NEW d \in Drivers, PauseFails(d) PROVE ApprovedIsWorkedOn'
  BY <1>8 DEF PauseFails, Goto, End, rows
<1>9. ASSUME NEW d \in Drivers, DispatchRaises(d) PROVE ApprovedIsWorkedOn'
  BY <1>9 DEF DispatchRaises, Goto, End, rows, history
<1>10. ASSUME NEW d \in Drivers, NextCall(d) PROVE ApprovedIsWorkedOn'
  BY <1>10 DEF NextCall, Goto, rows, history
<1>11. ASSUME NEW d \in Drivers, Finish(d) PROVE ApprovedIsWorkedOn'
  BY <1>11 DEF Finish, Goto, End, rows, history
<1>12. ASSUME NEW d \in Drivers, ResumeFlip(d) PROVE ApprovedIsWorkedOn'
  BY <1>12 DEF ResumeFlip, Goto, End, rows
<1>13. ASSUME NEW d \in Drivers, ResumeLoad(d) PROVE ApprovedIsWorkedOn'
  BY <1>13 DEF ResumeLoad, Goto, End, rows, history
<1>14. ASSUME NEW d \in Drivers, ConfirmStops(d) PROVE ApprovedIsWorkedOn'
  BY <1>14 DEF ConfirmStops, Goto, Outcome, rows, history
<1>15. ASSUME NEW d \in Drivers, ConfirmReserve(d) PROVE ApprovedIsWorkedOn'
  BY <1>15 DEF ConfirmReserve, Goto, Outcome, rows, history
<1>16. ASSUME NEW d \in Drivers, ConfirmCall(d) PROVE ApprovedIsWorkedOn'
  BY <1>16 DEF ConfirmCall, Goto, rows, history
<1>17. ASSUME NEW d \in Drivers, ConfirmRecord(d) PROVE ApprovedIsWorkedOn'
  BY <1>17 DEF ConfirmRecord, Goto, Outcome, rows, history
<1>18. ASSUME NEW d \in Drivers, ConfirmRaises(d) PROVE ApprovedIsWorkedOn'
  BY <1>18 DEF ConfirmRaises, Goto, Outcome, rows
<1>19. ASSUME NEW d \in Drivers, ConfirmSettle(d) PROVE ApprovedIsWorkedOn'
  BY <1>19 DEF ConfirmSettle, Goto, End, history
<1>20. ASSUME NEW d \in Drivers, CutOff(d) PROVE ApprovedIsWorkedOn'
  BY <1>20 DEF CutOff, Goto, End, rows
<1>21. ASSUME NEW k \in Clients, NEW c \in Calls, NEW decision \in {"approved", "rejected"},
             ResumeGuard(k, c, decision)
      PROVE  ApprovedIsWorkedOn'
  BY <1>21 DEF ResumeGuard, Goto, rows, history
<1>22. ASSUME NEW k \in Clients, NEW c \in Calls, Confirm(k, c) PROVE ApprovedIsWorkedOn'
  BY <1>22 DEF Confirm, Goto
<1>23. ASSUME NEW k \in Clients, NEW c \in Calls, Reject(k, c) PROVE ApprovedIsWorkedOn'
  BY <1>23 DEF Reject, Goto, driver, history
<1>24. ASSUME NEW c \in Calls, ExpireRead(c) PROVE ApprovedIsWorkedOn'
  BY <1>24 DEF ExpireRead, Goto, rows, driver, history
<1>25. ASSUME NEW c \in Calls, ExpireWrite(c) PROVE ApprovedIsWorkedOn'
  BY <1>25 DEF ExpireWrite, Goto, driver, history
<1>26. ASSUME NEW c \in Calls, ExpireAtStartup(c) PROVE ApprovedIsWorkedOn'
  BY <1>26 DEF ExpireAtStartup, Goto, driver, history
<1>27. ASSUME NEW c \in Calls, Age(c) PROVE ApprovedIsWorkedOn'
  BY <1>27 DEF Age, Goto, driver, history
<1>28. CASE SweepRead
  BY <1>28 DEF SweepRead, Pending, Old, Goto, rows, driver, history
<1>29. CASE SweepReap
  BY <1>29 DEF SweepReap, Goto, rows, driver
<1>30. CASE UNCHANGED vars
  BY <1>30 DEF vars
<1>31. QED
  BY Actions, RefusedAll, <1>1, <1>2, <1>3, <1>4, <1>5, <1>6, <1>7, <1>8, <1>9, <1>10, <1>11,
     <1>12, <1>13, <1>14, <1>15, <1>16, <1>17, <1>18, <1>19, <1>20, <1>21, <1>22, <1>23,
     <1>24, <1>25, <1>26, <1>27, <1>28, <1>29, <1>30

\* A step about the call b disturbs nobody who works on another one.
LEMMA Frame ==
  ASSUME Shaped, ReplayInv, ~present, present' = present,
         NEW d \in Drivers, NEW b \in Calls,
         \A k \in Clients \ {d} : /\ pc'[k] = pc[k] /\ at'[k] = at[k] /\ word'[k] = word[k]
                                  /\ pc[k] # "idle" => at[k] # b,
         \A c \in Calls \ {b} : /\ approval'[c] = approval[c] /\ ledger'[c] = ledger[c]
                                /\ effects'[c] = effects[c],
         unsure \subseteq unsure',
         d \in Clients => (pc'[d] # "idle" => at'[d] = b) /\ Working(d)',
         Written(b)'
  PROVE  ReplayInv'
<1>1. ASSUME NEW k \in Clients, k # d PROVE Working(k)'
  <2>1. Working(k) /\ at[k] \in Calls
    BY DriversAre DEF ReplayInv, Shaped
  <2>2. CASE pc[k] = "idle"
    BY <1>1, <2>2 DEF Working
  <2>3. CASE pc[k] # "idle"
    <3>1. at[k] # b /\ at'[k] = at[k] /\ pc'[k] = pc[k] /\ word'[k] = word[k]
      BY <1>1, <2>3
    <3>2. approval'[at[k]] = approval[at[k]] /\ ledger'[at[k]] = ledger[at[k]] /\ effects'[at[k]] = effects[at[k]]
      BY <2>1, <3>1
    <3>3. QED
      BY <2>1, <3>1, <3>2 DEF Working, Open
  <2>4. QED
    BY <2>2, <2>3
<1>2. ASSUME NEW c \in Calls, c # b PROVE Written(c)'
  <2>1. Written(c)
    BY DEF ReplayInv
  <2>2. approval'[c] = approval[c] /\ ledger'[c] = ledger[c] /\ effects'[c] = effects[c]
    BY <1>2
  <2>3. QED
    BY <2>1, <2>2 DEF Written, Open
<1>3. ASSUME NEW j \in Clients, NEW k \in Clients, pc'[j] # "idle", pc'[k] # "idle", at'[j] = at'[k]
      PROVE  j = k
  BY <1>3 DEF ReplayInv
<1>4. QED
  BY <1>1, <1>2, <1>3 DEF ReplayInv

\* The requests that replay prepared calls keep out of each other's way.
LEMMA ReplayStep == GatedInv /\ [Next]_vars => ReplayInv'
<1> SUFFICES ASSUME GatedInv, [Next]_vars, ~present PROVE ReplayInv'
  BY PresentKept DEF ReplayInv
<1>a. Shaped
  BY ShapedType DEF GatedInv, AtMostOneWrite
<1>b. ModeInv /\ ReplayInv /\ RowInv
  BY DEF GatedInv
<1> USE <1>a, <1>b, DriversAre
<1>1. ASSUME NEW d \in Drivers, Refused(d) PROVE ReplayInv'
  BY <1>1 DEF Refused, ToldNo, Goto, rows, history, ModeInv, ReplayInv, Working, Written, Open,
     Shaped, Confirming
<1>2. ASSUME NEW d \in Drivers, Ask(d) PROVE ReplayInv'
  BY <1>2 DEF Ask, Persist, ResolveConfirmation, Goto, history, ModeInv, ReplayInv, Working,
     Written, Open, Shaped, Confirming
<1>3. ASSUME NEW d \in Drivers, Prepare(d) PROVE ReplayInv'
  <2>1. at[d] \in Calls /\ d \notin Clients
    BY <1>3 DEF Prepare, ModeInv, Confirming, Shaped
  <2>0. PICK b \in Calls : b = at[d]
    BY <2>1
  <2>2. \A k \in Clients : pc[k] # "idle" => at[k] # b
    BY <1>3, <2>0 DEF Prepare, Persist, ReplayInv, Working
  <2>3. Active(d)
    BY <1>3 DEF Prepare, Active
  <2>4. approval[at[d]] = "none" /\ ledger[at[d]] = "none" /\ effects[at[d]] = 0
    BY <1>3, <2>1, <2>3 DEF Prepare, Persist, RowInv, GatedInv, ThreadInv, Moving
  <2>5. Written(b)'
    BY <1>3, <2>0, <2>1, <2>4 DEF Prepare, Persist, Goto, history, Written, Open, Shaped
  <2>6. QED
    BY <1>3, <2>0, <2>1, <2>2, <2>5, Frame DEF Prepare, Persist, Goto, history, Shaped
<1>4. ASSUME NEW d \in Drivers, Allow(d) PROVE ReplayInv'
  BY <1>4 DEF Allow, Goto, rows, history, ModeInv, ReplayInv, Working, Written, Open, Shaped,
     Confirming
<1>5. ASSUME NEW d \in Drivers, Replay(d) PROVE ReplayInv'
  BY <1>5 DEF Replay, Goto, rows, history, ModeInv, ReplayInv, Working, Written, Open, Shaped,
     Confirming
<1>6. ASSUME NEW d \in Drivers, Dispatch(d) PROVE ReplayInv'
  <2>1. at[d] \in Calls /\ d \notin Clients /\ approval[at[d]] = "none" /\ ledger[at[d]] = "none"
    BY <1>6, AtExec DEF Dispatch, ModeInv, RowInv, Confirming
  <2>0. PICK b \in Calls : b = at[d]
    BY <2>1
  <2>2. \A k \in Clients : pc[k] # "idle" => at[k] # b
    BY <2>0, <2>1 DEF ReplayInv, Working
  <2>3. Written(b)'
    <3>1. approval' = approval
      BY <1>6 DEF Dispatch, rows
    <3>2. QED
      BY <2>0, <2>1, <3>1 DEF Written
  <2>4. \A j \in Clients \ {d} :
          /\ pc'[j] = pc[j] /\ at'[j] = at[j] /\ word'[j] = word[j]
          /\ pc[j] # "idle" => at[j] # b
    BY <1>6, <2>0, <2>1, <2>2 DEF Dispatch, Goto, rows, history, Shaped
  <2>5. \A e \in Calls \ {b} :
          /\ approval'[e] = approval[e] /\ ledger'[e] = ledger[e]
          /\ effects'[e] = effects[e]
    BY <1>6, <2>0, <2>1, <2>2 DEF Dispatch, Goto, rows, history, Shaped
  <2>6. /\ present' = present /\ unsure \subseteq unsure'
        /\ d \in Clients => (pc'[d] # "idle" => at'[d] = b)
    BY <1>6, <2>0, <2>1, <2>2 DEF Dispatch, Goto, rows, history, Shaped
  <2>7. QED
    BY <2>1, <2>3, <2>4, <2>5, <2>6, Frame
<1>7. ASSUME NEW d \in Drivers, Pause(d) PROVE ReplayInv'
  BY <1>7 DEF Pause, Goto, End, rows, history, ModeInv, ReplayInv, Working, Written, Open,
     Shaped, Confirming
<1>8. ASSUME NEW d \in Drivers, PauseFails(d) PROVE ReplayInv'
  BY <1>8 DEF PauseFails, Goto, End, rows, ModeInv, ReplayInv, Working, Written, Open, Shaped,
     Confirming
<1>9. ASSUME NEW d \in Drivers, DispatchRaises(d) PROVE ReplayInv'
  <2>1. at[d] \in Calls /\ d \notin Clients /\ approval[at[d]] = "none" /\ ledger[at[d]] = "none"
    BY <1>9, AtExec DEF DispatchRaises, ModeInv, RowInv, Confirming
  <2>0. PICK b \in Calls : b = at[d]
    BY <2>1
  <2>2. \A k \in Clients : pc[k] # "idle" => at[k] # b
    BY <2>0, <2>1 DEF ReplayInv, Working
  <2>3. Written(b)'
    <3>1. approval' = approval
      BY <1>9 DEF DispatchRaises, rows
    <3>2. QED
      BY <2>0, <2>1, <3>1 DEF Written
  <2>4. \A j \in Clients \ {d} :
          /\ pc'[j] = pc[j] /\ at'[j] = at[j] /\ word'[j] = word[j]
          /\ pc[j] # "idle" => at[j] # b
    BY <1>9, <2>0, <2>1, <2>2 DEF DispatchRaises, Goto, End, rows, history, Shaped
  <2>5. \A e \in Calls \ {b} :
          /\ approval'[e] = approval[e] /\ ledger'[e] = ledger[e]
          /\ effects'[e] = effects[e]
    BY <1>9, <2>0, <2>1, <2>2 DEF DispatchRaises, Goto, End, rows, history, Shaped
  <2>6. /\ present' = present /\ unsure \subseteq unsure'
        /\ d \in Clients => (pc'[d] # "idle" => at'[d] = b)
    BY <1>9, <2>0, <2>1, <2>2 DEF DispatchRaises, Goto, End, rows, history, Shaped
  <2>7. QED
    BY <2>1, <2>3, <2>4, <2>5, <2>6, Frame
<1>10. ASSUME NEW d \in Drivers, NextCall(d) PROVE ReplayInv'
  BY <1>10 DEF NextCall, Goto, rows, history, ModeInv, ReplayInv, Working, Written, Open,
     Shaped, Confirming
<1>11. ASSUME NEW d \in Drivers, Finish(d) PROVE ReplayInv'
  BY <1>11 DEF Finish, Goto, End, rows, history, ModeInv, ReplayInv, Working, Written, Open,
     Shaped, Confirming
<1>12. ASSUME NEW d \in Drivers, ResumeFlip(d) PROVE ReplayInv'
  BY <1>12 DEF ResumeFlip, Goto, End, rows, ModeInv, ReplayInv, Working, Written, Open, Shaped,
     Confirming
<1>13. ASSUME NEW d \in Drivers, ResumeLoad(d) PROVE ReplayInv'
  BY <1>13 DEF ResumeLoad, Goto, End, rows, history, ModeInv, ReplayInv, Working, Written, Open,
     Shaped, Confirming
<1>14. ASSUME NEW d \in Drivers, ConfirmStops(d) PROVE ReplayInv'
  <2>1. d \in Clients /\ at[d] \in Calls /\ approval[at[d]] = "approved"
    BY <1>14, AtReplay DEF ConfirmStops, Confirming
  <2>0. PICK b \in Calls : b = at[d]
    BY <2>1
  <2>2. \A k \in Clients \ {d} : pc[k] # "idle" => at[k] # b
    BY <1>14, <2>0, <2>1 DEF ConfirmStops, ReplayInv
  <2>3. Working(d) /\ Written(at[d])
    BY <2>1 DEF ReplayInv
  <2>4. Working(d)' /\ Written(b)'
    BY <1>14, <1>b, <2>0, <2>1, <2>3 DEF ConfirmStops, Goto, Outcome, rows, history, ReplayInv,
       Working, Written, Open, Shaped
  <2>5. \A j \in Clients \ {d} :
          /\ pc'[j] = pc[j] /\ at'[j] = at[j] /\ word'[j] = word[j]
          /\ pc[j] # "idle" => at[j] # b
    BY <1>14, <2>0, <2>1, <2>2 DEF ConfirmStops, Goto, Outcome, rows, history, Shaped
  <2>6. \A e \in Calls \ {b} :
          /\ approval'[e] = approval[e] /\ ledger'[e] = ledger[e]
          /\ effects'[e] = effects[e]
    BY <1>14, <2>0, <2>1, <2>2 DEF ConfirmStops, Goto, Outcome, rows, history, Shaped
  <2>7. /\ present' = present /\ unsure \subseteq unsure'
        /\ d \in Clients => (pc'[d] # "idle" => at'[d] = b)
    BY <1>14, <2>0, <2>1, <2>2 DEF ConfirmStops, Goto, Outcome, rows, history, Shaped
  <2>8. QED
    BY <2>4, <2>5, <2>6, <2>7, Frame
<1>15. ASSUME NEW d \in Drivers, ConfirmReserve(d) PROVE ReplayInv'
  <2>1. d \in Clients /\ at[d] \in Calls /\ approval[at[d]] = "approved"
    BY <1>15, AtReplay DEF ConfirmReserve, Confirming
  <2>0. PICK b \in Calls : b = at[d]
    BY <2>1
  <2>2. \A k \in Clients \ {d} : pc[k] # "idle" => at[k] # b
    BY <1>15, <2>0, <2>1 DEF ConfirmReserve, ReplayInv
  <2>3. Working(d) /\ Written(at[d])
    BY <2>1 DEF ReplayInv
  <2>4. Working(d)' /\ Written(b)'
    BY <1>15, <1>b, <2>0, <2>1, <2>3 DEF ConfirmReserve, Goto, Outcome, rows, history,
       ReplayInv, Working, Written, Open, Shaped
  <2>5. \A j \in Clients \ {d} :
          /\ pc'[j] = pc[j] /\ at'[j] = at[j] /\ word'[j] = word[j]
          /\ pc[j] # "idle" => at[j] # b
    BY <1>15, <2>0, <2>1, <2>2 DEF ConfirmReserve, Goto, Outcome, rows, history, Shaped
  <2>6. \A e \in Calls \ {b} :
          /\ approval'[e] = approval[e] /\ ledger'[e] = ledger[e]
          /\ effects'[e] = effects[e]
    BY <1>15, <2>0, <2>1, <2>2 DEF ConfirmReserve, Goto, Outcome, rows, history, Shaped
  <2>7. /\ present' = present /\ unsure \subseteq unsure'
        /\ d \in Clients => (pc'[d] # "idle" => at'[d] = b)
    BY <1>15, <2>0, <2>1, <2>2 DEF ConfirmReserve, Goto, Outcome, rows, history, Shaped
  <2>8. QED
    BY <2>4, <2>5, <2>6, <2>7, Frame
<1>16. ASSUME NEW d \in Drivers, ConfirmCall(d) PROVE ReplayInv'
  <2>1. d \in Clients /\ at[d] \in Calls /\ approval[at[d]] = "approved"
    BY <1>16, AtReplay DEF ConfirmCall, Confirming
  <2>0. PICK b \in Calls : b = at[d]
    BY <2>1
  <2>2. \A k \in Clients \ {d} : pc[k] # "idle" => at[k] # b
    BY <1>16, <2>0, <2>1 DEF ConfirmCall, ReplayInv
  <2>3. Working(d) /\ Written(at[d])
    BY <2>1 DEF ReplayInv
  <2>4. Working(d)' /\ Written(b)'
    BY <1>16, <1>b, <2>0, <2>1, <2>3 DEF ConfirmCall, Goto, rows, history, ReplayInv, Working,
       Written, Open, Shaped
  <2>5. \A j \in Clients \ {d} :
          /\ pc'[j] = pc[j] /\ at'[j] = at[j] /\ word'[j] = word[j]
          /\ pc[j] # "idle" => at[j] # b
    BY <1>16, <2>0, <2>1, <2>2 DEF ConfirmCall, Goto, rows, history, Shaped
  <2>6. \A e \in Calls \ {b} :
          /\ approval'[e] = approval[e] /\ ledger'[e] = ledger[e]
          /\ effects'[e] = effects[e]
    BY <1>16, <2>0, <2>1, <2>2 DEF ConfirmCall, Goto, rows, history, Shaped
  <2>7. /\ present' = present /\ unsure \subseteq unsure'
        /\ d \in Clients => (pc'[d] # "idle" => at'[d] = b)
    BY <1>16, <2>0, <2>1, <2>2 DEF ConfirmCall, Goto, rows, history, Shaped
  <2>8. QED
    BY <2>4, <2>5, <2>6, <2>7, Frame
<1>17. ASSUME NEW d \in Drivers, ConfirmRecord(d) PROVE ReplayInv'
  <2>1. d \in Clients /\ at[d] \in Calls /\ approval[at[d]] = "approved"
    BY <1>17, AtReplay DEF ConfirmRecord, Confirming
  <2>0. PICK b \in Calls : b = at[d]
    BY <2>1
  <2>2. \A k \in Clients \ {d} : pc[k] # "idle" => at[k] # b
    BY <1>17, <2>0, <2>1 DEF ConfirmRecord, ReplayInv
  <2>3. Working(d) /\ Written(at[d])
    BY <2>1 DEF ReplayInv
  <2>4. Working(d)' /\ Written(b)'
    BY <1>17, <1>b, <2>0, <2>1, <2>3 DEF ConfirmRecord, Goto, Outcome, rows, history, ReplayInv,
       Working, Written, Open, Shaped
  <2>5. \A j \in Clients \ {d} :
          /\ pc'[j] = pc[j] /\ at'[j] = at[j] /\ word'[j] = word[j]
          /\ pc[j] # "idle" => at[j] # b
    BY <1>17, <2>0, <2>1, <2>2 DEF ConfirmRecord, Goto, Outcome, rows, history, Shaped
  <2>6. \A e \in Calls \ {b} :
          /\ approval'[e] = approval[e] /\ ledger'[e] = ledger[e]
          /\ effects'[e] = effects[e]
    BY <1>17, <2>0, <2>1, <2>2 DEF ConfirmRecord, Goto, Outcome, rows, history, Shaped
  <2>7. /\ present' = present /\ unsure \subseteq unsure'
        /\ d \in Clients => (pc'[d] # "idle" => at'[d] = b)
    BY <1>17, <2>0, <2>1, <2>2 DEF ConfirmRecord, Goto, Outcome, rows, history, Shaped
  <2>8. QED
    BY <2>4, <2>5, <2>6, <2>7, Frame
<1>18. ASSUME NEW d \in Drivers, ConfirmRaises(d) PROVE ReplayInv'
  <2>1. d \in Clients /\ at[d] \in Calls /\ approval[at[d]] = "approved"
    BY <1>18, AtReplay DEF ConfirmRaises, Confirming
  <2>0. PICK b \in Calls : b = at[d]
    BY <2>1
  <2>2. \A k \in Clients \ {d} : pc[k] # "idle" => at[k] # b
    BY <1>18, <2>0, <2>1 DEF ConfirmRaises, ReplayInv
  <2>3. Working(d) /\ Written(at[d])
    BY <2>1 DEF ReplayInv
  <2>4. Working(d)' /\ Written(b)'
    BY <1>18, <1>b, <2>0, <2>1, <2>3 DEF ConfirmRaises, Goto, Outcome, rows, ReplayInv, Working,
       Written, Open, Shaped
  <2>5. \A j \in Clients \ {d} :
          /\ pc'[j] = pc[j] /\ at'[j] = at[j] /\ word'[j] = word[j]
          /\ pc[j] # "idle" => at[j] # b
    BY <1>18, <2>0, <2>1, <2>2 DEF ConfirmRaises, Goto, Outcome, rows, Shaped
  <2>6. \A e \in Calls \ {b} :
          /\ approval'[e] = approval[e] /\ ledger'[e] = ledger[e]
          /\ effects'[e] = effects[e]
    BY <1>18, <2>0, <2>1, <2>2 DEF ConfirmRaises, Goto, Outcome, rows, Shaped
  <2>7. /\ present' = present /\ unsure \subseteq unsure'
        /\ d \in Clients => (pc'[d] # "idle" => at'[d] = b)
    BY <1>18, <2>0, <2>1, <2>2 DEF ConfirmRaises, Goto, Outcome, rows, Shaped
  <2>8. QED
    BY <2>4, <2>5, <2>6, <2>7, Frame
<1>19. ASSUME NEW d \in Drivers, ConfirmSettle(d) PROVE ReplayInv'
  <2>1. d \in Clients /\ at[d] \in Calls /\ approval[at[d]] = "approved"
    BY <1>19, AtReplay DEF ConfirmSettle, Confirming
  <2>0. PICK b \in Calls : b = at[d]
    BY <2>1
  <2>2. \A k \in Clients \ {d} : pc[k] # "idle" => at[k] # b
    BY <1>19, <2>0, <2>1 DEF ConfirmSettle, ReplayInv
  <2>3. Working(d) /\ Written(at[d])
    BY <2>1 DEF ReplayInv
  <2>4. Working(d)' /\ Written(b)'
    <3>1. word[d] \in {"pending", "executed", "failed"} /\ pc[d] = "settle"
      BY <1>19 DEF ConfirmSettle, ModeInv
    <3>2. /\ approval' = [approval EXCEPT ![at[d]] = word[d]] /\ pc'[d] = "idle"
          /\ UNCHANGED <<effects, ledger, unsure>>
      BY <1>19 DEF ConfirmSettle, Goto, End, history, ModeInv, ReplayInv, Working, Written,
         Open, Shaped, Confirming
    <3>3. approval'[at[d]] = word[d]
      BY <2>1, <3>2 DEF Shaped
    <3>4. Written(b)'
      BY <2>0, <2>3, <3>1, <3>2, <3>3 DEF Working, Written, Open
    <3>5. QED
      BY <3>2, <3>4 DEF Working
  <2>5. \A j \in Clients \ {d} :
          /\ pc'[j] = pc[j] /\ at'[j] = at[j] /\ word'[j] = word[j]
          /\ pc[j] # "idle" => at[j] # b
    BY <1>19, <2>0, <2>1, <2>2 DEF ConfirmSettle, Goto, End, history, Shaped
  <2>6. \A e \in Calls \ {b} :
          /\ approval'[e] = approval[e] /\ ledger'[e] = ledger[e]
          /\ effects'[e] = effects[e]
    BY <1>19, <2>0, <2>1, <2>2 DEF ConfirmSettle, Goto, End, history, Shaped
  <2>7. /\ present' = present /\ unsure \subseteq unsure'
        /\ d \in Clients => (pc'[d] # "idle" => at'[d] = b)
    BY <1>19, <2>0, <2>1, <2>2 DEF ConfirmSettle, Goto, End, history, Shaped
  <2>8. QED
    BY <2>4, <2>5, <2>6, <2>7, Frame
<1>20. ASSUME NEW d \in Drivers, CutOff(d) PROVE ReplayInv'
  BY <1>20 DEF CutOff, Goto, End, rows, ModeInv, ReplayInv, Working, Written, Open, Shaped,
     Confirming
<1>21. ASSUME NEW k \in Clients, NEW c \in Calls, NEW decision \in {"approved", "rejected"},
             ResumeGuard(k, c, decision)
      PROVE  ReplayInv'
  BY <1>21 DEF ResumeGuard, Goto, rows, history, ModeInv, ReplayInv, Working, Written, Open,
     Shaped, Confirming
<1>22. ASSUME NEW k \in Clients, NEW c \in Calls, Confirm(k, c) PROVE ReplayInv'
  <2>1. \A j \in Clients : pc[j] # "idle" => at[j] # c
    BY <1>22 DEF Confirm, ReplayInv, Working
  <2>2. Written(c)
    BY DEF ReplayInv
  <2>3. Working(k)' /\ Written(c)'
    BY <1>22, <2>2 DEF Confirm, Goto, Working, Written, Open, Shaped
  <2>4. \A j \in Clients \ {k} :
          /\ pc'[j] = pc[j] /\ at'[j] = at[j] /\ word'[j] = word[j]
          /\ pc[j] # "idle" => at[j] # c
    BY <1>22, <2>1 DEF Confirm, Goto, Shaped
  <2>5. \A e \in Calls \ {c} :
          /\ approval'[e] = approval[e] /\ ledger'[e] = ledger[e]
          /\ effects'[e] = effects[e]
    BY <1>22, <2>1 DEF Confirm, Goto, Shaped
  <2>6. /\ present' = present /\ unsure \subseteq unsure'
        /\ k \in Clients => (pc'[k] # "idle" => at'[k] = c)
    BY <1>22, <2>1 DEF Confirm, Goto, Shaped
  <2>7. QED
    BY <2>1, <2>3, <2>4, <2>5, <2>6, Frame
<1>23. ASSUME NEW k \in Clients, NEW c \in Calls, Reject(k, c) PROVE ReplayInv'
  <2>1. \A j \in Clients : pc[j] # "idle" => at[j] # c
    BY <1>23 DEF Reject, ReplayInv, Working
  <2>2. Written(c)
    BY DEF ReplayInv
  <2>3. Working(k)' /\ Written(c)'
    BY <1>23, <2>2 DEF Reject, Goto, driver, history, Working, Written, Open, Shaped
  <2>4. QED
    BY <1>23, <2>1, <2>3, Frame DEF Reject, Goto, driver, history, Shaped
<1>24. ASSUME NEW c \in Calls, ExpireRead(c) PROVE ReplayInv'
  BY <1>24 DEF ExpireRead, Goto, rows, driver, history, ModeInv, ReplayInv, Working, Written,
     Open, Shaped, Confirming
<1>25. ASSUME NEW c \in Calls, ExpireWrite(c) PROVE ReplayInv'
  BY <1>25 DEF ExpireWrite, Goto, driver, history, ModeInv, ReplayInv, Working, Written, Open,
     Shaped, Confirming
<1>26. ASSUME NEW c \in Calls, ExpireAtStartup(c) PROVE ReplayInv'
  BY <1>26 DEF ExpireAtStartup, Goto, driver, history, ModeInv, ReplayInv, Working, Written,
     Open, Shaped, Confirming
<1>27. ASSUME NEW c \in Calls, Age(c) PROVE ReplayInv'
  BY <1>27 DEF Age, Goto, driver, history, ModeInv, ReplayInv, Working, Written, Open, Shaped,
     Confirming
<1>28. CASE SweepRead
  BY <1>28 DEF SweepRead, Pending, Old, Goto, rows, driver, history, ModeInv, ReplayInv,
     Working, Written, Open, Shaped, Confirming
<1>29. CASE SweepReap
  BY <1>29 DEF SweepReap, Goto, rows, driver, ModeInv, ReplayInv, Working, Written, Open,
     Shaped, Confirming
<1>30. CASE UNCHANGED vars
  BY <1>30 DEF vars, ReplayInv, Working, Written, Open
<1>31. QED
  BY Actions, RefusedAll, <1>1, <1>2, <1>3, <1>4, <1>5, <1>6, <1>7, <1>8, <1>9, <1>10, <1>11,
     <1>12, <1>13, <1>14, <1>15, <1>16, <1>17, <1>18, <1>19, <1>20, <1>21, <1>22, <1>23,
     <1>24, <1>25, <1>26, <1>27, <1>28, <1>29, <1>30

\* What lies after the next call lies after this one.
LEMMA OnePast ==
  \A c \in Calls : c < N => /\ c + 1 \in Calls /\ c + 1 > c
                            /\ \A b \in Calls : b > c + 1 => b > c
BY DEF Calls

\* A step of the driver of the thread, with nobody else at it.
LEMMA Driven ==
  ASSUME Shaped, ThreadInv, present' = present, NEW d \in Drivers, Active(d),
         \A e \in Drivers \ {d} : pc'[e] = pc[e],
         present => /\ approval' = approval
                    /\ \A c \in Calls : approval[c] = "rejected" => effects'[c] = effects[c],
         Active(d)' => Moving(d)'
  PROVE  ThreadInv'
<1>1. \A e \in Drivers : Active(e)' => e = d
  BY DEF ThreadInv, Active
<1>2. ASSUME present, NEW c \in Calls PROVE Waiting(c)'
  <2>1. Waiting(c) /\ approval[c] # "pending"
    BY <1>2 DEF ThreadInv, Waiting
  <2>2. QED
    BY <1>2, <2>1 DEF Waiting
<1>3. QED
  BY <1>1, <1>2 DEF ThreadInv

\* A step that leaves rows and writes, and the driver of the thread, alone.
LEMMA Quiet ==
  ASSUME Shaped, ThreadInv, UNCHANGED <<present, risky, approval, effects, granted>>,
         \A e \in Drivers :
              /\ Active(e)' <=> Active(e)
              /\ Active(e) => pc'[e] = pc[e] /\ at'[e] = at[e] /\ word'[e] = word[e],
         \A c \in Calls : Kept(c) => Kept(c)'
  PROVE  ThreadInv'
<1>1. ASSUME NEW e \in Drivers, Active(e) PROVE Moving(e)'
  <2>1. Moving(e) /\ at[e] \in Calls
    BY <1>1 DEF ThreadInv, Shaped
  <2>2. PICK c \in Calls : c = at[e]
    BY <2>1
  <2>3. Kept(c)' /\ Ahead(c)'
    BY <2>1, <2>2 DEF Moving, Ahead
  <2>4. QED
    BY <1>1, <2>1, <2>2, <2>3 DEF Moving, Kept, Ahead
<1>2. ASSUME present, NEW c \in Calls PROVE Waiting(c)'
  BY <1>2 DEF ThreadInv, Waiting, Ahead
<1>3. QED
  BY <1>1, <1>2 DEF ThreadInv

\* A step about a prepared row: the turn that prepared it has gone on.
LEMMA Prepared ==
  ASSUME Shaped, ModeInv, RowInv, ThreadInv, ~present, UNCHANGED <<present, risky, checkpoint, lost>>,
         granted \subseteq granted', NEW b \in Calls, approval[b] # "none",
         \A e \in Drivers :
              /\ Active(e)' <=> Active(e)
              /\ Active(e) => pc'[e] = pc[e] /\ at'[e] = at[e] /\ word'[e] = word[e],
         \A c \in Calls \ {b} : approval'[c] = approval[c] /\ effects'[c] = effects[c]
  PROVE  ThreadInv'
<1>1. ASSUME NEW e \in Drivers, Active(e) PROVE Moving(e)'
  <2>1. Moving(e) /\ at[e] \in Calls
    BY <1>1 DEF ThreadInv, Shaped
  <2>2. e = "turn" /\ pc[e] \in {"gate", "exec", "next"}
    BY <1>1, DriversAre DEF ModeInv, Active, Confirming
  <2>3. pc[e] # "next" => at[e] # b
    BY <2>1, <2>2 DEF Moving, RowInv
  <2>4. \A c \in Calls : c > at[e] => c # b
    BY <2>1 DEF Moving, Ahead
  <2>5. PICK c \in Calls : c = at[e]
    BY <2>1
  <2>6. Kept(c)' /\ Ahead(c)'
    BY <2>1, <2>4, <2>5 DEF Moving, Kept, Ahead
  <2>7. pc[e] # "next" => effects'[c] = effects[c] /\ approval'[c] = approval[c]
    BY <2>3, <2>5
  <2>8. QED
    BY <1>1, <2>1, <2>2, <2>5, <2>6, <2>7 DEF Moving, Kept, Ahead
<1>2. QED
  BY <1>1 DEF ThreadInv

\* A row expires: its thread is not resumed with it any more, and a driver that
\* was granted the write before goes on.
LEMMA Expired ==
  ASSUME Shaped, ThreadInv, RowInv, present, NEW b \in Calls, approval[b] # "none",
         approval' = [approval EXCEPT ![b] = "expired"],
         UNCHANGED <<present, risky, pc, at, word, checkpoint, effects, granted, lost>>
  PROVE  ThreadInv'
<1>1. approval'[b] = "expired" /\ \A c \in Calls : c # b => approval'[c] = approval[c]
  BY DEF Shaped
<1>2. \A c \in Calls : (Kept(c) => Kept(c)') /\ (Ahead(c) => Ahead(c)')
  BY <1>1 DEF Kept, Ahead
<1>3. \A e \in Drivers : Active(e)' <=> Active(e)
  BY DEF Active
<1>4. ASSUME NEW e \in Drivers, Active(e) PROVE Moving(e)'
  <2>1. Moving(e) /\ at[e] \in Calls
    BY <1>4 DEF ThreadInv, Shaped
  <2>2. PICK c \in Calls : c = at[e]
    BY <2>1
  <2>3. Kept(c)' /\ Ahead(c)'
    BY <1>2, <2>1, <2>2 DEF Moving
  <2>4. QED
    BY <1>1, <2>1, <2>2, <2>3 DEF Moving, Kept, Ahead
<1>5. ASSUME NEW c \in Calls PROVE Waiting(c)'
  BY <1>1, <1>2, <1>3 DEF ThreadInv, Waiting
<1>6. QED
  BY <1>3, <1>4, <1>5 DEF ThreadInv

\* The thread keeps its one driver or its one question.
LEMMA ThreadStep == GatedInv /\ [Next]_vars => ThreadInv'
<1> SUFFICES ASSUME GatedInv, [Next]_vars PROVE ThreadInv'
  OBVIOUS
<1>a. Shaped
  BY ShapedType DEF GatedInv, AtMostOneWrite
<1>b. ModeInv /\ ThreadInv /\ RowInv
  BY DEF GatedInv
<1> USE <1>a, <1>b, DriversAre
<1>1. ASSUME NEW d \in Drivers, Refused(d) PROVE ThreadInv'
  <2>1. Active(d) /\ at[d] \in Calls
    BY <1>1 DEF Refused, Active, Shaped
  <2>2. Moving(d)
    BY <2>1 DEF ThreadInv
  <2>3. Active(d)' => Moving(d)'
    <3>1. at'[d] = at[d] /\ UNCHANGED <<present, risky, word, checkpoint, granted, lost>>
      BY <1>1 DEF Refused, ToldNo, Goto, rows, history, Shaped
    <3>2. PICK b \in Calls : b = at[d]
      BY <2>1
    <3>3. \A c \in Calls \ {b} : effects'[c] = effects[c] /\ approval'[c] = approval[c]
      BY <1>1, <3>2 DEF Refused, ToldNo, Goto, rows, history, Shaped
    <3>4. \A c \in Calls : c > b => c # b
      BY CallsAreNumbers
    <3>5. Kept(b)' /\ Ahead(b)'
      BY <2>2, <3>1, <3>2, <3>3, <3>4 DEF Moving, Kept, Ahead
    <3>6. QED
      BY <1>1, <2>2, <3>1, <3>2, <3>5 DEF Refused, ToldNo, Goto, rows, history, Shaped, Active,
         Moving, Kept, Ahead
  <2>4. /\ present' = present /\ \A e \in Drivers \ {d} : pc'[e] = pc[e]
        /\ present => /\ approval' = approval
                      /\ \A c \in Calls : approval[c] = "rejected" => effects'[c] = effects[c]
    BY <1>1, <2>1 DEF Refused, ToldNo, Goto, rows, history, Shaped
  <2>5. QED
    BY <2>1, <2>3, <2>4, Driven
<1>2. ASSUME NEW d \in Drivers, Ask(d) PROVE ThreadInv'
  <2>1. Active(d) /\ at[d] \in Calls /\ present
    BY <1>2 DEF Ask, ResolveConfirmation, Active, Shaped
  <2>2. Moving(d) /\ \A e \in Drivers : Active(e) => e = d
    BY <2>1 DEF ThreadInv
  <2>3. \A e \in Drivers : ~Active(e)'
    BY <1>2, <2>2 DEF Ask, Persist, ResolveConfirmation, Goto, history, Shaped, Active
  <2>4. PICK b \in Calls : b = at[d]
    BY <2>1
  <2>5. /\ approval' = [approval EXCEPT ![b] = "pending"] /\ pc[d] = "gate"
        /\ UNCHANGED <<present, checkpoint, effects, lost>>
    BY <1>2, <2>4 DEF Ask, Persist, ResolveConfirmation, Goto, history, Shaped
  <2>6. ASSUME NEW c \in Calls PROVE Waiting(c)'
    <3>1. Waiting(c) /\ approval[c] # "pending"
      BY <2>1 DEF ThreadInv, Waiting
    <3>2. CASE c = b
      <4>1. Kept(b) /\ effects[b] = 0 /\ \A a \in Calls : a > b => effects[a] = 0 /\ approval[a] = "none"
        BY <2>2, <2>4, <2>5 DEF Moving, Ahead
      <4>2. \A a \in Calls : a > b => a # b
        BY CallsAreNumbers
      <4>3. QED
        BY <2>3, <2>5, <3>2, <4>1, <4>2 DEF Waiting, Kept, Ahead, Shaped
    <3>3. CASE c # b
      BY <2>5, <3>1, <3>3 DEF Waiting, Shaped
    <3>4. QED
      BY <3>2, <3>3
  <2>7. QED
    BY <2>3, <2>6 DEF ThreadInv
<1>3. ASSUME NEW d \in Drivers, Prepare(d) PROVE ThreadInv'
  <2>1. Active(d) /\ at[d] \in Calls
    BY <1>3 DEF Prepare, Active, Shaped
  <2>2. Moving(d)
    BY <2>1 DEF ThreadInv
  <2>3. Active(d)' => Moving(d)'
    <3>1. at'[d] = at[d] /\ UNCHANGED <<present, risky, word, checkpoint, granted, lost>>
      BY <1>3 DEF Prepare, Persist, ResolveConfirmation, Goto, history, Shaped
    <3>2. PICK b \in Calls : b = at[d]
      BY <2>1
    <3>3. \A c \in Calls \ {b} : effects'[c] = effects[c] /\ approval'[c] = approval[c]
      BY <1>3, <3>2 DEF Prepare, Persist, ResolveConfirmation, Goto, history, Shaped
    <3>4. \A c \in Calls : c > b => c # b
      BY CallsAreNumbers
    <3>5. Kept(b)' /\ Ahead(b)'
      BY <2>2, <3>1, <3>2, <3>3, <3>4 DEF Moving, Kept, Ahead
    <3>6. QED
      BY <1>3, <2>2, <3>1, <3>2, <3>5 DEF Prepare, Persist, ResolveConfirmation, Goto, history,
         Shaped, Active, Moving, Kept, Ahead
  <2>4. /\ present' = present /\ \A e \in Drivers \ {d} : pc'[e] = pc[e]
        /\ present => /\ approval' = approval
                      /\ \A c \in Calls : approval[c] = "rejected" => effects'[c] = effects[c]
    BY <1>3, <2>1 DEF Prepare, Persist, ResolveConfirmation, Goto, history, Shaped
  <2>5. QED
    BY <2>1, <2>3, <2>4, Driven
<1>4. ASSUME NEW d \in Drivers, Allow(d) PROVE ThreadInv'
  <2>1. Active(d) /\ at[d] \in Calls
    BY <1>4 DEF Allow, Active, Shaped
  <2>2. Moving(d)
    BY <2>1 DEF ThreadInv
  <2>3. Active(d)' => Moving(d)'
    <3>1. at'[d] = at[d] /\ UNCHANGED <<present, risky, word, checkpoint, granted, lost>>
      BY <1>4 DEF Allow, Goto, rows, history, Shaped
    <3>2. PICK b \in Calls : b = at[d]
      BY <2>1
    <3>3. \A c \in Calls \ {b} : effects'[c] = effects[c] /\ approval'[c] = approval[c]
      BY <1>4, <3>2 DEF Allow, Goto, rows, history, Shaped
    <3>4. \A c \in Calls : c > b => c # b
      BY CallsAreNumbers
    <3>5. Kept(b)' /\ Ahead(b)'
      BY <2>2, <3>1, <3>2, <3>3, <3>4 DEF Moving, Kept, Ahead
    <3>6. QED
      BY <1>4, <2>2, <3>1, <3>2, <3>5 DEF Allow, Goto, rows, history, Shaped, Active, Moving,
         Kept, Ahead
  <2>4. /\ present' = present /\ \A e \in Drivers \ {d} : pc'[e] = pc[e]
        /\ present => /\ approval' = approval
                      /\ \A c \in Calls : approval[c] = "rejected" => effects'[c] = effects[c]
    BY <1>4, <2>1 DEF Allow, Goto, rows, history, Shaped
  <2>5. QED
    BY <2>1, <2>3, <2>4, Driven
<1>5. ASSUME NEW d \in Drivers, Replay(d) PROVE ThreadInv'
  <2>1. Active(d) /\ at[d] \in Calls
    BY <1>5 DEF Replay, Active, Shaped
  <2>2. Moving(d)
    BY <2>1 DEF ThreadInv
  <2>3. Active(d)' => Moving(d)'
    <3>1. at'[d] = at[d] /\ UNCHANGED <<present, risky, word, checkpoint, granted, lost>>
      BY <1>5 DEF Replay, Goto, rows, history, Shaped
    <3>2. PICK b \in Calls : b = at[d]
      BY <2>1
    <3>3. \A c \in Calls \ {b} : effects'[c] = effects[c] /\ approval'[c] = approval[c]
      BY <1>5, <3>2 DEF Replay, Goto, rows, history, Shaped
    <3>4. \A c \in Calls : c > b => c # b
      BY CallsAreNumbers
    <3>5. Kept(b)' /\ Ahead(b)'
      BY <2>2, <3>1, <3>2, <3>3, <3>4 DEF Moving, Kept, Ahead
    <3>6. present
      BY <1>5 DEF Replay, ModeInv, Confirming
    <3>7. QED
      BY <1>5, <3>6, <2>2, <3>1, <3>2, <3>5 DEF Replay, Goto, rows, history, Shaped, Active,
         Moving, Kept, Ahead
  <2>4. /\ present' = present /\ \A e \in Drivers \ {d} : pc'[e] = pc[e]
        /\ present => /\ approval' = approval
                      /\ \A c \in Calls : approval[c] = "rejected" => effects'[c] = effects[c]
    BY <1>5, <2>1 DEF Replay, Goto, rows, history, Shaped
  <2>5. QED
    BY <2>1, <2>3, <2>4, Driven
<1>6. ASSUME NEW d \in Drivers, Dispatch(d) PROVE ThreadInv'
  <2>1. Active(d) /\ at[d] \in Calls
    BY <1>6 DEF Dispatch, Active, Shaped
  <2>0. approval[at[d]] # "rejected"
    BY <1>6, AtExec DEF Dispatch
  <2>2. Moving(d)
    BY <2>1 DEF ThreadInv
  <2>3. Active(d)' => Moving(d)'
    <3>1. at'[d] = at[d] /\ UNCHANGED <<present, risky, word, checkpoint, granted, lost>>
      BY <1>6 DEF Dispatch, Goto, rows, history, Shaped
    <3>2. PICK b \in Calls : b = at[d]
      BY <2>1
    <3>3. \A c \in Calls \ {b} : effects'[c] = effects[c] /\ approval'[c] = approval[c]
      BY <1>6, <3>2 DEF Dispatch, Goto, rows, history, Shaped
    <3>4. \A c \in Calls : c > b => c # b
      BY CallsAreNumbers
    <3>5. Kept(b)' /\ Ahead(b)'
      BY <2>2, <3>1, <3>2, <3>3, <3>4 DEF Moving, Kept, Ahead
    <3>6. QED
      BY <1>6, <2>2, <3>1, <3>2, <3>5 DEF Dispatch, Goto, rows, history, Shaped, Active, Moving,
         Kept, Ahead
  <2>4. /\ present' = present /\ \A e \in Drivers \ {d} : pc'[e] = pc[e]
        /\ present => /\ approval' = approval
                      /\ \A c \in Calls : approval[c] = "rejected" => effects'[c] = effects[c]
    BY <1>6, <2>1, <2>0 DEF Dispatch, Goto, rows, history, Shaped
  <2>5. QED
    BY <2>1, <2>3, <2>4, Driven
<1>7. ASSUME NEW d \in Drivers, Pause(d) PROVE ThreadInv'
  <2>1. \A e \in Drivers :
       /\ Active(e)' <=> Active(e)
       /\ Active(e) => pc'[e] = pc[e] /\ at'[e] = at[e] /\ word'[e] = word[e]
    BY <1>7 DEF Pause, Goto, End, rows, history, Shaped, Active
  <2>2. \A c \in Calls : Kept(c) => Kept(c)'
    BY <1>7 DEF Pause, Goto, End, rows, history, Shaped, Kept
  <2>3. UNCHANGED <<present, risky, approval, effects, granted>>
    BY <1>7 DEF Pause, Goto, End, rows, history, Shaped
  <2>4. QED
    BY <2>1, <2>2, <2>3, Quiet
<1>8. ASSUME NEW d \in Drivers, PauseFails(d) PROVE ThreadInv'
  <2>1. \A e \in Drivers :
       /\ Active(e)' <=> Active(e)
       /\ Active(e) => pc'[e] = pc[e] /\ at'[e] = at[e] /\ word'[e] = word[e]
    BY <1>8 DEF PauseFails, Goto, End, rows, Shaped, Active
  <2>2. \A c \in Calls : Kept(c) => Kept(c)'
    BY <1>8 DEF PauseFails, Goto, End, rows, Shaped, Kept
  <2>3. UNCHANGED <<present, risky, approval, effects, granted>>
    BY <1>8 DEF PauseFails, Goto, End, rows, Shaped
  <2>4. QED
    BY <2>1, <2>2, <2>3, Quiet
<1>9. ASSUME NEW d \in Drivers, DispatchRaises(d) PROVE ThreadInv'
  <2>1. Active(d) /\ at[d] \in Calls
    BY <1>9 DEF DispatchRaises, Active, Shaped
  <2>0. approval[at[d]] # "rejected"
    BY <1>9, AtExec DEF DispatchRaises
  <2>2. Moving(d)
    BY <2>1 DEF ThreadInv
  <2>3. Active(d)' => Moving(d)'
    BY <1>9 DEF DispatchRaises, Goto, End, rows, history, Shaped, Active
  <2>4. /\ present' = present /\ \A e \in Drivers \ {d} : pc'[e] = pc[e]
        /\ present => /\ approval' = approval
                      /\ \A c \in Calls : approval[c] = "rejected" => effects'[c] = effects[c]
    BY <1>9, <2>1, <2>0, AtExec DEF DispatchRaises, Goto, End, rows, history, Shaped
  <2>5. QED
    BY <2>1, <2>3, <2>4, Driven
<1>10. ASSUME NEW d \in Drivers, NextCall(d) PROVE ThreadInv'
  <2>1. Active(d) /\ at[d] \in Calls
    BY <1>10 DEF NextCall, Active, Shaped
  <2>2. Moving(d)
    BY <2>1 DEF ThreadInv
  <2>3. Active(d)' => Moving(d)'
    <3>1. at[d] + 1 \in Calls /\ at[d] + 1 > at[d] /\ \A b \in Calls : b > at[d] + 1 => b > at[d]
      BY <1>10, <2>1, OnePast DEF NextCall
    <3>2. at'[d] = at[d] + 1 /\ pc'[d] = "gate" /\ checkpoint' = at[d] + 1 /\ UNCHANGED <<effects, approval>>
      BY <1>10 DEF NextCall, Goto, rows, history, Shaped
    <3>3. effects[at[d] + 1] = 0 /\ approval[at[d] + 1] = "none"
          /\ \A b \in Calls : b > at[d] + 1 => effects[b] = 0 /\ approval[b] = "none"
      BY <2>2, <3>1 DEF Moving, Ahead
    <3>4. QED
      BY <3>2, <3>3 DEF Moving, Ahead, Kept
  <2>4. /\ present' = present /\ \A e \in Drivers \ {d} : pc'[e] = pc[e]
        /\ present => /\ approval' = approval
                      /\ \A c \in Calls : approval[c] = "rejected" => effects'[c] = effects[c]
    BY <1>10, <2>1 DEF NextCall, Goto, rows, history, Shaped
  <2>5. QED
    BY <2>1, <2>3, <2>4, Driven
<1>11. ASSUME NEW d \in Drivers, Finish(d) PROVE ThreadInv'
  <2>1. Active(d) /\ at[d] \in Calls
    BY <1>11 DEF Finish, Active, Shaped
  <2>2. Moving(d)
    BY <2>1 DEF ThreadInv
  <2>3. Active(d)' => Moving(d)'
    BY <1>11 DEF Finish, Goto, End, rows, history, Shaped, Active
  <2>4. /\ present' = present /\ \A e \in Drivers \ {d} : pc'[e] = pc[e]
        /\ present => /\ approval' = approval
                      /\ \A c \in Calls : approval[c] = "rejected" => effects'[c] = effects[c]
    BY <1>11, <2>1 DEF Finish, Goto, End, rows, history, Shaped
  <2>5. QED
    BY <2>1, <2>3, <2>4, Driven
<1>12. ASSUME NEW d \in Drivers, ResumeFlip(d) PROVE ThreadInv'
  <2>0. at[d] \in Calls /\ present
    BY <1>12 DEF ResumeFlip, ModeInv, Confirming, Shaped
  <2>1. CASE approval[at[d]] = "pending"
    <3>1. PICK b \in Calls : b = at[d]
      BY <2>0
    <3>2. Waiting(b) /\ Kept(b) /\ Ahead(b) /\ effects[b] = 0 /\ \A e \in Drivers : ~Active(e)
      BY <2>0, <2>1, <3>1 DEF ThreadInv, Waiting
    <3>3. /\ approval' = [approval EXCEPT ![b] = word[d]] /\ word[d] \in {"approved", "rejected"}
          /\ pc' = [pc EXCEPT ![d] = "load"] /\ granted \subseteq granted'
          /\ word[d] = "approved" => b \in granted'
          /\ UNCHANGED <<present, risky, at, word, checkpoint, effects, lost>>
      BY <1>12, <2>1, <3>1 DEF ResumeFlip, Goto, End, rows, Shaped, ModeInv
    <3>4. \A e \in Drivers : Active(e)' => e = d
      BY <3>2, <3>3 DEF Active, Shaped
    <3>5. approval'[b] = word[d] /\ \A a \in Calls : a # b => approval'[a] = approval[a]
      BY <3>3 DEF Shaped
    <3>6. \A a \in Calls : a > b => a # b
      BY CallsAreNumbers
    <3>7. Kept(b)' /\ Ahead(b)'
      BY <3>2, <3>3, <3>5, <3>6 DEF Kept, Ahead
    <3>8. Moving(d)'
      BY <3>1, <3>2, <3>3, <3>5, <3>7 DEF Moving, Kept, Ahead, Shaped
    <3>9. ASSUME NEW c \in Calls PROVE Waiting(c)'
      <4>1. Waiting(c) /\ (c # b => approval[c] # "pending")
        <5>1. CASE c > b
          BY <2>0, <3>2, <5>1 DEF Ahead, ThreadInv
        <5>2. CASE b > c
          BY <2>0, <2>1, <3>1, <5>2 DEF Ahead, ThreadInv, Waiting
        <5>3. CASE b = c
          BY <3>2, <5>3
        <5>4. QED
          BY <5>1, <5>2, <5>3, CallsAreNumbers
      <4>2. QED
        BY <3>2, <3>3, <3>5, <4>1 DEF Waiting
    <3>10. QED
      BY <3>4, <3>8, <3>9 DEF ThreadInv
  <2>2. CASE approval[at[d]] # "pending"
    <3>1. \A e \in Drivers :
         /\ Active(e)' <=> Active(e)
         /\ Active(e) => pc'[e] = pc[e] /\ at'[e] = at[e] /\ word'[e] = word[e]
      BY <1>12, <2>2 DEF ResumeFlip, Goto, End, rows, Shaped, Active
    <3>2. UNCHANGED <<present, risky, approval, effects, granted, checkpoint, lost>>
      BY <1>12, <2>2 DEF ResumeFlip, Goto, End, rows, Shaped
    <3>3. QED
      BY <3>1, <3>2, Quiet DEF Kept
  <2>3. QED
    BY <2>1, <2>2
<1>13. ASSUME NEW d \in Drivers, ResumeLoad(d) PROVE ThreadInv'
  <2>1. Active(d) /\ at[d] \in Calls
    BY <1>13 DEF ResumeLoad, Active, Shaped
  <2>2. Moving(d)
    BY <2>1 DEF ThreadInv
  <2>3. Active(d)' => Moving(d)'
    <3>1. CASE checkpoint = 0
      BY <1>13, <3>1 DEF ResumeLoad, Goto, End, rows, history, Shaped, Active
    <3>2. CASE checkpoint # 0
      <4>1. at[d] = checkpoint
        BY <2>2, <3>2 DEF Moving, Kept
      <4>2. at' = at /\ pc'[d] = "replay" /\ UNCHANGED <<word, checkpoint, effects, approval, granted, risky, present, lost>>
        BY <1>13, <3>2, <4>1 DEF ResumeLoad, Goto, End, rows, history, Shaped
      <4>3. QED
        BY <1>13, <2>2, <4>2 DEF ResumeLoad, Moving, Ahead, Kept
    <3>3. QED
      BY <3>1, <3>2
  <2>4. /\ present' = present /\ \A e \in Drivers \ {d} : pc'[e] = pc[e]
        /\ present => /\ approval' = approval
                      /\ \A c \in Calls : approval[c] = "rejected" => effects'[c] = effects[c]
    BY <1>13, <2>1 DEF ResumeLoad, Goto, End, rows, history, Shaped
  <2>5. QED
    BY <2>1, <2>3, <2>4, Driven
<1>14. ASSUME NEW d \in Drivers, ConfirmStops(d) PROVE ThreadInv'
  <2>1. \A e \in Drivers :
       /\ Active(e)' <=> Active(e)
       /\ Active(e) => pc'[e] = pc[e] /\ at'[e] = at[e] /\ word'[e] = word[e]
    BY <1>14 DEF ConfirmStops, Goto, Outcome, rows, history, Shaped, Active
  <2>2. \A c \in Calls : Kept(c) => Kept(c)'
    BY <1>14 DEF ConfirmStops, Goto, Outcome, rows, history, Shaped, Kept
  <2>3. UNCHANGED <<present, risky, approval, effects, granted>>
    BY <1>14 DEF ConfirmStops, Goto, Outcome, rows, history, Shaped
  <2>4. QED
    BY <2>1, <2>2, <2>3, Quiet
<1>15. ASSUME NEW d \in Drivers, ConfirmReserve(d) PROVE ThreadInv'
  <2>1. \A e \in Drivers :
       /\ Active(e)' <=> Active(e)
       /\ Active(e) => pc'[e] = pc[e] /\ at'[e] = at[e] /\ word'[e] = word[e]
    BY <1>15 DEF ConfirmReserve, Goto, Outcome, rows, history, Shaped, Active
  <2>2. \A c \in Calls : Kept(c) => Kept(c)'
    BY <1>15 DEF ConfirmReserve, Goto, Outcome, rows, history, Shaped, Kept
  <2>3. UNCHANGED <<present, risky, approval, effects, granted>>
    BY <1>15 DEF ConfirmReserve, Goto, Outcome, rows, history, Shaped
  <2>4. QED
    BY <2>1, <2>2, <2>3, Quiet
<1>16. ASSUME NEW d \in Drivers, ConfirmCall(d) PROVE ThreadInv'
  <2>1. ~present /\ d \in Clients /\ at[d] \in Calls /\ approval[at[d]] # "none"
    BY <1>16, AtReplay DEF ConfirmCall, Confirming
  <2>2. PICK b \in Calls : b = at[d]
    BY <2>1
  <2>3. \A e \in Drivers :
       /\ Active(e)' <=> Active(e)
       /\ Active(e) => pc'[e] = pc[e] /\ at'[e] = at[e] /\ word'[e] = word[e]
    BY <1>16, <2>1 DEF ConfirmCall, Goto, rows, history, Shaped, Active, ModeInv, Confirming
  <2>4. UNCHANGED <<present, risky, checkpoint, lost>> /\ granted \subseteq granted'
    BY <1>16 DEF ConfirmCall, Goto, rows, history, Shaped
  <2>5. \A c \in Calls \ {b} : approval'[c] = approval[c] /\ effects'[c] = effects[c]
    BY <1>16, <2>2 DEF ConfirmCall, Goto, rows, history, Shaped
  <2>6. QED
    BY <2>1, <2>2, <2>3, <2>4, <2>5, Prepared
<1>17. ASSUME NEW d \in Drivers, ConfirmRecord(d) PROVE ThreadInv'
  <2>1. \A e \in Drivers :
       /\ Active(e)' <=> Active(e)
       /\ Active(e) => pc'[e] = pc[e] /\ at'[e] = at[e] /\ word'[e] = word[e]
    BY <1>17 DEF ConfirmRecord, Goto, Outcome, rows, history, Shaped, Active
  <2>2. \A c \in Calls : Kept(c) => Kept(c)'
    BY <1>17 DEF ConfirmRecord, Goto, Outcome, rows, history, Shaped, Kept
  <2>3. UNCHANGED <<present, risky, approval, effects, granted>>
    BY <1>17 DEF ConfirmRecord, Goto, Outcome, rows, history, Shaped
  <2>4. QED
    BY <2>1, <2>2, <2>3, Quiet
<1>18. ASSUME NEW d \in Drivers, ConfirmRaises(d) PROVE ThreadInv'
  <2>1. ~present /\ d \in Clients /\ at[d] \in Calls /\ approval[at[d]] # "none"
    BY <1>18, AtReplay DEF ConfirmRaises, Confirming
  <2>2. PICK b \in Calls : b = at[d]
    BY <2>1
  <2>3. \A e \in Drivers :
       /\ Active(e)' <=> Active(e)
       /\ Active(e) => pc'[e] = pc[e] /\ at'[e] = at[e] /\ word'[e] = word[e]
    BY <1>18, <2>1 DEF ConfirmRaises, Goto, Outcome, rows, Shaped, Active, ModeInv, Confirming
  <2>4. UNCHANGED <<present, risky, checkpoint, lost>> /\ granted \subseteq granted'
    BY <1>18 DEF ConfirmRaises, Goto, Outcome, rows, Shaped
  <2>5. \A c \in Calls \ {b} : approval'[c] = approval[c] /\ effects'[c] = effects[c]
    BY <1>18, <2>2 DEF ConfirmRaises, Goto, Outcome, rows, Shaped
  <2>6. QED
    BY <2>1, <2>2, <2>3, <2>4, <2>5, Prepared
<1>19. ASSUME NEW d \in Drivers, ConfirmSettle(d) PROVE ThreadInv'
  <2>1. ~present /\ d \in Clients /\ at[d] \in Calls /\ approval[at[d]] # "none"
    BY <1>19, AtReplay DEF ConfirmSettle, Confirming
  <2>2. PICK b \in Calls : b = at[d]
    BY <2>1
  <2>3. \A e \in Drivers :
       /\ Active(e)' <=> Active(e)
       /\ Active(e) => pc'[e] = pc[e] /\ at'[e] = at[e] /\ word'[e] = word[e]
    BY <1>19, <2>1 DEF ConfirmSettle, Goto, End, history, Shaped, Active, ModeInv, Confirming
  <2>4. UNCHANGED <<present, risky, checkpoint, lost>> /\ granted \subseteq granted'
    BY <1>19 DEF ConfirmSettle, Goto, End, history, Shaped
  <2>5. \A c \in Calls \ {b} : approval'[c] = approval[c] /\ effects'[c] = effects[c]
    BY <1>19, <2>2 DEF ConfirmSettle, Goto, End, history, Shaped
  <2>6. QED
    BY <2>1, <2>2, <2>3, <2>4, <2>5, Prepared
<1>20. ASSUME NEW d \in Drivers, CutOff(d) PROVE ThreadInv'
  <2>1. CASE Active(d)
    <3>1. /\ present' = present /\ approval' = approval /\ effects' = effects
          /\ ~Active(d)' /\ \A e \in Drivers \ {d} : pc'[e] = pc[e]
      BY <1>20 DEF CutOff, Goto, End, rows, Shaped, Active
    <3>2. QED
      BY <2>1, <3>1, Driven
  <2>2. CASE ~Active(d)
    <3>1. \A e \in Drivers :
         /\ Active(e)' <=> Active(e)
         /\ Active(e) => pc'[e] = pc[e] /\ at'[e] = at[e] /\ word'[e] = word[e]
      BY <1>20, <2>2 DEF CutOff, Goto, End, rows, Shaped, Active
    <3>2. UNCHANGED <<present, risky, approval, effects, granted, checkpoint, lost>>
      BY <1>20 DEF CutOff, Goto, End, rows, Shaped
    <3>3. QED
      BY <3>1, <3>2, Quiet DEF Kept
  <2>3. QED
    BY <2>1, <2>2
<1>21. ASSUME NEW k \in Clients, NEW c \in Calls, NEW decision \in {"approved", "rejected"},
             ResumeGuard(k, c, decision)
      PROVE  ThreadInv'
  <2>1. \A e \in Drivers :
       /\ Active(e)' <=> Active(e)
       /\ Active(e) => pc'[e] = pc[e] /\ at'[e] = at[e] /\ word'[e] = word[e]
    BY <1>21 DEF ResumeGuard, Goto, rows, history, Shaped, Active
  <2>2. \A e \in Calls : Kept(e) => Kept(e)'
    BY <1>21 DEF ResumeGuard, Goto, rows, history, Shaped, Kept
  <2>3. UNCHANGED <<present, risky, approval, effects, granted>>
    BY <1>21 DEF ResumeGuard, Goto, rows, history, Shaped
  <2>4. QED
    BY <2>1, <2>2, <2>3, Quiet
<1>22. ASSUME NEW k \in Clients, NEW c \in Calls, Confirm(k, c) PROVE ThreadInv'
  <2>1. ~present /\ k \in Clients /\ c \in Calls /\ approval[c] # "none"
    BY <1>22 DEF Confirm
  <2>2. PICK b \in Calls : b = c
    BY <2>1
  <2>3. \A e \in Drivers :
       /\ Active(e)' <=> Active(e)
       /\ Active(e) => pc'[e] = pc[e] /\ at'[e] = at[e] /\ word'[e] = word[e]
    BY <1>22, <2>1 DEF Confirm, Goto, Shaped, Active, ModeInv, Confirming
  <2>4. UNCHANGED <<present, risky, checkpoint, lost>> /\ granted \subseteq granted'
    BY <1>22 DEF Confirm, Goto, Shaped
  <2>5. \A e \in Calls \ {b} : approval'[e] = approval[e] /\ effects'[e] = effects[e]
    BY <1>22, <2>2 DEF Confirm, Goto, Shaped
  <2>6. QED
    BY <2>1, <2>2, <2>3, <2>4, <2>5, Prepared
<1>23. ASSUME NEW k \in Clients, NEW c \in Calls, Reject(k, c) PROVE ThreadInv'
  <2>1. ~present /\ k \in Clients /\ c \in Calls /\ approval[c] # "none"
    BY <1>23 DEF Reject
  <2>2. PICK b \in Calls : b = c
    BY <2>1
  <2>3. \A e \in Drivers :
       /\ Active(e)' <=> Active(e)
       /\ Active(e) => pc'[e] = pc[e] /\ at'[e] = at[e] /\ word'[e] = word[e]
    BY <1>23, <2>1 DEF Reject, Goto, driver, history, Shaped, Active, ModeInv, Confirming
  <2>4. UNCHANGED <<present, risky, checkpoint, lost>> /\ granted \subseteq granted'
    BY <1>23 DEF Reject, Goto, driver, history, Shaped
  <2>5. \A e \in Calls \ {b} : approval'[e] = approval[e] /\ effects'[e] = effects[e]
    BY <1>23, <2>2 DEF Reject, Goto, driver, history, Shaped
  <2>6. QED
    BY <2>1, <2>2, <2>3, <2>4, <2>5, Prepared
<1>24. ASSUME NEW c \in Calls, ExpireRead(c) PROVE ThreadInv'
  <2>1. \A e \in Drivers :
       /\ Active(e)' <=> Active(e)
       /\ Active(e) => pc'[e] = pc[e] /\ at'[e] = at[e] /\ word'[e] = word[e]
    BY <1>24 DEF ExpireRead, Goto, rows, driver, history, Shaped, Active
  <2>2. \A e \in Calls : Kept(e) => Kept(e)'
    BY <1>24 DEF ExpireRead, Goto, rows, driver, history, Shaped, Kept
  <2>3. UNCHANGED <<present, risky, approval, effects, granted>>
    BY <1>24 DEF ExpireRead, Goto, rows, driver, history, Shaped
  <2>4. QED
    BY <2>1, <2>2, <2>3, Quiet
<1>25. ASSUME NEW c \in Calls, ExpireWrite(c) PROVE ThreadInv'
  <2>1. present /\ approval[c] # "none" /\ approval' = [approval EXCEPT ![c] = "expired"]
    BY <1>25 DEF ExpireWrite, Goto, driver, history, Shaped, ModeInv, RowInv
  <2>2. UNCHANGED <<present, risky, pc, at, word, checkpoint, effects, granted, lost>>
    BY <1>25 DEF ExpireWrite, Goto, driver, history, Shaped
  <2>3. QED
    BY <2>1, <2>2, Expired
<1>26. ASSUME NEW c \in Calls, ExpireAtStartup(c) PROVE ThreadInv'
  <2>1. present /\ approval[c] # "none" /\ approval' = [approval EXCEPT ![c] = "expired"]
    BY <1>26 DEF ExpireAtStartup, Goto, driver, history, Shaped
  <2>2. UNCHANGED <<present, risky, pc, at, word, checkpoint, effects, granted, lost>>
    BY <1>26 DEF ExpireAtStartup, Goto, driver, history, Shaped
  <2>3. QED
    BY <2>1, <2>2, Expired
<1>27. ASSUME NEW c \in Calls, Age(c) PROVE ThreadInv'
  <2>1. \A e \in Drivers :
       /\ Active(e)' <=> Active(e)
       /\ Active(e) => pc'[e] = pc[e] /\ at'[e] = at[e] /\ word'[e] = word[e]
    BY <1>27 DEF Age, Goto, driver, history, Shaped, Active
  <2>2. \A e \in Calls : Kept(e) => Kept(e)'
    BY <1>27 DEF Age, Goto, driver, history, Shaped, Kept
  <2>3. UNCHANGED <<present, risky, approval, effects, granted>>
    BY <1>27 DEF Age, Goto, driver, history, Shaped
  <2>4. QED
    BY <2>1, <2>2, <2>3, Quiet
<1>28. CASE SweepRead
  <2>1. \A e \in Drivers :
       /\ Active(e)' <=> Active(e)
       /\ Active(e) => pc'[e] = pc[e] /\ at'[e] = at[e] /\ word'[e] = word[e]
    BY <1>28 DEF SweepRead, Pending, Old, Goto, rows, driver, history, Shaped, Active
  <2>2. \A c \in Calls : Kept(c) => Kept(c)'
    BY <1>28 DEF SweepRead, Pending, Old, Goto, rows, driver, history, Shaped, Kept
  <2>3. UNCHANGED <<present, risky, approval, effects, granted>>
    BY <1>28 DEF SweepRead, Pending, Old, Goto, rows, driver, history, Shaped
  <2>4. QED
    BY <2>1, <2>2, <2>3, Quiet
<1>29. CASE SweepReap
  <2>1. \A e \in Drivers :
       /\ Active(e)' <=> Active(e)
       /\ Active(e) => pc'[e] = pc[e] /\ at'[e] = at[e] /\ word'[e] = word[e]
    BY <1>29 DEF SweepReap, Goto, rows, driver, Shaped, Active
  <2>2. \A c \in Calls : Kept(c) => Kept(c)'
    BY <1>29 DEF SweepReap, Goto, rows, driver, Shaped, Kept, ModeInv
  <2>3. UNCHANGED <<present, risky, approval, effects, granted>>
    BY <1>29 DEF SweepReap, Goto, rows, driver, Shaped
  <2>4. QED
    BY <2>1, <2>2, <2>3, Quiet
<1>30. CASE UNCHANGED vars
  BY <1>30 DEF vars, ThreadInv, Moving, Waiting, Active, Kept, Ahead
<1>31. QED
  BY Actions, RefusedAll, <1>1, <1>2, <1>3, <1>4, <1>5, <1>6, <1>7, <1>8, <1>9, <1>10, <1>11,
     <1>12, <1>13, <1>14, <1>15, <1>16, <1>17, <1>18, <1>19, <1>20, <1>21, <1>22, <1>23,
     <1>24, <1>25, <1>26, <1>27, <1>28, <1>29, <1>30


\* A write happens once: the tool is called for a write that has not happened.
LEMMA OnceStep == GatedInv /\ [Next]_vars => AtMostOneWrite'
<1> SUFFICES ASSUME GatedInv, [Next]_vars PROVE AtMostOneWrite'
  OBVIOUS
<1>1. TypeOK'
  BY TypeStep DEF GatedInv
<1>2. \A c \in Calls : effects[c] \in Nat /\ effects[c] <= 1
  BY ShapedType DEF GatedInv, AtMostOneWrite, Shaped
<1>3. effects = [c \in Calls |-> effects[c]]
  BY ShapedType DEF GatedInv, AtMostOneWrite, Shaped
<1>4. \/ UNCHANGED effects
      \/ \E d \in Drivers : Dispatch(d) \/ DispatchRaises(d) \/ ConfirmCall(d) \/ ConfirmRaises(d)
  <2>1. ASSUME NEW d \in Drivers,
               \/ Refused(d) \/ Ask(d) \/ Prepare(d) \/ Allow(d) \/ Replay(d) \/ Pause(d)
               \/ PauseFails(d) \/ NextCall(d) \/ Finish(d) \/ ResumeFlip(d) \/ ResumeLoad(d)
        PROVE  UNCHANGED effects
    BY <2>1 DEF Refused, ToldNo, Ask, Prepare, Allow, Replay, Pause, PauseFails, NextCall,
       Finish,
                ResumeFlip, ResumeLoad
  <2>2. ASSUME NEW d \in Drivers,
               \/ ConfirmStops(d) \/ ConfirmReserve(d) \/ ConfirmRecord(d) \/ ConfirmSettle(d)
               \/ CutOff(d)
        PROVE  UNCHANGED effects
    BY <2>2 DEF ConfirmStops, ConfirmReserve, ConfirmRecord, ConfirmSettle, CutOff
  <2>3. ASSUME NEW k \in Clients, NEW c \in Calls,
               \/ \E decision \in {"approved", "rejected"} : ResumeGuard(k, c, decision)
               \/ Confirm(k, c) \/ Reject(k, c)
        PROVE  UNCHANGED effects
    BY <2>3 DEF ResumeGuard, Confirm, Reject
  <2>4. ASSUME NEW c \in Calls,
               ExpireRead(c) \/ ExpireWrite(c) \/ ExpireAtStartup(c) \/ Age(c)
        PROVE  UNCHANGED effects
    BY <2>4 DEF ExpireRead, ExpireWrite, ExpireAtStartup, Age
  <2>5. CASE SweepRead \/ SweepReap
    BY <2>5 DEF SweepRead, SweepReap
  <2>6. CASE UNCHANGED vars
    BY <2>6 DEF vars
  <2>7. QED
    BY Actions, RefusedAll, <2>1, <2>2, <2>3, <2>4, <2>5, <2>6
<1>5. ASSUME NEW d \in Drivers, NEW n \in 0 .. 1, effects[at[d]] + n <= 1,
             effects' = [effects EXCEPT ![at[d]] = @ + n]
      PROVE  \A c \in Calls : effects'[c] <= 1
  BY <1>2, <1>3, <1>5
<1>6. ASSUME NEW d \in Drivers, Dispatch(d) \/ DispatchRaises(d) PROVE \A c \in Calls : effects'[c] <= 1
  <2>1. effects[at[d]] = 0
    BY <1>6, AtExec DEF Dispatch, DispatchRaises
  <2>2. PICK n \in 0 .. 1 : effects' = [effects EXCEPT ![at[d]] = @ + n]
    BY <1>6, 1 \in 0 .. 1 DEF Dispatch, DispatchRaises
  <2>3. effects[at[d]] + n <= 1
    BY <2>1
  <2>4. QED
    BY <1>5, <2>2, <2>3
<1>7. ASSUME NEW d \in Drivers, ConfirmCall(d) \/ ConfirmRaises(d) PROVE \A c \in Calls : effects'[c] <= 1
  <2>1. pc[d] \in {"call", "ok", "error"} /\ d \in Clients /\ ~present /\ at[d] \in Calls
    BY <1>7, AtReplay DEF ConfirmCall, ConfirmRaises, Confirming
  <2>2. pc[d] = "call" => effects[at[d]] = 0
    BY <2>1 DEF GatedInv, ReplayInv, Working
  <2>3. CASE pc[d] = "call"
    <3>1. \/ UNCHANGED effects
          \/ effects' = [effects EXCEPT ![at[d]] = @ + 1]
          \/ \E n \in 0 .. 1 : effects' = [effects EXCEPT ![at[d]] = @ + n]
      BY <1>7, <2>3 DEF ConfirmCall, ConfirmRaises
    <3>2. \A n \in 0 .. 1 : effects[at[d]] + n <= 1
      BY <2>2, <2>3
    <3>3. QED
      BY <1>2, <1>5, <3>1, <3>2, 1 \in 0 .. 1
  <2>4. CASE pc[d] # "call"
    <3>1. effects' = [effects EXCEPT ![at[d]] = @ + 0]
      BY <1>7, <2>4 DEF ConfirmCall, ConfirmRaises
    <3>2. effects[at[d]] + 0 <= 1
      BY <1>2, <2>1
    <3>3. QED
      BY <1>5, <3>1, <3>2, 0 \in 0 .. 1
  <2>5. QED
    BY <2>3, <2>4
<1>8. QED
  BY <1>1, <1>2, <1>4, <1>6, <1>7 DEF AtMostOneWrite

\* A turn starts at its first call, with nothing decided.
LEMMA GatedInit == Init => GatedInv
<1> SUFFICES ASSUME Init PROVE GatedInv
  OBVIOUS
<1>a. 1 \in Calls /\ 1 \in 0 .. N
  BY CallsAreNumbers
<1>b. 0 \in 0 .. 2 /\ 0 <= 1
  OBVIOUS
<1>c. effects = [c \in Calls |-> 0]
  BY DEF Init
<1>1. TypeOK
  <2>1. effects \in [Calls -> 0 .. 2]
    BY <1>b, <1>c
  <2>2. pc \in [Drivers -> {"idle", "gate"}] /\ at \in [Drivers -> Calls]
    BY <1>a DEF Init
  <2>3. QED
    BY <1>a, <2>1, <2>2 DEF Init, TypeOK
<1>2. AtMostOneWrite
  BY <1>1, <1>b, <1>c DEF AtMostOneWrite
<1>3. ModeInv /\ RowInv
  <2>1. RowInv
    <3>1. \A c \in Calls : ~(effects[c] > 0)
      BY <1>b, <1>c
    <3>2. QED
      BY <3>1 DEF Init, RowInv
  <2>2. ModeInv
    BY DriversAre DEF Init, ModeInv, Confirming
  <2>3. QED
    BY <2>1, <2>2
<1>4. ThreadInv
  BY CallsAreNumbers DEF Init, ThreadInv, Moving, Waiting, Active, Kept, Ahead, Drivers
<1>5. ReplayInv /\ ApprovedIsWorkedOn
  BY DEF Init, ReplayInv, Working, Written, ApprovedIsWorkedOn, Drivers
<1>6. QED
  BY <1>2, <1>3, <1>4, <1>5 DEF GatedInv

\* The invariant is inductive: its six parts are kept with each other's help.
LEMMA GatedStep == GatedInv /\ [Next]_vars => GatedInv'
<1> SUFFICES ASSUME GatedInv, [Next]_vars PROVE GatedInv'
  OBVIOUS
<1>1. ModeInv'
  BY ModeStep DEF GatedInv, AtMostOneWrite
<1>2. QED
  BY <1>1, OnceStep, RowStep, ThreadStep, ReplayStep, WorkedOnStep DEF GatedInv

\* It holds in every state of a turn.
LEMMA GatedAlways == Spec => []GatedInv
BY GatedInit, GatedStep, PTL DEF Spec

----------------------------------------------------------------------------
\* However many requests decide a call, and whatever raises or is cut off in
\* between, its write happens at most once.
THEOREM WriteHappensOnce == Spec => []AtMostOneWrite
<1>1. GatedInv => AtMostOneWrite
  BY DEF GatedInv
<1>2. QED
  BY GatedAlways, <1>1, PTL

\* A write the gates ask about happens only after a person approved it; a
\* refused or failed one did not happen, an executed one did.
THEOREM DoneAsDecided == Spec => []AsDecided
<1>1. GatedInv => AsDecided
  <2> SUFFICES ASSUME GatedInv PROVE AsDecided
    OBVIOUS
  <2>1. \A c \in Calls : effects[c] \in Nat
    BY ShapedType DEF GatedInv, AtMostOneWrite, Shaped
  <2>2. CASE present
    BY <2>1, <2>2 DEF GatedInv, AsDecided, RowInv, ThreadInv, Waiting
  <2>3. CASE ~present
    BY <2>1, <2>3 DEF GatedInv, AsDecided, RowInv, ReplayInv, Written
  <2>4. QED
    BY <2>2, <2>3
<1>2. QED
  BY GatedAlways, <1>1, PTL

\* A pending confirmation of a paused turn finds its thread at that call, unless
\* the pause itself was lost.
THEOREM QuestionsKeepTheirThread == Spec => []PendingResumable
<1>1. GatedInv => PendingResumable
  BY DEF GatedInv, PendingResumable, ThreadInv, Waiting, Kept
<1>2. QED
  BY GatedAlways, <1>1, PTL

\* An approved prepared call has a request at work on it, unless that request
\* was cut off.
THEOREM ApprovalIsFollowed == Spec => []ApprovedIsWorkedOn
<1>1. GatedInv => ApprovedIsWorkedOn
  BY DEF GatedInv
<1>2. QED
  BY GatedAlways, <1>1, PTL
----------------------------------------------------------------------------
(***************************************************************************)
(* Confirming prepared work keeps the ledger's promise: seen through the   *)
(* ledger rows, the requests between reservation and record, and the       *)
(* writes of prepared calls, a turn is a behaviour of WriteOnce, the       *)
(* abstract specification that the ledger itself implements.               *)
(***************************************************************************)

\* A request between the reservation of a write and the record of its outcome.
Replaying(k) == pc[k] \in {"call", "ok", "error"}

phaseBar == [c \in Calls |-> CASE ledger[c] = "in_flight" -> "claimed"
                               [] ledger[c] = "completed" -> "done"
                               [] OTHER -> "open"]
ownersBar == [c \in Calls |-> {k \in Clients : Replaying(k) /\ at[k] = c}]

\* The writes of prepared calls; the others do not pass through the ledger.
effectsBar == [c \in Calls |-> IF ~present /\ c \in risky THEN effects[c] ELSE 0]

Once == INSTANCE WriteOnce WITH Callers <- Clients, Keys <- Calls,
          phase <- phaseBar, owners <- ownersBar, effects <- effectsBar

\* Only the reservation of a call, its write and the ledger row show.
LEMMA Unseen ==
  ASSUME UNCHANGED <<present, risky, ledger>>,
         \A k \in Clients : Replaying(k)' <=> Replaying(k),
         \A k \in Clients : Replaying(k) => at'[k] = at[k],
         \A c \in Calls : ~present /\ c \in risky => effects'[c] = effects[c]
  PROVE  UNCHANGED Once!vars
<1>1. phaseBar' = phaseBar
  BY DEF phaseBar
<1>2. effectsBar' = effectsBar
  BY DEF effectsBar
<1>3. ownersBar' = ownersBar
  <2> DEFINE New(c) == {k \in Clients : Replaying(k)' /\ at'[k] = c}
             Before(c) == {k \in Clients : Replaying(k) /\ at[k] = c}
  <2>1. ownersBar = [c \in Calls |-> Before(c)] /\ ownersBar' = [c \in Calls |-> New(c)]
    BY DEF ownersBar
  <2>2. ASSUME NEW c \in Calls PROVE New(c) = Before(c)
    OBVIOUS
  <2> HIDE DEF New, Before
  <2>3. QED
    BY <2>1, <2>2
<1>4. QED
  BY <1>1, <1>2, <1>3 DEF Once!vars

\* A driver that neither was nor becomes one that replays does not show.
LEMMA Elsewhere ==
  ASSUME UNCHANGED <<present, risky, ledger>>,
         NEW d \in Drivers, ~Replaying(d), ~Replaying(d)',
         \A e \in Drivers \ {d} : pc'[e] = pc[e] /\ at'[e] = at[e],
         \A c \in Calls : ~present /\ c \in risky => effects'[c] = effects[c]
  PROVE  UNCHANGED Once!vars
<1>1. \A k \in Clients : Replaying(k)' <=> Replaying(k)
  BY DriversAre DEF Replaying
<1>2. \A k \in Clients : Replaying(k) => at'[k] = at[k]
  BY DriversAre
<1>3. QED
  BY <1>1, <1>2, Unseen

\* The request that replays a call is the only one, and has reserved it.
LEMMA ReplayedByOne ==
  ASSUME GatedInv, NEW k \in Clients, Replaying(k)
  PROVE  /\ ownersBar[at[k]] = {k} /\ phaseBar[at[k]] = "claimed"
         /\ ~present /\ at[k] \in Calls /\ at[k] \in risky
<1>1. ~present /\ at[k] \in Calls /\ at[k] \in risky
  BY AtReplay, DriversAre DEF Replaying, Confirming
<1>2. ledger[at[k]] = "in_flight"
  BY <1>1 DEF Replaying, GatedInv, ReplayInv, Working
<1>3. \A j \in Clients : Replaying(j) /\ at[j] = at[k] => j = k
  BY <1>1 DEF GatedInv, ReplayInv, Replaying
<1>4. ownersBar[at[k]] = {k}
  BY <1>1, <1>3 DEF ownersBar
<1>5. phaseBar[at[k]] = "claimed"
  BY <1>1, <1>2 DEF phaseBar
<1>6. QED
  BY <1>1, <1>4, <1>5

\* A call whose ledger row is not in flight has no request that replays it.
LEMMA OpenIsUnowned ==
  ASSUME GatedInv, NEW c \in Calls, ledger[c] # "in_flight"
  PROVE  ownersBar[c] = {}
<1>1. ASSUME NEW k \in Clients, Replaying(k), at[k] = c PROVE FALSE
  <2>1. ~present
    BY <1>1, AtReplay, DriversAre DEF Replaying, Confirming
  <2>2. QED
    BY <1>1, <2>1 DEF GatedInv, ReplayInv, Working, Replaying
<1>2. QED
  BY <1>1 DEF ownersBar

\* How the phases move with a ledger row.
LEMMA PhaseMoves ==
  ASSUME NEW c \in Calls, ledger = [b \in Calls |-> ledger[b]],
         NEW st \in {"in_flight", "completed", "failed"},
         ledger' = [ledger EXCEPT ![c] = st]
  PROVE  phaseBar' = [phaseBar EXCEPT ![c] = IF st = "in_flight" THEN "claimed"
                                             ELSE IF st = "completed" THEN "done"
                                             ELSE "open"]
<1>1. ledger'[c] = st /\ \A b \in Calls \ {c} : ledger'[b] = ledger[b]
  OBVIOUS
<1>2. QED
  BY <1>1 DEF phaseBar

\* How the owners move when a request reserves a call that nobody replays ...
LEMMA ReplayStarts ==
  ASSUME NEW k \in Clients, NEW c \in Calls, at[k] = c, ownersBar[c] = {}, at' = at,
         \A j \in Clients : Replaying(j)' <=> (Replaying(j) \/ j = k)
  PROVE  ownersBar' = [ownersBar EXCEPT ![c] = {k}]
<1> DEFINE New(b) == {j \in Clients : Replaying(j)' /\ at[j] = b}
           Before(b) == {j \in Clients : Replaying(j) /\ at[j] = b}
<1>1. ownersBar = [b \in Calls |-> Before(b)] /\ ownersBar' = [b \in Calls |-> New(b)]
  BY DEF ownersBar
<1>2. Before(c) = {}
  BY <1>1
<1>3. New(c) = {k}
  BY <1>2
<1>4. ASSUME NEW b \in Calls, b # c PROVE New(b) = Before(b)
  BY <1>4
<1> HIDE DEF New, Before
<1>5. QED
  BY <1>1, <1>3, <1>4

\* ... and when it records the outcome, raises, or is cut off.
LEMMA ReplayEnds ==
  ASSUME NEW k \in Clients, NEW c \in Calls, at[k] = c, ownersBar[c] = {k},
         \A j \in Clients : Replaying(j)' <=> (Replaying(j) /\ j # k),
         \A j \in Clients \ {k} : at'[j] = at[j]
  PROVE  ownersBar' = [ownersBar EXCEPT ![c] = {}]
<1> DEFINE New(b) == {j \in Clients : Replaying(j)' /\ at'[j] = b}
           Before(b) == {j \in Clients : Replaying(j) /\ at[j] = b}
<1>1. ownersBar = [b \in Calls |-> Before(b)] /\ ownersBar' = [b \in Calls |-> New(b)]
  BY DEF ownersBar
<1>2. Before(c) = {k}
  BY <1>1
<1>3. New(c) = {}
  BY <1>2
<1>4. ASSUME NEW b \in Calls, b # c PROVE New(b) = Before(b)
  BY <1>4
<1> HIDE DEF New, Before
<1>5. QED
  BY <1>1, <1>3, <1>4

\* A write of a prepared call is counted where it happens.
LEMMA WriteShows ==
  ASSUME Shaped, UNCHANGED <<present, risky>>, ~present, NEW c \in Calls, c \in risky,
         NEW n \in {0, 1}, effects' = [effects EXCEPT ![c] = @ + n]
  PROVE  effectsBar' = [effectsBar EXCEPT ![c] = @ + n]
<1>1. effects'[c] = effects[c] + n /\ \A b \in Calls \ {c} : effects'[b] = effects[b]
  BY DEF Shaped
<1>2. effectsBar[c] = effects[c]
  BY DEF effectsBar
<1>3. QED
  BY <1>1, <1>2 DEF effectsBar

\* Every step of a turn is a step of WriteOnce, or does not show in it: the
\* reservation claims, the tool's answer is the effect, the record settles, and
\* a replay that raises or is cut off is abandoned.
LEMMA WriteOnceStep == GatedInv /\ [Next]_vars => [Once!Next]_(Once!vars)
<1> SUFFICES ASSUME GatedInv, [Next]_vars PROVE [Once!Next]_(Once!vars)
  OBVIOUS
<1>a. Shaped /\ ModeInv
  BY ShapedType DEF GatedInv, AtMostOneWrite
<1>b. \A d \in Drivers : Replaying(d) => d \in Clients
  BY <1>a, DriversAre DEF ModeInv, Replaying
<1>1. ASSUME NEW d \in Drivers,
             \/ Refused(d) \/ Ask(d) \/ Prepare(d) \/ Allow(d) \/ Replay(d)
             \/ Pause(d) \/ PauseFails(d) \/ NextCall(d) \/ Finish(d)
      PROVE  UNCHANGED Once!vars
  <2>1. UNCHANGED <<present, risky, ledger, effects>>
    BY <1>1 DEF Refused, ToldNo, Ask, Prepare, Allow, Replay, Pause, PauseFails, NextCall, Finish
  <2>2. ~Replaying(d)
    BY <1>1 DEF Refused, Ask, Prepare, Allow, Replay, Pause, PauseFails, NextCall, Finish, Replaying
  <2>3. PICK place \in {"idle", "gate", "pausing", "exec", "next"} : pc' = [pc EXCEPT ![d] = place]
    BY <1>1 DEF Refused, ToldNo, Ask, Prepare, Allow, Replay, Pause, PauseFails, NextCall, Finish, Goto, End
  <2>4. at' = at \/ \E c \in Nat : at' = [at EXCEPT ![d] = c]
    <3>1. CASE NextCall(d)
      <4>1. at[d] + 1 \in Nat
        BY <1>a, CallsAreNumbers DEF Shaped
      <4>2. QED
        BY <3>1, <4>1 DEF NextCall
    <3>2. CASE Pause(d) \/ PauseFails(d) \/ Finish(d)
      BY <3>2, 1 \in Nat DEF Pause, PauseFails, Finish, End
    <3>3. CASE Refused(d) \/ Ask(d) \/ Prepare(d) \/ Allow(d) \/ Replay(d)
      BY <3>3 DEF Refused, ToldNo, Ask, Prepare, Allow, Replay
    <3>4. QED
      BY <1>1, <3>1, <3>2, <3>3
  <2>5. ~Replaying(d)' /\ \A e \in Drivers \ {d} : pc'[e] = pc[e] /\ at'[e] = at[e]
    BY <1>a, <2>3, <2>4 DEF Shaped, Replaying
  <2>6. QED
    BY <2>1, <2>2, <2>5, Elsewhere
<1>2. ASSUME NEW d \in Drivers, Dispatch(d) \/ DispatchRaises(d) PROVE UNCHANGED Once!vars
  <2>1. UNCHANGED <<present, risky, ledger>> /\ pc[d] = "exec"
    BY <1>2 DEF Dispatch, DispatchRaises
  <2>2. at[d] \in Calls /\ (at[d] \notin risky \/ present)
    BY <2>1, AtExec
  <2>3. \E n \in 0 .. 1 : effects' = [effects EXCEPT ![at[d]] = @ + n]
    BY <1>2, 1 \in 0 .. 1 DEF Dispatch, DispatchRaises
  <2>4. \A c \in Calls : ~present /\ c \in risky => effects'[c] = effects[c]
    BY <1>a, <2>2, <2>3 DEF Shaped
  <2>5. PICK place \in {"idle", "next"} : pc' = [pc EXCEPT ![d] = place]
    BY <1>2 DEF Dispatch, DispatchRaises, End, Goto
  <2>6. at' = at \/ at' = [at EXCEPT ![d] = 1]
    BY <1>2 DEF Dispatch, DispatchRaises, End
  <2>7. ~Replaying(d) /\ ~Replaying(d)' /\ \A e \in Drivers \ {d} : pc'[e] = pc[e] /\ at'[e] = at[e]
    BY <1>a, <2>1, <2>5, <2>6 DEF Shaped, Replaying
  <2>8. QED
    BY <2>1, <2>4, <2>7, Elsewhere
<1>3. ASSUME NEW d \in Drivers, ResumeFlip(d) \/ ResumeLoad(d) \/ ConfirmStops(d) \/ ConfirmSettle(d)
      PROVE  UNCHANGED Once!vars
  <2>1. UNCHANGED <<present, risky, ledger, effects>>
    BY <1>3 DEF ResumeFlip, ResumeLoad, ConfirmStops, ConfirmSettle
  <2>2. ~Replaying(d)
    BY <1>3 DEF ResumeFlip, ResumeLoad, ConfirmStops, ConfirmSettle, Replaying
  <2>3. PICK place \in {"idle", "load", "replay", "settle"} : pc' = [pc EXCEPT ![d] = place]
    BY <1>3 DEF ResumeFlip, ResumeLoad, ConfirmStops, ConfirmSettle, Outcome, End, Goto
  <2>4. at' = at \/ at' = [at EXCEPT ![d] = 1] \/ at' = [at EXCEPT ![d] = checkpoint]
    BY <1>3 DEF ResumeFlip, ResumeLoad, ConfirmStops, ConfirmSettle, End
  <2>5. ~Replaying(d)' /\ \A e \in Drivers \ {d} : pc'[e] = pc[e] /\ at'[e] = at[e]
    BY <1>a, <2>3, <2>4 DEF Shaped, Replaying
  <2>6. QED
    BY <2>1, <2>2, <2>5, Elsewhere
<1>4. ASSUME NEW d \in Drivers, ConfirmReserve(d)
      PROVE  (d \in Clients /\ Once!Claim(d, at[d])) \/ UNCHANGED Once!vars
  <2>1. d \in Clients /\ at[d] \in Calls
    BY <1>4, AtReplay DEF ConfirmReserve, Confirming
  <2>2. UNCHANGED <<present, risky, effects, at>> /\ pc[d] = "run"
    BY <1>4 DEF ConfirmReserve
  <2>3. CASE ledger[at[d]] \in {"completed", "in_flight"}
    <3>1. ledger' = ledger /\ pc' = [pc EXCEPT ![d] = "settle"]
      BY <1>4, <2>3 DEF ConfirmReserve, Outcome, Goto
    <3>2. ~Replaying(d) /\ ~Replaying(d)' /\ \A e \in Drivers \ {d} : pc'[e] = pc[e]
      BY <1>a, <2>2, <3>1 DEF Shaped, Replaying
    <3>3. QED
      BY <2>2, <3>1, <3>2, Elsewhere
  <2>4. CASE ledger[at[d]] \notin {"completed", "in_flight"}
    <3>1. ledger' = [ledger EXCEPT ![at[d]] = "in_flight"] /\ pc' = [pc EXCEPT ![d] = "call"]
      BY <1>4, <2>4 DEF ConfirmReserve, Goto
    <3>2. \A j \in Clients : Replaying(j)' <=> (Replaying(j) \/ j = d)
      BY <1>a, <3>1, DriversAre DEF Shaped, Replaying
    <3>3. phaseBar[at[d]] = "open" /\ ownersBar[at[d]] = {}
      BY <2>1, <2>4, OpenIsUnowned DEF phaseBar
    <3>4. phaseBar' = [phaseBar EXCEPT ![at[d]] = "claimed"]
      BY <1>a, <2>1, <3>1, PhaseMoves DEF Shaped
    <3>5. ownersBar' = [ownersBar EXCEPT ![at[d]] = {d}]
      BY <2>1, <2>2, <3>2, <3>3, ReplayStarts
    <3>6. effectsBar' = effectsBar
      BY <2>2 DEF effectsBar
    <3>7. QED
      BY <2>1, <3>3, <3>4, <3>5, <3>6 DEF Once!Claim
  <2>5. QED
    BY <2>3, <2>4
<1>5. ASSUME NEW d \in Drivers, ConfirmCall(d)
      PROVE  (d \in Clients /\ Once!Happen(d, at[d])) \/ UNCHANGED Once!vars
  <2>1. Replaying(d) /\ UNCHANGED <<present, risky, ledger, at>>
    BY <1>5 DEF ConfirmCall, Replaying
  <2>2. /\ d \in Clients /\ ownersBar[at[d]] = {d} /\ ~present
        /\ at[d] \in Calls /\ at[d] \in risky
    BY <1>b, <2>1, ReplayedByOne
  <2>3. PICK place \in {"ok", "error"} : pc' = [pc EXCEPT ![d] = place]
    BY <1>5 DEF ConfirmCall, Goto
  <2>4. \A k \in Clients : Replaying(k)' <=> Replaying(k)
    BY <1>a, <2>1, <2>3, DriversAre DEF Shaped, Replaying
  <2>5. CASE effects' = effects
    BY <2>1, <2>4, <2>5, Unseen
  <2>6. CASE effects' = [effects EXCEPT ![at[d]] = @ + 1]
    <3>1. effectsBar' = [effectsBar EXCEPT ![at[d]] = @ + 1]
      BY <1>a, <2>1, <2>2, <2>6, WriteShows
    <3>2. phaseBar' = phaseBar
      BY <2>1 DEF phaseBar
    <3>3. ownersBar' = ownersBar
      BY <2>1, <2>4 DEF ownersBar
    <3>4. QED
      BY <2>2, <3>1, <3>2, <3>3 DEF Once!Happen
  <2>7. QED
    BY <1>5, <2>5, <2>6 DEF ConfirmCall
<1>6. ASSUME NEW d \in Drivers, ConfirmRecord(d)
      PROVE  d \in Clients /\ \E outcome \in {"done", "open"} : Once!Settle(d, at[d], outcome)
  <2>1. Replaying(d) /\ UNCHANGED <<present, risky, effects, at>>
    BY <1>6 DEF ConfirmRecord, Replaying
  <2>2. /\ d \in Clients /\ ownersBar[at[d]] = {d} /\ phaseBar[at[d]] = "claimed"
        /\ at[d] \in Calls
    BY <1>b, <2>1, ReplayedByOne
  <2>3. pc' = [pc EXCEPT ![d] = "settle"]
    BY <1>6 DEF ConfirmRecord, Outcome, Goto
  <2>4. PICK st \in {"completed", "failed"} : ledger' = [ledger EXCEPT ![at[d]] = st]
    BY <1>6 DEF ConfirmRecord
  <2>5. \A j \in Clients : Replaying(j)' <=> (Replaying(j) /\ j # d)
    BY <1>a, <2>3, DriversAre DEF Shaped, Replaying
  <2>6. ownersBar' = [ownersBar EXCEPT ![at[d]] = {}]
    BY <2>1, <2>2, <2>5, ReplayEnds
  <2>7. phaseBar' = [phaseBar EXCEPT ![at[d]] = IF st = "completed" THEN "done" ELSE "open"]
    BY <1>a, <2>2, <2>4, PhaseMoves DEF Shaped
  <2>8. effectsBar' = effectsBar
    BY <2>1 DEF effectsBar
  <2>9. QED
    BY <2>2, <2>6, <2>7, <2>8 DEF Once!Settle
<1>7. ASSUME NEW d \in Drivers, ConfirmRaises(d)
      PROVE  d \in Clients /\ \E n \in {0, 1} : Once!Abandon(d, at[d], n)
  <2>1. Replaying(d) /\ UNCHANGED <<present, risky, ledger, at>>
    BY <1>7 DEF ConfirmRaises, Replaying
  <2>2. /\ d \in Clients /\ ownersBar[at[d]] = {d} /\ ~present
        /\ at[d] \in Calls /\ at[d] \in risky
    BY <1>b, <2>1, ReplayedByOne
  <2>3. pc' = [pc EXCEPT ![d] = "settle"]
    BY <1>7 DEF ConfirmRaises, Outcome, Goto
  <2>4. PICK n \in {0, 1} : effects' = [effects EXCEPT ![at[d]] = @ + n]
    <3>1. PICK n \in IF pc[d] = "call" THEN 0 .. 1 ELSE {0} :
            effects' = [effects EXCEPT ![at[d]] = @ + n]
      BY <1>7 DEF ConfirmRaises
    <3>2. n \in {0, 1}
      OBVIOUS
    <3>3. QED
      BY <3>1, <3>2
  <2>5. \A j \in Clients : Replaying(j)' <=> (Replaying(j) /\ j # d)
    BY <1>a, <2>3, DriversAre DEF Shaped, Replaying
  <2>6. ownersBar' = [ownersBar EXCEPT ![at[d]] = {}]
    BY <2>1, <2>2, <2>5, ReplayEnds
  <2>7. effectsBar' = [effectsBar EXCEPT ![at[d]] = @ + n]
    BY <1>a, <2>1, <2>2, <2>4, WriteShows
  <2>8. phaseBar' = phaseBar
    BY <2>1 DEF phaseBar
  <2>9. QED
    BY <2>2, <2>6, <2>7, <2>8 DEF Once!Abandon
<1>8. ASSUME NEW d \in Drivers, CutOff(d)
      PROVE  (d \in Clients /\ Once!Abandon(d, at[d], 0)) \/ UNCHANGED Once!vars
  <2>1. /\ UNCHANGED <<present, risky, ledger, effects>>
        /\ pc' = [pc EXCEPT ![d] = "idle"] /\ at' = [at EXCEPT ![d] = 1]
    BY <1>8 DEF CutOff, End, Goto
  <2>2. ~Replaying(d)' /\ \A e \in Drivers \ {d} : pc'[e] = pc[e] /\ at'[e] = at[e]
    BY <1>a, <2>1 DEF Shaped, Replaying
  <2>3. CASE ~Replaying(d)
    BY <2>1, <2>2, <2>3, Elsewhere
  <2>4. CASE Replaying(d)
    <3>1. /\ d \in Clients /\ ownersBar[at[d]] = {d} /\ ~present
          /\ at[d] \in Calls /\ at[d] \in risky
      BY <1>b, <2>4, ReplayedByOne
    <3>2. \A j \in Clients : Replaying(j)' <=> (Replaying(j) /\ j # d)
      BY <2>2, DriversAre DEF Replaying
    <3>3. ownersBar' = [ownersBar EXCEPT ![at[d]] = {}]
      BY <2>2, <3>1, <3>2, DriversAre, ReplayEnds
    <3>4. effects' = [effects EXCEPT ![at[d]] = @ + 0]
      BY <1>a, <2>1, <3>1 DEF Shaped
    <3>5. effectsBar' = [effectsBar EXCEPT ![at[d]] = @ + 0]
      BY <1>a, <2>1, <3>1, <3>4, WriteShows
    <3>6. phaseBar' = phaseBar
      BY <2>1 DEF phaseBar
    <3>7. QED
      BY <3>1, <3>3, <3>5, <3>6 DEF Once!Abandon
  <2>5. QED
    BY <2>3, <2>4
<1>9. ASSUME NEW k \in Clients, NEW c \in Calls,
             \/ \E decision \in {"approved", "rejected"} : ResumeGuard(k, c, decision)
             \/ Confirm(k, c)
      PROVE  UNCHANGED Once!vars
  <2>1. UNCHANGED <<present, risky, ledger, effects>> /\ pc[k] = "idle"
    BY <1>9 DEF ResumeGuard, Confirm
  <2>2. PICK place \in {"guard", "run"} : pc' = [pc EXCEPT ![k] = place]
    BY <1>9 DEF ResumeGuard, Confirm, Goto
  <2>3. at' = [at EXCEPT ![k] = c]
    BY <1>9 DEF ResumeGuard, Confirm
  <2>4. k \in Drivers /\ ~Replaying(k)
    BY <2>1, DriversAre DEF Replaying
  <2>5. ~Replaying(k)' /\ \A e \in Drivers \ {k} : pc'[e] = pc[e] /\ at'[e] = at[e]
    BY <1>a, <2>2, <2>3, <2>4 DEF Shaped, Replaying
  <2>6. QED
    BY <2>1, <2>4, <2>5, Elsewhere
<1>10. ASSUME \/ \E k \in Clients, c \in Calls : Reject(k, c)
              \/ \E c \in Calls : ExpireRead(c) \/ ExpireWrite(c) \/ ExpireAtStartup(c) \/ Age(c)
              \/ SweepRead \/ SweepReap \/ UNCHANGED vars
       PROVE  UNCHANGED Once!vars
  <2>1. UNCHANGED <<present, risky, ledger, effects, pc, at>>
    BY <1>10 DEF Reject, ExpireRead, ExpireWrite, ExpireAtStartup, Age, SweepRead, SweepReap,
       vars, driver
  <2>2. QED
    BY <2>1, Unseen DEF Replaying
<1>11. \A d \in Drivers : at[d] \in Calls
  BY <1>a DEF Shaped
<1>12. QED
  <2>1. ASSUME NEW d \in Clients, NEW c \in Calls,
               \/ Once!Claim(d, c) \/ Once!Happen(d, c)
               \/ \E outcome \in {"done", "open"} : Once!Settle(d, c, outcome)
               \/ \E n \in {0, 1} : Once!Abandon(d, c, n)
        PROVE  Once!Next
    BY <2>1 DEF Once!Next
  <2>2. ASSUME NEW d \in Drivers,
               \/ ConfirmReserve(d) \/ ConfirmCall(d) \/ ConfirmRecord(d)
               \/ ConfirmRaises(d) \/ CutOff(d)
        PROVE  [Once!Next]_(Once!vars)
    BY <1>4, <1>5, <1>6, <1>7, <1>8, <1>11, <2>1, <2>2
  <2>3. QED
    BY Actions, RefusedAll, <1>1, <1>2, <1>3, <1>9, <1>10, <2>2

\* Replaying prepared work implements WriteOnce: a write is claimed by one
\* request at a time, happens only under its claim, is never claimed again once
\* it is recorded as done, and one whose request vanished stays claimed by
\* nobody - whatever the routes, the expiry and the sweep do around it.
THEOREM PreparedWriteOnce == Spec => Once!Spec
<1>1. Init => Once!Init
  <2> SUFFICES ASSUME Init PROVE Once!Init
    OBVIOUS
  <2>1. phaseBar = [c \in Calls |-> "open"] /\ effectsBar = [c \in Calls |-> 0]
    BY DEF Init, phaseBar, effectsBar
  <2>2. ownersBar = [c \in Calls |-> {}]
    BY DriversAre DEF Init, ownersBar, Replaying
  <2>3. QED
    BY <2>1, <2>2 DEF Once!Init
<1>2. QED
  BY <1>1, WriteOnceStep, GatedAlways, PTL DEF Spec, Once!Spec
=============================================================================
