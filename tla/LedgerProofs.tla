---------------------------- MODULE LedgerProofs ----------------------------
(***************************************************************************)
(* Proofs about IdempotencyLedger, for any set of callers and keys, any    *)
(* number of transport retries and any tool behaviour.                     *)
(***************************************************************************)
EXTENDS IdempotencyLedger, TLAPS

\* The strengthening of SingleHolder: a holder's row is in_flight, so nobody
\* else can be given the key by an INSERT or by the guarded UPDATE.
HolderInv ==
  /\ SingleHolder
  /\ \A c \in Callers : Holding(c) => row[target[c]] = "in_flight"

\* The strengthening of EffectAtMostOnce: a write whose errors hide nothing and
\* that may still be fired has had no effect yet.
HonestInv ==
  /\ EffectAtMostOnce
  /\ \A k \in Keys \ Ambiguous :
       row[k] \in {"absent", "failed"} => effects[k] = 0
  /\ \A c \in Callers :
       /\ target[c] \notin Ambiguous
       /\ pc[c] = "fire" \/ (pc[c] = "record" /\ IsErr(shape[c]))
       => effects[target[c]] = 0

----------------------------------------------------------------------------
\* Every variable keeps its type: in particular call_tool's loop never makes
\* more than MaxRetries attempts.
THEOREM TypeCorrect == Spec => []TypeOK
<1> USE LedgerAssumption
<1>1. Init => TypeOK
  BY DEF Init, TypeOK, RowStatus, Shapes, Stages
<1>2. TypeOK /\ [Next]_vars => TypeOK'
  <2> SUFFICES ASSUME TypeOK, [Next]_vars PROVE TypeOK'
    OBVIOUS
  <2> USE DEF TypeOK, RowStatus, Shapes, Stages, Goto, Effect, Return, Hidden
  <2>1. ASSUME NEW c \in Callers, NEW k \in Keys, Call(c, k) PROVE TypeOK'
    BY <2>1 DEF Call
  <2>2. ASSUME NEW c \in Callers, ReserveInsert(c) PROVE TypeOK'
    BY <2>2 DEF ReserveInsert
  <2>3. ASSUME NEW c \in Callers, ResolveExisting(c) PROVE TypeOK'
    BY <2>3 DEF ResolveExisting
  <2>4. ASSUME NEW c \in Callers, ReopenFailed(c) PROVE TypeOK'
    BY <2>4 DEF ReopenFailed
  <2>5. ASSUME NEW c \in Callers, FireOk(c) PROVE TypeOK'
    BY <2>5 DEF FireOk
  <2>6. ASSUME NEW c \in Callers, NEW h \in Hidden(c), FireError(c, h) PROVE TypeOK'
    BY <2>6 DEF FireError
  <2>7. ASSUME NEW c \in Callers, NEW h \in Hidden(c), FireTransient(c, h)
        PROVE TypeOK'
    BY <2>7 DEF FireTransient
  <2>8. ASSUME NEW c \in Callers, NEW h \in Hidden(c), FireFailed(c, h) PROVE TypeOK'
    BY <2>8 DEF FireFailed
  <2>9. ASSUME NEW c \in Callers, Record(c) PROVE TypeOK'
    BY <2>9 DEF Record
  <2>10. ASSUME NEW c \in Callers, NEW l \in {0, 1}, Crash(c, l) PROVE TypeOK'
    BY <2>10 DEF Crash
  <2>11. CASE UNCHANGED vars
    BY <2>11 DEF vars, callerVars
  <2>12. QED
    BY <2>1, <2>2, <2>3, <2>4, <2>5, <2>6, <2>7, <2>8, <2>9, <2>10, <2>11
    DEF Next, Step
<1>3. QED
  BY <1>1, <1>2, PTL DEF Spec

----------------------------------------------------------------------------
\* The holder invariant holds in every reachable state.
LEMMA HolderInvariant == Spec => []HolderInv
<1> USE DEF HolderInv, SingleHolder, Holding
<1>1. Init => HolderInv
  BY DEF Init
<1>2. TypeOK /\ HolderInv /\ [Next]_vars => HolderInv'
  <2> SUFFICES ASSUME TypeOK, HolderInv, [Next]_vars PROVE HolderInv'
    OBVIOUS
  <2> USE DEF TypeOK, Goto, Effect, Return
  <2>1. ASSUME NEW c \in Callers, NEW k \in Keys, Call(c, k) PROVE HolderInv'
    BY <2>1 DEF Call
  <2>2. ASSUME NEW c \in Callers, ReserveInsert(c) PROVE HolderInv'
    BY <2>2 DEF ReserveInsert
  <2>3. ASSUME NEW c \in Callers, ResolveExisting(c) PROVE HolderInv'
    BY <2>3 DEF ResolveExisting
  <2>4. ASSUME NEW c \in Callers, ReopenFailed(c) PROVE HolderInv'
    BY <2>4 DEF ReopenFailed
  <2>5. ASSUME NEW c \in Callers, FireOk(c) PROVE HolderInv'
    BY <2>5 DEF FireOk
  <2>6. ASSUME NEW c \in Callers, NEW h \in Hidden(c), FireError(c, h) PROVE HolderInv'
    BY <2>6 DEF FireError
  <2>7. ASSUME NEW c \in Callers, NEW h \in Hidden(c), FireTransient(c, h) PROVE HolderInv'
    BY <2>7 DEF FireTransient
  <2>8. ASSUME NEW c \in Callers, NEW h \in Hidden(c), FireFailed(c, h) PROVE HolderInv'
    BY <2>8 DEF FireFailed
  <2>9. ASSUME NEW c \in Callers, Record(c) PROVE HolderInv'
    BY <2>9 DEF Record
  <2>10. ASSUME NEW c \in Callers, NEW l \in {0, 1}, Crash(c, l) PROVE HolderInv'
    BY <2>10 DEF Crash
  <2>11. CASE UNCHANGED vars
    BY <2>11 DEF vars, callerVars
  <2>12. QED
    BY <2>1, <2>2, <2>3, <2>4, <2>5, <2>6, <2>7, <2>8, <2>9, <2>10, <2>11
    DEF Next, Step
<1>3. QED
  BY <1>1, <1>2, TypeCorrect, PTL DEF Spec

\* Mutual exclusion on a key, from the unique index and the guarded reopen.
THEOREM MutualExclusion == Spec => []SingleHolder
  BY HolderInvariant, PTL DEF HolderInv

\* Completion is final: row, stored result and effect never change again.
THEOREM CompletionFinal == Spec => CompletedIsFinal
<1> DEFINE Final == \A k \in Keys : row[k] = "completed" =>
                      /\ row'[k] = "completed"
                      /\ stored'[k] = stored[k]
                      /\ effects'[k] = effects[k]
<1>1. TypeOK /\ HolderInv /\ [Next]_vars => Final \/ UNCHANGED vars
  <2> SUFFICES ASSUME TypeOK, HolderInv, Next PROVE Final
    OBVIOUS
  <2> USE DEF TypeOK, HolderInv, Holding, Goto, Effect, Return, Hidden
  <2>1. ASSUME NEW c \in Callers, NEW k \in Keys, Call(c, k) PROVE Final
    BY <2>1 DEF Call
  <2>2. ASSUME NEW c \in Callers, ReserveInsert(c) PROVE Final
    BY <2>2 DEF ReserveInsert
  <2>3. ASSUME NEW c \in Callers, ResolveExisting(c) PROVE Final
    BY <2>3 DEF ResolveExisting
  <2>4. ASSUME NEW c \in Callers, ReopenFailed(c) PROVE Final
    BY <2>4 DEF ReopenFailed
  <2>5. ASSUME NEW c \in Callers, FireOk(c) PROVE Final
    BY <2>5 DEF FireOk
  <2>6. ASSUME NEW c \in Callers, NEW h \in Hidden(c), FireError(c, h) PROVE Final
    BY <2>6 DEF FireError
  <2>7. ASSUME NEW c \in Callers, NEW h \in Hidden(c), FireTransient(c, h) PROVE Final
    BY <2>7 DEF FireTransient
  <2>8. ASSUME NEW c \in Callers, NEW h \in Hidden(c), FireFailed(c, h) PROVE Final
    BY <2>8 DEF FireFailed
  <2>9. ASSUME NEW c \in Callers, Record(c) PROVE Final
    BY <2>9 DEF Record
  <2>10. ASSUME NEW c \in Callers, NEW l \in {0, 1}, Crash(c, l) PROVE Final
    BY <2>10 DEF Crash
  <2>11. QED
    BY <2>1, <2>2, <2>3, <2>4, <2>5, <2>6, <2>7, <2>8, <2>9, <2>10
    DEF Next, Step
<1>2. QED
  BY <1>1, TypeCorrect, HolderInvariant, PTL DEF Spec, CompletedIsFinal

\* Fail-closed on uncertainty: the write of a vanished caller is never fired.
THEOREM OrphansStay == Spec => OrphanNeverRefired
<1> DEFINE Stays == \A k \in Keys :
                      Orphan(k) => Orphan(k)' /\ effects'[k] = effects[k]
<1>1. TypeOK /\ HolderInv /\ [Next]_vars => Stays \/ UNCHANGED vars
  <2> SUFFICES ASSUME TypeOK, HolderInv, Next PROVE Stays
    OBVIOUS
  <2> USE DEF TypeOK, HolderInv, Holding, Orphan, Goto, Effect, Return, Hidden
  <2>1. ASSUME NEW c \in Callers, NEW k \in Keys, Call(c, k) PROVE Stays
    BY <2>1 DEF Call
  <2>2. ASSUME NEW c \in Callers, ReserveInsert(c) PROVE Stays
    BY <2>2 DEF ReserveInsert
  <2>3. ASSUME NEW c \in Callers, ResolveExisting(c) PROVE Stays
    BY <2>3 DEF ResolveExisting
  <2>4. ASSUME NEW c \in Callers, ReopenFailed(c) PROVE Stays
    BY <2>4 DEF ReopenFailed
  <2>5. ASSUME NEW c \in Callers, FireOk(c) PROVE Stays
    BY <2>5 DEF FireOk
  <2>6. ASSUME NEW c \in Callers, NEW h \in Hidden(c), FireError(c, h) PROVE Stays
    BY <2>6 DEF FireError
  <2>7. ASSUME NEW c \in Callers, NEW h \in Hidden(c), FireTransient(c, h) PROVE Stays
    BY <2>7 DEF FireTransient
  <2>8. ASSUME NEW c \in Callers, NEW h \in Hidden(c), FireFailed(c, h) PROVE Stays
    BY <2>8 DEF FireFailed
  <2>9. ASSUME NEW c \in Callers, Record(c) PROVE Stays
    BY <2>9 DEF Record
  <2>10. ASSUME NEW c \in Callers, NEW l \in {0, 1}, Crash(c, l) PROVE Stays
    BY <2>10 DEF Crash
  <2>11. QED
    BY <2>1, <2>2, <2>3, <2>4, <2>5, <2>6, <2>7, <2>8, <2>9, <2>10
    DEF Next, Step
<1>2. QED
  BY <1>1, TypeCorrect, HolderInvariant, PTL DEF Spec, OrphanNeverRefired

----------------------------------------------------------------------------
\* What a write may still do depends on its row and on its holder, in every
\* interleaving of the wrapper's transactions.
LEMMA HonestInvariant == Spec => []HonestInv
<1> USE DEF HonestInv, EffectAtMostOnce
<1>1. Init => HonestInv
  BY DEF Init
<1>2. TypeOK /\ HolderInv /\ HonestInv /\ [Next]_vars => HonestInv'
  <2> SUFFICES ASSUME TypeOK, HolderInv, HonestInv, [Next]_vars PROVE HonestInv'
    OBVIOUS
  <2> USE LedgerAssumption DEF TypeOK, HolderInv, SingleHolder, Holding, Goto, Effect,
          Return, IsErr, Hidden
  <2>1. ASSUME NEW c \in Callers, NEW k \in Keys, Call(c, k) PROVE HonestInv'
    BY <2>1 DEF Call
  <2>2. ASSUME NEW c \in Callers, ReserveInsert(c) PROVE HonestInv'
    BY <2>2 DEF ReserveInsert
  <2>3. ASSUME NEW c \in Callers, ResolveExisting(c) PROVE HonestInv'
    BY <2>3 DEF ResolveExisting
  <2>4. ASSUME NEW c \in Callers, ReopenFailed(c) PROVE HonestInv'
    BY <2>4 DEF ReopenFailed
  <2>5. ASSUME NEW c \in Callers, FireOk(c) PROVE HonestInv'
    BY <2>5 DEF FireOk
  <2>6. ASSUME NEW c \in Callers, NEW h \in Hidden(c), FireError(c, h) PROVE HonestInv'
    BY <2>6 DEF FireError
  <2>7. ASSUME NEW c \in Callers, NEW h \in Hidden(c), FireTransient(c, h) PROVE HonestInv'
    BY <2>7 DEF FireTransient
  <2>8. ASSUME NEW c \in Callers, NEW h \in Hidden(c), FireFailed(c, h) PROVE HonestInv'
    BY <2>8 DEF FireFailed
  <2>9. ASSUME NEW c \in Callers, Record(c) PROVE HonestInv'
    BY <2>9 DEF Record
  <2>10. ASSUME NEW c \in Callers, NEW l \in {0, 1}, Crash(c, l) PROVE HonestInv'
    BY <2>10 DEF Crash
  <2>11. CASE UNCHANGED vars
    BY <2>11 DEF vars, callerVars
  <2>12. QED
    BY <2>1, <2>2, <2>3, <2>4, <2>5, <2>6, <2>7, <2>8, <2>9, <2>10, <2>11
    DEF Next, Step
<1>3. QED
  BY <1>1, <1>2, TypeCorrect, HolderInvariant, PTL DEF Spec

\* With tools whose errors hide no effect, an external write happens at most
\* once, for any number of drivers, retries, crashes and late requests.
THEOREM AtMostOnce == Spec => []EffectAtMostOnce
<1>1. HonestInv => EffectAtMostOnce
  BY DEF HonestInv
<1>2. QED
  BY <1>1, HonestInvariant, PTL

\* With such tools a row that mark_failed left open for a retry belongs to a
\* write that never happened, so the guarded reopen is safe.
THEOREM ReopenIsSafe == Spec => []FailedMeansNoEffect
<1>1. HonestInv => FailedMeansNoEffect
  BY DEF HonestInv, FailedMeansNoEffect
<1>2. QED
  BY <1>1, HonestInvariant, PTL

----------------------------------------------------------------------------
\* How the refinement mapping moves when one row changes.
LEMMA PhaseStep ==
  ASSUME TypeOK, NEW k \in Keys, NEW st \in RowStatus,
         row' = [row EXCEPT ![k] = st]
  PROVE  phaseBar' = [phaseBar EXCEPT
           ![k] = IF st = "in_flight" THEN "claimed"
                  ELSE IF st = "completed" THEN "done" ELSE "open"]
  BY DEF phaseBar, TypeOK

\* How it moves when one caller becomes the holder of its key ...
LEMMA OwnerEnters ==
  ASSUME TypeOK, NEW c \in Callers, ownersBar[target[c]] = {}, target' = target,
         \A d \in Callers : Holding(d)' <=> (Holding(d) \/ d = c)
  PROVE  ownersBar' = [ownersBar EXCEPT ![target[c]] = {c}]
<1> DEFINE New(j) == {d \in Callers : Holding(d)' /\ target[d] = j}
           Old(j) == {d \in Callers : Holding(d) /\ target[d] = j}
<1>1. target[c] \in Keys
  BY DEF TypeOK
<1>2. ownersBar = [j \in Keys |-> Old(j)] /\ ownersBar' = [j \in Keys |-> New(j)]
  BY DEF ownersBar
<1>3. Old(target[c]) = {}
  BY <1>1, <1>2
<1>4. New(target[c]) = {c}
  BY <1>3
<1>5. ASSUME NEW j \in Keys, j # target[c] PROVE New(j) = Old(j)
  BY <1>5
<1> HIDE DEF New, Old
<1>6. QED
  BY <1>1, <1>2, <1>4, <1>5

\* ... and when the holder of a key stops being one.
LEMMA OwnerLeaves ==
  ASSUME TypeOK, NEW c \in Callers, ownersBar[target[c]] = {c}, target' = target,
         \A d \in Callers : Holding(d)' <=> (Holding(d) /\ d # c)
  PROVE  ownersBar' = [ownersBar EXCEPT ![target[c]] = {}]
<1> DEFINE New(j) == {d \in Callers : Holding(d)' /\ target[d] = j}
           Old(j) == {d \in Callers : Holding(d) /\ target[d] = j}
<1>1. target[c] \in Keys
  BY DEF TypeOK
<1>2. ownersBar = [j \in Keys |-> Old(j)] /\ ownersBar' = [j \in Keys |-> New(j)]
  BY DEF ownersBar
<1>3. Old(target[c]) = {c}
  BY <1>1, <1>2
<1>4. New(target[c]) = {}
  BY <1>3
<1>5. ASSUME NEW j \in Keys, j # target[c] PROVE New(j) = Old(j)
  BY <1>5
<1> HIDE DEF New, Old
<1>6. QED
  BY <1>1, <1>2, <1>4, <1>5

\* The ledger implements WriteOnce: rows and callers' positions map to phases
\* and owners, and every statement is one abstract step or none.
THEOREM Refinement == Spec => ImplementsWriteOnce
<1>1. Init => WO!Init
  BY DEF Init, WO!Init, Holding, phaseBar, ownersBar
<1>2. TypeOK /\ HolderInv /\ [Next]_vars => [WO!Next]_(WO!vars)
  <2> SUFFICES ASSUME TypeOK, HolderInv, [Next]_vars PROVE [WO!Next]_(WO!vars)
    OBVIOUS
  <2> USE DEF TypeOK, RowStatus, Holding, Goto, Effect, Return, phaseBar, ownersBar
  <2>1. ASSUME NEW c \in Callers, NEW k \in Keys, Call(c, k) PROVE UNCHANGED WO!vars
    BY <2>1 DEF Call, WO!vars
  <2>2. ASSUME NEW c \in Callers, ReserveInsert(c)
        PROVE WO!Claim(c, target[c]) \/ UNCHANGED WO!vars
    <3>1. CASE row[target[c]] = "absent"
      <4>1. phaseBar[target[c]] = "open" /\ ownersBar[target[c]] = {}
        BY <3>1 DEF HolderInv
      <4>2. phaseBar' = [phaseBar EXCEPT ![target[c]] = "claimed"]
        <5>1. row' = [row EXCEPT ![target[c]] = "in_flight"]
          BY <2>2, <3>1 DEF ReserveInsert
        <5>2. QED
          BY <5>1, PhaseStep
      <4>3. /\ target' = target /\ effects' = effects
            /\ \A d \in Callers : Holding(d)' <=> (Holding(d) \/ d = c)
        BY <2>2, <3>1 DEF ReserveInsert
      <4>4. ownersBar' = [ownersBar EXCEPT ![target[c]] = {c}]
        BY <4>1, <4>3, OwnerEnters
      <4> HIDE DEF phaseBar, ownersBar
      <4>5. QED
        BY <4>1, <4>2, <4>3, <4>4 DEF WO!Claim
    <3>2. CASE row[target[c]] # "absent"
      BY <2>2, <3>2 DEF ReserveInsert, WO!vars
    <3>3. QED
      BY <3>1, <3>2
  <2>3. ASSUME NEW c \in Callers, ResolveExisting(c) PROVE UNCHANGED WO!vars
    BY <2>3 DEF ResolveExisting, WO!vars
  <2>4. ASSUME NEW c \in Callers, ReopenFailed(c)
        PROVE WO!Claim(c, target[c]) \/ UNCHANGED WO!vars
    <3>1. CASE row[target[c]] = "failed"
      <4>1. phaseBar[target[c]] = "open" /\ ownersBar[target[c]] = {}
        BY <3>1 DEF HolderInv
      <4>2. phaseBar' = [phaseBar EXCEPT ![target[c]] = "claimed"]
        <5>1. row' = [row EXCEPT ![target[c]] = "in_flight"]
          BY <2>4, <3>1 DEF ReopenFailed
        <5>2. QED
          BY <5>1, PhaseStep
      <4>3. /\ target' = target /\ effects' = effects
            /\ \A d \in Callers : Holding(d)' <=> (Holding(d) \/ d = c)
        BY <2>4, <3>1 DEF ReopenFailed
      <4>4. ownersBar' = [ownersBar EXCEPT ![target[c]] = {c}]
        BY <4>1, <4>3, OwnerEnters
      <4> HIDE DEF phaseBar, ownersBar
      <4>5. QED
        BY <4>1, <4>2, <4>3, <4>4 DEF WO!Claim
    <3>2. CASE row[target[c]] # "failed"
      BY <2>4, <3>2 DEF ReopenFailed, WO!vars
    <3>3. QED
      BY <3>1, <3>2
  <2>5. ASSUME NEW c \in Callers, FireOk(c) PROVE WO!Happen(c, target[c])
    BY <2>5 DEF FireOk, WO!Happen, HolderInv, SingleHolder
  <2>6. ASSUME NEW c \in Callers, NEW h \in Hidden(c), FireError(c, h)
        PROVE WO!Happen(c, target[c]) \/ UNCHANGED WO!vars
    <3>1. ownersBar[target[c]] = {c}
      BY <2>6 DEF FireError, HolderInv, SingleHolder
    <3>2. phaseBar' = phaseBar /\ ownersBar' = ownersBar
      BY <2>6 DEF FireError
    <3>3. h = 0 => effects' = effects
      BY <2>6 DEF FireError
    <3>4. h = 1 => effects' = [effects EXCEPT ![target[c]] = @ + 1]
      BY <2>6 DEF FireError
    <3>5. QED
      BY <3>1, <3>2, <3>3, <3>4 DEF WO!Happen, WO!vars, Hidden
  <2>7. ASSUME NEW c \in Callers, NEW h \in Hidden(c), FireTransient(c, h)
        PROVE WO!Happen(c, target[c]) \/ UNCHANGED WO!vars
    <3>1. ownersBar[target[c]] = {c}
      BY <2>7 DEF FireTransient, HolderInv, SingleHolder
    <3>2. phaseBar' = phaseBar /\ ownersBar' = ownersBar
      BY <2>7 DEF FireTransient
    <3>3. h = 0 => effects' = effects
      BY <2>7 DEF FireTransient
    <3>4. h = 1 => effects' = [effects EXCEPT ![target[c]] = @ + 1]
      BY <2>7 DEF FireTransient
    <3>5. QED
      BY <3>1, <3>2, <3>3, <3>4 DEF WO!Happen, WO!vars, Hidden
  <2>8. ASSUME NEW c \in Callers, NEW h \in Hidden(c), FireFailed(c, h)
        PROVE WO!Happen(c, target[c]) \/ UNCHANGED WO!vars
    <3>1. ownersBar[target[c]] = {c}
      BY <2>8 DEF FireFailed, HolderInv, SingleHolder
    <3>2. phaseBar' = phaseBar /\ ownersBar' = ownersBar
      BY <2>8 DEF FireFailed
    <3>3. h = 0 => effects' = effects
      BY <2>8 DEF FireFailed
    <3>4. h = 1 => effects' = [effects EXCEPT ![target[c]] = @ + 1]
      BY <2>8 DEF FireFailed
    <3>5. QED
      BY <3>1, <3>2, <3>3, <3>4 DEF WO!Happen, WO!vars, Hidden
  <2>9. ASSUME NEW c \in Callers, Record(c)
        PROVE \E outcome \in {"done", "open"} : WO!Settle(c, target[c], outcome)
    <3>1. ownersBar[target[c]] = {c} /\ phaseBar[target[c]] = "claimed"
      BY <2>9 DEF Record, HolderInv, SingleHolder
    <3>2. /\ target' = target /\ effects' = effects
          /\ \A d \in Callers : Holding(d)' <=> (Holding(d) /\ d # c)
      BY <2>9 DEF Record
    <3>3. ownersBar' = [ownersBar EXCEPT ![target[c]] = {}]
      BY <3>1, <3>2, OwnerLeaves
    <3>4. PICK st \in {"failed", "completed"} :
            row' = [row EXCEPT ![target[c]] = st]
      BY <2>9 DEF Record
    <3>5. phaseBar' = [phaseBar EXCEPT
                        ![target[c]] = IF st = "completed" THEN "done" ELSE "open"]
      BY <3>4, PhaseStep
    <3> HIDE DEF phaseBar, ownersBar
    <3>6. QED
      BY <3>1, <3>2, <3>3, <3>5 DEF WO!Settle
  <2>10. ASSUME NEW c \in Callers, NEW l \in {0, 1}, Crash(c, l)
         PROVE WO!Abandon(c, target[c], l) \/ UNCHANGED WO!vars
    <3>1. CASE Holding(c)
      <4>1. ownersBar[target[c]] = {c} /\ phaseBar' = phaseBar
        BY <2>10, <3>1 DEF Crash, HolderInv, SingleHolder
      <4>2. /\ target' = target
            /\ effects' = [effects EXCEPT ![target[c]] = @ + l]
            /\ \A d \in Callers : Holding(d)' <=> (Holding(d) /\ d # c)
        BY <2>10, <3>1 DEF Crash
      <4>3. ownersBar' = [ownersBar EXCEPT ![target[c]] = {}]
        BY <4>1, <4>2, OwnerLeaves
      <4> HIDE DEF phaseBar, ownersBar
      <4>4. QED
        BY <4>1, <4>2, <4>3 DEF WO!Abandon
    <3>2. CASE ~Holding(c)
      BY <2>10, <3>2 DEF Crash, WO!vars
    <3>3. QED
      BY <3>1, <3>2
  <2>11. CASE UNCHANGED vars
    BY <2>11 DEF vars, callerVars, WO!vars
  <2>12. \A c \in Callers : target[c] \in Keys
    OBVIOUS
  <2> HIDE DEF TypeOK, Holding, phaseBar, ownersBar
  <2>13. QED
    BY <2>1, <2>2, <2>3, <2>4, <2>5, <2>6, <2>7, <2>8, <2>9, <2>10, <2>11, <2>12
    DEF Next, Step, WO!Next
<1>3. QED
  BY <1>1, <1>2, TypeCorrect, HolderInvariant, PTL
  DEF Spec, ImplementsWriteOnce, WO!Spec
=============================================================================
