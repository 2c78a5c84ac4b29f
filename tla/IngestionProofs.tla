--------------------------- MODULE IngestionProofs ---------------------------
(***************************************************************************)
(* Proofs about Ingestion, for any number of overlapping cycles, any       *)
(* history of the source, any sharing of keys, and any page and chunk size; *)
(* and about Perception, which decides when a cycle starts, for any number  *)
(* of scheduler processes and any thresholds.                               *)
(***************************************************************************)
EXTENDS Ingestion, Perception, TLAPS

\* What a cycle has promised of the items up to a place.
UpTo(n, w) ==
  \A i \in 1 .. n : \/ Handled(i)
                    \/ i \in got[w]
                    \/ pc[w] = "store" /\ i \in fresh[w]

\* The strengthening of NothingSkipped.  The cursor a cycle read, however old
\* it is by now, has only handled items below it; and the items below the
\* cursor it is going to write are handled or still in its hands.
CycleInv ==
  \A w \in Cycles :
    /\ \A i \in 1 .. since[w] : Handled(i)
    /\ pc[w] \in {"idle", "poll", "fetch"} => upto[w] = 0
    /\ UpTo(upto[w], w)

SkipInv == NothingSkipped /\ CycleInv

\* The strengthening of PublishedOnce: the items a cycle is about to publish
\* are stored and not yet sent, and no other item at hand, of this cycle or of
\* another, has the same key.
Sending(w, i) == pc[w] = "publish" /\ i \in fresh[w]

SendInv ==
  /\ \A w \in Cycles : \A i \in fresh[w] :
       Sending(w, i) => EventKey[i] \in stored /\ sent[EventKey[i]] = 0
  /\ \A v, w \in Cycles : \A i \in fresh[v], j \in fresh[w] :
       Sending(v, i) /\ Sending(w, j) /\ EventKey[i] = EventKey[j]
         => v = w /\ i = j

----------------------------------------------------------------------------
\* Every action keeps the types: no cursor, read, written or to be written,
\* runs ahead of the source.
THEOREM TypeCorrect == Spec => []TypeOK
<1> USE IngestionAssumption DEF Items, Keys
<1>1. Init => TypeOK
  BY DEF Init, TypeOK
<1>2. TypeOK /\ [Next]_vars => TypeOK'
  <2> SUFFICES ASSUME TypeOK, [Next]_vars PROVE TypeOK'
    OBVIOUS
  <2> USE DEF TypeOK, Goto, Ends, data
  <2>1. CASE NewItem
    BY <2>1 DEF NewItem
  <2>2. ASSUME NEW w \in Cycles, Start(w) PROVE TypeOK'
    BY <2>2 DEF Start
  <2>3. ASSUME NEW w \in Cycles, Deliver(w) PROVE TypeOK'
    BY <2>3 DEF Deliver
  <2>4. ASSUME NEW w \in Cycles, ReadCursor(w) PROVE TypeOK'
    BY <2>4 DEF ReadCursor
  <2>5. ASSUME NEW w \in Cycles, FetchEmpty(w) PROVE TypeOK'
    BY <2>5 DEF FetchEmpty
  <2>6. ASSUME NEW w \in Cycles, Fetch(w) PROVE TypeOK'
    BY <2>6 DEF Fetch, Newest
  <2>7. ASSUME NEW w \in Cycles, DedupChunk(w) PROVE TypeOK'
    BY <2>7 DEF DedupChunk
  <2>8. ASSUME NEW w \in Cycles, StoreChunk(w) PROVE TypeOK'
    <3>1. CASE Conflicts(fresh[w])
      <4>1. fresh[w] \subseteq 1 .. head /\ 1 .. head \subseteq Items
        OBVIOUS
      <4>2. lost' \subseteq Items
        BY <2>8, <3>1, <4>1 DEF StoreChunk
      <4>3. QED
        BY <2>8, <3>1, <4>2 DEF StoreChunk
    <3>2. CASE ~Conflicts(fresh[w])
      <4>1. {EventKey[i] : i \in fresh[w]} \subseteq Keys
        OBVIOUS
      <4>2. QED
        BY <2>8, <3>2, <4>1 DEF StoreChunk
    <3>3. QED
      BY <3>1, <3>2
  <2>9. ASSUME NEW w \in Cycles, Publish(w) PROVE TypeOK'
    BY <2>9 DEF Publish
  <2>10. ASSUME NEW w \in Cycles, Advance(w) PROVE TypeOK'
    BY <2>10 DEF Advance
  <2>11. ASSUME NEW w \in Cycles, Stop(w) PROVE TypeOK'
    BY <2>11 DEF Stop
  <2>12. CASE UNCHANGED vars
    BY <2>12 DEF vars
  <2>13. QED
    BY <2>1, <2>2, <2>3, <2>4, <2>5, <2>6, <2>7, <2>8, <2>9, <2>10, <2>11, <2>12
       DEF Next, Work
<1>3. QED
  BY <1>1, <1>2, PTL DEF Spec

----------------------------------------------------------------------------
\* What is stored or given up stays so.
LEMMA HandledStays ==
  ASSUME NEW i, stored \subseteq stored', lost \subseteq lost', Handled(i)
  PROVE  Handled(i)'
BY DEF Handled

\* No action takes an item back.
LEMMA HandledGrows ==
  ASSUME TypeOK, [Next]_vars
  PROVE  stored \subseteq stored' /\ lost \subseteq lost'
BY DEF Next, Work, vars, data, NewItem, Start, Deliver, ReadCursor, FetchEmpty, Fetch,
       DedupChunk, StoreChunk, Publish, Advance, Stop

\* The cursor never passes an item that is neither stored nor given up with its
\* chunk: cycles that overlap, are truncated, fail or write back an old cursor
\* skip nothing (ingest_raw_events moves the cursor last).
THEOREM NoneSkipped == Spec => []NothingSkipped
<1> USE IngestionAssumption DEF Items
<1>1. Init => SkipInv
  BY DEF Init, SkipInv, NothingSkipped, TypeOK, CycleInv, UpTo, Handled, Keys
<1>2. TypeOK' /\ SkipInv /\ [Next]_vars => SkipInv'
  <2> SUFFICES ASSUME TypeOK', SkipInv, [Next]_vars
               PROVE  CycleInv' /\ \A i \in 1 .. cursor' : Handled(i)'
    BY DEF SkipInv, NothingSkipped
  <2> DEFINE Kept == CycleInv' /\ \A i \in 1 .. cursor' : Handled(i)'
  <2>a. TypeOK /\ CycleInv /\ \A i \in 1 .. cursor : Handled(i)
    BY DEF SkipInv, NothingSkipped
  <2>b. \A i : Handled(i) => Handled(i)'
    BY <2>a, HandledGrows, HandledStays
  <2> USE <2>a, <2>b DEF TypeOK, CycleInv, UpTo, Goto, Ends, data
  <2>1. CASE NewItem
    BY <2>1 DEF NewItem
  <2>2. ASSUME NEW w \in Cycles, Start(w) PROVE Kept
    BY <2>2 DEF Start
  <2>3. ASSUME NEW w \in Cycles, Deliver(w) PROVE Kept
    BY <2>3 DEF Deliver
  <2>4. ASSUME NEW w \in Cycles, ReadCursor(w) PROVE Kept
    BY <2>4 DEF ReadCursor
  <2>5. ASSUME NEW w \in Cycles, FetchEmpty(w) PROVE Kept
    BY <2>5 DEF FetchEmpty
  <2>6. ASSUME NEW w \in Cycles, Fetch(w) PROVE Kept
    BY <2>6 DEF Fetch, Newest
  <2>7. ASSUME NEW w \in Cycles, DedupChunk(w) PROVE Kept
    <3>1. \A i \in 1 .. upto[w] : Handled(i) \/ i \in got[w]
      BY <2>7 DEF DedupChunk
    <3>2. \A i \in got[w] : EventKey[i] \in stored \/ i \in got'[w]
                              \/ (pc'[w] = "store" /\ i \in fresh'[w])
      BY <2>7 DEF DedupChunk
    <3>3. UpTo(upto[w], w)'
      BY <2>7, <3>1, <3>2 DEF DedupChunk, Handled
    <3>4. QED
      BY <2>7, <3>3 DEF DedupChunk
  <2>8. ASSUME NEW w \in Cycles, StoreChunk(w) PROVE Kept
    <3>1. \A i \in fresh[w] : Handled(i)'
      BY <2>8 DEF StoreChunk, Handled
    <3>2. UpTo(upto[w], w)'
      BY <2>8, <3>1 DEF StoreChunk
    <3>3. QED
      BY <2>8, <3>2 DEF StoreChunk
  <2>9. ASSUME NEW w \in Cycles, Publish(w) PROVE Kept
    BY <2>9 DEF Publish
  <2>10. ASSUME NEW w \in Cycles, Advance(w) PROVE Kept
    BY <2>10 DEF Advance
  <2>11. ASSUME NEW w \in Cycles, Stop(w) PROVE Kept
    BY <2>11 DEF Stop
  <2>12. CASE UNCHANGED vars
    BY <2>12 DEF vars
  <2>13. QED
    BY <2>1, <2>2, <2>3, <2>4, <2>5, <2>6, <2>7, <2>8, <2>9, <2>10, <2>11, <2>12
       DEF Next, Work
<1>3. SkipInv => NothingSkipped
  BY DEF SkipInv
<1>4. QED
  BY <1>1, <1>2, <1>3, TypeCorrect, PTL DEF Spec

----------------------------------------------------------------------------
\* An event is published at most once, and only after it is stored, whatever
\* cycles overlap: the unique key of normalized_events admits one of them.
THEOREM AtMostOncePublished == Spec => []PublishedOnce
<1> DEFINE Inv == PublishedOnce /\ SendInv
<1>1. Init => Inv
  BY DEF Init, PublishedOnce, SendInv
<1>2. TypeOK /\ TypeOK' /\ Inv /\ [Next]_vars => Inv'
  <2> SUFFICES ASSUME TypeOK, TypeOK', Inv, [Next]_vars PROVE Inv'
    OBVIOUS
  <2> USE IngestionAssumption DEF TypeOK, PublishedOnce, SendInv, Sending, Goto, Ends, data
  <2>1. CASE NewItem
    BY <2>1 DEF NewItem
  <2>2. ASSUME NEW w \in Cycles, Start(w) PROVE Inv'
    BY <2>2 DEF Start
  <2>3. ASSUME NEW w \in Cycles, Deliver(w) PROVE Inv'
    BY <2>3 DEF Deliver
  <2>4. ASSUME NEW w \in Cycles, ReadCursor(w) PROVE Inv'
    BY <2>4 DEF ReadCursor
  <2>5. ASSUME NEW w \in Cycles, FetchEmpty(w) PROVE Inv'
    BY <2>5 DEF FetchEmpty
  <2>6. ASSUME NEW w \in Cycles, Fetch(w) PROVE Inv'
    BY <2>6 DEF Fetch
  <2>7. ASSUME NEW w \in Cycles, DedupChunk(w) PROVE Inv'
    BY <2>7 DEF DedupChunk
  <2>8. ASSUME NEW w \in Cycles, StoreChunk(w) PROVE Inv'
    <3>1. CASE Conflicts(fresh[w])
      BY <2>8, <3>1 DEF StoreChunk
    <3>2. CASE ~Conflicts(fresh[w])
      <4>1. \A i \in fresh[w] : /\ EventKey[i] \in Keys
                                /\ EventKey[i] \notin stored
                                /\ sent[EventKey[i]] = 0
        BY <3>2 DEF Conflicts, Keys, Items
      <4>2. \A i, j \in fresh[w] : EventKey[i] = EventKey[j] => i = j
        BY <3>2 DEF Conflicts
      <4>3. QED
        BY <2>8, <3>2, <4>1, <4>2 DEF StoreChunk
    <3>3. QED
      BY <3>1, <3>2
  <2>9. ASSUME NEW w \in Cycles, Publish(w) PROVE Inv'
    <3>1. PICK i \in fresh[w] :
            /\ sent' \in {sent, [sent EXCEPT ![EventKey[i]] = @ + 1]}
            /\ fresh' = [fresh EXCEPT ![w] = @ \ {i}]
      BY <2>9 DEF Publish
    <3>2. Sending(w, i) /\ EventKey[i] \in Keys
      BY <2>9 DEF Publish, Keys, Items
    <3>3. \A v \in Cycles : \A j \in fresh'[v] :
            Sending(v, j)' => Sending(v, j) /\ EventKey[j] # EventKey[i]
      BY <2>9, <3>1, <3>2 DEF Publish
    <3>4. PublishedOnce'
      BY <2>9, <3>1, <3>2 DEF Publish
    <3>5. SendInv'
      BY <2>9, <3>1, <3>2, <3>3 DEF Publish
    <3>6. QED
      BY <3>4, <3>5
  <2>10. ASSUME NEW w \in Cycles, Advance(w) PROVE Inv'
    BY <2>10 DEF Advance
  <2>11. ASSUME NEW w \in Cycles, Stop(w) PROVE Inv'
    BY <2>11 DEF Stop
  <2>12. CASE UNCHANGED vars
    BY <2>12 DEF vars
  <2>13. QED
    BY <2>1, <2>2, <2>3, <2>4, <2>5, <2>6, <2>7, <2>8, <2>9, <2>10, <2>11, <2>12
       DEF Next, Work
<1>3. QED
  BY <1>1, <1>2, TypeCorrect, PTL DEF Spec

----------------------------------------------------------------------------
(* The schedule of a source.                                               *)

\* The greatest of the three thresholds exists, and none exceeds it: counts are
\* kept up to it.
LEMMA MaxFailsBounds ==
  /\ MaxFails \in Nat /\ 0 \in 0 .. MaxFails
  /\ \A c \in ErrorClass : Threshold[c] <= MaxFails
<1> DEFINE T == {Threshold[c] : c \in ErrorClass}
<1>1. \E x \in T : \A y \in T : x >= y
  BY ThresholdAssumption DEF ErrorClass
<1>2. MaxFails = CHOOSE x \in T : \A y \in T : x >= y
  BY DEF MaxFails, Max
<1>3. MaxFails \in T /\ \A y \in T : MaxFails >= y
  BY <1>1, <1>2
<1>4. QED
  BY <1>3, ThresholdAssumption

\* Opening for a trial, claiming, asking, pausing, resuming and the agent's
\* policy give rows; what they do to the flag of a signal.
LEMMA RowsStayRows ==
  ASSUME NEW r \in PolicyRow
  PROVE  /\ Reopened(r) \in PolicyRow
         /\ Reopened(r).pending = r.pending
         /\ Claimed(r) \in PolicyRow
         /\ RequestRun(r) \in PolicyRow
         /\ RequestRun(r).pending
         /\ ApplyAgentPolicy(r) \in PolicyRow
         /\ ApplyAgentPolicy(r).pending = r.pending
         /\ PausedForReauth(r) \in PolicyRow
         /\ PausedForReauth(r).pending = r.pending
         /\ Resumed(r) \in PolicyRow
         /\ Resumed(r).pending
<1>1. 0 \in 0 .. MaxFails
  BY MaxFailsBounds
<1>2. /\ Reopened(r) \in PolicyRow
      /\ Reopened(r).pending = r.pending
  BY <1>1 DEF PolicyRow, Reopened
<1>3. Claimed(r) \in PolicyRow
  BY <1>2 DEF PolicyRow, Claimed
<1>4. /\ RequestRun(r) \in PolicyRow
      /\ RequestRun(r).pending
      /\ ApplyAgentPolicy(r) \in PolicyRow
      /\ ApplyAgentPolicy(r).pending = r.pending
  BY DEF PolicyRow, RequestRun, ApplyAgentPolicy
<1>5. /\ PausedForReauth(r) \in PolicyRow
      /\ PausedForReauth(r).pending = r.pending
  BY DEF PolicyRow, PausedForReauth
<1>6. /\ Resumed(r) \in PolicyRow
      /\ Resumed(r).pending
  BY <1>1 DEF PolicyRow, Resumed
<1>7. QED
  BY <1>2, <1>3, <1>4, <1>5, <1>6

\* Recording an outcome gives a row whose failures are still counted within the
\* bound, and keeps the flag of a signal that arrived during the cycle.
LEMMA RecordKeepsSignal ==
  ASSUME NEW r \in PolicyRow,
         NEW o \in ErrorClass \cup {"ok"}
  PROVE  /\ RecordOutcome(r, o) \in PolicyRow
         /\ r.pending => RecordOutcome(r, o).pending
<1>1. MaxFails \in Nat /\ 0 \in 0 .. MaxFails
  BY MaxFailsBounds
<1>2. RecordSuccess(r) \in PolicyRow
  BY <1>1 DEF PolicyRow, RecordSuccess
<1>3. ASSUME o # "ok" PROVE RecordFailure(r, o) \in PolicyRow
  <2>1. (IF r.fails + 1 > MaxFails THEN MaxFails ELSE r.fails + 1)
          \in 0 .. MaxFails
    BY <1>1 DEF PolicyRow
  <2>2. QED
    BY <2>1 DEF PolicyRow, RecordFailure
<1>4. \A n \in PolicyRow :
        /\ [n EXCEPT !.pending = TRUE, !.due = TRUE] \in PolicyRow
        /\ [n EXCEPT !.pending = TRUE, !.due = TRUE].pending
  BY DEF PolicyRow
<1>5. QED
  BY <1>2, <1>3, <1>4 DEF RecordOutcome

\* No signal is forgotten, for any number of workers whose cycles overlap: the
\* claim that clears the flag is a poll to come, and the outcome of an older
\* cycle arms the flag again (claim_due_sources, _record_outcome).
THEOREM NoSignalForgotten == ScheduleSpec => []SignalKept
<1>1. ScheduleInit => SignalKept
  <2>1. 0 \in 0 .. MaxFails /\ 0 \in 0 .. MaxCancelled
    BY MaxFailsBounds, PerceptionAssumption
  <2>2. /\ FreshRow \in PolicyRow
        /\ [FreshRow EXCEPT !.mode = "paused"] \in PolicyRow
    BY <2>1 DEF FreshRow, PolicyRow
  <2>3. QED
    BY <2>1, <2>2 DEF ScheduleInit, SignalKept, ScheduleTypeOK
<1>2. SignalKept /\ [ScheduleNext]_scheduleVars => SignalKept'
  <2> SUFFICES ASSUME SignalKept, [ScheduleNext]_scheduleVars
               PROVE  SignalKept'
    OBVIOUS
  <2> DEFINE Kept == SignalKept'
  <2> USE DEF SignalKept, ScheduleTypeOK, MoveTo
  <2>p. row.pending \in BOOLEAN
    BY DEF PolicyRow
  <2>1. CASE ComesDue
    <3>1. row' \in PolicyRow /\ row'.pending = row.pending
      BY <2>1 DEF ComesDue, PolicyRow
    <3>2. QED
      BY <2>1, <3>1 DEF ComesDue
  <2>2. CASE CoolsDown
    <3>1. row' \in PolicyRow /\ row'.pending = row.pending
      BY <2>2 DEF CoolsDown, PolicyRow
    <3>2. QED
      BY <2>2, <3>1 DEF CoolsDown
  <2>3. ASSUME NEW wakes \in BOOLEAN, Signal(wakes) PROVE Kept
    BY <2>3, RowsStayRows DEF Signal
  <2>4. CASE TokenLost
    BY <2>4 DEF TokenLost
  <2>5. CASE MarkNeedsReauth
    BY <2>5, RowsStayRows DEF MarkNeedsReauth
  <2>6. CASE Reconnect
    BY <2>6, RowsStayRows DEF Reconnect
  <2>7. CASE ReauthRecovery
    BY <2>7, RowsStayRows DEF ReauthRecovery
  <2>8. ASSUME NEW w \in Workers, DropTokenless(w) PROVE Kept
    BY <2>8, RowsStayRows DEF DropTokenless
  <2>9. ASSUME NEW w \in Workers, Claim(w) PROVE Kept
    BY <2>9, RowsStayRows DEF Claim
  <2>10. ASSUME NEW w \in Workers, PollFails(w) PROVE Kept
    <3>1. \A c : c \in (IF token THEN ErrorClass ELSE {"permanent"})
                  => c \in ErrorClass
      BY DEF ErrorClass
    <3>2. QED
      BY <2>10, <3>1 DEF PollFails
  <2>11. ASSUME NEW w \in Workers, PollAnswers(w) PROVE Kept
    BY <2>11 DEF PollAnswers
  <2>12. ASSUME NEW w \in Workers, Plan(w) PROVE Kept
    BY <2>12, RowsStayRows DEF Plan, ErrorClass
  <2>13. ASSUME NEW w \in Workers, Record(w) PROVE Kept
    BY <2>13, RecordKeepsSignal DEF Record
  <2>14. ASSUME NEW w \in Workers, Cancel(w) PROVE Kept
    <3>1. cancelled' \in 0 .. MaxCancelled
      BY <2>14, PerceptionAssumption DEF Cancel
    <3>2. owed' \in BOOLEAN
      BY <2>14 DEF Cancel
    <3>3. owed' => row.pending \/ \E v \in Workers \ {w} : stage[v] = "poll"
      BY <2>14 DEF Cancel, PollAhead
    <3>4. \A v \in Workers \ {w} : stage'[v] = stage[v]
      BY <2>14 DEF Cancel
    <3>5. ScheduleTypeOK'
      BY <2>14, <3>1, <3>2 DEF Cancel
    <3>6. QED
      BY <2>14, <3>3, <3>4, <3>5 DEF Cancel
  <2>15. CASE UNCHANGED scheduleVars
    BY <2>15 DEF scheduleVars
  <2> HIDE DEF Kept
  <2>16. QED
    BY <2>1, <2>2, <2>3, <2>4, <2>5, <2>6, <2>7, <2>8, <2>9, <2>10, <2>11, <2>12,
       <2>13, <2>14, <2>15 DEF ScheduleNext, CycleStep, Kept
<1>3. QED
  BY <1>1, <1>2, PTL DEF ScheduleSpec

\* A circuit that is open was opened by a run of failures as long as the
\* threshold of one of the classes, and only an open circuit can have cooled.
CircuitEarned(r) ==
  /\ r.circuit = "open" => \E c \in ErrorClass : r.fails >= Threshold[c]
  /\ r.cooled => r.circuit = "open"

\* Every operator on the row keeps this: the trial and the success forget the
\* failures and the open circuit together, and the count stops growing only
\* where it is past every threshold.
LEMMA CircuitStaysEarned ==
  ASSUME NEW r \in PolicyRow, CircuitEarned(r)
  PROVE  /\ CircuitEarned(Reopened(r)) /\ CircuitEarned(Claimed(r))
         /\ CircuitEarned(RequestRun(r)) /\ CircuitEarned(ApplyAgentPolicy(r))
         /\ CircuitEarned(PausedForReauth(r)) /\ CircuitEarned(Resumed(r))
         /\ \A o \in ErrorClass \cup {"ok"} : CircuitEarned(RecordOutcome(r, o))
<1>1. MaxFails \in Nat /\ \A c \in ErrorClass : Threshold[c] \in Nat /\ Threshold[c] <= MaxFails
  BY MaxFailsBounds, ThresholdAssumption
<1>2. CircuitEarned(Reopened(r))
  BY DEF CircuitEarned, Reopened, PolicyRow
<1>3. Reopened(r) \in PolicyRow
  BY RowsStayRows
<1>4. CircuitEarned(Claimed(r))
  BY <1>2, <1>3 DEF CircuitEarned, Claimed, PolicyRow
<1>5. CircuitEarned(RequestRun(r)) /\ CircuitEarned(ApplyAgentPolicy(r))
  BY DEF CircuitEarned, RequestRun, ApplyAgentPolicy, PolicyRow
<1>6. CircuitEarned(PausedForReauth(r)) /\ CircuitEarned(Resumed(r))
  BY DEF CircuitEarned, PausedForReauth, Resumed, PolicyRow
<1>7. ASSUME NEW o \in ErrorClass \cup {"ok"} PROVE CircuitEarned(RecordOutcome(r, o))
  <2>1. CircuitEarned(RecordSuccess(r)) /\ RecordSuccess(r) \in PolicyRow
    BY MaxFailsBounds DEF CircuitEarned, RecordSuccess, PolicyRow
  <2>2. ASSUME o \in ErrorClass
        PROVE  CircuitEarned(RecordFailure(r, o)) /\ RecordFailure(r, o) \in PolicyRow
    <3> DEFINE n == r.fails + 1
               m == IF n > MaxFails THEN MaxFails ELSE n
               new == RecordFailure(r, o)
    <3>1. r.fails \in Nat /\ n \in Nat /\ m \in 0 .. MaxFails /\ m >= r.fails
      BY <1>1 DEF PolicyRow
    <3>2. n >= Threshold[o] => m >= Threshold[o]
      BY <1>1, <2>2, <3>1
    <3> HIDE DEF m
    <3>3. new \in PolicyRow /\ new.fails = m
      BY <3>1 DEF RecordFailure, PolicyRow, m
    <3>4. CASE n >= Threshold[o]
      <4>1. ~new.cooled
        BY <3>4 DEF RecordFailure, PolicyRow
      <4>2. QED
        BY <2>2, <3>2, <3>3, <3>4, <4>1 DEF CircuitEarned
    <3>5. CASE ~(n >= Threshold[o])
      <4>1. new.circuit = r.circuit /\ new.cooled = r.cooled
        BY <3>5 DEF RecordFailure, PolicyRow
      <4>2. \A c \in ErrorClass : r.fails >= Threshold[c] => m >= Threshold[c]
        BY <1>1, <3>1
      <4>3. QED
        BY <3>3, <4>1, <4>2 DEF CircuitEarned
    <3>6. QED
      BY <3>4, <3>5
  <2>3. \A q \in PolicyRow :
          CircuitEarned(q) => CircuitEarned([q EXCEPT !.pending = TRUE, !.due = TRUE])
    BY DEF CircuitEarned, PolicyRow
  <2>4. QED
    BY <2>1, <2>2, <2>3 DEF RecordOutcome
<1>8. QED
  BY <1>2, <1>4, <1>5, <1>6, <1>7

\* The circuit of a source opens by failures that were recorded one after the
\* other, whichever workers recorded them, and never by fewer than a threshold
\* (record_failure, _maybe_reopen_circuit).
THEOREM CircuitOpensByFailures == ScheduleSpec => []CircuitEarned(row)
<1>1. ScheduleInit => CircuitEarned(row)
  BY DEF ScheduleInit, FreshRow, CircuitEarned
<1>2. SignalKept /\ CircuitEarned(row) /\ [ScheduleNext]_scheduleVars => CircuitEarned(row)'
  <2> SUFFICES ASSUME SignalKept, CircuitEarned(row), [ScheduleNext]_scheduleVars
               PROVE  CircuitEarned(row')
    BY DEF CircuitEarned
  <2>1. row \in PolicyRow /\ \A w \in Workers : outcome[w] \in ErrorClass \cup {"ok"}
    BY DEF SignalKept, ScheduleTypeOK
  <2>2. Reopened(row) \in PolicyRow /\ CircuitEarned(Reopened(row))
    BY <2>1, RowsStayRows, CircuitStaysEarned
  <2>3. CASE ComesDue \/ CoolsDown
    BY <2>1, <2>3 DEF ComesDue, CoolsDown, CircuitEarned, PolicyRow
  <2>4. CASE (\E wakes \in BOOLEAN : Signal(wakes)) \/ MarkNeedsReauth \/ ReauthRecovery
    BY <2>1, <2>4, CircuitStaysEarned DEF Signal, MarkNeedsReauth, ReauthRecovery
  <2>5. CASE Reconnect
    BY <2>1, <2>5, CircuitStaysEarned DEF Reconnect
  <2>6. ASSUME NEW w \in Workers, DropTokenless(w) \/ Claim(w) \/ Plan(w) \/ Record(w)
        PROVE  CircuitEarned(row')
    BY <2>1, <2>2, <2>6, CircuitStaysEarned DEF DropTokenless, Claim, Plan, Record
  <2>7. CASE UNCHANGED row
    BY <2>7
  <2>8. QED
    BY <2>3, <2>4, <2>5, <2>6, <2>7 DEF ScheduleNext, CycleStep, TokenLost, PollFails,
       PollAnswers, Cancel, scheduleVars
<1>3. QED
  BY <1>1, <1>2, NoSignalForgotten, PTL DEF ScheduleSpec
=============================================================================
