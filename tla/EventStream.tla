---------------------------- MODULE EventStream ----------------------------
(***************************************************************************)
(* One consumer group of one Redis stream (EventBus.subscribe), the worker    *)
(* processes that read it (StreamConsumerManager), and the dead-letter queue   *)
(* that takes what they give up.  A message is delivered to one worker, stays  *)
(* pending until it is acknowledged, and is claimed again, by any worker, when *)
(* it has been pending for RECLAIM_MIN_IDLE_MS: also while the first handler   *)
(* is still at work, and while it waits in the batch of a slow worker.        *)
(*                                                                         *)
(* The Redis commands are external and modelled by what EventBus relies on.    *)
(***************************************************************************)
EXTENDS Naturals, Sequences, FiniteSets

CONSTANTS
  Workers,        \* worker processes of the group
  MaxMsg,         \* bound: messages published
  Poison,         \* messages whose handler always raises
  MaxLen,         \* STREAM_MAXLEN
  Batch,          \* count of XREADGROUP and XAUTOCLAIM
  MaxDeliveries,  \* DLQ_MAX_DELIVERIES
  MaxAttempts,    \* max_attempts of a dead letter
  MaxFaults       \* bound: crashes, failed commands and sporadic errors

Msgs == 1 .. MaxMsg

ASSUME EventStreamAssumption ==
  /\ MaxMsg \in Nat /\ Poison \subseteq Msgs
  /\ MaxLen \in Nat \ {0} /\ Batch \in Nat \ {0}
  /\ MaxDeliveries \in Nat \ {0, 1} /\ MaxAttempts \in Nat \ {0}
  /\ MaxFaults \in Nat

VARIABLES
  top,      \* the last message published
  last,     \* the last message delivered to the group
  pel,      \* [Msgs -> times delivered while pending, 0 when not pending;
            \* counts from MaxDeliveries on are not told apart]
  stale,    \* pending messages that have been idle for RECLAIM_MIN_IDLE_MS
  pc,       \* [Workers -> where subscribe is]
  from,     \* [Workers -> the phase the batch comes from]
  inbox,    \* [Workers -> the messages of the current batch, the first at work]
  done,     \* messages whose handler committed
  dropped,  \* messages acknowledged because they were trimmed, or whose
            \* dead-letter callback failed
  letters,  \* the dead letters, in the order they were written
  faults

delivery == <<top, last, pel, stale>>
worker == <<pc, from, inbox>>
vars == <<delivery, worker, done, dropped, letters, faults>>

Letter == [msg : Msgs, status : {"pending", "retrying", "exhausted"},
           tries : 0 .. MaxAttempts]

TypeOK ==
  /\ top \in 0 .. MaxMsg /\ last \in 0 .. top
  /\ pel \in [Msgs -> 0 .. MaxDeliveries] /\ stale \subseteq {m \in Msgs : pel[m] > 0}
  /\ pc \in [Workers -> {"reclaim", "read", "handle", "ack", "failed", "bury"}]
  /\ from \in [Workers -> {"reclaim", "read"}]
  /\ \A w \in Workers : inbox[w] \in Seq(Msgs) /\ Len(inbox[w]) <= Batch
  /\ done \subseteq Msgs /\ dropped \subseteq Msgs
  /\ letters \in Seq(Letter)
  /\ faults \in 0 .. MaxFaults

Init ==
  /\ top = 0 /\ last = 0
  /\ pel = [m \in Msgs |-> 0] /\ stale = {}
  /\ pc = [w \in Workers |-> "reclaim"] /\ from = [w \in Workers |-> "reclaim"]
  /\ inbox = [w \in Workers |-> <<>>]
  /\ done = {} /\ dropped = {} /\ letters = <<>>
  /\ faults = 0

\* Entries older than the newest MaxLen are trimmed by XADD.
InStream(m) == m <= top /\ m + MaxLen > top

Goto(w, place) == pc' = [pc EXCEPT ![w] = place]

\* The oldest Batch messages of a set, in order.
Oldest(S) ==
  LET taken == {m \in S : Cardinality({n \in S : n < m}) < Batch}
  IN [k \in 1 .. Cardinality(taken) |->
        CHOOSE m \in taken : Cardinality({n \in taken : n < m}) = k - 1]

Contents(s) == {s[k] : k \in DOMAIN s}

Fault == faults < MaxFaults /\ faults' = faults + 1

---------------------------------------------------------------------------
Publish ==
  /\ top < MaxMsg
  /\ top' = top + 1
  /\ UNCHANGED <<last, pel, stale, worker, done, dropped, letters, faults>>

\* RECLAIM_MIN_IDLE_MS pass without an acknowledgement.
GoesStale(m) ==
  /\ pel[m] > 0 /\ m \notin stale
  /\ stale' = stale \cup {m}
  /\ UNCHANGED <<top, last, pel, worker, done, dropped, letters, faults>>

Delivered(n) == IF n < MaxDeliveries THEN n + 1 ELSE n

\* XAUTOCLAIM: the stale entries become this worker's and count one delivery
\* more; the ones trimmed meanwhile are acknowledged unseen.
ReclaimPending(w) ==
  /\ pc[w] = "reclaim"
  /\ LET taken == Contents(Oldest(stale))
         live == {m \in taken : InStream(m)}
     IN /\ pel' = [m \in Msgs |-> CASE m \in live -> Delivered(pel[m])
                                    [] m \in taken \ live -> 0
                                    [] OTHER -> pel[m]]
        /\ stale' = stale \ taken
        /\ dropped' = dropped \cup (taken \ live)
        /\ inbox' = [inbox EXCEPT ![w] = Oldest(live)]
        /\ Goto(w, IF live = {} THEN "read" ELSE "handle")
        /\ from' = [from EXCEPT ![w] = "reclaim"]
  /\ UNCHANGED <<top, last, done, letters, faults>>

\* XAUTOCLAIM unavailable: go on with new messages.
ReclaimFails(w) ==
  /\ pc[w] = "reclaim" /\ Fault
  /\ Goto(w, "read")
  /\ UNCHANGED <<delivery, from, inbox, done, dropped, letters>>

\* XREADGROUP ">": messages nobody in the group has seen, and that are still
\* in the stream.
ReadNew(w) ==
  /\ pc[w] = "read"
  /\ LET batch == Oldest({m \in last + 1 .. top : InStream(m)})
         taken == Contents(batch)
     IN /\ pel' = [m \in Msgs |-> IF m \in taken THEN 1 ELSE pel[m]]
        /\ last' = IF batch = <<>> THEN last ELSE batch[Len(batch)]
        /\ dropped' = dropped \cup ((last + 1 .. last') \ taken)
        /\ inbox' = [inbox EXCEPT ![w] = batch]
        /\ Goto(w, IF batch = <<>> THEN "reclaim" ELSE "handle")
        /\ from' = [from EXCEPT ![w] = IF batch = <<>> THEN "reclaim" ELSE "read"]
  /\ UNCHANGED <<top, stale, done, letters, faults>>

Current(w) == Head(inbox[w])

\* The next message of the batch; then new messages after a reclaim, or the
\* next turn of _consumer_loop.
NextMessage(w) ==
  /\ inbox' = [inbox EXCEPT ![w] = Tail(@)]
  /\ Goto(w, CASE Len(inbox[w]) > 1 -> "handle"
               [] from[w] = "reclaim" -> "read"
               [] OTHER -> "reclaim")
  /\ from' = [from EXCEPT ![w] = IF Len(inbox[w]) > 1 THEN @ ELSE "reclaim"]

HandlerCommits(w) ==
  /\ pc[w] = "handle" /\ Current(w) \notin Poison
  /\ done' = done \cup {Current(w)}
  /\ Goto(w, "ack")
  /\ UNCHANGED <<delivery, from, inbox, dropped, letters, faults>>

HandlerRaises(w) ==
  /\ pc[w] = "handle"
  /\ \/ Current(w) \in Poison /\ UNCHANGED faults
     \/ Current(w) \notin Poison /\ Fault
  /\ Goto(w, "failed")
  /\ UNCHANGED <<delivery, from, inbox, done, dropped, letters>>

Ack(w) ==
  /\ pc[w] = "ack"
  /\ pel' = [pel EXCEPT ![Current(w)] = 0]
  /\ stale' = stale \ {Current(w)}
  /\ NextMessage(w)
  /\ UNCHANGED <<top, last, done, dropped, letters, faults>>

\* XACK raises inside the try: a handled message counts as failed.
AckFails(w) ==
  /\ pc[w] = "ack" /\ Fault
  /\ Goto(w, "failed")
  /\ UNCHANGED <<delivery, from, inbox, done, dropped, letters>>

\* Faulty: the message is acknowledged whether or not it is buried.
RetryLaterAcks(w) ==
  /\ pc[w] = "failed" /\ pel[Current(w)] < MaxDeliveries
  /\ pel' = [pel EXCEPT ![Current(w)] = 0]
  /\ stale' = stale \ {Current(w)}
  /\ NextMessage(w)
  /\ UNCHANGED <<top, last, done, dropped, letters, faults>>

\* _get_delivery_count is below the limit, or reads as 1 because the message
\* is no longer pending or the command failed: leave it.
RetryLater(w) ==
  /\ pc[w] = "failed"
  /\ \/ pel[Current(w)] < MaxDeliveries /\ UNCHANGED faults
     \/ pel[Current(w)] >= MaxDeliveries /\ Fault
  /\ NextMessage(w)
  /\ UNCHANGED <<delivery, done, dropped, letters>>

\* Faulty: a message that reached the limit is retried once more.
GiveUpNever(w) ==
  /\ pc[w] = "failed" /\ pel[Current(w)] >= MaxDeliveries
  /\ NextMessage(w)
  /\ UNCHANGED <<delivery, done, dropped, letters, faults>>

GiveUp(w) ==
  /\ pc[w] = "failed" /\ pel[Current(w)] >= MaxDeliveries
  /\ Goto(w, "bury")
  /\ UNCHANGED <<delivery, from, inbox, done, dropped, letters, faults>>

\* _persist_dead_letter commits an entry; its failure is logged, and the
\* message is acknowledged either way.
Bury(w) ==
  /\ pc[w] = "bury"
  /\ \/ /\ letters' = Append(letters, [msg |-> Current(w), status |-> "pending", tries |-> 0])
        /\ UNCHANGED <<dropped, faults>>
     \/ /\ Fault
        /\ dropped' = dropped \cup {Current(w)}
        /\ UNCHANGED letters
  /\ pel' = [pel EXCEPT ![Current(w)] = 0]
  /\ stale' = stale \ {Current(w)}
  /\ NextMessage(w)
  /\ UNCHANGED <<top, last, done>>

\* The letter is committed, and the process dies or XACK raises out of
\* subscribe: the message is pending still, and will be buried again.
BuryUnacked(w) ==
  /\ pc[w] = "bury" /\ Fault
  /\ letters' = Append(letters, [msg |-> Current(w), status |-> "pending", tries |-> 0])
  /\ inbox' = [inbox EXCEPT ![w] = <<>>]
  /\ Goto(w, "reclaim") /\ from' = [from EXCEPT ![w] = "reclaim"]
  /\ UNCHANGED <<delivery, done, dropped>>

\* The process dies or is stopped, or a Redis command raises out of subscribe:
\* the batch stays pending.
Crash(w) ==
  /\ inbox[w] # <<>> /\ Fault
  /\ inbox' = [inbox EXCEPT ![w] = <<>>]
  /\ Goto(w, "reclaim") /\ from' = [from EXCEPT ![w] = "reclaim"]
  /\ UNCHANGED <<delivery, done, dropped, letters>>

---------------------------------------------------------------------------
\* Faulty: an entry that ran out of attempts goes back to pending.
DlqRetryForever(k) ==
  /\ letters[k].status \in {"pending", "retrying"}
  /\ letters' = [letters EXCEPT ![k] = IF @.tries >= MaxAttempts
                    THEN [@ EXCEPT !.status = "pending", !.tries = 0]
                    ELSE [@ EXCEPT !.status = "retrying", !.tries = @ + 1]]
  /\ UNCHANGED <<delivery, worker, done, dropped, faults>>

\* An entry out of attempts, or after one more.
Retried(letter) ==
  IF letter.tries >= MaxAttempts
  THEN [letter EXCEPT !.status = "exhausted"]
  ELSE [letter EXCEPT !.status = "retrying", !.tries = @ + 1]

\* _tick_dlq_retry on one entry.  _dispatch_dlq_entry does not know the
\* operation of a worker's entry, so a retry never resolves it.
DlqRetry(k) ==
  /\ letters[k].status \in {"pending", "retrying"}
  /\ letters' = [letters EXCEPT ![k] = Retried(@)]
  /\ UNCHANGED <<delivery, worker, done, dropped, faults>>

Work(w) ==
  \/ ReclaimPending(w) \/ ReadNew(w)
  \/ HandlerCommits(w) \/ HandlerRaises(w)
  \/ Ack(w) \/ RetryLater(w) \/ GiveUp(w) \/ Bury(w)

Next ==
  \/ Publish
  \/ \E m \in Msgs : GoesStale(m)
  \/ \E w \in Workers :
       Work(w) \/ ReclaimFails(w) \/ AckFails(w) \/ BuryUnacked(w) \/ Crash(w)
  \/ \E k \in DOMAIN letters : DlqRetry(k)

Spec == Init /\ [][Next]_vars

\* The consumer loops and the scheduler go on; pending messages grow old.
FairSpec ==
  /\ Spec
  /\ \A w \in Workers : WF_vars(Work(w))
  /\ \A m \in Msgs : WF_vars(GoesStale(m))
  /\ WF_vars(\E k \in DOMAIN letters : DlqRetry(k))

---------------------------------------------------------------------------
Buried == {letters[k].msg : k \in DOMAIN letters}

\* A message that is no longer pending was handled or is a dead letter, however
\* often it changed hands; the exceptions are messages trimmed before the group
\* came to them and failures of the dead-letter callback itself.  (And the
\* state is well typed: no attempt exceeds its limit.)
NothingVanishes ==
  TypeOK /\ \A m \in 1 .. last : pel[m] = 0 => m \in done \cup Buried \cup dropped

\* Every message is settled in the end, the poisonous ones as well.
EveryMessageSettles ==
  \A m \in Msgs : m <= top ~> m \in done \cup Buried \cup dropped \/ ~InStream(m)

\* Retries of dead letters come to an end: once the bus is quiet every entry is
\* out of attempts (list_pending offers what mark_retrying left behind again).
LettersSettle ==
  <>[](\A k \in DOMAIN letters : letters[k].status = "exhausted")
=============================================================================
