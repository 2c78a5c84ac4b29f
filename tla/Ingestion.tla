----------------------------- MODULE Ingestion -----------------------------
(***************************************************************************)
(* What perception cycles of one native source (Slack) do to its cursor and *)
(* to the stored events.  Cycles overlap: the lease of a claim (180 s) is   *)
(* shorter than a sub-tick (300 s), the first observation after a connect   *)
(* does not claim at all, and webhooks deliver events beside them; so here  *)
(* a cycle may start at any time (Perception has the claims).  A cycle      *)
(* reads the cursor, fetches, stores chunk by chunk, publishes, and moves   *)
(* the cursor last; each of these is an await or a transaction of its own.  *)
(*                                                                         *)
(* An item is its position in the source's history; EventKey is             *)
(* make_idempotency_key, which may give two items one key.                  *)
(***************************************************************************)
EXTENDS Naturals, FiniteSets

CONSTANTS
  Cycles,    \* executions of run_perception_cycle or of a webhook's process
  MaxItem,   \* bound: items the source produces
  EventKey,  \* [1 .. MaxItem -> keys]
  Page,      \* items a fetch can drain (MAX_PAGES pages)
  Chunk,     \* BATCH_SIZE
  MaxFaults  \* bound: failed polls, raised, cancelled or crashed cycles

Items == 1 .. MaxItem
Keys == {EventKey[i] : i \in Items}

ASSUME IngestionAssumption ==
  MaxItem \in Nat /\ Page \in Nat \ {0} /\ Chunk \in Nat \ {0} /\ MaxFaults \in Nat

VARIABLES
  head,    \* items the source has produced
  cursor,  \* observation_cursors: the item the source was read up to
  stored,  \* keys of normalized_events
  sent,    \* [Keys -> times event_processed was published]
  lost,    \* items of chunks given up by an IntegrityError and not stored
  pc,      \* [Cycles -> where the cycle is]
  since,   \* [Cycles -> the cursor the cycle read]
  got,     \* [Cycles -> fetched items not yet taken into a chunk]
  fresh,   \* [Cycles -> items of the chunk that looked new, still to handle]
  upto,    \* [Cycles -> the cursor the cycle will write; 0 for none]
  faults

data == <<head, cursor, stored, sent, lost>>
vars == <<data, pc, since, got, fresh, upto, faults>>

TypeOK ==
  /\ head \in 0 .. MaxItem /\ cursor \in 0 .. head
  /\ stored \subseteq Keys /\ sent \in [Keys -> Nat] /\ lost \subseteq Items
  /\ pc \in [Cycles -> {"idle", "poll", "fetch", "chunk", "store", "publish"}]
  /\ since \in [Cycles -> 0 .. head] /\ upto \in [Cycles -> 0 .. head]
  /\ got \in [Cycles -> SUBSET (1 .. head)] /\ fresh \in [Cycles -> SUBSET (1 .. head)]
  /\ faults \in 0 .. MaxFaults

Init ==
  /\ head = 0 /\ cursor = 0
  /\ stored = {} /\ sent = [k \in Keys |-> 0] /\ lost = {}
  /\ pc = [w \in Cycles |-> "idle"]
  /\ since = [w \in Cycles |-> 0] /\ upto = [w \in Cycles |-> 0]
  /\ got = [w \in Cycles |-> {}] /\ fresh = [w \in Cycles |-> {}]
  /\ faults = 0

Goto(w, place) == pc' = [pc EXCEPT ![w] = place]

\* A cycle that is over leaves nothing behind in memory.
Ends(w) ==
  /\ Goto(w, "idle")
  /\ since' = [since EXCEPT ![w] = 0] /\ upto' = [upto EXCEPT ![w] = 0]
  /\ got' = [got EXCEPT ![w] = {}] /\ fresh' = [fresh EXCEPT ![w] = {}]

---------------------------------------------------------------------------
NewItem ==
  /\ head < MaxItem
  /\ head' = head + 1
  /\ UNCHANGED <<cursor, stored, sent, lost, pc, since, got, fresh, upto, faults>>

\* run_perception_cycle, by a claim or as the initial observation.
Start(w) ==
  /\ pc[w] = "idle"
  /\ Goto(w, "poll")
  /\ UNCHANGED <<data, since, got, fresh, upto, faults>>

\* A webhook delivers one event to EventProcessor.process.
Deliver(w) ==
  /\ pc[w] = "idle"
  /\ \E i \in 1 .. head : got' = [got EXCEPT ![w] = {i}]
  /\ Goto(w, "chunk")
  /\ UNCHANGED <<data, since, fresh, upto, faults>>

ReadCursor(w) ==
  /\ pc[w] = "poll"
  /\ since' = [since EXCEPT ![w] = cursor]
  /\ Goto(w, "fetch")
  /\ UNCHANGED <<data, got, fresh, upto, faults>>

\* An empty poll writes back the cursor it read.
FetchEmpty(w) ==
  /\ pc[w] = "fetch" /\ since[w] = head
  /\ cursor' = since[w]
  /\ Ends(w)
  /\ UNCHANGED <<head, stored, sent, lost, faults>>

Newest(w) == {i \in since[w] + 1 .. head : i + Page > head}

\* Faulty: the watermark moves to the newest item although the walk stopped.
FetchIgnoresTruncation(w) ==
  /\ pc[w] = "fetch" /\ since[w] < head
  /\ got' = [got EXCEPT ![w] = Newest(w)]
  /\ upto' = [upto EXCEPT ![w] = head]
  /\ since' = [since EXCEPT ![w] = 0]
  /\ Goto(w, "chunk")
  /\ UNCHANGED <<data, fresh, faults>>

\* History comes newest first; a walk cut off at Page items keeps the prior
\* watermark.
Fetch(w) ==
  /\ pc[w] = "fetch" /\ since[w] < head
  /\ got' = [got EXCEPT ![w] = Newest(w)]
  /\ upto' = [upto EXCEPT ![w] = IF head - since[w] <= Page THEN head ELSE since[w]]
  /\ since' = [since EXCEPT ![w] = 0]
  /\ Goto(w, "chunk")
  /\ UNCHANGED <<data, fresh, faults>>

\* Faulty: a known event ends the cycle, as if all the older ones were known.
DedupChunkStops(w) ==
  /\ pc[w] = "chunk" /\ got[w] # {}
  /\ LET taken == {i \in got[w] : Cardinality({j \in got[w] : j > i}) < Chunk}
     IN IF \E i \in taken : EventKey[i] \in stored
        THEN Ends(w)
        ELSE /\ got' = [got EXCEPT ![w] = @ \ taken]
             /\ fresh' = [fresh EXCEPT ![w] = taken]
             /\ Goto(w, "store")
             /\ UNCHANGED <<since, upto>>
  /\ UNCHANGED <<data, faults>>

\* The dedup SELECT of a chunk; what is new goes on to scoring.
DedupChunk(w) ==
  /\ pc[w] = "chunk" /\ got[w] # {}
  /\ LET taken == {i \in got[w] : Cardinality({j \in got[w] : j > i}) < Chunk}
         new == {i \in taken : EventKey[i] \notin stored}
     IN /\ got' = [got EXCEPT ![w] = @ \ taken]
        /\ fresh' = [fresh EXCEPT ![w] = new]
        /\ Goto(w, IF new = {} THEN "chunk" ELSE "store")
  /\ UNCHANGED <<data, since, upto, faults>>

\* Two rows of the chunk share a key, or somebody stored one meanwhile.
Conflicts(items) ==
  \/ \E i \in items : EventKey[i] \in stored
  \/ \E i, j \in items : i # j /\ EventKey[i] = EventKey[j]

\* Faulty: no unique constraint behind the dedup SELECT.
StoreChunkUnchecked(w) ==
  /\ pc[w] = "store"
  /\ stored' = stored \cup {EventKey[i] : i \in fresh[w]}
  /\ Goto(w, "publish")
  /\ UNCHANGED <<head, cursor, sent, lost, since, got, fresh, upto, faults>>

\* The chunk's commit.  An IntegrityError gives the whole chunk up.
StoreChunk(w) ==
  /\ pc[w] = "store"
  /\ IF Conflicts(fresh[w])
     THEN /\ lost' = lost \cup {i \in fresh[w] : EventKey[i] \notin stored}
          /\ fresh' = [fresh EXCEPT ![w] = {}]
          /\ Goto(w, "chunk")
          /\ UNCHANGED stored
     ELSE /\ stored' = stored \cup {EventKey[i] : i \in fresh[w]}
          /\ Goto(w, "publish")
          /\ UNCHANGED <<lost, fresh>>
  /\ UNCHANGED <<head, cursor, sent, since, got, upto, faults>>

\* Post-processing of one stored event; a failed publish is only logged.
Publish(w) ==
  /\ pc[w] = "publish"
  /\ \E i \in fresh[w] :
       /\ sent' \in {sent, [sent EXCEPT ![EventKey[i]] = @ + 1]}
       /\ fresh' = [fresh EXCEPT ![w] = @ \ {i}]
  /\ Goto(w, IF Cardinality(fresh[w]) = 1 THEN "chunk" ELSE "publish")
  /\ UNCHANGED <<head, cursor, stored, lost, since, got, upto, faults>>

\* The trailing commit of ingest_raw_events moves the cursor; a delivery has
\* none to move.
Advance(w) ==
  /\ pc[w] = "chunk" /\ got[w] = {}
  /\ cursor' = IF upto[w] = 0 THEN cursor ELSE upto[w]
  /\ Ends(w)
  /\ UNCHANGED <<head, stored, sent, lost, faults>>

\* The poll fails, a step raises, the sub-tick's budget cancels the cycle or
\* its process dies: what is committed stays, and the cursor does not move.
Stop(w) ==
  /\ pc[w] # "idle" /\ faults < MaxFaults
  /\ faults' = faults + 1
  /\ Ends(w)
  /\ UNCHANGED data

Work(w) ==
  \/ ReadCursor(w) \/ FetchEmpty(w) \/ Fetch(w)
  \/ DedupChunk(w) \/ StoreChunk(w) \/ Publish(w) \/ Advance(w)

Next ==
  \/ NewItem
  \/ \E w \in Cycles : Start(w) \/ Deliver(w) \/ Work(w) \/ Stop(w)

Spec == Init /\ [][Next]_vars

\* The source keeps being polled (Perception), and a cycle goes on to its end.
FairSpec ==
  Spec /\ \A w \in Cycles : WF_vars(Work(w)) /\ SF_vars(Start(w))

---------------------------------------------------------------------------
\* Stored, or given up with its chunk.
Handled(i) == EventKey[i] \in stored \/ i \in lost

\* Every item the cursor has passed is stored, whatever was truncated,
\* cancelled or failed on the way and however stale the cycle that moved the
\* cursor, but for the items of a chunk that lost the race on the unique key
\* (ingest_raw_events: the cursor moves last).  The state is well typed.
NothingSkipped == TypeOK /\ \A i \in 1 .. cursor : Handled(i)

\* An event reaches the bus at most once, and only when it is stored, although
\* cycles overlap and re-read what others store.
PublishedOnce == \A k \in Keys : sent[k] <= IF k \in stored THEN 1 ELSE 0

\* Every item is stored in the end, unless its chunk was given up or there are
\* more new items than one poll can drain.
EveryItemStored ==
  \A i \in Items : i <= head ~> Handled(i) \/ head - cursor > Page
===========================================================================
