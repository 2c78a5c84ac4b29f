-------------------------- MODULE EventStreamProofs --------------------------
(***************************************************************************)
(* Proofs about EventStream, for any number of workers and messages, any   *)
(* length of the stream, size of a batch and limits of deliveries and      *)
(* attempts.                                                               *)
(***************************************************************************)
EXTENDS EventStream, FiniteSetTheorems, TLAPS

\* How many messages of a set are older.
Rank(T, m) == Cardinality({n \in T : n < m})

\* A younger message has a higher rank, and ranks stay below the set's size.
LEMMA RankGrows ==
  ASSUME NEW T \in SUBSET Nat, IsFiniteSet(T), NEW b \in T
  PROVE  /\ Rank(T, b) \in 0 .. Cardinality(T) - 1
         /\ \A a \in T : a < b => Rank(T, a) < Rank(T, b)
<1> DEFINE Below(m) == {n \in T : n < m}
<1>1. \A m : IsFiniteSet(Below(m)) /\ Cardinality(Below(m)) \in Nat
  <2> TAKE m
  <2>1. Below(m) \in SUBSET T
    OBVIOUS
  <2>2. QED
    BY <2>1, FS_Subset, FS_CardinalityType
<1>2. ASSUME NEW a \in T, NEW V \in SUBSET T, Below(a) \subseteq V, a \in V
      PROVE  Cardinality(Below(a)) + 1 <= Cardinality(V)
  <2>1. IsFiniteSet(V) /\ Below(a) \cup {a} \in SUBSET V
    BY <1>2, FS_Subset
  <2>2. a \notin Below(a)
    OBVIOUS
  <2>3. Cardinality(Below(a) \cup {a}) = Cardinality(Below(a)) + 1
    BY <1>1, <2>2, FS_AddElement
  <2>4. QED
    BY <2>1, <2>3, FS_Subset
<1>3. Cardinality(Below(b)) + 1 <= Cardinality(T)
  BY <1>2
<1>4. Cardinality(T) \in Nat
  BY FS_CardinalityType
<1>5. Rank(T, b) \in 0 .. Cardinality(T) - 1
  <2>1. PICK r \in Nat : r = Cardinality(Below(b))
    BY <1>1
  <2>2. r + 1 <= Cardinality(T)
    BY <1>3, <2>1
  <2>3. r \in 0 .. Cardinality(T) - 1
    BY <1>4, <2>2
  <2>4. QED
    BY <2>1, <2>3 DEF Rank
<1>6. ASSUME NEW a \in T, a < b PROVE Rank(T, a) < Rank(T, b)
  <2>1. Below(b) \in SUBSET T /\ Below(a) \subseteq Below(b) /\ a \in Below(b)
    <3>1. \A n \in T : n < a => n < b
      BY <1>6
    <3>2. QED
      BY <1>6, <3>1
  <2>2. Cardinality(Below(a)) + 1 <= Cardinality(Below(b))
    BY <1>2, <2>1
  <2>3. QED
    BY <1>1, <2>2 DEF Rank
<1>7. QED
  BY <1>5, <1>6

\* The ranks in a finite set of numbers are told apart and leave no gap: the
\* ranking is an injection into a set of the same size.
LEMMA RankOnto ==
  ASSUME NEW T \in SUBSET Nat, IsFiniteSet(T)
  PROVE  /\ \A a, b \in T : Rank(T, a) = Rank(T, b) => a = b
         /\ \A k \in 0 .. Cardinality(T) - 1 : \E m \in T : Rank(T, m) = k
<1> DEFINE c == Cardinality(T)
           f == [m \in T |-> Rank(T, m)]
<1>1. c \in Nat
  BY FS_CardinalityType
<1>2. \A m \in T : Rank(T, m) \in 0 .. c - 1
  BY RankGrows
<1>3. ASSUME NEW a \in T, NEW b \in T, Rank(T, a) = Rank(T, b) PROVE a = b
  <2>1. a \in Nat /\ b \in Nat /\ Rank(T, a) \in Nat /\ Rank(T, b) \in Nat
    BY <1>1, <1>2
  <2>2. (a < b => Rank(T, a) < Rank(T, b)) /\ (b < a => Rank(T, b) < Rank(T, a))
    BY RankGrows
  <2>3. QED
    BY <1>3, <2>1, <2>2
<1>4. f \in Injection(T, 0 .. c - 1)
  BY <1>2, <1>3 DEF Injection, IsInjective
<1>5. IsFiniteSet(0 .. c - 1) /\ Cardinality(0 .. c - 1) = c
  <2>1. 0 \in Int /\ c - 1 \in Int
    BY <1>1
  <2>2. Cardinality(0 .. c - 1) = IF 0 > c - 1 THEN 0 ELSE c - 1 - 0 + 1
    BY <2>1, FS_Interval
  <2>3. IsFiniteSet(0 .. c - 1)
    BY <2>1, FS_Interval
  <2>4. QED
    BY <1>1, <2>2, <2>3
<1> HIDE DEF f
<1>6. f \in Surjection(T, 0 .. c - 1)
  BY <1>4, <1>5, FS_Injection
<1>7. \A k \in 0 .. c - 1 : \E m \in T : f[m] = k
  BY <1>6 DEF Surjection
<1>8. QED
  BY <1>3, <1>7 DEF f

\* What a batch is: the Batch oldest messages of the set, each once.
LEMMA OldestBatch ==
  ASSUME NEW S \in SUBSET Nat, IsFiniteSet(S)
  PROVE  /\ Oldest(S) \in Seq(S) /\ Len(Oldest(S)) <= Batch
         /\ Contents(Oldest(S)) = {m \in S : Rank(S, m) < Batch}
         /\ S # {} => Oldest(S) # <<>>
<1> DEFINE taken == {m \in S : Rank(S, m) < Batch}
           c == Cardinality(taken)
           Pick(k) == CHOOSE m \in taken : Rank(taken, m) = k - 1
           f == [m \in taken |-> Rank(S, m)]
<1>1. taken \in SUBSET S /\ taken \in SUBSET Nat /\ IsFiniteSet(taken)
  BY FS_Subset
<1>2. c \in Nat
  BY <1>1, FS_CardinalityType
<1>3. \A k \in 1 .. c : Pick(k) \in taken /\ Rank(taken, Pick(k)) = k - 1
  <2> TAKE k \in 1 .. c
  <2>1. k - 1 \in 0 .. c - 1
    BY <1>2
  <2> HIDE DEF taken
  <2>2. \E m \in taken : Rank(taken, m) = k - 1
    BY <1>1, <2>1, RankOnto
  <2>3. QED
    BY <2>2
<1>4. Oldest(S) = [k \in 1 .. c |-> Pick(k)]
  BY DEF Oldest, Rank
<1>5. c <= Batch
  <2>1. \A m \in taken : Rank(S, m) \in 0 .. Batch - 1
    <3>1. \A m \in S : Rank(S, m) \in Nat
      BY RankGrows, FS_CardinalityType
    <3>2. QED
      BY <3>1, EventStreamAssumption
  <2>2. f \in Injection(taken, 0 .. Batch - 1)
    BY <2>1, RankOnto DEF Injection, IsInjective
  <2>3. IsFiniteSet(0 .. Batch - 1) /\ Cardinality(0 .. Batch - 1) = Batch
    <3>1. 0 \in Int /\ Batch - 1 \in Int /\ ~(0 > Batch - 1)
      BY EventStreamAssumption
    <3>2. Cardinality(0 .. Batch - 1) = IF 0 > Batch - 1 THEN 0 ELSE Batch - 1 - 0 + 1
      BY <3>1, FS_Interval
    <3>3. IsFiniteSet(0 .. Batch - 1)
      BY <3>1, FS_Interval
    <3>4. QED
      BY <3>1, <3>2, <3>3, EventStreamAssumption
  <2> HIDE DEF f, taken
  <2>4. QED
    BY <2>2, <2>3, FS_Injection
<1>6. Oldest(S) \in Seq(S) /\ Len(Oldest(S)) = c /\ DOMAIN Oldest(S) = 1 .. c
  <2> HIDE DEF c, taken, Pick
  <2>1. [k \in 1 .. c |-> Pick(k)] \in [1 .. c -> S]
    BY <1>1, <1>3
  <2>2. QED
    BY <1>2, <1>4, <2>1
<1>7. Contents(Oldest(S)) = taken
  <2>1. \A m \in taken : \E k \in 1 .. c : Pick(k) = m
    <3> TAKE m \in taken
    <3> HIDE DEF taken
    <3>1. Rank(taken, m) \in 0 .. c - 1
      BY <1>1, RankGrows
    <3>2. PICK k \in 1 .. c : k - 1 = Rank(taken, m)
      <4>1. PICK r \in 0 .. c - 1 : r = Rank(taken, m)
        BY <3>1
      <4>2. r + 1 \in 1 .. c /\ (r + 1) - 1 = r
        BY <1>2
      <4>3. QED
        BY <4>1, <4>2
    <3>3. Pick(k) \in taken /\ Rank(taken, Pick(k)) = Rank(taken, m)
      BY <1>3, <3>2
    <3> HIDE DEF Pick
    <3>4. Pick(k) = m
      <4>1. \A a, b \in taken : Rank(taken, a) = Rank(taken, b) => a = b
        BY <1>1, RankOnto
      <4>2. QED
        BY <3>3, <4>1
    <3>5. QED
      BY <3>4
  <2> HIDE DEF Pick, taken, c
  <2>2. QED
    BY <1>3, <1>4, <1>6, <2>1 DEF Contents
<1>8. ASSUME S # {} PROVE Oldest(S) # <<>>
  <2>1. Cardinality(S) \in Nat /\ Cardinality(S) # 0
    BY <1>8, FS_CardinalityType, FS_EmptySet
  <2>2. PICK m \in S : Rank(S, m) = 0
    <3>1. 0 \in 0 .. Cardinality(S) - 1
      BY <2>1
    <3>2. QED
      BY <3>1, RankOnto
  <2>3. m \in taken
    BY <2>2, EventStreamAssumption
  <2> HIDE DEF taken, c
  <2>4. c # 0
    BY <1>1, <2>3, FS_EmptySet DEF c
  <2>5. QED
    BY <1>6, <2>4
<1>9. QED
  BY <1>5, <1>6, <1>7, <1>8

----------------------------------------------------------------------------
(* The worker's side of the invariant.                                     *)

\* The places where a worker has a message in hand.
Holding == {"handle", "ack", "failed", "bury"}

\* A worker with a message in hand has one: its batch is not empty.
WorkerInv ==
  /\ pc \in [Workers -> {"reclaim", "read", "handle", "ack", "failed", "bury"}]
  /\ from \in [Workers -> {"reclaim", "read"}]
  /\ inbox \in [Workers -> Seq(Msgs)]
  /\ \A w \in Workers : Len(inbox[w]) <= Batch
  /\ \A w \in Workers : pc[w] \in Holding => inbox[w] # <<>>

\* The handler of a message about to be acknowledged has committed.
AckInv == \A w \in Workers : pc[w] = "ack" => Current(w) \in done

\* The strengthening of NothingVanishes.
StreamInv == NothingVanishes /\ WorkerInv /\ AckInv

\* No worker comes to its acknowledgement, or changes what it acknowledges.
NoNewAck == \A v \in Workers : pc'[v] = "ack" => pc[v] = "ack" /\ inbox'[v] = inbox[v]

\* Sets of messages are finite sets of numbers.
LEMMA MessageSets ==
  ASSUME NEW S \in SUBSET Msgs
  PROVE  S \in SUBSET Nat /\ IsFiniteSet(S)
<1>1. IsFiniteSet(Msgs) /\ Msgs \in SUBSET Nat
  BY FS_Interval, EventStreamAssumption DEF Msgs
<1>2. QED
  BY <1>1, FS_Subset

\* A batch of messages is a short sequence of them.
LEMMA BatchOfMessages ==
  ASSUME NEW S \in SUBSET Msgs
  PROVE  /\ Oldest(S) \in Seq(Msgs) /\ Len(Oldest(S)) <= Batch
         /\ Contents(Oldest(S)) \subseteq S
         /\ \A k \in 1 .. Len(Oldest(S)) : Oldest(S)[k] \in S
         /\ S # {} => Oldest(S) # <<>>
<1>1. S \in SUBSET Nat /\ IsFiniteSet(S)
  BY MessageSets
<1>2. /\ Oldest(S) \in Seq(S) /\ Len(Oldest(S)) <= Batch
      /\ Contents(Oldest(S)) = {m \in S : Rank(S, m) < Batch}
      /\ S # {} => Oldest(S) # <<>>
  BY <1>1, OldestBatch
<1>3. PICK b \in Seq(S) : b = Oldest(S)
  BY <1>2
<1>4. b \in Seq(Msgs) /\ \A k \in 1 .. Len(b) : b[k] \in S
  OBVIOUS
<1>5. QED
  BY <1>2, <1>3, <1>4

\* A move to another place with the same batch.
LEMMA MoveKeepsWorkers ==
  ASSUME WorkerInv, NEW w \in Workers,
         NEW place \in {"reclaim", "read", "handle", "failed", "bury"},
         Goto(w, place), UNCHANGED <<from, inbox>>,
         place \in Holding => inbox[w] # <<>>
  PROVE  WorkerInv' /\ NoNewAck
BY DEF WorkerInv, NoNewAck, Goto, Holding

\* Going on in the batch, or past its end.
LEMMA NextKeepsWorkers ==
  ASSUME WorkerInv, NEW w \in Workers, inbox[w] # <<>>, NextMessage(w)
  PROVE  WorkerInv' /\ NoNewAck
<1>1. PICK s \in Seq(Msgs) : s = inbox[w] /\ s # <<>> /\ Len(s) <= Batch
  BY DEF WorkerInv
<1>2. /\ Tail(s) \in Seq(Msgs) /\ Len(Tail(s)) = Len(s) - 1 /\ Len(s) \in Nat
      /\ Len(s) > 1 => Tail(s) # <<>>
  BY <1>1
<1>3. Len(Tail(s)) <= Batch
  BY <1>1, <1>2, EventStreamAssumption
<1>4. inbox' = [inbox EXCEPT ![w] = Tail(s)]
  BY <1>1 DEF NextMessage, WorkerInv
<1>5. /\ pc' = [pc EXCEPT ![w] = pc'[w]]
      /\ pc'[w] \in {"handle", "read", "reclaim"}
      /\ pc'[w] = "handle" => Len(s) > 1
  BY <1>1 DEF NextMessage, WorkerInv, Goto
<1>6. from' \in [Workers -> {"reclaim", "read"}]
  BY DEF NextMessage, WorkerInv
<1>7. QED
  BY <1>2, <1>3, <1>4, <1>5, <1>6 DEF WorkerInv, NoNewAck, Holding

\* A new batch.
LEMMA BatchKeepsWorkers ==
  ASSUME WorkerInv, NEW w \in Workers, NEW b \in Seq(Msgs), Len(b) <= Batch,
         NEW place \in {"reclaim", "read", "handle"}, place = "handle" => b # <<>>,
         NEW f \in {"reclaim", "read"},
         Goto(w, place), inbox' = [inbox EXCEPT ![w] = b], from' = [from EXCEPT ![w] = f]
  PROVE  WorkerInv' /\ NoNewAck
BY DEF WorkerInv, NoNewAck, Goto, Holding

\* What a worker acknowledges stays handled.
LEMMA AckInvKept ==
  ASSUME AckInv, NoNewAck, done \subseteq done'
  PROVE  AckInv'
BY DEF AckInv, NoNewAck, Current

\* A message in hand is a message.
LEMMA CurrentIsMessage ==
  ASSUME WorkerInv, NEW w \in Workers, inbox[w] # <<>>
  PROVE  Current(w) \in Msgs
BY DEF WorkerInv, Current

----------------------------------------------------------------------------
(* The group's side of the invariant.                                      *)

\* What the stream and the group's pending list hold.
DeliveryInv ==
  /\ top \in 0 .. MaxMsg /\ last \in 0 .. top
  /\ pel \in [Msgs -> 0 .. MaxDeliveries] /\ stale \subseteq {m \in Msgs : pel[m] > 0}

\* What became of the messages.
RecordInv ==
  /\ done \subseteq Msgs /\ dropped \subseteq Msgs
  /\ letters \in Seq(Letter)
  /\ faults \in 0 .. MaxFaults

\* The messages that need no delivery any more.
Settled == done \cup Buried \cup dropped

NoneGone == \A m \in 1 .. last : pel[m] = 0 => m \in Settled

\* The parts of the invariant.
LEMMA StreamParts ==
  StreamInv <=> DeliveryInv /\ RecordInv /\ NoneGone /\ WorkerInv /\ AckInv
BY DEF StreamInv, NothingVanishes, TypeOK, DeliveryInv, RecordInv, NoneGone, Settled,
       WorkerInv

\* A step that settles what it takes off the pending list, and unsettles
\* nothing, keeps the messages accounted for.
LEMMA SettledGrows ==
  ASSUME NoneGone, UNCHANGED last, Settled \subseteq Settled',
         \A m \in 1 .. last : pel'[m] = 0 => pel[m] = 0 \/ m \in Settled'
  PROVE  NoneGone'
BY DEF NoneGone

\* The messages that were delivered are messages.
LEMMA DeliveredAreMessages ==
  ASSUME DeliveryInv
  PROVE  1 .. last \subseteq Msgs /\ last + 1 .. top \subseteq Msgs
BY EventStreamAssumption DEF DeliveryInv, Msgs

\* XACK takes one message off the pending list.
LEMMA AckTakesOne ==
  ASSUME DeliveryInv, NEW c \in Msgs, UNCHANGED <<top, last>>,
         pel' = [pel EXCEPT ![c] = 0], stale' = stale \ {c}
  PROVE  /\ DeliveryInv'
         /\ \A m \in 1 .. last : pel'[m] = 0 => pel[m] = 0 \/ m = c
<1>1. 0 \in 0 .. MaxDeliveries
  BY EventStreamAssumption
<1>2. /\ pel' \in [Msgs -> 0 .. MaxDeliveries]
      /\ \A m \in Msgs : m # c => pel'[m] = pel[m]
  BY <1>1 DEF DeliveryInv
<1>3. 1 .. last \subseteq Msgs
  BY DeliveredAreMessages
<1>4. stale' \subseteq {m \in Msgs : pel'[m] > 0}
  BY <1>2 DEF DeliveryInv
<1>5. DeliveryInv'
  BY <1>2, <1>4 DEF DeliveryInv
<1>6. QED
  BY <1>2, <1>3, <1>5

\* Dead letters are only added, and keep the message they are about.
LEMMA LettersGrow ==
  ASSUME letters \in Seq(Letter)
  PROVE  /\ \A x \in Letter : letters' = Append(letters, x) =>
              letters' \in Seq(Letter) /\ Buried' = Buried \cup {x.msg}
         /\ \A k \in DOMAIN letters : \A x \in Letter :
              letters' = [letters EXCEPT ![k] = x] /\ x.msg = letters[k].msg =>
              letters' \in Seq(Letter) /\ Buried' = Buried
<1>1. ASSUME NEW x \in Letter, letters' = Append(letters, x)
      PROVE  letters' \in Seq(Letter) /\ Buried' = Buried \cup {x.msg}
  <2>1. /\ letters' \in Seq(Letter) /\ Len(letters) \in Nat
        /\ DOMAIN letters = 1 .. Len(letters) /\ DOMAIN letters' = 1 .. Len(letters) + 1
        /\ letters'[Len(letters) + 1] = x
        /\ \A k \in 1 .. Len(letters) : letters'[k] = letters[k]
    BY <1>1
  <2>2. /\ 1 .. Len(letters) + 1 = (1 .. Len(letters)) \cup {Len(letters) + 1}
    BY <2>1
  <2>3. QED
    BY <2>1, <2>2 DEF Buried
<1>2. ASSUME NEW k \in DOMAIN letters, NEW x \in Letter,
             letters' = [letters EXCEPT ![k] = x], x.msg = letters[k].msg
      PROVE  letters' \in Seq(Letter) /\ Buried' = Buried
  <2>1. letters' \in Seq(Letter) /\ DOMAIN letters' = DOMAIN letters
    BY <1>2
  <2>2. \A j \in DOMAIN letters : letters'[j].msg = letters[j].msg
    BY <1>2
  <2>3. QED
    BY <2>1, <2>2 DEF Buried
<1>3. QED
  BY <1>1, <1>2

----------------------------------------------------------------------------
(* The steps.                                                              *)

\* XAUTOCLAIM: what was trimmed meanwhile is dropped, the rest stays pending.
LEMMA ReclaimStep ==
  ASSUME StreamInv, NEW w \in Workers, ReclaimPending(w)
  PROVE  StreamInv'
<1>1. DeliveryInv /\ RecordInv /\ NoneGone /\ WorkerInv /\ AckInv
  BY StreamParts
<1> DEFINE taken == Contents(Oldest(stale))
           live == {m \in taken : InStream(m)}
<1>2. stale \in SUBSET Msgs /\ taken \subseteq stale /\ live \in SUBSET Msgs
  <2>1. stale \in SUBSET Msgs
    BY <1>1 DEF DeliveryInv
  <2>2. QED
    BY <2>1, BatchOfMessages
<1>3. /\ pel' = [m \in Msgs |-> CASE m \in live -> Delivered(pel[m])
                                 [] m \in taken \ live -> 0
                                 [] OTHER -> pel[m]]
      /\ stale' = stale \ taken
      /\ dropped' = dropped \cup (taken \ live)
      /\ inbox' = [inbox EXCEPT ![w] = Oldest(live)]
      /\ Goto(w, IF live = {} THEN "read" ELSE "handle")
      /\ from' = [from EXCEPT ![w] = "reclaim"]
      /\ UNCHANGED <<top, last, done, letters, faults>>
  BY DEF ReclaimPending
<1>4. live \subseteq taken
  OBVIOUS
<1> HIDE DEF taken, live
<1>5. WorkerInv' /\ NoNewAck
  <2>1. /\ Oldest(live) \in Seq(Msgs) /\ Len(Oldest(live)) <= Batch
        /\ live # {} => Oldest(live) # <<>>
    BY <1>2, BatchOfMessages
  <2>2. PICK b \in Seq(Msgs) : b = Oldest(live)
    BY <2>1
  <2>3. PICK place \in {"read", "handle"} : place = IF live = {} THEN "read" ELSE "handle"
    OBVIOUS
  <2>4. place = "handle" => b # <<>>
    BY <2>1, <2>2, <2>3
  <2>5. QED
    BY <1>1, <1>3, <2>1, <2>2, <2>3, <2>4, BatchKeepsWorkers
<1>6. /\ pel' \in [Msgs -> 0 .. MaxDeliveries]
      /\ \A m \in Msgs : pel'[m] = 0 => pel[m] = 0 \/ m \in taken \ live
      /\ \A m \in Msgs : m \notin taken => pel'[m] = pel[m]
  <2>1. \A n \in 0 .. MaxDeliveries : Delivered(n) \in 0 .. MaxDeliveries /\ Delivered(n) > 0
    BY EventStreamAssumption DEF Delivered
  <2>2. \A m \in Msgs : pel[m] \in 0 .. MaxDeliveries /\ 0 \in 0 .. MaxDeliveries
    BY <1>1, EventStreamAssumption DEF DeliveryInv
  <2>3. ASSUME NEW m \in Msgs
        PROVE  /\ pel'[m] \in 0 .. MaxDeliveries
               /\ pel'[m] = 0 => pel[m] = 0 \/ m \in taken \ live
               /\ m \notin taken => pel'[m] = pel[m]
    <3>1. CASE m \in live
      BY <1>3, <1>4, <2>1, <2>2, <3>1
    <3>2. CASE m \in taken \ live
      BY <1>3, <2>2, <3>2
    <3>3. CASE m \notin taken
      BY <1>3, <1>4, <2>2, <3>3
    <3>4. QED
      BY <3>1, <3>2, <3>3
  <2>4. pel' = [m \in Msgs |-> pel'[m]]
    BY <1>3
  <2>5. QED
    BY <2>3, <2>4
<1>7. DeliveryInv'
  <2>1. stale' \subseteq {m \in Msgs : pel'[m] > 0}
    BY <1>1, <1>3, <1>6 DEF DeliveryInv
  <2>2. QED
    BY <1>1, <1>3, <1>6, <2>1 DEF DeliveryInv
<1>8. RecordInv'
  BY <1>1, <1>2, <1>3 DEF RecordInv
<1>9. NoneGone'
  <2>1. Settled \subseteq Settled' /\ taken \ live \subseteq Settled'
    BY <1>3 DEF Settled, Buried
  <2>2. 1 .. last \subseteq Msgs
    BY <1>1, DeliveredAreMessages
  <2>3. \A m \in 1 .. last : pel'[m] = 0 => pel[m] = 0 \/ m \in Settled'
    BY <1>6, <2>1, <2>2
  <2>4. QED
    BY <1>1, <1>3, <2>1, <2>3, SettledGrows
<1>10. AckInv'
  BY <1>1, <1>3, <1>5, AckInvKept
<1>11. QED
  BY <1>5, <1>7, <1>8, <1>9, <1>10, StreamParts, PTL

\* XREADGROUP: what it reads is pending, what it skips is dropped.
LEMMA ReadStep ==
  ASSUME StreamInv, NEW w \in Workers, ReadNew(w)
  PROVE  StreamInv'
<1>1. DeliveryInv /\ RecordInv /\ NoneGone /\ WorkerInv /\ AckInv
  BY StreamParts
<1> DEFINE unseen == {m \in last + 1 .. top : InStream(m)}
           batch == Oldest(unseen)
           taken == Contents(batch)
<1>2. /\ pel' = [m \in Msgs |-> IF m \in taken THEN 1 ELSE pel[m]]
      /\ last' = IF batch = <<>> THEN last ELSE batch[Len(batch)]
      /\ dropped' = dropped \cup ((last + 1 .. last') \ taken)
      /\ inbox' = [inbox EXCEPT ![w] = batch]
      /\ Goto(w, IF batch = <<>> THEN "reclaim" ELSE "handle")
      /\ from' = [from EXCEPT ![w] = IF batch = <<>> THEN "reclaim" ELSE "read"]
      /\ UNCHANGED <<top, stale, done, letters, faults>>
  BY DEF ReadNew
<1>3. unseen \in SUBSET Msgs /\ unseen \subseteq last + 1 .. top
  BY <1>1, DeliveredAreMessages
<1> HIDE DEF unseen
<1>4. /\ batch \in Seq(Msgs) /\ Len(batch) <= Batch
      /\ taken \subseteq unseen
      /\ \A k \in 1 .. Len(batch) : batch[k] \in unseen
  BY <1>3, BatchOfMessages
<1> HIDE DEF batch, taken
<1>5. WorkerInv' /\ NoNewAck
  <2>1. PICK place \in {"reclaim", "handle"} : place = IF batch = <<>> THEN "reclaim" ELSE "handle"
    OBVIOUS
  <2>2. PICK f \in {"reclaim", "read"} : f = IF batch = <<>> THEN "reclaim" ELSE "read"
    OBVIOUS
  <2>3. place = "handle" => batch # <<>>
    BY <2>1
  <2>4. QED
    BY <1>1, <1>2, <1>4, <2>1, <2>2, <2>3, BatchKeepsWorkers
<1>6. last' \in last .. top
  <2>1. CASE batch = <<>>
    BY <1>1, <1>2, <2>1 DEF DeliveryInv
  <2>2. CASE batch # <<>>
    <3>1. Len(batch) \in 1 .. Len(batch)
      BY <1>4, <2>2
    <3>2. last' \in last + 1 .. top
      BY <1>2, <1>3, <1>4, <2>2, <3>1
    <3>3. QED
      BY <1>1, <3>2 DEF DeliveryInv
  <2>3. QED
    BY <2>1, <2>2
<1>7. /\ pel' \in [Msgs -> 0 .. MaxDeliveries]
      /\ \A m \in Msgs : pel'[m] = 0 => pel[m] = 0 /\ m \notin taken
      /\ \A m \in Msgs : pel[m] > 0 => pel'[m] > 0
  <2>1. 1 \in 0 .. MaxDeliveries
    BY EventStreamAssumption
  <2>2. QED
    BY <1>1, <1>2, <2>1 DEF DeliveryInv
<1>8. DeliveryInv'
  <2>1. stale' \subseteq {m \in Msgs : pel'[m] > 0}
    BY <1>1, <1>2, <1>7 DEF DeliveryInv
  <2>2. last' \in 0 .. top'
    BY <1>1, <1>2, <1>6 DEF DeliveryInv
  <2>3. QED
    BY <1>1, <1>2, <1>7, <2>1, <2>2 DEF DeliveryInv
<1>9. RecordInv'
  <2>1. last + 1 .. last' \subseteq last + 1 .. top
    BY <1>1, <1>6 DEF DeliveryInv
  <2>2. last + 1 .. last' \subseteq Msgs
    BY <1>1, <2>1, DeliveredAreMessages
  <2>3. QED
    BY <1>1, <1>2, <2>2 DEF RecordInv
<1>10. NoneGone'
  <2>1. Settled \subseteq Settled' /\ (last + 1 .. last') \ taken \subseteq Settled'
    BY <1>2 DEF Settled, Buried
  <2>2. 1 .. last' \subseteq Msgs
    BY <1>8, DeliveredAreMessages, EventStreamAssumption DEF DeliveryInv, Msgs
  <2>3. ASSUME NEW m \in 1 .. last', pel'[m] = 0 PROVE m \in Settled'
    <3>1. m \in 1 .. last \/ m \in last + 1 .. last'
      BY <1>1, <1>6 DEF DeliveryInv
    <3>2. pel[m] = 0 /\ m \notin taken
      BY <1>7, <2>2, <2>3
    <3>3. QED
      BY <1>1, <2>1, <3>1, <3>2 DEF NoneGone
  <2>4. QED
    BY <2>3 DEF NoneGone
<1>11. AckInv'
  BY <1>1, <1>2, <1>5, AckInvKept
<1>12. QED
  BY <1>5, <1>8, <1>9, <1>10, <1>11, StreamParts, PTL

\* The steps of a worker that leave the pending list alone.
LEMMA QuietStep ==
  ASSUME StreamInv, NEW w \in Workers,
         \/ ReclaimFails(w) \/ HandlerCommits(w) \/ HandlerRaises(w) \/ AckFails(w)
         \/ RetryLater(w) \/ GiveUp(w) \/ Crash(w)
  PROVE  StreamInv'
<1>1. DeliveryInv /\ RecordInv /\ NoneGone /\ WorkerInv /\ AckInv
  BY StreamParts
<1>2. pc[w] \in Holding => inbox[w] # <<>> /\ Current(w) \in Msgs
  BY <1>1, CurrentIsMessage DEF WorkerInv
<1>3. /\ UNCHANGED <<top, last, pel, stale, dropped, letters>>
      /\ done' \in SUBSET Msgs /\ done \subseteq done'
      /\ faults' \in {faults, faults + 1} /\ (faults' # faults => faults < MaxFaults)
  BY <1>1, <1>2 DEF ReclaimFails, HandlerCommits, HandlerRaises, AckFails, RetryLater,
     GiveUp, Crash, Fault, delivery, RecordInv, Holding
<1>4. DeliveryInv'
  BY <1>1, <1>3 DEF DeliveryInv
<1>5. RecordInv'
  <2>1. faults' \in 0 .. MaxFaults
    BY <1>1, <1>3, EventStreamAssumption DEF RecordInv
  <2>2. QED
    BY <1>1, <1>3, <2>1 DEF RecordInv
<1>6. NoneGone'
  <2>1. Settled \subseteq Settled'
    BY <1>3 DEF Settled, Buried
  <2>2. QED
    BY <1>1, <1>3, <2>1, SettledGrows
<1>7. WorkerInv' /\ AckInv'
  <2>1. CASE HandlerCommits(w)
    BY <1>1, <1>2, <2>1 DEF HandlerCommits, Goto, WorkerInv, AckInv, Holding, Current
  <2>2. CASE ReclaimFails(w)
    BY <1>1, <1>3, <2>2, MoveKeepsWorkers, AckInvKept DEF ReclaimFails, Holding
  <2>3. CASE HandlerRaises(w)
    BY <1>1, <1>2, <1>3, <2>3, MoveKeepsWorkers, AckInvKept DEF HandlerRaises, Holding
  <2>4. CASE AckFails(w)
    BY <1>1, <1>2, <1>3, <2>4, MoveKeepsWorkers, AckInvKept DEF AckFails, Holding
  <2>5. CASE GiveUp(w)
    BY <1>1, <1>2, <1>3, <2>5, MoveKeepsWorkers, AckInvKept DEF GiveUp, Holding
  <2>6. CASE RetryLater(w)
    BY <1>1, <1>2, <1>3, <2>6, NextKeepsWorkers, AckInvKept DEF RetryLater, Holding
  <2>7. CASE Crash(w)
    <3>1. <<>> \in Seq(Msgs) /\ Len(<<>>) <= Batch
      BY EventStreamAssumption
    <3>2. PICK b \in Seq(Msgs) : b = <<>> /\ Len(b) <= Batch
      BY <3>1
    <3>3. WorkerInv' /\ NoNewAck
      BY <1>1, <2>7, <3>2, BatchKeepsWorkers DEF Crash
    <3>4. QED
      BY <1>1, <1>3, <3>3, AckInvKept
  <2>8. QED
    BY <2>1, <2>2, <2>3, <2>4, <2>5, <2>6, <2>7
<1>8. QED
  BY <1>4, <1>5, <1>6, <1>7, StreamParts, PTL

\* The acknowledgement of a message that was handled.
LEMMA AckStep ==
  ASSUME StreamInv, NEW w \in Workers, Ack(w)
  PROVE  StreamInv'
<1>1. DeliveryInv /\ RecordInv /\ NoneGone /\ WorkerInv /\ AckInv
  BY StreamParts
<1>2. pc[w] = "ack" /\ inbox[w] # <<>> /\ Current(w) \in Msgs /\ Current(w) \in done
  BY <1>1, CurrentIsMessage DEF Ack, WorkerInv, AckInv, Holding
<1>3. PICK c \in Msgs : c = Current(w)
  BY <1>2
<1>4. /\ pel' = [pel EXCEPT ![c] = 0] /\ stale' = stale \ {c} /\ NextMessage(w)
      /\ UNCHANGED <<top, last, done, dropped, letters, faults>>
  BY <1>3 DEF Ack
<1>5. DeliveryInv' /\ \A m \in 1 .. last : pel'[m] = 0 => pel[m] = 0 \/ m = c
  BY <1>1, <1>4, AckTakesOne
<1>6. RecordInv'
  BY <1>1, <1>4 DEF RecordInv
<1>7. NoneGone'
  <2>1. Settled' = Settled /\ c \in Settled
    BY <1>2, <1>3, <1>4 DEF Settled, Buried
  <2>2. QED
    BY <1>1, <1>4, <1>5, <2>1, SettledGrows
<1>8. WorkerInv' /\ NoNewAck
  BY <1>1, <1>2, <1>4, NextKeepsWorkers
<1>9. AckInv'
  BY <1>1, <1>4, <1>8, AckInvKept
<1>10. QED
  BY <1>5, <1>6, <1>7, <1>8, <1>9, StreamParts, PTL

\* The acknowledgement of a message that is given up: it is a dead letter, or
\* the callback failed and it is dropped.
LEMMA BuryStep ==
  ASSUME StreamInv, NEW w \in Workers, Bury(w)
  PROVE  StreamInv'
<1>1. DeliveryInv /\ RecordInv /\ NoneGone /\ WorkerInv /\ AckInv
  BY StreamParts
<1>2. inbox[w] # <<>> /\ Current(w) \in Msgs
  BY <1>1, CurrentIsMessage DEF Bury, WorkerInv, Holding
<1>3. PICK c \in Msgs : c = Current(w)
  BY <1>2
<1> DEFINE new == [msg |-> c, status |-> "pending", tries |-> 0]
<1>4. /\ pel' = [pel EXCEPT ![c] = 0] /\ stale' = stale \ {c} /\ NextMessage(w)
      /\ UNCHANGED <<top, last, done>>
      /\ \/ letters' = Append(letters, new) /\ UNCHANGED <<dropped, faults>>
         \/ Fault /\ dropped' = dropped \cup {c} /\ UNCHANGED letters
  BY <1>3 DEF Bury
<1>5. DeliveryInv' /\ \A m \in 1 .. last : pel'[m] = 0 => pel[m] = 0 \/ m = c
  BY <1>1, <1>4, AckTakesOne
<1>6. RecordInv' /\ Settled \subseteq Settled' /\ c \in Settled'
  <2>1. CASE letters' = Append(letters, new) /\ UNCHANGED <<dropped, faults>>
    <3>1. new \in Letter /\ new.msg = c
      BY EventStreamAssumption DEF Letter
    <3> HIDE DEF new
    <3>2. letters' \in Seq(Letter) /\ Buried' = Buried \cup {c}
      BY <1>1, <2>1, <3>1, LettersGrow DEF RecordInv
    <3>3. QED
      BY <1>1, <1>4, <2>1, <3>2 DEF RecordInv, Settled
  <2>2. CASE Fault /\ dropped' = dropped \cup {c} /\ UNCHANGED letters
    <3>1. faults' \in 0 .. MaxFaults
      BY <1>1, <2>2, EventStreamAssumption DEF Fault, RecordInv
    <3>2. Buried' = Buried
      BY <2>2 DEF Buried
    <3>3. QED
      BY <1>1, <1>4, <2>2, <3>1, <3>2 DEF RecordInv, Settled
  <2>3. QED
    BY <1>4, <2>1, <2>2
<1>7. NoneGone'
  BY <1>1, <1>4, <1>5, <1>6, SettledGrows
<1>8. WorkerInv' /\ NoNewAck
  BY <1>1, <1>2, <1>4, NextKeepsWorkers
<1>9. AckInv'
  BY <1>1, <1>4, <1>8, AckInvKept
<1>10. QED
  BY <1>5, <1>6, <1>7, <1>8, <1>9, StreamParts, PTL

\* A letter written twice: the message stays pending, and is settled already.
LEMMA UnackedStep ==
  ASSUME StreamInv, NEW w \in Workers, BuryUnacked(w)
  PROVE  StreamInv'
<1>1. DeliveryInv /\ RecordInv /\ NoneGone /\ WorkerInv /\ AckInv
  BY StreamParts
<1>2. inbox[w] # <<>> /\ Current(w) \in Msgs
  BY <1>1, CurrentIsMessage DEF BuryUnacked, WorkerInv, Holding
<1>3. PICK c \in Msgs : c = Current(w)
  BY <1>2
<1> DEFINE new == [msg |-> c, status |-> "pending", tries |-> 0]
<1>4. /\ letters' = Append(letters, new) /\ Fault
      /\ UNCHANGED <<top, last, pel, stale, done, dropped>>
  BY <1>3 DEF BuryUnacked, delivery
<1>5. DeliveryInv'
  BY <1>1, <1>4 DEF DeliveryInv
<1>6. RecordInv' /\ Settled \subseteq Settled'
  <2>1. new \in Letter /\ new.msg = c
    BY EventStreamAssumption DEF Letter
  <2> HIDE DEF new
  <2>2. letters' \in Seq(Letter) /\ Buried' = Buried \cup {c}
    BY <1>1, <1>4, <2>1, LettersGrow DEF RecordInv
  <2>3. faults' \in 0 .. MaxFaults
    BY <1>1, <1>4, EventStreamAssumption DEF Fault, RecordInv
  <2>4. QED
    BY <1>1, <1>4, <2>2, <2>3 DEF RecordInv, Settled
<1>7. NoneGone'
  BY <1>1, <1>4, <1>6, SettledGrows
<1>8. WorkerInv' /\ NoNewAck
  <2>1. <<>> \in Seq(Msgs) /\ Len(<<>>) <= Batch
    BY EventStreamAssumption
  <2>2. PICK b \in Seq(Msgs) : b = <<>> /\ Len(b) <= Batch
    BY <2>1
  <2>3. QED
    BY <1>1, <2>2, BatchKeepsWorkers DEF BuryUnacked
<1>9. AckInv'
  BY <1>1, <1>4, <1>8, AckInvKept
<1>10. QED
  BY <1>5, <1>6, <1>7, <1>8, <1>9, StreamParts, PTL

\* The steps that no worker takes: publishing, the passing of time and the
\* retry of a dead letter.
LEMMA OutsideStep ==
  ASSUME StreamInv,
         \/ Publish \/ \E m \in Msgs : GoesStale(m)
         \/ \E k \in DOMAIN letters : DlqRetry(k)
         \/ UNCHANGED vars
  PROVE  StreamInv'
<1>1. DeliveryInv /\ RecordInv /\ NoneGone /\ WorkerInv /\ AckInv
  BY StreamParts
<1>2. UNCHANGED <<pc, from, inbox, last, pel, done, dropped, faults>>
  BY DEF Publish, GoesStale, DlqRetry, vars, worker, delivery
<1>3. WorkerInv' /\ AckInv'
  BY <1>1, <1>2 DEF WorkerInv, AckInv, Current
<1>4. DeliveryInv'
  <2>1. CASE Publish
    BY <1>1, <1>2, <2>1, EventStreamAssumption DEF Publish, DeliveryInv
  <2>2. CASE \E m \in Msgs : GoesStale(m)
    BY <1>1, <1>2, <2>2 DEF GoesStale, DeliveryInv
  <2>3. CASE UNCHANGED <<top, stale>>
    BY <1>1, <1>2, <2>3 DEF DeliveryInv
  <2>4. QED
    BY <2>1, <2>2, <2>3 DEF DlqRetry, vars, delivery
<1>5. letters' \in Seq(Letter) /\ Buried' = Buried
  <2>1. ASSUME NEW k \in DOMAIN letters, DlqRetry(k)
        PROVE  letters' \in Seq(Letter) /\ Buried' = Buried
    <3>1. letters[k] \in Letter
      BY <1>1 DEF RecordInv
    <3>2. letters' = [letters EXCEPT ![k] = Retried(letters[k])]
      BY <2>1 DEF DlqRetry
    <3>3. letters[k].tries \in 0 .. MaxAttempts
      BY <3>1 DEF Letter
    <3>4. ~(letters[k].tries >= MaxAttempts) => letters[k].tries + 1 \in 0 .. MaxAttempts
      BY <3>3, EventStreamAssumption
    <3>5. Retried(letters[k]) \in Letter /\ Retried(letters[k]).msg = letters[k].msg
      BY <3>1, <3>4 DEF Letter, Retried
    <3>6. QED
      BY <1>1, <3>2, <3>5, LettersGrow DEF RecordInv
  <2>2. CASE UNCHANGED letters
    BY <1>1, <2>2 DEF RecordInv, Buried
  <2>3. QED
    BY <2>1, <2>2 DEF Publish, GoesStale, vars
<1>6. RecordInv'
  BY <1>1, <1>2, <1>5 DEF RecordInv
<1>7. NoneGone'
  BY <1>1, <1>2, <1>5 DEF NoneGone, Settled
<1>8. QED
  BY <1>3, <1>4, <1>6, <1>7, StreamParts, PTL

----------------------------------------------------------------------------
\* For any number of workers and messages: a message that is no longer pending
\* was handled, is a dead letter, or was given up in one of the two ways that
\* are counted as dropped, however often it is delivered, claimed, failed and
\* acknowledged by workers that crash in between (EventBus.subscribe).
THEOREM NoMessageVanishes == Spec => []NothingVanishes
<1>1. Init => StreamInv
  BY EventStreamAssumption DEF Init, StreamInv, NothingVanishes, TypeOK, WorkerInv,
     AckInv, Holding, Msgs
<1>2. StreamInv /\ [Next]_vars => StreamInv'
  BY ReclaimStep, ReadStep, QuietStep, AckStep, BuryStep, UnackedStep, OutsideStep
     DEF Next, Work
<1>3. StreamInv => NothingVanishes
  BY DEF StreamInv
<1>4. QED
  BY <1>1, <1>2, <1>3, PTL DEF Spec

\* A message is given up unseen or unburied only if the stream has trimmed it or
\* a command failed.
OnlyTrimmedOrFailed ==
  [][\A m \in dropped' \ dropped : ~InStream(m) \/ faults' = faults + 1]_vars

\* Of the messages a reader passes, those still in the stream are in its batch.
LEMMA ReadSkipsTrimmed ==
  ASSUME DeliveryInv, NEW w \in Workers, ReadNew(w), NEW m \in dropped' \ dropped
  PROVE  ~InStream(m)
<1> DEFINE unseen == {i \in last + 1 .. top : InStream(i)}
           batch == Oldest(unseen)
<1>1. /\ last' = IF batch = <<>> THEN last ELSE batch[Len(batch)]
      /\ dropped' = dropped \cup ((last + 1 .. last') \ Contents(batch))
  BY DEF ReadNew
<1>2. unseen \in SUBSET Msgs /\ unseen \subseteq last + 1 .. top
  BY DeliveredAreMessages
<1>3. m \in last + 1 .. last' /\ m \notin Contents(batch)
  BY <1>1
<1>4. last \in Nat /\ top \in Nat
  BY EventStreamAssumption DEF DeliveryInv
<1> SUFFICES ASSUME InStream(m) PROVE FALSE
  OBVIOUS
<1>5. unseen \in SUBSET Nat /\ IsFiniteSet(unseen)
  BY <1>2, MessageSets
<1>6. /\ batch \in Seq(unseen)
      /\ Contents(batch) = {i \in unseen : Rank(unseen, i) < Batch}
  <2> HIDE DEF unseen
  <2>1. QED
    BY <1>5, OldestBatch
<1>7. batch # <<>>
  BY <1>1, <1>3, <1>4
<1>8. last' \in Contents(batch)
  <2> HIDE DEF batch
  <2>1. Len(batch) \in DOMAIN batch
    BY <1>6, <1>7
  <2>2. QED
    BY <1>1, <1>7, <2>1 DEF Contents
<1>9. last' \in unseen /\ Rank(unseen, last') < Batch
  BY <1>6, <1>8
<1>10. m \in unseen /\ m < last'
  <2>1. m # last'
    BY <1>3, <1>8
  <2>2. last' \in last + 1 .. top
    BY <1>2, <1>9
  <2>3. m \in last + 1 .. top /\ m < last'
    BY <1>3, <1>4, <2>1, <2>2
  <2>4. QED
    BY <2>3
<1> HIDE DEF unseen, batch
<1>11. Rank(unseen, m) < Rank(unseen, last')
  BY <1>5, <1>9, <1>10, RankGrows
<1>12. Rank(unseen, m) \in Nat /\ Rank(unseen, last') \in Nat
  BY <1>5, <1>9, <1>10, RankGrows, FS_CardinalityType
<1>13. Rank(unseen, m) < Batch
  BY <1>9, <1>11, <1>12, EventStreamAssumption
<1>14. QED
  BY <1>3, <1>6, <1>10, <1>13

\* Nothing that is still in the stream is lost to the group without a fault:
\* neither a reader that starts behind the trimming nor the reclaim of a batch
\* drops more than what XADD has trimmed, and the dead-letter callback loses a
\* message only when it fails.
THEOREM DropsAreTrimmedOrFailed == Spec => OnlyTrimmedOrFailed
<1> DEFINE Safe == \A m \in dropped' \ dropped : ~InStream(m) \/ faults' = faults + 1
<1>1. NothingVanishes /\ [Next]_vars => Safe \/ UNCHANGED vars
  <2> SUFFICES ASSUME NothingVanishes, Next PROVE Safe
    OBVIOUS
  <2>1. DeliveryInv
    BY DEF NothingVanishes, TypeOK, DeliveryInv
  <2>2. ASSUME NEW w \in Workers, ReadNew(w) PROVE Safe
    BY <2>1, <2>2, ReadSkipsTrimmed
  <2>3. ASSUME NEW w \in Workers, ReclaimPending(w) PROVE Safe
    BY <2>3 DEF ReclaimPending
  <2>4. ASSUME NEW w \in Workers, Bury(w) PROVE Safe
    BY <2>4 DEF Bury, Fault
  <2>5. CASE UNCHANGED dropped
    BY <2>5
  <2> HIDE DEF Safe
  <2>6. QED
    BY <2>2, <2>3, <2>4, <2>5 DEF Next, Work, Publish, GoesStale, ReclaimFails,
       HandlerCommits, HandlerRaises, Ack, AckFails, RetryLater, GiveUp, BuryUnacked, Crash, DlqRetry
<1>2. QED
  BY <1>1, NoMessageVanishes, PTL DEF Spec, OnlyTrimmedOrFailed
=============================================================================
