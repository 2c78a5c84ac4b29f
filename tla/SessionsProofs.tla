--------------------------- MODULE SessionsProofs ---------------------------
(***************************************************************************)
(* Proofs about Sessions, for any turns, users, retries and faults.        *)
(***************************************************************************)
EXTENDS Sessions, FiniteSetTheorems, TLAPS

\* A creation under way holds one reference that no session has yet.
Making == IF lock THEN 1 ELSE 0

\* The pool: the open clients are the cached ones and the abandoned ones.
PoolInv ==
  /\ cached \subseteq Users /\ IsFiniteSet(cached)
  /\ open \in [Users -> Nat] /\ abandoned \in [Users -> Nat] /\ lock \in BOOLEAN
  /\ \A u \in Users : open[u] = (IF u \in cached THEN 1 ELSE 0) + abandoned[u]

\* The process: every reference is accounted for.  A session of an earlier
\* process takes a reference of another one when it closes, so the count can
\* be short, and by as much as stale says.
CountInv ==
  /\ proc \in {"none", "up", "dead"} /\ refs \in Nat /\ cur \subseteq cached
  /\ leaked \in Nat /\ stale \in Nat /\ unready \in BOOLEAN
  /\ refs = 0 <=> proc = "none" \/ unready
  /\ lock => proc # "none"
  /\ refs + stale = Cardinality(cur) + leaked + Making

\* A leak costs a fault: of the connect, of the process while it waited, or of
\* the close.
FaultInv ==
  /\ faults \in 0 .. MaxFaults /\ leaked <= faults
  /\ proc = "dead" /\ lock => leaked < faults

\* The turns: one creation at a time, of a session that is not there.
TurnInv ==
  /\ config \in BOOLEAN /\ doomed \subseteq Users /\ known \in BOOLEAN
  /\ cb \in [state : {"closed", "open", "half_open"}, fails : 0 .. Threshold]
  /\ pc \in [Turns -> {"ready", "cycle", "lock", "connect", "use", "rebuild", "refresh"}]
  /\ job \in [Turns -> {"call", "discover"}] /\ key \in [Turns -> Users]
  /\ handle \in [Turns -> {"none", "open", "gone"}]
  /\ tries \in [Turns -> 0 .. MaxRetries - 1]
  /\ scope \in [Turns -> SUBSET Users]

CreateInv ==
  \A t \in Turns : pc[t] = "connect" =>
    /\ lock /\ key[t] \notin cached
    /\ \A s \in Turns : pc[s] = "connect" => s = t

SessionsInv == PoolInv /\ CountInv /\ FaultInv /\ TurnInv /\ CreateInv

----------------------------------------------------------------------------
USE SessionsAssumption

\* The process is gone, and with it every count.
LEMMA Stopped ==
  ASSUME Stop, ~lock'
  PROVE  CountInv'
<1>1. /\ proc' = "none" /\ refs' = 0 /\ cur' = {} /\ leaked' = 0 /\ stale' = 0
      /\ unready' \in BOOLEAN
  BY DEF Stop
<1>2. Cardinality(cur') = 0
  BY <1>1, FS_EmptySet
<1>3. QED
  BY <1>1, <1>2 DEF CountInv, Making

\* A session of S gives its own reference back, or takes one from another; one
\* of L keeps its own.
LEMMA GivenBack ==
  ASSUME PoolInv, CountInv, ~lock, ~lock', NEW S \in SUBSET cached, NEW L \in SUBSET cached,
         S \cap L = {}, S # {} => refs > Cardinality(S), Return(S, L),
         cached' = cached \ (S \cup L)
  PROVE  CountInv'
<1>1. IsFiniteSet(S) /\ IsFiniteSet(L) /\ IsFiniteSet(cur)
  BY FS_Subset DEF PoolInv, CountInv
<1> DEFINE X == cur \cap S
           Y == L \cap cur
<1>2. /\ IsFiniteSet(X) /\ IsFiniteSet(Y)
      /\ Cardinality(X) \in Nat /\ Cardinality(Y) \in Nat
      /\ Cardinality(S) \in Nat /\ Cardinality(cur) \in Nat
  BY <1>1, FS_CardinalityType, FS_Intersection
<1>3. Cardinality(cur \ (S \cup L)) = Cardinality(cur) - Cardinality(X) - Cardinality(Y)
  <2>1. cur \cap (S \cup L) = X \cup Y /\ X \cap Y = {}
    OBVIOUS
  <2>2. Cardinality(X \cup Y) = Cardinality(X) + Cardinality(Y) - Cardinality(X \cap Y)
    BY <1>2, FS_Union
  <2>3. Cardinality(X \cup Y) = Cardinality(X) + Cardinality(Y)
    <3>1. Cardinality(X \cap Y) = 0
      BY <2>1, FS_EmptySet
    <3> HIDE DEF X, Y
    <3>2. QED
      BY <1>2, <2>2, <3>1
  <2>4. Cardinality(cur \ (S \cup L)) = Cardinality(cur) - Cardinality(cur \cap (S \cup L))
    BY <1>1, FS_Difference
  <2>5. Cardinality(cur \ (S \cup L)) = Cardinality(cur) - Cardinality(X \cup Y)
    BY <2>1, <2>4
  <2> HIDE DEF X, Y
  <2>6. QED
    BY <1>2, <2>3, <2>5
<1>4. Cardinality(S \ cur) = Cardinality(S) - Cardinality(X) /\ Cardinality(S \ cur) \in Nat
  <2>1. S \cap cur = X
    OBVIOUS
  <2>2. Cardinality(S \ cur) = Cardinality(S) - Cardinality(S \cap cur) /\ IsFiniteSet(S \ cur)
    BY <1>1, FS_Difference
  <2>3. QED
    BY <2>1, <2>2, FS_CardinalityType
<1>5. /\ refs \in Nat /\ stale \in Nat /\ leaked \in Nat /\ unready \in BOOLEAN
      /\ refs + stale = Cardinality(cur) + leaked
  BY <1>2 DEF CountInv, Making
<1>6. /\ refs' = refs - Cardinality(S) /\ cur' = cur \ (S \cup L)
      /\ stale' = stale + Cardinality(S \ cur) /\ leaked' = leaked + Cardinality(Y)
      /\ proc' = proc /\ unready' = unready
  BY DEF Return
<1>7. refs' \in Nat /\ (refs' = 0 <=> refs = 0)
  <2>1. CASE S = {}
    <3>1. Cardinality(S) = 0
      BY <2>1, FS_EmptySet
    <3>2. QED
      BY <1>5, <1>6, <3>1
  <2>2. CASE S # {}
    BY <1>2, <1>5, <1>6, <2>2
  <2>3. QED
    BY <2>1, <2>2
<1> HIDE DEF X, Y
<1>8. refs' + stale' = Cardinality(cur') + leaked' /\ stale' \in Nat /\ leaked' \in Nat
  BY <1>2, <1>3, <1>4, <1>5, <1>6
<1>9. cur' \subseteq cached'
  BY <1>6 DEF CountInv
<1>10. Cardinality(cur') \in Nat
  BY <1>1, <1>6, FS_Difference, FS_CardinalityType
<1>11. QED
  BY <1>5, <1>6, <1>7, <1>8, <1>9, <1>10 DEF CountInv, Making

\* Closing sessions keeps the books, and leaks only what is cut.
LEMMA Shutting ==
  ASSUME PoolInv, CountInv, NEW S \in SUBSET cached, NEW L \in SUBSET cached,
         S \cap L = {}, NEW A \in SUBSET L, Shut(S, L, A)
  PROVE  /\ PoolInv' /\ CountInv' /\ cached' \subseteq cached /\ ~lock /\ lock' = lock
         /\ leaked' = 0 \/ leaked' = leaked + Cardinality(L \cap cur)
<1>1. /\ ~lock /\ lock' = lock /\ cached' = cached \ (S \cup L)
      /\ open' = [u \in Users |-> IF u \in (S \cup L) \ A THEN open[u] - 1 ELSE open[u]]
      /\ abandoned' = [u \in Users |-> IF u \in A THEN abandoned[u] + 1 ELSE abandoned[u]]
      /\ Release(S, L)
  BY DEF Shut
<1>2. PoolInv'
  <2>1. IsFiniteSet(cached') /\ cached' \subseteq Users
    BY <1>1, FS_Difference DEF PoolInv
  <2>2. ASSUME NEW u \in Users
        PROVE  /\ open'[u] \in Nat /\ abandoned'[u] \in Nat
               /\ open'[u] = (IF u \in cached' THEN 1 ELSE 0) + abandoned'[u]
    <3>1. /\ open[u] \in Nat /\ abandoned[u] \in Nat
          /\ open[u] = (IF u \in cached THEN 1 ELSE 0) + abandoned[u]
      BY DEF PoolInv
    <3>2. /\ open'[u] = IF u \in (S \cup L) \ A THEN open[u] - 1 ELSE open[u]
          /\ abandoned'[u] = IF u \in A THEN abandoned[u] + 1 ELSE abandoned[u]
      BY <1>1
    <3>3. CASE u \in A
      BY <1>1, <3>1, <3>2, <3>3
    <3>4. CASE u \in (S \cup L) \ A
      BY <1>1, <3>1, <3>2, <3>4
    <3>5. CASE u \notin S \cup L
      BY <1>1, <3>1, <3>2, <3>5
    <3>6. QED
      BY <3>3, <3>4, <3>5
  <2>3. open' \in [Users -> Nat] /\ abandoned' \in [Users -> Nat]
    <3>1. open' = [u \in Users |-> open'[u]] /\ abandoned' = [u \in Users |-> abandoned'[u]]
      BY <1>1
    <3>2. QED
      BY <2>2, <3>1
  <2>4. QED
    BY <1>1, <2>1, <2>2, <2>3 DEF PoolInv
<1>3. CASE S # {} /\ refs <= Cardinality(S)
  <2>1. Stop
    BY <1>1, <1>3 DEF Release
  <2>2. QED
    BY <1>1, <1>2, <2>1, Stopped DEF Stop
<1>4. CASE ~(S # {} /\ refs <= Cardinality(S))
  <2>1. Return(S, L)
    BY <1>1, <1>4 DEF Release
  <2>2. S # {} => refs > Cardinality(S)
    <3>1. Cardinality(S) \in Nat /\ refs \in Nat
      BY FS_Subset, FS_CardinalityType DEF PoolInv, CountInv
    <3>2. QED
      BY <1>4, <3>1
  <2>3. CountInv'
    BY <1>1, <2>1, <2>2, GivenBack
  <2>4. QED
    BY <1>1, <1>2, <2>1, <2>3 DEF Return
<1>5. QED
  BY <1>3, <1>4

\* A close that ends leaks nothing.
LEMMA Closed ==
  ASSUME PoolInv, CountInv, NEW K, Close(K)
  PROVE  /\ PoolInv' /\ CountInv' /\ cached' \subseteq cached
         /\ ~lock /\ lock' = lock /\ (leaked' = leaked \/ leaked' = 0)
<1>1. Shut(K \cap cached, {}, {})
  BY DEF Close
<1>2. K \cap cached \in SUBSET cached /\ {} \in SUBSET cached /\ (K \cap cached) \cap {} = {}
  OBVIOUS
<1>3. Cardinality({} \cap cur) = 0
  <2>1. {} \cap cur = {}
    OBVIOUS
  <2>2. QED
    BY <2>1, FS_EmptySet
<1>4. leaked + 0 = leaked
  BY DEF CountInv
<1>5. /\ PoolInv' /\ CountInv' /\ cached' \subseteq cached /\ ~lock /\ lock' = lock
      /\ leaked' = 0 \/ leaked' = leaked + Cardinality({} \cap cur)
  BY <1>1, <1>2, Shutting
<1>6. QED
  BY <1>3, <1>4, <1>5

\* A cancelled close leaks at most one reference.
LEMMA CutShort ==
  ASSUME PoolInv, CountInv, NEW P \in SUBSET cached, Cut(P)
  PROVE  /\ PoolInv' /\ CountInv' /\ cached' \subseteq cached
         /\ ~lock /\ lock' = lock /\ leaked' <= leaked + 1
<1>a. leaked \in Nat
  BY DEF CountInv
<1>1. CASE Close(P)
  <2>1. /\ PoolInv' /\ CountInv' /\ cached' \subseteq cached
        /\ ~lock /\ lock' = lock /\ (leaked' = leaked \/ leaked' = 0)
    BY <1>1, Closed
  <2>2. QED
    BY <1>a, <2>1
<1>2. ASSUME NEW u \in P, NEW A \in SUBSET {u}, Shut(P \ {u}, {u}, A)
      PROVE  /\ PoolInv' /\ CountInv' /\ cached' \subseteq cached
             /\ ~lock /\ lock' = lock /\ leaked' <= leaked + 1
  <2>1. P \ {u} \in SUBSET cached /\ {u} \in SUBSET cached /\ (P \ {u}) \cap {u} = {}
    OBVIOUS
  <2>2. /\ PoolInv' /\ CountInv' /\ cached' \subseteq cached /\ ~lock /\ lock' = lock
        /\ leaked' = 0 \/ leaked' = leaked + Cardinality({u} \cap cur)
    BY <1>2, <2>1, Shutting
  <2>3. Cardinality({u} \cap cur) \in {0, 1}
    <3>1. {u} \cap cur = {} \/ {u} \cap cur = {u}
      OBVIOUS
    <3>2. QED
      BY <3>1, FS_EmptySet, FS_Singleton
  <2>4. QED
    BY <1>a, <2>2, <2>3
<1>3. QED
  BY <1>1, <1>2 DEF Cut

\* A step that leaves the pool alone.
LEMMA PoolAlone ==
  ASSUME PoolInv, CountInv, UNCHANGED pool
  PROVE  PoolInv' /\ CountInv' /\ lock' = lock /\ cached' = cached /\ proc' = proc /\ leaked' = leaked
BY DEF pool, clients, process, PoolInv, CountInv, Making

\* Faults are counted up to their bound.
LEMMA FaultCounts ==
  ASSUME faults \in 0 .. MaxFaults, Fault
  PROVE  faults' \in 0 .. MaxFaults /\ faults' > faults
BY DEF Fault

\* What a step may do to leaks and faults.
LEMMA FaultKept ==
  ASSUME CountInv, FaultInv, UNCHANGED faults \/ Fault,
         \/ leaked' = 0 /\ (proc' = "dead" => ~lock')
         \/ leaked' = leaked /\ (proc' = "dead" /\ lock' => (proc = "dead" /\ lock) \/ Fault)
  PROVE  FaultInv'
<1>1. leaked \in Nat /\ faults \in 0 .. MaxFaults /\ leaked <= faults
  BY DEF CountInv, FaultInv
<1>2. faults' \in 0 .. MaxFaults /\ faults' >= faults /\ (Fault => faults' > faults)
  BY <1>1, FaultCounts
<1>3. leaked' <= faults'
  BY <1>1, <1>2
<1>4. proc' = "dead" /\ lock' => leaked' < faults'
  BY <1>1, <1>2 DEF FaultInv
<1>5. QED
  BY <1>2, <1>3, <1>4 DEF FaultInv

\* A cancelled close is a fault, and no creation is under way.
LEMMA FaultCut ==
  ASSUME CountInv, FaultInv, Fault, leaked' \in Nat, leaked' <= leaked + 1, ~lock'
  PROVE  FaultInv'
<1>1. leaked \in Nat /\ faults \in 0 .. MaxFaults /\ leaked <= faults
  BY DEF CountInv, FaultInv
<1>2. faults' \in 0 .. MaxFaults /\ faults' = faults + 1
  BY <1>1, FaultCounts DEF Fault
<1>3. QED
  <2>1. leaked' <= faults' /\ ~(proc' = "dead" /\ lock')
    BY <1>1, <1>2
  <2>2. QED
    BY <1>2, <2>1 DEF FaultInv

\* The pool and the process through every step.
LEMMA BooksStep == SessionsInv /\ [Next]_vars => PoolInv' /\ CountInv' /\ FaultInv'
<1> SUFFICES ASSUME SessionsInv, [Next]_vars PROVE PoolInv' /\ CountInv' /\ FaultInv'
  OBVIOUS
<1>a. PoolInv /\ CountInv /\ FaultInv /\ TurnInv /\ CreateInv
  BY DEF SessionsInv
<1>b. ASSUME UNCHANGED pool, UNCHANGED faults \/ Fault PROVE PoolInv' /\ CountInv' /\ FaultInv'
  BY <1>a, <1>b, PoolAlone, FaultKept
<1>c. ASSUME NEW K, Close(K), UNCHANGED faults PROVE PoolInv' /\ CountInv' /\ FaultInv'
  BY <1>a, <1>c, Closed, FaultKept
<1>d. ASSUME NEW P \in SUBSET cached, Cut(P), Fault PROVE PoolInv' /\ CountInv' /\ FaultInv'
  <2>1. PoolInv' /\ CountInv' /\ ~lock' /\ leaked' <= leaked + 1
    BY <1>a, <1>d, CutShort
  <2>2. leaked' \in Nat
    BY <2>1 DEF CountInv
  <2>3. QED
    BY <1>a, <1>d, <2>1, <2>2, FaultCut
<1>1. CASE ProcessDies
  <2>1. /\ proc = "up" /\ proc' = "dead" /\ Fault
        /\ UNCHANGED <<cached, open, abandoned, refs, cur, leaked, stale, unready, lock>>
    BY <1>1 DEF ProcessDies, clients
  <2>2. PoolInv' /\ CountInv'
    BY <1>a, <2>1 DEF PoolInv, CountInv, Making
  <2>3. QED
    BY <1>a, <2>1, <2>2, FaultKept
<1>2. CASE RemoveServer \/ AddServer
  BY <1>2, <1>b DEF RemoveServer, AddServer
<1>3. ASSUME NEW u \in Users, CleanupIdle(u) \/ RemoveNext(u) PROVE PoolInv' /\ CountInv' /\ FaultInv'
  BY <1>3, <1>c DEF CleanupIdle, RemoveNext
<1>3a. ASSUME NEW u \in Users, ReaperCut(u) \/ RemoveCut(u) PROVE PoolInv' /\ CountInv' /\ FaultInv'
  <2>1. Fault /\ (UNCHANGED pool \/ (Cut({u}) /\ {u} \in SUBSET cached))
    BY <1>3a DEF ReaperCut, RemoveCut
  <2>2. QED
    BY <1>b, <1>d, <2>1
<1>4. ASSUME NEW t \in Turns, BeginCall(t) \/ BeginDiscovery(t) PROVE PoolInv' /\ CountInv' /\ FaultInv'
  BY <1>4, <1>b DEF BeginCall, BeginDiscovery, Begin
<1>5. ASSUME NEW t \in Turns, Reuse(t) \/ Refused(t) PROVE PoolInv' /\ CountInv' /\ FaultInv'
  BY <1>5, <1>b DEF Reuse, Refused
<1>6. ASSUME NEW t \in Turns, StartCreate(t) PROVE PoolInv' /\ CountInv' /\ FaultInv'
  <2>1. EnsureRunning /\ ~lock /\ lock' = TRUE /\ UNCHANGED <<cached, open, abandoned, faults>>
    BY <1>6 DEF StartCreate, clients
  <2>2. PoolInv'
    BY <1>a, <2>1 DEF PoolInv
  <2>3. Cardinality(cur) \in Nat
    BY <1>a, FS_Subset, FS_CardinalityType DEF PoolInv, CountInv
  <2>4. CASE proc = "up"
    <3>1. refs' = refs + 1 /\ unready' = FALSE /\ UNCHANGED <<proc, cur, leaked, stale>>
      BY <2>1, <2>4 DEF EnsureRunning
    <3>2. refs \in Nat /\ stale \in Nat /\ leaked \in Nat /\ refs + stale = Cardinality(cur) + leaked + 0
      BY <1>a, <2>1 DEF CountInv, Making
    <3>3. refs' + stale' = Cardinality(cur') + leaked' + 1 /\ refs' \in Nat /\ refs' # 0
      BY <2>3, <3>1, <3>2
    <3>4. CountInv'
      BY <1>a, <2>1, <2>4, <3>1, <3>3 DEF CountInv, Making
    <3>5. QED
      BY <1>a, <2>1, <2>2, <2>4, <3>1, <3>4, FaultKept
  <2>5. CASE proc # "up"
    <3>1. proc' = "up" /\ refs' = 1 /\ cur' = {} /\ leaked' = 0 /\ stale' = 0 /\ unready' = FALSE
      BY <2>1, <2>5 DEF EnsureRunning
    <3>2. CountInv'
      <4>1. Cardinality(cur') = 0 /\ unready' \in BOOLEAN /\ ~unready' /\ lock'
        BY <2>1, <3>1, FS_EmptySet
      <4>2. QED
        BY <3>1, <4>1 DEF CountInv, Making
    <3>3. QED
      BY <1>a, <2>1, <2>2, <3>1, <3>2, FaultKept
  <2>6. QED
    BY <2>4, <2>5
<1>7. ASSUME NEW t \in Turns, RefreshSession(t) PROVE PoolInv' /\ CountInv' /\ FaultInv'
  BY <1>7, <1>c DEF RefreshSession
<1>8. ASSUME NEW t \in Turns, SpawnFails(t) PROVE PoolInv' /\ CountInv' /\ FaultInv'
  <2>1. Stop /\ Fault /\ ~lock /\ UNCHANGED <<cached, open, abandoned, lock>>
    BY <1>8 DEF SpawnFails, clients
  <2>2. PoolInv' /\ CountInv'
    BY <1>a, <2>1, Stopped DEF PoolInv
  <2>3. QED
    BY <1>a, <2>1, <2>2, FaultKept DEF Stop
<1>8a. ASSUME NEW t \in Turns, SpawnCut(t) PROVE PoolInv' /\ CountInv' /\ FaultInv'
  <2>1. /\ Fault /\ ~lock /\ UNCHANGED <<cached, open, abandoned, lock>>
        /\ proc' = "up" /\ refs' = 0 /\ cur' = {} /\ leaked' = 0 /\ stale' = 0 /\ unready' = TRUE
    BY <1>8a DEF SpawnCut, clients
  <2>2. PoolInv'
    BY <1>a, <2>1 DEF PoolInv
  <2>3. CountInv'
    BY <2>1, FS_EmptySet DEF CountInv, Making
  <2>4. QED
    BY <1>a, <2>1, <2>2, <2>3, FaultKept
<1>9. ASSUME NEW t \in Turns, Connect(t) PROVE PoolInv' /\ CountInv' /\ FaultInv'
  <2>1. /\ proc = "up" /\ pc[t] = "connect" /\ lock' = FALSE
        /\ cached' = cached \cup {key[t]} /\ cur' = cur \cup {key[t]}
        /\ open' = [open EXCEPT ![key[t]] = @ + 1]
        /\ UNCHANGED <<abandoned, proc, refs, leaked, stale, unready, faults>>
    BY <1>9 DEF Connect
  <2>2. key[t] \in Users /\ key[t] \notin cached /\ lock /\ key[t] \notin cur
    BY <1>a, <2>1 DEF TurnInv, CreateInv, CountInv
  <2>3. IsFiniteSet(cur) /\ IsFiniteSet(cached) /\ Cardinality(cur) \in Nat
    BY <1>a, FS_Subset, FS_CardinalityType DEF PoolInv, CountInv
  <2>4. PoolInv'
    <3>1. IsFiniteSet(cached') /\ cached' \subseteq Users
      BY <1>a, <2>1, <2>2, <2>3, FS_AddElement DEF PoolInv
    <3>2. /\ open \in [Users -> Nat] /\ abandoned \in [Users -> Nat]
          /\ open[key[t]] = 0 + abandoned[key[t]]
      BY <1>a, <2>2 DEF PoolInv
    <3>3. /\ open' \in [Users -> Nat] /\ open'[key[t]] = 1 + abandoned[key[t]]
          /\ \A u \in Users \ {key[t]} : open'[u] = open[u]
      BY <2>1, <2>2, <3>2
    <3>4. \A u \in Users : open'[u] = (IF u \in cached' THEN 1 ELSE 0) + abandoned[u]
      BY <1>a, <2>1, <3>3 DEF PoolInv
    <3>5. QED
      BY <2>1, <3>1, <3>2, <3>3, <3>4 DEF PoolInv
  <2>5. Cardinality(cur') = Cardinality(cur) + 1
    BY <2>1, <2>2, <2>3, FS_AddElement
  <2>6. refs + stale = Cardinality(cur) + leaked + 1 /\ leaked \in Nat
    BY <1>a, <2>2 DEF CountInv, Making
  <2>7. refs' + stale' = Cardinality(cur') + leaked' + 0
    BY <2>1, <2>3, <2>5, <2>6
  <2>8. cur' \subseteq cached'
    BY <1>a, <2>1 DEF CountInv
  <2>9. CountInv'
    BY <1>a, <2>1, <2>7, <2>8 DEF CountInv, Making
  <2>10. QED
    BY <1>a, <2>1, <2>4, <2>9, FaultKept
<1>10. ASSUME NEW t \in Turns, ConnectFails(t) PROVE PoolInv' /\ CountInv' /\ FaultInv'
  <2>1. /\ pc[t] = "connect" /\ leaked' = leaked + 1 /\ lock' = FALSE
        /\ UNCHANGED <<cached, proc, refs, cur, stale, unready>>
        /\ IF proc = "up" THEN Fault ELSE UNCHANGED faults
    BY <1>10 DEF ConnectFails
  <2>2. lock
    BY <1>a, <2>1 DEF CreateInv
  <2>3. PoolInv'
    <3>1. PICK entered \in 0 .. 1 : /\ open' = [open EXCEPT ![key[t]] = @ + entered]
                                    /\ abandoned' = [abandoned EXCEPT ![key[t]] = @ + entered]
      BY <1>10 DEF ConnectFails
    <3>2. entered \in Nat /\ key[t] \in Users /\ open \in [Users -> Nat] /\ abandoned \in [Users -> Nat]
      BY <1>a DEF TurnInv, PoolInv
    <3>3. open' \in [Users -> Nat] /\ abandoned' \in [Users -> Nat]
      BY <3>1, <3>2
    <3>4. ASSUME NEW u \in Users
          PROVE  open'[u] = (IF u \in cached THEN 1 ELSE 0) + abandoned'[u]
      <4>1. open[u] = (IF u \in cached THEN 1 ELSE 0) + abandoned[u]
        BY <1>a DEF PoolInv
      <4>2. CASE u = key[t]
        BY <3>1, <3>2, <4>1, <4>2
      <4>3. CASE u # key[t]
        BY <3>1, <3>2, <4>1, <4>3
      <4>4. QED
        BY <4>2, <4>3
    <3>5. QED
      BY <1>a, <2>1, <3>3, <3>4 DEF PoolInv
  <2>4. Cardinality(cur) \in Nat
    BY <1>a, FS_Subset, FS_CardinalityType DEF PoolInv, CountInv
  <2>5. leaked \in Nat /\ refs + stale = Cardinality(cur) + leaked + 1
    BY <1>a, <2>2 DEF CountInv, Making
  <2>6. refs' + stale' = Cardinality(cur') + leaked' + 0 /\ leaked' \in Nat
    BY <2>1, <2>4, <2>5
  <2>7. CountInv'
    BY <1>a, <2>1, <2>6 DEF CountInv, Making
  <2>8. faults \in 0 .. MaxFaults /\ leaked <= faults
    BY <1>a DEF FaultInv
  <2>9. FaultInv'
    <3>1. CASE proc = "up"
      <4>1. faults' \in 0 .. MaxFaults /\ faults' > faults
        BY <2>1, <2>8, <3>1, FaultCounts
      <4>2. leaked' <= faults'
        BY <2>1, <2>5, <2>8, <4>1
      <4>3. QED
        BY <2>1, <4>1, <4>2 DEF FaultInv
    <3>2. CASE proc # "up"
      <4>1. proc = "dead" /\ leaked < faults
        BY <1>a, <2>2, <3>2 DEF CountInv, FaultInv
      <4>2. leaked' <= faults' /\ faults' = faults
        BY <2>1, <2>5, <2>8, <3>2, <4>1
      <4>3. QED
        BY <2>1, <2>8, <4>2 DEF FaultInv
    <3>3. QED
      BY <3>1, <3>2
  <2>10. QED
    BY <2>3, <2>7, <2>9
<1>11. ASSUME NEW t \in Turns, \/ Answer(t) \/ Retry(t) \/ GiveUp(t) \/ DiscoveryDone(t) \/ Cancel(t)
       PROVE  PoolInv' /\ CountInv' /\ FaultInv'
  BY <1>11, <1>b DEF Answer, Retry, GiveUp, DiscoveryDone, Cancel, Err
<1>12. ASSUME NEW t \in Turns, EndTurn(t) PROVE PoolInv' /\ CountInv' /\ FaultInv'
  BY <1>12, <1>c DEF EndTurn
<1>12a. ASSUME NEW t \in Turns, RefreshCut(t) PROVE PoolInv' /\ CountInv' /\ FaultInv'
  <2>1. Fault /\ Cut({key[t]}) /\ {key[t]} \in SUBSET cached
    BY <1>12a DEF RefreshCut
  <2>2. QED
    BY <1>d, <2>1
<1>12b. ASSUME NEW t \in Turns, EndTurnCut(t) PROVE PoolInv' /\ CountInv' /\ FaultInv'
  <2>1. Fault /\ (UNCHANGED pool \/ \E P \in SUBSET (scope[t] \cap cached) : Cut(P))
    BY <1>12b DEF EndTurnCut
  <2>2. QED
    BY <1>b, <1>d, <2>1
<1>13. CASE UNCHANGED vars
  BY <1>13, <1>b DEF vars
<1>14. QED
  BY <1>1, <1>2, <1>3, <1>3a, <1>4, <1>5, <1>6, <1>7, <1>8, <1>8a, <1>9, <1>10, <1>11, <1>12,
     <1>12a, <1>12b, <1>13
     DEF Next, Locked, Unlocked, Cancelled

\* The breaker stays within its threshold.
LEMMA BreakerType ==
  ASSUME cb \in [state : {"closed", "open", "half_open"}, fails : 0 .. Threshold],
         RecordSuccess \/ RecordFailure \/ Available \/ UNCHANGED cb
  PROVE  cb' \in [state : {"closed", "open", "half_open"}, fails : 0 .. Threshold]
<1>1. cb.state \in {"closed", "open", "half_open"} /\ cb.fails \in 0 .. Threshold
  OBVIOUS
<1>2. CASE RecordSuccess
  <2>1. 0 \in 0 .. Threshold
    OBVIOUS
  <2>2. QED
    BY <1>2, <2>1 DEF RecordSuccess
<1>3. CASE RecordFailure
  <2> DEFINE n == IF cb.fails < Threshold THEN cb.fails + 1 ELSE cb.fails
  <2>1. n \in 0 .. Threshold
    BY <1>1
  <2> DEFINE state == IF cb.state = "half_open" \/ n >= Threshold THEN "open" ELSE cb.state
  <2>2. state \in {"closed", "open", "half_open"}
    BY <1>1
  <2>3. cb' = [state |-> state, fails |-> n]
    BY <1>3 DEF RecordFailure
  <2> HIDE DEF n, state
  <2>4. QED
    BY <2>1, <2>2, <2>3
<1>4. CASE Available \/ UNCHANGED cb
  BY <1>4 DEF Available
<1>5. QED
  BY <1>2, <1>3, <1>4

\* Attempts are counted below the limit.
LEMMA TriesType ==
  ASSUME tries \in [Turns -> 0 .. MaxRetries - 1], NEW t \in Turns
  PROVE  /\ [tries EXCEPT ![t] = 0] \in [Turns -> 0 .. MaxRetries - 1]
         /\ tries[t] < MaxRetries - 1 =>
              [tries EXCEPT ![t] = @ + 1] \in [Turns -> 0 .. MaxRetries - 1]
OBVIOUS

\* Turns stay well typed.
LEMMA TurnStep == TurnInv /\ PoolInv /\ [Next]_vars => TurnInv'
<1> SUFFICES ASSUME TurnInv, PoolInv, [Next]_vars PROVE TurnInv'
  OBVIOUS
<1>a. \A t \in Turns : [tries EXCEPT ![t] = 0] \in [Turns -> 0 .. MaxRetries - 1]
  BY TriesType DEF TurnInv
<1>b. \A K : Severed(K) \in [Turns -> {"none", "open", "gone"}]
  BY DEF TurnInv, Severed
<1>c. cached \subseteq Users
  BY DEF PoolInv
<1>d. \A t \in Turns : UserOf[t] \in Users
  OBVIOUS
<1> USE DEF TurnInv, Goto, NoSession, turn, server
<1>1. CASE ProcessDies \/ RemoveServer \/ AddServer
  BY <1>1, <1>c DEF ProcessDies, RemoveServer, AddServer
<1>2. ASSUME NEW u \in Users, CleanupIdle(u) \/ RemoveNext(u) PROVE TurnInv'
  <2>1. handle' \in [Turns -> {"none", "open", "gone"}]
    BY <1>2, <1>b DEF CleanupIdle, RemoveNext
  <2>2. UNCHANGED <<known, cb, pc, job, key, tries, scope>>
    BY <1>2 DEF CleanupIdle, RemoveNext
  <2>3. config' \in BOOLEAN /\ doomed' \subseteq Users
    BY <1>2 DEF CleanupIdle, RemoveNext
  <2>4. QED
    BY <2>1, <2>2, <2>3
<1>2a. ASSUME NEW u \in Users, ReaperCut(u) \/ RemoveCut(u) PROVE TurnInv'
  <2>1. handle' \in [Turns -> {"none", "open", "gone"}]
    BY <1>2a, <1>b DEF ReaperCut, RemoveCut
  <2>2. UNCHANGED <<config, known, cb, pc, job, key, tries, scope>>
    BY <1>2a DEF ReaperCut, RemoveCut
  <2>3. doomed' \subseteq Users
    BY <1>2a DEF ReaperCut, RemoveCut
  <2>4. QED
    BY <2>1, <2>2, <2>3
<1>f. ASSUME NEW t \in Turns, NEW sessions \in [Turns -> {"none", "open", "gone"}],
             Aborted(t, sessions), UNCHANGED <<config, doomed, known, cb, scope>>
      PROVE  TurnInv'
  <2>1. CASE Goto(t, "refresh") /\ handle' = sessions /\ UNCHANGED <<job, key, tries>>
    BY <1>f, <2>1
  <2>2. CASE Goto(t, "ready") /\ Returned(t, sessions)
    BY <1>f, <1>a, <1>d, <2>2 DEF Returned
  <2>3. QED
    BY <1>f, <2>1, <2>2 DEF Aborted
<1>3. ASSUME NEW t \in Turns, BeginCall(t) PROVE TurnInv'
  <2>1. cb' \in [state : {"closed", "open", "half_open"}, fails : 0 .. Threshold]
    BY <1>3, BreakerType DEF BeginCall
  <2>2. QED
    BY <1>3, <1>d, <2>1 DEF BeginCall, Begin
<1>4. ASSUME NEW t \in Turns, BeginDiscovery(t) PROVE TurnInv'
  BY <1>4 DEF BeginDiscovery, Begin
<1>5. ASSUME NEW t \in Turns, Reuse(t) PROVE TurnInv'
  BY <1>5 DEF Reuse
<1>g. ASSUME NEW t \in Turns, NEW place \in {"refresh", "use", "ready", "connect"},
             pc' = [pc EXCEPT ![t] = place],
             UNCHANGED <<config, doomed, known, cb, job, key, handle, tries, scope>>
      PROVE  TurnInv'
  BY <1>g
<1>6. ASSUME NEW t \in Turns, Refused(t) \/ StartCreate(t) PROVE TurnInv'
  <2>1. PICK place \in {"refresh", "use", "ready", "connect"} : pc' = [pc EXCEPT ![t] = place]
    BY <1>6 DEF Refused, StartCreate
  <2>2. UNCHANGED <<config, doomed, known, cb, job, key, handle, tries, scope>>
    BY <1>6 DEF Refused, StartCreate
  <2>3. QED
    BY <1>g, <2>1, <2>2
<1>6a. ASSUME NEW t \in Turns, SpawnFails(t) \/ ConnectFails(t) \/ SpawnCut(t) \/ Cancel(t)
       PROVE  TurnInv'
  <2>1. UNCHANGED <<config, doomed, known, cb, scope>>
    BY <1>6a DEF SpawnFails, ConnectFails, SpawnCut, Cancel
  <2>2. CASE NoSession(t) /\ UNCHANGED <<job, key, handle, tries>>
    <3> DEFINE next == CASE job[t] = "discover" -> "refresh" [] tries[t] > 0 -> "use" [] OTHER -> "ready"
    <3>0. pc' = [pc EXCEPT ![t] = next] /\ next \in {"refresh", "use", "ready", "connect"}
      BY <2>2
    <3> HIDE DEF next
    <3>1. PICK place \in {"refresh", "use", "ready", "connect"} : pc' = [pc EXCEPT ![t] = place]
      BY <3>0
    <3>2. QED
      BY <1>g, <2>1, <2>2, <3>1
  <2>3. CASE Aborted(t, handle)
    <3>1. handle \in [Turns -> {"none", "open", "gone"}]
      OBVIOUS
    <3>2. QED
      BY <1>f, <2>1, <2>3, <3>1
  <2>4. QED
    BY <1>6a, <2>2, <2>3 DEF SpawnFails, ConnectFails, SpawnCut, Cancel, NotCreated
<1>7. ASSUME NEW t \in Turns, Connect(t) PROVE TurnInv'
  BY <1>7 DEF Connect
<1>8. ASSUME NEW t \in Turns, Answer(t) PROVE TurnInv'
  <2>1. cb' \in [state : {"closed", "open", "half_open"}, fails : 0 .. Threshold]
    BY <1>8, BreakerType DEF Answer
  <2>2. QED
    BY <1>8, <1>a, <1>d, <2>1 DEF Answer, Returned
<1>9. ASSUME NEW t \in Turns, Retry(t) PROVE TurnInv'
  <2>1. tries' \in [Turns -> 0 .. MaxRetries - 1]
    BY <1>9, TriesType DEF Retry
  <2>2. QED
    BY <1>9, <2>1 DEF Retry, Err
<1>10. ASSUME NEW t \in Turns, GiveUp(t) PROVE TurnInv'
  <2>1. cb' \in [state : {"closed", "open", "half_open"}, fails : 0 .. Threshold]
    BY <1>10, BreakerType DEF GiveUp
  <2>2. QED
    BY <1>10, <1>a, <1>d, <2>1 DEF GiveUp, Err, Returned
<1>11. ASSUME NEW t \in Turns, DiscoveryDone(t) PROVE TurnInv'
  BY <1>11 DEF DiscoveryDone
<1>12. ASSUME NEW t \in Turns, RefreshSession(t) PROVE TurnInv'
  <2>1. Severed({key[t]}) \in [Turns -> {"none", "open", "gone"}]
    BY <1>b
  <2>2. CASE /\ handle' = Severed({key[t]}) /\ Goto(t, "lock") /\ UNCHANGED <<job, key, tries>>
    BY <1>12, <2>1, <2>2 DEF RefreshSession
  <2>3. CASE Goto(t, "ready") /\ Returned(t, Severed({key[t]}))
    BY <1>12, <1>a, <1>d, <2>1, <2>3 DEF RefreshSession, Returned
  <2>4. QED
    BY <1>12, <2>2, <2>3 DEF RefreshSession
<1>13. ASSUME NEW t \in Turns, RefreshCut(t) PROVE TurnInv'
  <2>1. /\ Aborted(t, Severed({key[t]})) /\ Severed({key[t]}) \in [Turns -> {"none", "open", "gone"}]
        /\ UNCHANGED <<config, doomed, known, cb, scope>>
    BY <1>13, <1>b DEF RefreshCut
  <2>2. QED
    BY <1>f, <2>1
<1>14. ASSUME NEW t \in Turns, EndTurn(t) \/ EndTurnCut(t) PROVE TurnInv'
  <2>1. handle' \in [Turns -> {"none", "open", "gone"}]
    BY <1>14, <1>b DEF EndTurn, EndTurnCut
  <2>2. UNCHANGED <<config, doomed, known, cb, pc, job, key, tries>>
    BY <1>14 DEF EndTurn, EndTurnCut
  <2>3. scope' = [scope EXCEPT ![t] = {}]
    BY <1>14 DEF EndTurn, EndTurnCut
  <2>4. QED
    BY <2>1, <2>2, <2>3
<1>15. CASE UNCHANGED vars
  BY <1>15 DEF vars
<1> HIDE DEF TurnInv, Goto, NoSession, turn, server
<1>16. QED
  BY <1>1, <1>2, <1>2a, <1>3, <1>4, <1>5, <1>6, <1>6a, <1>7, <1>8, <1>9, <1>10, <1>11, <1>12,
     <1>13, <1>14, <1>15
     DEF Next, Locked, Unlocked, Cancelled

\* One session is made at a time, and it is not there until it is made.
LEMMA CreateStep == SessionsInv /\ [Next]_vars => CreateInv'
<1> SUFFICES ASSUME SessionsInv, [Next]_vars PROVE CreateInv'
  OBVIOUS
<1>a. PoolInv /\ CountInv /\ TurnInv /\ CreateInv
  BY DEF SessionsInv
<1>b. pc = [t \in Turns |-> pc[t]] /\ key = [t \in Turns |-> key[t]]
  BY <1>a DEF TurnInv
\* A step of one turn that is not making a session.
<1>d. ASSUME NEW t \in Turns, NEW place, pc' = [pc EXCEPT ![t] = place], place # "connect",
             pc[t] # "connect" \/ ~lock, UNCHANGED <<lock, cached>>,
             \A s \in Turns \ {t} : key'[s] = key[s]
      PROVE  CreateInv'
  BY <1>a, <1>b, <1>d DEF CreateInv
<1>e. ASSUME UNCHANGED <<pc, key, lock, cached>> PROVE CreateInv'
  BY <1>a, <1>e DEF CreateInv
\* No session is being made before, and none after.
<1>f. ASSUME ~lock, \A s \in Turns : pc'[s] = "connect" => pc[s] = "connect" PROVE CreateInv'
  BY <1>a, <1>f DEF CreateInv
<1>1. CASE ProcessDies \/ RemoveServer \/ AddServer
  BY <1>1, <1>e DEF ProcessDies, RemoveServer, AddServer, pool, clients, turn
<1>1a. ASSUME NEW u \in Users, ReaperCut(u) \/ RemoveCut(u) PROVE CreateInv'
  <2>1. UNCHANGED <<pc, key>> /\ (UNCHANGED pool \/ (Cut({u}) /\ {u} \in SUBSET cached))
    BY <1>1a DEF ReaperCut, RemoveCut
  <2>2. CASE UNCHANGED pool
    BY <1>e, <2>1, <2>2 DEF pool, clients
  <2>3. CASE Cut({u}) /\ {u} \in SUBSET cached
    BY <1>a, <1>f, <2>1, <2>3, CutShort
  <2>4. QED
    BY <2>1, <2>2, <2>3
<1>1b. ASSUME NEW t \in Turns, EndTurnCut(t) PROVE CreateInv'
  <2>1. /\ UNCHANGED <<pc, key>>
        /\ UNCHANGED pool \/ \E P \in SUBSET (scope[t] \cap cached) : Cut(P)
    BY <1>1b DEF EndTurnCut
  <2>2. CASE UNCHANGED pool
    BY <1>e, <2>1, <2>2 DEF pool, clients
  <2>3. ASSUME NEW P \in SUBSET (scope[t] \cap cached), Cut(P) PROVE CreateInv'
    BY <1>a, <1>f, <2>1, <2>3, CutShort
  <2>4. QED
    BY <2>1, <2>2, <2>3
<1>1c. ASSUME NEW t \in Turns, RefreshCut(t) PROVE CreateInv'
  <2>1. PICK place \in {"refresh", "ready"} : pc' = [pc EXCEPT ![t] = place]
    BY <1>1c DEF RefreshCut, Aborted, Goto
  <2>2. Cut({key[t]}) /\ {key[t]} \in SUBSET cached
    BY <1>1c DEF RefreshCut
  <2>3. ~lock
    BY <1>a, <2>2, CutShort
  <2>4. \A s \in Turns : pc'[s] = "connect" => pc[s] = "connect"
    BY <1>b, <2>1
  <2>5. QED
    BY <1>f, <2>3, <2>4
<1>2. ASSUME NEW u \in Users, CleanupIdle(u) \/ RemoveNext(u) PROVE CreateInv'
  <2>1. Close({u}) /\ UNCHANGED pc
    BY <1>2 DEF CleanupIdle, RemoveNext
  <2>2. ~lock
    BY <1>a, <2>1, Closed
  <2>3. QED
    BY <1>a, <2>1, <2>2 DEF CreateInv
<1>3. ASSUME NEW t \in Turns, BeginCall(t) \/ BeginDiscovery(t) PROVE CreateInv'
  <2>1. PICK place \in {"lock", "cycle"} : pc' = [pc EXCEPT ![t] = place]
    BY <1>3 DEF BeginCall, BeginDiscovery, Begin, Goto
  <2>2. pc[t] = "ready" /\ UNCHANGED <<lock, cached>> /\ \A s \in Turns \ {t} : key'[s] = key[s]
    BY <1>3, <1>b DEF BeginCall, BeginDiscovery, Begin, pool, clients
  <2>3. QED
    BY <1>d, <2>1, <2>2
<1>4. ASSUME NEW t \in Turns, Reuse(t) \/ Refused(t) \/ SpawnFails(t) \/ SpawnCut(t) PROVE CreateInv'
  <2>1. PICK place \in {"use", "refresh", "ready"} : pc' = [pc EXCEPT ![t] = place]
    BY <1>4 DEF Reuse, Refused, SpawnFails, SpawnCut, NotCreated, Aborted, NoSession, Goto
  <2>2. ~lock
    BY <1>4 DEF Reuse, Refused, SpawnFails, SpawnCut
  <2>3. \A s \in Turns : pc'[s] = "connect" => pc[s] = "connect"
    BY <1>b, <2>1
  <2>4. QED
    BY <1>f, <2>2, <2>3
<1>5. ASSUME NEW t \in Turns, StartCreate(t) PROVE CreateInv'
  <2>1. /\ ~lock /\ key[t] \notin cached /\ lock' = TRUE /\ UNCHANGED <<cached, key>>
        /\ pc' = [pc EXCEPT ![t] = "connect"]
    BY <1>5 DEF StartCreate, Goto, clients
  <2>2. QED
    BY <1>a, <1>b, <2>1 DEF CreateInv
<1>6. ASSUME NEW t \in Turns, RefreshSession(t) PROVE CreateInv'
  <2>1. PICK place \in {"lock", "ready"} : pc' = [pc EXCEPT ![t] = place]
    BY <1>6 DEF RefreshSession, Goto
  <2>2. Close({key[t]})
    BY <1>6 DEF RefreshSession
  <2>3. ~lock
    BY <1>a, <2>2, Closed
  <2>4. \A s \in Turns : pc'[s] # "connect"
    BY <1>a, <1>b, <2>1, <2>3 DEF CreateInv
  <2>5. QED
    BY <2>4 DEF CreateInv
<1>7. ASSUME NEW t \in Turns, Connect(t) \/ ConnectFails(t) PROVE CreateInv'
  <2>1. PICK place \in {"use", "refresh", "ready"} : pc' = [pc EXCEPT ![t] = place]
    BY <1>7 DEF Connect, ConnectFails, NotCreated, Aborted, NoSession, Goto
  <2>2. pc[t] = "connect"
    BY <1>7 DEF Connect, ConnectFails
  <2>3. \A s \in Turns : pc'[s] # "connect"
    BY <1>a, <1>b, <2>1, <2>2 DEF CreateInv
  <2>4. QED
    BY <2>3 DEF CreateInv
<1>8. ASSUME NEW t \in Turns, \/ Answer(t) \/ Retry(t) \/ GiveUp(t) \/ DiscoveryDone(t) \/ Cancel(t)
      PROVE  CreateInv'
  <2>1. PICK place \in {"use", "rebuild", "refresh", "ready"} : pc' = [pc EXCEPT ![t] = place]
    BY <1>8 DEF Answer, Retry, GiveUp, DiscoveryDone, Cancel, Aborted, Goto
  <2>2. pc[t] # "connect" /\ UNCHANGED <<lock, cached>>
    BY <1>8 DEF Answer, Retry, GiveUp, DiscoveryDone, Cancel, Err, pool, clients
  <2>3. \A s \in Turns \ {t} : key'[s] = key[s]
    BY <1>8, <1>b DEF Answer, Retry, GiveUp, DiscoveryDone, Cancel, Aborted, Returned
  <2>4. QED
    BY <1>d, <2>1, <2>2, <2>3
<1>9. ASSUME NEW t \in Turns, EndTurn(t) PROVE CreateInv'
  <2>1. Close(scope[t]) /\ UNCHANGED pc
    BY <1>9 DEF EndTurn
  <2>2. ~lock
    BY <1>a, <2>1, Closed
  <2>3. QED
    BY <1>a, <2>1, <2>2 DEF CreateInv
<1>10. CASE UNCHANGED vars
  BY <1>10, <1>e DEF vars, pool, clients, turn
<1>11. QED
  BY <1>1, <1>1a, <1>1b, <1>1c, <1>2, <1>3, <1>4, <1>5, <1>6, <1>7, <1>8, <1>9, <1>10
     DEF Next, Locked, Unlocked, Cancelled

\* Nothing is open, counted or under way at the start.
LEMMA SessionsInit == Init => SessionsInv
<1> SUFFICES ASSUME Init PROVE SessionsInv
  OBVIOUS
<1>1. PoolInv /\ CreateInv
  <2>1. IsFiniteSet(cached) /\ cached = {} /\ \A u \in Users : open[u] = 0 /\ abandoned[u] = 0
    BY FS_EmptySet DEF Init
  <2>2. open \in [Users -> Nat] /\ abandoned \in [Users -> Nat] /\ lock \in BOOLEAN
    BY DEF Init
  <2>3. PoolInv
    BY <2>1, <2>2 DEF PoolInv
  <2>4. QED
    BY <2>3 DEF Init, CreateInv
<1>2. CountInv
  <2>1. /\ proc = "none" /\ refs = 0 /\ cur = {} /\ leaked = 0 /\ stale = 0
        /\ unready \in BOOLEAN /\ ~lock
    BY DEF Init
  <2>2. Cardinality(cur) = 0
    BY <2>1, FS_EmptySet
  <2>3. QED
    BY <2>1, <2>2 DEF CountInv, Making
<1>3. FaultInv
  BY DEF Init, FaultInv
<1>4. TurnInv
  <2>1. 0 \in 0 .. MaxRetries - 1 /\ 0 \in 0 .. Threshold
    OBVIOUS
  <2>2. tries \in [Turns -> 0 .. MaxRetries - 1]
    BY <2>1 DEF Init
  <2>3. cb \in [state : {"closed", "open", "half_open"}, fails : 0 .. Threshold]
    BY <2>1 DEF Init
  <2>4. QED
    BY <2>2, <2>3 DEF Init, TurnInv
<1>5. QED
  BY <1>1, <1>2, <1>3, <1>4 DEF SessionsInv

\* The invariant is inductive.
LEMMA SessionsAlways == Spec => []SessionsInv
<1>1. SessionsInv /\ [Next]_vars => SessionsInv'
  BY BooksStep, TurnStep, CreateStep DEF SessionsInv
<1>2. QED
  BY SessionsInit, <1>1, PTL DEF Spec

----------------------------------------------------------------------------
\* Every open client is the cached one of its user, or one that a failed
\* creation or a cancelled close left: no other path of creation, refresh,
\* reaping or removal leaves one behind or makes two.
THEOREM EveryClientIsCached == Spec => []NoOrphanSession
<1>1. SessionsInv => NoOrphanSession
  <2> SUFFICES ASSUME SessionsInv PROVE NoOrphanSession
    OBVIOUS
  <2>1. leaked \in 0 .. MaxFaults
    BY DEF SessionsInv, CountInv, FaultInv
  <2>2. refs = 0 <=> proc = "none" \/ unready
    BY DEF SessionsInv, CountInv
  <2>3. TypeOK
    BY <2>1, <2>2 DEF SessionsInv, PoolInv, CountInv, FaultInv, TurnInv, TypeOK
  <2>4. QED
    BY <2>3 DEF SessionsInv, PoolInv, NoOrphanSession
<1>2. QED
  BY SessionsAlways, <1>1, PTL

\* The managed process is kept by a session made on it, a creation under way,
\* the reference of a failed creation or a cancelled close, or a cancelled wait
\* for it, and by nothing else.
THEOREM ProcessIsAccountedFor == Spec => []ProcessNotForgotten
<1>1. SessionsInv => ProcessNotForgotten
  <2> SUFFICES ASSUME SessionsInv, proc # "none", ~lock, ~(leaked > 0), ~unready
               PROVE  cur # {}
    BY DEF ProcessNotForgotten
  <2>1. refs \in Nat \ {0} /\ stale \in Nat /\ leaked = 0
    BY DEF SessionsInv, CountInv
  <2>2. refs + stale = Cardinality(cur) + 0 + 0
    BY <2>1 DEF SessionsInv, CountInv, Making
  <2>3. Cardinality(cur) # 0
    BY <2>1, <2>2
  <2>4. QED
    BY <2>3, FS_EmptySet
<1>2. QED
  BY SessionsAlways, <1>1, PTL

\* The process is stopped under no session that runs on it, unless a session of
\* an earlier process has taken, or is there to take, a reference to it.
THEOREM NotStoppedInUse == Spec => StoppedWhenUnused
<1> DEFINE Unused == proc = "up" /\ proc' = "none" =>
                       cur \cap cached' = {} \/ cached # cur \/ stale > 0
<1>1. SessionsInv /\ [Next]_vars => [Unused]_vars
  <2> SUFFICES ASSUME SessionsInv, [Next]_vars, proc = "up", proc' = "none",
                      cached = cur, ~(stale > 0)
               PROVE  cur \cap cached' = {}
    OBVIOUS
  <2>a. PoolInv /\ CountInv
    BY DEF SessionsInv
  <2>b. ASSUME NEW S \in SUBSET cached, NEW L, NEW A, Shut(S, L, A) PROVE cur \cap cached' = {}
    <3>1. ~lock /\ cached' = cached \ (S \cup L) /\ Release(S, L)
      BY <2>b DEF Shut
    <3>2. refs <= Cardinality(S)
      BY <3>1 DEF Release, Return
    <3>3. IsFiniteSet(cur) /\ S \in SUBSET cur
      BY <2>a DEF PoolInv
    <3>4. Cardinality(S) <= Cardinality(cur) /\ (Cardinality(S) = Cardinality(cur) => S = cur)
      BY <3>3, FS_Subset
    <3>5. Cardinality(S) \in Nat /\ Cardinality(cur) \in Nat
      BY <3>3, FS_Subset, FS_CardinalityType
    <3>6. refs \in Nat /\ leaked \in Nat /\ stale = 0 /\ refs + stale = Cardinality(cur) + leaked + 0
      BY <2>a, <3>1 DEF CountInv, Making
    <3>7. Cardinality(S) = Cardinality(cur)
      BY <3>2, <3>4, <3>5, <3>6
    <3>8. QED
      BY <3>1, <3>4, <3>7
  <2>1. ASSUME NEW K, Close(K) PROVE cur \cap cached' = {}
    <3>1. Shut(K \cap cached, {}, {}) /\ K \cap cached \in SUBSET cached
      BY <2>1 DEF Close
    <3>2. QED
      BY <2>b, <3>1
  <2>c. ASSUME NEW P \in SUBSET cached, Cut(P) PROVE cur \cap cached' = {}
    <3>1. ASSUME NEW u \in P, NEW A \in SUBSET {u}, Shut(P \ {u}, {u}, A) PROVE cur \cap cached' = {}
      <4>1. P \ {u} \in SUBSET cached
        OBVIOUS
      <4>2. QED
        BY <2>b, <3>1, <4>1
    <3>2. QED
      BY <2>c, <2>1, <3>1 DEF Cut
  <2>d. ~UNCHANGED pool
    BY DEF pool, process
  <2>2. CASE ProcessDies \/ RemoveServer \/ AddServer
    BY <2>2 DEF ProcessDies, RemoveServer, AddServer, pool, process
  <2>3. ASSUME NEW u \in Users, CleanupIdle(u) \/ RemoveNext(u) PROVE cur \cap cached' = {}
    BY <2>1, <2>3 DEF CleanupIdle, RemoveNext
  <2>3a. ASSUME NEW u \in Users, ReaperCut(u) \/ RemoveCut(u) PROVE cur \cap cached' = {}
    <3>1. Cut({u}) /\ {u} \in SUBSET cached
      BY <2>3a, <2>d DEF ReaperCut, RemoveCut
    <3>2. QED
      BY <2>c, <3>1
  <2>3b. ASSUME NEW t \in Turns, RefreshCut(t) PROVE cur \cap cached' = {}
    <3>1. Cut({key[t]}) /\ {key[t]} \in SUBSET cached
      BY <2>3b DEF RefreshCut
    <3>2. QED
      BY <2>c, <3>1
  <2>3c. ASSUME NEW t \in Turns, EndTurnCut(t) PROVE cur \cap cached' = {}
    <3>1. \E P \in SUBSET (scope[t] \cap cached) : Cut(P)
      BY <2>3c, <2>d DEF EndTurnCut
    <3>2. QED
      BY <2>c, <3>1
  <2>4. ASSUME NEW t \in Turns, RefreshSession(t) \/ EndTurn(t) PROVE cur \cap cached' = {}
    BY <2>1, <2>4 DEF RefreshSession, EndTurn
  <2>5. ASSUME NEW t \in Turns, \/ BeginCall(t) \/ BeginDiscovery(t) \/ Reuse(t) \/ Refused(t)
                                \/ Answer(t) \/ Retry(t) \/ GiveUp(t) \/ DiscoveryDone(t) \/ Cancel(t)
        PROVE  FALSE
    BY <2>5 DEF BeginCall, BeginDiscovery, Begin, Reuse, Refused, Answer, Retry, GiveUp,
       DiscoveryDone, Cancel, pool, process
  <2>6. ASSUME NEW t \in Turns,
               StartCreate(t) \/ SpawnFails(t) \/ SpawnCut(t) \/ Connect(t) \/ ConnectFails(t)
        PROVE  FALSE
    BY <2>6 DEF StartCreate, EnsureRunning, SpawnFails, SpawnCut, Connect, ConnectFails
  <2>7. CASE UNCHANGED vars
    BY <2>7 DEF vars, pool, process
  <2>8. QED
    BY <2>2, <2>3, <2>3a, <2>3b, <2>3c, <2>4, <2>5, <2>6, <2>7 DEF Next, Locked, Unlocked, Cancelled
<1>2. QED
  BY SessionsAlways, <1>1, PTL DEF Spec, StoppedWhenUnused
=============================================================================
