--------------------------- MODULE DispatchProofs ---------------------------
(***************************************************************************)
(* Proofs about RunDispatch, for any number of schedulers and runs and any *)
(* size of a claim, and about OwnerLock, the lease that RunDispatch takes  *)
(* as atomic, for any number of workers and any timing.                    *)
(***************************************************************************)
EXTENDS RunDispatch, OwnerLock, TLAPS

\* A scheduler drives a run with its lease and its row lock in hand, and
\* bookkeeping that waits for the end of a tick is about a run.
HoldInv ==
  \A p \in Schedulers :
    /\ pc[p] = "drive" => at[p] \in Runs /\ lease[at[p]] = p /\ lock[at[p]] = p
    /\ note[p] = None \/ note[p].run \in Runs

DriveInv == TypeOK /\ HoldInv

\* What was committed as executed is what the steps say, and a drive sees the
\* steps as they are committed, although its run's status may be stale.
WorkInv ==
  /\ \A r \in Runs : ran[r] = IF work[r] = "done" THEN 1 ELSE 0
  /\ \A p \in Schedulers : pc[p] = "drive" => sees[p] = work[at[p]]

----------------------------------------------------------------------------
\* Nobody drives at first.
LEMMA DriveInvInit == Init => DriveInv
BY DispatchAssumption DEF Init, DriveInv, TypeOK, HoldInv, None

\* Two drives are about two runs.
LEMMA Apart ==
  ASSUME HoldInv, NEW p \in Schedulers, NEW q \in Schedulers, p # q,
         pc[p] = "drive", pc[q] = "drive"
  PROVE  at[p] # at[q]
BY DEF HoldInv

\* One more in a function that counts.
LEMMA CountUp ==
  ASSUME NEW f \in [Runs -> Nat], NEW r \in Runs
  PROVE  [f EXCEPT ![r] = @ + 1] \in [Runs -> Nat]
OBVIOUS

\* The bookkeeping of a run is well typed.
LEMMA NoteType ==
  ASSUME TypeOK, NEW r \in Runs
  PROVE  [run |-> r, status |-> status[r]] \in
           [run : Runs \cup {0},
            status : {"none", "pending", "completed", "failed", "cancelled"}]
BY DEF TypeOK

\* Every action of a tick keeps lease and row lock with the drive.
LEMMA DriveInvStep == DriveInv /\ [Next]_vars => DriveInv'
<1> SUFFICES ASSUME DriveInv, [Next]_vars PROVE DriveInv'
  OBVIOUS
<1> USE DispatchAssumption DEF DriveInv, TypeOK, HoldInv, rows, Released, LeaveDrive
<1>1. ASSUME NEW p \in Schedulers, Claim(p) PROVE DriveInv'
  BY <1>1 DEF Claim, Oldest
<1>2. ASSUME NEW p \in Schedulers, TickAborts(p) PROVE DriveInv'
  BY <1>2 DEF TickAborts, None
<1>3. ASSUME NEW p \in Schedulers, NEW r \in Runs, BackOff(p, r) PROVE DriveInv'
  BY <1>3 DEF BackOff
<1>4. ASSUME NEW p \in Schedulers, NEW r \in Runs, StartDrive(p, r) PROVE DriveInv'
  <2>1. TypeOK'
    BY <1>4 DEF StartDrive
  <2>2. ASSUME NEW q \in Schedulers, q # p, pc[q] = "drive" PROVE at[q] # r
    BY <1>4, <2>2 DEF StartDrive, MayDrive
  <2>3. HoldInv'
    BY <1>4, <2>2 DEF StartDrive
  <2>4. QED
    BY <2>1, <2>3
<1>5. ASSUME NEW p \in Schedulers, DriveCommits(p) PROVE DriveInv'
  <2>0. at[p] \in Runs
    BY <1>5 DEF DriveCommits
  <2>a. ran' \in [Runs -> Nat] /\ work' \in [Runs -> {"todo", "done", "skipped"}]
    <3>1. ran' \in {ran, [ran EXCEPT ![at[p]] = @ + 1]}
      BY <1>5, <2>0 DEF DriveCommits
    <3>2. work' \in {work, [work EXCEPT ![at[p]] = "done"]}
      BY <1>5, <2>0 DEF DriveCommits
    <3>3. ran' \in [Runs -> Nat]
      BY <2>0, <3>1, CountUp
    <3>4. QED
      BY <2>0, <3>2, <3>3
  <2>b. lock' \in [Runs -> Schedulers \cup {"none"}] /\ lease' \in [Runs -> Schedulers \cup {"none"}]
    BY <1>5, <2>0 DEF DriveCommits
  <2>1. TypeOK'
    BY <1>5, <2>0, <2>a, <2>b DEF DriveCommits
  <2>2. \A q \in Schedulers \ {p} : pc[q] = "drive" => at[q] # at[p]
    BY <1>5, Apart DEF DriveCommits
  <2>3. HoldInv'
    BY <1>5, <2>2 DEF DriveCommits
  <2>4. QED
    BY <2>1, <2>3
<1>6. ASSUME NEW p \in Schedulers, DriveRaises(p) PROVE DriveInv'
  <2>0. at[p] \in Runs
    BY <1>6 DEF DriveRaises
  <2>a. lock' \in [Runs -> Schedulers \cup {"none"}] /\ lease' \in [Runs -> Schedulers \cup {"none"}]
    BY <1>6, <2>0 DEF DriveRaises
  <2>b. faults' \in 0 .. MaxFaults
    BY <1>6 DEF DriveRaises
  <2>1. TypeOK'
    <3>1. [run |-> at[p], status |-> status[at[p]]] \in
            [run : Runs \cup {0},
             status : {"none", "pending", "completed", "failed", "cancelled"}]
      BY <2>0, NoteType
    <3>2. note' \in [Schedulers ->
                [run : Runs \cup {0},
                 status : {"none", "pending", "completed", "failed", "cancelled"}]]
      BY <1>6, <3>1 DEF DriveRaises
    <3>3. QED
      BY <1>6, <3>2, <2>a, <2>b DEF DriveRaises
  <2>2. \A q \in Schedulers \ {p} : pc[q] = "drive" => at[q] # at[p]
    BY <1>6, Apart DEF DriveRaises
  <2>3. note' = [note EXCEPT ![p] = [run |-> at[p], status |-> status[at[p]]]]
    BY <1>6 DEF DriveRaises
  <2>4. note'[p].run \in Runs
    BY <1>6, <2>3 DEF DriveRaises
  <2>5. HoldInv'
    BY <1>6, <2>2, <2>3, <2>4 DEF DriveRaises
  <2>6. QED
    BY <2>1, <2>5
<1>7. ASSUME NEW p \in Schedulers, EndTick(p) PROVE DriveInv'
  <2>1. CASE note[p] = None /\ UNCHANGED rows
    BY <1>7, <2>1 DEF EndTick, None
  <2>2. CASE note[p] # None
    BY <1>7, <2>2 DEF EndTick, None
  <2>3. QED
    BY <1>7, <2>1, <2>2 DEF EndTick
<1>8. ASSUME NEW p \in Schedulers, Crash(p) PROVE DriveInv'
  BY <1>8 DEF Crash, None
<1>9. ASSUME NEW r \in Runs, Cancel(r) PROVE DriveInv'
  BY <1>9 DEF Cancel
<1>10. CASE UNCHANGED vars
  BY <1>10 DEF vars
<1>11. QED
  BY <1>1, <1>2, <1>3, <1>4, <1>5, <1>6, <1>7, <1>8, <1>9, <1>10 DEF Next, Tick

\* No two schedulers ever drive one run: the claim's row lock is gone when the
\* first drive of a claim commits, and the lease and the flush of "running"
\* take its place.
THEOREM SingleDriver == Spec => []OneDriver
<1>1. DriveInv => OneDriver
  BY DEF DriveInv, HoldInv, OneDriver
<1>2. QED
  BY DriveInvInit, DriveInvStep, <1>1, PTL DEF Spec

\* Work is committed as executed at most once, and never after a cancellation
\* skipped it, whatever stale claim a drive starts from.
THEOREM WorkDoneOnce == Spec => []WorkOnce
<1>1. Init => WorkInv
  BY DEF Init, WorkInv
<1>2. DriveInv /\ DriveInv' /\ WorkInv /\ [Next]_vars => WorkInv'
  <2> SUFFICES ASSUME DriveInv, DriveInv', WorkInv, [Next]_vars PROVE WorkInv'
    OBVIOUS
  <2> USE DispatchAssumption
      DEF DriveInv, TypeOK, HoldInv, WorkInv, rows, Released, LeaveDrive
  <2>1. ASSUME NEW p \in Schedulers, Claim(p) PROVE WorkInv'
    BY <2>1 DEF Claim
  <2>2. ASSUME NEW p \in Schedulers, TickAborts(p) PROVE WorkInv'
    BY <2>2 DEF TickAborts
  <2>3. ASSUME NEW p \in Schedulers, NEW r \in Runs, BackOff(p, r) PROVE WorkInv'
    BY <2>3 DEF BackOff
  <2>4. ASSUME NEW p \in Schedulers, NEW r \in Runs, StartDrive(p, r) PROVE WorkInv'
    BY <2>4 DEF StartDrive
  <2>5. ASSUME NEW p \in Schedulers, DriveCommits(p) PROVE WorkInv'
    BY <2>5 DEF DriveCommits
  <2>6. ASSUME NEW p \in Schedulers, DriveRaises(p) PROVE WorkInv'
    BY <2>6 DEF DriveRaises
  <2>7. ASSUME NEW p \in Schedulers, EndTick(p) PROVE WorkInv'
    BY <2>7 DEF EndTick
  <2>8. ASSUME NEW p \in Schedulers, Crash(p) PROVE WorkInv'
    BY <2>8 DEF Crash
  <2>9. ASSUME NEW r \in Runs, Cancel(r) PROVE WorkInv'
    BY <2>9 DEF Cancel
  <2>10. CASE UNCHANGED vars
    BY <2>10 DEF vars
  <2>11. QED
    BY <2>1, <2>2, <2>3, <2>4, <2>5, <2>6, <2>7, <2>8, <2>9, <2>10 DEF Next, Tick
<1>3. WorkInv => WorkOnce
  BY DEF WorkInv, WorkOnce
<1>4. QED
  BY DriveInvInit, DriveInvStep, <1>1, <1>2, <1>3, PTL DEF Spec

----------------------------------------------------------------------------
(* The lock.                                                               *)

\* The key names a worker only while that worker is inside the lock.
KeyInv == \A w \in Workers : key = w => place[w] = "held"

\* The strengthening of MutualExclusion: the key still names the timely worker
\* that is inside, with more lifetime left than its body can take.
HeldInv == \A w \in Timely : place[w] = "held" => key = w /\ busy[w] < ttl

\* Types are kept, and the key exists exactly as long as its lifetime runs.
THEOREM LockTypeCorrect == LockSpec => []LockTypeOK
<1> USE LockAssumption
<1>1. LockInit => LockTypeOK
  BY DEF LockInit, LockTypeOK
<1>2. LockTypeOK /\ [LockNext]_lockVars => LockTypeOK'
  <2> SUFFICES ASSUME LockTypeOK, [LockNext]_lockVars PROVE LockTypeOK'
    OBVIOUS
  <2> USE DEF LockTypeOK, Leave, Strand
  <2>1. ASSUME NEW w \in Workers, Enter(w) PROVE LockTypeOK'
    BY <2>1 DEF Enter
  <2>2. ASSUME NEW w \in Workers, TryAcquire(w) PROVE LockTypeOK'
    BY <2>2 DEF TryAcquire
  <2>3. ASSUME NEW w \in Workers, GiveUp(w) PROVE LockTypeOK'
    BY <2>3 DEF GiveUp
  <2>4. ASSUME NEW w \in Workers, Release(w) PROVE LockTypeOK'
    BY <2>4 DEF Release
  <2>5. ASSUME NEW w \in Workers, ReleaseFails(w) PROVE LockTypeOK'
    BY <2>5 DEF ReleaseFails
  <2>6. ASSUME NEW w \in Workers, HolderDies(w) PROVE LockTypeOK'
    BY <2>6 DEF HolderDies
  <2>7. CASE TimePasses
    BY <2>7 DEF TimePasses
  <2>8. CASE UNCHANGED lockVars
    BY <2>8 DEF lockVars
  <2>9. QED
    BY <2>1, <2>2, <2>3, <2>4, <2>5, <2>6, <2>7, <2>8 DEF LockNext, Poll
<1>3. QED
  BY <1>1, <1>2, PTL DEF LockSpec

\* The key invariant holds in every reachable state.
LEMMA KeyInvariant == LockSpec => []KeyInv
<1> USE LockAssumption DEF KeyInv
<1>1. LockInit => KeyInv
  BY DEF LockInit
<1>2. LockTypeOK /\ KeyInv /\ [LockNext]_lockVars => KeyInv'
  BY DEF LockTypeOK, LockNext, Poll, lockVars, Enter, TryAcquire, GiveUp, Release, ReleaseFails,
         HolderDies, TimePasses, Leave, Strand
<1>3. QED
  BY <1>1, <1>2, LockTypeCorrect, PTL DEF LockSpec

\* A worker's key is only ever removed by that worker or by its expiry, also
\* when calls outlive the lock: the compare-and-delete of the release script.
THEOREM ReleaseIsSafe == LockSpec => OnlyOwnerDeletes
<1> DEFINE Safe == \A w \in Workers :
                     key = w /\ key' # w => place'[w] = "idle" \/ ttl = 1
<1>1. LockTypeOK /\ KeyInv /\ [LockNext]_lockVars => Safe \/ UNCHANGED lockVars
  BY LockAssumption DEF LockTypeOK, KeyInv, LockNext, Poll, Enter, TryAcquire, GiveUp, Release,
     ReleaseFails, HolderDies, TimePasses, Leave, Strand
<1>2. QED
  BY <1>1, LockTypeCorrect, KeyInvariant, PTL DEF LockSpec, OnlyOwnerDeletes

\* Mutual exclusion of the timely workers, whatever the others do: a late holder's
\* release cannot remove the key of the worker that took over.
THEOREM Exclusion == LockSpec => []MutualExclusion
<1> USE LockAssumption DEF HeldInv, Timely
<1>1. LockInit => HeldInv
  BY DEF LockInit
<1>2. LockTypeOK /\ HeldInv /\ [LockNext]_lockVars => HeldInv'
  <2> SUFFICES ASSUME LockTypeOK, HeldInv, [LockNext]_lockVars PROVE HeldInv'
    OBVIOUS
  <2> USE DEF LockTypeOK, Leave, Strand
  <2>1. ASSUME NEW w \in Workers, Enter(w) PROVE HeldInv'
    BY <2>1 DEF Enter
  <2>2. ASSUME NEW w \in Workers, TryAcquire(w) PROVE HeldInv'
    BY <2>2 DEF TryAcquire
  <2>3. ASSUME NEW w \in Workers, GiveUp(w) PROVE HeldInv'
    BY <2>3 DEF GiveUp
  <2>4. ASSUME NEW w \in Workers, Release(w) PROVE HeldInv'
    BY <2>4 DEF Release
  <2>5. ASSUME NEW w \in Workers, ReleaseFails(w) PROVE HeldInv'
    BY <2>5 DEF ReleaseFails
  <2>6. ASSUME NEW w \in Workers, HolderDies(w) PROVE HeldInv'
    BY <2>6 DEF HolderDies
  <2>7. CASE TimePasses
    BY <2>7 DEF TimePasses
  <2>8. CASE UNCHANGED lockVars
    BY <2>8 DEF lockVars
  <2>9. QED
    BY <2>1, <2>2, <2>3, <2>4, <2>5, <2>6, <2>7, <2>8 DEF LockNext, Poll
<1>3. LockTypeOK /\ HeldInv => MutualExclusion
  BY DEF MutualExclusion
<1>4. QED
  BY <1>1, <1>2, <1>3, LockTypeCorrect, PTL DEF LockSpec
=============================================================================
