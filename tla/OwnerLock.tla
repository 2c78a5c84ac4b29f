------------------------------ MODULE OwnerLock ------------------------------
(***************************************************************************)
(* The two Redis locks of the execution path, which are one algorithm with *)
(* different constants:                                                    *)
(*   acquire_write_lock  SET NX EX 120, polls until its 5 s deadline, then *)
(*                       WriteLockContended (services/write_lock.py);      *)
(*   acquire_run_lease   SET NX PX 660 s, one attempt, then yields False   *)
(*                       (services/autonomous_lease.py): WaitTimeout = 0.  *)
(* Both release with an owner-token compare-and-delete, best effort.       *)
(*                                                                         *)
(* Time is kept as countdowns in an abstract unit.  A token is a fresh     *)
(* uuid, so the token of an execution that is over equals no later one:    *)
(* while w is inside, its token is written w; a key left behind by an      *)
(* execution that is over is "stale".                                      *)
(***************************************************************************)
EXTENDS Naturals

CONSTANTS
  Workers,      \* executions that use one lock key
  TTL,          \* lifetime of the key (EX / PX)
  WaitTimeout,  \* how long an attempt polls
  MaxCall       \* [Workers -> the longest time its guarded body takes]

ASSUME LockAssumption ==
  /\ TTL \in Nat \ {0}
  /\ WaitTimeout \in Nat
  /\ MaxCall \in [Workers -> Nat]
  /\ {"none", "stale"} \cap Workers = {}

\* The workers whose guarded body is over before a key they set can expire.
Timely == {w \in Workers : MaxCall[w] < TTL}

VARIABLES
  key,    \* who the Redis key names: a worker's token, "stale", or "none"
  ttl,    \* time to the key's expiry, 0 when there is no key
  place,  \* [Workers -> {"idle", "trying", "held"}]
  wait,   \* [Workers -> time to the attempt's deadline]
  busy    \* [Workers -> time its guarded body may still take]

lockVars == <<key, ttl, place, wait, busy>>

LockTypeOK ==
  /\ key \in Workers \cup {"none", "stale"}
  /\ ttl \in 0 .. TTL
  /\ place \in [Workers -> {"idle", "trying", "held"}]
  /\ wait \in [Workers -> 0 .. WaitTimeout]
  /\ busy \in [Workers -> Nat]
  /\ \A w \in Workers : busy[w] <= MaxCall[w]
  /\ (key = "none") <=> (ttl = 0)

LockInit ==
  /\ key = "none" /\ ttl = 0
  /\ place = [w \in Workers |-> "idle"]
  /\ wait = [w \in Workers |-> 0]
  /\ busy = [w \in Workers |-> 0]

----------------------------------------------------------------------------
\* A new execution: fresh token, deadline = now + wait_timeout.
Enter(w) ==
  /\ place[w] = "idle"
  /\ place' = [place EXCEPT ![w] = "trying"]
  /\ wait' = [wait EXCEPT ![w] = WaitTimeout]
  /\ UNCHANGED <<key, ttl, busy>>

\* SET key token NX EX ttl succeeds.
TryAcquire(w) ==
  /\ place[w] = "trying"
  /\ key = "none"
  /\ key' = w /\ ttl' = TTL
  /\ place' = [place EXCEPT ![w] = "held"]
  /\ busy' = [busy EXCEPT ![w] = MaxCall[w]]
  /\ UNCHANGED wait

\* Faulty: the loop has no deadline.
GiveUpNever(w) == FALSE

\* SET NX fails at or after the deadline: WriteLockContended, or the lease
\* yields False and the caller backs off.
GiveUp(w) ==
  /\ place[w] = "trying"
  /\ key # "none"
  /\ wait[w] = 0
  /\ place' = [place EXCEPT ![w] = "idle"]
  /\ UNCHANGED <<key, ttl, wait, busy>>

Leave(w) ==
  /\ place' = [place EXCEPT ![w] = "idle"]
  /\ busy' = [busy EXCEPT ![w] = 0]
  /\ UNCHANGED wait

\* Faulty: an unconditional DEL.
ReleaseAnything(w) ==
  /\ place[w] = "held"
  /\ key' = "none" /\ ttl' = 0
  /\ Leave(w)

\* The guarded body is over, normally or by an exception: the Lua script
\* deletes the key if it still holds this token.
Release(w) ==
  /\ place[w] = "held"
  /\ IF key = w THEN key' = "none" /\ ttl' = 0 ELSE UNCHANGED <<key, ttl>>
  /\ Leave(w)

\* The key of an execution that is over without having deleted it.
Strand(w) ==
  /\ key' = IF key = w THEN "stale" ELSE key
  /\ UNCHANGED ttl

\* redis.eval raises and the error is swallowed.
ReleaseFails(w) ==
  /\ place[w] = "held"
  /\ Strand(w)
  /\ Leave(w)

\* The process dies inside the lock or while polling.
HolderDies(w) ==
  /\ place[w] # "idle"
  /\ Strand(w)
  /\ Leave(w)

\* Faulty: SET without EX.
TimePassesNoExpiry ==
  /\ \A w \in Workers : place[w] = "held" => busy[w] > 0
  /\ wait' = [w \in Workers |-> IF wait[w] > 0 THEN wait[w] - 1 ELSE 0]
  /\ busy' = [w \in Workers |-> IF busy[w] > 0 THEN busy[w] - 1 ELSE 0]
  /\ UNCHANGED <<key, ttl, place>>

\* One unit of time.  Redis drops the key when its lifetime is over, whoever
\* still works under it; a body never outlives MaxCall.
TimePasses ==
  /\ \A w \in Workers : place[w] = "held" => busy[w] > 0
  /\ ttl' = IF ttl > 0 THEN ttl - 1 ELSE 0
  /\ key' = IF ttl <= 1 THEN "none" ELSE key
  /\ wait' = [w \in Workers |-> IF wait[w] > 0 THEN wait[w] - 1 ELSE 0]
  /\ busy' = [w \in Workers |-> IF busy[w] > 0 THEN busy[w] - 1 ELSE 0]
  /\ UNCHANGED place

Poll(w) == TryAcquire(w) \/ GiveUp(w)

LockNext ==
  \/ \E w \in Workers :
       \/ Enter(w)
       \/ Poll(w)
       \/ Release(w)
       \/ ReleaseFails(w)
       \/ HolderDies(w)
  \/ TimePasses

LockSpec == LockInit /\ [][LockNext]_lockVars

(***************************************************************************)
(* Time passes, a polling coroutine is scheduled again after its sleep,    *)
(* and a body that may take no longer returns.                             *)
(***************************************************************************)
FairLockSpec ==
  /\ LockSpec
  /\ WF_lockVars(TimePasses)
  /\ \A w \in Workers : WF_lockVars(Poll(w)) /\ WF_lockVars(Release(w))

----------------------------------------------------------------------------
\* "a chat write and a scheduler write to the same capability in one workspace
\* mutually exclude" (write_lock.py), and one driver per run (the lease): two
\* workers whose bodies are shorter than the key's lifetime are never inside
\* together, also when workers that overstay come and go between them.
MutualExclusion ==
  \A w, v \in Timely : place[w] = "held" /\ place[v] = "held" => w = v

\* "a lock that expired and was re-acquired by another owner is never deleted
\* out from under them": a worker's key goes away when that worker leaves or
\* its lifetime ends, never by what another worker does.
OnlyOwnerDeletes ==
  [][\A w \in Workers : key = w /\ key' # w => place'[w] = "idle" \/ ttl = 1]_lockVars

\* "Contention is bounded-wait then fail-closed": nobody polls for ever.
BoundedWait == \A w \in Workers : place[w] = "trying" ~> place[w] # "trying"

\* "The TTL auto-expires so a crashed holder never deadlocks the run".
StrandedKeyExpires == key = "stale" ~> key # "stale"
=============================================================================
