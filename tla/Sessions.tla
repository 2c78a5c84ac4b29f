----------------------------- MODULE Sessions -----------------------------
(***************************************************************************)
(* The MCP sessions of one server in one process: UserMCPSessionPool caches *)
(* a client per user, turns reuse it and close what they touched when they  *)
(* end, a locally managed server process is counted by the sessions made    *)
(* on it, a circuit breaker watches the calls, and the server can be        *)
(* removed and discovered meanwhile.                                       *)
(*                                                                         *)
(* The pool's lock is held while a session is made or closed and never      *)
(* during a call, so a session can be closed under a call: by the end of    *)
(* another turn, the idle reaper (120 s), a refreshed bearer, a discovery   *)
(* or a removal.  An error on the way is handled; a cancellation escapes    *)
(* `except Exception` and leaves a creation or a close half done.          *)
(***************************************************************************)
EXTENDS Naturals, FiniteSets

CONSTANTS
  Turns,       \* concurrent agent turns
  Users,       \* users of the workspace
  UserOf,      \* [Turns -> Users]
  AnyMember,   \* the user _resolve_workspace_user finds
  MaxRetries,  \* max_retries of call_tool
  Threshold,   \* failure_threshold of the circuit breaker
  MaxFaults    \* bound: errors of a healthy session, failed connects, process
               \* deaths and cancelled calls, closes and turns

ASSUME SessionsAssumption ==
  /\ UserOf \in [Turns -> Users] /\ AnyMember \in Users
  /\ MaxRetries \in Nat \ {0} /\ Threshold \in Nat \ {0} /\ MaxFaults \in Nat

VARIABLES
  cached,  \* users with an entry in _sessions
  open,    \* [Users -> clients that are open]
  abandoned, \* history: [Users -> open clients that no entry has any more]
  proc,    \* the managed process: "none", "up" or "dead" and not yet noticed
  refs,    \* its refcount
  cur,     \* users whose entry was made on the process that _running names
  leaked,  \* references to it whose session was never made, or was popped
           \* by a cancelled close
  stale,   \* history: references to it that sessions of earlier ones gave back
  unready, \* history: the wait for it to get ready was cancelled
  lock,    \* TRUE while a creation holds the pool's lock
  config,  \* TRUE when the server is registered
  doomed,  \* users whose sessions a removal still has to close
  known,   \* a discovery pass has succeeded in this process
  cb,      \* the circuit breaker
  pc,      \* [Turns -> where the turn is]
  job,     \* [Turns -> "call" or "discover"]
  key,     \* [Turns -> the user whose session is asked for]
  handle,  \* [Turns -> "none", or the session in use: "open" or "gone"]
  tries,   \* [Turns -> attempts of the call so far]
  scope,   \* [Turns -> keys of the TurnScope]
  faults

process == <<proc, refs, cur, leaked, stale, unready>>
clients == <<cached, open, abandoned>>
pool == <<clients, process, lock>>
server == <<config, doomed, known>>
turn == <<pc, job, key, handle, tries, scope>>
vars == <<pool, server, cb, turn, faults>>

TypeOK ==
  /\ cached \subseteq Users /\ open \in [Users -> Nat]
  /\ abandoned \in [Users -> Nat]
  /\ proc \in {"none", "up", "dead"} /\ refs \in Nat /\ cur \subseteq cached
  /\ unready \in BOOLEAN /\ (refs = 0 <=> proc = "none" \/ unready)
  /\ leaked \in 0 .. MaxFaults /\ stale \in Nat /\ lock \in BOOLEAN
  /\ config \in BOOLEAN /\ doomed \subseteq Users /\ known \in BOOLEAN
  /\ cb \in [state : {"closed", "open", "half_open"}, fails : 0 .. Threshold]
  /\ pc \in [Turns -> {"ready", "cycle", "lock", "connect", "use",
                       "rebuild", "refresh"}]
  /\ job \in [Turns -> {"call", "discover"}] /\ key \in [Turns -> Users]
  /\ handle \in [Turns -> {"none", "open", "gone"}] /\ tries \in [Turns -> 0 .. MaxRetries - 1]
  /\ scope \in [Turns -> SUBSET Users]
  /\ faults \in 0 .. MaxFaults

Init ==
  /\ cached = {} /\ open = [u \in Users |-> 0]
  /\ abandoned = [u \in Users |-> 0]
  /\ proc = "none" /\ refs = 0 /\ cur = {} /\ leaked = 0 /\ stale = 0
  /\ unready = FALSE
  /\ lock = FALSE
  /\ config = TRUE /\ doomed = {} /\ known = FALSE
  /\ cb = [state |-> "closed", fails |-> 0]
  /\ pc = [t \in Turns |-> "ready"] /\ job = [t \in Turns |-> "call"]
  /\ key = UserOf /\ handle = [t \in Turns |-> "none"]
  /\ tries = [t \in Turns |-> 0] /\ scope = [t \in Turns |-> {}]
  /\ faults = 0

Goto(t, place) == pc' = [pc EXCEPT ![t] = place]
Fault == faults < MaxFaults /\ faults' = faults + 1

---------------------------------------------------------------------------
(* MCPCircuitBreaker.                                                       *)

RecordSuccess == cb' = [state |-> "closed", fails |-> 0]

RecordFailure ==
  LET n == IF cb.fails < Threshold THEN cb.fails + 1 ELSE cb.fails
  IN cb' = [state |-> IF cb.state = "half_open" \/ n >= Threshold
                      THEN "open" ELSE cb.state,
            fails |-> n]

\* is_available lets the call through; an open circuit does so half-open, once
\* its cooldown is over, and otherwise answers at once.
Available ==
  cb' = IF cb.state = "open" THEN [cb EXCEPT !.state = "half_open"] ELSE cb

---------------------------------------------------------------------------
(* LocalMCPProcessManager.                                                  *)

\* _stop: _running forgets the process.
Stop ==
  /\ proc' = "none" /\ refs' = 0 /\ cur' = {} /\ leaked' = 0 /\ stale' = 0
  /\ unready' = FALSE

\* The references of the sessions S, with some left: a session of an earlier
\* process takes one that is not its own.  Those of L are never given back.
Return(S, L) ==
  /\ refs' = refs - Cardinality(S) /\ cur' = cur \ (S \cup L)
  /\ stale' = stale + Cardinality(S \ cur)
  /\ leaked' = leaked + Cardinality(L \cap cur)
  /\ UNCHANGED <<proc, unready>>

\* Faulty: the process is stopped when one reference is left.
ReleaseEarly(S, L) ==
  IF S # {} /\ refs <= Cardinality(S) + 1 THEN Stop ELSE Return(S, L)

\* Faulty: only the sessions of a process that runs give a reference back.
ReleaseRunning(S, L) ==
  IF proc = "dead"
  THEN cur' = cur \ (S \cup L) /\ UNCHANGED <<proc, refs, leaked, stale, unready>>
  ELSE IF S # {} /\ refs <= Cardinality(S) THEN Stop ELSE Return(S, L)

\* release, once for every session of S: the last reference stops the process.
Release(S, L) ==
  IF S # {} /\ refs <= Cardinality(S) THEN Stop ELSE Return(S, L)

\* ensure_running: a dead process is replaced and its count starts again; one
\* that was never waited for to the end is taken as it is.
EnsureRunning ==
  /\ IF proc = "up"
     THEN refs' = refs + 1 /\ UNCHANGED <<proc, cur, leaked, stale>>
     ELSE proc' = "up" /\ refs' = 1 /\ cur' = {} /\ leaked' = 0 /\ stale' = 0
  /\ unready' = FALSE

ProcessDies ==
  /\ proc = "up" /\ Fault
  /\ proc' = "dead"
  /\ UNCHANGED <<clients, refs, cur, leaked, stale, unready, lock, server, cb, turn>>

---------------------------------------------------------------------------
(* Closing: refresh_session, close_keys, cleanup_idle, removal.             *)

\* Faulty: the pool forgets the sessions without closing their clients.
CloseForgets(K) ==
  /\ ~lock
  /\ cached' = cached \ K
  /\ Release(K \cap cached, {})
  /\ UNCHANGED <<open, abandoned, lock>>

\* Under the lock, the entries of S are popped, closed and released.  L is
\* popped too, and then cut: no reference is given back, and the clients of A
\* stay open.
Shut(S, L, A) ==
  /\ ~lock /\ UNCHANGED lock
  /\ cached' = cached \ (S \cup L)
  /\ open' = [u \in Users |-> IF u \in (S \cup L) \ A THEN open[u] - 1 ELSE open[u]]
  /\ abandoned' = [u \in Users |-> IF u \in A THEN abandoned[u] + 1 ELSE abandoned[u]]
  /\ Release(S, L)

\* What _sessions.pop finds for the keys.
Close(K) == Shut(K \cap cached, {}, {})

\* A close is cancelled once P is popped: in the __aexit__ of the last client,
\* which may have closed by then, or while _stop waits for the process to end.
Cut(P) ==
  \/ Close(P) /\ proc # "none" /\ proc' = "none"
  \/ \E u \in P : \E A \in SUBSET {u} : Shut(P \ {u}, {u}, A)

\* The calls that go on with a session of the keys find it gone.
Severed(K) ==
  [t \in Turns |-> IF handle[t] = "open" /\ key[t] \in K \cap cached
                   THEN "gone" ELSE handle[t]]

\* Faulty: the reaper asks the configuration for the key.
CleanupIdleByConfig(u) ==
  /\ u \in cached /\ config
  /\ Close({u}) /\ handle' = Severed({u})
  /\ UNCHANGED <<server, cb, pc, job, key, tries, scope, faults>>

\* The session's last use is mcp_session_idle_ttl_s ago; a call on it may
\* still be waiting.
CleanupIdle(u) ==
  /\ u \in cached
  /\ Close({u}) /\ handle' = Severed({u})
  /\ UNCHANGED <<server, cb, pc, job, key, tries, scope, faults>>

\* The health tick runs out of its time.
ReaperCut(u) ==
  /\ u \in cached /\ Fault
  /\ Cut({u}) /\ handle' = Severed({u})
  /\ UNCHANGED <<server, cb, pc, job, key, tries, scope>>

\* remove_server lists the keys, closes them one by one and then unregisters
\* the server; a session made in between is not on the list.
RemoveServer ==
  /\ config /\ doomed = {}
  /\ doomed' = cached
  /\ config' = (doomed' # {})
  /\ UNCHANGED <<pool, known, cb, turn, faults>>

RemoveNext(u) ==
  /\ u \in doomed
  /\ Close({u}) /\ handle' = Severed({u})
  /\ doomed' = doomed \ {u}
  /\ config' = (doomed' # {})
  /\ UNCHANGED <<known, cb, pc, job, key, tries, scope, faults>>

\* The request is cancelled, waiting for the lock or in a close: the list is
\* dropped and the configuration stays, until a reload and the next removal.
RemoveCut(u) ==
  /\ u \in doomed /\ Fault
  /\ \/ UNCHANGED <<pool, handle>>
     \/ u \in cached /\ Cut({u}) /\ handle' = Severed({u})
  /\ doomed' = {}
  /\ UNCHANGED <<config, known, cb, pc, job, key, tries, scope>>

\* reload_server after the installation was activated again.
AddServer ==
  /\ ~config /\ config' = TRUE
  /\ UNCHANGED <<pool, doomed, known, cb, turn, faults>>

---------------------------------------------------------------------------
(* A turn.                                                                  *)

\* get_or_create_session looks at the cached session's bearer before it takes
\* the lock: the token may have been refreshed elsewhere, or the platform JWT
\* be near its end.
Begin(t, what, u) ==
  /\ pc[t] = "ready" /\ config
  /\ job' = [job EXCEPT ![t] = what] /\ key' = [key EXCEPT ![t] = u]
  /\ \/ Goto(t, "lock")
     \/ u \in cached /\ Goto(t, "cycle")
  /\ UNCHANGED <<pool, server, handle, tries, scope, faults>>

BeginCall(t) == Available /\ Begin(t, "call", UserOf[t])

\* discover_and_persist, for a server not discovered yet in this process and
\* as some member of the workspace.
BeginDiscovery(t) == ~known /\ Begin(t, "discover", AnyMember) /\ UNCHANGED cb

\* Where a call, a rebuild or a discovery goes when it has no session.
NoSession(t) ==
  Goto(t, CASE job[t] = "discover" -> "refresh"
            [] tries[t] > 0 -> "use"
            [] OTHER -> "ready")

\* What the call remembered is gone.
Returned(t, sessions) ==
  /\ handle' = [sessions EXCEPT ![t] = "none"] /\ tries' = [tries EXCEPT ![t] = 0]
  /\ job' = [job EXCEPT ![t] = "call"] /\ key' = [key EXCEPT ![t] = UserOf[t]]

\* A cancelled call ends; a cancelled discovery refreshes its session first.
Aborted(t, sessions) ==
  IF job[t] = "discover" /\ pc[t] # "refresh"
  THEN Goto(t, "refresh") /\ handle' = sessions /\ UNCHANGED <<job, key, tries>>
  ELSE Goto(t, "ready") /\ Returned(t, sessions)

\* A creation has raised, or was cancelled.
NotCreated(t) ==
  \/ NoSession(t) /\ UNCHANGED <<job, key, handle, tries>>
  \/ Aborted(t, handle)

\* get_or_create_session under the lock.
Reuse(t) ==
  /\ pc[t] = "lock" /\ ~lock /\ key[t] \in cached
  /\ handle' = [handle EXCEPT ![t] = "open"]
  /\ scope' = [scope EXCEPT ![t] = @ \cup {key[t]}]
  /\ Goto(t, "use")
  /\ UNCHANGED <<pool, server, cb, job, key, tries, faults>>

\* No configuration, no credential, or the process cannot be spawned: then
\* _running keeps what it had.
Refused(t) ==
  /\ pc[t] = "lock" /\ ~lock /\ key[t] \notin cached
  /\ \/ ~config /\ UNCHANGED faults
     \/ config /\ Fault
  /\ NoSession(t)
  /\ UNCHANGED <<pool, server, cb, job, key, handle, tries, scope>>

\* The new process exits or is not ready in time.
SpawnFails(t) ==
  /\ pc[t] = "lock" /\ ~lock /\ key[t] \notin cached /\ config /\ proc # "up"
  /\ Fault
  /\ Stop
  /\ NotCreated(t)
  /\ UNCHANGED <<clients, lock, server, cb, scope>>

\* The wait for the new process is cancelled: _running keeps it, with no
\* reference.
SpawnCut(t) ==
  /\ pc[t] = "lock" /\ ~lock /\ key[t] \notin cached /\ config /\ proc # "up"
  /\ Fault
  /\ proc' = "up" /\ refs' = 0 /\ cur' = {} /\ leaked' = 0 /\ stale' = 0
  /\ unready' = TRUE
  /\ Aborted(t, handle)
  /\ UNCHANGED <<clients, lock, server, cb, scope>>

StartCreate(t) ==
  /\ pc[t] = "lock" /\ ~lock /\ key[t] \notin cached /\ config
  /\ EnsureRunning
  /\ lock' = TRUE
  /\ Goto(t, "connect")
  /\ UNCHANGED <<clients, server, cb, job, key, handle, tries, scope, faults>>

Connect(t) ==
  /\ pc[t] = "connect" /\ proc = "up"
  /\ cached' = cached \cup {key[t]} /\ cur' = cur \cup {key[t]}
  /\ open' = [open EXCEPT ![key[t]] = @ + 1]
  /\ handle' = [handle EXCEPT ![t] = "open"]
  /\ scope' = [scope EXCEPT ![t] = @ \cup {key[t]}]
  /\ lock' = FALSE
  /\ Goto(t, "use")
  /\ UNCHANGED <<abandoned, proc, refs, leaked, stale, unready, server, cb, job, key,
                 tries, faults>>

\* The connect, list_tools or the registration of the tools raises or is
\* cancelled: nobody closes the client, if it was entered, and nobody gives the
\* reference to the process back.
ConnectFails(t) ==
  /\ pc[t] = "connect"
  /\ IF proc = "up" THEN Fault ELSE UNCHANGED faults
  /\ \E entered \in 0 .. 1 :
       /\ open' = [open EXCEPT ![key[t]] = @ + entered]
       /\ abandoned' = [abandoned EXCEPT ![key[t]] = @ + entered]
  /\ leaked' = leaked + 1
  /\ lock' = FALSE
  /\ NotCreated(t)
  /\ UNCHANGED <<cached, proc, refs, cur, stale, unready, server, cb, scope>>

\* The client is open, and so is the process behind it.
Healthy(t) == handle[t] = "open" /\ key[t] \in cur /\ proc = "up"

Answer(t) ==
  /\ pc[t] = "use" /\ job[t] = "call" /\ Healthy(t)
  /\ RecordSuccess
  /\ Returned(t, handle) /\ Goto(t, "ready")
  /\ UNCHANGED <<pool, server, scope, faults>>

\* An error of a session that is gone costs nothing; a healthy one can fail too.
Err(t) ==
  /\ pc[t] = "use" /\ job[t] = "call"
  /\ IF Healthy(t) THEN Fault ELSE UNCHANGED faults

\* Faulty: the attempts are not counted.
RetryUncounted(t) ==
  /\ Err(t)
  /\ \E place \in {"use", "rebuild"} : Goto(t, place)
  /\ UNCHANGED <<pool, server, cb, job, key, handle, tries, scope>>

\* A transient error with attempts left: a lost session is rebuilt first.
Retry(t) ==
  /\ Err(t) /\ tries[t] < MaxRetries - 1
  /\ tries' = [tries EXCEPT ![t] = @ + 1]
  /\ \E place \in {"use", "rebuild"} : Goto(t, place)
  /\ UNCHANGED <<pool, server, cb, job, key, handle, scope>>

\* The last attempt or a permanent error: refresh, unless the caller is to blame.
GiveUp(t) ==
  /\ Err(t)
  /\ RecordFailure
  /\ \/ Goto(t, "refresh") /\ UNCHANGED <<job, key, handle, tries>>
     \/ Goto(t, "ready") /\ Returned(t, handle)
  /\ UNCHANGED <<pool, server, scope>>

DiscoveryDone(t) ==
  /\ pc[t] = "use" /\ job[t] = "discover"
  /\ known' = TRUE
  /\ Goto(t, "refresh")
  /\ UNCHANGED <<pool, config, doomed, cb, job, key, handle, tries, scope, faults>>

\* refresh_session: for a changed bearer, for a lost session, and at the end
\* of a failed call or a discovery.
RefreshSession(t) ==
  /\ Close({key[t]})
  /\ LET left == Severed({key[t]})
     IN \/ /\ pc[t] \in {"cycle", "rebuild"} /\ Goto(t, "lock")
           /\ handle' = left /\ UNCHANGED <<job, key, tries>>
        \/ pc[t] = "refresh" /\ Goto(t, "ready") /\ Returned(t, left)
  /\ UNCHANGED <<server, cb, scope, faults>>

RefreshCut(t) ==
  /\ pc[t] \in {"cycle", "rebuild", "refresh"} /\ key[t] \in cached /\ Fault
  /\ Cut({key[t]}) /\ Aborted(t, Severed({key[t]}))
  /\ UNCHANGED <<server, cb, scope>>

\* The call is cancelled while it waits; a creation or a close under way is
\* ConnectFails, SpawnCut or RefreshCut.
Cancel(t) ==
  /\ pc[t] \notin {"ready", "connect"} /\ Fault
  /\ Aborted(t, handle)
  /\ UNCHANGED <<pool, server, cb, scope>>

\* A turn is over, and the next one of its user starts with an empty scope.
\* turn_scope's exit: close_turn_sessions on every key the turn touched.
EndTurn(t) ==
  /\ pc[t] = "ready" /\ scope[t] # {}
  /\ Close(scope[t]) /\ handle' = Severed(scope[t])
  /\ scope' = [scope EXCEPT ![t] = {}]
  /\ UNCHANGED <<server, cb, pc, job, key, tries, faults>>

\* The exit is cancelled, waiting for the lock or in a close: the sessions
\* that are left wait for the reaper.
EndTurnCut(t) ==
  /\ pc[t] = "ready" /\ scope[t] # {} /\ Fault
  /\ \/ UNCHANGED <<pool, handle>>
     \/ \E P \in SUBSET (scope[t] \cap cached) : Cut(P) /\ handle' = Severed(P)
  /\ scope' = [scope EXCEPT ![t] = {}]
  /\ UNCHANGED <<server, cb, pc, job, key, tries>>

\* The steps that wait for the lock, and the others.
Locked(t) == Reuse(t) \/ Refused(t) \/ StartCreate(t) \/ RefreshSession(t)
Unlocked(t) ==
  \/ Connect(t) \/ ConnectFails(t)
  \/ Answer(t) \/ Retry(t) \/ GiveUp(t) \/ DiscoveryDone(t)

Cancelled(t) == Cancel(t) \/ SpawnCut(t) \/ RefreshCut(t) \/ EndTurnCut(t)

Next ==
  \/ ProcessDies \/ RemoveServer \/ AddServer
  \/ \E u \in Users : CleanupIdle(u) \/ ReaperCut(u) \/ RemoveNext(u) \/ RemoveCut(u)
  \/ \E t \in Turns :
       \/ BeginCall(t) \/ BeginDiscovery(t)
       \/ Locked(t) \/ SpawnFails(t) \/ Unlocked(t) \/ Cancelled(t) \/ EndTurn(t)

Spec == Init /\ [][Next]_vars

\* A turn's call goes on; the pool's lock is first come, first served; the
\* reaper runs on every health tick and a revoked server's sessions are idle.
FairSpec ==
  /\ Spec
  /\ \A t \in Turns : SF_vars(Locked(t)) /\ WF_vars(Unlocked(t))
  /\ \A u \in Users : WF_vars(~config /\ CleanupIdle(u))

---------------------------------------------------------------------------
\* Every open client is the cached one of its user, so that every path that
\* closes sessions can find it, or one that a failed creation had entered or a
\* cancelled close had popped: reuse, refreshes, the reaper, removals and
\* ending turns never leave another behind or make two.  (The state is well
\* typed: a process has references exactly while there is one, unless the wait
\* for it was cancelled.)
NoOrphanSession ==
  TypeOK /\ \A u \in Users :
    open[u] = (IF u \in cached THEN 1 ELSE 0) + abandoned[u]

\* The managed process is kept only by a session made on it, by a creation
\* under way, by a reference that a failed creation or a cancelled close
\* leaked, or because the wait for it was cancelled and nobody has used it
\* since; sessions that are closed to the end give all their references back.
ProcessNotForgotten ==
  proc # "none" => lock \/ leaked > 0 \/ cur # {} \/ unready

\* The process is stopped under no session that runs on it, however turns,
\* discoveries and refreshes overlap, unless a session of an earlier process,
\* which had died, gave back a reference to it or is about to.
StoppedWhenUnused ==
  [][proc = "up" /\ proc' = "none"
       => cur \cap cached' = {} \/ cached # cur \/ stale > 0]_vars

\* A call or a discovery returns, whatever closes its session and whoever
\* waits for the lock.
EveryCallReturns ==
  \A t \in Turns : pc[t] # "ready" ~> pc[t] = "ready"

\* The sessions of a removed server close, also the one that was being made
\* while the removal went through its list.
RevokedSessionsClose == ~config ~> config \/ cached = {}
===========================================================================
