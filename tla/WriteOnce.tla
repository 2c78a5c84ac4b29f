----------------------------- MODULE WriteOnce -----------------------------
(***************************************************************************)
(* What the idempotency ledger promises of an external write, without its  *)
(* rows and statements: a logical write is claimed by one caller at a      *)
(* time, only the claimant can make the effect happen, a finished write is *)
(* never claimed again, and a write whose claimant vanished stays claimed  *)
(* by nobody - it is not tried again, because nobody knows if it happened. *)
(***************************************************************************)
EXTENDS Naturals

CONSTANTS Callers, Keys

VARIABLES
  phase,     \* [Keys -> {"open", "claimed", "done"}]
  owners,    \* [Keys -> the callers that may act on the write]
  effects    \* [Keys -> how often the effect happened]

vars == <<phase, owners, effects>>

Init ==
  /\ phase = [k \in Keys |-> "open"]
  /\ owners = [k \in Keys |-> {}]
  /\ effects = [k \in Keys |-> 0]

Claim(c, k) ==
  /\ phase[k] = "open" /\ owners[k] = {}
  /\ phase' = [phase EXCEPT ![k] = "claimed"]
  /\ owners' = [owners EXCEPT ![k] = {c}]
  /\ UNCHANGED effects

\* The claimant makes the effect happen.
Happen(c, k) ==
  /\ owners[k] = {c}
  /\ effects' = [effects EXCEPT ![k] = @ + 1]
  /\ UNCHANGED <<phase, owners>>

\* The claimant finishes the write, or gives it back to be tried again.
Settle(c, k, outcome) ==
  /\ owners[k] = {c} /\ phase[k] = "claimed"
  /\ phase' = [phase EXCEPT ![k] = outcome]
  /\ owners' = [owners EXCEPT ![k] = {}]
  /\ UNCHANGED effects

\* The claimant vanishes; its last request (n = 1) may still take effect.
Abandon(c, k, n) ==
  /\ owners[k] = {c}
  /\ owners' = [owners EXCEPT ![k] = {}]
  /\ effects' = [effects EXCEPT ![k] = @ + n]
  /\ UNCHANGED phase

Next ==
  \E c \in Callers, k \in Keys :
    \/ Claim(c, k)
    \/ Happen(c, k)
    \/ \E outcome \in {"done", "open"} : Settle(c, k, outcome)
    \/ \E n \in {0, 1} : Abandon(c, k, n)

Spec == Init /\ [][Next]_vars
=============================================================================
