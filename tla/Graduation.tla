----------------------------- MODULE Graduation -----------------------------
(* The rules of services/risk_assessor.py and services/trust_engine.py: how *)
(* a capability's counters of approved and rejected writes give its trust   *)
(* level, and what the gate decides for a level, the user's ceiling and a   *)
(* risk.  A row stands for a TrustState: modified_count and the time of the *)
(* last decision are left out, nothing reads them.                          *)
EXTENDS Integers

TRUST_LEVELS == <<"first_use", "learning", "trusted", "autonomous">>
Levels == {TRUST_LEVELS[i] : i \in 1 .. 4}

RiskLevels == {"none", "low", "medium", "high"}

Row == [a : Nat, r : Nat, level : Levels]
FirstUse == [a |-> 0, r |-> 0, level |-> "first_use"]

\* "blocked", which the ceilings add, is unknown to _trust_level_index.
Ceilings == Levels \cup {"blocked"}

TrustLevelIndex(l) == IF l \in Levels
                         THEN CHOOSE i \in 1 .. 4 : TRUST_LEVELS[i] = l
                         ELSE 1

MinTrustLevel(l, m) ==
  IF TrustLevelIndex(l) <= TrustLevelIndex(m)
    THEN TRUST_LEVELS[TrustLevelIndex(l)] ELSE TRUST_LEVELS[TrustLevelIndex(m)]

\* GRADUATION_THRESHOLDS and LEARNING_MIN_APPROVED; the rejection rate
\* r / (a + r) is below 10 % or 5 %.
EarnsAutonomous(a, r) == a >= 25 /\ 20 * r < a + r
EarnsTrusted(a, r)    == a >= 10 /\ 10 * r < a + r
EarnsLearning(a, r)   == a >= 10 \/ (a >= 3 /\ r = 0)

\* Faulty: the rejection rate is not looked at.
GraduateByVolume(row, cooling) ==
  IF cooling THEN row.level
  ELSE IF row.a >= 25 THEN "autonomous"
  ELSE IF row.a >= 10 THEN "trusted"
  ELSE IF EarnsLearning(row.a, row.r) THEN "learning"
  ELSE "first_use"

\* graduate_trust: a running cooldown keeps the level as it is.
GraduateTrust(row, cooling) ==
  IF cooling THEN row.level
  ELSE IF EarnsAutonomous(row.a, row.r) THEN "autonomous"
  ELSE IF EarnsTrusted(row.a, row.r) THEN "trusted"
  ELSE IF EarnsLearning(row.a, row.r) THEN "learning"
  ELSE "first_use"

\* The demotion ladder of apply_rejection.
Demoted(level) == CASE level = "autonomous" -> "trusted"
                    [] level = "trusted"    -> "learning"
                    [] OTHER                -> "first_use"

\* record_approval_decision for "approved" and "modified".
Approve(row, cooling) ==
  LET counted == [row EXCEPT !.a = @ + 1]
  IN  [counted EXCEPT !.level = GraduateTrust(counted, cooling)]

\* record_approval_decision for "rejected".  Every level but the lowest gets
\* a cooldown; one that already runs goes on.
RejectionCools(row, cooling) == cooling \/ row.level # "first_use"
Reject(row, cooling) ==
  LET demoted == [a |-> row.a, r |-> row.r + 1, level |-> Demoted(row.level)]
  IN  [demoted EXCEPT !.level = GraduateTrust(demoted, RejectionCools(row, cooling))]

\* _matrix_lookup: does the matrix let a write run without a human?
MatrixAllows(level, risk) ==
  \/ level = "trusted" /\ risk \in {"none", "low"}
  \/ level = "autonomous" /\ risk # "high"

\* evaluate: the level, capped by the user's ceiling, against the risk.
Evaluate(row, ceiling, risk) == MatrixAllows(MinTrustLevel(row.level, ceiling), risk)

\* What a level says about the record it rests on.
Earned(row) ==
  CASE row.level = "autonomous" -> EarnsAutonomous(row.a, row.r)
    [] row.level = "trusted"    -> EarnsTrusted(row.a, row.r)
    [] row.level = "learning"   -> EarnsLearning(row.a, row.r)
    [] OTHER                    -> TRUE
=============================================================================
