---------------------------- MODULE TrustProofs ----------------------------
(***************************************************************************)
(* Proofs about Graduation and TrustRows, for any set of sessions, any     *)
(* risk levels and any records to begin with.                              *)
(***************************************************************************)
EXTENDS TrustRows, TLAPS

----------------------------------------------------------------------------
(* The rules of graduation.                                                *)

\* The ladder has four levels.
LEMMA LevelsAre ==
  Levels = {"first_use", "learning", "trusted", "autonomous"}
<1>1. 1 .. 4 = {1, 2, 3, 4}
  OBVIOUS
<1>2. QED
  BY <1>1 DEF Levels, TRUST_LEVELS

\* A new row is well formed, and its level needs no record.
LEMMA FirstUseIsRow == FirstUse \in Row /\ Earned(FirstUse)
BY LevelsAre DEF FirstUse, Row, Earned

\* graduate_trust gives a level, and unless a cooldown keeps the old one, a
\* level the counters earn.
LEMMA GraduateEarns ==
  ASSUME NEW row \in Row, NEW cooling \in BOOLEAN
  PROVE  LET new == [row EXCEPT !.level = GraduateTrust(row, cooling)]
         IN  /\ new \in Row /\ new.a = row.a /\ new.r = row.r
             /\ ~cooling => Earned(new)
             /\ cooling => new = row
<1> DEFINE new == [row EXCEPT !.level = GraduateTrust(row, cooling)]
<1>1. GraduateTrust(row, cooling) \in Levels
  BY LevelsAre DEF GraduateTrust, Row
<1>2. new \in Row /\ new.a = row.a /\ new.r = row.r /\ new.level = GraduateTrust(row, cooling)
  BY <1>1 DEF Row
<1>3. ~cooling => Earned(new)
  BY <1>2, LevelsAre DEF GraduateTrust, Earned
<1>4. cooling => new = row
  BY DEF GraduateTrust, Row
<1>5. QED
  BY <1>2, <1>3, <1>4

\* An approval counts one and never leaves a level the record does not earn,
\* during a cooldown as well: the rates only improve.
LEMMA ApproveEarns ==
  ASSUME NEW row \in Row, NEW cooling \in BOOLEAN
  PROVE  /\ Approve(row, cooling) \in Row
         /\ Approve(row, cooling).a = row.a + 1
         /\ Approve(row, cooling).r = row.r
         /\ Earned(row) => Earned(Approve(row, cooling))
<1> DEFINE counted == [row EXCEPT !.a = @ + 1]
<1>1. counted \in Row /\ counted.a = row.a + 1 /\ counted.r = row.r
      /\ counted.level = row.level
  BY DEF Row
<1>2. Earned(row) => Earned(counted)
  BY <1>1, LevelsAre DEF Earned, EarnsAutonomous, EarnsTrusted, EarnsLearning, Row
<1>3. Approve(row, cooling) = [counted EXCEPT !.level = GraduateTrust(counted, cooling)]
  BY DEF Approve
<1> HIDE DEF counted
<1>4. QED
  BY <1>1, <1>2, <1>3, GraduateEarns

\* A rejection counts one, and what the demotion ladder and the cooldown leave
\* is earned: from autonomous, for instance, 19 r < a and a >= 25 give the rate
\* of trusted with one rejection more.
LEMMA RejectEarns ==
  ASSUME NEW row \in Row, NEW cooling \in BOOLEAN
  PROVE  /\ Reject(row, cooling) \in Row
         /\ Reject(row, cooling).a = row.a
         /\ Reject(row, cooling).r = row.r + 1
         /\ Earned(row) => Earned(Reject(row, cooling))
<1> DEFINE demoted == [a |-> row.a, r |-> row.r + 1, level |-> Demoted(row.level)]
           cools == RejectionCools(row, cooling)
<1>0. row.level \in Levels
  BY DEF Row
<1>1. Demoted(row.level) \in Levels
  BY <1>0, LevelsAre DEF Demoted
<1>2. demoted \in Row /\ demoted.a = row.a /\ demoted.r = row.r + 1
      /\ demoted.level = Demoted(row.level)
  BY <1>1 DEF Row
<1>3. row.a \in Nat /\ row.r \in Nat /\ row.level \in Levels
  BY DEF Row
<1>4. Earned(row) => Earned(demoted)
  BY <1>2, <1>3, LevelsAre DEF Demoted, Earned, EarnsAutonomous, EarnsTrusted, EarnsLearning
<1>5. cools \in BOOLEAN
  BY DEF RejectionCools
<1>6. Reject(row, cooling) = [demoted EXCEPT !.level = GraduateTrust(demoted, cools)]
  BY DEF Reject
<1> HIDE DEF demoted, cools
<1>7. QED
  BY <1>2, <1>4, <1>5, <1>6, GraduateEarns

----------------------------------------------------------------------------
(* The transactions.                                                       *)

\* Control: a session that asked for a row knows which, and a rejection about
\* to be written has its row locked.
ControlInv ==
  \A x \in Sessions :
    /\ pc[x] \notin {"ready", "done"} => key[x] \in Keys
    /\ pc[x] = "hold" => x \in Rejecters /\ lock[key[x]] = x

\* The row as the session that locked it sees it is the committed one with the
\* approvals the session recorded, and approvals wait only in rows it locked;
\* its level is earned as well.
WorkInv ==
  \A x \in Sessions, k \in Keys :
    /\ lock[k] = x => /\ work[x][k].a = Count(rows[k]).a + credits[x][k]
                      /\ work[x][k].r = Count(rows[k]).r
                      /\ k \notin torn => Earned(work[x][k])
    /\ lock[k] # x \/ x \in Rejecters => credits[x][k] = 0

\* Rows are never deleted, so those a reset read are there when it writes.
ResetInv ==
  reset \notin {None, Free} =>
    \A k \in Keys : reset[k][1] # None => rows[k] # None

\* The conjunct of LevelEarned that is not about types.
EarnedInv == \A k \in Keys : rows[k] # None /\ k \notin torn => Earned(rows[k])

DataInv == WorkInv /\ ResetInv /\ EarnedInv /\ CountsKept

TrustInv == TypeOK /\ ControlInv /\ DataInv

\* The invariant holds of the records to begin with.
LEMMA TrustInvInit == Init => TrustInv
<1> SUFFICES ASSUME Init PROVE TrustInv
  OBVIOUS
<1> USE TrustRowsAssumption
<1>1. TypeOK
  <2>1. "first_use" \in Levels /\ "autonomous" \in Ceilings
    BY LevelsAre DEF Ceilings
  <2>2. rows \in [Keys -> Rows]
    BY DEF Init
  <2>3. \A k \in Keys : Count(rows[k]) \in [a : Nat, r : Nat]
    BY <2>2 DEF Count, Rows, Row
  <2>4. QED
    BY <2>1, <2>2, <2>3, FirstUseIsRow DEF Init, TypeOK, NoWork, NoCredits
<1>2. ControlInv
  BY DEF Init, ControlInv
<1>3. DataInv
  BY DEF Init, DataInv, WorkInv, ResetInv, EarnedInv, CountsKept, NoCredits, Sessions
<1>4. QED
  BY <1>1, <1>2, <1>3 DEF TrustInv

\* What get_or_create_trust_state gives a session that may have the row: the
\* committed counts and what it added itself, with an earned level.
LEMMA ViewIs ==
  ASSUME TrustInv, NEW x \in Sessions, NEW k \in Keys, lock[k] \in {Free, x}
  PROVE  /\ View(x, k) \in Row
         /\ View(x, k).a = Count(rows[k]).a + credits[x][k]
         /\ View(x, k).r = Count(rows[k]).r
         /\ k \notin torn => Earned(View(x, k))
<1> USE TrustRowsAssumption DEF TrustInv, TypeOK, DataInv
<1>1. CASE lock[k] = x
  BY <1>1 DEF View, WorkInv
<1>2. CASE lock[k] = Free
  <2>1. lock[k] # x /\ credits[x][k] = 0
    BY <1>2 DEF WorkInv
  <2>2. CASE rows[k] = None
    BY <2>1, <2>2, FirstUseIsRow DEF View, Count, FirstUse
  <2>3. CASE rows[k] # None
    <3>1. rows[k] \in Row
      BY <2>3 DEF Rows
    <3>2. rows[k].a \in Nat /\ rows[k].r \in Nat
      BY <3>1 DEF Row
    <3>3. QED
      BY <2>1, <2>3, <3>1, <3>2 DEF View, Count, EarnedInv
  <2>4. QED
    BY <2>2, <2>3
<1>3. QED
  BY <1>1, <1>2

\* The counters of a row are numbers, and zero where there is none.
LEMMA CountType ==
  ASSUME TypeOK, NEW k \in Keys
  PROVE  Count(rows[k]).a \in Nat /\ Count(rows[k]).r \in Nat
<1>1. CASE rows[k] = None
  BY <1>1 DEF Count
<1>2. CASE rows[k] # None
  <2>1. rows[k] \in Row
    BY <1>2 DEF TypeOK, Rows
  <2>2. rows[k].a \in Nat /\ rows[k].r \in Nat
    BY <2>1 DEF Row
  <2>3. QED
    BY <1>2, <2>2 DEF Count
<1>3. QED
  BY <1>1, <1>2

----------------------------------------------------------------------------
(* What the steps do to the data.                                          *)

\* A step that changes no row keeps what is said of rows.
LEMMA DataFrame ==
  ASSUME DataInv, UNCHANGED <<rows, lock, work, credits, reset, tally, torn>>
  PROVE  DataInv'
BY DEF DataInv, WorkInv, ResetInv, EarnedInv, CountsKept

\* A session that gets a row works on the committed counts and what it added.
LEMMA TakeData ==
  ASSUME TrustInv, NEW x \in Sessions, key[x] \in Keys, NEW row \in Row,
         Take(x, row), UNCHANGED <<rows, reset, tally, torn>>,
         \/ UNCHANGED credits
         \/ x \in Drives /\ credits' = [credits EXCEPT ![x][key[x]] = @ + 1],
         row.a = Count(rows[key[x]]).a + credits'[x][key[x]],
         row.r = Count(rows[key[x]]).r,
         key[x] \notin torn => Earned(row)
  PROVE  DataInv'
<1> USE TrustRowsAssumption DEF TrustInv, TypeOK, DataInv, Take
<1>1. WorkInv'
  BY DEF WorkInv
<1>2. ResetInv' /\ EarnedInv' /\ CountsKept'
  BY DEF ResetInv, EarnedInv, CountsKept
<1>3. QED
  BY <1>1, <1>2

\* A rollback gives up the credits together with the locks.
LEMMA RollbackData ==
  ASSUME TrustInv, NEW x \in Sessions, Rollback(x)
  PROVE  DataInv'
<1> USE TrustRowsAssumption DEF TrustInv, TypeOK, DataInv, Rollback, End
<1>1. WorkInv'
  BY DEF WorkInv, NoCredits
<1>2. ResetInv' /\ EarnedInv' /\ CountsKept'
  BY DEF ResetInv, EarnedInv, CountsKept
<1>3. QED
  BY <1>1, <1>2

\* The drive commits: its rows take its approvals with them, and no others do.
LEMMA FinishData ==
  ASSUME TrustInv, NEW d \in Drives, Finish(d)
  PROVE  DataInv'
<1> USE TrustRowsAssumption DEF TrustInv, TypeOK, DataInv, Finish, End, Sessions
<1>1. ASSUME NEW k \in Keys, lock[k] = d
      PROVE  /\ rows'[k] = work[d][k] /\ rows'[k] \in Row /\ rows'[k] # None
             /\ Count(rows'[k]) = [a |-> Count(rows[k]).a + credits[d][k],
                                   r |-> Count(rows[k]).r]
             /\ k \notin torn => Earned(rows'[k])
  <2>1. rows'[k] = work[d][k] /\ work[d][k] \in Row
    BY <1>1
  <2>2. QED
    BY <1>1, <2>1 DEF WorkInv, Count
<1>2. ASSUME NEW k \in Keys, lock[k] # d
      PROVE  rows'[k] = rows[k] /\ credits[d][k] = 0
  BY <1>2 DEF WorkInv
<1>3. WorkInv'
  <2> SUFFICES ASSUME NEW x \in Sessions, NEW k \in Keys
               PROVE  /\ lock'[k] = x => /\ work'[x][k].a = Count(rows'[k]).a + credits'[x][k]
                                         /\ work'[x][k].r = Count(rows'[k]).r
                                         /\ k \notin torn' => Earned(work'[x][k])
                      /\ lock'[k] # x \/ x \in Rejecters => credits'[x][k] = 0
    BY DEF WorkInv, Count
  <2>1. CASE x = d
    BY <2>1 DEF NoCredits
  <2>2. CASE x # d
    BY <2>2, <1>2 DEF WorkInv
  <2>3. QED
    BY <2>1, <2>2
<1>4. ResetInv' /\ EarnedInv'
  BY <1>1, <1>2 DEF ResetInv, EarnedInv
<1>5. CountsKept'
  <2> SUFFICES ASSUME NEW k \in Keys, k \notin torn
               PROVE  Count(rows'[k]) = tally'[k]
    BY DEF CountsKept, Count
  <2>1. tally[k] = Count(rows[k]) /\ tally[k] \in [a : Nat, r : Nat]
    BY DEF CountsKept
  <2>2. tally'[k] = [a |-> tally[k].a + credits[d][k], r |-> tally[k].r]
    BY <2>1
  <2>3. CASE lock[k] = d
    BY <2>1, <2>2, <2>3, <1>1
  <2>4. CASE lock[k] # d
    BY <2>1, <2>2, <2>4, <1>2 DEF Count
  <2>5. QED
    BY <2>3, <2>4
<1>6. QED
  BY <1>3, <1>4, <1>5

\* The rejection is committed on the row it locked.
LEMMA CommitRejectData ==
  ASSUME TrustInv, NEW c \in Rejecters, CommitReject(c)
  PROVE  DataInv' /\ rows' \in [Keys -> Rows]
<1> USE TrustRowsAssumption DEF TrustInv, TypeOK, DataInv, CommitReject, End, Sessions
<1> DEFINE k == key[c]
           row == Reject(work[c][k], cool[k])
<1>1. k \in Keys /\ lock[k] = c /\ cool[k] \in BOOLEAN /\ work[c][k] \in Row
  BY DEF ControlInv
<1>2. work[c][k].a = Count(rows[k]).a /\ work[c][k].r = Count(rows[k]).r
      /\ (k \notin torn => Earned(work[c][k]))
  BY <1>1, CountType DEF WorkInv
<1>3. row \in Row /\ row.a = Count(rows[k]).a /\ row.r = Count(rows[k]).r + 1
      /\ (k \notin torn => Earned(row))
  BY <1>1, <1>2, RejectEarns
<1>4. rows' = [rows EXCEPT ![k] = row]
  BY DEF CommitReject
<1> HIDE DEF row
<1>5. row # None /\ Count(row) = [a |-> row.a, r |-> row.r]
  BY <1>3 DEF Count
<1>6. rows' \in [Keys -> Rows]
  <2>1. row \in Rows
    BY <1>3 DEF Rows
  <2>2. QED
    BY <1>1, <1>4, <2>1
<1>7. WorkInv'
  <2> SUFFICES ASSUME NEW x \in Sessions, NEW j \in Keys
               PROVE  /\ lock'[j] = x => /\ work'[x][j].a = Count(rows'[j]).a + credits'[x][j]
                                         /\ work'[x][j].r = Count(rows'[j]).r
                                         /\ j \notin torn' => Earned(work'[x][j])
                      /\ lock'[j] # x \/ x \in Rejecters => credits'[x][j] = 0
    BY DEF WorkInv, Count
  <2>1. CASE x = c
    BY <2>1 DEF NoCredits
  <2>2. CASE x # c /\ lock[j] = x
    BY <2>2, <1>1, <1>4 DEF WorkInv
  <2>3. CASE x # c /\ lock[j] # x
    BY <2>3 DEF WorkInv
  <2>4. QED
    BY <2>1, <2>2, <2>3
<1>8. ResetInv' /\ EarnedInv'
  <2>1. \A j \in Keys : rows'[j] = IF j = k THEN row ELSE rows[j]
    BY <1>1, <1>4
  <2>2. QED
    BY <1>3, <1>5, <2>1 DEF ResetInv, EarnedInv
<1>9. CountsKept'
  <2> SUFFICES ASSUME NEW j \in Keys, j \notin torn
               PROVE  Count(rows'[j]) = tally'[j]
    BY DEF CountsKept, Count
  <2>1. tally[j] = Count(rows[j]) /\ tally[j] \in [a : Nat, r : Nat]
    BY DEF CountsKept
  <2>2. CASE j = k
    <3>1. tally'[j] = [a |-> tally[j].a, r |-> tally[j].r + 1]
      BY <2>1, <2>2
    <3>2. QED
      BY <2>1, <2>2, <3>1, <1>1, <1>3, <1>4, <1>5
  <2>3. CASE j # k
    BY <2>1, <2>3, <1>4
  <2>4. QED
    BY <2>2, <2>3
<1>10. QED
  BY <1>6, <1>7, <1>8, <1>9

\* The agent's own session writes back what it read, or a first row.
LEMMA InnerGateData ==
  ASSUME TrustInv, NEW d \in Drives, InnerGate(d)
  PROVE  DataInv' /\ rows' \in [Keys -> Rows]
<1> USE TrustRowsAssumption DEF TrustInv, TypeOK, DataInv, InnerGate, Sessions
<1> DEFINE k == key[d]
           row == View(d, k)
<1>1. k \in Keys /\ lock[k] = Free
  BY DEF ControlInv
<1>2. row \in Row /\ row # None /\ row.a = Count(rows[k]).a /\ row.r = Count(rows[k]).r
      /\ (k \notin torn => Earned(row))
  <2>1. credits[d][k] = 0
    BY <1>1 DEF WorkInv
  <2>2. QED
    BY <1>1, <2>1, ViewIs, CountType
<1>3. rows' \in {rows, [rows EXCEPT ![k] = row]}
  OBVIOUS
<1> HIDE DEF row
<1>4. \A j \in Keys : rows'[j] = rows[j] \/ (j = k /\ rows'[j] = row)
  BY <1>1, <1>3
<1>5. Count(row) = Count(rows[k])
  BY <1>2 DEF Count
<1>6. \A j \in Keys : Count(rows'[j]) = Count(rows[j])
  BY <1>4, <1>5
<1>7. rows' \in [Keys -> Rows]
  <2>1. row \in Rows
    BY <1>2 DEF Rows
  <2>2. QED
    BY <1>1, <1>3, <2>1
<1>8. WorkInv'
  <2> SUFFICES ASSUME NEW x \in Sessions, NEW j \in Keys
               PROVE  /\ lock'[j] = x => /\ work'[x][j].a = Count(rows'[j]).a + credits'[x][j]
                                         /\ work'[x][j].r = Count(rows'[j]).r
                                         /\ j \notin torn' => Earned(work'[x][j])
                      /\ lock'[j] # x \/ x \in Rejecters => credits'[x][j] = 0
    BY DEF WorkInv, Count
  <2>1. QED
    BY <1>6 DEF WorkInv
<1>9. ResetInv' /\ EarnedInv'
  BY <1>2, <1>4 DEF ResetInv, EarnedInv
<1>10. CountsKept'
  <2> SUFFICES ASSUME NEW j \in Keys, j \notin torn
               PROVE  Count(rows'[j]) = tally'[j]
    BY DEF CountsKept, Count
  <2>1. QED
    BY <1>6 DEF CountsKept
<1>11. QED
  BY <1>7, <1>8, <1>9, <1>10

\* A reset writes a well-formed row, whatever it had read.
LEMMA ResetRowType ==
  ASSUME NEW was, NEW row \in Row
  PROVE  ResetRow(was, row) \in Row
<1>1. row.a \in Nat /\ row.r \in Nat /\ row.level \in Levels
  BY DEF Row
<1>2. QED
  BY <1>1, LevelsAre DEF ResetRow, Row

\* A reset that read what is there leaves a new row.
LEMMA ResetRowClears ==
  ASSUME NEW row \in Row
  PROVE  ResetRow(row, row) = FirstUse
BY DEF ResetRow, FirstUse, Row

\* A reset leaves the first row where it saw what is there, and a torn row
\* elsewhere; no session has a row it writes.
LEMMA ResetWriteData ==
  ASSUME TrustInv, ResetWrite
  PROVE  DataInv' /\ rows' \in [Keys -> Rows]
<1> USE TrustRowsAssumption DEF TrustInv, TypeOK, DataInv
<1> DEFINE seen == {k \in Keys : reset[k][1] # None}
<1>1. /\ \A k \in seen : lock[k] = Free
      /\ rows' = [k \in Keys |-> IF k \in seen THEN ResetRow(reset[k][1], rows[k]) ELSE rows[k]]
      /\ tally' = [k \in Keys |-> IF k \in seen THEN Count(FirstUse) ELSE tally[k]]
      /\ torn' = torn \cup {k \in seen : rows[k] # reset[k][1]}
      /\ reset \notin {None, Free} /\ reset' = Free
      /\ UNCHANGED <<lock, work, credits>>
  BY DEF ResetWrite, session
<1>2. ASSUME NEW k \in seen
      PROVE  /\ rows[k] \in Row /\ rows'[k] \in Row
             /\ k \notin torn' => rows'[k] = FirstUse
  <2>1. rows[k] \in Row
    BY <1>1 DEF ResetInv, Rows
  <2>2. rows'[k] = ResetRow(reset[k][1], rows[k])
    BY <1>1
  <2>3. ResetRow(reset[k][1], rows[k]) \in Row
    BY <2>1, ResetRowType, Zenon
  <2>4. CASE rows[k] = reset[k][1]
    <3>1. rows'[k] = ResetRow(rows[k], rows[k])
      BY <2>2, <2>4, Zenon
    <3>2. rows'[k] = FirstUse
      BY <2>1, <3>1, ResetRowClears, Zenon
    <3>3. QED
      BY <2>1, <2>2, <2>3, <3>2, Zenon
  <2>5. CASE rows[k] # reset[k][1]
    <3>1. k \in torn'
      BY <1>1, <2>5
    <3>2. QED
      BY <2>1, <2>2, <2>3, <3>1, Zenon
  <2>6. QED
    BY <2>1, <2>2, <2>3, <2>4, <2>5
<1>3. rows' \in [Keys -> Rows]
  BY <1>1, <1>2 DEF Rows
<1>4. WorkInv'
  <2> SUFFICES ASSUME NEW x \in Sessions, NEW j \in Keys
               PROVE  /\ lock'[j] = x => /\ work'[x][j].a = Count(rows'[j]).a + credits'[x][j]
                                         /\ work'[x][j].r = Count(rows'[j]).r
                                         /\ j \notin torn' => Earned(work'[x][j])
                      /\ lock'[j] # x \/ x \in Rejecters => credits'[x][j] = 0
    BY DEF WorkInv, Count
  <2>1. CASE j \in seen
    BY <1>1, <2>1 DEF WorkInv
  <2>2. CASE j \notin seen
    BY <1>1, <2>2 DEF WorkInv
  <2>3. QED
    BY <2>1, <2>2
<1>5. EarnedInv'
  BY <1>1, <1>2, FirstUseIsRow DEF EarnedInv
<1>6. CountsKept'
  <2> SUFFICES ASSUME NEW j \in Keys, j \notin torn'
               PROVE  Count(rows'[j]) = tally'[j]
    BY DEF CountsKept, Count
  <2>1. QED
    BY <1>1, <1>2 DEF CountsKept
<1>7. QED
  BY <1>1, <1>3, <1>4, <1>5, <1>6 DEF ResetInv

\* What a reset reads is committed.
LEMMA ResetReadData ==
  ASSUME TrustInv, ResetRead
  PROVE  DataInv'
<1>1. UNCHANGED <<rows, lock, work, credits, tally, torn>>
      /\ reset' = [k \in Keys |-> <<rows[k], cool[k]>>]
  BY DEF ResetRead, session
<1>2. \A k \in Keys : reset'[k][1] = rows[k]
  BY <1>1
<1>3. QED
  BY <1>1, <1>2 DEF TrustInv, DataInv, WorkInv, ResetInv, EarnedInv, CountsKept

----------------------------------------------------------------------------
(* The steps, one by one.  Kinds of step first: what they do to the types  *)
(* and to the control of the sessions.                                     *)

Kept == TypeOK' /\ ControlInv' /\ DataInv'

\* A session sends its SELECT.
LEMMA SelectKeeps ==
  ASSUME TrustInv, NEW x \in Sessions, NEW k \in Keys,
         NEW to \in {"gate", "credit", "inner", "reject"}, Select(x, k, to),
         left' \in [Drives -> 0 .. Steps],
         UNCHANGED <<rows, cool, ceiling, lock, work, credits, reset, tally, torn>>
  PROVE  Kept
<1> USE DEF TrustInv, TypeOK, Select
<1>1. absent' \in [Sessions -> BOOLEAN]
  BY Zenon
<1>2. TypeOK'
  BY <1>1
<1>3. ControlInv'
  BY DEF ControlInv
<1>4. QED
  BY <1>2, <1>3, DataFrame DEF Kept

\* A session goes on without a row, or having recorded what it had to.
LEMMA GoOnKeeps ==
  ASSUME TrustInv, NEW x \in Sessions, GoOn(x)
  PROVE  Kept
<1> USE DEF TrustInv, TypeOK, GoOn, Ready
<1>1. TypeOK'
  OBVIOUS
<1>2. ControlInv'
  BY DEF ControlInv
<1>3. QED
  BY <1>1, <1>2, DataFrame DEF Kept

\* A rollback keeps the invariant.
LEMMA RollbackKeeps ==
  ASSUME TrustInv, NEW x \in Sessions, Rollback(x)
  PROVE  Kept
<1> USE TrustRowsAssumption, FirstUseIsRow DEF TrustInv, TypeOK, Rollback, End, NoWork, NoCredits
<1>1. TypeOK'
  OBVIOUS
<1>2. ControlInv'
  BY DEF ControlInv
<1>3. QED
  BY <1>1, <1>2, RollbackData DEF Kept

\* A tally with the credits of a session is a tally.
LEMMA TallyType ==
  ASSUME TypeOK, NEW x \in Sessions, NEW k \in Keys
  PROVE  [tally[k] EXCEPT !.a = @ + credits[x][k]] \in [a : Nat, r : Nat]
<1>1. tally[k] \in [a : Nat, r : Nat] /\ credits[x][k] \in Nat
  BY DEF TypeOK
<1>2. QED
  BY <1>1

\* The commit of a drive keeps the invariant: its credits become decisions.
LEMMA FinishKeeps ==
  ASSUME TrustInv, NEW d \in Drives, Finish(d)
  PROVE  Kept
<1>1. TypeOK /\ d \in Sessions /\ tally' \in [Keys -> [a : Nat, r : Nat]]
  <2>1. TypeOK /\ d \in Sessions
    BY DEF TrustInv, Sessions
  <2>2. tally' = [k \in Keys |-> [tally[k] EXCEPT !.a = @ + credits[d][k]]]
    BY DEF Finish
  <2>3. QED
    BY <2>1, <2>2, TallyType
<1> USE TrustRowsAssumption, FirstUseIsRow DEF TypeOK, Finish, End, NoWork, NoCredits
<1>2. rows' \in [Keys -> Rows]
  BY <1>1 DEF Rows
<1>3. TypeOK'
  BY <1>1, <1>2
<1>4. ControlInv'
  BY <1>1 DEF TrustInv, ControlInv
<1>5. QED
  BY <1>3, <1>4, FinishData DEF Kept

\* An approval is recorded in the drive's transaction.
LEMMA RecordApprovalKeeps ==
  ASSUME TrustInv, NEW d \in Drives, key[d] \in Keys, RecordApproval(d)
  PROVE  Kept
<1>0. TypeOK /\ d \in Sessions /\ cool[key[d]] \in BOOLEAN
  BY DEF TrustInv, TypeOK, Sessions
<1>1. lock[key[d]] \in {Free, d}
  BY DEF RecordApproval, Take
<1>2. /\ View(d, key[d]) \in Row
      /\ View(d, key[d]).a = Count(rows[key[d]]).a + credits[d][key[d]]
      /\ View(d, key[d]).r = Count(rows[key[d]]).r
      /\ key[d] \notin torn => Earned(View(d, key[d]))
  BY <1>0, <1>1, ViewIs
<1>3. PICK row \in Row : row = Approve(View(d, key[d]), cool[key[d]])
  BY <1>0, <1>2, ApproveEarns
<1>4. /\ row.a = Count(rows[key[d]]).a + credits[d][key[d]] + 1
      /\ row.r = Count(rows[key[d]]).r
      /\ key[d] \notin torn => Earned(row)
  BY <1>0, <1>2, <1>3, ApproveEarns
<1>5. Take(d, row) /\ UNCHANGED <<rows, reset, tally, torn>>
      /\ credits' = [credits EXCEPT ![d][key[d]] = @ + 1]
  BY <1>3 DEF RecordApproval, Take
<1>6. credits'[d][key[d]] = credits[d][key[d]] + 1 /\ credits' \in [Sessions -> [Keys -> Nat]]
  BY <1>0, <1>5 DEF TypeOK
<1>7. DataInv'
  <2>1. row.a = Count(rows[key[d]]).a + credits'[d][key[d]]
    <3>1. Count(rows[key[d]]).a \in Nat /\ credits[d][key[d]] \in Nat
      <4>1. Count(rows[key[d]]).a \in Nat
        BY <1>0, CountType
      <4>2. credits[d][key[d]] \in Nat
        BY <1>0 DEF TypeOK
      <4>3. QED
        BY <4>1, <4>2
    <3>2. QED
      BY <1>4, <1>6, <3>1
  <2>2. QED
    BY <1>0, <1>4, <1>5, <2>1, TakeData
<1>8. TypeOK'
  <2>1. lock' \in [Keys -> Sessions \cup {Free}] /\ work' \in [Sessions -> [Keys -> Row]]
    BY <1>0, <1>5 DEF Take, TypeOK
  <2>2. QED
    BY <1>0, <1>5, <1>6, <2>1 DEF TypeOK, RecordApproval, Ready
<1>9. ControlInv'
  BY <1>0, <1>5, TrustRowsAssumption
     DEF TrustInv, ControlInv, TypeOK, Take, RecordApproval, Ready
<1>10. QED
  BY <1>7, <1>8, <1>9 DEF Kept

\* A session gets its row and leaves it as it is: Gate and TakeReject.
LEMMA TakeViewData ==
  ASSUME TrustInv, NEW x \in Sessions, key[x] \in Keys, Take(x, View(x, key[x])),
         UNCHANGED <<rows, credits, reset, tally, torn>>
  PROVE  /\ DataInv'
         /\ lock' \in [Keys -> Sessions \cup {Free}]
         /\ work' \in [Sessions -> [Keys -> Row]]
<1>0. TypeOK
  BY DEF TrustInv
<1>1. lock[key[x]] \in {Free, x}
  BY DEF Take
<1>2. /\ View(x, key[x]) \in Row
      /\ View(x, key[x]).a = Count(rows[key[x]]).a + credits[x][key[x]]
      /\ View(x, key[x]).r = Count(rows[key[x]]).r
      /\ key[x] \notin torn => Earned(View(x, key[x]))
  BY <1>1, ViewIs
<1>3. PICK row \in Row : row = View(x, key[x])
  BY <1>2
<1>4. Take(x, row)
  BY <1>3 DEF Take
<1>5. DataInv'
  BY <1>2, <1>3, <1>4, TakeData
<1>6. QED
  BY <1>0, <1>4, <1>5 DEF Take, TypeOK

\* The gate of a drive keeps the invariant.
LEMMA GateKeeps ==
  ASSUME TrustInv, NEW d \in Drives, Gate(d)
  PROVE  Kept
<1>1. TypeOK /\ d \in Sessions /\ key[d] \in Keys
  BY DEF TrustInv, ControlInv, Sessions, Gate
<1>2. DataInv' /\ lock' \in [Keys -> Sessions \cup {Free}] /\ work' \in [Sessions -> [Keys -> Row]]
  BY <1>1, TakeViewData DEF Gate
<1>3. /\ \/ pc' = [pc EXCEPT ![d] = "run"] /\ UNCHANGED <<key, absent>>
         \/ pc' = [pc EXCEPT ![d] = "prepare"] /\ UNCHANGED <<key, absent>>
         \/ Ready(d)
      /\ lock' = [lock EXCEPT ![key[d]] = d] /\ lock[key[d]] \in {Free, d}
      /\ UNCHANGED <<rows, cool, ceiling, credits, left, reset, tally, torn>>
  BY DEF Gate, Take
<1>4. TypeOK'
  BY <1>1, <1>2, <1>3 DEF TypeOK, Ready
<1>5. ControlInv'
  BY <1>1, <1>3, TrustRowsAssumption DEF TrustInv, ControlInv, TypeOK, Ready
<1>6. QED
  BY <1>2, <1>4, <1>5 DEF Kept

\* A rejection that gets its row keeps the invariant.
LEMMA TakeRejectKeeps ==
  ASSUME TrustInv, NEW c \in Rejecters, TakeReject(c)
  PROVE  Kept
<1>1. TypeOK /\ c \in Sessions /\ key[c] \in Keys
  BY DEF TrustInv, ControlInv, Sessions, TakeReject
<1>2. DataInv' /\ lock' \in [Keys -> Sessions \cup {Free}] /\ work' \in [Sessions -> [Keys -> Row]]
  BY <1>1, TakeViewData DEF TakeReject
<1>3. /\ pc' = [pc EXCEPT ![c] = "hold"]
      /\ lock' = [lock EXCEPT ![key[c]] = c] /\ lock[key[c]] \in {Free, c}
      /\ UNCHANGED <<rows, cool, ceiling, key, absent, credits, left, reset, tally, torn>>
  BY DEF TakeReject, Take
<1>4. TypeOK'
  BY <1>1, <1>2, <1>3 DEF TypeOK
<1>5. ControlInv'
  BY <1>1, <1>3, TrustRowsAssumption DEF TrustInv, ControlInv, TypeOK
<1>6. QED
  BY <1>2, <1>4, <1>5 DEF Kept

\* The gate of the agent's own session keeps the invariant.
LEMMA InnerGateKeeps ==
  ASSUME TrustInv, NEW d \in Drives, InnerGate(d)
  PROVE  Kept
<1>1. TypeOK /\ d \in Sessions
  BY DEF TrustInv, Sessions
<1>2. TypeOK'
  BY <1>1, InnerGateData DEF TypeOK, InnerGate, Ready
<1>3. ControlInv'
  BY <1>1 DEF TrustInv, ControlInv, TypeOK, InnerGate, Ready
<1>4. QED
  BY <1>2, <1>3, InnerGateData DEF Kept

\* The commit of a rejection keeps the invariant.
LEMMA CommitRejectKeeps ==
  ASSUME TrustInv, NEW c \in Rejecters, CommitReject(c)
  PROVE  Kept
<1>1. TypeOK /\ c \in Sessions /\ key[c] \in Keys
  BY DEF TrustInv, ControlInv, Sessions, CommitReject
<1>2. tally' \in [Keys -> [a : Nat, r : Nat]]
  <2>1. tally' = [tally EXCEPT ![key[c]].r = @ + 1]
    BY DEF CommitReject
  <2>2. tally \in [Keys -> [a : Nat, r : Nat]]
    BY <1>1 DEF TypeOK
  <2>3. QED
    BY <1>1, <2>1, <2>2
<1>3. cool' \in [Keys -> BOOLEAN]
  <2>1. cool[key[c]] \in BOOLEAN
    BY <1>1 DEF TypeOK
  <2>2. RejectionCools(work[c][key[c]], cool[key[c]]) \in BOOLEAN
    BY <2>1 DEF RejectionCools
  <2>3. cool' = [cool EXCEPT ![key[c]] = RejectionCools(work[c][key[c]], cool[key[c]])]
    BY DEF CommitReject
  <2>4. QED
    BY <1>1, <2>2, <2>3 DEF TypeOK
<1>4. TypeOK'
  BY <1>1, <1>2, <1>3, CommitRejectData, FirstUseIsRow
     DEF TypeOK, CommitReject, End, NoWork, NoCredits
<1>5. ControlInv'
  BY <1>1 DEF TrustInv, ControlInv, TypeOK, CommitReject, End
<1>6. QED
  BY <1>4, <1>5, CommitRejectData DEF Kept

\* Ceilings, resets and the end of a cooldown keep the invariant.
LEMMA SettingsKeep ==
  ASSUME TrustInv, SetCeiling \/ ResetRead \/ ResetWrite \/ CooldownEnds
  PROVE  Kept
<1>1. TypeOK /\ ControlInv /\ DataInv
  BY DEF TrustInv
<1>2. ControlInv'
  BY <1>1 DEF ControlInv, SetCeiling, ResetRead, ResetWrite, CooldownEnds, session
<1>3. CASE SetCeiling
  <2>1. TypeOK'
    BY <1>1, <1>3, TrustRowsAssumption DEF TypeOK, SetCeiling, session
  <2>2. DataInv'
    BY <1>1, <1>3, DataFrame DEF SetCeiling, session
  <2>3. QED
    BY <1>2, <2>1, <2>2 DEF Kept
<1>4. CASE CooldownEnds
  <2>1. TypeOK'
    BY <1>1, <1>4 DEF TypeOK, CooldownEnds, session
  <2>2. DataInv'
    BY <1>1, <1>4, DataFrame DEF CooldownEnds, session
  <2>3. QED
    BY <1>2, <2>1, <2>2 DEF Kept
<1>5. CASE ResetRead
  <2>1. reset' \in [Keys -> Rows \X BOOLEAN]
    BY <1>1, <1>5 DEF TypeOK, ResetRead
  <2>2. TypeOK'
    BY <1>1, <1>5, <2>1 DEF TypeOK, ResetRead, session
  <2>3. QED
    BY <1>2, <1>5, <2>2, ResetReadData DEF Kept
<1>6. CASE ResetWrite
  <2>1. rows' \in [Keys -> Rows] /\ DataInv'
    BY <1>6, ResetWriteData
  <2>2. cool' \in [Keys -> BOOLEAN]
    BY <1>6, Zenon DEF ResetWrite
  <2>3. tally' \in [Keys -> [a : Nat, r : Nat]]
    <3>1. Count(FirstUse) \in [a : Nat, r : Nat]
      BY DEF Count, FirstUse
    <3>2. QED
      BY <1>1, <1>6, <3>1 DEF ResetWrite, TypeOK
  <2>4. torn' \subseteq Keys /\ reset' = Free /\ UNCHANGED <<ceiling, lock, session>>
    BY <1>1, <1>6 DEF ResetWrite, TypeOK
  <2>5. TypeOK'
    BY <1>1, <2>1, <2>2, <2>3, <2>4 DEF TypeOK, session
  <2>6. QED
    BY <1>2, <2>1, <2>5 DEF Kept
<1>7. QED
  BY <1>3, <1>4, <1>5, <1>6

\* Every step keeps the invariant.
LEMMA TrustInvStep == TrustInv /\ [Next]_vars => TrustInv'
<1> SUFFICES ASSUME TrustInv, [Next]_vars PROVE Kept
  BY DEF Kept, TrustInv
<1>0. TypeOK /\ ControlInv /\ Drives \subseteq Sessions /\ Rejecters \subseteq Sessions
  BY DEF TrustInv, Sessions
<1>1. ASSUME NEW d \in Drives, NextStep(d) \/ ResumeApproved(d) PROVE Kept
  <2>1. left' \in [Drives -> 0 .. Steps]
    <3>1. left[d] > 0 /\ left' = [left EXCEPT ![d] = @ - 1]
      BY <1>1 DEF NextStep, ResumeApproved
    <3>2. left \in [Drives -> 0 .. Steps] /\ Steps \in Nat
      BY <1>0, TrustRowsAssumption DEF TypeOK
    <3>3. QED
      BY <3>1, <3>2
  <2>2. \E k \in Keys : Select(d, k, "gate") \/ Select(d, k, "credit")
    BY <1>1 DEF NextStep, ResumeApproved
  <2>3. UNCHANGED <<rows, cool, ceiling, lock, work, credits, reset, tally, torn>>
    BY <1>1 DEF NextStep, ResumeApproved
  <2>4. QED
    BY <1>0, <2>1, <2>2, <2>3, SelectKeeps
<1>2. ASSUME NEW d \in Drives, Call(d) PROVE Kept
  BY <1>0, <1>2, SelectKeeps DEF Call, TypeOK
<1>3. ASSUME NEW c \in Rejecters, AskReject(c) PROVE Kept
  BY <1>0, <1>3, SelectKeeps DEF AskReject, TypeOK
<1>4. ASSUME NEW d \in Drives, RanConfirmed(d) \/ Credit(d) PROVE Kept
  BY <1>0, <1>4, RecordApprovalKeeps DEF RanConfirmed, Credit, ControlInv
<1>5. ASSUME NEW d \in Drives, RanOtherwise(d) \/ CreditFails(d) \/ NoCall(d)
                               \/ InnerFails(d) \/ StepTimeout(d)
      PROVE  Kept
  BY <1>0, <1>5, GoOnKeeps DEF RanOtherwise, CreditFails, NoCall, InnerFails, StepTimeout
<1>6. ASSUME NEW d \in Drives, GateFails(d) \/ Crash(d) PROVE Kept
  BY <1>0, <1>6, RollbackKeeps DEF GateFails, Crash
<1>7. ASSUME NEW c \in Rejecters, RejectFails(c) PROVE Kept
  BY <1>0, <1>7, RollbackKeeps DEF RejectFails
<1>8. ASSUME NEW x \in Sessions, WaitFails(x) PROVE Kept
  BY <1>8, GoOnKeeps, RollbackKeeps DEF WaitFails
<1>9. ASSUME NEW d \in Drives, Commit(d) \/ RunTimeout(d) PROVE Kept
  BY <1>9, FinishKeeps DEF Commit, RunTimeout
<1>10. CASE UNCHANGED vars
  <2>1. DataInv'
    BY <1>10, DataFrame DEF vars, TrustInv
  <2>2. QED
    BY <1>0, <1>10, <2>1 DEF vars, TypeOK, ControlInv, Kept
<1>11. ASSUME NEW d \in Drives, Drive(d) PROVE Kept
  BY <1>1, <1>2, <1>4, <1>5, <1>6, <1>9, <1>11, GateKeeps, InnerGateKeeps DEF Drive
<1>12. ASSUME NEW c \in Rejecters, Rejection(c) PROVE Kept
  BY <1>3, <1>7, <1>12, TakeRejectKeeps, CommitRejectKeeps DEF Rejection
<1>13. QED
  BY <1>6, <1>8, <1>9, <1>10, <1>11, <1>12, SettingsKeep DEF Next

----------------------------------------------------------------------------
\* Whatever drives, rejections, resets and cooldowns do beside one another, a
\* committed level is one its counters earn, torn rows excepted.
THEOREM LevelsRestOnRecords == Spec => []LevelEarned
<1>1. TrustInv => LevelEarned
  BY DEF TrustInv, DataInv, EarnedInv, LevelEarned
<1>2. QED
  BY TrustInvInit, TrustInvStep, <1>1, PTL DEF Spec

\* No decision is lost between two sessions and none is counted that was rolled
\* back: SELECT ... FOR UPDATE serialises the sessions of a row.
THEOREM DecisionsCounted == Spec => []CountsKept
<1>1. TrustInv => CountsKept
  BY DEF TrustInv, DataInv
<1>2. QED
  BY TrustInvInit, TrustInvStep, <1>1, PTL DEF Spec
=============================================================================
