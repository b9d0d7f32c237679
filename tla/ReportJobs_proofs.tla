-------------------------- MODULE ReportJobs_proofs --------------------------
(***************************************************************************)
(* Theorems about the report tables for every caller of the repository:    *)
(* type correctness, the shape of a claim, and what a settled report       *)
(* keeps.                                                                  *)
(***************************************************************************)
EXTENDS ReportJobs, TLAPS

\* An ended attempt changes nothing but the row's status, claim and timeline,
\* and leaves them in their types.
LEMMA CloseAttemptType ==
  ASSUME JobTypeOK, NEW j \in Job, NEW s \in Status, NEW t \in Closing,
         NEW by \in Worker \cup Actor, CloseAttempt(j, s, t, by)
  PROVE  /\ status' \in [Job -> Status]
         /\ worker' \in [Job -> Worker \cup {None}]
         /\ lease' \in [Job -> {None, "held", "expired"}]
         /\ log' \in [Job -> Seq(Event)]
<1>1. [type |-> t, attempt |-> attempts[j], by |-> by] \in Event
  BY DEF JobTypeOK, Event
<1>2. log' \in [Job -> Seq(Event)]
  BY <1>1 DEF JobTypeOK, CloseAttempt, Record
<1> QED
  BY <1>2 DEF JobTypeOK, CloseAttempt

\* The empty tables are well typed.
LEMMA JobTypeInit == JobInit => JobTypeOK
BY DEF JobInit, JobTypeOK, Status, Lineage, NoLineage, Row, NoRow

\* Every transaction of the repository leaves the rows well typed.
LEMMA JobTypeStep ==
  ASSUME JobTypeOK, [JobNext]_jobVars PROVE JobTypeOK'
<1>1. ASSUME NEW j \in Job, NEW o \in Lineage, InsertQueued(j, o) PROVE JobTypeOK'
  BY <1>1 DEF JobTypeOK, InsertQueued, Status, Row, FreshRow
<1>2. ASSUME NEW j \in Job, Create(j) PROVE JobTypeOK'
  <2>1. NoLineage \in Lineage
    BY DEF NoLineage, Lineage
  <2> QED
    BY <1>1, <1>2, <2>1 DEF Create
<1>3. ASSUME NEW p \in Job, NEW c \in Job, NEW a \in Actor, NEW k \in Key \cup {None},
             Retry(p, c, a, k)
      PROVE  JobTypeOK'
  <2>1. [parent |-> p, actor |-> a, key |-> k] \in Lineage
    BY DEF Lineage
  <2> QED
    BY <1>1, <1>3, <2>1 DEF Retry
<1>4. ASSUME NEW S \in SUBSET Job, NEW o \in Owner, ClaimOutbox(S, o) PROVE JobTypeOK'
  <2>1. \A j \in Job : [outbox[j] EXCEPT !.owner = o, !.expired = FALSE] \in Row
    <3>1. ASSUME NEW r \in Row PROVE [r EXCEPT !.owner = o, !.expired = FALSE] \in Row
      BY DEF Row
    <3> QED
      BY <3>1 DEF JobTypeOK
  <2>2. outbox' \in [Job -> Row]
    BY <1>4, <2>1 DEF JobTypeOK, ClaimOutbox
  <2> QED
    BY <1>4, <2>2 DEF JobTypeOK, ClaimOutbox
<1>5. ASSUME NEW j \in Job, NEW o \in Owner, CompleteOutbox(j, o) \/ RetryOutbox(j, o)
      PROVE  JobTypeOK'
  <2>1. NoRow \in Row /\ [FreshRow EXCEPT !.available = FALSE] \in Row
    BY DEF Row, NoRow, FreshRow
  <2>2. outbox' \in [Job -> Row]
    BY <1>5, <2>1 DEF JobTypeOK, CompleteOutbox, RetryOutbox
  <2> QED
    BY <1>5, <2>2 DEF JobTypeOK, CompleteOutbox, RetryOutbox
<1>6. ASSUME NEW j \in Job, NEW w \in Worker, MarkProcessing(j, w) PROVE JobTypeOK'
  <2>1. [type |-> "started", attempt |-> attempts[j] + 1, by |-> w] \in Event
    BY DEF JobTypeOK, Event
  <2>2. log' \in [Job -> Seq(Event)]
    BY <1>6, <2>1 DEF JobTypeOK, MarkProcessing, Record
  <2>3. attempts[j] + 1 \in Nat
    BY DEF JobTypeOK
  <2>4. attempts' \in [Job -> Nat]
    BY <1>6, <2>3 DEF JobTypeOK, MarkProcessing
  <2> QED
    BY <1>6, <2>2, <2>4 DEF JobTypeOK, MarkProcessing, Status
<1>7. ASSUME NEW j \in Job, NEW w \in Worker, MarkFailed(j, w) \/ MarkRetry(j, w)
      PROVE  JobTypeOK'
  <2>1. \E s \in Status, t \in Closing : CloseAttempt(j, s, t, w)
    BY <1>7 DEF MarkFailed, MarkRetry, FinishAttempt, Status, Closing
  <2> QED
    BY <1>7, <2>1, CloseAttemptType DEF JobTypeOK, MarkFailed, MarkRetry, FinishAttempt
<1>8. ASSUME NEW j \in Job, NEW w \in Worker, NEW n \in 1..attempts[j], MarkCompleted(j, w, n)
      PROVE  JobTypeOK'
  <2>1. \E s \in Status, t \in Closing : CloseAttempt(j, s, t, w)
    BY <1>8 DEF MarkCompleted, Status, Closing
  <2> QED
    BY <1>8, <2>1, CloseAttemptType DEF JobTypeOK, MarkCompleted
<1>9. ASSUME NEW j \in Job, NEW a \in Actor, RecoverStale(j, a) PROVE JobTypeOK'
  <2>1. \E s \in Status, t \in Closing : CloseAttempt(j, s, t, a)
    BY <1>9 DEF RecoverStale, Status, Closing
  <2> QED
    BY <1>9, <2>1, CloseAttemptType DEF JobTypeOK, RecoverStale, Row, FreshRow
<1>10. ASSUME NEW w \in Worker, Heartbeat(w) \/ HeartbeatAges(w) PROVE JobTypeOK'
  BY <1>10 DEF JobTypeOK, Heartbeat, HeartbeatAges
<1>11. ASSUME NEW j \in Job, LeaseExpires(j) \/ LockExpires(j) \/ BackoffElapses(j)
       PROVE  JobTypeOK'
  <2>1. CASE LeaseExpires(j)
    BY <2>1 DEF JobTypeOK, LeaseExpires
  <2>2. CASE LockExpires(j)
    <3>1. outbox' \in [Job -> Row]
      <4>1. [outbox[j] EXCEPT !.expired = TRUE] \in Row
        BY ZenonT(60) DEF JobTypeOK, Row
      <4>2. outbox' = [outbox EXCEPT ![j] = [outbox[j] EXCEPT !.expired = TRUE]]
        BY <2>2 DEF JobTypeOK, LockExpires
      <4> QED
        BY <4>1, <4>2 DEF JobTypeOK
    <3> QED
      BY <2>2, <3>1 DEF JobTypeOK, LockExpires
  <2>3. CASE BackoffElapses(j)
    <3>1. outbox' \in [Job -> Row]
      <4>1. [outbox[j] EXCEPT !.available = TRUE] \in Row
        BY ZenonT(60) DEF JobTypeOK, Row
      <4>2. outbox' = [outbox EXCEPT ![j] = [outbox[j] EXCEPT !.available = TRUE]]
        BY <2>3 DEF JobTypeOK, BackoffElapses
      <4> QED
        BY <4>1, <4>2 DEF JobTypeOK
    <3> QED
      BY <2>3, <3>1 DEF JobTypeOK, BackoffElapses
  <2> QED
    BY <1>11, <2>1, <2>2, <2>3
<1>12. CASE UNCHANGED jobVars
  BY <1>12 DEF JobTypeOK, jobVars
<1> QED
  BY <1>2, <1>3, <1>4, <1>5, <1>6, <1>7, <1>8, <1>9, <1>10, <1>11, <1>12 DEF JobNext

-----------------------------------------------------------------------------
(* The kinds of step, as far as the report rows can tell.                  *)

\* An open attempt of job j ends with an event of type t: by its worker, or by
\* an administrator when it is recovered.
Ends(j, t, by) ==
  /\ status[j] = "processing"
  /\ t # "recovered" => by = worker[j]
  /\ CloseAttempt(j, StatusAfter(t), t, by)
  /\ IF t = "completed" THEN \E n \in 1..attempts[j] : digest' = [digest EXCEPT ![j] = n]
                        ELSE digest' = digest
  /\ UNCHANGED <<attempts, lineage>>

\* To the report rows a transaction is one of six things: an insert by a submission or a
\* retry, a claim, the end of an attempt, a lease running out, or nothing.  The
\* invariants below reason about these kinds instead of the thirteen transactions.
LEMMA StepKinds ==
  ASSUME JobTypeOK, LeaseShape, [JobNext]_jobVars
  PROVE  \/ \E j \in Job : Create(j)
         \/ \E p, c \in Job, a \in Actor, k \in Key \cup {None} : Retry(p, c, a, k)
         \/ \E j \in Job, w \in Worker : MarkProcessing(j, w)
         \/ \E j \in Job, t \in Closing, by \in Worker \cup Actor : Ends(j, t, by)
         \/ \E j \in Job : LeaseExpires(j)
         \/ UNCHANGED <<status, attempts, worker, lease, digest, lineage, log>>
<1> DEFINE Ending == \E j \in Job, t \in Closing, by \in Worker \cup Actor : Ends(j, t, by)
<1>1. ASSUME NEW j \in Job, NEW w \in Worker, MarkFailed(j, w) \/ MarkRetry(j, w)
      PROVE  Ending
  <2>1. status[j] = "processing" /\ worker[j] = w
    BY <1>1, NoneAssumption DEF LeaseShape, MarkFailed, MarkRetry, FinishAttempt
  <2>2. digest' = digest
    BY <1>1 DEF MarkFailed, MarkRetry, FinishAttempt
  <2>3. PICK t \in {"failed", "retry"} : CloseAttempt(j, StatusAfter(t), t, w)
    BY <1>1 DEF MarkFailed, MarkRetry, FinishAttempt, StatusAfter
  <2>4. UNCHANGED <<attempts, lineage>>
    BY <1>1 DEF MarkFailed, MarkRetry, FinishAttempt
  <2>5. Ends(j, t, w) /\ t \in Closing
    BY <2>1, <2>2, <2>3, <2>4 DEF Ends, Closing
  <2> QED
    BY <2>5
<1>2. ASSUME NEW j \in Job, NEW w \in Worker, NEW n \in 1..attempts[j], MarkCompleted(j, w, n)
      PROVE  Ending
  <2>1. Ends(j, "completed", w) /\ "completed" \in Closing
    BY <1>2 DEF MarkCompleted, Ends, StatusAfter, Closing
  <2> QED
    BY <2>1
<1>3. ASSUME NEW j \in Job, NEW a \in Actor, RecoverStale(j, a)
      PROVE  Ending
  <2>1. digest' = digest
    BY <1>3 DEF RecoverStale
  <2>2. Ends(j, "recovered", a) /\ "recovered" \in Closing
    BY <1>3, <2>1 DEF RecoverStale, Recoverable, Ends, StatusAfter, Closing
  <2> QED
    BY <2>2
<1>4. ASSUME \/ \E S \in SUBSET Job, o \in Owner : ClaimOutbox(S, o)
             \/ \E j \in Job, o \in Owner : CompleteOutbox(j, o) \/ RetryOutbox(j, o)
             \/ \E w \in Worker : Heartbeat(w) \/ HeartbeatAges(w)
             \/ \E j \in Job : LockExpires(j) \/ BackoffElapses(j)
             \/ UNCHANGED jobVars
      PROVE  UNCHANGED <<status, attempts, worker, lease, digest, lineage, log>>
  BY <1>4 DEF ClaimOutbox, CompleteOutbox, RetryOutbox, Heartbeat, HeartbeatAges,
              LockExpires, BackoffElapses, jobVars
<1> HIDE DEF Ending
<1>5. \/ \E j \in Job : Create(j)
      \/ \E p, c \in Job, a \in Actor, k \in Key \cup {None} : Retry(p, c, a, k)
      \/ \E j \in Job, w \in Worker : MarkProcessing(j, w)
      \/ Ending
      \/ \E j \in Job : LeaseExpires(j)
      \/ UNCHANGED <<status, attempts, worker, lease, digest, lineage, log>>
  BY <1>1, <1>2, <1>3, <1>4 DEF JobNext
<1> QED
  BY <1>5 DEF Ending

-----------------------------------------------------------------------------
(* The shape of a claim, and what is final.                                *)

\* Claims set worker and lease together, and every way out of processing clears both.
LEMMA LeaseShapeStep ==
  ASSUME JobTypeOK, LeaseShape, [JobNext]_jobVars PROVE LeaseShape'
<1>1. ASSUME NEW j \in Job, NEW o, InsertQueued(j, o) PROVE LeaseShape'
  BY <1>1 DEF JobTypeOK, LeaseShape, InsertQueued
<1>2. ASSUME NEW j \in Job, NEW w \in Worker, MarkProcessing(j, w) PROVE LeaseShape'
  BY <1>2, NoneAssumption DEF JobTypeOK, LeaseShape, MarkProcessing
<1>3. ASSUME NEW j \in Job, NEW t \in Closing, NEW by, Ends(j, t, by) PROVE LeaseShape'
  <2>1. StatusAfter(t) # "processing"
    BY DEF StatusAfter, Closing
  <2> QED
    BY <1>3, <2>1 DEF JobTypeOK, LeaseShape, Ends, CloseAttempt
<1>4. ASSUME NEW j \in Job, LeaseExpires(j) PROVE LeaseShape'
  BY <1>4, NoneAssumption DEF JobTypeOK, LeaseShape, LeaseExpires
<1>5. CASE UNCHANGED <<status, attempts, worker, lease, digest, lineage, log>>
  BY <1>5 DEF LeaseShape
<1> QED
  BY <1>1, <1>2, <1>3, <1>4, <1>5, StepKinds DEF Create, Retry

\* What SettledIsFinal says of one report in one step.
Keeps(j) ==
  /\ status'[j] = status[j]
  /\ digest'[j] = digest[j]
  /\ attempts'[j] = attempts[j]
  /\ log'[j] = log[j]

\* A row without a worker id cannot be finished, so a settled row stays as it is.
LEMMA SettledStep ==
  ASSUME JobTypeOK, LeaseShape, [JobNext]_jobVars, NEW j \in Job, status[j] \in Terminal
  PROVE  Keeps(j)
<1>1. ASSUME NEW i \in Job, NEW o, InsertQueued(i, o) PROVE Keeps(j)
  BY <1>1 DEF JobTypeOK, InsertQueued, Keeps, Terminal
<1>2. ASSUME NEW i \in Job, NEW w \in Worker, MarkProcessing(i, w) PROVE Keeps(j)
  BY <1>2 DEF JobTypeOK, MarkProcessing, Record, Keeps, Terminal
<1>3. ASSUME NEW i \in Job, NEW t \in Closing, NEW by, Ends(i, t, by) PROVE Keeps(j)
  BY <1>3 DEF JobTypeOK, Ends, CloseAttempt, Record, Keeps, Terminal
<1>4. ASSUME NEW i \in Job, LeaseExpires(i) PROVE Keeps(j)
  BY <1>4 DEF LeaseExpires, Keeps
<1>5. CASE UNCHANGED <<status, attempts, worker, lease, digest, lineage, log>>
  BY <1>5 DEF Keeps
<1> QED
  BY <1>1, <1>2, <1>3, <1>4, <1>5, StepKinds DEF Create, Retry

-----------------------------------------------------------------------------
(* Retries.                                                                *)

\* A child is only inserted under a failed parent, and a failed parent is settled.
LEMMA RetryParentStep ==
  ASSUME JobTypeOK, LeaseShape, RetryParentFailed, [JobNext]_jobVars
  PROVE  RetryParentFailed'
<1>1. \A j \in Job : status[j] = "failed" => status'[j] = "failed"
  BY SettledStep DEF Terminal, Keeps
<1>2. \A j \in Job : lineage[j].parent \in Job \cup {None}
  BY DEF JobTypeOK, Lineage
<1>3. ASSUME NEW j \in Job, Create(j) PROVE RetryParentFailed'
  <2>1. \A c \in Job : lineage'[c] = IF c = j THEN NoLineage ELSE lineage[c]
    BY <1>3 DEF Create, InsertQueued, JobTypeOK
  <2>2. NoLineage.parent = None
    BY DEF NoLineage
  <2>3. \A c \in Job : status[c] # "absent" => status'[c] # "absent"
    BY <1>3 DEF Create, InsertQueued, JobTypeOK
  <2> QED
    BY <1>1, <1>2, <2>1, <2>2, <2>3 DEF RetryParentFailed
<1>4. ASSUME NEW p \in Job, NEW k \in Job, NEW a \in Actor, NEW key \in Key \cup {None},
             Retry(p, k, a, key)
      PROVE  RetryParentFailed'
  <2>1. \A c \in Job : lineage'[c].parent = IF c = k THEN p ELSE lineage[c].parent
    BY <1>4 DEF Retry, InsertQueued, JobTypeOK
  <2>2. \A c \in Job : status'[c] = IF c = k THEN "queued" ELSE status[c]
    BY <1>4 DEF Retry, InsertQueued, JobTypeOK
  <2>3. status'[p] = "failed"
    BY <1>1, <1>4 DEF Retry
  <2> QED
    BY <1>1, <1>2, <2>1, <2>2, <2>3 DEF RetryParentFailed
<1>5. ASSUME lineage' = lineage, \A c \in Job : status[c] # "absent" => status'[c] # "absent"
      PROVE  RetryParentFailed'
  BY <1>1, <1>2, <1>5 DEF RetryParentFailed
<1>6. ASSUME NEW j \in Job, NEW w \in Worker, MarkProcessing(j, w) PROVE RetryParentFailed'
  BY <1>5, <1>6 DEF MarkProcessing, JobTypeOK
<1>7. ASSUME NEW j \in Job, NEW t \in Closing, NEW by, Ends(j, t, by) PROVE RetryParentFailed'
  <2>1. StatusAfter(t) # "absent"
    BY DEF StatusAfter, Closing
  <2> QED
    BY <1>5, <1>7, <2>1 DEF Ends, CloseAttempt, JobTypeOK
<1>8. ASSUME NEW j \in Job, LeaseExpires(j) PROVE RetryParentFailed'
  BY <1>5, <1>8 DEF LeaseExpires
<1>9. CASE UNCHANGED <<status, attempts, worker, lease, digest, lineage, log>>
  BY <1>5, <1>9
<1> QED
  BY <1>3, <1>4, <1>6, <1>7, <1>8, <1>9, StepKinds

-----------------------------------------------------------------------------
(* The attempt timeline.                                                   *)

\* What TimelineFaithful says of one report.
Timeline(j) ==
  /\ Len(log[j]) = IF status[j] = "processing" THEN 2 * attempts[j] - 1 ELSE 2 * attempts[j]
  /\ \A n \in 1..attempts[j] : Attempt(j, n)
  /\ log[j] # <<>> => status[j] = StatusAfter(log[j][Len(log[j])].type)
  /\ status[j] = "processing" => worker[j] = log[j][Len(log[j])].by

\* Every transaction that moves a row appends the event that says so.
LEMMA TimelineStep ==
  ASSUME JobTypeOK, LeaseShape, TimelineFaithful, [JobNext]_jobVars
  PROVE  TimelineFaithful'
<1> SUFFICES ASSUME NEW i \in Job PROVE Timeline(i)'
  BY DEF Timeline, TimelineFaithful
<1>0. Timeline(i) /\ attempts[i] \in Nat /\ log[i] \in Seq(Event) /\ Len(log[i]) \in Nat
  BY DEF Timeline, TimelineFaithful, JobTypeOK
<1>1. ASSUME log'[i] = log[i], attempts'[i] = attempts[i], status'[i] = status[i],
             worker'[i] = worker[i]
      PROVE  Timeline(i)'
  BY <1>0, <1>1 DEF Timeline, Attempt
<1>2. ASSUME NEW j \in Job, NEW o, InsertQueued(j, o) PROVE Timeline(i)'
  <2>1. CASE i = j
    <3>1. status[i] = "absent" /\ status'[i] = "queued" /\ log'[i] = log[i]
          /\ attempts'[i] = attempts[i]
      BY <1>2, <2>1 DEF InsertQueued, JobTypeOK
    <3>2. log[i] = <<>>
      <4> SUFFICES ASSUME log[i] # <<>> PROVE FALSE
        OBVIOUS
      <4>1. StatusAfter(log[i][Len(log[i])].type) = "absent"
        BY <1>0, <3>1 DEF Timeline
      <4>2. Len(log[i]) \in 1..Len(log[i])
        BY <1>0
      <4>3. log[i][Len(log[i])] \in Event
        BY <1>0, <4>2
      <4> QED
        BY <4>1, <4>3 DEF StatusAfter, Event, Closing
    <3> QED
      BY <1>0, <3>1, <3>2 DEF Timeline, Attempt
  <2>2. CASE i # j
    BY <1>1, <1>2, <2>2 DEF InsertQueued, JobTypeOK
  <2> QED
    BY <2>1, <2>2
<1>3. ASSUME NEW j \in Job, NEW w \in Worker, MarkProcessing(j, w) PROVE Timeline(i)'
  <2>1. CASE i = j
    <3> DEFINE e == [type |-> "started", attempt |-> attempts[i] + 1, by |-> w]
    <3>1. /\ status[i] = "queued" /\ status'[i] = "processing"
          /\ attempts'[i] = attempts[i] + 1 /\ worker'[i] = w /\ log'[i] = Append(log[i], e)
      BY <1>3, <2>1 DEF MarkProcessing, Record, JobTypeOK
    <3>2. e \in Event /\ e.type = "started" /\ e.attempt = attempts[i] + 1 /\ e.by = w
      BY <1>0 DEF Event
    <3> HIDE DEF e
    <3>3. Len(log[i]) = 2 * attempts[i]
      BY <1>0, <3>1 DEF Timeline
    <3>4. /\ Len(log'[i]) = 2 * attempts[i] + 1
          /\ log'[i][2 * attempts[i] + 1] = e
          /\ \A n \in 1..2 * attempts[i] : log'[i][n] = log[i][n]
      BY <1>0, <3>1, <3>2, <3>3
    <3>5. ASSUME NEW n \in 1..attempts[i] PROVE Attempt(i, n)'
      <4>1. 2 * n - 1 \in 1..2 * attempts[i] /\ 2 * n \in 1..2 * attempts[i]
        BY <1>0, <3>5
      <4>2. Attempt(i, n)
        BY <1>0, <3>5 DEF Timeline
      <4>3. log'[i][2 * n - 1] = log[i][2 * n - 1] /\ log'[i][2 * n] = log[i][2 * n]
        BY <3>4, <4>1
      <4>4. 2 * n <= Len(log[i])
        BY <1>0, <3>3, <4>1
      <4> QED
        BY <4>2, <4>3, <4>4 DEF Attempt
    <3>6. ASSUME NEW n \in Nat, n = attempts[i] + 1 PROVE Attempt(i, n)'
      <4>1. 2 * n - 1 = 2 * attempts[i] + 1 /\ ~(2 * n <= 2 * attempts[i] + 1)
        BY <1>0, <3>6
      <4> QED
        BY <3>2, <3>4, <3>6, <4>1 DEF Attempt
    <3>7. \A n \in 1..attempts'[i] : Attempt(i, n)'
      <4>1. \A n \in 1..attempts'[i] : n \in 1..attempts[i] \/ (n \in Nat /\ n = attempts[i] + 1)
        BY <1>0, <3>1
      <4> QED
        BY <3>5, <3>6, <4>1
    <3>8. log'[i][Len(log'[i])] = e /\ StatusAfter(e.type) = "processing"
      BY <3>2, <3>4 DEF StatusAfter
    <3>9. Len(log'[i]) = 2 * attempts'[i] - 1
      BY <1>0, <3>1, <3>4
    <3> QED
      BY <3>1, <3>2, <3>7, <3>8, <3>9 DEF Timeline
  <2>2. CASE i # j
    BY <1>1, <1>3, <2>2 DEF MarkProcessing, Record, JobTypeOK
  <2> QED
    BY <2>1, <2>2
<1>4. ASSUME NEW j \in Job, NEW t \in Closing, NEW by \in Worker \cup Actor, Ends(j, t, by)
      PROVE  Timeline(i)'
  <2>1. CASE i = j
    <3> DEFINE e == [type |-> t, attempt |-> attempts[i], by |-> by]
    <3>1. /\ status[i] = "processing" /\ status'[i] = StatusAfter(t)
          /\ attempts'[i] = attempts[i] /\ log'[i] = Append(log[i], e)
          /\ t # "recovered" => by = worker[i]
      BY <1>4, <2>1 DEF Ends, CloseAttempt, Record, JobTypeOK
    <3>2. e \in Event /\ e.type = t /\ e.attempt = attempts[i] /\ e.by = by
      BY <1>0, <1>4 DEF Event
    <3> HIDE DEF e
    <3>3. Len(log[i]) = 2 * attempts[i] - 1 /\ attempts[i] >= 1
          /\ worker[i] = log[i][Len(log[i])].by
      BY <1>0, <3>1 DEF Timeline
    <3>4. /\ Len(log'[i]) = 2 * attempts[i]
          /\ log'[i][2 * attempts[i]] = e
          /\ \A n \in 1..2 * attempts[i] - 1 : log'[i][n] = log[i][n]
      <4>1. /\ Len(log'[i]) = Len(log[i]) + 1
            /\ log'[i][Len(log[i]) + 1] = e
            /\ \A n \in 1..Len(log[i]) : log'[i][n] = log[i][n]
        BY <1>0, <3>1, <3>2
      <4>2. Len(log[i]) + 1 = 2 * attempts[i]
        BY <1>0, <3>3
      <4> QED
        BY <3>3, <4>1, <4>2
    <3>5. ASSUME NEW n \in 1..attempts[i] - 1 PROVE Attempt(i, n)'
      <4>1. 2 * n - 1 \in 1..2 * attempts[i] - 1 /\ 2 * n \in 1..2 * attempts[i] - 1
        BY <1>0, <3>5
      <4>2. Attempt(i, n)
        BY <1>0, <3>5 DEF Timeline
      <4>3. log'[i][2 * n - 1] = log[i][2 * n - 1] /\ log'[i][2 * n] = log[i][2 * n]
        BY <3>4, <4>1
      <4>4. 2 * n <= Len(log[i])
        BY <1>0, <3>3, <4>1
      <4> QED
        BY <4>2, <4>3, <4>4 DEF Attempt
    <3>6. ASSUME NEW n \in Nat, n = attempts[i] PROVE Attempt(i, n)'
      <4>1. Attempt(i, n)
        BY <1>0, <3>3, <3>6 DEF Timeline
      <4>2. 2 * n - 1 \in 1..2 * attempts[i] - 1 /\ 2 * n = 2 * attempts[i]
        BY <1>0, <3>3, <3>6
      <4>3. log'[i][2 * n - 1] = log[i][2 * n - 1]
        BY <3>4, <4>2
      <4>4. log'[i][2 * n] = e
        BY <3>4, <4>2
      <4>5. t # "recovered" => by = log[i][2 * n - 1].by
        BY <3>1, <3>3, <3>6
      <4> QED
        BY <1>4, <3>2, <3>6, <4>1, <4>3, <4>4, <4>5 DEF Attempt
    <3>7. \A n \in 1..attempts'[i] : Attempt(i, n)'
      <4>1. \A n \in 1..attempts'[i] : n \in 1..attempts[i] - 1 \/ (n \in Nat /\ n = attempts[i])
        BY <1>0, <3>1
      <4> QED
        BY <3>5, <3>6, <4>1
    <3>8. status'[i] # "processing"
      BY <1>4, <3>1 DEF StatusAfter, Closing
    <3>9. log'[i][Len(log'[i])] = e
      BY <3>4
    <3> QED
      BY <3>1, <3>2, <3>4, <3>7, <3>8, <3>9 DEF Timeline
  <2>2. CASE i # j
    BY <1>1, <1>4, <2>2 DEF Ends, CloseAttempt, Record, JobTypeOK
  <2> QED
    BY <2>1, <2>2
<1>5. ASSUME NEW j \in Job, LeaseExpires(j) PROVE Timeline(i)'
  BY <1>1, <1>5 DEF LeaseExpires
<1>6. CASE UNCHANGED <<status, attempts, worker, lease, digest, lineage, log>>
  BY <1>1, <1>6
<1> QED
  BY <1>2, <1>3, <1>4, <1>5, <1>6, StepKinds DEF Create, Retry

-----------------------------------------------------------------------------
(* The theorems.                                                           *)

\* The properties of the tables together.
JobInv ==
  JobTypeOK /\ LeaseShape /\ TimelineFaithful /\ RetryParentFailed

\* Empty tables satisfy the invariant.
LEMMA JobInvInit == JobInit => JobInv
<1> SUFFICES ASSUME JobInit PROVE JobInv
  OBVIOUS
<1>1. JobTypeOK
  BY JobTypeInit
<1>2. LeaseShape /\ TimelineFaithful
  BY DEF JobInit, LeaseShape, TimelineFaithful
<1>3. \A c \in Job : lineage[c].parent = None
  BY DEF JobInit, NoLineage
<1> QED
  BY <1>1, <1>2, <1>3 DEF JobInv, RetryParentFailed

\* Every transaction preserves the invariant.
LEMMA JobInvStep == JobInv /\ [JobNext]_jobVars => JobInv'
BY JobTypeStep, LeaseShapeStep, TimelineStep, RetryParentStep
   DEF JobInv

\* The repository keeps every property of the tables, whoever calls it, in
\* whatever order and with whatever worker, dispatcher and administrator ids.
THEOREM TablesCorrect == JobSpec => []JobInv
BY JobInvInit, JobInvStep, PTL DEF JobSpec

\* A completed or failed report is final: no late handler, no second retry of its
\* id and no recovery changes its status, digest, attempt count or timeline.
THEOREM SettledForGood == JobSpec => SettledIsFinal
<1>1. JobInv /\ [JobNext]_jobVars => [\A j \in Job : status[j] \in Terminal =>
                                        /\ status'[j] = status[j]
                                        /\ digest'[j] = digest[j]
                                        /\ attempts'[j] = attempts[j]
                                        /\ log'[j] = log[j]]_jobVars
  BY SettledStep DEF JobInv, Keeps
<1> QED
  BY <1>1, TablesCorrect, PTL DEF JobSpec, SettledIsFinal

-----------------------------------------------------------------------------
(* The tables implement the lifecycle.                                     *)

\* The phase a status stands for.
LEMMA Phases ==
  /\ PhaseOf["absent"] = "unknown" /\ PhaseOf["queued"] = "waiting"
  /\ PhaseOf["processing"] = "running" /\ PhaseOf["completed"] = "completed"
  /\ PhaseOf["failed"] = "failed"
BY DEF PhaseOf

\* Empty tables are a client's view of no reports.
LEMMA LifecycleInit == JobInit => Lifecycle!Init
<1> SUFFICES ASSUME JobInit PROVE Lifecycle!Init
  OBVIOUS
<1>1. [j \in Job |-> PhaseOf[status[j]]] = [j \in Job |-> "unknown"]
  BY Phases DEF JobInit
<1>2. [j \in Job |-> lineage[j].parent] = [j \in Job |-> None]
  BY DEF JobInit, NoLineage
<1> QED
  BY <1>1, <1>2 DEF JobInit, Lifecycle!Init

\* Every transaction is a step of the promised lifecycle or invisible to it.
LEMMA LifecycleStep ==
  ASSUME JobTypeOK, LeaseShape, [JobNext]_jobVars
  PROVE  [Lifecycle!Next]_Lifecycle!lifecycleVars
<1> DEFINE phase == [j \in Job |-> PhaseOf[status[j]]]
           parent == [j \in Job |-> lineage[j].parent]
<1>1. ASSUME NEW j \in Job, NEW o \in Lineage, InsertQueued(j, o),
             o.parent # None => status[o.parent] = "failed"
      PROVE  Lifecycle!Accept(j, o.parent) /\ o.parent \in Job \cup {None}
  <2>1. o.parent \in Job \cup {None}
    BY DEF Lineage
  <2>2. phase[j] = "unknown" /\ (o.parent # None => phase[o.parent] = "failed")
    BY <1>1, <2>1, Phases DEF InsertQueued
  <2>3. phase' = [phase EXCEPT ![j] = "waiting"]
    BY <1>1, Phases DEF InsertQueued, JobTypeOK
  <2>4. parent' = [parent EXCEPT ![j] = o.parent]
    BY <1>1 DEF InsertQueued, JobTypeOK
  <2> QED
    BY <1>1, <2>1, <2>2, <2>3, <2>4 DEF InsertQueued, Lifecycle!Accept
<1>2. ASSUME NEW j \in Job, Create(j) PROVE Lifecycle!Next
  <2>1. NoLineage \in Lineage /\ NoLineage.parent = None
    BY DEF NoLineage, Lineage
  <2> QED
    BY <1>1, <1>2, <2>1 DEF Create, Lifecycle!Next
<1>3. ASSUME NEW p \in Job, NEW c \in Job, NEW a \in Actor, NEW k \in Key \cup {None},
             Retry(p, c, a, k)
      PROVE  Lifecycle!Next
  <2> DEFINE o == [parent |-> p, actor |-> a, key |-> k]
  <2>1. o \in Lineage /\ o.parent = p
    BY DEF Lineage
  <2>2. InsertQueued(c, o) /\ status[p] = "failed"
    BY <1>3 DEF Retry
  <2> HIDE DEF o
  <2> QED
    BY <1>1, <2>1, <2>2 DEF Lifecycle!Next
<1>4. ASSUME NEW j \in Job, NEW w \in Worker, MarkProcessing(j, w) PROVE Lifecycle!Next
  <2>1. phase[j] = "waiting" /\ phase' = [phase EXCEPT ![j] = "running"]
    BY <1>4, Phases DEF MarkProcessing, JobTypeOK
  <2>2. Lifecycle!Start(j)
    BY <1>4, <2>1 DEF MarkProcessing, Lifecycle!Start
  <2> QED
    BY <2>2 DEF Lifecycle!Next
<1>5. ASSUME NEW j \in Job, NEW t \in Closing, NEW by, Ends(j, t, by) PROVE Lifecycle!Next
  <2>1. phase[j] = "running" /\ phase' = [phase EXCEPT ![j] = PhaseOf[StatusAfter(t)]]
    BY <1>5, Phases DEF Ends, CloseAttempt, JobTypeOK
  <2>2. UNCHANGED <<attempts, parent>>
    BY <1>5 DEF Ends
  <2>3. CASE t = "completed"
    <3>1. PhaseOf[StatusAfter(t)] = "completed"
      BY <2>3, Phases DEF StatusAfter
    <3>2. \E n \in 1..attempts[j] : digest' = [digest EXCEPT ![j] = n]
      BY <1>5, <2>3 DEF Ends
    <3>3. Lifecycle!Complete(j)
      BY <2>1, <2>2, <3>1, <3>2 DEF Lifecycle!Complete
    <3> QED
      BY <3>3 DEF Lifecycle!Next
  <2>4. CASE t = "failed"
    <3>1. PhaseOf[StatusAfter(t)] = "failed" /\ digest' = digest
      BY <1>5, <2>4, Phases DEF StatusAfter, Ends
    <3>2. Lifecycle!Fail(j)
      BY <2>1, <2>2, <3>1 DEF Lifecycle!Fail
    <3> QED
      BY <3>2 DEF Lifecycle!Next
  <2>5. CASE t \in {"retry", "recovered"}
    <3>1. PhaseOf[StatusAfter(t)] = "waiting" /\ digest' = digest
      BY <1>5, <2>5, Phases DEF StatusAfter, Ends
    <3>2. Lifecycle!Requeue(j)
      BY <2>1, <2>2, <3>1 DEF Lifecycle!Requeue
    <3> QED
      BY <3>2 DEF Lifecycle!Next
  <2> QED
    BY <1>5, <2>3, <2>4, <2>5 DEF Closing
<1>6. ASSUME UNCHANGED <<status, attempts, digest, lineage>>
      PROVE  UNCHANGED Lifecycle!lifecycleVars
  BY <1>6 DEF Lifecycle!lifecycleVars
<1> QED
  BY <1>2, <1>3, <1>4, <1>5, <1>6, StepKinds DEF LeaseExpires

\* Whatever the callers do, the rows move only along the promised lifecycle: the
\* outbox, claims, leases, heartbeats and timelines are invisible to a client.
THEOREM TablesImplementLifecycle == JobSpec => ImplementsLifecycle
<1>1. JobInv /\ [JobNext]_jobVars => [Lifecycle!Next]_Lifecycle!lifecycleVars
  BY LifecycleStep DEF JobInv
<1> QED
  BY <1>1, LifecycleInit, TablesCorrect, PTL DEF JobSpec, ImplementsLifecycle, Lifecycle!Spec

=============================================================================
