----------------------------- MODULE ReportJobs -----------------------------
(***************************************************************************)
(* The PostgreSQL side of report processing: the tables report_jobs,       *)
(* report_attempt_events, report_outbox and worker_heartbeats, and one     *)
(* action per transaction of jobs.Repository (internal/jobs/jobs.go).      *)
(* Every action is one committed transaction.  A transaction that rolls    *)
(* back leaves these tables alone, so it is the caller's business          *)
(* (module ReportPipeline).                                                *)
(*                                                                         *)
(* Time is abstracted to the comparisons the code makes with now(): a      *)
(* lease or lock is held or expired, an outbox row is available or backing *)
(* off, a heartbeat is younger or older than 30 seconds.                   *)
(***************************************************************************)
EXTENDS Naturals, Sequences

CONSTANTS
  Job,      \* report job ids (ULIDs), used or not
  Worker,   \* worker process ids: one per process incarnation
  Owner,    \* dispatcher ids, the values of locked_by
  Actor,    \* administrators who retry or recover
  Key,      \* idempotency keys of retry requests
  None      \* SQL NULL

ASSUME NoneAssumption ==
  None \notin Job \cup Worker \cup Owner \cup Actor \cup Key \cup Nat \cup {"held", "expired"}

VARIABLES
  status,    \* report_jobs.status, "absent" before the INSERT
  attempts,  \* report_jobs.attempts
  worker,    \* report_jobs.processing_worker_id
  lease,     \* processing_lease_until: None, "held" or "expired"
  digest,    \* report_jobs.sha256: None, or the attempt whose PDF was recorded
  lineage,   \* retry_parent_id, requested_by and retry_idempotency_key
  log,       \* report_attempt_events of the job, in insertion order
  outbox,    \* the report_outbox row of the job
  online     \* workers with a heartbeat in the last 30 seconds

jobVars == <<status, attempts, worker, lease, digest, lineage, log, outbox, online>>

Status   == {"absent", "queued", "processing", "completed", "failed"}
Terminal == {"completed", "failed"}
Closing  == {"retry", "failed", "completed", "recovered"}

NoLineage == [parent |-> None, actor |-> None, key |-> None]

\* A report_outbox row.  present: the row exists; available: available_at has
\* passed; owner: locked_by; expired: locked_until has passed.
NoRow    == [present |-> FALSE, available |-> FALSE, owner |-> None, expired |-> FALSE]
FreshRow == [present |-> TRUE,  available |-> TRUE,  owner |-> None, expired |-> FALSE]

Event   == [type : {"started"} \cup Closing, attempt : Nat, by : Worker \cup Actor]
Lineage == [parent : Job \cup {None}, actor : Actor \cup {None}, key : Key \cup {None}]
Row     == [present : BOOLEAN, available : BOOLEAN,
            owner : Owner \cup {None}, expired : BOOLEAN]

JobTypeOK ==
  /\ status   \in [Job -> Status]
  /\ attempts \in [Job -> Nat]
  /\ worker   \in [Job -> Worker \cup {None}]
  /\ lease    \in [Job -> {None, "held", "expired"}]
  /\ digest   \in [Job -> Nat \cup {None}]
  /\ lineage  \in [Job -> Lineage]
  /\ log      \in [Job -> Seq(Event)]
  /\ outbox   \in [Job -> Row]
  /\ online   \in SUBSET Worker

JobInit ==
  /\ status   = [j \in Job |-> "absent"]
  /\ attempts = [j \in Job |-> 0]
  /\ worker   = [j \in Job |-> None]
  /\ lease    = [j \in Job |-> None]
  /\ digest   = [j \in Job |-> None]
  /\ lineage  = [j \in Job |-> NoLineage]
  /\ log      = [j \in Job |-> <<>>]
  /\ outbox   = [j \in Job |-> NoRow]
  /\ online   = Worker

-----------------------------------------------------------------------------
(* Submission and retry.                                                   *)

\* INSERT INTO report_jobs and INSERT INTO report_outbox, one transaction.
InsertQueued(j, origin) ==
  /\ status[j] = "absent"
  /\ status'  = [status EXCEPT ![j] = "queued"]
  /\ lineage' = [lineage EXCEPT ![j] = origin]
  /\ outbox'  = [outbox EXCEPT ![j] = FreshRow]
  /\ UNCHANGED <<attempts, worker, lease, digest, log, online>>

\* Create: the submissions that pass template resolution, the schema-hash
\* precondition and contract validation; the others write nothing.
Create(j) == InsertQueued(j, NoLineage)

\* The replay lookup of Retry and the unique index behind it: an empty
\* Idempotency-Key (None) never matches.
Replayed(parent, actor, key) ==
  /\ key # None
  /\ \E c \in Job : lineage[c] = [parent |-> parent, actor |-> actor, key |-> key]

\* Retry: a new child of a failed parent.  The parent row is locked FOR UPDATE
\* and left alone.  A replay returns the existing child and writes nothing; the
\* parent's version was published when it ran and published rows never change,
\* so the ErrTemplateGone branch is not reachable.
Retry(parent, child, actor, key) ==
  /\ status[parent] = "failed"
  /\ ~Replayed(parent, actor, key)
  /\ InsertQueued(child, [parent |-> parent, actor |-> actor, key |-> key])

-----------------------------------------------------------------------------
(* The transactional outbox.                                               *)

\* Mutant: an expired lock is never taken over.
ClaimableUnlocked(j) ==
  outbox[j].present /\ outbox[j].available /\ outbox[j].owner = None

Claimable(j) ==
  /\ outbox[j].present /\ outbox[j].available
  /\ outbox[j].owner = None \/ outbox[j].expired

\* ClaimOutbox: lock a batch.  LIMIT and SKIP LOCKED may leave claimable rows out.
ClaimOutbox(batch, owner) ==
  /\ batch # {} /\ \A j \in batch : Claimable(j)
  /\ outbox' = [j \in Job |->
                  IF j \in batch THEN [outbox[j] EXCEPT !.owner = owner, !.expired = FALSE]
                                 ELSE outbox[j]]
  /\ UNCHANGED <<status, attempts, worker, lease, digest, lineage, log, online>>

\* Mutant: DELETE without the locked_by test.
CompleteOutboxUnowned(j, owner) ==
  /\ outbox' = [outbox EXCEPT ![j] = NoRow]
  /\ UNCHANGED <<status, attempts, worker, lease, digest, lineage, log, online>>

\* CompleteOutbox: DELETE ... WHERE locked_by = owner; no matching row is no error.
CompleteOutbox(j, owner) ==
  /\ outbox' = IF outbox[j].owner = owner THEN [outbox EXCEPT ![j] = NoRow] ELSE outbox
  /\ UNCHANGED <<status, attempts, worker, lease, digest, lineage, log, online>>

\* RetryOutbox: back off and unlock, again only for the row's owner.
RetryOutbox(j, owner) ==
  /\ outbox' = IF outbox[j].owner = owner
                 THEN [outbox EXCEPT ![j] = [FreshRow EXCEPT !.available = FALSE]]
                 ELSE outbox
  /\ UNCHANGED <<status, attempts, worker, lease, digest, lineage, log, online>>

-----------------------------------------------------------------------------
(* Attempts.                                                               *)

Record(j, type, n, by) ==
  log' = [log EXCEPT ![j] = Append(@, [type |-> type, attempt |-> n, by |-> by])]

\* Mutant: the claim does not test the status.
MarkProcessingUnchecked(j, w) ==
  /\ status'   = [status EXCEPT ![j] = "processing"]
  /\ attempts' = [attempts EXCEPT ![j] = @ + 1]
  /\ worker'   = [worker EXCEPT ![j] = w]
  /\ lease'    = [lease EXCEPT ![j] = "held"]
  /\ Record(j, "started", attempts[j] + 1, w)
  /\ UNCHANGED <<digest, lineage, outbox, online>>

\* MarkProcessing, when UPDATE ... WHERE status='queued' finds the row.
MarkProcessing(j, w) ==
  /\ status[j] = "queued"
  /\ status'   = [status EXCEPT ![j] = "processing"]
  /\ attempts' = [attempts EXCEPT ![j] = @ + 1]
  /\ worker'   = [worker EXCEPT ![j] = w]
  /\ lease'    = [lease EXCEPT ![j] = "held"]
  /\ Record(j, "started", attempts[j] + 1, w)
  /\ UNCHANGED <<digest, lineage, outbox, online>>

\* What every transaction that ends an attempt writes.
CloseAttempt(j, newStatus, type, by) ==
  /\ status' = [status EXCEPT ![j] = newStatus]
  /\ worker' = [worker EXCEPT ![j] = None]
  /\ lease'  = [lease EXCEPT ![j] = None]
  /\ Record(j, type, attempts[j], by)

\* Mutant: completion is not fenced by the worker id.
MarkCompletedUnfenced(j, w, pdf) ==
  /\ status[j] = "processing"
  /\ CloseAttempt(j, "completed", "completed", w)
  /\ digest' = [digest EXCEPT ![j] = pdf]
  /\ UNCHANGED <<attempts, lineage, outbox, online>>

\* MarkCompleted.  The storage_objects row, its placement and the job row get
\* the same key and digest in this one transaction; digest stands for all three.
MarkCompleted(j, w, pdf) ==
  /\ status[j] = "processing" /\ worker[j] = w
  /\ CloseAttempt(j, "completed", "completed", w)
  /\ digest' = [digest EXCEPT ![j] = pdf]
  /\ UNCHANGED <<attempts, lineage, outbox, online>>

\* Mutant: a failure or a retry is not fenced by the worker id.
FinishAttemptUnfenced(j, w, newStatus, type) ==
  /\ CloseAttempt(j, newStatus, type, w)
  /\ UNCHANGED <<attempts, digest, lineage, outbox, online>>

\* finishAttempt: its UPDATE tests the worker id only, neither status nor attempt.
FinishAttempt(j, w, newStatus, type) ==
  /\ worker[j] = w
  /\ CloseAttempt(j, newStatus, type, w)
  /\ UNCHANGED <<attempts, digest, lineage, outbox, online>>

MarkFailed(j, w) == FinishAttempt(j, w, "failed", "failed")
MarkRetry(j, w)  == FinishAttempt(j, w, "queued", "retry")

\* Mutant: recovery without the lease and heartbeat tests.
RecoverableAnytime(j) == status[j] = "processing"

Recoverable(j) ==
  /\ status[j] = "processing"
  /\ lease[j] = "expired"
  /\ worker[j] \notin online

\* RecoverStale: requeue the job and insert or unlock its outbox row.
RecoverStale(j, actor) ==
  /\ Recoverable(j)
  /\ CloseAttempt(j, "queued", "recovered", actor)
  /\ outbox' = [outbox EXCEPT ![j] = FreshRow]
  /\ UNCHANGED <<attempts, digest, lineage, online>>

-----------------------------------------------------------------------------
(* Heartbeats and the passage of time.                                     *)

Heartbeat(w) ==
  /\ w \notin online
  /\ online' = online \cup {w}
  /\ UNCHANGED <<status, attempts, worker, lease, digest, lineage, log, outbox>>

HeartbeatAges(w) ==
  /\ w \in online
  /\ online' = online \ {w}
  /\ UNCHANGED <<status, attempts, worker, lease, digest, lineage, log, outbox>>

LeaseExpires(j) ==
  /\ lease[j] = "held"
  /\ lease' = [lease EXCEPT ![j] = "expired"]
  /\ UNCHANGED <<status, attempts, worker, digest, lineage, log, outbox, online>>

LockExpires(j) ==
  /\ outbox[j].owner # None /\ ~outbox[j].expired
  /\ outbox' = [outbox EXCEPT ![j].expired = TRUE]
  /\ UNCHANGED <<status, attempts, worker, lease, digest, lineage, log, online>>

BackoffElapses(j) ==
  /\ outbox[j].present /\ ~outbox[j].available
  /\ outbox' = [outbox EXCEPT ![j].available = TRUE]
  /\ UNCHANGED <<status, attempts, worker, lease, digest, lineage, log, online>>

-----------------------------------------------------------------------------
(* Any caller, any legal arguments: what holds here holds for every client *)
(* of the repository.  A caller completes a report with the PDF of an      *)
(* attempt that has begun; nothing ties it to the attempt that is open.    *)

JobNext ==
  \/ \E j \in Job : Create(j) \/ LeaseExpires(j) \/ LockExpires(j) \/ BackoffElapses(j)
  \/ \E p, c \in Job, a \in Actor, k \in Key \cup {None} : Retry(p, c, a, k)
  \/ \E S \in SUBSET Job, o \in Owner : ClaimOutbox(S, o)
  \/ \E j \in Job, o \in Owner : CompleteOutbox(j, o) \/ RetryOutbox(j, o)
  \/ \E j \in Job, w \in Worker : MarkProcessing(j, w) \/ MarkFailed(j, w) \/ MarkRetry(j, w)
  \/ \E j \in Job, w \in Worker : \E n \in 1..attempts[j] : MarkCompleted(j, w, n)
  \/ \E j \in Job, a \in Actor : RecoverStale(j, a)
  \/ \E w \in Worker : Heartbeat(w) \/ HeartbeatAges(w)

JobSpec == JobInit /\ [][JobNext]_jobVars

-----------------------------------------------------------------------------
(* Properties of the tables.                                               *)

\* A worker and a lease are recorded exactly while the job is processing.
\* finishAttempt relies on it: with only the worker id in its WHERE clause, a
\* worker id left behind on a settled row would let a late handler reopen it.
LeaseShape ==
  \A j \in Job :
    /\ (status[j] = "processing") <=> (worker[j] # None)
    /\ (worker[j] = None) <=> (lease[j] = None)

\* The status the newest event of an attempt timeline leaves the job in.
StatusAfter(type) ==
  CASE type = "started"                -> "processing"
    [] type = "completed"              -> "completed"
    [] type = "failed"                 -> "failed"
    [] type \in {"retry", "recovered"} -> "queued"

\* Attempt n of job j has its started event at place 2n-1 and at most one
\* closing event at place 2n, by the same worker unless it was recovered.
Attempt(j, n) ==
  /\ log[j][2 * n - 1].type = "started"
  /\ log[j][2 * n - 1].attempt = n
  /\ 2 * n <= Len(log[j]) =>
       /\ log[j][2 * n].type \in Closing
       /\ log[j][2 * n].attempt = n
       /\ log[j][2 * n].type # "recovered" => log[j][2 * n].by = log[j][2 * n - 1].by

\* The attempt timeline is a faithful history of the row: it consists of the
\* attempts begun, only the newest may be open, its worker is the row's, and the
\* last event agrees with the row's status.
TimelineFaithful ==
  \A j \in Job :
    /\ Len(log[j]) = IF status[j] = "processing" THEN 2 * attempts[j] - 1 ELSE 2 * attempts[j]
    /\ \A n \in 1..attempts[j] : Attempt(j, n)
    /\ log[j] # <<>> => status[j] = StatusAfter(log[j][Len(log[j])].type)
    /\ status[j] = "processing" => worker[j] = log[j][Len(log[j])].by

\* A report is retried only once it has failed, and it stays failed however its children fare
\* ("the failed row and any existing PDF are untouched").  The worker that failed it, or lost it
\* to a recovery before another failed it, may still be running: a late MarkRetry would put the
\* parent back in the queue beside its child, were it not for the worker id (jobs.go:420).
RetryParentFailed ==
  \A c \in Job : lineage[c].parent # None =>
    /\ status[c] # "absent"
    /\ status[lineage[c].parent] = "failed"

\* A settled report never changes again: neither its status nor its digest nor
\* its attempt count nor its timeline.
SettledIsFinal ==
  [][\A j \in Job : status[j] \in Terminal =>
       /\ status'[j] = status[j]
       /\ digest'[j] = digest[j]
       /\ attempts'[j] = attempts[j]
       /\ log'[j] = log[j]]_jobVars

-----------------------------------------------------------------------------
(* The tables implement the lifecycle a client is promised.                *)

PhaseOf == [absent |-> "unknown", queued |-> "waiting", processing |-> "running",
            completed |-> "completed", failed |-> "failed"]

Lifecycle == INSTANCE ReportLifecycle WITH
  NoJob <- None, NoArtifact <- None,
  phase <- [j \in Job |-> PhaseOf[status[j]]],
  tries <- attempts,
  artifact <- digest,
  parent <- [j \in Job |-> lineage[j].parent]

\* Whatever crashes, stalls, timeouts, lost answers and recoveries do, every step
\* is a step of the lifecycle or invisible to it.
ImplementsLifecycle == Lifecycle!Spec

=============================================================================
