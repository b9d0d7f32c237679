--------------------------- MODULE ReportPipeline ---------------------------
(***************************************************************************)
(* Report processing end to end: the tables of ReportJobs, the outbox      *)
(* dispatchers and worker processes of internal/queue/queue.go, the Asynq  *)
(* task queue between them, and the PDF objects workers store.             *)
(*                                                                         *)
(* A dispatcher runs in every API process; a worker process runs many      *)
(* handlers under one worker id.  Handlers are interleaved statement by    *)
(* statement: every database call, every render and every storage write    *)
(* is a step of its own.  Faults (process crashes, stalls, failed calls,   *)
(* committed transactions whose answer is lost) spend a budget, so that a  *)
(* configuration says exactly which faults it admits and how many.         *)
(***************************************************************************)
EXTENDS ReportJobs, FiniteSets

CONSTANTS
  Handler,    \* handler goroutines, cancelled ones that still run included
  WorkerOf,   \* the worker process each handler belongs to
  MaxRetry,   \* asynq.MaxRetry: redeliveries after the first delivery
  Faults      \* bounds on the faults and recoveries of a behaviour

FaultKind == {"crash", "abort", "timeout", "stall", "dispatcher",
              "redis", "db", "lost"}

\* Behaviours are bounded in the faults of each kind, in the faults of any kind
\* together, and in the recoveries an operator asks for.
Bounds == FaultKind \cup {"any", "recover"}

ASSUME PipelineAssumption ==
  /\ WorkerOf \in [Handler -> Worker]
  /\ MaxRetry \in Nat
  /\ Faults \in [Bounds -> Nat]

VARIABLES
  task,       \* the Asynq task whose TaskID is the job id
  dispatcher, \* what each dispatcher has claimed and is settling
  handler,    \* the state of each handler goroutine
  up,         \* worker processes that run
  blob,       \* stored PDF of the job: the attempt that wrote it, 0 for none
  handed,     \* history: jobs enqueued since their outbox row was written or reset
  budget      \* faults still to spend

queueVars == <<task, dispatcher, handler, up, blob, handed, budget>>
vars == <<jobVars, queueVars>>

TaskState == {"none", "pending", "active", "retry", "archived"}
NoTask    == [state |-> "none", retried |-> 0]
PC        == {"idle", "get", "claim", "render", "put", "complete", "fail", "done", "error"}

\* held: Asynq still waits for this handler.  lost: its Asynq lease ran out
\* unnoticed (the process stalled).  dead: its context is cancelled, so every
\* call that takes the context fails.
Mode == {"held", "lost", "dead"}

IdleHandler    == [pc |-> "idle", job |-> None, retried |-> 0, pdf |-> 0, mode |-> "held"]
IdleDispatcher == [batch |-> {}, job |-> None, ok |-> FALSE]

Task       == [state : TaskState, retried : 0..MaxRetry]
Goroutine  == [pc : PC, job : Job \cup {None}, retried : 0..MaxRetry, pdf : Nat, mode : Mode]
Settlement == [batch : SUBSET Job, job : Job \cup {None}, ok : BOOLEAN]

TypeOK ==
  /\ JobTypeOK
  /\ task       \in [Job -> Task]
  /\ dispatcher \in [Owner -> Settlement]
  /\ handler    \in [Handler -> Goroutine]
  /\ up         \in SUBSET Worker
  /\ blob       \in [Job -> Nat]
  /\ handed     \in SUBSET Job
  /\ budget     \in [Bounds -> Nat]

Init ==
  /\ JobInit
  /\ task       = [j \in Job |-> NoTask]
  /\ dispatcher = [d \in Owner |-> IdleDispatcher]
  /\ handler    = [h \in Handler |-> IdleHandler]
  /\ up         = Worker
  /\ blob       = [j \in Job |-> 0]
  /\ handed     = {}
  /\ budget     = Faults

Spend(kind) ==
  /\ budget[kind] > 0 /\ budget["any"] > 0
  /\ budget' = [budget EXCEPT ![kind] = @ - 1, !["any"] = @ - 1]

-----------------------------------------------------------------------------
(* Requests to the API.                                                    *)

Submit(j) ==
  /\ Create(j)
  /\ handed' = handed \ {j}
  /\ UNCHANGED <<task, dispatcher, handler, up, blob, budget>>

RetryReport(parent, child, actor, key) ==
  /\ Retry(parent, child, actor, key)
  /\ handed' = handed \ {child}
  /\ UNCHANGED <<task, dispatcher, handler, up, blob, budget>>

RecoverReport(j, actor) ==
  /\ budget["recover"] > 0
  /\ budget' = [budget EXCEPT !["recover"] = @ - 1]
  /\ RecoverStale(j, actor)
  /\ handed' = handed \ {j}
  /\ UNCHANGED <<task, dispatcher, handler, up, blob>>

-----------------------------------------------------------------------------
(* Dispatcher.dispatch: claim a batch, then enqueue and settle item by     *)
(* item.                                                                   *)

DispatchClaim(d) ==
  /\ dispatcher[d] = IdleDispatcher
  /\ \E batch \in SUBSET Job :
       /\ ClaimOutbox(batch, d)
       /\ dispatcher' = [dispatcher EXCEPT ![d].batch = batch]
  /\ UNCHANGED <<task, handler, up, blob, handed, budget>>

\* Client.Enqueue reaches Redis.  A task id that exists in any state, archived
\* included, is a conflict, which Enqueue reports as success.
Enqueued(j) ==
  task' = IF task[j].state = "none" THEN [task EXCEPT ![j].state = "pending"] ELSE task

Sent(d, j, ok) ==
  dispatcher' = [dispatcher EXCEPT ![d] = [batch |-> @.batch \ {j}, job |-> j, ok |-> ok]]

DispatchEnqueue(d, j) ==
  /\ j \in dispatcher[d].batch /\ dispatcher[d].job = None
  /\ \/ Enqueued(j) /\ Sent(d, j, TRUE) /\ handed' = handed \cup {j} /\ UNCHANGED budget
     \/ \* Redis is down, or its answer is lost after the task was stored.
        /\ Spend("redis") /\ Sent(d, j, FALSE)
        /\ Enqueued(j) \/ UNCHANGED task
        /\ UNCHANGED handed
  /\ UNCHANGED <<jobVars, handler, up, blob>>

\* Mutant: the row is deleted whether the enqueue worked or not.
DispatchSettleAlways(d) ==
  LET j == dispatcher[d].job IN
  /\ j # None
  /\ CompleteOutbox(j, d)
  /\ dispatcher' = [dispatcher EXCEPT ![d].job = None, ![d].ok = FALSE]
  /\ UNCHANGED <<task, handler, up, blob, handed, budget>>

\* CompleteOutbox or RetryOutbox; a database error is logged and the row stays locked.
DispatchSettle(d) ==
  LET j == dispatcher[d].job IN
  /\ j # None
  /\ \/ /\ IF dispatcher[d].ok THEN CompleteOutbox(j, d) ELSE RetryOutbox(j, d)
        /\ UNCHANGED budget
     \/ Spend("db") /\ UNCHANGED jobVars
  /\ dispatcher' = [dispatcher EXCEPT ![d].job = None, ![d].ok = FALSE]
  /\ UNCHANGED <<task, handler, up, blob, handed>>

\* The API process dies; its successor has a new owner id and no batch, which
\* an idle owner without claims stands for.
DispatchCrash(d) ==
  /\ dispatcher[d] # IdleDispatcher
  /\ Spend("dispatcher")
  /\ dispatcher' = [dispatcher EXCEPT ![d] = IdleDispatcher]
  /\ UNCHANGED <<jobVars, task, handler, up, blob, handed>>

-----------------------------------------------------------------------------
(* The Asynq server, as the handlers see it.                               *)

\* Asynq's failure path: retry with backoff, or archive once retries are spent.
Failed(t) == IF t.retried >= MaxRetry THEN [t EXCEPT !.state = "archived"]
                                      ELSE [state |-> "retry", retried |-> t.retried + 1]

Waits(h, j) == handler[h].pc # "idle" /\ handler[h].job = j /\ handler[h].mode = "held"

Deliver(h, j) ==
  /\ WorkerOf[h] \in up /\ handler[h].pc = "idle"
  /\ task[j].state = "pending"
  /\ task' = [task EXCEPT ![j].state = "active"]
  /\ handler' = [handler EXCEPT ![h] =
                   [pc |-> "get", job |-> j, retried |-> task[j].retried, pdf |-> 0, mode |-> "held"]]
  /\ UNCHANGED <<jobVars, dispatcher, up, blob, handed, budget>>

RetryDue(j) ==
  /\ task[j].state = "retry"
  /\ task' = [task EXCEPT ![j].state = "pending"]
  /\ UNCHANGED <<jobVars, dispatcher, handler, up, blob, handed, budget>>

\* Another server's recoverer takes back an active task nobody extends.
AsynqRecover(j) ==
  /\ task[j].state = "active" /\ up # {}
  /\ \A h \in Handler : ~Waits(h, j)
  /\ task' = [task EXCEPT ![j] = Failed(@)]
  /\ UNCHANGED <<jobVars, dispatcher, handler, up, blob, handed, budget>>

\* The task deadline passes: Asynq fails the task at once; the goroutine goes on
\* with a cancelled context.
TaskTimeout(h) ==
  LET j == handler[h].job IN
  /\ handler[h].pc # "idle" /\ handler[h].mode = "held"
  /\ Spend("timeout")
  /\ task' = [task EXCEPT ![j] = Failed(@)]
  /\ handler' = [handler EXCEPT ![h].mode = "dead"]
  /\ UNCHANGED <<jobVars, dispatcher, up, blob, handed>>

\* A resumed process notices that its Asynq lease is gone and cancels the context.
NoticeLost(h) ==
  /\ handler[h].mode = "lost"
  /\ handler' = [handler EXCEPT ![h].mode = "dead"]
  /\ UNCHANGED <<jobVars, task, dispatcher, up, blob, handed, budget>>

-----------------------------------------------------------------------------
(* Worker.handleReport, one step per call.                                 *)

At(h, pc)   == handler[h].pc = pc
Goto(h, pc) == handler' = [handler EXCEPT ![h].pc = pc]
Live(h)     == handler[h].mode # "dead"

\* A call that takes the context fails: always once cancelled, else as a fault.
CallFails(h) == IF Live(h) THEN Spend("db") ELSE UNCHANGED budget

\* reports.Get, and the test of the status it read.
LoadJob(h) ==
  /\ At(h, "get")
  /\ \/ /\ Live(h) /\ UNCHANGED budget
        /\ Goto(h, IF status[handler[h].job] = "queued" THEN "claim" ELSE "done")
     \/ CallFails(h) /\ Goto(h, "fail")
  /\ UNCHANGED <<jobVars, task, dispatcher, up, blob, handed>>

\* MarkProcessing.  A job somebody else claimed meanwhile is dropped without error;
\* a failed call, committed or not, is a plain error that never reaches handleFailure.
ClaimJob(h) ==
  LET j == handler[h].job IN
  /\ At(h, "claim")
  /\ \/ /\ Live(h) /\ UNCHANGED budget
        /\ MarkProcessing(j, WorkerOf[h])
        /\ handler' = [handler EXCEPT ![h].pc = "render", ![h].pdf = attempts[j] + 1]
     \/ /\ Live(h) /\ status[j] # "queued" /\ Goto(h, "done")
        /\ UNCHANGED <<jobVars, budget>>
     \/ CallFails(h) /\ Goto(h, "error") /\ UNCHANGED jobVars
     \/ /\ Live(h) /\ Spend("lost") /\ Goto(h, "error")
        /\ MarkProcessing(j, WorkerOf[h])
  /\ UNCHANGED <<task, dispatcher, up, blob, handed>>

\* Template key, source, assets and the Typst run: any of them may fail.
Render(h) ==
  /\ At(h, "render")
  /\ \E pc \in {"put", "fail"} : Goto(h, pc) /\ (pc = "put" => Live(h))
  /\ UNCHANGED <<jobVars, task, dispatcher, up, blob, handed, budget>>

\* Mutant: the error of a failed Put is dropped.
PutErrorIgnored(h) ==
  /\ At(h, "put") /\ Goto(h, "complete")
  /\ blob' \in {blob, [blob EXCEPT ![handler[h].job] = handler[h].pdf]}
  /\ UNCHANGED <<jobVars, task, dispatcher, up, handed, budget>>

\* client.Put: the key depends on the job and the day only, so attempts of one
\* day overwrite each other.  A failed Put may still have stored the object.
PutPdf(h) ==
  /\ At(h, "put")
  /\ \/ /\ Live(h)
        /\ blob' = [blob EXCEPT ![handler[h].job] = handler[h].pdf]
        /\ \E pc \in {"complete", "fail"} : Goto(h, pc)
     \/ Goto(h, "fail") /\ UNCHANGED blob
  /\ UNCHANGED <<jobVars, task, dispatcher, up, handed, budget>>

\* MarkCompleted.  Its failure is returned as it is: the job stays processing.
CompleteJob(h) ==
  LET j == handler[h].job
      w == WorkerOf[h] IN
  /\ At(h, "complete")
  /\ \/ /\ Live(h) /\ Goto(h, "done") /\ UNCHANGED budget
        /\ MarkCompleted(j, w, handler[h].pdf)
     \/ /\ Live(h) /\ ~(status[j] = "processing" /\ worker[j] = w)
        /\ Goto(h, "error") /\ UNCHANGED <<jobVars, budget>>
     \/ CallFails(h) /\ Goto(h, "error") /\ UNCHANGED jobVars
     \/ /\ Live(h) /\ Spend("lost") /\ Goto(h, "error")
        /\ MarkCompleted(j, w, handler[h].pdf)
  /\ UNCHANGED <<task, dispatcher, up, blob, handed>>

\* handleFailure: the retry count of this delivery decides; an error of the
\* database is only logged and the cause is returned either way.
HandleFailure(h) ==
  LET j == handler[h].job
      w == WorkerOf[h] IN
  /\ At(h, "fail") /\ Goto(h, "error")
  /\ \/ /\ Live(h) /\ UNCHANGED budget
        /\ IF handler[h].retried >= MaxRetry THEN MarkFailed(j, w) ELSE MarkRetry(j, w)
     \/ Live(h) /\ worker[j] # w /\ UNCHANGED <<jobVars, budget>>
     \/ CallFails(h) /\ UNCHANGED jobVars
  /\ UNCHANGED <<task, dispatcher, up, blob, handed>>

\* The handler returns.  Asynq acknowledges, retries or archives the task, but
\* only for a handler it still waits for.
Return(h) ==
  LET j == handler[h].job IN
  /\ handler[h].pc \in {"done", "error"}
  /\ handler' = [handler EXCEPT ![h] = IdleHandler]
  /\ task' = IF handler[h].mode # "held" THEN task
             ELSE [task EXCEPT ![j] = IF At(h, "done") THEN NoTask ELSE Failed(@)]
  /\ UNCHANGED <<jobVars, dispatcher, up, blob, handed, budget>>

HandlerStep(h) ==
  \/ LoadJob(h) \/ ClaimJob(h) \/ Render(h) \/ PutPdf(h)
  \/ CompleteJob(h) \/ HandleFailure(h) \/ Return(h)

-----------------------------------------------------------------------------
(* Worker processes.                                                       *)

Stopped(w) == [h \in Handler |-> IF WorkerOf[h] = w THEN IdleHandler ELSE handler[h]]

\* The process dies; Asynq finds out when nobody extends its tasks.
Crash(w) ==
  /\ w \in up /\ Spend("crash")
  /\ up' = up \ {w}
  /\ handler' = Stopped(w)
  /\ UNCHANGED <<jobVars, task, dispatcher, blob, handed>>

\* Shutdown runs out of patience: unfinished tasks go back to pending with their
\* retry count, and the process exits.
Abort(w) ==
  /\ w \in up /\ Spend("abort")
  /\ up' = up \ {w}
  /\ handler' = Stopped(w)
  /\ task' = [j \in Job |-> IF \E h \in Handler : WorkerOf[h] = w /\ Waits(h, j)
                              THEN [task[j] EXCEPT !.state = "pending"] ELSE task[j]]
  /\ UNCHANGED <<jobVars, dispatcher, blob, handed>>

\* The process freezes (a paused VM, a long partition) until its Asynq leases and
\* its heartbeat have run out, then goes on where it was.
Stall(w) ==
  /\ w \in up /\ Spend("stall")
  /\ \E h \in Handler : WorkerOf[h] = w /\ ~At(h, "idle") /\ handler[h].mode = "held"
  /\ online' = online \ {w}
  /\ handler' = [h \in Handler |-> IF WorkerOf[h] = w /\ ~At(h, "idle") /\ handler[h].mode = "held"
                                     THEN [handler[h] EXCEPT !.mode = "lost"] ELSE handler[h]]
  /\ UNCHANGED <<status, attempts, worker, lease, digest, lineage, log, outbox,
                 task, dispatcher, up, blob, handed>>

-----------------------------------------------------------------------------
(* Clocks.                                                                 *)

\* A handler's task deadline was set before its claim and is as long as the claim's
\* lease: a lease never expires under a handler Asynq still waits for.
LeaseRunsOut(j) ==
  /\ \A h \in Handler : ~(/\ Waits(h, j) /\ WorkerOf[h] = worker[j]
                          /\ handler[h].pc \in {"render", "put", "complete", "fail"})
  /\ LeaseExpires(j)
  /\ UNCHANGED queueVars

LockRunsOut(j)  == LockExpires(j) /\ UNCHANGED queueVars
BackoffEnds(j)  == BackoffElapses(j) /\ UNCHANGED queueVars
SendHeartbeat(w) == w \in up /\ Heartbeat(w) /\ UNCHANGED queueVars
HeartbeatStale(w) == w \notin up /\ HeartbeatAges(w) /\ UNCHANGED queueVars

-----------------------------------------------------------------------------

Next ==
  \/ \E j \in Job : Submit(j) \/ RetryDue(j) \/ AsynqRecover(j)
  \/ \E j \in Job : LeaseRunsOut(j) \/ LockRunsOut(j) \/ BackoffEnds(j)
  \/ \E p, c \in Job, a \in Actor, k \in Key \cup {None} : RetryReport(p, c, a, k)
  \/ \E j \in Job, a \in Actor : RecoverReport(j, a)
  \/ \E d \in Owner : DispatchClaim(d) \/ DispatchSettle(d) \/ DispatchCrash(d)
  \/ \E d \in Owner, j \in Job : DispatchEnqueue(d, j)
  \/ \E h \in Handler, j \in Job : Deliver(h, j)
  \/ \E h \in Handler : HandlerStep(h) \/ TaskTimeout(h) \/ NoticeLost(h)
  \/ \E w \in Worker : Crash(w) \/ Abort(w) \/ Stall(w) \/ SendHeartbeat(w) \/ HeartbeatStale(w)

Spec == Init /\ [][Next]_vars

\* Processes that run keep running and clocks keep ticking; requests and faults are
\* never owed.  A row that keeps being claimable is claimed in the end, because every
\* tick of Run takes all the rows it finds unlocked, fifty at a time, oldest first.
Fairness ==
  /\ \A d \in Owner :
       /\ WF_vars(DispatchSettle(d))
       /\ WF_vars(\E j \in Job : DispatchEnqueue(d, j))
  /\ \A j \in Job :
       /\ SF_vars(\E d \in Owner : DispatchClaim(d) /\ j \in dispatcher'[d].batch)
       /\ WF_vars(RetryDue(j)) /\ WF_vars(AsynqRecover(j))
       /\ WF_vars(LockRunsOut(j)) /\ WF_vars(BackoffEnds(j))
       /\ WF_vars(\E h \in Handler : Deliver(h, j))
  /\ \A h \in Handler : WF_vars(HandlerStep(h)) /\ WF_vars(NoticeLost(h))

FairSpec == Spec /\ Fairness

-----------------------------------------------------------------------------
(* Properties.                                                             *)

\* Somebody is still due to run job j: its outbox row will be dispatched, or
\* its Asynq task will be delivered again.
Backed(j) == outbox[j].present \/ task[j].state \in {"pending", "active", "retry"}

\* A queued report is "waiting for a worker or an automatic retry" (README.md:207):
\* neither a lost dispatcher, a lock that expires under one, nor Redis errors may
\* drop both the durable intent and the task.
QueuedIsBacked == \A j \in Job : status[j] = "queued" => Backed(j)

\* An intent leaves the outbox only if the queue was asked to run the job after the
\* intent was last written or reset: a dispatcher that settles late must not delete
\* the row a recovery has just renewed.
OutboxHandoff ==
  [][\A j \in Job : (outbox[j].present /\ ~outbox'[j].present) => j \in handed]_vars

\* While Asynq waits for a handler that has claimed its job, the claim is its own:
\* no recovery, no redelivery and no stalled handler of another process has closed
\* or taken over the attempt it renders.
HealthyClaimIsOwn ==
  \A h \in Handler :
    (handler[h].mode = "held" /\ handler[h].pc \in {"render", "put", "complete"}) =>
      LET j == handler[h].job IN
        /\ status[j] = "processing"
        /\ worker[j] = WorkerOf[h]
        /\ attempts[j] = handler[h].pdf

\* A completed report's stored object is the PDF whose digest was recorded, and it
\* is the work of the last attempt ("completed: PDF is available", README.md:209).
ArtifactIntact ==
  \A j \in Job : status[j] = "completed" => blob[j] = digest[j] /\ digest[j] = attempts[j]

\* Crashes, timeouts, lost answers and recoveries alone never damage an artifact: it
\* takes a stalled process that writes after its lease is gone.
ArtifactIntactUnlessStalled == budget["stall"] = Faults["stall"] => ArtifactIntact

\* Every submitted report settles.
EventuallySettled == \A j \in Job : status[j] = "queued" ~> status[j] \in Terminal

=============================================================================
