------------------------ MODULE ReportPipeline_proofs ------------------------
(***************************************************************************)
(* Theorems about the whole pipeline.  Every step of dispatchers, handlers *)
(* and processes, faults included, is a legal call of the repository or    *)
(* leaves the tables alone, so what ReportJobs_proofs shows of the tables  *)
(* holds of the pipeline.                                                  *)
(***************************************************************************)
EXTENDS ReportPipeline, ReportJobs_proofs

\* A handler that runs has a job, and the PDF it renders or stores belongs to an
\* attempt that has begun.
WorkingOn ==
  \A h \in Handler :
    /\ handler[h].pc # "idle" => handler[h].job \in Job
    /\ handler[h].pc \in {"render", "put", "complete"} =>
         handler[h].pdf \in 1..attempts[handler[h].job]

-----------------------------------------------------------------------------
(* Every step is a step of the tables.                                     *)

\* A handler's step makes one call of the repository, or none.
LEMMA HandlerCalls ==
  ASSUME TypeOK, WorkingOn, NEW h \in Handler,
         HandlerStep(h) \/ TaskTimeout(h) \/ NoticeLost(h)
  PROVE  JobNext \/ UNCHANGED jobVars
<1>1. WorkerOf[h] \in Worker
  BY PipelineAssumption
<1>2. handler[h].pc # "idle" => handler[h].job \in Job
  BY DEF WorkingOn
<1>3. ASSUME MarkProcessing(handler[h].job, WorkerOf[h]), handler[h].pc # "idle"
      PROVE  JobNext
  BY <1>1, <1>2, <1>3 DEF JobNext
<1>4. ASSUME MarkCompleted(handler[h].job, WorkerOf[h], handler[h].pdf), At(h, "complete")
      PROVE  JobNext
  BY <1>1, <1>2, <1>4 DEF JobNext, At, WorkingOn
<1>5. ASSUME \/ MarkFailed(handler[h].job, WorkerOf[h])
             \/ MarkRetry(handler[h].job, WorkerOf[h]),
             handler[h].pc # "idle"
      PROVE  JobNext
  BY <1>1, <1>2, <1>5 DEF JobNext
<1>6. CASE ClaimJob(h)
  BY <1>3, <1>6 DEF ClaimJob, At
<1>7. CASE CompleteJob(h)
  BY <1>4, <1>7 DEF CompleteJob
<1>8. CASE HandleFailure(h)
  BY <1>5, <1>8 DEF HandleFailure, At
<1>9. CASE \/ LoadJob(h) \/ Render(h) \/ PutPdf(h) \/ Return(h)
           \/ TaskTimeout(h) \/ NoticeLost(h)
  BY <1>9 DEF LoadJob, Render, PutPdf, Return, TaskTimeout, NoticeLost
<1> QED
  BY <1>6, <1>7, <1>8, <1>9 DEF HandlerStep

\* So does a dispatcher's step.
LEMMA DispatcherCalls ==
  ASSUME TypeOK, NEW d \in Owner,
         DispatchClaim(d) \/ DispatchSettle(d) \/ DispatchCrash(d)
           \/ \E j \in Job : DispatchEnqueue(d, j)
  PROVE  JobNext \/ UNCHANGED jobVars
<1>1. CASE DispatchClaim(d)
  BY <1>1 DEF DispatchClaim, JobNext
<1>2. CASE DispatchSettle(d)
  <2>1. dispatcher[d].job \in Job
    <3>1. dispatcher[d] \in Settlement
      BY DEF TypeOK
    <3> QED
      BY <1>2, <3>1 DEF DispatchSettle, Settlement
  <2>2. \/ CompleteOutbox(dispatcher[d].job, d)
        \/ RetryOutbox(dispatcher[d].job, d)
        \/ UNCHANGED jobVars
    BY <1>2 DEF DispatchSettle
  <2> QED
    BY <2>1, <2>2 DEF JobNext
<1>3. CASE DispatchCrash(d) \/ \E j \in Job : DispatchEnqueue(d, j)
  BY <1>3 DEF DispatchCrash, DispatchEnqueue
<1> QED
  BY <1>1, <1>2, <1>3

\* So does what happens to a worker process.
LEMMA ProcessCalls ==
  ASSUME TypeOK, NEW w \in Worker,
         Crash(w) \/ Abort(w) \/ Stall(w) \/ SendHeartbeat(w) \/ HeartbeatStale(w)
  PROVE  JobNext \/ UNCHANGED jobVars
<1>1. CASE Stall(w)
  <2>1. CASE w \in online
    <3>1. HeartbeatAges(w)
      BY <1>1, <2>1 DEF Stall, HeartbeatAges
    <3> QED
      BY <3>1 DEF JobNext
  <2>2. CASE w \notin online
    BY <1>1, <2>2 DEF Stall, jobVars
  <2> QED
    BY <2>1, <2>2
<1>2. CASE SendHeartbeat(w) \/ HeartbeatStale(w)
  BY <1>2 DEF SendHeartbeat, HeartbeatStale, JobNext
<1>3. CASE Crash(w) \/ Abort(w)
  BY <1>3 DEF Crash, Abort
<1> QED
  BY <1>1, <1>2, <1>3

\* Every step of the pipeline is one repository transaction or leaves the tables alone.
LEMMA StepIsCall ==
  ASSUME TypeOK, WorkingOn, [Next]_vars PROVE [JobNext]_jobVars
<1>1. ASSUME NEW j \in Job, Submit(j) PROVE JobNext
  BY <1>1 DEF Submit, JobNext
<1>2. ASSUME NEW j \in Job, RetryDue(j) \/ AsynqRecover(j) PROVE UNCHANGED jobVars
  BY <1>2 DEF RetryDue, AsynqRecover
<1>3. ASSUME NEW j \in Job, LeaseRunsOut(j) \/ LockRunsOut(j) \/ BackoffEnds(j) PROVE JobNext
  BY <1>3 DEF LeaseRunsOut, LockRunsOut, BackoffEnds, JobNext
<1>4. ASSUME NEW p \in Job, NEW c \in Job, NEW a \in Actor, NEW k \in Key \cup {None},
             RetryReport(p, c, a, k)
      PROVE  JobNext
  BY <1>4 DEF RetryReport, JobNext
<1>5. ASSUME NEW j \in Job, NEW a \in Actor, RecoverReport(j, a) PROVE JobNext
  BY <1>5 DEF RecoverReport, JobNext
<1>6. ASSUME NEW h \in Handler, NEW j \in Job, Deliver(h, j) PROVE UNCHANGED jobVars
  BY <1>6 DEF Deliver
<1>7. CASE UNCHANGED vars
  BY <1>7 DEF vars, jobVars
<1> QED
  BY <1>1, <1>2, <1>3, <1>4, <1>5, <1>6, <1>7,
     HandlerCalls, DispatcherCalls, ProcessCalls DEF Next

-----------------------------------------------------------------------------
(* Type correctness.                                                       *)

\* The part of TypeOK that is not about the tables.
QueueTypeOK ==
  /\ task       \in [Job -> Task]
  /\ dispatcher \in [Owner -> Settlement]
  /\ handler    \in [Handler -> Goroutine]
  /\ up         \in SUBSET Worker
  /\ blob       \in [Job -> Nat]
  /\ handed     \in SUBSET Job
  /\ budget     \in [Bounds -> Nat]

\* The type invariant is that of the tables and that of the queue side.
LEMMA TypeSplit == TypeOK <=> JobTypeOK /\ QueueTypeOK
BY DEF TypeOK, QueueTypeOK

\* Spending a fault leaves the budget well typed.
LEMMA SpendType ==
  ASSUME QueueTypeOK, NEW k \in FaultKind, Spend(k) PROVE budget' \in [Bounds -> Nat]
<1>1. k \in Bounds /\ "any" \in Bounds /\ k # "any"
  BY DEF Bounds, FaultKind
<1>2. budget[k] - 1 \in Nat /\ budget["any"] - 1 \in Nat
  BY <1>1 DEF Spend, QueueTypeOK
<1>3. budget' = [b \in Bounds |-> IF b \in {k, "any"} THEN budget[b] - 1 ELSE budget[b]]
  BY <1>1 DEF Spend, QueueTypeOK
<1> QED
  BY <1>2, <1>3 DEF QueueTypeOK

\* Asynq's failure path yields a task whose retry count stays within MaxRetry.
LEMMA FailedType == ASSUME NEW t \in Task PROVE Failed(t) \in Task
<1>1. t.retried \in 0..MaxRetry /\ MaxRetry \in Nat
  BY PipelineAssumption DEF Task
<1>2. CASE t.retried >= MaxRetry
  <2>1. [t EXCEPT !.state = "archived"] \in Task
    BY DEF Task, TaskState
  <2> QED
    BY <1>2, <2>1 DEF Failed
<1>3. CASE ~(t.retried >= MaxRetry)
  <2>1. t.retried + 1 \in 0..MaxRetry
    BY <1>1, <1>3
  <2>2. [state |-> "retry", retried |-> t.retried + 1] \in Task
    BY <2>1 DEF Task, TaskState
  <2> QED
    BY <1>3, <2>2 DEF Failed
<1> QED
  BY <1>2, <1>3

\* Idle handlers, idle dispatchers and missing tasks are well typed.
LEMMA IdleTypes == IdleHandler \in Goroutine /\ IdleDispatcher \in Settlement /\ NoTask \in Task
BY PipelineAssumption
   DEF IdleHandler, Goroutine, PC, Mode, IdleDispatcher, Settlement, NoTask, Task, TaskState

\* A handler that moves on, or whose standing with Asynq changes, stays a goroutine.
LEMMA GoroutineType ==
  ASSUME QueueTypeOK, NEW h \in Handler, NEW pc \in PC, NEW m \in Mode, NEW n \in Nat
  PROVE  /\ [handler EXCEPT ![h].pc = pc] \in [Handler -> Goroutine]
         /\ [handler EXCEPT ![h].mode = m] \in [Handler -> Goroutine]
         /\ [handler EXCEPT ![h].pc = pc, ![h].pdf = n] \in [Handler -> Goroutine]
         /\ [handler EXCEPT ![h] = IdleHandler] \in [Handler -> Goroutine]
<1>1. handler[h] \in Goroutine
  BY DEF QueueTypeOK
<1>2. /\ [handler[h] EXCEPT !.pc = pc] \in Goroutine
      /\ [handler[h] EXCEPT !.mode = m] \in Goroutine
      /\ [handler[h] EXCEPT !.pc = pc, !.pdf = n] \in Goroutine
  BY <1>1 DEF Goroutine
<1> QED
  BY <1>2, IdleTypes DEF QueueTypeOK

\* Handler steps keep the queue side well typed.
LEMMA HandlerTypes ==
  ASSUME TypeOK, WorkingOn, NEW h \in Handler, HandlerStep(h) \/ TaskTimeout(h) \/ NoticeLost(h)
  PROVE  QueueTypeOK'
<1>0. QueueTypeOK /\ JobTypeOK
  BY TypeSplit
<1>1. ASSUME NEW pc \in PC, Goto(h, pc) PROVE handler' \in [Handler -> Goroutine]
  <2>1. "held" \in Mode /\ 0 \in Nat
    BY DEF Mode
  <2> QED
    BY <1>0, <1>1, <2>1, GoroutineType DEF Goto
<1>2. CallFails(h) \/ (Live(h) /\ Spend("lost")) \/ UNCHANGED budget => budget' \in [Bounds -> Nat]
  <2>1. {"db", "lost"} \subseteq FaultKind
    BY DEF FaultKind
  <2> QED
    BY <1>0, <2>1, SpendType DEF CallFails, QueueTypeOK
<1>3. CASE LoadJob(h)
  <2>1. \E pc \in PC : Goto(h, pc)
    BY <1>3 DEF LoadJob, PC
  <2> QED
    BY <1>0, <1>1, <1>2, <1>3, <2>1 DEF LoadJob, QueueTypeOK
<1>4. CASE ClaimJob(h)
  <2>1. CASE \E pc \in PC : Goto(h, pc)
    BY <1>0, <1>1, <1>2, <1>4, <2>1 DEF ClaimJob, QueueTypeOK
  <2>2. CASE /\ MarkProcessing(handler[h].job, WorkerOf[h]) /\ UNCHANGED budget
             /\ handler' = [handler EXCEPT ![h].pc = "render",
                                           ![h].pdf = attempts[handler[h].job] + 1]
    <3>1. attempts[handler[h].job] + 1 \in Nat
      <4>1. handler[h].job \in Job
        BY <1>4 DEF ClaimJob, At, WorkingOn
      <4> QED
        BY <1>0, <4>1 DEF JobTypeOK
    <3>2. "render" \in PC /\ "held" \in Mode
      BY DEF PC, Mode
    <3>3. handler' \in [Handler -> Goroutine]
      BY <1>0, <2>2, <3>1, <3>2, GoroutineType
    <3> QED
      BY <1>0, <1>4, <2>2, <3>3 DEF ClaimJob, QueueTypeOK
  <2> QED
    BY <1>4, <2>1, <2>2 DEF ClaimJob, PC
<1>5. CASE Render(h)
  <2>1. \E pc \in PC : Goto(h, pc)
    BY <1>5 DEF Render, PC
  <2> QED
    BY <1>0, <1>1, <1>5, <2>1 DEF Render, QueueTypeOK
<1>6. CASE PutPdf(h)
  <2>1. \E pc \in PC : Goto(h, pc)
    BY <1>6 DEF PutPdf, PC
  <2>2. handler[h].pdf \in Nat
    BY <1>0 DEF QueueTypeOK, Goroutine
  <2>3. blob' \in [Job -> Nat]
    BY <1>0, <1>6, <2>2 DEF PutPdf, QueueTypeOK
  <2> QED
    BY <1>0, <1>1, <1>6, <2>1, <2>3 DEF PutPdf, QueueTypeOK
<1>7. CASE CompleteJob(h)
  <2>1. \E pc \in PC : Goto(h, pc)
    BY <1>7 DEF CompleteJob, PC
  <2> QED
    BY <1>0, <1>1, <1>2, <1>7, <2>1 DEF CompleteJob, QueueTypeOK
<1>8. CASE HandleFailure(h)
  <2>1. \E pc \in PC : Goto(h, pc)
    BY <1>8 DEF HandleFailure, PC
  <2> QED
    BY <1>0, <1>1, <1>2, <1>8, <2>1 DEF HandleFailure, QueueTypeOK
<1>9. CASE Return(h)
  <2>1. handler' \in [Handler -> Goroutine]
    BY <1>0, <1>9, IdleTypes DEF Return, QueueTypeOK
  <2>2. task' \in [Job -> Task]
    BY <1>0, <1>9, IdleTypes, FailedType DEF Return, QueueTypeOK
  <2> QED
    BY <1>0, <1>9, <2>1, <2>2 DEF Return, QueueTypeOK
<1>10. CASE TaskTimeout(h)
  <2>1. task' \in [Job -> Task]
    BY <1>0, <1>10, FailedType DEF TaskTimeout, QueueTypeOK
  <2>2. "dead" \in Mode /\ "timeout" \in FaultKind /\ "idle" \in PC /\ 0 \in Nat
    BY DEF Mode, FaultKind, PC
  <2>3. handler' \in [Handler -> Goroutine]
    BY <1>0, <1>10, <2>2, GoroutineType DEF TaskTimeout
  <2>4. budget' \in [Bounds -> Nat]
    BY <1>0, <1>10, <2>2, SpendType DEF TaskTimeout
  <2> QED
    BY <1>0, <1>10, <2>1, <2>3, <2>4 DEF TaskTimeout, QueueTypeOK
<1>11. CASE NoticeLost(h)
  <2>1. "dead" \in Mode /\ "idle" \in PC /\ 0 \in Nat
    BY DEF Mode, PC
  <2>2. handler' \in [Handler -> Goroutine]
    BY <1>0, <1>11, <2>1, GoroutineType DEF NoticeLost
  <2> QED
    BY <1>0, <1>11, <2>2 DEF NoticeLost, QueueTypeOK
<1> QED
  BY <1>3, <1>4, <1>5, <1>6, <1>7, <1>8, <1>9, <1>10, <1>11 DEF HandlerStep

\* Dispatcher steps keep the queue side well typed.
LEMMA DispatcherTypes ==
  ASSUME TypeOK, NEW d \in Owner,
         DispatchClaim(d) \/ DispatchSettle(d) \/ DispatchCrash(d)
           \/ \E j \in Job : DispatchEnqueue(d, j)
  PROVE  QueueTypeOK'
<1>0. QueueTypeOK /\ dispatcher[d] \in Settlement /\ {"redis", "db", "dispatcher"} \subseteq FaultKind
  BY TypeSplit DEF QueueTypeOK, FaultKind
<1>1. CASE DispatchClaim(d)
  <2>1. PICK batch \in SUBSET Job : dispatcher' = [dispatcher EXCEPT ![d].batch = batch]
    BY <1>1 DEF DispatchClaim
  <2>2. [dispatcher[d] EXCEPT !.batch = batch] \in Settlement
    BY <1>0 DEF Settlement
  <2> QED
    BY <1>0, <1>1, <2>1, <2>2 DEF DispatchClaim, QueueTypeOK
<1>2. CASE DispatchSettle(d)
  <2>1. [dispatcher[d] EXCEPT !.job = None, !.ok = FALSE] \in Settlement
    BY <1>0 DEF Settlement
  <2>2. dispatcher' = [dispatcher EXCEPT ![d] = [dispatcher[d] EXCEPT !.job = None, !.ok = FALSE]]
    BY <1>0, <1>2 DEF DispatchSettle, QueueTypeOK
  <2>3. dispatcher' \in [Owner -> Settlement]
    BY <1>0, <2>1, <2>2 DEF QueueTypeOK
  <2>4. budget' \in [Bounds -> Nat]
    BY <1>0, <1>2, SpendType DEF DispatchSettle, QueueTypeOK
  <2> QED
    BY <1>0, <1>2, <2>3, <2>4 DEF DispatchSettle, QueueTypeOK
<1>3. CASE DispatchCrash(d)
  BY <1>0, <1>3, IdleTypes, SpendType DEF DispatchCrash, QueueTypeOK
<1>4. ASSUME NEW j \in Job, DispatchEnqueue(d, j) PROVE QueueTypeOK'
  <2>1. ASSUME NEW b \in BOOLEAN, Sent(d, j, b) PROVE dispatcher' \in [Owner -> Settlement]
    <3>1. [batch |-> dispatcher[d].batch \ {j}, job |-> j, ok |-> b] \in Settlement
      BY <1>0 DEF Settlement
    <3> QED
      BY <1>0, <2>1, <3>1 DEF Sent, QueueTypeOK
  <2>2. Enqueued(j) => task' \in [Job -> Task]
    <3>1. task[j] \in Task /\ [task[j] EXCEPT !.state = "pending"] \in Task
      BY <1>0 DEF QueueTypeOK, Task, TaskState
    <3> QED
      BY <1>0, <3>1 DEF Enqueued, QueueTypeOK
  <2>3. budget' \in [Bounds -> Nat]
    BY <1>0, <1>4, SpendType DEF DispatchEnqueue, QueueTypeOK
  <2> QED
    BY <1>0, <1>4, <2>1, <2>2, <2>3 DEF DispatchEnqueue, QueueTypeOK
<1> QED
  BY <1>1, <1>2, <1>3, <1>4

\* Crashes, aborts, stalls and clocks keep the queue side well typed.
LEMMA ProcessTypes ==
  ASSUME TypeOK, NEW w \in Worker,
         Crash(w) \/ Abort(w) \/ Stall(w) \/ SendHeartbeat(w) \/ HeartbeatStale(w)
  PROVE  QueueTypeOK'
<1>0. QueueTypeOK /\ {"crash", "abort", "stall"} \subseteq FaultKind
  BY TypeSplit DEF FaultKind
<1>1. Stopped(w) \in [Handler -> Goroutine]
  BY <1>0, IdleTypes DEF Stopped, QueueTypeOK
<1>2. CASE Crash(w)
  BY <1>0, <1>1, <1>2, SpendType DEF Crash, QueueTypeOK
<1>3. CASE Abort(w)
  <2>1. \A j \in Job : [task[j] EXCEPT !.state = "pending"] \in Task
    BY <1>0 DEF QueueTypeOK, Task, TaskState
  <2>2. task' \in [Job -> Task]
    BY <1>0, <1>3, <2>1 DEF Abort, QueueTypeOK
  <2> QED
    BY <1>0, <1>1, <1>3, <2>2, SpendType DEF Abort, QueueTypeOK
<1>4. CASE Stall(w)
  <2>1. \A h \in Handler : [handler[h] EXCEPT !.mode = "lost"] \in Goroutine
    BY <1>0 DEF QueueTypeOK, Goroutine, Mode
  <2>2. handler' \in [Handler -> Goroutine]
    BY <1>0, <1>4, <2>1 DEF Stall, QueueTypeOK
  <2> QED
    BY <1>0, <1>4, <2>2, SpendType DEF Stall, QueueTypeOK
<1>5. CASE SendHeartbeat(w) \/ HeartbeatStale(w)
  BY <1>0, <1>5 DEF SendHeartbeat, HeartbeatStale, queueVars, QueueTypeOK
<1> QED
  BY <1>2, <1>3, <1>4, <1>5

\* Every step of the pipeline keeps the type invariant.
LEMMA TypeStep == ASSUME TypeOK, WorkingOn, [Next]_vars PROVE TypeOK'
<1>0. QueueTypeOK /\ JobTypeOK
  BY TypeSplit
<1>1. JobTypeOK'
  BY <1>0, StepIsCall, JobTypeStep
<1>2. ASSUME NEW j \in Job, Submit(j) PROVE QueueTypeOK'
  BY <1>0, <1>2 DEF Submit, QueueTypeOK
<1>3. ASSUME NEW j \in Job, RetryDue(j) \/ AsynqRecover(j) PROVE QueueTypeOK'
  <2>1. task[j] \in Task /\ [task[j] EXCEPT !.state = "pending"] \in Task
    BY <1>0 DEF QueueTypeOK, Task, TaskState
  <2>2. task' \in [Job -> Task]
    BY <1>0, <1>3, <2>1, FailedType DEF RetryDue, AsynqRecover, QueueTypeOK
  <2> QED
    BY <1>0, <1>3, <2>2 DEF RetryDue, AsynqRecover, QueueTypeOK
<1>4. ASSUME NEW j \in Job, LeaseRunsOut(j) \/ LockRunsOut(j) \/ BackoffEnds(j) PROVE QueueTypeOK'
  BY <1>0, <1>4 DEF LeaseRunsOut, LockRunsOut, BackoffEnds, queueVars, QueueTypeOK
<1>5. ASSUME NEW p \in Job, NEW c \in Job, NEW a \in Actor, NEW k \in Key \cup {None},
             RetryReport(p, c, a, k)
      PROVE  QueueTypeOK'
  BY <1>0, <1>5 DEF RetryReport, QueueTypeOK
<1>6. ASSUME NEW j \in Job, NEW a \in Actor, RecoverReport(j, a) PROVE QueueTypeOK'
  <2>1. "recover" \in Bounds
    BY DEF Bounds
  <2>2. budget["recover"] - 1 \in Nat
    BY <1>0, <1>6, <2>1 DEF RecoverReport, QueueTypeOK
  <2>3. budget' \in [Bounds -> Nat]
    BY <1>0, <1>6, <2>2 DEF RecoverReport, QueueTypeOK
  <2> QED
    BY <1>0, <1>6, <2>3 DEF RecoverReport, QueueTypeOK
<1>7. ASSUME NEW h \in Handler, NEW j \in Job, Deliver(h, j) PROVE QueueTypeOK'
  <2>1. task[j] \in Task /\ [task[j] EXCEPT !.state = "active"] \in Task /\ task[j].retried \in 0..MaxRetry
    BY <1>0 DEF QueueTypeOK, Task, TaskState
  <2>2. [pc |-> "get", job |-> j, retried |-> task[j].retried, pdf |-> 0, mode |-> "held"]
          \in Goroutine
    BY <2>1 DEF Goroutine, PC, Mode
  <2> QED
    BY <1>0, <1>7, <2>1, <2>2 DEF Deliver, QueueTypeOK
<1>8. ASSUME UNCHANGED vars PROVE QueueTypeOK'
  BY <1>0, <1>8 DEF vars, queueVars, QueueTypeOK
<1>9. QueueTypeOK'
  <2>1. ASSUME NEW h \in Handler, HandlerStep(h) \/ TaskTimeout(h) \/ NoticeLost(h)
        PROVE  QueueTypeOK'
    BY <2>1, HandlerTypes
  <2>2. ASSUME NEW d \in Owner,
               DispatchClaim(d) \/ DispatchSettle(d) \/ DispatchCrash(d)
                 \/ \E j \in Job : DispatchEnqueue(d, j)
        PROVE  QueueTypeOK'
    BY <2>2, DispatcherTypes
  <2>3. ASSUME NEW w \in Worker,
               Crash(w) \/ Abort(w) \/ Stall(w) \/ SendHeartbeat(w) \/ HeartbeatStale(w)
        PROVE  QueueTypeOK'
    BY <2>3, ProcessTypes
  <2> QED
    BY <1>2, <1>3, <1>4, <1>5, <1>6, <1>7, <1>8, <2>1, <2>2, <2>3 DEF Next
<1> QED
  BY <1>1, <1>9 DEF TypeOK, QueueTypeOK

-----------------------------------------------------------------------------
(* A handler works on an attempt that has begun.                           *)

\* The attempt count of a job never decreases.
LEMMA AttemptsGrow ==
  ASSUME JobTypeOK, LeaseShape, [JobNext]_jobVars, NEW j \in Job
  PROVE  attempts[j] \in Nat /\ attempts'[j] \in Nat /\ attempts[j] <= attempts'[j]
<1>1. \A i \in Job : attempts[i] \in Nat
  BY DEF JobTypeOK
<1>2. ASSUME NEW i \in Job, NEW w \in Worker, MarkProcessing(i, w)
      PROVE  attempts'[j] = attempts[j] \/ attempts'[j] = attempts[j] + 1
  BY <1>2 DEF MarkProcessing, JobTypeOK
<1>3. attempts'[j] = attempts[j] \/ attempts'[j] = attempts[j] + 1
  BY <1>2, StepKinds DEF Create, Retry, InsertQueued, Ends, LeaseExpires
<1> QED
  BY <1>1, <1>3

\* What a step does to a handler: it goes on with its job, keeps its PDF or takes
\* the number of the attempt it has just begun, starts afresh, or becomes idle.
Moves(g) ==
  \/ handler'[g].pc = "idle"
  \/ handler'[g].pc = "get" /\ handler'[g].job \in Job
  \/ /\ handler[g].pc # "idle" /\ handler'[g].job = handler[g].job
     /\ \/ handler'[g].pc \in {"claim", "fail", "done", "error", handler[g].pc}
           /\ handler'[g].pdf = handler[g].pdf
        \/ /\ handler[g].pc \in {"render", "put", "complete"}
           /\ handler'[g].pdf = handler[g].pdf
        \/ /\ handler'[g].pc = "render"
           /\ attempts'[handler[g].job] = attempts[handler[g].job] + 1
           /\ handler'[g].pdf = attempts'[handler[g].job]

\* A step leaves a goroutine alone, resets it, moves it to another call of the same job and
\* attempt, or lets it claim an attempt.
LEMMA HandlerMoves ==
  ASSUME TypeOK, WorkingOn, [Next]_vars, NEW g \in Handler
  PROVE  Moves(g) \/ handler'[g] = handler[g]
<1>0. handler \in [Handler -> Goroutine] /\ \A h \in Handler : handler[h] \in Goroutine
  BY DEF TypeOK
<1>1. ASSUME NEW h \in Handler, NEW pc \in PC, Goto(h, pc),
             pc \in {"claim", "fail", "done", "error"} \/ handler[h].pc \in {"render", "put"},
             handler[h].pc # "idle"
      PROVE  Moves(g) \/ handler'[g] = handler[g]
  <2>1. CASE g = h
    <3>1. /\ handler'[g].pc = pc /\ handler'[g].job = handler[g].job
          /\ handler'[g].pdf = handler[g].pdf
      BY <1>0, <1>1, <2>1 DEF Goto, Goroutine
    <3> QED
      BY <1>1, <2>1, <3>1 DEF Moves
  <2>2. CASE g # h
    BY <1>0, <1>1, <2>2 DEF Goto
  <2> QED
    BY <2>1, <2>2
<1>2. ASSUME NEW h \in Handler, LoadJob(h) PROVE Moves(g) \/ handler'[g] = handler[g]
  BY <1>1, <1>2 DEF LoadJob, At, PC
<1>3. ASSUME NEW h \in Handler, ClaimJob(h) PROVE Moves(g) \/ handler'[g] = handler[g]
  <2>1. CASE Goto(h, "done") \/ Goto(h, "error")
    BY <1>1, <1>3, <2>1 DEF ClaimJob, At, PC
  <2>2. CASE /\ MarkProcessing(handler[h].job, WorkerOf[h])
             /\ handler' = [handler EXCEPT ![h].pc = "render",
                                           ![h].pdf = attempts[handler[h].job] + 1]
    <3>1. CASE g = h
      <4>1. handler[h].pc # "idle" /\ handler[h].job \in Job
        BY <1>3 DEF ClaimJob, At, WorkingOn
      <4>2. attempts'[handler[h].job] = attempts[handler[h].job] + 1
        BY <2>2, <4>1 DEF MarkProcessing, TypeOK, JobTypeOK
      <4>3. /\ handler'[g].pc = "render" /\ handler'[g].job = handler[g].job
            /\ handler'[g].pdf = attempts[handler[g].job] + 1
        BY <1>0, <2>2, <3>1 DEF Goroutine
      <4> QED
        BY <3>1, <4>1, <4>2, <4>3 DEF Moves
    <3>2. CASE g # h
      BY <1>0, <2>2, <3>2
    <3> QED
      BY <3>1, <3>2
  <2> QED
    BY <1>3, <2>1, <2>2 DEF ClaimJob
<1>4. ASSUME NEW h \in Handler, Render(h) \/ PutPdf(h) PROVE Moves(g) \/ handler'[g] = handler[g]
  BY <1>1, <1>4 DEF Render, PutPdf, At, PC
<1>5. ASSUME NEW h \in Handler, CompleteJob(h) \/ HandleFailure(h)
      PROVE  Moves(g) \/ handler'[g] = handler[g]
  BY <1>1, <1>5 DEF CompleteJob, HandleFailure, At, PC
<1>6. ASSUME NEW h \in Handler, Return(h) PROVE Moves(g) \/ handler'[g] = handler[g]
  BY <1>0, <1>6 DEF Return, IdleHandler, Moves
<1>7. ASSUME NEW h \in Handler, TaskTimeout(h) \/ NoticeLost(h)
      PROVE  Moves(g) \/ handler'[g] = handler[g]
  <2>1. handler' = [handler EXCEPT ![h].mode = "dead"]
    BY <1>7 DEF TaskTimeout, NoticeLost
  <2>2. /\ handler'[g].pc = handler[g].pc /\ handler'[g].job = handler[g].job
        /\ handler'[g].pdf = handler[g].pdf
    BY <1>0, <2>1 DEF Goroutine
  <2> QED
    BY <2>2 DEF Moves
<1>8. ASSUME NEW h \in Handler, NEW j \in Job, Deliver(h, j)
      PROVE  Moves(g) \/ handler'[g] = handler[g]
  BY <1>0, <1>8 DEF Deliver, Moves
<1>9. ASSUME NEW w \in Worker, Crash(w) \/ Abort(w)
      PROVE  Moves(g) \/ handler'[g] = handler[g]
  BY <1>9 DEF Crash, Abort, Stopped, IdleHandler, Moves
<1>10. ASSUME NEW w \in Worker, Stall(w) PROVE Moves(g) \/ handler'[g] = handler[g]
  <2>1. /\ handler'[g].pc = handler[g].pc /\ handler'[g].job = handler[g].job
        /\ handler'[g].pdf = handler[g].pdf
    BY <1>0, <1>10 DEF Stall, Goroutine
  <2> QED
    BY <2>1 DEF Moves
<1>11. ASSUME \/ \E j \in Job : Submit(j) \/ RetryDue(j) \/ AsynqRecover(j)
              \/ \E j \in Job : LeaseRunsOut(j) \/ LockRunsOut(j) \/ BackoffEnds(j)
              \/ \E p, c \in Job, a \in Actor, k \in Key \cup {None} : RetryReport(p, c, a, k)
              \/ \E j \in Job, a \in Actor : RecoverReport(j, a)
              \/ \E d \in Owner : DispatchClaim(d) \/ DispatchSettle(d) \/ DispatchCrash(d)
              \/ \E d \in Owner, j \in Job : DispatchEnqueue(d, j)
              \/ \E w \in Worker : SendHeartbeat(w) \/ HeartbeatStale(w)
              \/ UNCHANGED vars
       PROVE  handler' = handler
  BY <1>11 DEF Submit, RetryDue, AsynqRecover, LeaseRunsOut, LockRunsOut, BackoffEnds,
               RetryReport, RecoverReport, DispatchClaim, DispatchSettle, DispatchCrash,
               DispatchEnqueue, SendHeartbeat, HeartbeatStale, vars, queueVars
<1>12. ASSUME NEW h \in Handler, HandlerStep(h) PROVE Moves(g) \/ handler'[g] = handler[g]
  BY <1>2, <1>3, <1>4, <1>5, <1>6, <1>12 DEF HandlerStep
<1> QED
  BY <1>7, <1>8, <1>9, <1>10, <1>11, <1>12 DEF Next

\* A handler keeps working on an attempt that has begun.
LEMMA WorkingOnStep ==
  ASSUME TypeOK, WorkingOn, LeaseShape, [Next]_vars PROVE WorkingOn'
<1> SUFFICES ASSUME NEW g \in Handler
             PROVE  /\ handler'[g].pc # "idle" => handler'[g].job \in Job
                    /\ handler'[g].pc \in {"render", "put", "complete"} =>
                         handler'[g].pdf \in 1..attempts'[handler'[g].job]
  BY DEF WorkingOn
<1>1. \A j \in Job : /\ attempts[j] \in Nat /\ attempts'[j] \in Nat
                     /\ attempts[j] <= attempts'[j]
  BY StepIsCall, AttemptsGrow DEF TypeOK
<1>2. CASE handler'[g] = handler[g]
  BY <1>1, <1>2 DEF WorkingOn
<1>3. CASE Moves(g)
  BY <1>1, <1>3 DEF Moves, WorkingOn
<1> QED
  BY <1>2, <1>3, HandlerMoves

-----------------------------------------------------------------------------
(* The theorems.                                                           *)

PipelineInv == TypeOK /\ JobInv /\ WorkingOn

\* The pipeline starts in the invariant.
LEMMA PipelineInit == Init => PipelineInv /\ JobInit
<1> SUFFICES ASSUME Init PROVE PipelineInv /\ JobInit
  OBVIOUS
<1>1. JobInit /\ JobInv
  BY JobInvInit DEF Init
<1>2. QueueTypeOK
  BY IdleTypes, PipelineAssumption DEF Init, QueueTypeOK
<1>3. WorkingOn
  BY DEF Init, WorkingOn, IdleHandler
<1> QED
  BY <1>1, <1>2, <1>3, TypeSplit DEF PipelineInv, JobInv

\* Every step preserves the invariant and is a step of the tables.
LEMMA PipelineStep == PipelineInv /\ [Next]_vars => PipelineInv' /\ [JobNext]_jobVars
BY StepIsCall, TypeStep, WorkingOnStep, JobInvStep DEF PipelineInv, JobInv

\* Through any faults, with any number of reports, workers, handlers, dispatchers and
\* redeliveries: the tables keep their invariants, and a handler only ever renders,
\* stores or records a PDF for an attempt that has begun.
THEOREM PipelineCorrect == Spec => []PipelineInv
BY PipelineInit, PipelineStep, PTL DEF Spec

\* No interleaving of requests, dispatchers, handlers and faults leaves the types.
THEOREM PipelineTyped == Spec => []TypeOK
BY PipelineCorrect, PTL DEF PipelineInv

\* Every behaviour of the pipeline is one of the repository: dispatchers, workers,
\* crashes and stalls do nothing to the tables the repository does not allow.
THEOREM PipelineUsesTables == Spec => JobSpec
BY PipelineInit, PipelineStep, PipelineCorrect, PTL DEF Spec, JobSpec

\* No late handler, redelivery or recovery reopens or rewrites a settled report.
THEOREM PipelineSettlesForGood == Spec => SettledIsFinal
BY PipelineUsesTables, SettledForGood, PTL

\* The attempt timeline tells what happened, whatever happened.
THEOREM PipelineTimeline == Spec => []TimelineFaithful
BY PipelineCorrect, PTL DEF PipelineInv, JobInv

\* In the running system too, a worker id and a lease are recorded exactly while a report
\* is processing, which is what lets finishAttempt fence on the worker id alone.
THEOREM PipelineLeaseShape == Spec => []LeaseShape
BY PipelineCorrect, PTL DEF PipelineInv, JobInv

\* A retry never starts from a report that has not failed, and no late worker, recovery or
\* redelivery takes its parent out of failed again (finishAttempt, internal/jobs/jobs.go:420).
THEOREM PipelineRetryParentFailed == Spec => []RetryParentFailed
BY PipelineCorrect, PTL DEF PipelineInv, JobInv

\* A client sees the promised lifecycle and nothing else.
THEOREM PipelineImplementsLifecycle == Spec => ImplementsLifecycle
BY PipelineUsesTables, TablesImplementLifecycle, PTL

-----------------------------------------------------------------------------
(* The outbox handoff.                                                     *)

\* A dispatcher about to delete a row it still owns has handed over the intent the
\* row stands for.  The ownership test carries it: rewriting a row unlocks it.
HandoffInv ==
  \A d \in Owner, j \in Job :
    (dispatcher[d].job = j /\ dispatcher[d].ok /\ outbox[j].owner = d) => j \in handed

\* What a step must keep for HandoffInv to survive: a row that loses its handed mark
\* is rewritten unlocked, a row changes owner only under an idle dispatcher, and a
\* dispatcher picks up a job only with its mark.
LEMMA HandoffStep ==
  ASSUME TypeOK, HandoffInv, [Next]_vars
  PROVE  /\ HandoffInv'
         /\ \A j \in Job : (outbox[j].present /\ ~outbox'[j].present) => j \in handed
<1> DEFINE Safe(i) == /\ \A d \in Owner : (/\ dispatcher'[d].job = i /\ dispatcher'[d].ok
                                           /\ outbox'[i].owner = d) => i \in handed'
                      /\ (outbox[i].present /\ ~outbox'[i].present) => i \in handed
<1> SUFFICES ASSUME NEW i \in Job PROVE Safe(i)
  BY DEF HandoffInv
<1>0. /\ outbox \in [Job -> Row] /\ dispatcher \in [Owner -> Settlement]
      /\ \A d \in Owner : d # None
      /\ \A d \in Owner : (dispatcher[d].job = i /\ dispatcher[d].ok /\ outbox[i].owner = d)
                             => i \in handed
  BY NoneAssumption DEF TypeOK, JobTypeOK, HandoffInv
<1>1. ASSUME outbox'[i] = outbox[i] \/ outbox'[i] = FreshRow,
             outbox'[i] = outbox[i] => (i \in handed => i \in handed'),
             dispatcher' = dispatcher
      PROVE  Safe(i)
  BY <1>0, <1>1 DEF FreshRow
<1>2. ASSUME NEW j \in Job, NEW o, InsertQueued(j, o), handed' = handed \ {j},
             dispatcher' = dispatcher
      PROVE  Safe(i)
  <2>1. outbox'[i] = IF i = j THEN FreshRow ELSE outbox[i]
    BY <1>0, <1>2 DEF InsertQueued
  <2>2. CASE i = j
    BY <1>0, <1>2, <2>1, <2>2 DEF FreshRow
  <2>3. CASE i # j
    BY <1>1, <1>2, <2>1, <2>3
  <2> QED
    BY <2>2, <2>3
<1>3. ASSUME NEW j \in Job, Submit(j) PROVE Safe(i)
  BY <1>2, <1>3 DEF Submit, Create
<1>4. ASSUME NEW p \in Job, NEW c \in Job, NEW a \in Actor, NEW k \in Key \cup {None},
             RetryReport(p, c, a, k)
      PROVE  Safe(i)
  BY <1>2, <1>4 DEF RetryReport, Retry
<1>5. ASSUME NEW j \in Job, NEW a \in Actor, RecoverReport(j, a) PROVE Safe(i)
  <2>1. outbox'[i] = IF i = j THEN FreshRow ELSE outbox[i]
    BY <1>0, <1>5 DEF RecoverReport, RecoverStale
  <2>2. CASE i = j
    BY <1>0, <1>5, <2>1, <2>2 DEF RecoverReport, FreshRow
  <2>3. CASE i # j
    BY <1>1, <1>5, <2>1, <2>3 DEF RecoverReport
  <2> QED
    BY <2>2, <2>3
<1>6. ASSUME NEW d \in Owner, DispatchClaim(d) PROVE Safe(i)
  <2>1. dispatcher'[d].job = None
    BY <1>0, <1>6 DEF DispatchClaim, IdleDispatcher, Settlement
  <2>2. \A e \in Owner \ {d} : dispatcher'[e] = dispatcher[e]
    BY <1>0, <1>6 DEF DispatchClaim
  <2>3. /\ outbox'[i].owner \in {outbox[i].owner, d}
        /\ outbox'[i].present = outbox[i].present
    <3>1. PICK batch \in SUBSET Job : ClaimOutbox(batch, d)
      BY <1>6 DEF DispatchClaim
    <3>2. outbox'[i] = IF i \in batch THEN [outbox[i] EXCEPT !.owner = d, !.expired = FALSE]
                                      ELSE outbox[i]
      BY <3>1 DEF ClaimOutbox
    <3>3. outbox[i] \in Row
      BY <1>0
    <3> QED
      BY <3>2, <3>3 DEF Row
  <2>4. handed' = handed
    BY <1>6 DEF DispatchClaim
  <2>5. None \notin Job
    BY NoneAssumption
  <2> QED
    BY <1>0, <2>1, <2>2, <2>3, <2>4, <2>5
<1>7. ASSUME NEW d \in Owner, NEW j \in Job, DispatchEnqueue(d, j) PROVE Safe(i)
  <2>1. outbox' = outbox
    BY <1>7 DEF DispatchEnqueue, jobVars
  <2>2. \A e \in Owner \ {d} : dispatcher'[e] = dispatcher[e]
    BY <1>0, <1>7 DEF DispatchEnqueue, Sent
  <2>3. dispatcher'[d].job = j /\ (dispatcher'[d].ok => j \in handed')
    BY <1>0, <1>7 DEF DispatchEnqueue, Sent, Settlement
  <2>4. handed \subseteq handed'
    BY <1>7 DEF DispatchEnqueue
  <2> QED
    BY <1>0, <2>1, <2>2, <2>3, <2>4
<1>8. ASSUME NEW d \in Owner, DispatchSettle(d) PROVE Safe(i)
  <2> DEFINE j == dispatcher[d].job
  <2>1. \A e \in Owner \ {d} : dispatcher'[e] = dispatcher[e]
    BY <1>0, <1>8 DEF DispatchSettle
  <2>2. dispatcher'[d].ok = FALSE
    BY <1>0, <1>8 DEF DispatchSettle, Settlement
  <2>3. j \in Job /\ handed' = handed
    BY <1>0, <1>8 DEF DispatchSettle, Settlement
  <2>4. CASE CompleteOutbox(j, d) /\ dispatcher[d].ok
    <3>1. \/ outbox'[i] = outbox[i]
          \/ i = j /\ outbox[j].owner = d /\ outbox'[i] = NoRow
      BY <1>0, <2>3, <2>4 DEF CompleteOutbox
    <3> QED
      BY <1>0, <2>1, <2>2, <2>3, <2>4, <3>1 DEF NoRow
  <2>5. CASE RetryOutbox(j, d)
    <3>1. outbox'[i] = outbox[i] \/ (outbox'[i].owner = None /\ outbox'[i].present)
      BY <1>0, <2>3, <2>5 DEF RetryOutbox, FreshRow
    <3> QED
      BY <1>0, <2>1, <2>2, <2>3, <3>1
  <2>6. CASE UNCHANGED jobVars
    <3>1. outbox' = outbox
      BY <2>6 DEF jobVars
    <3> QED
      BY <1>0, <2>1, <2>2, <2>3, <3>1
  <2> QED
    BY <1>8, <2>4, <2>5, <2>6 DEF DispatchSettle
<1>9. ASSUME NEW d \in Owner, DispatchCrash(d) PROVE Safe(i)
  <2>1. \A e \in Owner \ {d} : dispatcher'[e] = dispatcher[e]
    BY <1>0, <1>9 DEF DispatchCrash
  <2>2. dispatcher'[d].ok = FALSE
    BY <1>0, <1>9 DEF DispatchCrash, IdleDispatcher
  <2>3. outbox' = outbox /\ handed' = handed
    BY <1>9 DEF DispatchCrash, jobVars
  <2> QED
    BY <1>0, <2>1, <2>2, <2>3
<1>10. ASSUME NEW j \in Job, LeaseRunsOut(j) \/ LockRunsOut(j) \/ BackoffEnds(j) PROVE Safe(i)
  <2>1. outbox'[i].owner = outbox[i].owner /\ outbox'[i].present = outbox[i].present
    <3>1. CASE LeaseRunsOut(j)
      BY <3>1 DEF LeaseRunsOut, LeaseExpires
    <3>2. CASE LockRunsOut(j)
      BY <1>0, <3>2 DEF LockRunsOut, LockExpires, Row
    <3>3. CASE BackoffEnds(j)
      BY <1>0, <3>3 DEF BackoffEnds, BackoffElapses, Row
    <3> QED
      BY <1>10, <3>1, <3>2, <3>3
  <2>2. dispatcher' = dispatcher /\ handed' = handed
    BY <1>10 DEF LeaseRunsOut, LockRunsOut, BackoffEnds, queueVars
  <2> QED
    BY <1>0, <2>1, <2>2
<1>11. ASSUME outbox' = outbox, dispatcher' = dispatcher, handed' = handed PROVE Safe(i)
  BY <1>1, <1>11
<1>12. ASSUME NEW h \in Handler, HandlerStep(h) \/ TaskTimeout(h) \/ NoticeLost(h)
       PROVE  outbox' = outbox /\ dispatcher' = dispatcher /\ handed' = handed
  BY <1>12 DEF HandlerStep, LoadJob, ClaimJob, Render, PutPdf, CompleteJob, HandleFailure,
               Return, TaskTimeout, NoticeLost, MarkProcessing, MarkCompleted, MarkFailed,
               MarkRetry, FinishAttempt, jobVars
<1>13. ASSUME \/ \E j \in Job : RetryDue(j) \/ AsynqRecover(j)
              \/ \E h \in Handler, j \in Job : Deliver(h, j)
              \/ UNCHANGED vars
       PROVE  outbox' = outbox /\ dispatcher' = dispatcher /\ handed' = handed
  BY <1>13 DEF RetryDue, AsynqRecover, Deliver, vars, jobVars, queueVars
<1>14. ASSUME NEW w \in Worker,
              Crash(w) \/ Abort(w) \/ Stall(w) \/ SendHeartbeat(w) \/ HeartbeatStale(w)
       PROVE  outbox' = outbox /\ dispatcher' = dispatcher /\ handed' = handed
  BY <1>14 DEF Crash, Abort, Stall, SendHeartbeat, HeartbeatStale, Heartbeat, HeartbeatAges,
               jobVars, queueVars
<1> HIDE DEF Safe
<1> QED
  BY <1>3, <1>4, <1>5, <1>6, <1>7, <1>8, <1>9, <1>10, <1>11, <1>12, <1>13, <1>14 DEF Next

\* However dispatchers overlap, crash or settle late, and whatever Redis answers, an
\* intent is deleted only after the queue was asked to run the job for it.
THEOREM PipelineOutboxHandoff == Spec => OutboxHandoff
<1>1. Init => HandoffInv
  BY DEF Init, HandoffInv, IdleDispatcher
<1>2. TypeOK /\ HandoffInv /\ [Next]_vars =>
        /\ HandoffInv'
        /\ [\A j \in Job : (outbox[j].present /\ ~outbox'[j].present) => j \in handed]_vars
  BY HandoffStep
<1> QED
  BY <1>1, <1>2, PipelineTyped, PTL DEF Spec, OutboxHandoff

-----------------------------------------------------------------------------
(* A healthy claim is its own.                                             *)

\* Asynq waits for h, which has claimed its job and not finished with it.
Holds(h) == handler[h].mode = "held" /\ handler[h].pc \in {"render", "put", "complete"}

\* Beside a handler Asynq waits for, no other goroutine of its process works on its
\* report, unless its context is cancelled.  Only a stall nobody has noticed yet breaks
\* this: the task comes back to the process that still runs its lost goroutine.
NoOverlap ==
  \A g, h \in Handler :
    (/\ g # h /\ WorkerOf[g] = WorkerOf[h]
     /\ handler[g].pc # "idle" /\ Live(g) /\ Holds(h))
      => handler[g].job # handler[h].job

\* Whoever ends an attempt in this step does not end that of a handler Asynq waits for in
\* the same process.
EndsApart ==
  \A g, h \in Handler :
    (/\ g # h /\ WorkerOf[g] = WorkerOf[h] /\ Live(g) /\ Holds(h)
     /\ handler[g].pc \in {"complete", "fail"} /\ handler'[g].pc \in {"done", "error"})
      => handler[g].job # handler[h].job

\* The claim is the handler's own, and its lease has not run out.
OwnClaim(h) ==
  LET j == handler[h].job IN
  /\ status[j] = "processing"
  /\ worker[j] = WorkerOf[h]
  /\ attempts[j] = handler[h].pdf
  /\ lease[j] = "held"

ClaimInv == \A h \in Handler : Holds(h) => OwnClaim(h)

\* What OwnClaim reads of a row.
RowKept(j) ==
  /\ status'[j] = status[j]
  /\ worker'[j] = worker[j]
  /\ attempts'[j] = attempts[j]
  /\ lease'[j] = lease[j]

\* Nobody else can touch the row: not a redelivery, since it is not queued; not
\* another handler, since the worker id is the handler's; not a recovery, since
\* the lease is held as long as Asynq waits.
LEMMA ClaimKept ==
  ASSUME TypeOK, WorkingOn, EndsApart, ClaimInv, [Next]_vars,
         NEW h \in Handler, Holds(h), handler'[h].pc \in {"render", "put", "complete"}
  PROVE  RowKept(handler[h].job)
<1> DEFINE j == handler[h].job
<1>0. /\ j \in Job /\ status[j] = "processing" /\ worker[j] = WorkerOf[h] /\ lease[j] = "held"
      /\ WorkerOf[h] \in Worker
  BY PipelineAssumption DEF ClaimInv, Holds, OwnClaim, WorkingOn
<1>1. JobTypeOK /\ handler \in [Handler -> Goroutine] /\ handler[h] \in Goroutine
  BY DEF TypeOK
<1>2. ASSUME NEW i \in Job, NEW o, InsertQueued(i, o) PROVE RowKept(j)
  BY <1>0, <1>1, <1>2 DEF InsertQueued, JobTypeOK, RowKept
<1>3. ASSUME NEW i \in Job, NEW w \in Worker, MarkProcessing(i, w) PROVE RowKept(j)
  BY <1>0, <1>1, <1>3 DEF MarkProcessing, JobTypeOK, RowKept
<1>4. ASSUME NEW i \in Job, i # j, NEW s, NEW t, NEW by, CloseAttempt(i, s, t, by),
             UNCHANGED attempts
      PROVE  RowKept(j)
  BY <1>0, <1>1, <1>4 DEF CloseAttempt, JobTypeOK, RowKept
<1>5. ASSUME UNCHANGED <<status, worker, attempts, lease>> PROVE RowKept(j)
  BY <1>5 DEF RowKept
<1>6. ASSUME NEW g \in Handler, g # h, Live(g),
             handler[g].pc \in {"complete", "fail"}, handler'[g].pc \in {"done", "error"},
             \/ MarkCompleted(handler[g].job, WorkerOf[g], handler[g].pdf)
             \/ MarkFailed(handler[g].job, WorkerOf[g])
             \/ MarkRetry(handler[g].job, WorkerOf[g])
      PROVE  RowKept(j)
  <2>1. handler[g].job \in Job /\ worker[handler[g].job] = WorkerOf[g]
    BY <1>6 DEF WorkingOn, MarkCompleted, MarkFailed, MarkRetry, FinishAttempt
  <2>2. handler[g].job # j
    BY <1>0, <1>6, <2>1 DEF EndsApart
  <2> QED
    BY <1>4, <1>6, <2>1, <2>2 DEF MarkCompleted, MarkFailed, MarkRetry, FinishAttempt
<1>7. ASSUME NEW g \in Handler, HandlerStep(g) PROVE RowKept(j)
  <2>1. CASE LoadJob(g) \/ Render(g) \/ PutPdf(g) \/ Return(g)
    BY <1>5, <2>1 DEF LoadJob, Render, PutPdf, Return, jobVars
  <2>2. CASE ClaimJob(g)
    <3>1. handler[g].job \in Job /\ WorkerOf[g] \in Worker
      BY <2>2, PipelineAssumption DEF ClaimJob, At, WorkingOn
    <3>2. UNCHANGED jobVars => RowKept(j)
      BY <1>5 DEF jobVars
    <3> QED
      BY <1>3, <2>2, <3>1, <3>2 DEF ClaimJob
  <2>3. CASE CompleteJob(g) \/ HandleFailure(g)
    <3>1. handler'[g].pc \in {"done", "error"} /\ handler[g].pc \in {"complete", "fail"}
      BY <1>1, <2>3 DEF CompleteJob, HandleFailure, At, Goto, Goroutine
    <3>2. g # h
      BY <3>1
    <3>3. UNCHANGED jobVars => RowKept(j)
      BY <1>5 DEF jobVars
    <3> QED
      BY <1>6, <2>3, <3>1, <3>2, <3>3 DEF CompleteJob, HandleFailure
  <2> QED
    BY <1>7, <2>1, <2>2, <2>3 DEF HandlerStep
<1>8. ASSUME NEW i \in Job, NEW a \in Actor, RecoverReport(i, a) PROVE RowKept(j)
  <2>1. i # j
    BY <1>0, <1>8 DEF RecoverReport, RecoverStale, Recoverable
  <2> QED
    BY <1>4, <1>8, <2>1 DEF RecoverReport, RecoverStale
<1>9. ASSUME NEW i \in Job, LeaseRunsOut(i) PROVE RowKept(j)
  <2>1. i # j
    BY <1>0, <1>9 DEF LeaseRunsOut, Waits, Holds
  <2> QED
    BY <1>0, <1>1, <1>9, <2>1 DEF LeaseRunsOut, LeaseExpires, JobTypeOK, RowKept
<1>10. ASSUME NEW i \in Job, Submit(i) PROVE RowKept(j)
  BY <1>2, <1>10 DEF Submit, Create
<1>11. ASSUME NEW p \in Job, NEW c \in Job, NEW a \in Actor, NEW k \in Key \cup {None},
              RetryReport(p, c, a, k)
       PROVE  RowKept(j)
  BY <1>2, <1>11 DEF RetryReport, Retry
<1>12. ASSUME NEW d \in Owner, DispatchClaim(d) \/ DispatchSettle(d) \/ DispatchCrash(d)
                 \/ \E i \in Job : DispatchEnqueue(d, i)
       PROVE  RowKept(j)
  BY <1>5, <1>12 DEF DispatchClaim, DispatchSettle, DispatchCrash, DispatchEnqueue,
                     ClaimOutbox, CompleteOutbox, RetryOutbox, jobVars
<1>13. ASSUME \/ \E i \in Job : RetryDue(i) \/ AsynqRecover(i) \/ LockRunsOut(i) \/ BackoffEnds(i)
              \/ \E g \in Handler, i \in Job : Deliver(g, i)
              \/ \E g \in Handler : TaskTimeout(g) \/ NoticeLost(g)
              \/ UNCHANGED vars
       PROVE  RowKept(j)
  BY <1>5, <1>13 DEF RetryDue, AsynqRecover, LockRunsOut, BackoffEnds, LockExpires,
                     BackoffElapses, Deliver, TaskTimeout, NoticeLost, vars, jobVars
<1>14. ASSUME NEW w \in Worker,
              Crash(w) \/ Abort(w) \/ Stall(w) \/ SendHeartbeat(w) \/ HeartbeatStale(w)
       PROVE  RowKept(j)
  BY <1>5, <1>14 DEF Crash, Abort, Stall, SendHeartbeat, HeartbeatStale, Heartbeat,
                     HeartbeatAges, jobVars
<1> HIDE DEF j
<1>15. RowKept(j)
  BY <1>7, <1>8, <1>9, <1>10, <1>11, <1>12, <1>13, <1>14 DEF Next
<1> QED
  BY <1>15 DEF j

\* A handler holds a claim because it held it before, or because it has just taken it.
LEMMA ClaimTaken ==
  ASSUME TypeOK, WorkingOn, [Next]_vars, NEW h \in Handler, Holds(h)'
  PROVE  \/ /\ Holds(h) /\ handler'[h].job = handler[h].job
            /\ handler'[h].pdf = handler[h].pdf
         \/ handler'[h].pc = "render" /\ OwnClaim(h)'
<1> DEFINE Good == \/ /\ Holds(h) /\ handler'[h].job = handler[h].job
                      /\ handler'[h].pdf = handler[h].pdf
                   \/ handler'[h].pc = "render" /\ OwnClaim(h)'
<1>0. handler \in [Handler -> Goroutine] /\ handler[h] \in Goroutine
  BY DEF TypeOK
<1>1. ASSUME handler'[h] = handler[h] PROVE Good
  BY <1>1 DEF Holds
<1>2. ASSUME NEW g \in Handler, NEW pc \in PC, Goto(g, pc),
             \/ pc \notin {"render", "put", "complete"}
             \/ handler[g].pc \in {"render", "put", "complete"}
      PROVE  Good
  <2>1. CASE g = h
    BY <1>0, <1>2, <2>1 DEF Goto, Goroutine, Holds
  <2>2. CASE g # h
    BY <1>0, <1>1, <1>2, <2>2 DEF Goto
  <2> QED
    BY <2>1, <2>2
<1>3. ASSUME NEW g \in Handler, LoadJob(g) \/ Render(g) \/ PutPdf(g) PROVE Good
  <2>1. CASE LoadJob(g)
    BY <1>2, <2>1 DEF LoadJob, PC
  <2>2. CASE Render(g)
    BY <1>2, <2>2 DEF Render, At, PC
  <2>3. CASE PutPdf(g)
    BY <1>2, <2>3 DEF PutPdf, At, PC
  <2> QED
    BY <1>3, <2>1, <2>2, <2>3
<1>4. ASSUME NEW g \in Handler, CompleteJob(g) \/ HandleFailure(g) PROVE Good
  BY <1>2, <1>4 DEF CompleteJob, HandleFailure, PC
<1>5. ASSUME NEW g \in Handler, ClaimJob(g) PROVE Good
  <2>1. CASE Goto(g, "done") \/ Goto(g, "error")
    BY <1>2, <2>1 DEF PC
  <2>2. CASE /\ MarkProcessing(handler[g].job, WorkerOf[g])
             /\ handler' = [handler EXCEPT ![g].pc = "render",
                                           ![g].pdf = attempts[handler[g].job] + 1]
    <3>1. CASE g = h
      <4>1. handler[h].job \in Job
        BY <1>5, <3>1 DEF ClaimJob, At, WorkingOn
      <4>2. /\ handler'[h].pc = "render" /\ handler'[h].job = handler[h].job
            /\ handler'[h].pdf = attempts[handler[h].job] + 1
        BY <1>0, <2>2, <3>1 DEF Goroutine
      <4> QED
        BY <2>2, <3>1, <4>1, <4>2 DEF MarkProcessing, TypeOK, JobTypeOK, OwnClaim
    <3>2. CASE g # h
      BY <1>0, <1>1, <2>2, <3>2
    <3> QED
      BY <3>1, <3>2
  <2> QED
    BY <1>5, <2>1, <2>2 DEF ClaimJob
<1>6. ASSUME NEW g \in Handler, Return(g) PROVE Good
  BY <1>0, <1>1, <1>6 DEF Return, IdleHandler, Holds
<1>7. ASSUME NEW g \in Handler, TaskTimeout(g) \/ NoticeLost(g) PROVE Good
  <2>1. handler' = [handler EXCEPT ![g].mode = "dead"]
    BY <1>7 DEF TaskTimeout, NoticeLost
  <2> QED
    BY <1>0, <1>1, <2>1 DEF Goroutine, Holds
<1>8. ASSUME NEW g \in Handler, NEW i \in Job, Deliver(g, i) PROVE Good
  BY <1>0, <1>1, <1>8 DEF Deliver, Holds
<1>9. ASSUME NEW w \in Worker, Crash(w) \/ Abort(w) PROVE Good
  BY <1>1, <1>9 DEF Crash, Abort, Stopped, IdleHandler, Holds
<1>10. ASSUME NEW w \in Worker, Stall(w) PROVE Good
  BY <1>0, <1>1, <1>10 DEF Stall, Goroutine, Holds
<1>11. ASSUME \/ \E j \in Job : Submit(j) \/ RetryDue(j) \/ AsynqRecover(j)
              \/ \E j \in Job : LeaseRunsOut(j) \/ LockRunsOut(j) \/ BackoffEnds(j)
              \/ \E p, c \in Job, a \in Actor, k \in Key \cup {None} : RetryReport(p, c, a, k)
              \/ \E j \in Job, a \in Actor : RecoverReport(j, a)
              \/ \E d \in Owner : DispatchClaim(d) \/ DispatchSettle(d) \/ DispatchCrash(d)
              \/ \E d \in Owner, j \in Job : DispatchEnqueue(d, j)
              \/ \E w \in Worker : SendHeartbeat(w) \/ HeartbeatStale(w)
              \/ UNCHANGED vars
       PROVE  handler' = handler
  BY <1>11 DEF Submit, RetryDue, AsynqRecover, LeaseRunsOut, LockRunsOut, BackoffEnds,
               RetryReport, RecoverReport, DispatchClaim, DispatchSettle, DispatchCrash,
               DispatchEnqueue, SendHeartbeat, HeartbeatStale, vars, queueVars
<1>12. ASSUME NEW g \in Handler, HandlerStep(g) PROVE Good
  BY <1>3, <1>4, <1>5, <1>6, <1>12 DEF HandlerStep
<1> HIDE DEF Good
<1>13. Good
  BY <1>1, <1>7, <1>8, <1>9, <1>10, <1>11, <1>12 DEF Next
<1> QED
  BY <1>13 DEF Good

\* Every step in which nobody ends another's attempt keeps healthy claims their own.
LEMMA ClaimStep ==
  ASSUME TypeOK, WorkingOn, EndsApart, ClaimInv, [Next]_vars PROVE ClaimInv'
<1> SUFFICES ASSUME NEW h \in Handler, Holds(h)' PROVE OwnClaim(h)'
  BY DEF ClaimInv
<1>1. CASE OwnClaim(h)'
  BY <1>1
<1>2. CASE Holds(h) /\ handler'[h].job = handler[h].job /\ handler'[h].pdf = handler[h].pdf
  <2>1. OwnClaim(h) /\ RowKept(handler[h].job)
    BY <1>2, ClaimKept DEF ClaimInv, Holds
  <2> QED
    BY <1>2, <2>1 DEF OwnClaim, RowKept
<1> QED
  BY <1>1, <1>2, ClaimTaken

\* The fence is the worker id, shared by all goroutines of a process.  It is enough
\* as long as no two of them that are not cancelled work on one report: then a handler
\* Asynq waits for owns its claim, whatever crashes, stalls and recoveries happen.
THEOREM PipelineHealthyClaim == Spec /\ []NoOverlap => []HealthyClaimIsOwn
<1>1. Init => ClaimInv
  BY DEF Init, ClaimInv, Holds, IdleHandler
<1>2. TypeOK /\ WorkingOn /\ NoOverlap /\ ClaimInv /\ [Next]_vars => ClaimInv'
  <2>1. NoOverlap => EndsApart
    BY DEF NoOverlap, EndsApart
  <2> QED
    BY <2>1, ClaimStep
<1>3. ClaimInv => HealthyClaimIsOwn
  BY DEF ClaimInv, HealthyClaimIsOwn, Holds, OwnClaim
<1>4. PipelineInv => TypeOK /\ WorkingOn
  BY DEF PipelineInv
<1> QED
  BY <1>1, <1>2, <1>3, <1>4, PipelineCorrect, PTL DEF Spec

-----------------------------------------------------------------------------
(* What a budget nobody has touched says about a step.                     *)

\* None of these faults has happened.
Unspent(F) == \A k \in F : budget[k] = Faults[k]

BudgetInv == \A k \in Bounds : budget[k] <= Faults[k]

\* A step spends nothing, one fault, or one recovery.
LEMMA BudgetMoves ==
  ASSUME [Next]_vars
  PROVE  \/ UNCHANGED budget
         \/ \E k \in FaultKind : Spend(k)
         \/ budget["recover"] > 0 /\ budget' = [budget EXCEPT !["recover"] = @ - 1]
<1>0. FaultKind = {"crash", "abort", "timeout", "stall", "dispatcher", "redis", "db", "lost"}
  BY DEF FaultKind
<1> DEFINE Moved == \/ UNCHANGED budget
                    \/ \E k \in FaultKind : Spend(k)
                    \/ budget["recover"] > 0 /\ budget' = [budget EXCEPT !["recover"] = @ - 1]
<1>1. ASSUME NEW h \in Handler, HandlerStep(h) \/ TaskTimeout(h) \/ NoticeLost(h) PROVE Moved
  BY <1>0, <1>1 DEF HandlerStep, LoadJob, ClaimJob, Render, PutPdf, CompleteJob, HandleFailure,
                    Return, TaskTimeout, NoticeLost, CallFails
<1>2. ASSUME NEW d \in Owner,
             DispatchClaim(d) \/ DispatchSettle(d) \/ DispatchCrash(d)
               \/ \E j \in Job : DispatchEnqueue(d, j)
      PROVE  Moved
  BY <1>0, <1>2 DEF DispatchClaim, DispatchSettle, DispatchCrash, DispatchEnqueue
<1>3. ASSUME NEW w \in Worker,
             Crash(w) \/ Abort(w) \/ Stall(w) \/ SendHeartbeat(w) \/ HeartbeatStale(w)
      PROVE  Moved
  BY <1>0, <1>3 DEF Crash, Abort, Stall, SendHeartbeat, HeartbeatStale, queueVars
<1>4. ASSUME NEW j \in Job, NEW a \in Actor, RecoverReport(j, a) PROVE Moved
  BY <1>4 DEF RecoverReport
<1>5. ASSUME \/ \E j \in Job : Submit(j) \/ RetryDue(j) \/ AsynqRecover(j)
             \/ \E j \in Job : LeaseRunsOut(j) \/ LockRunsOut(j) \/ BackoffEnds(j)
             \/ \E p, c \in Job, a \in Actor, k \in Key \cup {None} : RetryReport(p, c, a, k)
             \/ \E h \in Handler, j \in Job : Deliver(h, j)
             \/ UNCHANGED vars
      PROVE  Moved
  BY <1>5 DEF Submit, RetryDue, AsynqRecover, LeaseRunsOut, LockRunsOut, BackoffEnds,
              RetryReport, Deliver, vars, queueVars
<1> HIDE DEF Moved
<1>6. Moved
  BY <1>1, <1>2, <1>3, <1>4, <1>5 DEF Next
<1> QED
  BY <1>6 DEF Moved

\* Budgets only shrink, so a fault that is unspent after a step was unspent before it,
\* and the step did not spend it.
LEMMA UnspentStep ==
  ASSUME TypeOK, BudgetInv, [Next]_vars, NEW F \in SUBSET FaultKind
  PROVE  /\ BudgetInv'
         /\ Unspent(F)' => Unspent(F) /\ \A k \in F : ~Spend(k)
<1>0. /\ budget \in [Bounds -> Nat] /\ Faults \in [Bounds -> Nat]
      /\ FaultKind \subseteq Bounds /\ "any" \in Bounds /\ "any" \notin FaultKind
      /\ "recover" \in Bounds /\ "recover" \notin FaultKind
  BY PipelineAssumption DEF TypeOK, Bounds, FaultKind
<1>1. CASE UNCHANGED budget
  <2>1. \A k \in FaultKind : ~Spend(k)
    BY <1>0, <1>1 DEF Spend
  <2> QED
    BY <1>0, <1>1, <2>1 DEF BudgetInv, Unspent
<1>2. ASSUME NEW s \in FaultKind, Spend(s)
      PROVE  /\ BudgetInv'
             /\ Unspent(F)' => Unspent(F) /\ \A k \in F : ~Spend(k)
  <2>1. /\ budget'[s] = budget[s] - 1 /\ budget'["any"] = budget["any"] - 1
        /\ \A b \in Bounds \ {s, "any"} : budget'[b] = budget[b]
    BY <1>0, <1>2 DEF Spend
  <2>2. budget[s] <= Faults[s] /\ budget[s] \in Nat /\ Faults[s] \in Nat
    BY <1>0 DEF BudgetInv
  <2>3. s \notin F \/ ~(Unspent(F)')
    BY <2>1, <2>2 DEF Unspent
  <2>4. ASSUME NEW k \in FaultKind, Spend(k) PROVE k = s
    <3>1. k # s => budget'[k] = budget[k] - 1 /\ budget'[k] = budget[k]
      BY <1>0, <2>1, <2>4 DEF Spend
    <3>2. budget[k] \in Nat
      BY <1>0
    <3> QED
      BY <3>1, <3>2
  <2>5. BudgetInv'
    BY <1>0, <2>1 DEF BudgetInv
  <2>6. Unspent(F)' => Unspent(F)
    BY <1>0, <2>1, <2>3 DEF Unspent
  <2> QED
    BY <2>3, <2>4, <2>5, <2>6
<1>3. CASE budget["recover"] > 0 /\ budget' = [budget EXCEPT !["recover"] = @ - 1]
  <2>1. \A b \in FaultKind \cup {"any"} : budget'[b] = budget[b]
    BY <1>0, <1>3
  <2>2. budget'["recover"] = budget["recover"] - 1
    BY <1>0, <1>3
  <2>3. \A k \in FaultKind : ~Spend(k)
    BY <1>0, <2>1 DEF Spend
  <2>4. BudgetInv'
    BY <1>0, <1>3, <2>2 DEF BudgetInv
  <2> QED
    BY <1>0, <2>1, <2>3, <2>4 DEF Unspent
<1> QED
  BY <1>1, <1>2, <1>3, BudgetMoves

-----------------------------------------------------------------------------
(* Asynq's leases fence the handlers it waits for.                         *)

\* Asynq waits for h.
Waiting(h) == handler[h].pc # "idle" /\ handler[h].mode = "held"

\* A handler Asynq waits for has the task, and has it alone.
TaskFence ==
  /\ \A h \in Handler : Waiting(h) => task[handler[h].job].state = "active"
  /\ \A g, h \in Handler :
       (g # h /\ Waiting(g) /\ Waiting(h)) => handler[g].job # handler[h].job

\* Asynq gives a task that is waited for to nobody else, and takes it back only together
\* with the goroutine: at its return, its timeout or its process's end.
LEMMA TaskFenceStep ==
  ASSUME TypeOK, WorkingOn, TaskFence, [Next]_vars PROVE TaskFence'
<1>0. /\ handler \in [Handler -> Goroutine] /\ \A h \in Handler : handler[h] \in Goroutine
      /\ task \in [Job -> Task] /\ \A j \in Job : task[j] \in Task
      /\ \A h \in Handler : Waiting(h) => handler[h].job \in Job
  BY DEF TypeOK, WorkingOn, Waiting
\* The common case: a handler that is waited for already was, for the same task, and
\* the task is still active.
<1>1. ASSUME \A h \in Handler :
               Waiting(h)' => /\ Waiting(h) /\ handler'[h].job = handler[h].job
                              /\ task'[handler[h].job].state = "active"
      PROVE  TaskFence'
  BY <1>1 DEF TaskFence
<1>2. ASSUME handler' = handler,
             \A j \in Job : (\E h \in Handler : Waits(h, j)) => (task'[j] = task[j])
      PROVE  TaskFence'
  <2>1. \A h \in Handler : Waiting(h) => Waits(h, handler[h].job)
    BY DEF Waiting, Waits
  <2> QED
    BY <1>0, <1>1, <1>2, <2>1 DEF TaskFence, Waiting
<1>3. ASSUME NEW g \in Handler, NEW pc \in PC, Goto(g, pc), handler[g].pc # "idle", task' = task
      PROVE  TaskFence'
  <2>1. \A h \in Handler : /\ handler'[h].mode = handler[h].mode
                           /\ handler'[h].job = handler[h].job
                           /\ handler'[h].pc # "idle" => handler[h].pc # "idle"
    BY <1>0, <1>3 DEF Goto, Goroutine
  <2> QED
    BY <1>1, <1>3, <2>1 DEF TaskFence, Waiting
<1>4. ASSUME NEW g \in Handler, LoadJob(g) \/ Render(g) \/ PutPdf(g) \/ CompleteJob(g)
                                  \/ HandleFailure(g)
      PROVE  TaskFence'
  <2>1. task' = task /\ handler[g].pc # "idle" /\ \E pc \in PC : Goto(g, pc)
    BY <1>4 DEF LoadJob, Render, PutPdf, CompleteJob, HandleFailure, At, PC
  <2> QED
    BY <1>3, <2>1
<1>5. ASSUME NEW g \in Handler, ClaimJob(g) PROVE TaskFence'
  <2>1. task' = task /\ handler[g].pc # "idle"
    BY <1>5 DEF ClaimJob, At
  <2>2. CASE Goto(g, "done") \/ Goto(g, "error")
    BY <1>3, <2>1, <2>2 DEF PC
  <2>3. CASE handler' = [handler EXCEPT ![g].pc = "render",
                                        ![g].pdf = attempts[handler[g].job] + 1]
    <3>1. \A h \in Handler : /\ handler'[h].mode = handler[h].mode
                             /\ handler'[h].job = handler[h].job
                             /\ handler'[h].pc # "idle" => handler[h].pc # "idle"
      BY <1>0, <2>1, <2>3 DEF Goroutine
    <3> QED
      BY <1>1, <2>1, <3>1 DEF TaskFence, Waiting
  <2> QED
    BY <1>5, <2>2, <2>3 DEF ClaimJob
\* A handler that stops being waited for takes only its own task with it.
<1>6. ASSUME NEW g \in Handler,
             ~(Waiting(g)'),
             \A h \in Handler \ {g} : handler'[h] = handler[h],
             \A j \in Job : task'[j] = task[j] \/ (Waiting(g) /\ j = handler[g].job)
      PROVE  TaskFence'
  <2>1. ASSUME NEW h \in Handler \ {g}, Waiting(h)
        PROVE  task'[handler[h].job].state = "active"
    <3>1. handler[h].job \in Job /\ task[handler[h].job].state = "active"
      BY <1>0, <2>1 DEF TaskFence
    <3>2. ~(Waiting(g) /\ handler[h].job = handler[g].job)
      BY <2>1 DEF TaskFence
    <3> QED
      BY <1>6, <3>1, <3>2
  <2> QED
    BY <1>1, <1>6, <2>1 DEF TaskFence, Waiting
<1>7. ASSUME NEW g \in Handler, Return(g) PROVE TaskFence'
  <2>1. handler' = [handler EXCEPT ![g] = IdleHandler] /\ handler[g].pc # "idle"
    BY <1>7 DEF Return
  <2>2. handler'[g] = IdleHandler /\ \A h \in Handler \ {g} : handler'[h] = handler[h]
    BY <1>0, <2>1
  <2>3. \A j \in Job : task'[j] = task[j] \/ (Waiting(g) /\ j = handler[g].job)
    BY <1>0, <1>7 DEF Return, Waiting
  <2> QED
    BY <1>6, <2>2, <2>3 DEF IdleHandler, Waiting
<1>8. ASSUME NEW g \in Handler, TaskTimeout(g) PROVE TaskFence'
  <2>1. handler' = [handler EXCEPT ![g].mode = "dead"]
    BY <1>8 DEF TaskTimeout
  <2>2. handler'[g].mode = "dead" /\ \A h \in Handler \ {g} : handler'[h] = handler[h]
    BY <1>0, <2>1 DEF Goroutine
  <2>3. \A j \in Job : task'[j] = task[j] \/ (Waiting(g) /\ j = handler[g].job)
    BY <1>0, <1>8 DEF TaskTimeout, Waiting
  <2> QED
    BY <1>6, <2>2, <2>3 DEF Waiting
<1>9. ASSUME NEW g \in Handler, NoticeLost(g) PROVE TaskFence'
  <2>1. handler' = [handler EXCEPT ![g].mode = "dead"] /\ task' = task
    BY <1>9 DEF NoticeLost
  <2>2. handler'[g].mode = "dead" /\ \A h \in Handler \ {g} : handler'[h] = handler[h]
    BY <1>0, <2>1 DEF Goroutine
  <2> QED
    BY <1>6, <2>1, <2>2 DEF Waiting
<1>10. ASSUME NEW g \in Handler, NEW j \in Job, Deliver(g, j) PROVE TaskFence'
  <2>1. /\ handler'[g].mode = "held" /\ handler'[g].job = j
        /\ \A h \in Handler \ {g} : handler'[h] = handler[h]
    BY <1>0, <1>10 DEF Deliver
  <2>2. task'[j].state = "active" /\ \A i \in Job \ {j} : task'[i] = task[i]
    BY <1>0, <1>10 DEF Deliver, Task
  <2>3. \A h \in Handler : Waiting(h) => handler[h].job # j
    BY <1>10 DEF Deliver, TaskFence
  <2> QED
    BY <1>0, <2>1, <2>2, <2>3 DEF TaskFence, Waiting
<1>11. ASSUME NEW w \in Worker, Crash(w) PROVE TaskFence'
  <2>1. \A h \in Handler : handler'[h] \in {handler[h], IdleHandler} /\ task' = task
    BY <1>11 DEF Crash, Stopped
  <2> QED
    BY <1>1, <2>1 DEF TaskFence, Waiting, IdleHandler
<1>12. ASSUME NEW w \in Worker, Abort(w) PROVE TaskFence'
  <2>1. \A h \in Handler : handler'[h] = IF WorkerOf[h] = w THEN IdleHandler ELSE handler[h]
    BY <1>12 DEF Abort, Stopped
  <2>2. ASSUME NEW h \in Handler, Waiting(h), WorkerOf[h] # w
        PROVE  task'[handler[h].job] = task[handler[h].job]
    <3>1. ASSUME NEW g \in Handler, WorkerOf[g] = w PROVE ~Waits(g, handler[h].job)
      BY <2>2, <3>1 DEF TaskFence, Waiting, Waits
    <3> QED
      BY <1>0, <1>12, <2>2, <3>1 DEF Abort
  <2> QED
    BY <1>1, <2>1, <2>2 DEF TaskFence, Waiting, IdleHandler
<1>13. ASSUME NEW w \in Worker, Stall(w) PROVE TaskFence'
  <2>1. \A h \in Handler : handler'[h] = handler[h] \/ handler'[h] = [handler[h] EXCEPT !.mode = "lost"]
    BY <1>13 DEF Stall
  <2>2. \A h \in Handler : Waiting(h)' => handler'[h] = handler[h]
    BY <1>0, <2>1 DEF Waiting, Goroutine
  <2>3. task' = task
    BY <1>13 DEF Stall
  <2> QED
    BY <1>1, <2>2, <2>3 DEF TaskFence, Waiting
<1>14. ASSUME NEW d \in Owner, NEW j \in Job, DispatchEnqueue(d, j) PROVE TaskFence'
  <2>1. handler' = handler /\ (task' = task \/ Enqueued(j))
    BY <1>14 DEF DispatchEnqueue
  <2>2. ASSUME NEW i \in Job, NEW h \in Handler, Waits(h, i) PROVE task'[i] = task[i]
    <3>1. task[i].state = "active"
      BY <2>2 DEF TaskFence, Waiting, Waits
    <3> QED
      BY <1>0, <2>1, <3>1 DEF Enqueued
  <2> QED
    BY <1>2, <2>1, <2>2
<1>15. ASSUME NEW j \in Job, RetryDue(j) \/ AsynqRecover(j) PROVE TaskFence'
  <2>1. handler' = handler
    BY <1>15 DEF RetryDue, AsynqRecover
  <2>2. ASSUME NEW i \in Job, NEW h \in Handler, Waits(h, i) PROVE task'[i] = task[i]
    <3>1. task[i].state = "active"
      BY <2>2 DEF TaskFence, Waiting, Waits
    <3> QED
      BY <1>0, <1>15, <2>2, <3>1 DEF RetryDue, AsynqRecover
  <2> QED
    BY <1>2, <2>1, <2>2
<1>16. ASSUME \/ \E j \in Job : Submit(j)
              \/ \E j \in Job : LeaseRunsOut(j) \/ LockRunsOut(j) \/ BackoffEnds(j)
              \/ \E p, c \in Job, a \in Actor, k \in Key \cup {None} : RetryReport(p, c, a, k)
              \/ \E j \in Job, a \in Actor : RecoverReport(j, a)
              \/ \E d \in Owner : DispatchClaim(d) \/ DispatchSettle(d) \/ DispatchCrash(d)
              \/ \E w \in Worker : SendHeartbeat(w) \/ HeartbeatStale(w)
              \/ UNCHANGED vars
       PROVE  handler' = handler /\ task' = task
  BY <1>16 DEF Submit, LeaseRunsOut, LockRunsOut, BackoffEnds, RetryReport, RecoverReport,
               DispatchClaim, DispatchSettle, DispatchCrash, SendHeartbeat, HeartbeatStale,
               vars, queueVars
<1>17. handler' = handler /\ task' = task => TaskFence'
  BY <1>2
<1>18. ASSUME NEW g \in Handler, HandlerStep(g) PROVE TaskFence'
  BY <1>4, <1>5, <1>7, <1>18 DEF HandlerStep
<1> QED
  BY <1>8, <1>9, <1>10, <1>11, <1>12, <1>13, <1>14, <1>15, <1>16, <1>17, <1>18 DEF Next

\* Whatever fails, stalls included, two handlers Asynq waits for never run one report, and
\* the task of such a handler is not given to anybody else.
THEOREM PipelineTaskFence == Spec => []TaskFence
<1>1. Init => TaskFence
  BY DEF Init, TaskFence, Waiting, IdleHandler
<1>2. PipelineInv /\ TaskFence /\ [Next]_vars => TaskFence'
  BY TaskFenceStep DEF PipelineInv
<1> QED
  BY <1>1, <1>2, PipelineCorrect, PTL DEF Spec

-----------------------------------------------------------------------------
(* An artifact is the work of the attempt that is recorded.                *)

\* A stored object is written by a handler whose context is not cancelled, in its Put.
LEMMA BlobMoves ==
  ASSUME TypeOK, [Next]_vars
  PROVE  \/ blob' = blob
         \/ \E g \in Handler :
              /\ At(g, "put") /\ Live(g) /\ handler'[g].pc \in {"complete", "fail"}
              /\ blob' = [blob EXCEPT ![handler[g].job] = handler[g].pdf]
<1> DEFINE Moved == \/ blob' = blob
                    \/ \E g \in Handler :
                         /\ At(g, "put") /\ Live(g) /\ handler'[g].pc \in {"complete", "fail"}
                         /\ blob' = [blob EXCEPT ![handler[g].job] = handler[g].pdf]
<1>1. ASSUME NEW h \in Handler, PutPdf(h) PROVE Moved
  <2>1. \A pc : Goto(h, pc) => handler'[h].pc = pc
    BY DEF Goto, TypeOK, Goroutine
  <2> QED
    BY <1>1, <2>1 DEF PutPdf
<1>2. ASSUME NEW h \in Handler,
             \/ LoadJob(h) \/ ClaimJob(h) \/ Render(h) \/ CompleteJob(h) \/ HandleFailure(h)
             \/ Return(h) \/ TaskTimeout(h) \/ NoticeLost(h)
      PROVE  Moved
  BY <1>2 DEF LoadJob, ClaimJob, Render, CompleteJob, HandleFailure, Return, TaskTimeout, NoticeLost
<1>3. ASSUME \/ \E j \in Job : Submit(j) \/ RetryDue(j) \/ AsynqRecover(j)
             \/ \E j \in Job : LeaseRunsOut(j) \/ LockRunsOut(j) \/ BackoffEnds(j)
             \/ \E p, c \in Job, a \in Actor, k \in Key \cup {None} : RetryReport(p, c, a, k)
             \/ \E j \in Job, a \in Actor : RecoverReport(j, a)
             \/ \E d \in Owner : DispatchClaim(d) \/ DispatchSettle(d) \/ DispatchCrash(d)
             \/ \E d \in Owner, j \in Job : DispatchEnqueue(d, j)
             \/ \E h \in Handler, j \in Job : Deliver(h, j)
             \/ \E w \in Worker : Crash(w) \/ Abort(w) \/ Stall(w) \/ SendHeartbeat(w)
                                    \/ HeartbeatStale(w)
             \/ UNCHANGED vars
      PROVE  Moved
  BY <1>3 DEF Submit, RetryDue, AsynqRecover, LeaseRunsOut, LockRunsOut, BackoffEnds, RetryReport,
              RecoverReport, DispatchClaim, DispatchSettle, DispatchCrash, DispatchEnqueue, Deliver,
              Crash, Abort, Stall, SendHeartbeat, HeartbeatStale, vars, queueVars
<1> HIDE DEF Moved
<1>4. Moved
  BY <1>1, <1>2, <1>3 DEF Next, HandlerStep
<1> QED
  BY <1>4 DEF Moved

\* A handler gets to MarkCompleted only by storing its PDF.
LEMMA CompleteReached ==
  ASSUME TypeOK, [Next]_vars, NEW h \in Handler, handler'[h].pc = "complete"
  PROVE  \/ handler[h].pc = "complete"
         \/ /\ At(h, "put") /\ Live(h)
            /\ blob' = [blob EXCEPT ![handler[h].job] = handler[h].pdf]
<1> DEFINE Good == \/ handler[h].pc = "complete"
                   \/ /\ At(h, "put") /\ Live(h)
                      /\ blob' = [blob EXCEPT ![handler[h].job] = handler[h].pdf]
<1>0. handler \in [Handler -> Goroutine] /\ \A g \in Handler : handler[g] \in Goroutine
  BY DEF TypeOK
<1>1. ASSUME handler'[h].pc = handler[h].pc PROVE Good
  BY <1>1
<1>2. ASSUME NEW g \in Handler, NEW pc \in PC, Goto(g, pc), g = h => pc # "complete" PROVE Good
  BY <1>0, <1>2 DEF Goto, Goroutine
<1>3. ASSUME NEW g \in Handler, LoadJob(g) \/ Render(g) \/ CompleteJob(g) \/ HandleFailure(g)
      PROVE  Good
  BY <1>2, <1>3 DEF LoadJob, Render, CompleteJob, HandleFailure, PC
<1>4. ASSUME NEW g \in Handler, ClaimJob(g) PROVE Good
  <2>1. CASE Goto(g, "done") \/ Goto(g, "error")
    BY <1>2, <2>1 DEF PC
  <2>2. CASE handler' = [handler EXCEPT ![g].pc = "render",
                                        ![g].pdf = attempts[handler[g].job] + 1]
    BY <1>0, <2>2 DEF Goroutine
  <2> QED
    BY <1>4, <2>1, <2>2 DEF ClaimJob
<1>5. ASSUME NEW g \in Handler, PutPdf(g) PROVE Good
  <2>1. CASE g = h
    <3>1. CASE Goto(g, "fail")
      BY <1>2, <2>1, <3>1 DEF PC
    <3>2. CASE ~Goto(g, "fail")
      BY <1>5, <2>1, <3>2 DEF PutPdf
    <3> QED
      BY <3>1, <3>2
  <2>2. CASE g # h
    <3>1. \E pc \in PC : Goto(g, pc)
      BY <1>5 DEF PutPdf, PC
    <3> QED
      BY <1>2, <2>2, <3>1
  <2> QED
    BY <2>1, <2>2
<1>6. ASSUME NEW g \in Handler, Return(g) PROVE Good
  BY <1>0, <1>6 DEF Return, IdleHandler
<1>7. ASSUME NEW g \in Handler, TaskTimeout(g) \/ NoticeLost(g) PROVE Good
  BY <1>0, <1>7 DEF TaskTimeout, NoticeLost, Goroutine
<1>8. ASSUME NEW g \in Handler, NEW j \in Job, Deliver(g, j) PROVE Good
  BY <1>0, <1>8 DEF Deliver
<1>9. ASSUME NEW w \in Worker, Crash(w) \/ Abort(w) PROVE Good
  BY <1>9 DEF Crash, Abort, Stopped, IdleHandler
<1>10. ASSUME NEW w \in Worker, Stall(w) PROVE Good
  BY <1>0, <1>10 DEF Stall, Goroutine
<1>11. ASSUME \/ \E j \in Job : Submit(j) \/ RetryDue(j) \/ AsynqRecover(j)
              \/ \E j \in Job : LeaseRunsOut(j) \/ LockRunsOut(j) \/ BackoffEnds(j)
              \/ \E p, c \in Job, a \in Actor, k \in Key \cup {None} : RetryReport(p, c, a, k)
              \/ \E j \in Job, a \in Actor : RecoverReport(j, a)
              \/ \E d \in Owner : DispatchClaim(d) \/ DispatchSettle(d) \/ DispatchCrash(d)
              \/ \E d \in Owner, j \in Job : DispatchEnqueue(d, j)
              \/ \E w \in Worker : SendHeartbeat(w) \/ HeartbeatStale(w)
              \/ UNCHANGED vars
       PROVE  handler' = handler
  BY <1>11 DEF Submit, RetryDue, AsynqRecover, LeaseRunsOut, LockRunsOut, BackoffEnds,
               RetryReport, RecoverReport, DispatchClaim, DispatchSettle, DispatchCrash,
               DispatchEnqueue, SendHeartbeat, HeartbeatStale, vars, queueVars
<1>12. handler' = handler => Good
  BY <1>1
<1>13. ASSUME NEW g \in Handler, HandlerStep(g) PROVE Good
  BY <1>3, <1>4, <1>5, <1>6, <1>13 DEF HandlerStep
<1> HIDE DEF Good
<1>14. Good
  BY <1>7, <1>8, <1>9, <1>10, <1>11, <1>12, <1>13 DEF Next
<1> QED
  BY <1>14 DEF Good

\* A report becomes completed in the MarkCompleted of a handler that is not cancelled.
LEMMA CompletedBy ==
  ASSUME TypeOK, WorkingOn, [Next]_vars,
         NEW j \in Job, status[j] # "completed", status'[j] = "completed"
  PROVE  \E h \in Handler : /\ At(h, "complete") /\ Live(h) /\ handler[h].job = j
                            /\ handler'[h].pc \in {"done", "error"}
                            /\ MarkCompleted(j, WorkerOf[h], handler[h].pdf)
<1> DEFINE Good == \E h \in Handler : /\ At(h, "complete") /\ Live(h) /\ handler[h].job = j
                                      /\ handler'[h].pc \in {"done", "error"}
                                      /\ MarkCompleted(j, WorkerOf[h], handler[h].pdf)
<1>0. status \in [Job -> Status]
  BY DEF TypeOK, JobTypeOK
<1>1. ASSUME NEW i \in Job, NEW o, InsertQueued(i, o) PROVE Good
  BY <1>0, <1>1 DEF InsertQueued
<1>2. ASSUME NEW i \in Job, NEW w, MarkProcessing(i, w) PROVE Good
  BY <1>0, <1>2 DEF MarkProcessing
<1>3. ASSUME NEW i \in Job, NEW w, MarkFailed(i, w) \/ MarkRetry(i, w) PROVE Good
  BY <1>0, <1>3 DEF MarkFailed, MarkRetry, FinishAttempt, CloseAttempt
<1>4. ASSUME UNCHANGED status PROVE Good
  BY <1>4
<1>5. ASSUME NEW h \in Handler, HandlerStep(h) PROVE Good
  <2>1. handler[h].pc # "idle" => handler[h].job \in Job
    BY DEF WorkingOn
  <2>2. CASE LoadJob(h) \/ Render(h) \/ PutPdf(h) \/ Return(h)
    BY <1>4, <2>2 DEF LoadJob, Render, PutPdf, Return, jobVars
  <2>3. CASE ClaimJob(h)
    BY <1>2, <1>4, <2>1, <2>3 DEF ClaimJob, At, jobVars
  <2>4. CASE HandleFailure(h)
    BY <1>3, <1>4, <2>1, <2>4 DEF HandleFailure, At, jobVars
  <2>5. CASE CompleteJob(h)
    <3>1. CASE UNCHANGED jobVars
      BY <1>4, <3>1 DEF jobVars
    <3>2. CASE Live(h) /\ MarkCompleted(handler[h].job, WorkerOf[h], handler[h].pdf)
      <4>1. handler[h].job = j
        BY <1>0, <2>1, <2>5, <3>2 DEF CompleteJob, At, MarkCompleted, CloseAttempt
      <4>2. handler'[h].pc \in {"done", "error"}
        BY <2>5 DEF CompleteJob, Goto, TypeOK, Goroutine
      <4> QED
        BY <2>5, <3>2, <4>1, <4>2 DEF CompleteJob
    <3> QED
      BY <2>5, <3>1, <3>2 DEF CompleteJob
  <2> QED
    BY <1>5, <2>2, <2>3, <2>4, <2>5 DEF HandlerStep
<1>6. ASSUME NEW i \in Job, NEW a \in Actor, RecoverReport(i, a) PROVE Good
  BY <1>0, <1>6 DEF RecoverReport, RecoverStale, CloseAttempt
<1>7. ASSUME NEW i \in Job, Submit(i) PROVE Good
  BY <1>1, <1>7 DEF Submit, Create
<1>8. ASSUME NEW p \in Job, NEW c \in Job, NEW a \in Actor, NEW k \in Key \cup {None},
             RetryReport(p, c, a, k)
      PROVE  Good
  BY <1>1, <1>8 DEF RetryReport, Retry
<1>9. ASSUME \/ \E i \in Job : RetryDue(i) \/ AsynqRecover(i)
             \/ \E i \in Job : LeaseRunsOut(i) \/ LockRunsOut(i) \/ BackoffEnds(i)
             \/ \E d \in Owner : DispatchClaim(d) \/ DispatchSettle(d) \/ DispatchCrash(d)
             \/ \E d \in Owner, i \in Job : DispatchEnqueue(d, i)
             \/ \E h \in Handler, i \in Job : Deliver(h, i)
             \/ \E h \in Handler : TaskTimeout(h) \/ NoticeLost(h)
             \/ \E w \in Worker : Crash(w) \/ Abort(w) \/ Stall(w) \/ SendHeartbeat(w)
                                    \/ HeartbeatStale(w)
             \/ UNCHANGED vars
      PROVE  UNCHANGED status
  BY <1>9 DEF RetryDue, AsynqRecover, LeaseRunsOut, LockRunsOut, BackoffEnds, LeaseExpires,
              LockExpires, BackoffElapses, DispatchClaim, DispatchSettle, DispatchCrash,
              DispatchEnqueue, ClaimOutbox, CompleteOutbox, RetryOutbox, Deliver, TaskTimeout,
              NoticeLost, Crash, Abort, Stall, SendHeartbeat, HeartbeatStale, Heartbeat,
              HeartbeatAges, vars, jobVars
<1> HIDE DEF Good
<1>10. Good
  BY <1>4, <1>5, <1>6, <1>7, <1>8, <1>9 DEF Next
<1> QED
  BY <1>10 DEF Good

\* A handler about to record its PDF has stored it.
StoredInv ==
  \A h \in Handler :
    (handler[h].mode = "held" /\ handler[h].pc = "complete") =>
      blob[handler[h].job] = handler[h].pdf

\* The invariant of a behaviour in which no goroutine writes with a lost lease.
FenceInv == TaskFence /\ ClaimInv /\ StoredInv /\ ArtifactIntact

\* A goroutine whose Asynq lease ran out while its process was frozen stores nothing and ends
\* no attempt before the process notices.  It may still read, claim, render and return.
LostWritesNothing ==
  \A h \in Handler :
    (handler[h].mode = "lost" /\ handler[h].pc \in {"put", "complete", "fail"})
      => handler'[h].pc \in {handler[h].pc, "idle"}

\* Then a goroutine that stores or ends an attempt is the one Asynq waits for.
LEMMA WriterIsWaiting ==
  ASSUME TypeOK, LostWritesNothing, NEW h \in Handler, Live(h),
         handler[h].pc \in {"put", "complete", "fail"},
         handler'[h].pc \notin {handler[h].pc, "idle"}
  PROVE  Waiting(h)
<1>1. handler[h] \in Goroutine
  BY DEF TypeOK
<1> QED
  BY <1>1 DEF LostWritesNothing, Live, Waiting, Goroutine, Mode

\* The fence of the tasks keeps two goroutines that can write off one report.
LEMMA FenceEndsApart == ASSUME TypeOK, TaskFence, LostWritesNothing PROVE EndsApart
<1> SUFFICES ASSUME NEW g \in Handler, NEW h \in Handler, g # h, Live(g), Holds(h),
                    handler[g].pc \in {"complete", "fail"}, handler'[g].pc \in {"done", "error"}
             PROVE  handler[g].job # handler[h].job
  BY DEF EndsApart
<1>1. Waiting(g)
  BY WriterIsWaiting
<1>2. Waiting(h)
  BY DEF Holds, Waiting
<1> QED
  BY <1>1, <1>2 DEF TaskFence

\* Only the handler that holds a report writes its object, so what it stored is there when
\* it records the digest, and stays there once the report is completed.
LEMMA ArtifactStep ==
  ASSUME TypeOK, WorkingOn, LeaseShape, FenceInv, LostWritesNothing, [Next]_vars
  PROVE  /\ (TaskFence /\ ClaimInv)' => StoredInv'
         /\ ArtifactIntact'
<1>0. /\ handler \in [Handler -> Goroutine] /\ \A h \in Handler : handler[h] \in Goroutine
      /\ blob \in [Job -> Nat] /\ attempts \in [Job -> Nat] /\ digest \in [Job -> Nat \cup {None}]
      /\ JobTypeOK
  BY DEF TypeOK, JobTypeOK
<1>1. ASSUME NEW g \in Handler, At(g, "put"), Live(g), handler'[g].pc \in {"complete", "fail"}
      PROVE  /\ Waiting(g) /\ handler[g].job \in Job
             /\ status[handler[g].job] = "processing"
             /\ blob' = [blob EXCEPT ![handler[g].job] = handler[g].pdf]
                  => blob'[handler[g].job] = handler[g].pdf
  <2>1. Waiting(g) /\ handler[g].job \in Job
    BY <1>1, WriterIsWaiting DEF At, WorkingOn
  <2>2. OwnClaim(g)
    BY <1>1, <2>1 DEF FenceInv, ClaimInv, Holds, At, Waiting
  <2> QED
    BY <1>0, <2>1, <2>2 DEF OwnClaim
<1>2. ASSUME (TaskFence /\ ClaimInv)', NEW h \in Handler,
             handler'[h].mode = "held", handler'[h].pc = "complete"
      PROVE  blob'[handler'[h].job] = handler'[h].pdf
  <2>1. Holds(h)'
    BY <1>2 DEF Holds
  <2>2. CASE At(h, "put") /\ Live(h) /\ blob' = [blob EXCEPT ![handler[h].job] = handler[h].pdf]
    <3>1. Moves(h)
      BY <1>2, <2>2, HandlerMoves DEF At
    <3>2. handler'[h].job = handler[h].job
      BY <1>2, <2>2, <3>1 DEF Moves, At
    <3>3. handler'[h].pdf = handler[h].pdf
      BY <1>2, <2>2, <3>1 DEF Moves, At
    <3> QED
      BY <1>1, <1>2, <2>2, <3>2, <3>3
  <2>3. CASE handler[h].pc = "complete"
    <3>1. CASE Holds(h) /\ handler'[h].job = handler[h].job /\ handler'[h].pdf = handler[h].pdf
      <4>1. Waiting(h) /\ handler[h].job \in Job /\ blob[handler[h].job] = handler[h].pdf
        BY <2>3, <3>1 DEF FenceInv, StoredInv, Holds, Waiting, WorkingOn
      <4>2. ASSUME NEW g \in Handler, At(g, "put"), Live(g), handler'[g].pc \in {"complete", "fail"}
            PROVE  handler[g].job # handler[h].job
        BY <1>1, <2>3, <4>1, <4>2 DEF FenceInv, TaskFence, At
      <4>3. blob'[handler[h].job] = blob[handler[h].job]
        BY <1>0, <4>1, <4>2, BlobMoves
      <4> QED
        BY <3>1, <4>1, <4>3
    <3> QED
      BY <1>2, <2>1, <3>1, ClaimTaken
  <2> QED
    BY <1>2, <2>2, <2>3, CompleteReached
<1>3. ASSUME NEW j \in Job, status'[j] = "completed"
      PROVE  blob'[j] = digest'[j] /\ digest'[j] = attempts'[j]
  <2>1. CASE status[j] = "completed"
    <3>1. blob[j] = digest[j] /\ digest[j] = attempts[j]
      BY <2>1 DEF FenceInv, ArtifactIntact
    <3>2. digest'[j] = digest[j] /\ attempts'[j] = attempts[j]
      BY <1>0, <2>1, StepIsCall, SettledStep DEF Keeps, Terminal
    <3>3. blob'[j] = blob[j]
      BY <1>0, <1>1, <2>1, BlobMoves
    <3> QED
      BY <3>1, <3>2, <3>3
  <2>2. CASE status[j] # "completed"
    <3>1. PICK h \in Handler : /\ At(h, "complete") /\ Live(h) /\ handler[h].job = j
                               /\ handler'[h].pc \in {"done", "error"}
                               /\ MarkCompleted(j, WorkerOf[h], handler[h].pdf)
      BY <1>3, <2>2, CompletedBy
    <3>2. Waiting(h) /\ Holds(h)
      BY <3>1, WriterIsWaiting DEF At, Waiting, Holds
    <3>3. blob[j] = handler[h].pdf /\ attempts[j] = handler[h].pdf
      BY <3>1, <3>2 DEF FenceInv, StoredInv, ClaimInv, OwnClaim, Holds, At
    <3>4. digest'[j] = handler[h].pdf /\ attempts' = attempts
      BY <1>0, <3>1 DEF MarkCompleted
    <3>5. ASSUME NEW g \in Handler, At(g, "put"), Live(g), handler'[g].pc \in {"complete", "fail"}
          PROVE  handler[g].job # j
      BY <1>1, <3>1, <3>2, <3>5 DEF FenceInv, TaskFence, At
    <3>6. blob'[j] = blob[j]
      BY <1>0, <3>5, BlobMoves
    <3> QED
      BY <3>3, <3>4, <3>6
  <2> QED
    BY <2>1, <2>2
<1> QED
  BY <1>2, <1>3 DEF StoredInv, ArtifactIntact

\* Every step in which no lost goroutine writes keeps the fence.
LEMMA FenceStep ==
  ASSUME PipelineInv, FenceInv, LostWritesNothing, [Next]_vars PROVE FenceInv'
<1>0. TypeOK /\ WorkingOn /\ LeaseShape
  BY DEF PipelineInv, JobInv
<1>1. TaskFence'
  BY <1>0, TaskFenceStep DEF FenceInv
<1>2. ClaimInv'
  BY <1>0, FenceEndsApart, ClaimStep DEF FenceInv
<1> QED
  BY <1>0, <1>1, <1>2, ArtifactStep DEF FenceInv

\* The pipeline starts fenced, with its budgets whole.
LEMMA FenceInit == Init => FenceInv /\ BudgetInv
BY PipelineAssumption
   DEF Init, JobInit, FenceInv, TaskFence, Waiting, ClaimInv, Holds, StoredInv, ArtifactIntact,
       IdleHandler, BudgetInv

StallFree == Unspent({"stall"})

NoneLost == \A h \in Handler : handler[h].mode # "lost"

\* Only a stall loses leases.
LEMMA NoneLostStep ==
  ASSUME TypeOK, NoneLost, [Next]_vars, ~Spend("stall") PROVE NoneLost'
<1>0. handler \in [Handler -> Goroutine] /\ \A h \in Handler : handler[h] \in Goroutine
  BY DEF TypeOK
<1>1. ASSUME NEW g \in Handler, NEW pc, Goto(g, pc) PROVE NoneLost'
  BY <1>0, <1>1 DEF Goto, Goroutine, NoneLost
<1>2. ASSUME NEW g \in Handler, HandlerStep(g) PROVE NoneLost'
  <2>1. CASE LoadJob(g) \/ Render(g) \/ PutPdf(g) \/ CompleteJob(g) \/ HandleFailure(g)
    BY <1>1, <2>1 DEF LoadJob, Render, PutPdf, CompleteJob, HandleFailure
  <2>2. CASE ClaimJob(g)
    <3>1. CASE handler' = [handler EXCEPT ![g].pc = "render",
                                          ![g].pdf = attempts[handler[g].job] + 1]
      BY <1>0, <3>1 DEF Goroutine, NoneLost
    <3> QED
      BY <1>1, <2>2, <3>1 DEF ClaimJob
  <2>3. CASE Return(g)
    BY <1>0, <2>3 DEF Return, IdleHandler, NoneLost
  <2> QED
    BY <1>2, <2>1, <2>2, <2>3 DEF HandlerStep
<1>3. ASSUME NEW g \in Handler, TaskTimeout(g) \/ NoticeLost(g) PROVE NoneLost'
  <2>1. handler' = [handler EXCEPT ![g].mode = "dead"]
    BY <1>3 DEF TaskTimeout, NoticeLost
  <2> QED
    BY <1>0, <2>1 DEF Goroutine, NoneLost
<1>4. ASSUME NEW g \in Handler, NEW j \in Job, Deliver(g, j) PROVE NoneLost'
  BY <1>0, <1>4 DEF Deliver, NoneLost
<1>5. ASSUME NEW w \in Worker, Crash(w) \/ Abort(w) PROVE NoneLost'
  BY <1>5 DEF Crash, Abort, Stopped, IdleHandler, NoneLost
<1>6. ASSUME NEW w \in Worker, Stall(w) PROVE FALSE
  BY <1>6 DEF Stall
<1>7. ASSUME \/ \E j \in Job : Submit(j) \/ RetryDue(j) \/ AsynqRecover(j)
             \/ \E j \in Job : LeaseRunsOut(j) \/ LockRunsOut(j) \/ BackoffEnds(j)
             \/ \E p, c \in Job, a \in Actor, k \in Key \cup {None} : RetryReport(p, c, a, k)
             \/ \E j \in Job, a \in Actor : RecoverReport(j, a)
             \/ \E d \in Owner : DispatchClaim(d) \/ DispatchSettle(d) \/ DispatchCrash(d)
             \/ \E d \in Owner, j \in Job : DispatchEnqueue(d, j)
             \/ \E w \in Worker : SendHeartbeat(w) \/ HeartbeatStale(w)
             \/ UNCHANGED vars
      PROVE  handler' = handler
  BY <1>7 DEF Submit, RetryDue, AsynqRecover, LeaseRunsOut, LockRunsOut, BackoffEnds,
              RetryReport, RecoverReport, DispatchClaim, DispatchSettle, DispatchCrash,
              DispatchEnqueue, SendHeartbeat, HeartbeatStale, vars, queueVars
<1>8. handler' = handler => NoneLost'
  BY DEF NoneLost
<1> QED
  BY <1>2, <1>3, <1>4, <1>5, <1>6, <1>7, <1>8 DEF Next

\* A behaviour that has not stalled so far is fenced.
THEOREM FencedUnlessStalled == Spec => [](BudgetInv /\ (StallFree => NoneLost /\ FenceInv))
<1> DEFINE I == BudgetInv /\ (StallFree => NoneLost /\ FenceInv)
<1>1. Init => I
  <2>1. Init => NoneLost
    BY DEF Init, IdleHandler, NoneLost
  <2> QED
    BY <2>1, FenceInit
<1>2. PipelineInv /\ I /\ [Next]_vars => I'
  <2> SUFFICES ASSUME PipelineInv, I, [Next]_vars PROVE I'
    OBVIOUS
  <2>1. BudgetInv' /\ (StallFree' => StallFree /\ ~Spend("stall"))
    BY UnspentStep DEF PipelineInv, StallFree, FaultKind
  <2>2. NoneLost => LostWritesNothing
    BY DEF NoneLost, LostWritesNothing
  <2> QED
    BY <2>1, <2>2, NoneLostStep, FenceStep DEF PipelineInv
<1> HIDE DEF I
<1>3. Spec => []I
  BY <1>1, <1>2, PipelineCorrect, PTL DEF Spec
<1> QED
  BY <1>3 DEF I

\* A completed report's stored object is the PDF whose digest was recorded, and the work of
\* its last attempt, through any number of crashes, aborted shutdowns, timeouts, lost
\* answers, Redis and database errors and recoveries: only a stalled process, which goes on
\* after Asynq has given its task away, can put another attempt's PDF under the key.
THEOREM PipelineArtifactIntact == Spec => []ArtifactIntactUnlessStalled
<1>1. BudgetInv /\ (StallFree => NoneLost /\ FenceInv) => ArtifactIntactUnlessStalled
  BY DEF StallFree, Unspent, FenceInv, ArtifactIntactUnlessStalled
<1> QED
  BY <1>1, FencedUnlessStalled, PTL

\* Until a process stalls, no two goroutines that can still write overlap: a handler
\* Asynq waits for owns its claim, however handlers are placed on processes.
THEOREM PipelineClaimsFenced == Spec => [](StallFree => HealthyClaimIsOwn)
<1>1. BudgetInv /\ (StallFree => NoneLost /\ FenceInv) => (StallFree => HealthyClaimIsOwn)
  BY DEF FenceInv, ClaimInv, HealthyClaimIsOwn, Holds, OwnClaim
<1> QED
  BY <1>1, FencedUnlessStalled, PTL

-----------------------------------------------------------------------------
(* A queued report is backed while only dispatchers and Redis fail.        *)

\* The faults that hit a handler, its process or its database calls.
HandlerFaults == {"crash", "abort", "timeout", "stall", "db", "lost"}

Claimed == {"render", "put", "complete", "fail"}

\* What a handler may rely on at each of its calls when nothing hits handlers: its task is
\* active with the retry count it was given, and the row is where its last call left it.
Standing(h) ==
  LET j == handler[h].job IN
  /\ handler[h].mode = "held"
  /\ handler[h].pc # "idle" => task[j].state = "active" /\ task[j].retried = handler[h].retried
  /\ handler[h].pc = "get" => status[j] \in {"queued"} \cup Terminal
  /\ handler[h].pc = "claim" => status[j] = "queued"
  /\ handler[h].pc \in Claimed =>
       status[j] = "processing" /\ worker[j] = WorkerOf[h] /\ lease[j] = "held"
  /\ handler[h].pc = "done" => status[j] \in Terminal
  /\ handler[h].pc = "error" =>
       status[j] = IF handler[h].retried >= MaxRetry THEN "failed" ELSE "queued"

\* How a report, its task and its outbox row fit together: a processing report and an
\* active task have their handler, only a settled report's task is archived, nothing knows
\* of an absent report, and a row that is gone has left a task behind.
Due(j) ==
  /\ status[j] = "processing" => \E h \in Handler : handler[h].job = j /\ handler[h].pc \in Claimed
  /\ task[j].state = "active" => \E h \in Handler : Waits(h, j)
  /\ task[j].state = "archived" => status[j] \in Terminal
  /\ status[j] = "absent" =>
       /\ outbox[j] = NoRow /\ task[j].state = "none"
       /\ \A d \in Owner : j \notin dispatcher[d].batch
  /\ status[j] # "absent" => outbox[j].present \/ j \in handed
  /\ (status[j] = "queued" /\ j \in handed) => task[j].state \in {"pending", "active", "retry"}

BackingInv == TaskFence /\ (\A h \in Handler : Standing(h)) /\ (\A j \in Job : Due(j))

\* A call of a handler concerns its own report: who else runs has another.
LEMMA LocalStep ==
  ASSUME TypeOK, WorkingOn, BackingInv, NEW g \in Handler, handler[g].pc # "idle",
         NEW j, j = handler[g].job,
         \A h \in Handler \ {g} : handler'[h] = handler[h],
         \A i \in Job \ {j} :
           /\ status'[i] = status[i] /\ worker'[i] = worker[i] /\ lease'[i] = lease[i]
           /\ task'[i] = task[i],
         UNCHANGED <<outbox, dispatcher, handed>>,
         Standing(g)', Due(j)'
  PROVE  (\A h \in Handler : Standing(h))' /\ (\A i \in Job : Due(i))'
<1>0. \A h \in Handler : handler[h].pc # "idle" => handler[h].job \in Job
  BY DEF WorkingOn
<1>1. ASSUME NEW h \in Handler \ {g} PROVE Standing(h)'
  <2>1. Standing(h) /\ handler'[h] = handler[h]
    BY DEF BackingInv
  <2>2. CASE handler[h].pc = "idle"
    BY <2>1, <2>2 DEF Standing, Claimed
  <2>3. CASE handler[h].pc # "idle"
    <3>1. handler[h].job # handler[g].job
      BY <2>3 DEF BackingInv, TaskFence, Waiting, Standing
    <3> QED
      BY <1>0, <2>1, <2>3, <3>1 DEF Standing
  <2> QED
    BY <2>2, <2>3
<1>2. ASSUME NEW i \in Job \ {j} PROVE Due(i)'
  <2>1. Due(i) /\ status'[i] = status[i] /\ task'[i] = task[i]
    BY DEF BackingInv
  <2>2. status'[i] = "processing" =>
          \E h \in Handler : handler'[h].job = i /\ handler'[h].pc \in Claimed
    BY <2>1 DEF Due
  <2>3. task'[i].state = "active" => \E h \in Handler : Waits(h, i)'
    BY <2>1 DEF Due, Waits
  <2> QED
    BY <2>1, <2>2, <2>3 DEF Due
<1> QED
  BY <1>1, <1>2

\* Without faults of its own, a handler takes its report to the end of the attempt and
\* leaves the row where Asynq's reaction finds it: settled, or queued with a redelivery due.
LEMMA HandlerBacking ==
  ASSUME TypeOK, WorkingOn, LeaseShape, BackingInv, NEW g \in Handler, HandlerStep(g),
         NEW j, j = handler[g].job, ~Spend("db"), ~Spend("lost")
  PROVE  (\A h \in Handler : Standing(h))' /\ (\A i \in Job : Due(i))'
<1>0. /\ handler \in [Handler -> Goroutine] /\ handler[g] \in Goroutine
      /\ task \in [Job -> Task] /\ status \in [Job -> Status]
      /\ worker \in [Job -> Worker \cup {None}] /\ lease \in [Job -> {None, "held", "expired"}]
      /\ Standing(g) /\ handler[g].mode = "held" /\ Live(g) /\ ~CallFails(g)
  BY DEF TypeOK, JobTypeOK, BackingInv, Standing, Live, CallFails
<1>1. handler[g].pc # "idle" /\ j \in Job /\ Due(j)
  BY DEF HandlerStep, LoadJob, ClaimJob, Render, PutPdf, CompleteJob, HandleFailure, Return,
         At, WorkingOn, BackingInv
<1>2. /\ task[j].state = "active" /\ task[j].retried = handler[g].retried
      /\ status[j] # "absent" /\ (outbox[j].present \/ j \in handed)
  BY <1>0, <1>1 DEF Standing, Due
\* A step that goes on, with the task as it is.
<1>3. ASSUME NEW pc \in PC, pc # "idle",
             handler'[g] = [handler[g] EXCEPT !.pc = pc, !.pdf = handler'[g].pdf],
             \A h \in Handler \ {g} : handler'[h] = handler[h],
             \A i \in Job \ {j} : /\ status'[i] = status[i] /\ worker'[i] = worker[i]
                                  /\ lease'[i] = lease[i],
             UNCHANGED <<task, outbox, dispatcher, handed>>,
             status'[j] # "absent", status'[j] = "processing" => pc \in Claimed,
             Standing(g)'
      PROVE  (\A h \in Handler : Standing(h))' /\ (\A i \in Job : Due(i))'
  <2>1. handler'[g].pc = pc /\ handler'[g].job = j /\ handler'[g].mode = "held"
    BY <1>0, <1>3 DEF Goroutine
  <2>2. /\ Waits(g, j)'
        /\ status'[j] = "processing" => handler'[g].job = j /\ handler'[g].pc \in Claimed
    BY <1>3, <2>1 DEF Waits
  <2>3. Due(j)'
    BY <1>1, <1>2, <1>3, <2>2 DEF Due
  <2> QED
    BY <1>1, <1>3, <2>3, LocalStep
\* In particular when the tables are left alone.
<1>4. ASSUME NEW pc \in PC, pc # "idle", Goto(g, pc),
             UNCHANGED <<status, worker, lease, task, outbox, dispatcher, handed>>,
             status[j] = "processing" => pc \in Claimed,
             Standing(g)'
      PROVE  (\A h \in Handler : Standing(h))' /\ (\A i \in Job : Due(i))'
  <2>1. /\ handler'[g] = [handler[g] EXCEPT !.pc = pc, !.pdf = handler'[g].pdf]
        /\ \A h \in Handler \ {g} : handler'[h] = handler[h]
    BY <1>0, <1>4 DEF Goto, Goroutine
  <2> QED
    BY <1>2, <1>3, <1>4, <2>1
<1>5. ASSUME NEW pc \in PC, Goto(g, pc)
      PROVE  /\ handler'[g].pc = pc /\ handler'[g].job = j /\ handler'[g].mode = "held"
             /\ handler'[g].retried = handler[g].retried
             /\ handler'[g] = [handler[g] EXCEPT !.pc = pc, !.pdf = handler'[g].pdf]
             /\ \A h \in Handler \ {g} : handler'[h] = handler[h]
  BY <1>0, <1>5 DEF Goto, Goroutine
<1>6. CASE LoadJob(g)
  <2>1. /\ Goto(g, IF status[j] = "queued" THEN "claim" ELSE "done")
        /\ UNCHANGED <<status, worker, lease, task, outbox, dispatcher, handed>>
    BY <1>0, <1>6 DEF LoadJob, jobVars
  <2>2. status[j] \in {"queued"} \cup Terminal
    BY <1>0, <1>6 DEF LoadJob, At, Standing
  <2>3. CASE status[j] = "queued"
    <3>1. Goto(g, "claim") /\ "claim" \in PC
      BY <2>1, <2>3 DEF PC
    <3>2. Standing(g)'
      BY <1>2, <1>5, <2>1, <2>3, <3>1 DEF Standing, Claimed
    <3> QED
      BY <1>4, <2>1, <2>3, <3>1, <3>2
  <2>4. CASE status[j] # "queued"
    <3>1. Goto(g, "done") /\ "done" \in PC
      BY <2>1, <2>4 DEF PC
    <3>2. Standing(g)'
      BY <1>2, <1>5, <2>1, <2>2, <2>4, <3>1 DEF Standing, Claimed
    <3> QED
      BY <1>4, <2>1, <2>2, <2>4, <3>1, <3>2 DEF Terminal
  <2> QED
    BY <2>3, <2>4
<1>7. CASE ClaimJob(g)
  <2>1. status[j] = "queued"
    BY <1>0, <1>7 DEF ClaimJob, At, Standing
  <2>2. /\ MarkProcessing(j, WorkerOf[g]) /\ UNCHANGED <<task, dispatcher, handed>>
        /\ handler' = [handler EXCEPT ![g].pc = "render", ![g].pdf = attempts[j] + 1]
    BY <1>0, <1>7, <2>1 DEF ClaimJob
  <2>3. /\ handler'[g].pc = "render" /\ handler'[g].job = j /\ handler'[g].mode = "held"
        /\ handler'[g].retried = handler[g].retried
        /\ handler'[g] = [handler[g] EXCEPT !.pc = "render", !.pdf = handler'[g].pdf]
        /\ \A h \in Handler \ {g} : handler'[h] = handler[h]
    BY <1>0, <2>2 DEF Goroutine
  <2>4. /\ status'[j] = "processing" /\ worker'[j] = WorkerOf[g] /\ lease'[j] = "held"
        /\ \A i \in Job \ {j} : /\ status'[i] = status[i] /\ worker'[i] = worker[i]
                                /\ lease'[i] = lease[i]
        /\ UNCHANGED outbox
    BY <1>0, <1>1, <2>2 DEF MarkProcessing
  <2>5. Standing(g)'
    BY <1>2, <2>2, <2>3, <2>4 DEF Standing, Claimed
  <2>6. "render" \in PC /\ "render" \in Claimed
    BY DEF PC, Claimed
  <2> QED
    BY <1>3, <2>2, <2>3, <2>4, <2>5, <2>6
<1>8. CASE Render(g) \/ PutPdf(g)
  <2>1. PICK pc \in {"put", "complete", "fail"} : Goto(g, pc)
    BY <1>8 DEF Render, PutPdf
  <2>2. UNCHANGED <<status, worker, lease, task, outbox, dispatcher, handed>>
    BY <1>8 DEF Render, PutPdf, jobVars
  <2>3. status[j] = "processing" /\ worker[j] = WorkerOf[g] /\ lease[j] = "held"
    BY <1>0, <1>8 DEF Render, PutPdf, At, Standing, Claimed
  <2>4. pc \in PC /\ pc \in Claimed
    BY DEF PC, Claimed
  <2>5. Standing(g)'
    BY <1>2, <1>5, <2>1, <2>2, <2>3, <2>4 DEF Standing, Claimed
  <2> QED
    BY <1>4, <2>1, <2>2, <2>4, <2>5 DEF Claimed
\* The attempt ends: what CloseAttempt leaves to the rest of the handler.
<1>9. ASSUME NEW s \in {"completed", "failed", "queued"}, NEW t, CloseAttempt(j, s, t, WorkerOf[g])
      PROVE  /\ status'[j] = s /\ status'[j] # "absent" /\ status'[j] # "processing"
             /\ \A i \in Job \ {j} : /\ status'[i] = status[i] /\ worker'[i] = worker[i]
                                     /\ lease'[i] = lease[i]
  BY <1>0, <1>1, <1>9 DEF CloseAttempt
<1>10. CASE CompleteJob(g)
  <2>1. status[j] = "processing" /\ worker[j] = WorkerOf[g]
    BY <1>0, <1>10 DEF CompleteJob, At, Standing, Claimed
  <2>2. /\ Goto(g, "done") /\ MarkCompleted(j, WorkerOf[g], handler[g].pdf)
        /\ UNCHANGED <<task, dispatcher, handed>>
    BY <1>0, <1>10, <2>1 DEF CompleteJob
  <2>3. CloseAttempt(j, "completed", "completed", WorkerOf[g]) /\ UNCHANGED outbox
    BY <2>2 DEF MarkCompleted
  <2>4. "done" \in PC
    BY DEF PC
  <2>5. Standing(g)'
    BY <1>2, <1>5, <1>9, <2>2, <2>3, <2>4 DEF Standing, Claimed, Terminal
  <2> QED
    BY <1>3, <1>5, <1>9, <2>2, <2>3, <2>4, <2>5
<1>11. CASE HandleFailure(g)
  <2>1. status[j] = "processing" /\ worker[j] = WorkerOf[g]
    BY <1>0, <1>11 DEF HandleFailure, At, Standing, Claimed
  <2>2. /\ Goto(g, "error") /\ "error" \in PC
        /\ IF handler[g].retried >= MaxRetry THEN MarkFailed(j, WorkerOf[g])
                                             ELSE MarkRetry(j, WorkerOf[g])
        /\ UNCHANGED <<task, dispatcher, handed>>
    BY <1>0, <1>11, <2>1 DEF HandleFailure, PC
  <2>3. CASE handler[g].retried >= MaxRetry
    <3>1. CloseAttempt(j, "failed", "failed", WorkerOf[g]) /\ UNCHANGED outbox
      BY <2>2, <2>3 DEF MarkFailed, FinishAttempt
    <3>2. Standing(g)'
      BY <1>2, <1>5, <1>9, <2>2, <2>3, <3>1 DEF Standing, Claimed
    <3> QED
      BY <1>3, <1>5, <1>9, <2>2, <3>1, <3>2
  <2>4. CASE ~(handler[g].retried >= MaxRetry)
    <3>1. CloseAttempt(j, "queued", "retry", WorkerOf[g]) /\ UNCHANGED outbox
      BY <2>2, <2>4 DEF MarkRetry, FinishAttempt
    <3>2. Standing(g)'
      BY <1>2, <1>5, <1>9, <2>2, <2>4, <3>1 DEF Standing, Claimed
    <3> QED
      BY <1>3, <1>5, <1>9, <2>2, <3>1, <3>2
  <2> QED
    BY <2>3, <2>4
<1>12. CASE Return(g)
  <2>1. /\ handler'[g] = IdleHandler
        /\ \A h \in Handler \ {g} : handler'[h] = handler[h]
        /\ UNCHANGED <<status, worker, lease, outbox, dispatcher, handed>>
    BY <1>0, <1>12 DEF Return, jobVars
  <2>2. /\ task'[j] = IF At(g, "done") THEN NoTask ELSE Failed(task[j])
        /\ \A i \in Job \ {j} : task'[i] = task[i]
    BY <1>0, <1>1, <1>12 DEF Return
  <2>3. Standing(g)'
    BY <2>1 DEF Standing, IdleHandler, Claimed
  <2>4. CASE At(g, "done")
    <3>1. status[j] \in Terminal /\ task'[j].state = "none"
      BY <1>0, <2>2, <2>4 DEF At, Standing, NoTask
    <3>2. Due(j)'
      BY <1>2, <2>1, <3>1 DEF Due, Terminal
    <3> QED
      BY <1>1, <2>1, <2>2, <2>3, <3>2, LocalStep
  <2>5. CASE At(g, "error")
    <3>1. status[j] = IF handler[g].retried >= MaxRetry THEN "failed" ELSE "queued"
      BY <1>0, <2>5 DEF At, Standing
    <3>2. task'[j].state = IF handler[g].retried >= MaxRetry THEN "archived" ELSE "retry"
      <4>1. task[j] \in Task /\ task'[j] = Failed(task[j])
        BY <1>0, <1>1, <2>2, <2>5 DEF At
      <4> QED
        BY <1>2, <4>1 DEF Failed, Task
    <3>3. Due(j)'
      BY <1>2, <2>1, <3>1, <3>2 DEF Due, Terminal
    <3> QED
      BY <1>1, <2>1, <2>2, <2>3, <3>3, LocalStep
  <2> QED
    BY <1>12, <2>4, <2>5 DEF Return, At
<1> QED
  BY <1>6, <1>7, <1>8, <1>10, <1>11, <1>12 DEF HandlerStep

\* A step that leaves handlers, tasks and the rows of reports alone, and an absent report's
\* outbox row with them, may move an intent only from the outbox to the queue.
LEMMA OutboxBacking ==
  ASSUME BackingInv,
         UNCHANGED <<handler, status, worker, lease, task>>,
         \A i \in Job : status[i] = "absent" =>
           /\ outbox'[i] = outbox[i]
           /\ \A d \in Owner : i \notin dispatcher'[d].batch,
         \A i \in Job : outbox[i].present => outbox'[i].present \/ i \in handed',
         handed' = handed
  PROVE  (\A h \in Handler : Standing(h))' /\ (\A j \in Job : Due(j))'
<1>1. ASSUME NEW h \in Handler PROVE Standing(h)'
  BY DEF BackingInv, Standing
<1>2. ASSUME NEW j \in Job PROVE Due(j)'
  <2>1. \A h \in Handler : Waits(h, j) <=> Waits(h, j)'
    BY DEF Waits
  <2> QED
    BY <2>1 DEF BackingInv, Due
<1> QED
  BY <1>1, <1>2

\* No step of a behaviour in which only dispatchers and Redis fail loses a queued report.
LEMMA BackingStep ==
  ASSUME TypeOK, WorkingOn, LeaseShape, HandoffInv, BackingInv, [Next]_vars,
         \A k \in HandlerFaults : ~Spend(k)
  PROVE  BackingInv'
<1> DEFINE Good == (\A h \in Handler : Standing(h))' /\ (\A j \in Job : Due(j))'
<1>0. /\ handler \in [Handler -> Goroutine] /\ \A h \in Handler : handler[h] \in Goroutine
      /\ task \in [Job -> Task] /\ \A j \in Job : task[j] \in Task
      /\ status \in [Job -> Status] /\ worker \in [Job -> Worker \cup {None}]
      /\ lease \in [Job -> {None, "held", "expired"}]
      /\ outbox \in [Job -> Row] /\ \A j \in Job : outbox[j] \in Row
      /\ dispatcher \in [Owner -> Settlement] /\ \A d \in Owner : dispatcher[d] \in Settlement
      /\ \A h \in Handler : handler[h].pc # "idle" => handler[h].job \in Job
      /\ \A d \in Owner : d # None
  BY NoneAssumption DEF TypeOK, JobTypeOK, WorkingOn
<1>1. /\ ~Spend("crash") /\ ~Spend("abort") /\ ~Spend("timeout") /\ ~Spend("stall")
      /\ ~Spend("db") /\ ~Spend("lost")
  BY DEF HandlerFaults
\* A claimed report has its handler, so its lease is held: nobody recovers it.
<1>2. ASSUME NEW j \in Job, worker[j] # None
      PROVE  /\ lease[j] = "held"
             /\ \E h \in Handler : /\ Waits(h, j) /\ WorkerOf[h] = worker[j]
                                   /\ handler[h].pc \in {"render", "put", "complete", "fail"}
  <2>1. status[j] = "processing"
    BY <1>2 DEF LeaseShape
  <2>2. PICK h \in Handler : handler[h].job = j /\ handler[h].pc \in Claimed
    BY <2>1 DEF BackingInv, Due
  <2>3. Standing(h)
    BY DEF BackingInv
  <2> QED
    BY <2>2, <2>3 DEF Standing, Claimed, Waits
<1>3. ASSUME NEW h \in Handler, HandlerStep(h) PROVE Good
  BY <1>1, <1>3, HandlerBacking
<1>4. ASSUME NEW h \in Handler, TaskTimeout(h) \/ NoticeLost(h) PROVE FALSE
  BY <1>1, <1>4 DEF TaskTimeout, NoticeLost, BackingInv, Standing
<1>5. ASSUME NEW w \in Worker, Crash(w) \/ Abort(w) \/ Stall(w) PROVE FALSE
  BY <1>1, <1>5 DEF Crash, Abort, Stall
<1>6. ASSUME NEW j \in Job, AsynqRecover(j) PROVE FALSE
  BY <1>6 DEF AsynqRecover, BackingInv, Due
<1>7. ASSUME NEW j \in Job, NEW a \in Actor, RecoverReport(j, a) PROVE FALSE
  <2>1. status[j] = "processing" /\ lease[j] = "expired"
    BY <1>7 DEF RecoverReport, RecoverStale, Recoverable
  <2> QED
    BY <1>2, <2>1 DEF LeaseShape
<1>8. ASSUME NEW j \in Job, LeaseRunsOut(j) PROVE FALSE
  <2>1. lease[j] = "held"
    BY <1>8 DEF LeaseRunsOut, LeaseExpires
  <2>2. worker[j] # None
    BY <2>1, NoneAssumption DEF LeaseShape
  <2> QED
    BY <1>2, <1>8, <2>2 DEF LeaseRunsOut
<1>9. ASSUME NEW j \in Job, NEW o, InsertQueued(j, o), handed' = handed \ {j},
             UNCHANGED <<task, dispatcher, handler>>
      PROVE  Good
  <2>1. status[j] = "absent" /\ task[j].state = "none"
    BY <1>9 DEF InsertQueued, BackingInv, Due
  <2>2. /\ status'[j] = "queued" /\ \A i \in Job \ {j} : status'[i] = status[i]
        /\ outbox'[j] = FreshRow /\ \A i \in Job \ {j} : outbox'[i] = outbox[i]
        /\ worker' = worker /\ lease' = lease
    BY <1>0, <1>9 DEF InsertQueued
  <2>3. ASSUME NEW h \in Handler PROVE Standing(h)'
    <3>1. Standing(h)
      BY DEF BackingInv
    <3>2. handler[h].pc # "idle" => handler[h].job # j
      BY <2>1, <3>1 DEF Standing
    <3>3. CASE handler[h].pc = "idle"
      BY <1>9, <3>1, <3>3 DEF Standing, Claimed
    <3>4. CASE handler[h].pc # "idle"
      BY <1>0, <1>9, <2>2, <3>1, <3>2, <3>4 DEF Standing
    <3> QED
      BY <3>3, <3>4
  <2>4. ASSUME NEW i \in Job PROVE Due(i)'
    <3>1. Due(i) /\ \A h \in Handler : Waits(h, i) <=> Waits(h, i)'
      BY <1>9 DEF BackingInv, Waits
    <3>2. CASE i = j
      BY <1>9, <2>1, <2>2, <3>2 DEF Due, FreshRow
    <3>3. CASE i # j
      BY <1>9, <2>2, <3>1, <3>3 DEF Due
    <3> QED
      BY <3>2, <3>3
  <2> QED
    BY <2>3, <2>4
<1>10. ASSUME NEW j \in Job, Submit(j) PROVE Good
  BY <1>9, <1>10 DEF Submit, Create
<1>11. ASSUME NEW p \in Job, NEW c \in Job, NEW a \in Actor, NEW k \in Key \cup {None},
              RetryReport(p, c, a, k)
       PROVE  Good
  BY <1>9, <1>11 DEF RetryReport, Retry
\* A task that nobody runs changes, for a report that exists.
<1>12. ASSUME NEW j \in Job, task[j].state \in {"none", "retry"}, status[j] # "absent",
              task'[j].state = "pending", \A i \in Job \ {j} : task'[i] = task[i],
              UNCHANGED <<handler, status, worker, lease, outbox>>,
              \A d \in Owner : dispatcher'[d].batch \subseteq dispatcher[d].batch,
              handed' \in {handed, handed \cup {j}}
       PROVE  Good
  <2>1. ASSUME NEW h \in Handler PROVE Standing(h)'
    <3>1. Standing(h)
      BY DEF BackingInv
    <3>2. handler[h].pc # "idle" => handler[h].job # j
      BY <1>12, <3>1 DEF Standing
    <3>3. CASE handler[h].pc = "idle"
      BY <1>12, <3>1, <3>3 DEF Standing, Claimed
    <3>4. CASE handler[h].pc # "idle"
      BY <1>0, <1>12, <3>1, <3>2, <3>4 DEF Standing
    <3> QED
      BY <3>3, <3>4
  <2>2. ASSUME NEW i \in Job PROVE Due(i)'
    <3>1. Due(i) /\ \A h \in Handler : Waits(h, i) <=> Waits(h, i)'
      BY <1>12 DEF BackingInv, Waits
    <3>2. CASE i = j
      BY <1>12, <3>1, <3>2 DEF Due
    <3>3. CASE i # j
      BY <1>12, <3>1, <3>3 DEF Due
    <3> QED
      BY <3>2, <3>3
  <2> QED
    BY <2>1, <2>2
<1>13. ASSUME NEW j \in Job, RetryDue(j) PROVE Good
  <2>1. task[j].state = "retry" /\ status[j] # "absent"
    BY <1>13 DEF RetryDue, BackingInv, Due
  <2>2. task'[j].state = "pending" /\ \A i \in Job \ {j} : task'[i] = task[i]
    BY <1>0, <1>13 DEF RetryDue, Task
  <2>3. UNCHANGED <<handler, status, worker, lease, outbox, dispatcher, handed>>
    BY <1>13 DEF RetryDue, jobVars
  <2> QED
    BY <1>12, <2>1, <2>2, <2>3
<1>14. ASSUME NEW d \in Owner, NEW j \in Job, DispatchEnqueue(d, j) PROVE Good
  <2>1. /\ UNCHANGED <<handler, status, worker, lease, outbox>>
        /\ task' = task \/ Enqueued(j)
        /\ handed' \in {handed, handed \cup {j}}
        /\ j \in handed' \ handed => Enqueued(j)
    BY <1>14 DEF DispatchEnqueue, jobVars
  <2>2. \A e \in Owner : dispatcher'[e].batch \subseteq dispatcher[e].batch
    BY <1>0, <1>14 DEF DispatchEnqueue, Sent, Settlement
  <2>3. status[j] # "absent"
    BY <1>14 DEF DispatchEnqueue, BackingInv, Due
  <2>4. CASE Enqueued(j) /\ task[j].state = "none"
    <3>1. task'[j].state = "pending" /\ \A i \in Job \ {j} : task'[i] = task[i]
      BY <1>0, <2>4 DEF Enqueued, Task
    <3> QED
      BY <1>12, <2>1, <2>2, <2>3, <2>4, <3>1
  <2>5. CASE task' = task /\ (j \in handed' \ handed => task[j].state # "none")
    <3>1. ASSUME NEW h \in Handler PROVE Standing(h)'
      BY <2>1, <2>5 DEF BackingInv, Standing
    <3>2. ASSUME NEW i \in Job PROVE Due(i)'
      <4>1. Due(i) /\ \A h \in Handler : Waits(h, i) <=> Waits(h, i)'
        BY <2>1 DEF BackingInv, Waits
      <4>2. CASE i = j
        <5>1. task[j].state \in {"none", "pending", "active", "retry", "archived"}
          BY <1>0 DEF Task, TaskState
        <5> QED
          BY <2>1, <2>3, <2>5, <4>1, <4>2, <5>1 DEF Due, Terminal
      <4>3. CASE i # j
        BY <2>1, <2>2, <2>5, <4>1, <4>3 DEF Due
      <4> QED
        BY <4>2, <4>3
    <3> QED
      BY <3>1, <3>2
  <2> QED
    BY <2>1, <2>4, <2>5 DEF Enqueued
<1>15. ASSUME NEW g \in Handler, NEW j \in Job, Deliver(g, j) PROVE Good
  <2>1. /\ task[j].state = "pending" /\ handler[g].pc = "idle"
        /\ handler'[g].pc = "get" /\ handler'[g].job = j /\ handler'[g].mode = "held"
        /\ handler'[g].retried = task[j].retried
        /\ \A h \in Handler \ {g} : handler'[h] = handler[h]
    BY <1>0, <1>15 DEF Deliver
  <2>2. /\ task'[j].state = "active" /\ task'[j].retried = task[j].retried
        /\ \A i \in Job \ {j} : task'[i] = task[i]
        /\ UNCHANGED <<status, worker, lease, outbox, dispatcher, handed>>
    BY <1>0, <1>15 DEF Deliver, Task, jobVars
  <2>3. \A h \in Handler : handler[h].pc # "idle" => handler[h].job # j
    BY <2>1 DEF BackingInv, Standing
  <2>4. status[j] \in {"queued"} \cup Terminal
    <3>1. status[j] # "processing"
      BY <2>3 DEF BackingInv, Due, Claimed
    <3>2. status[j] # "absent"
      BY <2>1 DEF BackingInv, Due
    <3>3. status[j] \in Status
      BY <1>0
    <3> QED
      BY <3>1, <3>2, <3>3 DEF Status, Terminal
  <2>5. ASSUME NEW h \in Handler PROVE Standing(h)'
    <3>1. CASE h = g
      BY <2>1, <2>2, <2>4, <3>1 DEF Standing, Claimed
    <3>2. CASE h # g /\ handler[h].pc = "idle"
      <4>1. Standing(h) /\ handler'[h] = handler[h]
        BY <2>1, <3>2 DEF BackingInv
      <4> QED
        BY <3>2, <4>1 DEF Standing, Claimed
    <3>3. CASE h # g /\ handler[h].pc # "idle"
      <4>1. Standing(h) /\ handler'[h] = handler[h] /\ task'[handler[h].job] = task[handler[h].job]
        BY <1>0, <2>1, <2>2, <2>3, <3>3 DEF BackingInv
      <4> QED
        BY <2>2, <4>1 DEF Standing
    <3> QED
      BY <3>1, <3>2, <3>3
  <2>6. ASSUME NEW i \in Job PROVE Due(i)'
    <3>1. Due(i)
      BY DEF BackingInv
    <3>2. CASE i = j
      <4>1. Waits(g, j)' /\ status'[j] # "processing"
        BY <2>1, <2>2, <2>4 DEF Waits, Terminal
      <4> QED
        BY <2>1, <2>2, <3>1, <3>2, <4>1 DEF Due
    <3>3. CASE i # j
      <4>1. status'[i] = "processing" =>
              \E h \in Handler : handler'[h].job = i /\ handler'[h].pc \in Claimed
        BY <2>1, <2>2, <3>1 DEF Due, Claimed
      <4>2. task'[i].state = "active" => \E h \in Handler : Waits(h, i)'
        BY <2>1, <2>2, <3>1, <3>3 DEF Due, Waits
      <4> QED
        BY <2>2, <3>1, <3>3, <4>1, <4>2 DEF Due
    <3> QED
      BY <3>2, <3>3
  <2> QED
    BY <2>5, <2>6
<1>16. \A i \in Job : status[i] = "absent" =>
         outbox[i] = NoRow /\ \A d \in Owner : i \notin dispatcher[d].batch
  BY DEF BackingInv, Due
<1>17. ASSUME NEW d \in Owner, DispatchClaim(d) PROVE Good
  <2>1. PICK batch \in SUBSET Job : /\ ClaimOutbox(batch, d)
                                    /\ dispatcher' = [dispatcher EXCEPT ![d].batch = batch]
    BY <1>17 DEF DispatchClaim
  <2>2. \A i \in Job : /\ outbox'[i].present = outbox[i].present
                       /\ i \notin batch => outbox'[i] = outbox[i]
    BY <1>0, <2>1 DEF ClaimOutbox, Row
  <2>3. \A i \in batch : outbox[i].present
    BY <2>1 DEF ClaimOutbox, Claimable
  <2>4. \A e \in Owner : dispatcher'[e].batch \in {dispatcher[e].batch, batch}
    BY <1>0, <2>1 DEF Settlement
  <2>5. \A i \in Job : status[i] = "absent" =>
          /\ outbox'[i] = outbox[i]
          /\ \A e \in Owner : i \notin dispatcher'[e].batch
    BY <1>16, <2>2, <2>3, <2>4 DEF NoRow
  <2>6. UNCHANGED <<handler, status, worker, lease, task>> /\ handed' = handed
    BY <1>17, <2>1 DEF DispatchClaim, ClaimOutbox
  <2> QED
    BY <2>2, <2>5, <2>6, OutboxBacking
<1>18. ASSUME NEW d \in Owner, DispatchSettle(d) \/ DispatchCrash(d) PROVE Good
  <2>1. \A e \in Owner : dispatcher'[e].batch \subseteq dispatcher[e].batch
    BY <1>0, <1>18 DEF DispatchSettle, DispatchCrash, IdleDispatcher, Settlement
  <2>2. \A i \in Job : outbox'[i] = outbox[i] \/ outbox[i].owner = d
    BY <1>0, <1>18 DEF DispatchSettle, DispatchCrash, CompleteOutbox, RetryOutbox, jobVars
  <2>3. \A i \in Job : status[i] = "absent" =>
          /\ outbox'[i] = outbox[i]
          /\ \A e \in Owner : i \notin dispatcher'[e].batch
    BY <1>0, <1>16, <2>1, <2>2 DEF NoRow
  <2>4. UNCHANGED <<handler, status, worker, lease, task>> /\ handed' = handed
    BY <1>18 DEF DispatchSettle, DispatchCrash, CompleteOutbox, RetryOutbox, jobVars
  <2>5. \A i \in Job : (outbox[i].present /\ ~outbox'[i].present) => i \in handed
    BY HandoffStep
  <2> QED
    BY <2>3, <2>4, <2>5, OutboxBacking
<1>19. ASSUME NEW j \in Job, LockRunsOut(j) \/ BackoffEnds(j) PROVE Good
  <2>1. \A i \in Job : /\ outbox'[i].present = outbox[i].present
                       /\ outbox[i] = NoRow => outbox'[i] = outbox[i]
    <3>1. outbox[j] # NoRow
      BY <1>19 DEF LockRunsOut, BackoffEnds, LockExpires, BackoffElapses, NoRow
    <3>2. \A i \in Job : outbox'[i].present = outbox[i].present /\ (i # j => outbox'[i] = outbox[i])
      BY <1>0, <1>19 DEF LockRunsOut, BackoffEnds, LockExpires, BackoffElapses, Row
    <3> QED
      BY <3>1, <3>2
  <2>2. UNCHANGED <<handler, status, worker, lease, task, dispatcher>> /\ handed' = handed
    BY <1>19 DEF LockRunsOut, BackoffEnds, LockExpires, BackoffElapses, queueVars
  <2> QED
    BY <1>16, <2>1, <2>2, OutboxBacking
<1>20. ASSUME (\E w \in Worker : SendHeartbeat(w) \/ HeartbeatStale(w)) \/ UNCHANGED vars
       PROVE  Good
  <2>1. /\ UNCHANGED <<handler, status, worker, lease, task, dispatcher>> /\ outbox' = outbox
        /\ handed' = handed
    BY <1>20 DEF SendHeartbeat, HeartbeatStale, Heartbeat, HeartbeatAges, queueVars, jobVars, vars
  <2> QED
    BY <1>16, <2>1, OutboxBacking
<1> HIDE DEF Good
<1>21. Good
  BY <1>3, <1>4, <1>5, <1>6, <1>7, <1>8, <1>10, <1>11, <1>13, <1>14, <1>15, <1>17, <1>18,
     <1>19, <1>20
     DEF Next
<1>22. TaskFence'
  BY TaskFenceStep DEF BackingInv
<1> QED
  BY <1>21, <1>22 DEF Good, BackingInv

\* The pipeline starts backed.
LEMMA BackingInit == Init => BackingInv /\ HandoffInv
BY DEF Init, JobInit, BackingInv, TaskFence, Waiting, Standing, Claimed, IdleHandler, Due,
       NoTask, IdleDispatcher, HandoffInv

HandlersSpared == Unspent(HandlerFaults)

\* A queued report always has its outbox row or a live task, however often Redis refuses,
\* loses an answer after storing the task, or a dispatcher dies between enqueue and delete:
\* with any number of dispatchers, handlers, reports and redeliveries.  Only a fault that
\* hits a handler or its database calls can strand a report.
THEOREM PipelineKeepsQueued == Spec => [](HandlersSpared => QueuedIsBacked)
<1> DEFINE I == BudgetInv /\ HandoffInv /\ (HandlersSpared => BackingInv)
<1>1. Init => I
  BY FenceInit, BackingInit
<1>2. PipelineInv /\ I /\ [Next]_vars => I'
  <2> SUFFICES ASSUME PipelineInv, I, [Next]_vars PROVE I'
    OBVIOUS
  <2>1. TypeOK /\ WorkingOn /\ LeaseShape
    BY DEF PipelineInv, JobInv
  <2>2. HandlerFaults \in SUBSET FaultKind
    BY DEF HandlerFaults, FaultKind
  <2>3. /\ BudgetInv'
        /\ HandlersSpared' => HandlersSpared /\ \A k \in HandlerFaults : ~Spend(k)
    BY <2>1, <2>2, UnspentStep DEF HandlersSpared
  <2>4. HandoffInv'
    BY <2>1, HandoffStep
  <2> QED
    BY <2>1, <2>3, <2>4, BackingStep
<1>3. I => (HandlersSpared => QueuedIsBacked)
  <2>1. BackingInv => QueuedIsBacked
    BY DEF BackingInv, Due, QueuedIsBacked, Backed
  <2> QED
    BY <2>1
<1> HIDE DEF I
<1> QED
  BY <1>1, <1>2, <1>3, PipelineCorrect, PTL DEF Spec

=============================================================================
