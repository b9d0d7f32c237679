----------------------------- MODULE ReportsArea -----------------------------
(***************************************************************************)
(* The report operations page of the browser application (ReportsArea in   *)
(* web/template-manager/src/App.tsx) and the jobs it shows.  ReportJobs    *)
(* has what the server does with them; here a job only has its status.     *)
(*                                                                         *)
(* Reads are not numbered: an answer is taken whenever it comes.  The page *)
(* is unmounted when another area is opened, and forgets everything.       *)
(***************************************************************************)
EXTENDS Naturals, FiniteSets, FiniteSetsExt, Areas

CONSTANTS
  MaxJob,   \* bound: job numbers, in the order of creation
  Failed,   \* the jobs there are before, which have failed
  Filters,  \* bound: the filters the user applies, each the statuses that pass
  PageSize  \* pageSize

VARIABLES
  phase,    \* server: the status of every job
  parent,   \* server: retry_parent_id
  applied, offset, result, reported, detail, busy,
  lists,    \* lists asked for: filter and offset
  details,  \* jobs whose detail is asked for
  op,       \* operate: the retry or recovery in progress
  orphans,  \* operations sent by a page that has been left since
  crossed   \* history: what overtook something else

table   == <<phase, parent>>
list    == <<applied, offset, result>>
shown   == <<reported, detail, details>>
reports == <<table, list, shown, busy, lists, op, orphans, crossed>>

Job   == 1 .. MaxJob
Phase == {"queued", "processing", "completed", "failed"}
NoJob == 0 \* the empty selection

ASSUME ReportsAssumption ==
  /\ MaxJob \in Nat /\ PageSize \in Nat \ {0} /\ \E n \in 0 .. MaxJob : Failed = 1 .. n
  /\ Filters \subseteq SUBSET Phase /\ Phase \in Filters

NoList   == [items |-> {}, hasMore |-> FALSE]
NoDetail == [job |-> NoJob, phase |-> "none", children |-> {}]
NoOp     == [stage |-> "idle", kind |-> "none", job |-> NoJob, seen |-> {}, next |-> NoJob,
             filter |-> Phase, offset |-> 0, listed |-> FALSE, healthy |-> FALSE]

ReportsTypeOK ==
  /\ phase \in [Job -> Phase \cup {"none"}] /\ parent \in [Job -> Job \cup {NoJob}]
  /\ applied \in Filters /\ offset \in Nat
  /\ result \in [items : SUBSET Job, hasMore : BOOLEAN]
  /\ reported \in Job \cup {NoJob} /\ busy \in BOOLEAN
  /\ detail \in [job : Job \cup {NoJob}, phase : Phase \cup {"none"}, children : SUBSET Job]
  /\ lists \subseteq [filter : Filters, offset : Nat] /\ details \subseteq Job
  /\ op \in [stage : {"idle", "post", "after"}, kind : {"none", "retry", "recover"},
             job : Job \cup {NoJob}, seen : SUBSET Job, next : Job \cup {NoJob},
             filter : Filters, offset : Nat, listed : BOOLEAN, healthy : BOOLEAN]
  /\ orphans \subseteq [kind : {"retry", "recover"}, job : Job]
  /\ crossed \subseteq {"detail", "lost", "left"}

ReportsInit ==
  /\ phase = [j \in Job |-> IF j \in Failed THEN "failed" ELSE "none"]
  /\ parent = [j \in Job |-> NoJob]
  /\ applied = Phase /\ offset = 0 /\ result = NoList
  /\ reported = NoJob /\ detail = NoDetail /\ busy = FALSE
  /\ lists = {} /\ details = {} /\ op = NoOp /\ orphans = {} /\ crossed = {}
-----------------------------------------------------------------------------
(* The server.                                                             *)

Jobs        == {j \in Job : phase[j] # "none"}
Children(j) == {c \in Jobs : parent[c] = j}
NewJob      == 1 + Max(Jobs \cup {0})

\* Room is left for the retries under way.
Room == MaxJob - Cardinality(Jobs)
        - Cardinality({o \in orphans : o.kind = "retry"})
        - (IF op.stage = "post" /\ op.kind = "retry" THEN 1 ELSE 0)

Insert(p) == phase' = [phase EXCEPT ![NewJob] = "queued"] /\ parent' = [parent EXCEPT ![NewJob] = p]

\* A client submits a report; a worker takes one, and ends or gives up its attempt.
Submitted ==
  /\ Room > 0 /\ Insert(NoJob)
  /\ Quiet /\ UNCHANGED <<list, shown, busy, lists, op, orphans, crossed>>

Worked ==
  /\ \E j \in Jobs, next \in Phase :
       /\ \/ phase[j] = "queued" /\ next = "processing"
          \/ phase[j] = "processing" /\ next # "processing"
       /\ phase' = [phase EXCEPT ![j] = next]
  /\ UNCHANGED <<area, clicks, faults, parent, list, shown, busy, lists, op, orphans, crossed>>

\* A failed job is retried, a processing one recovered unless its worker lives.
Operated(kind, j) ==
  \/ kind = "retry" /\ phase[j] = "failed" /\ Insert(j)
  \/ kind = "recover" /\ phase[j] = "processing" /\ phase' = [phase EXCEPT ![j] = "queued"]
     /\ UNCHANGED parent

\* The page of the jobs that pass a filter, newest first.
Passing(filter)      == {j \in Jobs : phase[j] \in filter}
Newer(filter, j)     == Cardinality({k \in Passing(filter) : k > j})
ListOf(filter, skip) ==
  [items   |-> {j \in Passing(filter) : Newer(filter, j) \in skip .. skip + PageSize - 1},
   hasMore |-> Cardinality(Passing(filter)) > skip + PageSize]

Read(j) == [job |-> j, phase |-> phase[j], children |-> Children(j)]
-----------------------------------------------------------------------------
(* The page.                                                               *)

\* refreshDetail: the details asked for besides those in `waiting`.
Ask(j, waiting) ==
  IF j = NoJob THEN detail' = NoDetail /\ details' = waiting /\ UNCHANGED crossed
  ELSE /\ details' = waiting \cup {j} /\ UNCHANGED detail
       /\ crossed' = crossed \cup IF waiting # {} THEN {"detail"} ELSE {}

\* A selection that changes has its detail read.
SelectReport(j) ==
  /\ reported' = j
  /\ IF j = reported THEN UNCHANGED <<detail, details, crossed>> ELSE Ask(j, details)

Kept(items) == IF reported \in items THEN reported ELSE Max(items \cup {NoJob})

\* Only an area that is open is mounted.
MountReports ==
  /\ lists' = {[filter |-> applied, offset |-> 0]}
  /\ UNCHANGED <<table, list, shown, busy, op, orphans, crossed>>

\* An operation that has been sent is performed or not, and nobody waits for the answer.
UnmountReports ==
  /\ applied' = Phase /\ offset' = 0 /\ result' = NoList
  /\ reported' = NoJob /\ detail' = NoDetail /\ busy' = FALSE
  /\ lists' = {} /\ details' = {} /\ op' = NoOp
  /\ orphans' = orphans \cup (IF op.stage = "post" THEN {[kind |-> op.kind, job |-> op.job]} ELSE {})
  /\ crossed' = crossed \cup (IF op.stage = "post" THEN {"left"} ELSE {})
  /\ UNCHANGED table

OperatesLate ==
  /\ \E o \in orphans : orphans' = orphans \ {o} /\ (Operated(o.kind, o.job) \/ UNCHANGED table)
  /\ Quiet /\ UNCHANGED <<list, shown, busy, lists, op, crossed>>

\* The form applied as it is sets the offset only.
Apply(filter) ==
  /\ area = "reports" /\ Click
  /\ applied' = filter /\ offset' = 0
  /\ \/ lists' = lists \cup {[filter |-> filter, offset |-> 0]}
     \/ filter = applied /\ UNCHANGED lists
  /\ UNCHANGED <<table, result, shown, busy, op, orphans, crossed>>

Turn(to) ==
  /\ area = "reports" /\ Click
  /\ \/ to = offset + PageSize /\ result.hasMore
     \/ offset > 0 /\ to = Max({0, offset - PageSize})
  /\ lists' = lists \cup {[filter |-> applied, offset |-> to]}
  /\ UNCHANGED <<table, list, shown, busy, op, orphans, crossed>>

Refresh ==
  /\ area = "reports" /\ Click
  /\ lists' = lists \cup {[filter |-> applied, offset |-> offset]} /\ Ask(reported, details)
  /\ UNCHANGED <<table, list, reported, busy, op, orphans>>

PickReport(j) ==
  /\ area = "reports" /\ Click /\ j \in result.items /\ SelectReport(j)
  /\ UNCHANGED <<table, list, busy, lists, op, orphans>>

\* refreshReports, once its answer is there.
Take(found, to) ==
  /\ result' = found /\ offset' = to /\ UNCHANGED applied

ListArrives(l) ==
  LET found == ListOf(l.filter, l.offset) IN
  /\ area = "reports" /\ Quiet /\ l \in lists /\ lists' = lists \ {l}
  /\ Take(found, l.offset) /\ SelectReport(Kept(found.items))
  /\ UNCHANGED <<table, busy, op, orphans>>

ListFails(l) ==
  /\ area = "reports" /\ Fault /\ l \in lists /\ lists' = lists \ {l}
  /\ UNCHANGED <<table, list, shown, busy, op, orphans, crossed>>

DetailArrives(j) ==
  /\ area = "reports" /\ Quiet /\ j \in details
  /\ details' = details \ {j} /\ detail' = Read(j)
  /\ UNCHANGED <<table, list, reported, busy, lists, op, orphans, crossed>>

DetailFails(j) ==
  /\ area = "reports" /\ Fault /\ j \in details
  /\ details' = details \ {j} /\ crossed' = crossed \cup {"lost"}
  /\ UNCHANGED <<table, list, reported, detail, busy, lists, op, orphans>>
-----------------------------------------------------------------------------
(* operate.                                                                *)

Operate(kind) ==
  /\ area = "reports" /\ Click /\ ~busy
  /\ \/ kind = "retry" /\ detail.phase = "failed" /\ Room > 0
     \/ kind = "recover" /\ detail.phase = "processing"
  /\ op' = [NoOp EXCEPT !.stage = "post", !.kind = kind, !.job = detail.job,
                        !.seen = detail.children, !.filter = applied, !.offset = offset]
  /\ busy' = TRUE
  /\ crossed' = crossed \cup IF details # {} THEN {"detail"} ELSE {}
  /\ UNCHANGED <<table, list, shown, lists, orphans>>

OperateAnswered ==
  /\ area = "reports" /\ Quiet /\ op.stage = "post" /\ Operated(op.kind, op.job)
  /\ op' = [op EXCEPT !.stage = "after", !.next = IF op.kind = "retry" THEN NewJob ELSE op.job]
  /\ UNCHANGED <<list, shown, busy, lists, orphans, crossed>>

Over == op' = NoOp /\ busy' = FALSE

\* Refused, failed, or performed without an answer.
OperateFails ==
  /\ area = "reports" /\ op.stage = "post" /\ Over
  /\ \/ op.kind = "recover" /\ Quiet /\ UNCHANGED <<table, crossed>>
     \/ Fault /\ UNCHANGED <<table, crossed>>
     \/ Fault /\ Operated(op.kind, op.job) /\ crossed' = crossed \cup {"lost"}
  /\ UNCHANGED <<list, shown, lists, orphans>>

\* Mutant: the report that results is not opened.
OperateListedOnly ==
  LET found == ListOf(op.filter, op.offset) IN
  /\ area = "reports" /\ Quiet /\ op.stage = "after" /\ ~op.listed
  /\ Take(found, op.offset)
  /\ SelectReport(Kept(found.items))
  /\ IF op.healthy THEN Over ELSE op' = [op EXCEPT !.listed = TRUE] /\ UNCHANGED busy
  /\ UNCHANGED <<table, lists, orphans>>

\* The list and the health are read side by side; when both are there, the report that
\* results is opened.
OperateListed ==
  LET found == ListOf(op.filter, op.offset) IN
  /\ area = "reports" /\ Quiet /\ op.stage = "after" /\ ~op.listed
  /\ Take(found, op.offset)
  /\ SelectReport(IF op.healthy THEN op.next ELSE Kept(found.items))
  /\ IF op.healthy THEN Over ELSE op' = [op EXCEPT !.listed = TRUE] /\ UNCHANGED busy
  /\ UNCHANGED <<table, lists, orphans>>

OperateHealthy ==
  /\ area = "reports" /\ Quiet /\ op.stage = "after" /\ ~op.healthy
  /\ IF op.listed
       THEN SelectReport(op.next) /\ Over
       ELSE op' = [op EXCEPT !.healthy = TRUE] /\ UNCHANGED <<shown, busy, crossed>>
  /\ UNCHANGED <<table, list, lists, orphans>>

\* One of the two fails; the other is still taken when it comes.
OperateUnrefreshed ==
  /\ area = "reports" /\ Fault /\ op.stage = "after" /\ Over /\ crossed' = crossed \cup {"lost"}
  /\ \/ UNCHANGED lists
     \/ /\ ~op.listed /\ ~op.healthy
        /\ lists' = lists \cup {[filter |-> op.filter, offset |-> op.offset]}
  /\ UNCHANGED <<table, list, shown, orphans>>
-----------------------------------------------------------------------------
ReportsNext ==
  \/ OperatesLate \/ Submitted \/ Worked \/ Refresh
  \/ \E filter \in Filters : Apply(filter)
  \/ \E to \in 0 .. MaxJob : Turn(to)
  \/ \E j \in Job : PickReport(j) \/ DetailArrives(j) \/ DetailFails(j)
  \/ \E l \in lists : ListArrives(l) \/ ListFails(l)
  \/ \E kind \in {"retry", "recover"} : Operate(kind)
  \/ OperateAnswered \/ OperateFails \/ OperateListed \/ OperateHealthy \/ OperateUnrefreshed
-----------------------------------------------------------------------------
(* Properties.                                                             *)

\* The server tells retries apart by their Idempotency-Key, and the page makes a new one
\* for every click: nothing but the page keeps a report from being retried twice.  It does
\* so by disabling the button until the retry, the lists and the detail of the new report
\* are there: a retry is sent knowing of every earlier one, unless details overtook each
\* other or were still awaited, a request of a retry failed, or the page was left meanwhile.
RetryIsInformed ==
  crossed = {} /\ op.stage = "post" /\ op.kind = "retry" => op.seen = Children(op.job)
=============================================================================
