-------------------------- MODULE StorageMigration --------------------------
(***************************************************************************)
(* Copying stored objects from one storage profile to another:             *)
(* storage_migrations, their items and the object placements               *)
(* (internal/storagecontrol/repository.go), the dispatcher that claims     *)
(* items, and the migration consumers of internal/queue/queue.go.          *)
(*                                                                         *)
(* Every action is one committed transaction, with one exception: the      *)
(* transaction of CompleteMigrationWork looks at rows other transactions   *)
(* are writing, so it runs (Finish) and commits (Commit) in two steps, and *)
(* other transactions wait for the rows it has locked.  Back-off and rate  *)
(* limits only postpone a claim, which interleaving allows anyway.         *)
(***************************************************************************)
EXTENDS Naturals, FiniteSets

CONSTANTS
  Migration,    \* migration ids, used or not
  Object,       \* storage objects
  Profile,      \* storage profiles
  Dispatcher,   \* one per API process
  Copier,       \* goroutines of the migration consumers
  Operator,     \* administrators' requests in progress
  Home,         \* the profiles each object is placed on before any migration
  Digested,     \* objects whose SHA-256 was recorded when they were written
  Corrupt,      \* replicas <<profile, object>> that no longer hold what was written
  Limit,        \* transfer_concurrency of each profile
  MaxAttempts,  \* attempts after which a transient failure is final
  Faults,       \* how often each fault may happen, and all of them together
  None          \* SQL NULL

FaultKind == {"die", "abort", "early", "redis", "partial"}

\* Behaviours are bounded in the faults of each kind, in those of any kind together,
\* in the resumes and pauses administrators ask for, and in the claims of one item.
Bounds == FaultKind \cup {"any", "resume", "pause", "claims"}

ASSUME MigrationAssumption ==
  /\ Home \in [Object -> SUBSET Profile]
  /\ Digested \subseteq Object /\ Corrupt \subseteq Profile \X Object
  /\ Limit \in [Profile -> Nat \ {0}]
  /\ MaxAttempts \in Nat \ {0}
  /\ Faults \in [Bounds -> Nat]
  /\ None \notin Migration \cup Object \cup Profile \cup {"held", "expired"}

VARIABLES
  migration,   \* storage_migrations
  item,        \* storage_migration_items, by migration and object
  placed,      \* profiles with an available placement of the object
  stored,      \* bytes under the object's key on each profile
  queue,       \* Asynq tasks waiting for a copier
  dispatcher,  \* the claim a dispatcher is about to enqueue or give back
  copier,      \* goroutines running handleMigration
  operator,    \* resume requests between their statements
  overlooked,  \* history: migrations whose last completion was not seen (see Looks)
  budget       \* faults still to spend

vars == <<migration, item, placed, stored, queue, dispatcher, copier, operator, overlooked,
          budget>>

Done      == {"completed", "skipped"}
ItemState == {"none", "pending", "running", "failed"} \cup Done
State     == {"none", "draft", "running", "paused", "completed", "canceled", "failed"}
Bytes     == {"none", "good", "bad"}

NoMigration == [state |-> "none", source |-> None, destination |-> None]
NoItem      == [state |-> "none", attempts |-> 0, lease |-> None]
NewItem     == [NoItem EXCEPT !.state = "pending"]

\* An Asynq task: its id holds the attempt, its payload only migration and object.
Tasks == [m : Migration, o : Object, n : Nat]

IdleDispatcher == [pc |-> "idle", m |-> None, o |-> None, n |-> 0]
IdleCopier     == [pc |-> "idle", m |-> None, o |-> None, n |-> 0, skip |-> FALSE, last |-> FALSE]
IdleOperator   == [pc |-> "idle", m |-> None]

CopierPC == {"idle", "load", "stale", "check", "copy", "put", "finish", "commit",
             "transient", "fatal"}

TypeOK ==
  /\ migration  \in [Migration -> [state : State, source : Profile \cup {None},
                                   destination : Profile \cup {None}]]
  /\ item       \in [Migration -> [Object -> [state : ItemState, attempts : Nat,
                                              lease : {None, "held", "expired"}]]]
  /\ \A m \in Migration, o \in Object :
       (item[m][o].state = "running") <=> (item[m][o].lease # None)
  /\ placed     \in [Object -> SUBSET Profile]
  /\ stored     \in [Profile -> [Object -> Bytes]]
  /\ queue      \in SUBSET Tasks
  /\ dispatcher \in [Dispatcher -> [pc : {"idle", "enqueue", "release"}, m : Migration \cup {None},
                                    o : Object \cup {None}, n : Nat]]
  /\ copier     \in [Copier -> [pc : CopierPC, m : Migration \cup {None}, o : Object \cup {None},
                                n : Nat, skip : BOOLEAN, last : BOOLEAN]]
  /\ operator   \in [Operator -> [pc : {"idle", "items", "settle"}, m : Migration \cup {None}]]
  /\ overlooked \in SUBSET Migration
  /\ budget     \in [Bounds -> Nat]

Original(p, o) == IF p \notin Home[o] THEN "none" ELSE IF <<p, o>> \in Corrupt THEN "bad" ELSE "good"

Init ==
  /\ migration  = [m \in Migration |-> NoMigration]
  /\ item       = [m \in Migration |-> [o \in Object |-> NoItem]]
  /\ placed     = Home
  /\ stored     = [p \in Profile |-> [o \in Object |-> Original(p, o)]]
  /\ queue      = {}
  /\ dispatcher = [d \in Dispatcher |-> IdleDispatcher]
  /\ copier     = [c \in Copier |-> IdleCopier]
  /\ operator   = [a \in Operator |-> IdleOperator]
  /\ overlooked = {}
  /\ budget     = Faults

Spend(kind) ==
  /\ budget[kind] > 0 /\ budget["any"] > 0
  /\ budget' = [budget EXCEPT ![kind] = @ - 1, !["any"] = @ - 1]

SpendOne(kind) == budget[kind] > 0 /\ budget' = [budget EXCEPT ![kind] = @ - 1]

Running(m)  == migration[m].state = "running"
SetState(m, s) == migration' = [migration EXCEPT ![m].state = s]

\* Rows an open transaction has written: an item being completed, and its
\* migration when it was the last one.
ItemLocked(m, o) == \E c \in Copier :
                      copier[c].pc = "commit" /\ copier[c].m = m /\ copier[c].o = o
MigrationLocked(m) == \E c \in Copier :
                        copier[c].pc = "commit" /\ copier[c].m = m /\ copier[c].last

Left(m, o) == item[m][o].state \notin Done \cup {"none"}
AllDone(m) == \A o \in Object : ~Left(m, o)

\* Somebody looks whether any of these items is left.  Read committed does not show
\* the transactions that are just completing what is left, and those that have looked
\* already will not look again.
Looks(m, objects) ==
  LET left == {o \in objects : Left(m, o)} IN
  overlooked' = IF left # {} /\ \A o \in left : ItemLocked(m, o)
                  THEN overlooked \cup {m} ELSE overlooked

-----------------------------------------------------------------------------
(* Administrators.                                                         *)

\* CreateMigration: a draft with an item for every available source placement.
CreateMigration(m, source, destination) ==
  /\ migration[m] = NoMigration /\ source # destination
  /\ migration' = [migration EXCEPT ![m] = [state |-> "draft", source |-> source,
                                            destination |-> destination]]
  /\ item' = [item EXCEPT ![m] = [o \in Object |-> IF source \in placed[o] THEN NewItem ELSE NoItem]]
  /\ UNCHANGED <<placed, stored, queue, dispatcher, copier, operator, overlooked, budget>>

\* Mutant: a canceled migration can be resumed too.
ResumeAnyState(a, m) ==
  /\ operator[a] = IdleOperator /\ SpendOne("resume")
  /\ migration[m].state \in {"draft", "paused", "failed", "canceled"} /\ ~MigrationLocked(m)
  /\ SetState(m, "running")
  /\ operator' = [operator EXCEPT ![a] = [pc |-> "items", m |-> m]]
  /\ UNCHANGED <<item, placed, stored, queue, dispatcher, copier, overlooked>>

\* ResumeMigration is three statements, each committed by itself.
ResumeMigration(a, m) ==
  /\ operator[a] = IdleOperator /\ SpendOne("resume")
  /\ migration[m].state \in {"draft", "paused", "failed"} /\ ~MigrationLocked(m)
  /\ SetState(m, "running")
  /\ operator' = [operator EXCEPT ![a] = [pc |-> "items", m |-> m]]
  /\ UNCHANGED <<item, placed, stored, queue, dispatcher, copier, overlooked>>

\* Mutant: failed items stay failed.
ResumeForgetsItems(a) ==
  /\ operator[a].pc = "items"
  /\ operator' = [operator EXCEPT ![a].pc = "settle"]
  /\ UNCHANGED <<migration, item, placed, stored, queue, dispatcher, copier, overlooked, budget>>

ResumeItems(a) ==
  LET m == operator[a].m IN
  /\ operator[a].pc = "items"
  /\ \A o \in Object : item[m][o].state = "failed" => ~ItemLocked(m, o)
  /\ item' = [item EXCEPT ![m] = [o \in Object |->
                IF item[m][o].state = "failed"
                  THEN [item[m][o] EXCEPT !.state = "pending", !.lease = None] ELSE item[m][o]]]
  /\ operator' = [operator EXCEPT ![a].pc = "settle"]
  /\ UNCHANGED <<migration, placed, stored, queue, dispatcher, copier, overlooked, budget>>

\* The last statement does not test the migration's state.
ResumeSettle(a) ==
  LET m == operator[a].m IN
  /\ operator[a].pc = "settle" /\ ~MigrationLocked(m)
  /\ IF AllDone(m) THEN SetState(m, "completed") ELSE UNCHANGED migration
  /\ Looks(m, Object)
  /\ operator' = [operator EXCEPT ![a] = IdleOperator]
  /\ UNCHANGED <<item, placed, stored, queue, dispatcher, copier, budget>>

\* The process dies, or the database fails, between two of the statements.
ResumePartial(a) ==
  /\ operator[a] # IdleOperator /\ Spend("partial")
  /\ operator' = [operator EXCEPT ![a] = IdleOperator]
  /\ UNCHANGED <<migration, item, placed, stored, queue, dispatcher, copier, overlooked>>

\* PauseMigration: the statement has a parameter and is given no argument, so the
\* driver refuses it and the request is answered 409, whatever the state.
PauseMigration(m) ==
  /\ Running(m) /\ SpendOne("pause")
  /\ UNCHANGED <<migration, item, placed, stored, queue, dispatcher, copier, operator, overlooked>>

CancelMigration(m) ==
  /\ migration[m].state \in {"draft", "running", "paused", "failed"} /\ ~MigrationLocked(m)
  /\ SetState(m, "canceled")
  /\ UNCHANGED <<item, placed, stored, queue, dispatcher, copier, operator, overlooked, budget>>

-----------------------------------------------------------------------------
(* The dispatcher.                                                         *)

Expired(m, o) == Running(m) /\ item[m][o].state = "running" /\ item[m][o].lease = "expired"

\* Expired items of running migrations, put back to pending.
Reset == [m \in Migration |-> [o \in Object |->
            IF Expired(m, o) THEN [item[m][o] EXCEPT !.state = "pending", !.lease = None]
                             ELSE item[m][o]]]

\* Mutant: the limit is tested with <= .
BelowLimitOrAt(p) ==
  Cardinality({w \in Migration \X Object :
                 /\ migration[w[1]].destination = p
                 /\ item[w[1]][w[2]].state = "running" /\ item[w[1]][w[2]].lease = "held"})
    <= Limit[p]

\* Unexpired running items of all migrations to a profile, whatever their state.
BelowLimit(p) ==
  Cardinality({w \in Migration \X Object :
                 /\ migration[w[1]].destination = p
                 /\ item[w[1]][w[2]].state = "running" /\ item[w[1]][w[2]].lease = "held"})
    < Limit[p]

\* ClaimMigrationWork: the advisory lock makes count and claim one step for each
\* profile.  A profile whose lock is taken is passed over, so the transaction may
\* also commit without a claim.
ClaimMigrationWork(d) ==
  /\ dispatcher[d] = IdleDispatcher
  /\ \A m \in Migration, o \in Object : Expired(m, o) => ~ItemLocked(m, o)
  /\ \/ \E m \in Migration, o \in Object :
          /\ Running(m) /\ Reset[m][o].state = "pending" /\ ~ItemLocked(m, o)
          /\ BelowLimit(migration[m].destination) /\ item[m][o].attempts < Faults["claims"]
          /\ item' = [Reset EXCEPT ![m][o] = [state |-> "running", lease |-> "held",
                                              attempts |-> @.attempts + 1]]
          /\ dispatcher' = [dispatcher EXCEPT ![d] =
               [pc |-> "enqueue", m |-> m, o |-> o, n |-> item[m][o].attempts + 1]]
     \/ Reset # item /\ item' = Reset /\ UNCHANGED dispatcher
  /\ UNCHANGED <<migration, placed, stored, queue, copier, operator, overlooked, budget>>

\* EnqueueMigration: every claim has a fresh attempt number, hence a fresh task id.
EnqueueMigration(d) ==
  LET t == [m |-> dispatcher[d].m, o |-> dispatcher[d].o, n |-> dispatcher[d].n] IN
  /\ dispatcher[d].pc = "enqueue"
  /\ \/ /\ queue' = queue \cup {t} /\ UNCHANGED budget
        /\ dispatcher' = [dispatcher EXCEPT ![d] = IdleDispatcher]
     \/ /\ Spend("redis") /\ queue' \in {queue, queue \cup {t}}
        /\ dispatcher' = [dispatcher EXCEPT ![d].pc = "release"]
  /\ UNCHANGED <<migration, item, placed, stored, copier, operator, overlooked>>

\* Mutant: the lease is left behind.
ReleaseKeepsLease(m, o, retry) ==
  /\ ~ItemLocked(m, o)
  /\ item' = [item EXCEPT ![m][o].state = IF retry THEN "pending" ELSE "failed"]
  /\ IF retry \/ ~Running(m) THEN UNCHANGED migration
     ELSE ~MigrationLocked(m) /\ SetState(m, "failed")

\* ReleaseMigrationWork tests neither the item's state nor its attempt.
Release(m, o, retry) ==
  /\ ~ItemLocked(m, o)
  /\ item' = [item EXCEPT ![m][o].state = IF retry THEN "pending" ELSE "failed",
                          ![m][o].lease = None]
  /\ IF retry \/ ~Running(m) THEN UNCHANGED migration
     ELSE ~MigrationLocked(m) /\ SetState(m, "failed")

DispatcherRelease(d) ==
  /\ dispatcher[d].pc = "release"
  /\ Release(dispatcher[d].m, dispatcher[d].o, TRUE)
  /\ dispatcher' = [dispatcher EXCEPT ![d] = IdleDispatcher]
  /\ UNCHANGED <<placed, stored, queue, copier, operator, overlooked, budget>>

\* The API process dies, or its database fails, with a claim in hand.
DispatcherDies(d) ==
  /\ dispatcher[d] # IdleDispatcher /\ Spend("die")
  /\ dispatcher' = [dispatcher EXCEPT ![d] = IdleDispatcher]
  /\ UNCHANGED <<migration, item, placed, stored, queue, copier, operator, overlooked>>

-----------------------------------------------------------------------------
(* Worker.handleMigration.                                                 *)

Goto(c, pc) == copier' = [copier EXCEPT ![c].pc = pc]
At(c, pc)   == copier[c].pc = pc

\* Asynq hands a task to a free goroutine.  Migration tasks are never retried: a
\* task that fails is archived, and its id is not used again.
Start(c) ==
  /\ At(c, "idle")
  /\ \E t \in queue :
       /\ queue' = queue \ {t}
       /\ copier' = [copier EXCEPT ![c] = [IdleCopier EXCEPT !.pc = "load", !.m = t.m, !.o = t.o,
                                                             !.n = t.n]]
  /\ UNCHANGED <<migration, item, placed, stored, dispatcher, operator, overlooked, budget>>

\* GetMigrationWork reads the item's current attempt number, not the task's.
Load(c) ==
  LET m == copier[c].m
      i == item[m][copier[c].o] IN
  /\ At(c, "load")
  /\ IF Running(m) /\ i.state = "running"
       THEN copier' = [copier EXCEPT ![c].pc = "check", ![c].n = i.attempts]
       ELSE Goto(c, "stale")
  /\ UNCHANGED <<migration, item, placed, stored, queue, dispatcher, operator, overlooked, budget>>

\* A task whose item is not running any more puts the item back to pending,
\* whatever state it is in.
GiveBack(c) ==
  /\ At(c, "stale")
  /\ Release(copier[c].m, copier[c].o, TRUE)
  /\ copier' = [copier EXCEPT ![c] = IdleCopier]
  /\ UNCHANGED <<placed, stored, queue, dispatcher, operator, overlooked, budget>>

\* DestinationAvailable.
Check(c) ==
  /\ At(c, "check")
  /\ \/ /\ migration[copier[c].m].destination \in placed[copier[c].o]
        /\ copier' = [copier EXCEPT ![c].pc = "finish", ![c].skip = TRUE]
     \/ /\ migration[copier[c].m].destination \notin placed[copier[c].o]
        /\ Goto(c, "copy")
     \/ Goto(c, "transient")
  /\ UNCHANGED <<migration, item, placed, stored, queue, dispatcher, operator, overlooked, budget>>

\* Mutant: the bytes read are not compared with the recorded digest.
CopyUnchecked(c) ==
  /\ At(c, "copy")
  /\ \E pc \in {"put", "transient", "fatal"} : Goto(c, pc)
  /\ UNCHANGED <<migration, item, placed, stored, queue, dispatcher, operator, overlooked, budget>>

\* Resolve both profiles, read the source and compare it with the snapshotted digest.
Copy(c) ==
  LET o == copier[c].o IN
  /\ At(c, "copy")
  /\ \/ /\ o \in Digested => stored[migration[copier[c].m].source][o] = "good"
        /\ Goto(c, "put")
     \/ \E pc \in {"transient", "fatal"} : Goto(c, pc)
  /\ UNCHANGED <<migration, item, placed, stored, queue, dispatcher, operator, overlooked, budget>>

\* Put under the source's key; a call that fails may have stored the object.
Put(c) ==
  LET p == migration[copier[c].m].destination
      o == copier[c].o IN
  /\ At(c, "put")
  /\ \/ /\ stored' = [stored EXCEPT ![p][o] = stored[migration[copier[c].m].source][o]]
        /\ \E pc \in {"finish", "transient", "fatal"} : Goto(c, pc)
     \/ UNCHANGED stored /\ Goto(c, "transient")
  /\ UNCHANGED <<migration, item, placed, queue, dispatcher, operator, overlooked, budget>>

\* Mutant: the first item to finish completes the migration.
FinishFirst(c) ==
  LET m == copier[c].m
      o == copier[c].o IN
  /\ At(c, "finish") /\ ~ItemLocked(m, o)
  /\ Running(m) => ~MigrationLocked(m)
  /\ copier' = [copier EXCEPT ![c].pc = "commit", ![c].last = Running(m)]
  /\ UNCHANGED <<migration, item, placed, stored, queue, dispatcher, operator, overlooked, budget>>

\* CompleteMigrationWork up to its COMMIT.  The last statement sees the other items
\* as committed so far.
Finish(c) ==
  LET m == copier[c].m
      o == copier[c].o
      last == Running(m) /\ \A x \in Object \ {o} : ~Left(m, x) IN
  /\ At(c, "finish") /\ ~ItemLocked(m, o)
  /\ last => ~MigrationLocked(m)
  /\ copier' = [copier EXCEPT ![c].pc = "commit", ![c].last = last]
  /\ IF Running(m) THEN Looks(m, Object \ {o}) ELSE UNCHANGED overlooked
  /\ UNCHANGED <<migration, item, placed, stored, queue, dispatcher, operator, budget>>

Commit(c) ==
  LET m == copier[c].m
      o == copier[c].o IN
  /\ At(c, "commit")
  /\ placed' = IF copier[c].skip THEN placed
               ELSE [placed EXCEPT ![o] = @ \cup {migration[m].destination}]
  /\ item' = [item EXCEPT ![m][o].state = IF copier[c].skip THEN "skipped" ELSE "completed",
                          ![m][o].lease = None]
  /\ IF copier[c].last THEN SetState(m, "completed") ELSE UNCHANGED migration
  /\ copier' = [copier EXCEPT ![c] = IdleCopier]
  /\ UNCHANGED <<stored, queue, dispatcher, operator, overlooked, budget>>

\* Mutant: an item that fails for good does not fail its migration.
FailItemOnly(c) ==
  LET m == copier[c].m
      o == copier[c].o IN
  /\ copier[c].pc \in {"transient", "fatal"} /\ ~ItemLocked(m, o)
  /\ item' = [item EXCEPT ![m][o].lease = None, ![m][o].state =
                IF At(c, "transient") /\ copier[c].n < MaxAttempts THEN "pending" ELSE "failed"]
  /\ copier' = [copier EXCEPT ![c] = IdleCopier]
  /\ UNCHANGED <<migration, placed, stored, queue, dispatcher, operator, overlooked, budget>>

\* failMigration: transient failures are retried up to a number of attempts.
FailMigration(c) ==
  /\ copier[c].pc \in {"transient", "fatal"}
  /\ Release(copier[c].m, copier[c].o, At(c, "transient") /\ copier[c].n < MaxAttempts)
  /\ copier' = [copier EXCEPT ![c] = IdleCopier]
  /\ UNCHANGED <<placed, stored, queue, dispatcher, operator, overlooked, budget>>

CopierStep(c) ==
  \/ Load(c) \/ GiveBack(c) \/ Check(c) \/ Copy(c) \/ Put(c)
  \/ Finish(c) \/ Commit(c) \/ FailMigration(c)

\* The process dies, the task's deadline passes, or a database call fails: nothing
\* more happens for this task and an open transaction is rolled back.
CopierDies(c) ==
  /\ ~At(c, "idle") /\ Spend("die")
  /\ copier' = [copier EXCEPT ![c] = IdleCopier]
  /\ UNCHANGED <<migration, item, placed, stored, queue, dispatcher, operator, overlooked>>

\* A shutdown that runs out of patience puts the unfinished task back; its goroutine
\* may get further before the process exits.
CopierAborted(c) ==
  /\ ~At(c, "idle") /\ Spend("abort")
  /\ copier' \in {copier, [copier EXCEPT ![c] = IdleCopier]}
  /\ queue' = queue \cup {[m |-> copier[c].m, o |-> copier[c].o, n |-> copier[c].n]}
  /\ UNCHANGED <<migration, item, placed, stored, dispatcher, operator, overlooked>>

\* Somebody still works on the item: a dispatcher, a waiting task or a copier.
Attended(m, o) ==
  \/ \E d \in Dispatcher : dispatcher[d].m = m /\ dispatcher[d].o = o
  \/ \E t \in queue : t.m = m /\ t.o = o
  \/ \E c \in Copier : copier[c].m = m /\ copier[c].o = o

\* Half an hour passes.  It is a fault when somebody still works on the item: a long
\* queue, or a slow copy, since the task's deadline starts later than the lease.
LeaseExpires(m, o) ==
  /\ item[m][o].lease = "held"
  /\ IF Attended(m, o) THEN Spend("early") ELSE UNCHANGED budget
  /\ item' = [item EXCEPT ![m][o].lease = "expired"]
  /\ UNCHANGED <<migration, placed, stored, queue, dispatcher, copier, operator, overlooked>>

-----------------------------------------------------------------------------

Next ==
  \/ \E m \in Migration, s, d \in Profile : CreateMigration(m, s, d)
  \/ \E a \in Operator, m \in Migration : ResumeMigration(a, m)
  \/ \E a \in Operator : ResumeItems(a) \/ ResumeSettle(a) \/ ResumePartial(a)
  \/ \E m \in Migration : PauseMigration(m) \/ CancelMigration(m)
  \/ \E d \in Dispatcher : \/ ClaimMigrationWork(d) \/ EnqueueMigration(d)
                           \/ DispatcherRelease(d) \/ DispatcherDies(d)
  \/ \E c \in Copier : Start(c) \/ CopierStep(c) \/ CopierDies(c) \/ CopierAborted(c)
  \/ \E m \in Migration, o \in Object : LeaseExpires(m, o)

Spec == Init /\ [][Next]_vars

\* Dispatchers, copiers and started requests go on, and an unattended lease runs out
\* some day.  Administrators and faults are never owed.
Fairness ==
  /\ \A d \in Dispatcher :
       WF_vars(ClaimMigrationWork(d)) /\ WF_vars(EnqueueMigration(d)) /\ WF_vars(DispatcherRelease(d))
  /\ \A c \in Copier : WF_vars(Start(c)) /\ WF_vars(CopierStep(c))
  /\ \A a \in Operator : WF_vars(ResumeItems(a)) /\ WF_vars(ResumeSettle(a))
  /\ \A m \in Migration, o \in Object : WF_vars(LeaseExpires(m, o) /\ ~Attended(m, o))

FairSpec == Spec /\ Fairness

-----------------------------------------------------------------------------
(* Properties.                                                             *)

Unspent(kinds) == \A k \in kinds : budget[k] = Faults[k]

\* A placement that a migration recorded holds the bytes whose digest the report was
\* stored with, whichever replica was copied and however many copiers raced.
VerifiedCopy ==
  \A p \in Profile, o \in Digested :
    (p \in placed[o] /\ p \notin Home[o]) => stored[p][o] = "good"

\* No more copiers move data to a profile than its transfer_concurrency allows, across
\* migrations, canceled and failed ones included (README.md:405).  A lease that ends
\* under a copier, or an enqueue or a shutdown that leaves two tasks for one item, is
\* outside the promise: the limit counts leases, not copiers.
TransfersWithinLimit ==
  Unspent({"early", "redis", "abort"}) =>
    \A p \in Profile :
      Cardinality({c \in Copier : copier[c].pc \in {"copy", "put"}
                                 /\ migration[copier[c].m].destination = p}) <= Limit[p]

\* "Cancel stops dispatch permanently" (README.md:401): no item of a canceled or completed
\* migration is claimed again, and it gets into no third state, not even when a resume was
\* half way; that resume's last statement may still turn canceled into completed.
CancelStopsDispatch ==
  [][\A m \in Migration : migration[m].state \in {"canceled", "completed"} =>
       /\ migration'[m].state \in {"canceled", "completed"}
       /\ \A o \in Object : item'[m][o].attempts = item[m][o].attempts]_vars

\* A running migration has an item to run or a resume under way: one that runs with
\* nothing to run stays so, as it refuses to be resumed.  This holds for any limit and
\* under early lease ends, tasks given back when stale, doubled tasks and deaths, with two
\* exceptions, which the code does not exclude: a resume that broke off between its
\* statements, and a look for what is left that overlooked completions under way, as two
\* transfers at a time make possible (repository.go:563).
RunningHasWork == Unspent({"partial"}) =>
  \A m \in Migration \ overlooked : Running(m) =>
    \/ \E o \in Object : item[m][o].state \in {"pending", "running"}
    \/ \E a \in Operator : operator[a].m = m

\* Cutting over to the destination of a completed migration loses nothing: every object it
\* snapshotted has a placement there, and its bytes are there.
CompletedIsPlaced ==
  \A m \in Migration, o \in Object :
    migration[m].state = "completed" /\ item[m][o].state # "none" =>
      LET p == migration[m].destination IN p \in placed[o] /\ stored[p][o] # "none"

\* Every migration that runs completes, fails or is canceled, unless its last completions
\* were overlooked.
Settles == \A m \in Migration : Running(m) ~> ~Running(m) \/ m \in overlooked

=============================================================================
