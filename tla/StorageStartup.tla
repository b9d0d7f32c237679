---------------------------- MODULE StorageStartup ----------------------------
(***************************************************************************)
(* Starting the processes of a deployment, and reading stored artifacts:   *)
(* schema scripts under the migration lock (internal/database), adoption   *)
(* of artifacts written before the storage tables existed (BootstrapLegacy *)
(* in internal/storagecontrol/repository.go), the rewriting of published   *)
(* templates (cmd/server/main.go), and reads that fall back from one       *)
(* replica to the next (internal/storagecontrol/service.go), while an      *)
(* older release may still be running.                                     *)
(*                                                                         *)
(* A location is a directory or the bucket of the second profile.  The     *)
(* profile "legacy" is the directory the first process was configured      *)
(* with.  Writing, publishing and copying an artifact are one step each:   *)
(* ReportPipeline, TemplateLifecycle and StorageMigration have the steps.  *)
(***************************************************************************)
EXTENDS Naturals

CONSTANTS
  Replica,   \* API and worker processes of this release
  Directory, \* directories processes may be configured with
  Dir,       \* REPORTS_DIRECTORY of each process
  OldDir,    \* REPORTS_DIRECTORY of the older release
  Scripts,   \* number of schema scripts, the last of which makes the storage tables
  BuiltIn,   \* templates the first script publishes, without storing them
  Template,  \* templates, built in or not
  Report,
  MaxFaults, \* crashes, unreachable profiles and damaged replicas, together
  None       \* SQL NULL

Profile  == {"legacy", "s3"}
Location == Directory \cup {"s3"}
Artifact == Template \cup Report

ASSUME StartupAssumption ==
  /\ Dir \in [Replica -> Directory] /\ OldDir \in Directory
  /\ Scripts \in Nat \ {0} /\ MaxFaults \in Nat
  /\ BuiltIn \subseteq Template /\ Template \cap Report = {}
  /\ None \notin Location \cup Profile \cup Replica \cup Artifact

VARIABLES
  old,       \* the older release: none, running or stopped
  schema,    \* scripts recorded in schema_migrations
  lock,      \* holder of the migration lock
  finished,  \* published templates and completed reports
  legacy,    \* storage_profiles: the directory of the legacy profile
  default,   \* storage_defaults
  placement, \* the digest recorded with each available placement, "null" if there is none
  stored,    \* the bytes at each location
  replica,   \* what each process is doing
  reader,    \* a read in progress
  hurt,      \* history: replicas that were damaged, or copied from damaged ones
  faults     \* faults still to spend

vars == <<old, schema, lock, finished, legacy, default, placement, stored, replica, reader,
          hurt, faults>>

Bytes  == {"none", "good", "bad"}
Digest == {"none", "null", "good", "bad"}

PC == {"off", "lock", "check", "apply", "adopt", "templates", "reports", "commit", "list",
       "sync", "serving", "failed"}

\* next is the script a process has come to, todo what it is about to adopt or to rewrite.
Off  == [pc |-> "off", next |-> 1, todo |-> {}]
Idle == [by |-> None, of |-> None, prefer |-> None, seen |-> [p \in Profile |-> "none"],
         todo |-> {}, unreachable |-> {}, got |-> "none"]

TypeOK ==
  /\ old \in {"none", "running", "stopped"}
  /\ schema \in 0 .. Scripts
  /\ lock \in Replica \cup {None}
  /\ finished \subseteq Artifact
  /\ legacy \in Directory \cup {None}
  /\ default \in Profile \cup {None}
  /\ placement \in [Artifact -> [Profile -> Digest]]
  /\ stored \in [Location -> [Artifact -> Bytes]]
  /\ replica \in [Replica -> [pc : PC, next : 1 .. Scripts + 1, todo : SUBSET Artifact]]
  /\ reader \in [by : Replica \cup {None}, of : Artifact \cup {None},
                 prefer : Profile \cup {None}, seen : [Profile -> Digest], todo : SUBSET Profile,
                 unreachable : SUBSET Profile, got : Bytes \cup {"error"}]
  /\ hurt \subseteq Location \X Artifact
  /\ faults \in 0 .. MaxFaults

\* A new deployment, or one where an older release with all scripts but the last has
\* worked for a while: what it finished is in its directory, its built-in templates included.
Init ==
  /\ \/ old = "none" /\ schema = 0 /\ finished = {}
     \/ /\ old = "running" /\ schema = Scripts - 1
        /\ finished \in {BuiltIn \cup f : f \in SUBSET (Artifact \ BuiltIn)}
  /\ lock = None /\ legacy = None /\ default = None
  /\ placement = [x \in Artifact |-> [p \in Profile |-> "none"]]
  /\ stored = [l \in Location |-> [x \in Artifact |->
                 IF l = OldDir /\ x \in finished THEN "good" ELSE "none"]]
  /\ replica = [r \in Replica |-> Off]
  /\ reader = Idle
  /\ hurt = {} /\ faults = MaxFaults

At(r, pc)    == replica[r].pc = pc
Serving(r)   == At(r, "serving")
Goto(r, pc)  == replica' = [replica EXCEPT ![r].pc = pc]
Where(p)     == IF p = "legacy" THEN legacy ELSE "s3"
Recorded(x)  == \E p \in Profile : placement[x][p] # "none"
SpendFault   == faults > 0 /\ faults' = faults - 1

tables == <<finished, legacy, default, placement>>
-----------------------------------------------------------------------------
(* database.Migrate.                                                       *)

Start(r) ==
  /\ At(r, "off") /\ Goto(r, "lock")
  /\ UNCHANGED <<old, schema, lock, tables, stored, reader, hurt, faults>>

\* Mutant: two processes may run the scripts at once.
TakeLockShared(r) ==
  /\ At(r, "lock")
  /\ lock' = r /\ Goto(r, "check")
  /\ UNCHANGED <<old, schema, tables, stored, reader, hurt, faults>>

\* pg_advisory_lock, held by the connection until it is released or lost.
TakeLock(r) ==
  /\ At(r, "lock") /\ lock = None
  /\ lock' = r /\ Goto(r, "check")
  /\ UNCHANGED <<old, schema, tables, stored, reader, hurt, faults>>

\* Scripts run in the order of their names, so those that were applied are the first ones.
CheckScript(r) ==
  LET k == replica[r].next IN
  /\ At(r, "check")
  /\ IF k > Scripts
       THEN lock' = None /\ Goto(r, "adopt")
       ELSE /\ UNCHANGED lock
            /\ replica' = [replica EXCEPT ![r] =
                 IF k <= schema THEN [@ EXCEPT !.next = k + 1] ELSE [@ EXCEPT !.pc = "apply"]]
  /\ UNCHANGED <<old, schema, tables, stored, reader, hurt, faults>>

\* A script and its record are one transaction; a second record of it is refused.
ApplyScript(r) ==
  LET k == replica[r].next IN
  /\ At(r, "apply")
  /\ IF k <= schema
       THEN /\ lock' = (IF lock = r THEN None ELSE lock) /\ Goto(r, "failed")
            /\ UNCHANGED <<schema, finished>>
       ELSE /\ schema' = k
            /\ finished' = IF k = 1 THEN finished \cup BuiltIn ELSE finished
            /\ replica' = [replica EXCEPT ![r] = [@ EXCEPT !.pc = "check", !.next = k + 1]]
            /\ UNCHANGED lock
  /\ UNCHANGED <<old, legacy, default, placement, stored, reader, hurt, faults>>

-----------------------------------------------------------------------------
(* BootstrapLegacy: one transaction, whose statements each see what was    *)
(* committed when they began.                                              *)

Bootstrapping(r) == replica[r].pc \in {"templates", "reports", "commit"}

\* Mutant: the configuration is not compared.
AdoptAnyProfile(r) ==
  /\ At(r, "adopt")
  /\ legacy = None => \A q \in Replica : ~Bootstrapping(q)
  /\ Goto(r, "templates")
  /\ UNCHANGED <<old, schema, lock, tables, stored, reader, hurt, faults>>

\* The insert of the profile waits for another process that has inserted it and not yet
\* committed.  A profile that exists must have this process's configuration.
AdoptProfile(r) ==
  /\ At(r, "adopt")
  /\ legacy = None => \A q \in Replica : ~Bootstrapping(q)
  /\ Goto(r, IF legacy \in {None, Dir[r]} THEN "templates" ELSE "failed")
  /\ UNCHANGED <<old, schema, lock, tables, stored, reader, hurt, faults>>

BootstrapTemplates(r) ==
  /\ At(r, "templates")
  /\ replica' = [replica EXCEPT ![r] = [@ EXCEPT !.pc = "reports",
                   !.todo = {x \in finished \cap Template : ~Recorded(x)}]]
  /\ UNCHANGED <<old, schema, lock, tables, stored, reader, hurt, faults>>

BootstrapReports(r) ==
  /\ At(r, "reports")
  /\ replica' = [replica EXCEPT ![r] = [@ EXCEPT !.pc = "commit",
                   !.todo = replica[r].todo \cup {x \in finished \cap Report : ~Recorded(x)}]]
  /\ UNCHANGED <<old, schema, lock, tables, stored, reader, hurt, faults>>

\* Reports have a digest, templates had none.  What another process recorded meanwhile stays.
CommitBootstrap(r) ==
  /\ At(r, "commit")
  /\ legacy' = IF legacy = None THEN Dir[r] ELSE legacy
  /\ default' = IF default = None THEN "legacy" ELSE default
  /\ placement' = [x \in Artifact |->
       IF x \in replica[r].todo /\ placement[x]["legacy"] = "none"
         THEN [placement[x] EXCEPT !["legacy"] = IF x \in Report THEN "good" ELSE "null"]
         ELSE placement[x]]
  /\ replica' = [replica EXCEPT ![r] = [@ EXCEPT !.pc = "list", !.todo = {}]]
  /\ UNCHANGED <<old, schema, lock, finished, stored, reader, hurt, faults>>

-----------------------------------------------------------------------------
(* syncLegacyPublishedTemplates, then the process serves.                  *)

PublishedArtifacts(r) ==
  /\ At(r, "list")
  /\ replica' = [replica EXCEPT ![r] = [@ EXCEPT !.pc = "sync",
                   !.todo = {x \in finished \cap Template : placement[x]["legacy"] # "none"}]]
  /\ UNCHANGED <<old, schema, lock, tables, stored, reader, hurt, faults>>

\* Files are replaced by a rename, so a reader sees the old contents or the new.
SyncTemplate(r) ==
  /\ At(r, "sync")
  /\ \/ /\ replica[r].todo = {} /\ Goto(r, "serving")
        /\ UNCHANGED stored
     \/ \E x \in replica[r].todo :
          /\ stored' = [stored EXCEPT ![Dir[r]][x] = "good"]
          /\ replica' = [replica EXCEPT ![r].todo = @ \ {x}]
  /\ UNCHANGED <<old, schema, lock, tables, reader, hurt, faults>>

\* The process is stopped or loses its database or Redis: its transaction is rolled
\* back, its lock is released and it is started again.
Crash(r) ==
  /\ ~At(r, "off") /\ ~At(r, "failed") /\ SpendFault
  /\ replica' = [replica EXCEPT ![r] = Off]
  /\ lock' = IF lock = r THEN None ELSE lock
  /\ reader' = IF reader.by = r THEN Idle ELSE reader
  /\ UNCHANGED <<old, schema, tables, stored, hurt>>

-----------------------------------------------------------------------------
(* What changes artifacts and the default meanwhile.                       *)

\* A process of the older release completes a report, or publishes a template.
OldWrite(x) ==
  /\ old = "running" /\ x \notin finished \cup BuiltIn
  /\ finished' = finished \cup {x}
  /\ stored' = [stored EXCEPT ![OldDir][x] = "good"]
  /\ UNCHANGED <<old, schema, lock, legacy, default, placement, replica, reader, hurt, faults>>

StopOld ==
  /\ old = "running" /\ old' = "stopped"
  /\ UNCHANGED <<schema, lock, tables, stored, replica, reader, hurt, faults>>

\* Publication goes to the default profile, a report to the one that was the default when
\* it was requested.
Write(r, x) ==
  /\ Serving(r) /\ x \notin finished \cup BuiltIn
  /\ \E p \in Profile :
       /\ x \in Template => p = default
       /\ stored' = [stored EXCEPT ![Where(p)][x] = "good"]
       /\ placement' = [placement EXCEPT ![x][p] = "good"]
  /\ finished' = finished \cup {x}
  /\ UNCHANGED <<old, schema, lock, legacy, default, replica, reader, hurt, faults>>

SetDefault(r, p) ==
  /\ Serving(r) /\ default # p
  /\ default' = p
  /\ UNCHANGED <<old, schema, lock, finished, legacy, placement, stored, replica, reader, hurt, faults>>

\* A storage migration copies what is recorded, if it has the digest it should have.
Copy(r, x) ==
  LET bytes == stored[Where("legacy")][x] IN
  /\ Serving(r) /\ placement[x]["legacy"] # "none" /\ placement[x]["s3"] = "none"
  /\ bytes # "none" /\ placement[x]["legacy"] \in {"null", bytes}
  /\ stored' = [stored EXCEPT !["s3"][x] = bytes]
  /\ placement' = [placement EXCEPT ![x]["s3"] = bytes]
  /\ hurt' = IF bytes = "good" THEN hurt ELSE hurt \cup {<<"s3", x>>}
  /\ UNCHANGED <<old, schema, lock, finished, legacy, default, replica, reader, faults>>

Damage(l, x) ==
  /\ stored[l][x] = "good" /\ SpendFault
  /\ \E bytes \in {"none", "bad"} : stored' = [stored EXCEPT ![l][x] = bytes]
  /\ hurt' = hurt \cup {<<l, x>>}
  /\ UNCHANGED <<old, schema, lock, tables, replica, reader>>

-----------------------------------------------------------------------------
(* ReadReport and ReadTemplate.                                            *)

\* The caller knows the digest of a report and of no template.
Matches(bytes, digest) == digest = "null" \/ bytes = digest
Expected(x)            == IF x \in Report THEN "good" ELSE "null"

\* Answers of earlier reads are forgotten when a new one begins.
BeginRead(r, x, prefer) ==
  /\ Serving(r) /\ x \in finished /\ (reader.by = None \/ reader.got # "none")
  /\ reader' = [Idle EXCEPT !.by = r, !.of = x, !.prefer = prefer, !.seen = placement[x],
                            !.todo = {p \in Profile : placement[x][p] # "none"}]
  /\ UNCHANGED <<old, schema, lock, tables, stored, replica, hurt, faults>>

Reading == reader.by # None /\ reader.got = "none"

\* An artifact that nothing is recorded of is read where the older release left it.
ReadLegacy ==
  LET bytes == stored[Dir[reader.by]][reader.of] IN
  /\ Reading /\ \A p \in Profile : reader.seen[p] = "none"
  /\ reader' = [reader EXCEPT !.got =
       IF bytes = "none" \/ ~Matches(bytes, Expected(reader.of)) THEN "error" ELSE bytes]
  /\ UNCHANGED <<old, schema, lock, tables, stored, replica, hurt, faults>>

\* Mutant: bytes that do not match end the read.
TryPlacementOnce ==
  /\ Reading /\ reader.todo # {}
  /\ \E p \in reader.todo :
       LET bytes == stored[Where(p)][reader.of] IN
       /\ reader.prefer \in reader.todo => p = reader.prefer
       /\ \/ /\ SpendFault
             /\ reader' = [reader EXCEPT !.todo = @ \ {p}, !.unreachable = @ \cup {p}]
          \/ /\ UNCHANGED faults
             /\ reader' = IF bytes = "none" THEN [reader EXCEPT !.todo = @ \ {p}]
                          ELSE IF /\ Matches(bytes, reader.seen[p])
                                  /\ Matches(bytes, Expected(reader.of))
                            THEN [reader EXCEPT !.got = bytes]
                          ELSE [reader EXCEPT !.got = "error"]
  /\ UNCHANGED <<old, schema, lock, tables, stored, replica, hurt>>

\* The preferred profile comes first, the others by the time of their verification.  A
\* placement whose profile cannot be resolved or reached, or whose bytes are missing or
\* have another digest, is passed over.
TryPlacement ==
  /\ Reading /\ reader.todo # {}
  /\ \E p \in reader.todo :
       LET bytes == stored[Where(p)][reader.of] IN
       /\ reader.prefer \in reader.todo => p = reader.prefer
       /\ \/ /\ SpendFault
             /\ reader' = [reader EXCEPT !.todo = @ \ {p}, !.unreachable = @ \cup {p}]
          \/ /\ UNCHANGED faults
             /\ reader' = IF /\ bytes # "none" /\ Matches(bytes, reader.seen[p])
                             /\ Matches(bytes, Expected(reader.of))
                            THEN [reader EXCEPT !.got = bytes] ELSE [reader EXCEPT !.todo = @ \ {p}]
  /\ UNCHANGED <<old, schema, lock, tables, stored, replica, hurt>>

GiveUp ==
  /\ Reading /\ reader.todo = {} /\ \E p \in Profile : reader.seen[p] # "none"
  /\ reader' = [reader EXCEPT !.got = "error"]
  /\ UNCHANGED <<old, schema, lock, tables, stored, replica, hurt, faults>>

-----------------------------------------------------------------------------

Next ==
  \/ \E r \in Replica :
       \/ Start(r) \/ TakeLock(r) \/ CheckScript(r) \/ ApplyScript(r)
       \/ AdoptProfile(r) \/ BootstrapTemplates(r) \/ BootstrapReports(r) \/ CommitBootstrap(r)
       \/ PublishedArtifacts(r) \/ SyncTemplate(r) \/ Crash(r)
       \/ \E p \in Profile : SetDefault(r, p)
       \/ \E x \in Artifact : \/ Write(r, x) \/ Copy(r, x)
                              \/ \E p \in Profile \cup {None} : BeginRead(r, x, p)
  \/ ReadLegacy \/ TryPlacement \/ GiveUp
  \/ StopOld
  \/ \E x \in Artifact : OldWrite(x) \/ \E l \in Location : Damage(l, x)

Spec == Init /\ [][Next]_vars

-----------------------------------------------------------------------------
(* Properties.                                                             *)

\* The upgrade keeps the directory: the first process of this release had the older
\* release's.  A new deployment may use any.
DirectoryKept == old # "none" => legacy = OldDir

\* Where a process would find an artifact now.
Found(r, x) ==
  IF Recorded(x) THEN \E p \in Profile : placement[x][p] # "none" /\ stored[Where(p)][x] = "good"
  ELSE stored[Dir[r]][x] = "good"

\* Whatever order processes start, crash and restart in, and whichever of them did the
\* work: one that serves has a default to write to and finds everything that was ever
\* finished, artifacts of the older release and built-in templates included, unless a
\* replica of it was damaged.
ServedIsReadable ==
  \A r \in Replica : Serving(r) /\ DirectoryKept =>
    /\ default # None
    /\ \A x \in finished : Found(r, x) \/ \E l \in Location : <<l, x>> \in hurt

\* A start-up that races with others does not fail; only a process configured with
\* another directory is refused.
StartsUnlessMisconfigured ==
  \A r \in Replica : At(r, "failed") => legacy \notin {None, Dir[r]}

\* A read of a report never returns other bytes than were recorded, nor does that of a
\* template with digests everywhere.  A read fails only if every replica it knew of was
\* unreachable or has been damaged: a bad one never hides a good one.
ReadsAreFaithful ==
  LET places == {p \in Profile : reader.seen[p] # "none"} IN
  /\ reader.got = "bad" =>
       reader.of \in Template /\ (places = {} \/ \E p \in places : reader.seen[p] # "good")
  /\ (reader.got = "error" /\ DirectoryKept) =>
       IF places = {} THEN <<Dir[reader.by], reader.of>> \in hurt
       ELSE \A p \in places \ reader.unreachable : <<Where(p), reader.of>> \in hurt

=============================================================================
