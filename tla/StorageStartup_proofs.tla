------------------------ MODULE StorageStartup_proofs ------------------------
(***************************************************************************)
(* Theorems about starting the processes of a deployment and reading what  *)
(* it stored, for any number of processes, directories, schema scripts,    *)
(* artifacts, crashes and damaged replicas.                                *)
(***************************************************************************)
EXTENDS StorageStartup, TLAPS

-----------------------------------------------------------------------------
(* The invariant.                                                          *)

Migrated == {"adopt", "templates", "reports", "commit", "list", "sync", "serving"}
Adopted  == {"list", "sync", "serving"}

\* A script is applied by the holder of the lock, to the schema it has read; whoever is past
\* the scripts has seen all of them recorded.
SchemaOk(r) ==
  LET next == replica[r].next IN
  /\ replica[r].pc \in {"off", "lock"} => next = 1
  /\ replica[r].pc \in {"check", "apply"} => lock = r /\ next <= schema + 1
  /\ At(r, "apply") => next > schema /\ next <= Scripts
  /\ replica[r].pc \in Migrated => schema = Scripts

\* Only one process at a time works on a transaction that will make the legacy profile, and
\* whoever has committed found the profile, or made it, with its own directory.
ProfileOk(r) ==
  /\ Bootstrapping(r) => \/ legacy = Dir[r]
                         \/ legacy = None /\ \A q \in Replica : Bootstrapping(q) => q = r
  /\ replica[r].pc \in Adopted => legacy = Dir[r] /\ default # None
  /\ At(r, "failed") => legacy \notin {None, Dir[r]}

\* Nothing is recorded before the legacy profile is.
Unrecorded == legacy = None => \A x \in Artifact : ~Recorded(x)

\* A replica that has the right bytes, or had them until it was damaged.
Good(l, x) == stored[l][x] = "good" \/ <<l, x>> \in hurt

InLegacy(x) == placement[x]["legacy"] # "none"

\* What an older release finished was in its directory when this one came.
OldKept == old # "none" =>
  BuiltIn \subseteq finished /\ \A x \in finished : Recorded(x) \/ Good(OldDir, x)
NewRecorded == old = "none" => \A x \in finished \ BuiltIn : Recorded(x)

\* A process adopts what was finished and not recorded: by the older release, but for the
\* built-in templates of a new deployment.
Adoptable(x) == x \in finished /\ IF old = "none" THEN x \in BuiltIn ELSE Good(OldDir, x)
TodoOk(r) ==
  replica[r].pc \in {"reports", "commit"} => \A x \in replica[r].todo : Adoptable(x)

\* The first script publishes the built-in templates; a process finds them recorded or
\* records them, and afterwards writes their files.
BuiltInOk(r, x) ==
  /\ replica[r].pc \in {"reports", "commit"} => x \in replica[r].todo \/ InLegacy(x)
  /\ replica[r].pc \in Adopted => InLegacy(x)
  /\ At(r, "sync") => x \in replica[r].todo \/ Good(legacy, x)
  /\ Serving(r) => Good(legacy, x)
BuiltInKept ==
  /\ schema > 0 => BuiltIn \subseteq finished
  /\ \A x \in BuiltIn : Recorded(x) => InLegacy(x)
  /\ \A r \in Replica, x \in BuiltIn : BuiltInOk(r, x)

\* A recorded placement has the artifact, but for built-in templates of a new deployment,
\* whose files come after their records.
PlacementOk(x, p) == placement[x][p] # "none" =>
  /\ x \in finished
  /\ placement[x][p] = "bad" => <<Where(p), x>> \in hurt
  /\ DirectoryKept /\ (p = "s3" \/ x \notin BuiltIn \/ old # "none") => Good(Where(p), x)

\* A read by a process that serves, of places that have the artifact; what was passed over
\* was unreachable or has been damaged.
Places == {p \in Profile : reader.seen[p] # "none"}
PlaceOk(p) ==
  /\ DirectoryKept => Good(Where(p), reader.of)
  /\ reader.seen[p] = "bad" => <<Where(p), reader.of>> \in hurt
  /\ DirectoryKept /\ p \notin reader.todo \cup reader.unreachable /\ reader.got \in {"none", "error"}
       => <<Where(p), reader.of>> \in hurt
ReaderOk ==
  /\ reader.by = None => reader.got = "none" /\ Places = {}
  /\ reader.by # None =>
       /\ legacy = Dir[reader.by] /\ reader.of # None
       /\ reader.todo \subseteq Places
       /\ Places = {} /\ DirectoryKept =>
            /\ Good(Dir[reader.by], reader.of)
            /\ reader.got = "error" => <<Dir[reader.by], reader.of>> \in hurt
       /\ \A p \in Places : PlaceOk(p)
  /\ reader.got = "error" => Places = {} \/ reader.todo = {}
  /\ reader.got = "bad" =>
       reader.of \in Template /\ (Places = {} \/ \E p \in Places : reader.seen[p] # "good")

StartInv == TypeOK /\ (\A r \in Replica : SchemaOk(r) /\ ProfileOk(r)) /\ Unrecorded
BytesInv ==
  /\ OldKept
  /\ NewRecorded
  /\ \A r \in Replica : TodoOk(r)
  /\ BuiltInKept
  /\ \A x \in Artifact, p \in Profile : PlacementOk(x, p)

IInv == StartInv /\ BytesInv /\ ReaderOk

-----------------------------------------------------------------------------
(* What a process does next.                                               *)

ReplicaRow == [pc : PC, next : 1 .. Scripts + 1, todo : SUBSET Artifact]

\* A process comes to another point, with this script and this to do.
Moved(r, pc, next, todo) ==
  replica' = [replica EXCEPT ![r] = [pc |-> pc, next |-> next, todo |-> todo]]

LEMMA MovedFacts ==
  ASSUME TypeOK, NEW r \in Replica, NEW pc, NEW next, NEW todo, Moved(r, pc, next, todo)
  PROVE  /\ replica'[r].pc = pc /\ replica'[r].next = next /\ replica'[r].todo = todo
         /\ \A q \in Replica : q # r => replica'[q] = replica[q]
         /\ pc \in PC /\ next \in 1 .. Scripts + 1 /\ todo \in SUBSET Artifact
              => replica' \in [Replica -> ReplicaRow]
BY DEF Moved, TypeOK, ReplicaRow

LEMMA ReplicaTyped == ASSUME TypeOK PROVE replica \in [Replica -> ReplicaRow]
BY DEF TypeOK, ReplicaRow

LEMMA GotoMoves ==
  ASSUME TypeOK, NEW r \in Replica, NEW pc, Goto(r, pc)
  PROVE  Moved(r, pc, replica[r].next, replica[r].todo)
<1>1. replica[r] \in ReplicaRow BY ReplicaTyped
<1>2. [replica[r] EXCEPT !.pc = pc] = [pc |-> pc, next |-> replica[r].next, todo |-> replica[r].todo]
  BY <1>1 DEF ReplicaRow
<1>. QED BY <1>1, <1>2 DEF Goto, Moved, TypeOK

\* Two fields of a process replaced.
LEMMA NextUpdate ==
  ASSUME TypeOK, NEW r \in Replica, NEW pc, NEW next
  PROVE  [replica[r] EXCEPT !.pc = pc, !.next = next]
           = [pc |-> pc, next |-> next, todo |-> replica[r].todo]
<1>. DEFINE one == [pc |-> pc, next |-> replica[r].next, todo |-> replica[r].todo]
<1>1. replica[r] \in ReplicaRow BY ReplicaTyped
<1>2. [replica[r] EXCEPT !.pc = pc] = one BY <1>1 DEF ReplicaRow
<1>3. [one EXCEPT !.next = next] = [pc |-> pc, next |-> next, todo |-> replica[r].todo] OBVIOUS
<1>. HIDE DEF one
<1>. QED BY <1>2, <1>3

LEMMA TodoUpdate ==
  ASSUME TypeOK, NEW r \in Replica, NEW pc, NEW todo
  PROVE  [replica[r] EXCEPT !.pc = pc, !.todo = todo]
           = [pc |-> pc, next |-> replica[r].next, todo |-> todo]
<1>. DEFINE one == [pc |-> pc, next |-> replica[r].next, todo |-> replica[r].todo]
<1>1. replica[r] \in ReplicaRow BY ReplicaTyped
<1>2. [replica[r] EXCEPT !.pc = pc] = one BY <1>1 DEF ReplicaRow
<1>3. [one EXCEPT !.todo = todo] = [pc |-> pc, next |-> replica[r].next, todo |-> todo] OBVIOUS
<1>. HIDE DEF one
<1>. QED BY <1>2, <1>3

\* The moves of a process, one for every action that has one.
LEMMA Moves ==
  ASSUME TypeOK, NEW r \in Replica
  PROVE  LET next == replica[r].next
             todo == replica[r].todo
         IN
         /\ Start(r) => Moved(r, "lock", next, todo)
         /\ TakeLock(r) => Moved(r, "check", next, todo)
         /\ CheckScript(r) =>
              /\ next > Scripts => Moved(r, "adopt", next, todo)
              /\ next <= schema => Moved(r, "check", next + 1, todo)
              /\ ~ (next > Scripts) /\ ~ (next <= schema) => Moved(r, "apply", next, todo)
         /\ ApplyScript(r) => /\ next <= schema => Moved(r, "failed", next, todo)
                              /\ ~ (next <= schema) => Moved(r, "check", next + 1, todo)
         /\ AdoptProfile(r) => Moved(r, IF legacy \in {None, Dir[r]} THEN "templates" ELSE "failed",
                                     next, todo)
         /\ BootstrapTemplates(r) =>
              Moved(r, "reports", next, {x \in finished \cap Template : ~Recorded(x)})
         /\ BootstrapReports(r) =>
              Moved(r, "commit", next, todo \cup {x \in finished \cap Report : ~Recorded(x)})
         /\ CommitBootstrap(r) => Moved(r, "list", next, {})
         /\ PublishedArtifacts(r) =>
              Moved(r, "sync", next, {x \in finished \cap Template : InLegacy(x)})
         /\ SyncTemplate(r) => \/ todo = {} /\ UNCHANGED stored /\ Moved(r, "serving", next, todo)
                               \/ \E x \in todo :
                                    /\ stored' = [stored EXCEPT ![Dir[r]][x] = "good"]
                                    /\ Moved(r, "sync", next, todo \ {x})
         /\ Crash(r) => Moved(r, "off", 1, {})
<1>. DEFINE next == replica[r].next
            todo == replica[r].todo
<1>1. replica[r] \in ReplicaRow BY ReplicaTyped
<1>2. /\ replica[r].pc \in PC /\ next \in 1 .. Scripts + 1 /\ todo \in SUBSET Artifact
      /\ next \in Nat /\ schema \in Nat /\ Scripts \in Nat
  BY <1>1, StartupAssumption DEF ReplicaRow, TypeOK
<1>6. \A n : [replica[r] EXCEPT !.next = n] = [pc |-> replica[r].pc, next |-> n, todo |-> todo]
  BY <1>1 DEF ReplicaRow
<1>7. \A pc : [replica[r] EXCEPT !.pc = pc] = [pc |-> pc, next |-> next, todo |-> todo]
  BY <1>1 DEF ReplicaRow
<1>8. \A d : [replica[r] EXCEPT !.todo = d] = [pc |-> replica[r].pc, next |-> next, todo |-> d]
  BY <1>1 DEF ReplicaRow
<1>9. Start(r) => Moved(r, "lock", next, todo) BY GotoMoves DEF Start
<1>10. TakeLock(r) => Moved(r, "check", next, todo) BY GotoMoves DEF TakeLock
<1>11. CheckScript(r) =>
         /\ next > Scripts => Moved(r, "adopt", next, todo)
         /\ next <= schema => Moved(r, "check", next + 1, todo)
         /\ ~ (next > Scripts) /\ ~ (next <= schema) => Moved(r, "apply", next, todo)
  <2>. SUFFICES ASSUME CheckScript(r)
                PROVE  /\ next > Scripts => Moved(r, "adopt", next, todo)
                       /\ next <= schema => Moved(r, "check", next + 1, todo)
                       /\ ~ (next > Scripts) /\ ~ (next <= schema) => Moved(r, "apply", next, todo)
    OBVIOUS
  <2>0. schema <= Scripts /\ replica[r].pc = "check" BY <1>2 DEF TypeOK, CheckScript, At
  <2>1. CASE next > Scripts
    <3>1. Goto(r, "adopt") BY <2>1 DEF CheckScript
    <3>2. Moved(r, "adopt", next, todo) BY <3>1, GotoMoves
    <3>. QED BY <1>2, <2>0, <2>1, <3>2
  <2>2. CASE ~ (next > Scripts) /\ next <= schema
    <3>2. Moved(r, "check", next + 1, todo) BY <1>6, <2>0, <2>2 DEF CheckScript, Moved
    <3>. QED BY <2>2, <3>2
  <2>3. CASE ~ (next > Scripts) /\ ~ (next <= schema)
    <3>1. Moved(r, "apply", next, todo) BY <1>7, <2>3 DEF CheckScript, Moved
    <3>. QED BY <2>3, <3>1
  <2>. QED BY <2>1, <2>2, <2>3
<1>12. ApplyScript(r) => /\ next <= schema => Moved(r, "failed", next, todo)
                         /\ ~ (next <= schema) => Moved(r, "check", next + 1, todo)
  <2>1. ApplyScript(r) /\ next <= schema => Moved(r, "failed", next, todo)
    BY GotoMoves DEF ApplyScript
  <2>2. ApplyScript(r) /\ ~ (next <= schema) => Moved(r, "check", next + 1, todo)
    <3>. SUFFICES ASSUME ApplyScript(r), ~ (next <= schema) PROVE Moved(r, "check", next + 1, todo)
      OBVIOUS
    <3>1. replica' = [replica EXCEPT ![r] = [@ EXCEPT !.pc = "check", !.next = next + 1]]
      BY DEF ApplyScript
    <3>2. [replica[r] EXCEPT !.pc = "check", !.next = next + 1]
            = [pc |-> "check", next |-> next + 1, todo |-> todo]
      BY NextUpdate
    <3>. QED BY <3>1, <3>2 DEF Moved
  <2>. QED BY <2>1, <2>2
<1>13. AdoptProfile(r) => Moved(r, IF legacy \in {None, Dir[r]} THEN "templates" ELSE "failed",
                                next, todo)
  BY GotoMoves DEF AdoptProfile
<1>14. BootstrapTemplates(r) =>
         Moved(r, "reports", next, {x \in finished \cap Template : ~Recorded(x)})
  BY TodoUpdate DEF BootstrapTemplates, Moved
<1>15. BootstrapReports(r) =>
         Moved(r, "commit", next, todo \cup {x \in finished \cap Report : ~Recorded(x)})
  BY TodoUpdate DEF BootstrapReports, Moved
<1>16. CommitBootstrap(r) => Moved(r, "list", next, {}) BY TodoUpdate DEF CommitBootstrap, Moved
<1>17. PublishedArtifacts(r) => Moved(r, "sync", next, {x \in finished \cap Template : InLegacy(x)})
  BY TodoUpdate DEF PublishedArtifacts, Moved, InLegacy
<1>18. SyncTemplate(r) => \/ todo = {} /\ UNCHANGED stored /\ Moved(r, "serving", next, todo)
                          \/ \E x \in todo :
                               /\ stored' = [stored EXCEPT ![Dir[r]][x] = "good"]
                               /\ Moved(r, "sync", next, todo \ {x})
  <2>. SUFFICES ASSUME SyncTemplate(r)
                PROVE  \/ todo = {} /\ UNCHANGED stored /\ Moved(r, "serving", next, todo)
                       \/ \E x \in todo :
                            /\ stored' = [stored EXCEPT ![Dir[r]][x] = "good"]
                            /\ Moved(r, "sync", next, todo \ {x})
    OBVIOUS
  <2>1. CASE todo = {} /\ Goto(r, "serving") /\ UNCHANGED stored BY <2>1, GotoMoves
  <2>2. ASSUME NEW x \in todo,
               replica' = [replica EXCEPT ![r].todo = @ \ {x}]
        PROVE  Moved(r, "sync", next, todo \ {x})
    <3>1. replica[r].pc = "sync" BY DEF SyncTemplate, At
    <3>2. [replica[r] EXCEPT !.todo = todo \ {x}] = [pc |-> "sync", next |-> next, todo |-> todo \ {x}]
      BY <1>8, <3>1
    <3>. QED BY <2>2, <3>2 DEF Moved
  <2>. QED BY <2>1, <2>2 DEF SyncTemplate
<1>19. Crash(r) => Moved(r, "off", 1, {}) BY DEF Crash, Off, Moved
<1>. QED BY <1>9, <1>10, <1>11, <1>12, <1>13, <1>14, <1>15, <1>16, <1>17, <1>18, <1>19

\* Where each of them leads.
LEMMA Arrives ==
  ASSUME TypeOK, NEW r \in Replica
  PROVE  LET pc == replica'[r].pc IN
         /\ Start(r) => pc = "lock"
         /\ TakeLock(r) => pc = "check"
         /\ CheckScript(r) => pc \in {"adopt", "check", "apply"}
         /\ ApplyScript(r) => pc \in {"failed", "check"}
         /\ AdoptProfile(r) => pc = IF legacy \in {None, Dir[r]} THEN "templates" ELSE "failed"
         /\ BootstrapTemplates(r) => pc = "reports"
         /\ BootstrapReports(r) => pc = "commit"
         /\ CommitBootstrap(r) => pc = "list"
         /\ PublishedArtifacts(r) => pc = "sync"
         /\ SyncTemplate(r) => pc \in {"serving", "sync"}
         /\ Crash(r) => pc = "off"
<1>1. \A pc, next, todo : Moved(r, pc, next, todo) => replica'[r].pc = pc BY MovedFacts
<1>2. Start(r) => replica'[r].pc = "lock" BY <1>1, Moves
<1>3. TakeLock(r) => replica'[r].pc = "check" BY <1>1, Moves
<1>4. CheckScript(r) => replica'[r].pc \in {"adopt", "check", "apply"}
  <2>1. CheckScript(r) => \E pc \in {"adopt", "check", "apply"} : \E next, todo : Moved(r, pc, next, todo) BY Moves
  <2>. QED BY <1>1, <2>1
<1>5. ApplyScript(r) => replica'[r].pc \in {"failed", "check"}
  <2>1. ApplyScript(r) => \E pc \in {"failed", "check"} : \E next, todo : Moved(r, pc, next, todo) BY Moves
  <2>. QED BY <1>1, <2>1
<1>6. AdoptProfile(r) => replica'[r].pc = IF legacy \in {None, Dir[r]} THEN "templates" ELSE "failed"
  <2>1. AdoptProfile(r) => Moved(r, IF legacy \in {None, Dir[r]} THEN "templates" ELSE "failed",
                                 replica[r].next, replica[r].todo)
    BY Moves
  <2>. QED BY <1>1, <2>1
<1>7. BootstrapTemplates(r) => replica'[r].pc = "reports"
  <2>1. BootstrapTemplates(r) => \E next, todo : Moved(r, "reports", next, todo) BY Moves
  <2>. QED BY <1>1, <2>1
<1>8. BootstrapReports(r) => replica'[r].pc = "commit"
  <2>1. BootstrapReports(r) => \E next, todo : Moved(r, "commit", next, todo) BY Moves
  <2>. QED BY <1>1, <2>1
<1>9. CommitBootstrap(r) => replica'[r].pc = "list" BY <1>1, Moves
<1>10. PublishedArtifacts(r) => replica'[r].pc = "sync"
  <2>1. PublishedArtifacts(r) => \E next, todo : Moved(r, "sync", next, todo) BY Moves
  <2>. QED BY <1>1, <2>1
<1>11. SyncTemplate(r) => replica'[r].pc \in {"serving", "sync"}
  <2>1. SyncTemplate(r) => \E pc \in {"serving", "sync"} : \E next, todo : Moved(r, pc, next, todo) BY Moves
  <2>. QED BY <1>1, <2>1
<1>12. Crash(r) => replica'[r].pc = "off" BY <1>1, Moves
<1>. QED BY <1>2, <1>3, <1>4, <1>5, <1>6, <1>7, <1>8, <1>9, <1>10, <1>11, <1>12

-----------------------------------------------------------------------------
(* Initially.                                                              *)

LEMMA InitInv == Init => IInv
<1>. SUFFICES ASSUME Init PROVE IInv OBVIOUS
<1>1. TypeOK
  <2>1. replica \in [Replica -> [pc : PC, next : 1 .. Scripts + 1, todo : SUBSET Artifact]]
    BY StartupAssumption DEF Init, Off, PC
  <2>2. reader \in [by : Replica \cup {None}, of : Artifact \cup {None},
                    prefer : Profile \cup {None}, seen : [Profile -> Digest], todo : SUBSET Profile,
                    unreachable : SUBSET Profile, got : Bytes \cup {"error"}]
    BY DEF Init, Idle, Digest, Bytes
  <2>3. finished \subseteq Artifact BY StartupAssumption DEF Init, Artifact
  <2>4. schema \in 0 .. Scripts BY StartupAssumption DEF Init
  <2>5. stored \in [Location -> [Artifact -> Bytes]] BY DEF Init, Bytes
  <2>6. placement \in [Artifact -> [Profile -> Digest]] BY DEF Init, Digest
  <2>7. old \in {"none", "running", "stopped"} BY DEF Init
  <2>. QED BY <2>1, <2>2, <2>3, <2>4, <2>5, <2>6, <2>7, StartupAssumption DEF Init, TypeOK
<1>2. \A r \in Replica : replica[r].pc = "off" /\ replica[r].next = 1 BY DEF Init, Off
<1>3. \A r \in Replica : SchemaOk(r) /\ ProfileOk(r)
  BY <1>2 DEF SchemaOk, ProfileOk, At, Migrated, Adopted, Bootstrapping
<1>4. \A x \in Artifact : ~Recorded(x) /\ \A p \in Profile : placement[x][p] = "none"
  BY DEF Init, Recorded
<1>5. OldKept /\ NewRecorded
  <2>1. \A x \in finished : stored[OldDir][x] = "good"
    <3>1. OldDir \in Location /\ finished \subseteq Artifact
      BY <1>1, StartupAssumption DEF Location, TypeOK
    <3>. QED BY <3>1 DEF Init
  <2>2. old # "none" => BuiltIn \subseteq finished BY DEF Init
  <2>3. old = "none" => finished = {} BY DEF Init
  <2>. QED BY <2>1, <2>2, <2>3 DEF OldKept, NewRecorded, Good
<1>6. BuiltInKept
  <2>1. schema > 0 => BuiltIn \subseteq finished BY DEF Init
  <2>2. BuiltIn \subseteq Artifact BY StartupAssumption DEF Artifact
  <2>. QED BY <1>2, <1>4, <2>1, <2>2 DEF BuiltInKept, BuiltInOk, Adopted, At, Serving
<1>7. ReaderOk BY DEF Init, ReaderOk, Idle, Places
<1>. QED BY <1>1, <1>2, <1>3, <1>4, <1>5, <1>6, <1>7
  DEF IInv, StartInv, BytesInv, Unrecorded, TodoOk, PlacementOk

-----------------------------------------------------------------------------
(* The actions of a process that starts, and the others.                   *)

Process(r) ==
  \/ Start(r) \/ TakeLock(r) \/ CheckScript(r) \/ ApplyScript(r)
  \/ AdoptProfile(r) \/ BootstrapTemplates(r) \/ BootstrapReports(r) \/ CommitBootstrap(r)
  \/ PublishedArtifacts(r) \/ SyncTemplate(r) \/ Crash(r)

Other ==
  \/ \E r \in Replica :
       \/ \E p \in Profile : SetDefault(r, p)
       \/ \E x \in Artifact : \/ Write(r, x) \/ Copy(r, x)
                              \/ \E p \in Profile \cup {None} : BeginRead(r, x, p)
  \/ ReadLegacy \/ TryPlacement \/ GiveUp
  \/ StopOld
  \/ \E x \in Artifact : OldWrite(x) \/ \E l \in Location : Damage(l, x)
  \/ UNCHANGED vars

LEMMA StepKinds == [Next]_vars => (\E r \in Replica : Process(r)) \/ Other
BY DEF Next, Process, Other

LEMMA OtherLeaves ==
  Other => UNCHANGED <<replica, lock, schema, legacy>> /\ default' \in {default} \cup Profile
BY DEF Other, SetDefault, Write, Copy, BeginRead, ReadLegacy, TryPlacement, GiveUp, StopOld, OldWrite,
       Damage, tables, vars

\* What a step of a process leaves to the others.
LEMMA ProcessLeaves ==
  ASSUME StartInv, NEW r \in Replica, Process(r)
  PROVE  /\ \A q \in Replica : q # r => replica'[q] = replica[q]
         /\ lock' = lock \/ lock \in {r, None}
         /\ schema' = schema \/ (lock = r /\ schema < Scripts)
         /\ CommitBootstrap(r) \/ UNCHANGED <<legacy, default, placement>>
         /\ old' = old
<1>1. \A q \in Replica : q # r => replica'[q] = replica[q]
  <2>1. \E pc, next, todo : Moved(r, pc, next, todo) BY Moves DEF Process, StartInv
  <2>. QED BY <2>1, MovedFacts DEF StartInv
<1>2. SchemaOk(r) /\ schema \in Nat /\ Scripts \in Nat BY StartupAssumption DEF StartInv, TypeOK
<1>3. lock' = lock \/ lock \in {r, None}
  BY <1>2 DEF Process, Start, TakeLock, CheckScript, ApplyScript, AdoptProfile, BootstrapTemplates,
     BootstrapReports, CommitBootstrap, PublishedArtifacts, SyncTemplate, Crash, SchemaOk, At
<1>4. schema' = schema \/ (lock = r /\ schema < Scripts)
  <2>1. ApplyScript(r) => lock = r /\ schema < Scripts
    <3>1. replica[r].next \in Nat BY ReplicaTyped, StartupAssumption DEF StartInv, ReplicaRow
    <3>. QED BY <1>2, <3>1 DEF ApplyScript, SchemaOk, At
  <2>. QED BY <2>1 DEF Process, Start, TakeLock, CheckScript, AdoptProfile, BootstrapTemplates,
         BootstrapReports, CommitBootstrap, PublishedArtifacts, SyncTemplate, Crash
<1>5. (CommitBootstrap(r) \/ UNCHANGED <<legacy, default, placement>>) /\ old' = old
  BY DEF Process, Start, TakeLock, CheckScript, ApplyScript, AdoptProfile, BootstrapTemplates,
     BootstrapReports, CommitBootstrap, PublishedArtifacts, SyncTemplate, Crash, tables
<1>. QED BY <1>1, <1>3, <1>4, <1>5

-----------------------------------------------------------------------------
(* The scripts are applied by one process at a time, in order.             *)

LEMMA SchemaKept ==
  ASSUME StartInv, NEW r \in Replica, Process(r) PROVE SchemaOk(r)'
<1>. DEFINE next == replica[r].next
<1>1. /\ TypeOK /\ SchemaOk(r) /\ next \in Nat /\ next <= Scripts + 1
      /\ schema \in Nat /\ schema <= Scripts /\ Scripts \in Nat
  BY ReplicaTyped, StartupAssumption DEF StartInv, TypeOK, ReplicaRow
<1>. USE DEF SchemaOk, At, Migrated
<1>2. CASE Start(r)
  <2>. Moved(r, "lock", next, replica[r].todo) BY Moves, <1>1, <1>2
  <2>1. replica'[r].pc = "lock" /\ replica'[r].next = next BY MovedFacts, <1>1
  <2>. QED BY <1>1, <1>2, <2>1 DEF Start
<1>3. CASE TakeLock(r)
  <2>. Moved(r, "check", next, replica[r].todo) BY Moves, <1>1, <1>3
  <2>1. replica'[r].pc = "check" /\ replica'[r].next = next BY MovedFacts, <1>1
  <2>. QED BY <1>1, <1>3, <2>1 DEF TakeLock
<1>4. CASE CheckScript(r)
  <2>1. CASE next > Scripts
    <3>1. Moved(r, "adopt", next, replica[r].todo) BY Moves, <1>1, <1>4, <2>1
    <3>2. replica'[r].pc = "adopt" /\ replica'[r].next = next BY MovedFacts, <1>1, <3>1
    <3>. QED BY <1>1, <1>4, <2>1, <3>2 DEF CheckScript
  <2>2. CASE ~ (next > Scripts) /\ next <= schema
    <3>1. Moved(r, "check", next + 1, replica[r].todo) BY Moves, <1>1, <1>4, <2>2
    <3>2. replica'[r].pc = "check" /\ replica'[r].next = next + 1 BY MovedFacts, <1>1, <3>1
    <3>. QED BY <1>1, <1>4, <2>2, <3>2 DEF CheckScript
  <2>3. CASE ~ (next > Scripts) /\ ~ (next <= schema)
    <3>1. Moved(r, "apply", next, replica[r].todo) BY Moves, <1>1, <1>4, <2>3
    <3>2. replica'[r].pc = "apply" /\ replica'[r].next = next BY MovedFacts, <1>1, <3>1
    <3>. QED BY <1>1, <1>4, <2>3, <3>2 DEF CheckScript
  <2>. QED BY <2>1, <2>2, <2>3
<1>5. CASE ApplyScript(r)
  <2>0. ~ (next <= schema) /\ lock = r BY <1>1, <1>5 DEF ApplyScript
  <2>1. Moved(r, "check", next + 1, replica[r].todo) BY Moves, <1>1, <1>5, <2>0
  <2>2. replica'[r].pc = "check" /\ replica'[r].next = next + 1 BY MovedFacts, <1>1, <2>1
  <2>3. schema' = next /\ lock' = lock BY <1>5, <2>0 DEF ApplyScript
  <2>. HIDE DEF next
  <2>. QED BY <1>1, <2>0, <2>2, <2>3
<1>6. CASE Crash(r)
  <2>. Moved(r, "off", 1, {}) BY Moves, <1>1, <1>6
  <2>1. replica'[r].pc = "off" /\ replica'[r].next = 1 BY MovedFacts, <1>1
  <2>. QED BY <2>1
<1>7. CASE AdoptProfile(r)
  <2>. Moved(r, IF legacy \in {None, Dir[r]} THEN "templates" ELSE "failed", next, replica[r].todo)
    BY Moves, <1>1, <1>7
  <2>1. replica'[r].pc \in {"templates", "failed"} BY MovedFacts, <1>1
  <2>. QED BY <1>1, <1>7, <2>1 DEF AdoptProfile
<1>8. CASE BootstrapTemplates(r) \/ BootstrapReports(r) \/ CommitBootstrap(r)
           \/ PublishedArtifacts(r) \/ SyncTemplate(r)
  <2>0. \E pc \in {"reports", "commit", "list", "sync", "serving"} : \E todo : Moved(r, pc, next, todo)
    BY Moves, <1>1, <1>8
  <2>1. replica'[r].pc \in {"reports", "commit", "list", "sync", "serving"} BY MovedFacts, <1>1, <2>0
  <2>2. replica[r].pc \in Migrated /\ schema' = schema
    BY <1>8 DEF BootstrapTemplates, BootstrapReports, CommitBootstrap, PublishedArtifacts, SyncTemplate
  <2>3. schema = Scripts BY <1>1, <2>2
  <2>. QED BY <2>1, <2>2, <2>3
<1>. QED BY <1>2, <1>3, <1>4, <1>5, <1>6, <1>7, <1>8 DEF Process

LEMMA SchemaStep == ASSUME StartInv, [Next]_vars, NEW q \in Replica PROVE SchemaOk(q)'
<1>1. SchemaOk(q) /\ q # None BY StartupAssumption DEF StartInv
<1>2. CASE Other BY <1>1, <1>2, OtherLeaves DEF SchemaOk, At
<1>3. ASSUME NEW r \in Replica, Process(r), r # q PROVE SchemaOk(q)'
  <2>1. replica'[q] = replica[q] BY <1>3, ProcessLeaves
  <2>2. replica[q].pc \in {"check", "apply"} => lock = q BY <1>1 DEF SchemaOk
  <2>3. lock = q => lock' = q /\ schema' = schema BY <1>1, <1>3, ProcessLeaves
  <2>4. schema = Scripts => schema' = schema
    BY <1>3, ProcessLeaves, StartupAssumption DEF StartInv, TypeOK
  <2>. QED BY <1>1, <2>1, <2>2, <2>3, <2>4 DEF SchemaOk, At
<1>. QED BY <1>2, <1>3, SchemaKept, StepKinds

-----------------------------------------------------------------------------
(* The legacy profile is made once, by one process.                        *)

\* What CommitBootstrap leaves of the profile.
LEMMA CommitFacts ==
  ASSUME StartInv, NEW r \in Replica, CommitBootstrap(r)
  PROVE  /\ legacy' = Dir[r] /\ default' # None
         /\ legacy \in {None, Dir[r]} /\ legacy' \in Directory
         /\ legacy = None => \A q \in Replica : q # r => ~Bootstrapping(q)
<1>1. ProfileOk(r) /\ Bootstrapping(r)
  BY DEF StartInv, CommitBootstrap, At, Bootstrapping
<1>2. Dir[r] \in Directory /\ None \notin Directory \cup Profile /\ "legacy" \in Profile
  BY StartupAssumption DEF Location, Profile
<1>. QED BY <1>1, <1>2 DEF ProfileOk, CommitBootstrap

LEMMA LegacyFixed ==
  ASSUME StartInv, [Next]_vars PROVE legacy # None => legacy' = legacy
<1>1. CASE Other BY <1>1, OtherLeaves
<1>2. ASSUME NEW r \in Replica, Process(r) PROVE legacy # None => legacy' = legacy
  BY <1>2, ProcessLeaves, CommitFacts
<1>. QED BY <1>1, <1>2, StepKinds

LEMMA ProfileKept ==
  ASSUME StartInv, NEW r \in Replica, Process(r) PROVE ProfileOk(r)'
<1>1. TypeOK /\ ProfileOk(r) BY DEF StartInv
<1>2. \A q \in Replica : q # r => replica'[q] = replica[q] BY ProcessLeaves
<1>3. \A pc, next, todo : Moved(r, pc, next, todo) => replica'[r].pc = pc BY <1>1, MovedFacts
<1>. USE DEF ProfileOk, At, Bootstrapping, Adopted
<1>4. CASE Start(r) \/ TakeLock(r) \/ CheckScript(r) \/ Crash(r)
  <2>1. replica'[r].pc \in {"lock", "check", "adopt", "apply", "off"} BY <1>1, <1>4, Arrives
  <2>. QED BY <2>1
<1>5. CASE ApplyScript(r)
  <2>1. ~ (replica[r].next <= schema)
    <3>1. replica[r].next \in Nat /\ schema \in Nat
      BY <1>1, ReplicaTyped, StartupAssumption DEF ReplicaRow, TypeOK
    <3>2. replica[r].next > schema BY <1>5 DEF ApplyScript, StartInv, SchemaOk
    <3>. QED BY <3>1, <3>2
  <2>2. Moved(r, "check", replica[r].next + 1, replica[r].todo) BY <1>1, <1>5, <2>1, Moves
  <2>3. replica'[r].pc = "check" BY <1>3, <2>2
  <2>. QED BY <2>3
<1>6. CASE AdoptProfile(r)
  <2>1. Moved(r, IF legacy \in {None, Dir[r]} THEN "templates" ELSE "failed",
              replica[r].next, replica[r].todo)
    BY <1>1, <1>6, Moves
  <2>2. replica'[r].pc = IF legacy \in {None, Dir[r]} THEN "templates" ELSE "failed"
    BY <1>3, <2>1
  <2>3. legacy' = legacy /\ (legacy = None => \A q \in Replica : q # r => ~Bootstrapping(q)')
    BY <1>2, <1>6 DEF AdoptProfile, tables
  <2>. QED BY <2>2, <2>3
<1>7. CASE BootstrapTemplates(r) \/ BootstrapReports(r)
  <2>1. replica'[r].pc \in {"reports", "commit"} BY <1>1, <1>7, Arrives
  <2>2. legacy' = legacy /\ Bootstrapping(r)
    BY <1>7 DEF BootstrapTemplates, BootstrapReports, tables
  <2>. QED BY <1>1, <1>2, <2>1, <2>2
<1>8. CASE CommitBootstrap(r)
  <2>1. replica'[r].pc = "list" BY <1>1, <1>3, <1>8, Moves
  <2>. QED BY <1>8, <2>1, CommitFacts
<1>9. CASE PublishedArtifacts(r) \/ SyncTemplate(r)
  <2>1. replica'[r].pc \in {"sync", "serving"} BY <1>1, <1>9, Arrives
  <2>2. UNCHANGED <<legacy, default>> /\ replica[r].pc \in Adopted
    BY <1>9 DEF PublishedArtifacts, SyncTemplate, tables
  <2>. QED BY <1>1, <2>1, <2>2
<1>. QED BY <1>4, <1>5, <1>6, <1>7, <1>8, <1>9 DEF Process

LEMMA ProfileStep == ASSUME StartInv, [Next]_vars, NEW q \in Replica PROVE ProfileOk(q)'
<1>0. ProfileOk(q) /\ None \notin Profile /\ Dir[q] # None
  BY StartupAssumption DEF StartInv, Location
<1>1. CASE Other
  <2>1. UNCHANGED <<replica, legacy>> /\ default' \in {default} \cup Profile BY <1>1, OtherLeaves
  <2>. QED BY <1>0, <2>1 DEF ProfileOk, At, Bootstrapping, Adopted
<1>2. ASSUME NEW r \in Replica, Process(r), r # q PROVE ProfileOk(q)'
  <2>1. replica'[q] = replica[q] /\ \A s \in Replica : s # r => replica'[s] = replica[s]
    BY <1>2, ProcessLeaves
  <2>2. CASE CommitBootstrap(r)
    <3>1. /\ legacy' = Dir[r] /\ default' # None /\ legacy \in {None, Dir[r]} /\ Dir[r] # None
          /\ legacy = None => ~Bootstrapping(q)
      BY <1>2, <2>2, CommitFacts, StartupAssumption DEF Location
    <3>2. (At(q, "failed") \/ replica[q].pc \in Adopted) => legacy # None BY <1>0 DEF ProfileOk
    <3>. QED BY <1>0, <2>1, <3>1, <3>2 DEF ProfileOk, At, Bootstrapping, Adopted
  <2>3. CASE ~CommitBootstrap(r)
    <3>1. UNCHANGED <<legacy, default>> BY <1>2, <2>3, ProcessLeaves
    <3>2. legacy = None /\ Bootstrapping(q) => ~Bootstrapping(r)' /\ ~Bootstrapping(r)
      <4>1. SUFFICES ASSUME legacy = None, Bootstrapping(q) PROVE ~Bootstrapping(r)' /\ ~Bootstrapping(r)
        OBVIOUS
      <4>2. ~Bootstrapping(r) BY <1>0, <1>2, <4>1 DEF ProfileOk
      <4>3. ProfileOk(r)' BY <1>2, ProfileKept
      <4>4. Bootstrapping(q)' /\ legacy' = None BY <2>1, <3>1, <4>1 DEF Bootstrapping
      <4>5. Dir[r] # None BY StartupAssumption DEF Location
      <4>. QED BY <1>2, <4>2, <4>3, <4>4, <4>5 DEF ProfileOk
    <3>. QED BY <1>0, <2>1, <3>1, <3>2 DEF ProfileOk, At, Bootstrapping, Adopted
  <2>. QED BY <2>2, <2>3
<1>. QED BY <1>1, <1>2, ProfileKept, StepKinds

-----------------------------------------------------------------------------
(* Types.                                                                  *)

ReaderRow == [by : Replica \cup {None}, of : Artifact \cup {None}, prefer : Profile \cup {None},
              seen : [Profile -> Digest], todo : SUBSET Profile, unreachable : SUBSET Profile,
              got : Bytes \cup {"error"}]

LEMMA ReaderTyped == ASSUME TypeOK PROVE reader \in ReaderRow
BY DEF TypeOK, ReaderRow

LEMMA BytesThere ==
  ASSUME TypeOK, NEW l \in Location, NEW x \in Artifact PROVE stored[l][x] \in Bytes
BY DEF TypeOK

\* A process that serves knows where each profile is.
LEMMA ServingWhere ==
  ASSUME StartInv, NEW r \in Replica, replica[r].pc \in Adopted
  PROVE  /\ legacy = Dir[r] /\ default # None /\ schema = Scripts
         /\ \A p \in Profile : Where(p) \in Location
<1>1. legacy = Dir[r] /\ default # None BY DEF StartInv, ProfileOk
<1>2. schema = Scripts BY DEF StartInv, SchemaOk, Adopted, Migrated
<1>. QED BY <1>1, <1>2, StartupAssumption DEF Where, Location

LEMMA ReaderWhere ==
  ASSUME ReaderOk, TypeOK, reader.by # None
  PROVE  /\ reader.by \in Replica /\ reader.of \in Artifact /\ legacy = Dir[reader.by]
         /\ Dir[reader.by] \in Location /\ \A p \in Profile : Where(p) \in Location
<1>1. reader.by \in Replica /\ reader.of \in Artifact BY ReaderTyped DEF ReaderRow, ReaderOk
<1>2. legacy = Dir[reader.by] BY DEF ReaderOk
<1>. QED BY <1>1, <1>2, StartupAssumption DEF Where, Location

\* A read that goes on: it has less to try, or an answer.
LEMMA ReaderMoves ==
  ASSUME ReaderOk, TypeOK
  PROVE  /\ ReadLegacy =>
              LET bytes == stored[Dir[reader.by]][reader.of] IN
              /\ reader' = [reader EXCEPT !.got = reader'.got]
              /\ Reading /\ Places = {} /\ bytes \in Bytes
              /\ \/ reader'.got = bytes /\ bytes # "none" /\ Matches(bytes, Expected(reader.of))
                 \/ /\ reader'.got = "error"
                    /\ bytes = "none" \/ ~Matches(bytes, Expected(reader.of))
         /\ TryPlacement => \E p \in reader.todo :
              LET bytes == stored[Where(p)][reader.of] IN
              /\ Reading /\ bytes \in Bytes
              /\ \/ reader' = [reader EXCEPT !.todo = @ \ {p}, !.unreachable = @ \cup {p}]
                 \/ /\ reader' = [reader EXCEPT !.todo = @ \ {p}]
                    /\ \/ bytes = "none" \/ ~Matches(bytes, reader.seen[p])
                       \/ ~Matches(bytes, Expected(reader.of))
                 \/ /\ reader' = [reader EXCEPT !.got = bytes]
                    /\ bytes # "none" /\ Matches(bytes, reader.seen[p])
                    /\ Matches(bytes, Expected(reader.of))
         /\ GiveUp => reader' = [reader EXCEPT !.got = "error"] /\ Reading /\ reader.todo = {}
<1>1. reader \in ReaderRow BY ReaderTyped
<1>2. Reading => /\ reader.by \in Replica /\ reader.of \in Artifact /\ Dir[reader.by] \in Location
                 /\ \A p \in Profile : Where(p) \in Location
  BY ReaderWhere DEF Reading
<1>3. ASSUME ReadLegacy
      PROVE  LET bytes == stored[Dir[reader.by]][reader.of] IN
             /\ reader' = [reader EXCEPT !.got = reader'.got]
             /\ Reading /\ Places = {} /\ bytes \in Bytes
             /\ \/ reader'.got = bytes /\ bytes # "none" /\ Matches(bytes, Expected(reader.of))
                \/ /\ reader'.got = "error"
                   /\ bytes = "none" \/ ~Matches(bytes, Expected(reader.of))
  <2>. DEFINE bytes == stored[Dir[reader.by]][reader.of]
              got == IF bytes = "none" \/ ~Matches(bytes, Expected(reader.of)) THEN "error" ELSE bytes
  <2>1. Reading /\ Places = {} /\ reader' = [reader EXCEPT !.got = got]
    BY <1>3 DEF ReadLegacy, Places
  <2>2. bytes \in Bytes BY <1>2, <2>1, BytesThere
  <2>3. got = bytes \/ got = "error" OBVIOUS
  <2>. HIDE DEF got
  <2>4. reader'.got = got BY <1>1, <2>1 DEF ReaderRow
  <2>5. reader' = [reader EXCEPT !.got = reader'.got] BY <2>1, <2>4
  <2>. QED BY <2>1, <2>2, <2>4, <2>5 DEF got
<1>4. ASSUME TryPlacement
      PROVE  \E p \in reader.todo :
               LET bytes == stored[Where(p)][reader.of] IN
               /\ Reading /\ bytes \in Bytes
               /\ \/ reader' = [reader EXCEPT !.todo = @ \ {p}, !.unreachable = @ \cup {p}]
                  \/ /\ reader' = [reader EXCEPT !.todo = @ \ {p}]
                     /\ \/ bytes = "none" \/ ~Matches(bytes, reader.seen[p])
                        \/ ~Matches(bytes, Expected(reader.of))
                  \/ /\ reader' = [reader EXCEPT !.got = bytes]
                     /\ bytes # "none" /\ Matches(bytes, reader.seen[p])
                     /\ Matches(bytes, Expected(reader.of))
  <2>1. PICK p \in reader.todo :
          LET bytes == stored[Where(p)][reader.of] IN
          \/ reader' = [reader EXCEPT !.todo = @ \ {p}, !.unreachable = @ \cup {p}]
          \/ reader' = IF /\ bytes # "none" /\ Matches(bytes, reader.seen[p])
                          /\ Matches(bytes, Expected(reader.of))
                         THEN [reader EXCEPT !.got = bytes] ELSE [reader EXCEPT !.todo = @ \ {p}]
    BY <1>4 DEF TryPlacement
  <2>2. Reading BY <1>4 DEF TryPlacement
  <2>3. p \in Profile BY <1>1 DEF ReaderRow
  <2>4. stored[Where(p)][reader.of] \in Bytes BY <1>2, <2>2, <2>3, BytesThere
  <2>. QED BY <2>1, <2>2, <2>4
<1>5. GiveUp => reader' = [reader EXCEPT !.got = "error"] /\ Reading /\ reader.todo = {}
  BY DEF GiveUp
<1>. QED BY <1>3, <1>4, <1>5

\* Which actions change what.
LEMMA Changes ==
  ASSUME [Next]_vars
  PROVE  /\ \/ UNCHANGED finished
            \/ \E r \in Replica : ApplyScript(r) \/ \E x \in Artifact : Write(r, x)
            \/ \E x \in Artifact : OldWrite(x)
         /\ \/ UNCHANGED placement
            \/ \E r \in Replica : CommitBootstrap(r) \/ \E x \in Artifact : Write(r, x) \/ Copy(r, x)
         /\ \/ UNCHANGED stored
            \/ \E r \in Replica : SyncTemplate(r) \/ \E x \in Artifact : Write(r, x) \/ Copy(r, x)
            \/ \E x \in Artifact : OldWrite(x) \/ \E l \in Location : Damage(l, x)
         /\ \/ UNCHANGED hurt
            \/ \E r \in Replica, x \in Artifact : Copy(r, x)
            \/ \E x \in Artifact, l \in Location : Damage(l, x)
         /\ \/ UNCHANGED reader
            \/ \E r \in Replica : Crash(r) \/ \E x \in Artifact, p \in Profile \cup {None} : BeginRead(r, x, p)
            \/ ReadLegacy \/ TryPlacement \/ GiveUp
         /\ old' \in {old, "stopped"} /\ (old = "none" <=> old' = "none")
         /\ faults' = faults \/ SpendFault
<1>1. CASE \E r \in Replica : Start(r) \/ TakeLock(r) \/ CheckScript(r) \/ ApplyScript(r)
  BY <1>1 DEF Start, TakeLock, CheckScript, ApplyScript, tables
<1>2. CASE \E r \in Replica : AdoptProfile(r) \/ BootstrapTemplates(r) \/ BootstrapReports(r) \/ CommitBootstrap(r)
  BY <1>2 DEF AdoptProfile, BootstrapTemplates, BootstrapReports, CommitBootstrap, tables
<1>3. CASE \E r \in Replica : PublishedArtifacts(r) \/ SyncTemplate(r) \/ Crash(r)
  BY <1>3 DEF PublishedArtifacts, SyncTemplate, Crash, tables
<1>4. ASSUME NEW r \in Replica, NEW x \in Artifact,
             \/ \E p \in Profile : SetDefault(r, p)
             \/ Write(r, x) \/ Copy(r, x) \/ \E p \in Profile \cup {None} : BeginRead(r, x, p)
      PROVE  /\ UNCHANGED <<old, faults>>
             /\ UNCHANGED finished \/ Write(r, x)
             /\ UNCHANGED <<placement, stored>> \/ Write(r, x) \/ Copy(r, x)
             /\ UNCHANGED hurt \/ Copy(r, x)
             /\ UNCHANGED reader \/ \E p \in Profile \cup {None} : BeginRead(r, x, p)
  BY <1>4 DEF SetDefault, Write, Copy, BeginRead, tables
<1>5. CASE \E r \in Replica, p \in Profile : SetDefault(r, p) BY <1>5 DEF SetDefault
<1>6. CASE ReadLegacy \/ TryPlacement \/ GiveUp BY <1>6 DEF ReadLegacy, TryPlacement, GiveUp, tables
<1>7. CASE StopOld \/ UNCHANGED vars BY <1>7 DEF StopOld, tables, vars
<1>8. CASE \E x \in Artifact : OldWrite(x) \/ \E l \in Location : Damage(l, x)
  BY <1>8 DEF OldWrite, Damage, tables
<1>. QED BY <1>1, <1>2, <1>3, <1>4, <1>5, <1>6, <1>7, <1>8 DEF Next

LEMMA ReplicaTypeStep ==
  ASSUME StartInv, [Next]_vars PROVE replica' \in [Replica -> ReplicaRow]
<1>1. TypeOK BY DEF StartInv
<1>2. CASE Other BY <1>1, <1>2, OtherLeaves, ReplicaTyped
<1>3. ASSUME NEW r \in Replica, Process(r) PROVE replica' \in [Replica -> ReplicaRow]
  <2>. DEFINE next == replica[r].next
              todo == replica[r].todo
  <2>1. /\ next \in 1 .. Scripts + 1 /\ todo \in SUBSET Artifact /\ next \in Nat
        /\ Scripts \in Nat \ {0} /\ schema \in Nat /\ schema <= Scripts /\ finished \subseteq Artifact
    BY <1>1, ReplicaTyped, StartupAssumption DEF ReplicaRow, TypeOK
  <2>2. ASSUME NEW pc \in PC, NEW n \in 1 .. Scripts + 1, NEW d \in SUBSET Artifact, Moved(r, pc, n, d)
        PROVE  replica' \in [Replica -> ReplicaRow]
    BY <1>1, <2>2, MovedFacts
  <2>3. CASE Start(r) \/ TakeLock(r) \/ AdoptProfile(r)
    <3>1. \E pc \in PC : Moved(r, pc, next, todo)
      <4>1. CASE Start(r) BY <1>1, <4>1, Moves DEF PC
      <4>2. CASE TakeLock(r) BY <1>1, <4>2, Moves DEF PC
      <4>3. CASE AdoptProfile(r)
        <5>1. Moved(r, IF legacy \in {None, Dir[r]} THEN "templates" ELSE "failed", next, todo)
          BY <1>1, <4>3, Moves
        <5>. QED BY <5>1 DEF PC
      <4>. QED BY <2>3, <4>1, <4>2, <4>3
    <3>. QED BY <2>1, <2>2, <3>1
  <2>4. CASE CheckScript(r) \/ ApplyScript(r)
    <3>1. CASE next > Scripts
      <4>1. ~ApplyScript(r)
        <5>1. ApplyScript(r) => next <= Scripts BY DEF ApplyScript, StartInv, SchemaOk
        <5>. QED BY <2>1, <3>1, <5>1
      <4>2. Moved(r, "adopt", next, todo) BY <1>1, <2>4, <3>1, <4>1, Moves
      <4>. QED BY <2>1, <2>2, <4>2 DEF PC
    <3>2. CASE ~ (next > Scripts)
      <4>1. next + 1 \in 1 .. Scripts + 1 BY <2>1, <3>2
      <4>2. \E pc \in PC, n \in {next, next + 1} : Moved(r, pc, n, todo)
        <5>1. CASE CheckScript(r) /\ next <= schema BY <1>1, <5>1, Moves DEF PC
        <5>2. CASE CheckScript(r) /\ ~ (next <= schema) BY <1>1, <3>2, <5>2, Moves DEF PC
        <5>3. CASE ApplyScript(r) /\ next <= schema BY <1>1, <5>3, Moves DEF PC
        <5>4. CASE ApplyScript(r) /\ ~ (next <= schema) BY <1>1, <5>4, Moves DEF PC
        <5>. QED BY <2>4, <5>1, <5>2, <5>3, <5>4
      <4>. QED BY <2>1, <2>2, <4>1, <4>2
    <3>. QED BY <3>1, <3>2
  <2>5. CASE BootstrapTemplates(r) \/ BootstrapReports(r) \/ CommitBootstrap(r) \/ PublishedArtifacts(r)
    <3>1. \E pc \in PC, d \in SUBSET Artifact : Moved(r, pc, next, d)
      <4>1. CASE BootstrapTemplates(r)
        <5>1. Moved(r, "reports", next, {x \in finished \cap Template : ~Recorded(x)}) BY <1>1, <4>1, Moves
        <5>2. {x \in finished \cap Template : ~Recorded(x)} \in SUBSET Artifact BY <2>1
        <5>. QED BY <5>1, <5>2 DEF PC
      <4>2. CASE BootstrapReports(r)
        <5>1. Moved(r, "commit", next, todo \cup {x \in finished \cap Report : ~Recorded(x)})
          BY <1>1, <4>2, Moves
        <5>2. todo \cup {x \in finished \cap Report : ~Recorded(x)} \in SUBSET Artifact BY <2>1
        <5>. QED BY <5>1, <5>2 DEF PC
      <4>3. CASE CommitBootstrap(r)
        <5>1. Moved(r, "list", next, {}) BY <1>1, <4>3, Moves
        <5>. QED BY <5>1 DEF PC
      <4>4. CASE PublishedArtifacts(r)
        <5>1. Moved(r, "sync", next, {x \in finished \cap Template : InLegacy(x)}) BY <1>1, <4>4, Moves
        <5>2. {x \in finished \cap Template : InLegacy(x)} \in SUBSET Artifact BY <2>1
        <5>. QED BY <5>1, <5>2 DEF PC
      <4>. QED BY <2>5, <4>1, <4>2, <4>3, <4>4
    <3>. QED BY <2>1, <2>2, <3>1
  <2>6. CASE SyncTemplate(r)
    <3>1. \/ Moved(r, "serving", next, todo) \/ \E x \in todo : Moved(r, "sync", next, todo \ {x})
      BY <1>1, <2>6, Moves
    <3>2. \A x : todo \ {x} \in SUBSET Artifact BY <2>1
    <3>3. \E pc \in PC, d \in SUBSET Artifact : Moved(r, pc, next, d) BY <2>1, <3>1, <3>2 DEF PC
    <3>. QED BY <2>1, <2>2, <3>3
  <2>7. CASE Crash(r)
    <3>1. Moved(r, "off", 1, {}) BY <1>1, <2>7, Moves
    <3>2. 1 \in 1 .. Scripts + 1 BY <2>1
    <3>. QED BY <2>2, <3>1, <3>2 DEF PC
  <2>. QED BY <1>3, <2>3, <2>4, <2>5, <2>6, <2>7 DEF Process
<1>. QED BY <1>2, <1>3, StepKinds

LEMMA BeginReadMoves ==
  ASSUME NEW r, NEW x, NEW p, BeginRead(r, x, p)
  PROVE  reader' = [by |-> r, of |-> x, prefer |-> p, seen |-> placement[x],
                    todo |-> {q \in Profile : placement[x][q] # "none"}, unreachable |-> {},
                    got |-> "none"]
<1>. DEFINE todo == {q \in Profile : placement[x][q] # "none"}
            seen == placement[x]
            none == [q \in Profile |-> "none"]
            start == [by |-> None, of |-> None, prefer |-> None, seen |-> none,
                      todo |-> {}, unreachable |-> {}, got |-> "none"]
<1>1. Idle = start BY DEF Idle
<1>2. reader' = [Idle EXCEPT !.by = r, !.of = x, !.prefer = p, !.seen = seen, !.todo = todo]
  BY DEF BeginRead
<1>. HIDE DEF todo, seen, none
<1>. DEFINE one   == [start EXCEPT !.by = r]
            two   == [one EXCEPT !.of = x]
            three == [two EXCEPT !.prefer = p]
            four  == [three EXCEPT !.seen = seen]
            five  == [four EXCEPT !.todo = todo]
<1>3. reader' = five BY <1>1, <1>2
<1>4. one = [by |-> r, of |-> None, prefer |-> None, seen |-> none, todo |-> {}, unreachable |-> {},
             got |-> "none"]
  OBVIOUS
<1>. HIDE DEF one
<1>5. two = [by |-> r, of |-> x, prefer |-> None, seen |-> none, todo |-> {}, unreachable |-> {},
             got |-> "none"]
  BY <1>4
<1>. HIDE DEF two
<1>6. three = [by |-> r, of |-> x, prefer |-> p, seen |-> none, todo |-> {}, unreachable |-> {},
               got |-> "none"]
  BY <1>5
<1>. HIDE DEF three
<1>7. four = [by |-> r, of |-> x, prefer |-> p, seen |-> seen, todo |-> {}, unreachable |-> {},
              got |-> "none"]
  BY <1>6
<1>. HIDE DEF four
<1>8. five = [by |-> r, of |-> x, prefer |-> p, seen |-> seen, todo |-> todo, unreachable |-> {},
              got |-> "none"]
  BY <1>7
<1>. HIDE DEF five
<1>. QED BY <1>3, <1>8 DEF todo, seen

\* A placement whose profile cannot be reached is passed over.
LEMMA PassOver ==
  ASSUME TypeOK, NEW todo, NEW unreachable
  PROVE  [reader EXCEPT !.todo = todo, !.unreachable = unreachable]
           = [by |-> reader.by, of |-> reader.of, prefer |-> reader.prefer, seen |-> reader.seen,
              todo |-> todo, unreachable |-> unreachable, got |-> reader.got]
<1>. DEFINE one == [reader EXCEPT !.todo = todo]
            two == [one EXCEPT !.unreachable = unreachable]
<1>1. one = [by |-> reader.by, of |-> reader.of, prefer |-> reader.prefer, seen |-> reader.seen,
             todo |-> todo, unreachable |-> reader.unreachable, got |-> reader.got]
  BY ReaderTyped DEF ReaderRow
<1>. HIDE DEF one
<1>2. two = [by |-> reader.by, of |-> reader.of, prefer |-> reader.prefer, seen |-> reader.seen,
             todo |-> todo, unreachable |-> unreachable, got |-> reader.got]
  BY <1>1
<1>. QED BY <1>2 DEF one

LEMMA ReaderTypeStep ==
  ASSUME StartInv, ReaderOk, [Next]_vars PROVE reader' \in ReaderRow
<1>1. TypeOK /\ reader \in ReaderRow BY ReaderTyped DEF StartInv
<1>2. CASE UNCHANGED reader BY <1>1, <1>2
<1>3. ASSUME NEW r \in Replica, Crash(r) PROVE reader' \in ReaderRow
  <2>1. Idle \in ReaderRow BY DEF Idle, ReaderRow, Digest, Bytes
  <2>. QED BY <1>1, <1>3, <2>1 DEF Crash
<1>4. ASSUME NEW r \in Replica, NEW x \in Artifact, NEW p \in Profile \cup {None}, BeginRead(r, x, p)
      PROVE  reader' \in ReaderRow
  <2>1. placement[x] \in [Profile -> Digest] BY <1>1 DEF TypeOK
  <2>2. {q \in Profile : placement[x][q] # "none"} \in SUBSET Profile OBVIOUS
  <2>. QED BY <1>4, <2>1, <2>2, BeginReadMoves DEF ReaderRow, Bytes
<1>5. CASE ReadLegacy
  <2>1. reader' = [reader EXCEPT !.got = reader'.got] /\ reader'.got \in Bytes \cup {"error"}
    BY <1>1, <1>5, ReaderMoves
  <2>. QED BY <1>1, <2>1 DEF ReaderRow
<1>6. CASE TryPlacement
  <2>1. PICK p \in reader.todo :
          \/ reader' = [reader EXCEPT !.todo = @ \ {p}, !.unreachable = @ \cup {p}]
          \/ reader' = [reader EXCEPT !.todo = @ \ {p}]
          \/ \E bytes \in Bytes : reader' = [reader EXCEPT !.got = bytes]
    BY <1>1, <1>6, ReaderMoves
  <2>. DEFINE todo        == reader.todo \ {p}
              unreachable == reader.unreachable \cup {p}
  <2>2. /\ todo \in SUBSET Profile /\ unreachable \in SUBSET Profile
        /\ [reader EXCEPT !.todo = todo] \in ReaderRow
        /\ \A bytes \in Bytes : [reader EXCEPT !.got = bytes] \in ReaderRow
    BY <1>1 DEF ReaderRow
  <2>3. CASE reader' = [reader EXCEPT !.todo = todo, !.unreachable = unreachable]
    <3>. HIDE DEF todo, unreachable
    <3>1. reader' = [by |-> reader.by, of |-> reader.of, prefer |-> reader.prefer, seen |-> reader.seen,
                     todo |-> todo, unreachable |-> unreachable, got |-> reader.got]
      BY <1>1, <2>3, PassOver
    <3>. QED BY <1>1, <2>2, <3>1 DEF ReaderRow
  <2>. QED BY <2>1, <2>2, <2>3
<1>7. CASE GiveUp
  <2>1. reader' = [reader EXCEPT !.got = "error"] BY <1>1, <1>7, ReaderMoves
  <2>. QED BY <1>1, <2>1 DEF ReaderRow
<1>. QED BY <1>2, <1>3, <1>4, <1>5, <1>6, <1>7, Changes

Stores(l, x, bytes) == stored' = [stored EXCEPT ![l][x] = bytes]

LEMMA StoredAt ==
  ASSUME TypeOK, NEW l \in Location, NEW x \in Artifact, NEW bytes \in Bytes, Stores(l, x, bytes)
  PROVE  /\ stored' \in [Location -> [Artifact -> Bytes]]
         /\ \A m \in Location, y \in Artifact :
              stored'[m][y] = IF m = l /\ y = x THEN bytes ELSE stored[m][y]
BY DEF TypeOK, Stores

\* A finished artifact is written, copied or damaged: the bytes and records it then has.
LEMMA WriteFacts ==
  ASSUME StartInv, NEW r \in Replica, NEW x \in Artifact, Write(r, x)
  PROVE  \E p \in Profile :
           /\ Where(p) \in Location /\ x \notin finished /\ x \notin BuiltIn
           /\ finished' = finished \cup {x}
           /\ stored' = [stored EXCEPT ![Where(p)][x] = "good"]
           /\ placement' = [placement EXCEPT ![x][p] = "good"]
BY ServingWhere DEF Write, Serving, At, Adopted

LEMMA CopyFacts ==
  ASSUME StartInv, NEW r \in Replica, NEW x \in Artifact, Copy(r, x)
  PROVE  /\ legacy \in Location /\ InLegacy(x) /\ placement[x]["s3"] = "none"
         /\ \E bytes \in {"good", "bad"} :
              /\ bytes = stored[legacy][x]
              /\ stored' = [stored EXCEPT !["s3"][x] = bytes]
              /\ placement' = [placement EXCEPT ![x]["s3"] = bytes]
              /\ hurt' = IF bytes = "good" THEN hurt ELSE hurt \cup {<<"s3", x>>}
<1>1. Where("legacy") = legacy BY DEF Where
<1>2. legacy \in Location BY <1>1, ServingWhere DEF Copy, Serving, At, Adopted, Profile
<1>3. stored[legacy][x] \in Bytes BY <1>2, BytesThere DEF StartInv
<1>. QED BY <1>1, <1>2, <1>3 DEF Copy, InLegacy, Bytes

LEMMA TypeStep == ASSUME StartInv, ReaderOk, [Next]_vars PROVE TypeOK'
<1>1. TypeOK BY DEF StartInv
<1>2. replica' \in [Replica -> [pc : PC, next : 1 .. Scripts + 1, todo : SUBSET Artifact]]
  BY ReplicaTypeStep DEF ReplicaRow
<1>3. reader' \in [by : Replica \cup {None}, of : Artifact \cup {None},
                   prefer : Profile \cup {None}, seen : [Profile -> Digest], todo : SUBSET Profile,
                   unreachable : SUBSET Profile, got : Bytes \cup {"error"}]
  BY ReaderTypeStep DEF ReaderRow
<1>4. old' \in {"none", "running", "stopped"} /\ faults' \in 0 .. MaxFaults
  BY <1>1, Changes, StartupAssumption DEF TypeOK, SpendFault
<1>5. schema' \in 0 .. Scripts
  <2>1. CASE Other BY <1>1, <2>1, OtherLeaves DEF TypeOK
  <2>2. ASSUME NEW r \in Replica, Process(r) PROVE schema' \in 0 .. Scripts
    <3>1. CASE ApplyScript(r)
      <4>1. replica[r].next \in 1 .. Scripts + 1 /\ replica[r].next <= Scripts
        BY <1>1, <3>1, ReplicaTyped DEF ReplicaRow, StartInv, SchemaOk, ApplyScript
      <4>2. schema' \in {schema, replica[r].next} BY <3>1 DEF ApplyScript
      <4>. QED BY <1>1, <4>1, <4>2, StartupAssumption DEF TypeOK
    <3>2. CASE ~ApplyScript(r)
      <4>1. schema' = schema
        BY <2>2, <3>2 DEF Process, Start, TakeLock, CheckScript, AdoptProfile, BootstrapTemplates,
           BootstrapReports, CommitBootstrap, PublishedArtifacts, SyncTemplate, Crash
      <4>. QED BY <1>1, <4>1 DEF TypeOK
    <3>. QED BY <3>1, <3>2
  <2>. QED BY <2>1, <2>2, StepKinds
<1>6. lock' \in Replica \cup {None}
  <2>1. CASE Other BY <1>1, <2>1, OtherLeaves DEF TypeOK
  <2>2. ASSUME NEW r \in Replica, Process(r) PROVE lock' \in Replica \cup {None}
    <3>1. lock' \in {lock, r, None}
      BY <2>2 DEF Process, Start, TakeLock, CheckScript, ApplyScript, AdoptProfile, BootstrapTemplates,
         BootstrapReports, CommitBootstrap, PublishedArtifacts, SyncTemplate, Crash
    <3>. QED BY <1>1, <3>1 DEF TypeOK
  <2>. QED BY <2>1, <2>2, StepKinds
<1>7. finished' \subseteq Artifact
  <2>1. BuiltIn \subseteq Artifact BY StartupAssumption DEF Artifact
  <2>2. \A r \in Replica : ApplyScript(r) => finished' \subseteq finished \cup BuiltIn BY DEF ApplyScript
  <2>3. \A r \in Replica, x \in Artifact : Write(r, x) => finished' = finished \cup {x} BY DEF Write
  <2>4. \A x \in Artifact : OldWrite(x) => finished' = finished \cup {x} BY DEF OldWrite
  <2>. QED BY <1>1, <2>1, <2>2, <2>3, <2>4, Changes DEF TypeOK
<1>8. legacy' \in Directory \cup {None} /\ default' \in Profile \cup {None}
  <2>1. CASE Other BY <1>1, <2>1, OtherLeaves DEF TypeOK
  <2>2. ASSUME NEW r \in Replica, Process(r)
        PROVE  legacy' \in Directory \cup {None} /\ default' \in Profile \cup {None}
    <3>1. CASE CommitBootstrap(r)
      <4>1. default' \in {default, "legacy"} BY <3>1 DEF CommitBootstrap
      <4>. QED BY <1>1, <3>1, <4>1, CommitFacts DEF TypeOK, Profile
    <3>2. CASE ~CommitBootstrap(r) BY <1>1, <2>2, <3>2, ProcessLeaves DEF TypeOK
    <3>. QED BY <3>1, <3>2
  <2>. QED BY <2>1, <2>2, StepKinds
<1>9. placement' \in [Artifact -> [Profile -> Digest]]
  <2>0. placement \in [Artifact -> [Profile -> Digest]] /\ {"null", "good", "bad"} \subseteq Digest
    BY <1>1 DEF TypeOK, Digest
  <2>1. ASSUME NEW r \in Replica, CommitBootstrap(r) PROVE placement' \in [Artifact -> [Profile -> Digest]]
    BY <2>0, <2>1 DEF CommitBootstrap
  <2>2. ASSUME NEW r \in Replica, NEW x \in Artifact, Write(r, x)
        PROVE  placement' \in [Artifact -> [Profile -> Digest]]
    BY <2>0, <2>2, WriteFacts
  <2>3. ASSUME NEW r \in Replica, NEW x \in Artifact, Copy(r, x)
        PROVE  placement' \in [Artifact -> [Profile -> Digest]]
    BY <2>0, <2>3, CopyFacts
  <2>. QED BY <2>0, <2>1, <2>2, <2>3, Changes
<1>10. stored' \in [Location -> [Artifact -> Bytes]]
  <2>0. stored \in [Location -> [Artifact -> Bytes]] /\ {"none", "good", "bad"} = Bytes
    BY <1>1 DEF TypeOK, Bytes
  <2>1. ASSUME NEW r \in Replica, SyncTemplate(r) PROVE stored' \in [Location -> [Artifact -> Bytes]]
    <3>1. Dir[r] \in Location /\ replica[r].todo \subseteq Artifact /\ "good" \in Bytes
      BY <1>1, ReplicaTyped, StartupAssumption DEF ReplicaRow, Location, Bytes
    <3>. QED BY <1>1, <2>0, <2>1, <3>1, StoredAt DEF SyncTemplate, Stores
  <2>2. ASSUME NEW r \in Replica, NEW x \in Artifact, Write(r, x)
        PROVE  stored' \in [Location -> [Artifact -> Bytes]]
    <3>1. \E l \in Location : stored' = [stored EXCEPT ![l][x] = "good"] BY <2>2, WriteFacts
    <3>. QED BY <1>1, <3>1, StoredAt DEF Bytes, Stores
  <2>3. ASSUME NEW r \in Replica, NEW x \in Artifact, Copy(r, x)
        PROVE  stored' \in [Location -> [Artifact -> Bytes]]
    BY <2>0, <2>3, CopyFacts
  <2>4. ASSUME NEW x \in Artifact, NEW l \in Location, OldWrite(x) \/ Damage(l, x)
        PROVE  stored' \in [Location -> [Artifact -> Bytes]]
    BY <2>0, <2>4 DEF OldWrite, Damage
  <2>5. ASSUME NEW x \in Artifact, OldWrite(x) PROVE stored' \in [Location -> [Artifact -> Bytes]]
    BY <2>0, <2>5 DEF OldWrite
  <2>. QED BY <2>0, <2>1, <2>2, <2>3, <2>4, <2>5, Changes
<1>11. hurt' \subseteq Location \X Artifact
  <2>1. ASSUME NEW r \in Replica, NEW x \in Artifact, Copy(r, x) PROVE hurt' \subseteq Location \X Artifact
    <3>1. hurt' \subseteq hurt \cup {<<"s3", x>>} BY <2>1 DEF Copy
    <3>. QED BY <1>1, <3>1 DEF TypeOK, Location
  <2>2. ASSUME NEW x \in Artifact, NEW l \in Location, Damage(l, x)
        PROVE  hurt' \subseteq Location \X Artifact
    BY <1>1, <2>2 DEF TypeOK, Damage
  <2>. QED BY <1>1, <2>1, <2>2, Changes DEF TypeOK
<1>. QED BY <1>2, <1>3, <1>4, <1>5, <1>6, <1>7, <1>8, <1>9, <1>10, <1>11 DEF TypeOK

-----------------------------------------------------------------------------
(* What no step undoes.                                                    *)

LEMMA FinishedGrows == ASSUME [Next]_vars PROVE finished \subseteq finished'
BY Changes DEF ApplyScript, Write, OldWrite

\* Artifacts are only ever replaced by good ones, or by ones that are known to be damaged.
LEMMA GoodStays ==
  ASSUME StartInv, [Next]_vars, NEW l \in Location, NEW x \in Artifact
  PROVE  /\ hurt \subseteq hurt'
         /\ Good(l, x) => Good(l, x)'
<1>0. TypeOK /\ Bytes = {"none", "good", "bad"} BY DEF StartInv, Bytes
<1>1. hurt \subseteq hurt' BY Changes DEF Copy, Damage
<1>2. CASE UNCHANGED stored BY <1>1, <1>2 DEF Good
<1>3. ASSUME NEW r \in Replica, SyncTemplate(r) PROVE Good(l, x) => Good(l, x)'
  <2>1. Dir[r] \in Location /\ replica[r].todo \subseteq Artifact
    BY <1>0, ReplicaTyped, StartupAssumption DEF ReplicaRow, Location
  <2>2. UNCHANGED stored \/ \E y \in Artifact : stored' = [stored EXCEPT ![Dir[r]][y] = "good"]
    BY <1>3, <2>1 DEF SyncTemplate
  <2>3. ASSUME NEW y \in Artifact, stored' = [stored EXCEPT ![Dir[r]][y] = "good"]
        PROVE  stored'[l][x] \in {"good", stored[l][x]}
    BY <1>0, <2>1, <2>3, StoredAt DEF Stores
  <2>. QED BY <1>1, <2>2, <2>3 DEF Good
<1>4. ASSUME NEW r \in Replica, NEW y \in Artifact, Write(r, y) PROVE Good(l, x) => Good(l, x)'
  <2>1. \E m \in Location : stored' = [stored EXCEPT ![m][y] = "good"] BY <1>4, WriteFacts
  <2>2. PICK m \in Location : Stores(m, y, "good") BY <2>1 DEF Stores
  <2>3. stored'[l][x] = IF l = m /\ x = y THEN "good" ELSE stored[l][x] BY <1>0, <2>2, StoredAt
  <2>. QED BY <1>1, <2>3 DEF Good
<1>5. ASSUME NEW r \in Replica, NEW y \in Artifact, Copy(r, y) PROVE Good(l, x) => Good(l, x)'
  <2>1. PICK bytes \in {"good", "bad"} :
          /\ stored' = [stored EXCEPT !["s3"][y] = bytes]
          /\ hurt' = IF bytes = "good" THEN hurt ELSE hurt \cup {<<"s3", y>>}
    BY <1>5, CopyFacts
  <2>2. "s3" \in Location /\ bytes \in Bytes /\ TypeOK BY <1>0 DEF Location
  <2>3. stored'[l][x] = IF l = "s3" /\ x = y THEN bytes ELSE stored[l][x]
    <3>1. Stores("s3", y, bytes) BY <2>1 DEF Stores
    <3>. QED BY <2>2, <3>1, StoredAt
  <2>4. CASE l = "s3" /\ x = y
    <3>1. stored'[l][x] = bytes /\ (bytes = "bad" => <<l, x>> \in hurt') BY <2>1, <2>3, <2>4
    <3>. QED BY <3>1 DEF Good
  <2>5. CASE ~ (l = "s3" /\ x = y) BY <1>1, <2>3, <2>5 DEF Good
  <2>. QED BY <2>4, <2>5
<1>6. ASSUME NEW y \in Artifact, OldWrite(y) PROVE Good(l, x) => Good(l, x)'
  <2>1. OldDir \in Location BY StartupAssumption DEF Location
  <2>2. Stores(OldDir, y, "good") BY <1>6 DEF OldWrite, Stores
  <2>3. stored'[l][x] = IF l = OldDir /\ x = y THEN "good" ELSE stored[l][x]
    BY <1>0, <2>1, <2>2, StoredAt
  <2>. QED BY <1>1, <2>3 DEF Good
<1>7. ASSUME NEW y \in Artifact, NEW m \in Location, Damage(m, y) PROVE Good(l, x) => Good(l, x)'
  <2>1. PICK bytes \in {"none", "bad"} : stored' = [stored EXCEPT ![m][y] = bytes] BY <1>7 DEF Damage
  <2>2. stored'[l][x] = IF l = m /\ x = y THEN bytes ELSE stored[l][x]
    <3>1. bytes \in Bytes /\ TypeOK BY <1>0
    <3>2. Stores(m, y, bytes) BY <2>1 DEF Stores
    <3>. QED BY <3>1, <3>2, StoredAt
  <2>3. <<m, y>> \in hurt' BY <1>7 DEF Damage
  <2>. QED BY <1>1, <2>2, <2>3 DEF Good
<1>. QED BY <1>1, <1>2, <1>3, <1>4, <1>5, <1>6, <1>7, Changes

LEMMA GoodAfterWrite ==
  ASSUME TypeOK, NEW l \in Location, NEW x \in Artifact, stored' = [stored EXCEPT ![l][x] = "good"]
  PROVE  Good(l, x)'
BY StoredAt DEF Good, Bytes, Stores

\* What is recorded stays as it is recorded.
LEMMA PlacementStays ==
  ASSUME StartInv, BytesInv, [Next]_vars, NEW x \in Artifact, NEW p \in Profile, placement[x][p] # "none"
  PROVE  placement'[x][p] = placement[x][p]
<1>0. placement \in [Artifact -> [Profile -> Digest]] BY DEF StartInv, TypeOK
<1>1. ASSUME NEW r \in Replica, CommitBootstrap(r) PROVE placement'[x][p] = placement[x][p]
  BY <1>0, <1>1 DEF CommitBootstrap
<1>2. ASSUME NEW r \in Replica, NEW y \in Artifact, Write(r, y) PROVE placement'[x][p] = placement[x][p]
  <2>1. x \in finished /\ y \notin finished BY <1>2 DEF BytesInv, PlacementOk, Write
  <2>. QED BY <1>0, <1>2, <2>1, WriteFacts
<1>3. ASSUME NEW r \in Replica, NEW y \in Artifact, Copy(r, y) PROVE placement'[x][p] = placement[x][p]
  BY <1>0, <1>3, CopyFacts
<1>. QED BY <1>1, <1>2, <1>3, Changes

LEMMA RecordedStays ==
  ASSUME StartInv, BytesInv, [Next]_vars, NEW x \in Artifact
  PROVE  (Recorded(x) => Recorded(x)') /\ (InLegacy(x) => InLegacy(x)')
BY PlacementStays DEF Recorded, InLegacy, Profile

\* Once there is a legacy profile, it stays or does not stay the older release's.
LEMMA KeptStays ==
  ASSUME StartInv, [Next]_vars, legacy # None
  PROVE  /\ DirectoryKept' <=> DirectoryKept
         /\ \A p \in Profile : Where(p)' = Where(p) /\ Where(p) \in Location
<1>1. legacy' = legacy /\ (old = "none" <=> old' = "none") BY LegacyFixed, Changes
<1>2. legacy \in Directory BY DEF StartInv, TypeOK
<1>. QED BY <1>1, <1>2 DEF DirectoryKept, Where, Location

LEMMA UnrecordedStep == ASSUME StartInv, BytesInv, [Next]_vars PROVE Unrecorded'
<1>1. SUFFICES ASSUME legacy' = None, NEW x \in Artifact, Recorded(x)' PROVE FALSE BY DEF Unrecorded
<1>2. legacy = None BY <1>1, LegacyFixed
<1>3. ~Recorded(x) BY <1>2 DEF StartInv, Unrecorded
<1>4. CASE UNCHANGED placement BY <1>1, <1>3, <1>4 DEF Recorded
<1>5. ASSUME NEW r \in Replica, CommitBootstrap(r) PROVE FALSE
  BY <1>1, <1>5, CommitFacts, StartupAssumption DEF Location
<1>6. ASSUME NEW r \in Replica, NEW y \in Artifact, Write(r, y) \/ Copy(r, y) PROVE FALSE
  <2>1. replica[r].pc \in Adopted BY <1>6 DEF Write, Copy, Serving, At, Adopted
  <2>. QED BY <1>2, <2>1, ServingWhere, StartupAssumption DEF Location
<1>. QED BY <1>4, <1>5, <1>6, Changes

LEMMA StartStep == StartInv /\ BytesInv /\ ReaderOk /\ [Next]_vars => StartInv'
BY TypeStep, SchemaStep, ProfileStep, UnrecordedStep DEF StartInv

-----------------------------------------------------------------------------
(* What was finished has been kept.                                        *)

LEMMA OldKeptStep == ASSUME StartInv, BytesInv, [Next]_vars PROVE OldKept' /\ NewRecorded'
<1>0. /\ OldKept /\ NewRecorded /\ finished \subseteq finished' /\ (old = "none" <=> old' = "none")
      /\ finished \subseteq Artifact /\ OldDir \in Location
  BY FinishedGrows, Changes, StartupAssumption DEF BytesInv, StartInv, TypeOK, Location
<1>1. ASSUME NEW x \in Artifact, x \in finished' \ finished
      PROVE  \/ x \in BuiltIn
             \/ Recorded(x)'
             \/ old # "none" /\ Good(OldDir, x)'
  <2>1. CASE \E r \in Replica : ApplyScript(r) BY <1>1, <2>1 DEF ApplyScript
  <2>2. ASSUME NEW r \in Replica, NEW y \in Artifact, Write(r, y) PROVE Recorded(x)'
    <3>1. PICK p \in Profile : x = y /\ placement' = [placement EXCEPT ![x][p] = "good"]
      BY <1>1, <2>2, WriteFacts
    <3>2. placement'[x][p] = "good" BY <3>1 DEF StartInv, TypeOK
    <3>. QED BY <3>2 DEF Recorded
  <2>3. ASSUME NEW y \in Artifact, OldWrite(y) PROVE old # "none" /\ Good(OldDir, x)'
    <3>1. x = y /\ old = "running" /\ stored' = [stored EXCEPT ![OldDir][x] = "good"]
      BY <1>1, <2>3 DEF OldWrite
    <3>. QED BY <1>0, <3>1, GoodAfterWrite DEF StartInv
  <2>. QED BY <1>1, <2>1, <2>2, <2>3, Changes
<1>2. finished' \subseteq Artifact
  <2>1. \A r \in Replica : ApplyScript(r) => finished' \subseteq finished \cup BuiltIn BY DEF ApplyScript
  <2>2. \A r \in Replica, x \in Artifact : Write(r, x) => finished' = finished \cup {x} BY DEF Write
  <2>3. \A x \in Artifact : OldWrite(x) => finished' = finished \cup {x} BY DEF OldWrite
  <2>. QED BY <1>0, <2>1, <2>2, <2>3, Changes, StartupAssumption DEF Artifact
<1>3. OldKept'
  <2>. SUFFICES ASSUME old' # "none"
                PROVE  /\ BuiltIn \subseteq finished'
                       /\ \A x \in finished' : Recorded(x)' \/ Good(OldDir, x)'
    BY DEF OldKept
  <2>1. BuiltIn \subseteq finished BY <1>0 DEF OldKept
  <2>2. ASSUME NEW x \in finished' PROVE Recorded(x)' \/ Good(OldDir, x)'
    <3>1. CASE x \in finished
      <4>1. Recorded(x) \/ Good(OldDir, x) BY <1>0, <3>1 DEF OldKept
      <4>. QED BY <1>0, <3>1, <4>1, RecordedStays, GoodStays
    <3>2. CASE x \notin finished BY <1>1, <1>2, <2>1, <3>2
    <3>. QED BY <3>1, <3>2
  <2>. QED BY <1>0, <2>1, <2>2
<1>4. NewRecorded'
  <2>. SUFFICES ASSUME old' = "none", NEW x \in finished' \ BuiltIn PROVE Recorded(x)' BY DEF NewRecorded
  <2>1. CASE x \in finished
    <3>1. Recorded(x) BY <1>0, <2>1 DEF NewRecorded
    <3>. QED BY <1>0, <2>1, <3>1, RecordedStays
  <2>2. CASE x \notin finished BY <1>0, <1>1, <1>2, <2>2
  <2>. QED BY <2>1, <2>2
<1>. QED BY <1>3, <1>4

LEMMA AdoptableStays ==
  ASSUME StartInv, [Next]_vars, NEW x \in Artifact, Adoptable(x) PROVE Adoptable(x)'
<1>1. OldDir \in Location BY StartupAssumption DEF Location
<1>2. Good(OldDir, x) => Good(OldDir, x)' BY <1>1, GoodStays
<1>. QED BY <1>2, FinishedGrows, Changes DEF Adoptable

LEMMA UnrecordedAdoptable ==
  ASSUME BytesInv, NEW x \in finished, ~Recorded(x) PROVE Adoptable(x)
BY DEF BytesInv, OldKept, NewRecorded, Adoptable

LEMMA TodoStep == ASSUME StartInv, BytesInv, [Next]_vars, NEW q \in Replica PROVE TodoOk(q)'
<1>0. TypeOK /\ TodoOk(q) /\ replica[q].todo \subseteq Artifact /\ finished \subseteq Artifact
  BY ReplicaTyped DEF StartInv, BytesInv, ReplicaRow, TypeOK
<1>1. CASE replica'[q] = replica[q] BY <1>0, <1>1, AdoptableStays DEF TodoOk
<1>2. CASE replica'[q].pc \notin {"reports", "commit"} BY <1>2 DEF TodoOk
<1>3. CASE BootstrapTemplates(q)
  <2>1. Moved(q, "reports", replica[q].next, {x \in finished \cap Template : ~Recorded(x)})
    BY <1>0, <1>3, Moves
  <2>2. replica'[q].todo = {x \in finished \cap Template : ~Recorded(x)} BY <1>0, <2>1, MovedFacts
  <2>3. \A x \in replica'[q].todo : Adoptable(x)' BY <1>0, <2>2, UnrecordedAdoptable, AdoptableStays
  <2>. QED BY <2>3 DEF TodoOk
<1>4. CASE BootstrapReports(q)
  <2>1. Moved(q, "commit", replica[q].next,
              replica[q].todo \cup {x \in finished \cap Report : ~Recorded(x)})
    BY <1>0, <1>4, Moves
  <2>2. replica'[q].todo = replica[q].todo \cup {x \in finished \cap Report : ~Recorded(x)}
    BY <1>0, <2>1, MovedFacts
  <2>3. \A x \in replica[q].todo : Adoptable(x) BY <1>0, <1>4 DEF TodoOk, BootstrapReports, At
  <2>4. \A x \in replica'[q].todo : x \in Artifact /\ Adoptable(x)
    BY <1>0, <2>2, <2>3, UnrecordedAdoptable
  <2>. QED BY <2>4, AdoptableStays DEF TodoOk
<1>5. CASE Other BY <1>1, <1>5, OtherLeaves
<1>6. ASSUME NEW r \in Replica, Process(r)
      PROVE  \/ replica'[q] = replica[q] \/ replica'[q].pc \notin {"reports", "commit"}
             \/ BootstrapTemplates(q) \/ BootstrapReports(q)
  <2>1. CASE r # q BY <1>6, <2>1, ProcessLeaves
  <2>2. CASE r = q BY <1>0, <1>6, <2>2, Arrives DEF Process
  <2>. QED BY <2>1, <2>2
<1>. QED BY <1>1, <1>2, <1>3, <1>4, <1>5, <1>6, StepKinds

-----------------------------------------------------------------------------
(* Built-in templates are recorded, then written.                          *)

\* What a process adopts is recorded with the legacy profile, good or without a digest.
LEMMA CommitPlaces ==
  ASSUME StartInv, NEW r \in Replica, CommitBootstrap(r), NEW x \in Artifact
  PROVE  /\ placement'[x]["s3"] = placement[x]["s3"]
         /\ InLegacy(x)' <=> InLegacy(x) \/ x \in replica[r].todo
         /\ ~InLegacy(x) => placement'[x]["legacy"] # "bad"
BY DEF StartInv, TypeOK, CommitBootstrap, InLegacy, Profile

LEMMA BuiltInRecorded ==
  ASSUME StartInv, BytesInv, [Next]_vars, NEW x \in BuiltIn, Recorded(x)' PROVE InLegacy(x)'
<1>0. x \in Artifact /\ (Recorded(x) => InLegacy(x)) /\ placement \in [Artifact -> [Profile -> Digest]]
  BY StartupAssumption DEF BytesInv, BuiltInKept, StartInv, TypeOK, Artifact
<1>1. CASE Recorded(x) BY <1>0, <1>1, RecordedStays
<1>2. CASE ~Recorded(x)
  <2>1. \A p \in Profile : placement[x][p] = "none" BY <1>2 DEF Recorded
  <2>2. PICK p \in Profile : placement'[x][p] # "none" BY DEF Recorded
  <2>3. ASSUME NEW r \in Replica, CommitBootstrap(r) PROVE InLegacy(x)'
    <3>1. p # "s3" BY <1>0, <2>1, <2>2, <2>3, CommitPlaces
    <3>. QED BY <2>2, <3>1 DEF InLegacy, Profile
  <2>4. ASSUME NEW r \in Replica, NEW y \in Artifact, Write(r, y) PROVE FALSE
    <3>1. x # y BY <2>4 DEF Write
    <3>2. placement'[x] = placement[x] BY <1>0, <2>4, <3>1, WriteFacts
    <3>. QED BY <2>1, <2>2, <3>2
  <2>5. ASSUME NEW r \in Replica, NEW y \in Artifact, Copy(r, y) PROVE FALSE
    <3>1. x # y BY <2>1, <2>5, CopyFacts DEF InLegacy, Profile
    <3>2. placement'[x] = placement[x] BY <1>0, <2>5, <3>1, CopyFacts
    <3>. QED BY <2>1, <2>2, <3>2
  <2>. QED BY <2>1, <2>2, <2>3, <2>4, <2>5, Changes
<1>. QED BY <1>1, <1>2

LEMMA BuiltInPublished ==
  ASSUME StartInv, BytesInv, [Next]_vars, schema' > 0 PROVE BuiltIn \subseteq finished'
<1>1. CASE schema > 0 BY <1>1, FinishedGrows DEF BytesInv, BuiltInKept
<1>2. CASE ~ (schema > 0)
  <2>1. schema \in Nat BY StartupAssumption DEF StartInv, TypeOK
  <2>2. schema' # schema BY <1>2
  <2>3. PICK r \in Replica : Process(r) BY <2>2, OtherLeaves, StepKinds
  <2>4. ApplyScript(r)
    BY <2>2, <2>3 DEF Process, Start, TakeLock, CheckScript, AdoptProfile, BootstrapTemplates,
       BootstrapReports, CommitBootstrap, PublishedArtifacts, SyncTemplate, Crash
  <2>5. replica[r].next \in Nat BY ReplicaTyped, StartupAssumption DEF StartInv, ReplicaRow
  <2>6. replica[r].next > schema /\ replica[r].next <= schema + 1
    BY <2>4 DEF ApplyScript, StartInv, SchemaOk, At
  <2>7. replica[r].next = 1 /\ ~ (replica[r].next <= schema) BY <1>2, <2>1, <2>5, <2>6
  <2>. QED BY <2>4, <2>7 DEF ApplyScript
<1>. QED BY <1>1, <1>2

LEMMA BuiltInProcess ==
  ASSUME StartInv, BytesInv, [Next]_vars, NEW r \in Replica, Process(r), NEW x \in BuiltIn
  PROVE  BuiltInOk(r, x)'
<1>0. /\ TypeOK /\ BuiltInOk(r, x) /\ x \in Artifact /\ x \in Template
      /\ (InLegacy(x) => InLegacy(x)') /\ (Recorded(x) => InLegacy(x))
  BY RecordedStays, StartupAssumption DEF StartInv, BytesInv, BuiltInKept, Artifact
<1>1. replica[r].pc \in Migrated => x \in finished
  <2>1. replica[r].pc \in Migrated => schema = Scripts BY DEF StartInv, SchemaOk
  <2>2. Scripts > 0 BY StartupAssumption
  <2>. QED BY <2>1, <2>2 DEF BytesInv, BuiltInKept
<1>. USE DEF BuiltInOk, Adopted, At, Serving
<1>2. CASE Start(r) \/ TakeLock(r) \/ CheckScript(r) \/ ApplyScript(r) \/ AdoptProfile(r) \/ Crash(r)
  <2>1. replica'[r].pc \in {"lock", "check", "adopt", "apply", "failed", "templates", "off"}
    BY <1>0, <1>2, Arrives
  <2>. QED BY <2>1
<1>3. CASE BootstrapTemplates(r)
  <2>1. Moved(r, "reports", replica[r].next, {y \in finished \cap Template : ~Recorded(y)})
    BY <1>0, <1>3, Moves
  <2>2. replica'[r].pc = "reports" /\ replica'[r].todo = {y \in finished \cap Template : ~Recorded(y)}
    BY <1>0, <2>1, MovedFacts
  <2>3. x \in finished BY <1>1, <1>3 DEF BootstrapTemplates, Migrated
  <2>. QED BY <1>0, <2>2, <2>3
<1>4. CASE BootstrapReports(r)
  <2>1. Moved(r, "commit", replica[r].next,
              replica[r].todo \cup {y \in finished \cap Report : ~Recorded(y)})
    BY <1>0, <1>4, Moves
  <2>2. replica'[r].pc = "commit" /\ replica[r].todo \subseteq replica'[r].todo
    BY <1>0, <2>1, MovedFacts
  <2>. QED BY <1>0, <1>4, <2>2 DEF BootstrapReports
<1>5. CASE CommitBootstrap(r)
  <2>1. replica'[r].pc = "list" BY <1>0, <1>5, Arrives
  <2>2. InLegacy(x)' BY <1>0, <1>5, CommitPlaces DEF CommitBootstrap
  <2>. QED BY <2>1, <2>2
<1>6. CASE PublishedArtifacts(r)
  <2>1. Moved(r, "sync", replica[r].next, {y \in finished \cap Template : InLegacy(y)})
    BY <1>0, <1>6, Moves
  <2>2. replica'[r].pc = "sync" /\ replica'[r].todo = {y \in finished \cap Template : InLegacy(y)}
    BY <1>0, <2>1, MovedFacts
  <2>3. x \in finished BY <1>1, <1>6 DEF PublishedArtifacts, Migrated
  <2>4. InLegacy(x) BY <1>0, <1>6 DEF PublishedArtifacts
  <2>. QED BY <1>0, <2>2, <2>3, <2>4
<1>7. CASE SyncTemplate(r)
  <2>1. /\ InLegacy(x)' /\ (x \in replica[r].todo \/ Good(legacy, x)) BY <1>0, <1>7 DEF SyncTemplate
  <2>2. /\ legacy' = legacy /\ legacy = Dir[r] /\ legacy \in Location
    BY <1>7, ServingWhere, StartupAssumption DEF SyncTemplate, tables, Location
  <2>3. Good(legacy, x) => Good(legacy, x)' BY <1>0, <2>2, GoodStays
  <2>4. CASE replica[r].todo = {} /\ Moved(r, "serving", replica[r].next, replica[r].todo)
    <3>1. replica'[r].pc = "serving" BY <1>0, <2>4, MovedFacts
    <3>. QED BY <2>1, <2>3, <2>4, <3>1
  <2>5. ASSUME NEW y \in replica[r].todo, stored' = [stored EXCEPT ![Dir[r]][y] = "good"],
               Moved(r, "sync", replica[r].next, replica[r].todo \ {y})
        PROVE  BuiltInOk(r, x)'
    <3>1. replica'[r].pc = "sync" /\ replica'[r].todo = replica[r].todo \ {y} BY <1>0, <2>5, MovedFacts
    <3>2. CASE x = y
      <4>1. Good(Dir[r], x)' BY <1>0, <2>2, <2>5, <3>2, GoodAfterWrite
      <4>2. Good(legacy, x)' BY <2>2, <4>1 DEF Good
      <4>. QED BY <2>1, <3>1, <4>2
    <3>3. CASE x # y BY <2>1, <2>3, <3>1, <3>3
    <3>. QED BY <3>2, <3>3
  <2>. QED BY <1>0, <1>7, <2>4, <2>5, Moves
<1>. QED BY <1>2, <1>3, <1>4, <1>5, <1>6, <1>7 DEF Process

LEMMA BuiltInStep == ASSUME StartInv, BytesInv, [Next]_vars PROVE BuiltInKept'
<1>1. ASSUME NEW q \in Replica, NEW x \in BuiltIn PROVE BuiltInOk(q, x)'
  <2>1. CASE replica'[q] = replica[q]
    <3>1. x \in Artifact /\ BuiltInOk(q, x) /\ (InLegacy(x) => InLegacy(x)')
      BY RecordedStays, StartupAssumption DEF BytesInv, BuiltInKept, Artifact
    <3>2. CASE replica[q].pc \in Adopted
      <4>1. legacy = Dir[q] /\ legacy \in Location /\ legacy # None
        BY <3>2, ServingWhere, StartupAssumption DEF Location
      <4>2. legacy' = legacy /\ (Good(legacy, x) => Good(legacy, x)')
        BY <3>1, <4>1, LegacyFixed, GoodStays
      <4>. QED BY <2>1, <3>1, <4>2 DEF BuiltInOk, At, Serving, Adopted
    <3>3. CASE replica[q].pc \notin Adopted
      BY <2>1, <3>1, <3>3 DEF BuiltInOk, At, Serving, Adopted
    <3>. QED BY <3>2, <3>3
  <2>2. CASE Process(q) BY <2>2, BuiltInProcess
  <2>. QED BY <2>1, <2>2, StepKinds, OtherLeaves, ProcessLeaves
<1>. QED BY <1>1, BuiltInRecorded, BuiltInPublished DEF BuiltInKept

-----------------------------------------------------------------------------
(* What is recorded is there.                                              *)

LEMMA PlacementStep ==
  ASSUME StartInv, BytesInv, [Next]_vars, NEW x \in Artifact, NEW p \in Profile
  PROVE  PlacementOk(x, p)'
<1>0. /\ TypeOK /\ PlacementOk(x, p) /\ finished \subseteq finished' /\ hurt \subseteq hurt'
      /\ (old = "none" <=> old' = "none") /\ OldDir \in Location
      /\ placement \in [Artifact -> [Profile -> Digest]]
  BY FinishedGrows, GoodStays, Changes, StartupAssumption DEF BytesInv, StartInv, TypeOK, Location
<1>1. CASE placement[x][p] # "none"
  <2>1. placement'[x][p] = placement[x][p] BY <1>1, PlacementStays
  <2>2. legacy # None BY <1>1 DEF StartInv, Unrecorded, Recorded
  <2>3. (DirectoryKept' <=> DirectoryKept) /\ Where(p)' = Where(p) /\ Where(p) \in Location
    BY <2>2, KeptStays
  <2>4. Good(Where(p), x) => Good(Where(p), x)'
    <3>1. \A l \in Location : Good(l, x) => Good(l, x)' BY GoodStays
    <3>2. Good(Where(p), x)' <=> (stored'[Where(p)][x] = "good" \/ <<Where(p), x>> \in hurt')
      BY <2>3 DEF Good
    <3>. QED BY <2>3, <3>1, <3>2 DEF Good
  <2>. QED BY <1>0, <1>1, <2>1, <2>3, <2>4 DEF PlacementOk
<1>2. CASE placement[x][p] = "none" /\ placement'[x][p] # "none"
  <2>1. ASSUME NEW r \in Replica, CommitBootstrap(r) PROVE PlacementOk(x, p)'
    <3>1. p = "legacy" /\ x \in replica[r].todo /\ placement'[x][p] # "bad"
      <4>1. p # "s3" BY <1>2, <2>1, CommitPlaces
      <4>2. p = "legacy" BY <4>1 DEF Profile
      <4>3. ~InLegacy(x) /\ InLegacy(x)' BY <1>2, <4>2 DEF InLegacy
      <4>. QED BY <2>1, <4>2, <4>3, CommitPlaces
    <3>2. Adoptable(x)
      BY <2>1, <3>1 DEF BytesInv, TodoOk, CommitBootstrap, At
    <3>3. Adoptable(x)' BY <3>2, AdoptableStays
    <3>4. DirectoryKept' /\ old' # "none" => Where(p)' = OldDir BY <3>1 DEF DirectoryKept, Where
    <3>. QED BY <3>1, <3>3, <3>4 DEF PlacementOk, Adoptable, Good
  <2>2. ASSUME NEW r \in Replica, NEW y \in Artifact, Write(r, y) PROVE PlacementOk(x, p)'
    <3>1. PICK q \in Profile :
            /\ Where(q) \in Location /\ finished' = finished \cup {y}
            /\ stored' = [stored EXCEPT ![Where(q)][y] = "good"]
            /\ placement' = [placement EXCEPT ![y][q] = "good"]
      BY <2>2, WriteFacts
    <3>2. x = y /\ p = q /\ placement'[x][p] = "good" BY <1>0, <1>2, <3>1
    <3>3. stored'[Where(p)][x] = "good"
      <4>1. Stores(Where(p), x, "good") /\ Where(p) \in Location BY <3>1, <3>2 DEF Stores
      <4>2. TypeOK /\ "good" \in Bytes BY <1>0 DEF Bytes
      <4>. QED BY <4>1, <4>2, StoredAt
    <3>4. Where(p)' = Where(p) BY <2>2 DEF Write, Where
    <3>. QED BY <3>1, <3>2, <3>3, <3>4 DEF PlacementOk, Good
  <2>3. ASSUME NEW r \in Replica, NEW y \in Artifact, Copy(r, y) PROVE PlacementOk(x, p)'
    <3>1. PICK bytes \in {"good", "bad"} :
            /\ stored' = [stored EXCEPT !["s3"][y] = bytes]
            /\ placement' = [placement EXCEPT ![y]["s3"] = bytes]
            /\ hurt' = IF bytes = "good" THEN hurt ELSE hurt \cup {<<"s3", y>>}
      BY <2>3, CopyFacts
    <3>2. x = y /\ p = "s3" /\ placement'[x][p] = bytes BY <1>0, <1>2, <3>1 DEF Profile
    <3>3. stored'["s3"][x] = bytes BY <1>0, <3>1, <3>2, StoredAt, ZenonT(60) DEF Bytes, Location, Stores
    <3>4. Where(p)' = "s3" BY <3>2 DEF Where
    <3>5. x \in finished
      <4>1. InLegacy(x) BY <2>3, <3>2, CopyFacts
      <4>. QED BY <4>1 DEF BytesInv, PlacementOk, InLegacy, Profile
    <3>. QED BY <1>0, <3>1, <3>2, <3>3, <3>4, <3>5 DEF PlacementOk, Good
  <2>. QED BY <1>2, <2>1, <2>2, <2>3, Changes
<1>3. CASE placement'[x][p] = "none" BY <1>3 DEF PlacementOk
<1>. QED BY <1>1, <1>2, <1>3

LEMMA BytesStep == StartInv /\ BytesInv /\ [Next]_vars => BytesInv'
BY OldKeptStep, TodoStep, BuiltInStep, PlacementStep DEF BytesInv

\* So every placement a serving process may read from has the artifact, and so has its
\* directory if nothing is recorded.
LEMMA ServedIsThere ==
  ASSUME StartInv, BytesInv, NEW r \in Replica, Serving(r), DirectoryKept, NEW x \in finished
  PROVE  /\ \A p \in Profile : placement[x][p] # "none" => Good(Where(p), x)
         /\ ~Recorded(x) => Good(Dir[r], x)
<1>0. x \in Artifact /\ legacy = Dir[r] /\ replica[r].pc \in Adopted
  BY ServingWhere DEF StartInv, TypeOK, Serving, At, Adopted
<1>1. x \in BuiltIn => InLegacy(x) /\ Good(legacy, x)
  BY <1>0 DEF BytesInv, BuiltInKept, BuiltInOk
<1>2. ASSUME NEW p \in Profile, placement[x][p] # "none" PROVE Good(Where(p), x)
  <2>1. CASE p = "s3" \/ x \notin BuiltIn BY <1>0, <1>2, <2>1 DEF BytesInv, PlacementOk
  <2>2. CASE p = "legacy" /\ x \in BuiltIn BY <1>1, <2>2 DEF Where
  <2>. QED BY <2>1, <2>2 DEF Profile
<1>3. ASSUME ~Recorded(x) PROVE Good(Dir[r], x)
  <2>1. x \notin BuiltIn BY <1>1, <1>3 DEF Recorded, InLegacy, Profile
  <2>2. old # "none" BY <1>3, <2>1 DEF BytesInv, NewRecorded
  <2>3. Good(OldDir, x) BY <1>3, <2>2 DEF BytesInv, OldKept
  <2>. QED BY <1>0, <2>2, <2>3 DEF DirectoryKept
<1>. QED BY <1>2, <1>3

-----------------------------------------------------------------------------
(* Reading.                                                                *)

LEMMA ReaderUnchanged == ASSUME StartInv, ReaderOk, [Next]_vars, UNCHANGED reader PROVE ReaderOk'
<1>1. CASE reader.by = None BY <1>1 DEF ReaderOk, Places
<1>2. CASE reader.by # None
  <2>1. /\ reader.by \in Replica /\ reader.of \in Artifact /\ legacy = Dir[reader.by]
        /\ Dir[reader.by] \in Location /\ legacy # None
    BY <1>2, ReaderWhere, StartupAssumption DEF StartInv, Location
  <2>2. /\ legacy' = legacy /\ (DirectoryKept' <=> DirectoryKept)
        /\ \A p \in Profile : Where(p)' = Where(p) /\ Where(p) \in Location
    BY <2>1, LegacyFixed, KeptStays
  <2>3. hurt \subseteq hurt' /\ \A l \in Location : Good(l, reader.of) => Good(l, reader.of)'
    BY <2>1, GoodStays
  <2>4. ASSUME NEW p \in Places PROVE PlaceOk(p)'
    <3>1. p \in Profile /\ PlaceOk(p) BY <1>2 DEF Places, ReaderOk
    <3>2. Good(Where(p), reader.of)' <=>
            (stored'[Where(p)][reader.of] = "good" \/ <<Where(p), reader.of>> \in hurt')
      BY <2>2, <3>1 DEF Good
    <3>3. Good(Where(p), reader.of) => Good(Where(p), reader.of)'
      BY <2>2, <2>3, <3>1, <3>2 DEF Good
    <3>. QED BY <2>2, <2>3, <3>1, <3>3 DEF PlaceOk
  <2>5. Good(Dir[reader.by], reader.of) => Good(Dir[reader.by], reader.of)' BY <2>1, <2>3
  <2>6. Places' = Places BY DEF Places
  <2>. QED BY <1>2, <2>1, <2>2, <2>3, <2>4, <2>5, <2>6 DEF ReaderOk
<1>. QED BY <1>1, <1>2

LEMMA ReaderForgets == ASSUME ReaderOk, reader' = Idle PROVE ReaderOk'
BY DEF ReaderOk, Idle, Places

LEMMA ReaderBegins ==
  ASSUME StartInv, BytesInv, NEW r \in Replica, NEW x \in Artifact, NEW q, BeginRead(r, x, q)
  PROVE  ReaderOk'
<1>1. /\ reader' = [by |-> r, of |-> x, prefer |-> q, seen |-> placement[x],
                    todo |-> {p \in Profile : placement[x][p] # "none"}, unreachable |-> {},
                    got |-> "none"]
      /\ Serving(r) /\ x \in finished
      /\ UNCHANGED <<legacy, old, stored, hurt>>
  BY BeginReadMoves DEF BeginRead, tables
<1>2. r # None /\ x # None BY StartupAssumption
<1>3. legacy = Dir[r] BY <1>1, ServingWhere DEF Serving, At, Adopted
<1>4. Places' = {p \in Profile : placement[x][p] # "none"} BY <1>1 DEF Places
<1>5. (DirectoryKept' <=> DirectoryKept) /\ \A p \in Profile : Where(p)' = Where(p)
  BY <1>1 DEF DirectoryKept, Where
<1>6. ASSUME DirectoryKept
      PROVE  /\ \A p \in Profile : placement[x][p] # "none" => Good(Where(p), x)
             /\ ~Recorded(x) => Good(Dir[r], x)
  BY <1>1, <1>6, ServedIsThere
<1>7. ASSUME Places' = {}, DirectoryKept' PROVE Good(Dir[r], x)'
  <2>1. ~Recorded(x) BY <1>4, <1>7 DEF Recorded
  <2>2. Good(Dir[r], x) BY <1>5, <1>6, <1>7, <2>1
  <2>. QED BY <1>1, <2>2 DEF Good
<1>8. ASSUME NEW p \in Places' PROVE PlaceOk(p)'
  <2>1. p \in Profile /\ placement[x][p] # "none" BY <1>4
  <2>2. DirectoryKept => Good(Where(p), x) BY <1>6, <2>1
  <2>3. placement[x][p] = "bad" => <<Where(p), x>> \in hurt BY <2>1 DEF BytesInv, PlacementOk
  <2>4. Good(Where(p), reader.of)' <=> Good(Where(p), x) BY <1>1, <1>5, <2>1 DEF Good
  <2>. QED BY <1>1, <1>4, <1>5, <2>1, <2>2, <2>3, <2>4 DEF PlaceOk
<1>. QED BY <1>1, <1>2, <1>3, <1>4, <1>7, <1>8 DEF ReaderOk

\* A read that goes on, on what it has seen.
ReadOn ==
  /\ UNCHANGED <<legacy, old, stored, hurt>>
  /\ reader'.by = reader.by /\ reader'.of = reader.of /\ reader'.seen = reader.seen

LEMMA ReadsOn ==
  ASSUME ReadOn, NEW p \in Profile
  PROVE  /\ DirectoryKept' <=> DirectoryKept
         /\ Where(p)' = Where(p) /\ Places' = Places
         /\ Good(Where(p), reader.of)' <=> Good(Where(p), reader.of)
         /\ Good(Dir[reader.by], reader.of)' <=> Good(Dir[reader.by], reader.of)
BY DEF ReadOn, DirectoryKept, Where, Places, Good

LEMMA ReaderReadsLegacy == ASSUME StartInv, ReaderOk, ReadLegacy PROVE ReaderOk'
<1>. DEFINE bytes == stored[Dir[reader.by]][reader.of]
<1>0. TypeOK /\ reader \in ReaderRow BY ReaderTyped DEF StartInv
<1>1. /\ reader' = [reader EXCEPT !.got = reader'.got] /\ Reading /\ Places = {}
      /\ \/ reader'.got = bytes /\ bytes # "none" /\ Matches(bytes, Expected(reader.of))
         \/ reader'.got = "error"
  BY <1>0, ReaderMoves
<1>2. reader'.todo = reader.todo /\ ReadOn BY <1>0, <1>1 DEF ReaderRow, ReadLegacy, tables, ReadOn
<1>3. Places' = {} /\ (DirectoryKept' <=> DirectoryKept) BY <1>1, <1>2, ReadsOn DEF Profile
<1>4. reader'.got = "bad" => reader.of \in Template
  <2>1. reader.of \in Artifact BY <1>0, <1>1, ReaderWhere DEF Reading
  <2>. QED BY <1>1, <2>1 DEF Matches, Expected, Artifact
<1>5. reader.by # None /\ legacy = Dir[reader.by] /\ reader.of # None /\ reader.todo \subseteq Places
      /\ (DirectoryKept => Good(Dir[reader.by], reader.of))
  BY <1>1 DEF ReaderOk, Reading
<1>6. Good(Dir[reader.by], reader.of)' <=> Good(Dir[reader.by], reader.of)
  BY <1>2, ReadsOn DEF Profile
<1>7. UNCHANGED <<legacy, hurt>> /\ reader'.by = reader.by /\ reader'.of = reader.of BY <1>2 DEF ReadOn
<1>8. DirectoryKept /\ reader'.got = "error" => <<Dir[reader.by], reader.of>> \in hurt
  <2>1. bytes \in Bytes /\ (reader'.got = "error" => bytes = "none" \/ ~Matches(bytes, Expected(reader.of)))
    BY <1>0, ReaderMoves DEF Bytes
  <2>. HIDE DEF bytes
  <2>2. reader'.got = "error" => bytes # "good" BY <2>1 DEF Matches, Expected
  <2>. QED BY <1>5, <2>2 DEF Good, bytes
<1>. QED BY <1>1, <1>2, <1>3, <1>4, <1>5, <1>6, <1>7, <1>8 DEF ReaderOk

\* What a placement has is not what it should be only if it has been damaged.
LEMMA MismatchIsDamage ==
  ASSUME StartInv, ReaderOk, reader.by # None, DirectoryKept, NEW p \in Places,
         LET bytes == stored[Where(p)][reader.of] IN
           \/ bytes = "none" \/ ~Matches(bytes, reader.seen[p]) \/ ~Matches(bytes, Expected(reader.of))
  PROVE  <<Where(p), reader.of>> \in hurt
<1>1. PlaceOk(p) /\ reader.seen[p] \in {"null", "good", "bad"}
  BY ReaderTyped DEF StartInv, ReaderOk, ReaderRow, Places, Digest
<1>. QED BY <1>1 DEF PlaceOk, Good, Matches, Expected

LEMMA ReaderTries == ASSUME StartInv, ReaderOk, TryPlacement PROVE ReaderOk'
<1>0. TypeOK /\ reader \in ReaderRow BY ReaderTyped DEF StartInv
<1>1. /\ Reading /\ reader.by # None /\ legacy = Dir[reader.by] /\ reader.of # None
      /\ reader.todo \subseteq Places /\ Places # {} /\ reader.of \in Artifact
      /\ \A p \in Places : p \in Profile /\ PlaceOk(p)
  BY <1>0, ReaderWhere DEF TryPlacement, Reading, ReaderOk, Places
<1>2. PICK p \in reader.todo :
        LET bytes == stored[Where(p)][reader.of] IN
        \/ reader' = [reader EXCEPT !.todo = @ \ {p}, !.unreachable = @ \cup {p}]
        \/ /\ reader' = [reader EXCEPT !.todo = @ \ {p}]
           /\ bytes = "none" \/ ~Matches(bytes, reader.seen[p]) \/ ~Matches(bytes, Expected(reader.of))
        \/ /\ reader' = [reader EXCEPT !.got = bytes]
           /\ bytes \in Bytes /\ bytes # "none" /\ Matches(bytes, reader.seen[p])
           /\ Matches(bytes, Expected(reader.of))
  BY <1>0, ReaderMoves
<1>3. UNCHANGED <<legacy, old, stored, hurt>> BY DEF TryPlacement, tables
<1>4. reader.got = "none" BY <1>1 DEF Reading
<1>5. CASE reader' = [reader EXCEPT !.todo = @ \ {p}, !.unreachable = @ \cup {p}]
  <2>. DEFINE todo        == reader.todo \ {p}
              unreachable == reader.unreachable \cup {p}
  <2>1. reader' = [by |-> reader.by, of |-> reader.of, prefer |-> reader.prefer, seen |-> reader.seen,
                   todo |-> todo, unreachable |-> unreachable, got |-> reader.got]
    <3>. HIDE DEF todo, unreachable
    <3>1. reader' = [reader EXCEPT !.todo = todo, !.unreachable = unreachable] BY <1>5 DEF todo, unreachable
    <3>. QED BY <1>0, <3>1, PassOver
  <2>2. /\ ReadOn /\ reader'.todo = reader.todo \ {p} /\ reader'.got = "none"
        /\ reader'.unreachable = reader.unreachable \cup {p}
    BY <1>3, <1>4, <2>1 DEF ReadOn
  <2>3. Places' = Places /\ (DirectoryKept' <=> DirectoryKept) BY <2>2, ReadsOn DEF Profile
  <2>4. ASSUME NEW q \in Places PROVE PlaceOk(q)'
    BY <1>1, <1>3, <1>4, <2>2, <2>4, ReadsOn DEF PlaceOk, ReadOn
  <2>. QED BY <1>1, <2>2, <2>3, <2>4 DEF ReaderOk, ReadOn
<1>6. CASE /\ reader' = [reader EXCEPT !.todo = @ \ {p}]
           /\ LET bytes == stored[Where(p)][reader.of] IN
              bytes = "none" \/ ~Matches(bytes, reader.seen[p]) \/ ~Matches(bytes, Expected(reader.of))
  <2>2. /\ ReadOn /\ reader'.todo = reader.todo \ {p} /\ reader'.got = "none"
        /\ reader'.unreachable = reader.unreachable
    BY <1>0, <1>3, <1>4, <1>6 DEF ReadOn, ReaderRow
  <2>3. Places' = Places /\ (DirectoryKept' <=> DirectoryKept) BY <2>2, ReadsOn DEF Profile
  <2>4. DirectoryKept => <<Where(p), reader.of>> \in hurt BY <1>1, <1>6, MismatchIsDamage
  <2>5. ASSUME NEW q \in Places PROVE PlaceOk(q)'
    BY <1>1, <1>3, <1>4, <2>2, <2>4, <2>5, ReadsOn DEF PlaceOk, ReadOn
  <2>. QED BY <1>1, <2>2, <2>3, <2>5 DEF ReaderOk, ReadOn
<1>7. CASE LET bytes == stored[Where(p)][reader.of] IN
           /\ reader' = [reader EXCEPT !.got = bytes]
           /\ bytes \in Bytes /\ bytes # "none" /\ Matches(bytes, reader.seen[p])
           /\ Matches(bytes, Expected(reader.of))
  <2>. DEFINE bytes == stored[Where(p)][reader.of]
  <2>1. bytes \in {"good", "bad"} BY <1>7 DEF Bytes
  <2>2. ReadOn /\ reader'.todo = reader.todo /\ reader'.got = bytes
        /\ reader'.unreachable = reader.unreachable
    BY <1>0, <1>3, <1>7 DEF ReadOn, ReaderRow
  <2>3. Places' = Places /\ (DirectoryKept' <=> DirectoryKept) BY <2>2, ReadsOn DEF Profile
  <2>4. bytes = "bad" => reader.of \in Template /\ reader.seen[p] # "good"
    BY <1>1, <1>7 DEF Matches, Expected, Artifact
  <2>. HIDE DEF bytes
  <2>5. ASSUME NEW q \in Places PROVE PlaceOk(q)'
    BY <1>1, <1>3, <1>4, <2>1, <2>2, <2>5, ReadsOn DEF PlaceOk, ReadOn
  <2>6. p \in Places BY <1>1
  <2>. QED BY <1>1, <2>1, <2>2, <2>3, <2>4, <2>5, <2>6 DEF ReaderOk, ReadOn
<1>. QED BY <1>2, <1>5, <1>6, <1>7

LEMMA ReaderGivesUp == ASSUME StartInv, ReaderOk, GiveUp PROVE ReaderOk'
<1>0. TypeOK /\ reader \in ReaderRow BY ReaderTyped DEF StartInv
<1>1. /\ Reading /\ reader.by # None /\ legacy = Dir[reader.by] /\ reader.of # None
      /\ Places # {} /\ \A p \in Places : p \in Profile /\ PlaceOk(p)
  BY DEF GiveUp, Reading, ReaderOk, Places
<1>2. reader' = [reader EXCEPT !.got = "error"] /\ reader.todo = {} BY <1>0, ReaderMoves
<1>3. UNCHANGED <<legacy, old, stored, hurt>> BY DEF GiveUp, tables
<1>4. reader.got = "none" BY <1>1 DEF Reading
<1>5. ReadOn /\ reader'.todo = {} /\ reader'.got = "error" /\ reader'.unreachable = reader.unreachable
  BY <1>0, <1>2, <1>3 DEF ReadOn, ReaderRow
<1>6. Places' = Places /\ (DirectoryKept' <=> DirectoryKept) BY <1>5, ReadsOn DEF Profile
<1>7. ASSUME NEW q \in Places PROVE PlaceOk(q)'
  BY <1>1, <1>2, <1>3, <1>4, <1>5, <1>7, ReadsOn DEF PlaceOk, ReadOn
<1>. QED BY <1>1, <1>5, <1>6, <1>7 DEF ReaderOk, ReadOn

LEMMA ReaderStep == StartInv /\ BytesInv /\ ReaderOk /\ [Next]_vars => ReaderOk'
<1>. SUFFICES ASSUME StartInv, BytesInv, ReaderOk, [Next]_vars PROVE ReaderOk' OBVIOUS
<1>1. ASSUME NEW r \in Replica, Crash(r) PROVE UNCHANGED reader \/ reader' = Idle BY <1>1 DEF Crash
<1>. QED BY <1>1, Changes, ReaderUnchanged, ReaderForgets, ReaderBegins, ReaderReadsLegacy, ReaderTries,
            ReaderGivesUp

-----------------------------------------------------------------------------
(* The theorems.                                                           *)

LEMMA Invariance == Spec => []IInv
<1>1. IInv /\ [Next]_vars => IInv' BY StartStep, BytesStep, ReaderStep DEF IInv
<1>. QED BY <1>1, InitInv, PTL DEF Spec

\* The type invariant of the schema, the storage tables, the replicas and the reader, for any
\* number of processes, directories, scripts and artifacts (internal/database,
\* internal/storagecontrol).
THEOREM TypeCorrect == Spec => []TypeOK
<1>1. IInv => TypeOK BY DEF IInv, StartInv
<1>. QED BY <1>1, Invariance, PTL

\* Migrate and BootstrapLegacy (internal/database/database.go:27,
\* internal/storagecontrol/repository.go:653) let any number of processes start together,
\* crash and start again: the holder of the advisory lock applies a script that nobody has
\* applied, so none fails on a script's record, and one that fails is configured with
\* another directory than the legacy profile has.
THEOREM StartsSucceed == Spec => []StartsUnlessMisconfigured
<1>1. IInv => StartsUnlessMisconfigured BY DEF IInv, StartInv, ProfileOk, StartsUnlessMisconfigured
<1>. QED BY <1>1, Invariance, PTL

\* Service.WriteTarget, Service.read, BootstrapLegacy and syncLegacyPublishedTemplates
\* (cmd/server/main.go:191): a process that serves has a default profile, and finds all that
\* was ever finished, by an older release, by a script or by another process, unless a
\* replica of it was damaged; with any number of directories, processes and artifacts.
THEOREM ServedIsFound == Spec => []ServedIsReadable
<1>1. IInv => ServedIsReadable
  <2>. SUFFICES ASSUME IInv, NEW r \in Replica, Serving(r), DirectoryKept
                PROVE  /\ default # None
                       /\ \A x \in finished : Found(r, x) \/ \E l \in Location : <<l, x>> \in hurt
    BY DEF ServedIsReadable
  <2>1. default # None /\ Dir[r] \in Location /\ \A p \in Profile : Where(p) \in Location
    BY ServingWhere, StartupAssumption DEF IInv, Serving, At, Adopted, Location
  <2>2. ASSUME NEW x \in finished, \A l \in Location : <<l, x>> \notin hurt PROVE Found(r, x)
    <3>1. CASE Recorded(x)
      <4>1. PICK p \in Profile : placement[x][p] # "none" BY <3>1 DEF Recorded
      <4>2. Good(Where(p), x) BY <4>1, ServedIsThere DEF IInv
      <4>. QED BY <2>1, <2>2, <3>1, <4>1, <4>2 DEF Found, Good
    <3>2. CASE ~Recorded(x)
      <4>1. Good(Dir[r], x) BY <3>2, ServedIsThere DEF IInv
      <4>. QED BY <2>1, <2>2, <3>2, <4>1 DEF Found, Good
    <3>. QED BY <3>1, <3>2
  <2>. QED BY <2>1, <2>2
<1>. QED BY <1>1, Invariance, PTL

\* Service.read (internal/storagecontrol/service.go:77): whatever is copied, damaged or
\* unreachable meanwhile, a read returns what was recorded, and fails only if everything it
\* knew of was unreachable or has been damaged.
THEOREM ReadsFaithful == Spec => []ReadsAreFaithful
<1>1. IInv => ReadsAreFaithful
  <2>. SUFFICES ASSUME IInv PROVE ReadsAreFaithful OBVIOUS
  <2>1. ReaderOk BY DEF IInv
  <2>2. ASSUME reader.got = "error", DirectoryKept
        PROVE  IF Places = {} THEN <<Dir[reader.by], reader.of>> \in hurt
               ELSE \A p \in Places \ reader.unreachable : <<Where(p), reader.of>> \in hurt
    <3>1. reader.by # None BY <2>1, <2>2 DEF ReaderOk
    <3>2. CASE Places # {}
      <4>1. reader.todo = {} BY <2>1, <2>2, <3>2 DEF ReaderOk
      <4>2. \A p \in Places : PlaceOk(p) BY <2>1, <3>1 DEF ReaderOk
      <4>. QED BY <2>2, <3>2, <4>1, <4>2 DEF PlaceOk
    <3>3. CASE Places = {}
      <4>. QED BY <2>1, <2>2, <3>1, <3>3 DEF ReaderOk, Good
    <3>. QED BY <3>2, <3>3
  <2>. QED BY <2>1, <2>2 DEF ReadsAreFaithful, ReaderOk, Places
<1>. QED BY <1>1, Invariance, PTL

=============================================================================
