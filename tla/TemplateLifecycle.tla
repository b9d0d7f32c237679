-------------------------- MODULE TemplateLifecycle --------------------------
(***************************************************************************)
(* The versions of one template: draft -> approved -> published            *)
(* (internal/templates/templates.go and the handlers of                    *)
(* internal/api/templates.go), their asset manifests, and the object a     *)
(* publication stores.                                                     *)
(*                                                                         *)
(* Writes to a version are one statement or one transaction that holds the *)
(* version's row lock: one action.  Approval and publication read, work    *)
(* for seconds and write at the end, so they are requests that go step by  *)
(* step and may stop anywhere.  Source and sample data always travel       *)
(* together and are one Text; schema and schema hash are a function of it. *)
(***************************************************************************)
EXTENDS Naturals, FiniteSets, FiniteSetsExt

CONSTANTS
  Text,        \* what a version's source and sample data may be
  File,        \* asset file names
  Content,     \* asset contents, named by digest
  SizeOf,      \* bytes of each content
  Compiles,    \* the pairs <<text, manifest>> that pass analysis and render
  Request,     \* approvals and publications in progress
  MaxVersion,  \* bound: version numbers
  MaxRevision, \* bound: asset changes of one draft
  MaxAssets,   \* templates.MaxVersionAssets
  MaxBytes,    \* templates.MaxVersionAssetBytes
  None         \* no asset of that name

Version  == 1..MaxVersion
Manifest == [File -> Content \cup {None}]

ASSUME TemplateAssumption ==
  /\ SizeOf \in [Content -> Nat \ {0}]
  /\ Compiles \subseteq Text \X Manifest
  /\ {MaxVersion, MaxRevision, MaxAssets, MaxBytes} \subseteq Nat
  /\ None \notin Content \cup Text

VARIABLES
  versions,  \* template_versions, and template_version_assets as a manifest
  stored,    \* text of the object under the version's storage key
  recorded,  \* text of the version's storage_objects row
  request,   \* handlers of approveTemplateVersion and publishTemplateVersion
  reused     \* history: version numbers given to a second draft

vars == <<versions, stored, recorded, request, reused>>

Empty == [f \in File |-> None]
NoRow == [status |-> "none", text |-> None, revision |-> 0, assets |-> Empty]

Candidate == {"draft", "approved"}
Locked    == {"approved", "published"}

IdleRequest == [pc |-> "idle", v |-> 0, text |-> None, revision |-> 0, assets |-> Empty]

TypeOK ==
  /\ versions \in [Version -> [status : {"none", "published"} \cup Candidate, text : Text \cup {None},
                               revision : 0..MaxRevision, assets : Manifest]]
  /\ Cardinality({v \in Version : versions[v].status \in Candidate}) <= 1
  /\ stored   \in [Version -> Text \cup {None}]
  /\ recorded \in [Version -> Text \cup {None}]
  /\ request  \in [Request -> [pc : {"idle", "assets", "render", "put", "record", "publish"},
                               v : Version \cup {0}, text : Text \cup {None},
                               revision : 0..MaxRevision, assets : Manifest]]
  /\ reused   \in SUBSET Version

Init ==
  /\ versions = [v \in Version |-> NoRow]
  /\ stored   = [v \in Version |-> None]
  /\ recorded = [v \in Version |-> None]
  /\ request  = [r \in Request |-> IdleRequest]
  /\ reused   = {}

Exists(v)  == versions[v].status # "none"
IsDraft(v) == versions[v].status = "draft"
Newest     == Max({0} \cup {v \in Version : Exists(v)})

Count(manifest) == Cardinality({f \in File : manifest[f] # None})
Bytes(manifest) == MapThenSumSet(LAMBDA f : IF manifest[f] = None THEN 0 ELSE SizeOf[manifest[f]], File)

-----------------------------------------------------------------------------
(* Editing.                                                                *)

\* Mutant: without the unique index.
InsertAnotherDraft(text, assets) ==
  LET v == Newest + 1 IN
  /\ v \in Version
  /\ versions' = [versions EXCEPT ![v] =
       [status |-> "draft", text |-> text, assets |-> assets,
        revision |-> IF assets = Empty THEN 0 ELSE 1]]
  /\ UNCHANGED <<stored, recorded, request, reused>>

\* The next number, drawn under the template's row lock; the unique index admits one
\* draft or approved version.  A discarded draft's number is given out again.
InsertDraft(text, assets) ==
  LET v == Newest + 1 IN
  /\ v \in Version
  /\ \A x \in Version : versions[x].status \notin Candidate
  /\ versions' = [versions EXCEPT ![v] =
       [status |-> "draft", text |-> text, assets |-> assets,
        revision |-> IF assets = Empty THEN 0 ELSE 1]]
  /\ UNCHANGED <<stored, recorded, request, reused>>

\* Create, or CreateVersion without a base.
CreateDraft(text) == InsertDraft(text, Empty)

\* CreateVersion with a base inherits its manifest.
CreateFrom(base, text) == Exists(base) /\ InsertDraft(text, versions[base].assets)

\* Mutant: the status is not tested; the trigger protects published rows only.
UpdateAnyVersion(v, text) ==
  /\ versions[v].status \in Candidate
  /\ versions' = [versions EXCEPT ![v].text = text]
  /\ UNCHANGED <<stored, recorded, request, reused>>

\* UpdateDraft replaces source and sample whatever they have become meanwhile.
UpdateDraft(v, text) ==
  /\ IsDraft(v)
  /\ versions' = [versions EXCEPT ![v].text = text]
  /\ UNCHANGED <<stored, recorded, request, reused>>

\* DeleteDraft; the manifest goes with the row.
DeleteDraft(v) ==
  /\ IsDraft(v)
  /\ versions' = [versions EXCEPT ![v] = NoRow]
  /\ reused' = reused \cup {v}
  /\ UNCHANGED <<stored, recorded, request>>

\* The limits of StoreDraftAsset and CheckAssetCapacity.
Fits(manifest, f, c) ==
  LET existing == IF manifest[f] = None THEN 0 ELSE SizeOf[manifest[f]] IN
  /\ existing # 0 \/ Count(manifest) < MaxAssets
  /\ Bytes(manifest) - existing + SizeOf[c] <= MaxBytes

\* StoreDraftAsset: the object is stored before the manifest names it, under its digest,
\* so a failure leaves an unused object at most.
StoreDraftAsset(v, f, c) ==
  /\ IsDraft(v) /\ Fits(versions[v].assets, f, c)
  /\ versions[v].revision < MaxRevision
  /\ versions' = [versions EXCEPT ![v].assets[f] = c, ![v].revision = @ + 1]
  /\ UNCHANGED <<stored, recorded, request, reused>>

DeleteDraftAsset(v, f) ==
  /\ IsDraft(v) /\ versions[v].assets[f] # None
  /\ versions[v].revision < MaxRevision
  /\ versions' = [versions EXCEPT ![v].assets[f] = None, ![v].revision = @ + 1]
  /\ UNCHANGED <<stored, recorded, request, reused>>

-----------------------------------------------------------------------------
(* Approval.                                                               *)

At(r, pc) == request[r].pc = pc

BeginApproval(r, v) ==
  /\ At(r, "idle") /\ IsDraft(v)
  /\ request' = [request EXCEPT ![r] = [IdleRequest EXCEPT !.pc = "assets", !.v = v,
                   !.text = versions[v].text, !.revision = versions[v].revision]]
  /\ UNCHANGED <<versions, stored, recorded, reused>>

\* renderAssets reads the manifest as it is now, which may be a later one.
ReadAssets(r) ==
  /\ At(r, "assets") /\ Exists(request[r].v)
  /\ request' = [request EXCEPT ![r].pc = "render", ![r].assets = versions[request[r].v].assets]
  /\ UNCHANGED <<versions, stored, recorded, reused>>

\* Mutant: Approve without the assets_revision test.
ApproveAnyRevision(r) ==
  LET v == request[r].v IN
  /\ At(r, "render") /\ <<request[r].text, request[r].assets>> \in Compiles
  /\ versions' = IF IsDraft(v) /\ versions[v].text = request[r].text
                   THEN [versions EXCEPT ![v].status = "approved"] ELSE versions
  /\ request' = [request EXCEPT ![r] = IdleRequest]
  /\ UNCHANGED <<stored, recorded, reused>>

\* What was read compiles.  Approve then succeeds only if the row is a draft with the
\* source, sample and asset revision read at the beginning.
Approve(r) ==
  LET v == request[r].v IN
  /\ At(r, "render") /\ <<request[r].text, request[r].assets>> \in Compiles
  /\ versions' = IF /\ IsDraft(v) /\ versions[v].text = request[r].text
                    /\ versions[v].revision = request[r].revision
                   THEN [versions EXCEPT ![v].status = "approved"] ELSE versions
  /\ request' = [request EXCEPT ![r] = IdleRequest]
  /\ UNCHANGED <<stored, recorded, reused>>

-----------------------------------------------------------------------------
(* Publication.                                                            *)

\* Mutant: publication may start from a draft.
BeginPublishAny(r, v) ==
  /\ At(r, "idle") /\ versions[v].status \in Candidate
  /\ request' = [request EXCEPT ![r] = [IdleRequest EXCEPT !.pc = "put", !.v = v,
                                                           !.text = versions[v].text]]
  /\ UNCHANGED <<versions, stored, recorded, reused>>

BeginPublish(r, v) ==
  /\ At(r, "idle") /\ versions[v].status = "approved"
  /\ request' = [request EXCEPT ![r] = [IdleRequest EXCEPT !.pc = "put", !.v = v,
                                                           !.text = versions[v].text]]
  /\ UNCHANGED <<versions, stored, recorded, reused>>

StoreArtifact(r) ==
  /\ At(r, "put")
  /\ stored' = [stored EXCEPT ![request[r].v] = request[r].text]
  /\ request' = [request EXCEPT ![r].pc = "record"]
  /\ UNCHANGED <<versions, recorded, reused>>

\* RecordTemplateArtifact: an upsert; the row of an earlier publication attempt is renewed.
\* The foreign key refuses a version that is gone.
RecordTemplateArtifact(r) ==
  /\ At(r, "record") /\ Exists(request[r].v)
  /\ recorded' = [recorded EXCEPT ![request[r].v] = request[r].text]
  /\ request' = [request EXCEPT ![r].pc = "publish"]
  /\ UNCHANGED <<versions, stored, reused>>

Publish(r) ==
  LET v == request[r].v IN
  /\ At(r, "publish")
  /\ versions' = IF versions[v].status = "approved"
                   THEN [versions EXCEPT ![v].status = "published"] ELSE versions
  /\ request' = [request EXCEPT ![r] = IdleRequest]
  /\ UNCHANGED <<stored, recorded, reused>>

\* A check fails, the storage or the database fails, or the process dies.  A failed Put
\* may have stored the object.
GiveUp(r) ==
  /\ ~At(r, "idle")
  /\ request' = [request EXCEPT ![r] = IdleRequest]
  /\ stored' \in {stored, IF At(r, "put") THEN [stored EXCEPT ![request[r].v] = request[r].text]
                                          ELSE stored}
  /\ UNCHANGED <<versions, recorded, reused>>

-----------------------------------------------------------------------------

Next ==
  \/ \E t \in Text : CreateDraft(t) \/ \E b \in Version : CreateFrom(b, t)
  \/ \E v \in Version, t \in Text : UpdateDraft(v, t)
  \/ \E v \in Version : DeleteDraft(v)
  \/ \E v \in Version, f \in File : DeleteDraftAsset(v, f) \/ \E c \in Content : StoreDraftAsset(v, f, c)
  \/ \E r \in Request, v \in Version : BeginApproval(r, v) \/ BeginPublish(r, v)
  \/ \E r \in Request : \/ ReadAssets(r) \/ Approve(r) \/ StoreArtifact(r)
                        \/ RecordTemplateArtifact(r) \/ Publish(r) \/ GiveUp(r)

Spec == Init /\ [][Next]_vars

-----------------------------------------------------------------------------
(* Properties.                                                             *)

\* Approved versions are locked and published ones immutable (README.md:327): whatever
\* edits, uploads and approvals were under way, source, sample and manifest stay.
ApprovedIsFrozen ==
  [][\A v \in Version : versions[v].status \in Locked =>
       /\ versions'[v].status \in Locked
       /\ versions[v].status = "published" => versions'[v].status = "published"
       /\ versions'[v].text = versions[v].text
       /\ versions'[v].assets = versions[v].assets]_vars

CompiledAsApproved(v) ==
  versions[v].status \in Locked => <<versions[v].text, versions[v].assets>> \in Compiles

\* "Template must compile before approval" (internal/api/templates.go:236): the source,
\* sample and assets that were approved are those that compiled together, although the
\* three are read at different times.  The exception is a number whose first draft was
\* discarded: asset revisions start again, and an approval of the old draft can land on
\* a new one with the same source and the same number of asset changes.
CompiledUnlessReused == \A v \in Version : v \notin reused => CompiledAsApproved(v)

\* A published version's artifact is recorded and stored, and is the approved source,
\* whichever of several publications got how far.
PublishedIsStored ==
  \A v \in Version : versions[v].status = "published" =>
    stored[v] = versions[v].text /\ recorded[v] = versions[v].text

=============================================================================
