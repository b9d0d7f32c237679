----------------------- MODULE TemplateLifecycle_proofs -----------------------
(***************************************************************************)
(* Theorems about the versions of a template, for any texts, files and     *)
(* contents, and any number of versions, edits, approvals, publications    *)
(* and failures.                                                           *)
(***************************************************************************)
EXTENDS TemplateLifecycle, FiniteSetTheorems, WellFoundedInduction, TLAPS

Row == [status : {"none", "published"} \cup Candidate, text : Text \cup {None},
        revision : 0..MaxRevision, assets : Manifest]

RequestRow == [pc : {"idle", "assets", "render", "put", "record", "publish"},
               v : Version \cup {0}, text : Text \cup {None},
               revision : 0..MaxRevision, assets : Manifest]

\* The types without the cardinality: what the unique index admits is said with two versions.
Types ==
  /\ versions \in [Version -> Row]
  /\ stored   \in [Version -> Text \cup {None}]
  /\ recorded \in [Version -> Text \cup {None}]
  /\ request  \in [Request -> RequestRow]
  /\ reused   \in SUBSET Version

IsCandidate(v) == versions[v].status \in Candidate

OneCandidate == \A v, w \in Version : IsCandidate(v) /\ IsCandidate(w) => v = w

\* A manifest that names a file took a revision to get there.
Revised == \A v \in Version : versions[v].assets # Empty => versions[v].revision > 0

\* An approval holds an asset revision that was the version's, and a manifest that is the
\* version's if the revision still is; unless the number went to another draft.
ApprovalOk(q) ==
  q.pc \in {"assets", "render"} =>
    /\ q.v \in Version
    /\ q.v \notin reused =>
         /\ Exists(q.v)
         /\ versions[q.v].revision >= q.revision
         /\ q.pc = "render" /\ versions[q.v].revision = q.revision => versions[q.v].assets = q.assets

\* A publication holds the text of a locked version, and has left what its steps so far leave.
PublicationOk(q) ==
  q.pc \in {"put", "record", "publish"} =>
    /\ q.v \in Version
    /\ versions[q.v].status \in Locked /\ versions[q.v].text = q.text
    /\ q.pc \in {"record", "publish"} => stored[q.v] = q.text
    /\ q.pc = "publish" => recorded[q.v] = q.text

RequestOk(q) == ApprovalOk(q) /\ PublicationOk(q)

IInv ==
  /\ Types
  /\ OneCandidate
  /\ Revised
  /\ \A r \in Request : RequestOk(request[r])
  /\ CompiledUnlessReused
  /\ PublishedIsStored

-----------------------------------------------------------------------------
(* The number a new version gets.                                          *)

Less == {p \in Nat \X Nat : p[1] < p[2]}

LEMMA LessWellFounded == IsWellFoundedOn(Less, Nat)
BY NatLessThanWellFounded DEF OpToRel, Less

LEMMA GreatestInSet ==
  ASSUME NEW n \in Nat, NEW S \in SUBSET (0 .. n), S # {}
  PROVE  Max(S) \in S /\ \A x \in S : x =< Max(S)
<1>. DEFINE T == {m \in 0 .. n : n - m \in S}
<1>0. T \in SUBSET Nat OBVIOUS
<1>1. T # {}
  <2>1. PICK x \in S : TRUE OBVIOUS
  <2>2. n - x \in 0 .. n /\ n - (n - x) = x OBVIOUS
  <2>. QED BY <2>1, <2>2
<1>2. PICK m \in T : \A y \in T : <<y, m>> \notin Less BY <1>0, <1>1, LessWellFounded, WFMin
<1>3. ASSUME NEW x \in S PROVE n - m >= x
  <2>1. n - x \in 0 .. n /\ n - (n - x) = x OBVIOUS
  <2>2. n - x \in T BY <2>1
  <2>3. ~ (n - x < m) BY <1>0, <1>2, <2>2 DEF Less
  <2>. QED BY <2>1, <2>3
<1>4. n - m \in S OBVIOUS
<1>5. \E x \in S : \A y \in S : x >= y BY <1>3, <1>4
<1>. QED BY <1>5 DEF Max

LEMMA NewNumberFree ==
  ASSUME NEW v \in Version, v = Newest + 1 PROVE ~Exists(v)
<1>. DEFINE S == {0} \cup {x \in Version : Exists(x)}
<1>1. MaxVersion \in Nat /\ S \in SUBSET (0 .. MaxVersion) /\ S # {}
  BY TemplateAssumption DEF Version
<1>2. Newest = Max(S) BY DEF Newest
<1>. HIDE DEF S
<1>3. Max(S) \in 0 .. MaxVersion /\ \A x \in S : x =< Max(S) BY <1>1, GreatestInSet
<1>4. v \notin S BY <1>2, <1>3
<1>. QED BY <1>4 DEF S

-----------------------------------------------------------------------------
(* Editing.                                                                *)

\* A row that is not locked becomes another that is not locked.  Unless the number is given
\* up by it, asset revisions go up whenever the manifest changes.
Edit(v, row) ==
  /\ versions' = [versions EXCEPT ![v] = row]
  /\ UNCHANGED <<stored, recorded, request>>
  /\ reused \subseteq reused' /\ reused' \in SUBSET Version
  /\ versions[v].status \notin Locked /\ row.status \notin Locked
  /\ row.assets # Empty => row.revision > 0
  /\ row.status \in Candidate => \A x \in Version : IsCandidate(x) => x = v
  /\ v \notin reused' /\ Exists(v) =>
       /\ row.status # "none" /\ row.revision >= versions[v].revision
       /\ row.revision = versions[v].revision => row.assets = versions[v].assets

LEMMA EditInv ==
  ASSUME IInv, NEW v \in Version, NEW row \in Row, Edit(v, row) PROVE IInv'
<1>. USE DEF IInv
<1>1. /\ versions' \in [Version -> Row] /\ versions'[v] = row
      /\ \A x \in Version \ {v} : versions'[x] = versions[x]
  BY DEF Types, Edit
<1>2. Types' BY <1>1 DEF Types, Edit
<1>3. OneCandidate' BY <1>1 DEF OneCandidate, IsCandidate, Edit
<1>4. Revised' BY <1>1 DEF Revised, Edit
<1>5. ASSUME NEW r \in Request PROVE RequestOk(request[r])'
  <2>. DEFINE q == request[r]
  <2>1. q' = q /\ q \in RequestRow /\ RequestOk(q) BY DEF Types, Edit
  <2>. HIDE DEF q
  <2>2. ApprovalOk(q)'
    <3>. SUFFICES ASSUME q.pc \in {"assets", "render"}, q.v \notin reused'
                  PROVE  /\ versions'[q.v].status # "none"
                         /\ versions'[q.v].revision >= q.revision
                         /\ q.pc = "render" /\ versions'[q.v].revision = q.revision
                              => versions'[q.v].assets = q.assets
      BY <2>1 DEF ApprovalOk, RequestOk, Exists
    <3>1. /\ q.v \in Version /\ Exists(q.v) /\ versions[q.v].revision >= q.revision
          /\ q.pc = "render" /\ versions[q.v].revision = q.revision => versions[q.v].assets = q.assets
      BY <2>1 DEF RequestOk, ApprovalOk, Edit
    <3>2. CASE q.v # v BY <1>1, <3>1, <3>2 DEF Exists
    <3>3. CASE q.v = v
      <4>1. /\ row.status # "none" /\ row.revision >= versions[v].revision
            /\ row.revision = versions[v].revision => row.assets = versions[v].assets
        BY <3>1, <3>3 DEF Edit
      <4>2. row.revision \in Nat /\ versions[v].revision \in Nat /\ q.revision \in Nat
        BY <2>1, TemplateAssumption DEF Row, RequestRow, Types
      <4>3. row.revision >= q.revision BY <3>1, <3>3, <4>1, <4>2
      <4>4. row.revision = q.revision => versions[v].revision = q.revision
        BY <3>1, <3>3, <4>1, <4>2
      <4>. QED BY <1>1, <3>1, <3>3, <4>1, <4>3, <4>4 DEF Exists
    <3>. QED BY <3>2, <3>3
  <2>3. PublicationOk(q)' BY <1>1, <2>1 DEF RequestOk, PublicationOk, Edit
  <2>. QED BY <2>2, <2>3 DEF RequestOk, q
<1>6. CompiledUnlessReused' BY <1>1 DEF CompiledUnlessReused, CompiledAsApproved, Edit
<1>7. PublishedIsStored' BY <1>1 DEF PublishedIsStored, Edit, Locked
<1>. QED BY <1>2, <1>3, <1>4, <1>5, <1>6, <1>7

LEMMA EmptyManifest == Empty \in Manifest
BY DEF Empty, Manifest

LEMMA NoRowIsRow == NoRow \in Row /\ NoRow.assets = Empty /\ NoRow.status = "none"
BY EmptyManifest, TemplateAssumption DEF NoRow, Row

\* A draft and the row made of it, with one field or two replaced.
LEMMA RowOf ==
  ASSUME Types, NEW v \in Version
  PROVE  /\ versions[v] \in Row
         /\ versions[v] = [status |-> versions[v].status, text |-> versions[v].text,
                           revision |-> versions[v].revision, assets |-> versions[v].assets]
BY DEF Types, Row

LEMMA InsertInv ==
  ASSUME IInv, NEW text \in Text, NEW assets \in Manifest, InsertDraft(text, assets),
         assets # Empty => MaxRevision > 0
  PROVE  IInv'
<1>. DEFINE v == Newest + 1
            row == [status |-> "draft", text |-> text, assets |-> assets,
                    revision |-> IF assets = Empty THEN 0 ELSE 1]
<1>1. v \in Version /\ versions' = [versions EXCEPT ![v] = row]
      /\ UNCHANGED <<stored, recorded, request, reused>>
      /\ \A x \in Version : versions[x].status \notin Candidate
  BY DEF InsertDraft
<1>. HIDE DEF v
<1>2. ~Exists(v) BY <1>1, NewNumberFree DEF v
<1>3. row.revision \in 0 .. MaxRevision BY TemplateAssumption
<1>4. row \in Row BY <1>3 DEF Row, Candidate
<1>5. Edit(v, row)
  BY <1>1, <1>2, <1>3 DEF Edit, Exists, Locked, IsCandidate, IInv, Types
<1>. QED BY <1>1, <1>4, <1>5, EditInv

LEMMA CreateFromInv ==
  ASSUME IInv, NEW b \in Version, NEW t \in Text, CreateFrom(b, t) PROVE IInv'
<1>1. versions[b].assets \in Manifest BY RowOf DEF IInv, Row
<1>2. versions[b].assets # Empty => MaxRevision > 0
  BY TemplateAssumption DEF IInv, Types, Revised, Row
<1>. QED BY <1>1, <1>2, InsertInv DEF CreateFrom

LEMMA UpdateDraftInv ==
  ASSUME IInv, NEW v \in Version, NEW t \in Text, UpdateDraft(v, t) PROVE IInv'
<1>. DEFINE row == [versions[v] EXCEPT !.text = t]
<1>1. /\ versions' = [versions EXCEPT ![v] = row] /\ UNCHANGED <<stored, recorded, request, reused>>
      /\ versions[v].status = "draft"
  BY DEF UpdateDraft, IsDraft
<1>2. /\ row \in Row /\ row.status = "draft" /\ row.revision = versions[v].revision
      /\ row.assets = versions[v].assets
  BY <1>1, RowOf DEF IInv, Row
<1>. HIDE DEF row
<1>3. row.revision \in Nat BY <1>2, TemplateAssumption DEF Row
<1>4. Edit(v, row)
  BY <1>1, <1>2, <1>3 DEF Edit, IInv, Types, Revised, OneCandidate, IsCandidate, Candidate, Locked
<1>. QED BY <1>2, <1>4, EditInv

LEMMA DeleteDraftInv == ASSUME IInv, NEW v \in Version, DeleteDraft(v) PROVE IInv'
<1>1. Edit(v, NoRow)
  BY NoRowIsRow DEF DeleteDraft, IsDraft, Edit, IInv, Types, Locked, Candidate
<1>. QED BY <1>1, NoRowIsRow, EditInv

\* Storing an asset, and deleting one.
LEMMA AssetInv ==
  ASSUME IInv, NEW v \in Version, NEW f \in File, NEW c \in Content \cup {None},
         IsDraft(v), versions[v].revision < MaxRevision,
         versions' = [versions EXCEPT ![v].assets[f] = c, ![v].revision = @ + 1],
         UNCHANGED <<stored, recorded, request, reused>>
  PROVE  IInv'
<1>. DEFINE row == [versions[v] EXCEPT !.assets[f] = c, !.revision = @ + 1]
<1>1. versions' = [versions EXCEPT ![v] = row] BY DEF IInv, Types
<1>2. /\ versions[v] \in Row /\ row.status = "draft" /\ row.text = versions[v].text
      /\ row.revision = versions[v].revision + 1
      /\ row.assets = [versions[v].assets EXCEPT ![f] = c]
  BY RowOf DEF IInv, IsDraft, Row
<1>3. versions[v].revision \in 0 .. MaxRevision BY <1>2 DEF Row
<1>4. row.assets \in Manifest BY <1>2 DEF Row, Manifest
<1>5. row.revision \in 0 .. MaxRevision BY <1>2, <1>3, TemplateAssumption
<1>6. row \in Row BY <1>2, <1>4, <1>5 DEF Row, Candidate
<1>. HIDE DEF row
<1>7. /\ row.revision > 0 /\ row.revision >= versions[v].revision
      /\ row.revision # versions[v].revision
  BY <1>2, <1>3
<1>8. Edit(v, row)
  BY <1>1, <1>2, <1>7
     DEF Edit, IsDraft, IInv, Types, Revised, OneCandidate, IsCandidate, Candidate, Locked
<1>. QED BY <1>6, <1>8, EditInv

LEMMA AssetsInv ==
  ASSUME IInv, NEW v \in Version, NEW f \in File,
         DeleteDraftAsset(v, f) \/ \E c \in Content : StoreDraftAsset(v, f, c)
  PROVE  IInv'
BY AssetInv DEF DeleteDraftAsset, StoreDraftAsset

-----------------------------------------------------------------------------
(* Approval and publication.                                               *)

\* What the steps of the requests have in common: statuses go forward, sources and manifests
\* stay, and what is stored or recorded for a version is a locked version's text.
Forward(old, new) == new = old \/ <<old, new>> \in {<<"draft", "approved">>, <<"approved", "published">>}

World ==
  /\ Types'
  /\ reused' = reused
  /\ \A v \in Version :
       /\ Forward(versions[v].status, versions'[v].status)
       /\ versions'[v].text = versions[v].text /\ versions'[v].assets = versions[v].assets
       /\ versions'[v].revision = versions[v].revision
       /\ \/ stored'[v] = stored[v]
          \/ versions[v].status \in Locked /\ stored'[v] = versions[v].text
       /\ \/ recorded'[v] = recorded[v]
          \/ versions[v].status \in Locked /\ recorded'[v] = versions[v].text

LEMMA WorldKeeps ==
  ASSUME World, NEW q \in RequestRow, RequestOk(q) PROVE RequestOk(q)'
<1>1. \A v \in Version : /\ versions[v].status \in Locked => versions'[v].status \in Locked
                         /\ versions[v].status # "none" => versions'[v].status # "none"
  BY DEF World, Forward, Locked
<1>2. ApprovalOk(q)' BY <1>1 DEF World, RequestOk, ApprovalOk, Exists
<1>3. PublicationOk(q)' BY <1>1 DEF World, RequestOk, PublicationOk
<1>. QED BY <1>2, <1>3 DEF RequestOk

\* A step of one request; what it approves has compiled, what it publishes is there.
LEMMA RequestInv ==
  ASSUME IInv, World, NEW r \in Request, NEW q \in RequestRow,
         request' = [request EXCEPT ![r] = q], RequestOk(q)',
         \A v \in Version : versions'[v].status = "approved" /\ versions[v].status = "draft"
                             => v \in reused \/ <<versions[v].text, versions[v].assets>> \in Compiles,
         \A v \in Version : versions'[v].status = "published" /\ versions[v].status = "approved"
                             => stored[v] = versions[v].text /\ recorded[v] = versions[v].text
  PROVE  IInv'
<1>1. Types' BY DEF World
<1>2. OneCandidate'
  <2>1. \A v \in Version : versions'[v].status \in Candidate => versions[v].status \in Candidate
    BY DEF World, Forward, Candidate
  <2>. QED BY <2>1 DEF IInv, OneCandidate, IsCandidate
<1>3. Revised' BY DEF IInv, Revised, World
<1>4. ASSUME NEW x \in Request PROVE RequestOk(request[x])'
  <2>1. CASE x = r BY <2>1 DEF IInv, Types, RequestOk, ApprovalOk, PublicationOk, Exists
  <2>2. CASE x # r
    <3>1. request'[x] = request[x] /\ request[x] \in RequestRow /\ RequestOk(request[x])
      BY <2>2 DEF IInv, Types
    <3>2. DEFINE y == request[x]
    <3>3. RequestOk(y)
      BY <3>1
    <3>. QED BY <3>1, WorldKeeps DEF RequestOk, ApprovalOk, PublicationOk, Exists
  <2>. QED BY <2>1, <2>2
<1>5. CompiledUnlessReused'
  BY DEF World, Forward, IInv, CompiledUnlessReused, CompiledAsApproved, Locked
<1>6. PublishedIsStored' BY DEF World, Forward, IInv, PublishedIsStored, Locked
<1>. QED BY <1>1, <1>2, <1>3, <1>4, <1>5, <1>6 DEF IInv

LEMMA QuietWorld ==
  ASSUME IInv, UNCHANGED <<versions, stored, recorded, reused>>,
         request' \in [Request -> RequestRow]
  PROVE  World
BY DEF IInv, Types, World, Forward

LEMMA IdleRequestOk == IdleRequest \in RequestRow /\ IdleRequest.pc = "idle"
BY EmptyManifest, TemplateAssumption DEF IdleRequest, RequestRow

\* A step that moves one request and nothing else.
LEMMA QuietInv ==
  ASSUME IInv, NEW r \in Request, NEW q \in RequestRow, request' = [request EXCEPT ![r] = q],
         UNCHANGED <<versions, stored, recorded, reused>>, RequestOk(q)
  PROVE  IInv'
<1>1. World BY QuietWorld DEF IInv, Types
<1>2. RequestOk(q)' BY <1>1, WorldKeeps
<1>. QED BY <1>1, <1>2, RequestInv

LEMMA BeginInv ==
  ASSUME IInv, NEW r \in Request, NEW v \in Version, BeginApproval(r, v) \/ BeginPublish(r, v)
  PROVE  IInv'
<1>0. versions[v] \in Row BY RowOf DEF IInv
<1>1. CASE BeginApproval(r, v)
  <2>. DEFINE q == [IdleRequest EXCEPT !.pc = "assets", !.v = v, !.text = versions[v].text,
                                       !.revision = versions[v].revision]
  <2>1. /\ q \in RequestRow /\ q.pc = "assets" /\ q.v = v /\ q.revision = versions[v].revision
    BY <1>0, IdleRequestOk DEF IdleRequest, RequestRow, Row
  <2>2. request' = [request EXCEPT ![r] = q] /\ UNCHANGED <<versions, stored, recorded, reused>>
        /\ versions[v].status = "draft"
    BY <1>1 DEF BeginApproval, IsDraft
  <2>. HIDE DEF q
  <2>3. RequestOk(q)
    BY <1>0, <2>1, <2>2, TemplateAssumption DEF RequestOk, ApprovalOk, PublicationOk, Exists, Row
  <2>. QED BY <2>1, <2>2, <2>3, QuietInv
<1>2. CASE BeginPublish(r, v)
  <2>. DEFINE q == [IdleRequest EXCEPT !.pc = "put", !.v = v, !.text = versions[v].text]
  <2>1. /\ q \in RequestRow /\ q.pc = "put" /\ q.v = v /\ q.text = versions[v].text
    BY <1>0, IdleRequestOk DEF IdleRequest, RequestRow, Row
  <2>2. request' = [request EXCEPT ![r] = q] /\ UNCHANGED <<versions, stored, recorded, reused>>
        /\ versions[v].status \in Locked
    BY <1>2 DEF BeginPublish, Locked
  <2>. HIDE DEF q
  <2>3. RequestOk(q) BY <2>1, <2>2 DEF RequestOk, ApprovalOk, PublicationOk
  <2>. QED BY <2>1, <2>2, <2>3, QuietInv
<1>. QED BY <1>1, <1>2

LEMMA RequestFields ==
  ASSUME IInv, NEW r \in Request
  PROVE  request[r] \in RequestRow /\ RequestOk(request[r])
BY DEF IInv, Types

LEMMA ReadAssetsInv == ASSUME IInv, NEW r \in Request, ReadAssets(r) PROVE IInv'
<1>. DEFINE old == request[r]
            q == [old EXCEPT !.pc = "render", !.assets = versions[old.v].assets]
<1>1. old \in RequestRow /\ RequestOk(old) /\ old.pc = "assets" BY RequestFields DEF ReadAssets, At
<1>2. old.v \in Version BY <1>1 DEF RequestOk, ApprovalOk
<1>3. versions[old.v] \in Row BY <1>2, RowOf DEF IInv
<1>4. /\ q \in RequestRow /\ q.pc = "render" /\ q.v = old.v /\ q.revision = old.revision
      /\ q.assets = versions[old.v].assets
  BY <1>1, <1>3 DEF RequestRow, Row
<1>5. request' = [request EXCEPT ![r] = q] /\ UNCHANGED <<versions, stored, recorded, reused>>
  BY DEF ReadAssets, IInv, Types
<1>. HIDE DEF q, old
<1>6. RequestOk(q) BY <1>1, <1>2, <1>4 DEF RequestOk, ApprovalOk, PublicationOk
<1>. QED BY <1>4, <1>5, <1>6, QuietInv

\* What Approve and Publish do to the row: a status.
LEMMA StatusWorld ==
  ASSUME IInv, NEW v \in Version, NEW s \in {"approved", "published"}, Forward(versions[v].status, s),
         versions' = [versions EXCEPT ![v].status = s], UNCHANGED <<stored, recorded, reused>>,
         request' \in [Request -> RequestRow]
  PROVE  World /\ versions'[v].status = s /\ \A x \in Version \ {v} : versions'[x] = versions[x]
<1>. DEFINE row == [versions[v] EXCEPT !.status = s]
<1>1. /\ row \in Row /\ row.status = s /\ row.text = versions[v].text
      /\ row.assets = versions[v].assets /\ row.revision = versions[v].revision
  BY RowOf DEF IInv, Row, Candidate
<1>2. versions' = [versions EXCEPT ![v] = row] BY DEF IInv, Types
<1>. HIDE DEF row
<1>3. /\ versions' \in [Version -> Row] /\ versions'[v] = row
      /\ \A x \in Version \ {v} : versions'[x] = versions[x]
  BY <1>1, <1>2 DEF IInv, Types
<1>4. Types' BY <1>3 DEF IInv, Types
<1>5. World BY <1>1, <1>3, <1>4 DEF World, Forward
<1>. QED BY <1>1, <1>3, <1>5

LEMMA ApproveInv == ASSUME IInv, NEW r \in Request, Approve(r) PROVE IInv'
<1>. DEFINE q == request[r]
            v == q.v
<1>1. /\ q \in RequestRow /\ RequestOk(q) /\ q.pc = "render" /\ <<q.text, q.assets>> \in Compiles
      /\ request' = [request EXCEPT ![r] = IdleRequest] /\ UNCHANGED <<stored, recorded, reused>>
  BY RequestFields DEF Approve, At
<1>2. v \in Version BY <1>1 DEF RequestOk, ApprovalOk
<1>3. request' \in [Request -> RequestRow] BY <1>1, IdleRequestOk DEF IInv, Types
<1>4. RequestOk(IdleRequest)' BY IdleRequestOk DEF RequestOk, ApprovalOk, PublicationOk
<1>5. CASE versions' = versions
  <2>1. RequestOk(IdleRequest) BY IdleRequestOk DEF RequestOk, ApprovalOk, PublicationOk
  <2>. QED BY <1>1, <1>5, <2>1, IdleRequestOk, QuietInv
<1>6. CASE versions' # versions
  <2>1. /\ versions[v].status = "draft" /\ versions[v].text = q.text
        /\ versions[v].revision = q.revision
        /\ versions' = [versions EXCEPT ![v].status = "approved"]
    BY <1>6 DEF Approve, IsDraft
  <2>2. /\ World /\ versions'[v].status = "approved"
        /\ \A x \in Version \ {v} : versions'[x] = versions[x]
    BY <1>1, <1>2, <1>3, <2>1, StatusWorld DEF Forward
  <2>3. v \in reused \/ versions[v].assets = q.assets BY <1>1, <2>1 DEF RequestOk, ApprovalOk
  <2>4. ASSUME NEW x \in Version, versions'[x].status = "approved", versions[x].status = "draft"
        PROVE  x \in reused \/ <<versions[x].text, versions[x].assets>> \in Compiles
    BY <1>1, <2>1, <2>2, <2>3, <2>4
  <2>5. ASSUME NEW x \in Version, versions'[x].status = "published", versions[x].status = "approved"
        PROVE  FALSE
    BY <2>1, <2>2, <2>5
  <2>. QED BY <1>1, <1>4, <2>2, <2>4, <2>5, IdleRequestOk, RequestInv
<1>. QED BY <1>5, <1>6

LEMMA PublishInv == ASSUME IInv, NEW r \in Request, Publish(r) PROVE IInv'
<1>. DEFINE q == request[r]
            v == q.v
<1>1. /\ q \in RequestRow /\ RequestOk(q) /\ q.pc = "publish"
      /\ request' = [request EXCEPT ![r] = IdleRequest] /\ UNCHANGED <<stored, recorded, reused>>
  BY RequestFields DEF Publish, At
<1>2. v \in Version /\ stored[v] = versions[v].text /\ recorded[v] = versions[v].text
  BY <1>1 DEF RequestOk, PublicationOk
<1>3. request' \in [Request -> RequestRow] BY <1>1, IdleRequestOk DEF IInv, Types
<1>4. RequestOk(IdleRequest)' BY IdleRequestOk DEF RequestOk, ApprovalOk, PublicationOk
<1>5. CASE versions' = versions
  <2>1. RequestOk(IdleRequest) BY IdleRequestOk DEF RequestOk, ApprovalOk, PublicationOk
  <2>. QED BY <1>1, <1>5, <2>1, IdleRequestOk, QuietInv
<1>6. CASE versions' # versions
  <2>1. versions[v].status = "approved" /\ versions' = [versions EXCEPT ![v].status = "published"]
    BY <1>6 DEF Publish
  <2>2. /\ World /\ versions'[v].status = "published"
        /\ \A x \in Version \ {v} : versions'[x] = versions[x]
    BY <1>1, <1>2, <1>3, <2>1, StatusWorld DEF Forward
  <2>3. ASSUME NEW x \in Version, versions'[x].status = "approved", versions[x].status = "draft"
        PROVE  FALSE
    BY <2>1, <2>2, <2>3
  <2>4. ASSUME NEW x \in Version, versions'[x].status = "published", versions[x].status = "approved"
        PROVE  stored[x] = versions[x].text /\ recorded[x] = versions[x].text
    BY <1>2, <2>1, <2>2, <2>4
  <2>. QED BY <1>1, <1>4, <2>2, <2>3, <2>4, IdleRequestOk, RequestInv
<1>. QED BY <1>5, <1>6

\* A step that stores or records a locked version's text, or neither.
LEMMA BytesInv ==
  ASSUME IInv, NEW r \in Request, NEW q \in RequestRow, request' = [request EXCEPT ![r] = q],
         NEW v \in Version, versions[v].status \in Locked,
         stored' \in {stored, [stored EXCEPT ![v] = versions[v].text]},
         recorded' \in {recorded, [recorded EXCEPT ![v] = versions[v].text]},
         UNCHANGED <<versions, reused>>, RequestOk(q)'
  PROVE  IInv'
<1>1. versions[v].text \in Text \cup {None} BY RowOf DEF IInv, Row
<1>2. /\ stored' \in [Version -> Text \cup {None}] /\ recorded' \in [Version -> Text \cup {None}]
      /\ request' \in [Request -> RequestRow]
  BY <1>1 DEF IInv, Types
<1>3. Types' BY <1>2 DEF IInv, Types
<1>4. World BY <1>3 DEF World, Forward, IInv, Types
<1>. QED BY <1>4, RequestInv

\* The same for the step of a publication that holds q, and goes on with pc.
LEMMA PublicationFields ==
  ASSUME IInv, NEW r \in Request, request[r].pc \in {"put", "record", "publish"}
  PROVE  /\ request[r] \in RequestRow /\ request[r].v \in Version
         /\ versions[request[r].v].status \in Locked
         /\ versions[request[r].v].text = request[r].text
         /\ request[r].pc \in {"record", "publish"} => stored[request[r].v] = request[r].text
BY RequestFields DEF RequestOk, PublicationOk

LEMMA StoreArtifactInv == ASSUME IInv, NEW r \in Request, StoreArtifact(r) PROVE IInv'
<1>. DEFINE old == request[r]
            v == old.v
<1>1. /\ old \in RequestRow /\ v \in Version /\ versions[v].status \in Locked
      /\ versions[v].text = old.text
  BY PublicationFields DEF StoreArtifact, At
<1>. DEFINE next == [old EXCEPT !.pc = "record"]
<1>0. next \in RequestRow /\ next.pc = "record" /\ next.v = v /\ next.text = old.text
  BY <1>1 DEF RequestRow
<1>2. PICK q \in RequestRow : q = next /\ q.pc = "record" /\ q.v = v /\ q.text = old.text BY <1>0
<1>3. /\ request' = [request EXCEPT ![r] = q] /\ stored' = [stored EXCEPT ![v] = versions[v].text]
      /\ UNCHANGED <<versions, recorded, reused>>
  BY <1>1, <1>2 DEF StoreArtifact, IInv, Types
<1>4. stored'[q.v] = q.text BY <1>1, <1>2, <1>3 DEF IInv, Types
<1>5. RequestOk(q)' BY <1>1, <1>2, <1>3, <1>4 DEF RequestOk, ApprovalOk, PublicationOk
<1>. QED BY <1>1, <1>2, <1>3, <1>5, BytesInv

LEMMA RecordInv == ASSUME IInv, NEW r \in Request, RecordTemplateArtifact(r) PROVE IInv'
<1>. DEFINE old == request[r]
            v == old.v
<1>1. /\ old \in RequestRow /\ v \in Version /\ versions[v].status \in Locked
      /\ versions[v].text = old.text /\ stored[v] = old.text
  BY PublicationFields DEF RecordTemplateArtifact, At
<1>. DEFINE next == [old EXCEPT !.pc = "publish"]
<1>0. next \in RequestRow /\ next.pc = "publish" /\ next.v = v /\ next.text = old.text
  BY <1>1 DEF RequestRow
<1>2. PICK q \in RequestRow : q = next /\ q.pc = "publish" /\ q.v = v /\ q.text = old.text BY <1>0
<1>3. /\ request' = [request EXCEPT ![r] = q] /\ recorded' = [recorded EXCEPT ![v] = versions[v].text]
      /\ UNCHANGED <<versions, stored, reused>>
  BY <1>1, <1>2 DEF RecordTemplateArtifact, IInv, Types
<1>4. recorded'[q.v] = q.text BY <1>1, <1>2, <1>3 DEF IInv, Types
<1>5. RequestOk(q)' BY <1>1, <1>2, <1>3, <1>4 DEF RequestOk, ApprovalOk, PublicationOk
<1>. QED BY <1>1, <1>2, <1>3, <1>5, BytesInv

LEMMA GiveUpInv == ASSUME IInv, NEW r \in Request, GiveUp(r) PROVE IInv'
<1>1. request' = [request EXCEPT ![r] = IdleRequest] /\ UNCHANGED <<versions, recorded, reused>>
  BY DEF GiveUp
<1>2. RequestOk(IdleRequest) /\ RequestOk(IdleRequest)'
  BY IdleRequestOk DEF RequestOk, ApprovalOk, PublicationOk
<1>3. CASE stored' = stored BY <1>1, <1>2, <1>3, IdleRequestOk, QuietInv
<1>4. CASE stored' # stored
  <2>1. request[r].pc = "put" /\ stored' = [stored EXCEPT ![request[r].v] = request[r].text]
    BY <1>4 DEF GiveUp, At
  <2>2. /\ request[r].v \in Version /\ versions[request[r].v].status \in Locked
        /\ versions[request[r].v].text = request[r].text
    BY <2>1, PublicationFields
  <2>. QED BY <1>1, <1>2, <2>1, <2>2, IdleRequestOk, BytesInv
<1>. QED BY <1>3, <1>4

-----------------------------------------------------------------------------

LEMMA InitInv == Init => IInv
<1>. SUFFICES ASSUME Init PROVE IInv OBVIOUS
<1>1. Types BY NoRowIsRow, IdleRequestOk DEF Init, Types
<1>2. OneCandidate /\ Revised
  BY NoRowIsRow DEF Init, OneCandidate, IsCandidate, Revised, Candidate
<1>3. \A r \in Request : RequestOk(request[r])
  BY IdleRequestOk DEF Init, RequestOk, ApprovalOk, PublicationOk
<1>4. CompiledUnlessReused /\ PublishedIsStored
  BY NoRowIsRow DEF Init, CompiledUnlessReused, CompiledAsApproved, PublishedIsStored, Locked
<1>. QED BY <1>1, <1>2, <1>3, <1>4 DEF IInv

LEMMA NextInv == IInv /\ [Next]_vars => IInv'
<1>. SUFFICES ASSUME IInv, [Next]_vars PROVE IInv' OBVIOUS
<1>1. CASE \E t \in Text : CreateDraft(t) \/ \E b \in Version : CreateFrom(b, t)
  BY <1>1, EmptyManifest, InsertInv, CreateFromInv DEF CreateDraft
<1>2. CASE \E v \in Version, t \in Text : UpdateDraft(v, t) BY <1>2, UpdateDraftInv
<1>3. CASE \E v \in Version : DeleteDraft(v) BY <1>3, DeleteDraftInv
<1>4. CASE \E v \in Version, f \in File :
             DeleteDraftAsset(v, f) \/ \E c \in Content : StoreDraftAsset(v, f, c)
  BY <1>4, AssetsInv
<1>5. CASE \E r \in Request, v \in Version : BeginApproval(r, v) \/ BeginPublish(r, v)
  BY <1>5, BeginInv
<1>6. ASSUME NEW r \in Request,
             \/ ReadAssets(r) \/ Approve(r) \/ StoreArtifact(r)
             \/ RecordTemplateArtifact(r) \/ Publish(r) \/ GiveUp(r)
      PROVE  IInv'
  BY <1>6, ReadAssetsInv, ApproveInv, StoreArtifactInv, RecordInv, PublishInv, GiveUpInv
<1>7. CASE UNCHANGED vars
  BY <1>7 DEF vars, IInv, Types, OneCandidate, IsCandidate, Revised, RequestOk, ApprovalOk,
              PublicationOk, Exists, CompiledUnlessReused, CompiledAsApproved, PublishedIsStored
<1>. QED BY <1>1, <1>2, <1>3, <1>4, <1>5, <1>6, <1>7 DEF Next

LEMMA Invariance == Spec => []IInv
BY InitInv, NextInv, PTL DEF Spec

\* Rows, requests and objects have their types, and a template never has two candidates
\* (the partial unique index of template_versions), whatever is edited, approved, published
\* or given up and in which order.
THEOREM TypeCorrect == Spec => []TypeOK
<1>1. ASSUME IInv PROVE TypeOK
  <2>. DEFINE S == {v \in Version : versions[v].status \in Candidate}
  <2>1. \A v, w \in S : v = w BY <1>1 DEF IInv, OneCandidate, IsCandidate
  <2>2. Cardinality(S) <= 1
    <3>1. CASE S = {} BY <3>1, FS_EmptySet
    <3>2. CASE S # {}
      <4>1. PICK v : S = {v} BY <2>1, <3>2
      <4>2. Cardinality({v}) = 1 BY FS_Singleton
      <4>. QED BY <4>1, <4>2
    <3>. QED BY <3>1, <3>2
  <2>. QED BY <1>1, <2>2 DEF IInv, Types, Row, RequestRow, TypeOK
<1>. QED BY <1>1, Invariance, PTL

\* Unless its number was given to a second draft, an approved or published version's source,
\* sample and manifest are a pair that analysis and rendering accepted together
\* (internal/api/templates.go:236, templates.Repository.Approve), although an approval reads
\* them at different times while others edit.
THEOREM ApprovedCompiles == Spec => []CompiledUnlessReused
BY Invariance, PTL DEF IInv

\* A published version has its object and its storage_objects row, and both hold the source
\* that was approved, whichever of several publications stored, recorded or published
\* (internal/api/templates.go, publishTemplateVersion).
THEOREM PublishedHasArtifact == Spec => []PublishedIsStored
BY Invariance, PTL DEF IInv

-----------------------------------------------------------------------------
(* What no step changes.                                                   *)

FrozenAt(v) ==
  versions[v].status \in Locked =>
    /\ versions'[v].status \in Locked
    /\ versions[v].status = "published" => versions'[v].status = "published"
    /\ versions'[v].text = versions[v].text
    /\ versions'[v].assets = versions[v].assets

\* An edit replaces a row that is not locked.
LEMMA EditFreezes ==
  ASSUME IInv, NEW x \in Version, versions[x].status \notin Locked,
         \A v \in Version \ {x} : versions'[v] = versions[v]
  PROVE  \A v \in Version : FrozenAt(v)
BY DEF FrozenAt

LEMMA InsertFreezes ==
  ASSUME IInv, NEW text, NEW assets, InsertDraft(text, assets)
  PROVE  \A v \in Version : FrozenAt(v)
<1>1. PICK x \in Version : x = Newest + 1 BY DEF InsertDraft
<1>2. versions[x].status = "none" BY <1>1, NewNumberFree DEF Exists
<1>3. \A v \in Version \ {x} : versions'[v] = versions[v] BY <1>1 DEF InsertDraft, IInv, Types
<1>4. versions[x].status \notin Locked BY <1>2 DEF Locked
<1>. QED BY <1>3, <1>4, EditFreezes

LEMMA StepFreezes == IInv /\ [Next]_vars => \A v \in Version : FrozenAt(v)
<1>. SUFFICES ASSUME IInv, [Next]_vars PROVE \A v \in Version : FrozenAt(v) OBVIOUS
<1>1. CASE \E t \in Text : CreateDraft(t) \/ \E b \in Version : CreateFrom(b, t)
  BY <1>1, InsertFreezes DEF CreateDraft, CreateFrom
<1>2. ASSUME NEW x \in Version,
             \/ \E t \in Text : UpdateDraft(x, t)
             \/ DeleteDraft(x)
             \/ \E f \in File : DeleteDraftAsset(x, f) \/ \E c \in Content : StoreDraftAsset(x, f, c)
      PROVE  \A v \in Version : FrozenAt(v)
  <2>1. versions[x].status \notin Locked
    BY <1>2 DEF UpdateDraft, DeleteDraft, DeleteDraftAsset, StoreDraftAsset, IsDraft, Locked
  <2>2. \A v \in Version \ {x} : versions'[v] = versions[v]
    BY <1>2 DEF UpdateDraft, DeleteDraft, DeleteDraftAsset, StoreDraftAsset, IInv, Types
  <2>. QED BY <2>1, <2>2, EditFreezes
<1>3. CASE \E r \in Request : Approve(r) \/ Publish(r)
  <2>1. PICK r \in Request : Approve(r) \/ Publish(r) BY <1>3
  <2>. DEFINE x == request[r].v
  <2>2. CASE versions' = versions BY <2>2 DEF FrozenAt
  <2>3. CASE /\ versions[x].status = "draft"
             /\ versions' = [versions EXCEPT ![x].status = "approved"]
    BY <2>3 DEF FrozenAt, IInv, Types, Locked
  <2>4. CASE /\ versions[x].status = "approved"
             /\ versions' = [versions EXCEPT ![x].status = "published"]
    <3>1. ASSUME NEW v \in Version PROVE FrozenAt(v)
      <4>1. CASE v # x BY <2>4, <4>1 DEF FrozenAt, IInv, Types
      <4>2. CASE v = x
        <5>1. versions'[v] = [versions[v] EXCEPT !.status = "published"] /\ versions[v] \in Row
          BY <2>4, <4>2 DEF IInv, Types
        <5>2. versions'[v].status = "published" /\ versions'[v].text = versions[v].text
              /\ versions'[v].assets = versions[v].assets
          BY <5>1 DEF Row
        <5>. QED BY <5>2 DEF FrozenAt, Locked
      <4>. QED BY <4>1, <4>2
    <3>. QED BY <3>1
  <2>. QED BY <2>1, <2>2, <2>3, <2>4 DEF Approve, Publish, IsDraft
<1>4. CASE versions' = versions BY <1>4 DEF FrozenAt
<1>. QED BY <1>1, <1>2, <1>3, <1>4
  DEF Next, vars, BeginApproval, BeginPublish, ReadAssets, StoreArtifact, RecordTemplateArtifact, GiveUp

\* Approved versions are locked and published ones immutable (README.md:327, the status tests
\* of internal/templates/templates.go and the trigger of its migration): no step, of an edit
\* under way, an approval that read an older draft or a second publication, changes the
\* source, sample or manifest of one or takes its status back.
THEOREM LockedStaysLocked == Spec => ApprovedIsFrozen
<1>1. IInv /\ [Next]_vars =>
        [\A v \in Version : versions[v].status \in Locked =>
           /\ versions'[v].status \in Locked
           /\ versions[v].status = "published" => versions'[v].status = "published"
           /\ versions'[v].text = versions[v].text
           /\ versions'[v].assets = versions[v].assets]_vars
  BY StepFreezes DEF FrozenAt
<1>. QED BY <1>1, Invariance, PTL DEF Spec, ApprovedIsFrozen

===============================================================================
