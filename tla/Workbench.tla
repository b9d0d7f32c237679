------------------------------ MODULE Workbench ------------------------------
(***************************************************************************)
(* The template workbench of the browser application (App in               *)
(* web/template-manager/src/App.tsx): one page, the requests it has in     *)
(* flight, and the rows of the server it works on (TemplateLifecycle has   *)
(* the server's own interleavings).                                        *)
(*                                                                         *)
(* An event handler runs up to its first await in one step; what follows   *)
(* an answer, up to the next await, is another.  React renders the updates *)
(* of a step together and runs the effects whose dependencies changed, so  *)
(* the effects belong to the step.  A handler keeps the values of the      *)
(* render it was made in: a task's fields.  Source and sample data are one *)
(* Text.  Confirmation dialogs are answered yes.                           *)
(***************************************************************************)
EXTENDS Naturals, FiniteSets, FiniteSetsExt

CONSTANTS
  Slug,       \* templates
  MaxVersion, \* bound: version numbers
  Start,      \* the rows the page may be opened on
  Text,       \* source and sample data
  Malformed,  \* texts whose sample data is not a JSON object
  Rejected,   \* texts whose contract analysis has errors
  Completed,  \* what the server makes of a text when it saves it
  Starter,    \* starterSource and starterData
  Blank,      \* an empty editor
  Typed,      \* bound: texts the user writes
  File,       \* asset file names
  Slot,       \* bound: handlers in progress
  MaxClicks,  \* bound: clicks and shortcuts
  MaxFaults,  \* bound: requests that fail
  None        \* null

Version == Slug \X (1 .. MaxVersion)
Status  == {"none", "draft", "approved", "published"}
Row     == [status : Status, text : Text, files : SUBSET File]

ASSUME WorkbenchAssumption ==
  /\ MaxVersion \in Nat \ {0} /\ {MaxClicks, MaxFaults} \subseteq Nat
  /\ Start \subseteq [Version -> Row]
  /\ \A r \in Start, v \in Version : r[v].status = "draft" => Completed[r[v].text] = r[v].text
  /\ Malformed \subseteq Text /\ Rejected \subseteq Text /\ Typed \cup {Starter, Blank} \subseteq Text
  /\ Completed \in [Text -> Text] /\ \A t \in Text : Completed[Completed[t]] = Completed[t]
  /\ None \notin Slug \cup Version \cup Text \cup File

VARIABLES
  row,        \* server: template_versions and their manifests
  template,   \* server: whether a template exists, and is archived
  user,       \* unknown until /auth/me has answered
  known,      \* templates: status of every version and template as last listed
  selection, slug, current, \* selection, selectedSlug, current
  text, saved,              \* source and sampleData, savedSource and savedSampleData
  assets, contract,         \* the files shown; the text the diagnostics shown are of
  busy, draftWrite, publishing,
  load,       \* the load of the selected version
  analysis,   \* contract analysis of the text on the screen
  timer,      \* an automatic preview is due
  compiling,  \* previewRequest: a preview is being compiled
  task,       \* handlers in progress
  origin,     \* history: the version the text on the screen comes from
  \* history: "open", a version opened while a write to it is in flight; "write", a write
  \* begun meanwhile; "reload", a version loaded again while on the screen; "lost", a save or
  \* discard performed but answered with an error; "dropped", the answer to a save dropped
  \* while its version is on the screen; "over", a publication's save answered over another
  \* version that is being written
  crossed,
  clicks, faults

server  == <<row, template>>
editor  == <<current, text, saved, origin>>
nav     == <<slug, selection, load>>
view    == <<assets, contract, compiling>>
locks   == <<draftWrite, publishing>>
effects == <<analysis, timer>>
budgets == <<clicks, faults>>
vars    == <<server, user, known, editor, nav, view, busy, locks, effects, task, crossed, budgets>>

NoRow     == [status |-> "none", text |-> Blank, files |-> {}]
NoVersion == [v |-> None, status |-> "none"]
NoLoad    == [v |-> None, read |-> FALSE, row |-> NoRow]
Idle      == [op |-> "idle", call |-> "none", answer |-> "none", v |-> None, text |-> Blank,
              from |-> None, to |-> None, file |-> None, rest |-> {}]

Op     == {"idle", "save", "publish", "transition", "create", "discard", "archive", "upload",
           "unload", "template", "list"}
Writes == {"put", "approve", "publish", "delete", "upload", "unload"}
Call   == Writes \cup {"none", "create", "archive", "restore", "template", "list", "relist"}
Task   == [op : Op, call : Call, answer : {"none", "waiting", "ok", "error"},
           v : Version \cup {None}, text : Text, from : Version \cup {None},
           to : Version \cup {None}, file : File \cup {None}, rest : SUBSET File]

TypeOK ==
  /\ row \in [Version -> Row] /\ template \in [Slug -> {"none", "active", "archived"}]
  /\ user \in {"unknown", "admin", "viewer", "out"}
  /\ known \in [row : [Version -> Status], template : [Slug -> {"none", "active", "archived"}]]
  /\ selection \in Version \cup {None} /\ slug \in Slug \cup {None}
  /\ current \in [v : Version \cup {None}, status : Status]
  /\ text \in Text /\ saved \in Text /\ origin \in Version \cup {None}
  /\ assets \subseteq File /\ contract \in Text \cup {None}
  /\ busy \in BOOLEAN /\ draftWrite \in BOOLEAN /\ publishing \in BOOLEAN
  /\ load \in [v : Version \cup {None}, read : BOOLEAN, row : Row]
  /\ analysis \in {"none", "waiting", "done", "failed"}
  /\ timer \in BOOLEAN /\ compiling \in BOOLEAN
  /\ task \in [Slot -> Task] /\ crossed \subseteq {"open", "write", "reload", "lost", "dropped", "over"}
  /\ clicks \in 0 .. MaxClicks /\ faults \in 0 .. MaxFaults

SlugOf(v) == v[1]
Exists(v) == row[v].status # "none"
Parses(t) == t \notin Malformed

\* A template exists with its first version on, and stays when its drafts are discarded.
Init ==
  /\ row \in Start
  /\ template = [s \in Slug |-> IF Exists(<<s, 1>>) THEN "active" ELSE "none"]
  /\ user = "unknown"
  /\ known = [row |-> [v \in Version |-> "none"], template |-> [s \in Slug |-> "none"]]
  /\ selection = None /\ slug = None /\ current = NoVersion
  /\ text = Blank /\ saved = Blank /\ origin = None
  /\ assets = {} /\ contract = None /\ compiling = FALSE
  /\ busy = FALSE /\ draftWrite = FALSE /\ publishing = FALSE
  /\ load = NoLoad /\ analysis = "none" /\ timer = FALSE
  /\ task = [s \in Slot |-> Idle] /\ crossed = {}
  /\ clicks = MaxClicks /\ faults = MaxFaults
-----------------------------------------------------------------------------
(* What the page shows, and React's effects.                               *)

SignedIn  == user \in {"admin", "viewer"}
Archived  == slug # None /\ known.template[slug] = "archived"
Editable  == user = "admin" /\ current.status = "draft" /\ ~Archived
Dirty     == Editable /\ text # saved
Blocked   == contract \in Rejected
Candidate == {v \in Version : SlugOf(v) = slug /\ known.row[v] \in {"draft", "approved"}}

\* Mutant: the number after the newest one.
NewestNext(status, s) == 1 + Max({0} \cup {n \in 1 .. MaxVersion : status[<<s, n>>] # "none"})

\* Mutant: the button does not wait for the analysis.
PublishableEarly == Editable /\ ~busy /\ ~Blocked /\ ~draftWrite

\* The publish button is enabled.
Publishable == Editable /\ ~busy /\ analysis # "waiting" /\ ~Blocked /\ ~draftWrite

Numbers(status, s) == {n \in 1 .. MaxVersion : status[<<s, n>>] # "none"}
Newest(status, s)  == Max({0} \cup Numbers(status, s))
Catalog == [row |-> [v \in Version |-> row[v].status], template |-> template]

Click == SignedIn /\ clicks > 0 /\ clicks' = clicks - 1 /\ UNCHANGED faults
Fail  == faults > 0 /\ faults' = faults - 1 /\ UNCHANGED clicks

Writing(v) == \E s \in Slot : task[s].v = v /\ task[s].call \in Writes

\* setSelection, and the effect of a selection that changes: the version is loaded.  An
\* empty selection only ends the load in progress.
Select(v, stillBusy) ==
  /\ selection' = v
  /\ busy' = (stillBusy \/ v \notin {selection, None})
  /\ load' = IF v = selection THEN load ELSE [NoLoad EXCEPT !.v = v]
  /\ IF v \in {selection, None} THEN UNCHANGED <<assets, compiling>>
                                ELSE assets' = {} /\ compiling' = FALSE
  /\ crossed' = crossed \cup (IF v # selection /\ Writing(v) THEN {"open"} ELSE {})
                       \cup (IF v \notin {selection, None} /\ v = current.v THEN {"reload"} ELSE {})

\* The effects that analyse and compile what is on the screen: each starts again, or is
\* given up, whenever what it depends on changes.
Watched    == <<Editable, current.v, selection, text>>
Previewed  == <<current.v, selection, text>>
Analysable == Editable /\ current.v = selection /\ Parses(text)
Compilable == current.v # None /\ current.v = selection /\ Parses(text)

Effects(revised) ==
  /\ analysis' = IF Watched' = Watched THEN analysis ELSE IF Analysable' THEN "waiting" ELSE "none"
  /\ timer' = IF Previewed' = Previewed /\ ~revised THEN timer ELSE Compilable'

\* A handler's first request, its next one, and its finally block.
Request(s, t) ==
  /\ task[s] = Idle
  /\ task' = [task EXCEPT ![s] = [t EXCEPT !.answer = "waiting"]]
  /\ crossed' = crossed \cup IF t.call \in Writes /\ Writing(t.v) THEN {"write"} ELSE {}

Then(s, call, to) ==
  task' = [task EXCEPT ![s] = [@ EXCEPT !.call = call, !.answer = "waiting", !.to = to]]

Ends(s) ==
  /\ task' = [task EXCEPT ![s] = Idle]
  /\ draftWrite' = (draftWrite /\ task[s].op \notin {"save", "publish"})
  /\ publishing' = (publishing /\ task[s].op # "publish")
-----------------------------------------------------------------------------
(* The user.                                                               *)

\* /auth/me has answered; a user's page lists the templates.
Authenticated(s) ==
  /\ user = "unknown"
  /\ \/ user' = "out" /\ UNCHANGED <<task, crossed>>
     \/ /\ user' \in {"admin", "viewer"}
        /\ Request(s, [Idle EXCEPT !.op = "list", !.call = "list"])
  /\ UNCHANGED <<server, known, editor, nav, view, busy, locks, effects, budgets>>

\* Nothing but the sign-in page is left, which leads to a fresh page: what the old one
\* holds is of no use.
SignedOut ==
  /\ user' = "out"
  /\ known' = [row |-> [v \in Version |-> "none"], template |-> [s \in Slug |-> "none"]]
  /\ selection' = None /\ slug' = None /\ current' = NoVersion
  /\ text' = Blank /\ saved' = Blank /\ origin' = None
  /\ assets' = {} /\ contract' = None /\ compiling' = FALSE
  /\ busy' = FALSE /\ draftWrite' = FALSE /\ publishing' = FALSE
  /\ load' = NoLoad /\ analysis' = "none" /\ timer' = FALSE
  /\ task' = [s \in Slot |-> Idle] /\ crossed' = {} /\ UNCHANGED server

Logout == Click /\ SignedOut

Type(t) ==
  /\ Editable /\ ~publishing /\ t # text
  /\ text' = t
  /\ UNCHANGED <<server, user, known, current, saved, origin, nav, view, busy, locks, task, crossed,
                 budgets>>
  /\ Effects(FALSE)

\* Ctrl-S asks for an editable version only, the button for more.  Data that cannot be
\* parsed ends the handler at once.
Save(s) ==
  /\ Click /\ Editable /\ ~draftWrite
  /\ IF Parses(text)
       THEN /\ Request(s, [Idle EXCEPT !.op = "save", !.call = "put", !.v = current.v,
                                       !.text = text, !.from = origin])
            /\ busy' = TRUE /\ draftWrite' = TRUE
       ELSE busy' = FALSE /\ UNCHANGED <<draftWrite, task, crossed>>
  /\ UNCHANGED <<server, user, known, editor, nav, view, publishing, effects>>

\* Mutant: unsaved changes are left out.
PublishUnsaved(s) ==
  /\ Click /\ Publishable
  /\ Request(s, [Idle EXCEPT !.op = "publish", !.call = "approve", !.v = current.v,
                             !.text = text, !.from = origin])
  /\ busy' = TRUE /\ draftWrite' = TRUE /\ publishing' = TRUE
  /\ UNCHANGED <<server, user, known, editor, nav, view, effects>>

PublishDraft(s) ==
  /\ Click /\ Publishable
  /\ IF ~Dirty \/ Parses(text)
       THEN /\ Request(s, [Idle EXCEPT !.op = "publish", !.call = IF Dirty THEN "put" ELSE "approve",
                                       !.v = current.v, !.text = text, !.from = origin])
            /\ busy' = TRUE /\ draftWrite' = TRUE /\ publishing' = TRUE
       ELSE busy' = FALSE /\ UNCHANGED <<locks, task, crossed>>
  /\ UNCHANGED <<server, user, known, editor, nav, view, effects>>

Transition(s) ==
  /\ Click /\ user = "admin" /\ ~Archived /\ current.status = "approved" /\ ~busy
  /\ Request(s, [Idle EXCEPT !.op = "transition", !.call = "publish", !.v = current.v])
  /\ busy' = TRUE
  /\ UNCHANGED <<server, user, known, editor, nav, view, locks, effects>>

\* With a version of the template open, the draft begins with the text on the screen and
\* that version's files; from is the base version.
CreateVersion(s, sl) ==
  LET own == current.v # None /\ SlugOf(current.v) = sl IN
  /\ IF own => Parses(text)
       THEN /\ Request(s, [Idle EXCEPT !.op = "create", !.call = "create", !.v = <<sl, 1>>,
                                       !.text = IF own THEN text ELSE Starter,
                                       !.from = IF own THEN current.v ELSE None])
            /\ busy' = TRUE
       ELSE busy' = FALSE /\ UNCHANGED <<task, crossed>>
  /\ UNCHANGED <<server, user, known, editor, nav, view, locks, effects>>

Open(v) ==
  /\ slug' = SlugOf(v)
  /\ current' = IF current.v = v THEN current ELSE NoVersion
  /\ Select(v, busy)
  /\ UNCHANGED <<server, user, known, text, saved, origin, contract, locks, task>>
  /\ Effects(FALSE)

SelectVersion(v) == Click /\ known.row[v] # "none" /\ Open(v)

OpenOrCreateDraft(s) ==
  /\ Click /\ user = "admin" /\ ~Archived /\ current.status = "published" /\ ~busy
  /\ IF \E c \in Candidate : c[2] # current.v[2]
       THEN \E c \in Candidate : Open(<<SlugOf(current.v), c[2]>>)
       ELSE CreateVersion(s, SlugOf(current.v))

CreateFirstDraft(s) ==
  /\ Click /\ user = "admin" /\ slug # None /\ known.template[slug] = "active" /\ ~busy
  /\ Numbers(known.row, slug) = {} /\ CreateVersion(s, slug)

\* The newest version is opened; a template without one empties the editor.
SelectTemplate(sl) ==
  LET n == Newest(known.row, sl) IN
  /\ Click /\ known.template[sl] # "none"
  /\ slug' = sl /\ current' = NoVersion
  /\ IF n > 0
       THEN Select(<<sl, n>>, busy) /\ UNCHANGED <<text, saved, origin, contract>>
       ELSE /\ selection' = None /\ load' = NoLoad /\ text' = Blank /\ saved' = Blank
            /\ origin' = None /\ contract' = None /\ assets' = {}
            /\ UNCHANGED <<busy, compiling, crossed>>
  /\ UNCHANGED <<server, user, known, locks, task>>
  /\ Effects(FALSE)

\* Where the page goes afterwards, the newest published version, is found in its own list.
Discard(s) ==
  LET published == {n \in 1 .. MaxVersion : known.row[<<SlugOf(current.v), n>>] = "published"} IN
  /\ Click /\ Editable /\ ~busy
  /\ Request(s, [Idle EXCEPT !.op = "discard", !.call = "delete", !.v = current.v,
                             !.to = IF published = {} THEN None
                                    ELSE <<SlugOf(current.v), Max(published)>>])
  /\ busy' = TRUE
  /\ UNCHANGED <<server, user, known, editor, nav, view, locks, effects>>

Archive(s) ==
  /\ Click /\ user = "admin" /\ slug # None /\ known.template[slug] # "none" /\ ~busy
  /\ Request(s, [Idle EXCEPT !.op = "archive", !.call = IF Archived THEN "restore" ELSE "archive",
                             !.v = <<slug, 1>>, !.to = current.v])
  /\ busy' = TRUE
  /\ UNCHANGED <<server, user, known, editor, nav, view, locks, effects>>

Upload(s, files) ==
  /\ Click /\ Editable /\ ~busy
  /\ \E f \in files :
       Request(s, [Idle EXCEPT !.op = "upload", !.call = "upload", !.v = current.v,
                               !.file = f, !.rest = files \ {f}])
  /\ busy' = TRUE
  /\ UNCHANGED <<server, user, known, editor, nav, view, locks, effects>>

DeleteAsset(s, f) ==
  /\ Click /\ Editable /\ ~busy /\ f \in assets
  /\ Request(s, [Idle EXCEPT !.op = "unload", !.call = "unload", !.v = current.v, !.file = f])
  /\ busy' = TRUE
  /\ UNCHANGED <<server, user, known, editor, nav, view, locks, effects>>

\* The dialog of a new template asks nothing of the page.
NewTemplate(s, sl) ==
  /\ Click /\ user = "admin"
  /\ Request(s, [Idle EXCEPT !.op = "template", !.call = "template", !.v = <<sl, 1>>])
  /\ UNCHANGED <<server, user, known, editor, nav, view, busy, locks, effects>>
-----------------------------------------------------------------------------
(* Loading, analysis and previews.                                         *)

\* The version and its files are read together.
ReadVersion ==
  /\ SignedIn /\ load.v # None /\ ~load.read
  /\ load' = [load EXCEPT !.read = TRUE, !.row = row[load.v]]
  /\ UNCHANGED <<server, user, known, editor, slug, selection, view, busy, locks, effects, task,
                 crossed, budgets>>

LoadArrives ==
  /\ SignedIn /\ load.read /\ load.row.status # "none"
  /\ slug' = SlugOf(load.v) /\ current' = [v |-> load.v, status |-> load.row.status]
  /\ text' = load.row.text /\ saved' = load.row.text /\ origin' = load.v
  /\ contract' = None /\ assets' = load.row.files
  /\ load' = NoLoad /\ busy' = FALSE
  /\ UNCHANGED <<server, user, known, selection, compiling, locks, task, crossed, budgets>>
  /\ Effects(FALSE)

\* Mutant: only a version that arrives ends the wait.
LoadFailsBusy ==
  /\ SignedIn /\ load.v # None
  /\ \/ load.read /\ load.row.status = "none" /\ UNCHANGED budgets
     \/ Fail
  /\ load' = NoLoad
  /\ UNCHANGED <<server, user, known, editor, slug, selection, view, busy, locks, effects, task,
                 crossed>>

LoadFails ==
  /\ SignedIn /\ load.v # None
  /\ \/ load.read /\ load.row.status = "none" /\ UNCHANGED budgets
     \/ Fail
  /\ load' = NoLoad /\ busy' = FALSE
  /\ UNCHANGED <<server, user, known, editor, slug, selection, view, locks, effects, task, crossed>>

AnalysisAnswers ==
  /\ SignedIn /\ analysis = "waiting"
  /\ \/ text # Blank /\ analysis' = "done" /\ contract' = text /\ UNCHANGED budgets
     \/ analysis' = "failed" /\ UNCHANGED contract /\ (Fail \/ (text = Blank /\ UNCHANGED budgets))
  /\ UNCHANGED <<server, user, known, editor, nav, assets, compiling, busy, locks, timer, task,
                 crossed>>

\* A compilation takes the place of the one in progress.
Compile ==
  /\ \/ SignedIn /\ timer /\ timer' = FALSE /\ UNCHANGED budgets
     \/ Click /\ current.v # None /\ Parses(text) /\ UNCHANGED timer
  /\ compiling' = TRUE /\ busy' = TRUE
  /\ UNCHANGED <<server, user, known, editor, nav, assets, contract, locks, analysis, task, crossed>>

\* With a PDF or an error: both end the handler in the same way.
CompileAnswers ==
  /\ SignedIn /\ compiling /\ compiling' = FALSE /\ busy' = FALSE
  /\ UNCHANGED <<server, user, known, editor, nav, assets, contract, locks, effects, task, crossed,
                 budgets>>
-----------------------------------------------------------------------------
(* The server: the condition and the effect of each request.               *)

Current(v, status) == Exists(v) /\ row[v].status = status

Admissible(t) ==
  \/ t.call \in {"upload", "delete"} /\ Current(t.v, "draft")
  \/ t.call = "put" /\ Current(t.v, "draft") /\ t.text # Blank
  \/ t.call = "unload" /\ Current(t.v, "draft") /\ t.file \in row[t.v].files
  \/ t.call = "approve" /\ Current(t.v, "draft") /\ row[t.v].text \notin Rejected
  \/ t.call = "publish" /\ Current(t.v, "approved")
  \/ t.call \in {"archive", "restore"} /\ template[SlugOf(t.v)] # "none"
  \/ t.call = "template" /\ template[SlugOf(t.v)] = "none"
  \/ /\ t.call = "create" /\ template[SlugOf(t.v)] # "none" /\ t.text # Blank
     /\ t.from # None => Exists(t.from)
     /\ \A n \in 1 .. MaxVersion : row[<<SlugOf(t.v), n>>].status \notin {"draft", "approved"}
     /\ Newest(Catalog.row, SlugOf(t.v)) < MaxVersion

Created(t) ==
  IF t.call = "create" THEN <<SlugOf(t.v), Newest(Catalog.row, SlugOf(t.v)) + 1>>
  ELSE IF t.call = "template" THEN t.v ELSE t.to

Affected(t) == IF t.call = "create" THEN Created(t) ELSE t.v

Written(t) ==
  LET r == row[t.v] IN
  CASE t.call = "put"      -> [r EXCEPT !.text = Completed[t.text]]
    [] t.call = "approve"  -> [r EXCEPT !.status = "approved"]
    [] t.call = "publish"  -> [r EXCEPT !.status = "published"]
    [] t.call = "delete"   -> NoRow
    [] t.call = "upload"   -> [r EXCEPT !.files = @ \cup {t.file}]
    [] t.call = "unload"   -> [r EXCEPT !.files = @ \ {t.file}]
    [] t.call = "template" -> [status |-> "draft", text |-> Completed[Starter], files |-> {}]
    [] t.call = "create"   -> [status |-> "draft", text |-> Completed[t.text],
                               files |-> IF t.from = None THEN {} ELSE row[t.from].files]
    [] OTHER               -> r

Perform(t) ==
  /\ row' = [row EXCEPT ![Affected(t)] = Written(t)]
  /\ template' = [template EXCEPT ![SlugOf(t.v)] =
       IF t.call \in {"template", "restore"} THEN "active"
       ELSE IF t.call = "archive" THEN "archived" ELSE @]

\* An operation that is refused answers with an error.
Serve(s) ==
  LET t == task[s] IN
  /\ SignedIn /\ t.answer = "waiting" /\ t.call \notin {"list", "relist"}
  /\ IF Admissible(t)
       THEN Perform(t) /\ task' = [task EXCEPT ![s].answer = "ok", ![s].to = Created(t)]
       ELSE task' = [task EXCEPT ![s].answer = "error"] /\ UNCHANGED server
  /\ UNCHANGED <<user, known, editor, nav, view, busy, locks, effects, crossed, budgets>>

\* The request fails, or only its answer is lost.
Disrupt(s) ==
  LET t == task[s] IN
  /\ SignedIn /\ t.answer = "waiting" /\ t.call \notin {"list", "relist"} /\ Fail
  /\ \/ UNCHANGED <<server, crossed>>
     \/ /\ Admissible(t) /\ Perform(t)
        /\ crossed' = crossed \cup (IF t.call \in {"put", "delete"} THEN {"lost"} ELSE {})
  /\ task' = [task EXCEPT ![s].answer = "error"]
  /\ UNCHANGED <<user, known, editor, nav, view, busy, locks, effects>>

\* A request finds the session expired.
Expire ==
  /\ (\E s \in Slot : task[s].answer = "waiting") \/ load.v # None \/ analysis = "waiting"
  /\ SignedIn /\ Fail /\ SignedOut
-----------------------------------------------------------------------------
(* Answers to the handlers.                                                *)

Answered(s, op) == SignedIn /\ task[s].op = op /\ task[s].answer = "ok"

\* Mutant: whatever version is open.
SaveAnsweredAnywhere(s) ==
  LET t == task[s] IN
  /\ Answered(s, "save")
  /\ current' = [v |-> t.v, status |-> "draft"]
  /\ text' = (IF text = t.text THEN Completed[t.text] ELSE text)
  /\ origin' = (IF text = t.text THEN t.v ELSE origin)
  /\ saved' = Completed[t.text]
  /\ Then(s, "list", None)
  /\ UNCHANGED <<server, user, known, nav, view, busy, locks, crossed, budgets>>
  /\ Effects(FALSE)

\* Only what was sent is acknowledged; an answer about another version is dropped.
SaveAnswered(s) ==
  LET t == task[s] IN
  /\ Answered(s, "save")
  /\ IF selection # t.v
       THEN /\ Ends(s) /\ busy' = FALSE /\ UNCHANGED editor
            /\ crossed' = crossed \cup (IF current.v = t.v THEN {"dropped"} ELSE {})
       ELSE /\ current' = [v |-> t.v, status |-> "draft"]
            /\ text' = (IF text = t.text THEN Completed[t.text] ELSE text)
            /\ origin' = (IF text = t.text THEN t.v ELSE origin)
            /\ saved' = Completed[t.text]
            /\ Then(s, "list", None)
            /\ UNCHANGED <<busy, locks, crossed>>
  /\ UNCHANGED <<server, user, known, nav, view, budgets>>
  /\ Effects(FALSE)

\* Save if dirty, approve, publish, whatever has been opened since.
PublishAnswered(s) ==
  LET t == task[s] IN
  /\ Answered(s, "publish")
  /\ \/ /\ t.call = "put"
        /\ current' = [v |-> t.v, status |-> "draft"] /\ origin' = t.v
        /\ text' = Completed[t.text] /\ saved' = Completed[t.text]
        /\ Then(s, "approve", None) /\ UNCHANGED contract
        /\ crossed' = crossed \cup (IF selection # t.v /\ Writing(selection) THEN {"over"} ELSE {})
     \/ /\ t.call = "approve"
        /\ current' = [v |-> t.v, status |-> "approved"] /\ contract' = None
        /\ Then(s, "publish", None) /\ UNCHANGED <<text, saved, origin, crossed>>
     \/ /\ t.call = "publish"
        /\ current' = [v |-> t.v, status |-> "published"]
        /\ Then(s, "list", t.v) /\ UNCHANGED <<text, saved, origin, contract, crossed>>
  /\ UNCHANGED <<server, user, known, nav, assets, compiling, busy, locks, budgets>>
  /\ Effects(FALSE)

TransitionAnswered(s) ==
  /\ Answered(s, "transition")
  /\ current' = [v |-> task[s].v, status |-> "published"]
  /\ Then(s, "list", task[s].v)
  /\ UNCHANGED <<server, user, known, text, saved, origin, nav, view, busy, locks, crossed, budgets>>
  /\ Effects(FALSE)

\* A new version or template, or a template archived or restored: the list comes next.
ListNext(s) ==
  /\ \E op \in {"create", "template", "archive"} : Answered(s, op)
  /\ Then(s, "list", task[s].to)
  /\ UNCHANGED <<server, user, known, editor, nav, view, busy, locks, effects, crossed, budgets>>

DiscardAnswered(s) ==
  LET t == task[s] IN
  /\ Answered(s, "discard")
  /\ current' = NoVersion /\ slug' = SlugOf(t.v) /\ Select(t.to, busy)
  /\ Then(s, "list", t.to)
  /\ UNCHANGED <<server, user, known, text, saved, origin, contract, locks, budgets>>
  /\ Effects(FALSE)

\* Mutant: the files of whatever version is open.
AssetAnsweredAnywhere(s) ==
  LET t == task[s] IN
  /\ Answered(s, "upload") \/ Answered(s, "unload")
  /\ assets' = (IF t.op = "upload" THEN assets \cup {t.file} ELSE assets \ {t.file})
  /\ Ends(s) /\ busy' = FALSE
  /\ UNCHANGED <<server, user, known, editor, nav, contract, compiling, crossed, budgets>>
  /\ Effects(TRUE)

\* Files go up one by one, until another version is opened.
AssetAnswered(s) ==
  LET t == task[s]
      kept == selection = t.v IN
  /\ Answered(s, "upload") \/ Answered(s, "unload")
  /\ assets' = (IF ~kept THEN assets
                ELSE IF t.op = "upload" THEN assets \cup {t.file} ELSE assets \ {t.file})
  /\ IF kept /\ t.rest # {}
       THEN /\ \E f \in t.rest :
                 task' = [task EXCEPT ![s] = [t EXCEPT !.answer = "waiting", !.file = f,
                                                       !.rest = @ \ {f}]]
            /\ UNCHANGED <<busy, locks>>
       ELSE Ends(s) /\ busy' = FALSE
  /\ UNCHANGED <<server, user, known, editor, nav, contract, compiling, crossed, budgets>>
  /\ Effects(kept)

\* A version that was approved but not published is shown as such; the dialog of a new
\* template leaves the page alone.
Failed(s) ==
  LET t == task[s] IN
  /\ SignedIn /\ t.answer = "error"
  /\ IF t.op = "publish" /\ t.call = "publish"
       THEN /\ current' = [v |-> t.v, status |-> "approved"]
            /\ Then(s, "relist", t.v) /\ UNCHANGED <<busy, locks>>
       ELSE Ends(s) /\ busy' = (busy /\ t.op = "template") /\ UNCHANGED current
  /\ UNCHANGED <<server, user, known, text, saved, origin, nav, view, crossed, budgets>>
  /\ Effects(FALSE)

Listing(s) == SignedIn /\ task[s].call \in {"list", "relist"} /\ task[s].answer = "waiting"

\* The handlers of a page that has just been opened, and of the dialog, leave busy alone.
StaysBusy(t) == busy /\ t.op \in {"list", "template"}

\* The list, and the version the handler asked for.  A page that has just been opened asks
\* for the newest version of some template.
ListArrives(s) ==
  LET t == task[s]
      first == {sl \in Slug : template[sl] = "active" /\ Newest(Catalog.row, sl) > 0} IN
  /\ Listing(s)
  /\ known' = Catalog
  /\ \/ /\ t.op = "list"
        /\ \E sl \in first : slug' = sl /\ Select(<<sl, Newest(Catalog.row, sl)>>, StaysBusy(t))
     \/ /\ t.to # None
        /\ slug' = SlugOf(t.to) /\ Select(t.to, StaysBusy(t))
     \/ /\ t.to = None /\ (t.op = "list" => first = {})
        /\ slug' = slug /\ Select(selection, StaysBusy(t))
  /\ Ends(s)
  /\ UNCHANGED <<server, user, current, text, saved, origin, contract, budgets>>
  /\ Effects(FALSE)

\* A publication whose list fails has not been told apart from one that failed.
ListFails(s) ==
  LET t == task[s] IN
  /\ Listing(s) /\ Fail
  /\ IF t.op = "publish" /\ t.call = "list"
       THEN /\ current' = [v |-> t.v, status |-> "approved"]
            /\ Then(s, "relist", t.v) /\ UNCHANGED <<busy, locks>>
       ELSE Ends(s) /\ busy' = StaysBusy(t) /\ UNCHANGED current
  /\ UNCHANGED <<server, user, known, text, saved, origin, nav, view, crossed>>
  /\ Effects(FALSE)
-----------------------------------------------------------------------------
Clicks(s) ==
  \/ Save(s) \/ PublishDraft(s) \/ Transition(s) \/ OpenOrCreateDraft(s) \/ CreateFirstDraft(s)
  \/ Discard(s) \/ Archive(s)
  \/ \E files \in (SUBSET File) \ {{}} : Upload(s, files)
  \/ \E f \in File : DeleteAsset(s, f)
  \/ \E sl \in Slug : NewTemplate(s, sl)

Answers(s) ==
  \/ SaveAnswered(s) \/ PublishAnswered(s) \/ TransitionAnswered(s) \/ ListNext(s)
  \/ DiscardAnswered(s) \/ AssetAnswered(s) \/ Failed(s) \/ ListArrives(s) \/ ListFails(s)

Next ==
  \/ \E s \in Slot : Authenticated(s) \/ Clicks(s) \/ Serve(s) \/ Disrupt(s) \/ Answers(s)
  \/ Logout \/ Expire
  \/ \E t \in Typed : Type(t)
  \/ \E v \in Version : SelectVersion(v)
  \/ \E sl \in Slug : SelectTemplate(sl)
  \/ ReadVersion \/ LoadArrives \/ LoadFails \/ AnalysisAnswers \/ Compile \/ CompileAnswers

Spec == Init /\ [][Next]_vars
-----------------------------------------------------------------------------
(* Properties.                                                             *)

\* A version is only written with text that was loaded from it, or typed over that: save and
\* the save of a publication send the editor's contents under current's number, and an answer
\* about another version than the one selected is dropped (App.tsx 207-217).  Not so when a
\* version is opened while a write to it is in flight: the answer then acknowledges the draft
\* over the text that is still on the screen.
OwnText == "open" \notin crossed =>
  \A s \in Slot : task[s].call = "put" => task[s].from = task[s].v

\* What is approved and published is the text that was on the screen when the user confirmed,
\* as the server completes it: unsaved changes are saved first, and nothing is edited or saved
\* meanwhile (publishing, draftWrite).  Excluded are the overlaps in crossed, and saves and
\* discards of which the page does not take notice, after which it takes its own copy for the
\* server's.
PublishesWhatWasShown == crossed \subseteq {"over"} =>
  \A s \in Slot : task[s].op = "publish" /\ task[s].call \in {"approve", "publish"} /\ Exists(task[s].v)
    => row[task[s].v].text = Completed[task[s].text]

\* "Validation blocks unsafe approval": the publish button is not enabled for a text before
\* the contract analysis of that text has answered.  The answer may be a failure, which the
\* page only reports; sample data that cannot be parsed is not analysed, but not sent either.
\* A version that is loaded again while it is on the screen loses its diagnostics and is not
\* analysed again (crossed).  It is not so either, whatever crossed, while current is not what
\* is selected, since such a text is not analysed (App.tsx 587): after the answer to the save
\* of a publication has made its version current again though another was opened meanwhile
\* (298), and after a list has selected a version (133) whose load failed.  When the approval
\* is refused, or the load has failed, the button is enabled for the text on the screen and
\* for what is typed over it; nothing but the server then refuses an unsafe approval.
PublishIsAnalysed ==
  crossed \cap {"open", "reload"} = {} /\ Publishable /\ current.v = selection /\ Parses(text) =>
    analysis = "failed" \/ (analysis = "done" /\ contract = text)

\* The page does not stay busy, with its buttons disabled, when nothing is going on: a load,
\* a preview or a handler that set busy will clear it.  Opening a template without versions
\* gives up a load without clearing it (App.tsx 161, 473), hence selection = None.
BusyIsBacked == busy =>
  \/ load.v # None \/ compiling \/ selection = None
  \/ \E s \in Slot : task[s].op \notin {"idle", "list", "template"}

AtRest == load.v = None /\ \A s \in Slot : task[s] = Idle

\* Once every request is answered, the page shows its version as the server has it: status,
\* saved text and files.  It follows every write of its own by adopting the answer, whatever
\* was opened, saved, published, uploaded or discarded meanwhile; excluded are requests that
\* failed and the overlaps in crossed, but for an answer that was dropped.
ShownIsStored ==
  AtRest /\ SignedIn /\ crossed \subseteq {"dropped"} /\ faults = MaxFaults /\ current.v # None /\ current.v = selection
    => row[current.v] = [status |-> current.status, text |-> saved, files |-> assets]
=============================================================================
