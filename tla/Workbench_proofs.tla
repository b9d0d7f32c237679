-------------------------- MODULE Workbench_proofs ---------------------------
(***************************************************************************)
(* Theorems about the template workbench, for any templates, versions,     *)
(* texts and files, and any number of handlers, clicks and faults.         *)
(***************************************************************************)
EXTENDS Workbench, TLAPS, WellFoundedInduction

Field == {"op", "call", "answer", "v", "text", "from", "to", "file", "rest"}

\* As much of a task's type as the proofs need: it is a record with these fields.
Shape(t) == t = [f \in Field |-> t[f]]

LEMMA IdleShape == Shape(Idle) /\ Idle.op = "idle" /\ Idle.call = "none"
BY DEF Shape, Idle, Field

\* Everything a continued task may change but its call.
LEMMA AnswerShape ==
  ASSUME NEW t, Shape(t), NEW answer, NEW to, NEW file, NEW rest
  PROVE  /\ LET n == [t EXCEPT !.answer = answer]
            IN  Shape(n) /\ n.op = t.op /\ n.call = t.call /\ n.v = t.v /\ n.from = t.from
         /\ LET n == [t EXCEPT !.answer = answer, !.to = to]
            IN  Shape(n) /\ n.op = t.op /\ n.call = t.call /\ n.v = t.v /\ n.from = t.from
         /\ LET n == [t EXCEPT !.answer = answer, !.file = file, !.rest = rest]
            IN  Shape(n) /\ n.op = t.op /\ n.call = t.call /\ n.v = t.v /\ n.from = t.from
BY DEF Shape, Field

-----------------------------------------------------------------------------
(* The invariant.                                                          *)

Tasks == task = [s \in Slot |-> task[s]] /\ \A s \in Slot : Shape(task[s])

\* One handler saves or publishes at a time: draftWrite.
DraftWrites == {"save", "publish"}
OneWrite == \A s \in Slot : task[s].op \in DraftWrites =>
  draftWrite /\ \A r \in Slot : task[r].op \in DraftWrites => r = s

\* A save is answered before its list is asked for.
Saving(t) == t.call = "put" \/ (t.call = "list" /\ t.answer # "ok")
SaveCalls == \A s \in Slot : task[s].op = "save" => Saving(task[s])

\* What is loaded is what is selected.
LoadShape == load = [f \in {"v", "read", "row"} |-> load[f]]
LoadOk ==
  /\ LoadShape
  /\ load.read => load.v # None
  /\ load.v # None => load.v = selection

\* A draft on the screen has its own text; so has what is saved, and what is shown is not
\* replaced by another's text while a save of it is under way.
DraftOwn == current.status = "draft" => origin = current.v
PutsOwn  == \A s \in Slot : task[s].call = "put" => task[s].from = task[s].v
SavesOwn == \A s \in Slot :
  task[s].op = "save" /\ task[s].call = "put" /\ selection = task[s].v => origin = task[s].v
Own == "open" \notin crossed => DraftOwn /\ PutsOwn /\ SavesOwn

WorkbenchInv ==
  /\ Tasks
  /\ OneWrite
  /\ SaveCalls
  /\ LoadOk
  /\ Own
  /\ BusyIsBacked

Waits == {"idle", "list", "template"} \* handlers that leave busy alone

LEMMA BackedBy ==
  BusyIsBacked <=> (busy => \/ load.v # None \/ compiling \/ selection = None
                            \/ \E s \in Slot : task[s].op \notin Waits)
BY DEF BusyIsBacked, Waits

-----------------------------------------------------------------------------
(* Steps that leave the tasks alone.                                       *)

\* The page changes what it shows, and the text stays.
LEMMA ShowInv ==
  ASSUME WorkbenchInv, UNCHANGED <<task, origin, draftWrite, selection, load>>,
         crossed \subseteq crossed',
         current' = current \/ current'.status # "draft",
         busy' /\ ~compiling' => busy /\ ~compiling
  PROVE  WorkbenchInv'
<1>1. Tasks' /\ OneWrite' /\ SaveCalls' BY DEF WorkbenchInv, Tasks, OneWrite, SaveCalls
<1>2. LoadOk' BY DEF WorkbenchInv, LoadOk, LoadShape
<1>3. Own' BY DEF WorkbenchInv, Own, DraftOwn, PutsOwn, SavesOwn
<1>4. BusyIsBacked' BY DEF WorkbenchInv, BusyIsBacked
<1>. QED BY <1>1, <1>2, <1>3, <1>4 DEF WorkbenchInv

LEMMA TypeInv == ASSUME WorkbenchInv, NEW t \in Typed, Type(t) PROVE WorkbenchInv'
BY ShowInv DEF Type, nav, view, locks

LEMMA AnalysisInv == ASSUME WorkbenchInv, AnalysisAnswers PROVE WorkbenchInv'
BY ShowInv DEF AnalysisAnswers, editor, nav, locks

LEMMA CompileInv == ASSUME WorkbenchInv, Compile PROVE WorkbenchInv'
BY ShowInv DEF Compile, editor, nav, locks

LEMMA CompileAnswersInv == ASSUME WorkbenchInv, CompileAnswers PROVE WorkbenchInv'
BY ShowInv DEF CompileAnswers, editor, nav, locks

LEMMA StutterInv == ASSUME WorkbenchInv, UNCHANGED vars PROVE WorkbenchInv'
BY ShowInv DEF vars, editor, nav, view, locks

LEMMA SignedOutInv == ASSUME SignedOut PROVE WorkbenchInv'
<1>1. Tasks' /\ OneWrite' /\ SaveCalls' BY IdleShape DEF SignedOut, Tasks, OneWrite, DraftWrites, SaveCalls
<1>2. LoadOk' BY DEF SignedOut, LoadOk, LoadShape, NoLoad
<1>3. Own' BY IdleShape DEF SignedOut, Own, DraftOwn, PutsOwn, SavesOwn, NoVersion
<1>4. BusyIsBacked' BY DEF SignedOut, BusyIsBacked
<1>. QED BY <1>1, <1>2, <1>3, <1>4 DEF WorkbenchInv

-----------------------------------------------------------------------------
(* Selecting and loading.                                                  *)

\* Selecting a version loads it; a write to it that is under way is marked.
LEMMA SelectFacts ==
  ASSUME LoadOk, NEW v, NEW b, Select(v, b)
  PROVE  /\ LoadOk' /\ selection' = v /\ crossed \subseteq crossed'
         /\ busy' => \/ load'.v # None \/ selection' = None
                     \/ b /\ v = selection /\ UNCHANGED <<load, compiling>>
         /\ v # selection /\ Writing(v) => "open" \in crossed'
<1>1. CASE v = selection BY <1>1 DEF Select, LoadOk, LoadShape
<1>2. CASE v # selection
  <2>1. load' = [NoLoad EXCEPT !.v = v] /\ selection' = v BY <1>2 DEF Select
  <2>2. LoadOk' /\ load'.v = v BY <2>1 DEF NoLoad, LoadOk, LoadShape
  <2>. QED BY <1>2, <2>1, <2>2 DEF Select
<1>. QED BY <1>1, <1>2

LEMMA SelectsInv ==
  ASSUME WorkbenchInv, NEW v, NEW b, Select(v, b), b => busy,
         UNCHANGED <<task, origin, draftWrite>>,
         current' = current \/ current'.status # "draft"
  PROVE  WorkbenchInv'
<1>1. Tasks' /\ OneWrite' /\ SaveCalls' BY DEF WorkbenchInv, Tasks, OneWrite, SaveCalls
<1>2. LoadOk' BY SelectFacts DEF WorkbenchInv
<1>3. Own'
  <2>. SUFFICES ASSUME "open" \notin crossed' PROVE DraftOwn' /\ PutsOwn' /\ SavesOwn' BY DEF Own
  <2>1. DraftOwn /\ PutsOwn /\ SavesOwn /\ selection' = v /\ (v # selection => ~Writing(v))
    BY SelectFacts DEF WorkbenchInv, Own
  <2>2. SavesOwn' BY <2>1 DEF SavesOwn, Writing, Writes
  <2>. QED BY <2>1, <2>2 DEF DraftOwn, PutsOwn
<1>4. BusyIsBacked' BY SelectFacts DEF WorkbenchInv, BusyIsBacked
<1>. QED BY <1>1, <1>2, <1>3, <1>4 DEF WorkbenchInv
LEMMA OpenInv == ASSUME WorkbenchInv, NEW v, Open(v) PROVE WorkbenchInv'
<1>1. /\ Select(v, busy) /\ UNCHANGED <<task, origin, draftWrite>>
      /\ current' = current \/ current' = NoVersion
  BY DEF Open, locks
<1>. QED BY <1>1, SelectsInv DEF NoVersion

LEMMA SelectTemplateInv == ASSUME WorkbenchInv, NEW sl, SelectTemplate(sl) PROVE WorkbenchInv'
<1>. DEFINE n == Newest(known.row, sl)
<1>1. current' = NoVersion /\ UNCHANGED <<task, draftWrite>> BY DEF SelectTemplate, locks
<1>2. CASE n > 0
  <2>1. Select(<<sl, n>>, busy) /\ UNCHANGED origin BY <1>2 DEF SelectTemplate
  <2>. HIDE DEF n
  <2>. QED BY <1>1, <2>1, SelectsInv DEF NoVersion
<1>3. CASE ~ (n > 0)
  <2>1. selection' = None /\ load' = NoLoad /\ origin' = None /\ UNCHANGED <<compiling, crossed>>
    BY <1>3 DEF SelectTemplate
  <2>2. Tasks' /\ OneWrite' /\ SaveCalls' BY <1>1 DEF WorkbenchInv, Tasks, OneWrite, SaveCalls
  <2>3. LoadOk' BY <2>1 DEF LoadOk, LoadShape, NoLoad
  <2>4. Own' BY <1>1, <2>1 DEF WorkbenchInv, Own, DraftOwn, PutsOwn, SavesOwn, NoVersion
  <2>5. BusyIsBacked' BY <2>1 DEF BusyIsBacked
  <2>. QED BY <2>2, <2>3, <2>4, <2>5 DEF WorkbenchInv
<1>. QED BY <1>2, <1>3

LEMMA ReadVersionInv == ASSUME WorkbenchInv, ReadVersion PROVE WorkbenchInv'
<1>1. /\ load.v # None /\ load' = [load EXCEPT !.read = TRUE, !.row = row[load.v]]
      /\ UNCHANGED <<editor, selection, view, busy, locks, task, crossed>>
  BY DEF ReadVersion
<1>2. LoadShape' /\ load'.v = load.v BY <1>1 DEF WorkbenchInv, LoadOk, LoadShape
<1>3. LoadOk' BY <1>1, <1>2 DEF WorkbenchInv, LoadOk
<1>4. Tasks' /\ OneWrite' /\ SaveCalls' BY <1>1 DEF WorkbenchInv, Tasks, OneWrite, SaveCalls, locks
<1>5. Own' BY <1>1 DEF WorkbenchInv, Own, DraftOwn, PutsOwn, SavesOwn, editor
<1>6. BusyIsBacked' BY <1>1, <1>2 DEF BusyIsBacked
<1>. QED BY <1>3, <1>4, <1>5, <1>6 DEF WorkbenchInv

\* The version that arrives is the one selected.
LEMMA LoadEndsInv == ASSUME WorkbenchInv, LoadArrives \/ LoadFails PROVE WorkbenchInv'
<1>1. /\ load' = NoLoad /\ busy' = FALSE /\ UNCHANGED <<selection, locks, task, crossed>>
      /\ \/ UNCHANGED editor
         \/ load.v = selection /\ origin' = load.v /\ current'.v = load.v
  <2>1. CASE LoadArrives
    <3>1. load.v = selection BY <2>1 DEF LoadArrives, WorkbenchInv, LoadOk
    <3>2. load' = NoLoad /\ busy' = FALSE /\ origin' = load.v /\ current'.v = load.v
      BY <2>1 DEF LoadArrives
    <3>3. UNCHANGED <<selection, locks, task, crossed>> BY <2>1 DEF LoadArrives
    <3>. QED BY <3>1, <3>2, <3>3
  <2>2. CASE LoadFails BY <2>2 DEF LoadFails
  <2>. QED BY <2>1, <2>2
<1>2. Tasks' /\ OneWrite' /\ SaveCalls' BY <1>1 DEF WorkbenchInv, Tasks, OneWrite, SaveCalls, locks
<1>3. LoadOk' BY <1>1 DEF LoadOk, LoadShape, NoLoad
<1>4. Own' BY <1>1 DEF WorkbenchInv, Own, DraftOwn, PutsOwn, SavesOwn, editor
<1>5. BusyIsBacked' BY <1>1 DEF BusyIsBacked
<1>. QED BY <1>2, <1>3, <1>4, <1>5 DEF WorkbenchInv

-----------------------------------------------------------------------------
(* Requests.                                                               *)

LEMMA RequestTasks ==
  ASSUME Tasks, NEW s \in Slot, NEW t, Shape(t), Request(s, t)
  PROVE  /\ Tasks' /\ task[s] = Idle /\ crossed \subseteq crossed'
         /\ \A r \in Slot : r # s => task'[r] = task[r]
         /\ task'[s].op = t.op /\ task'[s].call = t.call /\ task'[s].v = t.v /\ task'[s].from = t.from
<1>. DEFINE n == [t EXCEPT !.answer = "waiting"]
<1>1. Shape(n) /\ n.op = t.op /\ n.call = t.call /\ n.v = t.v /\ n.from = t.from BY AnswerShape
<1>2. task' = [task EXCEPT ![s] = n] /\ task[s] = Idle /\ crossed \subseteq crossed' BY DEF Request
<1>. HIDE DEF n
<1>3. \A r \in Slot : task'[r] = IF r = s THEN n ELSE task[r] BY <1>2 DEF Tasks
<1>4. task' = [r \in Slot |-> task'[r]] BY <1>2 DEF Tasks
<1>5. Tasks' BY <1>1, <1>3, <1>4 DEF Tasks
<1>. QED BY <1>1, <1>2, <1>3, <1>5

\* A request that writes no draft.
LEMMA RequestInv ==
  ASSUME WorkbenchInv, NEW s \in Slot, NEW t, Shape(t), Request(s, t),
         t.op \notin DraftWrites, t.call # "put", busy' => busy \/ t.op \notin Waits,
         UNCHANGED <<editor, nav, view, locks>>
  PROVE  WorkbenchInv'
<1>1. /\ Tasks' /\ task[s] = Idle /\ crossed \subseteq crossed'
      /\ \A r \in Slot : r # s => task'[r] = task[r]
      /\ task'[s].op = t.op /\ task'[s].call = t.call
  BY RequestTasks DEF WorkbenchInv
<1>2. OneWrite' /\ SaveCalls' BY <1>1 DEF WorkbenchInv, OneWrite, SaveCalls, DraftWrites, locks
<1>3. LoadOk' BY DEF WorkbenchInv, LoadOk, LoadShape, nav
<1>4. Own' BY <1>1 DEF WorkbenchInv, Own, DraftOwn, PutsOwn, SavesOwn, editor, nav
<1>5. BusyIsBacked'
  <2>1. \A r \in Slot : task[r].op \notin Waits => task'[r].op \notin Waits
    BY <1>1, IdleShape DEF Waits
  <2>. QED BY <1>1, <2>1, BackedBy DEF WorkbenchInv, BusyIsBacked, Waits, nav, view
<1>. QED BY <1>1, <1>2, <1>3, <1>4, <1>5 DEF WorkbenchInv

\* A save, or the save of a publication, sends the text of the draft on the screen.
LEMMA WriteInv ==
  ASSUME WorkbenchInv, NEW s \in Slot, NEW t, Shape(t), Request(s, t),
         t.op \in DraftWrites, t.op = "save" => t.call = "put", t.v = current.v, t.from = origin, current.status = "draft",
         ~draftWrite, draftWrite' = TRUE,
         UNCHANGED <<editor, nav, view>>
  PROVE  WorkbenchInv'
<1>1. /\ Tasks' /\ task[s] = Idle /\ crossed \subseteq crossed'
      /\ \A r \in Slot : r # s => task'[r] = task[r]
      /\ task'[s].op = t.op /\ task'[s].call = t.call /\ task'[s].v = t.v /\ task'[s].from = t.from
  BY RequestTasks DEF WorkbenchInv
<1>2. OneWrite' /\ SaveCalls' BY <1>1 DEF WorkbenchInv, OneWrite, SaveCalls, Saving
<1>3. LoadOk' BY DEF WorkbenchInv, LoadOk, LoadShape, nav
<1>4. Own' BY <1>1 DEF WorkbenchInv, Own, DraftOwn, PutsOwn, SavesOwn, editor, nav
<1>5. BusyIsBacked' BY <1>1 DEF BusyIsBacked, DraftWrites
<1>. QED BY <1>1, <1>2, <1>3, <1>4, <1>5 DEF WorkbenchInv

\* A handler that gives up at once.
LEMMA GivesUpInv ==
  ASSUME WorkbenchInv, busy' = FALSE, UNCHANGED <<editor, nav, view, locks, task, crossed>>
  PROVE  WorkbenchInv'
BY ShowInv DEF editor, nav, view, locks
LEMMA AuthenticatedInv == ASSUME WorkbenchInv, NEW s \in Slot, Authenticated(s) PROVE WorkbenchInv'
<1>1. UNCHANGED <<editor, nav, view, busy, locks>> BY DEF Authenticated
<1>2. CASE UNCHANGED <<task, crossed>>
  BY <1>1, <1>2, ShowInv DEF editor, nav, view, locks
<1>3. CASE Request(s, [Idle EXCEPT !.op = "list", !.call = "list"])
  <2>. DEFINE t == [Idle EXCEPT !.op = "list", !.call = "list"]
  <2>1. Shape(t) /\ t.op = "list" /\ t.call = "list" /\ Request(s, t) BY <1>3 DEF Idle, Shape, Field
  <2>. HIDE DEF t
  <2>. QED BY <1>1, <2>1, RequestInv DEF DraftWrites
<1>. QED BY <1>2, <1>3 DEF Authenticated

LEMMA SaveInv == ASSUME WorkbenchInv, NEW s \in Slot, Save(s) PROVE WorkbenchInv'
<1>. DEFINE t == [Idle EXCEPT !.op = "save", !.call = "put", !.v = current.v, !.text = text, !.from = origin]
<1>1. /\ UNCHANGED <<editor, nav, view, publishing>> /\ ~draftWrite /\ current.status = "draft"
  BY DEF Save, Editable
<1>2. CASE Parses(text)
  <2>1. Request(s, t) /\ draftWrite' = TRUE BY <1>2 DEF Save
  <2>2. Shape(t) /\ t.op = "save" /\ t.call = "put" /\ t.v = current.v /\ t.from = origin BY DEF Idle, Shape, Field
  <2>. HIDE DEF t
  <2>. QED BY <1>1, <2>1, <2>2, WriteInv DEF DraftWrites
<1>3. CASE ~Parses(text)
  <2>1. busy' = FALSE /\ UNCHANGED <<draftWrite, task, crossed>> BY <1>3 DEF Save
  <2>. QED BY <1>1, <2>1, GivesUpInv DEF locks
<1>. QED BY <1>2, <1>3

LEMMA PublishDraftInv == ASSUME WorkbenchInv, NEW s \in Slot, PublishDraft(s) PROVE WorkbenchInv'
<1>. DEFINE call == IF Dirty THEN "put" ELSE "approve"
<1>. DEFINE t == [Idle EXCEPT !.op = "publish", !.call = call, !.v = current.v, !.text = text, !.from = origin]
<1>1. /\ UNCHANGED <<editor, nav, view>> /\ ~draftWrite /\ current.status = "draft"
  BY DEF PublishDraft, Publishable, Editable
<1>2. CASE ~Dirty \/ Parses(text)
  <2>1. Request(s, t) /\ draftWrite' = TRUE BY <1>2 DEF PublishDraft
  <2>. HIDE DEF call
  <2>2. Shape(t) /\ t.op = "publish" /\ t.v = current.v /\ t.from = origin BY DEF Idle, Shape, Field
  <2>. HIDE DEF t
  <2>. QED BY <1>1, <2>1, <2>2, WriteInv DEF DraftWrites
<1>3. CASE ~(~Dirty \/ Parses(text))
  <2>1. busy' = FALSE /\ UNCHANGED <<locks, task, crossed>> BY <1>3 DEF PublishDraft
  <2>. QED BY <1>1, <2>1, GivesUpInv
<1>. QED BY <1>2, <1>3

LEMMA CreateVersionInv ==
  ASSUME WorkbenchInv, NEW s \in Slot, NEW sl, CreateVersion(s, sl)
  PROVE  WorkbenchInv'
<1>. DEFINE own == current.v # None /\ SlugOf(current.v) = sl
<1>. DEFINE t == [Idle EXCEPT !.op = "create", !.call = "create", !.v = <<sl, 1>>,
                             !.text = IF own THEN text ELSE Starter,
                             !.from = IF own THEN current.v ELSE None]
<1>1. UNCHANGED <<editor, nav, view, locks>> BY DEF CreateVersion
<1>2. CASE own => Parses(text)
  <2>1. Request(s, t) BY <1>2 DEF CreateVersion
  <2>. HIDE DEF own
  <2>2. Shape(t) /\ t.op = "create" /\ t.call = "create" BY DEF Idle, Shape, Field
  <2>. HIDE DEF t
  <2>. QED BY <1>1, <2>1, <2>2, RequestInv DEF DraftWrites, Waits
<1>3. CASE ~(own => Parses(text))
  <2>1. busy' = FALSE /\ UNCHANGED <<task, crossed>> BY <1>3 DEF CreateVersion
  <2>. QED BY <1>1, <2>1, GivesUpInv
<1>. QED BY <1>2, <1>3

LEMMA SimpleClicksInv ==
  ASSUME WorkbenchInv, NEW s \in Slot,
         \/ Transition(s) \/ Discard(s) \/ Archive(s)
         \/ \E files \in (SUBSET File) \ {{}} : Upload(s, files)
         \/ \E f \in File : DeleteAsset(s, f)
         \/ \E sl \in Slug : NewTemplate(s, sl)
  PROVE  WorkbenchInv'
<1>1. CASE Transition(s)
  <2>. DEFINE t == [Idle EXCEPT !.op = "transition", !.call = "publish", !.v = current.v]
  <2>1. Request(s, t) /\ UNCHANGED <<editor, nav, view, locks>> BY <1>1 DEF Transition
  <2>2. Shape(t) /\ t.op = "transition" /\ t.call = "publish" BY DEF Idle, Shape, Field
  <2>. HIDE DEF t
  <2>. QED BY <2>1, <2>2, RequestInv DEF DraftWrites, Waits
<1>2. CASE Discard(s)
  <2>1. PICK to : /\ Request(s, [Idle EXCEPT !.op = "discard", !.call = "delete", !.v = current.v, !.to = to])
                  /\ UNCHANGED <<editor, nav, view, locks>>
    BY <1>2 DEF Discard
  <2>. DEFINE t == [Idle EXCEPT !.op = "discard", !.call = "delete", !.v = current.v, !.to = to]
  <2>2. Shape(t) /\ t.op = "discard" /\ t.call = "delete" BY DEF Idle, Shape, Field
  <2>. HIDE DEF t
  <2>3. Request(s, t) BY <2>1 DEF t
  <2>. QED BY <2>1, <2>2, <2>3, RequestInv DEF DraftWrites, Waits
<1>3. CASE Archive(s)
  <2>. DEFINE call == IF Archived THEN "restore" ELSE "archive"
  <2>. DEFINE t == [Idle EXCEPT !.op = "archive", !.call = call, !.v = <<slug, 1>>, !.to = current.v]
  <2>1. Request(s, t) /\ UNCHANGED <<editor, nav, view, locks>> BY <1>3 DEF Archive
  <2>2. call # "put" OBVIOUS
  <2>. HIDE DEF call
  <2>3. Shape(t) /\ t.op = "archive" /\ t.call = call BY DEF Idle, Shape, Field
  <2>. HIDE DEF t
  <2>. QED BY <2>1, <2>2, <2>3, RequestInv DEF DraftWrites, Waits
<1>4. ASSUME NEW files \in (SUBSET File) \ {{}}, Upload(s, files) PROVE WorkbenchInv'
  <2>1. PICK f \in files :
          Request(s, [Idle EXCEPT !.op = "upload", !.call = "upload", !.v = current.v, !.file = f,
                                  !.rest = files \ {f}])
    BY <1>4 DEF Upload
  <2>. DEFINE rest == files \ {f}
  <2>. DEFINE t == [Idle EXCEPT !.op = "upload", !.call = "upload", !.v = current.v, !.file = f, !.rest = rest]
  <2>2. UNCHANGED <<editor, nav, view, locks>> /\ Request(s, t) BY <1>4, <2>1 DEF Upload
  <2>. HIDE DEF rest
  <2>3. Shape(t) /\ t.op = "upload" /\ t.call = "upload" BY DEF Idle, Shape, Field
  <2>. HIDE DEF t
  <2>. QED BY <2>2, <2>3, RequestInv DEF DraftWrites, Waits
<1>5. ASSUME NEW f \in File, DeleteAsset(s, f) PROVE WorkbenchInv'
  <2>. DEFINE t == [Idle EXCEPT !.op = "unload", !.call = "unload", !.v = current.v, !.file = f]
  <2>1. Request(s, t) /\ UNCHANGED <<editor, nav, view, locks>> BY <1>5 DEF DeleteAsset
  <2>2. Shape(t) /\ t.op = "unload" /\ t.call = "unload" BY DEF Idle, Shape, Field
  <2>. HIDE DEF t
  <2>. QED BY <2>1, <2>2, RequestInv DEF DraftWrites, Waits
<1>6. ASSUME NEW sl \in Slug, NewTemplate(s, sl) PROVE WorkbenchInv'
  <2>. DEFINE t == [Idle EXCEPT !.op = "template", !.call = "template", !.v = <<sl, 1>>]
  <2>1. Request(s, t) /\ UNCHANGED <<editor, nav, view, busy, locks>> BY <1>6 DEF NewTemplate
  <2>2. Shape(t) /\ t.op = "template" /\ t.call = "template" BY DEF Idle, Shape, Field
  <2>. HIDE DEF t
  <2>. QED BY <2>1, <2>2, RequestInv DEF DraftWrites, Waits
<1>. QED BY <1>1, <1>2, <1>3, <1>4, <1>5, <1>6

LEMMA ClicksInv == ASSUME WorkbenchInv, NEW s \in Slot, Clicks(s) PROVE WorkbenchInv'
<1>1. ASSUME OpenOrCreateDraft(s) PROVE WorkbenchInv'
  <2>1. (\E v : Open(v)) \/ CreateVersion(s, SlugOf(current.v)) BY <1>1 DEF OpenOrCreateDraft
  <2>. QED BY <2>1, OpenInv, CreateVersionInv
<1>2. ASSUME CreateFirstDraft(s) PROVE WorkbenchInv' BY <1>2, CreateVersionInv DEF CreateFirstDraft
<1>. QED BY <1>1, <1>2, SaveInv, PublishDraftInv, SimpleClicksInv DEF Clicks
-----------------------------------------------------------------------------
(* Answers.                                                                *)

\* A handler goes on for the same version, or ends.
Follows(s) ==
  /\ Tasks'
  /\ \A r \in Slot : r # s => task'[r] = task[r]
  /\ \/ /\ task'[s].op = task[s].op /\ task'[s].v = task[s].v /\ task'[s].from = task[s].from
        /\ task'[s].call = task[s].call \/ task'[s].call # "put"
        /\ task[s].op = "save" => Saving(task'[s])
        /\ draftWrite' = draftWrite
     \/ task'[s] = Idle /\ draftWrite' = (draftWrite /\ task[s].op \notin DraftWrites)

LEMMA ThenFollows ==
  ASSUME Tasks, NEW s \in Slot, NEW call, NEW to, Then(s, call, to), call # "put",
         task[s].op = "save" => call = "list", draftWrite' = draftWrite
  PROVE  Follows(s) /\ task'[s].op = task[s].op /\ task'[s].call = call
<1>. DEFINE n == [task[s] EXCEPT !.call = call, !.answer = "waiting", !.to = to]
<1>1. /\ Shape(n) /\ n.op = task[s].op /\ n.call = call /\ n.v = task[s].v /\ n.from = task[s].from
      /\ n.answer = "waiting"
  BY DEF Tasks, Shape, Field
<1>2. task' = [task EXCEPT ![s] = n] BY DEF Then, Tasks
<1>. HIDE DEF n
<1>3. \A r \in Slot : task'[r] = IF r = s THEN n ELSE task[r] BY <1>2 DEF Tasks
<1>4. task' = [r \in Slot |-> task'[r]] BY <1>2 DEF Tasks
<1>5. Tasks' BY <1>1, <1>3, <1>4 DEF Tasks
<1>. QED BY <1>1, <1>3, <1>5 DEF Follows, Saving

LEMMA EndsFollows ==
  ASSUME Tasks, NEW s \in Slot, Ends(s)
  PROVE  Follows(s) /\ task'[s] = Idle
<1>1. task' = [task EXCEPT ![s] = Idle] /\ draftWrite' = (draftWrite /\ task[s].op \notin DraftWrites)
  BY DEF Ends, DraftWrites
<1>2. \A r \in Slot : task'[r] = IF r = s THEN Idle ELSE task[r] BY <1>1 DEF Tasks
<1>3. task' = [r \in Slot |-> task'[r]] BY <1>1 DEF Tasks
<1>4. Tasks' BY <1>2, <1>3, IdleShape DEF Tasks
<1>. QED BY <1>1, <1>2, <1>4 DEF Follows

LEMMA FollowsKeeps ==
  ASSUME WorkbenchInv, NEW s \in Slot, Follows(s)
  PROVE  Tasks' /\ OneWrite' /\ SaveCalls' /\ (PutsOwn => PutsOwn')
<1>1. OneWrite'
  <2>1. \A r \in Slot : task'[r].op \in DraftWrites => task[r].op \in DraftWrites
    BY IdleShape DEF Follows, DraftWrites
  <2>2. ASSUME NEW r \in Slot, task'[r].op \in DraftWrites PROVE draftWrite'
    <3>1. draftWrite /\ (task[s].op \in DraftWrites => s = r) BY <2>1, <2>2 DEF WorkbenchInv, OneWrite
    <3>2. r = s => task'[s] # Idle BY <2>2, IdleShape DEF DraftWrites
    <3>3. draftWrite' = draftWrite \/ draftWrite' = (draftWrite /\ task[s].op \notin DraftWrites)
      BY DEF Follows
    <3>4. CASE r # s BY <3>1, <3>3, <3>4
    <3>5. CASE r = s
      <4>1. draftWrite' = draftWrite BY <3>2, <3>5 DEF Follows
      <4>. QED BY <3>1, <4>1
    <3>. QED BY <3>4, <3>5
  <2>. QED BY <2>1, <2>2 DEF WorkbenchInv, OneWrite
<1>2. SaveCalls' BY IdleShape DEF WorkbenchInv, SaveCalls, Follows
<1>3. PutsOwn => PutsOwn' BY IdleShape DEF PutsOwn, Follows
<1>. QED BY <1>1, <1>2, <1>3 DEF Follows

LEMMA FollowsSaves ==
  ASSUME NEW s \in Slot, Follows(s), SavesOwn, UNCHANGED <<selection, origin>>
  PROVE  SavesOwn'
BY IdleShape DEF SavesOwn, Follows

\* A handler goes on or ends, and leaves the selection and the text alone.
LEMMA AnswerInv ==
  ASSUME WorkbenchInv, NEW s \in Slot, Follows(s),
         UNCHANGED <<selection, load, compiling, origin>>, crossed \subseteq crossed',
         current' = current \/ current'.status # "draft",
         busy' => busy /\ (task'[s].op = task[s].op \/ task[s].op \in Waits)
  PROVE  WorkbenchInv'
<1>1. LoadOk' BY DEF WorkbenchInv, LoadOk, LoadShape
<1>2. Own'
  <2>. SUFFICES ASSUME "open" \notin crossed' PROVE DraftOwn' /\ PutsOwn' /\ SavesOwn' BY DEF Own
  <2>1. DraftOwn /\ PutsOwn /\ SavesOwn BY DEF WorkbenchInv, Own
  <2>. QED BY <2>1, FollowsKeeps, FollowsSaves DEF DraftOwn
<1>3. BusyIsBacked'
  <2>1. busy' => \A r \in Slot : task[r].op \notin Waits => task'[r].op \notin Waits BY DEF Follows
  <2>. QED BY <2>1, BackedBy DEF WorkbenchInv, BusyIsBacked, Waits
<1>. QED BY <1>1, <1>2, <1>3, FollowsKeeps DEF WorkbenchInv

LEMMA ServeInv == ASSUME WorkbenchInv, NEW s \in Slot, Serve(s) \/ Disrupt(s) PROVE WorkbenchInv'
<1>. DEFINE t == task[s]
<1>1. /\ t.call \notin {"list", "relist"} /\ UNCHANGED <<editor, nav, view, busy, locks>>
      /\ crossed \subseteq crossed'
      /\ \/ task' = [task EXCEPT ![s].answer = "error"]
         \/ task' = [task EXCEPT ![s].answer = "ok", ![s].to = Created(t)]
  BY DEF Serve, Disrupt
<1>2. \E n : /\ task' = [task EXCEPT ![s] = n] /\ Shape(n) /\ n.op = t.op /\ n.call = t.call
             /\ n.v = t.v /\ n.from = t.from
  <2>1. Shape(t) /\ task = [r \in Slot |-> task[r]] BY DEF WorkbenchInv, Tasks
  <2>2. CASE task' = [task EXCEPT ![s].answer = "error"]
    <3>. DEFINE n == [t EXCEPT !.answer = "error"]
    <3>1. Shape(n) /\ n.op = t.op /\ n.call = t.call /\ n.v = t.v /\ n.from = t.from
      BY <2>1 DEF Shape, Field
    <3>2. task' = [task EXCEPT ![s] = n] BY <2>1, <2>2
    <3>. HIDE DEF n
    <3>. QED BY <3>1, <3>2
  <2>3. CASE task' = [task EXCEPT ![s].answer = "ok", ![s].to = Created(t)]
    <3>. DEFINE n == [t EXCEPT !.answer = "ok", !.to = Created(t)]
    <3>1. Shape(n) /\ n.op = t.op /\ n.call = t.call /\ n.v = t.v /\ n.from = t.from
      BY <2>1 DEF Shape, Field
    <3>2. task' = [task EXCEPT ![s] = n] BY <2>1, <2>3
    <3>. HIDE DEF n
    <3>. QED BY <3>1, <3>2
  <2>. QED BY <1>1, <2>2, <2>3
<1>3. PICK n : /\ task' = [task EXCEPT ![s] = n] /\ Shape(n) /\ n.op = t.op /\ n.call = t.call
              /\ n.v = t.v /\ n.from = t.from
  BY <1>2
<1>4. task' = [r \in Slot |-> task'[r]] /\ \A r \in Slot : task'[r] = IF r = s THEN n ELSE task[r]
  BY <1>3 DEF WorkbenchInv, Tasks
<1>5. Tasks' BY <1>3, <1>4 DEF WorkbenchInv, Tasks
<1>6. t.op = "save" => t.call = "put" BY <1>1 DEF WorkbenchInv, SaveCalls, Saving
<1>7. Follows(s) BY <1>1, <1>3, <1>4, <1>5, <1>6 DEF Follows, Saving, locks
<1>. QED BY <1>1, <1>3, <1>4, <1>7, AnswerInv DEF editor, nav, view
\* A handler goes on or ends, and selects a version.
LEMMA AnswerSelectsInv ==
  ASSUME WorkbenchInv, NEW s \in Slot, Follows(s), NEW v, NEW b, Select(v, b), UNCHANGED origin,
         current' = current \/ current'.status # "draft",
         b => busy /\ (task'[s].op = task[s].op \/ task[s].op \in Waits)
  PROVE  WorkbenchInv'
<1>1. LoadOk' BY SelectFacts DEF WorkbenchInv
<1>2. Own'
  <2>. SUFFICES ASSUME "open" \notin crossed' PROVE DraftOwn' /\ PutsOwn' /\ SavesOwn' BY DEF Own
  <2>1. DraftOwn /\ PutsOwn /\ SavesOwn /\ selection' = v /\ (v # selection => ~Writing(v))
    BY SelectFacts DEF WorkbenchInv, Own
  <2>2. ASSUME NEW r \in Slot, task'[r].op = "save", task'[r].call = "put"
        PROVE  task[r].op = "save" /\ task[r].call = "put" /\ task'[r].v = task[r].v
    BY <2>2, IdleShape DEF Follows
  <2>3. SavesOwn' BY <2>1, <2>2 DEF SavesOwn, Writing, Writes
  <2>. QED BY <2>1, <2>3, FollowsKeeps DEF DraftOwn
<1>3. BusyIsBacked'
  <2>1. b => \A r \in Slot : task[r].op \notin Waits => task'[r].op \notin Waits BY DEF Follows
  <2>2. busy' => \/ load'.v # None \/ selection' = None
                 \/ b /\ v = selection /\ UNCHANGED <<load, selection, compiling>>
    BY SelectFacts DEF WorkbenchInv
  <2>. QED BY <2>1, <2>2, BackedBy DEF WorkbenchInv, BusyIsBacked, Waits
<1>. QED BY <1>1, <1>2, <1>3, FollowsKeeps DEF WorkbenchInv

\* A save is acknowledged over the text that was saved, or what was typed over it.
LEMMA SaveAnsweredInv == ASSUME WorkbenchInv, NEW s \in Slot, SaveAnswered(s) PROVE WorkbenchInv'
<1>. DEFINE t == task[s]
<1>1. /\ t.op = "save" /\ t.answer = "ok" /\ UNCHANGED <<nav, view>> /\ crossed \subseteq crossed' /\ Tasks
  BY DEF SaveAnswered, Answered, WorkbenchInv
<1>2. t.call = "put" BY <1>1 DEF WorkbenchInv, SaveCalls, Saving
<1>3. CASE selection # t.v
  <2>1. Ends(s) /\ busy' = FALSE /\ UNCHANGED editor BY <1>3 DEF SaveAnswered
  <2>. QED BY <1>1, <2>1, EndsFollows, AnswerInv DEF editor, nav, view
<1>4. CASE selection = t.v
  <2>1. /\ current' = [v |-> t.v, status |-> "draft"]
        /\ origin' = (IF text = t.text THEN t.v ELSE origin)
        /\ Then(s, "list", None) /\ UNCHANGED <<busy, locks>>
    BY <1>4 DEF SaveAnswered
  <2>2. Follows(s) /\ task'[s].op = t.op /\ task'[s].call = "list"
    BY <1>1, <2>1, ThenFollows DEF locks
  <2>3. LoadOk' BY <1>1 DEF WorkbenchInv, LoadOk, LoadShape, nav
  <2>4. Own'
    <3>. SUFFICES ASSUME "open" \notin crossed' PROVE DraftOwn' /\ PutsOwn' /\ SavesOwn' BY DEF Own
    <3>1. DraftOwn /\ PutsOwn /\ SavesOwn BY <1>1 DEF WorkbenchInv, Own
    <3>2. origin' = t.v BY <1>1, <1>2, <1>4, <2>1, <3>1 DEF SavesOwn
    <3>3. DraftOwn' BY <2>1, <3>2 DEF DraftOwn
    <3>4. ASSUME NEW r \in Slot, r # s PROVE task'[r].op # "save"
      BY <1>1, <2>2, <3>4 DEF Follows, WorkbenchInv, OneWrite, DraftWrites
    <3>5. SavesOwn' BY <2>2, <3>4 DEF SavesOwn
    <3>. QED BY <2>2, <3>1, <3>3, <3>5, FollowsKeeps
  <2>5. BusyIsBacked' BY <1>1, <2>2 DEF BusyIsBacked
  <2>. QED BY <2>2, <2>3, <2>4, <2>5, FollowsKeeps DEF WorkbenchInv
<1>. QED BY <1>3, <1>4

\* The save of a publication puts its own text on the screen.
LEMMA PublishAnsweredInv == ASSUME WorkbenchInv, NEW s \in Slot, PublishAnswered(s) PROVE WorkbenchInv'
<1>. DEFINE t == task[s]
<1>1. /\ t.op = "publish" /\ UNCHANGED <<nav, compiling, busy, locks>> /\ Tasks
      /\ crossed' \in {crossed, crossed \cup {"over"}} /\ (t.call # "put" => UNCHANGED crossed)
  BY DEF PublishAnswered, Answered, WorkbenchInv
<1>2. CASE t.call = "put"
  <2>1. /\ current' = [v |-> t.v, status |-> "draft"] /\ origin' = t.v
        /\ Then(s, "approve", None)
    BY <1>2 DEF PublishAnswered
  <2>2. Follows(s) /\ task'[s].op = t.op BY <1>1, <2>1, ThenFollows DEF locks
  <2>3. LoadOk' BY <1>1 DEF WorkbenchInv, LoadOk, LoadShape, nav
  <2>4. \A r \in Slot : task'[r].op # "save"
    BY <1>1, <2>2 DEF Follows, WorkbenchInv, OneWrite, DraftWrites
  <2>5. Own' BY <1>1, <2>1, <2>2, <2>4, FollowsKeeps DEF WorkbenchInv, Own, DraftOwn, SavesOwn
  <2>6. BusyIsBacked' BY <1>1, <2>2 DEF BusyIsBacked
  <2>. QED BY <2>2, <2>3, <2>5, <2>6, FollowsKeeps DEF WorkbenchInv
<1>3. CASE t.call # "put"
  <2>1. /\ current'.status # "draft" /\ UNCHANGED origin
        /\ Then(s, "publish", None) \/ Then(s, "list", t.v)
    BY <1>3 DEF PublishAnswered
  <2>2. Follows(s) /\ task'[s].op = t.op BY <1>1, <2>1, ThenFollows DEF locks
  <2>. QED BY <1>1, <2>1, <2>2, AnswerInv DEF nav
<1>. QED BY <1>2, <1>3

LEMMA AssetAnsweredInv == ASSUME WorkbenchInv, NEW s \in Slot, AssetAnswered(s) PROVE WorkbenchInv'
<1>. DEFINE t == task[s]
<1>1. t.op \in {"upload", "unload"} /\ UNCHANGED <<editor, nav, compiling, crossed>> /\ Tasks
  BY DEF AssetAnswered, Answered, WorkbenchInv
<1>2. CASE selection = t.v /\ t.rest # {}
  <2>1. PICK f \in t.rest :
          task' = [task EXCEPT ![s] = [t EXCEPT !.answer = "waiting", !.file = f, !.rest = @ \ {f}]]
    BY <1>2 DEF AssetAnswered
  <2>2. UNCHANGED <<busy, locks>> BY <1>2 DEF AssetAnswered
  <2>. DEFINE n == [t EXCEPT !.answer = "waiting", !.file = f, !.rest = @ \ {f}]
  <2>3. Shape(n) /\ n.op = t.op /\ n.call = t.call /\ n.v = t.v /\ n.from = t.from
    BY <1>1 DEF Tasks, Shape, Field
  <2>. HIDE DEF n
  <2>4. task' = [r \in Slot |-> task'[r]] /\ \A r \in Slot : task'[r] = IF r = s THEN n ELSE task[r]
    BY <1>1, <2>1 DEF Tasks, n
  <2>5. Tasks' BY <1>1, <2>3, <2>4 DEF Tasks
  <2>6. Follows(s) BY <1>1, <2>2, <2>3, <2>4, <2>5 DEF Follows, locks
  <2>. QED BY <1>1, <2>2, <2>3, <2>4, <2>6, AnswerInv DEF editor, nav
<1>3. CASE ~(selection = t.v /\ t.rest # {})
  <2>1. Ends(s) /\ busy' = FALSE BY <1>3 DEF AssetAnswered
  <2>. QED BY <1>1, <2>1, EndsFollows, AnswerInv DEF editor, nav
<1>. QED BY <1>2, <1>3

\* Failures, and lists that fail, end a handler or let a publication read its list again.
LEMMA FailedInv == ASSUME WorkbenchInv, NEW s \in Slot, Failed(s) \/ ListFails(s) PROVE WorkbenchInv'
<1>. DEFINE t == task[s]
<1>1. /\ UNCHANGED <<origin, nav, view, crossed>> /\ Tasks
      /\ \/ /\ t.op = "publish" /\ current'.status # "draft"
            /\ Then(s, "relist", t.v) /\ UNCHANGED <<busy, locks>>
         \/ Ends(s) /\ (busy' => busy /\ t.op \in Waits) /\ UNCHANGED current
  <2>1. CASE Failed(s)
    <3>1. UNCHANGED <<origin, nav, view, crossed>> BY <2>1 DEF Failed
    <3>2. CASE t.op = "publish" /\ t.call = "publish"
      <4>1. /\ current' = [v |-> t.v, status |-> "approved"]
            /\ Then(s, "relist", t.v) /\ UNCHANGED <<busy, locks>>
        BY <2>1, <3>2 DEF Failed
      <4>. QED BY <3>1, <3>2, <4>1 DEF WorkbenchInv
    <3>3. CASE ~(t.op = "publish" /\ t.call = "publish")
      <4>1. Ends(s) /\ busy' = (busy /\ t.op = "template") /\ UNCHANGED current
        BY <2>1, <3>3 DEF Failed
      <4>2. t.op = "template" => t.op \in Waits BY DEF Waits
      <4>3. busy' => busy /\ t.op \in Waits BY <4>1, <4>2, Zenon
      <4>. QED BY <3>1, <4>1, <4>3 DEF WorkbenchInv
    <3>. QED BY <3>2, <3>3
  <2>2. CASE ListFails(s)
    <3>1. UNCHANGED <<origin, nav, view, crossed>> BY <2>2 DEF ListFails
    <3>2. CASE t.op = "publish" /\ t.call = "list"
      <4>1. /\ current' = [v |-> t.v, status |-> "approved"]
            /\ Then(s, "relist", t.v) /\ UNCHANGED <<busy, locks>>
        BY <2>2, <3>2 DEF ListFails
      <4>. QED BY <3>1, <3>2, <4>1 DEF WorkbenchInv
    <3>3. CASE ~(t.op = "publish" /\ t.call = "list")
      <4>1. Ends(s) /\ busy' = StaysBusy(t) /\ UNCHANGED current
        BY <2>2, <3>3 DEF ListFails
      <4>2. t.op \in {"list", "template"} => t.op \in Waits BY DEF Waits
      <4>3. busy' => busy /\ t.op \in Waits BY <4>1, <4>2, Zenon DEF StaysBusy
      <4>. QED BY <3>1, <4>1, <4>3 DEF WorkbenchInv
    <3>. QED BY <3>2, <3>3
  <2>. QED BY <2>1, <2>2
<1>2. CASE t.op = "publish" /\ Then(s, "relist", t.v) /\ UNCHANGED <<busy, locks>>
           /\ current'.status # "draft"
  <2>1. Follows(s) /\ task'[s].op = t.op BY <1>1, <1>2, ThenFollows DEF locks
  <2>. QED BY <1>1, <1>2, <2>1, AnswerInv DEF nav, view
<1>3. CASE Ends(s) /\ (busy' => busy /\ t.op \in Waits) /\ UNCHANGED current
  BY <1>1, <1>3, EndsFollows, AnswerInv DEF nav, view
<1>. QED BY <1>1, <1>2, <1>3

LEMMA ListArrivesInv == ASSUME WorkbenchInv, NEW s \in Slot, ListArrives(s) PROVE WorkbenchInv'
<1>1. PICK v : Select(v, StaysBusy(task[s])) BY DEF ListArrives
<1>2. Ends(s) /\ UNCHANGED <<current, origin>> BY DEF ListArrives
<1>3. Follows(s) BY <1>2, EndsFollows DEF WorkbenchInv
<1>4. StaysBusy(task[s]) => busy /\ task[s].op \in Waits BY DEF StaysBusy, Waits
<1>. HIDE DEF StaysBusy
<1>. QED BY <1>1, <1>2, <1>3, <1>4, AnswerSelectsInv

LEMMA AnswersInv == ASSUME WorkbenchInv, NEW s \in Slot, Answers(s) PROVE WorkbenchInv'
<1>1. ASSUME TransitionAnswered(s) PROVE WorkbenchInv'
  <2>1. /\ current'.status # "draft" /\ UNCHANGED <<origin, nav, view, busy, locks, crossed>>
        /\ Then(s, "list", task[s].v)
    BY <1>1 DEF TransitionAnswered
  <2>2. Follows(s) /\ task'[s].op = task[s].op BY <2>1, ThenFollows DEF WorkbenchInv, locks
  <2>. QED BY <2>1, <2>2, AnswerInv DEF nav, view
<1>2. ASSUME ListNext(s) PROVE WorkbenchInv'
  <2>1. UNCHANGED <<editor, nav, view, busy, locks, crossed>> /\ Then(s, "list", task[s].to)
    BY <1>2 DEF ListNext
  <2>2. Follows(s) /\ task'[s].op = task[s].op BY <2>1, ThenFollows DEF WorkbenchInv, locks
  <2>. QED BY <2>1, <2>2, AnswerInv DEF editor, nav, view
<1>3. ASSUME DiscardAnswered(s) PROVE WorkbenchInv'
  <2>1. /\ current' = NoVersion /\ Select(task[s].to, busy) /\ UNCHANGED <<origin, locks>>
        /\ Then(s, "list", task[s].to)
    BY <1>3 DEF DiscardAnswered
  <2>2. Follows(s) /\ task'[s].op = task[s].op BY <2>1, ThenFollows DEF WorkbenchInv, locks
  <2>. QED BY <2>1, <2>2, AnswerSelectsInv DEF NoVersion
<1>. QED
  BY <1>1, <1>2, <1>3, SaveAnsweredInv, PublishAnsweredInv, AssetAnsweredInv, FailedInv, ListArrivesInv
  DEF Answers

-----------------------------------------------------------------------------
(* The specification.                                                      *)

LEMMA WorkbenchInit == ASSUME Init PROVE WorkbenchInv
<1>1. task = [s \in Slot |-> Idle] /\ load = NoLoad /\ current = NoVersion /\ busy = FALSE /\ origin = None
  BY DEF Init
<1>2. Tasks /\ OneWrite /\ SaveCalls BY <1>1, IdleShape DEF Tasks, OneWrite, SaveCalls, DraftWrites
<1>3. LoadOk BY <1>1 DEF LoadOk, LoadShape, NoLoad
<1>4. Own BY <1>1, IdleShape DEF Own, DraftOwn, PutsOwn, SavesOwn, NoVersion
<1>5. BusyIsBacked BY <1>1 DEF BusyIsBacked
<1>. QED BY <1>2, <1>3, <1>4, <1>5 DEF WorkbenchInv

LEMMA WorkbenchNext == ASSUME WorkbenchInv, [Next]_vars PROVE WorkbenchInv'
<1>1. ASSUME NEW s \in Slot, Authenticated(s) \/ Clicks(s) \/ Serve(s) \/ Disrupt(s) \/ Answers(s)
      PROVE  WorkbenchInv'
  BY <1>1, AuthenticatedInv, ClicksInv, ServeInv, AnswersInv
<1>2. CASE Logout \/ Expire BY <1>2, SignedOutInv DEF Logout, Expire
<1>3. CASE \E t \in Typed : Type(t) BY <1>3, TypeInv
<1>4. CASE \E v \in Version : SelectVersion(v) BY <1>4, OpenInv DEF SelectVersion
<1>5. CASE \E sl \in Slug : SelectTemplate(sl) BY <1>5, SelectTemplateInv
<1>6. CASE ReadVersion BY <1>6, ReadVersionInv
<1>7. CASE LoadArrives \/ LoadFails BY <1>7, LoadEndsInv
<1>8. CASE AnalysisAnswers BY <1>8, AnalysisInv
<1>9. CASE Compile BY <1>9, CompileInv
<1>10. CASE CompileAnswers BY <1>10, CompileAnswersInv
<1>11. CASE UNCHANGED vars BY <1>11, StutterInv
<1>. QED
  BY <1>1, <1>2, <1>3, <1>4, <1>5, <1>6, <1>7, <1>8, <1>9, <1>10, <1>11 DEF Next

\* What the pages' handlers rely on, for any templates, texts and number of handlers: one save
\* or publication at a time, and what is loaded is what is selected (App.tsx 160-226, 285-323).
THEOREM WorkbenchCorrect == Spec => []WorkbenchInv
<1>1. Init => WorkbenchInv BY WorkbenchInit
<1>2. WorkbenchInv /\ [Next]_vars => WorkbenchInv' BY WorkbenchNext
<1>. QED BY <1>1, <1>2, PTL DEF Spec

\* A version is only written with text that comes from it (App.tsx 206-217, 292-296).
THEOREM WritesOwnText == Spec => []OwnText
<1>1. WorkbenchInv => OwnText BY DEF WorkbenchInv, Own, PutsOwn, OwnText
<1>. QED BY <1>1, WorkbenchCorrect, PTL

\* Something that is under way will end the wait (App.tsx 186-188, 222-225, 262-266), except
\* when nothing is selected: a template without versions gives up a load without ending the
\* wait (161, 473).
THEOREM WaitsEnd == Spec => []BusyIsBacked
<1>1. WorkbenchInv => BusyIsBacked BY DEF WorkbenchInv
<1>. QED BY <1>1, WorkbenchCorrect, PTL

-----------------------------------------------------------------------------
(* Types.                                                                  *)

\* Handlers but those of the first list name a version; which calls belong to which handler.
TaskOk(t) ==
  /\ t.op = "idle" => t = Idle
  /\ t.op = "list" => t.call = "list"
  /\ t.op \notin {"idle", "list"} => t.v \in Version
  /\ t.op \in {"upload", "unload"} => t.file \in File /\ t.call = t.op
  /\ t.op = "transition" => t.call = "publish" \/ (t.call = "list" /\ t.answer # "ok")
  /\ t.call \in {"upload", "unload"} => t.op = t.call
  /\ t.call = "put" => t.op \in DraftWrites
  /\ t.call \in {"approve", "publish"} => t.op \in {"publish", "transition"}
  /\ t.call = "delete" => t.op = "discard"
  /\ t.call = "template" => t.v = <<SlugOf(t.v), 1>>

\* What the page shows is a version.
CurrentOk == current.status # "none" => current.v \in Version

ServerTypes == row \in [Version -> Row] /\ template \in [Slug -> {"none", "active", "archived"}]
TaskTypes   == task \in [Slot -> Task] /\ \A s \in Slot : TaskOk(task[s])
EditorTypes ==
  /\ current \in [v : Version \cup {None}, status : Status]
  /\ text \in Text /\ saved \in Text /\ origin \in Version \cup {None}
  /\ CurrentOk
NavTypes ==
  /\ slug \in Slug \cup {None} /\ selection \in Version \cup {None}
  /\ load \in [v : Version \cup {None}, read : BOOLEAN, row : Row]
  /\ assets \subseteq File /\ compiling \in BOOLEAN
KnownTypes ==
  /\ user \in {"unknown", "admin", "viewer", "out"}
  /\ known \in [row : [Version -> Status], template : [Slug -> {"none", "active", "archived"}]]
FlagTypes ==
  /\ contract \in Text \cup {None} /\ busy \in BOOLEAN
  /\ draftWrite \in BOOLEAN /\ publishing \in BOOLEAN
  /\ clicks \in 0 .. MaxClicks /\ faults \in 0 .. MaxFaults
  /\ crossed \subseteq {"open", "write", "reload", "lost", "dropped", "over"}
EffectTypes == analysis \in {"none", "waiting", "done", "failed"} /\ timer \in BOOLEAN

TypesInv ==
  ServerTypes /\ TaskTypes /\ EditorTypes /\ NavTypes /\ KnownTypes /\ FlagTypes /\ EffectTypes

LEMMA TypesAreTypes == TypesInv => TypeOK
BY DEF TypesInv, ServerTypes, TaskTypes, EditorTypes, NavTypes, KnownTypes, FlagTypes, EffectTypes, TypeOK

LEMMA NullTypes ==
  /\ NoRow \in Row /\ NoVersion \in [v : Version \cup {None}, status : Status]
  /\ NoVersion.v = None /\ NoVersion.status = "none"
  /\ NoLoad \in [v : Version \cup {None}, read : BOOLEAN, row : Row]
  /\ NoLoad.v = None /\ NoLoad.read = FALSE
  /\ Idle \in Task /\ TaskOk(Idle) /\ Idle.file = None
BY WorkbenchAssumption DEF NoRow, Row, Status, NoVersion, NoLoad, Idle, Task, Op, Call, Writes, TaskOk,
   DraftWrites

\* Numbers of versions.
Less == {p \in Nat \X Nat : p[1] < p[2]}

LEMMA LessWellFounded == IsWellFoundedOn(Less, Nat)
BY NatLessThanWellFounded DEF OpToRel, Less

LEMMA GreatestInSet ==
  ASSUME NEW n \in Nat, NEW S \in SUBSET (0 .. n), S # {}
  PROVE  Max(S) \in S /\ \A x \in S : x =< Max(S)
<1>. DEFINE T == {m \in 0 .. n : n - m \in S}
<1>0. T \in SUBSET Nat OBVIOUS
<1>1. T # {}
  <2>1. PICK x \in S : TRUE OBVIOUS
  <2>2. n - x \in 0 .. n /\ n - (n - x) = x OBVIOUS
  <2>. QED BY <2>1, <2>2
<1>2. PICK m \in T : \A y \in T : <<y, m>> \notin Less BY <1>0, <1>1, LessWellFounded, WFMin
<1>3. ASSUME NEW x \in S PROVE n - m >= x
  <2>1. n - x \in 0 .. n /\ n - (n - x) = x OBVIOUS
  <2>2. n - x \in T BY <2>1
  <2>3. ~ (n - x < m) BY <1>0, <1>2, <2>2 DEF Less
  <2>. QED BY <2>1, <2>3
<1>4. n - m \in S OBVIOUS
<1>5. \E x \in S : \A y \in S : x >= y BY <1>3, <1>4
<1>. QED BY <1>5 DEF Max

LEMMA VersionParts ==
  /\ \A v \in Version : SlugOf(v) \in Slug /\ v = <<SlugOf(v), v[2]>> /\ v[2] \in 1 .. MaxVersion
  /\ \A sl \in Slug, n \in 1 .. MaxVersion : <<sl, n>> \in Version /\ SlugOf(<<sl, n>>) = sl
  /\ \A sl \in Slug : <<sl, 1>> \in Version
  /\ None \notin Version \cup Slug
BY WorkbenchAssumption DEF Version, SlugOf

LEMMA NewestNumber ==
  ASSUME NEW sl \in Slug, NEW status \in [Version -> Status]
  PROVE  /\ Newest(status, sl) \in 0 .. MaxVersion
         /\ Newest(status, sl) > 0 => <<sl, Newest(status, sl)>> \in Version
         /\ \A n \in 1 .. MaxVersion : status[<<sl, n>>] # "none" => n =< Newest(status, sl)
<1>. DEFINE S == {0} \cup Numbers(status, sl)
<1>1. MaxVersion \in Nat /\ S \in SUBSET (0 .. MaxVersion) /\ S # {}
  BY WorkbenchAssumption DEF Numbers
<1>2. Newest(status, sl) = Max(S) BY DEF Newest
<1>. HIDE DEF S
<1>3. Max(S) \in 0 .. MaxVersion /\ \A x \in S : x =< Max(S) BY <1>1, GreatestInSet
<1>4. \A n \in 1 .. MaxVersion : status[<<sl, n>>] # "none" => n \in S BY DEF S, Numbers
<1>. QED BY <1>2, <1>3, <1>4, VersionParts

LEMMA CatalogTypes ==
  ASSUME ServerTypes
  PROVE  Catalog \in [row : [Version -> Status], template : [Slug -> {"none", "active", "archived"}]]
BY DEF Catalog, ServerTypes, Row

\* Handler s becomes n.
Becomes(s, n) == task' = [task EXCEPT ![s] = n]

LEMMA BecomesTypes ==
  ASSUME TaskTypes, NEW s \in Slot, NEW n \in Task, TaskOk(n), Becomes(s, n)
  PROVE  TaskTypes' /\ \A r \in Slot : task'[r] = IF r = s THEN n ELSE task[r]
BY DEF TaskTypes, Becomes

\* A new handler.
LEMMA RequestTypes ==
  ASSUME TypesInv, NEW s \in Slot, NEW t \in Task, TaskOk(t), t.op # "idle", Request(s, t)
  PROVE  TaskTypes' /\ crossed' \subseteq {"open", "write", "reload", "lost", "dropped", "over"}
<1>. DEFINE n == [t EXCEPT !.answer = "waiting"]
<1>1. n \in Task /\ TaskOk(n) BY DEF Task, TaskOk
<1>2. Becomes(s, n) BY DEF Request, Becomes
<1>3. crossed' \subseteq crossed \cup {"write"} BY DEF Request
<1>. HIDE DEF n
<1>. QED BY <1>1, <1>2, <1>3, BecomesTypes DEF TypesInv, FlagTypes

\* A handler asks for a list, or a publication for its next step.
LEMMA ThenTypes ==
  ASSUME TaskTypes, NEW s \in Slot, task[s].op \notin {"idle", "list", "upload", "unload"}, NEW call,
         NEW to \in Version \cup {None}, Then(s, call, to),
         call = "list" \/ (call \in {"approve", "publish", "relist"} /\ task[s].op = "publish")
  PROVE  TaskTypes'
<1>. DEFINE n == [task[s] EXCEPT !.call = call, !.answer = "waiting", !.to = to]
<1>1. task[s] \in Task /\ TaskOk(task[s]) BY DEF TaskTypes
<1>2. n \in Task
  <2>1. call \in Call BY DEF Call, Writes
  <2>. QED BY <1>1, <2>1 DEF Task
<1>3. TaskOk(n)
  <2>1. /\ n.op = task[s].op /\ n.call = call /\ n.v = task[s].v /\ n.file = task[s].file
        /\ n.answer = "waiting"
    BY <1>1 DEF Task
  <2>. HIDE DEF n
  <2>. QED BY <1>1, <2>1 DEF TaskOk
<1>4. Becomes(s, n) BY <1>1 DEF Becomes, Then, TaskTypes
<1>. HIDE DEF n
<1>. QED BY <1>2, <1>3, <1>4, BecomesTypes

LEMMA EndsTypes ==
  ASSUME TaskTypes, NEW s \in Slot, Ends(s)
  PROVE  TaskTypes' /\ draftWrite' \in BOOLEAN /\ publishing' \in BOOLEAN
<1>1. Becomes(s, Idle) BY DEF Ends, Becomes
<1>2. draftWrite' \in BOOLEAN /\ publishing' \in BOOLEAN BY DEF Ends
<1>. QED BY <1>1, <1>2, NullTypes, BecomesTypes

LEMMA EffectsTypes ==
  ASSUME EffectTypes, NEW b, Effects(b) PROVE EffectTypes'
<1>1. analysis' \in {analysis, "waiting", "none"} BY DEF Effects
<1>2. timer' \in BOOLEAN
  <2>1. Compilable' \in BOOLEAN BY DEF Compilable
  <2>. HIDE DEF Compilable
  <2>. QED BY <2>1 DEF Effects, EffectTypes
<1>. QED BY <1>1, <1>2 DEF EffectTypes

LEMMA SelectTypes ==
  ASSUME TypesInv, NEW v \in Version \cup {None}, NEW b \in BOOLEAN, Select(v, b)
  PROVE  /\ selection' \in Version \cup {None} /\ busy' \in BOOLEAN
         /\ load' \in [v : Version \cup {None}, read : BOOLEAN, row : Row]
         /\ assets' \subseteq File /\ compiling' \in BOOLEAN
         /\ crossed' \subseteq {"open", "write", "reload", "lost", "dropped", "over"}
<1>1. selection' = v /\ busy' \in BOOLEAN BY DEF Select
<1>2. load' \in [v : Version \cup {None}, read : BOOLEAN, row : Row]
  <2>1. [NoLoad EXCEPT !.v = v] \in [v : Version \cup {None}, read : BOOLEAN, row : Row] BY NullTypes
  <2>. QED BY <2>1 DEF Select, TypesInv, NavTypes
<1>3. assets' \subseteq File /\ compiling' \in BOOLEAN BY DEF Select, TypesInv, NavTypes
<1>4. crossed' \subseteq crossed \cup {"open", "reload"} BY DEF Select
<1>. QED BY <1>1, <1>2, <1>3, <1>4 DEF TypesInv, FlagTypes

LEMMA ClickTypes ==
  ASSUME FlagTypes, Click \/ Fail \/ UNCHANGED budgets
  PROVE  clicks' \in 0 .. MaxClicks /\ faults' \in 0 .. MaxFaults
BY WorkbenchAssumption DEF FlagTypes, Click, Fail, budgets

-----------------------------------------------------------------------------
\* A handler that only begins.
LEMMA BeginsTypes ==
  ASSUME TypesInv, NEW s \in Slot, NEW t \in Task, TaskOk(t), t.op # "idle", Request(s, t),
         Click \/ UNCHANGED budgets, busy' \in BOOLEAN, draftWrite' \in BOOLEAN, publishing' \in BOOLEAN,
         UNCHANGED <<server, known, editor, nav, view, effects>>,
         user' \in {"unknown", "admin", "viewer", "out"}
  PROVE  TypesInv'
<1>1. TaskTypes' /\ crossed' \subseteq {"open", "write", "reload", "lost", "dropped", "over"} BY RequestTypes
<1>2. clicks' \in 0 .. MaxClicks /\ faults' \in 0 .. MaxFaults BY ClickTypes DEF TypesInv
<1>3. FlagTypes' BY <1>1, <1>2 DEF TypesInv, FlagTypes, view
<1>4. ServerTypes' /\ EditorTypes' /\ NavTypes' /\ EffectTypes'
  BY DEF TypesInv, ServerTypes, EditorTypes, CurrentOk, NavTypes, EffectTypes, server, editor, nav, view, effects
<1>5. KnownTypes' BY DEF TypesInv, KnownTypes
<1>. QED BY <1>1, <1>3, <1>4, <1>5 DEF TypesInv

\* A step that leaves server and handlers alone.
LEMMA StaysTypes ==
  ASSUME TypesInv, UNCHANGED <<server, task, user, known>>,
         EditorTypes', NavTypes', FlagTypes', EffectTypes'
  PROVE  TypesInv'
BY DEF TypesInv, ServerTypes, TaskTypes, KnownTypes, server

LEMMA GivesUpTypes ==
  ASSUME TypesInv, Click \/ UNCHANGED budgets, busy' \in BOOLEAN, draftWrite' \in BOOLEAN, publishing' \in BOOLEAN,
         UNCHANGED <<server, user, known, editor, nav, view, effects, task, crossed>>
  PROVE  TypesInv'
<1>1. clicks' \in 0 .. MaxClicks /\ faults' \in 0 .. MaxFaults BY ClickTypes DEF TypesInv
<1>2. FlagTypes' BY <1>1 DEF TypesInv, FlagTypes, view
<1>3. EditorTypes' /\ NavTypes' /\ EffectTypes'
  BY DEF TypesInv, EditorTypes, CurrentOk, NavTypes, EffectTypes, editor, nav, view, effects
<1>. QED BY <1>2, <1>3, StaysTypes

Users == {"unknown", "admin", "viewer", "out"}

LEMMA EditedVersion == ASSUME TypesInv, current.status # "none" PROVE current.v \in Version
BY DEF TypesInv, EditorTypes, CurrentOk

\* Which handlers and calls there are.
LEMMA Names ==
  /\ {"save", "publish", "transition", "create", "discard", "archive", "upload", "unload", "template", "list"}
       \subseteq Op
  /\ {"none", "put", "approve", "publish", "delete", "upload", "unload", "create", "archive", "restore",
      "template", "list", "relist"} \subseteq Call
BY DEF Op, Call, Writes

LEMMA AuthenticatedTypes == ASSUME TypesInv, NEW s \in Slot, Authenticated(s) PROVE TypesInv'
<1>. DEFINE t == [Idle EXCEPT !.op = "list", !.call = "list"]
<1>1. UNCHANGED <<server, known, editor, nav, view, busy, locks, effects, budgets>> BY DEF Authenticated
<1>2. user' \in Users BY DEF Authenticated, Users
<1>3. CASE Request(s, t)
  <2>1. t \in Task /\ TaskOk(t) /\ t.op # "idle"
    <3>1. t \in Task /\ t.op = "list" /\ t.call = "list" BY NullTypes, Names DEF Task
    <3>. HIDE DEF t
    <3>. QED BY <3>1 DEF TaskOk, DraftWrites
  <2>. HIDE DEF t
  <2>2. busy' \in BOOLEAN /\ draftWrite' \in BOOLEAN /\ publishing' \in BOOLEAN
    BY <1>1 DEF locks, TypesInv, FlagTypes
  <2>. QED BY <1>1, <1>2, <1>3, <2>1, <2>2, BeginsTypes DEF Users
<1>4. CASE UNCHANGED <<task, crossed>>
  BY <1>1, <1>2, <1>4 DEF TypesInv, ServerTypes, TaskTypes, EditorTypes, CurrentOk, NavTypes, KnownTypes, FlagTypes,
     EffectTypes, server, editor, nav, view, locks, effects, budgets, Users
<1>. QED BY <1>3, <1>4 DEF Authenticated

LEMMA SignedOutTypes ==
  ASSUME TypesInv, SignedOut, clicks' \in 0 .. MaxClicks, faults' \in 0 .. MaxFaults PROVE TypesInv'
<1>1. ServerTypes' BY DEF SignedOut, server, TypesInv, ServerTypes
<1>2. TaskTypes' BY NullTypes DEF SignedOut, TaskTypes
<1>3. EditorTypes' BY NullTypes, WorkbenchAssumption DEF SignedOut, EditorTypes, CurrentOk
<1>4. NavTypes' BY NullTypes DEF SignedOut, NavTypes
<1>5. KnownTypes' BY DEF SignedOut, KnownTypes, Status
<1>6. FlagTypes' /\ EffectTypes' BY DEF SignedOut, FlagTypes, EffectTypes
<1>. QED BY <1>1, <1>2, <1>3, <1>4, <1>5, <1>6 DEF TypesInv

LEMMA LeavesTypes == ASSUME TypesInv, Logout \/ Expire PROVE TypesInv'
<1>1. SignedOut /\ (Click \/ Fail) BY DEF Logout, Expire
<1>2. clicks' \in 0 .. MaxClicks /\ faults' \in 0 .. MaxFaults BY <1>1, ClickTypes DEF TypesInv
<1>. QED BY <1>1, <1>2, SignedOutTypes

LEMMA TypeTypes == ASSUME TypesInv, NEW t \in Typed, Type(t) PROVE TypesInv'
<1>1. /\ text' = t
      /\ UNCHANGED <<server, user, known, current, saved, origin, nav, view, busy, locks, task, crossed, budgets>>
  BY DEF Type
<1>2. EffectTypes' BY EffectsTypes DEF Type, TypesInv
<1>3. EditorTypes' BY <1>1, WorkbenchAssumption DEF TypesInv, EditorTypes, CurrentOk
<1>4. NavTypes' BY <1>1 DEF TypesInv, NavTypes, nav, view
<1>5. FlagTypes' BY <1>1 DEF TypesInv, FlagTypes, view, locks, budgets
<1>. QED BY <1>1, <1>2, <1>3, <1>4, <1>5, StaysTypes

\* What the version on the screen is when a request that writes it begins.
StatusBefore(call) == IF call = "publish" THEN "approved" ELSE "draft"

\* What a click begins: requests that write a version are for the one on the screen, and a
\* publication sends its text unless it has been saved.
Clicked(s, t) ==
  /\ t \in Task /\ TaskOk(t) /\ t.op # "idle" /\ Request(s, t)
  /\ t.call \in Writes => t.v = current.v /\ current.status = StatusBefore(t.call)
  /\ t.op = "publish" => /\ t.v = current.v /\ t.text = text /\ current.status = "draft" /\ ~draftWrite
                         /\ t.call = "put" \/ (t.call = "approve" /\ text = saved)

ClickStep(s) ==
  /\ Click /\ UNCHANGED <<server, user, known, editor, nav, view, effects>>
  /\ busy' \in BOOLEAN /\ draftWrite' \in BOOLEAN /\ publishing' \in BOOLEAN
  /\ UNCHANGED <<task, crossed>> \/ \E t : Clicked(s, t)

LEMMA SaveStep == ASSUME TypesInv, NEW s \in Slot, Save(s) PROVE ClickStep(s)
<1>. DEFINE t == [Idle EXCEPT !.op = "save", !.call = "put", !.v = current.v, !.text = text, !.from = origin]
<1>1. /\ Click /\ current.status = "draft" /\ publishing' \in BOOLEAN
      /\ UNCHANGED <<server, user, known, editor, nav, view, effects>>
  BY DEF Save, Editable, TypesInv, FlagTypes
<1>2. CASE Parses(text)
  <2>1. Request(s, t) /\ busy' = TRUE /\ draftWrite' = TRUE BY <1>2 DEF Save
  <2>2. current.v \in Version /\ text \in Text /\ origin \in Version \cup {None}
    BY <1>1, EditedVersion DEF TypesInv, EditorTypes
  <2>3. t \in Task /\ t.op = "save" /\ t.call = "put" /\ t.v = current.v /\ t.file = None
    BY <2>2, NullTypes, Names DEF Task
  <2>. HIDE DEF t
  <2>4. Clicked(s, t) BY <1>1, <2>1, <2>2, <2>3 DEF Clicked, StatusBefore, Writes, TaskOk, DraftWrites
  <2>. QED BY <1>1, <2>1, <2>4 DEF ClickStep
<1>3. CASE ~Parses(text)
  <2>1. busy' = FALSE /\ UNCHANGED <<draftWrite, task, crossed>> BY <1>3 DEF Save
  <2>. QED BY <1>1, <2>1 DEF ClickStep, TypesInv, FlagTypes
<1>. QED BY <1>2, <1>3

LEMMA PublishStep == ASSUME TypesInv, NEW s \in Slot, PublishDraft(s) PROVE ClickStep(s)
<1>. DEFINE call == IF Dirty THEN "put" ELSE "approve"
<1>. DEFINE t == [Idle EXCEPT !.op = "publish", !.call = call, !.v = current.v, !.text = text, !.from = origin]
<1>1. /\ Click /\ Editable /\ ~draftWrite /\ UNCHANGED <<server, user, known, editor, nav, view, effects>>
  BY DEF PublishDraft, Publishable
<1>2. current.status = "draft" /\ (Dirty \/ text = saved) BY <1>1 DEF Editable, Dirty
<1>3. CASE ~Dirty \/ Parses(text)
  <2>1. Request(s, t) /\ busy' = TRUE /\ draftWrite' = TRUE /\ publishing' = TRUE BY <1>3 DEF PublishDraft
  <2>2. call = "put" \/ (call = "approve" /\ text = saved) BY <1>2
  <2>. HIDE DEF call
  <2>3. current.v \in Version /\ text \in Text /\ origin \in Version \cup {None}
    BY <1>2, EditedVersion DEF TypesInv, EditorTypes
  <2>4. t \in Task /\ t.op = "publish" /\ t.call = call /\ t.v = current.v /\ t.text = text /\ t.file = None
    BY <2>2, <2>3, NullTypes, Names DEF Task
  <2>. HIDE DEF t
  <2>5. Clicked(s, t) BY <1>1, <1>2, <2>1, <2>2, <2>3, <2>4 DEF Clicked, StatusBefore, Writes, TaskOk, DraftWrites
  <2>. QED BY <1>1, <2>1, <2>5 DEF ClickStep
<1>4. CASE ~(~Dirty \/ Parses(text))
  <2>1. busy' = FALSE /\ UNCHANGED <<locks, task, crossed>> BY <1>4 DEF PublishDraft
  <2>. QED BY <1>1, <2>1 DEF ClickStep, TypesInv, FlagTypes, locks
<1>. QED BY <1>3, <1>4

LEMMA CreateStep ==
  ASSUME TypesInv, NEW s \in Slot, NEW sl \in Slug, Click, CreateVersion(s, sl)
  PROVE  ClickStep(s)
<1>. DEFINE own == current.v # None /\ SlugOf(current.v) = sl
<1>. DEFINE tx == IF own THEN text ELSE Starter
<1>. DEFINE from == IF own THEN current.v ELSE None
<1>. DEFINE t == [Idle EXCEPT !.op = "create", !.call = "create", !.v = <<sl, 1>>, !.text = tx, !.from = from]
<1>1. UNCHANGED <<server, user, known, editor, nav, view, locks, effects>> BY DEF CreateVersion
<1>2. draftWrite' \in BOOLEAN /\ publishing' \in BOOLEAN BY <1>1 DEF TypesInv, FlagTypes, locks
<1>3. CASE own => Parses(text)
  <2>1. Request(s, t) /\ busy' = TRUE BY <1>3 DEF CreateVersion
  <2>2. tx \in Text /\ from \in Version \cup {None}
    BY WorkbenchAssumption DEF TypesInv, EditorTypes
  <2>. HIDE DEF tx, from
  <2>3. <<sl, 1>> \in Version BY VersionParts
  <2>4. t \in Task /\ t.op = "create" /\ t.call = "create" /\ t.v = <<sl, 1>> /\ t.file = None
    BY <2>2, <2>3, NullTypes, Names DEF Task
  <2>. HIDE DEF t
  <2>5. Clicked(s, t) BY <2>1, <2>3, <2>4 DEF Clicked, StatusBefore, Writes, TaskOk, DraftWrites
  <2>. QED BY <1>1, <1>2, <2>1, <2>5 DEF ClickStep
<1>4. CASE ~(own => Parses(text))
  <2>1. busy' = FALSE /\ UNCHANGED <<task, crossed>> BY <1>4 DEF CreateVersion
  <2>. QED BY <1>1, <1>2, <2>1 DEF ClickStep
<1>. QED BY <1>3, <1>4

LEMMA SimpleStep ==
  ASSUME TypesInv, NEW s \in Slot,
         \/ Transition(s) \/ Discard(s) \/ Archive(s)
         \/ \E files \in (SUBSET File) \ {{}} : Upload(s, files)
         \/ \E f \in File : DeleteAsset(s, f)
         \/ \E sl \in Slug : NewTemplate(s, sl)
  PROVE  ClickStep(s)
<1>0. /\ Click /\ UNCHANGED <<server, user, known, editor, nav, view, locks, effects>>
      /\ busy' \in BOOLEAN /\ draftWrite' \in BOOLEAN /\ publishing' \in BOOLEAN
  BY DEF Transition, Discard, Archive, Upload, DeleteAsset, NewTemplate, locks, TypesInv, FlagTypes
<1>. SUFFICES \E t : Clicked(s, t) BY <1>0 DEF ClickStep
<1>1. CASE Transition(s)
  <2>. DEFINE t == [Idle EXCEPT !.op = "transition", !.call = "publish", !.v = current.v]
  <2>1. current.v \in Version /\ current.status = "approved" /\ Request(s, t)
    BY <1>1, EditedVersion DEF Transition
  <2>2. t \in Task /\ t.op = "transition" /\ t.call = "publish" /\ t.v = current.v /\ t.file = None
    BY <2>1, NullTypes, Names DEF Task
  <2>. HIDE DEF t
  <2>. QED BY <2>1, <2>2 DEF Clicked, StatusBefore, Writes, TaskOk, DraftWrites
<1>2. CASE Discard(s)
  <2>. DEFINE P == {n \in 1 .. MaxVersion : known.row[<<SlugOf(current.v), n>>] = "published"}
  <2>. DEFINE to == IF P = {} THEN None ELSE <<SlugOf(current.v), Max(P)>>
  <2>. DEFINE t == [Idle EXCEPT !.op = "discard", !.call = "delete", !.v = current.v, !.to = to]
  <2>1. current.v \in Version /\ current.status = "draft" BY <1>2, EditedVersion DEF Discard, Editable
  <2>2. Request(s, t) BY <1>2 DEF Discard
  <2>3. to \in Version \cup {None}
    <3>1. CASE P = {} BY <3>1
    <3>2. CASE P # {}
      <4>1. MaxVersion \in Nat /\ P \in SUBSET (0 .. MaxVersion) /\ P \in SUBSET (1 .. MaxVersion)
        BY WorkbenchAssumption
      <4>. HIDE DEF P
      <4>2. Max(P) \in 1 .. MaxVersion BY <3>2, <4>1, GreatestInSet
      <4>3. <<SlugOf(current.v), Max(P)>> \in Version BY <2>1, <4>2, VersionParts
      <4>. QED BY <3>2, <4>3
    <3>. QED BY <3>1, <3>2
  <2>. HIDE DEF to
  <2>4. t \in Task /\ t.op = "discard" /\ t.call = "delete" /\ t.v = current.v /\ t.file = None
    BY <2>1, <2>3, NullTypes, Names DEF Task
  <2>. HIDE DEF t
  <2>. QED BY <2>1, <2>2, <2>4 DEF Clicked, StatusBefore, Writes, TaskOk, DraftWrites
<1>3. CASE Archive(s)
  <2>. DEFINE call == IF Archived THEN "restore" ELSE "archive"
  <2>. DEFINE t == [Idle EXCEPT !.op = "archive", !.call = call, !.v = <<slug, 1>>, !.to = current.v]
  <2>1. Request(s, t) /\ slug # None BY <1>3 DEF Archive
  <2>2. call \in {"restore", "archive"} OBVIOUS
  <2>3. <<slug, 1>> \in Version /\ current.v \in Version \cup {None}
    BY <2>1, VersionParts DEF TypesInv, NavTypes, EditorTypes
  <2>. HIDE DEF call
  <2>4. t \in Task /\ t.op = "archive" /\ t.call = call /\ t.v = <<slug, 1>> /\ t.file = None
    BY <2>2, <2>3, NullTypes, Names DEF Task
  <2>. HIDE DEF t
  <2>. QED BY <2>1, <2>2, <2>3, <2>4 DEF Clicked, StatusBefore, Writes, TaskOk, DraftWrites
<1>4. ASSUME NEW files \in (SUBSET File) \ {{}}, Upload(s, files) PROVE \E t : Clicked(s, t)
  <2>1. current.v \in Version /\ current.status = "draft" BY <1>4, EditedVersion DEF Upload, Editable
  <2>2. PICK f \in files :
          Request(s, [Idle EXCEPT !.op = "upload", !.call = "upload", !.v = current.v, !.file = f,
                                  !.rest = files \ {f}])
    BY <1>4 DEF Upload
  <2>. DEFINE rest == files \ {f}
  <2>. DEFINE t == [Idle EXCEPT !.op = "upload", !.call = "upload", !.v = current.v, !.file = f, !.rest = rest]
  <2>3. Request(s, t) BY <2>2
  <2>4. rest \in SUBSET File /\ f \in File OBVIOUS
  <2>. HIDE DEF rest
  <2>5. t \in Task /\ t.op = "upload" /\ t.call = "upload" /\ t.v = current.v /\ t.file = f
    BY <2>1, <2>4, NullTypes, Names DEF Task
  <2>. HIDE DEF t
  <2>. QED BY <2>1, <2>3, <2>4, <2>5 DEF Clicked, StatusBefore, Writes, TaskOk, DraftWrites
<1>5. ASSUME NEW f \in File, DeleteAsset(s, f) PROVE \E t : Clicked(s, t)
  <2>. DEFINE t == [Idle EXCEPT !.op = "unload", !.call = "unload", !.v = current.v, !.file = f]
  <2>1. current.v \in Version /\ current.status = "draft" /\ Request(s, t)
    BY <1>5, EditedVersion DEF DeleteAsset, Editable
  <2>2. t \in Task /\ t.op = "unload" /\ t.call = "unload" /\ t.v = current.v /\ t.file = f
    BY <2>1, NullTypes, Names DEF Task
  <2>. HIDE DEF t
  <2>. QED BY <2>1, <2>2 DEF Clicked, StatusBefore, Writes, TaskOk, DraftWrites
<1>6. ASSUME NEW sl \in Slug, NewTemplate(s, sl) PROVE \E t : Clicked(s, t)
  <2>. DEFINE t == [Idle EXCEPT !.op = "template", !.call = "template", !.v = <<sl, 1>>]
  <2>1. Request(s, t) /\ <<sl, 1>> \in Version /\ SlugOf(<<sl, 1>>) = sl
    BY <1>6, VersionParts, WorkbenchAssumption DEF NewTemplate
  <2>2. t \in Task /\ t.op = "template" /\ t.call = "template" /\ t.v = <<sl, 1>> /\ t.file = None
    BY <2>1, NullTypes, Names DEF Task
  <2>. HIDE DEF t
  <2>. QED BY <2>1, <2>2 DEF Clicked, StatusBefore, Writes, TaskOk, DraftWrites
<1>. QED BY <1>1, <1>2, <1>3, <1>4, <1>5, <1>6

\* A click begins a handler, gives up, or opens a version.
LEMMA ClickSteps ==
  ASSUME TypesInv, NEW s \in Slot, Clicks(s)
  PROVE  ClickStep(s) \/ \E v \in Version : Click /\ Open(v)
<1>1. CASE CreateFirstDraft(s)
  <2>1. Click /\ slug \in Slug /\ CreateVersion(s, slug)
    BY <1>1 DEF CreateFirstDraft, TypesInv, NavTypes
  <2>. QED BY <2>1, CreateStep
<1>2. CASE OpenOrCreateDraft(s)
  <2>1. Click /\ current.v \in Version BY <1>2, EditedVersion DEF OpenOrCreateDraft
  <2>2. SlugOf(current.v) \in Slug BY <2>1, VersionParts
  <2>3. CASE CreateVersion(s, SlugOf(current.v)) BY <2>1, <2>2, <2>3, CreateStep
  <2>4. ASSUME NEW c \in Candidate, Open(<<SlugOf(current.v), c[2]>>)
        PROVE  \E v \in Version : Click /\ Open(v)
    <3>1. c \in Version BY DEF Candidate
    <3>2. <<SlugOf(current.v), c[2]>> \in Version BY <2>2, <3>1, VersionParts
    <3>. QED BY <2>1, <2>4, <3>2
  <2>. QED BY <1>2, <2>3, <2>4 DEF OpenOrCreateDraft
<1>. QED BY <1>1, <1>2, SaveStep, PublishStep, SimpleStep DEF Clicks

LEMMA ClickStepTypes == ASSUME TypesInv, NEW s \in Slot, ClickStep(s) PROVE TypesInv'
<1>1. /\ Click /\ UNCHANGED <<server, user, known, editor, nav, view, effects>>
      /\ busy' \in BOOLEAN /\ draftWrite' \in BOOLEAN /\ publishing' \in BOOLEAN
  BY DEF ClickStep
<1>2. user' \in {"unknown", "admin", "viewer", "out"} BY <1>1 DEF TypesInv, KnownTypes
<1>3. ASSUME NEW t, Clicked(s, t) PROVE TypesInv'
  <2>1. t \in Task /\ TaskOk(t) /\ t.op # "idle" /\ Request(s, t) BY <1>3 DEF Clicked
  <2>. QED BY <1>1, <1>2, <2>1, BeginsTypes
<1>4. CASE UNCHANGED <<task, crossed>> BY <1>1, <1>4, GivesUpTypes
<1>. QED BY <1>3, <1>4 DEF ClickStep

-----------------------------------------------------------------------------
\* Opening versions, and what arrives of them.

LEMMA OpenTypes == ASSUME TypesInv, NEW v \in Version, Click, Open(v) PROVE TypesInv'
<1>1. /\ slug' = SlugOf(v) /\ Select(v, busy) /\ (current' = current \/ current' = NoVersion)
      /\ UNCHANGED <<server, user, known, text, saved, origin, contract, locks, task>>
  BY DEF Open
<1>2. busy \in BOOLEAN BY DEF TypesInv, FlagTypes
<1>3. /\ selection' \in Version \cup {None} /\ busy' \in BOOLEAN
      /\ load' \in [v : Version \cup {None}, read : BOOLEAN, row : Row]
      /\ assets' \subseteq File /\ compiling' \in BOOLEAN
      /\ crossed' \subseteq {"open", "write", "reload", "lost", "dropped", "over"}
  BY <1>1, <1>2, SelectTypes
<1>4. EffectTypes' BY EffectsTypes DEF Open, TypesInv
<1>5. EditorTypes' BY <1>1, NullTypes DEF TypesInv, EditorTypes, CurrentOk
<1>6. NavTypes' BY <1>1, <1>3, VersionParts DEF NavTypes
<1>7. FlagTypes' BY <1>1, <1>3, ClickTypes DEF TypesInv, FlagTypes, locks
<1>. QED BY <1>1, <1>4, <1>5, <1>6, <1>7, StaysTypes

LEMMA ClicksTypes == ASSUME TypesInv, NEW s \in Slot, Clicks(s) PROVE TypesInv'
BY ClickSteps, ClickStepTypes, OpenTypes

LEMMA SelectTemplateTypes == ASSUME TypesInv, NEW sl \in Slug, SelectTemplate(sl) PROVE TypesInv'
<1>. DEFINE n == Newest(known.row, sl)
<1>1. /\ Click /\ slug' = sl /\ current' = NoVersion /\ UNCHANGED <<server, user, known, locks, task>>
  BY DEF SelectTemplate
<1>2. EffectTypes' BY EffectsTypes DEF SelectTemplate, TypesInv
<1>3. busy \in BOOLEAN BY DEF TypesInv, FlagTypes
<1>4. known.row \in [Version -> Status] BY DEF TypesInv, KnownTypes
<1>5. CASE n > 0
  <2>1. Select(<<sl, n>>, busy) /\ UNCHANGED <<text, saved, origin, contract>> BY <1>5 DEF SelectTemplate
  <2>2. <<sl, n>> \in Version BY <1>4, <1>5, NewestNumber
  <2>. HIDE DEF n
  <2>3. /\ selection' \in Version \cup {None} /\ busy' \in BOOLEAN
        /\ load' \in [v : Version \cup {None}, read : BOOLEAN, row : Row]
        /\ assets' \subseteq File /\ compiling' \in BOOLEAN
        /\ crossed' \subseteq {"open", "write", "reload", "lost", "dropped", "over"}
    BY <1>3, <2>1, <2>2, SelectTypes
  <2>4. EditorTypes' BY <1>1, <2>1, NullTypes DEF TypesInv, EditorTypes, CurrentOk
  <2>5. NavTypes' BY <1>1, <2>3 DEF NavTypes
  <2>6. FlagTypes' BY <1>1, <2>1, <2>3, ClickTypes DEF TypesInv, FlagTypes, locks
  <2>. QED BY <1>1, <1>2, <2>4, <2>5, <2>6, StaysTypes
<1>6. CASE ~(n > 0)
  <2>1. /\ selection' = None /\ load' = NoLoad /\ text' = Blank /\ saved' = Blank
        /\ origin' = None /\ contract' = None /\ assets' = {} /\ UNCHANGED <<busy, compiling, crossed>>
    BY <1>6 DEF SelectTemplate
  <2>2. EditorTypes' BY <1>1, <2>1, NullTypes, WorkbenchAssumption DEF EditorTypes, CurrentOk
  <2>3. NavTypes' BY <1>1, <2>1, NullTypes DEF TypesInv, NavTypes
  <2>4. FlagTypes' BY <1>1, <2>1, ClickTypes DEF TypesInv, FlagTypes, locks
  <2>. QED BY <1>1, <1>2, <2>2, <2>3, <2>4, StaysTypes
<1>. QED BY <1>5, <1>6

LEMMA ReadVersionTypes == ASSUME TypesInv, ReadVersion PROVE TypesInv'
<1>1. /\ load.v # None /\ load' = [load EXCEPT !.read = TRUE, !.row = row[load.v]]
      /\ UNCHANGED <<server, user, known, editor, slug, selection, view, busy, locks, effects, task, crossed, budgets>>
  BY DEF ReadVersion
<1>2. load.v \in Version BY <1>1 DEF TypesInv, NavTypes
<1>3. row[load.v] \in Row BY <1>2 DEF TypesInv, ServerTypes
<1>4. load' \in [v : Version \cup {None}, read : BOOLEAN, row : Row] BY <1>1, <1>3 DEF TypesInv, NavTypes
<1>5. NavTypes' BY <1>1, <1>4 DEF TypesInv, NavTypes, view
<1>6. EditorTypes' /\ EffectTypes' BY <1>1 DEF TypesInv, EditorTypes, CurrentOk, EffectTypes, editor, effects
<1>7. FlagTypes' BY <1>1 DEF TypesInv, FlagTypes, view, locks, budgets
<1>. QED BY <1>1, <1>5, <1>6, <1>7, StaysTypes

LEMMA LoadArrivesTypes == ASSUME TypesInv, LoadOk, LoadArrives PROVE TypesInv'
<1>1. /\ load.v # None
      /\ slug' = SlugOf(load.v) /\ current' = [v |-> load.v, status |-> load.row.status]
      /\ text' = load.row.text /\ saved' = load.row.text /\ origin' = load.v
      /\ contract' = None /\ assets' = load.row.files
      /\ load' = NoLoad /\ busy' = FALSE
      /\ UNCHANGED <<server, user, known, selection, compiling, locks, task, crossed, budgets>>
  BY DEF LoadArrives, LoadOk
<1>2. load.v \in Version /\ load.row \in Row BY <1>1 DEF TypesInv, NavTypes
<1>3. load.row.status \in Status /\ load.row.text \in Text /\ load.row.files \subseteq File BY <1>2 DEF Row
<1>4. EffectTypes' BY EffectsTypes DEF LoadArrives, TypesInv
<1>5. EditorTypes' BY <1>1, <1>2, <1>3 DEF EditorTypes, CurrentOk
<1>6. NavTypes' BY <1>1, <1>2, <1>3, NullTypes, VersionParts DEF TypesInv, NavTypes
<1>7. FlagTypes' BY <1>1 DEF TypesInv, FlagTypes, locks, budgets
<1>. QED BY <1>1, <1>4, <1>5, <1>6, <1>7, StaysTypes

LEMMA PageTypes ==
  ASSUME TypesInv, LoadFails \/ AnalysisAnswers \/ Compile \/ CompileAnswers
  PROVE  TypesInv'
<1>1. /\ UNCHANGED <<server, user, known, editor, task, locks, crossed, slug, selection, assets>>
      /\ load' \in {load, NoLoad} /\ contract' \in {contract, text} /\ busy' \in {busy, TRUE, FALSE}
      /\ compiling' \in {compiling, TRUE, FALSE}
      /\ Click \/ Fail \/ UNCHANGED budgets
  BY DEF LoadFails, AnalysisAnswers, Compile, CompileAnswers, nav, view
<1>2. EffectTypes' BY DEF TypesInv, EffectTypes, LoadFails, AnalysisAnswers, Compile, CompileAnswers, effects
<1>3. EditorTypes' BY <1>1 DEF TypesInv, EditorTypes, CurrentOk, editor
<1>4. NavTypes' BY <1>1, NullTypes DEF TypesInv, NavTypes
<1>5. FlagTypes' BY <1>1, ClickTypes DEF TypesInv, FlagTypes, EditorTypes, locks
<1>. QED BY <1>1, <1>2, <1>3, <1>4, <1>5, StaysTypes

-----------------------------------------------------------------------------
\* The server.

\* A request to the server, that is, no list.
Sent(t) == t \in Task /\ TaskOk(t) /\ t.answer = "waiting" /\ t.call \notin {"list", "relist"}

LEMMA SentVersion == ASSUME NEW t, Sent(t) PROVE t.v \in Version /\ SlugOf(t.v) \in Slug
<1>1. t.op # "idle" BY DEF Sent, TaskOk, Idle
<1>2. t.op # "list" BY DEF Sent, TaskOk
<1>. QED BY <1>1, <1>2, VersionParts DEF Sent, TaskOk

LEMMA CreatedTypes ==
  ASSUME ServerTypes, NEW t, Sent(t), Admissible(t)
  PROVE  /\ Created(t) \in Version \cup {None} /\ Affected(t) \in Version
         /\ t.call = "create" => row[Affected(t)].status = "none"
<1>. DEFINE sl == SlugOf(t.v)
<1>. DEFINE n == Newest(Catalog.row, sl)
<1>1. t.v \in Version /\ sl \in Slug BY SentVersion
<1>2. CASE t.call = "create"
  <2>1. Catalog.row \in [Version -> Status] BY CatalogTypes
  <2>2. n < MaxVersion BY <1>2 DEF Admissible
  <2>3. n \in 0 .. MaxVersion /\ \A m \in 1 .. MaxVersion : Catalog.row[<<sl, m>>] # "none" => m =< n
    BY <1>1, <2>1, NewestNumber
  <2>4. MaxVersion \in Nat BY WorkbenchAssumption
  <2>5. Created(t) = <<sl, n + 1>> /\ Affected(t) = <<sl, n + 1>> BY <1>2 DEF Created, Affected
  <2>. HIDE DEF n
  <2>6. n + 1 \in 1 .. MaxVersion /\ ~ (n + 1 =< n) BY <2>2, <2>3, <2>4
  <2>7. <<sl, n + 1>> \in Version BY <1>1, <2>6, VersionParts
  <2>8. Catalog.row[<<sl, n + 1>>] = "none" BY <2>3, <2>6
  <2>9. row[<<sl, n + 1>>].status = "none" BY <2>7, <2>8 DEF Catalog
  <2>. QED BY <2>5, <2>7, <2>9
<1>3. CASE t.call # "create" BY <1>1, <1>3 DEF Created, Affected, Sent, Task
<1>. QED BY <1>2, <1>3

LEMMA WrittenTypes ==
  ASSUME ServerTypes, NEW t, Sent(t), Admissible(t)
  PROVE  Written(t) \in Row
<1>. DEFINE r == row[t.v]
<1>1. t.v \in Version /\ r \in Row /\ t.text \in Text BY SentVersion DEF ServerTypes, Sent, Task
<1>2. Completed[t.text] \in Text /\ Completed[Starter] \in Text BY <1>1, WorkbenchAssumption
<1>3. CASE t.call = "put"
  <2>1. Written(t) = [r EXCEPT !.text = Completed[t.text]] BY <1>3 DEF Written
  <2>. QED BY <1>1, <1>2, <2>1 DEF Row
<1>4. CASE t.call \in {"approve", "publish"}
  <2>1. Written(t) = [r EXCEPT !.status = "approved"] \/ Written(t) = [r EXCEPT !.status = "published"]
    BY <1>4 DEF Written
  <2>. QED BY <1>1, <2>1 DEF Row, Status
<1>5. CASE t.call = "delete"
  <2>1. Written(t) = NoRow BY <1>5 DEF Written
  <2>. QED BY <2>1, NullTypes
<1>6. CASE t.call \in {"upload", "unload"}
  <2>1. t.file \in File BY <1>6 DEF Sent, TaskOk
  <2>2. Written(t) = [r EXCEPT !.files = @ \cup {t.file}] \/ Written(t) = [r EXCEPT !.files = @ \ {t.file}]
    BY <1>6 DEF Written
  <2>. QED BY <1>1, <2>1, <2>2 DEF Row
<1>7. CASE t.call = "template"
  <2>1. Written(t) = [status |-> "draft", text |-> Completed[Starter], files |-> {}] BY <1>7 DEF Written
  <2>. QED BY <1>2, <2>1 DEF Row, Status
<1>8. CASE t.call = "create"
  <2>. DEFINE fs == IF t.from = None THEN {} ELSE row[t.from].files
  <2>1. Written(t) = [status |-> "draft", text |-> Completed[t.text], files |-> fs] BY <1>8 DEF Written
  <2>2. fs \subseteq File BY DEF ServerTypes, Row, Sent, Task
  <2>. HIDE DEF fs
  <2>. QED BY <1>2, <2>1, <2>2 DEF Row, Status
<1>9. CASE t.call \in {"none", "archive", "restore"}
  <2>1. Written(t) = r BY <1>9 DEF Written
  <2>. QED BY <1>1, <2>1
<1>10. t.call \in {"none", "put", "approve", "publish", "delete", "upload", "unload", "create", "archive",
                   "restore", "template"}
  BY DEF Sent, Task, Call, Writes
<1>. QED BY <1>3, <1>4, <1>5, <1>6, <1>7, <1>8, <1>9, <1>10

LEMMA PerformTypes ==
  ASSUME ServerTypes, NEW t, Sent(t), Admissible(t), Perform(t)
  PROVE  ServerTypes'
<1>1. Written(t) \in Row /\ SlugOf(t.v) \in Slug BY WrittenTypes, SentVersion
<1>2. row' \in [Version -> Row] BY <1>1 DEF Perform, ServerTypes
<1>3. template' \in [Slug -> {"none", "active", "archived"}] BY <1>1 DEF Perform, ServerTypes
<1>. QED BY <1>2, <1>3 DEF ServerTypes

\* A request that is answered is still what it was.
Replies(s, answer) ==
  /\ TaskTypes' /\ \A r \in Slot : r # s => task'[r] = task[r]
  /\ task'[s].op = task[s].op /\ task'[s].call = task[s].call /\ task'[s].v = task[s].v
  /\ task'[s].text = task[s].text /\ task'[s].file = task[s].file /\ task'[s].answer = answer

LEMMA ErrorReplies ==
  ASSUME TaskTypes, NEW s \in Slot, Sent(task[s]), task' = [task EXCEPT ![s].answer = "error"]
  PROVE  Replies(s, "error")
<1>. DEFINE t == task[s]
<1>. DEFINE n == [t EXCEPT !.answer = "error"]
<1>1. t \in Task /\ TaskOk(t) /\ t.op # "idle" /\ t.call # "list"
  <2>1. t \in Task /\ TaskOk(t) /\ t.answer = "waiting" /\ t.call # "list" BY DEF Sent
  <2>. QED BY <2>1 DEF TaskOk, Idle
<1>2. /\ n \in Task /\ n.op = t.op /\ n.call = t.call /\ n.v = t.v /\ n.text = t.text /\ n.answer = "error"
      /\ n.file = t.file
  BY <1>1 DEF Task
<1>3. Becomes(s, n) BY <1>1 DEF TaskTypes, Becomes
<1>. HIDE DEF n, t
<1>4. TaskOk(n) BY <1>1, <1>2 DEF TaskOk
<1>5. TaskTypes' /\ \A r \in Slot : task'[r] = IF r = s THEN n ELSE task[r] BY <1>2, <1>3, <1>4, BecomesTypes
<1>. QED BY <1>2, <1>5 DEF Replies, t

LEMMA OkReplies ==
  ASSUME TaskTypes, NEW s \in Slot, Sent(task[s]), NEW to \in Version \cup {None},
         task' = [task EXCEPT ![s].answer = "ok", ![s].to = to]
  PROVE  Replies(s, "ok")
<1>. DEFINE t == task[s]
<1>. DEFINE n == [t EXCEPT !.answer = "ok", !.to = to]
<1>1. t \in Task /\ TaskOk(t) /\ t.op # "idle" /\ t.call # "list"
  <2>1. t \in Task /\ TaskOk(t) /\ t.answer = "waiting" /\ t.call # "list" BY DEF Sent
  <2>. QED BY <2>1 DEF TaskOk, Idle
<1>2. /\ n \in Task /\ n.op = t.op /\ n.call = t.call /\ n.v = t.v /\ n.text = t.text /\ n.answer = "ok"
      /\ n.file = t.file
  BY <1>1 DEF Task
<1>3. Becomes(s, n) BY <1>1 DEF TaskTypes, Becomes
<1>. HIDE DEF n, t
<1>4. TaskOk(n) BY <1>1, <1>2 DEF TaskOk
<1>5. TaskTypes' /\ \A r \in Slot : task'[r] = IF r = s THEN n ELSE task[r] BY <1>2, <1>3, <1>4, BecomesTypes
<1>. QED BY <1>2, <1>5 DEF Replies, t

\* What a step of the server does: it refuses, performs and says so, or performs and does not.
Performs(t) == Admissible(t) /\ Perform(t)
LEMMA ServerSteps ==
  ASSUME TypesInv, NEW s \in Slot, Serve(s) \/ Disrupt(s)
  PROVE  /\ Sent(task[s]) /\ SignedIn
         /\ UNCHANGED <<user, known, editor, nav, view, busy, locks, effects>>
         /\ Fail \/ UNCHANGED budgets
         /\ \/ Replies(s, "error") /\ UNCHANGED <<server, crossed>>
            \/ Replies(s, "ok") /\ Performs(task[s]) /\ UNCHANGED crossed
            \/ /\ Fail /\ Replies(s, "error") /\ Performs(task[s])
               /\ crossed' = crossed \cup (IF task[s].call \in {"put", "delete"} THEN {"lost"} ELSE {})
<1>1. Sent(task[s]) BY DEF Serve, Disrupt, Sent, TypesInv, TaskTypes
<1>2. /\ SignedIn /\ UNCHANGED <<user, known, editor, nav, view, busy, locks, effects>>
      /\ Fail \/ UNCHANGED budgets
  BY DEF Serve, Disrupt
<1>3. CASE Serve(s)
  <2>1. CASE Admissible(task[s])
    <3>1. Perform(task[s]) /\ task' = [task EXCEPT ![s].answer = "ok", ![s].to = Created(task[s])]
      BY <1>3, <2>1 DEF Serve
    <3>2. Created(task[s]) \in Version \cup {None} BY <1>1, <2>1, CreatedTypes DEF TypesInv
    <3>3. Replies(s, "ok") BY <1>1, <3>1, <3>2, OkReplies DEF TypesInv
    <3>4. UNCHANGED crossed BY <1>3 DEF Serve
    <3>. QED BY <1>1, <1>2, <2>1, <3>1, <3>3, <3>4 DEF Performs
  <2>2. CASE ~Admissible(task[s])
    <3>1. task' = [task EXCEPT ![s].answer = "error"] /\ UNCHANGED <<server, crossed>>
      BY <1>3, <2>2 DEF Serve
    <3>2. Replies(s, "error") BY <1>1, <3>1, ErrorReplies DEF TypesInv
    <3>. QED BY <1>1, <1>2, <3>1, <3>2
  <2>. QED BY <2>1, <2>2
<1>4. CASE Disrupt(s)
  <2>1. /\ task' = [task EXCEPT ![s].answer = "error"]
        /\ \/ UNCHANGED <<server, crossed>>
           \/ /\ Fail /\ Performs(task[s])
              /\ crossed' = crossed \cup (IF task[s].call \in {"put", "delete"} THEN {"lost"} ELSE {})
    BY <1>4 DEF Disrupt, Performs
  <2>2. Replies(s, "error") BY <1>1, <2>1, ErrorReplies DEF TypesInv
  <2>. QED BY <1>1, <1>2, <2>1, <2>2
<1>. QED BY <1>3, <1>4

LEMMA ServerTypesKept == ASSUME TypesInv, NEW s \in Slot, Serve(s) \/ Disrupt(s) PROVE TypesInv'
<1>1. /\ Sent(task[s]) /\ UNCHANGED <<user, known, editor, nav, view, busy, locks, effects>>
      /\ Fail \/ UNCHANGED budgets
      /\ UNCHANGED server \/ Performs(task[s])
      /\ crossed' \subseteq crossed \cup {"lost"}
  BY ServerSteps DEF Replies
<1>2. ServerTypes'
  <2>1. CASE UNCHANGED server BY <2>1 DEF server, TypesInv, ServerTypes
  <2>2. CASE Performs(task[s]) BY <1>1, <2>2, PerformTypes DEF Performs, TypesInv
  <2>. QED BY <1>1, <2>1, <2>2
<1>3. TaskTypes' BY ServerSteps DEF Replies
<1>4. EditorTypes' /\ NavTypes' /\ EffectTypes' /\ KnownTypes'
  BY <1>1 DEF TypesInv, EditorTypes, CurrentOk, NavTypes, EffectTypes, KnownTypes, editor, nav, view, effects
<1>5. FlagTypes' BY <1>1, ClickTypes DEF TypesInv, FlagTypes, view, locks
<1>. QED BY <1>2, <1>3, <1>4, <1>5 DEF TypesInv

-----------------------------------------------------------------------------
\* Answers.

LEMMA AnswersLeave ==
  ASSUME NEW s \in Slot, Answers(s)
  PROVE  SignedIn /\ UNCHANGED <<server, user>> /\ task[s].answer # "none" /\ (Fail \/ UNCHANGED budgets)
BY DEF Answers, SaveAnswered, PublishAnswered, TransitionAnswered, ListNext, DiscardAnswered, AssetAnswered,
   Failed, ListArrives, ListFails, Answered, Listing

\* An answer for a handler that goes on or ends, as far as the types are concerned.
LEMMA AnswersTypesFrom ==
  ASSUME TypesInv, NEW s \in Slot, Answers(s), TaskTypes', EditorTypes', NavTypes', KnownTypes',
         contract' \in Text \cup {None}, busy' \in BOOLEAN, draftWrite' \in BOOLEAN, publishing' \in BOOLEAN,
         crossed' \subseteq {"open", "write", "reload", "lost", "dropped", "over"}, EffectTypes'
  PROVE  TypesInv'
<1>1. UNCHANGED server /\ (Fail \/ UNCHANGED budgets) BY AnswersLeave
<1>2. ServerTypes' BY <1>1 DEF TypesInv, ServerTypes, server
<1>3. FlagTypes' BY <1>1, ClickTypes DEF TypesInv, FlagTypes
<1>. QED BY <1>2, <1>3 DEF TypesInv

LEMMA AnsweredVersion ==
  ASSUME TypesInv, NEW s \in Slot, task[s].op \notin {"idle", "list"}
  PROVE  task[s] \in Task /\ TaskOk(task[s]) /\ task[s].v \in Version /\ task[s].to \in Version \cup {None}
         /\ task[s].text \in Text /\ Completed[task[s].text] \in Text /\ SlugOf(task[s].v) \in Slug
<1>1. task[s] \in Task /\ TaskOk(task[s]) BY DEF TypesInv, TaskTypes
<1>2. task[s].v \in Version /\ task[s].text \in Text /\ task[s].to \in Version \cup {None} BY <1>1 DEF TaskOk, Task
<1>. QED BY <1>1, <1>2, VersionParts, WorkbenchAssumption

\* An answer that leaves the selection alone.
LEMMA StillAnswersTypes ==
  ASSUME TypesInv, NEW s \in Slot, Answers(s), TaskTypes', EditorTypes',
         UNCHANGED <<known, nav, compiling>>, assets' \subseteq File, contract' \in {contract, None},
         busy' \in BOOLEAN, draftWrite' \in BOOLEAN, publishing' \in BOOLEAN,
         crossed' \subseteq crossed \cup {"dropped", "over"}, EffectTypes'
  PROVE  TypesInv'
<1>1. NavTypes' BY DEF TypesInv, NavTypes, nav
<1>2. KnownTypes'
  <2>1. UNCHANGED user BY AnswersLeave
  <2>. QED BY <2>1 DEF TypesInv, KnownTypes
<1>3. contract' \in Text \cup {None} BY DEF TypesInv, FlagTypes
<1>4. crossed' \subseteq {"open", "write", "reload", "lost", "dropped", "over"} BY DEF TypesInv, FlagTypes
<1>. QED BY <1>1, <1>2, <1>3, <1>4, AnswersTypesFrom

LEMMA SaveAnsweredTypes == ASSUME TypesInv, NEW s \in Slot, SaveAnswered(s) PROVE TypesInv'
<1>. DEFINE t == task[s]
<1>1. t.op = "save" /\ UNCHANGED <<known, nav, view>> /\ Answers(s) BY DEF SaveAnswered, Answered, Answers
<1>2. t.v \in Version /\ Completed[t.text] \in Text BY <1>1, AnsweredVersion
<1>3. EffectTypes' BY EffectsTypes DEF SaveAnswered, TypesInv
<1>4. assets' \subseteq File /\ UNCHANGED compiling /\ contract' \in {contract, None}
  BY <1>1 DEF view, TypesInv, NavTypes
<1>5. CASE selection # t.v
  <2>1. Ends(s) /\ busy' = FALSE /\ UNCHANGED editor /\ crossed' \subseteq crossed \cup {"dropped"}
    BY <1>5 DEF SaveAnswered
  <2>2. TaskTypes' /\ draftWrite' \in BOOLEAN /\ publishing' \in BOOLEAN BY <2>1, EndsTypes DEF TypesInv
  <2>3. EditorTypes' BY <2>1 DEF TypesInv, EditorTypes, CurrentOk, editor
  <2>. QED BY <1>1, <1>3, <1>4, <2>1, <2>2, <2>3, StillAnswersTypes
<1>6. CASE selection = t.v
  <2>1. /\ current' = [v |-> t.v, status |-> "draft"]
        /\ text' \in {Completed[t.text], text} /\ origin' \in {t.v, origin} /\ saved' = Completed[t.text]
        /\ Then(s, "list", None) /\ UNCHANGED <<busy, locks, crossed>>
    BY <1>6 DEF SaveAnswered
  <2>2. TaskTypes' BY <1>1, <2>1, ThenTypes DEF TypesInv
  <2>3. EditorTypes' BY <1>2, <2>1 DEF TypesInv, EditorTypes, CurrentOk, Status
  <2>4. busy' \in BOOLEAN /\ draftWrite' \in BOOLEAN /\ publishing' \in BOOLEAN
    BY <2>1 DEF locks, TypesInv, FlagTypes
  <2>. QED BY <1>1, <1>3, <1>4, <2>1, <2>2, <2>3, <2>4, StillAnswersTypes
<1>. QED BY <1>5, <1>6

LEMMA PublishAnsweredTypes == ASSUME TypesInv, NEW s \in Slot, PublishAnswered(s) PROVE TypesInv'
<1>. DEFINE t == task[s]
<1>1. /\ t.op = "publish" /\ UNCHANGED <<known, nav, assets, compiling, busy, locks>> /\ Answers(s)
      /\ crossed' \subseteq crossed \cup {"over"}
  BY DEF PublishAnswered, Answered, Answers
<1>2. t.v \in Version /\ Completed[t.text] \in Text BY <1>1, AnsweredVersion
<1>3. EffectTypes' BY EffectsTypes DEF PublishAnswered, TypesInv
<1>4. assets' \subseteq File /\ busy' \in BOOLEAN /\ draftWrite' \in BOOLEAN /\ publishing' \in BOOLEAN
  BY <1>1 DEF locks, TypesInv, NavTypes, FlagTypes
<1>5. /\ current' \in [v : {t.v}, status : {"draft", "approved", "published"}] /\ origin' \in {t.v, origin}
      /\ text' \in {Completed[t.text], text} /\ saved' \in {Completed[t.text], saved}
      /\ contract' \in {contract, None}
      /\ Then(s, "approve", None) \/ Then(s, "publish", None) \/ Then(s, "list", t.v)
  BY DEF PublishAnswered
<1>6. TaskTypes' BY <1>1, <1>2, <1>5, ThenTypes DEF TypesInv
<1>7. EditorTypes' BY <1>2, <1>5 DEF TypesInv, EditorTypes, CurrentOk, Status
<1>. QED BY <1>1, <1>3, <1>4, <1>5, <1>6, <1>7, StillAnswersTypes

LEMMA NextAnsweredTypes ==
  ASSUME TypesInv, NEW s \in Slot, TransitionAnswered(s) \/ ListNext(s) PROVE TypesInv'
<1>. DEFINE t == task[s]
<1>1. /\ t.op \in {"transition", "create", "template", "archive"}
      /\ UNCHANGED <<known, nav, view, busy, locks, crossed>> /\ Answers(s)
      /\ Then(s, "list", t.v) \/ Then(s, "list", t.to)
  BY DEF TransitionAnswered, ListNext, Answered, Answers
<1>2. t.v \in Version /\ t.to \in Version \cup {None} BY <1>1, AnsweredVersion
<1>3. EffectTypes'
  <2>1. (\E b : Effects(b)) \/ UNCHANGED effects BY DEF TransitionAnswered, ListNext
  <2>. QED BY <2>1, EffectsTypes DEF TypesInv, EffectTypes, effects
<1>4. assets' \subseteq File /\ busy' \in BOOLEAN /\ draftWrite' \in BOOLEAN /\ publishing' \in BOOLEAN
      /\ contract' \in {contract, None} /\ UNCHANGED compiling
  BY <1>1 DEF locks, view, TypesInv, NavTypes, FlagTypes
<1>5. TaskTypes' BY <1>1, <1>2, ThenTypes DEF TypesInv
<1>6. /\ current' = current \/ current' = [v |-> t.v, status |-> "published"]
      /\ UNCHANGED <<text, saved, origin>>
  BY DEF TransitionAnswered, ListNext, editor
<1>7. EditorTypes' BY <1>2, <1>6 DEF TypesInv, EditorTypes, CurrentOk, Status
<1>. QED BY <1>1, <1>3, <1>4, <1>5, <1>7, StillAnswersTypes

LEMMA DiscardAnsweredTypes == ASSUME TypesInv, NEW s \in Slot, DiscardAnswered(s) PROVE TypesInv'
<1>. DEFINE t == task[s]
<1>1. /\ t.op = "discard" /\ Answers(s)
      /\ current' = NoVersion /\ slug' = SlugOf(t.v) /\ Select(t.to, busy) /\ Then(s, "list", t.to)
      /\ UNCHANGED <<user, known, text, saved, origin, contract, locks>>
  BY DEF DiscardAnswered, Answered, Answers
<1>2. t.v \in Version /\ t.to \in Version \cup {None} /\ SlugOf(t.v) \in Slug BY <1>1, AnsweredVersion
<1>3. EffectTypes' BY EffectsTypes DEF DiscardAnswered, TypesInv
<1>4. busy \in BOOLEAN BY DEF TypesInv, FlagTypes
<1>5. /\ selection' \in Version \cup {None} /\ busy' \in BOOLEAN
      /\ load' \in [v : Version \cup {None}, read : BOOLEAN, row : Row]
      /\ assets' \subseteq File /\ compiling' \in BOOLEAN
      /\ crossed' \subseteq {"open", "write", "reload", "lost", "dropped", "over"}
  BY <1>1, <1>2, <1>4, SelectTypes
<1>6. NavTypes' BY <1>1, <1>2, <1>5 DEF NavTypes
<1>7. EditorTypes' BY <1>1, NullTypes DEF TypesInv, EditorTypes, CurrentOk
<1>8. TaskTypes' BY <1>1, <1>2, ThenTypes DEF TypesInv
<1>9. KnownTypes' /\ contract' \in Text \cup {None} /\ draftWrite' \in BOOLEAN /\ publishing' \in BOOLEAN
  BY <1>1 DEF TypesInv, KnownTypes, FlagTypes, locks
<1>. QED BY <1>1, <1>3, <1>5, <1>6, <1>7, <1>8, <1>9, AnswersTypesFrom

LEMMA AssetAnsweredTypes == ASSUME TypesInv, NEW s \in Slot, AssetAnswered(s) PROVE TypesInv'
<1>. DEFINE t == task[s]
<1>1. /\ t.op \in {"upload", "unload"} /\ Answers(s)
      /\ UNCHANGED <<known, editor, nav, contract, compiling, crossed>>
      /\ assets' \in {assets, assets \cup {t.file}, assets \ {t.file}}
  BY DEF AssetAnswered, Answered, Answers
<1>2. t \in Task /\ TaskOk(t) /\ t.v \in Version BY <1>1, AnsweredVersion
<1>3. assets' \subseteq File BY <1>1, <1>2 DEF TaskOk, TypesInv, NavTypes
<1>4. EditorTypes' BY <1>1 DEF TypesInv, EditorTypes, CurrentOk, editor
<1>5. EffectTypes'
  <2>1. \E b : Effects(b) BY DEF AssetAnswered
  <2>. QED BY <2>1, EffectsTypes DEF TypesInv
<1>6. TaskTypes' /\ busy' \in BOOLEAN /\ draftWrite' \in BOOLEAN /\ publishing' \in BOOLEAN
  <2>1. CASE selection = t.v /\ t.rest # {}
    <3>1. PICK f \in t.rest :
            task' = [task EXCEPT ![s] = [t EXCEPT !.answer = "waiting", !.file = f, !.rest = @ \ {f}]]
      BY <2>1 DEF AssetAnswered
    <3>2. UNCHANGED <<busy, locks>> BY <2>1 DEF AssetAnswered
    <3>. DEFINE rest == t.rest \ {f}
    <3>. DEFINE n == [t EXCEPT !.answer = "waiting", !.file = f, !.rest = rest]
    <3>3. rest \in SUBSET File /\ f \in File BY <1>2 DEF Task
    <3>4. n = [t EXCEPT !.answer = "waiting", !.file = f, !.rest = @ \ {f}] BY <1>2 DEF Task
    <3>. HIDE DEF rest
    <3>5. n \in Task /\ n.op = t.op /\ n.call = t.call /\ n.v = t.v /\ n.file = f BY <1>2, <3>3 DEF Task
    <3>6. Becomes(s, n) BY <3>1, <3>4 DEF Becomes
    <3>. HIDE DEF n
    <3>7. TaskOk(n) BY <1>1, <1>2, <3>3, <3>5 DEF TaskOk
    <3>8. TaskTypes' BY <3>5, <3>6, <3>7, BecomesTypes DEF TypesInv
    <3>. QED BY <3>2, <3>8 DEF locks, TypesInv, FlagTypes
  <2>2. CASE ~(selection = t.v /\ t.rest # {})
    <3>1. Ends(s) /\ busy' = FALSE BY <2>2 DEF AssetAnswered
    <3>. QED BY <3>1, EndsTypes DEF TypesInv
  <2>. QED BY <2>1, <2>2
<1>. QED BY <1>1, <1>3, <1>4, <1>5, <1>6, StillAnswersTypes

\* A failure, or a list that fails: a publication reads its list again, others end.
Fails(s) ==
  /\ task[s].op # "idle" /\ UNCHANGED <<known, text, saved, origin, nav, view, crossed>>
  /\ \/ /\ task[s].op = "publish" /\ current' = [v |-> task[s].v, status |-> "approved"]
        /\ Then(s, "relist", task[s].v) /\ UNCHANGED <<busy, locks>>
     \/ Ends(s) /\ busy' \in BOOLEAN /\ UNCHANGED current
  /\ Effects(FALSE)

LEMMA FailsFacts ==
  ASSUME TypesInv, NEW s \in Slot, Failed(s) \/ ListFails(s)
  PROVE  Fails(s)
<1>. DEFINE t == task[s]
<1>1. /\ UNCHANGED <<known, text, saved, origin, nav, view, crossed>> /\ Effects(FALSE)
      /\ t.answer \in {"error", "waiting"}
  BY DEF Failed, ListFails, Listing
<1>2. t.op # "idle" BY <1>1 DEF TypesInv, TaskTypes, TaskOk, Idle
<1>3. busy \in BOOLEAN BY DEF TypesInv, FlagTypes
<1>4. \/ /\ t.op = "publish" /\ current' = [v |-> t.v, status |-> "approved"]
         /\ Then(s, "relist", t.v) /\ UNCHANGED <<busy, locks>>
      \/ Ends(s) /\ busy' \in BOOLEAN /\ UNCHANGED current
  <2>1. CASE Failed(s)
    <3>1. CASE t.op = "publish" /\ t.call = "publish" BY <2>1, <3>1 DEF Failed
    <3>2. CASE ~(t.op = "publish" /\ t.call = "publish")
      <4>1. Ends(s) /\ busy' = (busy /\ t.op = "template") /\ UNCHANGED current BY <2>1, <3>2 DEF Failed
      <4>2. busy' \in BOOLEAN BY <4>1
      <4>. QED BY <4>1, <4>2
    <3>. QED BY <3>1, <3>2
  <2>2. CASE ListFails(s)
    <3>1. CASE t.op = "publish" /\ t.call = "list" BY <2>2, <3>1 DEF ListFails
    <3>2. CASE ~(t.op = "publish" /\ t.call = "list")
      <4>1. Ends(s) /\ busy' = StaysBusy(t) /\ UNCHANGED current BY <2>2, <3>2 DEF ListFails
      <4>2. busy' \in BOOLEAN BY <4>1 DEF StaysBusy
      <4>. QED BY <4>1, <4>2
    <3>. QED BY <3>1, <3>2
  <2>. QED BY <2>1, <2>2
<1>. QED BY <1>1, <1>2, <1>4 DEF Fails

LEMMA FailedTypes == ASSUME TypesInv, NEW s \in Slot, Failed(s) \/ ListFails(s) PROVE TypesInv'
<1>. DEFINE t == task[s]
<1>1. Fails(s) /\ Answers(s) BY FailsFacts DEF Answers
<1>2. UNCHANGED <<known, text, saved, origin, nav, view, crossed>> BY <1>1 DEF Fails
<1>3. EffectTypes' BY <1>1, EffectsTypes DEF Fails, TypesInv
<1>4. assets' \subseteq File /\ UNCHANGED compiling /\ contract' \in {contract, None}
  BY <1>2 DEF view, TypesInv, NavTypes
<1>5. CASE /\ t.op = "publish" /\ current' = [v |-> t.v, status |-> "approved"]
           /\ Then(s, "relist", t.v) /\ UNCHANGED <<busy, locks>>
  <2>1. t.v \in Version BY <1>5, AnsweredVersion
  <2>2. TaskTypes' BY <1>5, <2>1, ThenTypes DEF TypesInv
  <2>3. EditorTypes' BY <1>2, <1>5, <2>1 DEF TypesInv, EditorTypes, CurrentOk, Status
  <2>4. busy' \in BOOLEAN /\ draftWrite' \in BOOLEAN /\ publishing' \in BOOLEAN
    BY <1>5 DEF locks, TypesInv, FlagTypes
  <2>. QED BY <1>1, <1>2, <1>3, <1>4, <2>2, <2>3, <2>4, StillAnswersTypes
<1>6. CASE Ends(s) /\ busy' \in BOOLEAN /\ UNCHANGED current
  <2>1. TaskTypes' /\ draftWrite' \in BOOLEAN /\ publishing' \in BOOLEAN BY <1>6, EndsTypes DEF TypesInv
  <2>2. EditorTypes' BY <1>2, <1>6 DEF TypesInv, EditorTypes, CurrentOk
  <2>. QED BY <1>1, <1>2, <1>3, <1>4, <1>6, <2>1, <2>2, StillAnswersTypes
<1>. QED BY <1>1, <1>5, <1>6 DEF Fails

\* The list is followed by the version asked for.
LEMMA ListSelects ==
  ASSUME TypesInv, NEW s \in Slot, ListArrives(s)
  PROVE  \E v \in Version \cup {None} : Select(v, StaysBusy(task[s])) /\ slug' \in Slug \cup {None}
<1>. DEFINE t == task[s]
<1>1. CASE \E sl \in Slug : /\ Newest(Catalog.row, sl) > 0 /\ slug' = sl
                            /\ Select(<<sl, Newest(Catalog.row, sl)>>, StaysBusy(t))
  <2>1. PICK sl \in Slug : /\ Newest(Catalog.row, sl) > 0 /\ slug' = sl
                           /\ Select(<<sl, Newest(Catalog.row, sl)>>, StaysBusy(t))
    BY <1>1
  <2>2. Catalog.row \in [Version -> Status] BY CatalogTypes DEF TypesInv
  <2>3. <<sl, Newest(Catalog.row, sl)>> \in Version BY <2>1, <2>2, NewestNumber
  <2>. QED BY <2>1, <2>3
<1>2. CASE t.to # None /\ slug' = SlugOf(t.to) /\ Select(t.to, StaysBusy(t))
  <2>1. t.to \in Version BY <1>2 DEF TypesInv, TaskTypes, Task
  <2>2. SlugOf(t.to) \in Slug BY <2>1, VersionParts
  <2>. QED BY <1>2, <2>1, <2>2
<1>3. CASE slug' = slug /\ Select(selection, StaysBusy(t)) BY <1>3 DEF TypesInv, NavTypes
<1>. QED BY <1>1, <1>2, <1>3 DEF ListArrives

LEMMA ListArrivesTypes == ASSUME TypesInv, NEW s \in Slot, ListArrives(s) PROVE TypesInv'
<1>. DEFINE t == task[s]
<1>1. /\ Answers(s) /\ known' = Catalog /\ Ends(s) /\ UNCHANGED <<user, current, text, saved, origin, contract>>
      /\ Effects(FALSE)
  BY DEF ListArrives, Answers
<1>2. EffectTypes' BY <1>1, EffectsTypes DEF TypesInv
<1>3. TaskTypes' /\ draftWrite' \in BOOLEAN /\ publishing' \in BOOLEAN BY <1>1, EndsTypes DEF TypesInv
<1>4. EditorTypes' BY <1>1 DEF TypesInv, EditorTypes, CurrentOk
<1>5. KnownTypes' BY <1>1, CatalogTypes DEF TypesInv, KnownTypes
<1>6. StaysBusy(t) \in BOOLEAN BY DEF StaysBusy, TypesInv, FlagTypes
<1>7. \E v \in Version \cup {None} : Select(v, StaysBusy(t)) /\ slug' \in Slug \cup {None}
  BY ListSelects
<1>8. PICK v \in Version \cup {None} : Select(v, StaysBusy(t)) /\ slug' \in Slug \cup {None} BY <1>7
<1>9. /\ selection' \in Version \cup {None} /\ busy' \in BOOLEAN
      /\ load' \in [v : Version \cup {None}, read : BOOLEAN, row : Row]
      /\ assets' \subseteq File /\ compiling' \in BOOLEAN
      /\ crossed' \subseteq {"open", "write", "reload", "lost", "dropped", "over"}
  BY <1>6, <1>8, SelectTypes
<1>10. NavTypes' BY <1>8, <1>9 DEF NavTypes
<1>11. contract' \in Text \cup {None} BY <1>1 DEF TypesInv, FlagTypes
<1>. QED BY <1>1, <1>2, <1>3, <1>4, <1>5, <1>9, <1>10, <1>11, AnswersTypesFrom

LEMMA AnswersTypes == ASSUME TypesInv, NEW s \in Slot, Answers(s) PROVE TypesInv'
BY SaveAnsweredTypes, PublishAnsweredTypes, NextAnsweredTypes, DiscardAnsweredTypes, AssetAnsweredTypes,
   FailedTypes, ListArrivesTypes DEF Answers

-----------------------------------------------------------------------------

LEMMA TypesInit == ASSUME Init PROVE TypesInv
<1>1. ServerTypes
  <2>1. row \in [Version -> Row] BY WorkbenchAssumption DEF Init
  <2>. QED BY <2>1 DEF Init, ServerTypes
<1>2. TaskTypes BY NullTypes DEF Init, TaskTypes
<1>3. EditorTypes BY NullTypes, WorkbenchAssumption DEF Init, EditorTypes, CurrentOk
<1>4. NavTypes BY NullTypes DEF Init, NavTypes
<1>5. KnownTypes BY DEF Init, KnownTypes, Status
<1>6. FlagTypes
  <2>1. clicks \in 0 .. MaxClicks /\ faults \in 0 .. MaxFaults
    <3>1. clicks = MaxClicks /\ faults = MaxFaults BY DEF Init
    <3>2. MaxClicks \in Nat /\ MaxFaults \in Nat BY WorkbenchAssumption
    <3>. QED BY <3>1, <3>2
  <2>2. contract = None /\ busy = FALSE /\ draftWrite = FALSE /\ publishing = FALSE /\ crossed = {} BY DEF Init
  <2>. QED BY <2>1, <2>2 DEF FlagTypes
<1>7. EffectTypes BY DEF Init, EffectTypes
<1>. QED BY <1>1, <1>2, <1>3, <1>4, <1>5, <1>6, <1>7 DEF TypesInv

LEMMA TypesNext == ASSUME TypesInv, LoadOk, [Next]_vars PROVE TypesInv'
<1>1. ASSUME NEW s \in Slot, Authenticated(s) \/ Clicks(s) \/ Serve(s) \/ Disrupt(s) \/ Answers(s)
      PROVE  TypesInv'
  BY <1>1, AuthenticatedTypes, ClicksTypes, ServerTypesKept, AnswersTypes
<1>2. CASE Logout \/ Expire BY <1>2, LeavesTypes
<1>3. CASE \E t \in Typed : Type(t) BY <1>3, TypeTypes
<1>4. CASE \E v \in Version : SelectVersion(v) BY <1>4, OpenTypes DEF SelectVersion
<1>5. CASE \E sl \in Slug : SelectTemplate(sl) BY <1>5, SelectTemplateTypes
<1>6. CASE ReadVersion BY <1>6, ReadVersionTypes
<1>7. CASE LoadArrives BY <1>7, LoadArrivesTypes
<1>8. CASE LoadFails \/ AnalysisAnswers \/ Compile \/ CompileAnswers BY <1>8, PageTypes
<1>9. CASE UNCHANGED vars
  BY <1>9 DEF vars, TypesInv, ServerTypes, TaskTypes, EditorTypes, CurrentOk, NavTypes, KnownTypes, FlagTypes,
     EffectTypes, server, editor, nav, view, locks, effects, budgets
<1>. QED BY <1>1, <1>2, <1>3, <1>4, <1>5, <1>6, <1>7, <1>8, <1>9 DEF Next

\* Type correctness.
THEOREM TypeCorrect == Spec => []TypeOK
<1>1. Init => TypesInv BY TypesInit
<1>2. WorkbenchInv => LoadOk BY DEF WorkbenchInv
<1>3. TypesInv /\ LoadOk /\ [Next]_vars => TypesInv' BY TypesNext
<1>4. TypesInv => TypeOK BY TypesAreTypes
<1>. QED BY <1>1, <1>2, <1>3, <1>4, WorkbenchCorrect, PTL DEF Spec

-----------------------------------------------------------------------------
(* What handlers do to each other.                                         *)

\* Handler s begins, with t; it goes on or ends, having been answered.
Begins(s, t) ==
  /\ task[s] = Idle /\ \A r \in Slot : r # s => task'[r] = task[r]
  /\ task'[s].op = t.op /\ task'[s].call = t.call /\ task'[s].v = t.v /\ task'[s].text = t.text
  /\ task'[s].answer = "waiting"
  /\ crossed \subseteq crossed' /\ (t.call \in Writes /\ Writing(t.v) => "write" \in crossed')

GoesOn(s) ==
  /\ \A r \in Slot : r # s => task'[r] = task[r]
  /\ \/ task'[s] = Idle
     \/ /\ task'[s].op = task[s].op /\ task'[s].v = task[s].v /\ task'[s].text = task[s].text
        /\ task'[s].answer = "waiting"
        /\ \/ task'[s].call \in {"list", "relist"}
           \/ task'[s].call = task[s].call /\ task[s].op \in {"upload", "unload"}

LEMMA RequestBegins ==
  ASSUME TypesInv, NEW s \in Slot, NEW t \in Task, Request(s, t)
  PROVE  Begins(s, t)
<1>. DEFINE n == [t EXCEPT !.answer = "waiting"]
<1>1. n.op = t.op /\ n.call = t.call /\ n.v = t.v /\ n.text = t.text /\ n.answer = "waiting" BY DEF Task
<1>2. /\ task[s] = Idle /\ task' = [task EXCEPT ![s] = n]
      /\ crossed' = crossed \cup IF t.call \in Writes /\ Writing(t.v) THEN {"write"} ELSE {}
  BY DEF Request
<1>. HIDE DEF n
<1>3. \A r \in Slot : task'[r] = IF r = s THEN n ELSE task[r] BY <1>2 DEF TypesInv, TaskTypes
<1>. QED BY <1>1, <1>2, <1>3 DEF Begins

LEMMA ThenStep ==
  ASSUME TypesInv, NEW s \in Slot, NEW call, NEW to, Then(s, call, to)
  PROVE  /\ \A r \in Slot : r # s => task'[r] = task[r]
         /\ task'[s].op = task[s].op /\ task'[s].v = task[s].v /\ task'[s].text = task[s].text
         /\ task'[s].answer = "waiting" /\ task'[s].call = call
         /\ call \in {"list", "relist"} => GoesOn(s)
<1>. DEFINE n == [task[s] EXCEPT !.call = call, !.answer = "waiting", !.to = to]
<1>1. task[s] \in Task BY DEF TypesInv, TaskTypes
<1>2. /\ n.op = task[s].op /\ n.call = call /\ n.v = task[s].v /\ n.text = task[s].text /\ n.answer = "waiting"
  BY <1>1 DEF Task
<1>3. task' = [task EXCEPT ![s] = n] BY <1>1 DEF Then, TypesInv, TaskTypes
<1>. HIDE DEF n
<1>4. \A r \in Slot : task'[r] = IF r = s THEN n ELSE task[r] BY <1>3 DEF TypesInv, TaskTypes
<1>. QED BY <1>2, <1>4 DEF GoesOn

LEMMA EndsStep ==
  ASSUME TypesInv, NEW s \in Slot, Ends(s)
  PROVE  GoesOn(s) /\ task'[s] = Idle
<1>1. \A r \in Slot : task'[r] = IF r = s THEN Idle ELSE task[r] BY DEF TypesInv, TaskTypes, Ends
<1>. QED BY <1>1 DEF GoesOn

\* Which steps of the page make a handler go on in this way: all but those of a publication.
LEMMA AssetsGoOn == ASSUME TypesInv, NEW s \in Slot, AssetAnswered(s) PROVE GoesOn(s)
<1>. DEFINE t == task[s]
<1>1. t.op \in {"upload", "unload"} /\ t \in Task BY DEF AssetAnswered, Answered, TypesInv, TaskTypes
<1>2. CASE selection = t.v /\ t.rest # {}
  <2>1. PICK f \in t.rest :
          task' = [task EXCEPT ![s] = [t EXCEPT !.answer = "waiting", !.file = f, !.rest = @ \ {f}]]
    BY <1>2 DEF AssetAnswered
  <2>. DEFINE n == [t EXCEPT !.answer = "waiting", !.file = f, !.rest = @ \ {f}]
  <2>2. n.op = t.op /\ n.call = t.call /\ n.v = t.v /\ n.text = t.text /\ n.answer = "waiting" BY <1>1 DEF Task
  <2>3. task' = [task EXCEPT ![s] = n] BY <2>1
  <2>. HIDE DEF n
  <2>4. \A r \in Slot : task'[r] = IF r = s THEN n ELSE task[r] BY <2>3 DEF TypesInv, TaskTypes
  <2>. QED BY <1>1, <2>2, <2>4 DEF GoesOn
<1>3. CASE ~(selection = t.v /\ t.rest # {})
  <2>1. Ends(s) BY <1>3 DEF AssetAnswered
  <2>. QED BY <2>1, EndsStep
<1>. QED BY <1>2, <1>3

LEMMA OthersGoOn ==
  ASSUME TypesInv, NEW s \in Slot,
         \/ SaveAnswered(s) \/ TransitionAnswered(s) \/ ListNext(s) \/ DiscardAnswered(s) \/ Failed(s)
         \/ ListArrives(s) \/ ListFails(s)
  PROVE  GoesOn(s)
<1>1. Ends(s) \/ \E to : \E call \in {"list", "relist"} : Then(s, call, to)
  BY DEF SaveAnswered, TransitionAnswered, ListNext, DiscardAnswered, Failed, ListArrives, ListFails
<1>. QED BY <1>1, EndsStep, ThenStep

-----------------------------------------------------------------------------
(* The publish button.                                                     *)

Straight == crossed \cap {"open", "reload"} = {}

\* Nobody is shown a draft but a user.
InOnly == ~SignedIn => current.status # "draft"

\* What is loaded is not what is on the screen, nor being written.
Sends == {"put", "delete"}
LoadApart == Straight /\ load.v # None =>
  /\ load.v = current.v => current.status # "draft"
  /\ \A s \in Slot : task[s].call \in Sends => task[s].v # load.v

\* A text that can be analysed is being, or has been.
Analysed == Straight /\ Analysable =>
  analysis \in {"waiting", "failed"} \/ (analysis = "done" /\ contract = text)

AnalysedInv == InOnly /\ LoadApart /\ Analysed

\* Nothing is sent but by a handler that begins.
NoNewSends == \A r \in Slot : task'[r].call \in Sends => task[r].call = task'[r].call /\ task[r].v = task'[r].v

LEMMA GoesOnSends ==
  ASSUME TypesInv, NEW s \in Slot, GoesOn(s) PROVE NoNewSends
<1>1. Idle.call = "none" BY DEF Idle
<1>2. task[s].op \in {"upload", "unload"} => task[s].call \notin Sends
  BY DEF Sends, DraftWrites, TypesInv, TaskTypes, TaskOk
<1>. QED BY <1>1, <1>2 DEF GoesOn, NoNewSends, Sends

LEMMA RepliesSends == ASSUME NEW s \in Slot, NEW a, Replies(s, a) PROVE NoNewSends
BY DEF Replies, NoNewSends

\* A step that shows nothing else.
LEMMA SameAnalysed ==
  ASSUME AnalysedInv, UNCHANGED <<user, known, slug, current, selection, text, contract, analysis>>,
         load'.v \in {load.v, None}, crossed \subseteq crossed',
         \A r \in Slot : task'[r].call \in Sends =>
           \/ task[r].call \in Sends /\ task'[r].v = task[r].v
           \/ task'[r].v = current.v /\ current.status = "draft"
  PROVE  AnalysedInv'
<1>1. Straight' => Straight BY DEF Straight
<1>2. InOnly' BY DEF AnalysedInv, InOnly, SignedIn
<1>3. LoadApart' BY <1>1 DEF AnalysedInv, LoadApart
<1>4. Analysable' = Analysable BY DEF Analysable, Editable, Archived, Parses
<1>5. Analysed' BY <1>1, <1>4 DEF AnalysedInv, Analysed
<1>. QED BY <1>2, <1>3, <1>5 DEF AnalysedInv

\* A step that shows something else: what has to be analysed is analysed again.
LEMMA EffectsAnalysed ==
  ASSUME Analysed, NEW b, Effects(b), crossed \subseteq crossed',
         Straight' /\ Analysable' => contract' = contract \/ Watched' # Watched
  PROVE  Analysed'
<1>. SUFFICES ASSUME Straight', Analysable'
              PROVE  analysis' \in {"waiting", "failed"} \/ (analysis' = "done" /\ contract' = text')
  BY DEF Analysed
<1>1. Straight BY DEF Straight
<1>2. CASE Watched' = Watched
  <2>1. Editable' = Editable /\ current'.v = current.v /\ selection' = selection /\ text' = text
    BY <1>2 DEF Watched
  <2>2. Analysable BY <2>1 DEF Analysable, Parses
  <2>3. analysis' = analysis BY <1>2 DEF Effects
  <2>4. contract' = contract BY <1>2
  <2>. QED BY <1>1, <2>1, <2>2, <2>3, <2>4 DEF Analysed
<1>3. CASE Watched' # Watched BY <1>3 DEF Effects
<1>. QED BY <1>2, <1>3

LEMMA ShowsAnalysed ==
  ASSUME AnalysedInv, NEW b, Effects(b), crossed \subseteq crossed', SignedIn, UNCHANGED <<user>>, LoadApart',
         Straight' /\ Analysable' => contract' = contract \/ Watched' # Watched
  PROVE  AnalysedInv'
<1>1. Analysed' BY EffectsAnalysed DEF AnalysedInv
<1>2. InOnly' BY DEF InOnly, SignedIn
<1>. QED BY <1>1, <1>2 DEF AnalysedInv

\* The load in progress goes on.
LEMMA SameLoadApart ==
  ASSUME LoadApart, load' = load, crossed \subseteq crossed', NoNewSends,
         Straight /\ load.v # None /\ current'.v = load.v => current'.status # "draft"
  PROVE  LoadApart'
<1>1. Straight' => Straight BY DEF Straight
<1>. QED BY <1>1 DEF LoadApart, NoNewSends

\* A version is selected.
LEMMA SelectLoadApart ==
  ASSUME TypesInv, LoadApart, NEW v, NEW b, Select(v, b), NoNewSends,
         current' = current \/ current' = NoVersion
  PROVE  LoadApart' /\ crossed \subseteq crossed'
<1>1. crossed \subseteq crossed' BY DEF Select
<1>2. CASE v = selection
  <2>1. load' = load BY <1>2 DEF Select
  <2>. QED BY <1>1, <2>1, NullTypes, SameLoadApart DEF LoadApart
<1>3. CASE v # selection
  <2>1. load'.v = v BY <1>3, NullTypes DEF Select
  <2>2. Straight' => ~Writing(v) /\ (v # None => v # current.v) BY <1>3 DEF Select, Straight
  <2>3. Straight' => \A s \in Slot : task[s].call \in Sends => task[s].v # v BY <2>2 DEF Writing, Writes, Sends
  <2>. QED BY <1>1, <2>1, <2>2, <2>3, NullTypes DEF LoadApart, NoNewSends
<1>. QED BY <1>2, <1>3

PageInv == TypesInv /\ WorkbenchInv /\ AnalysedInv

LEMMA SignedOutAnalysed == ASSUME SignedOut PROVE AnalysedInv'
<1>1. current'.status = "none" /\ load'.v = None BY NullTypes DEF SignedOut
<1>2. ~Analysable' BY <1>1 DEF Analysable, Editable
<1>. QED BY <1>1, <1>2 DEF AnalysedInv, InOnly, LoadApart, Analysed

LEMMA AuthenticatedAnalysed == ASSUME PageInv, NEW s \in Slot, Authenticated(s) PROVE AnalysedInv'
<1>. DEFINE t == [Idle EXCEPT !.op = "list", !.call = "list"]
<1>1. /\ user = "unknown" /\ UNCHANGED <<server, known, editor, nav, view, busy, locks, effects, budgets>>
      /\ UNCHANGED <<task, crossed>> \/ Request(s, t)
  BY DEF Authenticated
<1>2. t \in Task /\ t.call = "list" BY NullTypes, Names DEF Task
<1>. HIDE DEF t
<1>3. NoNewSends /\ crossed \subseteq crossed'
  <2>1. CASE UNCHANGED <<task, crossed>> BY <2>1 DEF NoNewSends
  <2>2. CASE Request(s, t)
    <3>1. Begins(s, t) BY <1>2, <2>2, RequestBegins DEF PageInv
    <3>. QED BY <1>2, <3>1 DEF Begins, NoNewSends, Sends
  <2>. QED BY <1>1, <2>1, <2>2
<1>4. current'.status # "draft" BY <1>1 DEF PageInv, AnalysedInv, InOnly, SignedIn, editor
<1>5. LoadApart' BY <1>1, <1>3, <1>4, SameLoadApart DEF PageInv, AnalysedInv, nav
<1>6. ~Analysable' BY <1>4 DEF Analysable, Editable
<1>. QED BY <1>4, <1>5, <1>6 DEF AnalysedInv, InOnly, Analysed

LEMMA ClickStepAnalysed == ASSUME PageInv, NEW s \in Slot, ClickStep(s) PROVE AnalysedInv'
<1>1. UNCHANGED <<server, user, known, editor, nav, view, effects>> BY DEF ClickStep
<1>2. CASE UNCHANGED <<task, crossed>>
  BY <1>1, <1>2, SameAnalysed DEF PageInv, editor, nav, view, effects
<1>3. ASSUME NEW t, Clicked(s, t) PROVE AnalysedInv'
  <2>1. t \in Task /\ Request(s, t) /\ (t.call \in Sends => t.v = current.v /\ current.status = "draft")
    BY <1>3 DEF Clicked, Sends, Writes, StatusBefore
  <2>2. Begins(s, t) BY <2>1, RequestBegins DEF PageInv
  <2>3. \A r \in Slot : task'[r].call \in Sends =>
          \/ task[r].call \in Sends /\ task'[r].v = task[r].v
          \/ task'[r].v = current.v /\ current.status = "draft"
    BY <2>1, <2>2 DEF Begins
  <2>. QED BY <1>1, <2>2, <2>3, SameAnalysed DEF PageInv, Begins, editor, nav, view, effects
<1>. QED BY <1>2, <1>3 DEF ClickStep

LEMMA OpenAnalysed == ASSUME PageInv, NEW v \in Version, Click, Open(v) PROVE AnalysedInv'
<1>1. /\ Select(v, busy) /\ (current' = current \/ current' = NoVersion) /\ Effects(FALSE)
      /\ UNCHANGED <<server, user, known, text, saved, origin, contract, locks, task>> /\ SignedIn
  BY DEF Open, Click
<1>2. LoadApart' /\ crossed \subseteq crossed' BY <1>1, SelectLoadApart DEF PageInv, AnalysedInv, NoNewSends
<1>. QED BY <1>1, <1>2, ShowsAnalysed DEF PageInv

LEMMA SelectTemplateAnalysed == ASSUME PageInv, NEW sl \in Slug, SelectTemplate(sl) PROVE AnalysedInv'
<1>. DEFINE n == Newest(known.row, sl)
<1>1. /\ SignedIn /\ current' = NoVersion /\ UNCHANGED <<user, task>> /\ Effects(FALSE)
  BY DEF SelectTemplate, Click
<1>2. ~Analysable' BY <1>1, NullTypes DEF Analysable, Editable
<1>3. LoadApart' /\ crossed \subseteq crossed'
  <2>1. CASE n > 0
    <3>1. Select(<<sl, n>>, busy) BY <2>1 DEF SelectTemplate
    <3>. HIDE DEF n
    <3>. QED BY <1>1, <3>1, SelectLoadApart DEF PageInv, AnalysedInv, NoNewSends
  <2>2. CASE ~(n > 0)
    <3>1. load' = NoLoad /\ UNCHANGED crossed BY <2>2 DEF SelectTemplate
    <3>. QED BY <3>1, NullTypes DEF LoadApart
  <2>. QED BY <2>1, <2>2
<1>. QED BY <1>1, <1>2, <1>3, ShowsAnalysed DEF PageInv

LEMMA TypeAnalysed == ASSUME PageInv, NEW t \in Typed, Type(t) PROVE AnalysedInv'
<1>1. /\ SignedIn /\ Effects(FALSE)
      /\ UNCHANGED <<server, user, known, current, saved, origin, nav, view, busy, locks, task, crossed, budgets>>
  BY DEF Type, Editable, SignedIn
<1>2. LoadApart' BY <1>1, SameLoadApart DEF PageInv, AnalysedInv, NoNewSends, LoadApart, nav
<1>. QED BY <1>1, <1>2, ShowsAnalysed DEF PageInv, view

\* The version that arrives is not the draft on the screen, and is analysed.
LEMMA LoadArrivesAnalysed == ASSUME PageInv, LoadArrives PROVE AnalysedInv'
<1>1. /\ SignedIn /\ load.v # None /\ current' = [v |-> load.v, status |-> load.row.status] /\ load' = NoLoad
      /\ UNCHANGED <<server, user, known, selection, compiling, locks, task, crossed, budgets>> /\ Effects(FALSE)
  BY DEF LoadArrives, PageInv, WorkbenchInv, LoadOk
<1>2. LoadApart' BY <1>1, NullTypes DEF LoadApart
<1>3. ASSUME Straight', Analysable' PROVE Watched' # Watched
  <2>1. Straight BY <1>1, <1>3 DEF Straight
  <2>2. Editable' /\ current'.v = load.v BY <1>1, <1>3 DEF Analysable
  <2>3. load.v # current.v \/ current.status # "draft" BY <1>1, <2>1 DEF PageInv, AnalysedInv, LoadApart
  <2>4. Editable' # Editable \/ current'.v # current.v BY <2>2, <2>3 DEF Editable
  <2>. QED BY <2>4 DEF Watched
<1>. QED BY <1>1, <1>2, <1>3, ShowsAnalysed DEF PageInv

LEMMA PageAnalysed ==
  ASSUME PageInv, ReadVersion \/ LoadFails \/ AnalysisAnswers \/ Compile \/ CompileAnswers
  PROVE  AnalysedInv'
<1>1. /\ UNCHANGED <<server, user, known, editor, task, crossed, slug, selection>>
  BY DEF ReadVersion, LoadFails, AnalysisAnswers, Compile, CompileAnswers, nav
<1>2. load'.v \in {load.v, None}
  <2>1. CASE ReadVersion
    <3>1. load' = [load EXCEPT !.read = TRUE, !.row = row[load.v]] BY <2>1 DEF ReadVersion
    <3>. QED BY <3>1 DEF PageInv, TypesInv, NavTypes
  <2>2. CASE ~ReadVersion BY <2>2, NullTypes DEF LoadFails, AnalysisAnswers, Compile, CompileAnswers, nav
  <2>. QED BY <2>1, <2>2
<1>3. CASE AnalysisAnswers
  <2>1. load' = load BY <1>3 DEF AnalysisAnswers, nav
  <2>2. LoadApart' BY <1>1, <2>1 DEF LoadApart, PageInv, AnalysedInv, Straight, editor
  <2>3. InOnly' BY <1>1 DEF InOnly, PageInv, AnalysedInv, SignedIn, editor
  <2>4. Analysed' BY <1>1, <1>3 DEF Analysed, AnalysisAnswers, editor
  <2>. QED BY <2>2, <2>3, <2>4 DEF AnalysedInv
<1>4. CASE ~AnalysisAnswers
  <2>1. UNCHANGED <<contract, analysis>>
    BY <1>4 DEF ReadVersion, LoadFails, Compile, CompileAnswers, view, effects
  <2>. QED BY <1>1, <1>2, <2>1, SameAnalysed DEF PageInv, editor
<1>. QED BY <1>3, <1>4

LEMMA ServerAnalysed == ASSUME PageInv, NEW s \in Slot, Serve(s) \/ Disrupt(s) PROVE AnalysedInv'
<1>1. /\ UNCHANGED <<user, known, editor, nav, view, busy, locks, effects>> /\ crossed \subseteq crossed'
      /\ \E a : Replies(s, a)
  BY ServerSteps DEF PageInv
<1>2. NoNewSends BY <1>1, RepliesSends
<1>3. load' = load BY <1>1 DEF nav
<1>. QED BY <1>1, <1>2, <1>3, SameAnalysed DEF PageInv, NoNewSends, editor, nav, view, effects

\* An answer that leaves the selection alone.
LEMMA AnswerAnalysed ==
  ASSUME PageInv, NEW s \in Slot, Answers(s), NoNewSends, UNCHANGED nav, crossed \subseteq crossed', NEW b, Effects(b),
         contract' = contract \/ current'.status # "draft",
         load.v # None /\ current'.v = load.v /\ current'.status = "draft" =>
           current' = current \/ (task[s].call = "put" /\ current'.v = task[s].v)
  PROVE  AnalysedInv'
<1>1. SignedIn /\ UNCHANGED user BY AnswersLeave
<1>2. load' = load BY DEF nav
<1>3. LoadApart'
  <2>1. Straight /\ load.v # None /\ current'.v = load.v => current'.status # "draft"
    BY DEF PageInv, AnalysedInv, LoadApart, Sends
  <2>. QED BY <1>2, <2>1, SameLoadApart DEF PageInv, AnalysedInv
<1>4. Straight' /\ Analysable' => contract' = contract BY DEF Analysable, Editable
<1>. QED BY <1>1, <1>3, <1>4, ShowsAnalysed DEF PageInv

LEMMA AnswersAnalysed == ASSUME PageInv, NEW s \in Slot, Answers(s) PROVE AnalysedInv'
<1>. DEFINE t == task[s]
<1>1. ~PublishAnswered(s) => NoNewSends
  BY AssetsGoOn, OthersGoOn, GoesOnSends DEF Answers, PageInv
<1>2. CASE SaveAnswered(s)
  <2>1. t.op = "save" /\ t.answer = "ok" /\ Effects(FALSE) /\ UNCHANGED <<nav, view>> /\ crossed \subseteq crossed'
    BY <1>2 DEF SaveAnswered, Answered
  <2>2. t.call = "put" BY <2>1 DEF PageInv, WorkbenchInv, SaveCalls, Saving
  <2>3. current' = current \/ current'.v = t.v BY <1>2 DEF SaveAnswered, editor
  <2>4. NoNewSends BY <1>2, OthersGoOn, GoesOnSends DEF PageInv
  <2>. QED BY <2>1, <2>2, <2>3, <2>4, AnswerAnalysed DEF view
<1>3. CASE PublishAnswered(s)
  <2>1. Effects(FALSE) /\ UNCHANGED nav /\ crossed \subseteq crossed' BY <1>3 DEF PublishAnswered
  <2>2. \E to : \E call \in {"approve", "publish", "list"} : Then(s, call, to) BY <1>3 DEF PublishAnswered
  <2>3. NoNewSends BY <2>2, ThenStep DEF NoNewSends, Sends, PageInv
  <2>4. CASE t.call = "put"
    <3>1. current' = [v |-> t.v, status |-> "draft"] /\ UNCHANGED contract BY <1>3, <2>4 DEF PublishAnswered
    <3>2. current'.v = t.v BY <3>1
    <3>. QED BY <2>1, <2>3, <2>4, <3>1, <3>2, AnswerAnalysed
  <2>5. CASE t.call # "put"
    <3>1. current'.status # "draft" BY <1>3, <2>5 DEF PublishAnswered
    <3>. QED BY <2>1, <2>3, <3>1, AnswerAnalysed
  <2>. QED BY <2>4, <2>5
<1>4. CASE TransitionAnswered(s)
  <2>1. Effects(FALSE) /\ UNCHANGED <<nav, view, crossed>> /\ current'.status # "draft" BY <1>4 DEF TransitionAnswered
  <2>. QED BY <1>4, <2>1, OthersGoOn, GoesOnSends, AnswerAnalysed DEF PageInv, view
<1>5. CASE ListNext(s)
  <2>1. UNCHANGED <<user, known, editor, nav, view, effects, crossed>> BY <1>5 DEF ListNext
  <2>2. NoNewSends BY <1>5, OthersGoOn, GoesOnSends DEF PageInv
  <2>3. load' = load BY <2>1 DEF nav
  <2>. QED BY <2>1, <2>2, <2>3, SameAnalysed DEF PageInv, NoNewSends, editor, nav, view, effects
<1>6. CASE DiscardAnswered(s)
  <2>1. Select(t.to, busy) /\ current' = NoVersion /\ Effects(FALSE) /\ UNCHANGED contract
    BY <1>6 DEF DiscardAnswered
  <2>2. NoNewSends BY <1>6, OthersGoOn, GoesOnSends DEF PageInv
  <2>3. LoadApart' /\ crossed \subseteq crossed' BY <2>1, <2>2, SelectLoadApart DEF PageInv, AnalysedInv
  <2>4. SignedIn /\ UNCHANGED user BY AnswersLeave
  <2>. QED BY <2>1, <2>3, <2>4, ShowsAnalysed DEF PageInv
<1>7. CASE AssetAnswered(s)
  <2>1. UNCHANGED <<editor, nav, contract, crossed>> BY <1>7 DEF AssetAnswered
  <2>3. \E b : Effects(b) BY <1>7 DEF AssetAnswered
  <2>2. NoNewSends BY <1>7, AssetsGoOn, GoesOnSends DEF PageInv
  <2>. QED BY <2>1, <2>2, <2>3, AnswerAnalysed DEF editor
<1>8. CASE Failed(s) \/ ListFails(s)
  <2>1. Fails(s) BY <1>8, FailsFacts DEF PageInv
  <2>2. UNCHANGED <<nav, view, crossed>> /\ Effects(FALSE) BY <2>1 DEF Fails
  <2>4. current' = current \/ current'.status # "draft"
    <3>1. current' = [v |-> t.v, status |-> "approved"] \/ current' = current BY <2>1 DEF Fails
    <3>. QED BY <3>1
  <2>3. NoNewSends BY <1>8, OthersGoOn, GoesOnSends DEF PageInv
  <2>. QED BY <2>2, <2>3, <2>4, AnswerAnalysed DEF view
<1>9. CASE ListArrives(s)
  <2>1. (\E v : Select(v, StaysBusy(t))) /\ UNCHANGED <<current, contract>> /\ Effects(FALSE)
    BY <1>9 DEF ListArrives
  <2>2. NoNewSends BY <1>9, OthersGoOn, GoesOnSends DEF PageInv
  <2>3. LoadApart' /\ crossed \subseteq crossed' BY <2>1, <2>2, SelectLoadApart DEF PageInv, AnalysedInv
  <2>4. SignedIn /\ UNCHANGED user BY AnswersLeave
  <2>. QED BY <2>1, <2>3, <2>4, ShowsAnalysed DEF PageInv
<1>. QED BY <1>2, <1>3, <1>4, <1>5, <1>6, <1>7, <1>8, <1>9 DEF Answers

LEMMA AnalysedInit == ASSUME Init PROVE AnalysedInv
<1>1. current.status = "none" /\ load.v = None BY NullTypes DEF Init
<1>2. ~Analysable BY <1>1 DEF Analysable, Editable
<1>. QED BY <1>1, <1>2 DEF AnalysedInv, InOnly, LoadApart, Analysed

LEMMA AnalysedNext == ASSUME PageInv, [Next]_vars PROVE AnalysedInv'
<1>1. ASSUME NEW s \in Slot, Authenticated(s) \/ Clicks(s) \/ Serve(s) \/ Disrupt(s) \/ Answers(s)
      PROVE  AnalysedInv'
  <2>1. CASE Clicks(s)
    <3>1. ClickStep(s) \/ \E v \in Version : Click /\ Open(v) BY <2>1, ClickSteps DEF PageInv
    <3>. QED BY <3>1, ClickStepAnalysed, OpenAnalysed
  <2>. QED BY <1>1, <2>1, AuthenticatedAnalysed, ServerAnalysed, AnswersAnalysed
<1>2. CASE Logout \/ Expire BY <1>2, SignedOutAnalysed DEF Logout, Expire
<1>3. CASE \E t \in Typed : Type(t) BY <1>3, TypeAnalysed
<1>4. CASE \E v \in Version : SelectVersion(v) BY <1>4, OpenAnalysed DEF SelectVersion
<1>5. CASE \E sl \in Slug : SelectTemplate(sl) BY <1>5, SelectTemplateAnalysed
<1>6. CASE LoadArrives BY <1>6, LoadArrivesAnalysed
<1>7. CASE ReadVersion \/ LoadFails \/ AnalysisAnswers \/ Compile \/ CompileAnswers BY <1>7, PageAnalysed
<1>8. CASE UNCHANGED vars
  BY <1>8, SameAnalysed DEF PageInv, vars, server, editor, nav, view, effects
<1>. QED BY <1>1, <1>2, <1>3, <1>4, <1>5, <1>6, <1>7, <1>8 DEF Next

LEMMA PageCorrect == Spec => []PageInv
<1>1. Init => TypesInv /\ AnalysedInv BY TypesInit, AnalysedInit
<1>2. TypesInv /\ AnalysedInv /\ WorkbenchInv /\ [Next]_vars => TypesInv' /\ AnalysedInv'
  BY TypesNext, AnalysedNext DEF PageInv, WorkbenchInv
<1>3. TypesInv /\ AnalysedInv /\ WorkbenchInv => PageInv BY DEF PageInv
<1>. QED BY <1>1, <1>2, <1>3, WorkbenchCorrect, PTL DEF Spec

\* While the current version is the selected one, the publish button waits for the analysis of
\* the text on the screen (App.tsx 586-611, 686), unless a version was opened over a write to
\* it or loaded again.  Without the first condition it is not so: see PublishIsAnalysed.
THEOREM PublishWaits == Spec => []PublishIsAnalysed
<1>1. PageInv => PublishIsAnalysed
  BY DEF PageInv, AnalysedInv, Analysed, Straight, Analysable, Publishable, PublishIsAnalysed
<1>. QED BY <1>1, PageCorrect, PTL

-----------------------------------------------------------------------------
(* What is published.                                                      *)

TextIs(v, x) == Exists(v) /\ row[v].text = x

\* The server: a draft has been completed, and a template has its first version.
ServerStored ==
  /\ \A v \in Version : row[v].status = "draft" => Completed[row[v].text] = row[v].text
  /\ \A sl \in Slug : template[sl] = "none" => row[<<sl, 1>>].status = "none"

\* What has been read is still so when it arrives.
LoadStored ==
  /\ load.row.status = "draft" => Completed[load.row.text] = load.row.text
  /\ crossed \subseteq {"over"} /\ load.read /\ load.row.status # "none" => TextIs(load.v, load.row.text)

\* What the page takes for saved is, but for an answer that is on its way.
OkSend(s, v) == task[s].v = v /\ task[s].call \in Sends /\ task[s].answer = "ok"
SavedStored == crossed \subseteq {"over"} /\ current.status = "draft" =>
  /\ Completed[saved] = saved
  /\ (\A s \in Slot : ~OkSend(s, current.v)) => TextIs(current.v, saved)

\* Handlers write different versions; what was sent is stored, and is what is published.
Apart == \A r, s \in Slot :
  task[r].call \in Writes /\ task[s].call \in Writes /\ task[r].v = task[s].v => r = s
PutIs == \A s \in Slot :
  task[s].call = "put" /\ task[s].answer = "ok" => TextIs(task[s].v, Completed[task[s].text])
PublishIs == \A s \in Slot :
  task[s].op = "publish" /\ task[s].call \in {"approve", "publish"} =>
    TextIs(task[s].v, Completed[task[s].text])
TaskStored == crossed \subseteq {"over"} => Apart /\ PutIs /\ PublishIs

StoredInv == ServerStored /\ LoadStored /\ SavedStored /\ TaskStored

AllInv == PageInv /\ StoredInv

LEMMA CompletedTwice == \A x \in Text : Completed[x] \in Text /\ Completed[Completed[x]] = Completed[x]
BY WorkbenchAssumption

\* A request that writes no text leaves the text.
LEMMA WrittenFacts ==
  ASSUME ServerTypes, ServerStored, NEW t, Sent(t), Admissible(t)
  PROVE  /\ t.call \in {"approve", "publish", "upload", "unload"} => Exists(t.v) /\ Written(t).status # "none"
         /\ t.call \in {"approve", "publish", "upload", "unload", "archive", "restore"} =>
              Written(t).text = row[t.v].text
         /\ t.call \in {"archive", "restore"} => Written(t) = row[t.v]
         /\ t.call = "put" => Exists(t.v) /\ Written(t).status # "none" /\ Written(t).text = Completed[t.text]
         /\ t.call = "delete" => Exists(t.v) /\ Written(t).status = "none"
         /\ Written(t).status = "draft" => Completed[Written(t).text] = Written(t).text
         /\ t.call \in {"approve", "publish", "upload", "unload", "archive", "restore", "put", "delete", "create", "template"}
<1>. DEFINE r == row[t.v]
<1>. DEFINE w == Written(t)
<1>1. /\ t.v \in Version /\ r \in Row /\ t.text \in Text
      /\ r.status = "draft" => Completed[r.text] = r.text
  BY SentVersion DEF ServerTypes, Sent, Task, ServerStored
<1>2. Completed[Completed[t.text]] = Completed[t.text] /\ Completed[Completed[Starter]] = Completed[Starter]
  BY <1>1, CompletedTwice, WorkbenchAssumption
<1>3. CASE t.call = "put"
  <2>1. w = [r EXCEPT !.text = Completed[t.text]] /\ r.status = "draft" BY <1>3 DEF Written, Admissible, Current
  <2>2. w.status = r.status /\ w.text = Completed[t.text] BY <1>1, <2>1 DEF Row
  <2>. QED BY <1>2, <1>3, <2>1, <2>2 DEF Exists
<1>4. CASE t.call = "approve"
  <2>1. w = [r EXCEPT !.status = "approved"] /\ r.status = "draft" BY <1>4 DEF Written, Admissible, Current
  <2>2. w.status = "approved" /\ w.text = r.text BY <1>1, <2>1 DEF Row
  <2>. QED BY <1>4, <2>1, <2>2 DEF Exists
<1>5. CASE t.call = "publish"
  <2>1. w = [r EXCEPT !.status = "published"] /\ r.status = "approved" BY <1>5 DEF Written, Admissible, Current
  <2>2. w.status = "published" /\ w.text = r.text BY <1>1, <2>1 DEF Row
  <2>. QED BY <1>5, <2>1, <2>2 DEF Exists
<1>6. CASE t.call = "delete"
  <2>1. w = NoRow /\ r.status = "draft" BY <1>6 DEF Written, Admissible, Current
  <2>. QED BY <1>6, <2>1 DEF Exists, NoRow
<1>7. CASE t.call = "upload"
  <2>1. w = [r EXCEPT !.files = @ \cup {t.file}] /\ r.status = "draft" BY <1>7 DEF Written, Admissible, Current
  <2>2. w.status = r.status /\ w.text = r.text BY <1>1, <2>1 DEF Row
  <2>. QED BY <1>1, <1>7, <2>1, <2>2 DEF Exists
<1>8. CASE t.call = "unload"
  <2>1. w = [r EXCEPT !.files = @ \ {t.file}] /\ r.status = "draft" BY <1>8 DEF Written, Admissible, Current
  <2>2. w.status = r.status /\ w.text = r.text BY <1>1, <2>1 DEF Row
  <2>. QED BY <1>1, <1>8, <2>1, <2>2 DEF Exists
<1>9. CASE t.call = "template"
  <2>1. w = [status |-> "draft", text |-> Completed[Starter], files |-> {}] BY <1>9 DEF Written
  <2>2. w.text = Completed[Starter] BY <2>1
  <2>. QED BY <1>2, <1>9, <2>2
<1>10. CASE t.call = "create"
  <2>. DEFINE fs == IF t.from = None THEN {} ELSE row[t.from].files
  <2>1. w = [status |-> "draft", text |-> Completed[t.text], files |-> fs] BY <1>10 DEF Written
  <2>2. w.text = Completed[t.text] BY <2>1
  <2>. QED BY <1>2, <1>10, <2>2
<1>11. CASE t.call \in {"archive", "restore"}
  <2>1. w = r BY <1>11 DEF Written
  <2>. QED BY <1>1, <1>11, <2>1
<1>12. t.call \in {"approve", "publish", "upload", "unload", "archive", "restore", "put", "delete", "create", "template"}
  BY DEF Admissible
<1>. QED BY <1>3, <1>4, <1>5, <1>6, <1>7, <1>8, <1>9, <1>10, <1>11, <1>12

LEMMA Performed ==
  ASSUME ServerTypes, ServerStored, NEW t, Sent(t), Performs(t)
  PROVE  /\ ServerStored'
         /\ \A v \in Version : \A x : TextIs(v, x) /\ ~(t.call \in Sends /\ v = t.v) =>
              row'[v].status # "none" /\ row'[v].text = x
         /\ t.call = "put" => row'[t.v].status # "none" /\ row'[t.v].text = Completed[t.text]
<1>. DEFINE a == Affected(t)
<1>. DEFINE w == Written(t)
<1>1. /\ a \in Version /\ t.v \in Version /\ SlugOf(t.v) \in Slug /\ Admissible(t)
      /\ t.call = "create" => row[a].status = "none"
      /\ t.call # "create" => a = t.v
  BY CreatedTypes, SentVersion DEF Performs, Affected
<1>2. \A v \in Version : row'[v] = IF v = a THEN w ELSE row[v]
  BY DEF Performs, Perform, ServerTypes
<1>3. /\ t.call \in {"template", "restore"} => template'[SlugOf(t.v)] = "active"
      /\ t.call = "archive" => template'[SlugOf(t.v)] = "archived"
      /\ \A sl \in Slug : sl # SlugOf(t.v) \/ t.call \notin {"template", "restore", "archive"} =>
           template'[sl] = template[sl]
  BY <1>1 DEF Performs, Perform, ServerTypes
<1>4. /\ t.call \in {"approve", "publish", "upload", "unload"} => Exists(t.v) /\ w.status # "none"
      /\ t.call \in {"approve", "publish", "upload", "unload", "archive", "restore"} => w.text = row[t.v].text
      /\ t.call \in {"archive", "restore"} => w = row[t.v]
      /\ t.call = "put" => Exists(t.v) /\ w.status # "none" /\ w.text = Completed[t.text]
      /\ t.call = "delete" => Exists(t.v) /\ w.status = "none"
      /\ w.status = "draft" => Completed[w.text] = w.text
      /\ t.call \in {"approve", "publish", "upload", "unload", "archive", "restore", "put", "delete", "create", "template"}
  BY <1>1, WrittenFacts
<1>5. /\ t.call = "create" => template[SlugOf(t.v)] # "none" /\ SlugOf(a) = SlugOf(t.v)
      /\ t.call = "template" => template[SlugOf(t.v)] = "none" /\ t.v = <<SlugOf(t.v), 1>>
  <2>1. t.call = "create" => SlugOf(a) = SlugOf(t.v) BY DEF Affected, Created, SlugOf
  <2>. QED BY <1>1, <2>1 DEF Admissible, Sent, TaskOk
<1>. HIDE DEF a, w
<1>6. ServerStored'
  <2>1. ASSUME NEW v \in Version, row'[v].status = "draft" PROVE Completed[row'[v].text] = row'[v].text
    BY <1>2, <1>4, <2>1 DEF ServerStored
  <2>2. ASSUME NEW sl \in Slug, template'[sl] = "none" PROVE row'[<<sl, 1>>].status = "none"
    <3>1. template[sl] = "none" /\ (sl # SlugOf(t.v) \/ t.call \notin {"template", "restore", "archive"})
      BY <1>3, <2>2
    <3>2. row[<<sl, 1>>].status = "none" /\ <<sl, 1>> \in Version /\ SlugOf(<<sl, 1>>) = sl
      BY <3>1, VersionParts, WorkbenchAssumption DEF ServerStored
    <3>3. CASE a = <<sl, 1>>
      <4>1. sl = SlugOf(t.v) BY <1>1, <1>5, <3>2, <3>3
      <4>2. t.call \notin {"template", "restore", "archive", "create"} BY <1>5, <3>1, <4>1
      <4>3. ~Exists(t.v) BY <1>1, <3>2, <3>3, <4>2 DEF Exists
      <4>. QED BY <1>4, <4>2, <4>3
    <3>4. CASE a # <<sl, 1>> BY <1>2, <3>2, <3>4
    <3>. QED BY <3>3, <3>4
  <2>. QED BY <2>1, <2>2 DEF ServerStored
<1>7. ASSUME NEW v \in Version, NEW x, TextIs(v, x), ~(t.call \in Sends /\ v = t.v)
      PROVE  row'[v].status # "none" /\ row'[v].text = x
  <2>1. row[v].status # "none" /\ row[v].text = x BY <1>7 DEF TextIs, Exists
  <2>2. CASE v # a BY <1>2, <2>1, <2>2
  <2>3. CASE v = a
    <3>1. t.call # "create" BY <1>1, <2>1, <2>3
    <3>2. v = t.v BY <1>1, <2>3, <3>1
    <3>3. t.call # "template"
      BY <1>1, <1>5, <2>1, <3>2 DEF ServerStored
    <3>4. w.status # "none" /\ w.text = x BY <1>4, <1>7, <2>1, <3>1, <3>2, <3>3 DEF Sends
    <3>. QED BY <1>2, <2>3, <3>4
  <2>. QED BY <2>2, <2>3
<1>8. t.call = "put" => row'[t.v].status # "none" /\ row'[t.v].text = Completed[t.text]
  BY <1>1, <1>2, <1>4
<1>. QED BY <1>6, <1>7, <1>8

-----------------------------------------------------------------------------
\* Steps of the page leave the rows alone.

LEMMA PageStored ==
  ASSUME ServerStored, UNCHANGED server, LoadStored', SavedStored', TaskStored' PROVE StoredInv'
BY DEF StoredInv, ServerStored, server

LEMMA LoadKept ==
  ASSUME LoadStored, UNCHANGED server, crossed \subseteq crossed',
         load' = load \/ (load'.read = FALSE /\ load'.row = NoRow)
  PROVE  LoadStored'
<1>1. NoRow.status = "none" BY DEF NoRow
<1>2. crossed' \subseteq {"over"} => crossed \subseteq {"over"} OBVIOUS
<1>. QED BY <1>1, <1>2 DEF LoadStored, TextIs, Exists, server

LEMMA SelectKept ==
  ASSUME LoadStored, UNCHANGED server, NEW v, NEW b, Select(v, b) PROVE LoadStored' /\ crossed \subseteq crossed'
<1>1. crossed \subseteq crossed' BY DEF Select
<1>2. CASE v = selection BY <1>1, <1>2, LoadKept DEF Select
<1>3. CASE v # selection
  <2>1. load' = [NoLoad EXCEPT !.v = v] BY <1>3 DEF Select
  <2>2. load'.read = FALSE /\ load'.row = NoRow BY <2>1 DEF NoLoad
  <2>. QED BY <1>1, <2>2, LoadKept
<1>. QED BY <1>2, <1>3

LEMMA SavedKept ==
  ASSUME SavedStored, UNCHANGED server, crossed \subseteq crossed',
         current' = current \/ current'.status # "draft",
         current'.status = "draft" =>
           saved' = saved /\ \A r \in Slot : crossed' \subseteq {"over"} /\ OkSend(r, current.v) => OkSend(r, current.v)'
  PROVE  SavedStored'
<1>. SUFFICES ASSUME crossed' \subseteq {"over"}, current'.status = "draft"
              PROVE  /\ Completed[saved'] = saved'
                     /\ (\A s \in Slot : ~OkSend(s, current.v)') => TextIs(current.v, saved)'
  BY DEF SavedStored
<1>1. crossed \subseteq {"over"} /\ current' = current /\ saved' = saved OBVIOUS
<1>2. \A r \in Slot : OkSend(r, current.v) => OkSend(r, current.v)' OBVIOUS
<1>3. TextIs(current.v, saved)' = TextIs(current.v, saved) BY <1>1 DEF TextIs, Exists, server
<1>. QED BY <1>1, <1>2, <1>3 DEF SavedStored

LEMMA SameTasks ==
  ASSUME TaskStored, UNCHANGED <<server, task>>, crossed \subseteq crossed' PROVE TaskStored'
<1>1. crossed' \subseteq {"over"} => crossed \subseteq {"over"} OBVIOUS
<1>. QED BY <1>1 DEF TaskStored, Apart, PutIs, PublishIs, TextIs, Exists, server

LEMMA TasksGoOn ==
  ASSUME TypesInv, TaskStored, NEW s \in Slot, GoesOn(s), UNCHANGED server, crossed \subseteq crossed'
  PROVE  TaskStored'
<1>. SUFFICES ASSUME crossed' \subseteq {"over"} PROVE Apart' /\ PutIs' /\ PublishIs' BY DEF TaskStored
<1>1. Apart /\ PutIs /\ PublishIs BY DEF TaskStored
<1>2. Idle.call = "none" /\ Idle.op = "idle" BY DEF Idle
<1>3. \A r \in Slot : task'[r].call \in Writes => task[r].call = task'[r].call /\ task'[r].v = task[r].v
  BY <1>2 DEF GoesOn, Writes
<1>4. \A r \in Slot : task'[r].call = "put" \/ (task'[r].op = "publish" /\ task'[r].call \in {"approve", "publish"})
                        => task'[r] = task[r]
  BY <1>2 DEF GoesOn, TypesInv, TaskTypes, TaskOk, DraftWrites
<1>5. Apart' BY <1>1, <1>3 DEF Apart
<1>6. PutIs' BY <1>1, <1>4 DEF PutIs, TextIs, Exists, server
<1>7. PublishIs' BY <1>1, <1>4 DEF PublishIs, TextIs, Exists, server
<1>. QED BY <1>5, <1>6, <1>7

\* The page begins something else than a publication, that is apart from what is written.
LEMMA TasksBegin ==
  ASSUME TypesInv, TaskStored, NEW s \in Slot, NEW t, Begins(s, t), UNCHANGED server,
         crossed' \subseteq {"over"} /\ t.op = "publish" /\ t.call \in {"approve", "publish"} => TextIs(t.v, Completed[t.text])
  PROVE  TaskStored' /\ \A r \in Slot : \A v : OkSend(r, v) => OkSend(r, v)'
<1>1. \A r \in Slot : \A v : OkSend(r, v) => OkSend(r, v)'
  <2>1. Idle.answer = "none" BY DEF Idle
  <2>. QED BY <2>1 DEF Begins, OkSend
<1>2. ASSUME crossed' \subseteq {"over"} PROVE Apart' /\ PutIs' /\ PublishIs'
  <2>1. crossed \subseteq {"over"} /\ (t.call \in Writes => ~Writing(t.v)) BY <1>2 DEF Begins
  <2>2. Apart /\ PutIs /\ PublishIs BY <2>1 DEF TaskStored
  <2>3. Apart'
    <3>. SUFFICES ASSUME NEW p \in Slot, NEW r \in Slot, task'[p].call \in Writes, task'[r].call \in Writes,
                         task'[p].v = task'[r].v, p # r
                  PROVE  FALSE
      BY DEF Apart
    <3>1. CASE p = s BY <2>1, <3>1 DEF Begins, Writing
    <3>2. CASE r = s BY <2>1, <3>2 DEF Begins, Writing
    <3>3. CASE p # s /\ r # s BY <2>2, <3>3 DEF Begins, Apart
    <3>. QED BY <3>1, <3>2, <3>3
  <2>4. PutIs' BY <2>2 DEF Begins, PutIs, TextIs, Exists, server
  <2>5. PublishIs' BY <1>2, <2>2 DEF Begins, PublishIs, TextIs, Exists, server
  <2>. QED BY <2>3, <2>4, <2>5
<1>. QED BY <1>1, <1>2 DEF TaskStored

-----------------------------------------------------------------------------

LEMMA SignedOutStored == ASSUME ServerStored, SignedOut PROVE StoredInv'
<1>1. /\ current'.status = "none" /\ load'.read = FALSE /\ load'.row.status = "none" /\ UNCHANGED server
      /\ \A s \in Slot : task'[s].call = "none" /\ task'[s].op = "idle"
  BY NullTypes DEF SignedOut, NoLoad, NoRow, Idle
<1>2. LoadStored' /\ SavedStored' BY <1>1 DEF LoadStored, SavedStored
<1>3. TaskStored' BY <1>1 DEF TaskStored, Apart, PutIs, PublishIs, Writes
<1>. QED BY <1>1, <1>2, <1>3, PageStored

LEMMA AuthenticatedStored == ASSUME AllInv, NEW s \in Slot, Authenticated(s) PROVE StoredInv'
<1>. DEFINE t == [Idle EXCEPT !.op = "list", !.call = "list"]
<1>1. /\ UNCHANGED <<server, known, editor, nav, view, busy, locks, effects, budgets>>
      /\ UNCHANGED <<task, crossed>> \/ Request(s, t)
  BY DEF Authenticated
<1>2. t \in Task /\ t.op = "list" BY NullTypes, Names DEF Task
<1>. HIDE DEF t
<1>3. /\ TaskStored' /\ crossed \subseteq crossed'
      /\ \A r \in Slot : OkSend(r, current.v) => OkSend(r, current.v)'
  <2>1. CASE UNCHANGED <<task, crossed>> BY <1>1, <2>1, SameTasks DEF AllInv, StoredInv, OkSend, editor
  <2>2. CASE Request(s, t)
    <3>1. Begins(s, t) BY <1>2, <2>2, RequestBegins DEF AllInv, PageInv
    <3>2. crossed \subseteq crossed' /\ current' = current BY <1>1, <3>1 DEF Begins, editor
    <3>3. TaskStored' /\ \A r \in Slot : \A v : OkSend(r, v) => OkSend(r, v)'
      BY <1>1, <1>2, <3>1, TasksBegin DEF AllInv, PageInv, StoredInv
    <3>. QED BY <3>2, <3>3 DEF OkSend
  <2>. QED BY <1>1, <2>1, <2>2
<1>4. LoadStored' BY <1>1, <1>3, LoadKept DEF AllInv, StoredInv, nav
<1>5. SavedStored' BY <1>1, <1>3, SavedKept DEF AllInv, StoredInv, editor
<1>. QED BY <1>1, <1>3, <1>4, <1>5, PageStored DEF AllInv, StoredInv

\* A publication that saves nothing sends what is saved.
LEMMA ClickStepStored == ASSUME AllInv, NEW s \in Slot, ClickStep(s) PROVE StoredInv'
<1>1. UNCHANGED <<server, user, known, editor, nav, view, effects>> BY DEF ClickStep
<1>2. /\ TaskStored' /\ crossed \subseteq crossed'
      /\ \A r \in Slot : OkSend(r, current.v) => OkSend(r, current.v)'
  <2>1. CASE UNCHANGED <<task, crossed>> BY <1>1, <2>1, SameTasks DEF AllInv, StoredInv, OkSend, editor
  <2>2. ASSUME NEW t, Clicked(s, t)
        PROVE  /\ TaskStored' /\ crossed \subseteq crossed'
               /\ \A r \in Slot : OkSend(r, current.v) => OkSend(r, current.v)'
    <3>1. t \in Task /\ TaskOk(t) /\ Request(s, t) BY <2>2 DEF Clicked
    <3>2. Begins(s, t) BY <3>1, RequestBegins DEF AllInv, PageInv
    <3>3. ASSUME crossed' \subseteq {"over"}, t.op = "publish", t.call \in {"approve", "publish"}
          PROVE  TextIs(t.v, Completed[t.text])
      <4>1. t.v = current.v /\ t.text = saved /\ current.status = "draft" /\ t.call \in Writes
        BY <2>2, <3>3 DEF Clicked, Writes
      <4>2. crossed \subseteq {"over"} /\ ~Writing(current.v) BY <3>2, <3>3, <4>1 DEF Begins
      <4>3. \A r \in Slot : ~OkSend(r, current.v) BY <4>2 DEF Writing, OkSend, Sends, Writes
      <4>. QED BY <4>1, <4>2, <4>3 DEF AllInv, StoredInv, SavedStored
    <3>4. TaskStored' /\ \A r \in Slot : \A v : OkSend(r, v) => OkSend(r, v)'
      BY <1>1, <3>2, <3>3, TasksBegin DEF AllInv, PageInv, StoredInv
    <3>5. crossed \subseteq crossed' /\ current' = current BY <1>1, <3>2 DEF Begins, editor
    <3>. QED BY <3>4, <3>5 DEF OkSend
  <2>. QED BY <2>1, <2>2 DEF ClickStep
<1>3. LoadStored' BY <1>1, <1>2, LoadKept DEF AllInv, StoredInv, nav
<1>4. SavedStored' BY <1>1, <1>2, SavedKept DEF AllInv, StoredInv, editor
<1>. QED BY <1>1, <1>2, <1>3, <1>4, PageStored DEF AllInv, StoredInv

LEMMA OpenStored == ASSUME AllInv, NEW v \in Version, Open(v) PROVE StoredInv'
<1>1. /\ Select(v, busy) /\ (current' = current \/ current' = NoVersion)
      /\ UNCHANGED <<server, user, known, text, saved, origin, contract, locks, task>>
  BY DEF Open
<1>2. LoadStored' /\ crossed \subseteq crossed' BY <1>1, SelectKept DEF AllInv, StoredInv
<1>3. TaskStored' BY <1>1, <1>2, SameTasks DEF AllInv, StoredInv
<1>4. SavedStored'
  <2>1. current' = current \/ current'.status # "draft" BY <1>1, NullTypes
  <2>2. \A r \in Slot : current' = current /\ OkSend(r, current.v) => OkSend(r, current.v)' BY <1>1 DEF OkSend
  <2>. QED BY <1>1, <1>2, <2>1, <2>2, SavedKept DEF AllInv, StoredInv
<1>. QED BY <1>1, <1>2, <1>3, <1>4, PageStored DEF AllInv, StoredInv

LEMMA SelectTemplateStored == ASSUME AllInv, NEW sl \in Slug, SelectTemplate(sl) PROVE StoredInv'
<1>. DEFINE n == Newest(known.row, sl)
<1>1. current' = NoVersion /\ UNCHANGED <<server, task>> BY DEF SelectTemplate
<1>2. LoadStored' /\ crossed \subseteq crossed'
  <2>1. CASE n > 0
    <3>1. Select(<<sl, n>>, busy) BY <2>1 DEF SelectTemplate
    <3>. HIDE DEF n
    <3>. QED BY <1>1, <3>1, SelectKept DEF AllInv, StoredInv
  <2>2. CASE ~(n > 0)
    <3>1. load' = NoLoad /\ UNCHANGED crossed BY <2>2 DEF SelectTemplate
    <3>2. load'.read = FALSE /\ load'.row = NoRow BY <3>1 DEF NoLoad
    <3>. QED BY <1>1, <3>1, <3>2, LoadKept DEF AllInv, StoredInv
  <2>. QED BY <2>1, <2>2
<1>3. SavedStored' BY <1>1, NullTypes DEF SavedStored
<1>4. TaskStored' BY <1>1, <1>2, SameTasks DEF AllInv, StoredInv
<1>. QED BY <1>1, <1>2, <1>3, <1>4, PageStored DEF AllInv, StoredInv

LEMMA ReadVersionStored == ASSUME AllInv, ReadVersion PROVE StoredInv'
<1>1. /\ load.v # None /\ load' = [load EXCEPT !.read = TRUE, !.row = row[load.v]]
      /\ UNCHANGED <<server, user, known, editor, slug, selection, view, busy, locks, effects, task, crossed, budgets>>
  BY DEF ReadVersion
<1>2. load.v \in Version /\ load'.v = load.v /\ load'.row = row[load.v]
  BY <1>1 DEF AllInv, PageInv, TypesInv, NavTypes
<1>3. LoadStored' BY <1>1, <1>2 DEF LoadStored, AllInv, StoredInv, ServerStored, TextIs, Exists, server
<1>4. TaskStored' BY <1>1, SameTasks DEF AllInv, StoredInv
<1>5. SavedStored' BY <1>1, SavedKept DEF AllInv, StoredInv, editor, OkSend
<1>. QED BY <1>1, <1>3, <1>4, <1>5, PageStored DEF AllInv, StoredInv

LEMMA LoadArrivesStored == ASSUME AllInv, LoadArrives PROVE StoredInv'
<1>1. /\ load.read /\ load.row.status # "none" /\ current' = [v |-> load.v, status |-> load.row.status]
      /\ saved' = load.row.text /\ load' = NoLoad
      /\ UNCHANGED <<server, user, known, selection, compiling, locks, task, crossed, budgets>>
  BY DEF LoadArrives
<1>2. LoadStored'
  <2>1. load'.read = FALSE /\ load'.row = NoRow BY <1>1 DEF NoLoad
  <2>. QED BY <1>1, <2>1, LoadKept DEF AllInv, StoredInv
<1>3. SavedStored'
  <2>1. current'.v = load.v /\ current'.status = load.row.status BY <1>1
  <2>. QED BY <1>1, <2>1 DEF SavedStored, AllInv, StoredInv, LoadStored, TextIs, Exists, server
<1>4. TaskStored' BY <1>1, SameTasks DEF AllInv, StoredInv
<1>. QED BY <1>1, <1>2, <1>3, <1>4, PageStored DEF AllInv, StoredInv

LEMMA QuietStored ==
  ASSUME AllInv, \/ LoadFails \/ AnalysisAnswers \/ Compile \/ CompileAnswers
                 \/ \E t \in Typed : Type(t)
                 \/ UNCHANGED vars
  PROVE  StoredInv'
<1>1. UNCHANGED <<server, current, saved, task, crossed>> /\ load' \in {load, NoLoad}
  BY DEF LoadFails, AnalysisAnswers, Compile, CompileAnswers, Type, vars, editor, nav
<1>2. LoadStored'
  <2>1. load' = load \/ (load'.read = FALSE /\ load'.row = NoRow) BY <1>1 DEF NoLoad
  <2>. QED BY <1>1, <2>1, LoadKept DEF AllInv, StoredInv
<1>3. TaskStored' BY <1>1, SameTasks DEF AllInv, StoredInv
<1>4. SavedStored' BY <1>1, SavedKept DEF AllInv, StoredInv, OkSend
<1>. QED BY <1>1, <1>2, <1>3, <1>4, PageStored DEF AllInv, StoredInv

-----------------------------------------------------------------------------
\* The server answers: nothing but a save or a discard changes what a version says.
LEMMA ServerStoredKept == ASSUME AllInv, NEW s \in Slot, Serve(s) \/ Disrupt(s) PROVE StoredInv'
<1>. DEFINE t == task[s]
<1>1. /\ Sent(t) /\ UNCHANGED <<user, known, editor, nav, view, busy, locks, effects>>
      /\ \/ Replies(s, "error") /\ UNCHANGED <<server, crossed>>
         \/ Replies(s, "ok") /\ Performs(t) /\ UNCHANGED crossed
         \/ /\ Replies(s, "error") /\ Performs(t)
            /\ crossed' = crossed \cup (IF t.call \in {"put", "delete"} THEN {"lost"} ELSE {})
  BY ServerSteps DEF AllInv, PageInv
<1>2. crossed \subseteq crossed' /\ t.answer = "waiting" BY <1>1 DEF Sent
<1>3. /\ ServerStored'
      /\ \A v \in Version : \A x : TextIs(v, x) /\ ~(t.call \in Sends /\ v = t.v) =>
           row'[v].status # "none" /\ row'[v].text = x
      /\ t.call = "put" /\ task'[s].answer = "ok" => row'[t.v].status # "none" /\ row'[t.v].text = Completed[t.text]
  <2>1. CASE UNCHANGED server /\ Replies(s, "error")
    <3>1. ServerStored' BY <2>1 DEF AllInv, StoredInv, ServerStored, server
    <3>2. \A v \in Version : \A x : TextIs(v, x) => row'[v].status # "none" /\ row'[v].text = x
      BY <2>1 DEF TextIs, Exists, server
    <3>3. task'[s].answer # "ok" BY <2>1 DEF Replies
    <3>. QED BY <3>1, <3>2, <3>3
  <2>2. CASE Performs(t)
    <3>1. ServerTypes /\ ServerStored BY DEF AllInv, PageInv, TypesInv, StoredInv
    <3>. QED BY <1>1, <2>2, <3>1, Performed
  <2>. QED BY <1>1, <2>1, <2>2
<1>4. /\ \A r \in Slot : task'[r].op = task[r].op /\ task'[r].call = task[r].call /\ task'[r].v = task[r].v
                         /\ task'[r].text = task[r].text
      /\ \A r \in Slot : r # s => task'[r] = task[r]
      /\ t.call \in Sends => task'[s].answer = "ok" \/ ~(crossed' \subseteq {"over"}) \/ UNCHANGED server
  <2>1. \/ Replies(s, "error") /\ UNCHANGED server
        \/ Replies(s, "ok")
        \/ Replies(s, "error") /\ (t.call \in Sends => "lost" \in crossed')
    BY <1>1 DEF Sends
  <2>2. PICK answer : Replies(s, answer) BY <2>1
  <2>3. t.call \in Sends => task'[s].answer = "ok" \/ ~(crossed' \subseteq {"over"}) \/ UNCHANGED server
    BY <2>1 DEF Replies
  <2>. QED BY <2>2, <2>3 DEF Replies
<1>5. LoadStored'
  <2>1. UNCHANGED load BY <1>1 DEF nav
  <2>2. ASSUME crossed' \subseteq {"over"}, load.read, load.row.status # "none" PROVE TextIs(load.v, load.row.text)'
    <3>1. crossed \subseteq {"over"} /\ load.v # None /\ load.v \in Version /\ TextIs(load.v, load.row.text)
      BY <1>2, <2>2 DEF AllInv, PageInv, WorkbenchInv, LoadOk, TypesInv, NavTypes, StoredInv, LoadStored
    <3>2. ~(t.call \in Sends /\ load.v = t.v) BY <3>1 DEF AllInv, PageInv, AnalysedInv, LoadApart, Straight
    <3>3. row'[load.v].status # "none" /\ row'[load.v].text = load.row.text
      BY <1>3, <3>1, <3>2 DEF TextIs, Exists
    <3>. QED BY <2>1, <3>3 DEF TextIs, Exists
  <2>. QED BY <2>1, <2>2 DEF AllInv, StoredInv, LoadStored
<1>6. SavedStored'
  <2>. SUFFICES ASSUME crossed' \subseteq {"over"}, current.status = "draft"
                PROVE  /\ Completed[saved] = saved
                       /\ (\A r \in Slot : ~OkSend(r, current.v)') => TextIs(current.v, saved)'
    BY <1>1 DEF SavedStored, editor
  <2>0. UNCHANGED <<current, saved>> BY <1>1 DEF editor
  <2>1. crossed \subseteq {"over"} BY <1>2
  <2>2. ASSUME \A r \in Slot : ~OkSend(r, current.v)' PROVE TextIs(current.v, saved)'
    <3>1. \A r \in Slot : ~OkSend(r, current.v)
      <4>1. ~OkSend(s, current.v) BY <1>2 DEF OkSend
      <4>2. ASSUME NEW r \in Slot, r # s PROVE ~OkSend(r, current.v) BY <1>4, <2>0, <2>2, <4>2 DEF OkSend
      <4>. QED BY <4>1, <4>2
    <3>2. TextIs(current.v, saved) BY <2>1, <3>1 DEF AllInv, StoredInv, SavedStored
    <3>3. current.v \in Version BY EditedVersion DEF AllInv, PageInv
    <3>4. CASE ~(t.call \in Sends /\ current.v = t.v)
      <4>1. row'[current.v].status # "none" /\ row'[current.v].text = saved BY <1>3, <3>2, <3>3, <3>4 DEF TextIs, Exists
      <4>. QED BY <2>0, <4>1 DEF TextIs, Exists
    <3>5. CASE t.call \in Sends /\ current.v = t.v
      <4>1. task'[s].answer # "ok" BY <1>4, <2>0, <2>2, <3>5 DEF OkSend
      <4>2. UNCHANGED server BY <1>4, <3>5, <4>1
      <4>. QED BY <2>0, <3>2, <4>2 DEF TextIs, Exists, server
    <3>. QED BY <3>4, <3>5
  <2>. QED BY <2>1, <2>2 DEF AllInv, StoredInv, SavedStored
<1>7. TaskStored'
  <2>. SUFFICES ASSUME crossed' \subseteq {"over"} PROVE Apart' /\ PutIs' /\ PublishIs' BY DEF TaskStored
  <2>1. Apart /\ PutIs /\ PublishIs BY <1>2 DEF AllInv, StoredInv, TaskStored
  <2>2. \A p \in Slot : task[p].call = "put" \/ task[p].op = "publish" => task[p].v \in Version
    BY DEF AllInv, PageInv, TypesInv, TaskTypes, TaskOk, DraftWrites
  <2>3. ASSUME NEW p \in Slot, p # s, task[p].call \in Writes PROVE ~(t.call \in Sends /\ task[p].v = t.v)
    BY <2>1, <2>3 DEF Apart, Sends, Writes
  <2>4. Apart' BY <1>4, <2>1 DEF Apart
  <2>5. PutIs'
    <3>. SUFFICES ASSUME NEW p \in Slot, task'[p].call = "put", task'[p].answer = "ok"
                  PROVE  TextIs(task[p].v, Completed[task[p].text])'
      BY DEF PutIs
    <3>1. CASE p = s
      <4>1. row'[t.v].status # "none" /\ row'[t.v].text = Completed[t.text]
        BY <1>3, <1>4, <3>1 DEF TextIs, Exists
      <4>. QED BY <1>4, <3>1, <4>1 DEF TextIs, Exists
    <3>2. CASE p # s
      <4>1. TextIs(task[p].v, Completed[task[p].text]) BY <1>4, <2>1, <3>2 DEF PutIs
      <4>2. row'[task[p].v].status # "none" /\ row'[task[p].v].text = Completed[task[p].text]
        BY <1>3, <1>4, <2>2, <2>3, <3>2, <4>1 DEF TextIs, Exists, Writes
      <4>. QED BY <1>4, <4>2 DEF TextIs, Exists
    <3>. QED BY <3>1, <3>2
  <2>6. PublishIs'
    <3>. SUFFICES ASSUME NEW p \in Slot, task'[p].op = "publish", task'[p].call \in {"approve", "publish"}
                  PROVE  TextIs(task[p].v, Completed[task[p].text])'
      BY DEF PublishIs
    <3>1. TextIs(task[p].v, Completed[task[p].text]) BY <1>4, <2>1 DEF PublishIs
    <3>2. ~(t.call \in Sends /\ task[p].v = t.v)
      BY <1>4, <2>3 DEF Sends, Writes
    <3>3. row'[task[p].v].status # "none" /\ row'[task[p].v].text = Completed[task[p].text]
      BY <1>3, <1>4, <2>2, <3>1, <3>2 DEF TextIs, Exists
    <3>. QED BY <1>4, <3>3 DEF TextIs, Exists
  <2>. QED BY <2>4, <2>5, <2>6
<1>. QED BY <1>3, <1>5, <1>6, <1>7 DEF StoredInv

-----------------------------------------------------------------------------
\* Answers.

\* Answers that leave what is saved alone.
LEMMA AnswerStored ==
  ASSUME AllInv, NEW s \in Slot, Answers(s), GoesOn(s), crossed \subseteq crossed', LoadStored',
         UNCHANGED <<current, saved>> \/ current'.status # "draft",
         current'.status = "draft" /\ crossed' \subseteq {"over"} => ~OkSend(s, current.v)
  PROVE  StoredInv'
<1>1. UNCHANGED server BY AnswersLeave
<1>2. TaskStored' BY <1>1, TasksGoOn DEF AllInv, PageInv, StoredInv
<1>3. SavedStored'
  <2>1. current'.status = "draft" =>
          saved' = saved /\ \A r \in Slot : crossed' \subseteq {"over"} /\ OkSend(r, current.v) => OkSend(r, current.v)'
    BY DEF GoesOn, OkSend
  <2>. QED BY <1>1, <2>1, SavedKept DEF AllInv, StoredInv
<1>. QED BY <1>1, <1>2, <1>3, PageStored DEF AllInv, StoredInv

LEMMA AnswerLoad ==
  ASSUME AllInv, NEW s \in Slot, Answers(s), load' = load, crossed \subseteq crossed' PROVE LoadStored'
<1>1. UNCHANGED server BY AnswersLeave
<1>. QED BY <1>1, LoadKept DEF AllInv, StoredInv

\* The answer to a save: what was sent is stored, and is what is now taken for saved.
LEMMA SaveAnsweredStored == ASSUME AllInv, NEW s \in Slot, SaveAnswered(s) PROVE StoredInv'
<1>. DEFINE t == task[s]
<1>1. /\ t.op = "save" /\ t.answer = "ok" /\ UNCHANGED <<nav, view>> /\ crossed \subseteq crossed'
      /\ Answers(s) /\ GoesOn(s)
  BY OthersGoOn DEF SaveAnswered, Answered, Answers, AllInv, PageInv
<1>2. t.call = "put" BY <1>1 DEF AllInv, PageInv, WorkbenchInv, SaveCalls, Saving
<1>3. LoadStored' BY <1>1, AnswerLoad DEF nav
<1>4. CASE selection # t.v
  <2>1. UNCHANGED editor /\ crossed' = crossed \cup (IF current.v = t.v THEN {"dropped"} ELSE {})
    BY <1>4 DEF SaveAnswered
  <2>2. crossed' \subseteq {"over"} => ~OkSend(s, current.v) BY <2>1 DEF OkSend
  <2>. QED BY <1>1, <1>3, <2>1, <2>2, AnswerStored DEF editor
<1>5. CASE selection = t.v
  <2>1. current' = [v |-> t.v, status |-> "draft"] /\ saved' = Completed[t.text] /\ UNCHANGED crossed
    BY <1>5 DEF SaveAnswered
  <2>2. UNCHANGED server BY <1>1, AnswersLeave
  <2>3. TaskStored' BY <1>1, <2>2, TasksGoOn DEF AllInv, PageInv, StoredInv
  <2>4. crossed' \subseteq {"over"} => TextIs(t.v, Completed[t.text])
    BY <1>1, <1>2, <2>1 DEF AllInv, StoredInv, TaskStored, PutIs
  <2>5. Completed[Completed[t.text]] = Completed[t.text]
    BY <1>1, AnsweredVersion, CompletedTwice DEF AllInv, PageInv
  <2>6. SavedStored' BY <2>1, <2>2, <2>4, <2>5 DEF SavedStored, TextIs, Exists, server
  <2>. QED BY <1>3, <2>2, <2>3, <2>6, PageStored DEF AllInv, StoredInv
<1>. QED BY <1>4, <1>5

\* A publication goes on for what its save stored.
LEMMA PublishAnsweredStored == ASSUME AllInv, NEW s \in Slot, PublishAnswered(s) PROVE StoredInv'
<1>. DEFINE t == task[s]
<1>1. /\ t.op = "publish" /\ t.answer = "ok" /\ UNCHANGED nav /\ crossed \subseteq crossed' /\ Answers(s)
  BY DEF PublishAnswered, Answered, Answers
<1>2. LoadStored' BY <1>1, AnswerLoad DEF nav
<1>3. UNCHANGED server BY <1>1, AnswersLeave
<1>4. Completed[Completed[t.text]] = Completed[t.text]
  BY <1>1, AnsweredVersion, CompletedTwice DEF AllInv, PageInv
<1>5. PICK call, to : /\ Then(s, call, to)
                      /\ \/ t.call = "put" /\ call = "approve"
                         \/ t.call = "approve" /\ call = "publish"
                         \/ call = "list"
  BY DEF PublishAnswered
<1>6. /\ \A r \in Slot : r # s => task'[r] = task[r]
      /\ task'[s].op = t.op /\ task'[s].v = t.v /\ task'[s].text = t.text
      /\ task'[s].answer = "waiting" /\ task'[s].call = call
  BY <1>5, ThenStep DEF AllInv, PageInv
<1>7. ASSUME crossed' \subseteq {"over"}
      PROVE  /\ Apart /\ PutIs /\ PublishIs
             /\ t.call \in {"put", "approve"} => TextIs(t.v, Completed[t.text])
  <2>1. crossed \subseteq {"over"} BY <1>1, <1>7
  <2>. QED BY <1>1, <2>1 DEF AllInv, StoredInv, TaskStored, PutIs, PublishIs
<1>8. SavedStored'
  <2>1. CASE t.call = "put"
    <3>1. current' = [v |-> t.v, status |-> "draft"] /\ saved' = Completed[t.text] BY <2>1 DEF PublishAnswered
    <3>2. crossed' \subseteq {"over"} => TextIs(t.v, Completed[t.text]) BY <1>7, <2>1
    <3>. QED BY <1>3, <1>4, <3>1, <3>2 DEF SavedStored, TextIs, Exists, server
  <2>2. CASE t.call # "put"
    <3>1. current'.status # "draft" BY <2>2 DEF PublishAnswered
    <3>. QED BY <3>1 DEF SavedStored
  <2>. QED BY <2>1, <2>2
<1>9. TaskStored'
  <2>. SUFFICES ASSUME crossed' \subseteq {"over"} PROVE Apart' /\ PutIs' /\ PublishIs' BY DEF TaskStored
  <2>1. /\ Apart /\ PutIs /\ PublishIs
        /\ t.call \in {"put", "approve"} => TextIs(t.v, Completed[t.text])
    BY <1>7
  <2>2. Apart' BY <1>5, <1>6, <2>1 DEF Apart, Writes
  <2>3. PutIs' BY <1>3, <1>5, <1>6, <2>1 DEF PutIs, TextIs, Exists, server
  <2>4. PublishIs' BY <1>3, <1>5, <1>6, <2>1 DEF PublishIs, TextIs, Exists, server
  <2>. QED BY <2>2, <2>3, <2>4
<1>. QED BY <1>2, <1>3, <1>8, <1>9, PageStored DEF AllInv, StoredInv

LEMMA AnswersStored == ASSUME AllInv, NEW s \in Slot, Answers(s) PROVE StoredInv'
<1>. DEFINE t == task[s]
<1>0. t \in Task /\ TaskOk(t) BY DEF AllInv, PageInv, TypesInv, TaskTypes
<1>1. CASE TransitionAnswered(s) \/ ListNext(s)
  <2>1. /\ t.op \in {"transition", "create", "template", "archive"} /\ UNCHANGED <<nav, crossed>>
        /\ GoesOn(s)
    BY <1>1, OthersGoOn DEF TransitionAnswered, ListNext, Answered, AllInv, PageInv
  <2>2. ~OkSend(s, current.v) BY <1>0, <2>1 DEF OkSend, Sends, TaskOk, DraftWrites
  <2>3. LoadStored' BY <2>1, AnswerLoad DEF nav
  <2>4. UNCHANGED <<current, saved>> \/ current'.status # "draft"
    <3>1. CASE TransitionAnswered(s)
      <4>1. current' = [v |-> t.v, status |-> "published"] BY <3>1 DEF TransitionAnswered
      <4>. QED BY <4>1
    <3>2. CASE ListNext(s) BY <3>2 DEF ListNext, editor
    <3>. QED BY <1>1, <3>1, <3>2
  <2>. QED BY <2>1, <2>2, <2>3, <2>4, AnswerStored
<1>2. CASE DiscardAnswered(s)
  <2>1. current' = NoVersion /\ Select(t.to, busy) /\ GoesOn(s)
    BY <1>2, OthersGoOn DEF DiscardAnswered, AllInv, PageInv
  <2>2. UNCHANGED server BY AnswersLeave
  <2>3. LoadStored' /\ crossed \subseteq crossed' BY <2>1, <2>2, SelectKept DEF AllInv, StoredInv
  <2>4. current'.status # "draft" BY <2>1, NullTypes
  <2>. QED BY <2>1, <2>3, <2>4, AnswerStored
<1>3. CASE AssetAnswered(s)
  <2>1. t.op \in {"upload", "unload"} /\ UNCHANGED <<editor, nav, crossed>> /\ GoesOn(s)
    BY <1>3, AssetsGoOn DEF AssetAnswered, Answered, AllInv, PageInv
  <2>2. ~OkSend(s, current.v) BY <1>0, <2>1 DEF OkSend, Sends, TaskOk, DraftWrites
  <2>3. LoadStored' BY <2>1, AnswerLoad DEF nav
  <2>. QED BY <2>1, <2>2, <2>3, AnswerStored DEF editor
<1>4. CASE Failed(s) \/ ListFails(s)
  <2>1. Fails(s) /\ GoesOn(s) /\ t.answer \in {"error", "waiting"}
    BY <1>4, FailsFacts, OthersGoOn DEF Failed, ListFails, Listing, AllInv, PageInv
  <2>2. ~OkSend(s, current.v) BY <2>1 DEF OkSend
  <2>3. UNCHANGED <<saved, nav, crossed>> BY <2>1 DEF Fails
  <2>4. LoadStored' BY <2>3, AnswerLoad DEF nav
  <2>5. current' = [v |-> t.v, status |-> "approved"] \/ current' = current BY <2>1 DEF Fails
  <2>. QED BY <2>1, <2>2, <2>3, <2>4, <2>5, AnswerStored
<1>5. CASE ListArrives(s)
  <2>1. PICK v : Select(v, StaysBusy(t)) BY <1>5 DEF ListArrives
  <2>2. UNCHANGED <<current, saved>> /\ t.answer = "waiting" BY <1>5 DEF ListArrives, Listing
  <2>3. UNCHANGED server BY AnswersLeave
  <2>4. LoadStored' /\ crossed \subseteq crossed' BY <2>1, <2>3, SelectKept DEF AllInv, StoredInv
  <2>5. GoesOn(s) BY <1>5, OthersGoOn DEF AllInv, PageInv
  <2>6. ~OkSend(s, current.v) BY <2>2 DEF OkSend
  <2>. QED BY <2>2, <2>4, <2>5, <2>6, AnswerStored
<1>. QED BY <1>1, <1>2, <1>3, <1>4, <1>5, SaveAnsweredStored, PublishAnsweredStored DEF Answers

-----------------------------------------------------------------------------

LEMMA StoredInit == ASSUME Init PROVE StoredInv
<1>1. row \in Start /\ template = [s \in Slug |-> IF Exists(<<s, 1>>) THEN "active" ELSE "none"] BY DEF Init
<1>2. ServerStored
  <2>1. \A v \in Version : row[v].status = "draft" => Completed[row[v].text] = row[v].text
    BY <1>1, WorkbenchAssumption
  <2>2. \A sl \in Slug : template[sl] = "none" => row[<<sl, 1>>].status = "none" BY <1>1 DEF Exists
  <2>. QED BY <2>1, <2>2 DEF ServerStored
<1>3. /\ current.status = "none" /\ load.read = FALSE /\ load.row.status = "none"
      /\ \A s \in Slot : task[s].call = "none" /\ task[s].op = "idle"
  BY NullTypes DEF Init, NoLoad, NoRow, Idle
<1>4. LoadStored /\ SavedStored BY <1>3 DEF LoadStored, SavedStored
<1>5. TaskStored BY <1>3 DEF TaskStored, Apart, PutIs, PublishIs, Writes
<1>. QED BY <1>2, <1>4, <1>5 DEF StoredInv

LEMMA StoredNext == ASSUME AllInv, [Next]_vars PROVE StoredInv'
<1>1. ASSUME NEW s \in Slot, Authenticated(s) \/ Clicks(s) \/ Serve(s) \/ Disrupt(s) \/ Answers(s)
      PROVE  StoredInv'
  <2>1. CASE Clicks(s)
    <3>1. ClickStep(s) \/ \E v \in Version : Click /\ Open(v) BY <2>1, ClickSteps DEF AllInv, PageInv
    <3>. QED BY <3>1, ClickStepStored, OpenStored
  <2>. QED BY <1>1, <2>1, AuthenticatedStored, ServerStoredKept, AnswersStored
<1>2. CASE Logout \/ Expire BY <1>2, SignedOutStored DEF Logout, Expire, AllInv, StoredInv
<1>3. CASE \E v \in Version : SelectVersion(v) BY <1>3, OpenStored DEF SelectVersion
<1>4. CASE \E sl \in Slug : SelectTemplate(sl) BY <1>4, SelectTemplateStored
<1>5. CASE ReadVersion BY <1>5, ReadVersionStored
<1>6. CASE LoadArrives BY <1>6, LoadArrivesStored
<1>7. CASE \/ LoadFails \/ AnalysisAnswers \/ Compile \/ CompileAnswers \/ (\E t \in Typed : Type(t)) \/ UNCHANGED vars
  BY <1>7, QuietStored
<1>. QED BY <1>1, <1>2, <1>3, <1>4, <1>5, <1>6, <1>7 DEF Next

LEMMA StoredCorrect == Spec => []AllInv
<1>1. Init => StoredInv BY StoredInit
<1>2. PageInv /\ StoredInv /\ [Next]_vars => StoredInv' BY StoredNext DEF AllInv
<1>3. PageInv /\ StoredInv => AllInv BY DEF AllInv
<1>. QED BY <1>1, <1>2, <1>3, PageCorrect, PTL DEF Spec

\* What is approved and published is what was on the screen when the user confirmed, as the server
\* completes it (App.tsx 285-323).
THEOREM PublishesShown == Spec => []PublishesWhatWasShown
<1>1. AllInv => PublishesWhatWasShown
  BY DEF AllInv, StoredInv, TaskStored, PublishIs, TextIs, PublishesWhatWasShown
<1>. QED BY <1>1, StoredCorrect, PTL
-----------------------------------------------------------------------------
(* What is shown.                                                          *)

\* Nothing has failed, nor overlapped in a way that matters here.
Calm == crossed \subseteq {"dropped"} /\ faults = MaxFaults

\* A handler that writes the selected version.
Writer(s) == task[s].call \in Writes /\ task[s].v = selection

\* Version v has this status, text and files.
Says(v, status, x, files) == row[v].status = status /\ row[v].text = x /\ row[v].files = files

\* What a request, once performed, makes of the version that is shown.
StatusAfter(call) ==
  IF call = "approve" THEN "approved" ELSE IF call = "publish" THEN "published" ELSE "draft"
TextAfter(t)  == IF t.call = "put" THEN Completed[t.text] ELSE saved
FilesAfter(t) == IF t.call = "upload" THEN assets \cup {t.file}
                 ELSE IF t.call = "unload" THEN assets \ {t.file} ELSE assets

\* What is loaded is neither on the screen nor written, so it has not changed when it arrives.
LoadAlone == load.v # None => load.v # current.v /\ ~Writing(load.v)
LoadRow   == load.read /\ load.row.status # "none" => row[load.v] = load.row

\* What has been saved and the files belong to the selected version as long as it is written, even
\* if it is not current: its template may have been selected again.
WriterStored == \A s \in Slot : Writer(s) =>
  /\ current.v = selection => current.status = StatusBefore(task[s].call)
  /\ task[s].answer # "ok" => Says(selection, StatusBefore(task[s].call), saved, assets)
  /\ task[s].answer = "ok" /\ task[s].call # "delete" =>
       Says(selection, StatusAfter(task[s].call), TextAfter(task[s]), FilesAfter(task[s]))

\* Unless an answer is on its way, the version that is selected and current is shown as it is.
Settled == \A s \in Slot : Writer(s) => task[s].answer # "ok"
Steady  ==
  /\ current.v # None => current.status # "none"
  /\ current.v # None /\ current.v = selection /\ Settled => Says(selection, current.status, saved, assets)

Shown == Apart /\ LoadAlone /\ LoadRow /\ WriterStored /\ Steady

ShownInv == Calm => Shown

ScreenInv == AllInv /\ ShownInv

LEMMA CalmBefore ==
  ASSUME FlagTypes, crossed \subseteq crossed', Click \/ Fail \/ faults' = faults, Calm' PROVE Calm /\ ~Fail
<1>1. faults' = MaxFaults /\ faults \in 0 .. MaxFaults /\ MaxFaults \in Nat
  BY WorkbenchAssumption DEF Calm, FlagTypes
<1>2. ~Fail BY <1>1 DEF Fail
<1>3. faults' = faults BY <1>2 DEF Click
<1>. QED BY <1>1, <1>2, <1>3 DEF Calm

LEMMA WritesText == ASSUME NEW t \in Task, TaskOk(t), t.call \in Writes
  PROVE  t.v \in Version /\ t.op \in DraftWrites \cup {"transition", "discard", "upload", "unload"}
BY DEF TaskOk, Writes, DraftWrites, Idle, Task

\* No handler takes to writing.
NoNewWrites == \A r \in Slot : task'[r].call \in Writes => task[r].call \in Writes /\ task'[r].v = task[r].v

LEMMA ApartGoesOn == ASSUME Apart, NoNewWrites PROVE Apart'
BY DEF Apart, NoNewWrites

LEMMA LoadGoesOn ==
  ASSUME LoadAlone, NoNewWrites, load'.v \in {load.v, None},
         current'.v \in {current.v, None} \/ \E s \in Slot : task[s].call \in Writes /\ current'.v = task[s].v
  PROVE  LoadAlone'
BY DEF LoadAlone, Writing, NoNewWrites

LEMMA LoadRowGoesOn ==
  ASSUME LoadRow, UNCHANGED server, load' = load \/ load'.read = FALSE PROVE LoadRow'
BY DEF LoadRow, server

\* Steps that leave the screen and those who write it alone.
SameWriters ==
  /\ \A r \in Slot : Writer(r)' => task'[r] = task[r]
  /\ \A r \in Slot : Writer(r) /\ task[r].answer = "ok" => task'[r] = task[r]

LEMMA ScreenGoesOn ==
  ASSUME WriterStored, Steady, SameWriters, UNCHANGED <<server, current, saved, assets, selection>>
  PROVE  WriterStored' /\ Steady'
<1>1. UNCHANGED row BY DEF server
<1>2. WriterStored'
  <2>. SUFFICES ASSUME NEW s \in Slot, Writer(s)'
                PROVE  /\ (current.v = selection => current.status = StatusBefore(task[s].call))'
                       /\ (task[s].answer # "ok" => Says(selection, StatusBefore(task[s].call), saved, assets))'
                       /\ (task[s].answer = "ok" /\ task[s].call # "delete" =>
                             Says(selection, StatusAfter(task[s].call), TextAfter(task[s]), FilesAfter(task[s])))'
    BY DEF WriterStored
  <2>1. task'[s] = task[s] BY DEF Writer, SameWriters
  <2>2. Writer(s) BY <2>1 DEF Writer
  <2>. QED BY <1>1, <2>1, <2>2 DEF WriterStored, Says, TextAfter, FilesAfter
<1>3. Steady'
  <2>1. Settled' => Settled BY DEF Settled, Writer, SameWriters
  <2>. QED BY <1>1, <2>1 DEF Steady, Says
<1>. QED BY <1>2, <1>3

\* A version is selected: none that is written, nor the one that is current.
LEMMA SelectShown ==
  ASSUME TypesInv, WriterStored, Steady, LoadAlone, LoadRow, NEW v \in Version \cup {None}, NEW b, Select(v, b), Calm',
         UNCHANGED <<server, saved>>, \A r \in Slot : task'[r].call \in Writes => task'[r] = task[r],
         \/ current' = NoVersion
         \/ current' = current /\ SameWriters
  PROVE  LoadAlone' /\ LoadRow' /\ WriterStored' /\ Steady'
<1>1. NoNewWrites BY DEF NoNewWrites
<1>2. UNCHANGED row /\ selection' = v BY DEF server, Select
<1>3. NoVersion.v = None /\ NoVersion.status = "none" BY NullTypes
<1>4. CASE v = selection
  <2>1. load' = load /\ UNCHANGED assets BY <1>4 DEF Select
  <2>2. LoadAlone' /\ LoadRow' BY <1>1, <1>3, <2>1, LoadGoesOn, LoadRowGoesOn
  <2>3. CASE current' = current /\ SameWriters BY <1>2, <1>4, <2>1, <2>2, <2>3, ScreenGoesOn
  <2>4. CASE current' = NoVersion
    <3>1. WriterStored'
      <4>. SUFFICES ASSUME NEW s \in Slot, Writer(s)'
                    PROVE  /\ (current.v = selection => current.status = StatusBefore(task[s].call))'
                           /\ (task[s].answer # "ok" => Says(selection, StatusBefore(task[s].call), saved, assets))'
                           /\ (task[s].answer = "ok" /\ task[s].call # "delete" =>
                                 Says(selection, StatusAfter(task[s].call), TextAfter(task[s]), FilesAfter(task[s])))'
        BY DEF WriterStored
      <4>1. task'[s] = task[s] /\ task[s].call \in Writes BY DEF Writer
      <4>2. Writer(s) BY <1>2, <1>4, <4>1 DEF Writer
      <4>3. selection # None
        <5>1. task[s].v \in Version BY <4>1, WritesText DEF TypesInv, TaskTypes
        <5>. QED BY <4>2, <5>1, WorkbenchAssumption DEF Writer
      <4>. QED BY <1>2, <1>3, <1>4, <2>1, <2>4, <4>1, <4>2, <4>3 DEF WriterStored, Says, TextAfter, FilesAfter
    <3>2. Steady' BY <1>3, <2>4 DEF Steady
    <3>. QED BY <2>2, <3>1, <3>2
  <2>. QED BY <2>3, <2>4
<1>5. CASE v # selection
  <2>1. load' = [NoLoad EXCEPT !.v = v] BY <1>5 DEF Select
  <2>2. load'.v = v /\ load'.read = FALSE BY <2>1 DEF NoLoad
  <2>3. ~Writing(v) /\ (v # None => v # current.v) BY <1>5 DEF Calm, Select
  <2>4. ~Writing(v)' BY <2>3 DEF Writing
  <2>5. LoadAlone' BY <1>3, <2>2, <2>3, <2>4 DEF LoadAlone
  <2>6. LoadRow' BY <2>2 DEF LoadRow
  <2>7. WriterStored' BY <1>2, <2>4 DEF WriterStored, Writer, Writing
  <2>8. Steady' BY <1>2, <1>3, <2>3 DEF Steady
  <2>. QED BY <2>5, <2>6, <2>7, <2>8
<1>. QED BY <1>4, <1>5

LEMMA SignedOutShown == ASSUME SignedOut PROVE ShownInv'
<1>1. /\ current'.v = None /\ load'.v = None /\ load'.read = FALSE
      /\ \A s \in Slot : task'[s].call = "none"
  BY NullTypes DEF SignedOut, NoLoad, Idle
<1>2. \A s \in Slot : task'[s].call \notin Writes BY <1>1 DEF Writes
<1>3. Apart' BY <1>2 DEF Apart
<1>4. LoadAlone' /\ LoadRow' BY <1>1 DEF LoadAlone, LoadRow
<1>5. WriterStored' BY <1>2 DEF WriterStored, Writer
<1>6. Steady' BY <1>1 DEF Steady
<1>. QED BY <1>3, <1>4, <1>5, <1>6 DEF ShownInv, Shown

-----------------------------------------------------------------------------
\* Steps of the page.

LEMMA WriterSelects == ASSUME TypesInv, NEW s \in Slot, Writer(s) PROVE selection \in Version /\ selection # None
<1>1. task[s].v \in Version BY WritesText DEF TypesInv, TaskTypes, Writer
<1>. QED BY <1>1, WorkbenchAssumption DEF Writer

LEMMA ShownBefore ==
  ASSUME ScreenInv, crossed \subseteq crossed', Click \/ Fail \/ faults' = faults,
         Calm /\ ~Fail /\ Shown /\ Calm' => Shown'
  PROVE  ShownInv'
<1>. SUFFICES ASSUME Calm' PROVE Shown' BY DEF ShownInv, Shown
<1>1. FlagTypes BY DEF ScreenInv, AllInv, PageInv, TypesInv
<1>2. Calm /\ ~Fail BY <1>1, CalmBefore
<1>3. Shown BY <1>2 DEF ScreenInv, ShownInv, Shown
<1>. QED BY <1>2, <1>3

\* A request that writes is for the version on the screen, which nothing else writes.
LEMMA BeginShown ==
  ASSUME TypesInv, Shown, Calm', NEW s \in Slot, NEW t, Begins(s, t), UNCHANGED <<server, editor, nav, view>>,
         t.call \in Writes => t.v = current.v /\ current.status = StatusBefore(t.call)
  PROVE  Shown'
<1>1. t.call \in Writes => ~Writing(current.v) BY DEF Begins, Calm
<1>2. UNCHANGED <<row, current, saved, selection, load, assets>> BY DEF server, editor, nav, view
<1>3. task[s].call \notin Writes BY DEF Begins, Idle, Writes
<1>4. Apart'
  <2>. SUFFICES ASSUME NEW r \in Slot, NEW q \in Slot, task'[r].call \in Writes, task'[q].call \in Writes,
                       task'[r].v = task'[q].v
                PROVE  r = q
    BY DEF Apart
  <2>1. CASE r # s /\ q # s BY <2>1 DEF Shown, Apart, Begins
  <2>2. CASE r = s /\ q # s BY <1>1, <2>2 DEF Begins, Writing
  <2>3. CASE r # s /\ q = s BY <1>1, <2>3 DEF Begins, Writing
  <2>. QED BY <2>1, <2>2, <2>3
<1>5. LoadAlone'
  <2>. SUFFICES ASSUME load.v # None, NEW r \in Slot, task'[r].v = load.v, task'[r].call \in Writes PROVE FALSE
    BY <1>2 DEF Shown, LoadAlone, Writing
  <2>1. load.v # current.v /\ ~Writing(load.v) BY DEF Shown, LoadAlone
  <2>. QED BY <2>1 DEF Begins, Writing
<1>6. LoadRow' BY <1>2 DEF Shown, LoadRow
<1>7. WriterStored'
  <2>. SUFFICES ASSUME NEW r \in Slot, Writer(r)'
                PROVE  /\ (current.v = selection => current.status = StatusBefore(task[r].call))'
                       /\ (task[r].answer # "ok" => Says(selection, StatusBefore(task[r].call), saved, assets))'
                       /\ (task[r].answer = "ok" /\ task[r].call # "delete" =>
                             Says(selection, StatusAfter(task[r].call), TextAfter(task[r]), FilesAfter(task[r])))'
    BY DEF WriterStored
  <2>1. CASE r # s
    <3>1. task'[r] = task[r] BY <2>1 DEF Begins
    <3>2. Writer(r) BY <1>2, <3>1 DEF Writer
    <3>. QED BY <1>2, <3>1, <3>2 DEF Shown, WriterStored, Says, TextAfter, FilesAfter
  <2>2. CASE r = s
    <3>1. /\ task'[s].call = t.call /\ task'[s].v = t.v /\ task'[s].answer = "waiting"
          /\ t.call \in Writes /\ selection = t.v
      BY <1>2, <2>2 DEF Begins, Writer
    <3>2. selection = current.v /\ current.status = StatusBefore(t.call) BY <3>1
    <3>3. Settled BY <1>1, <3>1, <3>2 DEF Settled, Writer, Writing
    <3>4. current.status # "none" BY <3>2 DEF StatusBefore
    <3>5. current.v # None BY <3>4, EditedVersion, WorkbenchAssumption
    <3>6. Says(selection, current.status, saved, assets) BY <3>2, <3>3, <3>5 DEF Shown, Steady
    <3>. QED BY <1>2, <2>2, <3>1, <3>2, <3>6 DEF Says
  <2>. QED BY <2>1, <2>2
<1>8. Steady'
  <2>1. Settled' => Settled BY <1>2, <1>3 DEF Settled, Writer, Begins
  <2>. QED BY <1>2, <2>1 DEF Shown, Steady, Says
<1>. QED BY <1>4, <1>5, <1>6, <1>7, <1>8 DEF Shown

LEMMA SameShown ==
  ASSUME Shown, UNCHANGED <<server, task, current, saved, assets, selection>>, load' = load \/ load' = NoLoad
  PROVE  Shown'
<1>1. NoNewWrites /\ SameWriters BY DEF NoNewWrites, SameWriters
<1>2. load'.v \in {load.v, None} /\ (load' = load \/ load'.read = FALSE) BY NullTypes
<1>3. Apart' BY <1>1, ApartGoesOn DEF Shown
<1>4. LoadAlone' BY <1>1, <1>2, LoadGoesOn DEF Shown
<1>5. LoadRow' BY <1>2, LoadRowGoesOn DEF Shown
<1>6. WriterStored' /\ Steady' BY <1>1, ScreenGoesOn DEF Shown
<1>. QED BY <1>3, <1>4, <1>5, <1>6 DEF Shown

LEMMA AuthenticatedShown == ASSUME ScreenInv, NEW s \in Slot, Authenticated(s) PROVE ShownInv'
<1>. DEFINE t == [Idle EXCEPT !.op = "list", !.call = "list"]
<1>0. TypesInv BY DEF ScreenInv, AllInv, PageInv
<1>1. /\ UNCHANGED <<server, known, editor, nav, view, busy, locks, effects, budgets>>
      /\ UNCHANGED <<task, crossed>> \/ Request(s, t)
  BY DEF Authenticated
<1>2. t \in Task /\ t.call = "list" BY NullTypes, Names DEF Task
<1>. HIDE DEF t
<1>3. UNCHANGED <<task, crossed>> \/ Begins(s, t) BY <1>0, <1>1, <1>2, RequestBegins
<1>4. crossed \subseteq crossed' /\ faults' = faults BY <1>1, <1>3 DEF Begins, budgets
<1>5. ASSUME Shown, Calm' PROVE Shown'
  <2>1. CASE UNCHANGED <<task, crossed>> BY <1>1, <1>5, <2>1, SameShown DEF editor, nav, view
  <2>2. CASE Begins(s, t)
    <3>1. t.call \notin Writes BY <1>2 DEF Writes
    <3>. QED BY <1>0, <1>1, <1>5, <2>2, <3>1, BeginShown
  <2>. QED BY <1>3, <2>1, <2>2
<1>. QED BY <1>4, <1>5, ShownBefore

LEMMA ClickStepShown == ASSUME ScreenInv, NEW s \in Slot, ClickStep(s) PROVE ShownInv'
<1>0. TypesInv BY DEF ScreenInv, AllInv, PageInv
<1>1. Click /\ UNCHANGED <<server, user, known, editor, nav, view, effects>> BY DEF ClickStep
<1>2. CASE UNCHANGED <<task, crossed>>
  <2>1. Shown => Shown' BY <1>1, <1>2, SameShown DEF editor, nav, view
  <2>. QED BY <1>1, <1>2, <2>1, ShownBefore
<1>3. ASSUME NEW t, Clicked(s, t) PROVE ShownInv'
  <2>1. /\ t \in Task /\ Request(s, t)
        /\ t.call \in Writes => t.v = current.v /\ current.status = StatusBefore(t.call)
    BY <1>3 DEF Clicked
  <2>2. Begins(s, t) BY <1>0, <2>1, RequestBegins
  <2>3. crossed \subseteq crossed' BY <2>2 DEF Begins
  <2>4. Shown /\ Calm' => Shown' BY <1>0, <1>1, <2>1, <2>2, BeginShown
  <2>. QED BY <1>1, <2>3, <2>4, ShownBefore
<1>. QED BY <1>2, <1>3 DEF ClickStep

LEMMA OpenShown == ASSUME ScreenInv, NEW v \in Version, Click, Open(v) PROVE ShownInv'
<1>0. TypesInv BY DEF ScreenInv, AllInv, PageInv
<1>1. /\ Select(v, busy) /\ (current' = current \/ current' = NoVersion)
      /\ UNCHANGED <<server, saved, task>>
  BY DEF Open
<1>2. crossed \subseteq crossed' BY <1>1 DEF Select
<1>3. NoNewWrites /\ SameWriters BY <1>1 DEF NoNewWrites, SameWriters
<1>4. ASSUME Shown, Calm' PROVE Shown'
  <2>1. LoadAlone' /\ LoadRow' /\ WriterStored' /\ Steady'
    BY <1>0, <1>1, <1>3, <1>4, SelectShown DEF Shown
  <2>2. Apart' BY <1>3, <1>4, ApartGoesOn DEF Shown
  <2>. QED BY <2>1, <2>2 DEF Shown
<1>. QED BY <1>2, <1>4, ShownBefore

LEMMA SelectTemplateShown == ASSUME ScreenInv, NEW sl \in Slug, SelectTemplate(sl) PROVE ShownInv'
<1>. DEFINE n == Newest(known.row, sl)
<1>0. TypesInv BY DEF ScreenInv, AllInv, PageInv
<1>1. Click /\ current' = NoVersion /\ UNCHANGED <<server, task>> BY DEF SelectTemplate
<1>2. NoNewWrites /\ SameWriters BY <1>1 DEF NoNewWrites, SameWriters
<1>3. CASE n > 0
  <2>1. Select(<<sl, n>>, busy) /\ UNCHANGED saved BY <1>3 DEF SelectTemplate
  <2>2. <<sl, n>> \in Version BY <1>0, <1>3, NewestNumber DEF TypesInv, KnownTypes
  <2>. HIDE DEF n
  <2>3. crossed \subseteq crossed' BY <2>1 DEF Select
  <2>4. ASSUME Shown, Calm' PROVE Shown'
    <3>1. LoadAlone' /\ LoadRow' /\ WriterStored' /\ Steady'
      BY <1>0, <1>1, <1>2, <2>1, <2>2, <2>4, SelectShown DEF Shown
    <3>2. Apart' BY <1>2, <2>4, ApartGoesOn DEF Shown
    <3>. QED BY <3>1, <3>2 DEF Shown
  <2>. QED BY <1>1, <2>3, <2>4, ShownBefore
<1>4. CASE ~(n > 0)
  <2>1. selection' = None /\ load' = NoLoad /\ UNCHANGED crossed BY <1>4 DEF SelectTemplate
  <2>2. current'.v = None /\ load'.v = None /\ load'.read = FALSE BY <1>1, <2>1, NullTypes
  <2>3. ASSUME Shown PROVE Shown'
    <3>1. Apart' BY <1>2, <2>3, ApartGoesOn DEF Shown
    <3>2. LoadAlone' /\ LoadRow' BY <2>2 DEF LoadAlone, LoadRow
    <3>3. \A r \in Slot : task[r].call \in Writes => task[r].v # None
      BY <1>0, WritesText, WorkbenchAssumption DEF TypesInv, TaskTypes
    <3>4. WriterStored' BY <1>1, <2>1, <3>3 DEF WriterStored, Writer
    <3>5. Steady' BY <2>2 DEF Steady
    <3>. QED BY <3>1, <3>2, <3>4, <3>5 DEF Shown
  <2>. QED BY <1>1, <2>1, <2>3, ShownBefore
<1>. QED BY <1>3, <1>4

LEMMA ReadVersionShown == ASSUME ScreenInv, ReadVersion PROVE ShownInv'
<1>1. /\ load' = [load EXCEPT !.read = TRUE, !.row = row[load.v]] /\ UNCHANGED <<server, selection, current, saved, assets>>
      /\ UNCHANGED <<task, crossed, faults>>
  BY DEF ReadVersion, editor, view, budgets
<1>2. load'.v = load.v /\ load'.row = row[load.v]
  BY <1>1 DEF ScreenInv, AllInv, PageInv, TypesInv, NavTypes
<1>3. NoNewWrites /\ SameWriters BY <1>1 DEF NoNewWrites, SameWriters
<1>4. ASSUME Shown PROVE Shown'
  <2>1. Apart' BY <1>3, <1>4, ApartGoesOn DEF Shown
  <2>2. LoadAlone' BY <1>1, <1>2, <1>3, <1>4, LoadGoesOn DEF Shown
  <2>3. LoadRow' BY <1>1, <1>2 DEF LoadRow, server
  <2>4. WriterStored' /\ Steady' BY <1>1, <1>3, <1>4, ScreenGoesOn DEF Shown
  <2>. QED BY <2>1, <2>2, <2>3, <2>4 DEF Shown
<1>. QED BY <1>1, <1>4, ShownBefore

\* What arrives is what is stored, and nothing writes it.
LEMMA LoadArrivesShown == ASSUME ScreenInv, LoadArrives PROVE ShownInv'
<1>1. /\ load.v # None /\ load.v = selection /\ load.read /\ load.row.status # "none"
      /\ current' = [v |-> load.v, status |-> load.row.status] /\ saved' = load.row.text /\ assets' = load.row.files
      /\ load' = NoLoad /\ UNCHANGED <<server, selection, task, crossed, faults>>
  BY DEF LoadArrives, ScreenInv, AllInv, PageInv, WorkbenchInv, LoadOk, budgets
<1>2. UNCHANGED row BY <1>1 DEF server
<1>3. load'.v = None /\ load'.read = FALSE BY <1>1, NullTypes
<1>4. ASSUME Shown PROVE Shown'
  <2>1. row[selection] = load.row /\ ~Writing(selection) BY <1>1, <1>4 DEF Shown, LoadRow, LoadAlone
  <2>2. Apart' BY <1>1, <1>4 DEF Shown, Apart
  <2>3. LoadAlone' /\ LoadRow' BY <1>3 DEF LoadAlone, LoadRow
  <2>4. WriterStored' BY <1>1, <2>1 DEF WriterStored, Writer, Writing
  <2>5. Steady' BY <1>1, <1>2, <2>1 DEF Steady, Says
  <2>. QED BY <2>2, <2>3, <2>4, <2>5 DEF Shown
<1>. QED BY <1>1, <1>4, ShownBefore

LEMMA QuietShown ==
  ASSUME ScreenInv, \/ LoadFails \/ AnalysisAnswers \/ Compile \/ CompileAnswers
                    \/ \E t \in Typed : Type(t)
                    \/ UNCHANGED vars
  PROVE  ShownInv'
<1>1. /\ UNCHANGED <<server, task, current, saved, assets, selection, crossed>> /\ (load' = load \/ load' = NoLoad)
      /\ Click \/ Fail \/ faults' = faults
  BY DEF LoadFails, AnalysisAnswers, Compile, CompileAnswers, Type, vars, editor, nav, view, budgets
<1>. QED BY <1>1, SameShown, ShownBefore

-----------------------------------------------------------------------------
\* The server: a request changes the version it writes, and no other that exists.

LEMMA OtherRows ==
  ASSUME ServerTypes, ServerStored, NEW t, Sent(t), Performs(t), NEW v \in Version,
         row[v].status # "none", ~(t.call \in Writes /\ v = t.v)
  PROVE  row'[v] = row[v]
<1>. DEFINE a == Affected(t)
<1>. DEFINE w == Written(t)
<1>1. /\ a \in Version /\ t.v \in Version /\ Admissible(t)
      /\ t.call = "create" => row[a].status = "none"
      /\ t.call # "create" => a = t.v
  BY CreatedTypes, SentVersion DEF Performs, Affected
<1>2. row'[v] = IF v = a THEN w ELSE row[v] BY DEF Performs, Perform, ServerTypes
<1>3. /\ t.call \in {"archive", "restore"} => w = row[t.v]
      /\ t.call \in {"approve", "publish", "upload", "unload", "archive", "restore", "put", "delete", "create", "template"}
  BY <1>1, WrittenFacts
<1>4. t.call = "template" => row[t.v].status = "none"
  <2>1. t.call = "template" => template[SlugOf(t.v)] = "none" /\ t.v = <<SlugOf(t.v), 1>> BY <1>1 DEF Admissible, Sent, TaskOk
  <2>. QED BY <1>1, <2>1, VersionParts DEF ServerStored
<1>. HIDE DEF a, w
<1>. SUFFICES ASSUME v = a PROVE w = row[v] BY <1>2
<1>5. t.call # "create" /\ v = t.v BY <1>1
<1>6. t.call \in {"archive", "restore"} BY <1>3, <1>4, <1>5 DEF Writes
<1>. QED BY <1>3, <1>5, <1>6

LEMMA WrittenRow ==
  ASSUME ServerTypes, NEW t, Sent(t), Performs(t), t.call \in Writes \ {"delete"}
  PROVE  /\ row[t.v].status = StatusBefore(t.call) /\ row'[t.v].status = StatusAfter(t.call)
         /\ row'[t.v].text = IF t.call = "put" THEN Completed[t.text] ELSE row[t.v].text
         /\ row'[t.v].files = IF t.call = "upload" THEN row[t.v].files \cup {t.file}
                              ELSE IF t.call = "unload" THEN row[t.v].files \ {t.file} ELSE row[t.v].files
<1>. DEFINE r == row[t.v]
<1>. DEFINE w == Written(t)
<1>1. t.v \in Version /\ r \in Row /\ Admissible(t) /\ Affected(t) = t.v
  BY SentVersion DEF ServerTypes, Performs, Affected, Writes
<1>2. row'[t.v] = w BY <1>1 DEF Performs, Perform, ServerTypes
<1>3. CASE t.call = "put"
  <2>1. w = [r EXCEPT !.text = Completed[t.text]] /\ r.status = "draft" BY <1>1, <1>3 DEF Written, Admissible, Current
  <2>. QED BY <1>1, <1>2, <1>3, <2>1 DEF Row, StatusBefore, StatusAfter
<1>4. CASE t.call = "approve"
  <2>1. w = [r EXCEPT !.status = "approved"] /\ r.status = "draft" BY <1>1, <1>4 DEF Written, Admissible, Current
  <2>. QED BY <1>1, <1>2, <1>4, <2>1 DEF Row, StatusBefore, StatusAfter
<1>5. CASE t.call = "publish"
  <2>1. w = [r EXCEPT !.status = "published"] /\ r.status = "approved" BY <1>1, <1>5 DEF Written, Admissible, Current
  <2>. QED BY <1>1, <1>2, <1>5, <2>1 DEF Row, StatusBefore, StatusAfter
<1>6. CASE t.call = "upload"
  <2>1. w = [r EXCEPT !.files = @ \cup {t.file}] /\ r.status = "draft" BY <1>1, <1>6 DEF Written, Admissible, Current
  <2>. QED BY <1>1, <1>2, <1>6, <2>1 DEF Row, StatusBefore, StatusAfter
<1>7. CASE t.call = "unload"
  <2>1. w = [r EXCEPT !.files = @ \ {t.file}] /\ r.status = "draft" BY <1>1, <1>7 DEF Written, Admissible, Current
  <2>. QED BY <1>1, <1>2, <1>7, <2>1 DEF Row, StatusBefore, StatusAfter
<1>. QED BY <1>3, <1>4, <1>5, <1>6, <1>7 DEF Writes

\* Every status a write needs or leaves is one of a version that exists.
LEMMA StatusesExist == \A call : StatusBefore(call) # "none" /\ StatusAfter(call) # "none"
BY DEF StatusBefore, StatusAfter

LEMMA RefusedShown ==
  ASSUME Shown, NEW s \in Slot, task[s].answer = "waiting", Replies(s, "error"),
         UNCHANGED <<server, current, saved, assets, selection, load>>
  PROVE  Shown'
<1>1. UNCHANGED row BY DEF server
<1>2. /\ \A r \in Slot : task'[r].call = task[r].call /\ task'[r].v = task[r].v
      /\ \A r \in Slot : r # s => task'[r] = task[r]
      /\ task'[s].answer = "error"
  BY DEF Replies
<1>3. NoNewWrites BY <1>2 DEF NoNewWrites
<1>4. Apart' BY <1>3, ApartGoesOn DEF Shown
<1>5. LoadAlone' BY <1>3, LoadGoesOn DEF Shown
<1>6. LoadRow' BY LoadRowGoesOn DEF Shown
<1>7. WriterStored'
  <2>. SUFFICES ASSUME NEW r \in Slot, Writer(r)'
                PROVE  /\ (current.v = selection => current.status = StatusBefore(task[r].call))'
                       /\ (task[r].answer # "ok" => Says(selection, StatusBefore(task[r].call), saved, assets))'
                       /\ (task[r].answer = "ok" /\ task[r].call # "delete" =>
                             Says(selection, StatusAfter(task[r].call), TextAfter(task[r]), FilesAfter(task[r])))'
    BY DEF WriterStored
  <2>1. Writer(r) BY <1>2 DEF Writer
  <2>2. CASE r # s
    <3>1. task'[r] = task[r] BY <1>2, <2>2
    <3>. QED BY <1>1, <2>1, <3>1 DEF Shown, WriterStored, Says, TextAfter, FilesAfter
  <2>3. CASE r = s BY <1>1, <1>2, <2>1, <2>3 DEF Shown, WriterStored, Says
  <2>. QED BY <2>2, <2>3
<1>8. Steady'
  <2>1. Settled' => Settled BY <1>2 DEF Settled, Writer
  <2>. QED BY <1>1, <2>1 DEF Shown, Steady, Says
<1>. QED BY <1>4, <1>5, <1>6, <1>7, <1>8 DEF Shown

LEMMA PerformedShown ==
  ASSUME TypesInv, LoadOk, ServerStored, Shown, NEW s \in Slot, Sent(task[s]), Replies(s, "ok"), Performs(task[s]),
         UNCHANGED <<current, saved, assets, selection, load>>
  PROVE  Shown'
<1>. DEFINE t == task[s]
<1>1. /\ \A r \in Slot : task'[r].call = task[r].call /\ task'[r].v = task[r].v
      /\ \A r \in Slot : r # s => task'[r] = task[r]
      /\ task'[s].answer = "ok" /\ task'[s].text = t.text /\ task'[s].file = t.file /\ t.answer = "waiting"
  BY DEF Replies, Sent
<1>2. NoNewWrites BY <1>1 DEF NoNewWrites
<1>3. ASSUME NEW v \in Version, row[v].status # "none", ~(t.call \in Writes /\ v = t.v) PROVE row'[v] = row[v]
  BY <1>3, OtherRows DEF TypesInv
<1>4. Apart' BY <1>2, ApartGoesOn DEF Shown
<1>5. LoadAlone' BY <1>2, LoadGoesOn DEF Shown
<1>6. LoadRow'
  <2>. SUFFICES ASSUME load.read, load.row.status # "none" PROVE row'[load.v] = load.row BY DEF LoadRow
  <2>1. row[load.v] = load.row /\ load.v # None /\ ~Writing(load.v) BY DEF Shown, LoadRow, LoadAlone, LoadOk
  <2>2. load.v \in Version BY <2>1 DEF TypesInv, NavTypes
  <2>3. ~(t.call \in Writes /\ load.v = t.v) BY <2>1 DEF Writing
  <2>. QED BY <1>3, <2>1, <2>2, <2>3
<1>7. WriterStored'
  <2>. SUFFICES ASSUME NEW r \in Slot, Writer(r)'
                PROVE  /\ (current.v = selection => current.status = StatusBefore(task[r].call))'
                       /\ (task[r].answer # "ok" => Says(selection, StatusBefore(task[r].call), saved, assets))'
                       /\ (task[r].answer = "ok" /\ task[r].call # "delete" =>
                             Says(selection, StatusAfter(task[r].call), TextAfter(task[r]), FilesAfter(task[r])))'
    BY DEF WriterStored
  <2>1. Writer(r) BY <1>1 DEF Writer
  <2>2. selection \in Version BY <2>1, WriterSelects
  <2>3. CASE r # s
    <3>1. task'[r] = task[r] BY <1>1, <2>3
    <3>2. ~(t.call \in Writes /\ selection = t.v) BY <2>1, <2>3 DEF Shown, Apart, Writer
    <3>3. row[selection].status # "none" => row'[selection] = row[selection] BY <1>3, <2>2, <3>2
    <3>. QED BY <2>1, <3>1, <3>3, StatusesExist DEF Shown, WriterStored, Says, TextAfter, FilesAfter
  <2>4. CASE r = s
    <3>1. /\ selection = t.v /\ t.call \in Writes /\ Says(selection, StatusBefore(t.call), saved, assets)
          /\ current.v = selection => current.status = StatusBefore(t.call)
      BY <1>1, <2>1, <2>4 DEF Shown, WriterStored, Writer
    <3>2. ASSUME t.call # "delete"
          PROVE  Says(selection, StatusAfter(task[s].call), TextAfter(task[s]), FilesAfter(task[s]))'
      <4>1. /\ row'[t.v].status = StatusAfter(t.call)
            /\ row'[t.v].text = IF t.call = "put" THEN Completed[t.text] ELSE row[t.v].text
            /\ row'[t.v].files = IF t.call = "upload" THEN row[t.v].files \cup {t.file}
                                 ELSE IF t.call = "unload" THEN row[t.v].files \ {t.file} ELSE row[t.v].files
        BY <3>1, <3>2, WrittenRow DEF TypesInv
      <4>. QED BY <1>1, <3>1, <4>1 DEF Says, TextAfter, FilesAfter
    <3>. QED BY <1>1, <2>4, <3>1, <3>2
  <2>. QED BY <2>3, <2>4
<1>8. Steady'
  <2>. SUFFICES ASSUME current.v # None, current.v = selection, Settled'
                PROVE  Says(selection, current.status, saved, assets)'
    BY DEF Shown, Steady
  <2>1. ~Writer(s) BY <1>1 DEF Settled, Writer
  <2>2. Settled BY <1>1 DEF Settled, Writer
  <2>3. Says(selection, current.status, saved, assets) /\ current.status # "none" BY <2>2 DEF Shown, Steady
  <2>4. selection \in Version BY DEF TypesInv, NavTypes
  <2>5. ~(t.call \in Writes /\ selection = t.v) BY <2>1 DEF Writer
  <2>6. row'[selection] = row[selection] BY <1>3, <2>3, <2>4, <2>5 DEF Says
  <2>. QED BY <2>3, <2>6 DEF Says
<1>. QED BY <1>4, <1>5, <1>6, <1>7, <1>8 DEF Shown

\* A request that does not fail is performed or refused.
LEMMA ServerShown == ASSUME ScreenInv, NEW s \in Slot, Serve(s) \/ Disrupt(s) PROVE ShownInv'
<1>. DEFINE t == task[s]
<1>0. TypesInv /\ LoadOk /\ ServerStored
  BY DEF ScreenInv, AllInv, PageInv, WorkbenchInv, StoredInv
<1>1. /\ Sent(t) /\ UNCHANGED <<current, saved, assets, selection, load>> /\ crossed \subseteq crossed'
      /\ Fail \/ faults' = faults
  BY <1>0, ServerSteps DEF editor, nav, view, budgets
<1>2. ASSUME ~Fail
      PROVE  \/ Replies(s, "error") /\ UNCHANGED server
             \/ Replies(s, "ok") /\ Performs(t)
  BY <1>0, <1>2, ServerSteps
<1>3. ~Fail /\ Shown => Shown'
  BY <1>0, <1>1, <1>2, RefusedShown, PerformedShown DEF Sent
<1>. QED BY <1>1, <1>3, ShownBefore

-----------------------------------------------------------------------------
\* Answers: one about the version that is selected is adopted; others leave it alone.

OthersStay(s) == \A r \in Slot : r # s => task'[r] = task[r]

LEMMA AdoptsShown ==
  ASSUME TypesInv, Shown, NEW s \in Slot, Writer(s), task[s].answer = "ok", task[s].call # "delete", OthersStay(s),
         UNCHANGED <<server, selection, load>>,
         current' = current \/ current'.v = selection,
         current'.v = selection => current'.status = StatusAfter(task[s].call),
         saved' = TextAfter(task[s]), assets' = FilesAfter(task[s]),
         task'[s].call \in Writes =>
           /\ task'[s].v = task[s].v /\ task'[s].answer # "ok"
           /\ StatusBefore(task'[s].call) = StatusAfter(task[s].call)
  PROVE  Shown'
<1>. DEFINE t == task[s]
<1>1. /\ Says(selection, StatusAfter(t.call), saved', assets') /\ t.call \in Writes /\ t.v = selection
      /\ UNCHANGED row
  BY DEF Shown, WriterStored, Writer, server
<1>2. NoNewWrites BY <1>1 DEF NoNewWrites, OthersStay
<1>3. \A r \in Slot : Writer(r)' => r = s BY <1>1 DEF Shown, Apart, Writer, OthersStay
<1>4. Apart' BY <1>2, ApartGoesOn DEF Shown
<1>5. LoadAlone' BY <1>1, <1>2, LoadGoesOn DEF Shown
<1>6. LoadRow' BY LoadRowGoesOn DEF Shown
<1>7. WriterStored' BY <1>1, <1>3 DEF WriterStored, Writer, Says
<1>8. Steady'
  <2>1. current'.v # None => current'.status # "none" BY StatusesExist DEF Shown, Steady
  <2>2. current'.v = selection => Says(selection, current.status, saved, assets)' BY <1>1 DEF Says
  <2>. QED BY <2>1, <2>2 DEF Steady
<1>. QED BY <1>4, <1>5, <1>6, <1>7, <1>8 DEF Shown

LEMMA PassesShown ==
  ASSUME Shown, NEW s \in Slot, OthersStay(s), UNCHANGED <<server, selection, load, saved, assets>>,
         task[s].answer # "ok" \/ ~Writer(s),
         task'[s].call \in Writes => task[s].call \in Writes /\ task'[s].v = task[s].v /\ ~Writer(s),
         \/ current' = current
         \/ task[s].call \in Writes /\ current'.v = task[s].v /\ current'.v # selection /\ current'.status # "none"
  PROVE  Shown'
<1>1. NoNewWrites BY DEF NoNewWrites, OthersStay
<1>2. SameWriters BY DEF SameWriters, OthersStay, Writer
<1>3. Apart' BY <1>1, ApartGoesOn DEF Shown
<1>4. LoadAlone' BY <1>1, LoadGoesOn DEF Shown
<1>5. LoadRow' BY LoadRowGoesOn DEF Shown
<1>6. WriterStored' /\ Steady'
  <2>1. CASE current' = current BY <1>2, <2>1, ScreenGoesOn DEF Shown
  <2>2. CASE current'.v # selection /\ current'.status # "none"
    <3>1. UNCHANGED row BY DEF server
    <3>2. WriterStored'
      <4>. SUFFICES ASSUME NEW r \in Slot, Writer(r)'
                    PROVE  /\ (current.v = selection => current.status = StatusBefore(task[r].call))'
                           /\ (task[r].answer # "ok" => Says(selection, StatusBefore(task[r].call), saved, assets))'
                           /\ (task[r].answer = "ok" /\ task[r].call # "delete" =>
                                 Says(selection, StatusAfter(task[r].call), TextAfter(task[r]), FilesAfter(task[r])))'
        BY DEF WriterStored
      <4>1. task'[r] = task[r] BY <1>2 DEF SameWriters
      <4>2. Writer(r) BY <4>1 DEF Writer
      <4>. QED BY <2>2, <3>1, <4>1, <4>2 DEF Shown, WriterStored, Says, TextAfter, FilesAfter
    <3>3. Steady' BY <2>2 DEF Steady
    <3>. QED BY <3>2, <3>3
  <2>. QED BY <2>1, <2>2
<1>. QED BY <1>3, <1>4, <1>5, <1>6 DEF Shown

\* A handler that is answered goes on with a list, or ends.
LEMMA GoesOnWrites ==
  ASSUME NEW s \in Slot, GoesOn(s)
  PROVE  OthersStay(s) /\ (task'[s].call \in Writes => task'[s].call = task[s].call /\ task[s].op \in {"upload", "unload"})
BY DEF GoesOn, OthersStay, Idle, Writes

LEMMA SaveAnsweredShown == ASSUME ScreenInv, NEW s \in Slot, SaveAnswered(s) PROVE ShownInv'
<1>. DEFINE t == task[s]
<1>0. TypesInv BY DEF ScreenInv, AllInv, PageInv
<1>1. /\ t.op = "save" /\ t.answer = "ok" /\ UNCHANGED <<server, nav, view, budgets>> /\ crossed \subseteq crossed'
      /\ GoesOn(s)
  BY <1>0, OthersGoOn DEF SaveAnswered, Answered
<1>2. t.call = "put" BY <1>1 DEF ScreenInv, AllInv, PageInv, WorkbenchInv, SaveCalls, Saving
<1>3. OthersStay(s) /\ task'[s].call \notin Writes BY <1>1, GoesOnWrites
<1>4. UNCHANGED <<selection, load, assets, faults>> BY <1>1 DEF nav, view, budgets
<1>5. CASE selection # t.v
  <2>1. UNCHANGED <<current, saved>> BY <1>5 DEF SaveAnswered, editor
  <2>2. ~Writer(s) BY <1>5 DEF Writer
  <2>3. Shown => Shown' BY <1>1, <1>3, <1>4, <2>1, <2>2, PassesShown
  <2>. QED BY <1>1, <1>4, <2>3, ShownBefore
<1>6. CASE selection = t.v
  <2>1. current' = [v |-> t.v, status |-> "draft"] /\ saved' = Completed[t.text] BY <1>6 DEF SaveAnswered
  <2>2. Writer(s) BY <1>2, <1>6 DEF Writer, Writes
  <2>3. current'.v = selection /\ current'.status = StatusAfter(t.call) BY <1>2, <1>6, <2>1 DEF StatusAfter
  <2>4. saved' = TextAfter(t) /\ assets' = FilesAfter(t) BY <1>2, <1>4, <2>1 DEF TextAfter, FilesAfter
  <2>5. Shown => Shown' BY <1>0, <1>1, <1>2, <1>3, <1>4, <2>2, <2>3, <2>4, AdoptsShown
  <2>. QED BY <1>1, <1>4, <2>5, ShownBefore
<1>. QED BY <1>5, <1>6

LEMMA PublishAnsweredShown == ASSUME ScreenInv, NEW s \in Slot, PublishAnswered(s) PROVE ShownInv'
<1>. DEFINE t == task[s]
<1>0. TypesInv BY DEF ScreenInv, AllInv, PageInv
<1>1. /\ t.op = "publish" /\ t.answer = "ok" /\ crossed \subseteq crossed'
      /\ UNCHANGED <<server, selection, load, assets, faults>>
  BY DEF PublishAnswered, Answered, nav, budgets
<1>2. PICK call, to : /\ Then(s, call, to)
                      /\ \/ /\ t.call = "put" /\ call = "approve" /\ saved' = Completed[t.text]
                            /\ current' = [v |-> t.v, status |-> "draft"]
                            /\ selection # t.v /\ Writing(selection) => "over" \in crossed'
                         \/ /\ t.call = "approve" /\ call = "publish" /\ saved' = saved
                            /\ current' = [v |-> t.v, status |-> "approved"]
                         \/ /\ t.call = "publish" /\ call = "list" /\ saved' = saved
                            /\ current' = [v |-> t.v, status |-> "published"]
  BY DEF PublishAnswered
<1>3. /\ OthersStay(s) /\ task'[s].v = t.v /\ task'[s].answer = "waiting" /\ task'[s].call = call
  BY <1>0, <1>2, ThenStep DEF OthersStay
<1>4. /\ t.call \in Writes /\ t.call # "delete" /\ current'.v = t.v /\ current'.status = StatusAfter(t.call)
      /\ call \in Writes => StatusBefore(call) = StatusAfter(t.call)
  BY <1>2 DEF Writes, StatusAfter, StatusBefore
<1>5. CASE selection = t.v
  <2>1. Writer(s) BY <1>4, <1>5 DEF Writer
  <2>2. saved' = TextAfter(t) /\ assets' = FilesAfter(t) BY <1>1, <1>2 DEF TextAfter, FilesAfter
  <2>3. Shown => Shown' BY <1>0, <1>1, <1>3, <1>4, <1>5, <2>1, <2>2, AdoptsShown
  <2>. QED BY <1>1, <2>3, ShownBefore
<1>6. CASE selection # t.v
  <2>1. ~Writer(s) /\ current'.v # selection /\ current'.status # "none" BY <1>4, <1>6, StatusesExist DEF Writer
  <2>2. CASE saved' = saved
    <3>1. Shown => Shown' BY <1>1, <1>3, <1>4, <2>1, <2>2, PassesShown
    <3>. QED BY <1>1, <3>1, ShownBefore
  <2>3. CASE t.call = "put"
    <3>1. ASSUME Shown, Calm' PROVE Shown'
      <4>1. ~Writing(selection) BY <1>2, <1>6, <2>3, <3>1 DEF Calm
      <4>2. NoNewWrites BY <1>3, <1>4 DEF NoNewWrites, OthersStay
      <4>3. Apart' BY <3>1, <4>2, ApartGoesOn DEF Shown
      <4>4. LoadAlone' BY <1>1, <1>4, <3>1, <4>2, LoadGoesOn DEF Shown
      <4>5. LoadRow' BY <1>1, <3>1, LoadRowGoesOn DEF Shown
      <4>6. WriterStored' BY <1>1, <4>1, <4>2 DEF WriterStored, Writer, Writing, NoNewWrites
      <4>7. Steady' BY <1>1, <2>1 DEF Steady
      <4>. QED BY <4>3, <4>4, <4>5, <4>6, <4>7 DEF Shown
    <3>. QED BY <1>1, <3>1, ShownBefore
  <2>. QED BY <1>2, <2>2, <2>3
<1>. QED BY <1>5, <1>6

-----------------------------------------------------------------------------

LEMMA TransitionAnsweredShown == ASSUME ScreenInv, NEW s \in Slot, TransitionAnswered(s) PROVE ShownInv'
<1>. DEFINE t == task[s]
<1>0. TypesInv BY DEF ScreenInv, AllInv, PageInv
<1>1. /\ t.op = "transition" /\ t.answer = "ok" /\ GoesOn(s)
      /\ current' = [v |-> t.v, status |-> "published"]
      /\ UNCHANGED <<server, selection, load, saved, assets, crossed, faults>>
  BY <1>0, OthersGoOn DEF TransitionAnswered, Answered, nav, view, budgets
<1>2. t.call = "publish" BY <1>0, <1>1 DEF TypesInv, TaskTypes, TaskOk
<1>3. OthersStay(s) /\ task'[s].call \notin Writes BY <1>1, GoesOnWrites
<1>4. t.call \in Writes /\ current'.v = t.v /\ current'.status = StatusAfter(t.call)
  BY <1>1, <1>2 DEF Writes, StatusAfter
<1>5. CASE selection = t.v
  <2>1. Writer(s) /\ saved' = TextAfter(t) /\ assets' = FilesAfter(t)
    BY <1>1, <1>2, <1>4, <1>5 DEF Writer, TextAfter, FilesAfter
  <2>2. Shown => Shown' BY <1>0, <1>1, <1>2, <1>3, <1>4, <1>5, <2>1, AdoptsShown
  <2>. QED BY <1>1, <2>2, ShownBefore
<1>6. CASE selection # t.v
  <2>1. ~Writer(s) /\ current'.v # selection /\ current'.status # "none" BY <1>4, <1>6, StatusesExist DEF Writer
  <2>2. Shown => Shown' BY <1>1, <1>3, <1>4, <2>1, PassesShown
  <2>. QED BY <1>1, <2>2, ShownBefore
<1>. QED BY <1>5, <1>6

LEMMA ListNextShown == ASSUME ScreenInv, NEW s \in Slot, ListNext(s) PROVE ShownInv'
<1>0. TypesInv BY DEF ScreenInv, AllInv, PageInv
<1>1. /\ task[s].op \in {"create", "template", "archive"} /\ GoesOn(s)
      /\ UNCHANGED <<server, selection, load, current, saved, assets, crossed, faults>>
  BY <1>0, OthersGoOn DEF ListNext, Answered, editor, nav, view, budgets
<1>2. ~Writer(s) BY <1>0, <1>1 DEF Writer, Writes, TypesInv, TaskTypes, TaskOk, DraftWrites
<1>3. OthersStay(s) /\ task'[s].call \notin Writes BY <1>1, GoesOnWrites
<1>4. Shown => Shown' BY <1>1, <1>2, <1>3, PassesShown
<1>. QED BY <1>1, <1>4, ShownBefore

LEMMA DiscardAnsweredShown == ASSUME ScreenInv, NEW s \in Slot, DiscardAnswered(s) PROVE ShownInv'
<1>. DEFINE t == task[s]
<1>0. TypesInv BY DEF ScreenInv, AllInv, PageInv
<1>1. /\ t.op = "discard" /\ current' = NoVersion /\ Select(t.to, busy) /\ UNCHANGED <<server, saved, faults>>
      /\ GoesOn(s)
  BY <1>0, OthersGoOn DEF DiscardAnswered, Answered, budgets
<1>2. t.to \in Version \cup {None} BY <1>0, <1>1, AnsweredVersion
<1>3. OthersStay(s) /\ task'[s].call \notin Writes BY <1>1, GoesOnWrites
<1>4. NoNewWrites /\ \A r \in Slot : task'[r].call \in Writes => task'[r] = task[r]
  BY <1>3 DEF NoNewWrites, OthersStay
<1>5. crossed \subseteq crossed' BY <1>1 DEF Select
<1>6. ASSUME Shown, Calm' PROVE Shown'
  <2>1. LoadAlone' /\ LoadRow' /\ WriterStored' /\ Steady'
    BY <1>0, <1>1, <1>2, <1>4, <1>6, SelectShown DEF Shown
  <2>2. Apart' BY <1>4, <1>6, ApartGoesOn DEF Shown
  <2>. QED BY <2>1, <2>2 DEF Shown
<1>. QED BY <1>1, <1>5, <1>6, ShownBefore

LEMMA AssetAnsweredShown == ASSUME ScreenInv, NEW s \in Slot, AssetAnswered(s) PROVE ShownInv'
<1>. DEFINE t == task[s]
<1>0. TypesInv BY DEF ScreenInv, AllInv, PageInv
<1>1. /\ t.op \in {"upload", "unload"} /\ t.answer = "ok" /\ GoesOn(s)
      /\ UNCHANGED <<server, selection, load, current, saved, crossed, faults>>
      /\ assets' = (IF selection # t.v THEN assets
                    ELSE IF t.op = "upload" THEN assets \cup {t.file} ELSE assets \ {t.file})
  BY <1>0, AssetsGoOn DEF AssetAnswered, Answered, editor, nav, budgets
<1>2. t.call = t.op BY <1>0, <1>1 DEF TypesInv, TaskTypes, TaskOk
<1>3. /\ OthersStay(s)
      /\ task'[s].call \in Writes =>
           task'[s].call = t.call /\ task'[s].v = t.v /\ task'[s].answer = "waiting"
  <2>1. Idle.call \notin Writes BY DEF Idle, Writes
  <2>2. OthersStay(s) /\ (task'[s].call \in Writes => task'[s].call = t.call) BY <1>1, GoesOnWrites
  <2>. QED BY <1>1, <2>1, <2>2 DEF GoesOn
<1>4. t.call \in Writes /\ t.call # "delete" /\ StatusBefore(t.call) = "draft" /\ StatusAfter(t.call) = "draft"
  BY <1>1, <1>2 DEF Writes, StatusBefore, StatusAfter
<1>5. CASE selection = t.v
  <2>1. Writer(s) /\ saved' = TextAfter(t) /\ assets' = FilesAfter(t)
    BY <1>1, <1>2, <1>4, <1>5 DEF Writer, TextAfter, FilesAfter
  <2>2. ASSUME Shown PROVE Shown'
    <3>1. current.v = selection => current.status = StatusAfter(t.call)
      BY <1>4, <2>1, <2>2 DEF Shown, WriterStored
    <3>. QED BY <1>0, <1>1, <1>3, <1>4, <2>1, <2>2, <3>1, AdoptsShown
  <2>. QED BY <1>1, <2>2, ShownBefore
<1>6. CASE selection # t.v
  <2>1. ~Writer(s) /\ assets' = assets BY <1>1, <1>6 DEF Writer
  <2>2. Shown => Shown' BY <1>1, <1>3, <1>4, <2>1, PassesShown
  <2>. QED BY <1>1, <2>2, ShownBefore
<1>. QED BY <1>5, <1>6

\* A version whose publication failed is approved, and shown as such.
LEMMA FailedShown == ASSUME ScreenInv, NEW s \in Slot, Failed(s) PROVE ShownInv'
<1>. DEFINE t == task[s]
<1>0. TypesInv BY DEF ScreenInv, AllInv, PageInv
<1>1. /\ t.answer = "error" /\ UNCHANGED <<server, selection, load, saved, assets, crossed, faults>> /\ GoesOn(s)
      /\ \/ t.op = "publish" /\ t.call = "publish" /\ current' = [v |-> t.v, status |-> "approved"]
         \/ current' = current /\ Ends(s)
  BY <1>0, OthersGoOn DEF Failed, nav, view, budgets
<1>2. OthersStay(s) /\ (task'[s].call \in Writes => task'[s].call = t.call /\ t.op \in {"upload", "unload"})
  BY <1>1, GoesOnWrites
<1>3. CASE current' = current /\ Ends(s)
  <2>1. task'[s].call \notin Writes BY <1>0, <1>3, EndsStep DEF Idle, Writes
  <2>2. Shown => Shown' BY <1>1, <1>2, <1>3, <2>1, PassesShown
  <2>. QED BY <1>1, <2>2, ShownBefore
<1>4. CASE t.op = "publish" /\ t.call = "publish" /\ current' = [v |-> t.v, status |-> "approved"]
  <2>1. task'[s].call \notin Writes BY <1>2, <1>4
  <2>2. t.call \in Writes /\ current'.v = t.v /\ current'.status = StatusBefore(t.call)
    BY <1>4 DEF Writes, StatusBefore
  <2>3. CASE selection # t.v
    <3>1. current'.v # selection /\ current'.status # "none" BY <2>2, <2>3, StatusesExist
    <3>2. Shown => Shown' BY <1>1, <1>2, <2>1, <2>2, <3>1, PassesShown
    <3>. QED BY <1>1, <3>2, ShownBefore
  <2>4. CASE selection = t.v
    <3>1. Writer(s) BY <2>2, <2>4 DEF Writer
    <3>2. ASSUME Shown PROVE Shown'
      <4>1. Says(selection, current'.status, saved, assets) /\ UNCHANGED row
        BY <1>1, <2>2, <3>1, <3>2 DEF Shown, WriterStored, server
      <4>2. NoNewWrites BY <1>2, <2>1 DEF NoNewWrites, OthersStay
      <4>3. \A r \in Slot : ~Writer(r)' BY <1>1, <1>2, <2>1, <3>1, <3>2 DEF Shown, Apart, Writer, OthersStay
      <4>4. Apart' BY <3>2, <4>2, ApartGoesOn DEF Shown
      <4>5. LoadAlone' BY <1>1, <2>2, <3>2, <4>2, LoadGoesOn DEF Shown
      <4>6. LoadRow' BY <1>1, <3>2, LoadRowGoesOn DEF Shown
      <4>7. WriterStored' BY <4>3 DEF WriterStored
      <4>8. Steady' BY <1>1, <2>2, <4>1, StatusesExist DEF Steady, Says
      <4>. QED BY <4>4, <4>5, <4>6, <4>7, <4>8 DEF Shown
    <3>. QED BY <1>1, <3>2, ShownBefore
  <2>. QED BY <2>3, <2>4
<1>. QED BY <1>1, <1>3, <1>4

LEMMA ListArrivesShown == ASSUME ScreenInv, NEW s \in Slot, ListArrives(s) PROVE ShownInv'
<1>0. TypesInv BY DEF ScreenInv, AllInv, PageInv
<1>1. /\ task[s].call \in {"list", "relist"} /\ UNCHANGED <<server, current, saved, faults>> /\ Ends(s)
  BY DEF ListArrives, Listing, budgets
<1>2. PICK v \in Version \cup {None} : Select(v, StaysBusy(task[s])) BY <1>0, ListSelects
<1>3. GoesOn(s) /\ task'[s] = Idle BY <1>0, <1>1, EndsStep
<1>4. OthersStay(s) /\ task'[s].call \notin Writes /\ task[s].call \notin Writes
  BY <1>1, <1>3, GoesOnWrites DEF Idle, Writes
<1>5. NoNewWrites /\ SameWriters /\ \A r \in Slot : task'[r].call \in Writes => task'[r] = task[r]
  BY <1>4 DEF NoNewWrites, SameWriters, Writer, OthersStay
<1>6. crossed \subseteq crossed' BY <1>2 DEF Select
<1>7. ASSUME Shown, Calm' PROVE Shown'
  <2>1. LoadAlone' /\ LoadRow' /\ WriterStored' /\ Steady'
    BY <1>0, <1>1, <1>2, <1>5, <1>7, SelectShown DEF Shown
  <2>2. Apart' BY <1>5, <1>7, ApartGoesOn DEF Shown
  <2>. QED BY <2>1, <2>2 DEF Shown
<1>. QED BY <1>1, <1>6, <1>7, ShownBefore

LEMMA AnswersShown == ASSUME ScreenInv, NEW s \in Slot, Answers(s) PROVE ShownInv'
<1>1. CASE ListFails(s)
  <2>1. Fail /\ UNCHANGED crossed BY <1>1 DEF ListFails
  <2>. QED BY <2>1, ShownBefore
<1>. QED BY <1>1, SaveAnsweredShown, PublishAnsweredShown, TransitionAnsweredShown, ListNextShown,
            DiscardAnsweredShown, AssetAnsweredShown, FailedShown, ListArrivesShown DEF Answers

-----------------------------------------------------------------------------

LEMMA ShownInit == ASSUME Init PROVE ShownInv
<1>1. /\ current.v = None /\ load.v = None /\ load.read = FALSE
      /\ \A s \in Slot : task[s].call = "none"
  BY NullTypes DEF Init, NoLoad, Idle
<1>2. \A s \in Slot : task[s].call \notin Writes BY <1>1 DEF Writes
<1>3. Apart BY <1>2 DEF Apart
<1>4. LoadAlone /\ LoadRow BY <1>1 DEF LoadAlone, LoadRow
<1>5. WriterStored BY <1>2 DEF WriterStored, Writer
<1>6. Steady BY <1>1 DEF Steady
<1>. QED BY <1>3, <1>4, <1>5, <1>6 DEF ShownInv, Shown

LEMMA ShownNext == ASSUME ScreenInv, [Next]_vars PROVE ShownInv'
<1>1. ASSUME NEW s \in Slot, Authenticated(s) \/ Clicks(s) \/ Serve(s) \/ Disrupt(s) \/ Answers(s)
      PROVE  ShownInv'
  <2>1. CASE Clicks(s)
    <3>1. ClickStep(s) \/ \E v \in Version : Click /\ Open(v)
      BY <2>1, ClickSteps DEF ScreenInv, AllInv, PageInv
    <3>. QED BY <3>1, ClickStepShown, OpenShown
  <2>. QED BY <1>1, <2>1, AuthenticatedShown, ServerShown, AnswersShown
<1>2. CASE Logout \/ Expire BY <1>2, SignedOutShown DEF Logout, Expire
<1>3. CASE \E v \in Version : SelectVersion(v) BY <1>3, OpenShown DEF SelectVersion
<1>4. CASE \E sl \in Slug : SelectTemplate(sl) BY <1>4, SelectTemplateShown
<1>5. CASE ReadVersion BY <1>5, ReadVersionShown
<1>6. CASE LoadArrives BY <1>6, LoadArrivesShown
<1>7. CASE \/ LoadFails \/ AnalysisAnswers \/ Compile \/ CompileAnswers \/ (\E t \in Typed : Type(t)) \/ UNCHANGED vars
  BY <1>7, QuietShown
<1>. QED BY <1>1, <1>2, <1>3, <1>4, <1>5, <1>6, <1>7 DEF Next

LEMMA ShownCorrect == Spec => []ScreenInv
<1>1. Init => ShownInv BY ShownInit
<1>2. AllInv /\ ShownInv /\ [Next]_vars => ShownInv' BY ShownNext DEF ScreenInv
<1>3. AllInv /\ ShownInv => ScreenInv BY DEF ScreenInv
<1>. QED BY <1>1, <1>2, <1>3, StoredCorrect, PTL DEF Spec

\* Once every request is answered, the page shows its version as the server has it (App.tsx 207-372).
THEOREM ShownCorrectly == Spec => []ShownIsStored
<1>1. ASSUME ScreenInv, AtRest, crossed \subseteq {"dropped"}, faults = MaxFaults,
             current.v # None, current.v = selection
      PROVE  row[current.v] = [status |-> current.status, text |-> saved, files |-> assets]
  <2>1. Settled BY <1>1 DEF AtRest, Settled, Writer, Idle, Writes
  <2>2. Says(current.v, current.status, saved, assets) BY <1>1, <2>1 DEF ScreenInv, ShownInv, Shown, Calm, Steady
  <2>3. current.v \in Version BY <1>1 DEF ScreenInv, AllInv, PageInv, TypesInv, EditorTypes
  <2>4. row[current.v] \in Row BY <1>1, <2>3 DEF ScreenInv, AllInv, PageInv, TypesInv, ServerTypes
  <2>. QED BY <2>2, <2>4 DEF Says, Row
<1>2. ScreenInv => ShownIsStored BY <1>1 DEF ShownIsStored
<1>. QED BY <1>2, ShownCorrect, PTL
=============================================================================
