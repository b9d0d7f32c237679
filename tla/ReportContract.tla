---------------------------- MODULE ReportContract ----------------------------
(***************************************************************************)
(* A template version and a report from the contract's point of view: the  *)
(* draft is saved with what Analyze makes of it, approval analyses it      *)
(* again, validates and renders its sample, and a report is accepted when  *)
(* its data satisfies the approved schema (internal/api/templates.go,      *)
(* internal/jobs/jobs.go).  The worker then renders whatever was accepted. *)
(***************************************************************************)
EXTENDS Contract

CONSTANTS
  Source,  \* sources that can be saved
  Sample,  \* samples, objects, that can be saved with them
  Data,    \* data of reports
  None     \* nothing yet

VARIABLES
  draft,    \* template_versions: source, sample and schema of a draft
  approved, \* the same when it is approved
  report    \* data of a report that was accepted

vars == <<draft, approved, report>>

(***************************************************************************)
(* What a source asks of its data when Typst runs it: a name stands for    *)
(* the values it takes.  A default is taken to satisfy what follows it, so *)
(* a missing optional field ends the matter; a method of a value, or a     *)
(* statement about anything else than data, asks nothing.                  *)
(***************************************************************************)
Readable(values, part) ==
  \A v \in values : v.kind = "object" /\ (part.name \in DOMAIN v.fields \/ part.optional)

Read(values, part) == {v.fields[part.name] : v \in {w \in values : part.name \in DOMAIN w.fields}}

\* m.values maps names to values; m.ok says that nothing has failed.
ReadParts(values, access) ==
  FoldLeft(LAMBDA m, part : IF m.ok /\ Readable(m.values, part)
                              THEN [m EXCEPT !.values = Read(@, part)]
                              ELSE [m EXCEPT !.ok = FALSE],
           [values |-> values, ok |-> TRUE], access)

RunStatement(m, s) ==
  IF ~m.ok \/ s.of \notin DOMAIN m.values
    THEN [m EXCEPT !.values = Restrict(@, DOMAIN @ \ {s.var})]
  ELSE LET got    == ReadParts(m.values[s.of], s.access)
           loops  == s.do = "for"
           values == IF loops THEN UNION {{v.items[i] : i \in DOMAIN v.items} : v \in got.values}
                     ELSE got.values
       IN IF ~got.ok \/ s.dynamic \/ (loops /\ \E v \in got.values : v.kind # "array")
            THEN [m EXCEPT !.ok = FALSE]
          ELSE IF s.do = "use" THEN m ELSE [m EXCEPT !.values = (s.var :> values) @@ @]

Renders(source, data) ==
  FoldLeft(RunStatement, [values |-> [v \in {"report"} |-> {data}], ok |-> TRUE], source).ok

-----------------------------------------------------------------------------

Version(source, a) == [source |-> source, sample |-> a.sample, schema |-> a.schema]

RECURSIVE WellFormed(_)

\* A schema says of objects and arrays, and of nothing else, what they contain.
WellFormed(s) ==
  /\ s.types # {}
  /\ s.types \subseteq {"object", "array", "string", "boolean", "integer", "number", "null"}
  /\ "properties" \in DOMAIN s <=> s.types = {"object"}
  /\ "items" \in DOMAIN s <=> s.types = {"array"}
  /\ s.types = {"object"} => /\ s.required \subseteq DOMAIN s.properties
                             /\ \A n \in DOMAIN s.properties : WellFormed(s.properties[n])
  /\ s.types = {"array"} => WellFormed(s.items)

TypeOK ==
  /\ report \in Data \cup {None}
  /\ \A v \in {draft, approved} \ {None} :
       v.source \in Source /\ v.sample.kind = "object" /\ WellFormed(v.schema)

Init == draft = None /\ approved = None /\ report = None

\* Creation and every later save: the last one counts.
Save(source, sample) ==
  /\ draft = None
  /\ draft' = Version(source, Analyze(source, sample))
  /\ UNCHANGED <<approved, report>>

Approvable(version) ==
  LET a == Analyze(version.source, version.sample) IN
  /\ ~a.errors
  /\ Validate(a.schema, version.sample) = {}
  /\ Renders(version.source, version.sample)

Approve ==
  /\ draft # None /\ approved = None
  /\ Approvable(draft)
  /\ approved' = [Version(draft.source, Analyze(draft.source, draft.sample))
                    EXCEPT !.sample = draft.sample]
  /\ UNCHANGED <<draft, report>>

\* Data is accepted when it satisfies the schema.
Submit(data) ==
  /\ approved # None /\ report = None
  /\ Validate(approved.schema, data) = {}
  /\ report' = data
  /\ UNCHANGED <<draft, approved>>

Next == \/ \E source \in Source, sample \in Sample : Save(source, sample)
        \/ Approve
        \/ \E data \in Data : Submit(data)

Spec == Init /\ [][Next]_vars

-----------------------------------------------------------------------------
(* Properties.                                                             *)

\* Approval analyses the stored sample again and validates that sample, not the completed
\* one: this only works if saving left nothing to complete.  The contract that is approved
\* is the one the author was shown.
ReanalysisIsStable ==
  draft # None => Version(draft.source, Analyze(draft.source, draft.sample)) = draft

\* Data that an approved contract admits has everything the source reads: a report that is
\* accepted renders.
AcceptedDataRenders == report # None => Renders(approved.source, report)

RECURSIVE Reversed(_)

\* v with the items of all its arrays in the opposite order.
Reversed(v) ==
  CASE v.kind = "object" -> Object([n \in DOMAIN v.fields |-> Reversed(v.fields[n])])
    [] v.kind = "array" ->
         List([i \in DOMAIN v.items |-> Reversed(v.items[Len(v.items) + 1 - i])])
    [] OTHER -> v

\* The contract does not depend on the order in which the sample lists its items.
ItemOrderIrrelevant ==
  draft # None => Analyze(draft.source, Reversed(draft.sample)).schema = draft.schema

=============================================================================
