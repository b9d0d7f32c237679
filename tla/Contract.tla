------------------------------- MODULE Contract -------------------------------
(***************************************************************************)
(* The data contract of a template (internal/contract/contract.go): which  *)
(* fields a template's source reads, a sample completed with the ones it   *)
(* lacks, a schema for the data of its reports, and the validation of data *)
(* against that schema.                                                    *)
(*                                                                         *)
(* A source is the sequence of the statements that mention report data,    *)
(* after  #let report = json("report.json") .  Tokens, text positions and  *)
(* the limits on size and depth are left out, as is the flag "leaf", which *)
(* is set and never read.                                                  *)
(***************************************************************************)
EXTENDS Naturals, Sequences, SequencesExt, Functions

(***************************************************************************)
(* JSON values.                                                            *)
(***************************************************************************)
Object(fields) == [kind |-> "object", fields |-> fields]
List(items)    == [kind |-> "array", items |-> items]
Scalar(k)      == [kind |-> k]

NoFields    == [n \in {} |-> Scalar("null")]
EmptyObject == Object(NoFields)

(***************************************************************************)
(* Statements.   let var = of.access   for var in of.access   of.access    *)
(* A part of an access is  .name  or  .at("name")  or, optional,           *)
(* .at("name", default: ...) ; dynamic is  of.access[...]  or .at(...)     *)
(* with something else than a literal.                                     *)
(***************************************************************************)
Field(n)    == [name |-> n, optional |-> FALSE]
Default(n)  == [name |-> n, optional |-> TRUE]

Let(v, w, access) == [do |-> "let", var |-> v, of |-> w, access |-> access, dynamic |-> FALSE]
For(v, w, access) == [do |-> "for", var |-> v, of |-> w, access |-> access, dynamic |-> FALSE]
Use(w, access)    == [do |-> "use", var |-> w, of |-> w, access |-> access, dynamic |-> FALSE]

-----------------------------------------------------------------------------
(* The paths a source reads.  arrayAt is the length of the prefix that a   *)
(* loop runs over.                                                         *)

Access(base, s) == [base EXCEPT !.parts = @ \o s.access]

\* m is what has been found so far.  An assignment to a variable from something that is not
\* report data leaves an alias of that name in place, and counts as a use of it.
AnalyzeStatement(m, s) ==
  LET known  == s.of \in DOMAIN m.aliases
      access == IF known THEN Access(m.aliases[s.of], s) ELSE m.aliases[s.var]
      info   == IF known /\ s.do = "for" THEN [access EXCEPT !.arrayAt = Len(access.parts)]
                ELSE access
  IN IF {s.of, s.var} \cap DOMAIN m.aliases = {} THEN m
     ELSE [aliases |-> IF known /\ s.do # "use" THEN (s.var :> info) @@ m.aliases ELSE m.aliases,
           paths   |-> m.paths \cup {info},
           errors  |-> m.errors \/ (known /\ s.dynamic)]

Mentions(source) ==
  FoldLeft(AnalyzeStatement,
           [aliases |-> [v \in {"report"} |-> [parts |-> <<>>, arrayAt |-> 0]],
            paths |-> {}, errors |-> FALSE],
           source)

(***************************************************************************)
(* The tree of the paths, as the set of its branches: what hangs below a   *)
(* field is the set of the tails of the branches that begin with it.       *)
(***************************************************************************)
Structure(source) ==
  {[i \in DOMAIN p.parts |-> [name |-> p.parts[i].name, optional |-> p.parts[i].optional,
                              array |-> p.arrayAt = i]] : p \in Mentions(source).paths}

Branches(S, n) == {b \in S : b # <<>> /\ b[1].name = n}
Children(S)    == {b[1].name : b \in S \ {<<>>}}
Child(S, n)    == {Tail(b) : b \in Branches(S, n)}
IsArray(S, n)  == \E b \in Branches(S, n) : b[1].array

\* Mutant: one access with a default makes the field optional.
RequiredEverywhere(S, n) == Branches(S, n) # {} /\ \A b \in Branches(S, n) : ~b[1].optional

Required(S, n) == \E b \in Branches(S, n) : ~b[1].optional

-----------------------------------------------------------------------------
(* The sample, completed.                                                  *)

\* What a field starts from that is not there.
Absent(S, n) == IF IsArray(S, n) THEN List(<<>>)
                ELSE IF Children(Child(S, n)) # {} THEN EmptyObject ELSE Scalar("string")

RECURSIVE MergeObject(_, _)

\* Mutant: the item that an empty array gets is not completed.
CompleteItemsLate(items, S) ==
  IF items = <<>> THEN <<EmptyObject>> ELSE [items EXCEPT ![1] = MergeObject(@, S)]

CompleteItems(items, S) ==
  [(IF items = <<>> THEN <<EmptyObject>> ELSE items) EXCEPT ![1] = MergeObject(@, S)]

\* The fields f completed: what is missing is added, an empty array gets an item, and the
\* first item of an array and an object are completed in turn.  What is there stays.
Complete(f, S) ==
  [n \in DOMAIN f \cup Children(S) |->
     LET value == IF n \in DOMAIN f THEN f[n] ELSE Absent(S, n)
     IN CASE IsArray(S, n) /\ value.kind = "array" ->
               List(CompleteItems(value.items, Child(S, n)))
          [] Children(Child(S, n)) # {} /\ ~IsArray(S, n) -> MergeObject(value, Child(S, n))
          [] OTHER -> value]

MergeObject(v, S) == IF v.kind = "object" THEN Object(Complete(v.fields, S)) ELSE v

-----------------------------------------------------------------------------
(* The schema.  types is the set of type names; a schema of one type       *)
(* "object" has properties and required, of one type "array" items.        *)

RECURSIVE MergeSchemas(_, _)

\* Mutant: properties that only the right schema has are dropped.
MergeLeftProperties(l, r) ==
  [n \in DOMAIN l |-> IF n \in DOMAIN r THEN MergeSchemas(l[n], r[n]) ELSE l[n]]

MergeProperties(l, r) ==
  [n \in DOMAIN l \cup DOMAIN r |->
     IF n \notin DOMAIN r THEN l[n] ELSE IF n \notin DOMAIN l THEN r[n]
     ELSE MergeSchemas(l[n], r[n])]

\* Schemas of different types merge to the types alone.
UnionSchema(l, r) == [types |-> l.types \cup r.types]

MergeSchemas(l, r) ==
  IF l.types # r.types \/ l.types \notin {{"object"}, {"array"}} THEN UnionSchema(l, r)
  ELSE IF l.types = {"object"}
    THEN [l EXCEPT !.properties = MergeProperties(@, r.properties)]
  ELSE [l EXCEPT !.items = MergeSchemas(@, r.items)]

RECURSIVE SchemaFor(_, _, _)

ItemSchema(items, S) ==
  FoldLeft(LAMBDA s, v : MergeSchemas(s, SchemaFor(v, S, FALSE)),
           SchemaFor(items[1], S, FALSE), Tail(items))

ObjectSchema(f, S) ==
  LET value(n) == IF n \in DOMAIN f THEN f[n] ELSE Absent(S, n)
      names    == DOMAIN f \cup Children(S)
  IN [types |-> {"object"},
      properties |-> [n \in names |-> SchemaFor(value(n), Child(S, n), IsArray(S, n))],
      required |-> {n \in names : Required(S, n)}]

\* array says that a loop runs over the value, whatever the sample has there.
SchemaFor(v, S, array) ==
  CASE array ->
         [types |-> {"array"},
          items |-> ItemSchema(IF v.kind = "array" /\ v.items # <<>> THEN v.items
                               ELSE <<EmptyObject>>, S)]
    [] ~array /\ (Children(S) # {} \/ v.kind = "object") ->
         ObjectSchema(IF v.kind = "object" THEN v.fields ELSE NoFields, S)
    [] ~array /\ Children(S) = {} /\ v.kind = "array" ->
         [types |-> {"array"},
          items |-> IF v.items = <<>> THEN [types |-> {"string"}] ELSE ItemSchema(v.items, S)]
    [] OTHER -> [types |-> {v.kind}]

\* What is stored with a draft: the completed sample and the schema derived from it.
Analyze(source, sample) ==
  LET merged == MergeObject(sample, Structure(source)) IN
  [sample |-> merged, schema |-> SchemaFor(merged, Structure(source), FALSE),
   errors |-> Mentions(source).errors]

-----------------------------------------------------------------------------
(* Validation.                                                             *)

\* An integer is a number.
TypeMatches(t, v) == t = v.kind \/ (t = "number" /\ v.kind = "integer")

RECURSIVE Validate(_, _)

\* The kinds of error: data may be "invalid", and a schema "malformed".
Validate(schema, v) ==
  CASE ~\E t \in schema.types : TypeMatches(t, v) -> {"invalid"}
    [] v.kind = "object" /\ "properties" \in DOMAIN schema ->
         {"invalid" : n \in schema.required \ DOMAIN v.fields}
           \cup UNION {Validate(schema.properties[n], v.fields[n]) :
                         n \in DOMAIN schema.properties \cap DOMAIN v.fields}
    [] v.kind = "array" /\ "items" \in DOMAIN schema ->
         UNION {Validate(schema.items, v.items[i]) : i \in DOMAIN v.items}
    [] v.kind = "array" /\ "items" \notin DOMAIN schema -> {"malformed"}
    [] OTHER -> {}

=============================================================================
