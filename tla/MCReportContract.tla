--------------------------- MODULE MCReportContract ---------------------------
(***************************************************************************)
(* A small instance of ReportContract for TLC: every source of at most     *)
(* three statements about the fields a and b, samples and data two levels  *)
(* deep with arrays of up to two items.                                    *)
(***************************************************************************)
EXTENDS ReportContract

a == Field("a")
b == Field("b")

\* Statements about the report, and those about a name it has bound.
Opening == {Use("report", <<a>>), Use("report", <<a, b>>), Use("report", <<Default("a"), b>>),
          [Use("report", <<a>>) EXCEPT !.dynamic = TRUE],
          Let("x", "report", <<a>>), Let("x", "report", <<Default("a")>>),
          For("x", "report", <<a>>), For("x", "report", <<Default("a")>>)}
Second  == {Use("x", <<>>), Use("x", <<b>>), Use("x", <<Default("b")>>), For("y", "x", <<>>),
          For("x", "x", <<b>>), Let("x", "other", <<>>)}
Third  == {Use("report", <<a, b>>), Use("x", <<b>>), Use("y", <<b>>), Use("y", <<>>)}

Sources == {<<s>> : s \in Opening} \cup {<<s, t>> : s \in Opening, t \in Second \cup Opening}
             \cup {<<s, t, u>> : s \in Opening, t \in Second, u \in Third}

Scalars == {Scalar("string"), Scalar("integer"), Scalar("number")}
Field1(n, vs) == {Object([m \in {n} |-> v]) : v \in vs}

Items  == {Scalar("string"), EmptyObject, List(<<>>)}
            \cup Field1("b", {Scalar("string"), Scalar("integer"), List(<<Scalar("string")>>)})
Lists  == {List(s) : s \in BoundedSeq(Items, 2)}
Values == {EmptyObject} \cup Field1("a", Items \cup Lists \cup Scalars
            \cup {List(<<List(<<v>>)>>) : v \in Items})
=============================================================================
