-------------------------- MODULE MCReportPipeline --------------------------
(***************************************************************************)
(* Small instances of ReportPipeline for TLC.                              *)
(***************************************************************************)
EXTENDS ReportPipeline, TLC

CONSTANTS w1, w2, h1, h2

\* Handlers: one per worker process, or both in one process.
OneEach == (h1 :> w1) @@ (h2 :> w2)
Single  == h1 :> w1

\* Two workers with a handler each swap places as pairs; used, like the one below, for
\* safety runs only.
PairSymmetry == {(w1 :> w2) @@ (w2 :> w1) @@ (h1 :> h2) @@ (h2 :> h1)}

\* Jobs are interchangeable too.
JobsAndPairs == Permutations(Job) \cup PairSymmetry

NoFaults == [k \in Bounds |-> 0]

\* Redis refuses or loses an answer, a dispatcher dies.
DispatchFaults == ("redis" :> 1) @@ ("dispatcher" :> 1) @@ ("any" :> 2) @@ NoFaults

\* Any two things that can happen to workers and dispatchers, and an operator who
\* recovers twice.
WorkerFaults == ("any" :> 2) @@ ("recover" :> 2) @@ [k \in Bounds |-> 1]

\* A process stalls, and an operator recovers its report.
StallFaults == ("stall" :> 1) @@ ("recover" :> 1) @@ ("any" :> 1) @@ NoFaults

OneDbError   == ("db" :> 1) @@ ("any" :> 1) @@ NoFaults
=============================================================================
