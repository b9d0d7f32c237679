--------------------------- MODULE ReportLifecycle --------------------------
(***************************************************************************)
(* What the service promises about a report, seen from its status endpoint *)
(* (README.md, "Poll a report"): a report is accepted once, alternates   *)
(* between waiting and running for as many attempts as it takes, and       *)
(* settles for good, as completed with the PDF of one of its attempts or   *)
(* as failed.  Only a failed report can be retried, which accepts a new    *)
(* report and leaves the failed one alone.                                 *)
(*                                                                         *)
(* No queue, worker, lease or outbox appears here; ReportPipeline is shown *)
(* to implement this specification.                                        *)
(***************************************************************************)
EXTENDS Naturals

CONSTANTS Job, NoJob, NoArtifact

VARIABLES
  phase,     \* "unknown", "waiting", "running", "completed" or "failed"
  tries,     \* attempts begun so far
  artifact,  \* the attempt whose PDF the report offers
  parent     \* the failed report this one retries

lifecycleVars == <<phase, tries, artifact, parent>>

Init ==
  /\ phase    = [j \in Job |-> "unknown"]
  /\ tries    = [j \in Job |-> 0]
  /\ artifact = [j \in Job |-> NoArtifact]
  /\ parent   = [j \in Job |-> NoJob]

Accept(j, p) ==
  /\ phase[j] = "unknown"
  /\ p # NoJob => phase[p] = "failed"
  /\ phase'  = [phase EXCEPT ![j] = "waiting"]
  /\ parent' = [parent EXCEPT ![j] = p]
  /\ UNCHANGED <<tries, artifact>>

Start(j) ==
  /\ phase[j] = "waiting"
  /\ phase' = [phase EXCEPT ![j] = "running"]
  /\ tries' = [tries EXCEPT ![j] = @ + 1]
  /\ UNCHANGED <<artifact, parent>>

Requeue(j) ==
  /\ phase[j] = "running"
  /\ phase' = [phase EXCEPT ![j] = "waiting"]
  /\ UNCHANGED <<tries, artifact, parent>>

Fail(j) ==
  /\ phase[j] = "running"
  /\ phase' = [phase EXCEPT ![j] = "failed"]
  /\ UNCHANGED <<tries, artifact, parent>>

Complete(j) ==
  /\ phase[j] = "running"
  /\ phase' = [phase EXCEPT ![j] = "completed"]
  /\ \E n \in 1..tries[j] : artifact' = [artifact EXCEPT ![j] = n]
  /\ UNCHANGED <<tries, parent>>

Next ==
  \/ \E j \in Job, p \in Job \cup {NoJob} : Accept(j, p)
  \/ \E j \in Job : Start(j) \/ Requeue(j) \/ Fail(j) \/ Complete(j)

Spec == Init /\ [][Next]_lifecycleVars
=============================================================================
