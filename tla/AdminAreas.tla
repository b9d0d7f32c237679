----------------------------- MODULE AdminAreas ------------------------------
(***************************************************************************)
(* The administration of the browser application (App in                   *)
(* web/template-manager/src/App.tsx): the areas that are mounted one at a  *)
(* time, and the server each works on, which goes on when they are left.   *)
(***************************************************************************)
EXTENDS ReportsArea, ClientsArea

vars == <<area, clicks, faults, reports, clientKeys>>

TypeOK ==
  /\ area \in Area /\ clicks \in 0 .. MaxClicks /\ faults \in 0 .. MaxFaults
  /\ ReportsTypeOK /\ ClientsTypeOK

Init ==
  /\ area = "elsewhere" /\ clicks = MaxClicks /\ faults = MaxFaults
  /\ ReportsInit /\ ClientsInit

\* An area that is left is unmounted, and forgets all it had.
SetArea(to) ==
  /\ to # area /\ clicks > 0 /\ clicks' = clicks - 1 /\ area' = to /\ UNCHANGED faults
  /\ CASE area = "reports" -> UnmountReports
       [] to = "reports"   -> MountReports
       [] OTHER            -> UNCHANGED reports
  /\ CASE area = "clients" -> UnmountClients
       [] to = "clients"   -> MountClients
       [] OTHER            -> UNCHANGED clientKeys

Next ==
  \/ \E to \in Area : SetArea(to)
  \/ ReportsNext /\ UNCHANGED clientKeys
  \/ ClientsNext /\ UNCHANGED reports

Spec == Init /\ [][Next]_vars
=============================================================================
