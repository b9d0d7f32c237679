------------------------------- MODULE Areas --------------------------------
(***************************************************************************)
(* What the areas of the browser application share (App in                 *)
(* web/template-manager/src/App.tsx): one of them is open at a time.  The  *)
(* workbench, storage and documentation are "elsewhere" here.              *)
(***************************************************************************)
EXTENDS Naturals

CONSTANTS
  MaxClicks, \* bound: clicks
  MaxFaults  \* bound: requests that fail

ASSUME AreasAssumption == {MaxClicks, MaxFaults} \subseteq Nat

VARIABLES area, clicks, faults

Area == {"reports", "clients", "elsewhere"}

Click == clicks > 0 /\ clicks' = clicks - 1 /\ UNCHANGED <<area, faults>>
Fault == faults > 0 /\ faults' = faults - 1 /\ UNCHANGED <<area, clicks>>
Quiet == UNCHANGED <<area, clicks, faults>>
=============================================================================
