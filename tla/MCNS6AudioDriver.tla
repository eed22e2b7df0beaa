-------------------------- MODULE MCNS6AudioDriver --------------------------
(***************************************************************************)
(* A behaviour is of the plug-in with its hardware, or of its clients'     *)
(* activity; the other part stays as it began, where its fairness asks     *)
(* for nothing.                                                            *)
(***************************************************************************)
EXTENDS NS6AudioDriver, ClientActivity

CONSTANTS c1, c2

VARIABLE part

partVars == <<part, vars, activityVars>>

PartInit ==
  /\ part \in {"hardware", "activity"}
  /\ Init /\ ActivityInit
  /\ part = "activity" => usb = Absent

PartNext ==
  \/ part = "hardware" /\ Next /\ UNCHANGED <<part, activityVars>>
  \/ part = "activity" /\ ActivityNext /\ UNCHANGED <<part, vars>>

PartSpec == PartInit /\ [][PartNext]_partVars /\ Fairness
=============================================================================
