-------------------------- MODULE EndpointContract --------------------------
(***************************************************************************)
(* What every endpoint worker of the driver promises its session: the USB  *)
(* requests it has in flight are the only users of its buffers and of the  *)
(* run-loop source that delivers their completions, so it holds both until *)
(* the last request is back, and once it is halted it submits nothing.     *)
(***************************************************************************)
EXTENDS Integers

CONSTANT MaxInFlight    \* slots of the worker

VARIABLES
  held,       \* buffers and event source are held
  active,     \* completions may be resubmitted
  inFlight    \* requests owned by the USB stack or not yet called back

contractVars == <<held, active, inFlight>>

ContractInit == ~held /\ ~active /\ inFlight = 0

\* start(): resources first, then the first round of requests; a submission
\* that fails leaves the worker halted with the ones already submitted.
Arm ==
  /\ ~held
  /\ held' = TRUE
  /\ active' \in BOOLEAN
  /\ inFlight' \in 0..MaxInFlight

\* A completion is called back, and possibly resubmitted or fatal.
Return ==
  /\ inFlight > 0
  /\ active' \in IF active THEN BOOLEAN ELSE {FALSE}
  /\ inFlight' \in IF active THEN {inFlight - 1, inFlight} ELSE {inFlight - 1}
  /\ UNCHANGED held

Halt == active /\ active' = FALSE /\ UNCHANGED <<held, inFlight>>

\* stop() after a complete drain.
Disarm ==
  /\ held /\ inFlight = 0
  /\ held' = FALSE /\ active' = FALSE
  /\ UNCHANGED inFlight

ContractNext == Arm \/ Return \/ Halt \/ Disarm

ContractSpec == ContractInit /\ [][ContractNext]_contractVars
=============================================================================
