--------------------------- MODULE AudioKeepalive ---------------------------
(***************************************************************************)
(* The bridge's keepalive thread: it plays silence on the output device    *)
(* while a controller is attached, so that the driver keeps the controller *)
(* open.  A round reads the controller's registry entry, looks for the     *)
(* audio device, and starts or stops; the controller and coreaudiod change *)
(* between these.  The pause between two rounds is left out.               *)
(***************************************************************************)
EXTENDS Integers

CONSTANTS
  MaxEntry,    \* bound on how often the controller is plugged in
  MaxDevice    \* bound on how often coreaudiod gives the device a new id

ASSUME KeepaliveAssumption == MaxEntry \in Nat /\ MaxDevice \in Nat

VARIABLES
  running,      \* keepaliveRunning
  keepalive,    \* KeepaliveState: activeDevice, activeUSBGeneration
  round,        \* the values the round has read so far
  entry,        \* registry entry of the attached controller, or None
  lastEntry,    \* the last one given out
  device,       \* CoreAudio's id of the output device, or None
  lastDevice    \* the last one given out

keepaliveVars == <<running, keepalive, round, entry, lastEntry, device, lastDevice>>
environment == <<entry, lastEntry, device, lastDevice>>

None == 0
Inactive == [device |-> None, generation |-> None]
NoRound == [pc |-> "idle"]

KeepaliveInit ==
  /\ running = TRUE /\ keepalive = Inactive /\ round = NoRound
  /\ entry = None /\ lastEntry = None /\ device = None /\ lastDevice = None

\* Faulty variant: the same device after a new attachment is left alone.
ActionOfDevices(active, discovered, sameUSBGeneration) ==
  CASE active # None /\ active # discovered -> "stop"
    [] active = None /\ discovered # None -> "start"
    [] OTHER -> "none"

audioKeepaliveAction(active, discovered, sameUSBGeneration) ==
  CASE active # None /\ (active # discovered \/ ~sameUSBGeneration) -> "stop"
    [] active = None /\ discovered # None -> "start"
    [] OTHER -> "none"

\* updateAudioKeepalive: the first ns6USBGeneration().
ReadGeneration ==
  /\ running /\ round.pc = "idle"
  /\ round' = [pc |-> "find", generation |-> entry]
  /\ UNCHANGED <<running, keepalive, environment>>

\* The second one finds nothing without a controller.
findNS6Device ==
  /\ round.pc = "find"
  /\ round' = [pc |-> "act", generation |-> round.generation,
               discovered |-> IF entry = None THEN None ELSE device]
  /\ UNCHANGED <<running, keepalive, environment>>

RoundAction ==
  audioKeepaliveAction(keepalive.device, round.discovered, round.generation = keepalive.generation)

KeepaliveStop ==
  /\ round.pc = "act" /\ RoundAction = "stop"
  /\ keepalive' = Inactive /\ round' = NoRound
  /\ UNCHANGED <<running, environment>>

Start ==
  /\ round.pc = "act" /\ RoundAction = "start"
  /\ keepalive' = [device |-> round.discovered, generation |-> round.generation]
  /\ round' = NoRound
  /\ UNCHANGED <<running, environment>>

\* Nothing to do, or the device did not start.
EndRound ==
  /\ round.pc = "act" /\ RoundAction # "stop"
  /\ round' = NoRound
  /\ UNCHANGED <<running, keepalive, environment>>

\* poll() failed in the bridge's main loop; the thread gives the device up.
Quit ==
  /\ running /\ running' = FALSE
  /\ UNCHANGED <<keepalive, round, environment>>

GiveUp ==
  /\ ~running /\ round.pc = "idle"
  /\ keepalive' = Inactive
  /\ UNCHANGED <<running, round, environment>>

Attach ==
  /\ entry = None /\ lastEntry < MaxEntry
  /\ entry' = lastEntry + 1 /\ lastEntry' = lastEntry + 1
  /\ UNCHANGED <<running, keepalive, round, device, lastDevice>>

Detach ==
  /\ entry # None /\ entry' = None
  /\ UNCHANGED <<running, keepalive, round, lastEntry, device, lastDevice>>

PublishDevice ==
  /\ device = None /\ lastDevice < MaxDevice
  /\ device' = lastDevice + 1 /\ lastDevice' = lastDevice + 1
  /\ UNCHANGED <<running, keepalive, round, entry, lastEntry>>

RetractDevice ==
  /\ device # None /\ device' = None
  /\ UNCHANGED <<running, keepalive, round, entry, lastEntry, lastDevice>>

RoundStep == ReadGeneration \/ findNS6Device \/ KeepaliveStop \/ Start \/ EndRound \/ GiveUp

KeepaliveNext == RoundStep \/ Quit \/ Attach \/ Detach \/ PublishDevice \/ RetractDevice

\* A device that can be started is not refused for ever.
KeepaliveFairness == WF_keepaliveVars(RoundStep) /\ SF_keepaliveVars(Start)

KeepaliveSpec == KeepaliveInit /\ [][KeepaliveNext]_keepaliveVars /\ KeepaliveFairness
-----------------------------------------------------------------------------
\* Whatever came and went while a round was under way, the keepalive ends up playing
\* on the device of the controller that stays attached, started for that attachment;
\* and it ends when the controller stays away or the bridge quits.
KeepaliveFollowsController ==
  /\ <>[](running /\ entry # None /\ device # None)
       => <>[](keepalive = [device |-> device, generation |-> entry])
  /\ <>[](~running \/ entry = None) => <>[](keepalive = Inactive)
=============================================================================
