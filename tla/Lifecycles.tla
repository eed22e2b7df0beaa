----------------------------- MODULE Lifecycles -----------------------------
(***************************************************************************)
(* What is opened, started, kept alive and shut down around the streams,   *)
(* part by part: the USB session, its activation by the driver, the output *)
(* worker of the runtime, and the keepalive of the session bridge.  Each   *)
(* has its own state, so a behaviour is about one of them.                 *)
(***************************************************************************)
EXTENDS NS6DeviceSession, ControllerActivation, AudioOutWorker, AudioKeepalive

VARIABLE part

partVars == <<part, sessionVars, activationVars, workerVars, keepaliveVars>>

PartInit ==
  /\ part \in {"session", "activation", "worker", "keepalive"}
  /\ SessionInit /\ ActivationInit /\ WorkerInit /\ KeepaliveInit
  /\ part # "session" => bus = {}

Of(p, others) == part = p /\ UNCHANGED <<part, others>>

OfSession == Of("session", <<activationVars, workerVars, keepaliveVars>>)
OfActivation == Of("activation", <<sessionVars, workerVars, keepaliveVars>>)
OfWorker == Of("worker", <<sessionVars, activationVars, keepaliveVars>>)
OfKeepalive == Of("keepalive", <<sessionVars, activationVars, workerVars>>)

PartNext ==
  \/ OfSession /\ SessionNext
  \/ OfActivation /\ ActivationNext
  \/ OfWorker /\ WorkerNext
  \/ OfKeepalive /\ KeepaliveNext

\* The fairness of the parts: the threads go on, a write has a timeout and the wait
\* for the reply a deadline, the USB stack finishes what it accepted, the run loop
\* delivers the callbacks that are due if a thread enters it again and again, and a
\* keepalive that keeps trying gets through.
PartSpec ==
  /\ PartInit /\ [][PartNext]_partVars
  /\ WF_partVars(\/ OfActivation /\ ActivationThreadStep
                 \/ OfWorker /\ WorkerThreadStep
                 \/ OfKeepalive /\ RoundStep)
  /\ WF_partVars(OfActivation /\ WriterThreadStep)
  /\ SF_partVars(OfKeepalive /\ Start)
  /\ \A s \in Slots :
       /\ SF_partVars(OfWorker /\ didComplete(s))
       /\ WF_partVars(OfWorker /\ \E status \in {"sent", "failed"} : UsbFinish(s, status))
=============================================================================
