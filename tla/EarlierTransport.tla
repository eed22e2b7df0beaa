------------------------ MODULE EarlierTransport ------------------------
(* The USB transport of the earlier driver, in two instances that share one     *)
(* state space, chosen by part: "threads", the flags that the service thread,    *)
(* the main thread and the USB worker of the service process all write while      *)
(* helpers come and go; and "transfers", one worker's sessions with every slot    *)
(* (NS6USB).                                                                      *)
EXTENDS NS6DeviceHelpers, NS6USB

VARIABLE part

vars == <<helperVars, streamVars, part>>

Init ==
    /\ part \in {"threads", "transfers"}
    /\ alive = Helpers
    /\ ServiceInit /\ ClientInit /\ MainInit /\ HelpersInit /\ StreamInit

Threads(A) == part = "threads" /\ A /\ UNCHANGED <<streamVars, part>>
Transfers(A) == part = "transfers" /\ A /\ UNCHANGED <<helperVars, part>>

ServiceThread == Threads(ServiceStep /\ UNCHANGED <<client, main, call>>)
MainThread == Threads(MainStep /\ UNCHANGED call)
MainStops == Threads(MainStopUsb /\ UNCHANGED call)
WorkerThread == Threads(WorkerStep /\ UNCHANGED call)
TransferFails == Threads(WorkerTransferFails /\ UNCHANGED call)
HelpersRun == Threads(\E p \in Helpers : PatientStep(p) \/ HelperSpawns(p))

SessionMoves == Transfers(WorkerMoves)
SessionPasses == Transfers(WorkerPasses)
DeviceCompletes == Transfers(TransfersComplete)
StreamCalls == Transfers(OthersCall)
CaptureCalls == Transfers(ReaderAsks)

Next ==
    \/ ServiceThread \/ MainThread \/ MainStops \/ WorkerThread \/ TransferFails \/ HelpersRun
    \/ SessionMoves \/ SessionPasses \/ DeviceCompletes \/ StreamCalls \/ CaptureCalls

\* The three threads of the service process are scheduled, the worker's loop
\* tests its condition and runs its body again and again.  Helpers, CoreAudio and
\* the device may stop at any point.
FairSpec ==
    /\ Init /\ [][Next]_vars
    /\ WF_vars(ServiceThread) /\ WF_vars(MainThread) /\ WF_vars(WorkerThread)
    /\ WF_vars(SessionMoves) /\ WF_vars(SessionPasses)

--------------------------------------------------------------------------

HelpersDie == \E p \in Helpers : HelperDies(p)

\* Somebody who is alive holds an active lease.
SomebodyPlays == \E l \in service.leases : l.active /\ l.process \in alive

\* When the service stays up with its transport ready, and from some time on a
\* living client is active, or from some time on none is and no more helper dies,
\* the output ends up running or paused accordingly: the stale stores of main, of
\* the service thread and of a restart are made good, and the lease of a dead
\* helper does not keep the output running (maintain_device_service,
\* reap_dead_clients, ns6_usb_set_paused).
PauseFollowsClients ==
    <>[][~HelpersDie]_vars
    => \A plays \in BOOLEAN :
           <>[](service.up /\ UsbReady /\ SomebodyPlays = plays) => <>[](usb.paused = ~plays)

==========================================================================
