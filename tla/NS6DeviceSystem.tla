------------------------ MODULE NS6DeviceSystem -------------------------
(* The earlier driver's device service with its clients.  Four instances       *)
(* share one state space, chosen by part: "leases", helpers that time out and   *)
(* die at a service that stays up; and, while the service crashes and restarts,  *)
(* the plug-in with CoreAudio's calls ("hal"), with changes of its buffer size    *)
(* ("buffer"), and with an I/O callback that uses the shared memory ("mapping").   *)
(* The service's main thread only publishes here; its races with the USB worker     *)
(* have an instance of their own (EarlierTransport).                                *)
EXTENDS NS6HAL, NS6DeviceHelpers

ASSUME SystemAssumption == Plugin \notin Helpers   \* pids of different processes

VARIABLE part

vars == <<serviceVars, client, main, call, hal, mapping, callback, part>>
helperSide == <<call, part>>
halSide == <<hal, mapping, callback>>

Init ==
    /\ part \in {"leases", "hal", "buffer", "mapping"}
    /\ alive = IF part = "leases" THEN Helpers ELSE {Plugin}
    /\ ServiceInit /\ ClientInit /\ MainInit /\ HelpersInit /\ HalInit
    /\ part # "mapping" => ~mapping.weak   \* only a callback can tell

ServiceRuns == ServiceStep /\ UNCHANGED <<client, main, halSide, helperSide>>
ServiceStarts == MainPublish /\ UNCHANGED <<halSide, helperSide>>
ServiceCrashes == part # "leases" /\ MainCrash /\ UNCHANGED <<halSide, helperSide>>

HelpersRun ==
    /\ part = "leases"
    /\ \E p \in Helpers : HelperStep(p) \/ HelperSpawns(p)
    /\ UNCHANGED <<halSide, part>>

PluginRuns == part # "leases" /\ HalStep /\ UNCHANGED helperSide
PluginWaits == part # "leases" /\ HalWait /\ UNCHANGED helperSide
MonitorWakes == part # "leases" /\ MonitorPoll /\ UNCHANGED helperSide
MonitorGivesUp == part # "leases" /\ PluginTimesOut /\ UNCHANGED helperSide
Flush == MappingFlush /\ UNCHANGED helperSide

CoreAudioRuns ==
    /\ part = "hal"
    /\ \E c \in Clients : CoreAudioCalls(c)
    /\ UNCHANGED helperSide

BufferChanges ==
    /\ part = "buffer"
    /\ \/ \E frames \in Buffers : SetBuffer(frames)
       \/ SetBufferStored
    /\ UNCHANGED helperSide

\* One client runs all the time, so callbacks come at any moment.
CallbackRuns ==
    /\ part = "mapping"
    /\ \/ CallbackPin \/ CallbackStep
       \/ \E c \in Clients : hal.clients = 0 /\ StartIO(c)
       \/ StartIOActivated
    /\ UNCHANGED helperSide

Next ==
    \/ ServiceRuns \/ ServiceStarts \/ ServiceCrashes
    \/ HelpersRun
    \/ PluginRuns \/ PluginWaits \/ MonitorWakes \/ MonitorGivesUp
    \/ CoreAudioRuns \/ BufferChanges
    \/ CallbackRuns \/ Flush

Spec == Init /\ [][Next]_vars

\* The service thread, launchd and the plug-in's threads are scheduled; a store
\* becomes visible; the monitor wakes again and again among CoreAudio's calls,
\* and its spin on the reader count sees zero if zero recurs.
FairSpec ==
    /\ Spec
    /\ WF_vars(ServiceRuns) /\ WF_vars(ServiceStarts) /\ WF_vars(Flush)
    /\ WF_vars(PluginRuns) /\ SF_vars(PluginWaits) /\ SF_vars(MonitorWakes)

--------------------------------------------------------------------------

\* The shape of the state, the limits of the registry, the port and the readers.
SystemTypeOK ==
    /\ \A l \in service.leases : l.id \in Ids /\ l.process \in Processes /\ l.active \in BOOLEAN
    /\ Cardinality(service.leases) <= MaxClients /\ Len(port) <= QueueLimit
    /\ mapping.readers \in 0..1 /\ hal.clients \in 0..MaxRunning

\* While stream_lock is free, the plug-in serves a session and none of its last
\* activations was lost, the service holds its lease, active exactly when the
\* plug-in counts a running client, and every client CoreAudio runs is counted:
\* start_io, stop_io, remove_client, the re-prime and the monitor's replacement
\* of a handle agree through crashes of the service and late answers.
LeaseFollowsClients ==
    /\ SystemTypeOK
    /\ (hal.at = "free" /\ hal.ready /\ ~hal.missed /\ service.up
            /\ client["dev"].session = service.session)
       => /\ \E l \in service.leases :
                 l.id = client["dev"].id /\ l.active = (hal.clients > 0)
          /\ hal.clients >= AllRunning

\* The memory a callback uses is mapped, with the session of that memory.
UsesMappedMemory ==
    \E h \in Handles : client[h] = [id |-> callback.memory, session |-> callback.session]

\* An I/O callback that counted itself in ns6_hal_mapping_acquire before a withdrawal
\* began uses mapped memory until it is done, in every build: the monitor waits for
\* its readers before it disconnects a handle.  In a build that keeps the order of the
\* store and the load of ns6_hal_mapping_withdraw, so does every other callback.
PinnedMemoryIsMapped ==
    callback.at = "using" /\ (callback.early \/ ~mapping.weak) => UsesMappedMemory

\* "HAL callbacks pin the published mapping while using it, so the monitor can retire
\* an old mapping without unmapping memory still in use" (src/coreaudio/README.md).
MemoryInUseStaysMapped == callback.at = "using" => UsesMappedMemory

\* "reconnects the shared-memory session after a service restart"
\* (src/coreaudio/README.md): once the service stays up, answers in time and has
\* room in its registry, the plug-in is attached to its session again and again.
ReconnectsAfterRestart ==
    (/\ part = "hal" /\ <>[][~MonitorGivesUp]_vars
     /\ <>[](service.up /\ Cardinality(service.leases) < MaxClients))
    => []<>(hal.ready /\ client["dev"].session = service.session)

==========================================================================
