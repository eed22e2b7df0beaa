---------------------- MODULE NS6DeviceMachService ----------------------
(* The Mach service of the earlier driver (NS6DeviceMachService.c with the  *)
(* client registry of NS6DeviceClientRegistry.h): one process owns the USB   *)
(* transport, helper processes talk to it through one port that launchd      *)
(* keeps across restarts of the service.  The service thread receives one    *)
(* request at a time, reaps the leases of dead processes, handles the        *)
(* request and answers it.  The pause flag of the USB transport is written   *)
(* by this thread and by the main thread (NS6DeviceServiceMain).             *)
EXTENDS Naturals, Sequences, FiniteSets

CONSTANTS
    Processes,    \* helper processes, by pid
    Ids,          \* client ids, 1..k
    Sessions,     \* session ids, 1..k
    Buffers,      \* startup buffer sizes
    DefaultBuffer,\* the size a service starts with
    MaxClients,   \* NS6_DEVICE_MAX_CLIENTS
    QueueLimit    \* messages the port holds

ASSUME ServiceAssumption ==
    /\ Ids \subseteq Nat \ {0} /\ Sessions \subseteq Nat \ {0}
    /\ MaxClients \in Nat \ {0} /\ QueueLimit \in Nat \ {0}
    /\ DefaultBuffer \in Buffers

VARIABLES
    alive,    \* the helper processes that exist
    port,     \* requests queued at the service port
    answer,   \* what the exchange each process is in has come to
    service,  \* the service process
    usb       \* the flags of its USB transport (NS6USB.c)

serviceVars == <<alive, port, answer, service, usb>>

NoRequest == [kind |-> "none", from |-> 0, id |-> 0, session |-> 0, value |-> 0, expected |-> FALSE]
Request(kind, p, id, session, value) ==
    [kind |-> kind, from |-> p, id |-> id, session |-> session, value |-> value, expected |-> TRUE]

Quiet == [state |-> "idle", status |-> "none", session |-> 0]
Awaiting == [Quiet EXCEPT !.state = "waiting"]
Failed == [Quiet EXCEPT !.state = "failed"]
Replied(status, session) == [state |-> "replied", status |-> status, session |-> session]

UsbOff ==
    [created |-> FALSE, initialized |-> FALSE, running |-> FALSE, recovery |-> FALSE,
     paused |-> TRUE, first |-> FALSE, worker |-> "none"]

ServiceDown ==
    [up |-> FALSE, session |-> 0, leases |-> {}, audioActive |-> FALSE,
     buffer |-> DefaultBuffer, at |-> "down", request |-> NoRequest, stopping |-> FALSE]

ServiceInit ==
    /\ port = <<>>
    /\ answer = [p \in Processes |-> Quiet]
    /\ service = ServiceDown
    /\ usb = UsbOff

--------------------------------------------------------------------------
(* The registry of client leases. *)

Contains(leases, id) == \E l \in leases : l.id = id
CanAttach(leases, id) == Contains(leases, id) \/ Cardinality(leases) < MaxClients
Attach(leases, id, p) ==
    IF Contains(leases, id)
    THEN {IF l.id = id THEN [l EXCEPT !.process = p] ELSE l : l \in leases}
    ELSE leases \union {[id |-> id, process |-> p, active |-> FALSE]}
SetActive(leases, id, active) ==
    {IF l.id = id THEN [l EXCEPT !.active = active] ELSE l : l \in leases}
Detach(leases, id) == {l \in leases : l.id # id}
\* A faulty variant: one dead process empties the registry.
ReapEverybody(leases) == IF \E l \in leases : l.process \notin alive THEN {} ELSE leases
Reap(leases) == {l \in leases : l.process \in alive}
AnyAudioActive(leases) == \E l \in leases : l.active

--------------------------------------------------------------------------
(* The flags of the USB transport that the service reads and writes. *)

UsbReady == usb.created /\ usb.initialized /\ usb.running

\* ns6_usb_start, the part that creates the worker thread.
UsbStarting ==
    [created |-> TRUE, initialized |-> FALSE, running |-> TRUE, recovery |-> FALSE,
     paused |-> TRUE, first |-> TRUE, worker |-> "head"]

\* The wait of ns6_usb_start is over; a failed start joins the thread.
UsbStartReturns == usb.initialized \/ (~usb.running /\ usb.worker = "gone")
UsbStarted == [usb EXCEPT !.created = usb.initialized]

--------------------------------------------------------------------------
(* The service thread. *)

\* The reply port is gone when the client stopped waiting or died.
Answer(r, status, session) ==
    answer' = IF r.expected THEN [answer EXCEPT ![r.from] = Replied(status, session)]
              ELSE answer

\* The service record after the registry became leases: update_audio_active_
\* _from_clients exchanges audio_active and, on a change, sets the pause flag.
WithLeases(leases, changedAt, sameAt) ==
    LET active == AnyAudioActive(leases)
    IN  [service EXCEPT !.leases = leases, !.audioActive = active,
                        !.at = IF active # service.audioActive THEN changedAt ELSE sameAt]

\* mach_msg returned a request, or timed out after a second with none; either
\* way reap_dead_clients runs before anything else.  A service that is stopping
\* has given its receive right back, so its thread leaves the loop here.
ServiceReceive ==
    /\ service.at = "receive" /\ ~service.stopping
    /\ LET request == IF port = <<>> THEN NoRequest ELSE Head(port)
           next == IF port = <<>> THEN "receive" ELSE "handle"
           leases == Reap(service.leases)
       IN  /\ port' = IF port = <<>> THEN port ELSE Tail(port)
           /\ service' = [(IF leases = service.leases THEN [service EXCEPT !.at = next]
                           ELSE WithLeases(leases, "reapCheck", next))
                          EXCEPT !.request = request]
    /\ UNCHANGED <<alive, answer, usb>>

\* ns6_usb_set_paused on this thread: the test of recovery_requested, then the store.
ServiceCheckPause ==
    /\ service.at \in {"reapCheck", "check"}
    /\ LET refused == service.audioActive /\ usb.recovery
           reaping == service.at = "reapCheck"
       IN  service' = [service EXCEPT !.at =
               IF ~refused THEN (IF reaping THEN "reapStore" ELSE "store")
               ELSE IF ~reaping THEN "reply"
               ELSE IF service.request.kind = "none" THEN "receive" ELSE "handle"]
    /\ UNCHANGED <<alive, port, answer, usb>>

ServiceStorePause ==
    /\ service.at \in {"reapStore", "store"}
    /\ usb' = [usb EXCEPT !.paused = ~service.audioActive]
    /\ service' = [service EXCEPT !.at =
           IF service.at = "store" THEN "reply"
           ELSE IF service.request.kind = "none" THEN "receive" ELSE "handle"]
    /\ UNCHANGED <<alive, port, answer>>

Handled == [service EXCEPT !.at = "receive", !.request = NoRequest]

\* reply_control with KERN_SUCCESS.
ServiceReply ==
    /\ service.at = "reply"
    /\ service' = Handled
    /\ Answer(service.request, "ok", service.session)
    /\ UNCHANGED <<alive, port, usb>>

Handling(kinds) == service.at = "handle" /\ service.request.kind \in kinds

\* Control and state requests name the session and a lease they believe in.
Known(r) == r.session = service.session /\ Contains(service.leases, r.id)

HandleHello ==
    /\ Handling({"hello"})
    /\ LET r == service.request
           fits == CanAttach(service.leases, r.id)
       IN  /\ service' = [Handled EXCEPT !.leases =
                  IF fits THEN Attach(@, r.id, r.from) ELSE @]
           /\ Answer(r, IF fits THEN "ok" ELSE "full", service.session)
    /\ UNCHANGED <<alive, port, usb>>

HandleState ==
    /\ Handling({"state"})
    /\ service' = Handled
    /\ Answer(service.request, IF Known(service.request) THEN "ok" ELSE "badId", service.session)
    /\ UNCHANGED <<alive, port, usb>>

HandleUnknown ==
    /\ Handling({"active", "release", "buffer"})
    /\ ~Known(service.request)
    /\ service' = Handled
    /\ Answer(service.request, "badId", service.session)
    /\ UNCHANGED <<alive, port, usb>>

HandleAudioActive ==
    /\ Handling({"active"})
    /\ Known(service.request)
    /\ service' = WithLeases(SetActive(service.leases, service.request.id, service.request.value # 0),
                             "check", "reply")
    /\ UNCHANGED <<alive, port, answer, usb>>

HandleRelease ==
    /\ Handling({"release"})
    /\ Known(service.request)
    /\ service' = WithLeases(Detach(service.leases, service.request.id), "check", "reply")
    /\ UNCHANGED <<alive, port, answer, usb>>

\* A changed startup buffer restarts a transport that is ready.
HandleStartupBuffer ==
    /\ Handling({"buffer"})
    /\ Known(service.request)
    /\ LET frames == service.request.value
       IN  service' = [service EXCEPT !.buffer = frames,
               !.at = IF frames # service.buffer /\ UsbReady THEN "restart" ELSE "reply"]
    /\ UNCHANGED <<alive, port, answer, usb>>

\* ns6_usb_request_restart: the transport may have been stopped since the test.
ServiceRestart ==
    /\ service.at = "restart"
    /\ IF usb.created
       THEN /\ usb' = [usb EXCEPT !.initialized = FALSE, !.paused = TRUE, !.recovery = TRUE]
            /\ service' = [service EXCEPT !.at = "reply"]
       ELSE /\ usb' = UsbStarting
            /\ service' = [service EXCEPT !.at = "starting"]
    /\ UNCHANGED <<alive, port, answer>>

ServiceStarted ==
    /\ service.at = "starting"
    /\ UsbStartReturns
    /\ usb' = UsbStarted
    /\ service' = Handled
    /\ Answer(service.request, IF usb.initialized THEN "ok" ELSE "failed", service.session)
    /\ UNCHANGED <<alive, port>>

ServiceStep ==
    \/ ServiceReceive \/ ServiceCheckPause \/ ServiceStorePause \/ ServiceReply
    \/ HandleHello \/ HandleState \/ HandleUnknown
    \/ HandleAudioActive \/ HandleRelease \/ HandleStartupBuffer
    \/ ServiceRestart \/ ServiceStarted

--------------------------------------------------------------------------
(* The process. *)

\* ns6_device_service_publish in a new process: fresh shared memory, an empty
\* registry and a session id no client holds.
Publish(session) ==
    /\ ~service.up
    /\ service' = [ServiceDown EXCEPT !.up = TRUE, !.session = session, !.at = "receive"]
    /\ usb' = UsbOff
    /\ UNCHANGED <<alive, port, answer>>

\* The process ends, with or without warning.  Queued requests stay in the port
\* that launchd keeps; the kernel tells the sender of the one being handled.
ProcessEnds ==
    /\ service.up
    /\ service' = ServiceDown
    /\ usb' = UsbOff
    /\ answer' = IF service.request.expected
                 THEN [answer EXCEPT ![service.request.from] = Failed] ELSE answer
    /\ UNCHANGED <<alive, port>>

==========================================================================
