----------------------- MODULE NS6DeviceHelpers -------------------------
(* The service process of the earlier driver among helper processes that come *)
(* and go: each helper holds one client handle, connects, marks its audio      *)
(* active or inactive, changes the startup buffer, disconnects, gives up on a   *)
(* slow answer, or dies at any point and leaves its lease behind.              *)
EXTENDS NS6DeviceServiceMain

CONSTANT Helpers   \* the processes of this instance; their handle is theirs alone

ASSUME HelpersAssumption ==
    Helpers \subseteq Processes /\ \A p \in Helpers : \E h \in Handles : Owner[h] = p

VARIABLE call      \* the operation each helper is in

helperVars == <<serviceVars, client, main, call>>

HandleOf(p) == CHOOSE h \in Handles : Owner[h] = p

HelpersInit == call = [p \in Helpers |-> "none"]

HelperConnect(p) ==
    /\ call[p] = "none"
    /\ ~Connected(HandleOf(p))
    /\ SendHello(HandleOf(p))
    /\ call' = [call EXCEPT ![p] = "hello"]
    /\ UNCHANGED <<alive, service, usb, main>>

\* set_audio_active, set_startup_buffer, and the release of a disconnect.
HelperControl(p, kind, value) ==
    /\ call[p] = "none"
    /\ Connected(HandleOf(p))
    /\ SendControl(kind, HandleOf(p), value)
    /\ call' = [call EXCEPT ![p] = kind]
    /\ UNCHANGED <<alive, service, usb, client, main>>

\* The exchange is over; a disconnect clears the handle whatever was answered.
HelperReturn(p) ==
    /\ Returned(p)
    /\ client' = CASE call[p] = "hello" -> HelloReturned(HandleOf(p))
                   [] call[p] = "release" -> [client EXCEPT ![HandleOf(p)] = NoClient]
                   [] OTHER -> client
    /\ Forget(p)
    /\ call' = [call EXCEPT ![p] = "none"]
    /\ UNCHANGED <<alive, port, service, usb, main>>

HelperTimesOut(p) == ExchangeTimesOut(p) /\ UNCHANGED <<main, call>>

HelperDies(p) ==
    /\ p \in alive
    /\ alive' = alive \ {p}
    /\ call' = [call EXCEPT ![p] = "none"]
    /\ client' = [client EXCEPT ![HandleOf(p)] = NoClient]
    /\ Forget(p)
    /\ AbandonAll(p)
    /\ UNCHANGED <<usb, main>>

\* A new helper takes the pid once nothing of the old one is left.
HelperSpawns(p) ==
    /\ p \notin alive
    /\ \A r \in Requests : r.from # p
    /\ \A l \in service.leases : l.process # p
    /\ alive' = alive \union {p}
    /\ UNCHANGED <<port, answer, service, usb, client, main, call>>

\* What a helper that is alive does; Patient: it waits for every answer.
PatientStep(p) ==
    /\ p \in alive
    /\ \/ HelperConnect(p)
       \/ \E active \in {0, 1} : HelperControl(p, "active", active)
       \/ \E frames \in Buffers : HelperControl(p, "buffer", frames)
       \/ HelperControl(p, "release", 0)
       \/ HelperReturn(p)
       \/ HelperDies(p)

HelperStep(p) ==
    /\ p \in alive
    /\ \/ HelperConnect(p)
       \/ \E active \in {0, 1} : HelperControl(p, "active", active)
       \/ HelperControl(p, "release", 0)
       \/ HelperReturn(p)
       \/ HelperTimesOut(p)
       \/ HelperDies(p)

--------------------------------------------------------------------------

\* A helper that is alive and connected to the running session keeps the lease
\* that hello gave it, under its own pid, whatever other helpers time out, die,
\* or take over (handle_hello, reap_dead_clients, the registry's slots).
LeaseKept ==
    \A p \in alive \intersect Helpers :
        LET c == client[HandleOf(p)]
        IN  service.up /\ c.session = service.session /\ call[p] # "release"
            => \E l \in service.leases : l.id = c.id /\ l.process = p

==========================================================================
