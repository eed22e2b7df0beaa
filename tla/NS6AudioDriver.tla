--------------------------- MODULE NS6AudioDriver ---------------------------
(***************************************************************************)
(* The AudioServerPlugIn: its table of clients, the two devices' start     *)
(* counts, the one USB session and transport they share, and the monitor   *)
(* thread that follows the controller over unplugging.                     *)
(*                                                                         *)
(* Handlers and monitor hold one mutex, so a handler is one step, except   *)
(* where time passes under it: the stages of startHardware, during which   *)
(* the controller may come and go, and the notification of the host after  *)
(* the mutex is given back.  A call that only returns an error is no step. *)
(* The anchor and seed of the device clock and the firmware text are left  *)
(* out; the clients' I/O and the list of active clients are ClientActivity.*)
(***************************************************************************)
EXTENDS DriverProperties, FiniteSets

CONSTANTS
  Ids,            \* client ids
  MaxClients,     \* the 64 entries of clients[] and activity[]
  Capacity,       \* AudioClientLifecycle::kClientCapacity
  MaxStarts,      \* the largest UInt32
  MaxGeneration   \* bound on how often the controller is plugged in

ASSUME DriverAssumption ==
  /\ IsFiniteSet(Ids)
  /\ MaxClients \in Nat /\ Capacity \in Nat /\ MaxClients <= Capacity
  /\ MaxStarts \in Nat \ {0} /\ MaxGeneration \in Nat \ {0}

VARIABLES
  clients,       \* attached <<device, id>> -> its starts and activity slot
  keys,          \* activity slot -> the client it is for
  starts,        \* device -> id -> starts, the two AudioClientLifecycles
  activeStarts,  \* device -> their activeStarts_
  session,       \* generation of the controller the session has open, or Absent
  runtime,       \* the transport runtime exists
  inputEnabled,  \* its inputEnabled_
  running,       \* gState.running
  call,          \* the handler that holds the mutex over several steps
  usb,           \* generation of the controller that is attached, or Absent
  generation,    \* the last generation attached
  notify,        \* devices whose PropertiesChanged is about to be sent
  hostView,      \* what the host last read for "device is running"
  missed         \* ghost: devices whose change went without notification

hardware == <<session, runtime, inputEnabled, running>>
host == <<notify, hostView, missed>>
counts == <<clients, keys, starts, activeStarts>>
vars == <<clients, keys, starts, activeStarts, session, runtime, inputEnabled, running, call, usb,
          generation, notify, hostView, missed>>

Absent == 0
NoKey == <<>>
Free == [pc |-> "free"]
ActivitySlots == 1..MaxClients

Init ==
  /\ clients = <<>>
  /\ keys = [k \in ActivitySlots |-> NoKey]
  /\ starts = [d \in Devices |-> [i \in Ids |-> 0]]
  /\ activeStarts = [d \in Devices |-> 0]
  /\ session = Absent /\ runtime = FALSE /\ inputEnabled = FALSE /\ running = FALSE
  /\ call = Free
  /\ usb \in {Absent, 1} /\ generation = usb
  /\ notify = {} /\ missed = {}
  /\ hostView = [d \in Devices |-> FALSE]

hasClient(d, i) == <<d, i>> \in DOMAIN clients
anyActive(active) == \E d \in Devices : active[d] # 0

\* The value of DeviceIsRunning.
IsRunning(d) == activeStarts[d] # 0
-----------------------------------------------------------------------------
(* The table of clients and the two lifecycles                             *)

FreeSlots == {k \in ActivitySlots : keys[k] = NoKey}

\* The client gets the first free activity slot.
addClient(d, i) ==
  /\ call = Free
  /\ ~hasClient(d, i)
  /\ Cardinality(DOMAIN clients) < MaxClients
  /\ \E k \in FreeSlots :
       /\ \A other \in FreeSlots : k <= other
       /\ clients' = [p \in DOMAIN clients \cup {<<d, i>>} |->
                        IF p = <<d, i>> THEN [starts |-> 0, slot |-> k] ELSE clients[p]]
       /\ keys' = [keys EXCEPT ![k] = <<d, i>>]
  /\ UNCHANGED <<starts, activeStarts, hardware, call, usb, generation, host>>

\* AudioClientLifecycle::start finds the client, or a free slot for it.
Accepts(d, i) ==
  IF starts[d][i] > 0 THEN starts[d][i] < MaxStarts
  ELSE Cardinality({j \in Ids : starts[d][j] > 0}) < Capacity

LifecycleStart(d, i) ==
  /\ starts' = [starts EXCEPT ![d][i] = @ + 1]
  /\ activeStarts' = [activeStarts EXCEPT ![d] = @ + 1]

LifecycleStop(d, i) ==
  /\ starts' = [starts EXCEPT ![d][i] = @ - 1]
  /\ activeStarts' = [activeStarts EXCEPT ![d] = @ - 1]

LifecycleRemove(d, i) ==
  /\ starts' = [starts EXCEPT ![d][i] = 0]
  /\ activeStarts' = [activeStarts EXCEPT ![d] = @ - starts[d][i]]

\* syncInputCapture; without a runtime there is no inputEnabled_.
InputEnabled(exists, active) == exists /\ active["in"] # 0
-----------------------------------------------------------------------------
(* startHardware and stopHardware                                          *)

\* Opening the session; configureAudioInputMode and the first run of the
\* transport may fail as well, and everything is given up then.
Open ==
  /\ call.pc = "open"
  /\ \/ usb # Absent /\ session' = usb /\ call' = [call EXCEPT !.pc = "activate"]
     \/ session' = Absent /\ call' = [call EXCEPT !.pc = "failed"]
  /\ UNCHANGED <<counts, runtime, inputEnabled, running, usb, generation, host>>

\* ControllerActivation reopens the session on the controller that is there now.
Activate ==
  /\ call.pc = "activate" /\ usb # Absent
  /\ session' = usb /\ runtime' = TRUE
  /\ call' = [call EXCEPT !.pc = "run"]
  /\ UNCHANGED <<counts, inputEnabled, running, usb, generation, host>>

\* The transport runs again, this time for good.
RunTransport ==
  /\ call.pc = "run"
  /\ inputEnabled' = (activeStarts["in"] # 0)
  /\ running' = TRUE
  /\ call' = [call EXCEPT !.pc = "started"]
  /\ UNCHANGED <<counts, session, runtime, usb, generation, host>>

\* Faulty variant: the session is left open when the transport does not run.
StageFailsLeavingSession ==
  /\ call.pc \in {"activate", "run"}
  /\ runtime' = FALSE
  /\ call' = [call EXCEPT !.pc = "failed"]
  /\ UNCHANGED <<counts, session, inputEnabled, running, usb, generation, host>>

StageFails ==
  /\ call.pc \in {"activate", "run"}
  /\ session' = Absent /\ runtime' = FALSE
  /\ call' = [call EXCEPT !.pc = "failed"]
  /\ UNCHANGED <<counts, inputEnabled, running, usb, generation, host>>

\* The runtime's stop() always succeeds; only closing the session may fail.
stopHardware ==
  session' = Absent /\ runtime' = FALSE /\ inputEnabled' = FALSE /\ running' = FALSE
-----------------------------------------------------------------------------
(* Handlers                                                                *)

CountStart(d, i) == clients' = [clients EXCEPT ![<<d, i>>].starts = @ + 1]

\* The other device or another client keeps the hardware up already.
StartIOActive(d, i) ==
  /\ call = Free
  /\ hasClient(d, i) /\ Accepts(d, i)
  /\ anyActive(activeStarts)
  /\ LifecycleStart(d, i)
  /\ CountStart(d, i)
  /\ inputEnabled' = InputEnabled(runtime, activeStarts')
  /\ notify' = IF activeStarts[d] = 0 THEN notify \cup {d} ELSE notify
  /\ UNCHANGED <<keys, session, runtime, running, call, usb, generation, hostView, missed>>

StartIOIdle(d, i) ==
  /\ call = Free
  /\ hasClient(d, i) /\ Accepts(d, i)
  /\ ~anyActive(activeStarts)
  /\ LifecycleStart(d, i)
  /\ call' = [pc |-> "open", by |-> "startIO", device |-> d, id |-> i]
  /\ UNCHANGED <<clients, keys, hardware, usb, generation, host>>

StartIOStarted ==
  /\ call.pc = "started" /\ call.by = "startIO"
  /\ CountStart(call.device, call.id)
  /\ inputEnabled' = InputEnabled(runtime, activeStarts)
  /\ notify' = notify \cup {call.device}
  /\ call' = Free
  /\ UNCHANGED <<keys, starts, activeStarts, session, runtime, running, usb, generation, hostView,
                 missed>>

\* The start is taken back; the host is not notified, though it may have read the
\* count in between.
StartIOFailed ==
  /\ call.pc = "failed" /\ call.by = "startIO"
  /\ LifecycleStop(call.device, call.id)
  /\ call' = Free
  /\ missed' = missed \cup {call.device}
  /\ UNCHANGED <<clients, keys, hardware, usb, generation, notify, hostView>>

\* Faulty variant: the last client of a device takes the hardware down though the
\* other device is in use.
AfterLastStopOfDevice(d) ==
  IF activeStarts'[d] # 0
  THEN /\ inputEnabled' = InputEnabled(runtime, activeStarts')
       /\ UNCHANGED <<session, runtime, running, notify, missed>>
  ELSE stopHardware /\ notify' = notify \cup {d} /\ UNCHANGED missed

\* Faulty variant: the host is told only when the hardware goes.
AfterStopTellingOfHardware(d) ==
  \/ /\ anyActive(activeStarts')
     /\ inputEnabled' = InputEnabled(runtime, activeStarts')
     /\ UNCHANGED <<session, runtime, running, notify, missed>>
  \/ /\ ~anyActive(activeStarts')
     /\ stopHardware
     /\ notify' = notify \cup {d} /\ UNCHANGED missed

\* What StopIO and RemoveClient do once the lifecycle has counted: capture is
\* synchronised, the hardware goes with the last client, and the host is told
\* unless the session failed to close.
AfterStop(d) ==
  \/ /\ anyActive(activeStarts')
     /\ inputEnabled' = InputEnabled(runtime, activeStarts')
     /\ notify' = IF activeStarts'[d] = 0 THEN notify \cup {d} ELSE notify
     /\ UNCHANGED <<session, runtime, running, missed>>
  \/ /\ ~anyActive(activeStarts')
     /\ stopHardware
     /\ \/ notify' = notify \cup {d} /\ UNCHANGED missed
        \/ session # Absent /\ missed' = missed \cup {d} /\ UNCHANGED notify

stopIO(d, i) ==
  /\ call = Free
  /\ hasClient(d, i) /\ starts[d][i] > 0
  /\ LifecycleStop(d, i)
  /\ clients' = [clients EXCEPT ![<<d, i>>].starts = IF @ # 0 THEN @ - 1 ELSE @]
  /\ AfterStop(d)
  /\ UNCHANGED <<keys, call, usb, generation, hostView>>

Detach(d, i) == clients' = [p \in DOMAIN clients \ {<<d, i>>} |-> clients[p]]

removeClient(d, i) ==
  /\ call = Free
  /\ hasClient(d, i)
  /\ LifecycleRemove(d, i)
  /\ keys' = [keys EXCEPT ![clients[<<d, i>>].slot] = NoKey]
  /\ Detach(d, i)
  /\ IF starts[d][i] > 0 THEN AfterStop(d)
     ELSE /\ inputEnabled' = InputEnabled(runtime, activeStarts')
          /\ UNCHANGED <<session, runtime, running, notify, missed>>
  /\ UNCHANGED <<call, usb, generation, hostView>>

\* notifyRunningChanged; the host then reads the property.
NotifyRunningChanged(d) ==
  /\ d \in notify
  /\ notify' = notify \ {d} /\ missed' = missed \ {d}
  /\ hostView' = [hostView EXCEPT ![d] = IsRunning(d)]
  /\ UNCHANGED <<counts, hardware, call, usb, generation>>
-----------------------------------------------------------------------------
(* The monitor and the controller                                          *)

\* Faulty variant: a session on a controller that is gone is left alone.
MonitorUSBOnlyMissing ==
  /\ call = Free
  /\ anyActive(activeStarts)
  /\ session = Absent /\ usb # Absent
  /\ call' = [pc |-> "open", by |-> "monitor"]
  /\ UNCHANGED <<counts, hardware, usb, generation, host>>

\* A round of monitorUSB that finds something to do.
monitorUSB ==
  /\ call = Free
  /\ anyActive(activeStarts)
  /\ \/ session # Absent /\ session # usb /\ stopHardware
     \/ session = Absent /\ usb # Absent /\ UNCHANGED hardware
  /\ call' = IF usb # Absent THEN [pc |-> "open", by |-> "monitor"] ELSE Free
  /\ UNCHANGED <<counts, usb, generation, host>>

MonitorReturns ==
  /\ call.pc \in {"started", "failed"} /\ call.by = "monitor"
  /\ call' = Free
  /\ UNCHANGED <<counts, hardware, usb, generation, host>>

Unplug ==
  /\ usb # Absent
  /\ usb' = Absent
  /\ UNCHANGED <<counts, hardware, call, generation, host>>

Plug ==
  /\ usb = Absent /\ generation < MaxGeneration
  /\ usb' = generation + 1 /\ generation' = generation + 1
  /\ UNCHANGED <<counts, hardware, call, host>>

Handler ==
  \E d \in Devices, i \in Ids :
    \/ addClient(d, i) \/ removeClient(d, i)
    \/ StartIOActive(d, i) \/ StartIOIdle(d, i)
    \/ stopIO(d, i)

HardwareStep == Open \/ Activate \/ RunTransport \/ StageFails

Next ==
  \/ Handler \/ HardwareStep \/ StartIOStarted \/ StartIOFailed
  \/ \E d \in Devices : NotifyRunningChanged(d)
  \/ monitorUSB \/ MonitorReturns
  \/ Unplug \/ Plug

Spec == Init /\ [][Next]_vars

\* A thread that holds the mutex goes on, the monitor gets the mutex now and then,
\* and a controller that stays attached does not refuse to start for ever.
Fairness ==
  /\ WF_vars(HardwareStep \/ StartIOStarted \/ StartIOFailed \/ MonitorReturns)
  /\ \A d \in Devices : WF_vars(NotifyRunningChanged(d))
  /\ SF_vars(monitorUSB)
  /\ SF_vars(Open /\ session' # Absent) /\ SF_vars(Activate) /\ SF_vars(RunTransport)
-----------------------------------------------------------------------------
\* The types; the counts of starts stay within what the lifecycle accepts.
TypeOK ==
  /\ DOMAIN clients \subseteq Devices \X Ids
  /\ \A p \in DOMAIN clients : clients[p] \in [starts : 0..MaxStarts, slot : ActivitySlots]
  /\ keys \in [ActivitySlots -> {NoKey} \cup (Devices \X Ids)]
  /\ starts \in [Devices -> [Ids -> 0..MaxStarts]]
  /\ activeStarts \in [Devices -> 0..(MaxStarts * Cardinality(Ids))]
  /\ session \in 0..MaxGeneration /\ usb \in 0..MaxGeneration /\ generation \in 0..MaxGeneration
  /\ runtime \in BOOLEAN /\ inputEnabled \in BOOLEAN /\ running \in BOOLEAN
  /\ call.pc \in {"free", "open", "activate", "run", "started", "failed"}
  /\ notify \subseteq Devices /\ missed \subseteq Devices /\ hostView \in [Devices -> BOOLEAN]

\* The starts of a device that are in effect: the n-th of client i.
Started(d) == {p \in Ids \X (1..MaxStarts) : p[2] <= starts[d][p[1]]}

\* The records of who is there and who started what agree: the table's starts, the
\* lifecycle's, and its sum, so that no client that left or failed to start holds a
\* lifecycle slot and the last stop is recognised as the last; and every attached
\* client owns one activity slot, under its own key, the others being free.
CountsAgree ==
  /\ TypeOK
  /\ \A k \in ActivitySlots :
       keys[k] # NoKey <=> \E p \in DOMAIN clients : clients[p].slot = k /\ keys[k] = p
  /\ call = Free =>
     \A d \in Devices :
      /\ \A i \in Ids : starts[d][i] = IF hasClient(d, i) THEN clients[<<d, i>>].starts ELSE 0
      /\ activeStarts[d] = Cardinality(Started(d))

\* "The last StopIO stops these workers and closes the USB session": outside a
\* handler there is a session exactly when there is a running transport, and then
\* some client is active by records that agree, over failed starts, removed clients
\* and unplugging.  "Bulk input reads run only while the separate input device has
\* active clients".
HardwareFollowsClients ==
  /\ CountsAgree
  /\ call = Free => /\ (session # Absent <=> runtime) /\ (runtime <=> running)
                    /\ runtime => /\ anyActive(activeStarts)
                                  /\ inputEnabled <=> activeStarts["in"] # 0

\* Once the notifications are out the host knows whether a device runs, except
\* after the two returns that send none.
HostKnowsRunning ==
  call = Free =>
    \A d \in Devices \ (notify \cup missed) : hostView[d] <=> IsRunning(d)

\* "An input client's stop cannot tear down a still-running output client": a
\* session on the attached controller is closed only when nobody is active.
SessionKeptForActive ==
  [][call = Free /\ session = usb /\ session # Absent /\ session' = Absent
       => ~anyActive(activeStarts')]_vars

\* While clients stay active and the controller stays attached, the driver comes
\* to have it open, and keeps it.
ControllerIsReopened ==
  <>[](usb # Absent /\ anyActive(activeStarts)) => <>[](session = usb)
=============================================================================
