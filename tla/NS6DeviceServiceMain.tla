---------------------- MODULE NS6DeviceServiceMain ----------------------
(* The other two threads of the service process of the earlier driver: main  *)
(* (start_device_service, maintain_device_service and the shutdown sequence   *)
(* of NS6MIDIBridge.c) and the USB worker's life cycle (worker, ns6_usb_start, *)
(* ns6_usb_stop, request_recovery of NS6USB.c).  Main re-applies the pause     *)
(* flag every second from an audio_active it has read before, so its write    *)
(* can race the service thread's and the worker's restart.                    *)
EXTENDS NS6DeviceClient

VARIABLE main   \* [at, pause: argument of a pending ns6_usb_set_paused, reported]

MainInit == main = [at |-> "down", pause |-> TRUE, reported |-> FALSE]

--------------------------------------------------------------------------
(* Main: start, then one round of maintain_device_service a second. *)

\* launchd starts the process; start_device_service publishes the service.
MainPublish ==
    /\ main.at = "down"
    /\ FreshSessions # {}
    /\ Publish(CHOOSE s \in FreshSessions : TRUE)
    /\ UNCHANGED client
    /\ main' = [at |-> "boot", pause |-> TRUE, reported |-> FALSE]

\* ns6_usb_start: a worker that exists is not started again.
MainStartUsb ==
    /\ main.at \in {"boot", "retry"}
    /\ IF usb.created
       THEN /\ main' = IF usb.initialized THEN [main EXCEPT !.at = "check", !.pause = TRUE]
                       ELSE [main EXCEPT !.at = "loop", !.reported = FALSE]
            /\ UNCHANGED usb
       ELSE /\ usb' = UsbStarting
            /\ main' = [main EXCEPT !.at = IF main.at = "boot" THEN "bootWait" ELSE "retryWait"]
    /\ UNCHANGED <<alive, port, answer, service, client>>

\* A first start resumes a stream that is already wanted, a retry leaves it paused.
MainUsbStarted ==
    /\ main.at \in {"bootWait", "retryWait"}
    /\ UsbStartReturns
    /\ usb' = UsbStarted
    /\ main' = IF ~usb.initialized THEN [main EXCEPT !.at = "loop", !.reported = FALSE]
               ELSE IF main.at = "bootWait" THEN [main EXCEPT !.at = "active"]
               ELSE [main EXCEPT !.at = "check", !.pause = TRUE]
    /\ UNCHANGED <<alive, port, answer, service, client>>

\* Faulty variant: the pause flag is set once after the transport became ready.
MainMaintainOnce ==
    /\ main.at = "loop"
    /\ UsbReady
    /\ main' = IF main.reported THEN main ELSE [main EXCEPT !.at = "active"]
    /\ UNCHANGED <<serviceVars, client>>

\* maintain_device_service: the transport is ready.
MainMaintain ==
    /\ main.at = "loop"
    /\ UsbReady
    /\ main' = [main EXCEPT !.at = "active"]
    /\ UNCHANGED <<serviceVars, client>>

\* maintain_device_service: not ready; the next retry may not be due yet.
MainNotReady ==
    /\ main.at = "loop"
    /\ ~UsbReady
    /\ \E at \in {"loop", "retry"} : main' = [main EXCEPT !.at = at, !.reported = FALSE]
    /\ UNCHANGED <<serviceVars, client>>

\* ns6_device_service_audio_active, the argument of ns6_usb_set_paused.
MainReadActive ==
    /\ main.at = "active"
    /\ main' = [main EXCEPT !.at = "check", !.pause = ~service.audioActive]
    /\ UNCHANGED <<serviceVars, client>>

MainCheckPause ==
    /\ main.at = "check"
    /\ main' = [main EXCEPT !.at = IF ~main.pause /\ usb.recovery THEN "report" ELSE "store"]
    /\ UNCHANGED <<serviceVars, client>>

MainStorePause ==
    /\ main.at = "store"
    /\ usb' = [usb EXCEPT !.paused = main.pause]
    /\ main' = [main EXCEPT !.at = "report"]
    /\ UNCHANGED <<alive, port, answer, service, client>>

MainReport ==
    /\ main.at = "report"
    /\ main' = [main EXCEPT !.at = "loop", !.pause = TRUE, !.reported = TRUE]
    /\ UNCHANGED <<serviceVars, client>>

--------------------------------------------------------------------------
(* SIGTERM: ns6_usb_stop, then ns6_device_service_stop joins the service thread. *)

MainStopUsb ==
    /\ main.at = "loop"
    /\ main' = [main EXCEPT !.at = "joining"]
    /\ usb' = IF usb.created THEN [usb EXCEPT !.paused = TRUE, !.running = FALSE] ELSE usb
    /\ UNCHANGED <<alive, port, answer, service, client>>

MainUsbStopped ==
    /\ main.at = "joining"
    /\ usb.created => usb.worker = "gone"
    /\ main' = [main EXCEPT !.at = "closing", !.reported = FALSE]
    /\ usb' = [usb EXCEPT !.created = FALSE, !.initialized = FALSE]
    /\ service' = [service EXCEPT !.stopping = TRUE]
    /\ UNCHANGED <<alive, port, answer, client>>

MainExit ==
    /\ main.at = "closing"
    /\ service.at = "receive"
    /\ ProcessEnds
    /\ UNCHANGED client
    /\ main' = [at |-> "down", pause |-> TRUE, reported |-> FALSE]

\* The process is killed at any point.
MainCrash ==
    /\ ProcessEnds
    /\ UNCHANGED client
    /\ main' = [at |-> "down", pause |-> TRUE, reported |-> FALSE]

MainStep ==
    \/ MainPublish \/ MainStartUsb \/ MainUsbStarted \/ MainMaintain \/ MainNotReady
    \/ MainReadActive \/ MainCheckPause \/ MainStorePause \/ MainReport
    \/ MainUsbStopped \/ MainExit

--------------------------------------------------------------------------
(* The USB worker thread. *)

\* The head of its loop: leave, or forget an old recovery request and initialize.
WorkerHead ==
    /\ usb.worker = "head"
    /\ usb' = IF usb.running THEN [usb EXCEPT !.worker = "opening", !.recovery = FALSE]
              ELSE [usb EXCEPT !.worker = "gone"]
    /\ UNCHANGED <<alive, port, answer, service, client, main>>

WorkerOpened ==
    /\ usb.worker = "opening"
    /\ usb' = [usb EXCEPT !.worker = "run", !.initialized = TRUE, !.first = FALSE]
    /\ UNCHANGED <<alive, port, answer, service, client, main>>

\* A first attempt that fails ends the thread, a later one is repeated.
WorkerOpenFails ==
    /\ usb.worker = "opening"
    /\ usb' = IF usb.first
              THEN [usb EXCEPT !.worker = "gone", !.initialized = FALSE, !.running = FALSE]
              ELSE [usb EXCEPT !.worker = "head", !.initialized = FALSE]
    /\ UNCHANGED <<alive, port, answer, service, client, main>>

\* request_recovery, from a transfer callback on the worker's run loop.
WorkerTransferFails ==
    /\ usb.worker = "run"
    /\ ~usb.recovery
    /\ usb' = [usb EXCEPT !.recovery = TRUE]
    /\ UNCHANGED <<alive, port, answer, service, client, main>>

WorkerLeaves ==
    /\ usb.worker = "run"
    /\ usb.recovery \/ ~usb.running
    /\ usb' = [usb EXCEPT !.worker = "head", !.initialized = FALSE]
    /\ UNCHANGED <<alive, port, answer, service, client, main>>

WorkerStep == WorkerHead \/ WorkerOpened \/ WorkerOpenFails \/ WorkerLeaves

==========================================================================
