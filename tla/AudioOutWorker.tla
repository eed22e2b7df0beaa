--------------------------- MODULE AudioOutWorker ---------------------------
(***************************************************************************)
(* The isochronous output worker, its transfer slots, and the part of      *)
(* AudioTransportRuntime::workerMain that starts, replaces and shuts it    *)
(* down.  Everything here runs on the runtime's thread; the USB stack      *)
(* finishes transfers on its own, and their callbacks run whenever the     *)
(* thread is inside CFRunLoopRunInMode: in the runtime's loop, or nested   *)
(* in stop() while it drains.                                              *)
(*                                                                         *)
(* The session stays open for the whole life of the runtime (the driver    *)
(* closes it after AudioTransportRuntime::stop returned), so interface()   *)
(* is never null here.  PCM content and packet sizes are left out.         *)
(***************************************************************************)
EXTENDS Integers, FiniteSets

CONSTANT SlotCount     \* AudioOutTransferSlots::kSlotCount

ASSUME SlotAssumption == SlotCount \in Nat \ {0}

VARIABLES
  worker,         \* the AudioOutWorker's flags
  inUse,          \* AudioOutTransferSlots: reserved slots
  inFlight,       \*   and its counter
  buffers,        \* slots whose data and frame list are allocated
  usb,            \* slot -> what the USB stack has of it (external)
  workerThread,         \* the runtime thread: where it is and why
  workerStopRequested,  \* stopRequested_
  current,        \* session_.isCurrentDevice() (external)
  terminated      \* std::terminate was called

workerVars == <<worker, inUse, inFlight, buffers, usb, workerThread, workerStopRequested, current,
                terminated>>

Slots == 0..(SlotCount - 1)

\* A worker that was constructed and not started.
NewWorker == [initialized |-> FALSE, running |-> FALSE, accepting |-> TRUE, sourceAdded |-> FALSE]

Pending == {s \in Slots : usb[s] # "none"}

\* thread.pc: "start" before output_->start(), "loop" in the run loop of the
\* runtime, "drain" in the run loop of stop(), "stopped" when stop() returned,
\* "swap" between the old worker and its replacement, "ended".
\* thread.goal: why the worker is being started or stopped.  thread.result: ok
\* or the first error of the stop() in progress.
WorkerAt(pc, goal) == [pc |-> pc, goal |-> goal, result |-> "ok"]

WorkerInit ==
  /\ worker = NewWorker
  /\ inUse = {} /\ inFlight = 0 /\ buffers = {}
  /\ usb = [s \in Slots |-> "none"]
  /\ workerThread = WorkerAt("start", "launch")
  /\ workerStopRequested = FALSE
  /\ current = TRUE
  /\ terminated = FALSE
-----------------------------------------------------------------------------
(* stop(), entered with `w` and the slots as they are.                     *)

\* Faulty variant: no drain when AbortPipe reported an error.
StopWithoutDrain(goal, w, flight) ==
  IF ~w.initialized
  THEN worker' = w /\ workerThread' = WorkerAt("stopped", goal)
  ELSE /\ worker' = [w EXCEPT !.running = FALSE, !.accepting = FALSE]
       /\ \E result \in {"ok", "error"} :
            /\ flight = 0 => result = "ok"
            /\ workerThread' = [pc |-> IF flight # 0 /\ result = "ok" THEN "drain" ELSE "release",
                          goal |-> goal, result |-> result]

\* Faulty variant: the event source is removed before the drain.
StopRemovingSourceFirst(goal, w, flight) ==
  IF ~w.initialized
  THEN worker' = w /\ workerThread' = WorkerAt("stopped", goal)
  ELSE /\ worker' = [w EXCEPT !.running = FALSE, !.accepting = FALSE, !.sourceAdded = FALSE]
       /\ workerThread' = WorkerAt(IF flight # 0 THEN "drain" ELSE "release", goal)

\* Up to the drain loop.  AbortPipe may fail; the drain happens all the same.
Stop(goal, w, flight) ==
  IF ~w.initialized
  THEN worker' = w /\ workerThread' = WorkerAt("stopped", goal)
  ELSE /\ worker' = [w EXCEPT !.running = FALSE, !.accepting = FALSE]
       /\ \E result \in {"ok", "error"} :
            /\ flight = 0 => result = "ok"
            /\ workerThread' = [pc |-> IF flight # 0 THEN "drain" ELSE "release",
                          goal |-> goal, result |-> result]

WorkerDrainTimeout ==
  /\ workerThread.pc = "drain" /\ inFlight # 0
  /\ workerThread' = [workerThread EXCEPT !.pc = "stopped", !.result = "timeout"]
  /\ UNCHANGED <<worker, inUse, inFlight, buffers, usb, workerStopRequested, current, terminated>>

DrainDone ==
  /\ workerThread.pc = "drain" /\ inFlight = 0
  /\ workerThread' = [workerThread EXCEPT !.pc = "release"]
  /\ UNCHANGED <<worker, inUse, inFlight, buffers, usb, workerStopRequested, current, terminated>>

\* releaseEvents and releaseBuffers run whatever failed before; the first error
\* is the one returned, and only what was still held can fail.
ReleaseAndReturn ==
  /\ workerThread.pc = "release"
  /\ \E failed \in BOOLEAN :
       /\ failed => worker.sourceAdded \/ buffers # {}
       /\ workerThread' = [workerThread EXCEPT !.pc = "stopped",
                       !.result = IF workerThread.result = "ok" /\ failed THEN "error" ELSE @]
  /\ worker' = [worker EXCEPT !.sourceAdded = FALSE]
  /\ buffers' = {}
  /\ UNCHANGED <<inUse, inFlight, usb, workerStopRequested, current, terminated>>
-----------------------------------------------------------------------------
(* start(): buffers, event source, one transfer per slot.                  *)

StartFailsBeforeSubmitting ==
  /\ workerThread.pc = "start"
  /\ workerThread' = WorkerAt(IF workerThread.goal = "launch" THEN "stopped" ELSE "loop",
                  IF workerThread.goal = "launch" THEN "abandon" ELSE "serve")
  /\ UNCHANGED <<worker, inUse, inFlight, buffers, usb, workerStopRequested, current, terminated>>

\* The first n submissions succeed, one after the other, into slots 0..n-1.
WorkerStartSubmits(n) ==
  /\ workerThread.pc = "start"
  /\ inUse' = 0..(n - 1) /\ inFlight' = n
  /\ usb' = [s \in Slots |-> IF s < n THEN "busy" ELSE "none"]
  /\ buffers' = Slots
  /\ LET started == [initialized |-> TRUE, running |-> TRUE, accepting |-> TRUE, sourceAdded |-> TRUE]
     IN  IF n = SlotCount
         THEN worker' = started /\ workerThread' = WorkerAt("loop", "serve")
         ELSE Stop(IF workerThread.goal = "launch" THEN "launchFailed" ELSE "restartFailed", started, n)
  /\ UNCHANGED <<workerStopRequested, current, terminated>>
-----------------------------------------------------------------------------
(* Completion callbacks.                                                   *)

\* The USB stack finishes a transfer: sent, or failed (device gone, aborted,
\* short packet).  It finishes every transfer it accepted.
UsbFinish(s, status) ==
  /\ usb[s] = "busy"
  /\ usb' = [usb EXCEPT ![s] = status]
  /\ UNCHANGED <<worker, inUse, inFlight, buffers, workerThread, workerStopRequested, current, terminated>>

LowestFree(used) == CHOOSE s \in Slots \ used : \A t \in Slots \ used : s <= t

\* usb once the callback of the last transfer outside `kept` is over.
UsbKeeping(kept) == [t \in Slots |-> IF t \in kept THEN usb[t] ELSE "none"]

\* submitNext() from a callback: reserve the lowest free slot, fill it, submit;
\* a worker that does not run, a packet that cannot be built and a refused write
\* all leave the worker halted and the slot free.
Resubmit(freed, flight) ==
  LET s == LowestFree(freed)
  IN  \/ /\ worker.running /\ worker.accepting
         /\ inUse' = freed \cup {s} /\ inFlight' = flight + 1
         /\ usb' = [UsbKeeping(freed) EXCEPT ![s] = "busy"]
         /\ UNCHANGED worker
      \/ /\ inUse' = freed /\ inFlight' = flight
         /\ usb' = UsbKeeping(freed)
         /\ worker' = [worker EXCEPT !.running = FALSE, !.accepting = FALSE]

\* complete() lowers the counter only if the slot was in use.
Complete(s) == IF s \in inUse THEN inFlight - 1 ELSE inFlight

didComplete(s) ==
  /\ workerThread.pc \in {"loop", "drain"}
  /\ worker.sourceAdded
  /\ LET freed == inUse \ {s}
     IN  \/ usb[s] = "sent" /\ Resubmit(freed, Complete(s))
         \/ /\ usb[s] = "failed"
            /\ inUse' = freed /\ inFlight' = Complete(s)
            /\ usb' = UsbKeeping(freed)
            /\ worker' = [worker EXCEPT !.running = FALSE, !.accepting = FALSE]
  /\ UNCHANGED <<buffers, workerThread, workerStopRequested, current, terminated>>
-----------------------------------------------------------------------------
(* The runtime's loop.                                                     *)

\* Faulty variant: a replacement that could not be started is not retried.
RetryStopOnlyInitialized ==
  /\ workerThread = WorkerAt("loop", "serve")
  /\ ~worker.running /\ worker.initialized /\ current /\ ~workerStopRequested
  /\ Stop("retry", worker, inFlight)
  /\ UNCHANGED <<inUse, inFlight, buffers, usb, workerStopRequested, current, terminated>>

\* The worker stopped by itself and the device is still the session's.
RetryStop ==
  /\ workerThread = WorkerAt("loop", "serve")
  /\ ~worker.running /\ current /\ ~workerStopRequested
  /\ Stop("retry", worker, inFlight)
  /\ UNCHANGED <<inUse, inFlight, buffers, usb, workerStopRequested, current, terminated>>

\* Faulty variant: the old worker is replaced whatever its stop() returned.
RetryReturnsIgnoringResult ==
  /\ workerThread.pc = "stopped" /\ workerThread.goal = "retry"
  /\ workerThread' = WorkerAt("swap", "serve")
  /\ UNCHANGED <<worker, inUse, inFlight, buffers, usb, workerStopRequested, current, terminated>>

RetryReturns ==
  /\ workerThread.pc = "stopped" /\ workerThread.goal = "retry"
  /\ workerThread' = WorkerAt(IF workerThread.result = "ok" THEN "swap" ELSE "loop", "serve")
  /\ UNCHANGED <<worker, inUse, inFlight, buffers, usb, workerStopRequested, current, terminated>>

\* The destructor of a worker that runs or has transfers in flight terminates.
Destroy == terminated' = (terminated \/ worker.running \/ inFlight # 0)

\* The replacement takes the place of the old worker, which is destroyed.
WorkerSwap ==
  /\ workerThread.pc = "swap"
  /\ Destroy
  /\ worker' = NewWorker
  /\ inUse' = {} /\ inFlight' = 0 /\ buffers' = {}
  /\ workerThread' = WorkerAt("start", "restart")
  /\ UNCHANGED <<usb, workerStopRequested, current>>

SwapAllocationFails ==
  /\ workerThread.pc = "swap"
  /\ workerThread' = WorkerAt("loop", "serve")
  /\ UNCHANGED <<worker, inUse, inFlight, buffers, usb, workerStopRequested, current, terminated>>

\* start() returned its error after its own stop().
FailedStartReturns ==
  /\ workerThread.pc = "stopped" /\ workerThread.goal \in {"launchFailed", "restartFailed"}
  /\ workerThread' = WorkerAt("loop", IF workerThread.goal = "launchFailed" THEN "abandon" ELSE "serve")
  /\ UNCHANGED <<worker, inUse, inFlight, buffers, usb, workerStopRequested, current, terminated>>

\* stop() of the runtime's shutdown, or of a start that is given up.
ShutdownStop ==
  /\ workerThread.pc = "loop"
  /\ workerThread.goal \in {"abandon", "shutdown"} \/ workerStopRequested
  /\ Stop(IF workerThread.goal = "abandon" THEN "abandon" ELSE "shutdown", worker, inFlight)
  /\ UNCHANGED <<inUse, inFlight, buffers, usb, workerStopRequested, current, terminated>>

\* Repeat until stop() succeeds, then output_.reset().
ShutdownReturns ==
  /\ workerThread.pc = "stopped" /\ workerThread.goal \in {"abandon", "shutdown"}
  /\ \/ /\ workerThread.result # "ok"
        /\ workerThread' = WorkerAt("loop", workerThread.goal)
        /\ UNCHANGED <<worker, inUse, inFlight, buffers, terminated>>
     \/ /\ workerThread.result = "ok"
        /\ Destroy
        /\ worker' = NewWorker /\ inUse' = {} /\ inFlight' = 0 /\ buffers' = {}
        /\ workerThread' = WorkerAt("ended", workerThread.goal)
  /\ UNCHANGED <<usb, workerStopRequested, current>>
-----------------------------------------------------------------------------
(* The driver: AudioTransportRuntime::stop once start returned, and start. *)

RequestStop ==
  /\ workerThread.goal \notin {"launch", "launchFailed", "abandon"} /\ workerThread.pc # "ended"
  /\ ~workerStopRequested
  /\ workerStopRequested' = TRUE
  /\ UNCHANGED <<worker, inUse, inFlight, buffers, usb, workerThread, current, terminated>>

WorkerLaunch ==
  /\ workerThread.pc = "ended"
  /\ workerStopRequested' = FALSE
  /\ workerThread' = WorkerAt("start", "launch")
  /\ UNCHANGED <<worker, inUse, inFlight, buffers, usb, current, terminated>>

\* The device is unplugged, or is enumerated again under the same ID.
DeviceChanges ==
  /\ current' = ~current
  /\ UNCHANGED <<worker, inUse, inFlight, buffers, usb, workerThread, workerStopRequested, terminated>>

WorkerThreadStep ==
  \/ WorkerDrainTimeout \/ DrainDone \/ ReleaseAndReturn
  \/ StartFailsBeforeSubmitting
  \/ \E n \in 0..SlotCount : WorkerStartSubmits(n)
  \/ RetryStop \/ RetryReturns \/ WorkerSwap \/ SwapAllocationFails
  \/ FailedStartReturns \/ ShutdownStop \/ ShutdownReturns

WorkerNext ==
  \/ WorkerThreadStep
  \/ \E s \in Slots : didComplete(s)
  \/ \E s \in Slots, status \in {"sent", "failed"} : UsbFinish(s, status)
  \/ RequestStop \/ WorkerLaunch \/ DeviceChanges

WorkerSpec == WorkerInit /\ [][WorkerNext]_workerVars

\* The thread keeps running, and the USB stack finishes what it accepted.  A
\* callback that is due is delivered if the thread enters a run loop again and
\* again: CFRunLoopRunInMode handles a ready source before it returns.
Fairness ==
  /\ WF_workerVars(WorkerThreadStep)
  /\ \A s \in Slots : /\ SF_workerVars(didComplete(s))
                      /\ WF_workerVars(\E status \in {"sent", "failed"} : UsbFinish(s, status))

WorkerFairSpec == WorkerSpec /\ Fairness
-----------------------------------------------------------------------------
\* The types; the u32 counter inFlight of AudioOutTransferSlots never exceeds the slots.
WorkerTypeOK ==
  /\ worker \in [initialized : BOOLEAN, running : BOOLEAN, accepting : BOOLEAN, sourceAdded : BOOLEAN]
  /\ inUse \subseteq Slots /\ buffers \subseteq Slots
  /\ inFlight \in 0..SlotCount
  /\ usb \in [Slots -> {"none", "busy", "sent", "failed"}]
  /\ workerThread \in [pc : {"start", "loop", "drain", "release", "stopped", "swap", "ended"},
                       goal : {"launch", "serve", "restart", "retry", "launchFailed", "restartFailed",
                               "abandon", "shutdown"},
                       result : {"ok", "error", "timeout"}]
  /\ workerStopRequested \in BOOLEAN /\ current \in BOOLEAN /\ terminated \in BOOLEAN

\* The counter stop() and the destructor rely on is exact: it counts the
\* reserved slots, and those are the transfers whose callback is still due.
InFlightIsExact == WorkerTypeOK /\ inUse = Pending /\ inFlight = Cardinality(Pending)

\* A transfer never outlives its buffers, nor the event source through which its
\* callback arrives, nor its worker: the counter is exact, stop() releases both only
\* after a complete drain, and the destructor never finds the worker running or
\* transfers in flight on the replacement path, on the failed start and on shutdown.
ResourcesOutliveTransfers ==
  /\ InFlightIsExact
  /\ Pending # {} => buffers = Slots /\ worker.sourceAdded /\ worker.initialized
  /\ ~terminated

\* AudioTransportRuntime::stop returns: the shutdown loop ends although stop()
\* may time out or report errors on the way.
ShutdownEnds == workerStopRequested ~> workerThread.pc = "ended"

\* While the device stays and nobody stops the runtime, a worker that halted is
\* replaced again and again until one runs.
HaltedWorkerIsReplaced ==
  <>[](current /\ ~workerStopRequested /\ workerThread.goal \notin {"launch", "launchFailed", "abandon"}
         /\ workerThread.pc # "ended")
    => []<>(worker.running \/ workerThread.pc = "swap")

Contract == INSTANCE EndpointContract
              WITH MaxInFlight <- SlotCount, held <- worker.sourceAdded,
                   active <- worker.running, inFlight <- Cardinality(Pending)

\* The worker and its replacements keep the promise all endpoint workers make.
KeepsContract == Contract!ContractSpec
=============================================================================
