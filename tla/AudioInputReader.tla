-------------------------- MODULE AudioInputReader --------------------------
(***************************************************************************)
(* The bulk capture reader, the auxiliary event source it shares with the  *)
(* feedback reader, and the part of AudioTransportRuntime::workerMain that *)
(* starts and stops it on demand.  One thread; the USB stack finishes      *)
(* reads on its own, in any order, and callbacks run while the thread is   *)
(* in the runtime's run loop or in the one nested in stop().               *)
(*                                                                         *)
(* The session stays open while the runtime lives, so its interface and    *)
(* pipe are present.  The samples are left out.                            *)
(***************************************************************************)
EXTENDS Integers, FiniteSets

CONSTANTS
  SlotCount,        \* kSlotCount
  SequenceModulus,  \* sequence numbers are unsigned: 2^64 in the code
  Statuses,         \* completion statuses the USB stack may report
  MaxEventClients   \* bound on the event-source count

ASSUME ReaderAssumption ==
  /\ SlotCount \in Nat \ {0}
  /\ SequenceModulus \in Nat /\ SlotCount < SequenceModulus
  /\ Statuses \subseteq {"ok", "error", "stalled", "gone"}
  /\ MaxEventClients \in Nat /\ MaxEventClients >= 2

VARIABLES
  reader,        \* session_ set, running_, eventsAcquired_
  slot,          \* slot -> state, status, sequence
  buffers,       \* slots whose data is allocated
  nextSubmit, nextProcess,   \* the two sequence counters
  eventClients,  \* NS6DeviceSession::auxiliaryEventClients_
  feedback,      \* the feedback reader holds the event source too
  thread,        \* the runtime thread: pc, goal, result, and where a callback returns to
  inputRunning,  \* workerMain's local flag
  want,          \* inputEnabled_
  stopRequested, \* stopRequested_
  published      \* ghost: sequence of the last block given to the engine

vars == <<reader, slot, buffers, nextSubmit, nextProcess, eventClients, feedback, thread,
          inputRunning, want, stopRequested, published>>

Slots == 0..(SlotCount - 1)

Increment(q) == (q + 1) % SequenceModulus

\* A read is "busy" in the USB stack, "due" when its callback is, "completed"
\* when it waits for an earlier one to be processed.
InFlight == {s \in Slots : slot[s].state \in {"busy", "due"}}
Completed == {s \in Slots : slot[s].state = "completed"}

\* The status and sequence of an idle slot are dead: submit() overwrites them.
IdleSlot == [state |-> "idle", status |-> "ok", sequence |-> 0]
OffReader == [session |-> FALSE, running |-> FALSE, events |-> FALSE]
At(pc, goal) == [pc |-> pc, goal |-> goal, result |-> "ok", back |-> "loop"]

Init ==
  /\ reader = OffReader
  /\ slot = [s \in Slots |-> IdleSlot]
  /\ buffers = {}
  /\ nextSubmit = 0 /\ nextProcess = 0
  /\ feedback \in BOOLEAN
  /\ eventClients = IF feedback THEN 1 ELSE 0
  /\ thread = At("loop", "launch")
  /\ inputRunning = FALSE
  /\ want \in BOOLEAN
  /\ stopRequested = FALSE
  /\ published = SequenceModulus - 1
-----------------------------------------------------------------------------
(* start()                                                                 *)

\* Where a failed start() leaves the runtime: the launch is given up, the loop
\* goes on and will try again.
FailedStart == IF thread.goal = "launch" THEN At("loop", "abandon") ELSE At("loop", "serve")

StartRefused ==
  /\ thread.pc = "start"
  /\ reader.running \/ InFlight # {}
  /\ thread' = FailedStart
  /\ inputRunning' = FALSE
  /\ UNCHANGED <<reader, slot, buffers, nextSubmit, nextProcess, eventClients, feedback, want,
                 stopRequested, published>>

\* No memory, no event source, or the halt of the pipe cannot be cleared; the
\* event source is given back in the last case.
StartFails ==
  /\ thread.pc = "start"
  /\ ~reader.running /\ InFlight = {}
  /\ thread' = FailedStart
  /\ inputRunning' = FALSE
  /\ reader' \in {OffReader, [OffReader EXCEPT !.events = reader.events]}
  /\ eventClients' = eventClients
  /\ buffers' = {}
  /\ nextSubmit' = 0 /\ nextProcess' = 0
  /\ published' = SequenceModulus - 1
  /\ UNCHANGED <<slot, feedback, want, stopRequested>>

\* Up to the drain loop of stop(), entered with flight reads in flight.
StopFrom(goal, flight) ==
  \E result \in {"ok", "error"} :
    /\ flight = {} => result = "ok"
    /\ thread' = [At(IF flight = {} THEN "release" ELSE "drain", goal) EXCEPT !.result = result]

\* The first n reads are submitted, the next one is refused unless n is all.
StartSubmits(n) ==
  /\ thread.pc = "start"
  /\ ~reader.running /\ InFlight = {}
  /\ eventClients < MaxEventClients
  /\ buffers' = Slots
  /\ eventClients' = eventClients + 1
  /\ slot' = [s \in Slots |-> IF s < n THEN [state |-> "busy", status |-> "ok", sequence |-> s]
                              ELSE slot[s]]
  /\ nextSubmit' = n /\ nextProcess' = 0
  /\ published' = SequenceModulus - 1
  /\ reader' = [session |-> TRUE, running |-> n = SlotCount, events |-> TRUE]
  /\ \/ /\ n = SlotCount
        /\ thread' = At("loop", "serve") /\ inputRunning' = TRUE
     \/ /\ n < SlotCount
        /\ StopFrom(IF thread.goal = "launch" THEN "launchFailed" ELSE "startFailed", 0..(n - 1))
        /\ inputRunning' = FALSE
  /\ UNCHANGED <<feedback, want, stopRequested>>
-----------------------------------------------------------------------------
(* stop()                                                                  *)

Stop(goal) ==
  IF ~reader.session
  THEN thread' = At("stopped", goal) /\ UNCHANGED reader
  ELSE reader' = [reader EXCEPT !.running = FALSE] /\ StopFrom(goal, InFlight)

\* Faulty variant: after the deadline the resources are released all the same.
DrainTimeoutReleasing ==
  /\ thread.pc = "drain" /\ InFlight # {}
  /\ thread' = [thread EXCEPT !.pc = "release", !.result = "timeout"]
  /\ UNCHANGED <<reader, slot, buffers, nextSubmit, nextProcess, eventClients, feedback,
                 inputRunning, want, stopRequested, published>>

DrainTimeout ==
  /\ thread.pc = "drain" /\ InFlight # {}
  /\ thread' = [thread EXCEPT !.pc = "stopped", !.result = "timeout"]
  /\ UNCHANGED <<reader, slot, buffers, nextSubmit, nextProcess, eventClients, feedback,
                 inputRunning, want, stopRequested, published>>

DrainDone ==
  /\ thread.pc = "drain" /\ InFlight = {}
  /\ thread' = [thread EXCEPT !.pc = "release"]
  /\ UNCHANGED <<reader, slot, buffers, nextSubmit, nextProcess, eventClients, feedback,
                 inputRunning, want, stopRequested, published>>

\* releaseAuxiliaryEvents fails only when no client is counted.
ReleaseAndReturn ==
  /\ thread.pc = "release"
  /\ thread' = [thread EXCEPT !.pc = "stopped",
                  !.result = IF @ = "ok" /\ reader.events /\ eventClients = 0 THEN "error" ELSE @]
  /\ eventClients' = IF reader.events /\ eventClients > 0 THEN eventClients - 1 ELSE eventClients
  /\ slot' = [s \in Slots |-> IF s \in Completed THEN IdleSlot ELSE slot[s]]
  /\ buffers' = {}
  /\ reader' = OffReader
  /\ UNCHANGED <<nextSubmit, nextProcess, feedback, inputRunning, want, stopRequested, published>>
-----------------------------------------------------------------------------
(* Callbacks                                                               *)

UsbFinish(s, status) ==
  /\ slot[s].state = "busy"
  /\ slot' = [slot EXCEPT ![s].state = "due", ![s].status = status]
  /\ UNCHANGED <<reader, buffers, nextSubmit, nextProcess, eventClients, feedback, thread,
                 inputRunning, want, stopRequested, published>>

\* The source delivers callbacks while it has a client and a run loop runs.
didComplete(s) ==
  /\ thread.pc \in {"loop", "drain"}
  /\ eventClients > 0
  /\ slot[s].state = "due"
  /\ slot' = [slot EXCEPT ![s].state = "completed"]
  /\ thread' = [thread EXCEPT !.pc = "process", !.back = thread.pc]
  /\ UNCHANGED <<reader, buffers, nextSubmit, nextProcess, eventClients, feedback, inputRunning,
                 want, stopRequested, published>>

\* Faulty variant: completed reads are processed in the order they come back.
IsNextCompleted(s) == slot[s].state = "completed"

\* The completed read whose turn it is.
IsNext(s) == slot[s].state = "completed" /\ slot[s].sequence = nextProcess

\* Whether the reader still runs after a read with this status; clearing a
\* stall may fail.
RunningAfter(status) ==
  CASE status = "gone" -> {FALSE}
    [] status = "stalled" -> {FALSE, reader.running}
    [] OTHER -> {reader.running}

\* submit() of the slot just processed; a refusal halts the reader.
Submit(s) ==
  \/ /\ slot' = [slot EXCEPT ![s] = [state |-> "busy", status |-> "ok", sequence |-> nextSubmit]]
     /\ nextSubmit' = Increment(nextSubmit)
     /\ reader' = [reader EXCEPT !.running = TRUE]
  \/ /\ slot' = [slot EXCEPT ![s] = IdleSlot]
     /\ UNCHANGED nextSubmit
     /\ reader' = [reader EXCEPT !.running = FALSE]

\* One turn of drainCompletions().
ProcessNext(s) ==
  /\ thread.pc = "process"
  /\ IsNext(s)
  /\ published' = IF slot[s].status = "ok" THEN slot[s].sequence ELSE published
  /\ nextProcess' = Increment(nextProcess)
  /\ \E running \in RunningAfter(slot[s].status) :
       IF running THEN Submit(s)
       ELSE /\ slot' = [slot EXCEPT ![s] = IdleSlot]
            /\ reader' = [reader EXCEPT !.running = FALSE]
            /\ UNCHANGED nextSubmit
  /\ UNCHANGED <<buffers, eventClients, feedback, thread, inputRunning, want, stopRequested>>

ProcessDone ==
  /\ thread.pc = "process"
  /\ \A s \in Slots : ~IsNext(s)
  /\ thread' = [thread EXCEPT !.pc = thread.back]
  /\ UNCHANGED <<reader, slot, buffers, nextSubmit, nextProcess, eventClients, feedback,
                 inputRunning, want, stopRequested, published>>
-----------------------------------------------------------------------------
(* The runtime                                                             *)

\* Starting the reader is part of the launch only if input is wanted by then.
LaunchInput ==
  /\ thread = At("loop", "launch")
  /\ thread' = IF want THEN At("start", "launch") ELSE At("loop", "serve")
  /\ UNCHANGED <<reader, slot, buffers, nextSubmit, nextProcess, eventClients, feedback,
                 inputRunning, want, stopRequested, published>>

StartWanted ==
  /\ thread = At("loop", "serve") /\ ~stopRequested
  /\ want /\ ~inputRunning
  /\ thread' = At("start", "serve")
  /\ UNCHANGED <<reader, slot, buffers, nextSubmit, nextProcess, eventClients, feedback,
                 inputRunning, want, stopRequested, published>>

\* start() returned the refusal after its own stop().
FailedStartReturns ==
  /\ thread.pc = "stopped" /\ thread.goal \in {"launchFailed", "startFailed"}
  /\ thread' = At("loop", IF thread.goal = "launchFailed" THEN "abandon" ELSE "serve")
  /\ UNCHANGED <<reader, slot, buffers, nextSubmit, nextProcess, eventClients, feedback,
                 inputRunning, want, stopRequested, published>>

\* Faulty variant: the flag is cleared and the reader is not stopped.
StopUnwantedInName ==
  /\ thread = At("loop", "serve") /\ ~stopRequested
  /\ ~want /\ inputRunning
  /\ inputRunning' = FALSE
  /\ UNCHANGED <<reader, slot, buffers, nextSubmit, nextProcess, eventClients, feedback, thread,
                 want, stopRequested, published>>

StopUnwanted ==
  /\ thread = At("loop", "serve") /\ ~stopRequested
  /\ ~want /\ inputRunning
  /\ Stop("unwanted")
  /\ UNCHANGED <<slot, buffers, nextSubmit, nextProcess, eventClients, feedback, inputRunning,
                 want, stopRequested, published>>

UnwantedReturns ==
  /\ thread.pc = "stopped" /\ thread.goal = "unwanted"
  /\ inputRunning' = (inputRunning /\ thread.result # "ok")
  /\ thread' = At("loop", "serve")
  /\ UNCHANGED <<reader, slot, buffers, nextSubmit, nextProcess, eventClients, feedback, want,
                 stopRequested, published>>

ShutdownStop ==
  /\ thread.pc = "loop"
  /\ thread.goal \in {"abandon", "shutdown"} \/ (thread.goal = "serve" /\ stopRequested)
  /\ Stop(IF thread.goal = "abandon" THEN "abandon" ELSE "shutdown")
  /\ UNCHANGED <<slot, buffers, nextSubmit, nextProcess, eventClients, feedback, inputRunning,
                 want, stopRequested, published>>

\* The reader is destroyed once stop() succeeded.
ShutdownReturns ==
  /\ thread.pc = "stopped" /\ thread.goal \in {"abandon", "shutdown"}
  /\ thread' = At(IF thread.result = "ok" THEN "ended" ELSE "loop", thread.goal)
  /\ UNCHANGED <<reader, slot, buffers, nextSubmit, nextProcess, eventClients, feedback,
                 inputRunning, want, stopRequested, published>>

setInputEnabled ==
  /\ thread.pc # "ended" /\ ~stopRequested
  /\ want' = ~want
  /\ UNCHANGED <<reader, slot, buffers, nextSubmit, nextProcess, eventClients, feedback, thread,
                 inputRunning, stopRequested, published>>

RequestStop ==
  /\ thread.goal \notin {"launch", "launchFailed", "abandon"} /\ thread.pc # "ended"
  /\ ~stopRequested
  /\ stopRequested' = TRUE
  /\ UNCHANGED <<reader, slot, buffers, nextSubmit, nextProcess, eventClients, feedback, thread,
                 inputRunning, want, published>>

\* The driver closes the session; a later StartIO opens one and launches anew.
Relaunch ==
  /\ thread.pc = "ended"
  /\ reader' = OffReader
  /\ slot' = [s \in Slots |-> IdleSlot]
  /\ buffers' = {}
  /\ nextSubmit' = 0 /\ nextProcess' = 0
  /\ feedback' \in BOOLEAN
  /\ eventClients' = IF feedback' THEN 1 ELSE 0
  /\ thread' = At("loop", "launch")
  /\ inputRunning' = FALSE
  /\ stopRequested' = FALSE
  /\ published' = SequenceModulus - 1
  /\ UNCHANGED want

ThreadStep ==
  \/ StartRefused \/ StartFails
  \/ \E n \in 0..SlotCount : StartSubmits(n)
  \/ DrainTimeout \/ DrainDone \/ ReleaseAndReturn
  \/ \E s \in Slots : ProcessNext(s)
  \/ ProcessDone
  \/ LaunchInput \/ StartWanted \/ FailedStartReturns
  \/ StopUnwanted \/ UnwantedReturns
  \/ ShutdownStop \/ ShutdownReturns

Next ==
  \/ ThreadStep
  \/ \E s \in Slots : didComplete(s)
  \/ \E s \in Slots, status \in Statuses : UsbFinish(s, status)
  \/ setInputEnabled \/ RequestStop \/ Relaunch

Spec == Init /\ [][Next]_vars

\* The thread keeps running, every entry of the run loop handles a ready source
\* before it returns, it returns after 100 ms at most, and a read ends: the
\* controller streams the capture data all the time, and an aborted read ends.
Fairness ==
  /\ WF_vars(ThreadStep)
  /\ SF_vars(StartWanted \/ StopUnwanted \/ ShutdownStop)
  /\ \A s \in Slots : /\ SF_vars(didComplete(s))
                      /\ WF_vars(\E status \in Statuses : UsbFinish(s, status))

FairSpec == Spec /\ Fairness
-----------------------------------------------------------------------------
Outstanding == InFlight \cup Completed
Serving == thread.goal \in {"serve", "startFailed", "unwanted"} /\ ~stopRequested

\* The types; both sequence counters wrap like the code's u64.
TypeOK ==
  /\ reader \in [session : BOOLEAN, running : BOOLEAN, events : BOOLEAN]
  /\ slot \in [Slots -> [state : {"idle", "busy", "due", "completed"},
                        status : {"ok", "error", "stalled", "gone"},
                        sequence : 0..(SequenceModulus - 1)]]
  /\ buffers \subseteq Slots
  /\ {nextSubmit, nextProcess, published} \subseteq 0..(SequenceModulus - 1)
  /\ eventClients \in 0..MaxEventClients /\ feedback \in BOOLEAN
  /\ thread \in [pc : {"loop", "start", "drain", "release", "stopped", "process", "ended"},
                 goal : {"launch", "serve", "launchFailed", "startFailed", "unwanted", "abandon",
                         "shutdown"},
                 result : {"ok", "error", "timeout"}, back : {"loop", "drain"}]
  /\ inputRunning \in BOOLEAN /\ want \in BOOLEAN /\ stopRequested \in BOOLEAN

\* The reads that are in flight or wait for their turn carry the numbers from
\* nextProcess up to nextSubmit, each once: drainCompletions can never miss the
\* read whose turn it is, over refused reads, late callbacks and restarts, and a
\* completed block waits only for an earlier read that is still in flight.
OutstandingIsContiguous ==
  LET n == Cardinality(Outstanding)
  IN  /\ TypeOK
      /\ {slot[s].sequence : s \in Outstanding} = {(nextProcess + k) % SequenceModulus : k \in 0..(n - 1)}
      /\ reader.session => nextSubmit = (nextProcess + n) % SequenceModulus
      /\ thread.pc # "process" /\ Completed # {} => InFlight # {}

\* Once a block reached the engine, no read submitted before it is outstanding:
\* out-of-order callbacks do not reorder the capture (drainCompletions).
BlocksInOrder ==
  [][published' # published =>
       \A s \in Outstanding' : (slot'[s].sequence - published') % SequenceModulus \in 1..SlotCount]_vars

\* No buffer is freed, and the event source is not given up, under a read, each of
\* which is accounted for; the reader is destroyed only when idle, so that its
\* destructor cannot terminate.
ResourcesOutliveReads ==
  /\ OutstandingIsContiguous
  /\ InFlight # {} => buffers = Slots /\ reader.session /\ eventClients > 0
  /\ thread.pc = "ended" => ~reader.running /\ InFlight = {}

\* "Bulk input reads run only while the separate input device has active clients":
\* once input stays unwanted the reads come to an end, timeouts included.
UnwantedInputStops == <>[](~want /\ Serving) => <>[](InFlight = {} /\ ~reader.running)

\* While input stays wanted, a reader that is not running is started again.
WantedInputIsServed ==
  <>[](want /\ Serving) => []<>(reader.running \/ thread.pc = "start")
=============================================================================
