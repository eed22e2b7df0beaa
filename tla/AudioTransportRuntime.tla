----------------------- MODULE AudioTransportRuntime -----------------------
(***************************************************************************)
(* The runtime that owns the four USB endpoints: its thread from launch to *)
(* shutdown, the caller that starts and stops it, the event sources the    *)
(* endpoints share, and the MIDI output thread.                            *)
(*                                                                         *)
(* An endpoint appears as EndpointContract has it: whether it holds its    *)
(* resources, whether it resubmits, and whether any request is in flight.  *)
(* AudioOutWorker, AudioInputReader and MIDIInputReader model three of     *)
(* them in detail; the feedback reader is modelled here.  The session      *)
(* stays open while the runtime lives.  The thread always has a run loop   *)
(* and can always be made, so the branches for the opposite are left out.  *)
(***************************************************************************)
EXTENDS Integers, Sequences

CONSTANT MaxEventClients   \* bound on the clients of an event source

ASSUME RuntimeAssumption == MaxEventClients \in Nat /\ MaxEventClients >= 2

VARIABLES
  ep,             \* endpoint -> held, active, flight
  events,         \* interface -> eventClients_, auxiliaryEventClients_
  writer,         \* MIDIOutputWriter: running_, and where its thread is
  forwarder,      \* LocalMIDIForwarder: the socket is open
  inputRunning,   \* workerMain's local flag
  thread,         \* the runtime's thread
  caller,         \* the driver's call: "idle", "starting", "up", "stopping"
  startResult,    \* startResult_, "none" until startComplete_
  stopRequested, inputEnabled, midiEnabled

flags == <<stopRequested, inputEnabled, midiEnabled>>
midiOut == <<writer, forwarder>>
call == <<caller, startResult>>
vars == <<ep, events, writer, forwarder, inputRunning, thread, caller, startResult,
          stopRequested, inputEnabled, midiEnabled>>

Endpoints == {"output", "feedback", "input", "midi"}
Interfaces == {"main", "auxiliary"}
InterfaceOf(e) == IF e \in {"output", "midi"} THEN "main" ELSE "auxiliary"

OffEndpoint == [held |-> FALSE, active |-> FALSE, flight |-> FALSE]
NoWriter == [running |-> FALSE, at |-> "off"]

\* thread.at: what the thread does next, or the run loop it is in ("loop", "pause",
\* "drain").  thread.e and thread.why: the endpoint, and who called its start or
\* stop.  thread.todo and thread.failed: of the shutdown, the stops still to call in
\* this pass, and the endpoints whose last stop failed.
At(at, e, why) == [at |-> at, e |-> e, why |-> why, todo |-> <<>>, failed |-> {}]
Step(at) == At(at, "output", "none")

Init ==
  /\ ep = [e \in Endpoints |-> OffEndpoint]
  /\ events = [i \in Interfaces |-> 0]
  /\ writer = NoWriter /\ forwarder = FALSE
  /\ inputRunning = FALSE
  /\ thread = Step("none")
  /\ caller = "idle" /\ startResult = "none"
  /\ stopRequested = FALSE /\ inputEnabled = FALSE /\ midiEnabled = FALSE
-----------------------------------------------------------------------------
(* Where the thread goes next                                              *)

\* The head of the serving loop.
Head_ == Step(IF stopRequested THEN "shutdown" ELSE "loop")

\* The check of the serving loop that follows the one of endpoint e.
AfterCheck(e) ==
  CASE e = "output" -> Step("checkInput")
    [] e = "input" -> Step("checkMidi")
    [] OTHER -> Head_

\* The order of the stops in the first pass; the following ones repeat those that failed.
FirstPass(why) == IF why = "abandon" THEN <<"midi", "input", "output", "feedback">>
                                     ELSE <<"midi", "input", "feedback", "output">>
Repeated(e, failed) == IF e \in failed THEN <<e>> ELSE <<>>
RetryPass(why, failed) ==
  Repeated("input", failed) \o Repeated("midi", failed) \o
  (IF why = "abandon" THEN Repeated("output", failed) \o Repeated("feedback", failed)
                      ELSE Repeated("feedback", failed) \o Repeated("output", failed))

\* Faulty variant: the first pass of the shutdown is the only one.
PassOnce(why, todo, failed) ==
  IF todo = <<>> THEN At("reset", "output", why)
  ELSE [At("stop", Head(todo), why) EXCEPT !.todo = Tail(todo), !.failed = failed]

\* A pass goes on, pauses in the run loop before the next, or was the last.
Pass(why, todo, failed) ==
  CASE todo # <<>> -> [At("stop", Head(todo), why) EXCEPT !.todo = Tail(todo), !.failed = failed]
    [] todo = <<>> /\ failed # {} -> [At("pause", "output", why) EXCEPT !.failed = failed]
    [] OTHER -> At("reset", "output", why)

\* stop() of e returned to its caller.
Returned(e, why, ok) ==
  CASE why = "launch" /\ e = "feedback" -> At("stop", "feedback", "drainFeedback")
    [] why = "launch" /\ e = "midi" -> Step("publish")
    [] why = "launch" /\ e \in {"output", "input"} -> At("writerStop", e, "abandon")
    [] why = "drainFeedback" -> IF ok THEN At("launch", "input", "launch")
                                ELSE At("writerStop", e, "abandon")
    [] why = "retry" -> IF ok THEN Step("swap") ELSE AfterCheck("output")
    [] why = "recover" -> Step("startMidi")
    [] why \in {"serve", "unwanted"} -> AfterCheck(e)
    [] OTHER -> Pass(why, thread.todo, IF ok THEN thread.failed \ {e} ELSE thread.failed \cup {e})
-----------------------------------------------------------------------------
(* stop() of an endpoint                                                   *)

\* releaseEvents and releaseAuxiliaryEvents count, and the buffers are freed.
Release(e) ==
  /\ ep' = [ep EXCEPT ![e].held = FALSE, ![e].active = FALSE]
  /\ events' = [events EXCEPT ![InterfaceOf(e)] = @ - 1]

\* An endpoint that holds nothing has nothing to stop.  Freeing the buffers may
\* report an error; they are gone all the same.
StopEndpoint ==
  LET e == thread.e IN
  /\ thread.at = "stop"
  /\ \/ /\ ~ep[e].held
        /\ thread' = Returned(e, thread.why, TRUE)
        /\ inputRunning' = (inputRunning /\ thread.why # "unwanted")
        /\ UNCHANGED <<ep, events>>
     \/ /\ ep[e].held /\ ep[e].flight
        /\ ep' = [ep EXCEPT ![e].active = FALSE]
        /\ thread' = [thread EXCEPT !.at = "drain"]
        /\ UNCHANGED <<events, inputRunning>>
     \/ /\ ep[e].held /\ ~ep[e].flight
        /\ Release(e)
        /\ \E ok \in IF e \in {"input", "midi"} THEN {TRUE} ELSE BOOLEAN :
             thread' = Returned(e, thread.why, ok)
        /\ inputRunning' = (inputRunning /\ thread.why # "unwanted")
  /\ UNCHANGED <<midiOut, call, flags>>

\* The run loop of stop() ends with nothing in flight; AbortPipe may have failed.
Drained ==
  LET e == thread.e IN
  /\ thread.at = "drain" /\ ~ep[e].flight
  /\ Release(e)
  /\ \E ok \in BOOLEAN :
       /\ thread' = Returned(e, thread.why, ok)
       /\ inputRunning' = (inputRunning /\ ~(thread.why = "unwanted" /\ ok))
  /\ UNCHANGED <<midiOut, call, flags>>

\* Five seconds are over; everything is kept for the callbacks to come.
DrainTimeout ==
  /\ thread.at = "drain" /\ ep[thread.e].flight
  /\ thread' = Returned(thread.e, thread.why, FALSE)
  /\ UNCHANGED <<ep, events, inputRunning, midiOut, call, flags>>
-----------------------------------------------------------------------------
(* start() of an endpoint                                                  *)

\* The thread after a start() that failed by itself, with no stop() to call.
StartFailed(e, why) == Returned(e, why, FALSE)

\* Refused, for something is still in flight; out of buffers; no event source; or
\* the halt of a bulk pipe cannot be cleared.  A reader that still held the source
\* from a drain that gave up forgets it here.
StartFails ==
  LET e == thread.e IN
  /\ thread.at = "start"
  /\ ep' = IF ep[e].flight THEN ep ELSE [ep EXCEPT ![e] = OffEndpoint]
  /\ thread' = StartFailed(e, thread.why)
  /\ inputRunning' = (inputRunning /\ e # "input")
  /\ UNCHANGED <<events, midiOut, call, flags>>

\* The event source is acquired and the requests submitted.  When one is refused,
\* start() calls stop() with those before it in flight.
StartSubmits ==
  LET e == thread.e IN
  /\ thread.at = "start"
  /\ ~ep[e].flight
  /\ events[InterfaceOf(e)] < MaxEventClients
  /\ events' = [events EXCEPT ![InterfaceOf(e)] = @ + 1]
  /\ \/ /\ ep' = [ep EXCEPT ![e] = [held |-> TRUE, active |-> TRUE, flight |-> TRUE]]
        /\ thread' = IF thread.why = "serve" THEN AfterCheck(e)
                     ELSE CASE e = "output" -> At("launch", "feedback", "launch")
                            [] e = "feedback" -> At("launch", "input", "launch")
                            [] e = "input" -> At("launch", "midi", "launch")
                            [] OTHER -> Step("publish")
        /\ inputRunning' = (inputRunning \/ e = "input")
     \/ /\ \E some \in BOOLEAN :
             ep' = [ep EXCEPT ![e] = [held |-> TRUE, active |-> FALSE, flight |-> some]]
        /\ thread' = [thread EXCEPT !.at = "stop"]
        /\ inputRunning' = (inputRunning /\ e # "input")
  /\ UNCHANGED <<midiOut, call, flags>>
-----------------------------------------------------------------------------
(* Callbacks                                                               *)

InRunLoop == thread.at \in {"loop", "pause", "drain"}

\* A completion that resubmits its request changes nothing here.  One that fails or
\* cannot resubmit halts the endpoint, and a halted endpoint's requests come home.
Completion(e) ==
  /\ InRunLoop
  /\ ep[e].flight /\ events[InterfaceOf(e)] > 0
  /\ \/ /\ ep[e].active
        /\ \E more \in BOOLEAN : ep' = [ep EXCEPT ![e].active = FALSE, ![e].flight = more]
     \/ /\ ~ep[e].active
        /\ ep' = [ep EXCEPT ![e].flight = FALSE]
  /\ UNCHANGED <<events, inputRunning, thread, midiOut, call, flags>>
-----------------------------------------------------------------------------
(* The MIDI output thread                                                  *)

\* MIDIOutputWriter::start(); the port may be taken, or there is no thread.
WriterStart(ok) ==
  writer' = IF writer.at # "off" THEN writer
            ELSE IF ok THEN [running |-> TRUE, at |-> "poll"] ELSE NoWriter

\* A datagram of a legal size arrives.
WriterReceives ==
  /\ writer.at = "poll" /\ writer.running
  /\ writer' = [writer EXCEPT !.at = "write"]
  /\ UNCHANGED <<ep, events, forwarder, inputRunning, thread, call, flags>>

\* Its report is written, in at most three attempts with a timeout each.
WriterWrites ==
  /\ writer.at = "write"
  /\ writer' = [writer EXCEPT !.at = "poll"]
  /\ UNCHANGED <<ep, events, forwarder, inputRunning, thread, call, flags>>

WriterEnds ==
  /\ writer.at = "poll" /\ ~writer.running
  /\ writer' = [writer EXCEPT !.at = "ended"]
  /\ UNCHANGED <<ep, events, forwarder, inputRunning, thread, call, flags>>
-----------------------------------------------------------------------------
(* Launch                                                                  *)

\* The endpoints in turn; input only if it is wanted by now.
Launch ==
  /\ thread.at = "launch"
  /\ thread.e # "midi" \/ ~midiEnabled
  /\ thread' = CASE thread.e = "input" /\ ~inputEnabled -> At("launch", "midi", "launch")
                 [] thread.e = "midi" -> Step("publish")
                 [] OTHER -> [thread EXCEPT !.at = "start"]
  /\ UNCHANGED <<ep, events, inputRunning, midiOut, call, flags>>

\* No memory for the next endpoint gives the launch up.
LaunchFails ==
  /\ thread.at = "launch"
  /\ thread.e # "midi" \/ midiEnabled
  /\ thread' = At("writerStop", thread.e, "abandon")
  /\ UNCHANGED <<ep, events, inputRunning, midiOut, call, flags>>

\* MIDI output, then the forwarder, then MIDI input; none of them is vital.
LaunchMidi ==
  /\ thread.at = "launch" /\ thread.e = "midi" /\ midiEnabled
  /\ \E written, socket \in BOOLEAN :
       /\ WriterStart(written)
       /\ forwarder' = (forwarder \/ (written /\ socket))
       /\ thread' = IF written /\ socket THEN [thread EXCEPT !.at = "start"] ELSE Step("publish")
  /\ UNCHANGED <<ep, events, inputRunning, call, flags>>

\* publishStartResult(kIOReturnSuccess)
Publish ==
  /\ thread.at = "publish"
  /\ startResult' = "ok"
  /\ thread' = Head_
  /\ UNCHANGED <<ep, events, inputRunning, midiOut, caller, flags>>
-----------------------------------------------------------------------------
(* The serving loop                                                        *)

LoopReturns ==
  /\ thread.at = "loop"
  /\ thread' = Step("checkOutput")
  /\ UNCHANGED <<ep, events, inputRunning, midiOut, call, flags>>

\* A halted output worker is stopped to be replaced, once a second at most and only
\* while the device is still the session's.
CheckOutput ==
  /\ thread.at = "checkOutput"
  /\ \/ /\ ~ep["output"].active /\ ~stopRequested
        /\ thread' = At("stop", "output", "retry")
     \/ thread' = AfterCheck("output")
  /\ UNCHANGED <<ep, events, inputRunning, midiOut, call, flags>>

\* The replacement is started, unless there is no memory for it.
Swap ==
  /\ thread.at = "swap"
  /\ thread' \in {At("start", "output", "serve"), AfterCheck("output")}
  /\ UNCHANGED <<ep, events, inputRunning, midiOut, call, flags>>

\* Input follows inputEnabled_; a failed start is repeated after a second.
CheckInput ==
  /\ thread.at = "checkInput"
  /\ \/ inputEnabled /\ ~inputRunning /\ thread' = At("start", "input", "serve")
     \/ ~inputEnabled /\ inputRunning /\ thread' = At("stop", "input", "unwanted")
     \/ ~(~inputEnabled /\ inputRunning) /\ thread' = AfterCheck("input")
  /\ UNCHANGED <<ep, events, inputRunning, midiOut, call, flags>>

\* The recovery of MIDI, once a second: output, forwarder, then a halted reader.
CheckMidi ==
  /\ thread.at = "checkMidi"
  /\ \/ thread' = Head_ /\ UNCHANGED midiOut
     \/ /\ midiEnabled
        /\ \E written, socket \in BOOLEAN :
             /\ WriterStart(written)
             /\ forwarder' = (forwarder \/ socket)
             /\ thread' = IF ~forwarder' THEN Head_
                          ELSE IF ep["midi"].held /\ ~ep["midi"].active THEN At("stop", "midi", "recover")
                          ELSE Step("startMidi")
  /\ UNCHANGED <<ep, events, inputRunning, call, flags>>

StartMidi ==
  /\ thread.at = "startMidi"
  /\ thread' = IF ep["midi"].held THEN Head_ ELSE At("start", "midi", "serve")
  /\ UNCHANGED <<ep, events, inputRunning, midiOut, call, flags>>
-----------------------------------------------------------------------------
(* Giving up and shutting down                                             *)

Shutdown ==
  /\ thread.at = "shutdown"
  /\ thread' = At("writerStop", "output", "shutdown")
  /\ UNCHANGED <<ep, events, inputRunning, midiOut, call, flags>>

\* Faulty variant: running_ is left set, and the join waits for the loop to end.
WriterStopStillRunning ==
  /\ thread.at = "writerStop"
  /\ writer.at \in {"off", "ended"}
  /\ writer' = NoWriter
  /\ thread' = Pass(thread.why, FirstPass(thread.why), {})
  /\ UNCHANGED <<ep, events, inputRunning, forwarder, call, flags>>

\* MIDIOutputWriter::stop() joins its thread.
WriterStop ==
  /\ thread.at = "writerStop"
  /\ IF writer.at \in {"off", "ended"}
     THEN /\ writer' = NoWriter
          /\ thread' = Pass(thread.why, FirstPass(thread.why), {})
     ELSE /\ writer.running
          /\ writer' = [writer EXCEPT !.running = FALSE]
          /\ UNCHANGED thread
  /\ UNCHANGED <<ep, events, inputRunning, forwarder, call, flags>>

\* The pause in the run loop ends, and the stops that failed are called again.
Repeat ==
  /\ thread.at = "pause"
  /\ thread' = Pass(thread.why, RetryPass(thread.why, thread.failed), thread.failed)
  /\ UNCHANGED <<ep, events, inputRunning, midiOut, call, flags>>

\* The endpoints are destroyed, the forwarder's socket is closed, and a start that
\* was given up is reported.
Reset ==
  /\ thread.at = "reset"
  /\ forwarder' = FALSE
  /\ inputRunning' = FALSE
  /\ startResult' = IF thread.why = "abandon" THEN "error" ELSE startResult
  /\ thread' = Step("ended")
  /\ UNCHANGED <<ep, events, writer, caller, flags>>
-----------------------------------------------------------------------------
(* The caller                                                              *)

StartCall ==
  /\ caller = "idle"
  /\ caller' = "starting" /\ startResult' = "none"
  /\ stopRequested' = FALSE
  /\ midiEnabled' \in BOOLEAN /\ inputEnabled' \in BOOLEAN
  /\ thread' = At("launch", "output", "launch")
  /\ UNCHANGED <<ep, events, midiOut, inputRunning>>

\* start() returns, with the thread joined if it failed.
StartReturns ==
  /\ caller = "starting" /\ startResult # "none"
  /\ \/ startResult = "ok" /\ caller' = "up" /\ UNCHANGED thread
     \/ startResult # "ok" /\ thread.at = "ended" /\ caller' = "idle" /\ thread' = Step("none")
  /\ UNCHANGED <<ep, events, midiOut, inputRunning, startResult, flags>>

setInputEnabled ==
  /\ caller = "up"
  /\ inputEnabled' = ~inputEnabled
  /\ UNCHANGED <<ep, events, midiOut, inputRunning, thread, call, stopRequested, midiEnabled>>

StopCall ==
  /\ caller = "up"
  /\ caller' = "stopping" /\ stopRequested' = TRUE
  /\ UNCHANGED <<ep, events, midiOut, inputRunning, thread, startResult, inputEnabled, midiEnabled>>

StopReturns ==
  /\ caller = "stopping" /\ thread.at = "ended"
  /\ caller' = "idle" /\ thread' = Step("none")
  /\ UNCHANGED <<ep, events, midiOut, inputRunning, startResult, flags>>
-----------------------------------------------------------------------------
ThreadStep ==
  \/ StopEndpoint \/ Drained \/ DrainTimeout \/ StartFails \/ StartSubmits
  \/ Launch \/ LaunchFails \/ LaunchMidi \/ Publish
  \/ LoopReturns \/ CheckOutput \/ Swap \/ CheckInput \/ CheckMidi \/ StartMidi
  \/ Shutdown \/ WriterStop \/ Repeat \/ Reset

WriterStep == WriterWrites \/ WriterEnds

Next ==
  \/ ThreadStep \/ WriterReceives \/ WriterStep
  \/ \E e \in Endpoints : Completion(e)
  \/ StartCall \/ StartReturns \/ setInputEnabled \/ StopCall \/ StopReturns

Spec == Init /\ [][Next]_vars

\* The threads go on, a write has a timeout, and the callbacks of a halted endpoint
\* are delivered if the thread keeps returning to a run loop.
FairSpec ==
  /\ Spec
  /\ WF_vars(ThreadStep) /\ WF_vars(WriterStep) /\ WF_vars(StartReturns) /\ WF_vars(StopReturns)
  /\ \A e \in Endpoints : SF_vars(~ep[e].active /\ Completion(e))
-----------------------------------------------------------------------------
\* The types.
TypeOK ==
  /\ ep \in [Endpoints -> [held : BOOLEAN, active : BOOLEAN, flight : BOOLEAN]]
  /\ events \in [Interfaces -> 0..MaxEventClients]
  /\ writer \in [running : BOOLEAN, at : {"off", "poll", "write", "ended"}]
  /\ thread.at \in {"none", "launch", "start", "stop", "drain", "publish", "loop", "checkOutput", "swap",
                    "checkInput", "checkMidi", "startMidi", "shutdown", "writerStop", "pause", "reset",
                    "ended"}
  /\ thread.e \in Endpoints /\ thread.failed \subseteq Endpoints
  /\ caller \in {"idle", "starting", "up", "stopping"} /\ startResult \in {"none", "ok", "error"}
  /\ {forwarder, inputRunning, stopRequested, inputEnabled, midiEnabled} \subseteq BOOLEAN

\* No endpoint takes away what another one's requests need: the main interface counts
\* exactly the endpoints that hold its event source, and the auxiliary one no fewer,
\* whatever starts, fails, times out and stops in between, and MIDI input runs only
\* with the forwarder's socket open.
Holds(e) == IF ep[e].held THEN 1 ELSE 0
SharedResourcesHeld ==
  /\ TypeOK
  /\ events["main"] = Holds("output") + Holds("midi")
  /\ events["auxiliary"] >= Holds("feedback") + Holds("input")
  /\ \A e \in Endpoints : ep[e].flight \/ ep[e].active => ep[e].held
  /\ ep["midi"].held => forwarder

\* When start() has failed or stop() has returned the runtime is at rest: nothing in
\* flight, nothing held, no MIDI thread that could use the session the caller closes
\* next; and no endpoint is destroyed, or replaced, before it is.  Until then each
\* keeps what its requests need.
AtRest ==
  /\ SharedResourcesHeld
  /\ thread.at \in {"reset", "ended", "none"} =>
       /\ \A e \in Endpoints : ep[e] = OffEndpoint
       /\ writer = NoWriter
       /\ events["main"] = 0
  /\ thread.at = "swap" => ep["output"] = OffEndpoint
  /\ caller = "idle" => thread.at = "none" /\ ~forwarder
  /\ caller = "up" => thread.at \notin {"none", "ended", "reset"} /\ startResult = "ok"

\* Every start() and every stop() of the runtime returns, whatever fails, times out
\* or halts meanwhile: the driver waits for them with its own mutex held.
CallsReturn == caller \in {"starting", "stopping"} ~> caller \in {"up", "idle"}
=============================================================================
