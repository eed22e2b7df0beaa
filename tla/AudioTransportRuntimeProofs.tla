--------------------- MODULE AudioTransportRuntimeProofs ---------------------
(***************************************************************************)
(* Proofs about the runtime and its four endpoints, for every bound on the *)
(* clients of an event source.                                             *)
(*                                                                         *)
(* What the runtime leaves behind when it ends depends on what it knew at  *)
(* each of its steps: which endpoints can hold anything yet, who asked for *)
(* the start or the stop at hand, and which stops are still to come.       *)
(***************************************************************************)
EXTENDS AudioTransportRuntime, TLAPS

Places ==
  {"none", "launch", "start", "stop", "drain", "publish", "loop", "checkOutput", "swap", "checkInput",
   "checkMidi", "startMidi", "shutdown", "writerStop", "pause", "reset", "ended"}
Reasons ==
  {"none", "launch", "drainFeedback", "retry", "recover", "serve", "unwanted", "abandon", "shutdown"}
ThreadValue ==
  [at : Places, e : Endpoints, why : Reasons, todo : Seq(Endpoints), failed : SUBSET Endpoints]
EndpointValue == [held : BOOLEAN, active : BOOLEAN, flight : BOOLEAN]

\* The types of everything but the thread.
RestTypeOK ==
  /\ ep \in [Endpoints -> EndpointValue]
  /\ events \in [Interfaces -> 0..MaxEventClients]
  /\ writer \in [running : BOOLEAN, at : {"off", "poll", "write", "ended"}]
  /\ caller \in {"idle", "starting", "up", "stopping"} /\ startResult \in {"none", "ok", "error"}
  /\ forwarder \in BOOLEAN /\ inputRunning \in BOOLEAN
  /\ stopRequested \in BOOLEAN /\ inputEnabled \in BOOLEAN /\ midiEnabled \in BOOLEAN

Off(e) == ep[e] = OffEndpoint
Stopping == thread.at \in {"stop", "drain"}
Ending == thread.why \in {"abandon", "shutdown"}

\* The main interface counts its two endpoints exactly, the auxiliary one may
\* count a reader twice; requests need what is held, MIDI input the socket.
EventsCounted ==
  /\ events["main"] = Holds("output") + Holds("midi")
  /\ events["auxiliary"] >= Holds("feedback") + Holds("input")
  /\ \A e \in Endpoints : ep[e].flight \/ ep[e].active => ep[e].held
  /\ ep["midi"].held => forwarder

\* Who can have called what.
ReasonFits ==
  /\ thread.at \in {"none", "publish", "loop", "checkOutput", "swap", "checkInput", "checkMidi",
                    "startMidi", "shutdown", "ended"} <=> thread.why = "none"
  /\ thread.at = "launch" => thread.why = "launch"
  /\ thread.at \in {"writerStop", "pause", "reset"} => Ending
  /\ thread.at = "start" => thread.why \in {"launch", "serve"}
  /\ thread.why = "drainFeedback" => thread.e = "feedback"
  /\ thread.why = "retry" => thread.e = "output"
  /\ thread.why = "recover" => thread.e = "midi"
  /\ thread.why = "unwanted" => thread.e = "input"
  /\ thread.why = "serve" => thread.e \in {"output", "input", "midi"}

\* During the launch the endpoints that come later hold nothing.
LaterOff ==
  thread.why \in {"launch", "drainFeedback"} =>
    /\ thread.e = "output" => Off("feedback")
    /\ thread.e \in {"output", "feedback"} => Off("input")
    /\ thread.e \in {"output", "feedback", "input"} => Off("midi")

\* Only capture is started over what a drain left behind, MIDI input only with the
\* socket open, and only an endpoint that holds something is waited for.
StartsFromNothing ==
  /\ thread.at = "launch" => Off(thread.e)
  /\ thread.at = "start" /\ thread.e # "input" => Off(thread.e)
  /\ thread.at = "swap" => Off("output")
  /\ thread.at = "startMidi" => forwarder
  /\ thread.at = "start" /\ thread.e = "midi" => forwarder
  /\ thread.why = "recover" => forwarder
  /\ thread.at = "drain" => ep[thread.e].held

\* An endpoint that is not stopped yet will be: its stop is under way, still to be
\* called, or has failed and will be repeated.
NothingForgotten ==
  Ending /\ thread.at # "writerStop" =>
    /\ \A f \in Endpoints : \/ Off(f) \/ f \in thread.failed
                            \/ Stopping /\ thread.e = f
                            \/ \E i \in 1..Len(thread.todo) : thread.todo[i] = f
    /\ thread.at = "pause" => thread.todo = <<>>
    /\ writer = NoWriter

\* What the caller's stage and the thread's say of each other.
CallStage ==
  /\ caller = "idle" <=> thread.at = "none"
  /\ thread.at \in {"none", "ended", "reset"} => writer = NoWriter /\ \A e \in Endpoints : Off(e)
  /\ thread.at \in {"none", "ended"} => ~forwarder
  /\ stopRequested => caller \in {"stopping", "idle"}
  /\ caller = "stopping" => stopRequested
  /\ thread.at = "shutdown" \/ thread.why = "shutdown" => stopRequested
  /\ thread.at = "publish" \/ thread.why \in {"launch", "drainFeedback", "abandon"}
       => startResult = "none" /\ caller = "starting"
  /\ caller = "up" => startResult = "ok"
  /\ caller = "starting" /\ thread.at = "ended" => startResult = "error"
  /\ thread.at = "ended" => caller # "up"

RuntimeInv ==
  /\ RestTypeOK /\ thread \in ThreadValue /\ EventsCounted /\ ReasonFits /\ LaterOff
  /\ StartsFromNothing /\ NothingForgotten /\ CallStage

-----------------------------------------------------------------------------
(* Where the thread goes                                                   *)

LEMMA AtFields ==
  \A at \in Places, e \in Endpoints, why \in Reasons :
    /\ At(at, e, why) \in ThreadValue
    /\ At(at, e, why).at = at /\ At(at, e, why).e = e /\ At(at, e, why).why = why
    /\ At(at, e, why).todo = <<>> /\ At(at, e, why).failed = {}
BY DEF At, ThreadValue

LEMMA StepFields ==
  \A at \in Places :
    /\ Step(at) \in ThreadValue /\ Step(at).at = at /\ Step(at).e = "output" /\ Step(at).why = "none"
    /\ Step(at).todo = <<>> /\ Step(at).failed = {}
BY AtFields DEF Step, Endpoints, Reasons

\* The thread goes on in its serving loop.
LEMMA ServesOn ==
  ASSUME RuntimeInv, RestTypeOK', EventsCounted',
         NEW at \in {"loop", "checkOutput", "checkInput", "checkMidi", "shutdown"},
         thread' = Step(at), at = "shutdown" => stopRequested,
         thread.at \notin {"none", "ended"},
         UNCHANGED <<call, flags>>
  PROVE  RuntimeInv'
<1>1. /\ thread' \in ThreadValue /\ thread'.at = at /\ thread'.e = "output" /\ thread'.why = "none"
      /\ at \in Places
  BY StepFields DEF Places
<1>2. ReasonFits' /\ LaterOff' /\ StartsFromNothing' /\ NothingForgotten'
  BY Zenon, <1>1 DEF ReasonFits, LaterOff, StartsFromNothing, NothingForgotten, Ending
<1>3. CallStage'
  BY Zenon, <1>1 DEF RuntimeInv, CallStage, call, flags
<1> QED BY Zenon, <1>1, <1>2, <1>3 DEF RuntimeInv

\* A pass of the shutdown that still has, or has failed, the stop of each endpoint
\* that holds something.
LEMMA PassInv ==
  ASSUME RuntimeInv, Ending, RestTypeOK', EventsCounted',
         NEW todo \in Seq(Endpoints), NEW failed \in SUBSET Endpoints,
         thread' = Pass(thread.why, todo, failed),
         \A f \in Endpoints : \/ ep'[f] = OffEndpoint \/ f \in failed
                              \/ \E i \in 1..Len(todo) : todo[i] = f,
         writer' = NoWriter,
         UNCHANGED <<call, flags>>
  PROVE  RuntimeInv'
<1> DEFINE why == thread.why
<1>0. why \in {"abandon", "shutdown"} /\ why \in Reasons /\ thread.at \notin {"none", "ended"}
  BY Zenon DEF Ending, Reasons, RuntimeInv, ReasonFits
<1>1. CASE todo # <<>>
  <2>1. Head(todo) \in Endpoints /\ Tail(todo) \in Seq(Endpoints)
    BY <1>1
  <2>2. thread' = [At("stop", Head(todo), why) EXCEPT !.todo = Tail(todo), !.failed = failed]
    BY Zenon, <1>1 DEF Pass
  <2>3. /\ thread' \in ThreadValue /\ thread'.at = "stop" /\ thread'.e = Head(todo)
        /\ thread'.why = why /\ thread'.todo = Tail(todo) /\ thread'.failed = failed
    BY Zenon, <1>0, <2>1, <2>2 DEF At, ThreadValue, Places
  <2>4. ASSUME NEW f \in Endpoints, NEW i \in 1..Len(todo), todo[i] = f
        PROVE  f = Head(todo) \/ \E j \in 1..Len(Tail(todo)) : Tail(todo)[j] = f
    <3>1. CASE i = 1
      BY <2>4, <3>1
    <3>2. CASE i # 1
      <4>1. i - 1 \in 1..Len(Tail(todo)) /\ Tail(todo)[i - 1] = todo[i]
        BY <1>1, <3>2
      <4> QED BY Zenon, <2>4, <4>1
    <3> QED BY Zenon, <3>1, <3>2
  <2>5. NothingForgotten'
    BY <2>3, <2>4 DEF NothingForgotten, Off, Stopping
  <2>6. ReasonFits' /\ LaterOff' /\ StartsFromNothing'
    BY Zenon, <1>0, <2>3 DEF ReasonFits, LaterOff, StartsFromNothing, Ending
  <2>7. CallStage'
    BY Zenon, <1>0, <2>3 DEF RuntimeInv, CallStage, call, flags
  <2> QED BY Zenon, <2>3, <2>5, <2>6, <2>7 DEF RuntimeInv
<1>2. CASE todo = <<>> /\ failed # {}
  <2>1. thread' = [At("pause", "output", why) EXCEPT !.failed = failed]
    BY Zenon, <1>2 DEF Pass
  <2>2. /\ thread' \in ThreadValue /\ thread'.at = "pause" /\ thread'.e = "output"
        /\ thread'.why = why /\ thread'.todo = <<>> /\ thread'.failed = failed
    <3>1. /\ At("pause", "output", why) \in ThreadValue
          /\ At("pause", "output", why).at = "pause" /\ At("pause", "output", why).e = "output"
          /\ At("pause", "output", why).why = why /\ At("pause", "output", why).todo = <<>>
      BY <1>0, AtFields DEF Places, Endpoints
    <3> QED BY Zenon, <2>1, <3>1 DEF ThreadValue
  <2>3. NothingForgotten'
    BY <1>2, <2>2 DEF NothingForgotten, Off
  <2>4. ReasonFits' /\ LaterOff' /\ StartsFromNothing'
    BY Zenon, <1>0, <2>2 DEF ReasonFits, LaterOff, StartsFromNothing, Ending
  <2>5. CallStage'
    BY Zenon, <1>0, <2>2 DEF RuntimeInv, CallStage, call, flags
  <2> QED BY Zenon, <2>2, <2>3, <2>4, <2>5 DEF RuntimeInv
<1>3. CASE todo = <<>> /\ failed = {}
  <2>1. thread' = At("reset", "output", why)
    BY Zenon, <1>3 DEF Pass
  <2>2. /\ thread' \in ThreadValue /\ thread'.at = "reset" /\ thread'.e = "output" /\ thread'.why = why
    BY <1>0, <2>1, AtFields DEF Places, Endpoints
  <2>3. \A f \in Endpoints : ep'[f] = OffEndpoint
    BY <1>3
  <2>4. NothingForgotten' /\ ReasonFits' /\ LaterOff' /\ StartsFromNothing'
    BY Zenon, <1>0, <2>2, <2>3 DEF NothingForgotten, ReasonFits, LaterOff, StartsFromNothing, Ending, Off
  <2>5. CallStage'
    BY Zenon, <1>0, <2>2, <2>3 DEF RuntimeInv, CallStage, call, flags, Off
  <2> QED BY Zenon, <2>2, <2>4, <2>5 DEF RuntimeInv
<1> QED BY Zenon, <1>1, <1>2, <1>3

\* stop() returned to whoever called it, or start() failed by itself.
LEMMA ReturnedInv ==
  ASSUME RuntimeInv, RestTypeOK', EventsCounted',
         thread.at \in {"start", "stop", "drain"},
         NEW ok \in BOOLEAN, thread.at = "start" => ~ok,
         thread' = Returned(thread.e, thread.why, ok),
         \A f \in Endpoints : Off(f) => ep'[f] = OffEndpoint,
         \A f \in Endpoints \ {thread.e} : ep'[f] = ep[f],
         ok => ep'[thread.e] = OffEndpoint,
         UNCHANGED <<midiOut, call, flags>>
  PROVE  RuntimeInv'
<1> DEFINE e == thread.e  why == thread.why
<1>0. /\ e \in Endpoints /\ why \in Reasons \ {"none"} /\ thread.todo \in Seq(Endpoints)
      /\ thread.failed \in SUBSET Endpoints
  BY Zenon DEF RuntimeInv, ThreadValue, ReasonFits
<1>1. CASE why = "launch" /\ e = "feedback"
  <2>1. thread' = At("stop", "feedback", "drainFeedback")
    BY Zenon, <1>1 DEF Returned
  <2>2. /\ thread' \in ThreadValue /\ thread'.at = "stop" /\ thread'.e = "feedback"
        /\ thread'.why = "drainFeedback"
    <3>1. "stop" \in Places /\ "feedback" \in Endpoints /\ "drainFeedback" \in Reasons
      BY Zenon DEF Places, Endpoints, Reasons
    <3> QED BY <2>1, <3>1, AtFields
  <2>3. ReasonFits' /\ StartsFromNothing' /\ NothingForgotten'
    BY Zenon, <2>2 DEF ReasonFits, StartsFromNothing, NothingForgotten, Ending
  <2>4. LaterOff'
    BY Zenon, <1>1, <2>2 DEF RuntimeInv, LaterOff, Off, Endpoints
  <2>5. CallStage'
    BY Zenon, <1>1, <2>2 DEF RuntimeInv, CallStage, call, flags
  <2> QED BY Zenon, <2>2, <2>3, <2>4, <2>5 DEF RuntimeInv
<1>2. CASE why = "launch" /\ e = "midi"
  <2>1. thread' = Step("publish")
    BY Zenon, <1>2 DEF Returned
  <2>2. thread' \in ThreadValue /\ thread'.at = "publish" /\ thread'.why = "none"
    BY <2>1, StepFields DEF Places
  <2>3. ReasonFits' /\ LaterOff' /\ StartsFromNothing' /\ NothingForgotten'
    BY Zenon, <2>2 DEF ReasonFits, LaterOff, StartsFromNothing, NothingForgotten, Ending
  <2>4. CallStage'
    BY Zenon, <1>2, <2>2 DEF RuntimeInv, CallStage, call, flags
  <2> QED BY Zenon, <2>2, <2>3, <2>4 DEF RuntimeInv
<1>3. CASE \/ why = "launch" /\ e \in {"output", "input"}
           \/ why = "drainFeedback" /\ ~ok
  <2>1. thread' = At("writerStop", e, "abandon")
    BY ZenonT(90), <1>3 DEF Returned
  <2>2. /\ thread' \in ThreadValue /\ thread'.at = "writerStop" /\ thread'.why = "abandon"
    BY SMTT(60), <1>0, <2>1, AtFields DEF Places, Reasons
  <2>3. ReasonFits' /\ LaterOff' /\ StartsFromNothing' /\ NothingForgotten'
    BY Zenon, <2>2 DEF ReasonFits, LaterOff, StartsFromNothing, NothingForgotten, Ending
  <2>4. CallStage'
    BY Zenon, <1>3, <2>2 DEF RuntimeInv, CallStage, call, flags
  <2> QED BY Zenon, <2>2, <2>3, <2>4 DEF RuntimeInv
<1>4. CASE why = "drainFeedback" /\ ok
  <2>1. thread' = At("launch", "input", "launch")
    BY Zenon, <1>4 DEF Returned
  <2>2. /\ thread' \in ThreadValue /\ thread'.at = "launch" /\ thread'.e = "input"
        /\ thread'.why = "launch"
    <3>1. "launch" \in Places /\ "input" \in Endpoints /\ "launch" \in Reasons
      BY Zenon DEF Places, Endpoints, Reasons
    <3> QED BY <2>1, <3>1, AtFields
  <2>3. ep'["input"] = OffEndpoint /\ ep'["midi"] = OffEndpoint
    BY Zenon, <1>4 DEF RuntimeInv, LaterOff, ReasonFits, Off, Endpoints
  <2>4. ReasonFits' /\ StartsFromNothing' /\ NothingForgotten' /\ LaterOff'
    BY Zenon, <2>2, <2>3 DEF ReasonFits, StartsFromNothing, NothingForgotten, LaterOff, Ending, Off
  <2>5. CallStage'
    BY Zenon, <1>4, <2>2 DEF RuntimeInv, CallStage, call, flags
  <2> QED BY Zenon, <2>2, <2>4, <2>5 DEF RuntimeInv
<1>5. CASE why = "retry" /\ ok
  <2>1. thread' = Step("swap") /\ ep'["output"] = OffEndpoint
    BY Zenon, <1>5 DEF Returned, RuntimeInv, ReasonFits
  <2>2. thread' \in ThreadValue /\ thread'.at = "swap" /\ thread'.why = "none"
    BY <2>1, StepFields DEF Places
  <2>3. ReasonFits' /\ LaterOff' /\ StartsFromNothing' /\ NothingForgotten'
    BY Zenon, <2>1, <2>2 DEF ReasonFits, LaterOff, StartsFromNothing, NothingForgotten, Ending, Off
  <2>4. CallStage'
    BY Zenon, <1>5, <2>2 DEF RuntimeInv, CallStage, call, flags
  <2> QED BY Zenon, <2>2, <2>3, <2>4 DEF RuntimeInv
<1>6. CASE why = "recover"
  <2>1. thread' = Step("startMidi") /\ forwarder'
    BY Zenon, <1>6 DEF Returned, RuntimeInv, StartsFromNothing, midiOut
  <2>2. thread' \in ThreadValue /\ thread'.at = "startMidi" /\ thread'.why = "none"
    BY <2>1, StepFields DEF Places
  <2>3. ReasonFits' /\ LaterOff' /\ StartsFromNothing' /\ NothingForgotten'
    BY Zenon, <2>1, <2>2 DEF ReasonFits, LaterOff, StartsFromNothing, NothingForgotten, Ending
  <2>4. CallStage'
    BY Zenon, <1>6, <2>2 DEF RuntimeInv, CallStage, call, flags
  <2> QED BY Zenon, <2>2, <2>3, <2>4 DEF RuntimeInv
<1>7. CASE why \in {"serve", "unwanted"} \/ (why = "retry" /\ ~ok)
  <2>1. \E f \in Endpoints : thread' = AfterCheck(f)
    BY Zenon, <1>0, <1>7 DEF Returned, Endpoints
  <2>2. \E at \in {"loop", "checkInput", "checkMidi", "shutdown"} :
          thread' = Step(at) /\ (at = "shutdown" => stopRequested)
    BY Zenon, <2>1 DEF AfterCheck, Head_
  <2> QED BY Zenon, <2>2, ServesOn
<1>8. CASE Ending
  <2> DEFINE failed == IF ok THEN thread.failed \ {e} ELSE thread.failed \cup {e}
  <2>1. thread' = Pass(why, thread.todo, failed) /\ failed \in SUBSET Endpoints
    BY Zenon, <1>0, <1>8 DEF Returned, Ending
  <2>2. \A f \in Endpoints : \/ ep'[f] = OffEndpoint \/ f \in failed
                             \/ \E i \in 1..Len(thread.todo) : thread.todo[i] = f
    BY Zenon, <1>8 DEF RuntimeInv, NothingForgotten, ReasonFits, Off, Stopping
  <2>3. writer' = NoWriter
    BY Zenon, <1>8 DEF RuntimeInv, NothingForgotten, midiOut
  <2> HIDE DEF failed
  <2> QED BY <1>0, <1>8, <2>1, <2>2, <2>3, PassInv
<1> QED BY Zenon, <1>0, <1>1, <1>2, <1>3, <1>4, <1>5, <1>6, <1>7, <1>8 DEF Ending, Reasons, Endpoints
-----------------------------------------------------------------------------
(* stop() and start() of an endpoint                                       *)

\* What Release leaves: the counts still cover what is held.
LEMMA ReleaseCounts ==
  ASSUME RuntimeInv, NEW e \in Endpoints, ep[e].held, ~ep[e].flight, Release(e)
  PROVE  /\ ep'[e] = OffEndpoint /\ \A f \in Endpoints \ {e} : ep'[f] = ep[f]
         /\ ep' \in [Endpoints -> EndpointValue]
         /\ events' \in [Interfaces -> 0..MaxEventClients]
         /\ events'["main"] = Holds("output")' + Holds("midi")'
         /\ events'["auxiliary"] >= Holds("feedback")' + Holds("input")'
         /\ \A f \in Endpoints : ep'[f].flight \/ ep'[f].active => ep'[f].held
         /\ ep'["midi"].held => ep["midi"].held
<1>1. /\ ep \in [Endpoints -> EndpointValue] /\ events \in [Interfaces -> 0..MaxEventClients]
      /\ EventsCounted
  BY Zenon DEF RuntimeInv, RestTypeOK
<1>2. ep'[e] = OffEndpoint /\ \A f \in Endpoints \ {e} : ep'[f] = ep[f]
  BY Zenon, <1>1 DEF Release, OffEndpoint, EndpointValue
<1>3. ep' \in [Endpoints -> EndpointValue]
  BY ZenonT(90), <1>1 DEF Release, EndpointValue
<1>4. /\ InterfaceOf(e) \in Interfaces
      /\ events'[InterfaceOf(e)] = events[InterfaceOf(e)] - 1
      /\ \A i \in Interfaces \ {InterfaceOf(e)} : events'[i] = events[i]
  BY Zenon, <1>1 DEF Release, InterfaceOf, Interfaces, Endpoints
<1>5. events[InterfaceOf(e)] > 0
  BY <1>1 DEF EventsCounted, Holds, InterfaceOf, Interfaces, Endpoints
<1>6. events' \in [Interfaces -> 0..MaxEventClients]
  BY <1>1, <1>4, <1>5, RuntimeAssumption DEF Release
<1>7. \A f \in Endpoints : ep'[f].flight \/ ep'[f].active => ep'[f].held
  BY <1>1, <1>2 DEF EventsCounted, Holds, OffEndpoint
<1>8. ep'["midi"].held => ep["midi"].held
  BY Zenon, <1>2 DEF OffEndpoint, Endpoints
<1>9. /\ events'["main"] = Holds("output")' + Holds("midi")'
      /\ events'["auxiliary"] >= Holds("feedback")' + Holds("input")'
  <2>1. events["main"] \in Int /\ events["auxiliary"] \in Int
    BY <1>1 DEF Interfaces
  <2>2. CASE e = "output"
    BY <1>1, <1>2, <1>4, <2>1, <2>2 DEF EventsCounted, Holds, InterfaceOf, Interfaces, Endpoints, OffEndpoint
  <2>3. CASE e = "feedback"
    BY <1>1, <1>2, <1>4, <2>1, <2>3 DEF EventsCounted, Holds, InterfaceOf, Interfaces, Endpoints, OffEndpoint
  <2>4. CASE e = "input"
    BY <1>1, <1>2, <1>4, <2>1, <2>4 DEF EventsCounted, Holds, InterfaceOf, Interfaces, Endpoints, OffEndpoint
  <2>5. CASE e = "midi"
    BY <1>1, <1>2, <1>4, <2>1, <2>5 DEF EventsCounted, Holds, InterfaceOf, Interfaces, Endpoints, OffEndpoint
  <2> QED BY Zenon, <2>2, <2>3, <2>4, <2>5 DEF Endpoints
<1> QED BY Zenon, <1>2, <1>3, <1>6, <1>7, <1>8, <1>9

\* A stop() that frees everything returns.
LEMMA ReleasedInv ==
  ASSUME RuntimeInv, thread.at \in {"stop", "drain"}, ep[thread.e].held, ~ep[thread.e].flight,
         Release(thread.e), NEW ok \in BOOLEAN, thread' = Returned(thread.e, thread.why, ok),
         inputRunning' \in BOOLEAN, UNCHANGED <<midiOut, call, flags>>
  PROVE  RuntimeInv'
<1>1. thread.e \in Endpoints
  BY Zenon DEF RuntimeInv, ThreadValue
<1>2. /\ ep'[thread.e] = OffEndpoint /\ \A f \in Endpoints \ {thread.e} : ep'[f] = ep[f]
      /\ ep' \in [Endpoints -> EndpointValue]
      /\ events' \in [Interfaces -> 0..MaxEventClients]
      /\ events'["main"] = Holds("output")' + Holds("midi")'
      /\ events'["auxiliary"] >= Holds("feedback")' + Holds("input")'
      /\ \A f \in Endpoints : ep'[f].flight \/ ep'[f].active => ep'[f].held
      /\ ep'["midi"].held => ep["midi"].held
  BY Zenon, <1>1, ReleaseCounts
<1>3. RestTypeOK'
  BY <1>2 DEF RuntimeInv, RestTypeOK, midiOut, call, flags
<1>4. EventsCounted'
  BY Zenon, <1>2 DEF RuntimeInv, EventsCounted, Holds, midiOut
<1>5. \A f \in Endpoints : Off(f) => ep'[f] = OffEndpoint
  BY Zenon, <1>2 DEF Off
<1> QED BY Zenon, <1>2, <1>3, <1>4, <1>5, ReturnedInv

\* Nothing of the endpoints changes when stop() returns.
LEMMA UntouchedInv ==
  ASSUME RuntimeInv, thread.at \in {"stop", "drain"}, NEW ok \in BOOLEAN, ok => Off(thread.e),
         thread' = Returned(thread.e, thread.why, ok),
         inputRunning' \in BOOLEAN, UNCHANGED <<ep, events, midiOut, call, flags>>
  PROVE  RuntimeInv'
<1>1. RestTypeOK' /\ EventsCounted'
  BY DEF RuntimeInv, RestTypeOK, EventsCounted, Holds, midiOut, call, flags
<1>2. \A f \in Endpoints : Off(f) => ep'[f] = OffEndpoint
  BY Zenon DEF Off
<1>3. ok => ep'[thread.e] = OffEndpoint
  BY Zenon DEF Off
<1> QED BY Zenon, <1>1, <1>2, <1>3, ReturnedInv

\* What holds nothing is off.
LEMMA NotHeldIsOff ==
  ASSUME RuntimeInv, NEW e \in Endpoints, ~ep[e].held
  PROVE  Off(e)
BY Zenon DEF RuntimeInv, RestTypeOK, EventsCounted, Holds, EndpointValue, Off, OffEndpoint

\* The thread keeps its errand while the endpoint of it changes.
LEMMA SameErrand ==
  ASSUME RuntimeInv, RestTypeOK', EventsCounted',
         thread.at \in {"start", "stop"}, NEW at \in {"stop", "drain"},
         thread' = [thread EXCEPT !.at = at],
         \A f \in Endpoints \ {thread.e} : ep'[f] = ep[f], ep'[thread.e].held,
         UNCHANGED <<midiOut, call, flags>>
  PROVE  RuntimeInv'
<1>1. /\ thread' \in ThreadValue /\ thread'.at = at /\ thread'.e = thread.e /\ thread'.why = thread.why
      /\ thread'.todo = thread.todo /\ thread'.failed = thread.failed
  BY Zenon DEF RuntimeInv, ThreadValue, Places
<1>2. thread.e \in Endpoints
  BY Zenon DEF RuntimeInv, ThreadValue
<1>3. ReasonFits'
  BY <1>1 DEF RuntimeInv, ReasonFits, Ending
<1>4. LaterOff'
  BY <1>1, <1>2 DEF RuntimeInv, LaterOff, Off, Endpoints
<1>5. StartsFromNothing'
  BY Zenon, <1>1 DEF RuntimeInv, StartsFromNothing, midiOut
<1>6. NothingForgotten'
  BY <1>1 DEF RuntimeInv, NothingForgotten, ReasonFits, Ending, Stopping, Off, midiOut
<1>7. CallStage'
  BY Zenon, <1>1 DEF RuntimeInv, CallStage, call, flags
<1> QED BY Zenon, <1>1, <1>3, <1>4, <1>5, <1>6, <1>7 DEF RuntimeInv

LEMMA StopEndpointInv == RuntimeInv /\ StopEndpoint => RuntimeInv'
<1> SUFFICES ASSUME RuntimeInv, StopEndpoint PROVE RuntimeInv'
  BY Zenon
<1> DEFINE e == thread.e
<1>0. /\ thread.at = "stop" /\ e \in Endpoints /\ inputRunning \in BOOLEAN
      /\ UNCHANGED <<midiOut, call, flags>>
  BY Zenon DEF StopEndpoint, RuntimeInv, ThreadValue, RestTypeOK
<1>1. CASE /\ ~ep[e].held /\ thread' = Returned(e, thread.why, TRUE)
           /\ inputRunning' = (inputRunning /\ thread.why # "unwanted") /\ UNCHANGED <<ep, events>>
  BY Zenon, <1>0, <1>1, NotHeldIsOff, UntouchedInv
<1>2. CASE /\ ep[e].held /\ ep[e].flight /\ ep' = [ep EXCEPT ![e].active = FALSE]
           /\ thread' = [thread EXCEPT !.at = "drain"] /\ UNCHANGED <<events, inputRunning>>
  <2>1. \A f \in Endpoints \ {e} : ep'[f] = ep[f]
    BY Zenon, <1>2 DEF RuntimeInv, RestTypeOK
  <2>2. ep' \in [Endpoints -> EndpointValue]
    BY ZenonT(90), <1>0, <1>2 DEF RuntimeInv, RestTypeOK, EndpointValue
  <2>3. RestTypeOK'
    BY <1>0, <1>2, <2>2 DEF RuntimeInv, RestTypeOK, midiOut, call, flags
  <2>4. \A f \in Endpoints : /\ ep'[f].held = ep[f].held /\ ep'[f].flight = ep[f].flight
                             /\ ep'[f].active => ep[f].active
    BY <1>0, <1>2 DEF RuntimeInv, RestTypeOK, EndpointValue
  <2>5. EventsCounted'
    BY <1>0, <1>2, <2>4 DEF RuntimeInv, EventsCounted, Holds, midiOut, Endpoints
  <2> QED BY Zenon, <1>0, <1>2, <2>1, <2>3, <2>4, <2>5, SameErrand
<1>3. CASE /\ ep[e].held /\ ~ep[e].flight /\ Release(e)
           /\ \E ok \in BOOLEAN : thread' = Returned(e, thread.why, ok)
           /\ inputRunning' = (inputRunning /\ thread.why # "unwanted")
  BY Zenon, <1>0, <1>3, ReleasedInv
<1> QED BY Zenon, <1>1, <1>2, <1>3 DEF StopEndpoint

LEMMA DrainedInv == RuntimeInv /\ Drained => RuntimeInv'
<1> SUFFICES ASSUME RuntimeInv, Drained PROVE RuntimeInv'
  BY Zenon
<1>1. inputRunning' \in BOOLEAN
  BY Zenon DEF Drained, RuntimeInv, RestTypeOK
<1>2. PICK ok \in BOOLEAN : thread' = Returned(thread.e, thread.why, ok)
  BY Zenon DEF Drained
<1>3. /\ thread.at = "drain" /\ ~ep[thread.e].flight /\ Release(thread.e)
      /\ ep[thread.e].held /\ UNCHANGED <<midiOut, call, flags>>
  BY Zenon DEF Drained, RuntimeInv, StartsFromNothing
<1> QED BY Zenon, <1>1, <1>2, <1>3, ReleasedInv

LEMMA DrainTimeoutInv == RuntimeInv /\ DrainTimeout => RuntimeInv'
BY Zenon, UntouchedInv DEF DrainTimeout, RuntimeInv, RestTypeOK
\* The requests of e are accepted, or some are.
LEMMA SubmitCounts ==
  ASSUME RuntimeInv, NEW e \in Endpoints, NEW v \in EndpointValue, v.held,
         e # "input" => Off(e), e = "midi" => forwarder,
         events[InterfaceOf(e)] < MaxEventClients,
         events' = [events EXCEPT ![InterfaceOf(e)] = @ + 1],
         ep' = [ep EXCEPT ![e] = v],
         inputRunning' \in BOOLEAN, UNCHANGED <<midiOut, call, flags>>
  PROVE  /\ RestTypeOK' /\ EventsCounted'
         /\ ep'[e] = v /\ \A f \in Endpoints \ {e} : ep'[f] = ep[f]
<1>1. /\ ep \in [Endpoints -> EndpointValue] /\ events \in [Interfaces -> 0..MaxEventClients]
      /\ EventsCounted
  BY Zenon DEF RuntimeInv, RestTypeOK
<1>2. ep'[e] = v /\ \A f \in Endpoints \ {e} : ep'[f] = ep[f]
  BY Zenon, <1>1
<1>3. ep' \in [Endpoints -> EndpointValue]
  BY Zenon, <1>1
<1>4. /\ InterfaceOf(e) \in Interfaces
      /\ events'[InterfaceOf(e)] = events[InterfaceOf(e)] + 1
      /\ \A i \in Interfaces \ {InterfaceOf(e)} : events'[i] = events[i]
  BY Zenon, <1>1 DEF InterfaceOf, Interfaces, Endpoints
<1>5. events' \in [Interfaces -> 0..MaxEventClients]
  BY <1>1, <1>4, RuntimeAssumption
<1>6. RestTypeOK'
  BY <1>3, <1>5 DEF RuntimeInv, RestTypeOK, midiOut, call, flags
<1>7. \A f \in Endpoints : ep'[f].flight \/ ep'[f].active => ep'[f].held
  BY Zenon, <1>1, <1>2 DEF EventsCounted, Holds
<1>8. ep'["midi"].held => forwarder'
  BY Zenon, <1>1, <1>2 DEF EventsCounted, Holds, midiOut, Endpoints
<1>9. events["main"] \in Int /\ events["auxiliary"] \in Int
  BY <1>1 DEF Interfaces
<1>10. /\ events'["main"] = Holds("output")' + Holds("midi")'
       /\ events'["auxiliary"] >= Holds("feedback")' + Holds("input")'
  <2>1. e # "input" => ~ep[e].held
    BY DEF Off, OffEndpoint
  <2>2. CASE e = "output"
    BY <1>1, <1>2, <1>4, <1>9, <2>1, <2>2 DEF EventsCounted, Holds, InterfaceOf, Interfaces, Endpoints
  <2>3. CASE e = "feedback"
    BY <1>1, <1>2, <1>4, <1>9, <2>1, <2>3 DEF EventsCounted, Holds, InterfaceOf, Interfaces, Endpoints
  <2>4. CASE e = "input"
    BY <1>1, <1>2, <1>4, <1>9, <2>4 DEF EventsCounted, Holds, InterfaceOf, Interfaces, Endpoints
  <2>5. CASE e = "midi"
    BY <1>1, <1>2, <1>4, <1>9, <2>1, <2>5 DEF EventsCounted, Holds, InterfaceOf, Interfaces, Endpoints
  <2> QED BY Zenon, <2>2, <2>3, <2>4, <2>5 DEF Endpoints
<1> QED BY Zenon, <1>2, <1>6, <1>7, <1>8, <1>10 DEF EventsCounted, Holds

LEMMA StartFailsInv == RuntimeInv /\ StartFails => RuntimeInv'
<1> SUFFICES ASSUME RuntimeInv, StartFails PROVE RuntimeInv'
  BY Zenon
<1> DEFINE e == thread.e
<1>1. /\ thread.at = "start" /\ e \in Endpoints /\ thread' = Returned(e, thread.why, FALSE)
      /\ inputRunning' \in BOOLEAN /\ UNCHANGED <<events, midiOut, call, flags>>
  BY Zenon DEF StartFails, StartFailed, RuntimeInv, ThreadValue, RestTypeOK
<1>2. /\ ep' \in [Endpoints -> EndpointValue]
      /\ \A f \in Endpoints \ {e} : ep'[f] = ep[f]
      /\ ep'[e] = ep[e] \/ ep'[e] = OffEndpoint
  BY Zenon, <1>1 DEF StartFails, RuntimeInv, RestTypeOK, OffEndpoint, EndpointValue
<1>3. RestTypeOK'
  BY <1>1, <1>2 DEF RuntimeInv, RestTypeOK, midiOut, call, flags
<1>4. \A f \in Endpoints : Off(f) => ep'[f] = OffEndpoint
  BY Zenon, <1>2 DEF Off
<1>5. \A f \in Endpoints \ {"input"} : ep'[f] = ep[f]
  BY Zenon, <1>1, <1>2 DEF RuntimeInv, StartsFromNothing, Off
<1>6. EventsCounted'
  <2>1. events["auxiliary"] \in Int
    BY DEF RuntimeInv, RestTypeOK, Interfaces
  <2>2. \A f \in Endpoints : ep'[f] = ep[f] \/ ep'[f] = OffEndpoint
    BY Zenon, <1>2
  <2>3. \A f \in Endpoints : ep'[f].flight \/ ep'[f].active => ep'[f].held
    BY <2>2 DEF RuntimeInv, EventsCounted, Holds, OffEndpoint
  <2>4. /\ ep'["output"] = ep["output"] /\ ep'["midi"] = ep["midi"]
        /\ ep'["feedback"] = ep["feedback"] /\ Holds("input")' <= Holds("input")
    BY <1>5, <2>2 DEF Endpoints, Holds, OffEndpoint
  <2>5. /\ Holds("input")' \in Int /\ Holds("input") \in Int
        /\ Holds("feedback") \in Int
    BY DEF Holds
  <2> QED BY <1>1, <2>1, <2>3, <2>4, <2>5 DEF RuntimeInv, EventsCounted, Holds, midiOut
<1> QED BY Zenon, <1>1, <1>2, <1>3, <1>4, <1>6, ReturnedInv

\* A step of the launch that goes on to the start of endpoint e.
LEMMA LaunchesOn ==
  ASSUME RuntimeInv, RestTypeOK', EventsCounted', thread.why = "launch",
         NEW e \in {"feedback", "input", "midi"},
         thread' = At("launch", e, "launch"),
         ep'[e] = OffEndpoint,
         e = "feedback" => ep'["input"] = OffEndpoint,
         e \in {"feedback", "input"} => ep'["midi"] = OffEndpoint,
         UNCHANGED <<call, flags>>
  PROVE  RuntimeInv'
<1>1. /\ thread' \in ThreadValue /\ thread'.at = "launch" /\ thread'.e = e /\ thread'.why = "launch"
  <2>1. "launch" \in Places /\ e \in Endpoints /\ "launch" \in Reasons
    BY Zenon DEF Places, Endpoints, Reasons
  <2> QED BY <2>1, AtFields
<1>2. ReasonFits' /\ StartsFromNothing' /\ NothingForgotten' /\ LaterOff'
  BY Zenon, <1>1 DEF ReasonFits, StartsFromNothing, NothingForgotten, LaterOff, Ending, Off
<1>3. CallStage'
  BY Zenon, <1>1 DEF RuntimeInv, CallStage, call, flags
<1> QED BY Zenon, <1>1, <1>2, <1>3 DEF RuntimeInv

\* The launch is complete.
LEMMA PublishesNext ==
  ASSUME RuntimeInv, RestTypeOK', EventsCounted', thread.why = "launch", thread' = Step("publish"),
         UNCHANGED <<call, flags>>
  PROVE  RuntimeInv'
<1>1. thread' \in ThreadValue /\ thread'.at = "publish" /\ thread'.why = "none"
  BY StepFields DEF Places
<1>2. ReasonFits' /\ StartsFromNothing' /\ NothingForgotten' /\ LaterOff'
  BY Zenon, <1>1 DEF ReasonFits, StartsFromNothing, NothingForgotten, LaterOff, Ending
<1>3. CallStage'
  BY Zenon, <1>1 DEF RuntimeInv, CallStage, call, flags
<1> QED BY Zenon, <1>1, <1>2, <1>3 DEF RuntimeInv

\* The serving loop goes on after the check of endpoint e.
LEMMA ChecksOn ==
  ASSUME RuntimeInv, RestTypeOK', EventsCounted', NEW e \in Endpoints, thread' = AfterCheck(e),
         thread.at \notin {"none", "ended"}, UNCHANGED <<call, flags>>
  PROVE  RuntimeInv'
<1>1. \E at \in {"loop", "checkInput", "checkMidi", "shutdown"} :
        thread' = Step(at) /\ (at = "shutdown" => stopRequested)
  BY Zenon DEF AfterCheck, Head_
<1> QED BY Zenon, <1>1, ServesOn

LEMMA StartSubmitsInv == RuntimeInv /\ StartSubmits => RuntimeInv'
<1> SUFFICES ASSUME RuntimeInv, StartSubmits PROVE RuntimeInv'
  BY Zenon
<1> DEFINE e == thread.e
<1>0. /\ thread.at = "start" /\ e \in Endpoints /\ inputRunning' \in BOOLEAN
      /\ events[InterfaceOf(e)] < MaxEventClients
      /\ events' = [events EXCEPT ![InterfaceOf(e)] = @ + 1]
      /\ UNCHANGED <<midiOut, call, flags>>
  BY Zenon DEF StartSubmits, RuntimeInv, ThreadValue, RestTypeOK
<1>1. (e # "input" => Off(e)) /\ (e = "midi" => forwarder)
  BY Zenon, <1>0 DEF RuntimeInv, StartsFromNothing
<1>2. CASE /\ ep' = [ep EXCEPT ![e] = [held |-> TRUE, active |-> TRUE, flight |-> TRUE]]
           /\ thread' = IF thread.why = "serve" THEN AfterCheck(e)
                        ELSE CASE e = "output" -> At("launch", "feedback", "launch")
                               [] e = "feedback" -> At("launch", "input", "launch")
                               [] e = "input" -> At("launch", "midi", "launch")
                               [] OTHER -> Step("publish")
  <2> DEFINE v == [held |-> TRUE, active |-> TRUE, flight |-> TRUE]
  <2>1. v \in EndpointValue /\ v.held /\ ep' = [ep EXCEPT ![e] = v]
    BY Zenon, <1>2 DEF EndpointValue
  <2> HIDE DEF v
  <2>2. RestTypeOK' /\ EventsCounted' /\ \A f \in Endpoints \ {e} : ep'[f] = ep[f]
    BY Zenon, <1>0, <1>1, <2>1, SubmitCounts
  <2>3. CASE thread.why = "serve"
    <3>1. thread' = AfterCheck(e)
      BY Zenon, <1>2, <2>3
    <3> QED BY Zenon, <1>0, <2>2, <3>1, ChecksOn
  <2>4. CASE thread.why # "serve"
    <3>1. /\ thread.why = "launch"
          /\ e = "output" => Off("feedback")
          /\ e \in {"output", "feedback"} => Off("input")
          /\ e \in {"output", "feedback", "input"} => Off("midi")
      BY Zenon, <1>0, <2>4 DEF RuntimeInv, ReasonFits, LaterOff
    <3>2. CASE e = "output"
      BY Zenon, <1>0, <1>2, <2>2, <3>1, <3>2, LaunchesOn DEF Off, Endpoints
    <3>3. CASE e = "feedback"
      BY Zenon, <1>0, <1>2, <2>2, <3>1, <3>3, LaunchesOn DEF Off, Endpoints
    <3>4. CASE e = "input"
      BY Zenon, <1>0, <1>2, <2>2, <3>1, <3>4, LaunchesOn DEF Off, Endpoints
    <3>5. CASE e = "midi"
      BY Zenon, <1>0, <1>2, <2>2, <3>1, <3>5, PublishesNext
    <3> QED BY Zenon, <1>0, <3>2, <3>3, <3>4, <3>5 DEF Endpoints
  <2> QED BY Zenon, <2>3, <2>4
<1>3. CASE /\ \E some \in BOOLEAN :
                ep' = [ep EXCEPT ![e] = [held |-> TRUE, active |-> FALSE, flight |-> some]]
           /\ thread' = [thread EXCEPT !.at = "stop"]
  <2>1. PICK v \in EndpointValue : v.held /\ ep' = [ep EXCEPT ![e] = v]
    BY Zenon, <1>3 DEF EndpointValue
  <2>2. RestTypeOK' /\ EventsCounted' /\ ep'[e] = v /\ \A f \in Endpoints \ {e} : ep'[f] = ep[f]
    BY Zenon, <1>0, <1>1, <2>1, SubmitCounts
  <2> QED BY Zenon, <1>0, <1>3, <2>1, <2>2, SameErrand
<1> QED BY Zenon, <1>2, <1>3 DEF StartSubmits
-----------------------------------------------------------------------------
(* The thread's other steps                                                *)

\* Nothing but the thread changes.
LEMMA OnlyThread ==
  ASSUME RuntimeInv, UNCHANGED <<ep, events, inputRunning, midiOut, call, flags>>
  PROVE  RestTypeOK' /\ EventsCounted'
BY DEF RuntimeInv, RestTypeOK, EventsCounted, Holds, midiOut, call, flags

\* The thread starts or stops an endpoint for a reason of the serving loop.
LEMMA ErrandInv ==
  ASSUME RuntimeInv, RestTypeOK', EventsCounted', thread.at \notin {"none", "ended"},
         NEW at \in {"start", "stop"}, NEW e \in Endpoints,
         NEW why \in {"retry", "recover", "serve", "unwanted"}, thread' = At(at, e, why),
         at = "start" => why = "serve",
         why = "retry" => e = "output", why = "recover" => e = "midi" /\ forwarder',
         why = "unwanted" => e = "input", why = "serve" => e \in {"output", "input", "midi"},
         at = "start" /\ e # "input" => ep'[e] = OffEndpoint,
         at = "start" /\ e = "midi" => forwarder',
         UNCHANGED <<call, flags>>
  PROVE  RuntimeInv'
<1>1. /\ thread' \in ThreadValue /\ thread'.at = at /\ thread'.e = e /\ thread'.why = why
  <2>1. at \in Places /\ why \in Reasons
    BY Zenon DEF Places, Reasons
  <2> QED BY <2>1, AtFields
<1>2. ReasonFits' /\ LaterOff' /\ NothingForgotten'
  BY Zenon, <1>1 DEF ReasonFits, LaterOff, NothingForgotten, Ending
<1>3. StartsFromNothing'
  BY Zenon, <1>1 DEF StartsFromNothing, Off
<1>4. CallStage'
  BY Zenon, <1>1 DEF RuntimeInv, CallStage, call, flags
<1> QED BY Zenon, <1>1, <1>2, <1>3, <1>4 DEF RuntimeInv

\* The thread gives the launch up, or ends.
LEMMA GivesUp ==
  ASSUME RuntimeInv, UNCHANGED <<ep, events, inputRunning, midiOut, call, flags>>,
         NEW e \in Endpoints, NEW why \in {"abandon", "shutdown"},
         thread' = At("writerStop", e, why),
         why = "abandon" => thread.why = "launch", why = "shutdown" => thread.at = "shutdown"
  PROVE  RuntimeInv'
<1>1. /\ thread' \in ThreadValue /\ thread'.at = "writerStop" /\ thread'.why = why
  <2>1. "writerStop" \in Places /\ why \in Reasons
    BY Zenon DEF Places, Reasons
  <2> QED BY <2>1, AtFields
<1>2. ReasonFits' /\ LaterOff' /\ StartsFromNothing' /\ NothingForgotten'
  BY Zenon, <1>1 DEF ReasonFits, LaterOff, StartsFromNothing, NothingForgotten, Ending
<1>3. CallStage'
  BY Zenon, <1>1 DEF RuntimeInv, CallStage, call, flags
<1> QED BY Zenon, <1>1, <1>2, <1>3, OnlyThread DEF RuntimeInv

LEMMA LaunchInv == RuntimeInv /\ Launch => RuntimeInv'
<1> SUFFICES ASSUME RuntimeInv, Launch PROVE RuntimeInv'
  BY Zenon
<1>1. /\ thread.at = "launch" /\ thread.why = "launch" /\ thread.e \in Endpoints
      /\ Off(thread.e)
      /\ UNCHANGED <<ep, events, inputRunning, midiOut, call, flags>>
  BY Zenon DEF Launch, RuntimeInv, ReasonFits, ThreadValue, StartsFromNothing
<1>2. RestTypeOK' /\ EventsCounted'
  BY Zenon, <1>1, OnlyThread
<1>3. CASE thread.e = "input" /\ ~inputEnabled
  <2>1. thread' = At("launch", "midi", "launch") /\ ep'["midi"] = OffEndpoint
    BY Zenon, <1>1, <1>3 DEF Launch, RuntimeInv, LaterOff, Off
  <2> QED BY Zenon, <1>1, <1>2, <2>1, LaunchesOn
<1>4. CASE thread.e = "midi"
  BY Zenon, <1>1, <1>2, <1>4, PublishesNext DEF Launch
<1>5. CASE thread.e # "midi" /\ ~(thread.e = "input" /\ ~inputEnabled)
  <2>1. thread' = [thread EXCEPT !.at = "start"]
    BY Zenon, <1>5 DEF Launch
  <2>2. /\ thread' \in ThreadValue /\ thread'.at = "start" /\ thread'.e = thread.e
        /\ thread'.why = "launch"
    BY Zenon, <1>1, <2>1 DEF RuntimeInv, ThreadValue, Places
  <2>3. ReasonFits' /\ StartsFromNothing' /\ NothingForgotten'
    BY Zenon, <1>1, <1>5, <2>2 DEF ReasonFits, StartsFromNothing, NothingForgotten, Ending, Off
  <2>4. LaterOff'
    BY Zenon, <1>1, <2>2 DEF RuntimeInv, LaterOff, Off
  <2>5. CallStage'
    BY Zenon, <1>1, <2>2 DEF RuntimeInv, CallStage, call, flags
  <2> QED BY Zenon, <1>2, <2>2, <2>3, <2>4, <2>5 DEF RuntimeInv
<1> QED BY Zenon, <1>3, <1>4, <1>5

LEMMA LaunchFailsInv == RuntimeInv /\ LaunchFails => RuntimeInv'
<1> SUFFICES ASSUME RuntimeInv, LaunchFails PROVE RuntimeInv'
  BY Zenon
<1>1. /\ thread.why = "launch" /\ thread.e \in Endpoints
      /\ thread' = At("writerStop", thread.e, "abandon")
      /\ UNCHANGED <<ep, events, inputRunning, midiOut, call, flags>>
  BY Zenon DEF LaunchFails, RuntimeInv, ReasonFits, ThreadValue
<1> QED BY Zenon, <1>1, GivesUp

LEMMA LaunchMidiInv == RuntimeInv /\ LaunchMidi => RuntimeInv'
<1> SUFFICES ASSUME RuntimeInv, LaunchMidi PROVE RuntimeInv'
  BY Zenon
<1>1. /\ thread.at = "launch" /\ thread.why = "launch" /\ thread.e = "midi" /\ Off("midi")
      /\ UNCHANGED <<ep, events, inputRunning, call, flags>>
  BY Zenon DEF LaunchMidi, RuntimeInv, ReasonFits, StartsFromNothing
<1>2. PICK written \in BOOLEAN, socket \in BOOLEAN :
        /\ WriterStart(written)
        /\ forwarder' = (forwarder \/ (written /\ socket))
        /\ thread' = IF written /\ socket THEN [thread EXCEPT !.at = "start"] ELSE Step("publish")
  BY Zenon DEF LaunchMidi
<1>3. RestTypeOK'
  BY <1>1, <1>2 DEF RuntimeInv, RestTypeOK, WriterStart, NoWriter, call, flags
<1>4. EventsCounted'
  BY Zenon, <1>1, <1>2 DEF RuntimeInv, EventsCounted, Holds
<1>5. CASE written /\ socket
  <2>1. thread' = [thread EXCEPT !.at = "start"] /\ forwarder'
    BY Zenon, <1>2, <1>5
  <2>2. /\ thread' \in ThreadValue /\ thread'.at = "start" /\ thread'.e = "midi"
        /\ thread'.why = "launch"
    BY Zenon, <1>1, <2>1 DEF RuntimeInv, ThreadValue, Places
  <2>3. ReasonFits' /\ LaterOff' /\ StartsFromNothing' /\ NothingForgotten'
    BY Zenon, <1>1, <2>1, <2>2 DEF ReasonFits, LaterOff, StartsFromNothing, NothingForgotten, Ending, Off
  <2>4. CallStage'
    BY Zenon, <1>1, <2>2 DEF RuntimeInv, CallStage, call, flags
  <2> QED BY Zenon, <1>3, <1>4, <2>2, <2>3, <2>4 DEF RuntimeInv
<1>6. CASE ~(written /\ socket)
  BY Zenon, <1>1, <1>2, <1>3, <1>4, <1>6, PublishesNext
<1> QED BY Zenon, <1>5, <1>6

LEMMA PublishInv == RuntimeInv /\ Publish => RuntimeInv'
<1> SUFFICES ASSUME RuntimeInv, Publish PROVE RuntimeInv'
  BY Zenon
<1>1. /\ thread.at = "publish" /\ startResult' = "ok" /\ caller = "starting"
      /\ UNCHANGED <<ep, events, inputRunning, midiOut, caller, flags>>
  BY Zenon DEF Publish, RuntimeInv, CallStage
<1>2. thread' = Step("loop") /\ ~stopRequested
  BY Zenon, <1>1 DEF Publish, Head_, RuntimeInv, CallStage
<1>3. thread' \in ThreadValue /\ thread'.at = "loop" /\ thread'.why = "none"
  BY <1>2, StepFields DEF Places
<1>4. RestTypeOK' /\ EventsCounted'
  BY <1>1 DEF RuntimeInv, RestTypeOK, EventsCounted, Holds, midiOut, flags
<1>5. ReasonFits' /\ LaterOff' /\ StartsFromNothing' /\ NothingForgotten'
  BY Zenon, <1>3 DEF ReasonFits, LaterOff, StartsFromNothing, NothingForgotten, Ending
<1>6. CallStage'
  BY Zenon, <1>1, <1>2, <1>3 DEF CallStage, flags
<1> QED BY Zenon, <1>3, <1>4, <1>5, <1>6 DEF RuntimeInv

LEMMA LoopReturnsInv == RuntimeInv /\ LoopReturns => RuntimeInv'
<1> SUFFICES ASSUME RuntimeInv, LoopReturns PROVE RuntimeInv'
  BY Zenon
<1>1. /\ thread.at = "loop" /\ thread' = Step("checkOutput")
      /\ UNCHANGED <<ep, events, inputRunning, midiOut, call, flags>>
  BY Zenon DEF LoopReturns
<1> QED BY Zenon, <1>1, OnlyThread, ServesOn
LEMMA CheckOutputInv == RuntimeInv /\ CheckOutput => RuntimeInv'
<1> SUFFICES ASSUME RuntimeInv, CheckOutput PROVE RuntimeInv'
  BY Zenon
<1>1. /\ thread.at = "checkOutput" /\ "output" \in Endpoints
      /\ UNCHANGED <<ep, events, inputRunning, midiOut, call, flags>>
  BY Zenon DEF CheckOutput, Endpoints
<1>2. RestTypeOK' /\ EventsCounted'
  BY Zenon, <1>1, OnlyThread
<1>3. CASE thread' = At("stop", "output", "retry")
  BY Zenon, <1>1, <1>2, <1>3, ErrandInv
<1>4. CASE thread' = AfterCheck("output")
  BY Zenon, <1>1, <1>2, <1>4, ChecksOn
<1> QED BY Zenon, <1>3, <1>4 DEF CheckOutput

LEMMA SwapInv == RuntimeInv /\ Swap => RuntimeInv'
<1> SUFFICES ASSUME RuntimeInv, Swap PROVE RuntimeInv'
  BY Zenon
<1>1. /\ thread.at = "swap" /\ "output" \in Endpoints
      /\ UNCHANGED <<ep, events, inputRunning, midiOut, call, flags>>
  BY Zenon DEF Swap, Endpoints
<1>2. RestTypeOK' /\ EventsCounted' /\ ep'["output"] = OffEndpoint
  BY Zenon, <1>1, OnlyThread DEF RuntimeInv, StartsFromNothing, Off
<1>3. CASE thread' = At("start", "output", "serve")
  BY Zenon, <1>1, <1>2, <1>3, ErrandInv
<1>4. CASE thread' = AfterCheck("output")
  BY Zenon, <1>1, <1>2, <1>4, ChecksOn
<1> QED BY Zenon, <1>3, <1>4 DEF Swap

LEMMA CheckInputInv == RuntimeInv /\ CheckInput => RuntimeInv'
<1> SUFFICES ASSUME RuntimeInv, CheckInput PROVE RuntimeInv'
  BY Zenon
<1>1. /\ thread.at = "checkInput" /\ "input" \in Endpoints
      /\ UNCHANGED <<ep, events, inputRunning, midiOut, call, flags>>
  BY Zenon DEF CheckInput, Endpoints
<1>2. RestTypeOK' /\ EventsCounted'
  BY Zenon, <1>1, OnlyThread
<1>3. CASE thread' = At("start", "input", "serve")
  BY Zenon, <1>1, <1>2, <1>3, ErrandInv
<1>4. CASE thread' = At("stop", "input", "unwanted")
  BY Zenon, <1>1, <1>2, <1>4, ErrandInv
<1>5. CASE thread' = AfterCheck("input")
  BY Zenon, <1>1, <1>2, <1>5, ChecksOn
<1> QED BY Zenon, <1>3, <1>4, <1>5 DEF CheckInput

LEMMA CheckMidiInv == RuntimeInv /\ CheckMidi => RuntimeInv'
<1> SUFFICES ASSUME RuntimeInv, CheckMidi PROVE RuntimeInv'
  BY Zenon
<1>1. /\ thread.at = "checkMidi" /\ "midi" \in Endpoints
      /\ UNCHANGED <<ep, events, inputRunning, call, flags>>
  BY Zenon DEF CheckMidi, Endpoints
<1>2. /\ forwarder' \in BOOLEAN
      /\ forwarder => forwarder'
      /\ writer' \in [running : BOOLEAN, at : {"off", "poll", "write", "ended"}]
  <2>1. writer \in [running : BOOLEAN, at : {"off", "poll", "write", "ended"}] /\ forwarder \in BOOLEAN
    BY Zenon DEF RuntimeInv, RestTypeOK
  <2>2. CASE UNCHANGED midiOut
    BY Zenon, <2>1, <2>2 DEF midiOut
  <2>3. CASE \E written, socket \in BOOLEAN : /\ WriterStart(written)
                                             /\ forwarder' = (forwarder \/ socket)
    BY <2>1, <2>3 DEF WriterStart, NoWriter
  <2> QED BY Zenon, <2>2, <2>3 DEF CheckMidi
<1>3. RestTypeOK'
  BY <1>1, <1>2 DEF RuntimeInv, RestTypeOK, call, flags
<1>4. EventsCounted'
  BY Zenon, <1>1, <1>2 DEF RuntimeInv, EventsCounted, Holds
<1>5. CASE thread' = Head_
  BY Zenon, <1>1, <1>3, <1>4, <1>5, ServesOn DEF Head_
<1>6. CASE thread' = At("stop", "midi", "recover") /\ forwarder'
  BY Zenon, <1>1, <1>3, <1>4, <1>6, ErrandInv
<1>7. CASE thread' = Step("startMidi") /\ forwarder'
  <2>1. thread' \in ThreadValue /\ thread'.at = "startMidi" /\ thread'.why = "none"
    BY Zenon, <1>7, StepFields DEF Places
  <2>2. ReasonFits' /\ LaterOff' /\ StartsFromNothing' /\ NothingForgotten'
    BY Zenon, <1>7, <2>1 DEF ReasonFits, LaterOff, StartsFromNothing, NothingForgotten, Ending
  <2>3. CallStage'
    BY Zenon, <1>1, <2>1 DEF RuntimeInv, CallStage, call, flags
  <2> QED BY Zenon, <1>3, <1>4, <2>1, <2>2, <2>3 DEF RuntimeInv
<1> QED BY Zenon, <1>5, <1>6, <1>7 DEF CheckMidi

LEMMA StartMidiInv == RuntimeInv /\ StartMidi => RuntimeInv'
<1> SUFFICES ASSUME RuntimeInv, StartMidi PROVE RuntimeInv'
  BY Zenon
<1>1. /\ thread.at = "startMidi" /\ "midi" \in Endpoints /\ forwarder'
      /\ UNCHANGED <<ep, events, inputRunning, midiOut, call, flags>>
  BY Zenon DEF StartMidi, RuntimeInv, StartsFromNothing, midiOut, Endpoints
<1>2. RestTypeOK' /\ EventsCounted'
  BY Zenon, <1>1, OnlyThread
<1>3. CASE ep["midi"].held
  BY Zenon, <1>1, <1>2, <1>3, ServesOn DEF Head_, StartMidi
<1>4. CASE ~ep["midi"].held
  <2>1. ep'["midi"] = OffEndpoint /\ thread' = At("start", "midi", "serve")
    BY Zenon, <1>1, <1>4, NotHeldIsOff DEF Off, StartMidi
  <2> QED BY Zenon, <1>1, <1>2, <2>1, ErrandInv
<1> QED BY Zenon, <1>3, <1>4

LEMMA ShutdownInv == RuntimeInv /\ Shutdown => RuntimeInv'
<1> SUFFICES ASSUME RuntimeInv, Shutdown PROVE RuntimeInv'
  BY Zenon
<1>1. /\ thread.at = "shutdown" /\ "output" \in Endpoints
      /\ thread' = At("writerStop", "output", "shutdown")
      /\ UNCHANGED <<ep, events, inputRunning, midiOut, call, flags>>
  BY Zenon DEF Shutdown, Endpoints
<1> QED BY Zenon, <1>1, GivesUp

LEMMA WriterStopInv == RuntimeInv /\ WriterStop => RuntimeInv'
<1> SUFFICES ASSUME RuntimeInv, WriterStop PROVE RuntimeInv'
  BY Zenon
<1>1. /\ thread.at = "writerStop" /\ Ending
      /\ UNCHANGED <<ep, events, inputRunning, forwarder, call, flags>>
  BY Zenon DEF WriterStop, RuntimeInv, ReasonFits
<1>2. EventsCounted'
  BY Zenon, <1>1 DEF RuntimeInv, EventsCounted, Holds
<1>3. CASE writer.at \in {"off", "ended"}
  <2> DEFINE todo == FirstPass(thread.why)
  <2>1. writer' = NoWriter /\ thread' = Pass(thread.why, todo, {})
    BY Zenon, <1>3 DEF WriterStop
  <2>2. RestTypeOK'
    BY <1>1, <2>1 DEF RuntimeInv, RestTypeOK, NoWriter, call, flags
  <2>3. todo \in Seq(Endpoints) /\ \A f \in Endpoints : \E i \in 1..Len(todo) : todo[i] = f
    <3>1. CASE thread.why = "abandon"
      <4>1. todo = <<"midi", "input", "output", "feedback">>
        BY Zenon, <3>1 DEF FirstPass
      <4>2. 1 \in 1..Len(todo) /\ 2 \in 1..Len(todo) /\ 3 \in 1..Len(todo) /\ 4 \in 1..Len(todo)
        BY <4>1
      <4>3. todo[1] = "midi" /\ todo[2] = "input" /\ todo[3] = "output" /\ todo[4] = "feedback"
        BY <4>1
      <4>4. todo \in Seq(Endpoints)
        BY <4>1 DEF Endpoints
      <4> HIDE DEF todo
      <4> QED BY Zenon, <4>2, <4>3, <4>4 DEF Endpoints
    <3>2. CASE thread.why # "abandon"
      <4>1. todo = <<"midi", "input", "feedback", "output">>
        BY Zenon, <3>2 DEF FirstPass
      <4>2. 1 \in 1..Len(todo) /\ 2 \in 1..Len(todo) /\ 3 \in 1..Len(todo) /\ 4 \in 1..Len(todo)
        BY <4>1
      <4>3. todo[1] = "midi" /\ todo[2] = "input" /\ todo[3] = "feedback" /\ todo[4] = "output"
        BY <4>1
      <4>4. todo \in Seq(Endpoints)
        BY <4>1 DEF Endpoints
      <4> HIDE DEF todo
      <4> QED BY Zenon, <4>2, <4>3, <4>4 DEF Endpoints
    <3> QED BY Zenon, <3>1, <3>2
  <2> HIDE DEF todo
  <2> QED BY <1>1, <1>2, <2>1, <2>2, <2>3, PassInv
<1>4. CASE writer.at \notin {"off", "ended"}
  <2>1. writer' = [writer EXCEPT !.running = FALSE] /\ UNCHANGED thread
    BY Zenon, <1>4 DEF WriterStop
  <2>2. RestTypeOK'
    BY ZenonT(90), <1>1, <2>1 DEF RuntimeInv, RestTypeOK, call, flags
  <2>3. ReasonFits' /\ LaterOff' /\ StartsFromNothing' /\ NothingForgotten'
    BY Zenon, <1>1, <2>1 DEF RuntimeInv, ReasonFits, LaterOff, StartsFromNothing, NothingForgotten, Ending, Off
  <2>4. CallStage'
    BY Zenon, <1>1, <2>1 DEF RuntimeInv, CallStage, call, flags
  <2> QED BY Zenon, <1>2, <2>1, <2>2, <2>3, <2>4 DEF RuntimeInv
<1> QED BY Zenon, <1>3, <1>4

LEMMA RepeatInv == RuntimeInv /\ Repeat => RuntimeInv'
<1> SUFFICES ASSUME RuntimeInv, Repeat PROVE RuntimeInv'
  BY Zenon
<1> DEFINE todo == RetryPass(thread.why, thread.failed)
<1>1. /\ thread.at = "pause" /\ Ending /\ thread' = Pass(thread.why, todo, thread.failed)
      /\ UNCHANGED <<ep, events, inputRunning, midiOut, call, flags>>
  BY Zenon DEF Repeat, RuntimeInv, ReasonFits
<1>2. \A e \in Endpoints : Repeated(e, thread.failed) \in Seq(Endpoints)
  BY DEF Repeated
<1>3. todo \in Seq(Endpoints)
  <2>1. /\ Repeated("output", thread.failed) \in Seq(Endpoints)
        /\ Repeated("feedback", thread.failed) \in Seq(Endpoints)
        /\ Repeated("input", thread.failed) \in Seq(Endpoints)
        /\ Repeated("midi", thread.failed) \in Seq(Endpoints)
    BY Zenon, <1>2 DEF Endpoints
  <2> QED BY <2>1 DEF RetryPass
<1>4. thread.failed \in SUBSET Endpoints
  BY Zenon DEF RuntimeInv, ThreadValue
<1>5. writer' = NoWriter
  BY Zenon, <1>1 DEF RuntimeInv, NothingForgotten, midiOut
<1>6. \A f \in Endpoints : ep'[f] = OffEndpoint \/ f \in thread.failed
  BY <1>1 DEF RuntimeInv, NothingForgotten, Stopping, Off
<1> HIDE DEF todo
<1> QED BY Zenon, <1>1, <1>3, <1>4, <1>5, <1>6, OnlyThread, PassInv

LEMMA ResetInv == RuntimeInv /\ Reset => RuntimeInv'
<1> SUFFICES ASSUME RuntimeInv, Reset PROVE RuntimeInv'
  BY Zenon
<1>1. /\ thread.at = "reset" /\ Ending /\ ~forwarder' /\ forwarder' \in BOOLEAN
      /\ inputRunning' \in BOOLEAN /\ thread' = Step("ended")
      /\ UNCHANGED <<ep, events, writer, caller, flags>>
      /\ startResult' = IF thread.why = "abandon" THEN "error" ELSE startResult
  BY Zenon DEF Reset, RuntimeInv, ReasonFits
<1>2. /\ writer' = NoWriter /\ \A e \in Endpoints : ep'[e] = OffEndpoint
  BY Zenon, <1>1 DEF RuntimeInv, CallStage, Off
<1>3. thread' \in ThreadValue /\ thread'.at = "ended" /\ thread'.why = "none"
  BY Zenon, <1>1, StepFields DEF Places
<1>4. RestTypeOK'
  BY <1>1 DEF RuntimeInv, RestTypeOK, flags
<1>5. EventsCounted'
  BY <1>1, <1>2 DEF RuntimeInv, EventsCounted, Holds, OffEndpoint, Endpoints
<1>6. ReasonFits' /\ LaterOff' /\ StartsFromNothing' /\ NothingForgotten'
  BY Zenon, <1>3 DEF ReasonFits, LaterOff, StartsFromNothing, NothingForgotten, Ending
<1>7. CallStage'
  BY Zenon, <1>1, <1>2, <1>3 DEF RuntimeInv, CallStage, Ending, flags, Off
<1> QED BY Zenon, <1>3, <1>4, <1>5, <1>6, <1>7 DEF RuntimeInv
-----------------------------------------------------------------------------
(* Callbacks, the MIDI output thread and the caller                        *)

LEMMA CompletionInv ==
  ASSUME RuntimeInv, NEW e \in Endpoints, Completion(e)
  PROVE  RuntimeInv'
<1>1. /\ ep[e].flight /\ UNCHANGED <<events, inputRunning, thread, midiOut, call, flags>>
  BY Zenon DEF Completion
<1>2. ep \in [Endpoints -> EndpointValue]
  BY Zenon DEF RuntimeInv, RestTypeOK
<1>3. /\ ep' \in [Endpoints -> EndpointValue]
      /\ \A f \in Endpoints \ {e} : ep'[f] = ep[f]
      /\ ep'[e].held = ep[e].held
  <2>1. CASE \E more \in BOOLEAN : ep' = [ep EXCEPT ![e].active = FALSE, ![e].flight = more]
    <3>1. PICK more \in BOOLEAN : ep' = [ep EXCEPT ![e].active = FALSE, ![e].flight = more]
      BY Zenon, <2>1
    <3>2. ep' = [ep EXCEPT ![e] = [@ EXCEPT !.active = FALSE, !.flight = more]]
      BY Zenon, <1>2, <3>1 DEF EndpointValue
    <3> QED BY Zenon, <1>2, <3>2 DEF EndpointValue
  <2>2. CASE ep' = [ep EXCEPT ![e].flight = FALSE]
    BY Zenon, <1>2, <2>2 DEF EndpointValue
  <2> QED BY Zenon, <2>1, <2>2 DEF Completion
<1>4. ep[e].held /\ ~Off(e)
  BY <1>1 DEF RuntimeInv, EventsCounted, Holds, Off, OffEndpoint
<1>5. \A f \in Endpoints : ep'[f].held = ep[f].held /\ (Off(f) => ep'[f] = OffEndpoint)
  BY Zenon, <1>3, <1>4 DEF Off
<1>6. RestTypeOK'
  BY <1>1, <1>3 DEF RuntimeInv, RestTypeOK, midiOut, call, flags
<1>7. EventsCounted'
  <2>1. \A f \in Endpoints : ep'[f].flight \/ ep'[f].active => ep'[f].held
    BY Zenon, <1>3, <1>4 DEF RuntimeInv, EventsCounted, Holds
  <2>2. /\ ep'["output"].held = ep["output"].held /\ ep'["midi"].held = ep["midi"].held
        /\ ep'["feedback"].held = ep["feedback"].held /\ ep'["input"].held = ep["input"].held
    BY Zenon, <1>5 DEF Endpoints
  <2> QED BY Zenon, <1>1, <2>1, <2>2 DEF RuntimeInv, EventsCounted, Holds, midiOut
<1>8. ReasonFits' /\ LaterOff'
  BY Zenon, <1>1, <1>5 DEF RuntimeInv, ReasonFits, LaterOff, Ending, Off, Endpoints
<1>9. StartsFromNothing'
  <2>1. thread.e \in Endpoints /\ "output" \in Endpoints
    BY Zenon DEF RuntimeInv, ThreadValue, Endpoints
  <2> QED BY Zenon, <1>1, <1>5, <2>1 DEF RuntimeInv, StartsFromNothing, midiOut, Off
<1>10. NothingForgotten'
  BY Zenon, <1>1, <1>5 DEF RuntimeInv, NothingForgotten, Ending, Stopping, midiOut, Off
<1>11. CallStage'
  BY Zenon, <1>1, <1>5 DEF RuntimeInv, CallStage, midiOut, call, flags, Off
<1> QED BY Zenon, <1>1, <1>6, <1>7, <1>8, <1>9, <1>10, <1>11 DEF RuntimeInv

LEMMA WriterInv ==
  ASSUME RuntimeInv, WriterReceives \/ WriterWrites \/ WriterEnds
  PROVE  RuntimeInv'
<1>1. /\ writer # NoWriter /\ UNCHANGED <<ep, events, forwarder, inputRunning, thread, call, flags>>
      /\ writer' \in [running : BOOLEAN, at : {"off", "poll", "write", "ended"}]
  BY DEF WriterReceives, WriterWrites, WriterEnds, NoWriter, RuntimeInv, RestTypeOK
<1>2. RestTypeOK' /\ EventsCounted'
  BY SMTT(60), <1>1 DEF RuntimeInv, RestTypeOK, EventsCounted, Holds, call, flags
<1>3. ReasonFits' /\ LaterOff' /\ StartsFromNothing'
  BY SMTT(30), <1>1 DEF RuntimeInv, ReasonFits, LaterOff, StartsFromNothing, Ending, Off
<1>4. NothingForgotten'
  BY Zenon, <1>1 DEF RuntimeInv, NothingForgotten, Ending
<1>5. CallStage'
  BY Zenon, <1>1 DEF RuntimeInv, CallStage, call, flags
<1> QED BY Zenon, <1>1, <1>2, <1>3, <1>4, <1>5 DEF RuntimeInv

LEMMA StartCallInv == RuntimeInv /\ StartCall => RuntimeInv'
<1> SUFFICES ASSUME RuntimeInv, StartCall PROVE RuntimeInv'
  BY Zenon
<1>1. /\ thread.at = "none" /\ writer = NoWriter /\ \A e \in Endpoints : Off(e)
  BY Zenon DEF StartCall, RuntimeInv, CallStage
<1>2. /\ thread' \in ThreadValue /\ thread'.at = "launch" /\ thread'.e = "output"
      /\ thread'.why = "launch"
  <2>1. "launch" \in Places /\ "output" \in Endpoints /\ "launch" \in Reasons
    BY Zenon DEF Places, Endpoints, Reasons
  <2> QED BY <2>1, AtFields DEF StartCall
<1>3. RestTypeOK' /\ EventsCounted'
  BY Zenon DEF StartCall, RuntimeInv, RestTypeOK, EventsCounted, Holds, midiOut
<1>4. \A e \in Endpoints : Off(e)'
  BY Zenon, <1>1 DEF StartCall, Off
<1>5. ReasonFits' /\ LaterOff' /\ StartsFromNothing' /\ NothingForgotten'
  BY Zenon, <1>2, <1>4 DEF ReasonFits, LaterOff, StartsFromNothing, NothingForgotten, Ending, Endpoints
<1>6. CallStage'
  BY Zenon, <1>2 DEF StartCall, CallStage
<1> QED BY Zenon, <1>2, <1>3, <1>5, <1>6 DEF RuntimeInv

\* The thread is joined.
LEMMA JoinedInv ==
  ASSUME RuntimeInv, thread.at = "ended", caller' = "idle", thread' = Step("none"),
         UNCHANGED <<ep, events, midiOut, inputRunning, startResult, flags>>
  PROVE  RuntimeInv'
<1>1. thread' \in ThreadValue /\ thread'.at = "none" /\ thread'.why = "none"
  BY StepFields DEF Places
<1>2. RestTypeOK' /\ EventsCounted'
  BY DEF RuntimeInv, RestTypeOK, EventsCounted, Holds, midiOut, flags
<1>3. ReasonFits' /\ LaterOff' /\ StartsFromNothing' /\ NothingForgotten'
  BY Zenon, <1>1 DEF ReasonFits, LaterOff, StartsFromNothing, NothingForgotten, Ending
<1>4. CallStage'
  BY Zenon, <1>1 DEF RuntimeInv, CallStage, midiOut, flags, Off
<1> QED BY Zenon, <1>1, <1>2, <1>3, <1>4 DEF RuntimeInv

\* The caller goes on, the thread undisturbed.
LEMMA CallerInv ==
  ASSUME RuntimeInv,
         \/ caller = "starting" /\ startResult = "ok" /\ caller' = "up" /\ UNCHANGED <<stopRequested, inputEnabled>>
         \/ caller = "up" /\ UNCHANGED <<caller, stopRequested>> /\ inputEnabled' = ~inputEnabled
         \/ caller = "up" /\ caller' = "stopping" /\ stopRequested' = TRUE /\ UNCHANGED inputEnabled,
         UNCHANGED <<ep, events, midiOut, inputRunning, thread, startResult, midiEnabled>>
  PROVE  RuntimeInv'
<1>1. RestTypeOK' /\ EventsCounted'
  BY ZenonT(90) DEF RuntimeInv, RestTypeOK, EventsCounted, Holds, midiOut
<1>2. ReasonFits' /\ LaterOff' /\ StartsFromNothing'
  BY DEF RuntimeInv, ReasonFits, LaterOff, StartsFromNothing, Ending, Off, midiOut
<1>3. NothingForgotten'
  BY Zenon DEF RuntimeInv, NothingForgotten, Ending, Stopping, Off, midiOut
<1>4. CallStage'
  BY DEF RuntimeInv, CallStage, Off, midiOut
<1> QED BY Zenon, <1>1, <1>2, <1>3, <1>4 DEF RuntimeInv
-----------------------------------------------------------------------------
(* The theorem                                                             *)

LEMMA RuntimeInit == Init => RuntimeInv
<1> SUFFICES ASSUME Init PROVE RuntimeInv
  BY Zenon
<1>1. thread \in ThreadValue /\ thread.at = "none" /\ thread.why = "none"
  BY StepFields DEF Init, Places
<1>2. RestTypeOK /\ \A e \in Endpoints : Off(e)
  <2>1. \A e \in Endpoints : Off(e)
    BY Zenon DEF Init, Off
  <2>2. OffEndpoint \in EndpointValue
    BY Zenon DEF OffEndpoint, EndpointValue
  <2>3. ep \in [Endpoints -> EndpointValue]
    BY Zenon, <2>2 DEF Init
  <2>4. events \in [Interfaces -> 0..MaxEventClients]
    BY RuntimeAssumption DEF Init
  <2> QED BY Zenon, <2>1, <2>3, <2>4 DEF Init, RestTypeOK, NoWriter
<1>3. EventsCounted
  BY <1>2 DEF Init, EventsCounted, Off, OffEndpoint, Holds, Endpoints, Interfaces
<1>4. ReasonFits /\ LaterOff /\ StartsFromNothing /\ NothingForgotten
  BY Zenon, <1>1 DEF ReasonFits, LaterOff, StartsFromNothing, NothingForgotten, Ending
<1>5. CallStage
  BY Zenon, <1>1, <1>2 DEF Init, CallStage
<1> QED BY Zenon, <1>1, <1>2, <1>3, <1>4, <1>5 DEF RuntimeInv

LEMMA RuntimeStep == RuntimeInv /\ [Next]_vars => RuntimeInv'
<1> SUFFICES ASSUME RuntimeInv, [Next]_vars PROVE RuntimeInv'
  BY Zenon
<1>1. CASE ThreadStep
  BY <1>1, StopEndpointInv, DrainedInv, DrainTimeoutInv, StartFailsInv, StartSubmitsInv, LaunchInv,
     LaunchFailsInv, LaunchMidiInv, PublishInv, LoopReturnsInv, CheckOutputInv, SwapInv, CheckInputInv,
     CheckMidiInv, StartMidiInv, ShutdownInv, WriterStopInv, RepeatInv, ResetInv, Zenon DEF ThreadStep
<1>2. CASE WriterReceives \/ WriterStep
  BY Zenon, <1>2, WriterInv DEF WriterStep
<1>3. CASE \E e \in Endpoints : Completion(e)
  BY Zenon, <1>3, CompletionInv
<1>4. CASE StartCall
  BY Zenon, <1>4, StartCallInv
<1>5. CASE StartReturns
  <2>1. CASE startResult = "ok" /\ caller' = "up" /\ UNCHANGED thread
    BY Zenon, <1>5, <2>1, CallerInv DEF StartReturns, flags
  <2>2. CASE startResult # "ok" /\ thread.at = "ended" /\ caller' = "idle" /\ thread' = Step("none")
    BY Zenon, <1>5, <2>2, JoinedInv DEF StartReturns
  <2> QED BY Zenon, <1>5, <2>1, <2>2 DEF StartReturns
<1>6. CASE setInputEnabled
  BY Zenon, <1>6, CallerInv DEF setInputEnabled, call
<1>7. CASE StopCall
  BY Zenon, <1>7, CallerInv DEF StopCall
<1>8. CASE StopReturns
  BY Zenon, <1>8, JoinedInv DEF StopReturns
<1>9. CASE UNCHANGED vars
  <2>1. RestTypeOK' /\ thread' \in ThreadValue /\ EventsCounted'
    BY SMTT(60), <1>9 DEF vars, RuntimeInv, RestTypeOK, EventsCounted, Holds
  <2>2. ReasonFits' /\ LaterOff' /\ StartsFromNothing'
    BY SMTT(30), <1>9 DEF vars, RuntimeInv, ReasonFits, LaterOff, StartsFromNothing, Ending, Off
  <2>3. NothingForgotten'
    BY Zenon, <1>9 DEF vars, RuntimeInv, NothingForgotten, Ending, Stopping, Off
  <2>4. CallStage'
    BY Zenon, <1>9 DEF vars, RuntimeInv, CallStage, Off
  <2> QED BY Zenon, <2>1, <2>2, <2>3, <2>4 DEF RuntimeInv
<1> QED BY Zenon, <1>1, <1>2, <1>3, <1>4, <1>5, <1>6, <1>7, <1>8, <1>9 DEF Next

LEMMA RuntimeInvImplies == RuntimeInv => AtRest
<1> SUFFICES ASSUME RuntimeInv PROVE AtRest
  BY Zenon
<1>1. TypeOK
  BY Zenon DEF RuntimeInv, RestTypeOK, ThreadValue, Places, EndpointValue, TypeOK
<1>3. SharedResourcesHeld
  BY ZenonT(90), <1>1 DEF RuntimeInv, EventsCounted, Holds, SharedResourcesHeld
<1>4. thread.at \in {"reset", "ended", "none"} =>
        /\ \A e \in Endpoints : ep[e] = OffEndpoint
        /\ writer = NoWriter
        /\ events["main"] = 0
  BY DEF RuntimeInv, CallStage, EventsCounted, Holds, Off, OffEndpoint, Endpoints
<1>5. thread.at = "swap" => ep["output"] = OffEndpoint
  BY Zenon DEF RuntimeInv, StartsFromNothing, Off
<1>6. caller = "idle" => thread.at = "none" /\ ~forwarder
  BY Zenon DEF RuntimeInv, CallStage
<1>7. caller = "up" => thread.at \notin {"none", "ended", "reset"} /\ startResult = "ok"
  BY Zenon DEF RuntimeInv, CallStage, ReasonFits, Ending
<1> QED BY Zenon, <1>3, <1>4, <1>5, <1>6, <1>7 DEF AtRest

\* Whatever fails to start, halts, or times out in its stop: when start() has failed or
\* stop() has returned, no endpoint of the runtime holds or awaits anything and the MIDI
\* output thread is joined, no worker is replaced before it is at rest, and until then
\* each interface keeps the event source that its endpoints' requests need.
THEOREM RuntimeEndsAtRest == Spec => []AtRest
<1>1. Init => RuntimeInv
  BY Zenon, RuntimeInit
<1>2. RuntimeInv /\ [Next]_vars => RuntimeInv'
  BY Zenon, RuntimeStep
<1>3. RuntimeInv => AtRest
  BY Zenon, RuntimeInvImplies
<1> QED BY <1>1, <1>2, <1>3, PTL DEF Spec
=============================================================================
