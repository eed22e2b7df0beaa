-------------------------- MODULE MIDIInputReader --------------------------
(***************************************************************************)
(* The MIDI report reader, the parser behind it, the event source it       *)
(* shares with the output worker, and the part of                          *)
(* AudioTransportRuntime::workerMain that starts, recovers and stops it.   *)
(* One thread; the USB stack fills the reads of the pipe in the order they *)
(* were submitted, and callbacks run, in any order, while the thread is in *)
(* the runtime's run loop or in the one nested in stop().                  *)
(***************************************************************************)
EXTENDS MIDIInputParser, FiniteSets

CONSTANTS
  SlotCount,        \* kSlotCount
  SequenceModulus,  \* sequence numbers are unsigned: 2^64 in the code
  PayloadBytes,     \* kReportPayloadBytes
  Script            \* the messages the controller sends, over and over

ASSUME MIDIReaderAssumption ==
  /\ SlotCount \in Nat \ {0}
  /\ SequenceModulus \in Nat /\ SlotCount < SequenceModulus
  /\ PayloadBytes \in Nat \ {0}
  /\ Len(FlattenSeq(Script)) \in Nat \ {0}

VARIABLES
  reader,        \* session_ set, running_, eventsAcquired_
  slot,          \* slot -> state, whether the read was good, sequence, payload
  parser,        \* parser_
  nextSubmit, nextProcess,
  eventClients,  \* NS6DeviceSession::eventClients_
  output,        \* the output worker holds the event source too
  forwarder,     \* the forwarder's socket is open
  thread,        \* the runtime thread: pc, goal, result, and where a callback returns to
  stopRequested,
  device,        \* position of the controller in its stream of bytes
  history,       \* ghost: the last two messages published since start()
  healthy        \* ghost: no read failed since start()

usb == <<slot, device>>
counters == <<nextSubmit, nextProcess>>
ghosts == <<history, healthy>>
vars == <<reader, slot, parser, nextSubmit, nextProcess, eventClients, output, forwarder, thread,
          stopRequested, device, history, healthy>>

Slots == 0..(SlotCount - 1)
Stream == FlattenSeq(Script)

Increment(q) == (q + 1) % SequenceModulus

InFlight == {s \in Slots : slot[s].state \in {"busy", "due"}}
Completed == {s \in Slots : slot[s].state = "completed"}

\* The other fields of an idle slot are dead: submit() and the read fill them.
IdleSlot == [state |-> "idle", good |-> TRUE, sequence |-> 0, payload |-> <<>>]
OffReader == [session |-> FALSE, running |-> FALSE, events |-> FALSE]
At(pc, goal) == [pc |-> pc, goal |-> goal, result |-> "ok", back |-> "loop"]

\* The launch starts the reader unless MIDI output or the socket failed.
Init ==
  /\ reader = OffReader
  /\ slot = [s \in Slots |-> IdleSlot]
  /\ parser = NoMessage
  /\ nextSubmit = 0 /\ nextProcess = 0
  /\ output = TRUE /\ eventClients = 1
  /\ \/ forwarder = TRUE /\ thread = At("start", "serve")
     \/ forwarder = FALSE /\ thread = At("loop", "serve")
  /\ stopRequested = FALSE
  /\ device = 0
  /\ history = <<>> /\ healthy = TRUE
-----------------------------------------------------------------------------
(* start().  It refuses while the reader runs or reads are in flight, which *)
(* never happens: the runtime starts only a reader without a session.      *)

\* No event source, or the halt of the pipe cannot be cleared and the source is
\* given back.
StartFails ==
  /\ thread.pc = "start"
  /\ ~reader.running /\ InFlight = {}
  /\ reader' \in {OffReader, [OffReader EXCEPT !.events = reader.events]}
  /\ parser' = NoMessage
  /\ nextSubmit' = 0 /\ nextProcess' = 0
  /\ thread' = At("loop", "serve")
  /\ history' = <<>> /\ healthy' = TRUE
  /\ UNCHANGED <<eventClients, output, forwarder, stopRequested, usb>>

\* Up to the drain loop of stop(), entered with flight reads in flight.
StopFrom(goal, flight) ==
  \E result \in {"ok", "error"} :
    /\ flight = {} => result = "ok"
    /\ thread' = [At(IF flight = {} THEN "release" ELSE "drain", goal) EXCEPT !.result = result]

\* The first n reads are submitted, the next one is refused unless n is all.
StartSubmits(n) ==
  /\ thread.pc = "start"
  /\ ~reader.running /\ InFlight = {}
  /\ eventClients' = eventClients + 1
  /\ slot' = [s \in Slots |-> IF s < n THEN [IdleSlot EXCEPT !.state = "busy", !.sequence = s]
                              ELSE slot[s]]
  /\ parser' = NoMessage
  /\ nextSubmit' = n /\ nextProcess' = 0
  /\ reader' = [session |-> TRUE, running |-> n = SlotCount, events |-> TRUE]
  /\ history' = <<>> /\ healthy' = TRUE
  /\ IF n = SlotCount THEN thread' = At("loop", "serve") ELSE StopFrom("startFailed", 0..(n - 1))
  /\ UNCHANGED <<output, forwarder, stopRequested, device>>
-----------------------------------------------------------------------------
(* stop()                                                                  *)

Stop(goal) ==
  IF ~reader.session
  THEN thread' = At("stopped", goal) /\ UNCHANGED reader
  ELSE reader' = [reader EXCEPT !.running = FALSE] /\ StopFrom(goal, InFlight)

DrainTimeout ==
  /\ thread.pc = "drain" /\ InFlight # {}
  /\ thread' = [thread EXCEPT !.pc = "stopped", !.result = "timeout"]
  /\ UNCHANGED <<reader, parser, counters, eventClients, output, forwarder, stopRequested, usb,
                 ghosts>>

DrainDone ==
  /\ thread.pc = "drain" /\ InFlight = {}
  /\ thread' = [thread EXCEPT !.pc = "release"]
  /\ UNCHANGED <<reader, parser, counters, eventClients, output, forwarder, stopRequested, usb,
                 ghosts>>

\* Faulty variant: the event source is not given back.
ReleaseKeepingSource ==
  /\ thread.pc = "release"
  /\ thread' = [thread EXCEPT !.pc = "stopped"]
  /\ slot' = [s \in Slots |-> IF s \in Completed THEN IdleSlot ELSE slot[s]]
  /\ reader' = OffReader
  /\ UNCHANGED <<parser, counters, eventClients, output, forwarder, stopRequested, device, ghosts>>

\* releaseEvents fails only when no client is counted.
ReleaseAndReturn ==
  /\ thread.pc = "release"
  /\ thread' = [thread EXCEPT !.pc = "stopped",
                  !.result = IF @ = "ok" /\ reader.events /\ eventClients = 0 THEN "error" ELSE @]
  /\ eventClients' = IF reader.events /\ eventClients > 0 THEN eventClients - 1 ELSE eventClients
  /\ slot' = [s \in Slots |-> IF s \in Completed THEN IdleSlot ELSE slot[s]]
  /\ reader' = OffReader
  /\ UNCHANGED <<parser, counters, output, forwarder, stopRequested, device, ghosts>>
-----------------------------------------------------------------------------
(* Callbacks                                                               *)

\* The bytes of the stream from position p on, filled up to a report.
Payload(p, count) ==
  [i \in 1..PayloadBytes |-> IF i <= count THEN Stream[((p + i - 1) % Len(Stream)) + 1]
                             ELSE [kind |-> "filler", tag |-> 0]]

Age(s) == (slot[s].sequence - nextProcess) % SequenceModulus

\* The pipe serves the oldest read; a read that fails, is short or is aborted may
\* lose what the controller sent.
UsbFinish(s, good, count) ==
  /\ slot[s].state = "busy"
  /\ \A t \in Slots : slot[t].state = "busy" => Age(s) <= Age(t)
  /\ slot' = [slot EXCEPT ![s].state = "due", ![s].good = good,
                          ![s].payload = IF good THEN Payload(device, count) ELSE <<>>]
  /\ device' = (device + count) % Len(Stream)
  /\ UNCHANGED <<reader, parser, counters, eventClients, output, forwarder, thread, stopRequested,
                 ghosts>>

\* The source delivers callbacks while it has a client and a run loop runs.
didComplete(s) ==
  /\ thread.pc \in {"loop", "drain"}
  /\ eventClients > 0
  /\ slot[s].state = "due"
  /\ slot' = [slot EXCEPT ![s].state = "completed"]
  /\ thread' = [thread EXCEPT !.pc = "process", !.back = thread.pc]
  /\ UNCHANGED <<reader, parser, counters, eventClients, output, forwarder, stopRequested, device,
                 ghosts>>

\* Faulty variant: completed reads are parsed in the order they come back.
IsNextCompleted(s) == slot[s].state = "completed"

\* The completed read whose turn it is.
IsNext(s) == slot[s].state = "completed" /\ slot[s].sequence = nextProcess

LastTwo(h) == IF Len(h) <= 2 THEN h ELSE SubSeq(h, Len(h) - 1, Len(h))

\* Parsing of a good report; a failed one stops the reader.
Take(s) ==
  LET fed == feedReport(parser, slot[s].payload)
  IN  IF slot[s].good
      THEN /\ parser' = fed.state
           /\ history' = IF fed.out = <<>> THEN history ELSE LastTwo(Append(history, fed.out))
           /\ UNCHANGED healthy
      ELSE healthy' = FALSE /\ UNCHANGED <<parser, history>>

\* submit() of the slot just processed; a refusal stops the reader.
Submit(s) ==
  \/ /\ slot' = [slot EXCEPT ![s] = [IdleSlot EXCEPT !.state = "busy", !.sequence = nextSubmit]]
     /\ nextSubmit' = Increment(nextSubmit)
     /\ UNCHANGED reader
  \/ /\ slot' = [slot EXCEPT ![s] = IdleSlot]
     /\ reader' = [reader EXCEPT !.running = FALSE]
     /\ UNCHANGED nextSubmit

\* One turn of drainCompletions().
ProcessNext(s) ==
  /\ thread.pc = "process"
  /\ IsNext(s)
  /\ Take(s)
  /\ nextProcess' = Increment(nextProcess)
  /\ IF reader.running /\ slot[s].good THEN Submit(s)
     ELSE /\ slot' = [slot EXCEPT ![s] = IdleSlot]
          /\ reader' = [reader EXCEPT !.running = FALSE]
          /\ UNCHANGED nextSubmit
  /\ UNCHANGED <<eventClients, output, forwarder, thread, stopRequested, device>>

ProcessDone ==
  /\ thread.pc = "process"
  /\ \A s \in Slots : ~IsNext(s)
  /\ thread' = [thread EXCEPT !.pc = thread.back]
  /\ UNCHANGED <<reader, parser, counters, eventClients, output, forwarder, stopRequested, usb,
                 ghosts>>
-----------------------------------------------------------------------------
(* The runtime                                                             *)

NeedsRecovery == reader.session /\ ~reader.running

\* Where the recovery block goes on when stop() need not be called.
AfterRecovery == IF reader.session THEN At("loop", "serve") ELSE At("start", "serve")

\* Faulty variant: only a reader that is already stopped is started.
RecoverStopped ==
  /\ thread = At("loop", "serve") /\ ~stopRequested
  /\ forwarder' \in IF forwarder THEN {TRUE} ELSE BOOLEAN
  /\ thread' = IF forwarder' THEN AfterRecovery ELSE thread
  /\ UNCHANGED <<reader, parser, counters, eventClients, output, stopRequested, usb, ghosts>>

\* The recovery block of the loop, run once a second.
Recover ==
  /\ thread = At("loop", "serve") /\ ~stopRequested
  /\ forwarder' \in IF forwarder THEN {TRUE} ELSE BOOLEAN
  /\ CASE ~forwarder' -> UNCHANGED <<reader, thread>>
       [] forwarder' /\ NeedsRecovery -> Stop("recover")
       [] forwarder' /\ ~NeedsRecovery -> thread' = AfterRecovery /\ UNCHANGED reader
  /\ UNCHANGED <<parser, counters, eventClients, output, stopRequested, usb, ghosts>>

\* stop() returned to the recovery block, or start() its own stop().
StopReturns ==
  /\ thread.pc = "stopped" /\ thread.goal \in {"recover", "startFailed"}
  /\ thread' = IF thread.goal = "recover" THEN AfterRecovery ELSE At("loop", "serve")
  /\ UNCHANGED <<reader, parser, counters, eventClients, output, forwarder, stopRequested, usb,
                 ghosts>>

\* The output worker is stopped, or started again, by the same loop.
OutputToggles ==
  /\ thread = At("loop", "serve") /\ ~stopRequested
  /\ output' = ~output
  /\ eventClients' = IF output THEN eventClients - 1 ELSE eventClients + 1
  /\ UNCHANGED <<reader, parser, counters, forwarder, thread, stopRequested, usb, ghosts>>

RequestStop ==
  /\ thread.pc # "ended" /\ ~stopRequested
  /\ stopRequested' = TRUE
  /\ UNCHANGED <<reader, parser, counters, eventClients, output, forwarder, thread, usb, ghosts>>

ShutdownStop ==
  /\ thread.pc = "loop"
  /\ thread.goal = "shutdown" \/ (thread.goal = "serve" /\ stopRequested)
  /\ Stop("shutdown")
  /\ UNCHANGED <<parser, counters, eventClients, output, forwarder, stopRequested, usb, ghosts>>

\* The reader is destroyed once stop() succeeded, and then the socket is closed.
ShutdownReturns ==
  /\ thread.pc = "stopped" /\ thread.goal = "shutdown"
  /\ thread' = At(IF thread.result = "ok" THEN "ended" ELSE "loop", "shutdown")
  /\ forwarder' = (forwarder /\ thread.result # "ok")
  /\ UNCHANGED <<reader, parser, counters, eventClients, output, stopRequested, usb, ghosts>>

ThreadStep ==
  \/ StartFails
  \/ \E n \in 0..SlotCount : StartSubmits(n)
  \/ DrainTimeout \/ DrainDone \/ ReleaseAndReturn
  \/ \E s \in Slots : ProcessNext(s)
  \/ ProcessDone
  \/ Recover \/ StopReturns
  \/ ShutdownStop \/ ShutdownReturns

Next ==
  \/ ThreadStep \/ OutputToggles \/ RequestStop
  \/ \E s \in Slots : didComplete(s)
  \/ \E s \in Slots, good \in BOOLEAN, count \in 0..PayloadBytes : UsbFinish(s, good, count)

Spec == Init /\ [][Next]_vars

\* The thread keeps running, every entry of the run loop handles a ready source
\* before it returns, it returns after 100 ms at most, and a read that stop()
\* aborts time and again ends.  Nothing makes a read end that is not aborted.
Fairness ==
  /\ WF_vars(ThreadStep)
  /\ SF_vars(Recover) /\ SF_vars(ShutdownStop)
  /\ \A s \in Slots : SF_vars(didComplete(s))
  /\ SF_vars(thread.pc = "drain" /\ \E s \in Slots : UsbFinish(s, FALSE, 0))

FairSpec == Spec /\ Fairness
-----------------------------------------------------------------------------
Outstanding == InFlight \cup Completed

\* The types; both sequence counters wrap like the code's u64.
TypeOK ==
  /\ reader \in [session : BOOLEAN, running : BOOLEAN, events : BOOLEAN]
  /\ \A s \in Slots : /\ slot[s].state \in {"idle", "busy", "due", "completed"}
                      /\ slot[s].good \in BOOLEAN
                      /\ slot[s].sequence \in 0..(SequenceModulus - 1)
                      /\ Len(slot[s].payload) \in {0, PayloadBytes}
  /\ {nextSubmit, nextProcess} \subseteq 0..(SequenceModulus - 1)
  /\ output \in BOOLEAN /\ forwarder \in BOOLEAN /\ stopRequested \in BOOLEAN
  /\ thread.pc \in {"loop", "start", "drain", "release", "stopped", "process", "ended"}
  /\ thread.goal \in {"serve", "startFailed", "recover", "shutdown"}
  /\ device \in 0..(Len(Stream) - 1)

\* The message the controller sends after this one.
FollowedBy(m) ==
  {Script[(i % Len(Script)) + 1] : i \in {j \in 1..Len(Script) : Script[j] = m}}

\* "Transport decoded MIDI without reordering": as long as no read failed, the
\* messages published are those the controller sent, one after the other, none
\* missing, doubled or out of order, whatever order the callbacks come in.  The parser
\* waits for a status byte or the rest of a message of two or three bytes.
MessagesInOrder ==
  /\ parser.expected \in {0, 2, 3}
  /\ healthy => /\ \A i \in DOMAIN history : \E j \in 1..Len(Script) : history[i] = Script[j]
                /\ Len(history) = 2 => history[2] \in FollowedBy(history[1])

\* The session counts exactly the holders of its event source, and no read is in
\* flight without it: a callback always finds its run loop source.  The reader is
\* destroyed only when idle, so that its destructor cannot terminate.
EventClientsExact ==
  /\ TypeOK
  /\ eventClients = (IF output THEN 1 ELSE 0) + (IF reader.events THEN 1 ELSE 0)
  /\ InFlight # {} => reader.session /\ reader.events
  /\ thread.pc = "ended" => ~reader.running /\ InFlight = {}

\* "Read errors trigger a pipe drain and restart on the runtime thread": while the
\* runtime serves, a reader that stopped is started again.
ErrorsAreRecovered ==
  <>[](forwarder /\ ~stopRequested) => []<>(reader.running \/ thread.pc = "start")

\* "The HAL forwards complete channel-voice messages": every message published is
\* one the controller sent.
OnlySentMessages == \A i \in DOMAIN history : \E j \in 1..Len(Script) : history[i] = Script[j]
=============================================================================
