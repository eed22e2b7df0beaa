------------------------ MODULE ControllerActivation ------------------------
(***************************************************************************)
(* startHardware and stopHardware in detail: the USB session, the audio    *)
(* mode it sets in the controller and gives back, and the activation of    *)
(* the controller, whose reads live in the frame of activate().            *)
(*                                                                         *)
(* The caller's thread runs a run loop in activate() only, and the host    *)
(* may run one on that thread between calls; a writer thread sends the     *)
(* activation messages.  The transport runtime is idle during activation   *)
(* and is left out, but for the two points where it may fail to start.     *)
(***************************************************************************)
EXTENDS Integers

CONSTANT ReadCount   \* the reads of activate(), four in the code

ASSUME ActivationAssumption == ReadCount \in Nat \ {0}

Reads == 1..ReadCount

VARIABLES
  session,   \* opened_, eventClients_, audioModeChanged_, previousAudioMode_
  mode,      \* the audio mode of the controller
  reads,     \* read -> running, and the state of its transfer
  frame,     \* activate() has not returned
  pc,        \* the caller's thread
  activationWriter,    \* the writer thread: what it sends next, and whether all was sent
  result,    \* the error activate() will return, if any
  replySeen, \* handshakeReplySeen
  timedOut,  \* ghost: a drain gave up
  lost       \* ghost: the controller refused to take its mode back

activationVars == <<session, mode, reads, frame, pc, activationWriter, result, replySeen, timedOut, lost>>

NoSession == [open |-> FALSE, events |-> 0, changed |-> FALSE, previous |-> "original"]
IdleRead == [running |-> FALSE, state |-> "idle"]
NoActivationWriter == [next |-> "none", ok |-> TRUE]
InFlight == {r \in Reads : reads[r].state # "idle"}

ActivationInit ==
  /\ session = NoSession
  /\ mode = "original"
  /\ reads = [r \in Reads |-> IdleRead]
  /\ frame = FALSE
  /\ pc = "down"
  /\ activationWriter = NoActivationWriter
  /\ result = "ok" /\ replySeen = FALSE
  /\ timedOut = FALSE /\ lost = FALSE
-----------------------------------------------------------------------------
(* The session                                                             *)

\* NS6DeviceSession::close() restores the mode, removes the event source whoever
\* still counts as its client, and closes the interfaces.
Close ==
  /\ session' = NoSession
  /\ IF session.changed
     THEN \/ mode' = session.previous /\ UNCHANGED lost
          \/ lost' = TRUE /\ UNCHANGED mode
     ELSE UNCHANGED <<mode, lost>>

OpenSession ==
  /\ pc = "down"
  /\ session' = [session EXCEPT !.open = TRUE]
  /\ pc' = "configure"
  /\ UNCHANGED <<mode, reads, frame, activationWriter, result, replySeen, timedOut, lost>>

\* The mode to give back is the one found first.
Saved == IF session.changed THEN session ELSE [session EXCEPT !.changed = TRUE, !.previous = mode]

\* configureAudioInputMode(), before and after the activation; then the transport
\* runs, for a test the first time.
Configure ==
  /\ pc \in {"configure", "configureAgain"}
  /\ session' = Saved
  /\ mode' = "input"
  /\ pc' = IF pc = "configure" THEN "activate" ELSE "up"
  /\ UNCHANGED <<reads, frame, activationWriter, result, replySeen, timedOut, lost>>

\* The configuration, or the transport after it, fails; the session is closed.
ConfigureFails ==
  /\ pc \in {"configure", "configureAgain"}
  /\ \/ UNCHANGED <<session, mode>>
     \/ session' = Saved /\ mode' = "input"
  /\ pc' = "close"
  /\ UNCHANGED <<reads, frame, activationWriter, result, replySeen, timedOut, lost>>

CloseSession ==
  /\ pc = "close"
  /\ Close
  /\ pc' = "down"
  /\ UNCHANGED <<reads, frame, activationWriter, result, replySeen, timedOut>>

stopHardware ==
  /\ pc = "up"
  /\ pc' = "close"
  /\ UNCHANGED <<session, mode, reads, frame, activationWriter, result, replySeen, timedOut, lost>>
-----------------------------------------------------------------------------
(* activate()                                                              *)

\* Its return: success goes on to the second configuration, an error closes.
Return(r) ==
  /\ pc' = IF r = "ok" THEN "configureAgain" ELSE "close"
  /\ frame' = FALSE

AcquireEvents == session' = [session EXCEPT !.events = @ + 1]
ReleaseEvents == session' = [session EXCEPT !.events = IF @ = 0 THEN 0 ELSE @ - 1]

\* Up to startReads(); a pipe whose halt cannot be cleared gives up.
Begin ==
  /\ pc = "activate"
  /\ replySeen' = FALSE
  /\ reads' = [r \in Reads |-> IdleRead]
  /\ result' = "ok"
  /\ \/ /\ AcquireEvents /\ pc' = "start" /\ frame' = TRUE
     \/ /\ UNCHANGED session /\ Return("error")
  /\ timedOut' = FALSE
  /\ UNCHANGED <<mode, activationWriter, lost>>

\* startReads() submits the reads in turn; the first refusal aborts the others.
StartReads ==
  /\ pc \in {"start", "restart"}
  /\ \E accepted \in 0..ReadCount :
       LET all == accepted = ReadCount IN
       /\ reads' = [r \in Reads |-> [running |-> all, state |-> IF r <= accepted THEN "busy" ELSE "idle"]]
       /\ result' = IF all THEN "ok" ELSE "error"
       /\ IF all
          THEN /\ pc' = IF pc = "start" THEN "sequence" ELSE "wake"
               /\ activationWriter' = [next |-> IF pc = "start" THEN "identify" ELSE "wake", ok |-> TRUE]
          ELSE /\ pc' = IF pc = "start" THEN "drainRefused" ELSE "drainRestart"
               /\ UNCHANGED activationWriter
  /\ UNCHANGED <<session, mode, frame, replySeen, timedOut, lost>>

\* The writer thread: host-identify, jog-enable, and later wake.
Write ==
  /\ activationWriter.next \in {"identify", "jog", "wake"}
  /\ \E ok \in BOOLEAN :
       activationWriter' = [next |-> IF activationWriter.next = "identify" THEN "reply" ELSE "done",
                  ok |-> activationWriter.ok /\ ok]
  /\ UNCHANGED <<session, mode, reads, frame, pc, result, replySeen, timedOut, lost>>

\* Faulty variant: the reply is waited for without a deadline.
AwaitReplyForever ==
  /\ activationWriter.next = "reply" /\ replySeen
  /\ activationWriter' = [activationWriter EXCEPT !.next = "jog"]
  /\ UNCHANGED <<session, mode, reads, frame, pc, result, replySeen, timedOut, lost>>

\* Between its two messages the writer polls for the reply until a callback has
\* seen it, or 100 ms are over.
AwaitReply ==
  /\ activationWriter.next = "reply"
  /\ \E expired \in BOOLEAN : replySeen \/ expired
  /\ activationWriter' = [activationWriter EXCEPT !.next = "jog"]
  /\ UNCHANGED <<session, mode, reads, frame, pc, result, replySeen, timedOut, lost>>

WriterThreadStep == Write \/ AwaitReply

\* The writer is joined, or could not be made, and stopReads() begins; a reply
\* seen by then makes the wake a success.
StopReads ==
  /\ pc \in {"sequence", "wake"}
  /\ \/ /\ activationWriter.next = "done"
        /\ result' = IF activationWriter.ok \/ (pc = "wake" /\ replySeen) THEN "ok" ELSE "error"
     \/ /\ activationWriter.next \in {"identify", "wake"}
        /\ result' = "error"
  /\ pc' = IF pc = "sequence" THEN "drain" ELSE "drainWake"
  /\ activationWriter' = NoActivationWriter
  /\ reads' = [r \in Reads |-> [reads[r] EXCEPT !.running = FALSE]]
  /\ UNCHANGED <<session, mode, frame, replySeen, timedOut, lost>>

Draining == pc \in {"drainRefused", "drainRestart", "drain", "drainWake"}

\* Faulty variant: the event source is kept after the drain.
DrainedKeepingEvents ==
  /\ Draining
  /\ InFlight = {}
  /\ IF pc = "drain" /\ result = "ok" THEN pc' = "reopen" /\ UNCHANGED frame ELSE Return(result)
  /\ UNCHANGED <<session, mode, reads, activationWriter, result, replySeen, timedOut, lost>>

\* The reads are drained in time; an error of AbortPipe counts from here on.
ActivationDrained ==
  /\ Draining
  /\ InFlight = {}
  /\ ReleaseEvents
  /\ result' \in {result, "error"}
  /\ IF pc = "drain" /\ result' = "ok" THEN pc' = "reopen" /\ UNCHANGED frame ELSE Return(result')
  /\ UNCHANGED <<mode, reads, activationWriter, replySeen, timedOut, lost>>

\* Two seconds are over; only the failed restart gives the event source back.
ActivationDrainTimeout ==
  /\ Draining
  /\ InFlight # {}
  /\ IF pc = "drainRestart" THEN ReleaseEvents ELSE UNCHANGED session
  /\ result' = "error"
  /\ Return("error")
  /\ timedOut' = TRUE
  /\ UNCHANGED <<mode, reads, activationWriter, replySeen, lost>>

\* The session is closed and opened again, to reset the OUT pipe.
ReopenClose ==
  /\ pc = "reopen"
  /\ Close
  /\ \/ pc' = "reopenOpen" /\ UNCHANGED <<result, frame>>
     \/ result' = "error" /\ Return("error")
  /\ UNCHANGED <<reads, activationWriter, replySeen, timedOut>>

ReopenOpen ==
  /\ pc = "reopenOpen"
  /\ reads' = [r \in Reads |-> IdleRead]
  /\ \/ /\ session' = [session EXCEPT !.open = TRUE, !.events = 1]
        /\ pc' = "restart" /\ UNCHANGED <<result, frame>>
     \/ /\ session' = [session EXCEPT !.open = TRUE]
        /\ result' = "error" /\ Return("error")
     \/ UNCHANGED session /\ result' = "error" /\ Return("error")
  /\ UNCHANGED <<mode, activationWriter, replySeen, timedOut, lost>>
-----------------------------------------------------------------------------
(* Callbacks                                                               *)

UsbFinishesRead(r) ==
  /\ reads[r].state = "busy"
  /\ reads' = [reads EXCEPT ![r].state = "due"]
  /\ UNCHANGED <<session, mode, frame, pc, activationWriter, result, replySeen, timedOut, lost>>

\* Where the thread is in a run loop: activate()'s own, or the host's.
RunLoop == {"sequence", "wake", "drainRefused", "drainRestart", "drain", "drainWake", "down", "up"}

CallbackDue(r) == pc \in RunLoop /\ session.events > 0 /\ reads[r].state = "due"

\* A callback may see the reply, and submits its read again while it may.
ReadCompletion(r) ==
  /\ CallbackDue(r)
  /\ replySeen' \in {replySeen, TRUE}
  /\ \E again \in {"idle"} \cup (IF reads[r].running THEN {"busy"} ELSE {}) :
       reads' = [reads EXCEPT ![r].state = again]
  /\ UNCHANGED <<session, mode, frame, pc, activationWriter, result, timedOut, lost>>

ActivationNext ==
  \/ OpenSession \/ Configure \/ ConfigureFails \/ CloseSession \/ stopHardware
  \/ Begin \/ StartReads \/ WriterThreadStep \/ StopReads
  \/ ActivationDrained \/ ActivationDrainTimeout \/ ReopenClose \/ ReopenOpen
  \/ \E r \in Reads : UsbFinishesRead(r) \/ ReadCompletion(r)

ActivationSpec == ActivationInit /\ [][ActivationNext]_activationVars

ActivationThreadStep ==
  \/ Configure \/ ConfigureFails \/ CloseSession
  \/ Begin \/ StartReads \/ StopReads \/ ActivationDrained \/ ActivationDrainTimeout
  \/ ReopenClose \/ ReopenOpen

-----------------------------------------------------------------------------
\* The types; the session never has more than the one client of its events, for
\* close() forgets the clients whose drain gave up.
ActivationTypeOK ==
  /\ session \in [open : BOOLEAN, events : 0..1, changed : BOOLEAN, previous : {"original", "input"}]
  /\ mode \in {"original", "input"}
  /\ reads \in [Reads -> [running : BOOLEAN, state : {"idle", "busy", "due"}]]
  /\ frame \in BOOLEAN /\ replySeen \in BOOLEAN /\ timedOut \in BOOLEAN /\ lost \in BOOLEAN
  /\ activationWriter \in [next : {"none", "identify", "reply", "jog", "wake", "done"}, ok : BOOLEAN]
  /\ result \in {"ok", "error"}

\* Unless a drain gave up, activate() returns with no read in flight and with the
\* session's event source given back, on every one of its paths.  No callback runs
\* on the reads of an activate() that has returned, not even after a drain that gave
\* up: close() removes the event source before the thread gets to a run loop again.
\* The controller plays in input mode, and has its own mode back once the session is
\* closed, unless it refused to take it.
ReturnsClean ==
  /\ ActivationTypeOK
  /\ ~frame /\ ~timedOut => InFlight = {} /\ session.events = 0
  /\ \A r \in Reads : CallbackDue(r) => frame
  /\ pc = "up" => mode = "input"
  /\ pc = "down" /\ ~lost => mode = "original"

\* A StartIO that opens the hardware returns: startHardware ends, with the hardware
\* up or with the session closed, although the reply to host-identify may never come,
\* come late or be seen in either order with the writer's deadline, every write may
\* fail, and no aborted read may ever complete.  (What stopHardware waits for is the
\* runtime's shutdown.)
StartHardwareEnds == pc = "configure" ~> pc \in {"up", "down"}

=============================================================================
