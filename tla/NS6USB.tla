----------------------------- MODULE NS6USB -----------------------------
(* The USB worker of the earlier driver (worker, cleanup and the completion   *)
(* callbacks of NS6USB.c): a session opens the interfaces, keeps every OUT and  *)
(* feedback slot queued at the device, and reads the bulk-IN endpoint while      *)
(* there is no MIDI session or CoreAudio asks for capture.  A failed transfer    *)
(* or a restart request ends the session; its cleanup aborts the pipes, runs      *)
(* the run loop once more, and the next session starts with what is left.        *)
EXTENDS Naturals, FiniteSets

CONSTANTS
    OutSlots,        \* isochronous OUT transfers
    FeedbackSlots,   \* isochronous feedback reads
    WaveformSlots,   \* bulk-IN reads
    ErrorLimit       \* consecutive errors of one OUT slot that end a session

ASSUME UsbAssumption ==
    /\ ErrorLimit \in Nat \ {0}
    /\ OutSlots \intersect FeedbackSlots = {}
    /\ (OutSlots \union FeedbackSlots) \intersect WaveformSlots = {}

VARIABLES
    stream,    \* the worker thread and the flags other threads write
    pending,   \* slots whose transfer the device holds
    inFlight,  \* in_flight flags of the feedback and bulk-IN slots
    errors,    \* consecutive_errors of the OUT slots
    drain,     \* [running: waveform_drain_running, stale: slots of an older generation,
               \*  lost: slots whose submission was refused or whose completion never ran]
    capture    \* [requested, demand, asking: ReadInput between its two stores]

streamVars == <<stream, pending, inFlight, errors, drain, capture>>

ReadSlots == FeedbackSlots \union WaveformSlots
AllSlots == OutSlots \union ReadSlots

StreamInit ==
    /\ stream = [at |-> "ended", running |-> FALSE, recovery |-> FALSE, first |-> TRUE,
                 midi |-> FALSE, pipes |-> {}]
    /\ pending = {} /\ inFlight = {}
    /\ errors = [s \in OutSlots |-> 0]
    /\ drain = [running |-> FALSE, stale |-> {}, lost |-> {}]
    /\ capture = [requested |-> FALSE, demand |-> "none", asking |-> FALSE]

Streaming == stream.running /\ ~stream.recovery

--------------------------------------------------------------------------
(* Submissions; accepted is the set of slots whose transfer the device takes,   *)
(* taken whether it takes this one. *)

\* submit of a slot that completed, or request_recovery.
SubmitOut(s, taken) ==
    IF taken THEN stream' = stream /\ pending' = pending
    ELSE stream' = [stream EXCEPT !.recovery = TRUE] /\ pending' = pending \ {s}

\* feedback_submit of every slot that is not in flight.
FeedbackSubmits(accepted) ==
    IF stream.running /\ "feedback" \in stream.pipes
    THEN (FeedbackSlots \ inFlight) \intersect accepted ELSE {}

\* What start_waveform_drain submits: slots an aborted read still holds are busy.
DrainSubmits(accepted) == (WaveformSlots \ inFlight) \intersect accepted

\* A new generation: every read in flight is of an older one.
StartDrain(accepted) ==
    drain' = [running |-> TRUE, stale |-> WaveformSlots \intersect inFlight,
              lost |-> (drain.lost \intersect inFlight) \union
                       (WaveformSlots \ (inFlight \union accepted))]

\* The capture flags are cleared with the drain; AbortPipe completes the reads.
StopDrain ==
    /\ drain' = [drain EXCEPT !.running = FALSE, !.stale = WaveformSlots \intersect inFlight]
    /\ capture' = [capture EXCEPT !.requested = FALSE, !.demand = "none"]

--------------------------------------------------------------------------
(* The worker thread. *)

StreamBegins ==
    /\ stream.at = "top"
    /\ stream' = IF stream.running THEN [stream EXCEPT !.at = "opening", !.recovery = FALSE]
                 ELSE [stream EXCEPT !.at = "ended"]
    /\ UNCHANGED <<pending, inFlight, errors, drain, capture>>

\* initialize failed; the first attempt of a start is the last.
StreamOpenFails ==
    /\ stream.at = "opening"
    /\ stream' = IF stream.first
                 THEN [stream EXCEPT !.at = "ended", !.running = FALSE, !.first = FALSE]
                 ELSE [stream EXCEPT !.at = "top"]
    /\ UNCHANGED <<pending, inFlight, errors, drain, capture>>

\* initialize found the optional pipes; the OUT slots are submitted until one is
\* refused, then the feedback slots, then MIDI starts, or else the drain does.
StreamOpens(midi, pipes, accepted) ==
    /\ stream.at = "opening"
    /\ LET outs == IF Streaming THEN OutSlots \intersect accepted ELSE {}
           reads == IF stream.running /\ "feedback" \in pipes
                    THEN (FeedbackSlots \ inFlight) \intersect accepted ELSE {}
           drains == ~midi /\ "waveform" \in pipes
           bulk == IF drains THEN DrainSubmits(accepted) ELSE {}
       IN  /\ stream' = [stream EXCEPT !.at = "pump", !.first = FALSE, !.midi = midi,
                             !.pipes = pipes, !.recovery = @ \/ (Streaming /\ outs # OutSlots)]
           /\ pending' = outs \union reads \union bulk
           /\ inFlight' = inFlight \union reads \union bulk
           /\ IF drains THEN StartDrain(accepted) ELSE UNCHANGED drain
    /\ UNCHANGED <<errors, capture>>

\* The body of the session's loop after the run loop ran for 100 ms.
LoopPass(accepted) ==
    /\ stream.at = "pump"
    /\ LET wanted == capture.requested /\ capture.demand = "fresh"
           runs == ~stream.midi \/ wanted
           starts == runs /\ ~drain.running /\ "waveform" \in stream.pipes
           reads == FeedbackSubmits(accepted)
           bulk == IF starts THEN DrainSubmits(accepted) ELSE {}
       IN  /\ IF starts THEN StartDrain(accepted) /\ UNCHANGED capture
              ELSE IF ~runs /\ drain.running THEN StopDrain
              ELSE UNCHANGED <<drain, capture>>
           /\ pending' = pending \union reads \union bulk
           /\ inFlight' = inFlight \union reads \union bulk
    /\ UNCHANGED <<stream, errors>>

\* The loop's test; cleanup stops the drain and aborts the pipes.
LoopLeaves ==
    /\ stream.at = "pump"
    /\ ~Streaming
    /\ stream' = [stream EXCEPT !.at = "closing"]
    /\ drain' = [drain EXCEPT !.running = FALSE]
    /\ UNCHANGED <<pending, inFlight, errors, capture>>

\* Faulty variant: the feedback slots keep their in_flight flags.
StreamClosedKeepingFlags ==
    /\ stream.at = "closing"
    /\ stream' = [stream EXCEPT !.at = "top", !.pipes = {}]
    /\ pending' = {}
    /\ errors' = [s \in OutSlots |-> 0]
    /\ drain' = [drain EXCEPT !.lost = @ \union (WaveformSlots \intersect inFlight)]
    /\ UNCHANGED <<inFlight, capture>>

\* The rest of cleanup, after the run loop ran for 200 ms: completions that have
\* not come by now never do.  The slots of OUT and feedback are cleared, the
\* in_flight flags of the bulk-IN slots are not.
StreamClosed ==
    /\ stream.at = "closing"
    /\ stream' = [stream EXCEPT !.at = "top", !.pipes = {}]
    /\ pending' = {}
    /\ inFlight' = inFlight \ FeedbackSlots
    /\ errors' = [s \in OutSlots |-> 0]
    /\ drain' = [drain EXCEPT !.lost = @ \union (WaveformSlots \intersect inFlight)]
    /\ UNCHANGED capture

--------------------------------------------------------------------------
(* Completions, on the worker's run loop. *)

OnRunLoop(s) == s \in pending /\ stream.at \in {"pump", "closing"}

\* complete
OutComplete(s, ok, taken) ==
    /\ OnRunLoop(s)
    /\ IF ~Streaming
       THEN pending' = pending \ {s} /\ UNCHANGED <<stream, errors>>
       ELSE /\ errors' = [errors EXCEPT ![s] = IF ok THEN 0 ELSE @ + 1]
            /\ IF errors'[s] >= ErrorLimit
               THEN stream' = [stream EXCEPT !.recovery = TRUE] /\ pending' = pending \ {s}
               ELSE SubmitOut(s, taken)
    /\ UNCHANGED <<inFlight, drain, capture>>

\* feedback_complete: whatever its status, the read is submitted again, in a
\* session that is closing too.
FeedbackComplete(s, taken) ==
    /\ OnRunLoop(s)
    /\ LET again == stream.running /\ taken
       IN  /\ pending' = IF again THEN pending ELSE pending \ {s}
           /\ inFlight' = IF again THEN inFlight ELSE inFlight \ {s}
    /\ UNCHANGED <<stream, errors, drain, capture>>

\* Faulty variant: a read of an older generation is dropped.
WaveformCompleteDroppingStale(s, ok, taken) ==
    /\ OnRunLoop(s)
    /\ LET again == drain.running /\ s \notin drain.stale /\ taken
       IN  /\ pending' = IF again THEN pending ELSE pending \ {s}
           /\ inFlight' = IF again THEN inFlight ELSE inFlight \ {s}
           /\ drain' = [drain EXCEPT !.stale = @ \ {s},
                            !.lost = IF drain.running /\ ~taken THEN @ \union {s} ELSE @ \ {s}]
    /\ UNCHANGED <<stream, errors, capture>>

\* waveform_read_complete: a read of an older generation is only submitted again;
\* demand older than 250 ms ends the request.
WaveformComplete(s, ok, taken) ==
    /\ OnRunLoop(s)
    /\ LET again == drain.running /\ taken
       IN  /\ pending' = IF again THEN pending ELSE pending \ {s}
           /\ inFlight' = IF again THEN inFlight ELSE inFlight \ {s}
           /\ drain' = [drain EXCEPT !.stale = @ \ {s},
                            !.lost = IF drain.running /\ ~again THEN @ \union {s} ELSE @ \ {s}]
           /\ capture' = IF drain.running /\ s \notin drain.stale /\ ok /\ capture.demand = "old"
                         THEN [capture EXCEPT !.requested = FALSE] ELSE capture
    /\ UNCHANGED <<stream, errors>>

--------------------------------------------------------------------------
(* Other threads: the service, and ReadInput of the plug-in. *)

\* ns6_usb_start, the part under the lock.
StreamStarts ==
    /\ stream.at = "ended"
    /\ stream' = [stream EXCEPT !.at = "top", !.running = TRUE, !.recovery = FALSE, !.first = TRUE]
    /\ inFlight' = inFlight \ FeedbackSlots
    /\ drain' = [drain EXCEPT !.running = FALSE]
    /\ UNCHANGED <<pending, errors, capture>>

RequestRestart ==
    /\ stream.at # "ended"
    /\ stream' = [stream EXCEPT !.recovery = TRUE]
    /\ UNCHANGED <<pending, inFlight, errors, drain, capture>>

StreamStops ==
    /\ stream.at # "ended"
    /\ stream.running
    /\ stream' = [stream EXCEPT !.running = FALSE]
    /\ UNCHANGED <<pending, inFlight, errors, drain, capture>>

ReadRequests ==
    /\ ~capture.asking
    /\ capture' = [capture EXCEPT !.requested = TRUE, !.asking = TRUE]
    /\ UNCHANGED <<stream, pending, inFlight, errors, drain>>

ReadDemands ==
    /\ capture.asking
    /\ capture' = [capture EXCEPT !.demand = "fresh", !.asking = FALSE]
    /\ UNCHANGED <<stream, pending, inFlight, errors, drain>>

\* 250 ms without a ReadInput.
DemandAges ==
    /\ capture.demand = "fresh"
    /\ capture' = [capture EXCEPT !.demand = "old"]
    /\ UNCHANGED <<stream, pending, inFlight, errors, drain>>

--------------------------------------------------------------------------

\* A completion of any slot.
Completes(ok, taken) ==
    \/ \E s \in OutSlots : OutComplete(s, ok, taken)
    \/ \E s \in FeedbackSlots : FeedbackComplete(s, taken)
    \/ \E s \in WaveformSlots : WaveformComplete(s, ok, taken)

Opens(accepted) ==
    \E midi \in BOOLEAN, pipes \in SUBSET {"feedback", "waveform"} :
        StreamOpens(midi, pipes, accepted)

WorkerOpens == StreamOpenFails \/ \E accepted \in SUBSET AllSlots : Opens(accepted)
WorkerPasses == \E accepted \in SUBSET ReadSlots : LoopPass(accepted)
WorkerMoves == StreamBegins \/ WorkerOpens \/ LoopLeaves \/ StreamClosed
TransfersComplete == \E ok, taken \in BOOLEAN : Completes(ok, taken)
OthersCall == StreamStarts \/ RequestRestart \/ StreamStops
ReaderAsks == ReadRequests \/ ReadDemands \/ DemandAges

StreamNext == WorkerMoves \/ WorkerPasses \/ TransfersComplete \/ OthersCall \/ ReaderAsks
StreamSpec == StreamInit /\ [][StreamNext]_streamVars

\* A step in which a feedback read is refused.
FeedbackRefused ==
    /\ stream.running
    /\ \/ \E s \in FeedbackSlots : FeedbackComplete(s, FALSE)
       \/ \E accepted \in SUBSET AllSlots :
              /\ Opens(accepted) \/ LoopPass(accepted)
              /\ "feedback" \in stream'.pipes
              /\ ~(FeedbackSlots \subseteq inFlight \union accepted)

\* A step in which the device, or another thread, ends the session or keeps it
\* from being what it should.
Disturbed ==
    \/ StreamOpenFails \/ OthersCall
    \/ stream'.recovery /\ ~stream.recovery
    \/ FeedbackRefused

--------------------------------------------------------------------------

\* While a session streams, every OUT slot is at the device, a bulk-IN drain that
\* runs has all its reads there except those a refusal or a missed completion
\* took, and an in_flight flag is set exactly for a read the device holds: the
\* resubmission of aborted reads of an older generation, the two places that
\* submit feedback, and cleanup keep flags and transfers together.
TransfersKeptQueued ==
    stream.at = "pump"
    => /\ Streaming => OutSlots \subseteq pending
       /\ drain.running => WaveformSlots \subseteq pending \union drain.lost
       /\ inFlight \ drain.lost = pending \ OutSlots

\* Once no session fails to open or is asked to recover and no feedback read is
\* refused, the stream has ended, or the worker streams with every OUT and
\* feedback slot queued: "resumes the output after USB recovery" (src/coreaudio/README.md).
StreamResumes ==
    <>[][~Disturbed]_streamVars
    => []<>(\/ stream.at = "ended"
            \/ /\ stream.at = "pump" /\ Streaming
               /\ OutSlots \subseteq pending
               /\ "feedback" \in stream.pipes => FeedbackSlots \subseteq pending)

==========================================================================
