-------------------------- MODULE NS6Transport --------------------------
(* The output ring of the earlier driver (NS6Transport.c) between a CoreAudio *)
(* I/O callback of the plug-in, which appends converted blocks, and the USB     *)
(* worker, which resamples a packet's worth of frames (fill of NS6USB.c).  Every *)
(* slot carries the position of the frame it holds.  The reader owns the cursor   *)
(* and moves it past frames that were not there in time, so it can overtake the    *)
(* writer; the writer owns high_water and starts over at the cursor when it did.   *)
(* Positions are u64 in the code and never wrap in use.                            *)
EXTENDS Integers

CONSTANTS
    RingFrames,    \* NS6_TRANSPORT_RING_FRAMES
    Blocks,        \* frame counts of a WriteMix block
    PacketFrames,  \* frame counts of a USB packet
    SourceSteps,   \* source frames per output frame, in units of 1/StepUnit
    StepUnit,
    Prefill,       \* frames that end the wait for audio
    LastPosition   \* bound on the positions in use

ASSUME TransportAssumption ==
    /\ RingFrames \in Nat \ {0} /\ StepUnit \in Nat \ {0} /\ LastPosition \in Nat
    /\ Blocks \subseteq Nat /\ PacketFrames \subseteq Nat /\ SourceSteps \subseteq Nat
    /\ \A n \in Blocks : n > 0 /\ Prefill + n <= RingFrames + 1

VARIABLES ring, appender, filler

transportVars == <<ring, appender, filler>>

NoFrame == -1   \* UINT64_MAX, the tag of an empty slot; no position reaches it
Slot(position) == position % RingFrames
PositionMax(a, b) == IF a > b THEN a ELSE b

TransportInit ==
    /\ ring = [tag |-> [s \in 0..RingFrames - 1 |-> NoFrame],
               sample |-> [s \in 0..RingFrames - 1 |-> NoFrame],
               cursor |-> 0, high |-> 0, initialized |-> FALSE, reset |-> "tags",
               again |-> FALSE, cut |-> FALSE]
    /\ appender = [at |-> "idle", time |-> 0, count |-> 0, done |-> 0]
    /\ filler = [at |-> "off", end |-> 0, phase |-> 0, step |-> StepUnit, frames |-> 0,
                 produced |-> 0, fraction |-> 0, awaiting |-> FALSE, paused |-> TRUE,
                 output |-> <<>>]

--------------------------------------------------------------------------
(* ns6_transport_enqueue_at_shared *)

\* The reset of a start that follows a failed one is under way.
ResettingAgain == ring.again /\ ring.reset \notin {"tags", "done"}

EnqueueBegin(count) ==
    /\ appender.at = "idle"
    /\ appender' = [at |-> "begin", time |-> ring.high, count |-> count, done |-> 0]
    /\ ring.high + count <= LastPosition
    /\ ring' = [ring EXCEPT !.cut = @ \/ ResettingAgain]
    /\ UNCHANGED filler

\* The first block of a session puts the cursor where it starts, then high_water.
EnqueueOpen ==
    /\ appender.at = "begin"
    /\ ring' = IF ring.initialized THEN ring ELSE [ring EXCEPT !.cursor = appender.time]
    /\ appender' = [appender EXCEPT !.at = IF ring.initialized THEN "place" ELSE "opening"]
    /\ UNCHANGED filler

EnqueueOpening ==
    /\ appender.at = "opening"
    /\ ring' = [ring EXCEPT !.high = appender.time]
    /\ appender' = [appender EXCEPT !.at = "opened"]
    /\ UNCHANGED filler

EnqueueOpened ==
    /\ appender.at = "opened"
    /\ ring' = [ring EXCEPT !.initialized = TRUE]
    /\ appender' = [appender EXCEPT !.at = "place"]
    /\ UNCHANGED filler

\* Faulty variant: the room is one frame more than the ring has.
EnqueuePlaceOverfull ==
    /\ appender.at = "place"
    /\ LET time == PositionMax(appender.time, ring.cursor)
       IN  /\ ring' = [ring EXCEPT !.high = PositionMax(@, time)]
           /\ appender' = IF time - ring.cursor + appender.count > RingFrames + 1
                          THEN [appender EXCEPT !.at = "idle"]
                          ELSE [appender EXCEPT !.at = "sample", !.time = time]
    /\ UNCHANGED filler

\* A reader that overtook the writer: the block starts at the cursor.  A block
\* that does not fit is refused whole.
EnqueuePlace ==
    /\ appender.at = "place"
    /\ LET time == PositionMax(appender.time, ring.cursor)
       IN  /\ ring' = IF appender.time < ring.cursor THEN [ring EXCEPT !.high = ring.cursor]
                      ELSE ring
           /\ appender' = IF time - ring.cursor + appender.count > RingFrames
                        THEN [appender EXCEPT !.at = "idle"]
                        ELSE [appender EXCEPT !.at = "sample", !.time = time]
    /\ UNCHANGED filler

\* convert_frame writes the slot, then its tag names the frame.
EnqueueSample ==
    /\ appender.at = "sample"
    /\ LET position == appender.time + appender.done
       IN  ring' = [ring EXCEPT !.sample[Slot(position)] = position]
    /\ appender' = [appender EXCEPT !.at = "tag"]
    /\ UNCHANGED filler

EnqueueTag ==
    /\ appender.at = "tag"
    /\ LET position == appender.time + appender.done
       IN  ring' = [ring EXCEPT !.tag[Slot(position)] = position]
    /\ appender' = [appender EXCEPT !.done = @ + 1,
                        !.at = IF appender.done + 1 = appender.count THEN "publish" ELSE "sample"]
    /\ UNCHANGED filler

EnqueuePublish ==
    /\ appender.at = "publish"
    /\ ring' = [ring EXCEPT !.high = PositionMax(@, appender.time + appender.count)]
    /\ appender' = [at |-> "idle", time |-> 0, count |-> 0, done |-> 0]
    /\ UNCHANGED filler

EnqueueStep ==
    \/ EnqueueOpen \/ EnqueueOpening \/ EnqueueOpened \/ EnqueuePlace
    \/ EnqueueSample \/ EnqueueTag \/ EnqueuePublish

--------------------------------------------------------------------------
(* ns6_usb_start: ns6_transport_reset_shared stores field after field, while a *)
(* client that found the service already published may be appending; then the   *)
(* worker starts, or cannot set the device up and the start fails, which          *)
(* maintain_device_service repeats.  Two fields of the history are not in the       *)
(* code: again, a start has failed; cut, an append was under way during the last    *)
(* reset of such a repeated start.                                                  *)

ResetTags ==
    /\ ring.reset = "tags"
    /\ ring' = [ring EXCEPT !.tag = [s \in 0..RingFrames - 1 |-> NoFrame], !.reset = "cursor",
                            !.cut = ring.again /\ appender.at # "idle"]
    /\ UNCHANGED <<appender, filler>>
ResetCursor ==
    /\ ring.reset = "cursor"
    /\ ring' = [ring EXCEPT !.cursor = 0, !.reset = "high"]
    /\ UNCHANGED <<appender, filler>>
ResetHighWater ==
    /\ ring.reset = "high"
    /\ ring' = [ring EXCEPT !.high = 0, !.reset = "initialized"]
    /\ UNCHANGED <<appender, filler>>
ResetInitialized ==
    /\ ring.reset = "initialized"
    /\ ring' = [ring EXCEPT !.initialized = FALSE, !.reset = "done"]
    /\ filler' = [filler EXCEPT !.paused = TRUE]
    /\ UNCHANGED appender

WorkerStarts ==
    /\ ring.reset = "done" /\ filler.at = "off"
    /\ filler' = [filler EXCEPT !.at = "idle"]
    /\ UNCHANGED <<ring, appender>>
StartFails ==
    /\ ring.reset = "done" /\ filler.at = "off"
    /\ ring' = [ring EXCEPT !.reset = "tags", !.again = TRUE]
    /\ UNCHANGED <<appender, filler>>

ResetStep ==
    ResetTags \/ ResetCursor \/ ResetHighWater \/ ResetInitialized \/ WorkerStarts \/ StartFails

--------------------------------------------------------------------------
(* fill: one USB packet *)

\* ns6_transport_available_shared: the frames from the cursor on that are there.
QueuedFrames ==
    IF ~ring.initialized \/ ring.high <= ring.cursor THEN 0
    ELSE LET held(n) == \A i \in 0..n - 1 : ring.tag[Slot(ring.cursor + i)] = ring.cursor + i
             limit == IF ring.high - ring.cursor > RingFrames THEN RingFrames
                      ELSE ring.high - ring.cursor
         IN  CHOOSE n \in 0..limit : held(n) /\ (n < limit => ~held(n + 1))

\* Paused with nothing queued, or waiting for the prefill: silence, no frame moves.
FillIdle ==
    /\ filler.at = "idle"
    /\ filler' = IF filler.paused /\ QueuedFrames = 0 THEN [filler EXCEPT !.awaiting = TRUE]
                 ELSE filler
    /\ (filler.paused /\ QueuedFrames = 0) \/ (filler.awaiting /\ QueuedFrames < Prefill)
    /\ UNCHANGED <<ring, appender>>

\* ns6_transport_dequeue_resampled_shared reads high_water once.
FillBegin(frames, step) ==
    /\ filler.at = "idle"
    /\ ~(filler.paused /\ QueuedFrames = 0)
    /\ ~(filler.awaiting /\ QueuedFrames < Prefill)
    /\ ring.cursor + 2 * frames <= LastPosition
    /\ filler' = [filler EXCEPT !.at = IF ring.initialized THEN "check" ELSE "store",
                                !.end = ring.high, !.phase = filler.fraction, !.step = step,
                                !.frames = frames, !.produced = 0, !.awaiting = FALSE]
    /\ UNCHANGED <<ring, appender>>

\* The two frames an output frame is interpolated from.
FirstPosition == ring.cursor + filler.phase \div StepUnit
SecondPosition == FirstPosition + (IF filler.phase % StepUnit > 0 THEN 1 ELSE 0)

\* Out of frames, past a lap of the ring, or a slot that holds another frame.
DequeueCheck ==
    /\ filler.at = "check"
    /\ LET there == /\ filler.produced < filler.frames
                    /\ SecondPosition < filler.end
                    /\ SecondPosition - ring.cursor < RingFrames
                    /\ ring.tag[Slot(FirstPosition)] = FirstPosition
                    /\ ring.tag[Slot(SecondPosition)] = SecondPosition
       IN  filler' = [filler EXCEPT !.at = IF there THEN "read" ELSE "store"]
    /\ UNCHANGED <<ring, appender>>

DequeueRead ==
    /\ filler.at = "read"
    /\ filler' = [filler EXCEPT !.at = "check", !.produced = @ + 1, !.phase = @ + filler.step,
                     !.output = <<FirstPosition, ring.sample[Slot(FirstPosition)],
                                  SecondPosition, ring.sample[Slot(SecondPosition)]>>]
    /\ UNCHANGED <<ring, appender>>

\* The cursor moves over what was produced; a short packet is padded and the
\* cursor moves over what was missing too (ns6_transport_advance_resampled_shared).
DequeueStore ==
    /\ filler.at = "store"
    /\ ring' = [ring EXCEPT !.cursor = @ + filler.phase \div StepUnit]
    /\ filler' = [filler EXCEPT !.fraction = filler.phase % StepUnit,
                                !.at = IF filler.produced < filler.frames THEN "pad" ELSE "idle",
                                !.output = <<>>]
    /\ UNCHANGED appender

FillPad ==
    /\ filler.at = "pad"
    /\ LET phase == filler.fraction + (filler.frames - filler.produced) * filler.step
       IN  /\ ring' = IF ring.initialized THEN [ring EXCEPT !.cursor = @ + phase \div StepUnit]
                      ELSE ring
           /\ filler' = [filler EXCEPT !.at = "idle",
                            !.fraction = IF ring.initialized THEN phase % StepUnit ELSE @]
    /\ UNCHANGED appender

\* ns6_usb_set_paused, from the service's other threads.
SetPaused(paused) ==
    /\ paused # filler.paused
    /\ filler' = [filler EXCEPT !.paused = paused, !.awaiting = @ \/ ~paused]
    /\ UNCHANGED <<ring, appender>>

FillStep == DequeueCheck \/ DequeueRead \/ DequeueStore \/ FillPad

--------------------------------------------------------------------------

TransportNext ==
    \/ \E count \in Blocks : EnqueueBegin(count)
    \/ EnqueueStep \/ ResetStep \/ FillIdle
    \/ \E frames \in PacketFrames, step \in SourceSteps : FillBegin(frames, step)
    \/ FillStep
    \/ \E paused \in BOOLEAN : SetPaused(paused)

TransportSpec == TransportInit /\ [][TransportNext]_transportVars
--------------------------------------------------------------------------
\* Once the worker runs, every slot between the cursor and high_water holds the
\* frame of its position, so that available does not stop at a hole and the
\* prefill gate can open.
NoHoles ==
    \A p \in 0..LastPosition :
        filler.at # "off" /\ ring.initialized /\ ring.cursor <= p /\ p < ring.high
        => ring.tag[Slot(p)] = p /\ ring.sample[Slot(p)] = p

\* Each output frame is interpolated from the frames that were accepted at its two
\* positions, never from a slot the writer has begun to overwrite, however many
\* starts fail and wherever their resets cut into a block.  And the ring has no
\* hole, whatever the reader skips and wherever the writer starts over, unless an
\* append was under way during the reset of a repeated start, the one case in which
\* a cursor of zero can be left in front of a later block
\* (ns6_transport_enqueue_at_shared, ns6_transport_advance_resampled and the reset
\* of ns6_usb_start leave the tags behind that dequeue relies on).
TransportReadsWhole ==
    /\ filler.at = "check" /\ filler.produced > 0
       => filler.output[1] = filler.output[2] /\ filler.output[3] = filler.output[4]
    /\ ~ring.cut => NoHoles

==========================================================================
