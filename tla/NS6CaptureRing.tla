------------------------- MODULE NS6CaptureRing -------------------------
(* The capture ring of the earlier driver (NS6CaptureRing.h) in shared memory:  *)
(* the USB worker appends the frames it decoded while capture is requested        *)
(* (waveform_read_complete of NS6USB.c), ReadInput of the plug-in (do_io of        *)
(* NS6HAL.c) takes them.  Only the reader moves tail: its first call of a request   *)
(* skips what is there.  Positions are u64 in the code and never wrap in use.       *)
EXTENDS Naturals, Sequences

CONSTANTS
    CaptureCapacity,   \* NS6_CAPTURE_RING_CAPACITY
    CaptureBlocks,     \* frame counts of a decoded block
    ReadSizes,         \* frame counts of a ReadInput
    LastCapture        \* bound on the positions in use

\* An empty block is not appended.
ASSUME CaptureAssumption ==
    /\ CaptureCapacity \in Nat \ {0} /\ LastCapture \in Nat
    /\ CaptureBlocks \subseteq Nat \ {0} /\ ReadSizes \subseteq Nat

VARIABLES
    captured,  \* the ring and capture_requested; begun is a ghost: head when the
               \* request began
    decoder,   \* ns6_capture_ring_write on the worker
    input      \* ReadInput on the I/O thread

captureVars == <<captured, decoder, input>>

Nothing == LastCapture + 1

IdleDecoder == [at |-> "idle", head |-> 0, count |-> 0, done |-> 0]
IdleInput == [at |-> "idle", tail |-> 0, count |-> 0, frames |-> 0, got |-> <<>>]

CaptureInit ==
    /\ captured = [samples |-> [s \in 0..CaptureCapacity - 1 |-> Nothing], head |-> 0, tail |-> 0,
                   requested |-> FALSE, begun |-> 0]
    /\ decoder = IdleDecoder
    /\ input = IdleInput

--------------------------------------------------------------------------
(* The worker. *)

\* The room it finds is what it may use; the rest of the block is dropped.
WriteBegins(frames) ==
    /\ decoder.at = "idle" /\ captured.requested
    /\ LET used == captured.head - captured.tail
           room == CaptureCapacity - used
           count == IF frames > room THEN room ELSE frames
       IN  /\ used < CaptureCapacity
           /\ captured.head + count <= LastCapture
           /\ decoder' = [at |-> "copy", head |-> captured.head, count |-> count, done |-> 0]
    /\ UNCHANGED <<captured, input>>

WriteCopies ==
    /\ decoder.at = "copy"
    /\ LET position == decoder.head + decoder.done
       IN  captured' = [captured EXCEPT !.samples[position % CaptureCapacity] = position]
    /\ decoder' = [decoder EXCEPT !.done = @ + 1,
                       !.at = IF decoder.done + 1 = decoder.count THEN "publish" ELSE "copy"]
    /\ UNCHANGED input

WritePublishes ==
    /\ decoder.at = "publish"
    /\ captured' = [captured EXCEPT !.head = decoder.head + decoder.count]
    /\ decoder' = IdleDecoder
    /\ UNCHANGED input

\* The worker found the demand too old, or stopped the bulk-IN reads.
RequestEnds ==
    /\ captured.requested /\ decoder.at = "idle"
    /\ captured' = [captured EXCEPT !.requested = FALSE]
    /\ UNCHANGED <<decoder, input>>

--------------------------------------------------------------------------
(* ReadInput. *)

\* The exchange of capture_requested decides whether the ring is cleared.
InputBegins(frames) ==
    /\ input.at = "idle"
    /\ captured' = IF captured.requested THEN captured
                   ELSE [captured EXCEPT !.requested = TRUE, !.begun = captured.head]
    /\ input' = [IdleInput EXCEPT !.at = IF captured.requested THEN "load" ELSE "skip",
                                  !.frames = frames]
    /\ UNCHANGED decoder

\* ns6_capture_ring_clear: head is loaded, then stored as tail.
SkipLoads ==
    /\ input.at = "skip"
    /\ input' = [input EXCEPT !.at = "clear", !.tail = captured.head]
    /\ UNCHANGED <<captured, decoder>>

SkipStores ==
    /\ input.at = "clear"
    /\ captured' = [captured EXCEPT !.tail = input.tail]
    /\ input' = [input EXCEPT !.at = "load"]
    /\ UNCHANGED decoder

\* Faulty variant: tail gives the slots back before they are copied.
ReadLoadsStoring ==
    /\ input.at = "load"
    /\ LET available == captured.head - captured.tail
           count == IF available > input.frames THEN input.frames ELSE available
       IN  /\ input' = [input EXCEPT !.at = IF count = 0 THEN "store" ELSE "copy",
                                     !.tail = captured.tail, !.count = count]
           /\ captured' = [captured EXCEPT !.tail = @ + count]
    /\ UNCHANGED decoder

\* ns6_capture_ring_read: what is there at this moment, at most what was asked for.
ReadLoads ==
    /\ input.at = "load"
    /\ LET available == captured.head - captured.tail
           count == IF available > input.frames THEN input.frames ELSE available
       IN  input' = [input EXCEPT !.at = IF count = 0 THEN "store" ELSE "copy",
                                  !.tail = captured.tail, !.count = count]
    /\ UNCHANGED <<captured, decoder>>

ReadCopies ==
    /\ input.at = "copy"
    /\ LET position == input.tail + Len(input.got)
       IN  input' = [input EXCEPT !.got = Append(@, captured.samples[position % CaptureCapacity]),
                         !.at = IF Len(input.got) + 1 = input.count THEN "store" ELSE "copy"]
    /\ UNCHANGED <<captured, decoder>>

ReadStores ==
    /\ input.at = "store"
    /\ captured' = [captured EXCEPT !.tail = input.tail + input.count]
    /\ input' = IdleInput
    /\ UNCHANGED decoder

--------------------------------------------------------------------------

CaptureNext ==
    \/ \E frames \in CaptureBlocks : WriteBegins(frames)
    \/ WriteCopies \/ WritePublishes \/ RequestEnds
    \/ \E frames \in ReadSizes : InputBegins(frames)
    \/ SkipLoads \/ SkipStores \/ ReadLoads \/ ReadCopies \/ ReadStores

CaptureSpec == CaptureInit /\ [][CaptureNext]_captureVars

\* What ReadInput copies are the frames the worker decoded at these positions, in
\* order, none from before the request they answer: a full ring, a block cut to
\* the room that is left, and a request that ends and begins again while a block
\* is being appended do not mix frames up (ns6_capture_ring_write, _read, _clear).
CaptureInOrder ==
    /\ captured.tail <= captured.head /\ captured.head - captured.tail <= CaptureCapacity
    /\ \A i \in 1..Len(input.got) :
           input.got[i] = input.tail + i - 1 /\ input.got[i] >= captured.begun

==========================================================================
