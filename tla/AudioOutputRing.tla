--------------------------- MODULE AudioOutputRing ---------------------------
(***************************************************************************)
(* The lock-free frame ring between one producer and one consumer thread   *)
(* (CoreAudio mix callback -> USB worker for playback, USB worker -> input *)
(* callback for capture).  A call is split at its atomic accesses: the     *)
(* loads of both indices, the copy of the frames, the store of the owned   *)
(* index; the other thread may run between any two of these.               *)
(*                                                                         *)
(* A frame's samples are abstracted to its position in the stream of       *)
(* accepted frames (1, 2, ...); 0 is the zero the constructor fills the    *)
(* storage with.  Doubles are fixed-point numbers in units of 1/Unit.      *)
(***************************************************************************)
EXTENDS Integers, Sequences

CONSTANTS
  Modulus,     \* indices are unsigned: 2^32 in the code
  Capacity,    \* capacityFrames_
  Unit,        \* resolution of the fixed-point phase
  Steps,       \* sourceStep arguments, in 1/Unit
  MaxBlock,    \* largest `frames` argument of a call
  MaxWritten   \* bound on the frames accepted in a behaviour

\* The constructor accepts 0 < capacity <= max/2; the driver's 16384 divides
\* 2^32, which is what keeps `index % capacity` continuous when an index wraps.
ASSUME RingAssumption ==
  /\ Modulus \in Nat /\ Capacity \in Nat \ {0}
  /\ Capacity <= (Modulus - 1) \div 2
  /\ Modulus % Capacity = 0
  /\ Unit \in Nat \ {0} /\ Steps \subseteq Nat
  /\ MaxBlock \in Nat \ {0} /\ MaxWritten \in Nat

VARIABLES
  writeFrame, readFrame,  \* the two published indices
  samples,                \* slot -> frame
  readFraction,           \* readFraction_ (consumer private)
  writer,                 \* producer's call in progress: pc and count
  reader,                 \* consumer's call in progress
  out,                    \* source frames of the last non-empty delivered block
  written, taken          \* ghosts: frames accepted / released so far

vars == <<writeFrame, readFrame, samples, readFraction, writer, reader, out,
          written, taken>>

Index == 0..(Modulus - 1)
Slots == 0..(Capacity - 1)

\* Unsigned addition and subtraction.
Add(i, n) == IF i + n < Modulus THEN i + n ELSE i + n - Modulus
Sub(i, j) == IF i >= j THEN i - j ELSE i - j + Modulus
Least(a, b) == IF a <= b THEN a ELSE b

\* Slot of the k-th frame of a block that starts at index i and is copied in
\* at most two pieces, the second one from the start of the storage.
PieceSlot(i, k) ==
  LET offset == i % Capacity
      first  == Capacity - offset
  IN  IF k < first THEN offset + k ELSE k - first

\* Faulty variant: the offset is not taken relative to the read index.
ModSlotFromZero(i, k) == k % Capacity

\* Slot by modulo of the unsigned sum, as readResampled computes it.
ModSlot(i, k) == Add(i, k) % Capacity

IdleReader == [pc |-> "idle", count |-> 0, fraction |-> 0, plan |-> <<>>]

Init ==
  /\ writeFrame = 0 /\ readFrame = 0
  /\ samples = [s \in Slots |-> 0]
  /\ readFraction = 0
  /\ writer = [pc |-> "idle", count |-> 0]
  /\ reader = IdleReader
  /\ out = <<>>
  /\ written = 0 /\ taken = 0
-----------------------------------------------------------------------------
(* Producer: write(frames).                                                *)

\* Faulty variant: the frames still unread are not subtracted.
FreeFramesIgnoringUsed == Capacity

FreeFrames == Capacity - Sub(writeFrame, readFrame)

WriteLoad(frames) ==
  /\ writer.pc = "idle"
  /\ LET count == Least(frames, FreeFrames)
     IN  /\ written + count <= MaxWritten
         /\ writer' = [pc |-> "copy", count |-> count]
  /\ UNCHANGED <<writeFrame, readFrame, samples, readFraction, reader, out,
                 written, taken>>

\* Faulty variant: the second piece is copied from the start of the block.
CopyInSecondPieceFromStart ==
  LET offset    == writeFrame % Capacity
      first     == Least(writer.count, Capacity - offset)
      remaining == writer.count - first
  IN  [s \in Slots |->
         IF offset <= s /\ s < offset + first THEN written + 1 + (s - offset)
         ELSE IF s < remaining THEN written + 1 + s
         ELSE samples[s]]

CopyIn ==
  LET offset    == writeFrame % Capacity
      first     == Least(writer.count, Capacity - offset)
      remaining == writer.count - first
  IN  [s \in Slots |->
         IF offset <= s /\ s < offset + first THEN written + 1 + (s - offset)
         ELSE IF s < remaining THEN written + 1 + first + s
         ELSE samples[s]]

WriteCopy ==
  /\ writer.pc = "copy"
  /\ samples' = CopyIn
  /\ writer' = [writer EXCEPT !.pc = "publish"]
  /\ UNCHANGED <<writeFrame, readFrame, readFraction, reader, out, written,
                 taken>>

WritePublish ==
  /\ writer.pc = "publish"
  /\ writeFrame' = Add(writeFrame, writer.count)
  /\ written' = written + writer.count
  /\ writer' = [pc |-> "idle", count |-> 0]
  /\ UNCHANGED <<readFrame, samples, readFraction, reader, out, taken>>
-----------------------------------------------------------------------------
(* Consumer: read, readResampled and advanceResampled.  The load fixes     *)
(* `plan`, the source offsets of every frame the call delivers, and how    *)
(* many frames it releases; the copy fetches them; the publish releases.   *)

ClampedStep(step) ==
  IF 2 * step < Unit \/ 2 * step > 3 * Unit THEN Unit ELSE step

Available == Least(Sub(writeFrame, readFrame), Capacity)

ReadLoad(frames) ==
  /\ reader.pc = "idle"
  /\ LET count == Least(frames, Sub(writeFrame, readFrame))
     IN  reader' = [pc |-> "copyPlain", count |-> count, fraction |-> readFraction,
                    plan |-> [j \in 1..count |-> <<j - 1, j - 1>>]]
  /\ UNCHANGED <<writeFrame, readFrame, samples, readFraction, writer, out,
                 written, taken>>

\* Source phase of the j-th output frame (j = 0, 1, ...) of a resampled call.
Phase(step, j) == readFraction + j * step

\* First source offset, and the one it is interpolated with.
FirstOffset(step, j) == Phase(step, j) \div Unit
SecondOffset(step, j) ==
  IF Phase(step, j) % Unit > 0 /\ FirstOffset(step, j) + 1 < Available
  THEN FirstOffset(step, j) + 1 ELSE FirstOffset(step, j)

\* Faulty variant: a frame whose successor is not there yet is not produced.
ProducesWithSuccessor(produced, frames, step) ==
  /\ \A j \in 0..(produced - 1) : FirstOffset(step, j) + 1 < Available
  /\ produced < frames => FirstOffset(step, produced) + 1 >= Available

\* The loop stops at `frames`, or at the first output frame whose source
\* frame is not available.
Produces(produced, frames, step) ==
  /\ \A j \in 0..(produced - 1) : FirstOffset(step, j) < Available
  /\ produced < frames => FirstOffset(step, produced) >= Available

ResampleLoad(frames, step) ==
  /\ reader.pc = "idle"
  /\ \E produced \in 0..frames :
       /\ Produces(produced, frames, step)
       /\ reader' = [pc |-> "copyResampled",
                     count |-> Least(Phase(step, produced) \div Unit, Available),
                     fraction |-> Phase(step, produced) % Unit,
                     plan |-> [j \in 1..produced |->
                                 <<FirstOffset(step, j - 1), SecondOffset(step, j - 1)>>]]
  /\ UNCHANGED <<writeFrame, readFrame, samples, readFraction, writer, out,
                 written, taken>>

\* Faulty variant: the advance is limited by the capacity, not by what is queued.
AdvanceLoadPastWriter(frames, step) ==
  /\ reader.pc = "idle"
  /\ reader' = [pc |-> "publish",
                count |-> Least(Phase(step, frames) \div Unit, Capacity),
                fraction |-> Phase(step, frames) % Unit,
                plan |-> <<>>]
  /\ UNCHANGED <<writeFrame, readFrame, samples, readFraction, writer, out,
                 written, taken>>

AdvanceLoad(frames, step) ==
  /\ reader.pc = "idle"
  /\ reader' = [pc |-> "publish",
                count |-> Least(Phase(step, frames) \div Unit, Available),
                fraction |-> Phase(step, frames) % Unit,
                plan |-> <<>>]
  /\ UNCHANGED <<writeFrame, readFrame, samples, readFraction, writer, out,
                 written, taken>>

\* A call that delivers nothing leaves the caller's previous block in `out`.
Deliver(slot(_, _)) ==
  IF reader.plan = <<>> THEN out
  ELSE [j \in DOMAIN reader.plan |->
          <<samples[slot(readFrame, reader.plan[j][1])],
            samples[slot(readFrame, reader.plan[j][2])]>>]

ReadCopy ==
  /\ \/ reader.pc = "copyPlain" /\ out' = Deliver(PieceSlot)
     \/ reader.pc = "copyResampled" /\ out' = Deliver(ModSlot)
  /\ reader' = [reader EXCEPT !.pc = "publish"]
  /\ UNCHANGED <<writeFrame, readFrame, samples, readFraction, writer,
                 written, taken>>

ReadPublish ==
  /\ reader.pc = "publish"
  /\ readFrame' = Add(readFrame, reader.count)
  /\ readFraction' = reader.fraction
  /\ taken' = taken + reader.count
  /\ reader' = IdleReader
  /\ UNCHANGED <<writeFrame, samples, writer, out, written>>
-----------------------------------------------------------------------------
Next ==
  \/ \E frames \in 1..MaxBlock : WriteLoad(frames)
  \/ WriteCopy
  \/ WritePublish
  \/ \E frames \in 1..MaxBlock : ReadLoad(frames)
  \/ \E frames \in 1..MaxBlock, step \in Steps : ResampleLoad(frames, ClampedStep(step))
  \/ \E frames \in 1..MaxBlock, step \in Steps : AdvanceLoad(frames, ClampedStep(step))
  \/ ReadCopy
  \/ ReadPublish

Spec == Init /\ [][Next]_vars
-----------------------------------------------------------------------------
\* The types; both indices stay u32 and the counts the code computes from them fit the ring.
TypeOK ==
  /\ writeFrame \in Index /\ readFrame \in Index
  /\ samples \in [Slots -> Nat]
  /\ readFraction \in 0..(Unit - 1)
  /\ writer \in [pc : {"idle", "copy", "publish"}, count : 0..Capacity]
  /\ reader \in [pc : {"idle", "copyPlain", "copyResampled", "publish"},
                  count : 0..Capacity, fraction : 0..(Unit - 1),
                  plan : Seq(Slots \X Slots)]
  /\ out \in Seq(Nat \X Nat)
  /\ written \in 0..MaxWritten /\ taken \in 0..MaxWritten

Used == Sub(writeFrame, readFrame)

\* The ring never holds more than Capacity frames: unsigned subtraction of the
\* two indices is the true number of accepted and unreleased frames even after
\* either index wrapped (AudioOutputRing::write computes capacity - used).
UsedIsExact == Used = written - taken /\ Used <= Capacity

\* While the producer copies a block it touches no slot that holds a frame the
\* consumer may still be reading: the copies need no lock (write / read).
CopiesDisjoint ==
  writer.pc # "idle" =>
    \A k \in 0..(writer.count - 1), u \in 0..(Used - 1) :
      PieceSlot(writeFrame, k) # PieceSlot(readFrame, u)

\* Whatever the interleaving, the frames a call hands to the consumer are the
\* frames accepted at those positions of the stream, none torn or overwritten.
FramesIntact ==
  reader.pc = "publish" /\ reader.plan # <<>> =>
    out = [j \in DOMAIN reader.plan |->
             <<taken + 1 + reader.plan[j][1], taken + 1 + reader.plan[j][2]>>]

(* The strengthening under which the properties above are inductive.       *)

\* The producer's reservation still fits: the consumer only frees space.
WriterBounded ==
  writer.pc # "idle" => /\ Used + writer.count <= Capacity
                        /\ written + writer.count <= MaxWritten

\* The frames copied and not yet published are in place.
CopiedIntact ==
  writer.pc = "publish" =>
    \A k \in 0..(writer.count - 1) :
      samples[PieceSlot(writeFrame, k)] = written + 1 + k

\* Every unreleased frame is still in its slot.
StoredIntact ==
  \A u \in 0..(Used - 1) : samples[PieceSlot(readFrame, u)] = taken + 1 + u

\* The consumer's plan stays inside what is published: the producer only adds.
ReaderBounded ==
  reader.pc # "idle" =>
    /\ reader.count <= Used
    /\ \A j \in DOMAIN reader.plan :
         reader.plan[j][1] < Used /\ reader.plan[j][2] < Used

IndInv ==
  /\ TypeOK /\ UsedIsExact /\ WriterBounded /\ CopiedIntact /\ StoredIntact
  /\ ReaderBounded /\ FramesIntact

\* The stored frames between the two indices, oldest first.
StoredQueue == [k \in 1..Used |-> samples[PieceSlot(readFrame, k - 1)]]

Fifo == INSTANCE FrameFIFO WITH queue <- StoredQueue, next <- written + 1

\* The ring implements the bounded first-in first-out queue of FrameFIFO.
ImplementsFifo == Fifo!FifoSpec
=============================================================================
