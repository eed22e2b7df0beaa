----------------------------- MODULE StreamsProofs -----------------------------
(***************************************************************************)
(* Proofs about the rings that carry the audio of both drivers, and the    *)
(* engines and transfers that fill and empty them.                         *)
(*                                                                         *)
(* First AudioOutputRing, for every capacity that divides the index        *)
(* modulus, every block size and every set of resampling steps, and the    *)
(* two engines that use it.  The arithmetic is isolated in lemmas about    *)
(* PieceSlot: as a function of its second argument it is injective on a    *)
(* lap, and it commutes with wrapping addition.  Everything after them is  *)
(* linear.  Both engines only ever drive the ring through its own          *)
(* operations, so that what is proved of the ring holds of playback and of *)
(* capture; and silence is played, or a short block returned, only when    *)
(* the ring has run dry.                                                   *)
(*                                                                         *)
(* Then the streams of the earlier driver: its two rings, for every        *)
(* capacity, every block size and every interleaving of their two sides,   *)
(* and the transfers of its USB worker, for all numbers of slots.  There   *)
(* positions are never reduced, only the slots are: two positions less     *)
(* than a lap apart have different slots, and that is all the arithmetic   *)
(* the proofs need.                                                        *)
(***************************************************************************)
EXTENDS AudioEngines, NS6CaptureRing, NS6Transport, NS6USB, Integers, TLAPS

\* Quotient and remainder by the capacity.
LEMMA DivMod ==
  \A a \in Int : /\ a % Capacity \in Slots
                 /\ a \div Capacity \in Int
                 /\ a = Capacity * (a \div Capacity) + (a % Capacity)
BY RingAssumption DEF Slots

\* A remainder is determined by any decomposition into laps and an offset.
LEMMA ModUnique ==
  ASSUME NEW a \in Int, NEW q \in Int, NEW r \in Slots, a = Capacity * q + r
  PROVE  a % Capacity = r
BY RingAssumption DEF Slots

\* A full ring spans less than half of the index range.
LEMMA CapacityBound == 2 * Capacity < Modulus
BY RingAssumption

\* The slot of an index advanced by k, wrapping included, is the slot that the
\* two-piece copy gives the k-th frame: `%` in readResampled and the two memcpy
\* of write and read agree because the capacity divides the modulus.
LEMMA SlotAdd ==
  ASSUME NEW i \in Index, NEW k \in 0..Capacity
  PROVE  Add(i, k) \in Index /\ Add(i, k) % Capacity = PieceSlot(i, k)
<1> DEFINE o == i % Capacity  q == i \div Capacity  m == Modulus \div Capacity
<1>1. /\ o \in 0..(Capacity - 1) /\ q \in Int /\ m \in Int
      /\ i = Capacity * q + o /\ Modulus = Capacity * m
  BY RingAssumption, DivMod DEF Index, Slots
<1> HIDE DEF o, q, m
<1>2. PieceSlot(i, k) = IF k < Capacity - o THEN o + k ELSE k - (Capacity - o)
  BY Zenon DEF PieceSlot, o
<1>3. Add(i, k) \in Index
  BY RingAssumption, CapacityBound DEF Add, Index
<1>4. CASE i + k < Modulus /\ k < Capacity - o
  <2>1. Add(i, k) = Capacity * q + (o + k)
    BY <1>1, <1>4, RingAssumption DEF Add
  <2>2. Add(i, k) \in Int /\ q \in Int /\ o + k \in Slots
    BY <1>1, <1>3, <1>4, RingAssumption DEF Index, Slots
  <2>3. Add(i, k) % Capacity = o + k
    BY Zenon, <2>1, <2>2, ModUnique
  <2> QED BY Zenon, <2>3, <1>2, <1>3, <1>4
<1>5. CASE i + k < Modulus /\ ~(k < Capacity - o)
  <2>1. Add(i, k) = Capacity * (q + 1) + (k - (Capacity - o))
    BY <1>1, <1>5, RingAssumption DEF Add, Index
  <2>2. Add(i, k) \in Int /\ q + 1 \in Int /\ k - (Capacity - o) \in Slots
    BY <1>1, <1>3, <1>5, RingAssumption DEF Index, Slots
  <2>3. Add(i, k) % Capacity = k - (Capacity - o)
    BY Zenon, <2>1, <2>2, ModUnique
  <2> QED BY Zenon, <2>3, <1>2, <1>3, <1>5
<1>6. CASE ~(i + k < Modulus) /\ k < Capacity - o
  <2>1. Add(i, k) = Capacity * (q - m) + (o + k)
    BY <1>1, <1>6, RingAssumption DEF Add, Index
  <2>2. Add(i, k) \in Int /\ q - m \in Int /\ o + k \in Slots
    BY <1>1, <1>3, <1>6, RingAssumption DEF Index, Slots
  <2>3. Add(i, k) % Capacity = o + k
    BY Zenon, <2>1, <2>2, ModUnique
  <2> QED BY Zenon, <2>3, <1>2, <1>3, <1>6
<1>7. CASE ~(i + k < Modulus) /\ ~(k < Capacity - o)
  <2>1. Add(i, k) = Capacity * (q - m + 1) + (k - (Capacity - o))
    BY <1>1, <1>7, RingAssumption DEF Add, Index
  <2>2. Add(i, k) \in Int /\ q - m + 1 \in Int /\ k - (Capacity - o) \in Slots
    BY <1>1, <1>3, <1>7, RingAssumption DEF Index, Slots
  <2>3. Add(i, k) % Capacity = k - (Capacity - o)
    BY Zenon, <2>1, <2>2, ModUnique
  <2> QED BY Zenon, <2>3, <1>2, <1>3, <1>7
<1> QED BY Zenon, <1>3, <1>4, <1>5, <1>6, <1>7

\* The frames of one lap have different slots.
LEMMA SlotInjective ==
  ASSUME NEW i \in Index, NEW k \in Slots, NEW u \in Slots
  PROVE  /\ PieceSlot(i, k) \in Slots
         /\ PieceSlot(i, k) = PieceSlot(i, u) => k = u
<1>1. i % Capacity \in Slots
  BY DivMod, RingAssumption DEF Index
<1> QED BY <1>1, RingAssumption DEF PieceSlot, Slots

\* Counting from an advanced index is counting further from the first one.
LEMMA SlotShift ==
  ASSUME NEW i \in Index, NEW k \in 0..Capacity, NEW u \in Slots,
         k + u < Capacity
  PROVE  PieceSlot(Add(i, k), u) = PieceSlot(i, k + u)
<1>1. i % Capacity \in Slots
  BY SMTT(60), DivMod, RingAssumption DEF Index
<1>2. Add(i, k) % Capacity = PieceSlot(i, k)
  BY Zenon, SlotAdd
<1> QED BY <1>1, <1>2, RingAssumption DEF PieceSlot, Slots

\* Releasing frames shortens the distance between the indices by as many.
LEMMA SubAdd ==
  ASSUME NEW w \in Index, NEW r \in Index, NEW c \in Nat, c <= Sub(w, r)
  PROVE  Sub(w, Add(r, c)) = Sub(w, r) - c /\ Add(r, c) \in Index
BY RingAssumption DEF Sub, Add, Index

\* Slots stay inside the storage.
LEMMA StartSlot ==
  ASSUME NEW i \in Index, NEW k \in Slots
  PROVE  i % Capacity \in Slots /\ PieceSlot(i, k) \in Slots
<1>1. ASSUME NEW x \in Nat PROVE x % Capacity \in Slots
  BY RingAssumption DEF Slots
<1>2. i % Capacity \in Slots
  BY <1>1, RingAssumption DEF Index
<1> QED BY <1>2, RingAssumption DEF PieceSlot, Slots

LEMMA ZeroSlot == 0 \in Slots
BY RingAssumption DEF Slots

\* The index distance recovers the writer's index from the reader's.
LEMMA WriteIndex ==
  ASSUME writeFrame \in Index, readFrame \in Index, Used <= Capacity
  PROVE  Used \in 0..Capacity /\ writeFrame = Add(readFrame, Used)
BY RingAssumption DEF Used, Sub, Add, Index

\* The two-piece copy puts the k-th frame of the block in its slot and leaves
\* the rest of the lap alone.
LEMMA CopyInSlots ==
  ASSUME TypeOK, NEW k \in Slots
  PROVE  CopyIn[PieceSlot(writeFrame, k)] =
           IF k < writer.count THEN written + 1 + k
           ELSE samples[PieceSlot(writeFrame, k)]
<1>1. writeFrame % Capacity \in Slots /\ PieceSlot(writeFrame, k) \in Slots
  BY Zenon, StartSlot DEF TypeOK
<1>2. writer.count \in 0..Capacity /\ written \in Nat
  BY DEF TypeOK
<1> DEFINE offset == writeFrame % Capacity
           slot == IF k < Capacity - offset THEN offset + k ELSE k - (Capacity - offset)
           first == IF writer.count <= Capacity - offset THEN writer.count ELSE Capacity - offset
<1>3. PieceSlot(writeFrame, k) = slot /\ slot \in Slots /\ offset \in Slots
  BY Zenon, <1>1 DEF PieceSlot
<1>4. CopyIn[slot] = IF offset <= slot /\ slot < offset + first THEN written + 1 + (slot - offset)
                     ELSE IF slot < writer.count - first THEN written + 1 + first + slot
                     ELSE samples[slot]
  BY Zenon, <1>3 DEF CopyIn, Least
<1>5. k < writer.count =>
        IF offset <= slot /\ slot < offset + first THEN slot - offset = k
        ELSE slot < writer.count - first /\ first + slot = k
  BY <1>2, <1>3, RingAssumption DEF Slots
<1>6. ~(k < writer.count) =>
        ~(offset <= slot /\ slot < offset + first) /\ ~(slot < writer.count - first)
  BY <1>2, <1>3, RingAssumption DEF Slots
<1>7. first \in Nat /\ slot \in Nat /\ offset \in Nat
  BY <1>2, <1>3, RingAssumption DEF Slots
<1> HIDE DEF first, slot, offset
<1> QED BY <1>2, <1>3, <1>4, <1>5, <1>6, <1>7

\* Phase arithmetic stays in the naturals; the fraction stays below one frame.
LEMMA PhaseTypes ==
  ASSUME TypeOK, NEW step \in Nat, NEW j \in Nat
  PROVE  /\ Phase(step, j) \in Nat
         /\ Phase(step, j) \div Unit \in Nat
         /\ Phase(step, j) % Unit \in 0..(Unit - 1)
<1>1. readFraction \in Nat /\ j * step \in Nat
  BY DEF TypeOK
<1>2. Phase(step, j) \in Nat
  BY <1>1 DEF Phase
<1>3. ASSUME NEW x \in Nat PROVE x \div Unit \in Nat /\ x % Unit \in 0..(Unit - 1)
  BY RingAssumption
<1> QED BY Zenon, <1>2, <1>3
-----------------------------------------------------------------------------
LEMMA InitInv == Init => IndInv
<1> SUFFICES ASSUME Init PROVE IndInv
  BY Zenon
<1>1. Used = 0
  BY DEF Init, Used, Sub
<1>2. TypeOK
  BY RingAssumption DEF Init, TypeOK, IdleReader, Index, Slots
<1> QED
  BY <1>1, <1>2, RingAssumption DEF Init, IdleReader, IndInv, UsedIsExact, WriterBounded,
     CopiedIntact, StoredIntact, ReaderBounded, FramesIntact
-----------------------------------------------------------------------------
(* One lemma per action.  An action that leaves a variable alone leaves    *)
(* the conjuncts over it alone, which the provers see once the operators   *)
(* are expanded to those variables.                                        *)

LEMMA WriteLoadInv ==
  ASSUME IndInv, NEW frames \in 1..MaxBlock, WriteLoad(frames)
  PROVE  IndInv'
<1> DEFINE count == Least(frames, FreeFrames)
<1>1. /\ written + count <= MaxWritten /\ writer' = [pc |-> "copy", count |-> count]
      /\ UNCHANGED <<writeFrame, readFrame, samples, readFraction, reader, out, written, taken>>
  BY Zenon DEF WriteLoad
<1>2. Used \in 0..Capacity
  BY Zenon, WriteIndex DEF IndInv, TypeOK, UsedIsExact
<1>3. count \in 0..Capacity /\ Used + count <= Capacity
  BY <1>2, RingAssumption DEF Least, FreeFrames, Used
<1> HIDE DEF count
<1>4. Used' = Used
  BY Zenon, <1>1 DEF Used
<1>5. TypeOK'
  BY Zenon, <1>1, <1>3 DEF IndInv, TypeOK
<1>6. WriterBounded' /\ CopiedIntact'
  BY Zenon, <1>1, <1>3, <1>4 DEF WriterBounded, CopiedIntact
<1>7. UsedIsExact' /\ StoredIntact' /\ ReaderBounded' /\ FramesIntact'
  BY Zenon, <1>1, <1>4 DEF IndInv, UsedIsExact, StoredIntact, ReaderBounded, FramesIntact
<1> QED BY Zenon, <1>5, <1>6, <1>7 DEF IndInv

LEMMA WriteCopyInv ==
  ASSUME IndInv, WriteCopy
  PROVE  IndInv'
<1>1. /\ writer.pc = "copy" /\ samples' = CopyIn /\ writer' = [writer EXCEPT !.pc = "publish"]
      /\ UNCHANGED <<writeFrame, readFrame, readFraction, reader, out, written, taken>>
  BY Zenon DEF WriteCopy
<1>2. Used' = Used /\ Used \in 0..Capacity /\ writeFrame = Add(readFrame, Used)
  BY Zenon, <1>1, WriteIndex DEF IndInv, TypeOK, UsedIsExact, Used
<1>3. /\ writer'.count = writer.count /\ writer'.pc = "publish"
      /\ writer.count \in 0..Capacity /\ Used + writer.count <= Capacity
      /\ written + writer.count <= MaxWritten
  BY Zenon, <1>1 DEF IndInv, TypeOK, WriterBounded
<1>4. TypeOK'
  <2>1. CopyIn \in [Slots -> Nat]
    <3>1. /\ writeFrame \in Index /\ samples \in [Slots -> Nat]
          /\ writer.count \in 0..Capacity /\ written \in Nat
      BY DEF IndInv, TypeOK
    <3>2. writeFrame % Capacity \in Slots
      BY Zenon, <3>1, StartSlot, ZeroSlot
    <3> DEFINE offset == writeFrame % Capacity
               first == Least(writer.count, Capacity - offset)
    <3>3. first \in Nat /\ offset \in Nat
      BY <3>1, <3>2, RingAssumption DEF Slots, Least
    <3>4. CopyIn = [s \in Slots |->
             IF offset <= s /\ s < offset + first THEN written + 1 + (s - offset)
             ELSE IF s < writer.count - first THEN written + 1 + first + s
             ELSE samples[s]]
      BY Zenon DEF CopyIn
    <3> HIDE DEF offset, first
    <3>5. ASSUME NEW s \in Slots
          PROVE  CopyIn[s] \in Nat
      BY <3>1, <3>3, <3>4 DEF Slots
    <3> QED BY Zenon, <3>4, <3>5
  <2> QED BY Zenon, <2>1, <1>1 DEF IndInv, TypeOK
<1>5. CopiedIntact'
  <2> SUFFICES ASSUME NEW k \in 0..(writer.count - 1)
               PROVE  samples'[PieceSlot(writeFrame, k)] = written + 1 + k
    BY Zenon, <1>1, <1>3 DEF CopiedIntact
  <2>1. k \in Slots /\ k < writer.count
    BY <1>3, RingAssumption DEF Slots
  <2> QED BY Zenon, <2>1, <1>1, CopyInSlots DEF IndInv
<1>6. StoredIntact'
  <2> SUFFICES ASSUME NEW u \in 0..(Used - 1)
               PROVE  samples'[PieceSlot(readFrame, u)] = taken + 1 + u
    BY Zenon, <1>1, <1>2 DEF StoredIntact
  <2>1. samples[PieceSlot(readFrame, u)] = taken + 1 + u
    BY Zenon, <1>2 DEF IndInv, StoredIntact
  <2> DEFINE back == Capacity - Used + u
  <2>2. back \in Slots /\ ~(back < writer.count)
    BY <1>2, <1>3, RingAssumption DEF Slots
  <2>3. PieceSlot(readFrame, u) = PieceSlot(writeFrame, back)
    \* Walking on from the writer's index reaches the reader's oldest frames
    \* only after the free part of the lap.
    <3>1. readFrame % Capacity \in Slots
      BY Zenon, StartSlot, ZeroSlot DEF IndInv, TypeOK
    <3>2. writeFrame % Capacity = PieceSlot(readFrame, Used)
      BY Zenon, <1>2, SlotAdd DEF IndInv, TypeOK
    <3> QED BY <3>1, <3>2, <1>2, RingAssumption DEF PieceSlot, Slots
  <2> HIDE DEF back
  <2>4. CopyIn[PieceSlot(writeFrame, back)] = samples[PieceSlot(writeFrame, back)]
    BY Zenon, <2>2, CopyInSlots DEF IndInv
  <2> QED BY Zenon, <2>1, <2>3, <2>4, <1>1
<1>7. UsedIsExact' /\ WriterBounded' /\ ReaderBounded' /\ FramesIntact'
  BY Zenon, <1>1, <1>2, <1>3 DEF IndInv, UsedIsExact, WriterBounded, ReaderBounded, FramesIntact
<1> QED BY Zenon, <1>4, <1>5, <1>6, <1>7 DEF IndInv

LEMMA WritePublishInv ==
  ASSUME IndInv, WritePublish
  PROVE  IndInv'
<1>1. /\ writer.pc = "publish" /\ writeFrame' = Add(writeFrame, writer.count)
      /\ written' = written + writer.count /\ writer' = [pc |-> "idle", count |-> 0]
      /\ UNCHANGED <<readFrame, samples, readFraction, reader, out, taken>>
  BY Zenon DEF WritePublish
<1>2. /\ Used \in 0..Capacity /\ writeFrame = Add(readFrame, Used)
      /\ Used = written - taken /\ readFrame \in Index /\ writeFrame \in Index
  BY Zenon, WriteIndex DEF IndInv, TypeOK, UsedIsExact
<1>3. /\ writer.count \in 0..Capacity /\ Used + writer.count <= Capacity
      /\ written \in Nat /\ taken \in Nat /\ written + writer.count <= MaxWritten
  BY <1>1 DEF IndInv, TypeOK, WriterBounded
<1>4. Used' = Used + writer.count /\ writeFrame' \in Index
  BY <1>1, <1>2, <1>3, CapacityBound, RingAssumption DEF Used, Sub, Add, Index
<1>5. TypeOK'
  <2>1. 0 \in 0..Capacity /\ (written + writer.count) \in 0..MaxWritten
    BY <1>3, RingAssumption
  <2>2. writer' \in [pc : {"idle", "copy", "publish"}, count : 0..Capacity]
    BY Zenon, <1>1, <2>1
  <2>3. written' \in 0..MaxWritten
    BY Zenon, <1>1, <2>1
  <2> QED BY Zenon, <1>1, <1>4, <2>2, <2>3 DEF IndInv, TypeOK
<1>6. StoredIntact'
  <2> SUFFICES ASSUME NEW u \in 0..(Used + writer.count - 1)
               PROVE  samples[PieceSlot(readFrame, u)] = taken + 1 + u
    BY <1>1, <1>2, <1>3, <1>4 DEF StoredIntact
  <2>1. CASE u < Used
    BY <2>1, <1>2 DEF IndInv, StoredIntact
  <2>2. CASE u >= Used
    <3> DEFINE k == u - Used
    <3>1. k \in 0..(writer.count - 1) /\ k \in Slots /\ u = Used + k /\ Used + k < Capacity
      BY <2>2, <1>2, <1>3, RingAssumption DEF Slots
    <3> HIDE DEF k
    <3>2. samples[PieceSlot(writeFrame, k)] = written + 1 + k
      BY Zenon, <3>1, <1>1 DEF IndInv, CopiedIntact
    <3>3. PieceSlot(writeFrame, k) = PieceSlot(readFrame, Used + k)
      BY Zenon, <3>1, <1>2, SlotShift
    <3> QED BY <3>1, <3>2, <3>3, <1>2, <1>3
  <2> QED BY <2>1, <2>2, <1>2, <1>3
<1>7. ReaderBounded'
  <2>1. reader.count \in Nat /\ reader.plan \in Seq(Slots \X Slots)
    BY DEF IndInv, TypeOK
  <2>2. \A j \in DOMAIN reader.plan : reader.plan[j][1] \in Nat /\ reader.plan[j][2] \in Nat
    BY SMTT(60), <2>1 DEF Slots
  <2> QED BY SMTT(60), <2>1, <2>2, <1>1, <1>2, <1>3, <1>4 DEF IndInv, ReaderBounded
<1>8. UsedIsExact' /\ WriterBounded' /\ CopiedIntact' /\ FramesIntact'
  BY <1>1, <1>2, <1>3, <1>4 DEF IndInv, UsedIsExact, WriterBounded, CopiedIntact, FramesIntact
<1> QED BY Zenon, <1>5, <1>6, <1>7, <1>8 DEF IndInv

\* What the three loads of the consumer have in common: a plan inside the
\* published frames.
LEMMA ReaderLoadInv ==
  ASSUME IndInv, NEW pc \in {"copyPlain", "copyResampled", "publish"},
         NEW count \in 0..Used, NEW fraction \in 0..(Unit - 1),
         NEW plan \in Seq((0..(Used - 1)) \X (0..(Used - 1))),
         pc = "publish" => plan = <<>>,
         reader' = [pc |-> pc, count |-> count, fraction |-> fraction, plan |-> plan],
         UNCHANGED <<writeFrame, readFrame, samples, readFraction, writer, out, written, taken>>
  PROVE  IndInv'
<1>1. Used \in 0..Capacity /\ Used' = Used
  BY Zenon, WriteIndex DEF IndInv, TypeOK, UsedIsExact, Used
<1>2. plan \in Seq(Slots \X Slots)
  <2>1. (0..(Used - 1)) \X (0..(Used - 1)) \subseteq Slots \X Slots
    BY SMTT(60), <1>1, RingAssumption DEF Slots
  <2> QED BY <2>1
<1>3. TypeOK'
  <2>1. reader' \in [pc : {"idle", "copyPlain", "copyResampled", "publish"},
                     count : 0..Capacity, fraction : 0..(Unit - 1), plan : Seq(Slots \X Slots)]
    <3>1. count \in 0..Capacity
      BY <1>1, RingAssumption
    <3> QED BY <3>1, <1>2, Zenon
  <2> QED BY Zenon, <2>1 DEF IndInv, TypeOK
<1>4. ReaderBounded'
  <2>1. \A j \in DOMAIN plan : plan[j] \in (0..(Used - 1)) \X (0..(Used - 1))
    OBVIOUS
  <2>2. \A j \in DOMAIN plan : plan[j][1] < Used /\ plan[j][2] < Used
    BY SMTT(60), <2>1, <1>1
  <2> QED BY <2>2, <1>1 DEF ReaderBounded
<1>5. UsedIsExact' /\ WriterBounded' /\ CopiedIntact' /\ StoredIntact' /\ FramesIntact'
  BY Zenon, <1>1 DEF IndInv, UsedIsExact, WriterBounded, CopiedIntact, StoredIntact, FramesIntact
<1> QED BY Zenon, <1>3, <1>4, <1>5 DEF IndInv

LEMMA ReadLoadInv ==
  ASSUME IndInv, NEW frames \in 1..MaxBlock, ReadLoad(frames)
  PROVE  IndInv'
<1> DEFINE count == Least(frames, Used)  plan == [j \in 1..count |-> <<j - 1, j - 1>>]
<1>1. Used \in 0..Capacity /\ readFraction \in 0..(Unit - 1)
  BY Zenon, WriteIndex DEF IndInv, TypeOK, UsedIsExact
<1>2. count \in 0..Used /\ count \in Nat
  BY <1>1 DEF Least
<1>3. plan \in Seq((0..(Used - 1)) \X (0..(Used - 1)))
  BY SMTT(60), <1>1, <1>2
<1>4. /\ reader' = [pc |-> "copyPlain", count |-> count, fraction |-> readFraction, plan |-> plan]
      /\ UNCHANGED <<writeFrame, readFrame, samples, readFraction, writer, out, written, taken>>
  BY Zenon DEF ReadLoad, Used
<1> QED BY Zenon, <1>1, <1>2, <1>3, <1>4, ReaderLoadInv

LEMMA ResampleLoadInv ==
  ASSUME IndInv, NEW frames \in 1..MaxBlock, NEW step \in Nat, ResampleLoad(frames, step)
  PROVE  IndInv'
<1>1. Used \in 0..Capacity /\ Available = Used
  BY Zenon, WriteIndex DEF IndInv, TypeOK, UsedIsExact, Available, Least, Used
<1>2. PICK produced \in 0..frames :
        /\ Produces(produced, frames, step)
        /\ reader' = [pc |-> "copyResampled",
                      count |-> Least(Phase(step, produced) \div Unit, Available),
                      fraction |-> Phase(step, produced) % Unit,
                      plan |-> [j \in 1..produced |->
                                  <<FirstOffset(step, j - 1), SecondOffset(step, j - 1)>>]]
  BY Zenon DEF ResampleLoad
<1>3. UNCHANGED <<writeFrame, readFrame, samples, readFraction, writer, out, written, taken>>
  BY Zenon DEF ResampleLoad
<1> DEFINE count == Least(Phase(step, produced) \div Unit, Available)
           fraction == Phase(step, produced) % Unit
           plan == [j \in 1..produced |->
                      <<FirstOffset(step, j - 1), SecondOffset(step, j - 1)>>]
<1>4. Phase(step, produced) \div Unit \in Nat /\ fraction \in 0..(Unit - 1)
  <2>1. produced \in Nat
    BY <1>2
  <2> QED BY Zenon, <2>1, PhaseTypes DEF IndInv
<1>5. count \in 0..Used
  BY <1>1, <1>4 DEF Least
<1>6. plan \in Seq((0..(Used - 1)) \X (0..(Used - 1)))
  <2>1. ASSUME NEW j \in 1..produced
        PROVE  /\ FirstOffset(step, j - 1) \in 0..(Used - 1)
               /\ SecondOffset(step, j - 1) \in 0..(Used - 1)
    <3>1. j - 1 \in Nat /\ j - 1 \in 0..(produced - 1)
      OBVIOUS
    <3>2. FirstOffset(step, j - 1) \in Nat
      BY Zenon, <3>1, PhaseTypes DEF IndInv, FirstOffset
    <3>3. FirstOffset(step, j - 1) < Used
      BY Zenon, <3>1, <1>1, <1>2 DEF Produces
    <3> QED BY <3>2, <3>3, <1>1 DEF SecondOffset
  <2> QED BY <2>1
<1>7. reader' = [pc |-> "copyResampled", count |-> count, fraction |-> fraction, plan |-> plan]
  BY Zenon, <1>2
<1> HIDE DEF count, fraction, plan
<1> QED BY Zenon, <1>3, <1>4, <1>5, <1>6, <1>7, ReaderLoadInv

LEMMA AdvanceLoadInv ==
  ASSUME IndInv, NEW frames \in 1..MaxBlock, NEW step \in Nat, AdvanceLoad(frames, step)
  PROVE  IndInv'
<1>1. Used \in 0..Capacity /\ Available = Used
  BY Zenon, WriteIndex DEF IndInv, TypeOK, UsedIsExact, Available, Least, Used
<1> DEFINE count == Least(Phase(step, frames) \div Unit, Available)
           fraction == Phase(step, frames) % Unit
<1>2. Phase(step, frames) \div Unit \in Nat /\ fraction \in 0..(Unit - 1)
  BY PhaseTypes DEF IndInv
<1>3. count \in 0..Used
  BY <1>1, <1>2 DEF Least
<1>4. /\ reader' = [pc |-> "publish", count |-> count, fraction |-> fraction, plan |-> <<>>]
      /\ UNCHANGED <<writeFrame, readFrame, samples, readFraction, writer, out, written, taken>>
  BY Zenon DEF AdvanceLoad
<1>5. <<>> \in Seq((0..(Used - 1)) \X (0..(Used - 1)))
  OBVIOUS
<1> HIDE DEF count, fraction
<1> QED BY Zenon, <1>2, <1>3, <1>4, <1>5, ReaderLoadInv

LEMMA ReadCopyInv ==
  ASSUME IndInv, ReadCopy
  PROVE  IndInv'
<1> DEFINE plan == reader.plan
           promised == [j \in DOMAIN plan |-> <<taken + 1 + plan[j][1], taken + 1 + plan[j][2]>>]
<1>1. /\ reader.pc \in {"copyPlain", "copyResampled"}
      /\ reader' = [reader EXCEPT !.pc = "publish"]
      /\ UNCHANGED <<writeFrame, readFrame, samples, readFraction, writer, written, taken>>
  BY Zenon DEF ReadCopy
<1>2. Used \in 0..Capacity /\ Used' = Used /\ readFrame \in Index /\ taken \in Nat
  BY <1>1, WriteIndex DEF IndInv, TypeOK, UsedIsExact, Used
<1>3. plan \in Seq(Slots \X Slots) /\ out \in Seq(Nat \X Nat)
  BY Zenon DEF IndInv, TypeOK
<1>4. \A j \in DOMAIN plan : plan[j][1] \in 0..(Used - 1) /\ plan[j][2] \in 0..(Used - 1)
  <2>1. \A j \in DOMAIN plan : plan[j][1] \in Nat /\ plan[j][2] \in Nat
    BY SMTT(60), <1>3 DEF Slots
  <2> QED BY <2>1, <1>1, <1>2 DEF IndInv, ReaderBounded
\* Both slot computations find the frame at that position of the stream.
<1>5. ASSUME NEW u \in 0..(Used - 1)
      PROVE  /\ samples[PieceSlot(readFrame, u)] = taken + 1 + u
             /\ samples[ModSlot(readFrame, u)] = taken + 1 + u
  <2>1. samples[PieceSlot(readFrame, u)] = taken + 1 + u
    BY Zenon DEF IndInv, StoredIntact
  <2>2. u \in 0..Capacity
    BY <1>2, RingAssumption
  <2>3. ModSlot(readFrame, u) = PieceSlot(readFrame, u)
    BY Zenon, <2>2, <1>2, SlotAdd DEF ModSlot
  <2> QED BY Zenon, <2>1, <2>3
<1>6. plan # <<>> => out' = promised
  <2>1. CASE reader.pc = "copyPlain"
    BY Zenon, <2>1, <1>4, <1>5 DEF ReadCopy, Deliver
  <2>2. CASE reader.pc = "copyResampled"
    BY Zenon, <2>2, <1>4, <1>5 DEF ReadCopy, Deliver
  <2> QED BY Zenon, <2>1, <2>2, <1>1
<1>7. plan = <<>> => out' = out
  BY Zenon DEF ReadCopy, Deliver
<1>8. promised \in Seq(Nat \X Nat)
  <2>1. DOMAIN plan = 1..Len(plan) /\ Len(plan) \in Nat
    BY <1>3
  <2>2. \A j \in DOMAIN plan : taken + 1 + plan[j][1] \in Nat /\ taken + 1 + plan[j][2] \in Nat
    BY <1>2, <1>4
  <2> HIDE DEF plan
  <2> QED BY <2>1, <2>2
<1>9. TypeOK'
  <2>1. out' \in Seq(Nat \X Nat)
    BY Zenon, <1>3, <1>6, <1>7, <1>8
  <2> QED BY Zenon, <2>1, <1>1 DEF IndInv, TypeOK
<1>10. FramesIntact'
  BY Zenon, <1>1, <1>6 DEF FramesIntact, IndInv, TypeOK
<1>11. ReaderBounded'
  BY Zenon, <1>1, <1>2 DEF ReaderBounded, IndInv, TypeOK
<1>12. UsedIsExact' /\ WriterBounded' /\ CopiedIntact' /\ StoredIntact'
  BY Zenon, <1>1, <1>2 DEF IndInv, UsedIsExact, WriterBounded, CopiedIntact, StoredIntact
<1> QED BY Zenon, <1>9, <1>10, <1>11, <1>12 DEF IndInv

LEMMA ReadPublishInv ==
  ASSUME IndInv, ReadPublish
  PROVE  IndInv'
<1>1. /\ reader.pc = "publish" /\ readFrame' = Add(readFrame, reader.count)
      /\ readFraction' = reader.fraction /\ taken' = taken + reader.count
      /\ reader' = IdleReader
      /\ UNCHANGED <<writeFrame, samples, writer, out, written>>
  BY Zenon DEF ReadPublish
<1>2. /\ Used \in 0..Capacity /\ Used = written - taken
      /\ readFrame \in Index /\ writeFrame \in Index
  BY Zenon, WriteIndex DEF IndInv, TypeOK, UsedIsExact
<1>3. /\ reader.count \in 0..Used /\ reader.fraction \in 0..(Unit - 1)
      /\ written \in 0..MaxWritten /\ taken \in 0..MaxWritten
  BY <1>1, <1>2 DEF IndInv, TypeOK, ReaderBounded
<1>4. Used' = Used - reader.count /\ readFrame' \in Index
  <2>1. reader.count \in Nat /\ reader.count <= Sub(writeFrame, readFrame)
    BY <1>2, <1>3 DEF Used
  <2> QED BY Zenon, <2>1, <1>1, <1>2, SubAdd DEF Used
<1>5. TypeOK'
  <2>1. /\ 0 \in 0..Capacity /\ 0 \in 0..(Unit - 1)
        /\ (taken + reader.count) \in 0..MaxWritten
    BY <1>2, <1>3, RingAssumption
  <2>2. <<>> \in Seq(Slots \X Slots)
    OBVIOUS
  <2>3. reader' \in [pc : {"idle", "copyPlain", "copyResampled", "publish"},
                     count : 0..Capacity, fraction : 0..(Unit - 1),
                     plan : Seq(Slots \X Slots)]
    BY Zenon, <1>1, <2>1, <2>2 DEF IdleReader
  <2>4. taken' \in 0..MaxWritten
    BY Zenon, <1>1, <2>1
  <2> QED BY Zenon, <1>1, <1>3, <1>4, <2>3, <2>4 DEF IndInv, TypeOK
<1>6. StoredIntact'
  <2> SUFFICES ASSUME NEW u \in 0..(Used - reader.count - 1)
               PROVE  samples[PieceSlot(readFrame', u)] = taken' + 1 + u
    BY Zenon, <1>1, <1>2, <1>3, <1>4 DEF StoredIntact
  <2>1. /\ reader.count + u \in 0..(Used - 1) /\ u \in Slots
        /\ reader.count \in 0..Capacity /\ reader.count + u < Capacity
    BY <1>2, <1>3, RingAssumption DEF Slots
  <2>2. samples[PieceSlot(readFrame, reader.count + u)] = taken + 1 + (reader.count + u)
    BY Zenon, <2>1 DEF IndInv, StoredIntact
  <2>3. PieceSlot(readFrame', u) = PieceSlot(readFrame, reader.count + u)
    BY Zenon, <2>1, <1>1, <1>2, SlotShift
  <2> QED BY <2>1, <2>2, <2>3, <1>1, <1>3
<1>7. WriterBounded'
  <2>1. writer.count \in Nat
    BY DEF IndInv, TypeOK
  <2>2. Used' <= Used /\ Used' \in Nat
    BY <1>2, <1>3, <1>4
  <2>3. writer.pc # "idle" => Used + writer.count <= Capacity /\ written + writer.count <= MaxWritten
    BY Zenon DEF IndInv, WriterBounded
  <2> QED BY <2>1, <2>2, <2>3, <1>1, <1>2, RingAssumption DEF WriterBounded
<1>8. UsedIsExact'
  BY <1>1, <1>2, <1>3, <1>4, RingAssumption DEF UsedIsExact
<1>9. CopiedIntact' /\ ReaderBounded' /\ FramesIntact'
  BY Zenon, <1>1 DEF IndInv, CopiedIntact, ReaderBounded, FramesIntact, IdleReader
<1> QED BY Zenon, <1>5, <1>6, <1>7, <1>8, <1>9 DEF IndInv
-----------------------------------------------------------------------------
\* A clamped step is one of the given ones or one frame per frame.
LEMMA StepType ==
  ASSUME NEW step \in Steps
  PROVE  ClampedStep(step) \in Nat
BY Zenon, RingAssumption DEF ClampedStep

LEMMA NextInv == IndInv /\ [Next]_vars => IndInv'
<1> SUFFICES ASSUME IndInv, [Next]_vars PROVE IndInv'
  BY Zenon
<1>1. ASSUME NEW frames \in 1..MaxBlock, WriteLoad(frames) PROVE IndInv'
  BY Zenon, <1>1, WriteLoadInv
<1>2. CASE WriteCopy
  BY Zenon, <1>2, WriteCopyInv
<1>3. CASE WritePublish
  BY Zenon, <1>3, WritePublishInv
<1>4. ASSUME NEW frames \in 1..MaxBlock, ReadLoad(frames) PROVE IndInv'
  BY Zenon, <1>4, ReadLoadInv
<1>5. ASSUME NEW frames \in 1..MaxBlock, NEW step \in Steps,
             ResampleLoad(frames, ClampedStep(step)) PROVE IndInv'
  BY Zenon, <1>5, StepType, ResampleLoadInv
<1>6. ASSUME NEW frames \in 1..MaxBlock, NEW step \in Steps,
             AdvanceLoad(frames, ClampedStep(step)) PROVE IndInv'
  BY Zenon, <1>6, StepType, AdvanceLoadInv
<1>7. CASE ReadCopy
  BY Zenon, <1>7, ReadCopyInv
<1>8. CASE ReadPublish
  BY Zenon, <1>8, ReadPublishInv
<1>9. CASE UNCHANGED vars
  BY ZenonT(90), <1>9 DEF vars, IndInv, TypeOK, UsedIsExact, WriterBounded, CopiedIntact, StoredIntact,
     ReaderBounded, FramesIntact, Used
<1> QED BY Zenon, <1>1, <1>2, <1>3, <1>4, <1>5, <1>6, <1>7, <1>8, <1>9 DEF Next

\* The strengthened invariant holds for every capacity that divides the index
\* range, however the producer's and the consumer's calls interleave.
THEOREM RingInductive == Spec => []IndInv
BY InitInv, NextInv, PTL DEF Spec

\* The indices stay in the unsigned range and the reader's plan in the storage
\* (AudioOutputRing::write, read, readResampled, advanceResampled).
THEOREM RingTypeOK == Spec => []TypeOK
<1>1. IndInv => TypeOK
  BY Zenon DEF IndInv
<1> QED BY <1>1, RingInductive, PTL

\* writeFrame - readFrame in unsigned arithmetic is the number of stored frames
\* and never exceeds the capacity, wrapping included.
THEOREM RingUsedIsExact == Spec => []UsedIsExact
<1>1. IndInv => UsedIsExact
  BY Zenon DEF IndInv
<1> QED BY <1>1, RingInductive, PTL

\* The producer's copy never touches a slot the consumer may be reading.
THEOREM RingCopiesDisjoint == Spec => []CopiesDisjoint
<1>1. IndInv => CopiesDisjoint
  <2> SUFFICES ASSUME IndInv, writer.pc # "idle", NEW k \in 0..(writer.count - 1),
                      NEW u \in 0..(Used - 1)
               PROVE  PieceSlot(writeFrame, k) # PieceSlot(readFrame, u)
    BY Zenon DEF CopiesDisjoint
  <2>1. Used \in 0..Capacity /\ writeFrame = Add(readFrame, Used) /\ readFrame \in Index
    BY Zenon, WriteIndex DEF IndInv, TypeOK, UsedIsExact
  <2>2. writer.count \in Nat /\ Used + writer.count <= Capacity
    BY DEF IndInv, TypeOK, WriterBounded
  <2>3. k \in Slots /\ u \in Slots /\ Used + k \in Slots /\ Used + k < Capacity /\ Used + k # u
    BY <2>1, <2>2, RingAssumption DEF Slots
  <2>4. PieceSlot(writeFrame, k) = PieceSlot(readFrame, Used + k)
    BY Zenon, <2>1, <2>3, SlotShift
  <2> QED BY Zenon, <2>1, <2>3, <2>4, SlotInjective
<1> QED BY <1>1, RingInductive, PTL

\* Every frame handed to the consumer is the frame accepted at that position of
\* the stream, under every interleaving of the two threads.
THEOREM RingFramesIntact == Spec => []FramesIntact
<1>1. IndInv => FramesIntact
  BY Zenon DEF IndInv
<1> QED BY <1>1, RingInductive, PTL
-----------------------------------------------------------------------------
(* The refinement: the invariant determines what lies between the indices. *)

\* The frames accepted and not released, by their positions in the stream.
Positions(from, to) == [k \in 1..(to - from) |-> from + k]

\* The stored frames are the positions between taken and written.
LEMMA QueueIsPositions ==
  IndInv => /\ StoredQueue = Positions(taken, written)
            /\ taken \in Nat /\ written \in Nat
            /\ written - taken \in 0..Capacity
<1> SUFFICES ASSUME IndInv
             PROVE  /\ StoredQueue = Positions(taken, written)
                    /\ taken \in Nat /\ written \in Nat
                    /\ written - taken \in 0..Capacity
  BY Zenon
<1>1. taken \in Nat /\ written \in Nat /\ Used = written - taken /\ Used \in 0..Capacity
  BY WriteIndex DEF IndInv, TypeOK, UsedIsExact
<1>2. ASSUME NEW k \in 1..Used PROVE samples[PieceSlot(readFrame, k - 1)] = taken + k
  <2>1. k - 1 \in 0..(Used - 1) /\ taken + 1 + (k - 1) = taken + k
    BY <1>1
  <2> QED BY Zenon, <2>1 DEF IndInv, StoredIntact
<1>3. StoredQueue = Positions(taken, written)
  BY Zenon, <1>1, <1>2 DEF StoredQueue, Positions
<1> QED BY Zenon, <1>1, <1>3

\* What a concatenation is, and when two sequences are the same.
LEMMA Concatenation ==
  ASSUME NEW S, NEW s \in Seq(S), NEW t \in Seq(S)
  PROVE  /\ s \o t \in Seq(S) /\ Len(s \o t) = Len(s) + Len(t)
         /\ \A i \in 1..(Len(s) + Len(t)) : (s \o t)[i] = IF i <= Len(s) THEN s[i] ELSE t[i - Len(s)]
OBVIOUS

LEMMA SameSequence ==
  ASSUME NEW S, NEW s \in Seq(S), NEW t \in Seq(S), Len(s) = Len(t), \A i \in 1..Len(s) : s[i] = t[i]
  PROVE  s = t
OBVIOUS

\* Accepting n frames appends the next n positions.
LEMMA PositionsAppend ==
  ASSUME NEW from \in Nat, NEW to \in Nat, NEW n \in Nat, from <= to
  PROVE  /\ Len(Positions(from, to)) = to - from
         /\ Positions(from, to + n) = Positions(from, to) \o [i \in 1..n |-> to + 1 + i - 1]
<1> DEFINE old == Positions(from, to)  block == [i \in 1..n |-> to + 1 + i - 1]
<1>1. /\ old \in Seq(Nat) /\ Len(old) = to - from
      /\ \A k \in 1..(to - from) : old[k] = from + k
  BY DEF Positions
<1>2. /\ block \in Seq(Nat) /\ Len(block) = n
      /\ \A i \in 1..n : block[i] = to + i
  OBVIOUS
<1> HIDE DEF old, block
<1>3. Positions(from, to + n) \in Seq(Nat) /\ Len(Positions(from, to + n)) = to - from + n
  BY DEF Positions
<1>4. old \o block \in Seq(Nat) /\ Len(old \o block) = to - from + n
  <2>1. old \o block \in Seq(Nat) /\ Len(old \o block) = Len(old) + Len(block)
    BY <1>1, <1>2, Concatenation, Zenon
  <2> QED BY Zenon, <1>1, <1>2, <2>1
<1>5. ASSUME NEW k \in 1..(to - from + n) PROVE (old \o block)[k] = from + k
  <2>1. CASE k <= to - from
    BY SMTT(60), <1>1, <1>2, <2>1, Concatenation
  <2>2. CASE k > to - from
    <3>1. (old \o block)[k] = block[k - (to - from)]
      BY SMTT(60), <1>1, <1>2, <2>2, Concatenation
    <3>2. k - (to - from) \in 1..n /\ to + (k - (to - from)) = from + k
      BY <2>2
    <3>3. block[k - (to - from)] = to + (k - (to - from))
      BY Zenon, <1>2, <3>2
    <3> QED BY Zenon, <3>1, <3>2, <3>3
  <2>3. k <= to - from \/ k > to - from
    OBVIOUS
  <2> QED BY <2>1, <2>2, <2>3, Zenon
<1>6. ASSUME NEW k \in 1..(to - from + n) PROVE Positions(from, to + n)[k] = from + k
  BY DEF Positions
<1>7. Positions(from, to + n) = old \o block
  BY Zenon, <1>3, <1>4, <1>5, <1>6, SameSequence
<1> QED BY Zenon, <1>1, <1>7 DEF old, block

\* Releasing n frames drops the first n positions.
LEMMA PositionsDrop ==
  ASSUME NEW from \in Nat, NEW to \in Nat, NEW n \in Nat, from + n <= to
  PROVE  /\ Len(Positions(from, to)) = to - from
         /\ Positions(from + n, to) = SubSeq(Positions(from, to), n + 1, to - from)
<1>1. Positions(from, to) \in Seq(Nat) /\ Len(Positions(from, to)) = to - from
  BY DEF Positions
<1> QED BY <1>1 DEF Positions

\* The detailed ring, with its calls split at their atomic accesses, implements the
\* bounded queue of FrameFIFO: storing the write index is the moment a block enters,
\* storing the read index the moment frames leave, and no other step of either
\* thread is visible (AudioOutputRing::write, read, readResampled, advanceResampled).
THEOREM RingImplementsFifo == Spec => ImplementsFifo
<1>1. Init => Fifo!FifoInit
  <2> SUFFICES ASSUME Init PROVE Fifo!FifoInit
    BY Zenon
  <2>1. StoredQueue = Positions(0, 0) /\ written = 0
    BY Zenon, InitInv, QueueIsPositions DEF Init
  <2>2. Positions(0, 0) = <<>>
    BY DEF Positions
  <2> QED BY <2>1, <2>2 DEF Fifo!FifoInit
<1>2. IndInv /\ IndInv' /\ [Next]_vars => [Fifo!FifoNext]_(Fifo!fifoVars)
  <2> SUFFICES ASSUME IndInv, IndInv', [Next]_vars
               PROVE  [Fifo!FifoNext]_(Fifo!fifoVars)
    BY Zenon
  <2>1. /\ StoredQueue = Positions(taken, written) /\ taken \in Nat /\ written \in Nat
        /\ written - taken \in 0..Capacity
    BY Zenon, QueueIsPositions
  <2>2. /\ StoredQueue' = Positions(taken', written') /\ taken' \in Nat /\ written' \in Nat
        /\ written' - taken' \in 0..Capacity
    <3>1. (/\ StoredQueue = Positions(taken, written)
           /\ taken \in Nat /\ written \in Nat
           /\ written - taken \in 0..Capacity)'
      BY QueueIsPositions, PTL
    <3> QED BY Zenon, <3>1 DEF Positions
  <2>3. ASSUME UNCHANGED <<written, taken>> PROVE [Fifo!FifoNext]_(Fifo!fifoVars)
    BY Zenon, <2>1, <2>2, <2>3 DEF Fifo!fifoVars
  <2>4. ASSUME NEW n \in 1..Capacity, written' = written + n, taken' = taken
        PROVE  Fifo!FifoNext
    <3>1. taken <= written /\ n \in Nat
      BY <2>1
    <3>2. /\ Len(StoredQueue) = written - taken
          /\ StoredQueue' = StoredQueue \o [i \in 1..n |-> written + 1 + i - 1]
      BY ZenonT(90), <2>1, <2>2, <2>4, <3>1, PositionsAppend
    <3>3. Len(StoredQueue) + n <= Capacity /\ (written + 1)' = written + 1 + n
      BY <2>1, <2>2, <2>4, <3>2
    <3>4. Fifo!Put(n)
      BY Zenon, <3>2, <3>3 DEF Fifo!Put, Fifo!Block
    <3> QED BY Zenon, <3>4 DEF Fifo!FifoNext
  <2>5. ASSUME NEW n \in 1..Capacity, taken' = taken + n, written' = written
        PROVE  Fifo!FifoNext
    <3>1. taken + n <= written /\ n \in Nat
      BY <2>1, <2>2, <2>5
    <3>2. /\ Len(Positions(taken, written)) = written - taken
          /\ Positions(taken + n, written)
             = SubSeq(Positions(taken, written), n + 1, written - taken)
      BY Zenon, <2>1, <3>1, PositionsDrop
    <3>3. /\ Len(StoredQueue) = written - taken /\ n <= written - taken
          /\ StoredQueue' = SubSeq(StoredQueue, n + 1, written - taken)
      BY <2>1, <2>2, <2>5, <3>1, <3>2
    <3>4. Fifo!Take(n)
      BY Zenon, <2>5, <3>3 DEF Fifo!Take
    <3> QED BY Zenon, <3>4 DEF Fifo!FifoNext
  <2>6. CASE WritePublish
    <3>1. writer.count \in 0..Capacity /\ written' = written + writer.count /\ taken' = taken
      BY Zenon, <2>6 DEF WritePublish, IndInv, TypeOK
    <3>2. CASE writer.count = 0
      BY <2>1, <2>3, <3>1, <3>2
    <3>3. CASE writer.count # 0
      <4>1. writer.count \in 1..Capacity
        BY <3>1, <3>3, RingAssumption
      <4> QED BY Zenon, <2>4, <3>1, <4>1
    <3> QED BY Zenon, <3>2, <3>3
  <2>7. CASE ReadPublish
    <3>1. reader.count \in 0..Capacity /\ taken' = taken + reader.count /\ written' = written
      BY Zenon, <2>7 DEF ReadPublish, IndInv, TypeOK
    <3>2. CASE reader.count = 0
      BY <2>1, <2>3, <3>1, <3>2
    <3>3. CASE reader.count # 0
      <4>1. reader.count \in 1..Capacity
        BY <3>1, <3>3, RingAssumption
      <4> QED BY Zenon, <2>5, <3>1, <4>1
    <3> QED BY Zenon, <3>2, <3>3
  <2>8. CASE ~WritePublish /\ ~ReadPublish
    <3>1. UNCHANGED <<written, taken>>
      BY Zenon, <2>8 DEF Next, vars, WriteLoad, WriteCopy, ReadLoad, ResampleLoad, AdvanceLoad, ReadCopy
    <3> QED BY Zenon, <2>3, <3>1
  <2> QED BY Zenon, <2>6, <2>7, <2>8
<1> QED BY <1>1, <1>2, RingInductive, PTL DEF Spec, ImplementsFifo, Fifo!FifoSpec

-----------------------------------------------------------------------------
(* The engines                                                             *)

\* A call that has begun asks for an accepted size at a clamped step.
LEMMA RequestTypes ==
  ASSUME RequestOK, request # NoRequest
  PROVE  /\ request.pc \in {"read", "skip"}
         /\ request.frames \in 1..MaxBlock
         /\ request.published \in Nat /\ request.published <= written
         /\ \E step \in Steps : request.step = ClampedStep(step)
BY Zenon DEF RequestOK

LEMMA ActiveRequest ==
  ASSUME request.pc \in {"read", "skip"}
  PROVE  request # NoRequest
BY DEF NoRequest

\* A decoded block has an accepted size (AudioInputDecoder::decode).
LEMMA DecodeType ==
  ASSUME NEW bytes \in 1..(MaxBlock * Stride), Decode(bytes) # 0
  PROVE  Decode(bytes) \in 1..MaxBlock
<1> DEFINE frames == bytes \div Stride
<1>1. bytes \in Nat /\ bytes % Stride = 0 /\ Decode(bytes) = frames /\ frames # 0
  BY EngineAssumption, RingAssumption DEF Decode
<1>2. frames \in Nat /\ bytes = Stride * frames + (bytes % Stride)
  BY <1>1, EngineAssumption
<1>3. Stride * frames <= Stride * MaxBlock
  BY <1>1, <1>2, EngineAssumption, RingAssumption
<1>4. frames <= MaxBlock
  BY <1>2, <1>3, EngineAssumption, RingAssumption
<1> QED BY <1>1, <1>2, <1>4, RingAssumption

\* Every step of an engine is one step of the ring, or leaves the ring alone.
LEMMA EngineStep ==
  ASSUME RequestOK, [EngineNext]_engineVars
  PROVE  [Next]_vars
<1>1. CASE writeMix
  BY Zenon, <1>1 DEF writeMix, Next
<1>2. CASE publishUSBBlock
  BY Zenon, <1>2, DecodeType DEF publishUSBBlock, Next
<1>3. CASE ProducerCopies
  BY Zenon, <1>3 DEF ProducerCopies, Next
<1>4. ASSUME NEW frames \in 1..MaxBlock, NEW step \in Steps,
             BuildPacket(frames, step) \/ readInput(frames, step)
      PROVE  UNCHANGED vars
  BY Zenon, <1>4 DEF BuildPacket, readInput
<1>5. CASE ReadRing
  <2>1. request # NoRequest
    BY Zenon, <1>5, ActiveRequest DEF ReadRing
  <2>2. PICK step \in Steps : request.step = ClampedStep(step)
    BY Zenon, <2>1, RequestTypes
  <2>3. request.frames \in 1..MaxBlock
    BY Zenon, <2>1, RequestTypes
  <2> QED BY Zenon, <1>5, <2>2, <2>3 DEF ReadRing, Next
<1>6. CASE SkipMissing
  <2>1. request # NoRequest
    BY Zenon, <1>6, ActiveRequest DEF SkipMissing
  <2>2. PICK step \in Steps : request.step = ClampedStep(step)
    BY Zenon, <2>1, RequestTypes
  <2>3. request.frames \in 1..MaxBlock
    BY Zenon, <2>1, RequestTypes
  <2> QED BY Zenon, <1>6, <2>2, <2>3 DEF SkipMissing, Next
<1>7. CASE ConsumerCopies
  BY Zenon, <1>7 DEF ConsumerCopies, Next
<1>8. CASE ConsumerReleases
  BY Zenon, <1>8 DEF ConsumerReleases, Next
<1>9. CASE UNCHANGED engineVars
  BY Zenon, <1>9 DEF engineVars
<1> QED BY Zenon, <1>1, <1>2, <1>3, <1>4, <1>5, <1>6, <1>7, <1>8, <1>9 DEF EngineNext

-----------------------------------------------------------------------------
(* The invariant of the engines                                            *)

\* The engines start with an empty ring and no call in progress.
LEMMA EngineInitInv == EngineInit => EngineInv
<1> SUFFICES ASSUME EngineInit PROVE EngineInv
  BY Zenon
<1>1. Init /\ request = NoRequest /\ reader.pc = "idle"
  BY Zenon DEF EngineInit, Init, IdleReader
<1>2. IndInv
  BY Zenon, <1>1, InitInv
<1>3. RequestOK /\ ReadOK
  BY Zenon, <1>1 DEF RequestOK, ReadOK
<1> QED BY Zenon, <1>2, <1>3 DEF EngineInv

\* Steps that leave the consumer's call and the reader alone, and only add to
\* what is published: all of the producer's.
LEMMA ProducerKeeps ==
  ASSUME EngineInv, written' \in Nat, written' >= written, UNCHANGED <<request, reader, taken>>
  PROVE  RequestOK' /\ ReadOK'
<1>1. written \in Nat
  BY RingAssumption DEF EngineInv, IndInv, TypeOK
<1>2. RequestOK /\ ReadOK
  BY Zenon DEF EngineInv
<1>3. request # NoRequest => request.published \in Nat /\ request.published <= written
  BY Zenon, <1>2, RequestTypes
<1>4. RequestOK'
  BY <1>1, <1>2, <1>3 DEF RequestOK
<1>5. ReadOK'
  BY Zenon, <1>2 DEF ReadOK, Missing
<1> QED BY Zenon, <1>4, <1>5

\* A new call: the reader is idle, so nothing has been promised yet.
LEMMA RequestKeeps ==
  ASSUME EngineInv, NEW frames \in 1..MaxBlock, NEW step \in Steps, request = NoRequest,
         request' = Request(frames, step), UNCHANGED vars
  PROVE  RequestOK' /\ ReadOK'
<1>1. written \in Nat
  BY RingAssumption DEF EngineInv, IndInv, TypeOK
<1>2. reader.pc = "idle" /\ reader' = reader /\ written' = written
  BY Zenon DEF EngineInv, RequestOK, vars
<1>3. request' \in [pc : {"read", "skip"}, frames : 1..MaxBlock,
                    step : {ClampedStep(s) : s \in Steps}, published : Nat]
  BY Zenon, <1>1 DEF Request
<1>4. request'.published = written /\ request' # NoRequest
  BY Zenon DEF Request, NoRequest
<1>5. RequestOK'
  BY <1>1, <1>2, <1>3, <1>4 DEF RequestOK
<1>6. ReadOK'
  BY Zenon, <1>2 DEF ReadOK
<1> QED BY Zenon, <1>5, <1>6

\* The load of AudioOutputRing::read: fewer frames than asked for are all there are.
LEMMA ReadLoadDry ==
  ASSUME IndInv, NEW frames \in 1..MaxBlock, ReadLoad(frames)
  PROVE  /\ Len(reader'.plan) \in Nat /\ Len(reader'.plan) <= frames
         /\ Len(reader'.plan) < frames => taken + reader'.count = written
<1> DEFINE count == Least(frames, Used)  plan == [j \in 1..count |-> <<j - 1, j - 1>>]
<1>1. Used \in Nat /\ Used = written - taken /\ written \in Nat /\ taken \in Nat
  BY WriteIndex, RingAssumption DEF IndInv, TypeOK, UsedIsExact
<1>2. count \in Nat /\ count <= frames /\ (count < frames => count = Used)
  BY <1>1 DEF Least
<1>3. reader'.count = count /\ reader'.plan = plan
  BY Zenon DEF ReadLoad, Used
<1>4. Len(plan) = count
  <2> HIDE DEF count
  <2> QED BY <1>2
<1> HIDE DEF count, plan
<1> QED BY <1>1, <1>2, <1>3, <1>4

\* The load of readResampled: the loop that ends early has reached a source frame
\* beyond the published ones, so that the release takes all of them.
LEMMA ResampleLoadDry ==
  ASSUME IndInv, NEW frames \in 1..MaxBlock, NEW step \in Nat, ResampleLoad(frames, step)
  PROVE  /\ Len(reader'.plan) \in Nat /\ Len(reader'.plan) <= frames
         /\ Len(reader'.plan) < frames => taken + reader'.count = written
<1>1. /\ Used \in 0..Capacity /\ Available = Used
      /\ Used = written - taken /\ written \in Nat /\ taken \in Nat
  BY WriteIndex, RingAssumption DEF IndInv, TypeOK, UsedIsExact, Available, Least, Used
<1>2. PICK produced \in 0..frames :
        /\ Produces(produced, frames, step)
        /\ reader' = [pc |-> "copyResampled",
                      count |-> Least(Phase(step, produced) \div Unit, Available),
                      fraction |-> Phase(step, produced) % Unit,
                      plan |-> [j \in 1..produced |->
                                  <<FirstOffset(step, j - 1), SecondOffset(step, j - 1)>>]]
  BY Zenon DEF ResampleLoad
<1>3. produced \in Nat /\ Phase(step, produced) \div Unit \in Nat
  <2>1. produced \in Nat
    BY <1>2
  <2> QED BY Zenon, <2>1, PhaseTypes DEF IndInv
<1>4. Len(reader'.plan) = produced
  BY <1>2, <1>3
<1>5. reader'.count = Least(Phase(step, produced) \div Unit, Used)
  BY ZenonT(40), <1>1, <1>2
<1>6. produced < frames => Phase(step, produced) \div Unit >= Used
  BY Zenon, <1>1, <1>2 DEF Produces, FirstOffset
<1> QED BY SMTT(60), <1>1, <1>2, <1>3, <1>4, <1>5, <1>6 DEF Least

\* The load of a read, in either form.
LEMMA ReadRingKeeps ==
  ASSUME EngineInv, ReadRing
  PROVE  RequestOK' /\ ReadOK'
<1>1. request # NoRequest /\ request' = request /\ request.pc = "read"
  BY Zenon, ActiveRequest DEF ReadRing
<1>2. IndInv /\ RequestOK /\ written' = written /\ taken' = taken
  BY Zenon DEF EngineInv, ReadRing, ReadLoad, ResampleLoad
<1>3. request.frames \in 1..MaxBlock /\ request.published \in Nat /\ request.published <= written
  BY Zenon, <1>1, <1>2, RequestTypes
<1>4. request.step \in Nat
  BY Zenon, <1>1, <1>2, RequestTypes, StepType
<1>5. /\ Len(reader'.plan) \in Nat /\ Len(reader'.plan) <= request.frames
      /\ Len(reader'.plan) < request.frames => taken + reader'.count = written
  BY Zenon, <1>2, <1>3, <1>4, ReadLoadDry, ResampleLoadDry DEF ReadRing
<1>6. RequestOK'
  BY Zenon, <1>1, <1>2 DEF RequestOK
<1>7. ReadOK'
  BY <1>1, <1>2, <1>3, <1>5 DEF ReadOK, Missing
<1> QED BY Zenon, <1>6, <1>7

\* The release: a packet that lacks frames goes on to skip them.
LEMMA ReleaseKeeps ==
  ASSUME EngineInv, ConsumerReleases
  PROVE  RequestOK' /\ ReadOK'
<1>1. /\ reader.pc = "publish" /\ reader'.pc = "idle" /\ written' = written
      /\ RequestOK /\ ReadOK /\ reader.plan \in Seq(Slots \X Slots)
  BY Zenon DEF ConsumerReleases, ReadPublish, IdleReader, EngineInv, IndInv, TypeOK
<1>2. ReadOK'
  BY Zenon, <1>1 DEF ReadOK
<1>3. CASE request' = NoRequest
  BY Zenon, <1>1, <1>2, <1>3 DEF RequestOK
<1>4. CASE /\ request.pc = "read" /\ Missing # 0
           /\ request' = [request EXCEPT !.pc = "skip", !.frames = Missing]
  <2>1. request # NoRequest
    BY Zenon, <1>4, ActiveRequest
  <2>2. request \in [pc : {"read", "skip"}, frames : 1..MaxBlock,
                     step : {ClampedStep(s) : s \in Steps}, published : Nat]
    BY Zenon, <1>1, <2>1 DEF RequestOK
  <2>3. Len(reader.plan) \in Nat /\ Len(reader.plan) <= request.frames
    BY <1>1, <1>4 DEF ReadOK
  <2>4. Missing \in 1..MaxBlock
    <3>1. request.frames \in 1..MaxBlock
      BY Zenon, <2>2
    <3>2. request.frames - Len(reader.plan) # 0
      BY Zenon, <1>4 DEF Missing
    <3> QED BY <3>1, <3>2, <2>3, RingAssumption DEF Missing
  <2>5. request' \in [pc : {"read", "skip"}, frames : 1..MaxBlock,
                      step : {ClampedStep(s) : s \in Steps}, published : Nat]
    BY Zenon, <1>4, <2>2, <2>4
  <2>6. request'.published = request.published /\ request'.pc = "skip"
    BY Zenon, <1>4, <2>2
  <2>7. request' # NoRequest /\ request.published <= written
    BY <1>1, <2>1, <2>6 DEF NoRequest, RequestOK
  <2> QED BY Zenon, <1>1, <1>2, <2>5, <2>6, <2>7 DEF RequestOK
<1> QED BY Zenon, <1>2, <1>3, <1>4 DEF ConsumerReleases

LEMMA EngineNextInv == EngineInv /\ [EngineNext]_engineVars => EngineInv'
<1> SUFFICES ASSUME EngineInv, [EngineNext]_engineVars PROVE EngineInv'
  BY Zenon
<1>1. IndInv'
  <2>1. IndInv /\ RequestOK
    BY Zenon DEF EngineInv
  <2> QED BY Zenon, <2>1, EngineStep, NextInv
<1>2. written \in Nat /\ written' \in Nat /\ writer.count \in Nat
  BY <1>1, RingAssumption DEF EngineInv, IndInv, TypeOK
<1>3. RequestOK' /\ ReadOK'
  <2>1. CASE writeMix \/ publishUSBBlock \/ ProducerCopies
    <3>1. UNCHANGED <<request, reader, taken>>
      BY Zenon, <2>1 DEF writeMix, publishUSBBlock, ProducerCopies, WriteLoad, WriteCopy, WritePublish
    <3>2. written' = written \/ written' = written + writer.count
      BY Zenon, <2>1 DEF writeMix, publishUSBBlock, ProducerCopies, WriteLoad, WriteCopy, WritePublish
    <3>3. written' >= written
      BY <3>2, <1>2
    <3> QED BY Zenon, <1>2, <3>1, <3>3, ProducerKeeps
  <2>2. ASSUME NEW frames \in 1..MaxBlock, NEW step \in Steps,
               BuildPacket(frames, step) \/ readInput(frames, step)
        PROVE  RequestOK' /\ ReadOK'
    BY Zenon, <2>2, RequestKeeps DEF BuildPacket, readInput
  <2>3. CASE ReadRing
    BY Zenon, <2>3, ReadRingKeeps
  <2>4. CASE SkipMissing
    <3>1. request.pc = "skip" /\ UNCHANGED <<request, written>> /\ RequestOK
      BY Zenon, <2>4 DEF SkipMissing, AdvanceLoad, EngineInv
    <3>2. request # NoRequest
      BY Zenon, <3>1, ActiveRequest
    <3> QED BY Zenon, <3>1, <3>2 DEF RequestOK, ReadOK
  <2>5. CASE ConsumerCopies
    <3>1. /\ UNCHANGED <<request, written, taken>> /\ reader.pc # "idle"
          /\ reader'.plan = reader.plan /\ reader'.count = reader.count
      BY Zenon, <2>5 DEF ConsumerCopies, ReadCopy, EngineInv, IndInv, TypeOK
    <3>2. RequestOK /\ ReadOK
      BY Zenon DEF EngineInv
    <3> QED BY Zenon, <3>1, <3>2 DEF RequestOK, ReadOK, Missing
  <2>6. CASE ConsumerReleases
    BY Zenon, <2>6, ReleaseKeeps
  <2>7. CASE UNCHANGED engineVars
    <3>1. UNCHANGED <<request, reader, taken, written>>
      BY Zenon, <2>7 DEF engineVars, vars
    <3> QED BY <1>2, <3>1, ProducerKeeps
  <2> QED BY Zenon, <2>1, <2>2, <2>3, <2>4, <2>5, <2>6, <2>7 DEF EngineNext
<1> QED BY Zenon, <1>1, <1>3 DEF EngineInv

\* The invariant of the ring and of the call in progress holds in both engines.
THEOREM EnginesInductive == EngineSpec => []EngineInv
BY EngineInitInv, EngineNextInv, PTL DEF EngineSpec

\* Both engines are users of the ring: every behaviour of playback and of capture
\* is a behaviour of AudioOutputRing, the blocks AudioInputDecoder::decode accepts
\* and the frames a short packet skips included.
THEOREM EnginesUseTheRing == EngineSpec => Spec
<1>1. EngineInit => Init
  BY Zenon DEF EngineInit
<1>2. EngineInv /\ [EngineNext]_engineVars => [Next]_vars
  BY Zenon, EngineStep DEF EngineInv
<1> QED BY <1>1, <1>2, EnginesInductive, PTL DEF EngineSpec, Spec

\* So what is proved of the ring holds while writeMix or publishUSBBlock fills it
\* and packets or readInput empty it: exact counts, copies that never meet, and
\* frames that arrive as they were accepted.
THEOREM EnginesFramesIntact == EngineSpec => [](UsedIsExact /\ CopiesDisjoint /\ FramesIntact)
BY EnginesUseTheRing, RingUsedIsExact, RingCopiesDisjoint, RingFramesIntact, PTL

\* And they use it as the queue it promises to be: what the host or the controller
\* puts in is all that comes out, in order, at the other end.
THEOREM EnginesImplementFifo == EngineSpec => ImplementsFifo
BY EnginesUseTheRing, RingImplementsFifo, PTL

\* Silence (AudioOutPacket::build) and a short block (readInput) stand for frames
\* that were not there: such a call releases all that was published when it began.
THEOREM EnginesSilenceOnlyWhenDry == EngineSpec => []SilenceOnlyWhenDry
<1>1. EngineInv => SilenceOnlyWhenDry
  BY Zenon DEF EngineInv, ReadOK, SilenceOnlyWhenDry
<1> QED BY <1>1, EnginesInductive, PTL

-----------------------------------------------------------------------------
(* The streams of the earlier driver                                       *)

\* A slot of a ring of N frames.
LEMMA SlotInRing ==
  ASSUME NEW N \in Nat \ {0}, NEW p \in Nat
  PROVE  p % N \in 0..(N - 1)
OBVIOUS

\* Positions less than a lap apart have different slots.
LEMMA SlotsDiffer ==
  ASSUME NEW N \in Nat \ {0}, NEW p \in Nat, NEW q \in Nat, p < q, q < p + N
  PROVE  p % N # q % N
<1>1. /\ p = N * (p \div N) + (p % N) /\ q = N * (q \div N) + (q % N)
      /\ p \div N \in Int /\ q \div N \in Int /\ p % N \in 0..(N - 1) /\ q % N \in 0..(N - 1)
  OBVIOUS
<1> SUFFICES ASSUME p % N = q % N PROVE FALSE
  BY Zenon
<1> DEFINE d == (q \div N) - (p \div N)
<1>2. q - p = N * d /\ d \in Int
  BY SMTT(60), <1>1
<1> HIDE DEF d
<1>3. d >= 1 \/ d <= 0
  BY <1>2
<1>4. CASE d >= 1
  <2>1. N * d >= N
    BY <1>2, <1>4
  <2> QED BY <1>2, <2>1
<1>5. CASE d <= 0
  <2>1. N * d <= 0
    BY <1>2, <1>5
  <2> QED BY <1>2, <2>1
<1> QED BY Zenon, <1>3, <1>4, <1>5

-----------------------------------------------------------------------------
(* NS6CaptureRing                                                          *)

CaptureTypeOK ==
  /\ captured \in [samples : [0..CaptureCapacity - 1 -> Nat], head : Nat, tail : Nat,
                   requested : BOOLEAN, begun : Nat]
  /\ decoder \in [at : {"idle", "copy", "publish"}, head : Nat, count : Nat, done : Nat]
  /\ input \in [at : {"idle", "skip", "clear", "load", "copy", "store"}, tail : Nat, count : Nat,
                frames : Nat, got : Seq(Nat)]

\* At most a lap between the reader and the writer.
WithinALap ==
  captured.tail <= captured.head /\ captured.head <= captured.tail + CaptureCapacity

\* The published frames are in their slots.
CapturedInPlace ==
  \A p \in Nat : captured.tail <= p /\ p < captured.head
                 => captured.samples[p % CaptureCapacity] = p

\* The worker's block fits whatever the reader has done since, and is there up to
\* the frame it has reached.
DecoderFits ==
  decoder.at # "idle" =>
    /\ decoder.head = captured.head /\ decoder.head + decoder.count <= captured.tail + CaptureCapacity
    /\ decoder.at = "copy" => decoder.done < decoder.count
    /\ decoder.at = "publish" => decoder.done = decoder.count
    /\ \A p \in Nat : decoder.head <= p /\ p < decoder.head + decoder.done
                      => captured.samples[p % CaptureCapacity] = p

\* What ReadInput has loaded is still the ring's, and what it copied is what was there.
InputFollows ==
  /\ input.at \in {"idle", "skip", "clear", "load"} => input.got = <<>>
  /\ input.at = "clear" => captured.tail <= input.tail /\ input.tail <= captured.head
  /\ input.at \in {"copy", "store"} =>
       /\ input.tail = captured.tail /\ input.tail + input.count <= captured.head
       /\ IF input.at = "copy" THEN Len(input.got) < input.count ELSE Len(input.got) = input.count
       /\ \A i \in 1..Len(input.got) : input.got[i] = input.tail + i - 1

\* After the first read of a request has skipped, tail is not before its begin.
NothingOlder ==
  /\ captured.begun <= captured.head
  /\ input.at = "clear" => captured.begun <= input.tail
  /\ input.at \notin {"skip", "clear"} => captured.begun <= captured.tail

CaptureInv ==
  /\ CaptureTypeOK /\ WithinALap /\ CapturedInPlace /\ DecoderFits /\ InputFollows /\ NothingOlder

LEMMA CaptureInitInv == CaptureInit => CaptureInv
<1> SUFFICES ASSUME CaptureInit PROVE CaptureInv
  BY Zenon
<1> USE CaptureAssumption
<1>1. Nothing \in Nat
  BY DEF Nothing
<1>2. CaptureTypeOK
  <2>1. captured \in [samples : [0..CaptureCapacity - 1 -> Nat], head : Nat, tail : Nat,
                      requested : BOOLEAN, begun : Nat]
    BY Zenon, <1>1 DEF CaptureInit
  <2> QED BY <2>1 DEF CaptureTypeOK, CaptureInit, IdleDecoder, IdleInput
<1> QED
  BY <1>2 DEF CaptureInit, CaptureInv, WithinALap, CapturedInPlace, DecoderFits, InputFollows,
     NothingOlder, IdleDecoder, IdleInput

\* The worker's copy touches no slot that is published or that it has already filled.
LEMMA WriteCopiesInv == CaptureInv /\ WriteCopies => CaptureInv'
<1> SUFFICES ASSUME CaptureInv, WriteCopies PROVE CaptureInv'
  BY Zenon
<1> USE CaptureAssumption
<1> DEFINE position == decoder.head + decoder.done
           slot == position % CaptureCapacity
<1>1. /\ decoder.at = "copy" /\ decoder.head = captured.head /\ decoder.done < decoder.count
      /\ decoder.head + decoder.count <= captured.tail + CaptureCapacity
      /\ captured.tail <= captured.head
      /\ {decoder.head, decoder.count, decoder.done, captured.tail, captured.head} \subseteq Nat
  BY DEF CaptureInv, WriteCopies, DecoderFits, CaptureTypeOK, WithinALap
<1>2. position \in Nat /\ slot \in 0..CaptureCapacity - 1
  <2>1. position \in Nat
    BY <1>1
  <2> HIDE DEF position
  <2> QED BY Zenon, <2>1, SlotInRing
<1> HIDE DEF slot
<1>3. /\ captured' = [captured EXCEPT !.samples[slot] = position] /\ input' = input
      /\ decoder' = [decoder EXCEPT !.done = @ + 1,
                       !.at = IF decoder.done + 1 = decoder.count THEN "publish" ELSE "copy"]
  BY Zenon DEF WriteCopies, slot
<1> HIDE DEF position
<1>4. /\ captured'.samples = [captured.samples EXCEPT ![slot] = position]
      /\ captured'.head = captured.head /\ captured'.tail = captured.tail
      /\ captured'.begun = captured.begun /\ captured'.requested = captured.requested
      /\ decoder'.head = decoder.head /\ decoder'.count = decoder.count
      /\ decoder'.done = decoder.done + 1
      /\ decoder'.at = IF decoder.done + 1 = decoder.count THEN "publish" ELSE "copy"
  BY Zenon, <1>2, <1>3 DEF CaptureInv, CaptureTypeOK
<1>5. ASSUME NEW p \in Nat, captured.tail <= p, p < position, captured.samples[p % CaptureCapacity] = p
      PROVE  captured'.samples[p % CaptureCapacity] = p
  <2>1. p % CaptureCapacity # slot
    <3>1. position < p + CaptureCapacity
      BY <1>1, <1>5 DEF position
    <3> QED BY Zenon, <1>2, <1>5, <3>1, SlotsDiffer DEF slot
  <2>2. p % CaptureCapacity \in 0..CaptureCapacity - 1
    BY Zenon, SlotInRing
  <2> QED BY Zenon, <1>4, <1>5, <2>1, <2>2 DEF CaptureInv, CaptureTypeOK
<1>6. captured'.samples[position % CaptureCapacity] = position
  BY Zenon, <1>2, <1>4 DEF CaptureInv, CaptureTypeOK, slot
<1>7. CaptureTypeOK'
  <2>1. captured' \in [samples : [0..CaptureCapacity - 1 -> Nat], head : Nat, tail : Nat,
                      requested : BOOLEAN, begun : Nat]
    BY Zenon, <1>2, <1>3 DEF CaptureInv, CaptureTypeOK
  <2>2. decoder' \in [at : {"idle", "copy", "publish"}, head : Nat, count : Nat, done : Nat]
    <3>1. /\ decoder \in [at : {"idle", "copy", "publish"}, head : Nat, count : Nat, done : Nat]
          /\ decoder.done + 1 \in Nat
      BY SMTT(60), <1>1 DEF CaptureInv, CaptureTypeOK
    <3>2. decoder' \in {[decoder EXCEPT !.done = decoder.done + 1, !.at = "publish"],
                        [decoder EXCEPT !.done = decoder.done + 1, !.at = "copy"]}
      BY Zenon, <1>3
    <3> QED BY Zenon, <3>1, <3>2
  <2> QED BY Zenon, <1>3, <2>1, <2>2 DEF CaptureInv, CaptureTypeOK
<1>8. CapturedInPlace'
  BY <1>1, <1>4, <1>5 DEF CaptureInv, CapturedInPlace, position
<1>9. DecoderFits'
  <2>1. ASSUME NEW p \in Nat, decoder.head <= p, p < decoder.head + decoder.done + 1
        PROVE  captured'.samples[p % CaptureCapacity] = p
    <3>1. CASE p = position
      BY Zenon, <1>6, <3>1
    <3>2. CASE p # position
      BY <1>1, <1>5, <2>1, <3>2 DEF CaptureInv, DecoderFits, position
    <3> QED BY Zenon, <3>1, <3>2
  <2> QED BY <1>1, <1>4, <2>1 DEF DecoderFits
<1> QED BY Zenon, <1>3, <1>4, <1>7, <1>8, <1>9 DEF CaptureInv, WithinALap, InputFollows, NothingOlder

\* Publishing adds the block to the frames in place.
LEMMA WritePublishesInv == CaptureInv /\ WritePublishes => CaptureInv'
<1> SUFFICES ASSUME CaptureInv, WritePublishes PROVE CaptureInv'
  BY Zenon
<1> USE CaptureAssumption DEF CaptureInv
<1>1. /\ captured' = [captured EXCEPT !.head = decoder.head + decoder.count]
      /\ decoder' = IdleDecoder /\ input' = input /\ decoder.at = "publish"
  BY Zenon DEF WritePublishes
<1>2. /\ decoder.done = decoder.count /\ decoder.head = captured.head
      /\ decoder.head + decoder.count <= captured.tail + CaptureCapacity
      /\ {decoder.head, decoder.count, captured.tail, captured.head, captured.begun} \subseteq Nat
  BY <1>1 DEF DecoderFits, CaptureTypeOK
<1>3. /\ captured'.samples = captured.samples /\ captured'.tail = captured.tail
      /\ captured'.begun = captured.begun /\ captured'.head = captured.head + decoder.count
  BY Zenon, <1>1, <1>2 DEF CaptureTypeOK
<1>4. CaptureTypeOK'
  <2>1. captured' \in [samples : [0..CaptureCapacity - 1 -> Nat], head : Nat, tail : Nat,
                      requested : BOOLEAN, begun : Nat]
    <3>1. decoder.head + decoder.count \in Nat
      BY <1>2
    <3> QED BY Zenon, <1>1, <3>1 DEF CaptureTypeOK
  <2> QED BY Zenon, <1>1, <2>1 DEF CaptureTypeOK, IdleDecoder
<1>5. CapturedInPlace'
  BY <1>1, <1>2, <1>3 DEF CapturedInPlace, DecoderFits
<1>6. WithinALap' /\ DecoderFits'
  BY <1>1, <1>2, <1>3 DEF WithinALap, DecoderFits, IdleDecoder
<1>7. InputFollows' /\ NothingOlder'
  BY SMTT(60), <1>1, <1>2, <1>3 DEF InputFollows, NothingOlder, CaptureTypeOK
<1> QED BY Zenon, <1>4, <1>5, <1>6, <1>7

\* The block is cut to the room the worker found.
LEMMA WriteBeginsInv ==
  ASSUME CaptureInv, NEW frames \in CaptureBlocks, WriteBegins(frames)
  PROVE  CaptureInv'
<1> USE CaptureAssumption DEF CaptureInv
<1> DEFINE room == CaptureCapacity - (captured.head - captured.tail)
           count == IF frames > room THEN room ELSE frames
<1>1. /\ decoder' = [at |-> "copy", head |-> captured.head, count |-> count, done |-> 0]
      /\ captured' = captured /\ input' = input /\ captured.head - captured.tail < CaptureCapacity
  BY Zenon DEF WriteBegins
<1>2. {captured.head, captured.tail} \subseteq Nat /\ captured.tail <= captured.head
  BY Zenon DEF CaptureTypeOK, WithinALap
<1>3. count \in Nat /\ 0 < count /\ captured.head + count <= captured.tail + CaptureCapacity
  BY <1>1, <1>2
<1> HIDE DEF count
<1>4. CaptureTypeOK'
  BY Zenon, <1>1, <1>2, <1>3 DEF CaptureTypeOK
<1>5. DecoderFits'
  BY <1>1, <1>2, <1>3 DEF DecoderFits
<1> QED BY Zenon, <1>1, <1>4, <1>5 DEF WithinALap, CapturedInPlace, InputFollows, NothingOlder

LEMMA RequestEndsInv == CaptureInv /\ RequestEnds => CaptureInv'
<1> SUFFICES ASSUME CaptureInv, RequestEnds PROVE CaptureInv'
  BY Zenon
<1>1. captured' = [captured EXCEPT !.requested = FALSE] /\ UNCHANGED <<decoder, input>>
  BY Zenon DEF RequestEnds
<1>2. CaptureTypeOK'
  BY Zenon, <1>1 DEF CaptureInv, CaptureTypeOK
<1> QED BY ZenonT(90), <1>1, <1>2 DEF CaptureInv, CaptureTypeOK, WithinALap, CapturedInPlace, DecoderFits,
   InputFollows, NothingOlder

\* A request that begins moves begun to head, and its read skips first.
LEMMA InputBeginsInv ==
  ASSUME CaptureInv, NEW frames \in ReadSizes, InputBegins(frames)
  PROVE  CaptureInv'
<1> USE CaptureAssumption DEF CaptureInv
<1>1. /\ input.at = "idle" /\ decoder' = decoder
      /\ input' = [at |-> IF captured.requested THEN "load" ELSE "skip", tail |-> 0, count |-> 0,
                   frames |-> frames, got |-> <<>>]
  BY Zenon DEF InputBegins, IdleInput
<1>2. input' \in [at : {"idle", "skip", "clear", "load", "copy", "store"}, tail : Nat, count : Nat,
                  frames : Nat, got : Seq(Nat)]
  BY <1>1
<1>3. CASE captured.requested
  <2>1. captured' = captured
    BY Zenon, <1>3 DEF InputBegins
  <2> QED BY Zenon, <1>1, <1>2, <1>3, <2>1 DEF CaptureTypeOK, WithinALap, CapturedInPlace, DecoderFits,
     InputFollows, NothingOlder
<1>4. CASE ~captured.requested
  <2>1. captured' = [captured EXCEPT !.requested = TRUE, !.begun = captured.head]
    BY Zenon, <1>4 DEF InputBegins
  <2>2. captured.head \in Nat
    BY Zenon DEF CaptureTypeOK
  <2>3. captured' \in [samples : [0..CaptureCapacity - 1 -> Nat], head : Nat, tail : Nat,
                       requested : BOOLEAN, begun : Nat]
    BY Zenon, <2>1, <2>2 DEF CaptureTypeOK
  <2>4. /\ captured'.samples = captured.samples /\ captured'.tail = captured.tail
        /\ captured'.head = captured.head /\ captured'.begun = captured.head
    BY Zenon, <2>1 DEF CaptureTypeOK
  <2>5. CaptureTypeOK'
    BY Zenon, <1>1, <1>2, <2>3 DEF CaptureTypeOK
  <2>6. WithinALap' /\ CapturedInPlace' /\ DecoderFits'
    BY Zenon, <1>1, <2>4 DEF WithinALap, CapturedInPlace, DecoderFits
  <2>7. input'.at = "skip" /\ input'.got = <<>> /\ captured.head <= captured.head
    BY <1>1, <1>4, <2>2
  <2>8. InputFollows' /\ NothingOlder'
    BY Zenon, <2>4, <2>7 DEF InputFollows, NothingOlder
  <2> QED BY Zenon, <2>5, <2>6, <2>8
<1> QED BY Zenon, <1>3, <1>4

LEMMA SkipLoadsInv == CaptureInv /\ SkipLoads => CaptureInv'
<1> SUFFICES ASSUME CaptureInv, SkipLoads PROVE CaptureInv'
  BY Zenon
<1> USE DEF CaptureInv
<1>1. /\ input' = [input EXCEPT !.at = "clear", !.tail = captured.head] /\ input.at = "skip"
      /\ UNCHANGED <<captured, decoder>>
  BY Zenon DEF SkipLoads
<1>2. captured.head \in Nat
  BY Zenon DEF CaptureTypeOK
<1>3. CaptureTypeOK'
  BY Zenon, <1>1, <1>2 DEF CaptureTypeOK
<1> QED BY SMTT(60), <1>1, <1>2, <1>3 DEF CaptureTypeOK, WithinALap, CapturedInPlace, DecoderFits, InputFollows,
   NothingOlder

\* Only the reader moves tail, so what it loaded is not behind it; the worker's room
\* can only have grown.
LEMMA SkipStoresInv == CaptureInv /\ SkipStores => CaptureInv'
<1> SUFFICES ASSUME CaptureInv, SkipStores PROVE CaptureInv'
  BY Zenon
<1> USE CaptureAssumption DEF CaptureInv
<1>1. /\ captured' = [captured EXCEPT !.tail = input.tail] /\ input.at = "clear"
      /\ input' = [input EXCEPT !.at = "load"] /\ decoder' = decoder
  BY Zenon DEF SkipStores
<1>2. /\ input.tail \in Nat /\ captured.tail \in Nat /\ captured.head \in Nat /\ captured.begun \in Nat
      /\ captured.tail <= input.tail /\ input.tail <= captured.head /\ captured.begun <= input.tail
  BY Zenon, <1>1 DEF CaptureTypeOK, InputFollows, NothingOlder
<1>3. captured' \in [samples : [0..CaptureCapacity - 1 -> Nat], head : Nat, tail : Nat,
                     requested : BOOLEAN, begun : Nat]
  BY Zenon, <1>1, <1>2 DEF CaptureTypeOK
<1>4. /\ captured'.samples = captured.samples /\ captured'.tail = input.tail
      /\ captured'.head = captured.head /\ captured'.begun = captured.begun
      /\ input'.at = "load" /\ input'.got = input.got
  BY Zenon, <1>1 DEF CaptureTypeOK
<1>5. CaptureTypeOK'
  BY Zenon, <1>1, <1>3 DEF CaptureTypeOK
<1>6. WithinALap' /\ CapturedInPlace'
  BY <1>2, <1>4 DEF WithinALap, CapturedInPlace
<1>7. DecoderFits'
  BY SMTT(60), <1>1, <1>2, <1>4 DEF DecoderFits, CaptureTypeOK
<1> QED BY Zenon, <1>1, <1>2, <1>4, <1>5, <1>6, <1>7 DEF InputFollows, NothingOlder

LEMMA ReadLoadsInv == CaptureInv /\ ReadLoads => CaptureInv'
<1> SUFFICES ASSUME CaptureInv, ReadLoads PROVE CaptureInv'
  BY Zenon
<1> USE CaptureAssumption DEF CaptureInv
<1> DEFINE available == captured.head - captured.tail
           count == IF available > input.frames THEN input.frames ELSE available
<1>1. /\ input' = [input EXCEPT !.at = IF count = 0 THEN "store" ELSE "copy",
                                !.tail = captured.tail, !.count = count]
      /\ input.at = "load" /\ UNCHANGED <<captured, decoder>>
  BY Zenon DEF ReadLoads
<1>2. /\ captured.head \in Nat /\ captured.tail \in Nat /\ input.frames \in Nat
      /\ captured.tail <= captured.head /\ input.got = <<>>
  BY Zenon, <1>1 DEF CaptureTypeOK, WithinALap, InputFollows
<1>3. count \in Nat /\ captured.tail + count <= captured.head
  BY <1>2
<1> HIDE DEF count
<1>4. /\ input'.at = (IF count = 0 THEN "store" ELSE "copy") /\ input'.tail = captured.tail
      /\ input'.count = count /\ input'.got = <<>> /\ input'.frames = input.frames
  BY Zenon, <1>1, <1>2 DEF CaptureTypeOK
<1>5. CaptureTypeOK'
  <2>1. input' \in {[input EXCEPT !.at = "store", !.tail = captured.tail, !.count = count],
                    [input EXCEPT !.at = "copy", !.tail = captured.tail, !.count = count]}
    BY Zenon, <1>1
  <2> QED BY ZenonT(90), <1>1, <1>2, <1>3, <2>1 DEF CaptureTypeOK
<1>6. InputFollows'
  BY <1>1, <1>2, <1>3, <1>4 DEF InputFollows
<1> QED BY Zenon, <1>1, <1>4, <1>5, <1>6 DEF WithinALap, CapturedInPlace, DecoderFits, NothingOlder

LEMMA ReadCopiesInv == CaptureInv /\ ReadCopies => CaptureInv'
<1> SUFFICES ASSUME CaptureInv, ReadCopies PROVE CaptureInv'
  BY Zenon
<1> USE CaptureAssumption DEF CaptureInv
<1> DEFINE position == input.tail + Len(input.got)
           frame == captured.samples[position % CaptureCapacity]
<1>1. /\ input' = [input EXCEPT !.got = Append(@, frame),
                       !.at = IF Len(input.got) + 1 = input.count THEN "store" ELSE "copy"]
      /\ input.at = "copy" /\ UNCHANGED <<captured, decoder>>
  BY Zenon DEF ReadCopies
<1>2. /\ input.tail \in Nat /\ input.count \in Nat /\ Len(input.got) \in Nat /\ input.got \in Seq(Nat)
      /\ captured.head \in Nat /\ input.tail = captured.tail
      /\ Len(input.got) < input.count /\ input.tail + input.count <= captured.head
  BY <1>1 DEF CaptureTypeOK, InputFollows
<1>3. position \in Nat /\ frame = position
  <2>1. position \in Nat /\ captured.tail <= position /\ position < captured.head
    BY SMTT(60), <1>2
  <2> HIDE DEF position
  <2> QED BY Zenon, <2>1 DEF CapturedInPlace
<1> HIDE DEF frame
<1>4. /\ input'.got = Append(input.got, frame) /\ input'.tail = input.tail /\ input'.count = input.count
      /\ input'.at = (IF Len(input.got) + 1 = input.count THEN "store" ELSE "copy")
  BY Zenon, <1>1 DEF CaptureTypeOK
<1>5. CaptureTypeOK'
  <2>1. input' \in {[input EXCEPT !.got = Append(input.got, frame), !.at = "store"],
                    [input EXCEPT !.got = Append(input.got, frame), !.at = "copy"]}
    BY Zenon, <1>1
  <2>2. Append(input.got, frame) \in Seq(Nat)
    BY <1>2, <1>3
  <2> QED BY Zenon, <1>1, <2>1, <2>2 DEF CaptureTypeOK
<1>6. InputFollows'
  <2>1. Len(input'.got) = Len(input.got) + 1
    BY <1>2, <1>4
  <2>2. ASSUME NEW j \in 1..Len(input'.got) PROVE input'.got[j] = input.tail + j - 1
    <3>1. CASE j = Len(input.got) + 1
      BY <1>2, <1>3, <1>4, <3>1
    <3>2. CASE j # Len(input.got) + 1
      <4>1. j \in 1..Len(input.got) /\ input'.got[j] = input.got[j]
        BY SMTT(60), <1>2, <1>4, <2>1, <3>2
      <4> QED BY Zenon, <1>1, <4>1 DEF InputFollows
    <3> QED BY Zenon, <3>1, <3>2
  <2> QED BY SMTT(60), <1>1, <1>2, <1>4, <2>1, <2>2 DEF InputFollows
<1> QED BY <1>1, <1>4, <1>5, <1>6 DEF WithinALap, CapturedInPlace, DecoderFits, NothingOlder

LEMMA ReadStoresInv == CaptureInv /\ ReadStores => CaptureInv'
<1> SUFFICES ASSUME CaptureInv, ReadStores PROVE CaptureInv'
  BY Zenon
<1> USE CaptureAssumption DEF CaptureInv
<1>1. /\ captured' = [captured EXCEPT !.tail = input.tail + input.count] /\ input.at = "store"
      /\ input' = IdleInput /\ decoder' = decoder
  BY Zenon DEF ReadStores
<1>2. /\ input.tail \in Nat /\ input.count \in Nat /\ captured.head \in Nat /\ captured.begun \in Nat
      /\ input.tail = captured.tail /\ input.tail + input.count <= captured.head
      /\ captured.begun <= captured.tail /\ input.tail + input.count \in Nat
  BY SMTT(60), <1>1 DEF CaptureTypeOK, InputFollows, NothingOlder
<1>3. captured' \in [samples : [0..CaptureCapacity - 1 -> Nat], head : Nat, tail : Nat,
                     requested : BOOLEAN, begun : Nat]
  BY Zenon, <1>1, <1>2 DEF CaptureTypeOK
<1>4. /\ captured'.samples = captured.samples /\ captured'.tail = input.tail + input.count
      /\ captured'.head = captured.head /\ captured'.begun = captured.begun
  BY Zenon, <1>1 DEF CaptureTypeOK
<1>5. CaptureTypeOK'
  <2>1. IdleInput \in [at : {"idle", "skip", "clear", "load", "copy", "store"}, tail : Nat, count : Nat,
                       frames : Nat, got : Seq(Nat)]
    BY DEF IdleInput
  <2> QED BY Zenon, <1>1, <1>3, <2>1 DEF CaptureTypeOK
<1>6. WithinALap' /\ CapturedInPlace'
  BY <1>2, <1>4 DEF WithinALap, CapturedInPlace
<1>7. DecoderFits'
  BY SMTT(60), <1>1, <1>2, <1>4 DEF DecoderFits, CaptureTypeOK
<1> QED BY <1>1, <1>2, <1>4, <1>5, <1>6, <1>7 DEF InputFollows, NothingOlder, IdleInput

\* The frames ReadInput copies are those the worker decoded at their positions, in
\* order and none from before the request, for every capacity and every block size
\* (ns6_capture_ring_write, _read, _clear).
THEOREM CaptureKeepsOrder == CaptureSpec => []CaptureInOrder
<1>1. CaptureInv /\ [CaptureNext]_captureVars => CaptureInv'
  <2>1. CaptureInv /\ UNCHANGED captureVars => CaptureInv'
    BY DEF captureVars, CaptureInv, CaptureTypeOK, WithinALap, CapturedInPlace, DecoderFits,
       InputFollows, NothingOlder
  <2> QED BY Zenon, <2>1, WriteBeginsInv, WriteCopiesInv, WritePublishesInv, RequestEndsInv, InputBeginsInv,
        SkipLoadsInv, SkipStoresInv, ReadLoadsInv, ReadCopiesInv, ReadStoresInv DEF CaptureNext
<1>2. CaptureInv => CaptureInOrder
  <2> SUFFICES ASSUME CaptureInv PROVE CaptureInOrder
    BY Zenon
  <2> USE CaptureAssumption DEF CaptureInv
  <2>1. /\ captured.tail \in Nat /\ captured.head \in Nat /\ captured.begun \in Nat /\ input.tail \in Nat
        /\ input.got \in Seq(Nat)
    BY Zenon DEF CaptureTypeOK
  <2>2. captured.tail <= captured.head /\ captured.head - captured.tail <= CaptureCapacity
    BY <2>1 DEF WithinALap
  <2>3. ASSUME NEW j \in 1..Len(input.got)
        PROVE  input.got[j] = input.tail + j - 1 /\ input.got[j] >= captured.begun
    <3>1. input.at \in {"copy", "store"}
      BY <2>1 DEF InputFollows, CaptureTypeOK
    <3> QED BY SMTT(60), <2>1, <2>3, <3>1 DEF InputFollows, NothingOlder
  <2> QED BY Zenon, <2>2, <2>3 DEF CaptureInOrder
<1> QED BY <1>1, <1>2, CaptureInitInv, PTL DEF CaptureSpec

-----------------------------------------------------------------------------
(* NS6Transport                                                            *)

TagValues == [0..RingFrames - 1 -> Int]
RingValue ==
  [tag : TagValues, sample : TagValues, cursor : Nat, high : Nat, initialized : BOOLEAN,
   reset : {"tags", "cursor", "high", "initialized", "done"}, again : BOOLEAN, cut : BOOLEAN]
AppenderValue ==
  [at : {"idle", "begin", "opening", "opened", "place", "sample", "tag", "publish"}, time : Nat,
   count : Nat, done : Nat]
FillerValue ==
  [at : {"off", "idle", "check", "read", "store", "pad"}, end : Nat, phase : Nat, step : Nat,
   frames : Nat, produced : Nat, fraction : Nat, awaiting : BOOLEAN, paused : BOOLEAN,
   output : Seq(Int)]

TransportTypeOK == ring \in RingValue /\ appender \in AppenderValue /\ filler \in FillerValue

On == filler.at # "off"
Ready == ring.reset = "done"
Placed == appender.at \in {"sample", "tag", "publish"}
Reached == appender.time + appender.done

Holds(p) == ring.tag[Slot(p)] = p /\ ring.sample[Slot(p)] = p

\* A tag names the frame in its slot, but for the slot the writer has written and
\* not yet tagged.
TagsNameSamples ==
  /\ \A s \in 0..RingFrames - 1 :
       \/ ring.tag[s] = NoFrame \/ ring.sample[s] = ring.tag[s]
       \/ appender.at = "tag" /\ s = Slot(Reached)
  /\ appender.at = "tag" => ring.sample[Slot(Reached)] = Reached

\* The block being appended lies from high_water on, and in front of the cursor
\* wherever that has moved, but for a reset that has stored the cursor and not yet
\* taken the ring's initialized flag.
AppenderFits ==
  /\ appender.at # "idle" => 0 < appender.count /\ ring.high <= appender.time
  /\ appender.at \in {"sample", "tag"} => appender.done < appender.count
  /\ appender.at \in {"begin", "opening", "opened", "place"} => appender.done = 0
  /\ appender.at = "publish" => appender.done = appender.count
  /\ appender.at \in {"opening", "opened"} => ~ring.initialized
  /\ Placed /\ ring.initialized /\ ring.reset \notin {"high", "initialized"} =>
       appender.time + appender.count <= ring.cursor + RingFrames

\* The packet being filled reads frames that are in place, published before it began.
FillerFollows ==
  /\ On => Ready
  /\ filler.fraction < StepUnit
  /\ filler.at = "pad" => filler.produced < filler.frames
  /\ filler.at = "store" /\ ~ring.initialized => filler.phase < StepUnit
  /\ filler.at \in {"check", "read"} => ring.initialized /\ filler.end <= ring.high
  /\ filler.at = "read" =>
       SecondPosition < filler.end /\ Holds(FirstPosition) /\ Holds(SecondPosition)
  /\ filler.at \in {"check", "read"} /\ filler.produced > 0 =>
       filler.output[1] = filler.output[2] /\ filler.output[3] = filler.output[4]

\* Until the first reset is over the cursor has not moved, and a client that finds
\* the ring unopened opens it at zero; a later reset that no append met has none.
StartsClean ==
  /\ ~Ready /\ ~ring.again =>
       /\ ring.cursor = 0
       /\ ~ring.initialized => /\ ring.high = 0
                               /\ appender.at \in {"idle", "begin", "opening", "opened"}
                               /\ appender.at # "idle" => appender.time = 0
  /\ ResettingAgain /\ ~ring.cut => appender.at = "idle"

\* The ring after such a reset.  While it is not opened the cursor stays, so that
\* the first block leaves no hole; afterwards every frame is in its slot, those of
\* the block being appended up to the one the writer has reached.
WholeRing ==
  Ready /\ ~ring.cut =>
    /\ appender.at \in {"opening", "opened"} => ring.cursor = appender.time
    /\ appender.at = "opened" => ring.high = appender.time
    /\ ring.initialized =>
         /\ \A p \in Nat : ring.cursor <= p /\ p < ring.high => Holds(p)
         /\ appender.at # "idle" => appender.time = ring.high
         /\ Placed => /\ appender.count <= RingFrames
                      /\ \A p \in Nat : appender.time <= p /\ p < Reached => Holds(p)

TransportInv ==
  /\ TransportTypeOK /\ TagsNameSamples /\ AppenderFits /\ FillerFollows /\ StartsClean
  /\ WholeRing

\* The slot of a frame, and that of any other frame less than a lap away.
LEMMA SlotOfFrame ==
  /\ \A p \in Nat : Slot(p) \in 0..RingFrames - 1
  /\ \A p, q \in Nat : p < q /\ q < p + RingFrames => Slot(p) # Slot(q)
BY Zenon, SlotInRing, SlotsDiffer, TransportAssumption DEF Slot

\* The frames of a packet lie from the cursor on.
LEMMA PhaseFrames ==
  ASSUME NEW phase \in Nat
  PROVE  phase \div StepUnit \in Nat /\ phase % StepUnit \in 0..StepUnit - 1
BY TransportAssumption

LEMMA PacketPositions ==
  ASSUME TransportInv
  PROVE  /\ FirstPosition \in Nat /\ SecondPosition \in Nat
         /\ ring.cursor <= FirstPosition /\ FirstPosition <= SecondPosition
<1>1. ring.cursor \in Nat /\ filler.phase \in Nat
  BY Zenon DEF TransportInv, TransportTypeOK, RingValue, FillerValue
<1>2. filler.phase \div StepUnit \in Nat
  BY Zenon, <1>1, PhaseFrames
<1> QED BY <1>1, <1>2 DEF FirstPosition, SecondPosition

\* The frame the writer has reached is not in the slot of a published frame, nor
\* in that of a frame of its block that is already there.
LEMMA AppendedElsewhere ==
  ASSUME TransportInv, Ready, ring.initialized, appender.at \in {"sample", "tag"},
         NEW p \in Nat,
         \/ ring.cursor <= p /\ p < ring.high
         \/ ~ring.cut /\ appender.time <= p /\ p < Reached
  PROVE  Slot(p) # Slot(Reached)
<1> USE TransportAssumption DEF TransportInv
<1>1. /\ appender.time \in Nat /\ appender.done \in Nat /\ appender.count \in Nat
      /\ ring.cursor \in Nat /\ ring.high \in Nat
  BY Zenon DEF TransportTypeOK, RingValue, AppenderValue
<1>2. /\ ring.high <= appender.time /\ appender.done < appender.count
      /\ appender.time + appender.count <= ring.cursor + RingFrames
      /\ ~ring.cut => appender.count <= RingFrames
  BY Zenon DEF AppenderFits, WholeRing, Placed, Ready
<1>3. Reached \in Nat /\ p < Reached /\ Reached < p + RingFrames
  BY <1>1, <1>2 DEF Reached
<1> QED BY Zenon, <1>3, SlotOfFrame

\* What writing the slot and its tag keep: the frames that are in place, and the
\* two that a packet is being interpolated from.
LEMMA OthersStay ==
  ASSUME TransportInv, appender.at \in {"sample", "tag"}, NEW p \in Nat, Holds(p),
         Ready, ring.initialized,
         \/ ring.cursor <= p /\ p < ring.high
         \/ ~ring.cut /\ appender.time <= p /\ p < Reached,
         \A s \in 0..RingFrames - 1 : s # Slot(Reached) =>
            ring'.tag[s] = ring.tag[s] /\ ring'.sample[s] = ring.sample[s]
  PROVE  Holds(p)'
<1>1. Slot(p) # Slot(Reached) /\ Slot(p) \in 0..RingFrames - 1
  BY Zenon, AppendedElsewhere, SlotOfFrame
<1> QED BY Zenon, <1>1 DEF Holds

\* Steps of the worker that leave the ring alone, and steps of the other two that
\* leave the frames in place that a packet is read from.
LEMMA WorkerOnly ==
  ASSUME TransportInv, UNCHANGED <<ring, appender>>, filler' \in FillerValue, FillerFollows'
  PROVE  TransportInv'
<1> USE DEF TransportInv
<1>1. TransportTypeOK' /\ TagsNameSamples' /\ AppenderFits'
  BY Zenon DEF TransportTypeOK, TagsNameSamples, AppenderFits, Placed, Reached
<1>2. StartsClean' /\ WholeRing'
  BY Zenon DEF StartsClean, WholeRing, Ready, ResettingAgain, Placed, Reached, Holds
<1> QED BY Zenon, <1>1, <1>2

LEMMA PacketStays ==
  ASSUME TransportInv, On, filler' = filler,
         ring'.reset = ring.reset, ring'.cursor = ring.cursor,
         ring'.high \in Nat, ring.initialized => ring'.initialized /\ ring.high <= ring'.high,
         \A p \in Nat :
           ring.initialized /\ ring.cursor <= p /\ p < ring.high /\ Holds(p) => Holds(p)'
  PROVE  FillerFollows'
<1> USE DEF TransportInv
<1>1. filler.end \in Nat /\ ring.high \in Nat
  BY Zenon DEF TransportTypeOK, RingValue, FillerValue
<1>2. FirstPosition' = FirstPosition /\ SecondPosition' = SecondPosition
  BY Zenon DEF FirstPosition, SecondPosition
<1>3. filler.at \in {"check", "read"} => filler.end <= ring'.high
  BY <1>1 DEF FillerFollows
<1>4. filler.at = "read" => Holds(FirstPosition)' /\ Holds(SecondPosition)'
  <2> SUFFICES ASSUME filler.at = "read" PROVE Holds(FirstPosition)' /\ Holds(SecondPosition)'
    BY Zenon
  <2> DEFINE a == FirstPosition
             b == SecondPosition
  <2>1. a' = a /\ b' = b
    BY Zenon, <1>2
  <2>2. Holds(a) /\ Holds(b) /\ ring.initialized /\ b < filler.end /\ filler.end <= ring.high
    BY Zenon DEF FillerFollows
  <2>3. a \in Nat /\ b \in Nat /\ ring.cursor <= a /\ a <= b /\ ring.cursor \in Nat
    BY Zenon, PacketPositions DEF TransportTypeOK, RingValue
  <2> HIDE DEF a, b
  <2>4. ring.cursor <= b /\ a < ring.high /\ b < ring.high
    BY <1>1, <2>2, <2>3
  <2>5. Holds(a)' /\ Holds(b)'
    BY Zenon, <2>1, <2>2, <2>3, <2>4
  <2> QED BY Zenon, <2>5 DEF a, b
<1> QED BY Zenon, <1>2, <1>3, <1>4 DEF FillerFollows, On, Ready

LEMMA PacketUntouched ==
  ASSUME FillerFollows, filler' = filler, ring'.tag = ring.tag, ring'.sample = ring.sample,
         ring'.cursor = ring.cursor, ring'.high = ring.high, ring'.reset = ring.reset,
         ring'.initialized = ring.initialized
  PROVE  FillerFollows'
<1>1. FirstPosition' = FirstPosition /\ SecondPosition' = SecondPosition
  BY Zenon DEF FirstPosition, SecondPosition
<1>2. Holds(FirstPosition)' = Holds(FirstPosition) /\ Holds(SecondPosition)' = Holds(SecondPosition)
  BY Zenon, <1>1 DEF Holds
<1> QED BY Zenon, <1>1, <1>2 DEF FillerFollows, On, Ready

LEMMA EnqueueBeginInv ==
  ASSUME TransportInv, NEW count \in Blocks, EnqueueBegin(count)
  PROVE  TransportInv'
<1> USE TransportAssumption DEF TransportInv
<1>1. ring \in RingValue /\ appender \in AppenderValue /\ count \in Nat /\ count > 0
  BY Zenon DEF TransportTypeOK
<1>2. /\ appender.at = "idle" /\ filler' = filler
      /\ appender' = [at |-> "begin", time |-> ring.high, count |-> count, done |-> 0]
      /\ ring' = [ring EXCEPT !.cut = ring.cut \/ ResettingAgain]
  BY Zenon DEF EnqueueBegin
<1>3. /\ ring'.tag = ring.tag /\ ring'.sample = ring.sample /\ ring'.cursor = ring.cursor
      /\ ring'.high = ring.high /\ ring'.initialized = ring.initialized
      /\ ring'.reset = ring.reset /\ ring'.again = ring.again
      /\ ring'.cut = (ring.cut \/ ResettingAgain)
      /\ appender'.at = "begin" /\ appender'.time = ring.high /\ appender'.count = count
      /\ appender'.done = 0
  BY Zenon, <1>1, <1>2 DEF RingValue
<1>4. TransportTypeOK'
  BY Zenon, <1>1, <1>2 DEF TransportTypeOK, RingValue, AppenderValue
<1>5. ring.high \in Nat /\ ring.high <= ring.high /\ 0 < count
  BY <1>1 DEF RingValue
<1>6. TagsNameSamples' /\ AppenderFits'
  BY Zenon, <1>2, <1>3, <1>5 DEF TagsNameSamples, AppenderFits, Placed
<1>7. FillerFollows'
  BY Zenon, <1>2, <1>3, PacketUntouched
<1>8. StartsClean'
  BY Zenon, <1>2, <1>3 DEF StartsClean, Ready, ResettingAgain
<1>9. WholeRing'
  BY Zenon, <1>2, <1>3 DEF WholeRing, Ready, Placed, Holds
<1> QED BY Zenon, <1>4, <1>6, <1>7, <1>8, <1>9

LEMMA EnqueueOpenInv ==
  ASSUME TransportInv, EnqueueOpen
  PROVE  TransportInv'
<1> USE DEF TransportInv
<1>1. ring \in RingValue /\ appender \in AppenderValue /\ appender.time \in Nat
  BY Zenon DEF TransportTypeOK, AppenderValue
<1>2. CASE ring.initialized
  <2>1. /\ appender.at = "begin" /\ filler' = filler /\ ring' = ring
        /\ appender' = [appender EXCEPT !.at = "place"]
    BY Zenon, <1>2 DEF EnqueueOpen
  <2>2. /\ appender'.at = "place" /\ appender'.time = appender.time
        /\ appender'.count = appender.count /\ appender'.done = appender.done
    BY Zenon, <1>1, <2>1 DEF AppenderValue
  <2>3. TransportTypeOK'
    BY Zenon, <1>1, <2>1 DEF TransportTypeOK, AppenderValue
  <2>4. TagsNameSamples' /\ AppenderFits' /\ FillerFollows'
    BY Zenon, <2>1, <2>2, PacketUntouched DEF TagsNameSamples, AppenderFits, Placed
  <2>5. StartsClean' /\ WholeRing'
    BY Zenon, <1>2, <2>1, <2>2 DEF StartsClean, WholeRing, Ready, ResettingAgain, Placed, Holds
  <2> QED BY Zenon, <2>3, <2>4, <2>5
<1>3. CASE ~ring.initialized
  <2>1. /\ appender.at = "begin" /\ filler' = filler
        /\ ring' = [ring EXCEPT !.cursor = appender.time]
        /\ appender' = [appender EXCEPT !.at = "opening"]
    BY Zenon, <1>3 DEF EnqueueOpen
  <2>2. /\ appender'.at = "opening" /\ appender'.time = appender.time
        /\ appender'.count = appender.count /\ appender'.done = appender.done
        /\ ring'.tag = ring.tag /\ ring'.sample = ring.sample /\ ring'.cursor = appender.time
        /\ ring'.high = ring.high /\ ring'.initialized = ring.initialized
        /\ ring'.reset = ring.reset /\ ring'.again = ring.again /\ ring'.cut = ring.cut
    BY Zenon, <1>1, <2>1 DEF AppenderValue, RingValue
  <2>3. TransportTypeOK'
    BY Zenon, <1>1, <2>1 DEF TransportTypeOK, AppenderValue, RingValue
  <2>4. TagsNameSamples' /\ AppenderFits'
    BY Zenon, <1>3, <2>1, <2>2 DEF TagsNameSamples, AppenderFits, Placed
  <2>5. FillerFollows'
    BY Zenon, <1>3, <2>1, <2>2 DEF FillerFollows, On, Ready
  <2>6. StartsClean'
    BY Zenon, <1>3, <2>1, <2>2 DEF StartsClean, Ready, ResettingAgain
  <2>7. WholeRing'
    BY Zenon, <1>3, <2>1, <2>2 DEF WholeRing, Ready
  <2> QED BY Zenon, <2>3, <2>4, <2>5, <2>6, <2>7
<1> QED BY Zenon, <1>2, <1>3

LEMMA EnqueueOpeningInv ==
  ASSUME TransportInv, EnqueueOpening
  PROVE  TransportInv'
<1> USE DEF TransportInv
<1>1. ring \in RingValue /\ appender \in AppenderValue /\ appender.time \in Nat
  BY Zenon DEF TransportTypeOK, AppenderValue
<1>2. /\ appender.at = "opening" /\ filler' = filler /\ ring' = [ring EXCEPT !.high = appender.time]
      /\ appender' = [appender EXCEPT !.at = "opened"]
  BY Zenon DEF EnqueueOpening
<1>3. /\ appender'.at = "opened" /\ appender'.time = appender.time
      /\ appender'.count = appender.count /\ appender'.done = appender.done
      /\ ring'.tag = ring.tag /\ ring'.sample = ring.sample /\ ring'.cursor = ring.cursor
      /\ ring'.high = appender.time /\ ring'.initialized = ring.initialized
      /\ ring'.reset = ring.reset /\ ring'.again = ring.again /\ ring'.cut = ring.cut
  BY Zenon, <1>1, <1>2 DEF AppenderValue, RingValue
<1>4. TransportTypeOK'
  BY Zenon, <1>1, <1>2 DEF TransportTypeOK, AppenderValue, RingValue
<1>5. ~ring.initialized /\ appender.time <= appender.time
  BY <1>1, <1>2 DEF AppenderFits
<1>6. TagsNameSamples' /\ AppenderFits'
  BY Zenon, <1>2, <1>3, <1>5 DEF TagsNameSamples, AppenderFits, Placed
<1>7. FillerFollows'
  BY Zenon, <1>2, <1>3, <1>5 DEF FillerFollows, On, Ready
<1>8. StartsClean' /\ WholeRing'
  BY Zenon, <1>2, <1>3, <1>5 DEF StartsClean, WholeRing, Ready, ResettingAgain
<1> QED BY Zenon, <1>4, <1>6, <1>7, <1>8

LEMMA EnqueueOpenedInv ==
  ASSUME TransportInv, EnqueueOpened
  PROVE  TransportInv'
<1> USE DEF TransportInv
<1>1. ring \in RingValue /\ appender \in AppenderValue /\ ring.cursor \in Nat /\ ring.high \in Nat
  BY Zenon DEF TransportTypeOK, RingValue
<1>2. /\ appender.at = "opened" /\ filler' = filler /\ ring' = [ring EXCEPT !.initialized = TRUE]
      /\ appender' = [appender EXCEPT !.at = "place"]
  BY Zenon DEF EnqueueOpened
<1>3. /\ appender'.at = "place" /\ appender'.time = appender.time
      /\ appender'.count = appender.count /\ appender'.done = appender.done
      /\ ring'.tag = ring.tag /\ ring'.sample = ring.sample /\ ring'.cursor = ring.cursor
      /\ ring'.high = ring.high /\ ring'.initialized
      /\ ring'.reset = ring.reset /\ ring'.again = ring.again /\ ring'.cut = ring.cut
  BY Zenon, <1>1, <1>2 DEF AppenderValue, RingValue
<1>4. TransportTypeOK'
  BY Zenon, <1>1, <1>2 DEF TransportTypeOK, AppenderValue, RingValue
<1>5. ~ring.initialized
  BY Zenon, <1>2 DEF AppenderFits
<1>6. TagsNameSamples' /\ AppenderFits'
  BY Zenon, <1>2, <1>3, <1>5 DEF TagsNameSamples, AppenderFits, Placed
<1>7. FillerFollows'
  BY Zenon, <1>2, <1>3, <1>5 DEF FillerFollows, On, Ready
<1>8. StartsClean'
  BY Zenon, <1>2, <1>3, <1>5 DEF StartsClean, Ready, ResettingAgain
<1>9. WholeRing'
  BY <1>1, <1>2, <1>3, <1>5 DEF WholeRing, Ready, Placed
<1> QED BY Zenon, <1>4, <1>6, <1>7, <1>8, <1>9

LEMMA EnqueuePlaceInv ==
  ASSUME TransportInv, EnqueuePlace
  PROVE  TransportInv'
<1> USE TransportAssumption DEF TransportInv
<1> DEFINE time == PositionMax(appender.time, ring.cursor)
<1>1. /\ appender.at = "place" /\ filler' = filler
      /\ ring' = IF appender.time < ring.cursor THEN [ring EXCEPT !.high = ring.cursor] ELSE ring
      /\ appender' = IF time - ring.cursor + appender.count > RingFrames
                     THEN [appender EXCEPT !.at = "idle"]
                     ELSE [appender EXCEPT !.at = "sample", !.time = time]
  BY Zenon DEF EnqueuePlace
<1>2. /\ ring \in RingValue /\ appender \in AppenderValue /\ ring.cursor \in Nat /\ ring.high \in Nat
      /\ appender.time \in Nat /\ appender.count \in Nat
  BY Zenon DEF TransportTypeOK, RingValue, AppenderValue
<1>3. time \in Nat /\ ring.cursor <= time /\ appender.time <= time
  BY <1>2 DEF PositionMax
<1>4. TransportTypeOK'
  BY Zenon, <1>1, <1>2, <1>3 DEF TransportTypeOK, RingValue, AppenderValue
<1>5. /\ ring'.cursor = ring.cursor /\ ring'.tag = ring.tag /\ ring'.sample = ring.sample
      /\ ring'.initialized = ring.initialized /\ ring'.reset = ring.reset
      /\ ring'.again = ring.again /\ ring'.cut = ring.cut
      /\ ring'.high = IF appender.time < ring.cursor THEN ring.cursor ELSE ring.high
  BY Zenon, <1>1, <1>2 DEF RingValue
<1>6. ring'.high \in Nat /\ ring'.high <= time /\ ring.high <= ring'.high
  BY <1>1, <1>2, <1>5 DEF AppenderFits, PositionMax
<1>7. Ready /\ ~ring.cut /\ ring.initialized =>
        /\ ring'.high = time
        /\ \A p \in Nat : ring.cursor <= p /\ p < time => Holds(p)
  BY <1>1, <1>2, <1>5 DEF WholeRing, PositionMax
<1> HIDE DEF time
<1>8. FillerFollows'
  <2>1. \A p \in Nat : Holds(p) => Holds(p)'
    BY Zenon, <1>5 DEF Holds
  <2>2. CASE On
    BY Zenon, <1>1, <1>5, <1>6, <2>1, <2>2, PacketStays
  <2>3. CASE ~On
    BY Zenon, <1>1, <1>5, <2>3 DEF FillerFollows, On
  <2> QED BY Zenon, <2>2, <2>3
<1>9. CASE time - ring.cursor + appender.count > RingFrames
  <2>1. appender'.at = "idle"
    BY Zenon, <1>1, <1>2, <1>9 DEF AppenderValue
  <2>2. TagsNameSamples' /\ AppenderFits'
    BY Zenon, <1>1, <1>5, <2>1 DEF TagsNameSamples, AppenderFits, Placed
  <2>3. StartsClean'
    BY Zenon, <1>1, <1>5, <2>1 DEF StartsClean, Ready, ResettingAgain
  <2>4. WholeRing'
    BY Zenon, <1>5, <1>7, <2>1 DEF WholeRing, Ready, Placed, Holds
  <2> QED BY Zenon, <1>4, <1>8, <2>2, <2>3, <2>4
<1>10. CASE ~(time - ring.cursor + appender.count > RingFrames)
  <2>1. /\ appender'.at = "sample" /\ appender'.time = time /\ appender'.count = appender.count
        /\ appender'.done = appender.done
    BY Zenon, <1>1, <1>2, <1>10 DEF AppenderValue
  <2>2. time + appender.count <= ring.cursor + RingFrames /\ appender.count <= RingFrames
    BY <1>2, <1>3, <1>10
  <2>3. 0 < appender.count /\ appender.done = 0 /\ Reached' = time
    BY <1>1, <1>3, <2>1 DEF AppenderFits, Reached
  <2>4. TagsNameSamples'
    BY Zenon, <1>1, <1>5, <2>1 DEF TagsNameSamples
  <2>5. AppenderFits'
    BY Zenon, <1>1, <1>5, <1>6, <2>1, <2>2, <2>3 DEF AppenderFits
  <2>6. StartsClean'
    BY Zenon, <1>1, <1>5, <2>1 DEF StartsClean, Ready, ResettingAgain
  <2>7. WholeRing'
    <3>1. ASSUME NEW p \in Nat, time <= p, p < time PROVE FALSE
      BY <1>3, <3>1
    <3> QED BY Zenon, <1>5, <1>7, <2>1, <2>2, <2>3, <3>1 DEF WholeRing, Ready, Placed, Holds
  <2> QED BY Zenon, <1>4, <1>8, <2>4, <2>5, <2>6, <2>7
<1> QED BY Zenon, <1>9, <1>10

LEMMA EnqueueSampleInv ==
  ASSUME TransportInv, EnqueueSample
  PROVE  TransportInv'
<1> USE TransportAssumption DEF TransportInv
<1>1. /\ appender.at = "sample" /\ filler' = filler
      /\ ring' = [ring EXCEPT !.sample[Slot(Reached)] = Reached]
      /\ appender' = [appender EXCEPT !.at = "tag"]
  BY Zenon DEF EnqueueSample, Reached
<1>2. ring \in RingValue /\ appender \in AppenderValue /\ Reached \in Nat
  BY DEF TransportTypeOK, AppenderValue, Reached
<1>3. Slot(Reached) \in 0..RingFrames - 1 /\ Reached \in Int
  BY <1>2, SlotOfFrame
<1>4. TransportTypeOK'
  <2>1. ring' \in RingValue
    BY Zenon, <1>1, <1>2, <1>3 DEF RingValue, TagValues
  <2>2. appender' \in AppenderValue
    BY Zenon, <1>1, <1>2 DEF AppenderValue
  <2> QED BY Zenon, <1>1, <2>1, <2>2 DEF TransportTypeOK
<1>5. /\ ring'.sample = [ring.sample EXCEPT ![Slot(Reached)] = Reached] /\ ring'.tag = ring.tag
      /\ ring'.cursor = ring.cursor /\ ring'.high = ring.high /\ ring'.reset = ring.reset
      /\ ring'.initialized = ring.initialized /\ ring'.again = ring.again /\ ring'.cut = ring.cut
      /\ appender'.time = appender.time /\ appender'.count = appender.count
      /\ appender'.done = appender.done
      /\ appender'.at = "tag"
  BY Zenon, <1>1, <1>2 DEF RingValue, AppenderValue
<1>6. Reached' = Reached
  BY Zenon, <1>5 DEF Reached
<1>7. /\ ring'.sample[Slot(Reached)] = Reached
      /\ \A s \in 0..RingFrames - 1 : s # Slot(Reached) =>
           ring'.tag[s] = ring.tag[s] /\ ring'.sample[s] = ring.sample[s]
  BY Zenon, <1>2, <1>3, <1>5 DEF RingValue, TagValues
<1>8. ASSUME NEW p \in Nat, Holds(p), Ready, ring.initialized,
             \/ ring.cursor <= p /\ p < ring.high
             \/ ~ring.cut /\ appender.time <= p /\ p < Reached
      PROVE  Holds(p)'
  BY Zenon, <1>1, <1>7, <1>8, OthersStay
<1>9. TagsNameSamples'
  <2>1. Slot(Reached)' = Slot(Reached)
    BY Zenon, <1>6 DEF Slot
  <2>2. ASSUME NEW s \in 0..RingFrames - 1, s # Slot(Reached)
        PROVE  ring.tag[s] = NoFrame \/ ring'.sample[s] = ring'.tag[s]
    <3>1. ring.tag[s] = NoFrame \/ ring.sample[s] = ring.tag[s]
      BY Zenon, <1>1, <2>2 DEF TagsNameSamples
    <3> QED BY Zenon, <1>7, <2>2, <3>1
  <2> QED BY Zenon, <1>5, <1>6, <1>7, <2>1, <2>2 DEF TagsNameSamples
<1>10. AppenderFits' /\ StartsClean'
  BY Zenon, <1>1, <1>5 DEF AppenderFits, StartsClean, Ready, ResettingAgain, Placed
<1>11. FillerFollows'
  <2>1. ring.high \in Nat /\ ring.high <= ring.high
    BY <1>2 DEF RingValue
  <2>2. CASE On
    <3>1. Ready
      BY Zenon, <2>2 DEF FillerFollows
    <3> QED BY Zenon, <1>1, <1>5, <1>8, <2>1, <2>2, <3>1, PacketStays
  <2>3. CASE ~On
    BY Zenon, <1>1, <1>5, <2>3 DEF FillerFollows, On
  <2> QED BY Zenon, <2>2, <2>3
<1>12. WholeRing'
  BY Zenon, <1>1, <1>5, <1>6, <1>8 DEF WholeRing, Ready, Placed
<1> QED BY Zenon, <1>4, <1>9, <1>10, <1>11, <1>12

LEMMA EnqueueTagInv ==
  ASSUME TransportInv, EnqueueTag
  PROVE  TransportInv'
<1> USE TransportAssumption DEF TransportInv
<1>1. /\ appender.at = "tag" /\ filler' = filler
      /\ ring' = [ring EXCEPT !.tag[Slot(Reached)] = Reached]
      /\ appender' = [appender EXCEPT !.done = @ + 1, !.at = IF appender.done + 1 = appender.count THEN "publish" ELSE "sample"]
  BY Zenon DEF EnqueueTag, Reached
<1>2. /\ ring \in RingValue /\ appender \in AppenderValue /\ Reached \in Nat /\ appender.done + 1 \in Nat
      /\ appender.time \in Nat /\ appender.done \in Nat /\ appender.count \in Nat
  BY DEF TransportTypeOK, AppenderValue, Reached
<1>3. Slot(Reached) \in 0..RingFrames - 1 /\ Reached \in Int
  BY <1>2, SlotOfFrame
<1>4. TransportTypeOK'
  <2>1. ring' \in RingValue
    BY Zenon, <1>1, <1>2, <1>3 DEF RingValue, TagValues
  <2>2. appender' \in AppenderValue
    <3>1. appender' \in {[appender EXCEPT !.done = appender.done + 1, !.at = "publish"],
                         [appender EXCEPT !.done = appender.done + 1, !.at = "sample"]}
      BY Zenon, <1>1
    <3> QED BY ZenonT(90), <1>2, <3>1 DEF AppenderValue
  <2> QED BY Zenon, <1>1, <2>1, <2>2 DEF TransportTypeOK
<1>5. /\ ring'.tag = [ring.tag EXCEPT ![Slot(Reached)] = Reached] /\ ring'.sample = ring.sample
      /\ ring'.cursor = ring.cursor /\ ring'.high = ring.high /\ ring'.reset = ring.reset
      /\ ring'.initialized = ring.initialized /\ ring'.again = ring.again /\ ring'.cut = ring.cut
      /\ appender'.time = appender.time /\ appender'.count = appender.count
      /\ appender'.done = appender.done + 1
      /\ appender'.at = (IF appender.done + 1 = appender.count THEN "publish" ELSE "sample")
  BY Zenon, <1>1, <1>2 DEF RingValue, AppenderValue
<1>6. Reached' = Reached + 1
  BY <1>2, <1>5 DEF Reached
<1>7. /\ ring'.tag[Slot(Reached)] = Reached /\ ring'.sample[Slot(Reached)] = Reached
      /\ \A s \in 0..RingFrames - 1 : s # Slot(Reached) =>
           ring'.tag[s] = ring.tag[s] /\ ring'.sample[s] = ring.sample[s]
  BY Zenon, <1>1, <1>2, <1>3, <1>5 DEF RingValue, TagValues, TagsNameSamples
<1>8. ASSUME NEW p \in Nat, Holds(p), Ready, ring.initialized,
             \/ ring.cursor <= p /\ p < ring.high
             \/ ~ring.cut /\ appender.time <= p /\ p < Reached
      PROVE  Holds(p)'
  BY Zenon, <1>1, <1>7, <1>8, OthersStay
<1>9. appender'.at \in {"publish", "sample"}
  BY Zenon, <1>5
<1>10. TagsNameSamples'
  BY Zenon, <1>7, <1>9 DEF TagsNameSamples
<1>11. AppenderFits'
  BY <1>1, <1>2, <1>5 DEF AppenderFits, Placed
<1>12. StartsClean'
  BY Zenon, <1>1, <1>5, <1>9 DEF StartsClean, Ready, ResettingAgain
<1>13. FillerFollows'
  <2>1. ring.high \in Nat /\ ring.high <= ring.high
    BY <1>2 DEF RingValue
  <2>2. CASE On
    <3>1. Ready
      BY Zenon, <2>2 DEF FillerFollows
    <3> QED BY Zenon, <1>1, <1>5, <1>8, <2>1, <2>2, <3>1, PacketStays
  <2>3. CASE ~On
    BY Zenon, <1>1, <1>5, <2>3 DEF FillerFollows, On
  <2> QED BY Zenon, <2>2, <2>3
<1>14. WholeRing'
  <2>1. ASSUME Ready, ~ring.cut, ring.initialized, NEW p \in Nat, appender.time <= p, p < Reached + 1
        PROVE  Holds(p)'
    <3>1. CASE p = Reached
      BY Zenon, <1>7, <3>1 DEF Holds
    <3>2. CASE p # Reached
      <4>1. p < Reached
        BY <1>2, <2>1, <3>2
      <4>2. Holds(p)
        BY Zenon, <1>1, <2>1, <4>1 DEF WholeRing, Placed
      <4> QED BY Zenon, <1>8, <2>1, <4>1, <4>2
    <3> QED BY Zenon, <3>1, <3>2
  <2> QED BY Zenon, <1>1, <1>5, <1>6, <1>8, <1>9, <2>1 DEF WholeRing, Ready, Placed
<1> QED BY Zenon, <1>4, <1>10, <1>11, <1>12, <1>13, <1>14

\* Publishing appends the block to the frames in place.
LEMMA EnqueuePublishInv ==
  ASSUME TransportInv, EnqueuePublish
  PROVE  TransportInv'
<1> USE TransportAssumption DEF TransportInv
<1> DEFINE end == PositionMax(ring.high, appender.time + appender.count)
<1>1. /\ appender.at = "publish" /\ filler' = filler /\ ring' = [ring EXCEPT !.high = end]
      /\ appender' = [at |-> "idle", time |-> 0, count |-> 0, done |-> 0]
  BY Zenon DEF EnqueuePublish
<1>2. /\ ring \in RingValue /\ appender \in AppenderValue /\ appender.time \in Nat /\ appender.count \in Nat
      /\ ring.high \in Nat /\ ring.cursor \in Nat
  BY Zenon DEF TransportTypeOK, RingValue, AppenderValue
<1>3. end \in Nat /\ ring.high <= end
  BY <1>2 DEF PositionMax
<1>4. end = Reached
  BY <1>1, <1>2 DEF AppenderFits, PositionMax, Reached
<1> HIDE DEF end
<1>5. TransportTypeOK'
  BY Zenon, <1>1, <1>2, <1>3 DEF TransportTypeOK, RingValue, AppenderValue
<1>6. /\ ring'.tag = ring.tag /\ ring'.sample = ring.sample /\ ring'.cursor = ring.cursor /\ ring'.high = end
      /\ ring'.initialized = ring.initialized /\ ring'.reset = ring.reset
      /\ ring'.again = ring.again /\ ring'.cut = ring.cut /\ appender'.at = "idle"
  BY Zenon, <1>1, <1>2 DEF RingValue
<1>7. TagsNameSamples' /\ AppenderFits'
  BY Zenon, <1>1, <1>6 DEF TagsNameSamples, AppenderFits, Placed
<1>8. StartsClean'
  BY Zenon, <1>1, <1>6 DEF StartsClean, Ready, ResettingAgain
<1>9. WholeRing'
  <2> SUFFICES ASSUME Ready, ~ring.cut, ring.initialized, NEW p \in Nat, ring.cursor <= p, p < end
               PROVE  Holds(p)
    BY Zenon, <1>6 DEF WholeRing, Ready, Placed, Holds
  <2>1. p < ring.high \/ (appender.time <= p /\ p < Reached)
    BY <1>1, <1>2, <1>4 DEF WholeRing
  <2> QED BY Zenon, <1>1, <2>1 DEF WholeRing, Placed
<1>10. FillerFollows'
  <2>1. \A p \in Nat : Holds(p) => Holds(p)'
    BY Zenon, <1>6 DEF Holds
  <2>2. CASE On
    BY Zenon, <1>1, <1>3, <1>6, <2>1, <2>2, PacketStays
  <2>3. CASE ~On
    BY Zenon, <1>1, <1>6, <2>3 DEF FillerFollows, On
  <2> QED BY Zenon, <2>2, <2>3
<1> QED BY Zenon, <1>5, <1>7, <1>8, <1>9, <1>10

\* The stores of a reset, while no worker runs.
LEMMA ResetInv ==
  ASSUME TransportInv, ResetTags \/ ResetCursor \/ ResetHighWater \/ ResetInitialized
  PROVE  TransportInv'
<1> USE TransportAssumption DEF TransportInv
<1>1. ring \in RingValue /\ appender \in AppenderValue /\ filler \in FillerValue
  BY Zenon DEF TransportTypeOK
<1>2. ~Ready /\ ~On /\ appender' = appender
  BY Zenon DEF ResetTags, ResetCursor, ResetHighWater, ResetInitialized, FillerFollows, Ready
<1>3. CASE ResetTags
  <2>1. [s \in 0..RingFrames - 1 |-> NoFrame] \in TagValues
    BY DEF TagValues, NoFrame
  <2>2. ring' = [ring EXCEPT !.tag = [s \in 0..RingFrames - 1 |-> NoFrame], !.reset = "cursor",
                             !.cut = ring.again /\ appender.at # "idle"]
    BY Zenon, <1>3 DEF ResetTags
  <2>3. /\ ring'.cursor = ring.cursor /\ ring'.high = ring.high /\ ring'.initialized = ring.initialized
        /\ ring'.tag = [s \in 0..RingFrames - 1 |-> NoFrame] /\ ring'.sample = ring.sample
        /\ ring'.reset = "cursor" /\ ring.reset = "tags" /\ filler' = filler
        /\ ring'.again = ring.again /\ ring'.cut = (ring.again /\ appender.at # "idle")
    BY Zenon, <1>1, <1>3, <2>2 DEF ResetTags, RingValue
  <2>4. TransportTypeOK'
    BY Zenon, <1>1, <1>2, <2>1, <2>2, <2>3 DEF TransportTypeOK, RingValue
  <2>5. TagsNameSamples' /\ AppenderFits'
    BY Zenon, <1>2, <2>3 DEF TagsNameSamples, AppenderFits, Placed, Reached
  <2>6. FillerFollows' /\ StartsClean' /\ WholeRing'
    BY Zenon, <1>2, <2>3 DEF FillerFollows, StartsClean, WholeRing, On, Ready, ResettingAgain
  <2> QED BY Zenon, <2>4, <2>5, <2>6
<1>4. CASE ResetCursor
  <2>1. /\ ring'.cursor = 0 /\ ring'.high = ring.high /\ ring'.initialized = ring.initialized
        /\ ring'.tag = ring.tag /\ ring'.sample = ring.sample
        /\ ring'.reset = "high" /\ ring.reset = "cursor" /\ filler' = filler
        /\ ring'.again = ring.again /\ ring'.cut = ring.cut
    BY Zenon, <1>1, <1>4 DEF ResetCursor, RingValue
  <2>2. TransportTypeOK'
    BY Zenon, <1>1, <1>4 DEF ResetCursor, TransportTypeOK, RingValue
  <2>3. TagsNameSamples' /\ AppenderFits'
    BY Zenon, <1>2, <2>1 DEF TagsNameSamples, AppenderFits, Placed, Reached
  <2>4. FillerFollows' /\ StartsClean' /\ WholeRing'
    BY Zenon, <1>2, <2>1 DEF FillerFollows, StartsClean, WholeRing, On, Ready, ResettingAgain
  <2> QED BY Zenon, <2>2, <2>3, <2>4
<1>5. CASE ResetHighWater
  <2>1. /\ ring'.cursor = ring.cursor /\ ring'.high = 0 /\ ring'.initialized = ring.initialized
        /\ ring'.tag = ring.tag /\ ring'.sample = ring.sample
        /\ ring'.reset = "initialized" /\ ring.reset = "high" /\ filler' = filler
        /\ ring'.again = ring.again /\ ring'.cut = ring.cut
    BY Zenon, <1>1, <1>5 DEF ResetHighWater, RingValue
  <2>2. TransportTypeOK'
    BY Zenon, <1>1, <1>5 DEF ResetHighWater, TransportTypeOK, RingValue
  <2>3. 0 <= appender.time
    BY <1>1 DEF AppenderValue
  <2>4. TagsNameSamples' /\ AppenderFits'
    BY Zenon, <1>2, <2>1, <2>3 DEF TagsNameSamples, AppenderFits, Placed, Reached
  <2>5. FillerFollows' /\ StartsClean' /\ WholeRing'
    BY Zenon, <1>2, <2>1 DEF FillerFollows, StartsClean, WholeRing, On, Ready, ResettingAgain
  <2> QED BY Zenon, <2>2, <2>4, <2>5
<1>6. CASE ResetInitialized
  <2>1. /\ ring'.cursor = ring.cursor /\ ring'.high = ring.high /\ ~ring'.initialized
        /\ ring'.tag = ring.tag /\ ring'.sample = ring.sample
        /\ ring'.reset = "done" /\ ring.reset = "initialized"
        /\ ring'.again = ring.again /\ ring'.cut = ring.cut
        /\ filler'.at = filler.at /\ filler'.fraction = filler.fraction
    BY Zenon, <1>1, <1>6 DEF ResetInitialized, RingValue, FillerValue
  <2>2. TransportTypeOK'
    BY Zenon, <1>1, <1>6 DEF ResetInitialized, TransportTypeOK, RingValue, FillerValue
  <2>3. TagsNameSamples' /\ AppenderFits'
    BY Zenon, <1>2, <2>1 DEF TagsNameSamples, AppenderFits, Placed, Reached
  <2>4. FillerFollows' /\ StartsClean'
    BY Zenon, <1>2, <2>1 DEF FillerFollows, StartsClean, On, Ready, ResettingAgain
  <2>5. ~ring.cut /\ appender.at \in {"opening", "opened"} =>
          ring.cursor = appender.time /\ ring.high = appender.time
    BY Zenon, <1>2, <2>1 DEF StartsClean, ResettingAgain, AppenderFits, Ready
  <2>6. WholeRing'
    BY Zenon, <1>2, <2>1, <2>5 DEF WholeRing
  <2> QED BY Zenon, <2>2, <2>3, <2>4, <2>6
<1> QED BY Zenon, <1>3, <1>4, <1>5, <1>6

LEMMA StartEndsInv ==
  ASSUME TransportInv, WorkerStarts \/ StartFails
  PROVE  TransportInv'
<1> USE DEF TransportInv
<1>1. ring \in RingValue /\ filler \in FillerValue
  BY Zenon DEF TransportTypeOK
<1>2. CASE WorkerStarts
  <2>1. /\ UNCHANGED <<ring, appender>> /\ ring.reset = "done"
        /\ filler'.at = "idle" /\ filler'.fraction = filler.fraction
    BY Zenon, <1>1, <1>2 DEF WorkerStarts, FillerValue
  <2>2. filler' \in FillerValue
    BY Zenon, <1>1, <1>2 DEF WorkerStarts, FillerValue
  <2>3. FillerFollows'
    BY Zenon, <2>1 DEF FillerFollows, Ready
  <2> QED BY Zenon, <2>1, <2>2, <2>3, WorkerOnly
<1>3. CASE StartFails
  <2>1. /\ ring'.cursor = ring.cursor /\ ring'.high = ring.high /\ ring'.initialized = ring.initialized
        /\ ring'.tag = ring.tag /\ ring'.sample = ring.sample
        /\ ring'.reset = "tags" /\ ring.reset = "done" /\ ring'.again /\ ring'.cut = ring.cut
        /\ appender' = appender /\ filler' = filler /\ ~On
    BY Zenon, <1>1, <1>3 DEF StartFails, RingValue, On
  <2>2. TransportTypeOK'
    BY Zenon, <1>1, <1>3 DEF StartFails, TransportTypeOK, RingValue
  <2>3. TagsNameSamples' /\ AppenderFits'
    BY Zenon, <2>1 DEF TagsNameSamples, AppenderFits, Placed, Reached
  <2>4. FillerFollows' /\ StartsClean' /\ WholeRing'
    BY Zenon, <2>1 DEF FillerFollows, StartsClean, WholeRing, On, Ready, ResettingAgain
  <2> QED BY Zenon, <2>2, <2>3, <2>4
<1> QED BY Zenon, <1>2, <1>3

\* The tags name the two frames: their slots hold them, for the writer is elsewhere.
LEMMA DequeueCheckInv ==
  ASSUME TransportInv, DequeueCheck
  PROVE  TransportInv'
<1> USE TransportAssumption DEF TransportInv
<1> DEFINE a == FirstPosition
           b == SecondPosition
           there == /\ filler.produced < filler.frames /\ b < filler.end
                    /\ b - ring.cursor < RingFrames
                    /\ ring.tag[Slot(a)] = a /\ ring.tag[Slot(b)] = b
<1>1. /\ filler.at = "check" /\ UNCHANGED <<ring, appender>>
      /\ filler' = [filler EXCEPT !.at = IF there THEN "read" ELSE "store"]
  BY Zenon DEF DequeueCheck
<1>2. /\ ring \in RingValue /\ filler \in FillerValue /\ ring.high \in Nat /\ filler.end \in Nat
      /\ a \in Nat /\ b \in Nat /\ ring.cursor <= a /\ a <= b /\ ring.cursor \in Nat
  BY Zenon, PacketPositions DEF TransportTypeOK, RingValue, FillerValue
<1>3. On /\ Ready /\ ring.initialized /\ filler.end <= ring.high
  BY Zenon, <1>1 DEF On, FillerFollows
<1>4. a' = a /\ b' = b
  BY Zenon, <1>1, <1>2 DEF FirstPosition, SecondPosition, FillerValue
<1> HIDE DEF a, b
<1>5. ASSUME NEW p \in Nat, ring.cursor <= p, p < ring.high, ring.tag[Slot(p)] = p
      PROVE  Holds(p)
  <2>1. p # NoFrame
    BY DEF NoFrame
  <2>2. Slot(p) \in 0..RingFrames - 1
    BY Zenon, SlotOfFrame
  <2>3. appender.at = "tag" => Slot(p) # Slot(Reached)
    BY Zenon, <1>3, <1>5, AppendedElsewhere
  <2> QED BY Zenon, <1>5, <2>1, <2>2, <2>3 DEF TagsNameSamples, Holds
<1>6. there => b < filler.end /\ Holds(a) /\ Holds(b)
  <2> SUFFICES ASSUME there PROVE b < filler.end /\ Holds(a) /\ Holds(b)
    BY Zenon
  <2>1. ring.cursor <= b /\ a < ring.high /\ b < ring.high
    BY <1>2, <1>3
  <2> QED BY Zenon, <1>2, <1>5, <2>1
<1>7. /\ filler'.at = (IF there THEN "read" ELSE "store")
      /\ filler'.end = filler.end /\ filler'.phase = filler.phase /\ filler'.frames = filler.frames
      /\ filler'.produced = filler.produced /\ filler'.fraction = filler.fraction
      /\ filler'.output = filler.output
  BY Zenon, <1>1, <1>2 DEF FillerValue
<1> HIDE DEF there
<1>8. filler' \in FillerValue
  <2>1. filler' \in {[filler EXCEPT !.at = "read"], [filler EXCEPT !.at = "store"]}
    BY Zenon, <1>1
  <2> QED BY ZenonT(90), <1>2, <2>1 DEF FillerValue
<1>9. Holds(a)' = Holds(a) /\ Holds(b)' = Holds(b)
  BY Zenon, <1>1, <1>4 DEF Holds
<1>10. FillerFollows'
  <2>1. CASE there
    <3>1. filler'.at = "read"
      BY Zenon, <1>7, <2>1
    <3> QED BY Zenon, <1>1, <1>3, <1>4, <1>6, <1>7, <1>9, <2>1, <3>1 DEF FillerFollows, On, Ready, a, b
  <2>2. CASE ~there
    <3>1. filler'.at = "store"
      BY Zenon, <1>7, <2>2
    <3> QED BY Zenon, <1>1, <1>3, <1>7, <3>1 DEF FillerFollows, On, Ready
  <2> QED BY Zenon, <2>1, <2>2
<1> QED BY Zenon, <1>1, <1>8, <1>10, WorkerOnly

\* A frame is produced from the two slots that hold its positions.
LEMMA DequeueReadInv ==
  ASSUME TransportInv, DequeueRead
  PROVE  TransportInv'
<1> USE TransportAssumption DEF TransportInv
<1> DEFINE a == FirstPosition
           b == SecondPosition
           whole == <<a, ring.sample[Slot(a)], b, ring.sample[Slot(b)]>>
<1>1. /\ filler.at = "read" /\ UNCHANGED <<ring, appender>>
      /\ filler' = [filler EXCEPT !.at = "check", !.produced = @ + 1, !.phase = @ + filler.step, !.output = whole]
  BY Zenon DEF DequeueRead
<1>2. /\ filler \in FillerValue /\ filler.produced + 1 \in Nat /\ filler.phase + filler.step \in Nat
  BY SMTT(60) DEF TransportTypeOK, FillerValue
<1>3. a \in Nat /\ b \in Nat
  BY Zenon, PacketPositions
<1>4. On /\ Ready /\ ring.initialized /\ filler.end <= ring.high /\ Holds(a) /\ Holds(b)
  BY Zenon, <1>1 DEF On, FillerFollows
<1> HIDE DEF a, b
<1>5. whole = <<a, a, b, b>>
  BY Zenon, <1>4 DEF Holds
<1> HIDE DEF whole
<1>6. /\ filler'.at = "check" /\ filler'.output = whole /\ filler'.fraction = filler.fraction
      /\ filler'.end = filler.end
  BY Zenon, <1>1, <1>2 DEF FillerValue
<1>7. filler' \in FillerValue
  <2>1. whole \in Seq(Int)
    BY <1>3, <1>5
  <2> QED BY Zenon, <1>1, <1>2, <2>1 DEF FillerValue
<1>8. whole[1] = whole[2] /\ whole[3] = whole[4]
  BY <1>5
<1>9. FillerFollows'
  BY Zenon, <1>1, <1>4, <1>6, <1>8 DEF FillerFollows, On, Ready
<1> QED BY Zenon, <1>1, <1>7, <1>9, WorkerOnly

\* The cursor only moves forward: what is in front of it stays in place, and the
\* block being appended keeps its room.
LEMMA CursorMoves ==
  ASSUME TransportInv, NEW n \in Nat, n = 0 \/ ring.initialized, On,
         ring' = [ring EXCEPT !.cursor = ring.cursor + n], appender' = appender,
         filler' \in FillerValue, filler'.at \in {"idle", "pad"}, filler'.fraction < StepUnit,
         filler'.at = "pad" => filler'.produced < filler'.frames
  PROVE  TransportInv'
<1> USE TransportAssumption DEF TransportInv
<1>1. /\ ring \in RingValue /\ ring.cursor \in Nat /\ ring.cursor + n \in Nat /\ ring.high \in Nat
      /\ appender.time \in Nat /\ appender.count \in Nat
  <2>1. ring \in RingValue /\ ring.cursor \in Nat /\ ring.high \in Nat
    BY Zenon DEF TransportTypeOK, RingValue
  <2>2. appender.time \in Nat /\ appender.count \in Nat
    BY Zenon DEF TransportTypeOK, AppenderValue
  <2> QED BY <2>1, <2>2
<1>2. TransportTypeOK'
  BY Zenon, <1>1 DEF TransportTypeOK, RingValue
<1>3. /\ ring'.tag = ring.tag /\ ring'.sample = ring.sample /\ ring'.cursor = ring.cursor + n
      /\ ring'.high = ring.high /\ ring'.initialized = ring.initialized /\ ring'.reset = ring.reset
      /\ ring'.again = ring.again /\ ring'.cut = ring.cut
  BY Zenon, <1>1 DEF RingValue
<1>4. Ready /\ ring.reset = "done"
  BY Zenon DEF FillerFollows, Ready
<1>5. TagsNameSamples' /\ StartsClean' /\ FillerFollows'
  BY Zenon, <1>3, <1>4
     DEF TagsNameSamples, StartsClean, FillerFollows, Reached, Ready, On, ResettingAgain
<1>6. AppenderFits'
  BY <1>1, <1>3 DEF AppenderFits, Placed
<1>7. WholeRing'
  <2>1. ~ring.initialized => ring'.cursor = ring.cursor
    BY <1>1, <1>3
  <2>2. \A p \in Nat : ring'.cursor <= p => ring.cursor <= p
    BY <1>1, <1>3
  <2>3. \A p \in Nat : Holds(p)' = Holds(p)
    BY Zenon, <1>3 DEF Holds
  <2>4. appender.at \in {"opening", "opened"} => ~ring.initialized
    BY Zenon DEF AppenderFits
  <2> QED BY Zenon, <1>3, <1>4, <2>1, <2>2, <2>3, <2>4 DEF WholeRing, Ready, Placed, Reached
<1> QED BY Zenon, <1>2, <1>5, <1>6, <1>7

LEMMA DequeueStoreInv ==
  ASSUME TransportInv, DequeueStore
  PROVE  TransportInv'
<1> USE TransportAssumption DEF TransportInv
<1> DEFINE n == filler.phase \div StepUnit
           rest == filler.phase % StepUnit
<1>1. /\ filler.at = "store" /\ appender' = appender /\ ring' = [ring EXCEPT !.cursor = ring.cursor + n]
      /\ filler' = [filler EXCEPT !.fraction = rest,
                                  !.at = IF filler.produced < filler.frames THEN "pad" ELSE "idle",
                                  !.output = <<>>]
  BY Zenon DEF DequeueStore
<1>2. filler \in FillerValue /\ filler.phase \in Nat
  BY Zenon DEF TransportTypeOK, FillerValue
<1>3. n \in Nat /\ rest \in Nat /\ rest < StepUnit
  BY <1>2, PhaseFrames
<1>4. n = 0 \/ ring.initialized
  <2>1. filler.phase < StepUnit => n = 0
    BY <1>2
  <2> QED BY Zenon, <1>1, <2>1 DEF FillerFollows
<1> HIDE DEF n, rest
<1>5. /\ filler'.at = (IF filler.produced < filler.frames THEN "pad" ELSE "idle")
      /\ filler'.fraction = rest /\ filler'.produced = filler.produced /\ filler'.frames = filler.frames
  BY Zenon, <1>1, <1>2 DEF FillerValue
<1>6. filler' \in FillerValue
  <2> DEFINE stored == [filler EXCEPT !.fraction = rest, !.output = <<>>]
  <2>1. <<>> \in Seq(Int)
    OBVIOUS
  <2>2. stored \in FillerValue
    BY Zenon, <1>2, <1>3, <2>1 DEF FillerValue
  <2>3. filler' \in {[stored EXCEPT !.at = "pad"], [stored EXCEPT !.at = "idle"]}
    BY Zenon, <1>1, <1>2 DEF FillerValue
  <2> HIDE DEF stored
  <2> QED BY ZenonT(90), <2>2, <2>3 DEF FillerValue
<1>7. On /\ filler'.at \in {"idle", "pad"} /\ (filler'.at = "pad" => filler'.produced < filler'.frames)
  <2>1. CASE filler.produced < filler.frames
    BY Zenon, <1>1, <1>5, <2>1 DEF On
  <2>2. CASE ~(filler.produced < filler.frames)
    <3>1. filler'.at = "idle"
      BY Zenon, <1>5, <2>2
    <3> QED BY Zenon, <1>1, <3>1 DEF On
  <2> QED BY Zenon, <2>1, <2>2
<1> QED BY Zenon, <1>1, <1>3, <1>4, <1>5, <1>6, <1>7, CursorMoves

LEMMA FillPadInv ==
  ASSUME TransportInv, FillPad
  PROVE  TransportInv'
<1> USE TransportAssumption DEF TransportInv
<1> DEFINE phase == filler.fraction + (filler.frames - filler.produced) * filler.step
           n == phase \div StepUnit
           rest == phase % StepUnit
<1>1. /\ filler.at = "pad" /\ appender' = appender
      /\ ring' = IF ring.initialized THEN [ring EXCEPT !.cursor = ring.cursor + n] ELSE ring
      /\ filler' = [filler EXCEPT !.at = "idle",
                                  !.fraction = IF ring.initialized THEN rest ELSE filler.fraction]
  BY Zenon DEF FillPad
<1>2. /\ filler \in FillerValue /\ ring \in RingValue /\ filler.fraction \in Nat /\ filler.step \in Nat
      /\ filler.frames - filler.produced \in Nat /\ filler.fraction < StepUnit
  <2>1. filler \in FillerValue /\ ring \in RingValue
    BY Zenon DEF TransportTypeOK
  <2>2. filler.fraction \in Nat /\ filler.step \in Nat
    BY Zenon, <2>1 DEF FillerValue
  <2>3. filler.frames - filler.produced \in Nat /\ filler.fraction < StepUnit
    BY SMTT(60), <1>1, <2>1 DEF FillerValue, FillerFollows
  <2> QED BY Zenon, <2>1, <2>2, <2>3
<1>3. phase \in Nat
  BY <1>2
<1> HIDE DEF phase
<1>4. n \in Nat /\ rest \in Nat /\ rest < StepUnit
  BY <1>3, PhaseFrames
<1> HIDE DEF n, rest
<1>5. filler' \in FillerValue /\ filler'.at = "idle" /\ filler'.fraction \in Nat /\ filler'.fraction < StepUnit
  <2>1. filler' \in {[filler EXCEPT !.at = "idle", !.fraction = rest],
                     [filler EXCEPT !.at = "idle", !.fraction = filler.fraction]}
    BY Zenon, <1>1
  <2> QED BY ZenonT(90), <1>2, <1>4, <2>1 DEF FillerValue
<1>6. On
  BY Zenon, <1>1 DEF On
<1>7. CASE ring.initialized
  <2>1. ring' = [ring EXCEPT !.cursor = ring.cursor + n] /\ filler'.at # "pad"
    BY Zenon, <1>1, <1>5, <1>7
  <2> QED BY Zenon, <1>1, <1>4, <1>5, <1>6, <1>7, <2>1, CursorMoves
<1>8. CASE ~ring.initialized
  <2>1. UNCHANGED <<ring, appender>>
    BY Zenon, <1>1, <1>8
  <2>2. FillerFollows'
    BY Zenon, <1>5, <1>6, <2>1 DEF FillerFollows, Ready
  <2> QED BY Zenon, <1>5, <2>1, <2>2, WorkerOnly
<1> QED BY Zenon, <1>7, <1>8

LEMMA FillBeginInv ==
  ASSUME TransportInv, NEW frames \in PacketFrames, NEW step \in SourceSteps, FillBegin(frames, step)
  PROVE  TransportInv'
<1> USE TransportAssumption DEF TransportInv
<1> DEFINE begun == [filler EXCEPT !.end = ring.high, !.phase = filler.fraction, !.step = step,
                                   !.frames = frames, !.produced = 0]
<1>1. filler \in FillerValue /\ ring \in RingValue /\ frames \in Nat /\ step \in Nat
  BY Zenon DEF TransportTypeOK
<1>2. /\ filler.at = "idle" /\ UNCHANGED <<ring, appender>>
      /\ filler' = [begun EXCEPT !.at = IF ring.initialized THEN "check" ELSE "store",
                                 !.awaiting = FALSE]
  BY ZenonT(90), <1>1 DEF FillBegin, FillerValue
<1>3. begun \in FillerValue
  BY Zenon, <1>1 DEF FillerValue, RingValue
<1>4. /\ filler'.end = ring.high /\ filler'.phase = filler.fraction /\ filler'.produced = 0
      /\ filler'.fraction = filler.fraction
      /\ filler'.at = (IF ring.initialized THEN "check" ELSE "store")
  BY Zenon, <1>1, <1>2 DEF FillerValue
<1> HIDE DEF begun
<1>5. filler' \in FillerValue
  <2>1. filler' \in {[[begun EXCEPT !.at = "check"] EXCEPT !.awaiting = FALSE],
                     [[begun EXCEPT !.at = "store"] EXCEPT !.awaiting = FALSE]}
    BY Zenon, <1>2, <1>3 DEF FillerValue
  <2> QED BY ZenonT(90), <1>3, <2>1 DEF FillerValue
<1>6. ring.high <= ring.high /\ ~(0 > 0)
  BY <1>1 DEF RingValue
<1>7. FillerFollows'
  <2>1. CASE ring.initialized
    <3>1. filler'.at = "check"
      BY Zenon, <1>4, <2>1
    <3> QED BY Zenon, <1>2, <1>4, <1>6, <2>1, <3>1 DEF FillerFollows, On, Ready
  <2>2. CASE ~ring.initialized
    <3>1. filler'.at = "store"
      BY Zenon, <1>4, <2>2
    <3> QED BY Zenon, <1>2, <1>4, <2>2, <3>1 DEF FillerFollows, On, Ready
  <2> QED BY Zenon, <2>1, <2>2
<1> QED BY Zenon, <1>2, <1>5, <1>7, WorkerOnly

LEMMA TransportNextInv == TransportInv /\ [TransportNext]_transportVars => TransportInv'
<1> SUFFICES ASSUME TransportInv, [TransportNext]_transportVars PROVE TransportInv'
  BY Zenon
<1>1. filler \in FillerValue /\ FillerFollows
  BY Zenon DEF TransportInv, TransportTypeOK
<1>2. ASSUME filler' \in FillerValue, UNCHANGED <<ring, appender>>,
             filler'.at = filler.at, filler'.end = filler.end, filler'.phase = filler.phase,
             filler'.frames = filler.frames, filler'.produced = filler.produced,
             filler'.fraction = filler.fraction, filler'.output = filler.output
      PROVE  TransportInv'
  <2>1. FirstPosition' = FirstPosition /\ SecondPosition' = SecondPosition
    BY Zenon, <1>2 DEF FirstPosition, SecondPosition
  <2>2. /\ Holds(FirstPosition)' = Holds(FirstPosition)
        /\ Holds(SecondPosition)' = Holds(SecondPosition)
    BY Zenon, <1>2, <2>1 DEF Holds
  <2>3. FillerFollows'
    BY Zenon, <1>1, <1>2, <2>1, <2>2 DEF FillerFollows, On, Ready
  <2> QED BY Zenon, <1>2, <2>3, WorkerOnly
<1>3. CASE FillIdle
  <2>1. UNCHANGED <<ring, appender>> /\ filler' \in {filler, [filler EXCEPT !.awaiting = TRUE]}
    BY Zenon, <1>3 DEF FillIdle
  <2>2. filler' \in FillerValue
    BY Zenon, <1>1, <2>1 DEF FillerValue
  <2>3. /\ filler'.at = filler.at /\ filler'.end = filler.end /\ filler'.phase = filler.phase
        /\ filler'.frames = filler.frames /\ filler'.produced = filler.produced
        /\ filler'.fraction = filler.fraction /\ filler'.output = filler.output
    BY Zenon, <1>1, <2>1 DEF FillerValue
  <2> QED BY Zenon, <1>2, <2>1, <2>2, <2>3
<1>4. ASSUME NEW paused \in BOOLEAN, SetPaused(paused) PROVE TransportInv'
  <2>1. UNCHANGED <<ring, appender>> /\ filler' \in FillerValue
    BY ZenonT(60), <1>1, <1>4 DEF SetPaused, FillerValue
  <2>2. /\ filler'.at = filler.at /\ filler'.end = filler.end /\ filler'.phase = filler.phase
        /\ filler'.frames = filler.frames /\ filler'.produced = filler.produced
        /\ filler'.fraction = filler.fraction /\ filler'.output = filler.output
    BY Zenon, <1>1, <1>4 DEF SetPaused, FillerValue
  <2> QED BY Zenon, <1>2, <2>1, <2>2
<1>5. CASE UNCHANGED transportVars
  BY Zenon, <1>1, <1>2, <1>5 DEF transportVars
<1> QED
  BY Zenon, <1>3, <1>4, <1>5, EnqueueBeginInv, EnqueueOpenInv, EnqueueOpeningInv, EnqueueOpenedInv,
     EnqueuePlaceInv, EnqueueSampleInv, EnqueueTagInv, EnqueuePublishInv, ResetInv, StartEndsInv,
     FillBeginInv, DequeueCheckInv, DequeueReadInv, DequeueStoreInv, FillPadInv
  DEF TransportNext, EnqueueStep, ResetStep, FillStep

LEMMA TransportInitInv == TransportInit => TransportInv
<1> SUFFICES ASSUME TransportInit PROVE TransportInv
  BY Zenon
<1> USE TransportAssumption DEF TransportInit
<1>1. [s \in 0..RingFrames - 1 |-> NoFrame] \in TagValues /\ <<>> \in Seq(Int) /\ 0 < StepUnit
  BY DEF TagValues, NoFrame
<1>2. TransportTypeOK
  BY Zenon, <1>1 DEF TransportTypeOK, RingValue, AppenderValue, FillerValue
<1>3. /\ ring.reset = "tags" /\ ring.cursor = 0 /\ ring.high = 0 /\ ring.again = FALSE
      /\ ring.tag = [s \in 0..RingFrames - 1 |-> NoFrame]
      /\ appender.at = "idle" /\ filler.at = "off" /\ filler.fraction = 0
  BY Zenon
<1>4. TagsNameSamples /\ AppenderFits
  BY Zenon, <1>3 DEF TagsNameSamples, AppenderFits, Placed
<1>5. FillerFollows /\ StartsClean /\ WholeRing
  BY Zenon, <1>1, <1>3 DEF FillerFollows, StartsClean, WholeRing, On, Ready, ResettingAgain
<1> QED BY Zenon, <1>2, <1>4, <1>5 DEF TransportInv

\* Each frame the USB worker produces is interpolated from the frames accepted at
\* its two positions, for every ring length, block, packet and rate, however many
\* starts fail and however enqueue, their resets and fill interleave; and no hole
\* is left in the ring unless an append was under way during the reset of a
\* repeated start (ns6_transport_enqueue_at_shared, ns6_transport_reset_shared,
\* ns6_transport_dequeue_resampled_shared, maintain_device_service).
THEOREM TransportKeepsFrames == TransportSpec => []TransportReadsWhole
<1>1. TransportInv => TransportReadsWhole
  <2> SUFFICES ASSUME TransportInv PROVE TransportReadsWhole
    BY Zenon
  <2>1. 0..LastPosition \subseteq Nat
    BY TransportAssumption
  <2>2. ~ring.cut => NoHoles
    BY Zenon, <2>1 DEF TransportInv, WholeRing, FillerFollows, NoHoles, Holds, On
  <2> QED BY Zenon, <2>2 DEF TransportInv, TransportReadsWhole, FillerFollows
<1> QED BY <1>1, TransportInitInv, TransportNextInv, PTL DEF TransportSpec

-----------------------------------------------------------------------------
(* NS6USB                                                                  *)

StreamValue ==
  [at : {"ended", "top", "opening", "pump", "closing"}, running : BOOLEAN, recovery : BOOLEAN,
   first : BOOLEAN, midi : BOOLEAN, pipes : SUBSET {"feedback", "waveform"}]

DrainValue == [running : BOOLEAN, stale : SUBSET WaveformSlots, lost : SUBSET WaveformSlots]

StreamTypeOK ==
  /\ stream \in StreamValue
  /\ pending \subseteq AllSlots /\ inFlight \subseteq ReadSlots
  /\ drain \in DrainValue

\* Outside a session the device holds nothing and no drain runs.
NothingBetweenSessions ==
  /\ stream.at \notin {"pump", "closing"} => pending = {}
  /\ stream.at # "pump" => ~drain.running

\* The flags are those of the reads the device holds, and of the lost ones.
FlagsAreExact == inFlight \ drain.lost = pending \ OutSlots

\* A drain that runs misses only lost slots.
DrainIsWhole == drain.running => WaveformSlots \subseteq pending \union drain.lost

\* No OUT slot rests while the session streams.
OutputIsWhole == stream.at = "pump" /\ Streaming => OutSlots \subseteq pending

StreamInv ==
  StreamTypeOK /\ NothingBetweenSessions /\ FlagsAreExact /\ DrainIsWhole /\ OutputIsWhole

\* The three kinds of slots are apart.
LEMMA SlotKinds ==
  /\ \A s \in OutSlots : s \in AllSlots /\ s \notin ReadSlots
  /\ \A s \in FeedbackSlots : s \in ReadSlots /\ s \notin OutSlots /\ s \notin WaveformSlots
  /\ \A s \in WaveformSlots : s \in ReadSlots /\ s \notin OutSlots /\ s \notin FeedbackSlots
BY Zenon, UsbAssumption DEF ReadSlots, AllSlots

\* What start_waveform_drain leaves in the drain's state.
LEMMA DrainStarted ==
  ASSUME StreamTypeOK, NEW accepted, StartDrain(accepted)
  PROVE  /\ drain' \in DrainValue /\ drain'.running = TRUE
         /\ drain'.lost = (drain.lost \intersect inFlight) \union
                          (WaveformSlots \ (inFlight \union accepted))
<1> DEFINE lost == (drain.lost \intersect inFlight) \union
                   (WaveformSlots \ (inFlight \union accepted))
           stale == WaveformSlots \intersect inFlight
<1>1. lost \in SUBSET WaveformSlots /\ stale \in SUBSET WaveformSlots
  BY Zenon DEF StreamTypeOK, DrainValue
<1>2. drain' = [running |-> TRUE, stale |-> stale, lost |-> lost]
  BY Zenon DEF StartDrain
<1> HIDE DEF lost, stale
<1>3. drain' \in DrainValue /\ drain'.running = TRUE /\ drain'.lost = lost
  BY Zenon, <1>1, <1>2 DEF DrainValue
<1> QED BY Zenon, <1>3 DEF lost

LEMMA StreamInitInv == StreamInit => StreamInv
BY DEF StreamInit, StreamInv, StreamTypeOK, StreamValue, DrainValue, NothingBetweenSessions,
       FlagsAreExact, DrainIsWhole,
       OutputIsWhole, Streaming

\* A step that only moves the worker or writes a flag: no transfer, no slot.
LEMMA FlagsOnlyInv ==
  ASSUME StreamInv, UNCHANGED <<pending, inFlight, drain>>, StreamTypeOK',
         stream'.at \notin {"pump", "closing"} => stream.at \notin {"pump", "closing"},
         stream'.at # "pump" => stream.at # "pump",
         stream'.at = "pump" /\ Streaming' => stream.at = "pump" /\ Streaming
  PROVE  StreamInv'
BY Zenon DEF StreamInv, NothingBetweenSessions, FlagsAreExact, DrainIsWhole, OutputIsWhole

LEMMA WorkerMovesInv == StreamInv /\ WorkerMoves => StreamInv'
<1> SUFFICES ASSUME StreamInv, WorkerMoves PROVE StreamInv'
  BY Zenon
<1> USE DEF StreamInv
<1>1. CASE StreamBegins
  <2>1. StreamTypeOK'
    BY Zenon, <1>1 DEF StreamTypeOK, StreamValue, DrainValue, StreamBegins
  <2> QED BY Zenon, <1>1, <2>1, FlagsOnlyInv DEF StreamBegins, StreamTypeOK, StreamValue, DrainValue
<1>2. CASE StreamOpenFails
  <2>1. StreamTypeOK'
    BY Zenon, <1>2 DEF StreamTypeOK, StreamValue, DrainValue, StreamOpenFails
  <2> QED BY Zenon, <1>2, <2>1, FlagsOnlyInv DEF StreamOpenFails, StreamTypeOK, StreamValue, DrainValue
<1>3. ASSUME NEW accepted \in SUBSET AllSlots, NEW midi \in BOOLEAN,
             NEW pipes \in SUBSET {"feedback", "waveform"}, StreamOpens(midi, pipes, accepted)
      PROVE  StreamInv'
  <2> DEFINE outs == IF Streaming THEN OutSlots \intersect accepted ELSE {}
             reads == IF stream.running /\ "feedback" \in pipes
                      THEN (FeedbackSlots \ inFlight) \intersect accepted ELSE {}
             drains == ~midi /\ "waveform" \in pipes
             bulk == IF drains THEN DrainSubmits(accepted) ELSE {}
  <2>1. /\ stream.at = "opening" /\ pending' = outs \union reads \union bulk
        /\ inFlight' = inFlight \union reads \union bulk
        /\ stream' = [stream EXCEPT !.at = "pump", !.first = FALSE, !.midi = midi,
                          !.pipes = pipes, !.recovery = @ \/ (Streaming /\ outs # OutSlots)]
        /\ IF drains THEN StartDrain(accepted) ELSE UNCHANGED drain
    BY Zenon, <1>3 DEF StreamOpens
  <2>2. pending = {} /\ ~drain.running /\ inFlight \subseteq drain.lost
    BY Zenon, <2>1 DEF NothingBetweenSessions, FlagsAreExact
  <2>3. /\ outs \subseteq OutSlots /\ reads \subseteq FeedbackSlots \ inFlight
        /\ bulk \subseteq (WaveformSlots \ inFlight) \intersect accepted
        /\ drains => bulk = (WaveformSlots \ inFlight) \intersect accepted
        /\ ~drains => bulk = {}
    BY Zenon DEF DrainSubmits
  <2>4. stream'.at = "pump" /\ (Streaming' => outs = OutSlots)
        /\ stream' \in StreamValue
    BY ZenonT(90), <2>1 DEF StreamTypeOK, StreamValue, DrainValue, Streaming
  <2> HIDE DEF outs, reads, bulk, drains
  <2>5. OutputIsWhole'
    BY Zenon, <2>1, <2>4 DEF OutputIsWhole
  <2>6. CASE drains
    <3>1. /\ drain'.running = TRUE
          /\ drain'.lost = (drain.lost \intersect inFlight) \union
                           (WaveformSlots \ (inFlight \union accepted))
          /\ drain' \in DrainValue
      BY Zenon, <2>1, <2>6, DrainStarted
    <3>2. StreamTypeOK'
      BY Zenon, <2>1, <2>3, <2>4, <3>1 DEF StreamTypeOK, AllSlots, ReadSlots
    <3>3. FlagsAreExact'
      BY Zenon, <2>1, <2>2, <2>3, <2>6, <3>1, SlotKinds
      DEF FlagsAreExact, StreamTypeOK, DrainValue
    <3>4. DrainIsWhole'
      <4>1. drain.lost \intersect inFlight = inFlight
        BY Zenon, <2>2
      <4> QED BY Zenon, <2>1, <2>3, <2>6, <3>1, <4>1 DEF DrainIsWhole
    <3> QED BY Zenon, <2>4, <2>5, <3>2, <3>3, <3>4 DEF NothingBetweenSessions
  <2>7. CASE ~drains
    <3>1. drain' = drain
      BY Zenon, <2>1, <2>7
    <3>2. StreamTypeOK'
      BY Zenon, <2>1, <2>3, <2>4, <3>1 DEF StreamTypeOK, AllSlots, ReadSlots
    <3>3. FlagsAreExact'
      BY Zenon, <2>1, <2>2, <2>3, <2>7, <3>1, SlotKinds
      DEF FlagsAreExact, StreamTypeOK, DrainValue
    <3> QED BY Zenon, <2>2, <2>4, <2>5, <3>1, <3>2, <3>3 DEF NothingBetweenSessions, DrainIsWhole
  <2> QED BY Zenon, <2>6, <2>7
<1>4. CASE LoopLeaves
  <2>1. StreamTypeOK' /\ stream'.at = "closing" /\ drain'.running = FALSE /\ drain'.lost = drain.lost
    BY Zenon, <1>4 DEF StreamTypeOK, StreamValue, DrainValue, LoopLeaves
  <2> QED BY Zenon, <1>4, <2>1 DEF LoopLeaves, NothingBetweenSessions, FlagsAreExact, DrainIsWhole, OutputIsWhole
<1>5. CASE StreamClosed
  <2>1. /\ stream.at = "closing" /\ stream'.at = "top" /\ pending' = {} /\ drain'.running = drain.running
        /\ inFlight' = inFlight \ FeedbackSlots
        /\ drain'.lost = drain.lost \union (WaveformSlots \intersect inFlight)
    BY Zenon, <1>5 DEF StreamTypeOK, StreamValue, DrainValue, StreamClosed
  <2>2. StreamTypeOK'
    BY Zenon, <1>5 DEF StreamTypeOK, StreamValue, DrainValue, StreamClosed
  <2>3. FlagsAreExact'
    BY Zenon, <2>1 DEF FlagsAreExact, StreamTypeOK, ReadSlots
  <2> QED BY Zenon, <2>1, <2>2, <2>3 DEF NothingBetweenSessions, DrainIsWhole, OutputIsWhole
<1> QED BY Zenon, <1>1, <1>2, <1>3, <1>4, <1>5 DEF WorkerMoves, WorkerOpens, Opens

LEMMA WorkerPassesInv == StreamInv /\ WorkerPasses => StreamInv'
<1> SUFFICES ASSUME StreamInv, NEW accepted \in SUBSET ReadSlots, LoopPass(accepted)
             PROVE  StreamInv'
  BY Zenon DEF WorkerPasses
<1> USE DEF StreamInv
<1> DEFINE runs == ~stream.midi \/ (capture.requested /\ capture.demand = "fresh")
           starts == runs /\ ~drain.running /\ "waveform" \in stream.pipes
           reads == FeedbackSubmits(accepted)
           bulk == IF starts THEN DrainSubmits(accepted) ELSE {}
<1>1. /\ stream.at = "pump" /\ stream' = stream
      /\ pending' = pending \union reads \union bulk
      /\ inFlight' = inFlight \union reads \union bulk
      /\ starts => StartDrain(accepted)
      /\ ~starts => (~runs /\ drain.running /\ StopDrain) \/ drain' = drain
  BY Zenon DEF LoopPass
<1>2. /\ reads \subseteq FeedbackSlots \ inFlight
      /\ starts => bulk = (WaveformSlots \ inFlight) \intersect accepted /\ ~drain.running
      /\ ~starts => bulk = {}
  BY Zenon DEF DrainSubmits, FeedbackSubmits
<1> HIDE DEF reads, bulk, starts, runs
<1>3. OutputIsWhole'
  BY Zenon, <1>1 DEF OutputIsWhole, Streaming
<1>4. CASE starts
  <2>1. /\ drain'.running = TRUE
        /\ drain'.lost = (drain.lost \intersect inFlight) \union
                         (WaveformSlots \ (inFlight \union accepted))
        /\ drain' \in DrainValue
    BY Zenon, <1>1, <1>4, DrainStarted
  <2>2. StreamTypeOK'
    BY Zenon, <1>1, <1>2, <1>4, <2>1 DEF StreamTypeOK, AllSlots, ReadSlots
  <2>3. FlagsAreExact'
    BY Zenon, <1>1, <1>2, <1>4, <2>1, SlotKinds
      DEF FlagsAreExact, StreamTypeOK, DrainValue
  <2>4. DrainIsWhole'
    BY Zenon, <1>1, <1>2, <1>4, <2>1, SlotKinds DEF DrainIsWhole, FlagsAreExact
  <2> QED BY Zenon, <1>1, <1>3, <2>2, <2>3, <2>4 DEF NothingBetweenSessions
<1>5. CASE ~starts
  <2>1. /\ drain'.lost = drain.lost /\ (drain'.running => drain.running)
        /\ drain' \in DrainValue
    BY ZenonT(90), <1>1, <1>5 DEF StopDrain, StreamTypeOK, StreamValue, DrainValue
  <2>2. StreamTypeOK'
    BY Zenon, <1>1, <1>2, <1>5, <2>1 DEF StreamTypeOK, AllSlots, ReadSlots
  <2>3. FlagsAreExact'
    BY Zenon, <1>1, <1>2, <1>5, <2>1, SlotKinds
      DEF FlagsAreExact, StreamTypeOK, DrainValue
  <2>4. DrainIsWhole'
    BY Zenon, <1>1, <1>2, <1>5, <2>1 DEF DrainIsWhole
  <2> QED BY Zenon, <1>1, <1>3, <2>2, <2>3, <2>4 DEF NothingBetweenSessions
<1> QED BY Zenon, <1>4, <1>5

LEMMA CompletesInv == StreamInv /\ TransfersComplete => StreamInv'
<1> SUFFICES ASSUME StreamInv, NEW ok \in BOOLEAN, NEW held \in BOOLEAN, Completes(ok, held)
             PROVE  StreamInv'
  BY Zenon DEF TransfersComplete
<1> USE DEF StreamInv
<1>1. ASSUME NEW s \in OutSlots, OutComplete(s, ok, held) PROVE StreamInv'
  <2>1. /\ s \in pending /\ UNCHANGED <<inFlight, drain>>
        /\ stream'.at = stream.at
        /\ \/ pending' = pending /\ stream' = stream
           \/ pending' = pending \ {s} /\ ~Streaming'
        /\ stream' \in StreamValue
    BY ZenonT(90), <1>1 DEF OutComplete, OnRunLoop, SubmitOut, Streaming, StreamTypeOK, StreamValue, DrainValue
  <2>2. StreamTypeOK'
    BY Zenon, <2>1 DEF StreamTypeOK
  <2>3. FlagsAreExact' /\ DrainIsWhole'
    BY Zenon, <2>1, SlotKinds DEF FlagsAreExact, DrainIsWhole
  <2>4. OutputIsWhole'
    BY Zenon, <2>1 DEF OutputIsWhole, Streaming
  <2> QED BY Zenon, <2>1, <2>2, <2>3, <2>4 DEF NothingBetweenSessions
<1>2. ASSUME NEW s \in FeedbackSlots, FeedbackComplete(s, held) PROVE StreamInv'
  <2>1. /\ s \in pending /\ UNCHANGED <<stream, drain>>
        /\ \/ pending' = pending /\ inFlight' = inFlight
           \/ pending' = pending \ {s} /\ inFlight' = inFlight \ {s}
    BY Zenon, <1>2 DEF FeedbackComplete, OnRunLoop
  <2>2. StreamTypeOK'
    BY Zenon, <2>1 DEF StreamTypeOK
  <2>3. FlagsAreExact' /\ DrainIsWhole'
    BY Zenon, <2>1, SlotKinds DEF FlagsAreExact, DrainIsWhole
  <2>4. OutputIsWhole'
    BY Zenon, <2>1, SlotKinds DEF OutputIsWhole, Streaming
  <2> QED BY Zenon, <2>1, <2>2, <2>3, <2>4 DEF NothingBetweenSessions
<1>3. ASSUME NEW s \in WaveformSlots, WaveformComplete(s, ok, held) PROVE StreamInv'
  <2>1. /\ s \in pending /\ UNCHANGED stream /\ drain'.running = drain.running
        /\ \/ pending' = pending /\ inFlight' = inFlight /\ drain'.lost = drain.lost \ {s}
           \/ /\ pending' = pending \ {s} /\ inFlight' = inFlight \ {s}
              /\ drain'.lost = IF drain.running THEN drain.lost \union {s} ELSE drain.lost \ {s}
        /\ drain' \in DrainValue
    BY Zenon, <1>3 DEF WaveformComplete, OnRunLoop, StreamTypeOK, StreamValue, DrainValue
  <2>2. StreamTypeOK'
    BY Zenon, <2>1 DEF StreamTypeOK
  <2>3. s \notin drain.lost
    BY Zenon, <2>1, SlotKinds DEF FlagsAreExact
  <2>4. FlagsAreExact'
    BY Zenon, <2>1, <2>3, SlotKinds DEF FlagsAreExact
  <2>5. DrainIsWhole'
    BY Zenon, <2>1, <2>3 DEF DrainIsWhole
  <2>6. OutputIsWhole'
    BY Zenon, <2>1, SlotKinds DEF OutputIsWhole, Streaming
  <2> QED BY Zenon, <2>1, <2>2, <2>4, <2>5, <2>6 DEF NothingBetweenSessions
<1> QED BY Zenon, <1>1, <1>2, <1>3 DEF Completes

LEMMA OthersCallInv == StreamInv /\ OthersCall => StreamInv'
<1> SUFFICES ASSUME StreamInv, OthersCall PROVE StreamInv'
  BY Zenon
<1> USE DEF StreamInv
<1>1. CASE StreamStarts
  <2>1. /\ stream.at = "ended" /\ stream'.at = "top" /\ pending' = pending
        /\ inFlight' = inFlight \ FeedbackSlots
        /\ drain'.running = FALSE /\ drain'.lost = drain.lost /\ StreamTypeOK'
    BY Zenon, <1>1 DEF StreamStarts, StreamTypeOK, StreamValue, DrainValue
  <2>2. FlagsAreExact'
    BY Zenon, <2>1 DEF FlagsAreExact, NothingBetweenSessions
  <2> QED BY Zenon, <2>1, <2>2 DEF NothingBetweenSessions, DrainIsWhole, OutputIsWhole
<1>2. CASE RequestRestart
  <2>1. StreamTypeOK'
    BY Zenon, <1>2 DEF StreamTypeOK, StreamValue, DrainValue, RequestRestart
  <2> QED BY <1>2, <2>1, FlagsOnlyInv DEF RequestRestart, StreamTypeOK, Streaming
<1>3. CASE StreamStops
  <2>1. StreamTypeOK'
    BY Zenon, <1>3 DEF StreamTypeOK, StreamValue, DrainValue, StreamStops
  <2> QED BY <1>3, <2>1, FlagsOnlyInv DEF StreamStops, StreamTypeOK, Streaming
<1> QED BY Zenon, <1>1, <1>2, <1>3 DEF OthersCall

LEMMA StreamNextInv == StreamInv /\ [StreamNext]_streamVars => StreamInv'
<1> SUFFICES ASSUME StreamInv, [StreamNext]_streamVars PROVE StreamInv'
  BY Zenon
<1>1. CASE ReaderAsks \/ UNCHANGED streamVars
  <2>1. UNCHANGED <<stream, pending, inFlight, drain>>
    BY Zenon, <1>1 DEF ReaderAsks, ReadRequests, ReadDemands, DemandAges, streamVars
  <2>2. StreamTypeOK'
    BY Zenon, <2>1 DEF StreamInv, StreamTypeOK
  <2> QED BY Zenon, <2>1, <2>2, FlagsOnlyInv DEF Streaming
<1> QED
  BY Zenon, <1>1, WorkerMovesInv, WorkerPassesInv, CompletesInv, OthersCallInv DEF StreamNext

\* While a session streams no OUT slot rests, a drain misses only slots whose
\* completion or submission was lost, and in_flight flags and transfers agree, for any
\* numbers of slots and any error limit: through refusals, aborted reads of an older
\* generation, failed sessions, restarts and cleanup (start_waveform_drain,
\* waveform_read_complete, feedback_complete, complete, cleanup).
THEOREM TransfersStayQueued == StreamSpec => []TransfersKeptQueued
<1>1. StreamInv => TransfersKeptQueued
  BY Zenon DEF StreamInv, TransfersKeptQueued, FlagsAreExact, DrainIsWhole, OutputIsWhole
<1> QED BY <1>1, StreamInitInv, StreamNextInv, PTL DEF StreamSpec
=============================================================================
