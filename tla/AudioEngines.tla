---------------------------- MODULE AudioEngines ----------------------------
(***************************************************************************)
(* The two users of the frame ring, one of which a behaviour is about:     *)
(*   playback  AudioOutputEngine::writeMix fills the ring, the packets of  *)
(*             an AudioOutTransferBatch empty it; what is missing from a   *)
(*             packet is silence, and as much of the source is skipped;    *)
(*   capture   AudioInputEngine::publishUSBBlock fills it, readInput       *)
(*             empties it, after a reserve of targetFrames_ is there.      *)
(* A call is the sequence of its ring operations; the other thread runs    *)
(* between them.  The conversion of samples, which neither loses nor moves *)
(* a frame, and the statistics are left out; a call that only returns is   *)
(* no step.                                                                *)
(***************************************************************************)
EXTENDS AudioOutputRing

CONSTANTS
  Target,        \* targetFrames_: 2048 for rings of 4096 frames, 0 for smaller ones
  Stride,        \* kSourceStrideBytes
  MaxTransfer    \* maxTransferFrames_

ASSUME EngineAssumption ==
  /\ Target \in Nat /\ Target <= Capacity
  /\ Stride \in Nat \ {0} /\ MaxTransfer \in Nat \ {0}

VARIABLES
  engine,   \* which user it is, and its targetFrames_
  primed,   \* AudioInputEngine::primed_
  request   \* the consumer's call

engineVars == <<vars, engine, primed, request>>

NoRequest == [pc |-> "none"]

EngineInit ==
  /\ Init
  /\ engine \in {[kind |-> "playback", target |-> 0]} \cup [kind : {"capture"}, target : {0, Target}]
  /\ primed = FALSE
  /\ request = NoRequest

\* published is a ghost: the frames the producer had published by then.
Request(frames, step) ==
  [pc |-> "read", frames |-> frames, step |-> ClampedStep(step), published |-> written]
-----------------------------------------------------------------------------
(* The producer                                                            *)

writeMix ==
  /\ engine.kind = "playback"
  /\ \E frames \in 1..MaxBlock : WriteLoad(frames)
  /\ UNCHANGED <<engine, primed, request>>

\* AudioInputDecoder::decode; 0 for a block that is refused.
Decode(bytes) ==
  IF bytes % Stride # 0 \/ bytes \div Stride > MaxTransfer THEN 0 ELSE bytes \div Stride

publishUSBBlock ==
  /\ engine.kind = "capture"
  /\ \E bytes \in 1..(MaxBlock * Stride) : Decode(bytes) # 0 /\ WriteLoad(Decode(bytes))
  /\ UNCHANGED <<engine, primed, request>>

ProducerCopies == (WriteCopy \/ WritePublish) /\ UNCHANGED <<engine, primed, request>>
-----------------------------------------------------------------------------
(* The consumer                                                            *)

\* AudioOutPacket::build asks the policy for the size and the step.
BuildPacket(frames, step) ==
  /\ engine.kind = "playback" /\ request = NoRequest
  /\ request' = Request(frames, step)
  /\ UNCHANGED <<vars, engine, primed>>

\* The clamped correction: faster than the nominal rate only above the target.
Corrects(step) ==
  /\ Available < engine.target => step <= Unit
  /\ Available = engine.target => step = Unit
  /\ Available > engine.target => step >= Unit

readInput(frames, step) ==
  /\ engine.kind = "capture" /\ request = NoRequest
  /\ IF engine.target = 0 THEN step = Unit /\ UNCHANGED primed
     ELSE /\ primed \/ Available >= engine.target
          /\ Corrects(step)
          /\ primed' = TRUE
  /\ request' = Request(frames, step)
  /\ UNCHANGED <<vars, engine>>

Missing == request.frames - Len(reader.plan)

ReadRing ==
  /\ request.pc = "read"
  /\ IF engine = [kind |-> "capture", target |-> 0] THEN ReadLoad(request.frames)
     ELSE ResampleLoad(request.frames, request.step)
  /\ UNCHANGED <<engine, primed, request>>

SkipMissing ==
  /\ request.pc = "skip"
  /\ AdvanceLoad(request.frames, request.step)
  /\ UNCHANGED <<engine, primed, request>>

ConsumerCopies == ReadCopy /\ UNCHANGED <<engine, primed, request>>

\* The index is stored; a packet that lacks frames goes on to skip them.
ConsumerReleases ==
  /\ ReadPublish
  /\ request' = IF engine.kind = "playback" /\ request.pc = "read" /\ Missing # 0
                THEN [request EXCEPT !.pc = "skip", !.frames = Missing]
                ELSE NoRequest
  /\ UNCHANGED <<engine, primed>>

EngineNext ==
  \/ writeMix \/ publishUSBBlock \/ ProducerCopies
  \/ \E frames \in 1..MaxBlock, step \in Steps : BuildPacket(frames, step) \/ readInput(frames, step)
  \/ ReadRing \/ SkipMissing \/ ConsumerCopies \/ ConsumerReleases

EngineSpec == EngineInit /\ [][EngineNext]_engineVars
-----------------------------------------------------------------------------
\* Silence takes the place of a frame only when the ring has run dry: a call that
\* delivers fewer frames than it was asked for releases every frame the producer
\* had published when it began, whatever the producer adds meanwhile and whatever
\* fraction of a frame was carried over from the last call.
SilenceOnlyWhenDry ==
  request.pc = "read" /\ reader.pc = "publish" /\ Missing > 0
    => taken + reader.count >= request.published

(* The strengthening under which it is inductive, together with the ring's *)
(* own invariant.                                                          *)

\* A call in progress, if any; the ring is only read for one.
RequestOK ==
  /\ \/ request = NoRequest
     \/ request \in [pc : {"read", "skip"}, frames : 1..MaxBlock,
                     step : {ClampedStep(step) : step \in Steps}, published : Nat]
  /\ request = NoRequest => reader.pc = "idle"
  /\ request # NoRequest => request.published <= written

\* From the load on, a read delivers no more than it was asked for, and releases
\* all that was published when it delivers less.
ReadOK ==
  request.pc = "read" /\ reader.pc # "idle" =>
    /\ Len(reader.plan) <= request.frames
    /\ Missing > 0 => taken + reader.count >= request.published

EngineInv == IndInv /\ RequestOK /\ ReadOK
=============================================================================
