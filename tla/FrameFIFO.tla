------------------------------ MODULE FrameFIFO ------------------------------
(***************************************************************************)
(* What AudioOutputRing promises its two users: a bounded first-in         *)
(* first-out queue of audio frames.  One side appends a block, the other   *)
(* drops a prefix; nothing is lost, duplicated or reordered in between.    *)
(* A frame is identified by its position in the stream of accepted frames, *)
(* so the queue content is known once its two ends are known; keeping the  *)
(* content explicit makes the refinement a statement about the stored      *)
(* samples and not only about the two indices.                             *)
(***************************************************************************)
EXTENDS Naturals, Sequences

CONSTANTS Capacity

VARIABLES queue,   \* the frames accepted and not yet released, oldest first
          next     \* identity of the next frame the producer appends

fifoVars == <<queue, next>>

FifoInit == queue = <<>> /\ next = 1

\* The n frames that follow the last accepted one.
Block(n) == [i \in 1..n |-> next + i - 1]

Put(n) == /\ Len(queue) + n <= Capacity
          /\ queue' = queue \o Block(n)
          /\ next' = next + n

Take(n) == /\ n <= Len(queue)
           /\ queue' = SubSeq(queue, n + 1, Len(queue))
           /\ UNCHANGED next

FifoNext == \E n \in 1..Capacity : Put(n) \/ Take(n)

FifoSpec == FifoInit /\ [][FifoNext]_fifoVars
=============================================================================
