------------------------- MODULE AudioPacketPolicy -------------------------
(***************************************************************************)
(* How many frames the next USB packet carries.  Feedback reports of the   *)
(* controller, one number of frames for a millisecond, wait in a bounded   *)
(* queue; every eighth packet takes one and becomes a pattern of eight     *)
(* packet sizes.  An invalid report replays the pattern of one lap before  *)
(* from the history, and an empty queue falls back to the nominal rate.    *)
(* Both sides run on the run loop of the transport thread, so every        *)
(* function is one step.                                                   *)
(***************************************************************************)
EXTENDS Integers, Sequences, SequencesExt

CONSTANTS
  QueueCapacity,   \* kFeedbackQueueCapacity, 32
  Laps,            \* patterns in the history: kPatternHistorySize / 8, 16
  Window,          \* kFeedbackWindow, 40000
  Lengths,         \* the lengths in bytes of the packets of the feedback pipe
  Reports          \* the first bytes of those packets

ASSUME PolicyAssumption ==
  /\ QueueCapacity \in Nat \ {0} /\ Laps \in Nat \ {0, 1} /\ Window \in Nat \ {0}
  /\ Lengths \subseteq Nat /\ Reports \subseteq 0..255

VARIABLES
  queue, queueRead, queueCount,                \* feedbackQueue_, ...
  pattern, patternIndex,                       \* feedbackPattern_, patternIndex_
  history, historyCursor, reference, locked,   \* patternHistory_, ..., patternLocked_
  nominalFraction,                             \* nominalFraction_
  window, windowIndex, windowCount, sum,       \* feedbackWindow_, feedbackIndex_, ...
  measured,                                    \* measuredClockMilliHz_
  pending,     \* ghost: the reports not yet taken, oldest first
  latest,      \* ghost: the valid reports of the last window
  lap,         \* ghost: patterns since the last invalid report's, with it, at most Laps
  owed         \* ghost: what the nominal rate owes, in tenths of a frame

queueVars == <<queue, queueRead, queueCount, pending>>
patternVars == <<pattern, patternIndex, history, historyCursor, reference, locked,
                 nominalFraction, lap, owed>>
windowVars == <<window, windowIndex, windowCount, sum, measured, latest>>
policyVars == <<queueVars, patternVars, windowVars>>

Invalid == 0

\* The patterns for 42 to 46 frames.
Patterns == <<<<6, 5, 5, 5, 6, 5, 5, 5>>,
              <<5, 5, 6, 5, 6, 5, 6, 5>>,
              <<6, 5, 6, 5, 6, 5, 6, 5>>,
              <<6, 6, 5, 6, 5, 6, 5, 6>>,
              <<5, 6, 6, 6, 5, 6, 6, 6>>>>

\* Faulty variant: the row before.
BuildRowBefore == [f \in 42..46 |-> Patterns[IF f = 42 THEN 1 ELSE f - 42]]

\* AudioFeedbackPatternPolicy::build.
Build == [f \in 42..46 |-> Patterns[f - 41]]

Total(p) == p[1] + p[2] + p[3] + p[4] + p[5] + p[6] + p[7] + p[8]

Packets == 8 * Laps

PolicyInit ==
  /\ queue = [i \in 0..QueueCapacity - 1 |-> 0] /\ queueRead = 0 /\ queueCount = 0
  /\ pattern = Build[44] /\ patternIndex = 0
  /\ history = [i \in 0..Packets - 1 |-> 5 + (i % 2) + (IF i % 80 = 0 THEN 1 ELSE 0)]
  /\ historyCursor = 0 /\ reference = 0 /\ locked = FALSE
  /\ nominalFraction = 0
  /\ window = [i \in 0..Window - 1 |-> 0] /\ windowIndex = 0 /\ windowCount = 0 /\ sum = 0
  /\ measured = 44100000
  /\ pending = <<>> /\ latest = <<>> /\ lap = 0 /\ owed = 0
-----------------------------------------------------------------------------
(* Feedback                                                                *)

Latest(s, n) == IF Len(s) > n THEN Tail(s) ELSE s

\* A full queue drops its oldest report.
Enqueue(report) ==
  LET full == queueCount = QueueCapacity
      read == IF full THEN (queueRead + 1) % QueueCapacity ELSE queueRead
      count == IF full THEN queueCount - 1 ELSE queueCount
  IN  /\ queueRead' = read
      /\ queue' = [queue EXCEPT ![(read + count) % QueueCapacity] = report]
      /\ queueCount' = count + 1
      /\ pending' = Latest(Append(pending, report), QueueCapacity)

\* The average of the last Window reports.
ObserveWindow(report) ==
  LET full == windowCount = Window
      added == sum - (IF full THEN window[windowIndex] ELSE 0) + report
      count == IF full THEN windowCount ELSE windowCount + 1
  IN  /\ sum' = added
      /\ windowCount' = count
      /\ window' = [window EXCEPT ![windowIndex] = report]
      /\ windowIndex' = (windowIndex + 1) % Window
      /\ measured' = IF count = Window THEN (added * 1000000) \div Window ELSE measured
      /\ latest' = Latest(Append(latest, report), Window)

\* AudioFeedbackParser::parse of a packet of the feedback pipe.
parse(packet) ==
  CASE ~packet.ok -> "transferError"
    [] packet.ok /\ packet.bytes < 3 -> "shortPacket"
    [] packet.ok /\ packet.bytes > 3 -> "unexpectedLength"
    [] packet.ok /\ packet.bytes = 3 /\ packet.report \notin 42..46 -> "outOfRange"
    [] OTHER -> "valid"

\* A valid report is within 42..46: parse() has seen to it already.
observeFeedback(report) ==
  /\ ObserveWindow(report)
  /\ Enqueue(report)

observeInvalidFeedback ==
  /\ Enqueue(Invalid)
  /\ UNCHANGED windowVars

\* AudioTransportRuntime::publish, for every packet of a completed transfer.  A
\* failed transfer leaves the policy as it is.
publish(packet) ==
  /\ IF parse(packet) = "valid" THEN observeFeedback(packet.report)
     ELSE IF parse(packet) # "transferError" THEN observeInvalidFeedback
     ELSE UNCHANGED <<queueVars, windowVars>>
  /\ UNCHANGED patternVars
-----------------------------------------------------------------------------
(* Packets                                                                 *)

AtCursor == [i \in 1..8 |-> history[(historyCursor + i - 1) % Packets]]

Written(p) ==
  [i \in 0..Packets - 1 |->
     IF i \in historyCursor..historyCursor + 7 THEN p[i - historyCursor + 1] ELSE history[i]]

\* Faulty variant: the reference is where the replayed pattern ends.
TakeInvalidAfter ==
  /\ pattern' = AtCursor
  /\ historyCursor' = (historyCursor + 8) % Packets
  /\ reference' = historyCursor'
  /\ locked' = FALSE
  /\ lap' = 1
  /\ UNCHANGED <<history, nominalFraction, owed>>

\* An invalid report replays the history; the lock is lost until a lap later.
TakeInvalid ==
  /\ pattern' = AtCursor
  /\ historyCursor' = (historyCursor + 8) % Packets
  /\ reference' = historyCursor
  /\ locked' = FALSE
  /\ lap' = 1
  /\ UNCHANGED <<history, nominalFraction, owed>>

TakeValid(report) ==
  /\ pattern' = Build[report]
  /\ history' = Written(Build[report])
  /\ historyCursor' = (historyCursor + 8) % Packets
  /\ locked' = (locked \/ historyCursor' = reference)
  /\ lap' = IF lap = Laps THEN Laps ELSE lap + 1
  /\ UNCHANGED <<reference, nominalFraction, owed>>

\* 44 frames, and one more in every ten milliseconds.
TakeNominal ==
  LET fraction == nominalFraction + 100
      carry == fraction >= 1000
  IN  /\ nominalFraction' = IF carry THEN fraction - 1000 ELSE fraction
      /\ pattern' = Build[IF carry THEN 45 ELSE 44]
      /\ owed' = owed + 441 - 10 * Total(pattern')
      /\ UNCHANGED <<history, historyCursor, reference, locked, lap>>

Dequeue ==
  /\ queueRead' = (queueRead + 1) % QueueCapacity
  /\ queueCount' = queueCount - 1
  /\ pending' = Tail(pending)
  /\ UNCHANGED queue

\* nextPacketFrames() returns pattern'[patternIndex + 1].
nextPacketFrames ==
  /\ \/ /\ patternIndex # 0
        /\ UNCHANGED <<pattern, history, historyCursor, reference, locked,
                       nominalFraction, lap, owed, queueVars>>
     \/ /\ patternIndex = 0 /\ queueCount # 0
        /\ IF queue[queueRead] = Invalid THEN TakeInvalid ELSE TakeValid(queue[queueRead])
        /\ Dequeue
     \/ /\ patternIndex = 0 /\ queueCount = 0
        /\ TakeNominal
        /\ UNCHANGED queueVars
  /\ patternIndex' = (patternIndex + 1) % 8
  /\ UNCHANGED windowVars

PolicyNext ==
  \/ \E packet \in [ok : BOOLEAN, bytes : Lengths, report : Reports] : publish(packet)
  \/ nextPacketFrames

PolicySpec == PolicyInit /\ [][PolicyNext]_policyVars
-----------------------------------------------------------------------------
\* The types; every count and index stays within its array.
PolicyTypeOK ==
  /\ queue \in [0..QueueCapacity - 1 -> {Invalid} \cup 42..46]
  /\ queueRead \in 0..QueueCapacity - 1 /\ queueCount \in 0..QueueCapacity
  /\ pattern \in [1..8 -> 5..6] /\ patternIndex \in 0..7
  /\ history \in [0..Packets - 1 -> 5..6]
  /\ historyCursor \in 0..Packets - 1 /\ reference \in 0..Packets - 1 /\ locked \in BOOLEAN
  /\ nominalFraction \in 0..999
  /\ windowIndex \in 0..Window - 1 /\ windowCount \in 0..Window /\ sum \in Nat /\ measured \in Nat

Sum(s) == FoldLeft(LAMBDA a, b : a + b, 0, s)

\* Nothing but the oldest reports is lost: the circular queue holds the newest
\* reports not yet taken, in their order, and the running sum is that of the last
\* window of valid reports, so that the measured clock is their average once there
\* is one (observeFeedback, observeInvalidFeedback).
FeedbackIsKept ==
  /\ PolicyTypeOK
  /\ queueCount = Len(pending)
  /\ \A i \in 1..queueCount : queue[(queueRead + i - 1) % QueueCapacity] = pending[i]
  /\ sum = Sum(latest)
  /\ Len(latest) = Window => measured = (Sum(latest) * 1000000) \div Window

\* A report taken is the number of frames of the millisecond it begins; without one
\* a millisecond is still a whole pattern of 42 to 46 frames, whether it comes from
\* the history or from the nominal rate.
FramesFollowFeedback ==
  [][patternIndex = 0 /\ patternIndex' = 1
       => IF pending = <<>> \/ Head(pending) = Invalid THEN Total(pattern') \in 42..46
          ELSE Total(pattern') = Head(pending)]_policyVars

\* The policy is locked exactly when it has gone once round the history since the
\* last invalid report, or since the start: every pattern there is then the
\* controller's, but for the one that was replayed.  Without feedback the output
\* never strays a frame from 44.1 kHz: what the packets owe the nominal rate is the
\* fraction carried.  The reports those patterns come from are the ones kept.
PatternsAreExact ==
  /\ FeedbackIsKept
  /\ locked <=> lap = Laps
  /\ owed * 100 = nominalFraction
=============================================================================
