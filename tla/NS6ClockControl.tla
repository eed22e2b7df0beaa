------------------------- MODULE NS6ClockControl ------------------------
(* The output clock of the earlier driver (NS6ClockControl.c, built with its     *)
(* adaptive pattern scheduler) and the two places of NS6USB.c that drive it on    *)
(* the worker's run loop: feedback_complete hands it every report, fill takes a     *)
(* pattern of eight packets from it and resets it when the last valid report is      *)
(* older than two seconds, which can be in the middle of a pattern.                  *)
EXTENDS Integers, Sequences, FiniteSets

CONSTANTS
    ClockWindow,     \* NS6_FEEDBACK_WINDOW
    ClockCapacity,   \* NS6_FEEDBACK_PATTERN_QUEUE_CAPACITY
    ClockReports     \* values of a feedback report

ASSUME ClockAssumption == ClockWindow \in Nat \ {0} /\ ClockCapacity \in Nat \ {0}

VARIABLES
    clock,     \* NS6ClockControl
    lastValid, \* feedback_last_valid_ms: "none", "fresh", or "stale" after two seconds
    packet,    \* the index in millisecond_frames and its eight packets
    awaited,   \* ghost: the reports no millisecond has used, oldest first
    observed,  \* ghost: the reports since the last reset, the last ClockWindow of them
    debt       \* ghost: what the nominal milliseconds since the reset owe, in 1/10 frame

clockVars == <<clock, lastValid, packet, awaited, observed, debt>>

NominalRate == 44100000

FeedbackPatterns ==
    <<<<6, 5, 5, 5, 6, 5, 5, 5>>, <<5, 5, 6, 5, 6, 5, 6, 5>>, <<6, 5, 6, 5, 6, 5, 6, 5>>,
      <<6, 6, 5, 6, 5, 6, 5, 6>>, <<5, 6, 6, 6, 5, 6, 6, 6>>>>
PatternOf(frames) == FeedbackPatterns[frames - 41]

\* ns6_clock_control_init
ClockReset ==
    [queue |-> [i \in 0..ClockCapacity - 1 |-> 0], read |-> 0, count |-> 0,
     window |-> [i \in 0..ClockWindow - 1 |-> 0], index |-> 0, seen |-> 0, sum |-> 0,
     rate |-> NominalRate, locked |-> FALSE, fraction |-> 0]

ClockInit ==
    /\ clock = ClockReset /\ lastValid = "none"
    /\ packet = [index |-> 0, sizes |-> PatternOf(44)]
    /\ awaited = <<>> /\ observed = <<>> /\ debt = 0

--------------------------------------------------------------------------

\* ns6_clock_control_feedback_value_is_valid
ValidReport(report) == report \in 42..46

\* The mean of a whole window of reports, as a rate.
MeanRate(sum) == (sum * 1000000) \div ClockWindow

\* ns6_clock_control_observe: the newest ClockWindow reports are averaged, the
\* newest ClockCapacity wait for a millisecond.
Observed(report) ==
    LET full == clock.count = ClockCapacity
        read == IF full THEN (clock.read + 1) % ClockCapacity ELSE clock.read
        count == IF full THEN clock.count - 1 ELSE clock.count
        whole == clock.seen = ClockWindow
        seen == IF whole THEN clock.seen ELSE clock.seen + 1
        sum == clock.sum + report - (IF whole THEN clock.window[clock.index] ELSE 0)
    IN  [clock EXCEPT !.queue[(read + count) % ClockCapacity] = report,
                      !.read = read, !.count = count + 1,
                      !.window[clock.index] = report, !.index = (@ + 1) % ClockWindow,
                      !.seen = seen, !.sum = sum, !.locked = TRUE,
                      !.rate = IF seen = ClockWindow THEN MeanRate(sum) ELSE @]

Newest(s, n) == IF Len(s) > n THEN Tail(s) ELSE s

\* One report of feedback_complete; a value out of range changes nothing.
ReportArrives(report) ==
    /\ ValidReport(report)
    /\ clock' = Observed(report)
    /\ lastValid' = "fresh"
    /\ awaited' = Newest(Append(awaited, report), ClockCapacity)
    /\ observed' = Newest(Append(observed, report), ClockWindow)
    /\ UNCHANGED <<packet, debt>>

ReportAges ==
    /\ lastValid = "fresh"
    /\ lastValid' = "stale"
    /\ UNCHANGED <<clock, packet, awaited, observed, debt>>

\* Faulty variant: the running sum survives.
FeedbackResetKeepingSum == [ClockReset EXCEPT !.queue = clock.queue, !.sum = clock.sum]

\* ns6_clock_control_reset_feedback empties the queue without clearing it.
FeedbackReset == [ClockReset EXCEPT !.queue = clock.queue]

\* ns6_clock_control_next_millisecond of the clock c: a report, or the nominal cadence.
NextMillisecond(c) ==
    IF c.count > 0
    THEN [clock |-> [c EXCEPT !.read = (@ + 1) % ClockCapacity, !.count = @ - 1],
          frames |-> c.queue[c.read]]
    ELSE LET carry == c.fraction + 100 >= 1000
         IN  [clock |-> [c EXCEPT !.fraction = @ + 100 - (IF carry THEN 1000 ELSE 0)],
              frames |-> IF carry THEN 45 ELSE 44]

\* fill, one packet: the test for stale feedback, then at every eighth packet a new
\* pattern.
FillPacket ==
    /\ LET stale == clock.locked /\ lastValid = "stale"
           base == IF stale THEN FeedbackReset ELSE clock
           waits == IF stale THEN <<>> ELSE awaited
           owes == IF stale THEN 0 ELSE debt
           next == NextMillisecond(base)
           starts == packet.index = 0
       IN  /\ clock' = IF starts THEN next.clock ELSE base
           /\ packet' = [index |-> (packet.index + 1) % 8,
                         sizes |-> IF starts THEN PatternOf(next.frames) ELSE packet.sizes]
           /\ awaited' = IF starts /\ waits # <<>> THEN Tail(waits) ELSE waits
           /\ observed' = IF stale THEN <<>> ELSE observed
           /\ debt' = IF starts /\ waits = <<>> THEN owes + 441 - 10 * next.frames ELSE owes
           /\ lastValid' = IF stale THEN "none" ELSE lastValid

ClockNext == (\E report \in ClockReports : ReportArrives(report)) \/ ReportAges \/ FillPacket

ClockSpec == ClockInit /\ [][ClockNext]_clockVars

--------------------------------------------------------------------------

\* The frames of all reports of s: the n-th of the i-th report.
Frames(s) == {p \in (1..Len(s)) \X (1..46) : p[2] <= s[p[1]]}
Together(s) == Cardinality(Frames(s))

\* The reports that wait for a millisecond are the newest ones, in their order; the
\* rate is nominal until a whole window of reports came since the last reset and
\* their mean from then on; the clock is locked exactly when a report came since
\* the reset, and its age is then known, so that it can grow stale; and what the
\* milliseconds without a report owe the nominal rate is the fraction that is
\* carried.  A reset of fill, in the middle of a pattern too, leaves all of this.
ClockFollowsReports ==
    /\ clock.count = Len(awaited)
    /\ \A i \in 1..clock.count : clock.queue[(clock.read + i - 1) % ClockCapacity] = awaited[i]
    /\ clock.seen = Len(observed) /\ clock.sum = Together(observed)
    /\ clock.rate = IF clock.seen = ClockWindow
                    THEN (Together(observed) * 1000000) \div ClockWindow ELSE NominalRate
    /\ clock.locked <=> observed # <<>>
    /\ clock.locked <=> lastValid # "none"
    /\ debt * 100 = clock.fraction

==========================================================================
