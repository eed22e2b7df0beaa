------------------------ MODULE MIDIInputReaderProofs ------------------------
(***************************************************************************)
(* Proofs about MIDIInputReader for every number of read slots, every      *)
(* width of the sequence counters, every length of a report and every      *)
(* script of the controller: the session counts the holders of its event   *)
(* source exactly, no read is in flight without it, and the reader is      *)
(* destroyed only when idle.                                               *)
(*                                                                         *)
(* What makes the promise inductive is that the reader has its session as  *)
(* long as it has the event source, and what stop() has achieved at each   *)
(* place of the thread, the callbacks nested in its drain included.        *)
(***************************************************************************)
EXTENDS MIDIInputReader, TLAPS

Numbers == 0..(SequenceModulus - 1)
Bytes == {Stream[i] : i \in 1..Len(Stream)} \cup {[kind |-> "filler", tag |-> 0]}
Payloads == {<<>>} \cup [1..PayloadBytes -> Bytes]

ReaderValue == [session : BOOLEAN, running : BOOLEAN, events : BOOLEAN]
SlotValue == [state : {"idle", "busy", "due", "completed"}, good : BOOLEAN, sequence : Numbers,
              payload : Payloads]
ThreadValue == [pc : {"loop", "start", "drain", "release", "stopped", "process", "ended"},
                goal : {"serve", "startFailed", "recover", "shutdown"},
                result : {"ok", "error", "timeout"}, back : {"loop", "drain"}]

ValuesOK ==
  /\ reader \in ReaderValue /\ slot \in [Slots -> SlotValue] /\ thread \in ThreadValue
  /\ nextSubmit \in Numbers /\ nextProcess \in Numbers
  /\ output \in BOOLEAN /\ forwarder \in BOOLEAN /\ stopRequested \in BOOLEAN
  /\ device \in 0..(Len(Stream) - 1)

\* The event source has the output worker and the reader as clients, and the reader
\* has it exactly while it has its session.
SourceCounted ==
  /\ eventClients = (IF output THEN 1 ELSE 0) + (IF reader.events THEN 1 ELSE 0)
  /\ reader.session <=> reader.events
  /\ reader.running => reader.session
  /\ InFlight # {} => reader.session

\* What start() finds and what stop() has achieved where the thread is.
StopStage ==
  /\ thread.pc = "start" => ~reader.session
  /\ thread.pc \in {"drain", "release", "stopped"} => ~reader.running
  /\ thread.pc = "process" /\ thread.back = "drain" => ~reader.running
  /\ thread.pc = "release" => InFlight = {}
  /\ thread.pc = "stopped" /\ thread.result = "ok" => InFlight = {}
  /\ thread.pc = "ended" => ~reader.running /\ InFlight = {}

\* The inductive invariant.
ReaderInv == ValuesOK /\ SourceCounted /\ StopStage

-----------------------------------------------------------------------------
(* Values                                                                  *)

LEMMA StreamHasBytes == Len(Stream) \in Nat \ {0}
BY Zenon, MIDIReaderAssumption DEF Stream

LEMMA NumbersWrap ==
  /\ 0 \in Numbers /\ \A n \in 0..SlotCount : n \in Numbers
  /\ \A q \in Numbers : Increment(q) \in Numbers
<1>1. 0 \in Numbers /\ \A n \in 0..SlotCount : n \in Numbers
  BY MIDIReaderAssumption DEF Numbers
<1>2. \A q \in Numbers : Increment(q) \in Numbers
  BY MIDIReaderAssumption DEF Numbers, Increment
<1> QED
  BY Zenon, <1>1, <1>2

\* A report is empty or whole.
LEMMA ReportLength ==
  /\ <<>> \in Payloads
  /\ \A d \in Payloads : Len(d) \in {0, PayloadBytes}
  /\ \A p \in 0..(Len(Stream) - 1), n \in 0..PayloadBytes : Payload(p, n) \in Payloads
<1>1. PayloadBytes \in Nat
  BY Zenon, MIDIReaderAssumption
<1>2. \A d \in [1..PayloadBytes -> Bytes] : Len(d) = PayloadBytes
  BY <1>1
<1>3. Len(<<>>) = 0
  BY Zenon
<1>4. ASSUME NEW p \in 0..(Len(Stream) - 1), NEW n \in 0..PayloadBytes
      PROVE  Payload(p, n) \in [1..PayloadBytes -> Bytes]
  <2>1. ASSUME NEW i \in 1..PayloadBytes
        PROVE  (IF i <= n THEN Stream[((p + i - 1) % Len(Stream)) + 1]
                ELSE [kind |-> "filler", tag |-> 0]) \in Bytes
    <3> DEFINE N == Len(Stream)
    <3>1. N \in Nat \ {0} /\ p + i - 1 \in Nat
      BY <1>1, StreamHasBytes
    <3> HIDE DEF N
    <3>2. ((p + i - 1) % N) + 1 \in 1..N
      BY <3>1
    <3> QED
      BY Zenon, <3>2 DEF Bytes, N
  <2> QED
    BY Zenon, <2>1 DEF Payload
<1> QED
  BY Zenon, <1>2, <1>3, <1>4 DEF Payloads

\* What the thread starts from, and what a stop leaves it with.
LEMMA ThreadAt ==
  ASSUME NEW pc \in {"loop", "start", "drain", "release", "stopped", "process", "ended"},
         NEW goal \in {"serve", "startFailed", "recover", "shutdown"}
  PROVE  /\ At(pc, goal) \in ThreadValue
         /\ At(pc, goal).pc = pc /\ At(pc, goal).goal = goal /\ At(pc, goal).result = "ok"
         /\ At(pc, goal).back = "loop"
BY Zenon DEF At, ThreadValue

LEMMA StopFromGoesTo ==
  ASSUME NEW goal \in {"serve", "startFailed", "recover", "shutdown"}, NEW flight,
         StopFrom(goal, flight)
  PROVE  /\ thread' \in ThreadValue
         /\ flight = {} => thread'.pc = "release"
         /\ flight # {} => thread'.pc = "drain"
<1>1. PICK outcome \in {"ok", "error"} :
        thread' = [At(IF flight = {} THEN "release" ELSE "drain", goal) EXCEPT !.result = outcome]
  BY Zenon DEF StopFrom
<1>2. CASE flight = {}
  BY Zenon, <1>1, <1>2 DEF At, ThreadValue
<1>3. CASE flight # {}
  BY Zenon, <1>1, <1>3 DEF At, ThreadValue
<1> QED
  BY Zenon, <1>2, <1>3

LEMMA IdleIsValue ==
  /\ IdleSlot \in SlotValue /\ IdleSlot.state = "idle"
  /\ \A q \in Numbers : /\ [IdleSlot EXCEPT !.state = "busy", !.sequence = q] \in SlotValue
                        /\ [IdleSlot EXCEPT !.state = "busy", !.sequence = q].state = "busy"
<1>1. <<>> \in Payloads
  BY Zenon, ReportLength
<1>2. IdleSlot \in SlotValue /\ IdleSlot.state = "idle"
  BY Zenon, <1>1, NumbersWrap DEF IdleSlot, SlotValue
<1>3. ASSUME NEW q \in Numbers
      PROVE  /\ [IdleSlot EXCEPT !.state = "busy", !.sequence = q] \in SlotValue
             /\ [IdleSlot EXCEPT !.state = "busy", !.sequence = q].state = "busy"
  BY Zenon, <1>2 DEF SlotValue
<1> QED
  BY Zenon, <1>2, <1>3

LEMMA ReaderInitInv == Init => ReaderInv
<1> SUFFICES ASSUME Init PROVE ReaderInv
  BY Zenon
<1>1. reader \in ReaderValue /\ ~reader.session /\ ~reader.events /\ ~reader.running
  BY Zenon DEF Init, OffReader, ReaderValue
<1>2. slot \in [Slots -> SlotValue] /\ InFlight = {}
  BY Zenon, IdleIsValue DEF Init, InFlight
<1>3. thread \in ThreadValue /\ thread.pc \in {"start", "loop"}
  BY ThreadAt DEF Init
<1>4. 0 \in 0..(Len(Stream) - 1)
  BY StreamHasBytes
<1>5. ValuesOK
  BY Zenon, <1>1, <1>2, <1>3, <1>4, NumbersWrap DEF Init, ValuesOK
<1>6. eventClients = (IF output THEN 1 ELSE 0) + (IF reader.events THEN 1 ELSE 0)
  BY <1>1 DEF Init
<1>7. SourceCounted
  BY Zenon, <1>1, <1>2, <1>6 DEF SourceCounted
<1>8. StopStage
  BY Zenon, <1>1, <1>2, <1>3 DEF StopStage
<1> QED
  BY Zenon, <1>5, <1>7, <1>8 DEF ReaderInv

-----------------------------------------------------------------------------
(* Steps                                                                   *)

\* The fields of the variables that are records.
LEMMA Fields ==
  ASSUME ReaderInv
  PROVE  /\ reader.session \in BOOLEAN /\ reader.running \in BOOLEAN /\ reader.events \in BOOLEAN
         /\ thread.pc \in {"loop", "start", "drain", "release", "stopped", "process", "ended"}
         /\ thread.goal \in {"serve", "startFailed", "recover", "shutdown"}
         /\ thread.result \in {"ok", "error", "timeout"} /\ thread.back \in {"loop", "drain"}
BY Zenon DEF ReaderInv, ValuesOK, ReaderValue, ThreadValue

\* Steps of the thread that touch neither the reader nor its reads.
LEMMA ThreadMovesInv ==
  ASSUME ReaderInv, UNCHANGED <<reader, slot, nextSubmit, nextProcess, eventClients, output, device>>,
         thread' \in ThreadValue, forwarder' \in BOOLEAN, stopRequested' \in BOOLEAN, StopStage'
  PROVE  ReaderInv'
<1>1. ValuesOK'
  BY Zenon DEF ReaderInv, ValuesOK
<1>2. InFlight' = InFlight
  BY Zenon DEF InFlight
<1>3. SourceCounted'
  BY Zenon, <1>2 DEF ReaderInv, SourceCounted
<1> QED
  BY Zenon, <1>1, <1>3 DEF ReaderInv

LEMMA DrainEndsInv == ReaderInv /\ (DrainTimeout \/ DrainDone) => ReaderInv'
<1> SUFFICES ASSUME ReaderInv, DrainTimeout \/ DrainDone PROVE ReaderInv'
  BY Zenon
<1>1. /\ UNCHANGED <<reader, slot, nextSubmit, nextProcess, eventClients, output, device>>
      /\ UNCHANGED <<forwarder, stopRequested>> /\ thread.pc = "drain" /\ InFlight' = InFlight
  BY Zenon DEF DrainTimeout, DrainDone, counters, usb, InFlight
<1>2. /\ forwarder' \in BOOLEAN /\ stopRequested' \in BOOLEAN /\ thread \in ThreadValue
      /\ ~reader.running
  BY Zenon, <1>1 DEF ReaderInv, ValuesOK, StopStage
<1>3. CASE DrainTimeout
  <2>1. thread' = [thread EXCEPT !.pc = "stopped", !.result = "timeout"]
    BY Zenon, <1>3 DEF DrainTimeout
  <2>2. thread' \in ThreadValue /\ thread'.pc = "stopped" /\ thread'.result = "timeout"
    BY Zenon, <1>2, <2>1 DEF ThreadValue
  <2>3. StopStage'
    BY Zenon, <1>1, <1>2, <2>2 DEF StopStage
  <2> QED
    BY Zenon, <1>1, <1>2, <2>2, <2>3, ThreadMovesInv
<1>4. CASE DrainDone
  <2>1. thread' = [thread EXCEPT !.pc = "release"] /\ InFlight = {}
    BY Zenon, <1>4 DEF DrainDone
  <2>2. thread' \in ThreadValue /\ thread'.pc = "release"
    BY Zenon, <1>2, <2>1 DEF ThreadValue
  <2>3. StopStage'
    BY Zenon, <1>1, <1>2, <2>1, <2>2 DEF StopStage
  <2> QED
    BY Zenon, <1>1, <1>2, <2>2, <2>3, ThreadMovesInv
<1> QED
  BY Zenon, <1>3, <1>4

\* The turns of drainCompletions() are over.
LEMMA ProcessDoneInv == ReaderInv /\ ProcessDone => ReaderInv'
<1> SUFFICES ASSUME ReaderInv, ProcessDone PROVE ReaderInv'
  BY Zenon
<1>1. /\ UNCHANGED <<reader, slot, nextSubmit, nextProcess, eventClients, output, device>>
      /\ UNCHANGED <<forwarder, stopRequested>> /\ thread.pc = "process" /\ InFlight' = InFlight
      /\ thread' = [thread EXCEPT !.pc = thread.back]
  BY Zenon DEF ProcessDone, counters, usb, InFlight
<1>2. /\ forwarder' \in BOOLEAN /\ stopRequested' \in BOOLEAN /\ thread \in ThreadValue
      /\ thread.back = "drain" => ~reader.running
  BY Zenon, <1>1 DEF ReaderInv, ValuesOK, StopStage
<1>3. thread' \in ThreadValue /\ thread'.pc = thread.back /\ thread.back \in {"loop", "drain"}
  BY Zenon, <1>1, <1>2 DEF ThreadValue
<1>4. StopStage'
  BY Zenon, <1>1, <1>2, <1>3 DEF StopStage
<1> QED
  BY Zenon, <1>1, <1>2, <1>3, <1>4, ThreadMovesInv

\* stop() returned to recovery, to start() or to the shutdown, or a stop is requested.
LEMMA ReturnsInv == ReaderInv /\ (StopReturns \/ ShutdownReturns \/ RequestStop) => ReaderInv'
<1> SUFFICES ASSUME ReaderInv, StopReturns \/ ShutdownReturns \/ RequestStop PROVE ReaderInv'
  BY Zenon
<1>1. /\ UNCHANGED <<reader, slot, nextSubmit, nextProcess, eventClients, output, device>>
      /\ InFlight' = InFlight
  BY Zenon DEF StopReturns, ShutdownReturns, RequestStop, counters, usb, InFlight
<1>2. /\ forwarder \in BOOLEAN /\ stopRequested \in BOOLEAN /\ thread \in ThreadValue
  BY Zenon DEF ReaderInv, ValuesOK
<1>3. CASE StopReturns
  <2>1. /\ UNCHANGED <<forwarder, stopRequested>>
        /\ thread' = At("loop", "serve") \/ (thread' = At("start", "serve") /\ ~reader.session)
    BY Zenon, <1>3 DEF StopReturns, AfterRecovery
  <2>2. /\ thread' \in ThreadValue
        /\ thread'.pc = "loop" \/ (thread'.pc = "start" /\ ~reader.session)
    BY <2>1, ThreadAt
  <2>3. StopStage'
    BY Zenon, <1>1, <2>2 DEF StopStage
  <2> QED
    BY Zenon, <1>1, <1>2, <2>1, <2>2, <2>3, ThreadMovesInv
<1>4. CASE ShutdownReturns
  <2>1. /\ stopRequested' = stopRequested /\ forwarder' = (forwarder /\ thread.result # "ok")
        /\ thread.pc = "stopped"
        /\ thread' = At(IF thread.result = "ok" THEN "ended" ELSE "loop", "shutdown")
    BY Zenon, <1>4 DEF ShutdownReturns
  <2>2. ~reader.running /\ (thread.result = "ok" => InFlight = {})
    BY Zenon, <2>1 DEF ReaderInv, StopStage
  <2>3. forwarder' \in BOOLEAN
    BY Zenon, <2>1
  <2>4. CASE thread.result = "ok"
    <3>1. thread' \in ThreadValue /\ thread'.pc = "ended"
      BY <2>1, <2>4, ThreadAt
    <3>2. StopStage'
      BY Zenon, <1>1, <2>2, <2>4, <3>1 DEF StopStage
    <3> QED
      BY Zenon, <1>1, <1>2, <2>1, <2>3, <3>1, <3>2, ThreadMovesInv
  <2>5. CASE thread.result # "ok"
    <3>1. thread' \in ThreadValue /\ thread'.pc = "loop"
      BY <2>1, <2>5, ThreadAt
    <3>2. StopStage'
      BY Zenon, <3>1 DEF StopStage
    <3> QED
      BY Zenon, <1>1, <1>2, <2>1, <2>3, <3>1, <3>2, ThreadMovesInv
  <2> QED
    BY Zenon, <2>4, <2>5
<1>5. CASE RequestStop
  <2>1. UNCHANGED <<forwarder, thread>> /\ stopRequested' = TRUE
    BY Zenon, <1>5 DEF RequestStop
  <2>2. StopStage'
    BY Zenon, <1>1, <2>1 DEF ReaderInv, StopStage
  <2> QED
    BY Zenon, <1>1, <1>2, <2>1, <2>2, ThreadMovesInv
<1> QED
  BY Zenon, <1>3, <1>4, <1>5

LEMMA ReaderWithoutSource ==
  ASSUME NEW r \in ReaderValue, NEW q, q = [r EXCEPT !.events = FALSE]
  PROVE  /\ q \in ReaderValue /\ ~q.events
         /\ q.session = r.session /\ q.running = r.running
<1>1. q \in ReaderValue
  BY Zenon DEF ReaderValue
<1>2. ~q.events
  BY Zenon DEF ReaderValue
<1>3. q.session = r.session /\ q.running = r.running
  BY Zenon DEF ReaderValue
<1> QED
  BY Zenon, <1>1, <1>2, <1>3

\* start() without an event source, or which gives it back.
LEMMA StartFailsInv == ReaderInv /\ StartFails => ReaderInv'
<1> SUFFICES ASSUME ReaderInv, StartFails PROVE ReaderInv'
  BY Zenon
<1>1. /\ UNCHANGED <<slot, eventClients, output, forwarder, stopRequested, device>>
      /\ thread.pc = "start" /\ InFlight = {} /\ InFlight' = InFlight
      /\ nextSubmit' = 0 /\ nextProcess' = 0 /\ thread' = At("loop", "serve")
      /\ reader' \in {OffReader, [OffReader EXCEPT !.events = reader.events]}
  BY Zenon DEF StartFails, usb, InFlight
<1>2. ~reader.session /\ ~reader.events
  BY Zenon, <1>1 DEF ReaderInv, StopStage, SourceCounted
<1>3. /\ reader' \in ReaderValue
      /\ ~reader'.session /\ ~reader'.running /\ ~reader'.events
  <2>1. /\ OffReader \in ReaderValue
        /\ ~OffReader.session /\ ~OffReader.running /\ ~OffReader.events
    BY Zenon DEF OffReader, ReaderValue
  <2>2. reader.events = FALSE
    BY Zenon, <1>2, Fields
  <2>3. CASE reader' = OffReader
    BY Zenon, <2>1, <2>3
  <2>4. CASE reader' = [OffReader EXCEPT !.events = FALSE]
    <3>1. /\ reader' \in ReaderValue /\ ~reader'.events
          /\ reader'.session = OffReader.session /\ reader'.running = OffReader.running
      BY Zenon, <2>1, <2>4, ReaderWithoutSource
    <3> QED
      BY Zenon, <2>1, <3>1
  <2> QED
    BY Zenon, <1>1, <2>2, <2>3, <2>4
<1>4. thread' \in ThreadValue /\ thread'.pc = "loop"
  BY <1>1, ThreadAt
<1>5. ValuesOK'
  BY Zenon, <1>1, <1>3, <1>4, NumbersWrap DEF ReaderInv, ValuesOK
<1>6. eventClients' = (IF output' THEN 1 ELSE 0) + (IF reader'.events THEN 1 ELSE 0)
  BY Zenon, <1>1, <1>2, <1>3 DEF ReaderInv, SourceCounted
<1>7. SourceCounted'
  BY Zenon, <1>1, <1>3, <1>6 DEF SourceCounted
<1>8. StopStage'
  BY Zenon, <1>4 DEF StopStage
<1> QED
  BY Zenon, <1>5, <1>7, <1>8 DEF ReaderInv

\* The count of the event source when the reader joins and leaves it.
LEMMA ReaderJoins ==
  ASSUME NEW out \in BOOLEAN, NEW count, count = (IF out THEN 1 ELSE 0) + 0
  PROVE  count + 1 = (IF out THEN 1 ELSE 0) + 1
OBVIOUS

LEMMA ReaderLeaves ==
  ASSUME NEW out \in BOOLEAN, NEW had \in BOOLEAN, NEW count,
         count = (IF out THEN 1 ELSE 0) + (IF had THEN 1 ELSE 0)
  PROVE  (IF had /\ count > 0 THEN count - 1 ELSE count) = (IF out THEN 1 ELSE 0) + 0
OBVIOUS

\* start() that gets the source and submits its first n reads.
LEMMA StartSubmitsInv ==
  ASSUME ReaderInv, NEW n \in 0..SlotCount, StartSubmits(n)
  PROVE  ReaderInv'
<1> DEFINE Submitted == 0..(n - 1)
           First(t) == IF t < n THEN [IdleSlot EXCEPT !.state = "busy", !.sequence = t] ELSE slot[t]
<1>1. /\ UNCHANGED <<output, forwarder, stopRequested, device>>
      /\ thread.pc = "start" /\ InFlight = {} /\ eventClients' = eventClients + 1
      /\ nextSubmit' = n /\ nextProcess' = 0
      /\ slot' = [t \in Slots |-> First(t)]
      /\ reader' = [session |-> TRUE, running |-> n = SlotCount, events |-> TRUE]
      /\ IF n = SlotCount THEN thread' = At("loop", "serve") ELSE StopFrom("startFailed", Submitted)
  BY Zenon DEF StartSubmits
<1>2. ~reader.session /\ ~reader.events
  BY Zenon, <1>1 DEF ReaderInv, StopStage, SourceCounted
<1>3. /\ reader' \in ReaderValue
      /\ reader'.session = TRUE /\ reader'.running = (n = SlotCount) /\ reader'.events = TRUE
  BY Zenon, <1>1 DEF ReaderValue
<1>4. ASSUME NEW t \in Slots
      PROVE  /\ First(t) \in SlotValue
             /\ t < n => First(t).state = "busy"
             /\ ~(t < n) => First(t) = slot[t]
  <2>1. t \in Numbers /\ slot[t] \in SlotValue
    BY MIDIReaderAssumption DEF Slots, Numbers, ReaderInv, ValuesOK
  <2>2. CASE t < n
    BY Zenon, <2>1, <2>2, IdleIsValue
  <2>3. CASE ~(t < n)
    BY Zenon, <2>1, <2>3
  <2> QED
    BY Zenon, <2>2, <2>3
<1>5. slot' \in [Slots -> SlotValue] /\ \A t \in Slots : slot'[t] = First(t)
  BY Zenon, <1>1, <1>4
<1> HIDE DEF First
<1>6. InFlight' = Submitted
  <2>1. \A t \in Slots : t \in InFlight' <=> slot'[t].state \in {"busy", "due"}
    BY Zenon DEF InFlight
  <2>2. \A t \in Slots : t \in InFlight' <=> t < n
    BY Zenon, <1>1, <1>4, <1>5, <2>1 DEF InFlight
  <2>3. \A t : t \in Submitted <=> (t \in Slots /\ t < n)
    BY MIDIReaderAssumption DEF Slots
  <2>4. \A t \in InFlight' : t \in Slots
    BY Zenon DEF InFlight
  <2> QED
    BY Zenon, <2>2, <2>3, <2>4
<1>7. /\ thread' \in ThreadValue
      /\ n = SlotCount => thread'.pc = "loop"
      /\ n # SlotCount /\ Submitted = {} => thread'.pc = "release"
      /\ n # SlotCount /\ Submitted # {} => thread'.pc = "drain"
  <2>1. CASE n = SlotCount
    BY <1>1, <2>1, ThreadAt
  <2>2. CASE n # SlotCount
    BY Zenon, <1>1, <2>2, StopFromGoesTo
  <2> QED
    BY Zenon, <2>1, <2>2
<1> HIDE DEF Submitted
<1>8. ValuesOK'
  BY Zenon, <1>1, <1>3, <1>5, <1>7, NumbersWrap DEF ReaderInv, ValuesOK
<1>9. eventClients' = (IF output' THEN 1 ELSE 0) + (IF reader'.events THEN 1 ELSE 0)
  <2>1. output \in BOOLEAN /\ eventClients = (IF output THEN 1 ELSE 0) + 0
    BY Zenon, <1>2 DEF ReaderInv, ValuesOK, SourceCounted
  <2> QED
    BY Zenon, <1>1, <1>3, <2>1, ReaderJoins
<1>10. SourceCounted'
  BY Zenon, <1>3, <1>9 DEF SourceCounted
<1>11. StopStage'
  BY Zenon, <1>3, <1>6, <1>7 DEF StopStage
<1> QED
  BY Zenon, <1>8, <1>10, <1>11 DEF ReaderInv

\* stop() up to its drain loop, or which finds nothing to stop.
LEMMA StopInv ==
  ASSUME ReaderInv, NEW goal \in {"recover", "shutdown"}, Stop(goal),
         UNCHANGED <<slot, nextSubmit, nextProcess, eventClients, output, device>>,
         forwarder' \in BOOLEAN, stopRequested' \in BOOLEAN
  PROVE  ReaderInv'
<1>1. InFlight' = InFlight
  BY Zenon DEF InFlight
<1>2. CASE ~reader.session
  <2>1. thread' = At("stopped", goal) /\ UNCHANGED reader
    BY Zenon, <1>2 DEF Stop
  <2>2. ~reader.running /\ InFlight = {}
    BY Zenon, <1>2 DEF ReaderInv, SourceCounted
  <2>3. thread' \in ThreadValue /\ thread'.pc = "stopped"
    BY <2>1, ThreadAt
  <2>4. StopStage'
    BY Zenon, <1>1, <2>1, <2>2, <2>3 DEF StopStage
  <2> QED
    BY Zenon, <2>1, <2>3, <2>4, ThreadMovesInv
<1>3. CASE reader.session
  <2>1. reader' = [reader EXCEPT !.running = FALSE] /\ StopFrom(goal, InFlight)
    BY Zenon, <1>3 DEF Stop
  <2>2. reader \in ReaderValue
    BY Zenon DEF ReaderInv, ValuesOK
  <2>3. /\ reader' \in ReaderValue
        /\ reader'.session = reader.session /\ reader'.events = reader.events /\ ~reader'.running
    BY Zenon, <2>1, <2>2 DEF ReaderValue
  <2>4. /\ thread' \in ThreadValue
        /\ InFlight = {} => thread'.pc = "release"
        /\ InFlight # {} => thread'.pc = "drain"
    BY Zenon, <2>1, StopFromGoesTo
  <2>5. ValuesOK'
    BY Zenon, <2>3, <2>4 DEF ReaderInv, ValuesOK
  <2>6. SourceCounted'
    BY Zenon, <1>1, <2>3 DEF ReaderInv, SourceCounted
  <2>7. StopStage'
    BY Zenon, <1>1, <2>3, <2>4 DEF StopStage
  <2> QED
    BY Zenon, <2>5, <2>6, <2>7 DEF ReaderInv
<1> QED
  BY Zenon, <1>2, <1>3

\* The recovery block and the shutdown call stop(), or the block starts the reader.
LEMMA RecoverInv == ReaderInv /\ Recover => ReaderInv'
<1> SUFFICES ASSUME ReaderInv, Recover PROVE ReaderInv'
  BY Zenon
<1>1. /\ UNCHANGED <<slot, nextSubmit, nextProcess, eventClients, output, device, stopRequested>>
      /\ InFlight' = InFlight
      /\ forwarder' \in IF forwarder THEN {TRUE} ELSE BOOLEAN
      /\ thread = At("loop", "serve")
  BY Zenon DEF Recover, counters, usb, InFlight
<1>2. /\ forwarder' \in BOOLEAN /\ stopRequested' \in BOOLEAN /\ thread \in ThreadValue
  BY Zenon, <1>1 DEF ReaderInv, ValuesOK
<1>3. CASE ~forwarder'
  <2>1. UNCHANGED <<reader, thread>>
    BY Zenon, <1>3 DEF Recover
  <2>2. StopStage'
    BY Zenon, <1>1, <2>1 DEF ReaderInv, StopStage
  <2> QED
    BY Zenon, <1>1, <1>2, <2>1, <2>2, ThreadMovesInv
<1>4. CASE forwarder' /\ NeedsRecovery
  <2>1. Stop("recover")
    BY Zenon, <1>4 DEF Recover
  <2> QED
    BY Zenon, <1>1, <1>2, <2>1, StopInv
<1>5. CASE forwarder' /\ ~NeedsRecovery
  <2>1. /\ UNCHANGED reader
        /\ thread' = At("loop", "serve") \/ (thread' = At("start", "serve") /\ ~reader.session)
    BY Zenon, <1>5 DEF Recover, AfterRecovery
  <2>2. /\ thread' \in ThreadValue
        /\ thread'.pc = "loop" \/ (thread'.pc = "start" /\ ~reader.session)
    BY <2>1, ThreadAt
  <2>3. StopStage'
    BY Zenon, <1>1, <2>1, <2>2 DEF StopStage
  <2> QED
    BY Zenon, <1>1, <1>2, <2>1, <2>2, <2>3, ThreadMovesInv
<1> QED
  BY Zenon, <1>3, <1>4, <1>5

LEMMA ShutdownStopInv == ReaderInv /\ ShutdownStop => ReaderInv'
<1> SUFFICES ASSUME ReaderInv, ShutdownStop PROVE ReaderInv'
  BY Zenon
<1>1. /\ UNCHANGED <<slot, nextSubmit, nextProcess, eventClients, output, device>>
      /\ UNCHANGED <<forwarder, stopRequested>> /\ Stop("shutdown")
  BY Zenon DEF ShutdownStop, counters, usb
<1>2. forwarder' \in BOOLEAN /\ stopRequested' \in BOOLEAN
  BY Zenon, <1>1 DEF ReaderInv, ValuesOK
<1> QED
  BY Zenon, <1>1, <1>2, StopInv

\* The end of stop(): the completed reads are dropped and the source is given back.
LEMMA ReleaseInv == ReaderInv /\ ReleaseAndReturn => ReaderInv'
<1> SUFFICES ASSUME ReaderInv, ReleaseAndReturn PROVE ReaderInv'
  BY Zenon
<1> DEFINE Returned == IF thread.result = "ok" /\ reader.events /\ eventClients = 0 THEN "error"
                       ELSE thread.result
<1>1. /\ UNCHANGED <<nextSubmit, nextProcess, output, forwarder, stopRequested, device>>
      /\ thread.pc = "release" /\ reader' = OffReader
      /\ thread' = [thread EXCEPT !.pc = "stopped", !.result = Returned]
      /\ eventClients' = IF reader.events /\ eventClients > 0 THEN eventClients - 1
                         ELSE eventClients
      /\ slot' = [s \in Slots |-> IF s \in Completed THEN IdleSlot ELSE slot[s]]
  BY Zenon DEF ReleaseAndReturn, counters
<1>2. /\ output \in BOOLEAN /\ reader.events \in BOOLEAN
      /\ eventClients = (IF output THEN 1 ELSE 0) + (IF reader.events THEN 1 ELSE 0)
      /\ InFlight = {} /\ thread \in ThreadValue /\ slot \in [Slots -> SlotValue]
  BY Zenon, <1>1, Fields DEF ReaderInv, ValuesOK, StopStage, SourceCounted
<1>3. /\ OffReader \in ReaderValue
      /\ ~OffReader.session /\ ~OffReader.running /\ OffReader.events = FALSE
  BY Zenon DEF OffReader, ReaderValue
<1>4. eventClients' = (IF output' THEN 1 ELSE 0) + (IF reader'.events THEN 1 ELSE 0)
  BY Zenon, <1>1, <1>2, <1>3, ReaderLeaves
<1>5. /\ slot' \in [Slots -> SlotValue]
      /\ \A s \in Slots : slot'[s] = slot[s] \/ slot'[s] = IdleSlot
  BY Zenon, <1>1, <1>2, IdleIsValue
<1>6. InFlight' = {}
  <2>1. \A s \in Slots : slot'[s].state \notin {"busy", "due"}
    BY Zenon, <1>2, <1>5, IdleIsValue DEF InFlight
  <2> QED
    BY Zenon, <2>1 DEF InFlight
<1>7. thread' \in ThreadValue
  <2>1. Returned \in {"ok", "error", "timeout"}
    BY Zenon, Fields
  <2> HIDE DEF Returned
  <2> QED
    BY Zenon, <1>1, <1>2, <2>1 DEF ThreadValue
<1>8. thread'.pc = "stopped"
  BY Zenon, <1>1, <1>2 DEF ThreadValue
<1>9. ValuesOK'
  BY Zenon, <1>1, <1>3, <1>5, <1>7 DEF ReaderInv, ValuesOK
<1>10. SourceCounted'
  BY Zenon, <1>1, <1>3, <1>4, <1>6 DEF SourceCounted
<1>11. StopStage'
  BY Zenon, <1>1, <1>3, <1>6, <1>8 DEF StopStage
<1> QED
  BY Zenon, <1>9, <1>10, <1>11 DEF ReaderInv

LEMMA OneClientLess ==
  ASSUME NEW has \in BOOLEAN, NEW count, count = 1 + (IF has THEN 1 ELSE 0)
  PROVE  count - 1 = 0 + (IF has THEN 1 ELSE 0)
OBVIOUS

LEMMA OneClientMore ==
  ASSUME NEW has \in BOOLEAN, NEW count, count = 0 + (IF has THEN 1 ELSE 0)
  PROVE  count + 1 = 1 + (IF has THEN 1 ELSE 0)
OBVIOUS

\* The output worker takes or gives back the source.
LEMMA OutputTogglesInv == ReaderInv /\ OutputToggles => ReaderInv'
<1> SUFFICES ASSUME ReaderInv, OutputToggles PROVE ReaderInv'
  BY Zenon
<1>1. /\ UNCHANGED <<reader, slot, nextSubmit, nextProcess, forwarder, thread, stopRequested, device>>
      /\ InFlight' = InFlight /\ output' = ~output
      /\ eventClients' = IF output THEN eventClients - 1 ELSE eventClients + 1
  BY Zenon DEF OutputToggles, counters, usb, InFlight
<1>2. /\ output \in BOOLEAN /\ reader.events \in BOOLEAN
      /\ eventClients = (IF output THEN 1 ELSE 0) + (IF reader.events THEN 1 ELSE 0)
  BY Zenon, Fields DEF ReaderInv, ValuesOK, SourceCounted
<1>3. eventClients' = (IF output' THEN 1 ELSE 0) + (IF reader.events THEN 1 ELSE 0)
  <2>1. CASE output
    <3>1. eventClients' = eventClients - 1 /\ ~output'
          /\ eventClients = 1 + (IF reader.events THEN 1 ELSE 0)
      BY Zenon, <1>1, <1>2, <2>1
    <3> QED
      BY Zenon, <1>2, <3>1, OneClientLess
  <2>2. CASE ~output
    <3>1. eventClients' = eventClients + 1 /\ output'
          /\ eventClients = 0 + (IF reader.events THEN 1 ELSE 0)
      BY Zenon, <1>1, <1>2, <2>2
    <3> QED
      BY Zenon, <1>2, <3>1, OneClientMore
  <2> QED
    BY Zenon, <1>2, <2>1, <2>2
<1>4. ValuesOK'
  BY Zenon, <1>1, <1>2 DEF ReaderInv, ValuesOK
<1>5. SourceCounted'
  BY Zenon, <1>1, <1>3 DEF ReaderInv, SourceCounted
<1>6. StopStage'
  BY Zenon, <1>1 DEF ReaderInv, StopStage
<1> QED
  BY Zenon, <1>4, <1>5, <1>6 DEF ReaderInv

\* The USB stack ends a read that is in flight, and it stays in flight.
LEMMA UsbFinishInv ==
  ASSUME ReaderInv, NEW s \in Slots, NEW good \in BOOLEAN, NEW count \in 0..PayloadBytes,
         UsbFinish(s, good, count)
  PROVE  ReaderInv'
<1> DEFINE Data == IF good THEN Payload(device, count) ELSE <<>>
           Filled == [slot[s] EXCEPT !.state = "due", !.good = good, !.payload = Data]
<1>1. /\ UNCHANGED <<reader, nextSubmit, nextProcess, eventClients, output, forwarder, thread,
                     stopRequested>>
      /\ slot[s].state = "busy"
      /\ slot' = [slot EXCEPT ![s].state = "due", ![s].good = good, ![s].payload = Data]
      /\ device' = (device + count) % Len(Stream)
  BY Zenon DEF UsbFinish, counters
<1>2. /\ device \in 0..(Len(Stream) - 1) /\ slot \in [Slots -> SlotValue] /\ slot[s] \in SlotValue
  BY Zenon DEF ReaderInv, ValuesOK
<1>3. Data \in Payloads
  BY Zenon, <1>2, ReportLength
<1>4. device' \in 0..(Len(Stream) - 1)
  <2> DEFINE N == Len(Stream)
  <2>1. N \in Nat \ {0} /\ device' = (device + count) % N /\ device \in 0..(N - 1) /\ count \in Nat
    BY <1>1, <1>2, StreamHasBytes, MIDIReaderAssumption
  <2> HIDE DEF N
  <2>2. device' \in 0..(N - 1)
    BY <2>1
  <2> QED
    BY Zenon, <2>2 DEF N
<1> HIDE DEF Data
<1>5. slot' = [slot EXCEPT ![s] = Filled]
  BY Zenon, <1>1, <1>2
<1>6. Filled \in SlotValue /\ Filled.state = "due"
  BY Zenon, <1>2, <1>3 DEF SlotValue
<1> HIDE DEF Filled
<1>7. /\ slot' \in [Slots -> SlotValue]
      /\ slot'[s] = Filled /\ \A t \in Slots : t # s => slot'[t] = slot[t]
  BY Zenon, <1>2, <1>5, <1>6
<1>8. InFlight' = InFlight
  <2>1. ASSUME NEW t \in Slots
        PROVE  slot'[t].state \in {"busy", "due"} <=> slot[t].state \in {"busy", "due"}
    BY Zenon, <1>1, <1>6, <1>7
  <2> QED
    BY Zenon, <2>1 DEF InFlight
<1>9. ValuesOK'
  BY Zenon, <1>1, <1>4, <1>7 DEF ReaderInv, ValuesOK
<1>10. SourceCounted'
  BY Zenon, <1>1, <1>8 DEF ReaderInv, SourceCounted
<1>11. StopStage'
  BY Zenon, <1>1, <1>8 DEF ReaderInv, StopStage
<1> QED
  BY Zenon, <1>9, <1>10, <1>11 DEF ReaderInv

\* The callback of a read that ended.
LEMMA didCompleteInv ==
  ASSUME ReaderInv, NEW s \in Slots, didComplete(s)
  PROVE  ReaderInv'
<1> DEFINE Done == [slot[s] EXCEPT !.state = "completed"]
<1>1. /\ UNCHANGED <<reader, nextSubmit, nextProcess, eventClients, output, forwarder, stopRequested,
                     device>>
      /\ slot' = [slot EXCEPT ![s].state = "completed"]
      /\ thread.pc \in {"loop", "drain"}
      /\ thread' = [thread EXCEPT !.pc = "process", !.back = thread.pc]
  BY Zenon DEF didComplete, counters
<1>2. /\ slot \in [Slots -> SlotValue] /\ slot[s] \in SlotValue /\ thread \in ThreadValue
      /\ thread.pc = "drain" => ~reader.running
      /\ InFlight # {} => reader.session
  BY Zenon DEF ReaderInv, ValuesOK, StopStage, SourceCounted
<1>3. slot' = [slot EXCEPT ![s] = Done]
  BY Zenon, <1>1, <1>2
<1>4. Done \in SlotValue /\ Done.state = "completed"
  BY Zenon, <1>2 DEF SlotValue
<1> HIDE DEF Done
<1>5. /\ slot' \in [Slots -> SlotValue]
      /\ slot'[s] = Done /\ \A t \in Slots : t # s => slot'[t] = slot[t]
  BY Zenon, <1>2, <1>3, <1>4
<1>6. ASSUME NEW t \in InFlight'
      PROVE  t \in InFlight
  <2>1. t \in Slots /\ slot'[t].state \in {"busy", "due"}
    BY Zenon DEF InFlight
  <2>2. t # s
    BY Zenon, <1>4, <1>5, <2>1
  <2> QED
    BY Zenon, <1>5, <2>1, <2>2 DEF InFlight
<1>7. thread' \in ThreadValue /\ thread'.pc = "process" /\ thread'.back = thread.pc
  BY Zenon, <1>1, <1>2 DEF ThreadValue
<1>8. ValuesOK'
  BY Zenon, <1>1, <1>5, <1>7 DEF ReaderInv, ValuesOK
<1>9. InFlight' # {} => reader'.session
  BY Zenon, <1>1, <1>2, <1>6
<1>10. SourceCounted'
  BY Zenon, <1>1, <1>9 DEF ReaderInv, SourceCounted
<1>11. StopStage'
  BY Zenon, <1>1, <1>2, <1>7 DEF StopStage
<1> QED
  BY Zenon, <1>8, <1>10, <1>11 DEF ReaderInv

LEMMA ReaderStopped ==
  ASSUME NEW r \in ReaderValue, NEW q, q = [r EXCEPT !.running = FALSE]
  PROVE  /\ q \in ReaderValue /\ ~q.running
         /\ q.session = r.session /\ q.events = r.events
<1>1. q \in ReaderValue
  BY Zenon DEF ReaderValue
<1>2. ~q.running
  BY Zenon DEF ReaderValue
<1>3. q.session = r.session /\ q.events = r.events
  BY Zenon DEF ReaderValue
<1> QED
  BY Zenon, <1>1, <1>2, <1>3

\* One turn of drainCompletions(): the read is submitted again only while the reader
\* runs, and so only while it has its session.
LEMMA ProcessNextInv ==
  ASSUME ReaderInv, NEW s \in Slots, ProcessNext(s)
  PROVE  ReaderInv'
<1> DEFINE Again == [IdleSlot EXCEPT !.state = "busy", !.sequence = nextSubmit]
<1>1. /\ UNCHANGED <<eventClients, output, forwarder, thread, stopRequested, device>>
      /\ nextProcess' = Increment(nextProcess) /\ thread.pc = "process"
      /\ \/ /\ slot' = [slot EXCEPT ![s] = Again] /\ reader.running
            /\ nextSubmit' = Increment(nextSubmit) /\ UNCHANGED reader
         \/ /\ slot' = [slot EXCEPT ![s] = IdleSlot]
            /\ reader' = [reader EXCEPT !.running = FALSE] /\ UNCHANGED nextSubmit
  BY Zenon DEF ProcessNext, Submit
<1>2. /\ slot \in [Slots -> SlotValue] /\ thread \in ThreadValue /\ reader \in ReaderValue
      /\ nextSubmit \in Numbers /\ nextProcess \in Numbers
      /\ InFlight # {} => reader.session
      /\ reader.running => reader.session
      /\ thread.back = "drain" => ~reader.running
  BY Zenon, <1>1 DEF ReaderInv, ValuesOK, StopStage, SourceCounted
<1>3. Again \in SlotValue /\ Increment(nextSubmit) \in Numbers /\ Increment(nextProcess) \in Numbers
  BY Zenon, <1>2, IdleIsValue, NumbersWrap
<1> HIDE DEF Again
<1>4. slot' \in [Slots -> SlotValue] /\ nextSubmit' \in Numbers
  BY Zenon, <1>1, <1>2, <1>3, IdleIsValue
<1>5. /\ reader' \in ReaderValue
      /\ reader'.session = reader.session /\ reader'.events = reader.events
      /\ reader'.running => reader.running
  BY Zenon, <1>1, <1>2, ReaderStopped
<1>6. InFlight' # {} => reader.session
  <2>1. CASE reader.running
    BY Zenon, <1>2, <2>1
  <2>2. CASE ~reader.running
    <3>1. slot'[s] = IdleSlot /\ \A t \in Slots : t # s => slot'[t] = slot[t]
      BY Zenon, <1>1, <1>2, <2>2
    <3>2. ASSUME NEW t \in InFlight'
          PROVE  t \in InFlight
      <4>1. t \in Slots /\ slot'[t].state \in {"busy", "due"}
        BY Zenon DEF InFlight
      <4>2. t # s
        BY Zenon, <3>1, <4>1, IdleIsValue
      <4> QED
        BY Zenon, <3>1, <4>1, <4>2 DEF InFlight
    <3> QED
      BY Zenon, <1>2, <3>2
  <2> QED
    BY Zenon, <2>1, <2>2
<1>7. ValuesOK'
  BY Zenon, <1>1, <1>3, <1>4, <1>5 DEF ReaderInv, ValuesOK
<1>8. SourceCounted'
  BY Zenon, <1>1, <1>2, <1>5, <1>6 DEF ReaderInv, SourceCounted
<1>9. StopStage'
  BY Zenon, <1>1, <1>2, <1>5 DEF StopStage
<1> QED
  BY Zenon, <1>7, <1>8, <1>9 DEF ReaderInv

LEMMA ReaderStepInv == ReaderInv /\ [Next]_vars => ReaderInv'
<1> SUFFICES ASSUME ReaderInv, [Next]_vars PROVE ReaderInv'
  BY Zenon
<1>1. CASE StartFails
  BY Zenon, <1>1, StartFailsInv
<1>2. CASE \E n \in 0..SlotCount : StartSubmits(n)
  BY Zenon, <1>2, StartSubmitsInv
<1>3. CASE DrainTimeout \/ DrainDone
  BY Zenon, <1>3, DrainEndsInv
<1>4. CASE ReleaseAndReturn
  BY Zenon, <1>4, ReleaseInv
<1>5. CASE \E s \in Slots : ProcessNext(s)
  BY Zenon, <1>5, ProcessNextInv
<1>6. CASE ProcessDone
  BY Zenon, <1>6, ProcessDoneInv
<1>7. CASE Recover
  BY Zenon, <1>7, RecoverInv
<1>8. CASE StopReturns \/ ShutdownReturns \/ RequestStop
  BY Zenon, <1>8, ReturnsInv
<1>9. CASE ShutdownStop
  BY Zenon, <1>9, ShutdownStopInv
<1>10. CASE OutputToggles
  BY Zenon, <1>10, OutputTogglesInv
<1>11. CASE \E s \in Slots : didComplete(s)
  BY Zenon, <1>11, didCompleteInv
<1>12. CASE \E s \in Slots, good \in BOOLEAN, count \in 0..PayloadBytes : UsbFinish(s, good, count)
  BY Zenon, <1>12, UsbFinishInv
<1>13. CASE UNCHANGED vars
  <2>1. /\ UNCHANGED <<reader, slot, nextSubmit, nextProcess, eventClients, output, device>>
        /\ UNCHANGED <<forwarder, thread, stopRequested>>
    BY Zenon, <1>13 DEF vars
  <2>2. InFlight' = InFlight
    BY Zenon, <2>1 DEF InFlight
  <2>3. StopStage'
    BY Zenon, <2>1, <2>2 DEF ReaderInv, StopStage
  <2>4. thread' \in ThreadValue /\ forwarder' \in BOOLEAN /\ stopRequested' \in BOOLEAN
    BY Zenon, <2>1 DEF ReaderInv, ValuesOK
  <2> QED
    BY Zenon, <2>1, <2>3, <2>4, ThreadMovesInv
<1> QED
  BY Zenon, <1>1, <1>2, <1>3, <1>4, <1>5, <1>6, <1>7, <1>8, <1>9, <1>10, <1>11, <1>12, <1>13
     DEF Next, ThreadStep

LEMMA ReaderInvSuffices == ReaderInv => EventClientsExact
<1> SUFFICES ASSUME ReaderInv PROVE EventClientsExact
  BY Zenon
<1>1. /\ reader \in ReaderValue /\ slot \in [Slots -> SlotValue]
      /\ nextSubmit \in Numbers /\ nextProcess \in Numbers
      /\ output \in BOOLEAN /\ forwarder \in BOOLEAN /\ stopRequested \in BOOLEAN
      /\ device \in 0..(Len(Stream) - 1)
  BY Zenon DEF ReaderInv, ValuesOK
<1>2. ASSUME NEW s \in Slots
      PROVE  /\ slot[s].state \in {"idle", "busy", "due", "completed"}
             /\ slot[s].good \in BOOLEAN
             /\ slot[s].sequence \in Numbers
             /\ Len(slot[s].payload) \in {0, PayloadBytes}
  <2>1. slot[s] \in SlotValue
    BY Zenon, <1>1
  <2>2. /\ slot[s].state \in {"idle", "busy", "due", "completed"} /\ slot[s].good \in BOOLEAN
        /\ slot[s].sequence \in Numbers /\ slot[s].payload \in Payloads
    BY Zenon, <2>1 DEF SlotValue
  <2> QED
    BY Zenon, <2>2, ReportLength
<1>3. {nextSubmit, nextProcess} \subseteq Numbers
  BY Zenon, <1>1
<1>4. TypeOK
  BY Zenon, <1>1, <1>2, <1>3, Fields DEF TypeOK, ReaderValue, Numbers
<1> QED
  BY Zenon, <1>4 DEF EventClientsExact, ReaderInv, SourceCounted, StopStage

\* The session counts exactly the output worker and the MIDI reader as the clients of
\* its event source, whatever start(), stop(), the recovery and the callbacks do in
\* between: no read is in flight without the source, so that its callback arrives, and
\* the runtime destroys the reader only when it is stopped and has no read in flight.
THEOREM ReaderKeepsItsEventSource == Spec => []EventClientsExact
<1>1. Spec => []ReaderInv
  BY ReaderInitInv, ReaderStepInv, PTL DEF Spec
<1> QED
  BY <1>1, ReaderInvSuffices, PTL
=============================================================================
