------------------------ MODULE DeviceReportsProofs ------------------------
(***************************************************************************)
(* Proofs about what the two drivers make of the device's reports: the     *)
(* capture reads of the current driver (AudioInputReader) and the feedback *)
(* reports behind the output clock of the earlier one (NS6ClockControl).   *)
(*                                                                         *)
(* For every number of read slots, every width of the sequence counters    *)
(* and every set of completion statuses no read outlives its buffers or    *)
(* the event source, and the blocks reach the engine in the order their    *)
(* reads were submitted.  That the numbers of the outstanding reads are    *)
(* contiguous is inductive only together with their being distinct:        *)
(* processing a read removes one number, and nothing else may carry it.    *)
(*                                                                         *)
(* For every window of averaged reports and every capacity of the queue of *)
(* patterns the clock follows the reports.  Queue and window are rings:    *)
(* what they give and take is proved of any ring, and the sum of the       *)
(* window by counting the frames of its reports.  The promise is inductive *)
(* once the invariant also says what the window holds, since the sum loses *)
(* exactly what is overwritten.                                            *)
(***************************************************************************)
EXTENDS AudioInputReader, NS6ClockControl, FiniteSetTheorems, TLAPS

Numbers == 0..(SequenceModulus - 1)
Number(first, k) == (first + k) % SequenceModulus

ReaderValue == [session : BOOLEAN, running : BOOLEAN, events : BOOLEAN]
SlotValue == [state : {"idle", "busy", "due", "completed"},
              status : {"ok", "error", "stalled", "gone"}, sequence : Numbers]
ThreadValue == [pc : {"loop", "start", "drain", "release", "stopped", "process", "ended"},
                goal : {"launch", "serve", "launchFailed", "startFailed", "unwanted", "abandon",
                        "shutdown"},
                result : {"ok", "error", "timeout"}, back : {"loop", "drain"}]

\* The outstanding reads carry the numbers from nextProcess on, each once.
InTurn ==
  LET n == Cardinality(Outstanding)
  IN  /\ \A s \in Outstanding : \E k \in 0..(n - 1) : slot[s].sequence = Number(nextProcess, k)
      /\ \A k \in 0..(n - 1) : \E s \in Outstanding : slot[s].sequence = Number(nextProcess, k)
      /\ \A s, t \in Outstanding : slot[s].sequence = slot[t].sequence => s = t
      /\ reader.session => nextSubmit = Number(nextProcess, n)

\* A read holds the session, the buffers and the event source, which is counted.
ReadsHoldResources ==
  /\ InFlight # {} => buffers = Slots /\ reader.session /\ reader.events
  /\ reader.running => buffers = Slots /\ reader.session /\ reader.events
  /\ reader.events => eventClients > 0

\* What stop() has achieved where the thread is.
StopStage ==
  /\ thread.pc \in {"drain", "release", "stopped"} => ~reader.running
  /\ thread.pc = "process" /\ thread.back = "drain" => ~reader.running
  /\ thread.pc = "release" => InFlight = {}
  /\ thread.pc = "stopped" /\ thread.result = "ok" => InFlight = {}
  /\ thread.pc = "ended" => ~reader.running /\ InFlight = {}

\* A completed read waits only for one that is in flight.
WaitsForEarlier == thread.pc # "process" /\ Completed # {} => InFlight # {}

ReaderInv == TypeOK /\ InTurn /\ ReadsHoldResources /\ StopStage /\ WaitsForEarlier

-----------------------------------------------------------------------------
(* Sequence numbers                                                        *)

\* Adding less than a lap wraps at most once.
LEMMA NumberWraps ==
  \A a \in Numbers, k \in 0..SequenceModulus :
    /\ Number(a, k) = IF a + k < SequenceModulus THEN a + k ELSE a + k - SequenceModulus
    /\ Number(a, k) \in Numbers
<1> SUFFICES ASSUME NEW a \in Numbers, NEW k \in 0..SequenceModulus
             PROVE  Number(a, k) = IF a + k < SequenceModulus THEN a + k ELSE a + k - SequenceModulus
  BY ReaderAssumption DEF Numbers
<1>1. CASE a + k < SequenceModulus
  BY <1>1, ReaderAssumption DEF Numbers, Number
<1>2. CASE ~(a + k < SequenceModulus)
  <2> DEFINE r == a + k - SequenceModulus
  <2>1. r \in 0..(SequenceModulus - 1) /\ a + k = SequenceModulus * 1 + r
    BY <1>2, ReaderAssumption DEF Numbers
  <2> QED BY <1>2, <2>1, ReaderAssumption DEF Numbers, Number
<1> QED BY Zenon, <1>1, <1>2

\* Numbers less than a lap from the first differ; the ones after the first are
\* those after its successor; a number gives its distance back.
LEMMA NumbersInTurn ==
  /\ \A a \in Numbers, i, j \in 0..(SequenceModulus - 1) : Number(a, i) = Number(a, j) => i = j
  /\ \A a \in Numbers, k \in 0..(SequenceModulus - 1) :
       /\ Increment(a) \in Numbers /\ Number(Increment(a), k) = Number(a, k + 1)
       /\ Increment(a) = Number(a, 1) /\ Number(a, 0) = a
       /\ Increment(Number(a, k)) = Number(a, k + 1)
  /\ \A a \in Numbers, d \in 0..(SequenceModulus - 1) : (Number(a, d) - a) % SequenceModulus = d
<1> USE ReaderAssumption DEF Numbers
<1>1. ASSUME NEW a \in Numbers, NEW i \in 0..(SequenceModulus - 1), NEW j \in 0..(SequenceModulus - 1),
             Number(a, i) = Number(a, j)
      PROVE  i = j
  <2>1. i \in 0..SequenceModulus /\ j \in 0..SequenceModulus
    OBVIOUS
  <2>2. /\ Number(a, i) = (IF a + i < SequenceModulus THEN a + i ELSE a + i - SequenceModulus)
        /\ Number(a, j) = (IF a + j < SequenceModulus THEN a + j ELSE a + j - SequenceModulus)
    BY Zenon, <2>1, NumberWraps
  <2>3. a \in Int /\ a >= 0 /\ a < SequenceModulus /\ i \in Int /\ j \in Int /\ SequenceModulus \in Int
    OBVIOUS
  <2>4. (IF a + i < SequenceModulus THEN a + i ELSE a + i - SequenceModulus)
        = (IF a + j < SequenceModulus THEN a + j ELSE a + j - SequenceModulus)
    BY Zenon, <1>1, <2>2
  <2>5. i >= 0 /\ j >= 0 /\ i < SequenceModulus /\ j < SequenceModulus
    OBVIOUS
  <2> QED BY <2>3, <2>4, <2>5
<1>2. ASSUME NEW a \in Numbers
      PROVE  Increment(a) \in Numbers /\ Increment(a) = Number(a, 1) /\ Number(a, 0) = a
  <2>1. Increment(a) = Number(a, 1)
    BY Zenon DEF Increment, Number
  <2> QED BY <2>1, NumberWraps
<1>3. ASSUME NEW a \in Numbers, NEW k \in 0..(SequenceModulus - 1)
      PROVE  Number(Increment(a), k) = Number(a, k + 1)
  <2>1. Increment(a) = (IF a + 1 < SequenceModulus THEN a + 1 ELSE a + 1 - SequenceModulus)
    BY <1>2, NumberWraps
  <2>2. k \in 0..SequenceModulus /\ k + 1 \in 0..SequenceModulus
    OBVIOUS
  <2>3. Number(a, k + 1) = (IF a + (k + 1) < SequenceModulus THEN a + (k + 1)
                            ELSE a + (k + 1) - SequenceModulus)
    BY Zenon, <2>2, NumberWraps
  <2>4. Number(Increment(a), k) = (IF Increment(a) + k < SequenceModulus THEN Increment(a) + k
                                   ELSE Increment(a) + k - SequenceModulus)
    BY Zenon, <1>2, <2>2, NumberWraps
  <2> QED BY <2>1, <2>3, <2>4
<1>4. ASSUME NEW a \in Numbers, NEW k \in 0..(SequenceModulus - 1)
      PROVE  Increment(Number(a, k)) = Number(a, k + 1)
  <2> DEFINE b == Number(a, k)
  <2>1. k \in 0..SequenceModulus /\ k + 1 \in 0..SequenceModulus /\ 1 \in 0..SequenceModulus
    OBVIOUS
  <2>2. b \in Numbers /\ b = (IF a + k < SequenceModulus THEN a + k ELSE a + k - SequenceModulus)
    BY Zenon, <2>1, NumberWraps
  <2>3. Number(a, k + 1) = (IF a + (k + 1) < SequenceModulus THEN a + (k + 1)
                            ELSE a + (k + 1) - SequenceModulus)
    BY Zenon, <2>1, NumberWraps
  <2> HIDE DEF b
  <2>4. Increment(b) = (IF b + 1 < SequenceModulus THEN b + 1 ELSE b + 1 - SequenceModulus)
    BY ZenonT(90), <1>2, <2>1, <2>2, NumberWraps
  <2>5. Increment(b) = Number(a, k + 1)
    BY <2>2, <2>3, <2>4
  <2> QED BY Zenon, <2>5 DEF b
<1>5. ASSUME NEW a \in Numbers, NEW d \in 0..(SequenceModulus - 1)
      PROVE  (Number(a, d) - a) % SequenceModulus = d
  <2>1. CASE a + d < SequenceModulus
    <3>1. Number(a, d) - a = d
      BY <2>1, NumberWraps
    <3> QED BY <3>1
  <2>2. CASE ~(a + d < SequenceModulus)
    <3>1. Number(a, d) - a = SequenceModulus * (-1) + d
      BY <2>2, NumberWraps
    <3> QED BY <3>1
  <2> QED BY Zenon, <2>1, <2>2
<1> QED BY <1>1, <1>2, <1>3, <1>4, <1>5

-----------------------------------------------------------------------------
(* The outstanding reads                                                   *)

LEMMA OutstandingReads ==
  /\ Outstanding = {s \in Slots : slot[s].state \in {"busy", "due", "completed"}}
  /\ IsFiniteSet(Outstanding) /\ Cardinality(Outstanding) \in 0..SlotCount
  /\ Cardinality(Outstanding) = 0 <=> Outstanding = {}
<1>1. Outstanding = {s \in Slots : slot[s].state \in {"busy", "due", "completed"}}
  BY Zenon DEF Outstanding, InFlight, Completed
<1>2. IsFiniteSet(Slots) /\ Cardinality(Slots) = SlotCount
  BY FS_Interval, ReaderAssumption DEF Slots
<1>3. Outstanding \in SUBSET Slots
  BY Zenon, <1>1
<1> QED BY <1>1, <1>2, <1>3, FS_Subset, FS_CardinalityType, FS_EmptySet, ReaderAssumption

\* No read is outstanding: nothing to number.
LEMMA NothingOutstanding ==
  ASSUME Outstanding' = {}, ~reader'.session
  PROVE  InTurn'
<1>1. Cardinality(Outstanding') = 0
  BY Zenon, FS_EmptySet
<1>2. 0..(0 - 1) = {}
  OBVIOUS
<1> QED BY Zenon, <1>1, <1>2 DEF InTurn

\* A read that ends keeps its number.
LEMMA SameOutstanding ==
  ASSUME InTurn, Outstanding' = Outstanding, UNCHANGED <<nextSubmit, nextProcess>>,
         \A s \in Slots : slot'[s].sequence = slot[s].sequence,
         reader'.session => reader.session
  PROVE  InTurn'
<1>1. Outstanding \subseteq Slots
  BY Zenon, OutstandingReads
<1> QED BY <1>1 DEF InTurn, Number

\* With no read outstanding every slot is idle.
LEMMA IdleSlots ==
  ASSUME TypeOK, InFlight = {}, Completed = {}
  PROVE  \A s \in Slots : slot[s].state = "idle"
BY DEF TypeOK, InFlight, Completed

\* The read whose turn it is leaves: the others carry the numbers from the next on,
\* and nextSubmit is free.
LEMMA TurnTaken ==
  ASSUME TypeOK, InTurn, NEW s \in Slots, IsNext(s)
  PROVE  LET n == Cardinality(Outstanding)
             next == Increment(nextProcess)
         IN  /\ s \in Outstanding /\ n \in 1..SlotCount
             /\ \A t \in Outstanding \ {s} :
                  \E k \in 0..(n - 2) : slot[t].sequence = Number(next, k)
             /\ \A k \in 0..(n - 2) :
                  \E t \in Outstanding \ {s} : slot[t].sequence = Number(next, k)
             /\ reader.session => /\ nextSubmit = Number(next, n - 1)
                                  /\ Increment(nextSubmit) = Number(next, n)
             /\ \A t \in Outstanding \ {s} : slot[t].sequence # Number(next, n - 1)
<1> DEFINE n == Cardinality(Outstanding)
           next == Increment(nextProcess)
<1>1. s \in Outstanding /\ slot[s].sequence = nextProcess /\ nextProcess \in Numbers
  BY Zenon, OutstandingReads DEF IsNext, TypeOK, Numbers
<1>2. n \in 1..SlotCount
  BY <1>1, OutstandingReads, ReaderAssumption
<1>3. /\ \A t \in Outstanding : \E k \in 0..(n - 1) : slot[t].sequence = Number(nextProcess, k)
      /\ \A k \in 0..(n - 1) : \E t \in Outstanding : slot[t].sequence = Number(nextProcess, k)
      /\ \A t \in Outstanding : slot[t].sequence = nextProcess => t = s
      /\ reader.session => nextSubmit = Number(nextProcess, n)
  BY Zenon, <1>1 DEF InTurn
<1> HIDE DEF n
<1>4. /\ n - 1 \in 0..(SequenceModulus - 1) /\ n \in 0..(SequenceModulus - 1)
      /\ \A k \in 0..(n - 2) : /\ k \in 0..(SequenceModulus - 1) /\ k + 1 \in 0..(SequenceModulus - 1)
                               /\ k + 1 \in 0..(n - 1) /\ k + 1 # 0
      /\ \A k \in 0..(n - 1) : /\ k \in 0..(SequenceModulus - 1) /\ k # n
                               /\ k # 0 => k - 1 \in 0..(n - 2) /\ (k - 1) + 1 = k
      /\ (n - 1) + 1 = n /\ 0 \in 0..(SequenceModulus - 1)
  BY <1>2, ReaderAssumption
<1>5. Number(nextProcess, 0) = nextProcess
  BY Zenon, <1>1, <1>4, NumbersInTurn
<1>6. \A k \in 0..(SequenceModulus - 1) : Number(next, k) = Number(nextProcess, k + 1)
  BY <1>1, NumbersInTurn
<1>7. ASSUME NEW t \in Outstanding \ {s}
      PROVE  /\ \E k \in 0..(n - 2) : slot[t].sequence = Number(next, k)
             /\ slot[t].sequence # Number(next, n - 1)
  <2>1. PICK k \in 0..(n - 1) : slot[t].sequence = Number(nextProcess, k)
    BY Zenon, <1>3
  <2>2. k # 0
    BY Zenon, <1>3, <1>5, <2>1
  <2>3. k - 1 \in 0..(n - 2) /\ slot[t].sequence = Number(next, k - 1)
    BY Zenon, <1>4, <1>6, <2>1, <2>2
  <2>4. Number(nextProcess, k) # Number(nextProcess, n)
    BY <1>1, <1>4, NumbersInTurn
  <2>5. Number(next, n - 1) = Number(nextProcess, n)
    BY Zenon, <1>4, <1>6
  <2> QED BY Zenon, <2>1, <2>3, <2>4, <2>5
<1>8. ASSUME NEW k \in 0..(n - 2)
      PROVE  \E t \in Outstanding \ {s} : slot[t].sequence = Number(next, k)
  <2>1. PICK t \in Outstanding : slot[t].sequence = Number(nextProcess, k + 1)
    BY Zenon, <1>3, <1>4
  <2>2. Number(nextProcess, k + 1) # Number(nextProcess, 0)
    BY <1>1, <1>4, NumbersInTurn
  <2>3. t # s
    BY Zenon, <1>1, <1>5, <2>1, <2>2
  <2> QED BY Zenon, <1>4, <1>6, <2>1, <2>3
<1>9. ASSUME reader.session
      PROVE  nextSubmit = Number(next, n - 1) /\ Increment(nextSubmit) = Number(next, n)
  <2>1. nextSubmit = Number(nextProcess, n) /\ Number(next, n - 1) = Number(nextProcess, n)
    BY <1>3, <1>4, <1>6, <1>9
  <2>2. Increment(Number(nextProcess, n)) = Number(nextProcess, n + 1)
    BY <1>1, <1>4, NumbersInTurn
  <2> QED BY Zenon, <1>4, <1>6, <2>1, <2>2
<1> QED BY Zenon, <1>1, <1>2, <1>7, <1>8, <1>9 DEF n

\* A processed read goes idle or is submitted again behind the others.
LEMMA ProcessKeepsTurn ==
  ASSUME TypeOK, InTurn, NEW s \in Slots, IsNext(s), nextProcess' = Increment(nextProcess),
         reader'.session = reader.session,
         \/ slot' = [slot EXCEPT ![s] = IdleSlot] /\ nextSubmit' = nextSubmit
         \/ /\ slot' = [slot EXCEPT ![s] = [state |-> "busy", status |-> "ok", sequence |-> nextSubmit]]
            /\ nextSubmit' = Increment(nextSubmit)
            /\ reader.session
  PROVE  /\ InTurn'
         /\ \A t \in Outstanding' : \E k \in 0..(Cardinality(Outstanding') - 1) :
              slot'[t].sequence = Number(Increment(nextProcess), k)
<1> DEFINE n == Cardinality(Outstanding)
           next == Increment(nextProcess)
<1>1. slot \in [Slots -> SlotValue] /\ Outstanding \subseteq Slots
  BY Zenon, OutstandingReads DEF TypeOK, SlotValue, Numbers
<1>2. /\ s \in Outstanding /\ n \in 1..SlotCount
      /\ \A t \in Outstanding \ {s} : \E k \in 0..(n - 2) : slot[t].sequence = Number(next, k)
      /\ \A k \in 0..(n - 2) : \E t \in Outstanding \ {s} : slot[t].sequence = Number(next, k)
      /\ reader.session => nextSubmit = Number(next, n - 1) /\ Increment(nextSubmit) = Number(next, n)
      /\ \A t \in Outstanding \ {s} : slot[t].sequence # Number(next, n - 1)
  BY Zenon, TurnTaken
<1>3. \A t, u \in Outstanding : slot[t].sequence = slot[u].sequence => t = u
  BY Zenon DEF InTurn
<1>4. \A t \in Outstanding \ {s} : slot'[t].sequence = slot[t].sequence
  BY Zenon, <1>1
<1>5. CASE slot' = [slot EXCEPT ![s] = IdleSlot] /\ nextSubmit' = nextSubmit
  <2>1. Outstanding' = Outstanding \ {s}
    BY Zenon, <1>1, <1>5 DEF Outstanding, InFlight, Completed, IdleSlot
  <2>2. Cardinality(Outstanding') = n - 1
    BY Zenon, <1>2, <2>1, OutstandingReads, FS_RemoveElement
  <2> HIDE DEF n, next
  <2>3. (n - 1) - 1 = n - 2
    BY <1>2
  <2>4. \A t \in Outstanding' : \E k \in 0..((n - 1) - 1) : slot'[t].sequence = Number(next, k)
    BY <1>2, <1>4, <2>1, <2>3
  <2>5. \A k \in 0..((n - 1) - 1) : \E t \in Outstanding' : slot'[t].sequence = Number(next, k)
    BY <1>2, <1>4, <2>1, <2>3
  <2>6. \A t, u \in Outstanding' : slot'[t].sequence = slot'[u].sequence => t = u
    BY <1>3, <1>4, <2>1
  <2>7. reader'.session => nextSubmit' = Number(next, n - 1)
    BY Zenon, <1>2, <1>5
  <2>8. nextProcess' = next
    BY Zenon DEF next
  <2>9. InTurn'
    BY <2>2, <2>4, <2>5, <2>6, <2>7, <2>8 DEF InTurn, Number
  <2> QED BY Zenon, <2>2, <2>4, <2>9 DEF next
<1>6. CASE /\ slot' = [slot EXCEPT ![s] = [state |-> "busy", status |-> "ok", sequence |-> nextSubmit]]
           /\ nextSubmit' = Increment(nextSubmit) /\ reader.session
  <2>1. Outstanding' = Outstanding /\ slot'[s].sequence = nextSubmit
    BY <1>1, <1>2, <1>6 DEF Outstanding, InFlight, Completed
  <2> HIDE DEF n, next
  <2>2. n - 1 \in 0..(n - 1) /\ \A k \in 0..(n - 1) : k = n - 1 \/ k \in 0..(n - 2)
    BY <1>2
  <2>3. 0..(n - 2) \subseteq 0..(n - 1)
    BY <1>2
  <2>4. ASSUME NEW t \in Outstanding PROVE \E k \in 0..(n - 1) : slot'[t].sequence = Number(next, k)
    BY <1>2, <1>4, <1>6, <2>1, <2>2, <2>3
  <2>5. ASSUME NEW k \in 0..(n - 1) PROVE \E t \in Outstanding : slot'[t].sequence = Number(next, k)
    BY SMTT(60), <1>2, <1>4, <1>6, <2>1, <2>2
  <2>6. \A t, u \in Outstanding : slot'[t].sequence = slot'[u].sequence => t = u
    BY <1>2, <1>3, <1>4, <1>6, <2>1
  <2>7. nextSubmit' = Number(next, n)
    BY Zenon, <1>2, <1>6
  <2>8. nextProcess' = next /\ Cardinality(Outstanding') = n
    BY Zenon, <2>1 DEF next, n
  <2>9. InTurn'
    BY <2>1, <2>4, <2>5, <2>6, <2>7, <2>8 DEF InTurn, Number
  <2> QED BY ZenonT(90), <2>1, <2>4, <2>8, <2>9 DEF next
<1> QED BY Zenon, <1>5, <1>6

-----------------------------------------------------------------------------
(* The invariant                                                           *)

LEMMA ReaderInitInv == Init => ReaderInv
<1> SUFFICES ASSUME Init PROVE ReaderInv
  BY Zenon
<1> USE ReaderAssumption DEF Init, IdleSlot, OffReader, At
<1>1. InFlight = {} /\ Completed = {} /\ Outstanding = {}
  BY Zenon DEF InFlight, Completed, Outstanding
<1>2. TypeOK
  <2>1. eventClients \in 0..MaxEventClients
    OBVIOUS
  <2>2. slot \in [Slots -> [state : {"idle", "busy", "due", "completed"},
                            status : {"ok", "error", "stalled", "gone"},
                            sequence : 0..(SequenceModulus - 1)]]
    OBVIOUS
  <2>3. {nextSubmit, nextProcess, published} \subseteq 0..(SequenceModulus - 1)
    OBVIOUS
  <2>4. thread \in ThreadValue /\ reader \in ReaderValue
    BY Zenon DEF ThreadValue, ReaderValue
  <2>5. feedback \in BOOLEAN /\ inputRunning \in BOOLEAN /\ want \in BOOLEAN /\ stopRequested \in BOOLEAN
    BY Zenon
  <2>6. buffers \subseteq Slots
    BY Zenon
  <2> HIDE DEF Init
  <2> QED BY ZenonT(90), <2>1, <2>2, <2>3, <2>4, <2>5, <2>6 DEF TypeOK, ThreadValue, ReaderValue
<1>3. InTurn
  <2>1. Cardinality(Outstanding) = 0 /\ 0..(0 - 1) = {}
    BY <1>1, FS_EmptySet
  <2> QED BY Zenon, <1>1, <2>1 DEF InTurn
<1> QED BY Zenon, <1>1, <1>2, <1>3 DEF ReaderInv, ReadsHoldResources, StopStage, WaitsForEarlier

\* Steps that leave the reader and its reads alone.
LEMMA ReadsUnchanged ==
  ASSUME ReaderInv, UNCHANGED <<reader, slot, buffers, nextSubmit, nextProcess, eventClients>>,
         TypeOK', StopStage', WaitsForEarlier'
  PROVE  ReaderInv'
<1>1. InFlight' = InFlight /\ Outstanding' = Outstanding
  BY Zenon DEF InFlight, Outstanding, Completed
<1>2. InTurn'
  BY Zenon, <1>1, SameOutstanding DEF ReaderInv
<1> QED BY Zenon, <1>1, <1>2 DEF ReaderInv, ReadsHoldResources

\* stop() up to its drain, from the loop.
LEMMA StopInv ==
  ASSUME ReaderInv, thread.pc = "loop", NEW goal \in {"unwanted", "abandon", "shutdown"}, Stop(goal),
         UNCHANGED <<slot, buffers, nextSubmit, nextProcess, eventClients, feedback, inputRunning,
                     want, stopRequested, published>>
  PROVE  ReaderInv'
<1> USE DEF ReaderInv
<1>1. InFlight' = InFlight /\ Outstanding' = Outstanding /\ Completed' = Completed
  BY Zenon DEF InFlight, Outstanding, Completed
<1>2. /\ reader \in ReaderValue /\ thread' \in ThreadValue
      /\ thread'.pc \in {"stopped", "drain", "release"}
      /\ thread'.pc = "release" => InFlight = {}
      /\ thread'.pc = "stopped" => ~reader.session
      /\ reader' = IF reader.session THEN [reader EXCEPT !.running = FALSE] ELSE reader
  <2>1. reader \in ReaderValue
    BY Zenon DEF TypeOK, ReaderValue
  <2>2. CASE ~reader.session
    BY <2>1, <2>2 DEF Stop, At, ThreadValue
  <2>3. CASE reader.session
    <3>1. PICK result \in {"ok", "error"} :
            thread' = [At(IF InFlight = {} THEN "release" ELSE "drain", goal) EXCEPT !.result = result]
      BY Zenon, <2>3 DEF Stop, StopFrom
    <3> QED BY Zenon, <2>1, <2>3, <3>1 DEF Stop, At, ThreadValue
  <2> QED BY Zenon, <2>2, <2>3
<1>3. /\ reader' \in ReaderValue /\ ~reader'.running /\ reader'.session = reader.session
      /\ reader'.events = reader.events
  BY Zenon, <1>2 DEF ReaderValue, ReadsHoldResources
<1>4. TypeOK'
  BY Zenon, <1>2, <1>3 DEF TypeOK, ReaderValue, ThreadValue
<1>5. InTurn'
  BY Zenon, <1>1, <1>3, SameOutstanding
<1>6. ReadsHoldResources' /\ StopStage' /\ WaitsForEarlier'
  BY Zenon, <1>1, <1>2, <1>3 DEF ReadsHoldResources, StopStage, WaitsForEarlier
<1> QED BY Zenon, <1>4, <1>5, <1>6

LEMMA StartFailsInv ==
  ASSUME ReaderInv, StartFails
  PROVE  ReaderInv'
<1> USE ReaderAssumption DEF ReaderInv
<1>1. InFlight = {} /\ Completed = {}
  BY Zenon DEF StartFails, WaitsForEarlier
<1>2. InFlight' = {} /\ Completed' = {} /\ Outstanding' = {}
  BY Zenon, <1>1 DEF StartFails, InFlight, Completed, Outstanding
<1>3. /\ reader' \in ReaderValue /\ ~reader'.session /\ ~reader'.running
      /\ reader'.events => reader.events
  <2>1. reader.events \in BOOLEAN
    BY Zenon DEF TypeOK
  <2>2. reader' = [session |-> FALSE, running |-> FALSE, events |-> FALSE]
        \/ reader' = [session |-> FALSE, running |-> FALSE, events |-> reader.events]
    BY Zenon DEF StartFails, OffReader
  <2>3. CASE reader.events = FALSE
    <3>1. reader' = [session |-> FALSE, running |-> FALSE, events |-> FALSE]
      BY Zenon, <2>2, <2>3
    <3> QED BY Zenon, <3>1 DEF ReaderValue
  <2>4. CASE reader.events = TRUE
    <3>1. \E events \in BOOLEAN : reader' = [session |-> FALSE, running |-> FALSE, events |-> events]
      BY Zenon, <2>1, <2>2
    <3> QED BY <2>4, <3>1 DEF ReaderValue
  <2> QED BY Zenon, <2>1, <2>3, <2>4
<1>4. thread' \in ThreadValue /\ thread'.pc = "loop"
  BY Zenon DEF StartFails, FailedStart, At, ThreadValue
<1>5. TypeOK'
  <2>1. /\ UNCHANGED <<slot, feedback, want, stopRequested, eventClients>> /\ buffers' = {}
        /\ nextSubmit' = 0 /\ nextProcess' = 0 /\ published' = SequenceModulus - 1
        /\ inputRunning' = FALSE
    BY Zenon DEF StartFails
  <2>2. {nextSubmit', nextProcess', published'} \subseteq 0..(SequenceModulus - 1)
    BY <2>1
  <2> QED BY Zenon, <1>3, <1>4, <2>1, <2>2 DEF TypeOK, ReaderValue, ThreadValue
<1>6. InTurn'
  BY Zenon, <1>2, <1>3, NothingOutstanding
<1>7. ReadsHoldResources' /\ StopStage' /\ WaitsForEarlier'
  BY Zenon, <1>2, <1>3, <1>4 DEF StartFails, ReadsHoldResources, StopStage, WaitsForEarlier
<1> QED BY Zenon, <1>5, <1>6, <1>7

\* start() numbers the reads it submits from zero.
LEMMA StartInTurn ==
  ASSUME ReaderInv, NEW n \in 0..SlotCount, StartSubmits(n)
  PROVE  /\ slot' \in [Slots -> SlotValue] /\ InTurn'
         /\ InFlight' = 0..(n - 1) /\ Completed' = {} /\ Outstanding' = 0..(n - 1)
         /\ \A s \in Outstanding' : slot'[s].sequence = s
<1> USE ReaderAssumption DEF ReaderInv
<1>1. /\ InFlight = {} /\ Completed = {} /\ nextProcess' = 0 /\ nextSubmit' = n
      /\ slot' = [s \in Slots |-> IF s < n THEN [state |-> "busy", status |-> "ok", sequence |-> s]
                                  ELSE slot[s]]
  BY Zenon DEF StartSubmits, WaitsForEarlier
<1>2. slot \in [Slots -> SlotValue] /\ \A s \in Slots : slot[s].state = "idle"
  BY Zenon, <1>1, IdleSlots DEF TypeOK, SlotValue, Numbers
<1>3. slot' \in [Slots -> SlotValue]
  <2>1. ASSUME NEW s \in Slots, s < n
        PROVE  [state |-> "busy", status |-> "ok", sequence |-> s] \in SlotValue
    BY <2>1 DEF Slots, SlotValue, Numbers
  <2> QED BY Zenon, <1>1, <1>2, <2>1
<1>4. 0..(n - 1) = {s \in Slots : s < n}
  BY DEF Slots
<1>5. /\ InFlight' = 0..(n - 1) /\ Completed' = {} /\ Outstanding' = 0..(n - 1)
      /\ \A s \in 0..(n - 1) : slot'[s].sequence = s
  BY Zenon, <1>1, <1>2, <1>4 DEF InFlight, Completed, Outstanding
<1>6. Cardinality(Outstanding') = n
  BY <1>5, FS_Interval
<1>7. \A k \in 0..n : Number(0, k) = k
  BY DEF Number
<1>8. InTurn'
  <2>1. n \in 0..n /\ \A k \in 0..(n - 1) : k \in 0..n
    OBVIOUS
  <2>2. \A s \in 0..(n - 1) : slot'[s].sequence = Number(0, s)
    BY Zenon, <1>5, <1>7, <2>1
  <2>3. n = Number(0, n)
    BY Zenon, <1>7, <2>1
  <2> HIDE ReaderAssumption DEF ReaderInv
  <2>4. \A s, t \in 0..(n - 1) : slot'[s].sequence = slot'[t].sequence => s = t
    BY Zenon, <1>5
  <2>5. /\ \A s \in 0..(n - 1) : \E k \in 0..(n - 1) : slot'[s].sequence = Number(0, k)
        /\ \A k \in 0..(n - 1) : \E s \in 0..(n - 1) : slot'[s].sequence = Number(0, k)
    BY Zenon, <2>2
  <2>6. /\ Outstanding' = 0..(n - 1) /\ nextProcess' = 0 /\ nextSubmit' = n
    BY Zenon, <1>1, <1>5
  <2> QED BY <1>6, <2>3, <2>4, <2>5, <2>6 DEF InTurn
<1> QED BY Zenon, <1>3, <1>5, <1>8

LEMMA StartSubmitsInv ==
  ASSUME ReaderInv, NEW n \in 0..SlotCount, StartSubmits(n)
  PROVE  ReaderInv'
<1> USE ReaderAssumption DEF ReaderInv
<1>1. /\ slot' \in [Slots -> SlotValue] /\ InTurn'
      /\ InFlight' = 0..(n - 1) /\ Completed' = {}
  BY Zenon, StartInTurn
<1>2. /\ buffers' = Slots /\ eventClients' = eventClients + 1 /\ eventClients' \in 0..MaxEventClients
      /\ eventClients' > 0 /\ nextSubmit' = n /\ nextProcess' = 0 /\ published' = SequenceModulus - 1
      /\ UNCHANGED <<feedback, want, stopRequested>> /\ inputRunning' \in BOOLEAN
  <2>1. eventClients < MaxEventClients /\ eventClients \in 0..MaxEventClients
    BY Zenon DEF StartSubmits, TypeOK
  <2>2. eventClients + 1 \in 0..MaxEventClients /\ eventClients + 1 > 0
    BY <2>1
  <2> QED BY Zenon, <2>2 DEF StartSubmits
<1>3. /\ reader' \in ReaderValue /\ reader'.session /\ reader'.events
      /\ n < SlotCount => ~reader'.running
  <2>1. CASE n = SlotCount
    <3>1. reader' = [session |-> TRUE, running |-> TRUE, events |-> TRUE]
      BY Zenon, <2>1 DEF StartSubmits
    <3> QED BY <2>1, <3>1 DEF ReaderValue
  <2>2. CASE n # SlotCount
    <3>1. reader' = [session |-> TRUE, running |-> FALSE, events |-> TRUE]
      BY Zenon, <2>2 DEF StartSubmits
    <3> QED BY Zenon, <3>1 DEF ReaderValue
  <2> QED BY Zenon, <2>1, <2>2
<1>4. /\ thread' \in ThreadValue /\ thread'.pc \in {"loop", "drain", "release"}
      /\ thread'.pc # "loop" => n < SlotCount
      /\ thread'.pc = "release" => InFlight' = {}
  <2>1. CASE n = SlotCount /\ thread' = At("loop", "serve")
    BY Zenon, <2>1 DEF At, ThreadValue
  <2>2. CASE /\ n < SlotCount
             /\ StopFrom(IF thread.goal = "launch" THEN "launchFailed" ELSE "startFailed", 0..(n - 1))
    <3>1. PICK result \in {"ok", "error"} :
            thread' = [At(IF 0..(n - 1) = {} THEN "release" ELSE "drain",
                          IF thread.goal = "launch" THEN "launchFailed" ELSE "startFailed")
                       EXCEPT !.result = result]
      BY Zenon, <2>2 DEF StopFrom
    <3> QED BY Zenon, <1>1, <2>2, <3>1 DEF At, ThreadValue
  <2> QED BY Zenon, <2>1, <2>2 DEF StartSubmits
<1>5. TypeOK'
  BY <1>1, <1>2, <1>3, <1>4 DEF TypeOK, ReaderValue, SlotValue, ThreadValue, Numbers
<1>6. ReadsHoldResources' /\ StopStage' /\ WaitsForEarlier'
  BY ZenonT(90), <1>1, <1>2, <1>3, <1>4 DEF ReadsHoldResources, StopStage, WaitsForEarlier
<1> QED BY Zenon, <1>1, <1>5, <1>6

LEMMA ReleaseInv ==
  ASSUME ReaderInv, ReleaseAndReturn
  PROVE  ReaderInv'
<1> USE ReaderAssumption DEF ReaderInv
<1>1. InFlight = {} /\ Completed = {}
  BY Zenon DEF ReleaseAndReturn, StopStage, WaitsForEarlier
<1>2. slot \in [Slots -> SlotValue] /\ \A s \in Slots : slot[s].state = "idle"
  BY Zenon, <1>1, IdleSlots DEF TypeOK, SlotValue, Numbers
<1>3. slot' = slot
  BY Zenon, <1>1, <1>2 DEF ReleaseAndReturn
<1>4. InFlight' = {} /\ Completed' = {} /\ Outstanding' = {}
  BY Zenon, <1>1, <1>3 DEF InFlight, Completed, Outstanding
<1>5. /\ reader' = [session |-> FALSE, running |-> FALSE, events |-> FALSE] /\ buffers' = {}
      /\ UNCHANGED <<nextSubmit, nextProcess, feedback, inputRunning, want, stopRequested, published>>
      /\ eventClients' \in 0..MaxEventClients
  BY DEF ReleaseAndReturn, OffReader, TypeOK
<1>6. thread' \in ThreadValue /\ thread'.pc = "stopped"
  <2>1. thread \in ThreadValue
    BY Zenon DEF TypeOK, ThreadValue
  <2>2. thread' \in {[thread EXCEPT !.pc = "stopped", !.result = "error"],
                     [thread EXCEPT !.pc = "stopped", !.result = thread.result]}
    BY Zenon DEF ReleaseAndReturn
  <2> QED BY ZenonT(90), <2>1, <2>2 DEF ThreadValue
<1>7. TypeOK'
  BY Zenon, <1>3, <1>5, <1>6 DEF TypeOK, ThreadValue
<1>8. InTurn'
  BY Zenon, <1>4, <1>5, NothingOutstanding
<1>9. ReadsHoldResources' /\ StopStage' /\ WaitsForEarlier'
  BY Zenon, <1>4, <1>5, <1>6 DEF ReadsHoldResources, StopStage, WaitsForEarlier
<1> QED BY Zenon, <1>7, <1>8, <1>9

\* A read that ends stays outstanding, under its number.
LEMMA CompletionInv ==
  ASSUME ReaderInv, NEW s \in Slots,
         didComplete(s) \/ \E status \in Statuses : UsbFinish(s, status)
  PROVE  ReaderInv'
<1> USE ReaderAssumption DEF ReaderInv
<1>1. slot \in [Slots -> SlotValue] /\ thread \in ThreadValue
  BY Zenon DEF TypeOK, SlotValue, ThreadValue, Numbers
<1>2. UNCHANGED <<reader, buffers, nextSubmit, nextProcess, eventClients, feedback, inputRunning,
                  want, stopRequested, published>>
  BY Zenon DEF didComplete, UsbFinish
<1>3. CASE didComplete(s)
  <2>1. /\ slot' = [slot EXCEPT ![s].state = "completed"] /\ slot[s].state = "due"
        /\ thread' = [thread EXCEPT !.pc = "process", !.back = thread.pc]
        /\ thread.pc \in {"loop", "drain"}
    BY Zenon, <1>3 DEF didComplete
  <2>2. slot' \in [Slots -> SlotValue] /\ \A t \in Slots : slot'[t].sequence = slot[t].sequence
    BY <1>1, <2>1 DEF SlotValue
  <2>3. Outstanding' = Outstanding /\ InFlight' \subseteq InFlight
    BY Zenon, <1>1, <2>1 DEF Outstanding, InFlight, Completed, SlotValue
  <2>4. /\ thread' \in ThreadValue /\ thread'.pc = "process"
        /\ thread'.back = "drain" => thread.pc = "drain"
    BY ZenonT(90), <1>1, <2>1 DEF ThreadValue
  <2>5. TypeOK'
    BY <1>2, <2>2, <2>4 DEF TypeOK, SlotValue, ThreadValue, Numbers
  <2>6. InTurn'
    BY Zenon, <1>2, <2>2, <2>3, SameOutstanding
  <2>7. ReadsHoldResources' /\ StopStage' /\ WaitsForEarlier'
    BY Zenon, <1>2, <2>3, <2>4 DEF ReadsHoldResources, StopStage, WaitsForEarlier
  <2> QED BY Zenon, <2>5, <2>6, <2>7
<1>4. ASSUME NEW status \in Statuses, UsbFinish(s, status) PROVE ReaderInv'
  <2>1. /\ slot' = [slot EXCEPT ![s].state = "due", ![s].status = status] /\ slot[s].state = "busy"
        /\ thread' = thread /\ status \in {"ok", "error", "stalled", "gone"}
    BY Zenon, <1>4 DEF UsbFinish
  <2>2. slot' \in [Slots -> SlotValue] /\ \A t \in Slots : slot'[t].sequence = slot[t].sequence
    BY ZenonT(90), <1>1, <2>1 DEF SlotValue
  <2>3. Outstanding' = Outstanding /\ InFlight' = InFlight /\ Completed' = Completed
    BY ZenonT(90), <1>1, <2>1 DEF Outstanding, InFlight, Completed, SlotValue
  <2>4. TypeOK'
    BY <1>2, <2>1, <2>2 DEF TypeOK, SlotValue, Numbers
  <2>5. InTurn'
    BY Zenon, <1>2, <2>2, <2>3, SameOutstanding
  <2>6. ReadsHoldResources' /\ StopStage' /\ WaitsForEarlier'
    BY Zenon, <1>2, <2>1, <2>3 DEF ReadsHoldResources, StopStage, WaitsForEarlier
  <2> QED BY Zenon, <2>4, <2>5, <2>6
<1> QED BY Zenon, <1>3, <1>4

\* One turn of drainCompletions(): the reads stay in turn, and a block that was
\* published has all outstanding reads behind it.
LEMMA ProcessNextInv ==
  ASSUME ReaderInv, NEW s \in Slots, ProcessNext(s)
  PROVE  /\ ReaderInv'
         /\ \A t \in Outstanding' : \E k \in 0..(Cardinality(Outstanding') - 1) :
              slot'[t].sequence = Number(Increment(nextProcess), k)
<1> USE ReaderAssumption DEF ReaderInv
<1>1. /\ slot \in [Slots -> SlotValue] /\ reader \in ReaderValue /\ reader.running \in BOOLEAN
      /\ nextProcess \in Numbers /\ nextSubmit \in Numbers /\ published \in Numbers
  BY Zenon DEF TypeOK, SlotValue, ReaderValue, Numbers
<1>2. /\ thread.pc = "process" /\ IsNext(s) /\ nextProcess' = Increment(nextProcess)
      /\ UNCHANGED <<buffers, eventClients, feedback, thread, inputRunning, want, stopRequested>>
      /\ published' \in {slot[s].sequence, published}
  BY Zenon DEF ProcessNext
<1>3. \/ /\ slot' = [slot EXCEPT ![s] = IdleSlot] /\ nextSubmit' = nextSubmit
         /\ reader' = [reader EXCEPT !.running = FALSE]
      \/ /\ slot' = [slot EXCEPT ![s] = [state |-> "busy", status |-> "ok", sequence |-> nextSubmit]]
         /\ nextSubmit' = Increment(nextSubmit) /\ reader.running
         /\ reader' = [reader EXCEPT !.running = TRUE]
  BY Zenon, <1>1 DEF ProcessNext, Submit, RunningAfter
<1>4. /\ reader' \in ReaderValue /\ reader'.session = reader.session /\ reader'.events = reader.events
      /\ reader'.running => reader.running
  BY Zenon, <1>1, <1>3 DEF ReaderValue
<1>5. reader.running => reader.session /\ InTurn
  BY Zenon DEF ReadsHoldResources
<1>6. /\ InTurn'
      /\ \A t \in Outstanding' : \E k \in 0..(Cardinality(Outstanding') - 1) :
           slot'[t].sequence = Number(Increment(nextProcess), k)
  BY Zenon, <1>2, <1>3, <1>4, <1>5, ProcessKeepsTurn
<1>7. Increment(nextProcess) \in Numbers /\ Increment(nextSubmit) \in Numbers
  BY ZenonT(90), <1>1, NumbersInTurn DEF Numbers
<1>8. TypeOK'
  <2>1. IdleSlot \in SlotValue /\ [state |-> "busy", status |-> "ok", sequence |-> nextSubmit] \in SlotValue
    BY <1>1 DEF IdleSlot, SlotValue, Numbers
  <2>2. slot' \in [Slots -> SlotValue]
    BY Zenon, <1>1, <1>3, <2>1
  <2>3. published' \in Numbers
    BY <1>1, <1>2 DEF SlotValue
  <2>4. {nextSubmit', nextProcess', published'} \subseteq Numbers
    BY ZenonT(90), <1>1, <1>2, <1>3, <1>7, <2>3
  <2> QED BY <1>2, <1>4, <2>2, <2>4 DEF TypeOK, SlotValue, ReaderValue, Numbers
<1>9. InFlight' \subseteq InFlight \cup {s} /\ (~reader.running => InFlight' \subseteq InFlight)
  BY <1>1, <1>3 DEF InFlight, IdleSlot
<1>10. ReadsHoldResources'
  <2>1. CASE InFlight = {} /\ ~reader.running
    BY Zenon, <1>2, <1>4, <1>9, <2>1 DEF ReadsHoldResources
  <2>2. CASE InFlight # {}
    BY Zenon, <1>2, <1>4, <2>2 DEF ReadsHoldResources
  <2>3. CASE reader.running
    BY Zenon, <1>2, <1>4, <2>3 DEF ReadsHoldResources
  <2> QED BY Zenon, <2>1, <2>2, <2>3
<1>11. StopStage' /\ WaitsForEarlier'
  BY Zenon, <1>2, <1>4 DEF StopStage, WaitsForEarlier
<1> QED BY Zenon, <1>6, <1>8, <1>10, <1>11

\* drainCompletions() returns: the earliest outstanding read is in flight.
LEMMA ProcessDoneInv ==
  ASSUME ReaderInv, ProcessDone
  PROVE  ReaderInv'
<1> USE ReaderAssumption DEF ReaderInv
<1>1. /\ thread.pc = "process" /\ thread' = [thread EXCEPT !.pc = thread.back]
      /\ thread \in ThreadValue
      /\ \A s \in Slots : ~IsNext(s)
  BY Zenon DEF ProcessDone, TypeOK, ThreadValue
<1>2. thread' \in ThreadValue /\ thread'.pc = thread.back /\ thread.back \in {"loop", "drain"}
  BY Zenon, <1>1 DEF ThreadValue
<1>3. TypeOK'
  BY ZenonT(90), <1>2 DEF ProcessDone, TypeOK, ThreadValue
<1>4. StopStage'
  BY Zenon, <1>1, <1>2 DEF ProcessDone, StopStage, InFlight
<1>5. Completed # {} => InFlight # {}
  <2> SUFFICES ASSUME Completed # {}, InFlight = {} PROVE FALSE
    BY Zenon
  <2>1. Outstanding = Completed /\ Outstanding \subseteq Slots
    BY Zenon, OutstandingReads DEF Outstanding
  <2>2. Cardinality(Outstanding) \in Nat /\ Cardinality(Outstanding) # 0
    BY <2>1, OutstandingReads
  <2>3. 0 \in 0..(Cardinality(Outstanding) - 1)
    BY <2>2
  <2>4. PICK s \in Outstanding : slot[s].sequence = Number(nextProcess, 0)
    BY Zenon, <2>3 DEF InTurn
  <2>5. Number(nextProcess, 0) = nextProcess
    BY Zenon, NumbersInTurn DEF TypeOK, Numbers
  <2>6. IsNext(s) /\ s \in Slots
    BY Zenon, <2>1, <2>4, <2>5 DEF IsNext, Completed
  <2> QED BY Zenon, <1>1, <2>6
<1>6. WaitsForEarlier'
  BY ZenonT(90), <1>5 DEF ProcessDone, WaitsForEarlier, InFlight, Completed
<1> QED BY Zenon, <1>3, <1>4, <1>6, ReadsUnchanged DEF ProcessDone

LEMMA RelaunchInv ==
  ASSUME ReaderInv, Relaunch
  PROVE  ReaderInv'
<1> USE ReaderAssumption DEF ReaderInv
<1>1. /\ reader' = [session |-> FALSE, running |-> FALSE, events |-> FALSE] /\ buffers' = {}
      /\ slot' = [s \in Slots |-> IdleSlot] /\ thread' = At("loop", "launch")
      /\ {nextSubmit', nextProcess', published'} \subseteq Numbers /\ UNCHANGED want
      /\ feedback' \in BOOLEAN /\ inputRunning' = FALSE /\ stopRequested' = FALSE
      /\ eventClients' \in {0, 1} /\ thread.pc = "ended"
  BY DEF Relaunch, OffReader, Numbers
<1>2. InFlight' = {} /\ Completed' = {} /\ Outstanding' = {}
  BY Zenon, <1>1 DEF InFlight, Completed, Outstanding, IdleSlot
<1>3. IdleSlot \in SlotValue /\ thread' \in ThreadValue /\ thread'.pc = "loop" /\ reader' \in ReaderValue
  BY <1>1 DEF IdleSlot, SlotValue, ThreadValue, ReaderValue, At, Numbers
<1>4. TypeOK'
  <2>1. slot' \in [Slots -> SlotValue]
    BY Zenon, <1>1, <1>3
  <2>2. eventClients' \in 0..MaxEventClients
    BY <1>1
  <2> QED BY Zenon, <1>1, <1>3, <2>1, <2>2 DEF TypeOK, SlotValue, ThreadValue, ReaderValue, Numbers
<1>5. InTurn'
  BY Zenon, <1>1, <1>2, NothingOutstanding
<1>6. ReadsHoldResources' /\ StopStage' /\ WaitsForEarlier'
  BY Zenon, <1>1, <1>2, <1>3 DEF ReadsHoldResources, StopStage, WaitsForEarlier
<1> QED BY Zenon, <1>4, <1>5, <1>6

LEMMA ReaderNextInv == ReaderInv /\ [Next]_vars => ReaderInv'
<1> SUFFICES ASSUME ReaderInv, [Next]_vars PROVE ReaderInv'
  BY Zenon
<1> USE DEF ReaderInv
<1>0. thread \in ThreadValue
  BY Zenon DEF TypeOK, ThreadValue
<1>1. CASE StartRefused
  <2>1. thread' \in ThreadValue
    BY Zenon, <1>0, <1>1 DEF StartRefused, At, FailedStart, ThreadValue
  <2>2. TypeOK'
    BY ZenonT(90), <1>1, <2>1 DEF StartRefused, TypeOK, ThreadValue
  <2>3. StopStage' /\ WaitsForEarlier'
    BY <1>0, <1>1 DEF StartRefused, At, FailedStart, StopStage, WaitsForEarlier, InFlight, Completed, ThreadValue
  <2> QED BY Zenon, <1>1, <2>2, <2>3, ReadsUnchanged DEF StartRefused
<1>2. CASE DrainTimeout
  <2>1. thread' \in ThreadValue
    BY Zenon, <1>0, <1>2 DEF DrainTimeout, At, FailedStart, ThreadValue
  <2>2. TypeOK'
    BY <1>2, <2>1 DEF DrainTimeout, TypeOK, ThreadValue
  <2>3. StopStage' /\ WaitsForEarlier'
    BY Zenon, <1>0, <1>2 DEF DrainTimeout, At, FailedStart, StopStage, WaitsForEarlier, InFlight, Completed, ThreadValue
  <2> QED BY Zenon, <1>2, <2>2, <2>3, ReadsUnchanged DEF DrainTimeout
<1>3. CASE DrainDone
  <2>1. thread' \in ThreadValue
    BY Zenon, <1>0, <1>3 DEF DrainDone, At, FailedStart, ThreadValue
  <2>2. TypeOK'
    BY <1>3, <2>1 DEF DrainDone, TypeOK, ThreadValue
  <2>3. StopStage' /\ WaitsForEarlier'
    BY Zenon, <1>0, <1>3 DEF DrainDone, At, FailedStart, StopStage, WaitsForEarlier, InFlight, Completed, ThreadValue
  <2> QED BY Zenon, <1>3, <2>2, <2>3, ReadsUnchanged DEF DrainDone
<1>4. CASE LaunchInput
  <2>1. thread' \in ThreadValue
    BY Zenon, <1>0, <1>4 DEF LaunchInput, At, FailedStart, ThreadValue
  <2>2. TypeOK'
    BY Zenon, <1>4, <2>1 DEF LaunchInput, TypeOK, ThreadValue
  <2>3. StopStage' /\ WaitsForEarlier'
    BY <1>0, <1>4 DEF LaunchInput, At, FailedStart, StopStage, WaitsForEarlier, InFlight, Completed, ThreadValue
  <2> QED BY Zenon, <1>4, <2>2, <2>3, ReadsUnchanged DEF LaunchInput
<1>5. CASE StartWanted
  <2>1. thread' \in ThreadValue
    BY Zenon, <1>0, <1>5 DEF StartWanted, At, FailedStart, ThreadValue
  <2>2. TypeOK'
    BY Zenon, <1>5, <2>1 DEF StartWanted, TypeOK, ThreadValue
  <2>3. StopStage' /\ WaitsForEarlier'
    BY Zenon, <1>0, <1>5 DEF StartWanted, At, FailedStart, StopStage, WaitsForEarlier, InFlight, Completed, ThreadValue
  <2> QED BY Zenon, <1>5, <2>2, <2>3, ReadsUnchanged DEF StartWanted
<1>6. CASE FailedStartReturns
  <2>1. thread' \in ThreadValue
    BY Zenon, <1>0, <1>6 DEF FailedStartReturns, At, FailedStart, ThreadValue
  <2>2. TypeOK'
    BY Zenon, <1>6, <2>1 DEF FailedStartReturns, TypeOK, ThreadValue
  <2>3. StopStage' /\ WaitsForEarlier'
    BY Zenon, <1>0, <1>6 DEF FailedStartReturns, At, FailedStart, StopStage, WaitsForEarlier, InFlight, Completed, ThreadValue
  <2> QED BY Zenon, <1>6, <2>2, <2>3, ReadsUnchanged DEF FailedStartReturns
<1>7. CASE UnwantedReturns
  <2>1. thread' \in ThreadValue
    BY Zenon, <1>0, <1>7 DEF UnwantedReturns, At, FailedStart, ThreadValue
  <2>2. TypeOK'
    BY Zenon, <1>7, <2>1 DEF UnwantedReturns, TypeOK, ThreadValue
  <2>3. StopStage' /\ WaitsForEarlier'
    BY Zenon, <1>0, <1>7 DEF UnwantedReturns, At, FailedStart, StopStage, WaitsForEarlier, InFlight, Completed, ThreadValue
  <2> QED BY Zenon, <1>7, <2>2, <2>3, ReadsUnchanged DEF UnwantedReturns
<1>8. CASE ShutdownReturns
  <2>1. thread' \in ThreadValue
    BY Zenon, <1>0, <1>8 DEF ShutdownReturns, At, FailedStart, ThreadValue
  <2>2. TypeOK'
    BY <1>8, <2>1 DEF ShutdownReturns, TypeOK, ThreadValue
  <2>3. StopStage' /\ WaitsForEarlier'
    BY Zenon, <1>0, <1>8 DEF ShutdownReturns, At, FailedStart, StopStage, WaitsForEarlier, InFlight, Completed, ThreadValue
  <2> QED BY Zenon, <1>8, <2>2, <2>3, ReadsUnchanged DEF ShutdownReturns
<1>9. CASE setInputEnabled
  <2>1. thread' \in ThreadValue
    BY Zenon, <1>0, <1>9 DEF setInputEnabled, At, FailedStart, ThreadValue
  <2>2. TypeOK'
    BY Zenon, <1>9, <2>1 DEF setInputEnabled, TypeOK, ThreadValue
  <2>3. StopStage' /\ WaitsForEarlier'
    BY Zenon, <1>0, <1>9 DEF setInputEnabled, At, FailedStart, StopStage, WaitsForEarlier, InFlight, Completed, ThreadValue
  <2> QED BY Zenon, <1>9, <2>2, <2>3, ReadsUnchanged DEF setInputEnabled
<1>10. CASE RequestStop
  <2>1. thread' \in ThreadValue
    BY Zenon, <1>0, <1>10 DEF RequestStop, At, FailedStart, ThreadValue
  <2>2. TypeOK'
    BY Zenon, <1>10, <2>1 DEF RequestStop, TypeOK, ThreadValue
  <2>3. StopStage' /\ WaitsForEarlier'
    BY Zenon, <1>0, <1>10 DEF RequestStop, At, FailedStart, StopStage, WaitsForEarlier, InFlight, Completed, ThreadValue
  <2> QED BY Zenon, <1>10, <2>2, <2>3, ReadsUnchanged DEF RequestStop
<1>11. CASE StopUnwanted
  BY Zenon, <1>11, StopInv DEF StopUnwanted, At
<1>12. CASE ShutdownStop
  BY Zenon, <1>12, StopInv DEF ShutdownStop
<1>13. CASE UNCHANGED vars
  <2>1. TypeOK' /\ StopStage' /\ WaitsForEarlier'
    BY <1>13 DEF vars, TypeOK, StopStage, WaitsForEarlier, InFlight, Completed
  <2> QED BY ZenonT(90), <1>13, <2>1, ReadsUnchanged DEF vars
<1> QED
  BY ZenonT(90), <1>1, <1>2, <1>3, <1>4, <1>5, <1>6, <1>7, <1>8, <1>9, <1>10, <1>11, <1>12, <1>13,
     StartFailsInv, StartSubmitsInv, ReleaseInv, ProcessNextInv, ProcessDoneInv, CompletionInv,
     RelaunchInv
  DEF Next, ThreadStep

LEMMA ReaderInductive == Spec => []ReaderInv
BY ReaderInitInv, ReaderNextInv, PTL DEF Spec

\* No buffer is freed and the event source is not given up under a read, the
\* numbers of the outstanding reads are contiguous and the reader is idle when it
\* is destroyed, for every number of slots and every width of the sequence
\* counters (AudioInputReader::start, stop, drainCompletions).
THEOREM ReadsKeepTheirResources == Spec => []ResourcesOutliveReads
<1>1. ReaderInv => ResourcesOutliveReads
  <2> SUFFICES ASSUME ReaderInv PROVE ResourcesOutliveReads
    BY Zenon
  <2>1. OutstandingIsContiguous
    BY DEF ReaderInv, OutstandingIsContiguous, InTurn, WaitsForEarlier, Number
  <2> QED BY Zenon, <2>1 DEF ReaderInv, ResourcesOutliveReads, ReadsHoldResources, StopStage
<1> QED BY <1>1, ReaderInductive, PTL

\* Blocks reach the engine in the order their reads were submitted: every read
\* still outstanding when one is published was submitted after it, whatever order
\* the callbacks came in and over every wrap of the counters (drainCompletions).
THEOREM BlocksReachTheEngineInOrder == Spec => BlocksInOrder
<1> DEFINE InOrder == published' # published =>
             \A s \in Outstanding' : (slot'[s].sequence - published') % SequenceModulus \in 1..SlotCount
<1>1. ASSUME ReaderInv, [Next]_vars PROVE [InOrder]_vars
  <2> SUFFICES ASSUME published' # published, NEW t \in Outstanding'
               PROVE  (slot'[t].sequence - published') % SequenceModulus \in 1..SlotCount
    BY Zenon
  <2> USE ReaderAssumption
  <2>1. \/ StartFails \/ (\E n \in 0..SlotCount : StartSubmits(n)) \/ (\E s \in Slots : ProcessNext(s))
        \/ Relaunch
    BY Zenon, <1>1 DEF vars, Next, ThreadStep, StartRefused, DrainTimeout, DrainDone, ReleaseAndReturn,
       ProcessDone, LaunchInput, StartWanted, FailedStartReturns, StopUnwanted, UnwantedReturns,
       ShutdownStop, ShutdownReturns, didComplete, UsbFinish, setInputEnabled, RequestStop
  <2>2. CASE StartFails
    <3>1. InFlight = {} /\ Completed = {} /\ slot' = slot
      BY Zenon, <1>1, <2>2 DEF StartFails, ReaderInv, WaitsForEarlier
    <3> QED BY Zenon, <3>1 DEF Outstanding, InFlight, Completed
  <2>3. ASSUME NEW n \in 0..SlotCount, StartSubmits(n)
        PROVE  (slot'[t].sequence - published') % SequenceModulus \in 1..SlotCount
    <3>1. t \in 0..(n - 1) /\ slot'[t].sequence = t /\ published' = SequenceModulus - 1
      BY ZenonT(90), <1>1, <2>3, StartInTurn DEF StartSubmits
    <3>2. t - (SequenceModulus - 1) = SequenceModulus * (-1) + (t + 1) /\ t + 1 \in 1..SlotCount
      BY <3>1
    <3>3. (t - (SequenceModulus - 1)) % SequenceModulus = t + 1
      BY <3>2
    <3> QED BY Zenon, <3>1, <3>2, <3>3
  <2>4. ASSUME NEW s \in Slots, ProcessNext(s)
        PROVE  (slot'[t].sequence - published') % SequenceModulus \in 1..SlotCount
    <3> DEFINE n == Cardinality(Outstanding')
    <3>1. PICK k \in 0..(n - 1) : slot'[t].sequence = Number(Increment(nextProcess), k)
      BY Zenon, <1>1, <2>4, ProcessNextInv
    <3>2. published' = nextProcess /\ nextProcess \in Numbers
      BY Zenon, <1>1, <2>4 DEF ProcessNext, IsNext, ReaderInv, TypeOK, Numbers
    <3>3. n \in 0..SlotCount
      <4>1. Outstanding' \in SUBSET Slots
        BY Zenon DEF Outstanding, InFlight, Completed
      <4>2. IsFiniteSet(Slots) /\ Cardinality(Slots) = SlotCount
        BY FS_Interval DEF Slots
      <4> QED BY <4>1, <4>2, FS_Subset, FS_CardinalityType
    <3> HIDE DEF n
    <3>4. k \in 0..(SequenceModulus - 1) /\ k + 1 \in 0..(SequenceModulus - 1) /\ k + 1 \in 1..SlotCount
      BY <3>3
    <3>5. slot'[t].sequence = Number(nextProcess, k + 1)
      BY <3>1, <3>2, <3>4, NumbersInTurn
    <3>6. (Number(nextProcess, k + 1) - nextProcess) % SequenceModulus = k + 1
      BY Zenon, <3>2, <3>4, NumbersInTurn
    <3> QED BY Zenon, <3>2, <3>4, <3>5, <3>6
  <2>5. CASE Relaunch
    BY Zenon, <2>5 DEF Relaunch, Outstanding, InFlight, Completed, IdleSlot
  <2> QED BY Zenon, <2>1, <2>2, <2>3, <2>4, <2>5
<1> QED BY <1>1, ReaderInductive, PTL DEF Spec, BlocksInOrder

-----------------------------------------------------------------------------
(* The clock of the earlier driver                                         *)

\* A position of the first two laps of a ring of N places, reduced.
LEMMA SlotOf ==
  ASSUME NEW N \in Nat \ {0}, NEW a \in 0..(2 * N - 1)
  PROVE  (a < N => a % N = a) /\ (~(a < N) => a % N = a - N)
<1>1. /\ a = N * (a \div N) + (a % N)
      /\ a \div N \in Int /\ a % N \in 0..(N - 1)
  OBVIOUS
<1> DEFINE d == a \div N
<1>2. d \in Int /\ a - N * d \in 0..(N - 1)
  BY <1>1
<1> HIDE DEF d
<1>3. CASE d < 0
  <2>1. N * d <= 0 - N
    BY <1>2, <1>3
  <2> QED
    BY <1>2, <2>1
<1>4. CASE d > 1
  <2>1. N * d >= 2 * N
    BY <1>2, <1>4
  <2> QED
    BY <1>2, <2>1
<1>5. CASE d = 0
  BY <1>1, <1>2, <1>5 DEF d
<1>6. CASE d = 1
  BY <1>1, <1>2, <1>6 DEF d
<1> QED
  BY <1>2, <1>3, <1>4, <1>5, <1>6

\* The values of a report that ns6_clock_control_feedback_value_is_valid accepts.
Reports == 42..46

\* The frames of a sequence of reports are finite in number.
LEMMA FramesFinite ==
  ASSUME NEW s \in Seq(Reports)
  PROVE  IsFiniteSet(Frames(s)) /\ Together(s) \in Nat
<1>1. Len(s) \in Nat
  OBVIOUS
<1>2. IsFiniteSet(1..Len(s)) /\ IsFiniteSet(1..46)
  <2>1. 1 \in Int /\ 46 \in Int /\ Len(s) \in Int
    BY <1>1
  <2> QED
    BY Zenon, <2>1, FS_Interval
<1>3. IsFiniteSet((1..Len(s)) \X (1..46))
  BY Zenon, <1>2, FS_Product
<1>4. Frames(s) \in SUBSET ((1..Len(s)) \X (1..46))
  BY Zenon DEF Frames
<1>5. IsFiniteSet(Frames(s))
  BY Zenon, <1>3, <1>4, FS_Subset
<1> QED
  BY Zenon, <1>5, FS_CardinalityType DEF Together

\* The frames of one report.
LEMMA FramesOfOne ==
  ASSUME NEW k \in Nat, NEW r \in Reports
  PROVE  LET one == {p \in {k} \X (1..46) : p[2] <= r}
         IN  IsFiniteSet(one) /\ Cardinality(one) = r
<1> DEFINE one == {p \in {k} \X (1..46) : p[2] <= r}
           f == [n \in 1..r |-> <<k, n>>]
<1>1. r \in Nat /\ r <= 46
  BY DEF Reports
<1>2. \A n \in 1..r : f[n] \in one
  BY <1>1
<1>3. \A n, m \in 1..r : f[n] = f[m] => n = m
  <2> SUFFICES ASSUME NEW n \in 1..r, NEW m \in 1..r, <<k, n>> = <<k, m>> PROVE n = m
    BY Zenon
  <2> QED
    BY Zenon
<1>4. \A p \in one : p[2] \in 1..r /\ f[p[2]] = p
  <2> SUFFICES ASSUME NEW p \in one PROVE p[2] \in 1..r /\ <<k, p[2]>> = p
    BY Zenon
  <2> QED
    BY <1>1
<1> HIDE DEF one
<1>5. f \in Bijection(1..r, one)
  <2>1. f \in [1..r -> one]
    BY Zenon, <1>2
  <2> HIDE DEF f
  <2>2. f \in Surjection(1..r, one)
    BY Zenon, <2>1, <1>4 DEF Surjection
  <2>3. f \in Injection(1..r, one)
    BY Zenon, <2>1, <1>3 DEF Injection, IsInjective
  <2> QED
    BY Zenon, <2>2, <2>3 DEF Bijection
<1>6. ExistsBijection(1..r, one)
  BY Zenon, <1>5 DEF ExistsBijection
<1>7. Cardinality(one) = r
  BY Zenon, <1>1, <1>6, FS_CountingElements
<1>8. IsFiniteSet(1..r)
  <2>1. 1 \in Int /\ r \in Int
    BY <1>1
  <2> QED
    BY Zenon, <2>1, FS_Interval
<1>9. IsFiniteSet(one)
  BY Zenon, <1>6, <1>8, FS_Bijection
<1> QED
  BY Zenon, <1>7, <1>9 DEF one

\* No report, no frames.
LEMMA TogetherOfNone == Together(<<>>) = 0
<1>1. Frames(<<>>) = {}
  BY DEF Frames
<1> QED
  BY Zenon, <1>1, FS_EmptySet DEF Together

\* A report more brings its frames.
LEMMA TogetherOfAppend ==
  ASSUME NEW s \in Seq(Reports), NEW r \in Reports
  PROVE  Together(Append(s, r)) = Together(s) + r
<1> DEFINE k == Len(s) + 1
           t == Append(s, r)
           one == {p \in {k} \X (1..46) : p[2] <= r}
<1>1. k \in Nat /\ t \in Seq(Reports) /\ Len(t) = k /\ t[k] = r /\ \A i \in 1..Len(s) : t[i] = s[i]
  OBVIOUS
<1>2. 1..k = (1..Len(s)) \cup {k} /\ k \notin 1..Len(s)
  OBVIOUS
<1> HIDE DEF t, k
<1>3. Frames(t) = Frames(s) \cup one
  BY ZenonT(90), <1>1, <1>2 DEF Frames
<1>4. Frames(s) \cap one = {}
  BY Zenon, <1>2 DEF Frames
<1>5. IsFiniteSet(one) /\ Cardinality(one) = r
  BY ZenonT(90), <1>1, FramesOfOne
<1>6. IsFiniteSet(Frames(s)) /\ Cardinality(Frames(s)) \in Nat
  BY Zenon, FramesFinite DEF Together
<1> HIDE DEF one
<1>7. Cardinality(Frames(t)) = Cardinality(Frames(s)) + Cardinality(one) - Cardinality({})
  BY ZenonT(90), <1>3, <1>4, <1>5, <1>6, FS_Union
<1>8. Cardinality({}) = 0
  BY Zenon, FS_EmptySet
<1> QED
  BY <1>5, <1>6, <1>7, <1>8 DEF Together, Reports, t

\* Without the first report, its frames are gone.
LEMMA TogetherOfTail ==
  ASSUME NEW s \in Seq(Reports), s # <<>>
  PROVE  Together(Tail(s)) = Together(s) - s[1]
<1> DEFINE t == Tail(s)
           one == {p \in {1} \X (1..46) : p[2] <= s[1]}
           f == [p \in Frames(t) |-> <<p[1] + 1, p[2]>>]
           rest == Frames(s) \ one
<1>1. Len(s) \in Nat /\ Len(s) >= 1 /\ s[1] \in Reports /\ t \in Seq(Reports) /\ Len(t) = Len(s) - 1
      /\ \A i \in 1..Len(t) : t[i] = s[i + 1]
  OBVIOUS
<1> HIDE DEF t
<1>2. one \subseteq Frames(s)
  BY SMTT(60), <1>1 DEF Frames
<1>3. \A p \in Frames(t) : f[p] \in rest
  BY <1>1 DEF Frames
<1>4. \A p, q \in Frames(t) : f[p] = f[q] => p = q
  <2> SUFFICES ASSUME NEW p \in Frames(t), NEW q \in Frames(t),
                      <<p[1] + 1, p[2]>> = <<q[1] + 1, q[2]>>
               PROVE  p = q
    BY Zenon
  <2>1. p[1] \in Int /\ q[1] \in Int /\ p = <<p[1], p[2]>> /\ q = <<q[1], q[2]>>
    BY <1>1 DEF Frames
  <2>2. p[1] + 1 = q[1] + 1 /\ p[2] = q[2]
    BY Zenon
  <2>3. p[1] = q[1]
    BY <2>1, <2>2
  <2> QED
    BY Zenon, <2>1, <2>2, <2>3
<1>5. ASSUME NEW q \in rest
      PROVE  <<q[1] - 1, q[2]>> \in Frames(t) /\ f[<<q[1] - 1, q[2]>>] = q
  <2> DEFINE i == q[1] - 1
  <2>1. /\ q = <<q[1], q[2]>> /\ q[1] \in 1..Len(s) /\ q[2] \in 1..46 /\ q[2] <= s[q[1]]
        /\ q \notin one
    BY SMTT(60) DEF Frames
  <2>2. q[1] # 1
    BY SMTT(60), <2>1
  <2>3. i \in 1..Len(t) /\ i + 1 = q[1]
    BY SMTT(60), <1>1, <2>1, <2>2
  <2> HIDE DEF i
  <2>4. <<i, q[2]>> \in Frames(t)
    BY SMTT(60), <1>1, <2>1, <2>3 DEF Frames
  <2>5. f[<<i, q[2]>>] = <<i + 1, q[2]>>
    BY SMTT(60), <2>4
  <2> QED
    BY Zenon, <2>1, <2>3, <2>4, <2>5 DEF i
<1> HIDE DEF one, rest
<1>6. f \in Bijection(Frames(t), rest)
  <2>1. f \in [Frames(t) -> rest]
    BY Zenon, <1>3
  <2> HIDE DEF f
  <2>2. f \in Surjection(Frames(t), rest)
    BY Zenon, <2>1, <1>5 DEF Surjection
  <2>3. f \in Injection(Frames(t), rest)
    BY Zenon, <2>1, <1>4 DEF Injection, IsInjective
  <2> QED
    BY Zenon, <2>2, <2>3 DEF Bijection
<1>7. ExistsBijection(Frames(t), rest)
  BY Zenon, <1>6 DEF ExistsBijection
<1>8. IsFiniteSet(Frames(s)) /\ Cardinality(Frames(s)) \in Nat /\ IsFiniteSet(Frames(t))
  BY Zenon, <1>1, FramesFinite DEF Together
<1>9. Cardinality(rest) = Cardinality(Frames(t))
  BY Zenon, <1>7, <1>8, FS_Bijection
<1>10. Cardinality(rest) = Cardinality(Frames(s)) - Cardinality(Frames(s) \cap one)
  BY Zenon, <1>8, FS_Difference DEF rest
<1>11. Frames(s) \cap one = one
  BY Zenon, <1>2
<1>12. Cardinality(one) = s[1]
  <2>1. 1 \in Nat
    BY Zenon
  <2> QED
    BY ZenonT(90), <1>1, <2>1, FramesOfOne DEF one
<1> QED
  BY Zenon, <1>9, <1>10, <1>11, <1>12 DEF Together, t

\* The ring q of N places holds the sequence s from place a on.
Holds(N, q, a, s) == \A i \in 1..Len(s) : q[(a + i - 1) % N] = s[i]

\* A ring that gives its oldest entry holds the rest, from the next place on.
LEMMA RingGives ==
  ASSUME NEW N \in Nat \ {0}, NEW q, NEW a \in 0..(N - 1), NEW s \in Seq(Reports),
         s # <<>>, Len(s) <= N, Holds(N, q, a, s)
  PROVE  /\ q[a] = s[1]
         /\ (a + 1) % N \in 0..(N - 1)
         /\ Holds(N, q, (a + 1) % N, Tail(s))
<1>1. Len(s) \in Nat /\ Len(s) >= 1 /\ Len(Tail(s)) = Len(s) - 1
      /\ \A i \in 1..Len(Tail(s)) : Tail(s)[i] = s[i + 1]
  OBVIOUS
<1>2. a % N = a /\ (a + 1) % N \in 0..(N - 1)
      /\ (a + 1 < N => (a + 1) % N = a + 1) /\ (~(a + 1 < N) => (a + 1) % N = (a + 1) - N)
  <2>1. a \in 0..(2 * N - 1) /\ a + 1 \in 0..(2 * N - 1) /\ a < N
    OBVIOUS
  <2>2. a % N = a
    BY Zenon, <2>1, SlotOf
  <2>3. (a + 1 < N => (a + 1) % N = a + 1) /\ (~(a + 1 < N) => (a + 1) % N = (a + 1) - N)
    BY Zenon, <2>1, SlotOf
  <2> QED
    BY <2>1, <2>2, <2>3
<1>3. q[a] = s[1]
  <2>1. 1 \in 1..Len(s) /\ a + 1 - 1 = a
    BY <1>1
  <2> QED
    BY Zenon, <2>1, <1>2 DEF Holds
<1>4. ASSUME NEW i \in 1..Len(Tail(s))
      PROVE  q[(((a + 1) % N) + i - 1) % N] = Tail(s)[i]
  <2> DEFINE b == (a + 1) % N
  <2>1. b + i - 1 \in 0..(2 * N - 1) /\ a + (i + 1) - 1 \in 0..(2 * N - 1) /\ i + 1 \in 1..Len(s)
    BY SMTT(60), <1>1, <1>2
  <2>2. /\ (b + i - 1 < N => (b + i - 1) % N = b + i - 1)
        /\ (~(b + i - 1 < N) => (b + i - 1) % N = (b + i - 1) - N)
    BY Zenon, <2>1, SlotOf
  <2>3. /\ (a + (i + 1) - 1 < N => (a + (i + 1) - 1) % N = a + (i + 1) - 1)
        /\ (~(a + (i + 1) - 1 < N) => (a + (i + 1) - 1) % N = (a + (i + 1) - 1) - N)
    BY Zenon, <2>1, SlotOf
  <2>4. (b + i - 1) % N = (a + (i + 1) - 1) % N
    <3> DEFINE x == (b + i - 1) % N
               y == (a + (i + 1) - 1) % N
    <3>1. (a + 1 < N => b = a + 1) /\ (~(a + 1 < N) => b = (a + 1) - N)
      BY Zenon, <1>2
    <3>2. (b + i - 1 < N => x = b + i - 1) /\ (~(b + i - 1 < N) => x = (b + i - 1) - N)
      BY Zenon, <2>2
    <3>3. /\ (a + (i + 1) - 1 < N => y = a + (i + 1) - 1)
          /\ (~(a + (i + 1) - 1 < N) => y = (a + (i + 1) - 1) - N)
      BY Zenon, <2>3
    <3>4. i \in Int /\ i <= N - 1 /\ i >= 1
      BY <1>1
    <3> HIDE DEF x, y, b
    <3>5. x = y
      BY <3>1, <3>2, <3>3, <3>4
    <3> QED
      BY Zenon, <3>5 DEF x, y
  <2>5. q[(a + (i + 1) - 1) % N] = s[i + 1]
    BY Zenon, <2>1 DEF Holds
  <2>6. Tail(s)[i] = s[i + 1]
    BY Zenon, <1>1
  <2> QED
    BY Zenon, <2>4, <2>5, <2>6
<1> QED
  BY Zenon, <1>2, <1>3, <1>4 DEF Holds

\* A ring with room that takes an entry behind its newest holds it last.
LEMMA RingTakes ==
  ASSUME NEW N \in Nat \ {0}, NEW q \in [0..N - 1 -> Nat], NEW a \in 0..(N - 1),
         NEW s \in Seq(Reports), NEW r \in Reports, Len(s) < N, Holds(N, q, a, s)
  PROVE  /\ (a + Len(s)) % N \in 0..(N - 1)
         /\ Holds(N, [q EXCEPT ![(a + Len(s)) % N] = r], a, Append(s, r))
<1> DEFINE k == Len(s)
           t == Append(s, r)
           z == (a + k) % N
<1>1. k \in Nat /\ k < N /\ Len(t) = k + 1 /\ t[k + 1] = r /\ \A i \in 1..k : t[i] = s[i]
  OBVIOUS
<1>2. (a + k < N => z = a + k) /\ (~(a + k < N) => z = (a + k) - N)
  <2>1. a + k \in 0..(2 * N - 1)
    BY <1>1
  <2> QED
    BY Zenon, <2>1, SlotOf
<1>3. z \in 0..(N - 1)
  BY SMTT(60), <1>1, <1>2
<1> HIDE DEF k, t
<1>4. ASSUME NEW i \in 1..(k + 1)
      PROVE  [q EXCEPT ![z] = r][(a + i - 1) % N] = t[i]
  <2> DEFINE y == (a + i - 1) % N
  <2>1. (a + i - 1 < N => y = a + i - 1) /\ (~(a + i - 1 < N) => y = (a + i - 1) - N)
    <3>1. a + i - 1 \in 0..(2 * N - 1)
      BY <1>1
    <3> QED
      BY Zenon, <3>1, SlotOf
  <2> HIDE DEF y, z
  <2>2. y \in 0..(N - 1) /\ (y = z <=> i = k + 1)
    <3>1. k \in Nat /\ k < N /\ i \in 1..(k + 1)
      BY Zenon, <1>1, <1>4
    <3>2. y \in 0..(N - 1)
      BY SMTT(60), <3>1, <2>1
    <3>3. y = z => i = k + 1
      BY SMTT(60), <3>1, <1>2, <2>1
    <3>4. i = k + 1 => y = z
      BY <3>1, <1>2, <2>1
    <3> QED
      BY Zenon, <3>2, <3>3, <3>4
  <2>3. CASE i = k + 1
    <3>1. [q EXCEPT ![z] = r][y] = r
      BY Zenon, <2>2, <2>3, <1>3
    <3> QED
      BY Zenon, <3>1, <2>3, <1>1 DEF y
  <2>4. CASE i # k + 1
    <3>1. [q EXCEPT ![z] = r][y] = q[y]
      BY Zenon, <2>2, <2>4, <1>3
    <3>2. i \in 1..k
      <4>1. k \in Nat /\ i \in 1..(k + 1)
        BY Zenon, <1>1, <1>4
      <4> QED
        BY <4>1, <2>4
    <3>3. q[y] = s[i]
      BY Zenon, <3>2 DEF Holds, y, k
    <3> QED
      BY Zenon, <3>1, <3>2, <3>3, <1>1 DEF y
  <2> QED
    BY Zenon, <2>3, <2>4
<1> QED
  BY Zenon, <1>1, <1>3, <1>4 DEF Holds, k, t

\* A sequence with a report more.
LEMMA AppendOf ==
  ASSUME NEW s \in Seq(Reports), NEW r \in Reports
  PROVE  /\ Append(s, r) \in Seq(Reports) /\ Len(Append(s, r)) = Len(s) + 1
         /\ Append(s, r) # <<>>
<1>1. Append(s, r) \in Seq(Reports) /\ Len(Append(s, r)) = Len(s) + 1 /\ Len(s) \in Nat
  OBVIOUS
<1>2. Len(Append(s, r)) # 0
  BY <1>1
<1>3. Append(s, r) # <<>>
  <2>1. Len(<<>>) = 0
    BY Zenon
  <2> QED
    BY Zenon, <1>2, <2>1
<1> QED
  BY Zenon, <1>1, <1>3

\* What is left of a sequence of at most N reports when another one comes.
Rest(s, N) == IF Len(s) = N THEN Tail(s) ELSE s

\* The rest has room for the report, and with it is the newest N.
LEMMA NewestOf ==
  ASSUME NEW N \in Nat \ {0}, NEW s \in Seq(Reports), NEW r \in Reports, Len(s) <= N
  PROVE  /\ Rest(s, N) \in Seq(Reports) /\ Len(Rest(s, N)) < N
         /\ Len(s) = N => Len(Rest(s, N)) = Len(s) - 1
         /\ Len(s) # N => Len(Rest(s, N)) = Len(s)
         /\ Newest(Append(s, r), N) = Append(Rest(s, N), r)
         /\ Append(Rest(s, N), r) \in Seq(Reports) /\ Len(Append(Rest(s, N), r)) = Len(Rest(s, N)) + 1
         /\ Append(Rest(s, N), r) # <<>>
<1>1. /\ Rest(s, N) \in Seq(Reports) /\ Len(Rest(s, N)) < N
      /\ Len(s) = N => Len(Rest(s, N)) = Len(s) - 1
      /\ Len(s) # N => Len(Rest(s, N)) = Len(s)
      /\ Newest(Append(s, r), N) = Append(Rest(s, N), r)
  <2>1. CASE Len(s) = N
    <3>1. s # <<>> /\ Rest(s, N) = Tail(s)
      BY Zenon, <2>1 DEF Rest
    <3>2. /\ Tail(s) \in Seq(Reports) /\ Len(Tail(s)) = Len(s) - 1 /\ Len(Tail(s)) < N
      BY <2>1, <3>1
    <3>3. Tail(Append(s, r)) = Append(Tail(s), r) /\ Len(Append(s, r)) > N
      BY <2>1, <3>1
    <3>4. Newest(Append(s, r), N) = Append(Tail(s), r)
      BY Zenon, <3>3 DEF Newest
    <3> QED
      BY Zenon, <2>1, <3>1, <3>2, <3>4
  <2>2. CASE Len(s) # N
    <3>1. Len(s) < N /\ Rest(s, N) = s
      BY <2>2 DEF Rest
    <3>2. ~(Len(Append(s, r)) > N)
      BY <3>1
    <3>3. Newest(Append(s, r), N) = Append(s, r)
      BY Zenon, <3>2 DEF Newest
    <3> QED
      BY Zenon, <2>2, <3>1, <3>3
  <2> QED
    BY Zenon, <2>1, <2>2
<1> QED
  BY Zenon, <1>1, AppendOf

\* The oldest place and the number of the reports in a queue of N after it made room.
FirstOf(N, a, k) == IF k = N THEN (a + 1) % N ELSE a
HeldOf(N, k) == IF k = N THEN k - 1 ELSE k
\* The number of the reports in a window of N when one came, and what it displaced.
SeenOf(N, k) == IF k = N THEN k ELSE k + 1
DisplacedOf(N, k, w, x) == IF k = N THEN w[x] ELSE 0

\* The queue of ns6_clock_control_observe: full, it drops its oldest report first.
LEMMA QueueTakes ==
  ASSUME NEW N \in Nat \ {0}, NEW q \in [0..N - 1 -> Nat], NEW a \in 0..(N - 1),
         NEW s \in Seq(Reports), NEW r \in Reports, Len(s) <= N, Holds(N, q, a, s),
         NEW k, k = Len(s)
  PROVE  LET first == FirstOf(N, a, k)
             held == HeldOf(N, k)
             t == Newest(Append(s, r), N)
         IN  /\ first \in 0..(N - 1) /\ (first + held) % N \in 0..(N - 1)
             /\ t \in Seq(Reports) /\ Len(t) = held + 1 /\ held + 1 \in 0..N
             /\ Holds(N, [q EXCEPT ![(first + held) % N] = r], first, t)
<1> DEFINE first == FirstOf(N, a, k)
           held == HeldOf(N, k)
           rest == Rest(s, N)
           t == Newest(Append(s, r), N)
<1>1. /\ rest \in Seq(Reports) /\ Len(rest) < N /\ Len(rest) = held
      /\ t = Append(rest, r) /\ t \in Seq(Reports) /\ Len(t) = held + 1
  <2>2. /\ rest \in Seq(Reports) /\ Len(rest) < N
        /\ Len(s) = N => Len(rest) = Len(s) - 1
        /\ Len(s) # N => Len(rest) = Len(s)
        /\ Newest(Append(s, r), N) = Append(rest, r)
        /\ Append(rest, r) \in Seq(Reports) /\ Len(Append(rest, r)) = Len(rest) + 1
        /\ Append(rest, r) # <<>>
    BY Zenon, NewestOf
  <2> QED
    BY Zenon, <2>2 DEF HeldOf
<1>2. first \in 0..(N - 1) /\ Holds(N, q, first, rest)
  <2>1. CASE Len(s) = N
    <3>1. s # <<>>
      BY Zenon, <2>1
    <3> QED
      BY Zenon, <2>1, <3>1, RingGives DEF Rest, FirstOf
  <2>2. CASE Len(s) # N
    BY Zenon, <2>2 DEF Rest, FirstOf
  <2> QED
    BY Zenon, <2>1, <2>2
<1> HIDE DEF first, held, rest, t
<1>3. /\ (first + held) % N \in 0..(N - 1)
      /\ Holds(N, [q EXCEPT ![(first + held) % N] = r], first, t)
  BY Zenon, <1>1, <1>2, RingTakes
<1>4. held + 1 \in 0..N
  <2>1. Len(rest) \in Nat
    BY <1>1
  <2> QED
    BY SMTT(60), <1>1, <2>1
<1> QED
  BY Zenon, <1>1, <1>2, <1>3, <1>4 DEF first, held, t

\* The window w of ns6_clock_control_observe with the reports s, k in number, after the
\* report r was written at x: the place was free or its oldest report's, and the sum
\* follows.
WindowTook(N, w, x, s, r, k) ==
  LET next == (x + 1) % N
      t == Newest(Append(s, r), N)
  IN  /\ next \in 0..(N - 1) /\ t \in Seq(Reports) /\ t # <<>>
      /\ Len(t) = SeenOf(N, k) /\ SeenOf(N, k) \in 0..N
      /\ Holds(N, [w EXCEPT ![x] = r], (next + (N - SeenOf(N, k))) % N, t)
      /\ Together(t) = Together(s) + r - DisplacedOf(N, k, w, x)
LEMMA WindowTakes ==
  ASSUME NEW N \in Nat \ {0}, NEW w \in [0..N - 1 -> Nat], NEW x \in 0..(N - 1),
         NEW s \in Seq(Reports), NEW r \in Reports, Len(s) <= N, NEW k, k = Len(s),
         Holds(N, w, (x + (N - k)) % N, s)
  PROVE  WindowTook(N, w, x, s, r, k)
<1> DEFINE next == (x + 1) % N
           t == Newest(Append(s, r), N)
           rest == Rest(s, N)
           base == (x + (N - k)) % N
           n == Len(rest)
           base2 == (next + (N - Len(t))) % N
<1>1. /\ rest \in Seq(Reports) /\ n < N /\ n = IF k = N THEN k - 1 ELSE k
      /\ t = Append(rest, r) /\ t \in Seq(Reports) /\ Len(t) = n + 1 /\ t # <<>>
  <2>2. /\ rest \in Seq(Reports) /\ Len(rest) < N
        /\ Len(s) = N => Len(rest) = Len(s) - 1
        /\ Len(s) # N => Len(rest) = Len(s)
        /\ Newest(Append(s, r), N) = Append(rest, r)
        /\ Append(rest, r) \in Seq(Reports) /\ Len(Append(rest, r)) = Len(rest) + 1
        /\ Append(rest, r) # <<>>
    BY Zenon, NewestOf
  <2> QED
    BY Zenon, <2>2
<1>2. k \in 0..N /\ n \in 0..(N - 1)
  <2>1. k \in Nat /\ n \in Nat
    BY <1>1
  <2> QED
    BY <1>1, <2>1
<1>3. Len(t) = (IF k = N THEN k ELSE k + 1) /\ Len(t) \in 0..N
  <2> HIDE DEF n, t, rest
  <2> QED
    BY <1>1, <1>2
<1>4. /\ (x + 1 < N => next = x + 1)
      /\ (~(x + 1 < N) => next = (x + 1) - N)
  <2>1. x + 1 \in 0..(2 * N - 1)
    OBVIOUS
  <2> QED
    BY Zenon, <2>1, SlotOf
<1>5. next \in 0..(N - 1)
  BY <1>4
<1> HIDE DEF next
<1>6. k # 0 => /\ (x + (N - k) < N => base = x + (N - k))
               /\ (~(x + (N - k) < N) => base = (x + (N - k)) - N)
  <2> SUFFICES ASSUME k # 0 PROVE /\ (x + (N - k) < N => base = x + (N - k))
                                  /\ (~(x + (N - k) < N) => base = (x + (N - k)) - N)
    BY Zenon
  <2>1. x + (N - k) \in 0..(2 * N - 1)
    BY <1>2
  <2> QED
    BY Zenon, <2>1, SlotOf
<1>7. /\ (next + (N - (n + 1)) < N => base2 = next + (N - (n + 1)))
      /\ (~(next + (N - (n + 1)) < N) => base2 = (next + (N - (n + 1))) - N)
  <2> HIDE DEF n, t
  <2>1. next + (N - (n + 1)) \in 0..(2 * N - 1)
    BY <1>2, <1>5
  <2> QED
    BY ZenonT(90), <1>1, <2>1, SlotOf
<1>8. base2 \in 0..(N - 1)
  <2> HIDE DEF n, base2
  <2> QED
    BY SMTT(60), <1>2, <1>5, <1>7
<1>9. Holds(N, w, base2, rest) /\ Together(rest) = Together(s) - (IF k = N THEN w[x] ELSE 0)
  <2>1. Together(s) \in Nat
    BY Zenon, FramesFinite
  <2>2. CASE k = N
    <3>1. s # <<>>
      BY Zenon, <2>2
    <3>2. base = x /\ base2 = next
      <4>1. k # 0 /\ n + 1 = N
        BY <1>1, <1>2, <2>2
      <4> HIDE DEF n, base, base2, rest, t
      <4>2. base = x
        BY <1>6, <2>2, <4>1
      <4>3. base2 = next
        BY <1>5, <1>7, <4>1
      <4> QED
        BY Zenon, <4>2, <4>3
    <3>3. w[x] = s[1] /\ Holds(N, w, next, Tail(s))
      <4>1. Holds(N, w, x, s)
        BY Zenon, <3>2
      <4> QED
        BY ZenonT(90), <3>1, <4>1, RingGives DEF next
    <3>4. Together(Tail(s)) = Together(s) - s[1]
      BY Zenon, <3>1, TogetherOfTail
    <3> QED
      BY Zenon, <2>2, <3>2, <3>3, <3>4 DEF Rest
  <2>3. CASE k # N
    <3>1. n = k /\ rest = s
      BY Zenon, <1>1, <2>3 DEF Rest
    <3>2. CASE k = 0
      <4>1. s = <<>>
        BY <3>2
      <4>2. Holds(N, w, base2, s)
        BY <4>1 DEF Holds
      <4> QED
        BY <2>1, <2>3, <3>1, <4>2
    <3>3. CASE k # 0
      <4>1. base2 = base
        <5>1. k < N
          BY <1>2, <2>3
        <5>2. n = k
          BY Zenon, <3>1
        <5>3. k \in 0..N
          BY Zenon, <1>2
        <5> HIDE DEF n, base, base2, rest, t
        <5>4. CASE x + 1 < N
          BY SMTT(60), <5>1, <5>2, <5>3, <5>4, <1>4, <1>6, <1>7, <3>3
        <5>5. CASE ~(x + 1 < N)
          <6>1. x = N - 1 /\ next = 0
            BY SMTT(60), <5>5, <1>4
          <6>2. base2 = N - (k + 1)
            BY SMTT(60), <5>1, <5>2, <5>3, <6>1, <1>7
          <6>3. base = N - (k + 1)
            BY SMTT(60), <5>1, <5>3, <6>1, <1>6, <3>3
          <6> QED
            BY Zenon, <6>2, <6>3
        <5> QED
          BY Zenon, <5>4, <5>5
      <4> QED
        BY <2>1, <2>3, <3>1, <4>1
    <3> QED
      BY Zenon, <3>2, <3>3
  <2> QED
    BY Zenon, <2>2, <2>3
<1>10. (base2 + n) % N = x
  <2> DEFINE y == (base2 + n) % N
  <2> HIDE DEF base2, n
  <2>1. (base2 + n < N => y = base2 + n) /\ (~(base2 + n < N) => y = (base2 + n) - N)
    <3>1. base2 + n \in 0..(2 * N - 1)
      BY <1>2, <1>8
    <3> QED
      BY Zenon, <3>1, SlotOf
  <2> HIDE DEF y
  <2>2. y = x
    <3>1. CASE x + 1 < N
      BY SMTT(60), <1>2, <1>4, <1>7, <2>1, <3>1
    <3>2. CASE ~(x + 1 < N)
      BY SMTT(60), <1>2, <1>4, <1>7, <2>1, <3>2
    <3> QED
      BY Zenon, <3>1, <3>2
  <2> QED
    BY Zenon, <2>2 DEF y
<1>11. Holds(N, [w EXCEPT ![x] = r], base2, t)
  <2> HIDE DEF base2, rest, t
  <2> QED
    BY Zenon, <1>1, <1>8, <1>9, <1>10, RingTakes
<1>12. Together(t) = Together(s) + r - (IF k = N THEN w[x] ELSE 0)
  <2>1. Together(t) = Together(rest) + r
    BY Zenon, <1>1, TogetherOfAppend
  <2>2. Together(s) \in Nat /\ Together(rest) \in Nat /\ r \in Nat /\ w[x] \in Nat
    <3>1. r \in Nat /\ w[x] \in Nat
      BY DEF Reports
    <3> QED
      BY Zenon, <1>1, <3>1, FramesFinite
  <2> HIDE DEF rest, t
  <2> QED
    BY SMTT(60), <1>9, <2>1, <2>2
<1>13. Len(t) = SeenOf(N, k) /\ Together(t) = Together(s) + r - DisplacedOf(N, k, w, x)
  BY Zenon, <1>3, <1>12 DEF SeenOf, DisplacedOf
<1>14. SeenOf(N, k) \in 0..N
  BY Zenon, <1>3, <1>13
<1>15. Holds(N, [w EXCEPT ![x] = r], (next + (N - SeenOf(N, k))) % N, t)
  BY Zenon, <1>11, <1>13
<1> HIDE DEF t
<1> QED
  BY Zenon, <1>1, <1>5, <1>13, <1>14, <1>15 DEF WindowTook, next, t

\* The record of the clock.
Queues == [0..ClockCapacity - 1 -> Nat]
Windows == [0..ClockWindow - 1 -> Nat]
QueuePlaces == 0..ClockCapacity - 1
QueueCounts == 0..ClockCapacity
WindowPlaces == 0..ClockWindow - 1
WindowCounts == 0..ClockWindow
Fractions == 0..900
ClockRecord ==
  [queue: Queues, read: QueuePlaces, count: QueueCounts, window: Windows, index: WindowPlaces,
   seen: WindowCounts, sum: Int, rate: Int, locked: BOOLEAN, fraction: Fractions]

\* The clock c, the reports that wait for a millisecond, those since the last reset,
\* the age of the newest and what is owed, and how they belong together.
ClockTyped(c, waits, seen, valid, owes) ==
  /\ c \in ClockRecord
  /\ waits \in Seq(Reports) /\ seen \in Seq(Reports)
  /\ valid \in {"none", "fresh", "stale"} /\ owes \in 0..9
QueueHolds(c, waits) ==
  /\ c.count = Len(waits)
  /\ Holds(ClockCapacity, c.queue, c.read, waits)
WindowHolds(c, seen) ==
  /\ c.seen = Len(seen) /\ c.sum = Together(seen)
  /\ Holds(ClockWindow, c.window, (c.index + (ClockWindow - c.seen)) % ClockWindow, seen)
  /\ c.rate = IF c.seen = ClockWindow THEN MeanRate(Together(seen)) ELSE NominalRate
LockFollows(c, seen, valid) ==
  /\ c.locked <=> seen # <<>>
  /\ c.locked <=> valid # "none"
ClockIs(c, waits, seen, valid, owes) ==
  /\ ClockTyped(c, waits, seen, valid, owes)
  /\ QueueHolds(c, waits) /\ WindowHolds(c, seen)
  /\ LockFollows(c, seen, valid) /\ owes * 100 = c.fraction

\* The inductive invariant of the clock.
ClockInv == ClockIs(clock, awaited, observed, lastValid, debt)

LEMMA ClockInvGivesFollows == ClockInv => ClockFollowsReports
<1> SUFFICES ASSUME ClockInv PROVE ClockFollowsReports
  BY Zenon
<1>1. \A i \in 1..clock.count : clock.queue[(clock.read + i - 1) % ClockCapacity] = awaited[i]
  BY Zenon DEF ClockInv, ClockIs, QueueHolds, Holds
<1>2. clock.rate = IF clock.seen = ClockWindow
                   THEN (Together(observed) * 1000000) \div ClockWindow ELSE NominalRate
  BY SMTT(60) DEF ClockInv, ClockIs, WindowHolds, MeanRate
<1>3. /\ clock.count = Len(awaited) /\ clock.seen = Len(observed)
      /\ clock.sum = Together(observed)
      /\ (clock.locked <=> observed # <<>>) /\ (clock.locked <=> lastValid # "none")
      /\ debt * 100 = clock.fraction
  BY Zenon DEF ClockInv, ClockIs, QueueHolds, WindowHolds, LockFollows
<1> QED
  BY SMTT(60), <1>1, <1>2, <1>3 DEF ClockFollowsReports

\* A clock without reports, whatever its queue still holds.
LEMMA EmptyClockIs ==
  ASSUME NEW c \in ClockRecord, c.count = 0, c.seen = 0, c.sum = 0, c.rate = NominalRate,
         c.locked = FALSE, c.fraction = 0
  PROVE  ClockIs(c, <<>>, <<>>, "none", 0)
<1>1. ClockTyped(c, <<>>, <<>>, "none", 0)
  BY DEF ClockTyped
<1>2. QueueHolds(c, <<>>)
  BY DEF QueueHolds, Holds
<1>3. WindowHolds(c, <<>>)
  <2>1. 0 # ClockWindow
    BY Zenon, ClockAssumption
  <2>2. \A w, a : Holds(ClockWindow, w, a, <<>>) /\ Len(<<>>) = 0
    BY DEF Holds
  <2> QED
    BY Zenon, <2>1, <2>2, TogetherOfNone DEF WindowHolds
<1>4. LockFollows(c, <<>>, "none") /\ 0 * 100 = c.fraction
  BY DEF LockFollows
<1> QED
  BY Zenon, <1>1, <1>2, <1>3, <1>4 DEF ClockIs

\* ns6_clock_control_init, and with another queue ns6_clock_control_reset_feedback.
LEMMA ResetClockIs ==
  /\ ClockIs(ClockReset, <<>>, <<>>, "none", 0)
  /\ \A q \in Queues : ClockIs([ClockReset EXCEPT !.queue = q], <<>>, <<>>, "none", 0)
<1>1. /\ ClockReset.count = 0 /\ ClockReset.seen = 0 /\ ClockReset.sum = 0
      /\ ClockReset.rate = NominalRate /\ ClockReset.locked = FALSE /\ ClockReset.fraction = 0
  BY DEF ClockReset
<1>2. ClockReset \in ClockRecord
  <2> DEFINE queue == [i \in 0..ClockCapacity - 1 |-> 0]
             window == [i \in 0..ClockWindow - 1 |-> 0]
  <2>1. /\ queue \in Queues /\ 0 \in QueuePlaces /\ 0 \in QueueCounts /\ 0 \in WindowPlaces
        /\ 0 \in WindowCounts /\ 0 \in Fractions /\ window \in Windows /\ 0 \in Int
    BY ClockAssumption DEF Queues, QueuePlaces, QueueCounts, Windows, WindowPlaces, WindowCounts,
                           Fractions
  <2>2. NominalRate \in Int /\ FALSE \in BOOLEAN
    BY SMTT(60) DEF NominalRate
  <2>3. ClockReset = [queue |-> queue, read |-> 0, count |-> 0, window |-> window, index |-> 0,
                      seen |-> 0, sum |-> 0, rate |-> NominalRate, locked |-> FALSE,
                      fraction |-> 0]
    BY Zenon DEF ClockReset
  <2> HIDE DEF queue, window
  <2> QED
    BY Zenon, <2>1, <2>2, <2>3 DEF ClockRecord
<1>3. ASSUME NEW q \in Queues
      PROVE  ClockIs([ClockReset EXCEPT !.queue = q], <<>>, <<>>, "none", 0)
  <2> DEFINE c == [ClockReset EXCEPT !.queue = q]
  <2>1. c \in ClockRecord
    BY Zenon, <1>2 DEF ClockRecord
  <2>2. /\ c.count = ClockReset.count /\ c.seen = ClockReset.seen /\ c.sum = ClockReset.sum
        /\ c.rate = ClockReset.rate /\ c.locked = ClockReset.locked
        /\ c.fraction = ClockReset.fraction
    BY Zenon, <1>2 DEF ClockRecord
  <2> HIDE DEF c
  <2>3. ClockIs(c, <<>>, <<>>, "none", 0)
    BY Zenon, <1>1, <2>1, <2>2, EmptyClockIs
  <2> QED
    BY Zenon, <2>3 DEF c
<1> QED
  BY ZenonT(90), <1>1, <1>2, <1>3, EmptyClockIs

\* ns6_clock_control_next_millisecond takes the oldest report that waits, or a nominal
\* millisecond and its tenth of a frame.
WaitsAfter(waits) == IF waits # <<>> THEN Tail(waits) ELSE waits
OwesAfter(waits, owes, frames) == IF waits = <<>> THEN owes + 441 - 10 * frames ELSE owes
LEMMA MillisecondIs ==
  ASSUME NEW c, NEW waits, NEW seen, NEW valid, NEW owes, ClockIs(c, waits, seen, valid, owes)
  PROVE  ClockIs(NextMillisecond(c).clock, WaitsAfter(waits), seen, valid,
                 OwesAfter(waits, owes, NextMillisecond(c).frames))
<1>1. /\ ClockCapacity \in Nat \ {0} /\ waits \in Seq(Reports) /\ owes \in 0..9
      /\ seen \in Seq(Reports) /\ valid \in {"none", "fresh", "stale"}
  BY Zenon, ClockAssumption DEF ClockIs, ClockTyped
<1>2. c \in ClockRecord
  BY Zenon DEF ClockIs, ClockTyped
<1>3. c.read \in 0..ClockCapacity - 1 /\ c.count \in 0..ClockCapacity /\ c.fraction \in 0..900
  <2>1. c.read \in QueuePlaces /\ c.count \in QueueCounts /\ c.fraction \in Fractions
    BY Zenon, <1>2 DEF ClockRecord
  <2> QED
    BY Zenon, <2>1 DEF QueuePlaces, QueueCounts, Fractions
<1>4. /\ c.count = Len(waits) /\ Holds(ClockCapacity, c.queue, c.read, waits)
      /\ owes * 100 = c.fraction
  BY Zenon DEF ClockIs, QueueHolds
<1>5. c.count > 0 <=> waits # <<>>
  BY <1>1, <1>4
<1>6. CASE waits # <<>>
  <2> DEFINE d == [c EXCEPT !.read = (c.read + 1) % ClockCapacity, !.count = c.count - 1]
             rest == Tail(waits)
  <2>1. NextMillisecond(c).clock = d
    BY SMTT(60), <1>5, <1>6 DEF NextMillisecond
  <2>2. /\ rest \in Seq(Reports) /\ Len(rest) = Len(waits) - 1 /\ Len(waits) <= ClockCapacity
    BY <1>1, <1>3, <1>4, <1>6
  <2>3. /\ (c.read + 1) % ClockCapacity \in 0..ClockCapacity - 1
        /\ Holds(ClockCapacity, c.queue, (c.read + 1) % ClockCapacity, rest)
    BY ZenonT(90), <1>1, <1>3, <1>4, <1>6, <2>2, RingGives
  <2>4. c.count - 1 \in 0..ClockCapacity /\ c.count - 1 = Len(rest)
    BY SMTT(60), <1>1, <1>3, <1>4, <1>5, <1>6, <2>2
  <2> HIDE DEF rest
  <2>5. /\ d.queue = c.queue /\ d.read = (c.read + 1) % ClockCapacity /\ d.count = c.count - 1
        /\ d.window = c.window /\ d.index = c.index /\ d.seen = c.seen /\ d.sum = c.sum
        /\ d.rate = c.rate /\ d.locked = c.locked /\ d.fraction = c.fraction
    BY Zenon, <1>2 DEF ClockRecord
  <2>7. d \in ClockRecord
    <3>1. (c.read + 1) % ClockCapacity \in QueuePlaces /\ c.count - 1 \in QueueCounts
      BY Zenon, <2>3, <2>4 DEF QueuePlaces, QueueCounts
    <3> QED
      BY Zenon, <1>2, <3>1 DEF ClockRecord
  <2> HIDE DEF d
  <2>6. ClockIs(d, rest, seen, valid, owes)
    <3>1. ClockTyped(d, rest, seen, valid, owes)
      BY Zenon, <1>1, <2>2, <2>7 DEF ClockTyped
    <3>2. QueueHolds(d, rest)
      BY Zenon, <2>3, <2>4, <2>5 DEF QueueHolds
    <3>3. WindowHolds(d, seen) /\ LockFollows(d, seen, valid) /\ owes * 100 = d.fraction
      BY ZenonT(90), <2>5 DEF ClockIs, WindowHolds, LockFollows
    <3> QED
      BY Zenon, <3>1, <3>2, <3>3 DEF ClockIs
  <2> QED
    BY ZenonT(90), <1>6, <2>1, <2>6 DEF rest, WaitsAfter, OwesAfter
<1>7. CASE waits = <<>>
  <2> DEFINE carry == c.fraction + 100 >= 1000
             left == c.fraction + 100 - (IF carry THEN 1000 ELSE 0)
             frames == IF carry THEN 45 ELSE 44
             owed == owes + 441 - 10 * frames
             d == [c EXCEPT !.fraction = left]
  <2>1. NextMillisecond(c).clock = d /\ NextMillisecond(c).frames = frames
    BY SMTT(60), <1>5, <1>7 DEF NextMillisecond
  <2>2. left \in Fractions /\ owed \in 0..9 /\ owed * 100 = left
    <3>1. owes \in 0..9 /\ c.fraction = owes * 100
      BY ZenonT(90), <1>1, <1>4
    <3>2. CASE carry
      BY SMTT(60), <3>1, <3>2 DEF Fractions
    <3>3. CASE ~carry
      BY SMTT(60), <3>1, <3>3 DEF Fractions
    <3> QED
      BY ZenonT(90), <3>2, <3>3
  <2> HIDE DEF left, owed, carry, frames
  <2>3. /\ d.queue = c.queue /\ d.read = c.read /\ d.count = c.count
        /\ d.window = c.window /\ d.index = c.index /\ d.seen = c.seen /\ d.sum = c.sum
        /\ d.rate = c.rate /\ d.locked = c.locked /\ d.fraction = left
    BY Zenon, <1>2 DEF ClockRecord
  <2>5. d \in ClockRecord
    BY Zenon, <1>2, <2>2 DEF ClockRecord
  <2> HIDE DEF d
  <2>4. ClockIs(d, waits, seen, valid, owed)
    <3>1. ClockTyped(d, waits, seen, valid, owed)
      BY Zenon, <1>1, <2>2, <2>5 DEF ClockTyped
    <3>2. QueueHolds(d, waits) /\ WindowHolds(d, seen) /\ LockFollows(d, seen, valid)
          /\ owed * 100 = d.fraction
      BY ZenonT(90), <2>2, <2>3 DEF ClockIs, QueueHolds, WindowHolds, LockFollows
    <3> QED
      BY Zenon, <3>1, <3>2 DEF ClockIs
  <2> QED
    BY ZenonT(90), <1>7, <2>1, <2>4 DEF owed, WaitsAfter, OwesAfter
<1> QED
  BY Zenon, <1>6, <1>7

\* Initially.
LEMMA InitClock == ClockInit => ClockInv
BY Zenon, ResetClockIs DEF ClockInit, ClockInv

\* feedback_complete keeps it: the queue drops its oldest report when it is full, the
\* window always overwrites the place of its oldest.
LEMMA ReportKeepsClock ==
  ASSUME ClockInv, NEW report, ReportArrives(report)
  PROVE  ClockInv'
<1> DEFINE read == FirstOf(ClockCapacity, clock.read, clock.count)
           count == HeldOf(ClockCapacity, clock.count)
           seen == SeenOf(ClockWindow, clock.seen)
           sum == clock.sum + report - DisplacedOf(ClockWindow, clock.seen, clock.window, clock.index)
           place == (read + count) % ClockCapacity
           queue2 == [clock.queue EXCEPT ![place] = report]
           window2 == [clock.window EXCEPT ![clock.index] = report]
           index2 == (clock.index + 1) % ClockWindow
           rate2 == IF seen = ClockWindow THEN MeanRate(sum) ELSE clock.rate
           waits == Newest(Append(awaited, report), ClockCapacity)
           kept == Newest(Append(observed, report), ClockWindow)
<1>1. /\ ClockCapacity \in Nat \ {0} /\ ClockWindow \in Nat \ {0} /\ report \in Reports
      /\ awaited \in Seq(Reports) /\ observed \in Seq(Reports) /\ debt \in 0..9
  BY Zenon, ClockAssumption
  DEF ClockInv, ClockIs, ClockTyped, ReportArrives, ValidReport, Reports
<1>2. clock \in ClockRecord
  BY Zenon DEF ClockInv, ClockIs, ClockTyped
<1>3. /\ clock.queue \in [0..ClockCapacity - 1 -> Nat] /\ clock.read \in 0..(ClockCapacity - 1)
      /\ clock.count \in 0..ClockCapacity /\ clock.window \in [0..ClockWindow - 1 -> Nat]
      /\ clock.index \in 0..(ClockWindow - 1) /\ clock.seen \in 0..ClockWindow
      /\ clock.rate \in Int
  <2>1. /\ clock.queue \in Queues /\ clock.read \in QueuePlaces /\ clock.count \in QueueCounts
        /\ clock.window \in Windows /\ clock.index \in WindowPlaces /\ clock.seen \in WindowCounts
        /\ clock.rate \in Int
    BY Zenon, <1>2 DEF ClockRecord
  <2> QED
    BY Zenon, <2>1 DEF Queues, QueuePlaces, QueueCounts, Windows, WindowPlaces, WindowCounts
<1>4. /\ clock.count = Len(awaited) /\ Holds(ClockCapacity, clock.queue, clock.read, awaited)
      /\ clock.seen = Len(observed) /\ clock.sum = Together(observed)
      /\ Holds(ClockWindow, clock.window,
               (clock.index + (ClockWindow - clock.seen)) % ClockWindow, observed)
      /\ clock.rate = IF clock.seen = ClockWindow THEN MeanRate(Together(observed))
                      ELSE NominalRate
      /\ debt * 100 = clock.fraction
  BY Zenon DEF ClockInv, ClockIs, QueueHolds, WindowHolds
<1>5. Len(awaited) <= ClockCapacity /\ Len(observed) <= ClockWindow
  <2>1. clock.count <= ClockCapacity /\ clock.seen <= ClockWindow
    BY <1>3
  <2> QED
    BY Zenon, <1>4, <2>1
<1>6. /\ read \in 0..(ClockCapacity - 1) /\ place \in 0..(ClockCapacity - 1)
      /\ waits \in Seq(Reports) /\ Len(waits) = count + 1 /\ count + 1 \in 0..ClockCapacity
      /\ Holds(ClockCapacity, queue2, read, waits)
  BY ZenonT(90), <1>1, <1>3, <1>4, <1>5, QueueTakes
<1>7. /\ index2 \in 0..(ClockWindow - 1) /\ kept \in Seq(Reports) /\ kept # <<>>
      /\ Len(kept) = seen /\ seen \in 0..ClockWindow
      /\ Holds(ClockWindow, window2, (index2 + (ClockWindow - seen)) % ClockWindow, kept)
      /\ Together(kept) = sum
  <2>1. /\ index2 \in 0..(ClockWindow - 1) /\ kept \in Seq(Reports) /\ kept # <<>>
        /\ Len(kept) = seen /\ seen \in 0..ClockWindow
        /\ Holds(ClockWindow, window2, (index2 + (ClockWindow - seen)) % ClockWindow, kept)
        /\ Together(kept) = Together(observed) + report
             - DisplacedOf(ClockWindow, clock.seen, clock.window, clock.index)
    <3>1. /\ ClockWindow \in Nat \ {0} /\ clock.window \in [0..ClockWindow - 1 -> Nat]
          /\ clock.index \in 0..(ClockWindow - 1) /\ observed \in Seq(Reports)
          /\ report \in Reports /\ Len(observed) <= ClockWindow /\ clock.seen = Len(observed)
          /\ Holds(ClockWindow, clock.window,
                   (clock.index + (ClockWindow - clock.seen)) % ClockWindow, observed)
      BY Zenon, <1>1, <1>3, <1>4, <1>5
    <3>2. WindowTook(ClockWindow, clock.window, clock.index, observed, report, clock.seen)
      BY Zenon, <3>1, WindowTakes
    <3> QED
      BY Zenon, <3>2 DEF WindowTook
  <2> QED
    BY Zenon, <1>4, <2>1
<1>8. queue2 \in Queues /\ window2 \in Windows
  <2>1. report \in Nat
    BY <1>1 DEF Reports
  <2>2. queue2 \in Queues
    <3> HIDE DEF place
    <3> QED
      BY Zenon, <1>3, <1>6, <2>1 DEF Queues
  <2>3. window2 \in Windows
    BY Zenon, <1>3, <2>1 DEF Windows
  <2> QED
    BY Zenon, <2>2, <2>3
<1>9. rate2 = IF seen = ClockWindow THEN MeanRate(Together(kept)) ELSE NominalRate
  <2>1. CASE seen = ClockWindow
    BY Zenon, <1>7, <2>1
  <2>2. CASE seen # ClockWindow
    <3>1. clock.seen # ClockWindow
      BY Zenon, <2>2 DEF SeenOf
    <3> QED
      BY Zenon, <1>4, <2>2, <3>1
  <2> QED
    BY Zenon, <2>1, <2>2
<1>10. sum \in Int /\ rate2 \in Int
  <2>1. sum \in Nat
    BY Zenon, <1>7, FramesFinite
  <2> HIDE DEF sum, seen
  <2>2. MeanRate(sum) \in Int
    BY SMTT(60), <1>1, <2>1 DEF MeanRate
  <2>3. sum \in Int
    BY <2>1
  <2> QED
    BY Zenon, <1>3, <2>2, <2>3
<1>11. clock' = [clock EXCEPT !.queue = queue2, !.read = read, !.count = count + 1,
                             !.window = window2, !.index = index2, !.seen = seen, !.sum = sum,
                             !.locked = TRUE, !.rate = rate2]
  BY SMTT(60), <1>2
  DEF ClockRecord, ReportArrives, Observed, FirstOf, HeldOf, SeenOf, DisplacedOf
<1>12. awaited' = waits /\ observed' = kept /\ lastValid' = "fresh" /\ debt' = debt
  BY Zenon DEF ReportArrives
<1> HIDE DEF read, count, seen, sum, place, queue2, window2, index2, rate2, waits, kept
<1>13. ClockTyped(clock', awaited', observed', lastValid', debt')
  <2>1. clock' \in ClockRecord
    <3>1. /\ read \in QueuePlaces /\ count + 1 \in QueueCounts /\ index2 \in WindowPlaces
          /\ seen \in WindowCounts
      BY Zenon, <1>6, <1>7 DEF QueuePlaces, QueueCounts, WindowPlaces, WindowCounts
    <3> QED
      BY ZenonT(90), <1>2, <1>8, <1>10, <1>11, <3>1 DEF ClockRecord
  <2> QED
    BY ZenonT(90), <1>1, <1>6, <1>7, <1>12, <2>1 DEF ClockTyped
<1>14. /\ clock'.queue = queue2 /\ clock'.read = read /\ clock'.count = count + 1
       /\ clock'.window = window2 /\ clock'.index = index2 /\ clock'.seen = seen
       /\ clock'.sum = sum /\ clock'.rate = rate2 /\ clock'.locked = TRUE
       /\ clock'.fraction = clock.fraction
  BY Zenon, <1>2, <1>11 DEF ClockRecord
<1>15. QueueHolds(clock', awaited')
  BY Zenon, <1>6, <1>12, <1>14 DEF QueueHolds
<1>16. WindowHolds(clock', observed')
  BY Zenon, <1>7, <1>9, <1>12, <1>14 DEF WindowHolds
<1>17. LockFollows(clock', observed', lastValid') /\ debt' * 100 = clock'.fraction
  BY Zenon, <1>4, <1>7, <1>12, <1>14 DEF LockFollows
<1> QED
  BY Zenon, <1>13, <1>15, <1>16, <1>17 DEF ClockInv, ClockIs

\* The report grows old.
LEMMA AgeKeepsClock == ClockInv /\ ReportAges => ClockInv'
<1> SUFFICES ASSUME ClockInv, ReportAges PROVE ClockInv'
  BY Zenon
<1>1. UNCHANGED <<clock, awaited, observed, debt>> /\ lastValid = "fresh" /\ lastValid' = "stale"
  BY Zenon DEF ReportAges
<1>2. LockFollows(clock, observed, "stale")
  BY Zenon, <1>1 DEF ClockInv, ClockIs, LockFollows
<1>3. ClockTyped(clock, awaited, observed, "stale", debt)
  BY Zenon DEF ClockInv, ClockIs, ClockTyped
<1>4. ClockIs(clock, awaited, observed, "stale", debt)
  BY Zenon, <1>2, <1>3 DEF ClockInv, ClockIs
<1> QED
  BY Zenon, <1>1, <1>4 DEF ClockInv

\* fill keeps it: a reset in the middle of a pattern, a new pattern, or both at once.
LEMMA FillKeepsClock == ClockInv /\ FillPacket => ClockInv'
<1> SUFFICES ASSUME ClockInv, FillPacket PROVE ClockInv'
  BY Zenon
<1> DEFINE stale == clock.locked /\ lastValid = "stale"
           base == IF stale THEN FeedbackReset ELSE clock
           waits == IF stale THEN <<>> ELSE awaited
           owes == IF stale THEN 0 ELSE debt
           kept == IF stale THEN <<>> ELSE observed
           valid == IF stale THEN "none" ELSE lastValid
           next == NextMillisecond(base)
           starts == packet.index = 0
<1>1. ClockIs(base, waits, kept, valid, owes)
  <2>1. CASE stale
    <3>1. clock.queue \in Queues
      <4>1. clock \in ClockRecord
        BY Zenon DEF ClockInv, ClockIs, ClockTyped
      <4> QED
        BY Zenon, <4>1 DEF ClockRecord
    <3> QED
      BY Zenon, <2>1, <3>1, ResetClockIs DEF FeedbackReset
  <2>2. CASE ~stale
    BY Zenon, <2>2 DEF ClockInv
  <2> QED
    BY Zenon, <2>1, <2>2
<1>2. /\ clock' = IF starts THEN next.clock ELSE base
      /\ awaited' = IF starts /\ waits # <<>> THEN Tail(waits) ELSE waits
      /\ observed' = kept
      /\ debt' = IF starts /\ waits = <<>> THEN owes + 441 - 10 * next.frames ELSE owes
      /\ lastValid' = valid
  BY Zenon DEF FillPacket
<1> HIDE DEF stale, base, waits, owes, kept, valid, starts
<1>3. ClockIs(next.clock, WaitsAfter(waits), kept, valid, OwesAfter(waits, owes, next.frames))
  BY Zenon, <1>1, MillisecondIs
<1> HIDE DEF next
<1>4. CASE starts
  <2>1. /\ clock' = next.clock /\ awaited' = WaitsAfter(waits)
        /\ debt' = OwesAfter(waits, owes, next.frames)
    BY ZenonT(90), <1>2, <1>4 DEF WaitsAfter, OwesAfter
  <2> QED
    BY Zenon, <1>2, <1>3, <2>1 DEF ClockInv
<1>5. CASE ~starts
  <2>1. clock' = base /\ awaited' = waits /\ debt' = owes
    BY Zenon, <1>2, <1>5
  <2> QED
    BY Zenon, <1>1, <1>2, <2>1 DEF ClockInv
<1> QED
  BY Zenon, <1>4, <1>5

\* The output clock of the earlier driver follows the reports of the device for every
\* window and every queue: see ClockFollowsReports.
THEOREM EarlierClockFollowsReports == ClockSpec => []ClockFollowsReports
<1>1. ClockInv /\ [ClockNext]_clockVars => ClockInv'
  <2> SUFFICES ASSUME ClockInv, [ClockNext]_clockVars PROVE ClockInv'
    BY Zenon
  <2>1. CASE \E report \in ClockReports : ReportArrives(report)
    BY Zenon, <2>1, ReportKeepsClock
  <2>2. CASE ReportAges
    BY Zenon, <2>2, AgeKeepsClock
  <2>3. CASE FillPacket
    BY Zenon, <2>3, FillKeepsClock
  <2>4. CASE UNCHANGED clockVars
    BY Zenon, <2>4 DEF clockVars, ClockInv
  <2> QED
    BY Zenon, <2>1, <2>2, <2>3, <2>4 DEF ClockNext
<1> QED
  BY <1>1, InitClock, ClockInvGivesFollows, PTL DEF ClockSpec
=============================================================================
