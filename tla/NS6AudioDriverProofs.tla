------------------------ MODULE NS6AudioDriverProofs ------------------------
(***************************************************************************)
(* Proofs about the plug-in, for every set of clients, every size of its   *)
(* tables and every limit of its counters.                                 *)
(*                                                                         *)
(* A handler that starts the hardware holds the mutex over several steps,  *)
(* and the records it keeps disagree meanwhile in one way only: its own    *)
(* start is counted by the lifecycle and not yet by the table of clients.  *)
(***************************************************************************)
EXTENDS NS6AudioDriver, ClientActivity, FiniteSetTheorems, TLAPS

ClientValue == [starts : 0..MaxStarts, slot : ActivitySlots]
Stages == {"open", "activate", "run", "started", "failed"}
Calls ==
  {Free} \cup [pc : Stages, by : {"monitor"}]
         \cup [pc : Stages, by : {"startIO"}, device : Devices, id : Ids]

DriverTypeOK ==
  /\ DOMAIN clients \subseteq Devices \X Ids /\ clients \in [DOMAIN clients -> ClientValue]
  /\ keys \in [ActivitySlots -> {NoKey} \cup (Devices \X Ids)]
  /\ starts \in [Devices -> [Ids -> 0..MaxStarts]] /\ activeStarts \in [Devices -> Nat]
  /\ session \in 0..MaxGeneration /\ usb \in 0..MaxGeneration /\ generation \in 0..MaxGeneration
  /\ runtime \in BOOLEAN /\ inputEnabled \in BOOLEAN /\ running \in BOOLEAN
  /\ call \in Calls
  /\ notify \subseteq Devices /\ missed \subseteq Devices /\ hostView \in [Devices -> BOOLEAN]

\* An attached client owns the activity slot it was given, and nobody else one.
SlotsOwned ==
  /\ \A p \in DOMAIN clients : keys[clients[p].slot] = p
  /\ \A k \in ActivitySlots : keys[k] # NoKey => keys[k] \in DOMAIN clients /\ clients[keys[k]].slot = k

\* The start that StartIO has counted and not entered in the table yet.
StartIOOf(d) == call.pc # "free" /\ call.by = "startIO" /\ call.device = d
Entering(d, i) == StartIOOf(d) /\ call.id = i

StartsEntered ==
  \A d \in Devices, i \in Ids :
    /\ Entering(d, i) => hasClient(d, i) /\ starts[d][i] = clients[<<d, i>>].starts + 1
    /\ ~Entering(d, i) => starts[d][i] = IF hasClient(d, i) THEN clients[<<d, i>>].starts ELSE 0

SumsAgree == \A d \in Devices : activeStarts[d] = Cardinality(Started(d))

\* What startHardware has in hand at each stage.
HardwareAtStage ==
  /\ call.pc # "free" => anyActive(activeStarts)
  /\ call.pc \in {"open", "failed"} => session = Absent /\ ~runtime /\ ~running
  /\ call.pc = "activate" => session # Absent /\ ~runtime /\ ~running
  /\ call.pc = "run" => session # Absent /\ runtime /\ ~running
  /\ call.pc = "started" => session # Absent /\ runtime /\ running
  /\ call.pc = "free" => (session # Absent <=> runtime) /\ (runtime <=> running)
  /\ running => anyActive(activeStarts) /\ (inputEnabled <=> activeStarts["in"] # 0)

HostFollows ==
  \A d \in Devices \ (notify \cup missed) : ~StartIOOf(d) => (hostView[d] <=> IsRunning(d))

DriverInv ==
  /\ DriverTypeOK /\ SlotsOwned /\ StartsEntered /\ SumsAgree /\ HardwareAtStage /\ HostFollows
-----------------------------------------------------------------------------
(* The sum of a device's starts, counted one start at a time               *)

StartedBy(f) == {p \in Ids \X (1..MaxStarts) : p[2] <= f[p[1]]}
StartsOf(f, i) == {p \in StartedBy(f) : p[1] = i}

LEMMA StartedFinite ==
  ASSUME NEW f
  PROVE  /\ IsFiniteSet(StartedBy(f)) /\ Cardinality(StartedBy(f)) \in Nat
         /\ Cardinality(StartedBy(f)) <= MaxStarts * Cardinality(Ids)
<1>1. IsFiniteSet(Ids) /\ Cardinality(Ids) \in Nat
  BY Zenon, DriverAssumption, FS_CardinalityType
<1>2. IsFiniteSet(1..MaxStarts) /\ Cardinality(1..MaxStarts) = MaxStarts
  BY DriverAssumption, FS_Interval
<1>3. /\ IsFiniteSet(Ids \X (1..MaxStarts))
      /\ Cardinality(Ids \X (1..MaxStarts)) = Cardinality(Ids) * Cardinality(1..MaxStarts)
  BY Zenon, <1>1, <1>2, FS_Product
<1>4. StartedBy(f) \in SUBSET (Ids \X (1..MaxStarts))
  BY Zenon DEF StartedBy
<1>5. IsFiniteSet(StartedBy(f)) /\ Cardinality(StartedBy(f)) <= Cardinality(Ids \X (1..MaxStarts))
  BY Zenon, <1>3, <1>4, FS_Subset
<1>6. Cardinality(StartedBy(f)) \in Nat
  BY Zenon, <1>5, FS_CardinalityType
<1>7. Cardinality(Ids) * Cardinality(1..MaxStarts) = MaxStarts * Cardinality(Ids)
  BY <1>1, <1>2, DriverAssumption
<1> QED
  BY Zenon, <1>3, <1>5, <1>6, <1>7

LEMMA OneMoreStart ==
  ASSUME NEW f \in [Ids -> 0..MaxStarts], NEW i \in Ids, f[i] < MaxStarts
  PROVE  Cardinality(StartedBy([f EXCEPT ![i] = f[i] + 1])) = Cardinality(StartedBy(f)) + 1
<1> DEFINE g == [f EXCEPT ![i] = f[i] + 1]
           x == <<i, f[i] + 1>>
<1>1. x \in Ids \X (1..MaxStarts) /\ x[1] = i /\ x[2] = f[i] + 1
  BY DriverAssumption
<1>2. x \notin StartedBy(f)
  BY <1>1 DEF StartedBy
<1>3. g[i] = f[i] + 1 /\ \A j \in Ids : j # i => g[j] = f[j]
  BY Zenon
<1> HIDE DEF g, x
<1>4. ASSUME NEW p \in Ids \X (1..MaxStarts)
      PROVE  p \in StartedBy(g) <=> p \in StartedBy(f) \/ p = x
  <2>1. PICK j \in Ids, n \in 1..MaxStarts : p = <<j, n>>
    OBVIOUS
  <2>2. CASE j # i
    BY Zenon, <1>3, <2>1, <2>2 DEF StartedBy, x
  <2>3. CASE j = i
    <3>1. p \in StartedBy(g) <=> n <= f[i] + 1
      BY Zenon, <1>3, <2>1, <2>3 DEF StartedBy
    <3>2. p \in StartedBy(f) <=> n <= f[i]
      BY Zenon, <2>1, <2>3 DEF StartedBy
    <3>3. p = x <=> n = f[i] + 1
      BY Zenon, <2>1, <2>3 DEF x
    <3>4. f[i] \in Nat /\ n \in Nat
      BY DriverAssumption
    <3> QED
      BY <3>1, <3>2, <3>3, <3>4
  <2> QED
    BY Zenon, <2>2, <2>3
<1>5. StartedBy(g) = StartedBy(f) \cup {x}
  BY <1>1, <1>4, Zenon DEF StartedBy
<1>6. Cardinality(StartedBy(f) \cup {x}) = Cardinality(StartedBy(f)) + 1
  BY Zenon, <1>2, StartedFinite, FS_AddElement
<1> QED
  BY Zenon, <1>5, <1>6 DEF g

LEMMA OneStartLess ==
  ASSUME NEW f \in [Ids -> 0..MaxStarts], NEW i \in Ids, f[i] > 0
  PROVE  Cardinality(StartedBy([f EXCEPT ![i] = f[i] - 1])) = Cardinality(StartedBy(f)) - 1
<1> DEFINE g == [f EXCEPT ![i] = f[i] - 1]
<1>1. g \in [Ids -> 0..MaxStarts] /\ g[i] < MaxStarts /\ g[i] = f[i] - 1
  BY DriverAssumption
<1>2. \A j \in Ids : j # i => g[j] = f[j]
  BY Zenon
<1>3. f[i] \in Nat /\ f[i] - 1 + 1 = f[i]
  BY DriverAssumption
<1> HIDE DEF g
<1>4. [g EXCEPT ![i] = g[i] + 1] = f
  <2>1. \A j \in Ids : [g EXCEPT ![i] = g[i] + 1][j] = f[j]
    BY Zenon, <1>1, <1>2, <1>3
  <2>2. [g EXCEPT ![i] = g[i] + 1] = [j \in Ids |-> [g EXCEPT ![i] = g[i] + 1][j]]
    BY Zenon, <1>1
  <2> QED
    BY Zenon, <2>1, <2>2
<1>5. Cardinality(StartedBy(f)) = Cardinality(StartedBy(g)) + 1
  BY Zenon, <1>1, <1>4, OneMoreStart
<1>6. Cardinality(StartedBy(g)) \in Nat
  BY Zenon, StartedFinite
<1> QED
  BY <1>5, <1>6 DEF g

LEMMA StartsOfOne ==
  ASSUME NEW f \in [Ids -> 0..MaxStarts], NEW i \in Ids
  PROVE  /\ IsFiniteSet(StartsOf(f, i)) /\ Cardinality(StartsOf(f, i)) = f[i]
<1> DEFINE b == [n \in 1..f[i] |-> <<i, n>>]
<1>1. f[i] \in Nat /\ f[i] <= MaxStarts
  BY DriverAssumption
<1>2. ASSUME NEW n \in 1..f[i]
      PROVE  <<i, n>> \in StartsOf(f, i)
  <2>1. n \in 1..MaxStarts /\ n <= f[i]
    BY <1>1, DriverAssumption
  <2>2. <<i, n>> \in Ids \X (1..MaxStarts) /\ <<i, n>>[1] = i /\ <<i, n>>[2] = n
    BY Zenon, <2>1
  <2> QED
    BY Zenon, <2>1, <2>2 DEF StartsOf, StartedBy
<1>3. ASSUME NEW p \in StartsOf(f, i)
      PROVE  \E n \in 1..f[i] : p = <<i, n>>
  <2>1. p \in Ids \X (1..MaxStarts) /\ p[1] = i /\ p[2] <= f[i]
    BY Zenon DEF StartsOf, StartedBy
  <2>2. p = <<i, p[2]>> /\ p[2] \in 1..f[i]
    BY <2>1, <1>1, DriverAssumption
  <2> QED
    BY Zenon, <2>2
<1>4. b \in [1..f[i] -> StartsOf(f, i)]
  BY <1>2, Zenon
<1>5. \A m, n \in 1..f[i] : b[m] = b[n] => m = n
  BY Zenon
<1>6. \A p \in StartsOf(f, i) : \E n \in 1..f[i] : b[n] = p
  BY Zenon, <1>3
<1> HIDE DEF b
<1>7. b \in Bijection(1..f[i], StartsOf(f, i))
  <2>1. IsInjective(b)
    BY Zenon, <1>4, <1>5 DEF IsInjective
  <2> QED
    BY Zenon, <1>4, <1>6, <2>1 DEF Bijection, Injection, Surjection
<1>8. ExistsBijection(1..f[i], StartsOf(f, i))
  BY <1>7, Zenon DEF ExistsBijection
<1>9. IsFiniteSet(StartsOf(f, i))
  <2>1. StartsOf(f, i) \in SUBSET StartedBy(f)
    BY Zenon DEF StartsOf
  <2> QED
    BY Zenon, <2>1, StartedFinite, FS_Subset
<1> QED
  BY Zenon, <1>1, <1>8, <1>9, FS_CountingElements

LEMMA NoStartsOfOne ==
  ASSUME NEW f \in [Ids -> 0..MaxStarts], NEW i \in Ids
  PROVE  Cardinality(StartedBy([f EXCEPT ![i] = 0])) = Cardinality(StartedBy(f)) - f[i]
<1> DEFINE g == [f EXCEPT ![i] = 0]
<1>1. g[i] = 0 /\ \A j \in Ids : j # i => g[j] = f[j]
  BY Zenon
<1> HIDE DEF g
<1>2. ASSUME NEW p \in Ids \X (1..MaxStarts)
      PROVE  p \in StartedBy(g) <=> p \in StartedBy(f) /\ p[1] # i
  <2>1. p[1] \in Ids /\ p[2] \in 1..MaxStarts
    BY Zenon
  <2>2. CASE p[1] = i
    <3>1. ~(p[2] <= g[p[1]])
      BY <1>1, <2>1, <2>2, DriverAssumption
    <3> QED
      BY Zenon, <2>2, <3>1 DEF StartedBy
  <2>3. CASE p[1] # i
    BY Zenon, <1>1, <2>1, <2>3 DEF StartedBy
  <2> QED
    BY Zenon, <2>2, <2>3
<1>3. StartedBy(g) = StartedBy(f) \ StartsOf(f, i)
  BY <1>2, Zenon DEF StartedBy, StartsOf
<1>4. StartsOf(f, i) \in SUBSET StartedBy(f) /\ StartedBy(f) \cap StartsOf(f, i) = StartsOf(f, i)
  BY Zenon DEF StartsOf
<1>5. Cardinality(StartedBy(f) \ StartsOf(f, i))
        = Cardinality(StartedBy(f)) - Cardinality(StartedBy(f) \cap StartsOf(f, i))
  BY Zenon, StartedFinite, StartsOfOne, FS_Difference
<1> QED
  BY Zenon, <1>3, <1>4, <1>5, StartsOfOne DEF g

LEMMA SomeStart ==
  ASSUME NEW f \in [Ids -> 0..MaxStarts]
  PROVE  Cardinality(StartedBy(f)) # 0 <=> \E i \in Ids : f[i] # 0
<1>1. Cardinality(StartedBy(f)) = 0 <=> StartedBy(f) = {}
  BY Zenon, StartedFinite, FS_EmptySet
<1>2. ASSUME NEW p \in StartedBy(f)
      PROVE  \E i \in Ids : f[i] # 0
  <2>1. p[1] \in Ids /\ p[2] \in 1..MaxStarts /\ p[2] <= f[p[1]]
    BY Zenon DEF StartedBy
  <2>2. f[p[1]] # 0
    BY <2>1, DriverAssumption
  <2> QED
    BY Zenon, <2>1, <2>2
<1>3. ASSUME NEW i \in Ids, f[i] # 0
      PROVE  <<i, 1>> \in StartedBy(f)
  <2>1. 1 \in 1..MaxStarts /\ 1 <= f[i]
    BY <1>3, DriverAssumption
  <2>2. <<i, 1>> \in Ids \X (1..MaxStarts) /\ <<i, 1>>[1] = i /\ <<i, 1>>[2] = 1
    BY Zenon, <2>1
  <2> QED
    BY Zenon, <2>1, <2>2 DEF StartedBy
<1> QED
  BY Zenon, <1>1, <1>2, <1>3
-----------------------------------------------------------------------------
(* The lifecycles                                                          *)

LEMMA AcceptsRoom ==
  ASSUME NEW d \in Devices, NEW i \in Ids, DriverTypeOK, Accepts(d, i)
  PROVE  starts[d][i] < MaxStarts
<1>1. starts[d][i] \in 0..MaxStarts
  BY ZenonT(90) DEF DriverTypeOK
<1>2. starts[d][i] > 0 => starts[d][i] < MaxStarts
  BY Zenon DEF Accepts
<1> QED
  BY <1>1, <1>2, DriverAssumption

\* A lifecycle that changes one client's starts and their sum alike.
LEMMA LifecycleCounts ==
  ASSUME NEW d \in Devices, NEW i \in Ids, DriverTypeOK, SumsAgree,
         NEW n \in 0..MaxStarts, NEW m \in Int,
         starts' = [starts EXCEPT ![d] = [starts[d] EXCEPT ![i] = n]],
         activeStarts' = [activeStarts EXCEPT ![d] = m],
         m = Cardinality(StartedBy([starts[d] EXCEPT ![i] = n]))
  PROVE  /\ starts' \in [Devices -> [Ids -> 0..MaxStarts]] /\ activeStarts' \in [Devices -> Nat]
         /\ SumsAgree'
         /\ starts'[d][i] = n /\ activeStarts'[d] = m
         /\ \A e \in Devices, j \in Ids : <<e, j>> # <<d, i>> => starts'[e][j] = starts[e][j]
         /\ \A e \in Devices : e # d => activeStarts'[e] = activeStarts[e]
<1>1. /\ starts \in [Devices -> [Ids -> 0..MaxStarts]] /\ activeStarts \in [Devices -> Nat]
      /\ starts[d] \in [Ids -> 0..MaxStarts]
  BY Zenon DEF DriverTypeOK
<1> DEFINE f == [starts[d] EXCEPT ![i] = n]
<1>2. f \in [Ids -> 0..MaxStarts] /\ f[i] = n /\ \A j \in Ids : j # i => f[j] = starts[d][j]
  BY Zenon, <1>1
<1>3. starts' = [starts EXCEPT ![d] = f] /\ m = Cardinality(StartedBy(f))
  BY Zenon
<1> HIDE DEF f
<1>4. m \in Nat
  BY Zenon, <1>3, StartedFinite
<1>5. starts'[d] = f /\ \A e \in Devices : e # d => starts'[e] = starts[e]
  BY Zenon, <1>1, <1>3
<1>6. starts' \in [Devices -> [Ids -> 0..MaxStarts]]
  BY Zenon, <1>1, <1>2, <1>3
<1>7. /\ activeStarts' \in [Devices -> Nat]
      /\ activeStarts'[d] = m /\ \A e \in Devices : e # d => activeStarts'[e] = activeStarts[e]
  BY Zenon, <1>1, <1>4
<1>8. SumsAgree'
  <2>1. SUFFICES ASSUME NEW e \in Devices
                 PROVE  activeStarts'[e] = Cardinality(StartedBy(starts'[e]))
    BY Zenon DEF SumsAgree, Started, StartedBy
  <2>2. CASE e = d
    BY <1>3, <1>5, <1>7, <2>2, Zenon
  <2>3. CASE e # d
    <3>1. activeStarts[e] = Cardinality(StartedBy(starts[e]))
      BY Zenon DEF SumsAgree, Started, StartedBy
    <3> QED
      BY <1>5, <1>7, <2>3, <3>1, Zenon
  <2> QED
    BY <2>2, <2>3, Zenon
<1>9. \A e \in Devices, j \in Ids : <<e, j>> # <<d, i>> => starts'[e][j] = starts[e][j]
  BY ZenonT(90), <1>2, <1>5
<1> QED
  BY <1>2, <1>5, <1>6, <1>7, <1>8, <1>9, Zenon

\* What one client's starts and the sums become: n for <<d, i>>, changed by c.
Counted(d, i, n, c) ==
  /\ starts' \in [Devices -> [Ids -> 0..MaxStarts]] /\ activeStarts' \in [Devices -> Nat]
  /\ SumsAgree'
  /\ starts'[d][i] = n /\ activeStarts'[d] = activeStarts[d] + c
  /\ \A e \in Devices, j \in Ids : <<e, j>> # <<d, i>> => starts'[e][j] = starts[e][j]
  /\ \A e \in Devices : e # d => activeStarts'[e] = activeStarts[e]

LEMMA StartCounted ==
  ASSUME NEW d \in Devices, NEW i \in Ids, DriverTypeOK, SumsAgree,
         starts[d][i] < MaxStarts, LifecycleStart(d, i)
  PROVE  Counted(d, i, starts[d][i] + 1, 1)
<1>1. starts[d] \in [Ids -> 0..MaxStarts] /\ activeStarts[d] \in Nat
  BY Zenon DEF DriverTypeOK
<1>2. starts[d][i] + 1 \in 0..MaxStarts /\ activeStarts[d] + 1 \in Int
  BY <1>1, DriverAssumption
<1>3. /\ starts' = [starts EXCEPT ![d] = [starts[d] EXCEPT ![i] = starts[d][i] + 1]]
      /\ activeStarts' = [activeStarts EXCEPT ![d] = activeStarts[d] + 1]
  BY Zenon DEF LifecycleStart
<1>4. activeStarts[d] = Cardinality(StartedBy(starts[d]))
  BY Zenon DEF SumsAgree, Started, StartedBy
<1>5. Cardinality(StartedBy([starts[d] EXCEPT ![i] = starts[d][i] + 1])) = activeStarts[d] + 1
  BY <1>1, <1>4, OneMoreStart, Zenon
<1> QED
  BY <1>2, <1>3, <1>5, LifecycleCounts, Zenon DEF Counted

LEMMA StopCounted ==
  ASSUME NEW d \in Devices, NEW i \in Ids, DriverTypeOK, SumsAgree,
         starts[d][i] > 0, LifecycleStop(d, i)
  PROVE  Counted(d, i, starts[d][i] - 1, -1)
<1>1. starts[d] \in [Ids -> 0..MaxStarts] /\ activeStarts[d] \in Nat
  BY Zenon DEF DriverTypeOK
<1>2. starts[d][i] - 1 \in 0..MaxStarts /\ activeStarts[d] - 1 \in Int
  BY <1>1, DriverAssumption
<1>3. /\ starts' = [starts EXCEPT ![d] = [starts[d] EXCEPT ![i] = starts[d][i] - 1]]
      /\ activeStarts' = [activeStarts EXCEPT ![d] = activeStarts[d] - 1]
  BY Zenon DEF LifecycleStop
<1>4. activeStarts[d] = Cardinality(StartedBy(starts[d]))
  BY Zenon DEF SumsAgree, Started, StartedBy
<1>5. Cardinality(StartedBy([starts[d] EXCEPT ![i] = starts[d][i] - 1])) = activeStarts[d] - 1
  BY <1>1, <1>4, OneStartLess, Zenon
<1>6. activeStarts[d] - 1 = activeStarts[d] + (-1)
  BY Zenon, <1>1
<1> QED
  BY <1>2, <1>3, <1>5, <1>6, LifecycleCounts, Zenon DEF Counted

LEMMA RemovalCounted ==
  ASSUME NEW d \in Devices, NEW i \in Ids, DriverTypeOK, SumsAgree, LifecycleRemove(d, i)
  PROVE  Counted(d, i, 0, -starts[d][i])
<1>1. starts[d] \in [Ids -> 0..MaxStarts] /\ activeStarts[d] \in Nat /\ starts[d][i] \in 0..MaxStarts
  BY Zenon DEF DriverTypeOK
<1>2. 0 \in 0..MaxStarts /\ activeStarts[d] - starts[d][i] \in Int
  BY <1>1, DriverAssumption
<1>3. /\ starts' = [starts EXCEPT ![d] = [starts[d] EXCEPT ![i] = 0]]
      /\ activeStarts' = [activeStarts EXCEPT ![d] = activeStarts[d] - starts[d][i]]
  BY Zenon DEF LifecycleRemove
<1>4. activeStarts[d] = Cardinality(StartedBy(starts[d]))
  BY Zenon DEF SumsAgree, Started, StartedBy
<1>5. Cardinality(StartedBy([starts[d] EXCEPT ![i] = 0])) = activeStarts[d] - starts[d][i]
  BY <1>1, <1>4, NoStartsOfOne, Zenon
<1>6. activeStarts[d] - starts[d][i] = activeStarts[d] + (-starts[d][i])
  BY Zenon, <1>1, DriverAssumption
<1> QED
  BY <1>2, <1>3, <1>5, <1>6, LifecycleCounts, Zenon DEF Counted
-----------------------------------------------------------------------------
(* The table of clients and the call in progress                           *)

\* The entry of <<d, i>> counts n starts, and the others are as they were.
Recounted(d, i, n) ==
  /\ DOMAIN clients' = DOMAIN clients /\ clients' \in [DOMAIN clients -> ClientValue]
  /\ \A p \in DOMAIN clients : clients'[p].slot = clients[p].slot
  /\ \A p \in DOMAIN clients : p # <<d, i>> => clients'[p].starts = clients[p].starts
  /\ clients'[<<d, i>>].starts = n

LEMMA ClientRecounted ==
  ASSUME NEW d \in Devices, NEW i \in Ids, DriverTypeOK, hasClient(d, i), NEW n \in 0..MaxStarts,
         clients' = [clients EXCEPT ![<<d, i>>] = [clients[<<d, i>>] EXCEPT !.starts = n]]
  PROVE  Recounted(d, i, n)
<1> DEFINE q == <<d, i>>
           r == [clients[q] EXCEPT !.starts = n]
<1>1. q \in DOMAIN clients /\ clients \in [DOMAIN clients -> ClientValue] /\ clients[q] \in ClientValue
  BY Zenon DEF DriverTypeOK, hasClient
<1>2. r \in ClientValue /\ r.starts = n /\ r.slot = clients[q].slot
  BY Zenon, <1>1 DEF ClientValue
<1>3. clients' = [clients EXCEPT ![q] = r]
  BY Zenon
<1> HIDE DEF q, r
<1>4. DOMAIN clients' = DOMAIN clients /\ clients' \in [DOMAIN clients -> ClientValue]
  BY Zenon, <1>1, <1>2, <1>3
<1>5. clients'[q] = r /\ \A p \in DOMAIN clients : p # q => clients'[p] = clients[p]
  BY Zenon, <1>1, <1>3
<1>6. \A p \in DOMAIN clients : clients'[p].slot = clients[p].slot
  BY <1>2, <1>5, Zenon
<1> QED
  BY <1>2, <1>4, <1>5, <1>6, Zenon DEF Recounted, q

LEMMA FreeCall ==
  ASSUME call = Free
  PROVE  /\ call.pc = "free" /\ \A d \in Devices : ~StartIOOf(d)
         /\ \A d \in Devices, i \in Ids : ~Entering(d, i)
BY Zenon DEF Free, StartIOOf, Entering

LEMMA CallInProgress ==
  ASSUME call \in Calls, call.pc # "free"
  PROVE  /\ call # Free /\ call.pc \in Stages /\ call.by \in {"monitor", "startIO"}
         /\ call.by = "startIO" => call.device \in Devices /\ call.id \in Ids
BY DEF Calls, Free

\* A stage of startHardware moves the call on and leaves it the same call.
SameCall ==
  \A d \in Devices : (StartIOOf(d)' <=> StartIOOf(d)) /\ \A i \in Ids : Entering(d, i)' <=> Entering(d, i)

LEMMA CallMoves ==
  ASSUME call \in Calls, call.pc # "free", NEW s \in Stages, call' = [call EXCEPT !.pc = s]
  PROVE  call' \in Calls /\ call'.pc = s /\ call'.by = call.by /\ SameCall
<1>1. CASE call.by = "monitor"
  <2>1. call \in [pc : Stages, by : {"monitor"}]
    BY <1>1 DEF Calls, Free
  <2>2. call' \in [pc : Stages, by : {"monitor"}] /\ call'.pc = s /\ call'.by = "monitor"
    BY Zenon, <2>1
  <2> QED
    BY <1>1, <2>2, Zenon DEF Calls, SameCall, StartIOOf, Entering
<1>2. CASE call.by = "startIO"
  <2>1. call \in [pc : Stages, by : {"startIO"}, device : Devices, id : Ids]
    BY <1>2 DEF Calls, Free
  <2>2. /\ call' \in [pc : Stages, by : {"startIO"}, device : Devices, id : Ids]
        /\ call'.pc = s /\ call'.by = call.by /\ call'.device = call.device /\ call'.id = call.id
    BY Zenon, <2>1
  <2>3. call'.pc # "free"
    BY Zenon, <2>2 DEF Stages
  <2> QED
    BY <2>2, <2>3, Zenon DEF Calls, SameCall, StartIOOf, Entering
<1> QED
  BY <1>1, <1>2, CallInProgress, Zenon
-----------------------------------------------------------------------------
(* The records of clients and starts                                       *)

RecordsTypeOK ==
  /\ DOMAIN clients \subseteq Devices \X Ids /\ clients \in [DOMAIN clients -> ClientValue]
  /\ keys \in [ActivitySlots -> {NoKey} \cup (Devices \X Ids)]
  /\ starts \in [Devices -> [Ids -> 0..MaxStarts]] /\ activeStarts \in [Devices -> Nat]
  /\ call \in Calls

RecordsOK == RecordsTypeOK /\ SlotsOwned /\ StartsEntered /\ SumsAgree

LEMMA SlotsKept ==
  ASSUME NEW d \in Devices, NEW i \in Ids, NEW n, RecordsTypeOK, SlotsOwned, Recounted(d, i, n),
         UNCHANGED keys
  PROVE  SlotsOwned'
BY Zenon DEF RecordsTypeOK, SlotsOwned, Recounted

\* StartIO of a client counts in the lifecycle and in the table, at once or, when
\* the hardware has to start first, in two steps.
LEMMA StartIOActiveRecords ==
  ASSUME NEW d \in Devices, NEW i \in Ids, DriverInv, StartIOActive(d, i)
  PROVE  RecordsOK' /\ Counted(d, i, starts[d][i] + 1, 1)
<1> USE DEF DriverInv
<1>1. /\ call = Free /\ hasClient(d, i) /\ Accepts(d, i) /\ LifecycleStart(d, i) /\ CountStart(d, i)
      /\ UNCHANGED <<keys, call>>
  BY Zenon DEF StartIOActive
<1>2. starts[d][i] < MaxStarts /\ starts[d][i] \in 0..MaxStarts
  BY <1>1, AcceptsRoom, Zenon DEF DriverTypeOK
<1>3. Counted(d, i, starts[d][i] + 1, 1)
  BY <1>1, <1>2, StartCounted, Zenon
<1>4. starts[d][i] = clients[<<d, i>>].starts
  BY <1>1, FreeCall, Zenon DEF StartsEntered
<1>5. starts[d][i] + 1 \in 0..MaxStarts
  BY <1>2, DriverAssumption
<1>6. clients' = [clients EXCEPT ![<<d, i>>] = [clients[<<d, i>>] EXCEPT !.starts = starts[d][i] + 1]]
  BY Zenon, <1>1, <1>4 DEF CountStart
<1>7. Recounted(d, i, starts[d][i] + 1)
  BY <1>1, <1>5, <1>6, ClientRecounted, Zenon
<1>8. RecordsTypeOK'
  BY <1>1, <1>3, <1>7, Zenon DEF RecordsTypeOK, DriverTypeOK, Counted, Recounted
<1>9. StartsEntered'
  <2>1. SUFFICES ASSUME NEW e \in Devices, NEW j \in Ids
                 PROVE  starts'[e][j] = IF hasClient(e, j)' THEN clients'[<<e, j>>].starts ELSE 0
    BY <1>1, FreeCall, Zenon DEF StartsEntered, Entering, StartIOOf
  <2>2. hasClient(e, j)' <=> hasClient(e, j)
    BY <1>7, Zenon DEF Recounted, hasClient
  <2>3. CASE <<e, j>> = <<d, i>>
    BY Zenon, <1>1, <1>3, <1>7, <2>2, <2>3 DEF Recounted, Counted
  <2>4. CASE <<e, j>> # <<d, i>>
    <3>1. starts[e][j] = IF hasClient(e, j) THEN clients[<<e, j>>].starts ELSE 0
      BY <1>1, FreeCall, Zenon DEF StartsEntered
    <3> QED
      BY <1>3, <1>7, <2>2, <2>4, <3>1, Zenon DEF Recounted, Counted, hasClient
  <2> QED
    BY <2>3, <2>4, Zenon
<1>10. SlotsOwned'
  BY <1>1, <1>7, SlotsKept, Zenon DEF RecordsTypeOK, DriverTypeOK
<1> QED
  BY <1>3, <1>8, <1>9, <1>10, Zenon DEF RecordsOK, Counted

LEMMA StartIOIdleRecords ==
  ASSUME NEW d \in Devices, NEW i \in Ids, DriverInv, StartIOIdle(d, i)
  PROVE  RecordsOK' /\ Counted(d, i, starts[d][i] + 1, 1)
<1> USE DEF DriverInv
<1>1. /\ call = Free /\ hasClient(d, i) /\ Accepts(d, i) /\ LifecycleStart(d, i)
      /\ call' = [pc |-> "open", by |-> "startIO", device |-> d, id |-> i]
      /\ UNCHANGED <<clients, keys>>
  BY Zenon DEF StartIOIdle
<1>2. starts[d][i] < MaxStarts
  BY <1>1, AcceptsRoom, Zenon
<1>3. Counted(d, i, starts[d][i] + 1, 1)
  BY <1>1, <1>2, StartCounted, Zenon
<1>4. /\ call' \in [pc : Stages, by : {"startIO"}, device : Devices, id : Ids]
      /\ call'.pc = "open" /\ call'.by = "startIO" /\ call'.device = d /\ call'.id = i
  BY Zenon, <1>1 DEF Stages
<1>5. RecordsTypeOK'
  BY <1>1, <1>3, <1>4, Zenon DEF RecordsTypeOK, DriverTypeOK, Counted, Calls
<1>6. StartsEntered'
  <2>1. SUFFICES ASSUME NEW e \in Devices, NEW j \in Ids
                 PROVE  /\ Entering(e, j)' => /\ hasClient(e, j)'
                                              /\ starts'[e][j] = clients'[<<e, j>>].starts + 1
                        /\ ~Entering(e, j)' => starts'[e][j] = IF hasClient(e, j)'
                                                               THEN clients'[<<e, j>>].starts ELSE 0
    BY Zenon DEF StartsEntered
  <2>2. starts[e][j] = IF hasClient(e, j) THEN clients[<<e, j>>].starts ELSE 0
    BY <1>1, FreeCall, Zenon DEF StartsEntered
  <2>3. hasClient(e, j)' <=> hasClient(e, j)
    BY <1>1, Zenon DEF hasClient
  <2>4. Entering(e, j)' <=> <<e, j>> = <<d, i>>
    BY Zenon, <1>4 DEF Entering, StartIOOf
  <2>5. CASE <<e, j>> = <<d, i>>
    <3>1. starts'[e][j] = starts[e][j] + 1
      BY Zenon, <1>3, <2>5 DEF Counted
    <3>2. hasClient(e, j) /\ clients' = clients
      BY Zenon, <1>1, <2>5
    <3> QED
      BY <2>2, <2>3, <2>4, <2>5, <3>1, <3>2, Zenon
  <2>6. CASE <<e, j>> # <<d, i>>
    BY <1>1, <1>3, <2>2, <2>3, <2>4, <2>6, ZenonT(90) DEF Counted
  <2> QED
    BY <2>5, <2>6, Zenon
<1>7. SlotsOwned'
  BY <1>1, Zenon DEF SlotsOwned
<1> QED
  BY <1>3, <1>5, <1>6, <1>7, Zenon DEF RecordsOK, Counted

LEMMA StartIOStartedRecords ==
  ASSUME DriverInv, StartIOStarted
  PROVE  RecordsOK'
<1> USE DEF DriverInv
<1> DEFINE d == call.device
           i == call.id
<1>1. /\ call.pc = "started" /\ call.by = "startIO" /\ CountStart(d, i) /\ call' = Free
      /\ UNCHANGED <<keys, starts, activeStarts>>
  BY Zenon DEF StartIOStarted
<1>2. call.pc # "free" /\ call \in Calls
  BY Zenon, <1>1 DEF DriverTypeOK
<1>3. d \in Devices /\ i \in Ids
  BY <1>1, <1>2, CallInProgress, Zenon
<1>4. \A e \in Devices, j \in Ids : Entering(e, j) <=> <<e, j>> = <<d, i>>
  BY Zenon, <1>1, <1>2, <1>3 DEF Entering, StartIOOf
<1> HIDE DEF d, i
<1>5. hasClient(d, i) /\ starts[d][i] = clients[<<d, i>>].starts + 1
  BY <1>3, <1>4, Zenon DEF StartsEntered
<1>6. clients' = [clients EXCEPT ![<<d, i>>] = [clients[<<d, i>>] EXCEPT !.starts = starts[d][i]]]
  BY Zenon, <1>1, <1>5 DEF CountStart
<1>7. starts[d][i] \in 0..MaxStarts
  BY <1>3, ZenonT(90) DEF DriverTypeOK
<1>8. Recounted(d, i, starts[d][i])
  BY <1>3, <1>5, <1>6, <1>7, ClientRecounted, Zenon
<1>9. RecordsTypeOK'
  BY <1>1, <1>8, Zenon DEF RecordsTypeOK, DriverTypeOK, Recounted, Calls
<1>10. \A e \in Devices, j \in Ids : ~Entering(e, j)'
  BY Zenon, <1>1 DEF Entering, StartIOOf, Free
<1>11. StartsEntered'
  <2>1. SUFFICES ASSUME NEW e \in Devices, NEW j \in Ids
                 PROVE  starts'[e][j] = IF hasClient(e, j)' THEN clients'[<<e, j>>].starts ELSE 0
    BY <1>10, Zenon DEF StartsEntered
  <2>2. hasClient(e, j)' <=> hasClient(e, j)
    BY <1>8, Zenon DEF Recounted, hasClient
  <2>3. CASE <<e, j>> = <<d, i>>
    BY Zenon, <1>1, <1>5, <1>8, <2>2, <2>3 DEF Recounted
  <2>4. CASE <<e, j>> # <<d, i>>
    <3>1. starts[e][j] = IF hasClient(e, j) THEN clients[<<e, j>>].starts ELSE 0
      BY <1>4, <2>4, Zenon DEF StartsEntered
    <3> QED
      BY <1>1, <1>8, <2>2, <2>4, <3>1, Zenon DEF Recounted, hasClient
  <2> QED
    BY <2>3, <2>4, Zenon
<1>12. SlotsOwned'
  BY <1>1, <1>3, <1>8, SlotsKept, Zenon DEF RecordsTypeOK, DriverTypeOK
<1>13. SumsAgree'
  BY <1>1, Zenon DEF SumsAgree, Started
<1> QED
  BY <1>9, <1>11, <1>12, <1>13, Zenon DEF RecordsOK

LEMMA StartIOFailedRecords ==
  ASSUME DriverInv, StartIOFailed
  PROVE  /\ RecordsOK' /\ call.device \in Devices
         /\ \A e \in Devices : e # call.device => activeStarts'[e] = activeStarts[e]
<1> USE DEF DriverInv
<1> DEFINE d == call.device
           i == call.id
<1>1. /\ call.pc = "failed" /\ call.by = "startIO" /\ LifecycleStop(d, i) /\ call' = Free
      /\ UNCHANGED <<clients, keys>>
  BY Zenon DEF StartIOFailed
<1>2. call.pc # "free" /\ call \in Calls
  BY Zenon, <1>1 DEF DriverTypeOK
<1>3. d \in Devices /\ i \in Ids
  BY <1>1, <1>2, CallInProgress, Zenon
<1>4. \A e \in Devices, j \in Ids : Entering(e, j) <=> <<e, j>> = <<d, i>>
  BY ZenonT(90), <1>1, <1>2, <1>3 DEF Entering, StartIOOf
<1> HIDE DEF d, i
<1>5. hasClient(d, i) /\ starts[d][i] = clients[<<d, i>>].starts + 1
  BY <1>3, <1>4, Zenon DEF StartsEntered
<1>6. clients[<<d, i>>].starts \in 0..MaxStarts
  <2>1. clients[<<d, i>>] \in ClientValue
    BY <1>5, Zenon DEF DriverTypeOK, hasClient
  <2> QED
    BY Zenon, <2>1 DEF ClientValue
<1>7. starts[d][i] > 0 /\ starts[d][i] - 1 = clients[<<d, i>>].starts
  BY <1>5, <1>6, DriverAssumption
<1>8. Counted(d, i, starts[d][i] - 1, -1)
  BY <1>1, <1>3, <1>7, StopCounted, Zenon
<1>9. RecordsTypeOK'
  BY <1>1, <1>8, Zenon DEF RecordsTypeOK, DriverTypeOK, Counted, Calls
<1>10. \A e \in Devices, j \in Ids : ~Entering(e, j)'
  BY ZenonT(90), <1>1 DEF Entering, StartIOOf, Free
<1>11. StartsEntered'
  <2>1. SUFFICES ASSUME NEW e \in Devices, NEW j \in Ids
                 PROVE  starts'[e][j] = IF hasClient(e, j)' THEN clients'[<<e, j>>].starts ELSE 0
    BY <1>10, Zenon DEF StartsEntered
  <2>2. hasClient(e, j)' <=> hasClient(e, j)
    BY <1>1, Zenon DEF hasClient
  <2>3. CASE <<e, j>> = <<d, i>>
    BY ZenonT(90), <1>1, <1>5, <1>7, <1>8, <2>2, <2>3 DEF Counted
  <2>4. CASE <<e, j>> # <<d, i>>
    <3>1. starts[e][j] = IF hasClient(e, j) THEN clients[<<e, j>>].starts ELSE 0
      BY <1>4, <2>4, Zenon DEF StartsEntered
    <3> QED
      BY <1>1, <1>8, <2>2, <2>4, <3>1, ZenonT(90) DEF Counted
  <2> QED
    BY <2>3, <2>4, Zenon
<1>12. SlotsOwned'
  BY <1>1, Zenon DEF SlotsOwned
<1> QED
  BY <1>3, <1>8, <1>9, <1>11, <1>12, Zenon DEF RecordsOK, Counted, d

LEMMA stopIORecords ==
  ASSUME NEW d \in Devices, NEW i \in Ids, DriverInv, stopIO(d, i)
  PROVE  RecordsOK' /\ Counted(d, i, starts[d][i] - 1, -1)
<1> USE DEF DriverInv
<1>1. /\ call = Free /\ hasClient(d, i) /\ starts[d][i] > 0 /\ LifecycleStop(d, i)
      /\ clients' = [clients EXCEPT ![<<d, i>>].starts = IF @ # 0 THEN @ - 1 ELSE @]
      /\ UNCHANGED <<keys, call>>
  BY Zenon DEF stopIO
<1>2. Counted(d, i, starts[d][i] - 1, -1)
  BY <1>1, StopCounted, Zenon
<1>3. starts[d][i] = clients[<<d, i>>].starts /\ starts[d][i] \in 0..MaxStarts
  BY <1>1, FreeCall, Zenon DEF StartsEntered, DriverTypeOK
<1>4. starts[d][i] - 1 \in 0..MaxStarts /\ starts[d][i] # 0
  BY <1>1, <1>3, DriverAssumption
<1>5. clients' = [clients EXCEPT ![<<d, i>>] = [clients[<<d, i>>] EXCEPT !.starts = starts[d][i] - 1]]
  BY Zenon, <1>1, <1>3, <1>4
<1>6. Recounted(d, i, starts[d][i] - 1)
  BY <1>1, <1>4, <1>5, ClientRecounted, Zenon
<1>7. RecordsTypeOK'
  BY <1>1, <1>2, <1>6, ZenonT(90) DEF RecordsTypeOK, DriverTypeOK, Counted, Recounted
<1>8. StartsEntered'
  <2>1. SUFFICES ASSUME NEW e \in Devices, NEW j \in Ids
                 PROVE  starts'[e][j] = IF hasClient(e, j)' THEN clients'[<<e, j>>].starts ELSE 0
    BY <1>1, FreeCall, Zenon DEF StartsEntered, Entering, StartIOOf
  <2>2. hasClient(e, j)' <=> hasClient(e, j)
    BY <1>6, Zenon DEF Recounted, hasClient
  <2>3. CASE <<e, j>> = <<d, i>>
    BY Zenon, <1>1, <1>2, <1>6, <2>2, <2>3 DEF Recounted, Counted
  <2>4. CASE <<e, j>> # <<d, i>>
    <3>1. starts[e][j] = IF hasClient(e, j) THEN clients[<<e, j>>].starts ELSE 0
      BY <1>1, FreeCall, Zenon DEF StartsEntered
    <3> QED
      BY <1>2, <1>6, <2>2, <2>4, <3>1, Zenon DEF Recounted, Counted, hasClient
  <2> QED
    BY <2>3, <2>4, Zenon
<1>9. SlotsOwned'
  BY <1>1, <1>6, SlotsKept, Zenon DEF RecordsTypeOK, DriverTypeOK
<1> QED
  BY <1>2, <1>7, <1>8, <1>9, Zenon DEF RecordsOK, Counted

LEMMA ClientIsKey ==
  ASSUME NEW p \in Devices \X Ids
  PROVE  p # NoKey
BY DEF NoKey

LEMMA addClientRecords ==
  ASSUME NEW d \in Devices, NEW i \in Ids, DriverInv, addClient(d, i)
  PROVE  RecordsOK'
<1> USE DEF DriverInv
<1> DEFINE q == <<d, i>>
           r(k) == [starts |-> 0, slot |-> k]
<1>1. call = Free /\ ~hasClient(d, i) /\ UNCHANGED <<starts, activeStarts, call>>
  BY Zenon DEF addClient
<1>2. PICK k \in FreeSlots :
        /\ clients' = [p \in DOMAIN clients \cup {q} |-> IF p = q THEN r(k) ELSE clients[p]]
        /\ keys' = [keys EXCEPT ![k] = q]
  BY Zenon DEF addClient
<1>3. k \in ActivitySlots /\ keys[k] = NoKey
  BY Zenon DEF FreeSlots
<1>4. r(k) \in ClientValue /\ r(k).slot = k /\ r(k).starts = 0
  BY <1>3, DriverAssumption DEF ClientValue
<1>5. q \in Devices \X Ids /\ q \notin DOMAIN clients
  BY Zenon, <1>1 DEF hasClient
<1>6. /\ DOMAIN clients \subseteq Devices \X Ids /\ clients \in [DOMAIN clients -> ClientValue]
      /\ keys \in [ActivitySlots -> {NoKey} \cup (Devices \X Ids)]
  BY Zenon DEF DriverTypeOK
<1>7. StartsEntered'
  <2>1. SUFFICES ASSUME NEW e \in Devices, NEW j \in Ids
                 PROVE  starts'[e][j] = IF hasClient(e, j)' THEN clients'[<<e, j>>].starts ELSE 0
    BY <1>1, FreeCall, Zenon DEF StartsEntered, Entering, StartIOOf
  <2>2. starts[e][j] = IF hasClient(e, j) THEN clients[<<e, j>>].starts ELSE 0
    BY <1>1, FreeCall, Zenon DEF StartsEntered
  <2>3. CASE <<e, j>> = q
    <3>1. ~hasClient(e, j) /\ clients'[<<e, j>>] = r(k)
      BY Zenon, <1>2, <1>5, <2>3 DEF hasClient
    <3> HIDE DEF r, q
    <3> QED
      BY <1>1, <1>4, <2>2, <3>1, Zenon
  <2>4. CASE <<e, j>> # q
    <3> HIDE DEF r, q
    <3>1. hasClient(e, j)' <=> hasClient(e, j)
      BY Zenon, <1>2, <2>4 DEF hasClient
    <3>2. hasClient(e, j) => clients'[<<e, j>>] = clients[<<e, j>>]
      BY Zenon, <1>2, <2>4 DEF hasClient
    <3> QED
      BY <1>1, <2>2, <3>1, <3>2, Zenon
  <2> QED
    BY <2>3, <2>4, Zenon
<1> HIDE DEF q, r
<1>8. /\ DOMAIN clients' = DOMAIN clients \cup {q} /\ clients'[q] = r(k)
      /\ \A p \in DOMAIN clients : clients'[p] = clients[p]
  BY Zenon, <1>2, <1>5
<1>9. clients' \in [DOMAIN clients' -> ClientValue]
  BY Zenon, <1>2, <1>4, <1>6, <1>8
<1>10. /\ keys' \in [ActivitySlots -> {NoKey} \cup (Devices \X Ids)] /\ keys'[k] = q
       /\ \A l \in ActivitySlots : l # k => keys'[l] = keys[l]
  BY Zenon, <1>2, <1>3, <1>5, <1>6
<1>11. RecordsTypeOK'
  BY <1>1, <1>5, <1>6, <1>8, <1>9, <1>10, ZenonT(90) DEF RecordsTypeOK, DriverTypeOK
<1>12. \A p \in DOMAIN clients : clients[p].slot \in ActivitySlots
  BY Zenon, <1>6 DEF ClientValue
<1>13. \A p \in DOMAIN clients : clients[p].slot # k
  BY <1>3, <1>6, ClientIsKey, Zenon DEF SlotsOwned
<1>14. SlotsOwned'
  <2>1. ASSUME NEW p \in DOMAIN clients'
        PROVE  keys'[clients'[p].slot] = p
    <3>1. CASE p = q
      BY <1>4, <1>8, <1>10, <3>1, Zenon
    <3>2. CASE p \in DOMAIN clients
      <4>1. clients'[p].slot = clients[p].slot /\ keys[clients[p].slot] = p
        BY <1>8, <3>2, Zenon DEF SlotsOwned
      <4> QED
        BY <1>10, <1>12, <1>13, <3>2, <4>1, Zenon
    <3> QED
      BY <1>8, <3>1, <3>2, Zenon
  <2>2. ASSUME NEW l \in ActivitySlots, keys'[l] # NoKey
        PROVE  keys'[l] \in DOMAIN clients' /\ clients'[keys'[l]].slot = l
    <3>1. CASE l = k
      BY <1>4, <1>8, <1>10, <3>1, Zenon
    <3>2. CASE l # k
      <4>1. keys'[l] = keys[l] /\ keys[l] \in DOMAIN clients /\ clients[keys[l]].slot = l
        BY <1>10, <2>2, <3>2, Zenon DEF SlotsOwned
      <4> QED
        BY <1>8, <4>1, Zenon
    <3> QED
      BY <3>1, <3>2, Zenon
  <2> QED
    BY <2>1, <2>2, Zenon DEF SlotsOwned, ActivitySlots
<1>15. SumsAgree'
  BY <1>1, Zenon DEF SumsAgree, Started
<1> QED
  BY <1>7, <1>11, <1>14, <1>15, Zenon DEF RecordsOK

LEMMA removeClientRecords ==
  ASSUME NEW d \in Devices, NEW i \in Ids, DriverInv, removeClient(d, i)
  PROVE  RecordsOK' /\ Counted(d, i, 0, -starts[d][i])
<1> USE DEF DriverInv
<1> DEFINE q == <<d, i>>
           k == clients[q].slot
<1>1. /\ call = Free /\ hasClient(d, i) /\ LifecycleRemove(d, i) /\ UNCHANGED call
      /\ keys' = [keys EXCEPT ![k] = NoKey]
      /\ clients' = [p \in DOMAIN clients \ {q} |-> clients[p]]
  BY Zenon DEF removeClient, Detach
<1>2. Counted(d, i, 0, -starts[d][i])
  BY <1>1, RemovalCounted, Zenon
<1>3. /\ DOMAIN clients \subseteq Devices \X Ids /\ clients \in [DOMAIN clients -> ClientValue]
      /\ keys \in [ActivitySlots -> {NoKey} \cup (Devices \X Ids)]
  BY Zenon DEF DriverTypeOK
<1>4. q \in DOMAIN clients /\ keys[k] = q
  BY <1>1, Zenon DEF hasClient, SlotsOwned
<1>5. k \in ActivitySlots
  BY Zenon, <1>3, <1>4 DEF ClientValue
<1>6. StartsEntered'
  <2>1. SUFFICES ASSUME NEW e \in Devices, NEW j \in Ids
                 PROVE  starts'[e][j] = IF hasClient(e, j)' THEN clients'[<<e, j>>].starts ELSE 0
    BY <1>1, FreeCall, Zenon DEF StartsEntered, Entering, StartIOOf
  <2>2. CASE <<e, j>> = <<d, i>>
    <3>1. ~hasClient(e, j)'
      BY Zenon, <1>1, <2>2 DEF hasClient
    <3>2. starts'[e][j] = 0
      BY Zenon, <1>2, <2>2 DEF Counted
    <3> QED
      BY <3>1, <3>2, Zenon
  <2>3. CASE <<e, j>> # <<d, i>>
    <3>1. starts[e][j] = IF hasClient(e, j) THEN clients[<<e, j>>].starts ELSE 0
      BY <1>1, FreeCall, Zenon DEF StartsEntered
    <3>2. starts'[e][j] = starts[e][j]
      BY <1>2, <2>3, Zenon DEF Counted
    <3> HIDE DEF k
    <3>3. hasClient(e, j)' <=> hasClient(e, j)
      BY Zenon, <1>1, <2>3 DEF hasClient
    <3>4. hasClient(e, j) => clients'[<<e, j>>] = clients[<<e, j>>]
      BY Zenon, <1>1, <2>3 DEF hasClient
    <3> QED
      BY <3>1, <3>2, <3>3, <3>4, Zenon
  <2> QED
    BY <2>2, <2>3, Zenon
<1>7. \A p \in DOMAIN clients : clients[p].slot \in ActivitySlots /\ (p # q => clients[p].slot # k)
  <2>1. \A p \in DOMAIN clients : clients[p].slot \in ActivitySlots
    BY Zenon, <1>3 DEF ClientValue
  <2> QED
    BY <1>4, <2>1, Zenon DEF SlotsOwned
<1> HIDE DEF q, k
<1>8. /\ DOMAIN clients' = DOMAIN clients \ {q}
      /\ \A p \in DOMAIN clients \ {q} : clients'[p] = clients[p]
      /\ clients' \in [DOMAIN clients' -> ClientValue]
  BY Zenon, <1>1, <1>3
<1>9. /\ keys' \in [ActivitySlots -> {NoKey} \cup (Devices \X Ids)] /\ keys'[k] = NoKey
      /\ \A l \in ActivitySlots : l # k => keys'[l] = keys[l]
  BY Zenon, <1>1, <1>3, <1>5
<1>10. RecordsTypeOK'
  BY <1>1, <1>2, <1>3, <1>8, <1>9, Zenon DEF RecordsTypeOK, DriverTypeOK, Counted
<1>11. SlotsOwned'
  <2>1. ASSUME NEW p \in DOMAIN clients'
        PROVE  keys'[clients'[p].slot] = p
    <3>1. p \in DOMAIN clients \ {q} /\ clients'[p] = clients[p]
      BY <1>8, Zenon
    <3>2. keys[clients[p].slot] = p
      BY <3>1, Zenon DEF SlotsOwned
    <3> QED
      BY <1>7, <1>9, <3>1, <3>2, Zenon
  <2>2. ASSUME NEW l \in ActivitySlots, keys'[l] # NoKey
        PROVE  keys'[l] \in DOMAIN clients' /\ clients'[keys'[l]].slot = l
    <3>1. l # k /\ keys'[l] = keys[l]
      BY <1>9, <2>2, Zenon
    <3>2. keys[l] \in DOMAIN clients /\ clients[keys[l]].slot = l
      BY <2>2, <3>1, Zenon DEF SlotsOwned
    <3>3. keys[l] # q
      BY <3>1, <3>2, Zenon DEF k
    <3> QED
      BY <1>8, <3>1, <3>2, <3>3, Zenon
  <2> QED
    BY <2>1, <2>2, Zenon DEF SlotsOwned, ActivitySlots
<1> QED
  BY <1>2, <1>6, <1>10, <1>11, Zenon DEF RecordsOK, Counted

\* The other steps leave the records alone and the call what it was.
LEMMA OtherRecords ==
  ASSUME DriverInv, UNCHANGED counts, call' \in Calls, SameCall
  PROVE  RecordsOK'
<1> USE DEF DriverInv, counts
<1>1. RecordsTypeOK'
  BY Zenon DEF DriverTypeOK, RecordsTypeOK
<1>2. SlotsOwned'
  BY Zenon DEF SlotsOwned
<1>3. SumsAgree'
  BY Zenon DEF SumsAgree, Started
<1>4. StartsEntered'
  BY Zenon DEF StartsEntered, SameCall, hasClient
<1> QED
  BY <1>1, <1>2, <1>3, <1>4, Zenon DEF RecordsOK

LEMMA StepRecords ==
  ASSUME DriverInv, Next
  PROVE  RecordsOK'
<1>1. call \in Calls
  BY Zenon DEF DriverInv, DriverTypeOK
<1>2. ASSUME NEW d \in Devices, NEW i \in Ids, addClient(d, i) PROVE RecordsOK'
  BY <1>2, addClientRecords, Zenon
<1>3. ASSUME NEW d \in Devices, NEW i \in Ids, removeClient(d, i) PROVE RecordsOK'
  BY <1>3, removeClientRecords, Zenon
<1>4. ASSUME NEW d \in Devices, NEW i \in Ids, StartIOActive(d, i) PROVE RecordsOK'
  BY <1>4, StartIOActiveRecords, Zenon
<1>5. ASSUME NEW d \in Devices, NEW i \in Ids, StartIOIdle(d, i) PROVE RecordsOK'
  BY <1>5, StartIOIdleRecords, Zenon
<1>6. ASSUME NEW d \in Devices, NEW i \in Ids, stopIO(d, i) PROVE RecordsOK'
  BY <1>6, stopIORecords, Zenon
<1>7. ASSUME HardwareStep PROVE RecordsOK'
  <2>1. PICK stage \in Stages : call' = [call EXCEPT !.pc = stage]
    BY <1>7, Zenon DEF HardwareStep, Open, Activate, RunTransport, StageFails, Stages
  <2>2. call.pc # "free" /\ UNCHANGED counts
    BY Zenon, <1>7 DEF HardwareStep, Open, Activate, RunTransport, StageFails
  <2> QED
    BY <1>1, <2>1, <2>2, CallMoves, OtherRecords, Zenon
<1>8. CASE StartIOStarted
  BY <1>8, StartIOStartedRecords, Zenon
<1>9. CASE StartIOFailed
  BY <1>9, StartIOFailedRecords, Zenon
<1>10. ASSUME NEW d \in Devices, NotifyRunningChanged(d) PROVE RecordsOK'
  <2>1. UNCHANGED <<call, counts>>
    BY <1>10, Zenon DEF NotifyRunningChanged
  <2> QED
    BY <1>1, <2>1, OtherRecords, Zenon DEF SameCall, StartIOOf, Entering
<1>11. CASE monitorUSB
  <2>1. UNCHANGED counts /\ call = Free
    BY <1>11, Zenon DEF monitorUSB
  <2>2. call' = Free \/ call' = [pc |-> "open", by |-> "monitor"]
    BY <1>11, Zenon DEF monitorUSB
  <2>3. call' \in Calls /\ (call'.pc = "free" \/ call'.by # "startIO")
    BY <2>2 DEF Calls, Stages, Free
  <2> QED
    BY <2>1, <2>3, FreeCall, OtherRecords, Zenon DEF SameCall, StartIOOf, Entering
<1>12. CASE MonitorReturns
  <2>1. UNCHANGED counts /\ call.by = "monitor" /\ call' = Free
    BY <1>12, Zenon DEF MonitorReturns
  <2>2. call' \in Calls /\ call'.pc = "free" /\ call.by # "startIO"
    BY Zenon, <2>1 DEF Calls, Free
  <2> QED
    BY <2>1, <2>2, OtherRecords, Zenon DEF SameCall, StartIOOf, Entering
<1>13. CASE Unplug \/ Plug
  <2>1. UNCHANGED <<call, counts>>
    BY <1>13, Zenon DEF Unplug, Plug
  <2> QED
    BY <1>1, <2>1, OtherRecords, Zenon DEF SameCall, StartIOOf, Entering
<1> QED
  BY <1>2, <1>3, <1>4, <1>5, <1>6, <1>7, <1>8, <1>9, <1>10, <1>11, <1>12, <1>13, ZenonT(90)
     DEF Next, Handler
-----------------------------------------------------------------------------
(* The hardware                                                            *)

HardwareTypeOK ==
  /\ session \in 0..MaxGeneration /\ usb \in 0..MaxGeneration /\ generation \in 0..MaxGeneration
  /\ runtime \in BOOLEAN /\ inputEnabled \in BOOLEAN /\ running \in BOOLEAN

LEMMA InputEnabledType ==
  ASSUME NEW exists \in BOOLEAN, NEW active
  PROVE  InputEnabled(exists, active) \in BOOLEAN
BY Zenon DEF InputEnabled

LEMMA StepHardwareTypes ==
  ASSUME HardwareTypeOK, Next
  PROVE  HardwareTypeOK'
<1> USE DEF HardwareTypeOK
<1>1. 0 \in 0..MaxGeneration
  BY DriverAssumption
<1>2. ASSUME UNCHANGED <<session, usb, generation, runtime, inputEnabled, running>>
      PROVE  HardwareTypeOK'
  BY <1>2, Zenon
<1>3. ASSUME NEW d \in Devices, AfterStop(d), UNCHANGED <<usb, generation>>
      PROVE  HardwareTypeOK'
  BY <1>1, <1>3, InputEnabledType, Zenon DEF AfterStop, stopHardware, Absent
<1>4. ASSUME NEW d \in Devices, NEW i \in Ids,
             addClient(d, i) \/ StartIOIdle(d, i)
      PROVE  HardwareTypeOK'
  BY <1>2, <1>4, Zenon DEF addClient, StartIOIdle, hardware
<1>5. ASSUME NEW d \in Devices, NEW i \in Ids, StartIOActive(d, i)
      PROVE  HardwareTypeOK'
  BY <1>5, InputEnabledType, Zenon DEF StartIOActive
<1>6. ASSUME NEW d \in Devices, NEW i \in Ids, stopIO(d, i)
      PROVE  HardwareTypeOK'
  BY <1>3, <1>6, Zenon DEF stopIO
<1>7. ASSUME NEW d \in Devices, NEW i \in Ids, removeClient(d, i)
      PROVE  HardwareTypeOK'
  <2>1. CASE starts[d][i] > 0
    BY <1>3, <1>7, <2>1, Zenon DEF removeClient
  <2>2. CASE ~(starts[d][i] > 0)
    BY <1>7, <2>2, InputEnabledType, Zenon DEF removeClient
  <2> QED
    BY <2>1, <2>2, Zenon
<1>8. CASE HardwareStep
  BY <1>1, <1>8, Zenon DEF HardwareStep, Open, Activate, RunTransport, StageFails, Absent
<1>9. CASE StartIOStarted
  BY <1>9, InputEnabledType, Zenon DEF StartIOStarted
<1>10. CASE StartIOFailed \/ MonitorReturns \/ \E d \in Devices : NotifyRunningChanged(d)
  BY <1>2, <1>10, Zenon DEF StartIOFailed, MonitorReturns, NotifyRunningChanged, hardware
<1>11. CASE monitorUSB
  BY <1>1, <1>11, Zenon DEF monitorUSB, stopHardware, Absent, hardware
<1>12. CASE Unplug
  BY <1>1, <1>12, Zenon DEF Unplug, Absent, hardware
<1>13. CASE Plug
  <2>1. generation + 1 \in 0..MaxGeneration
    BY <1>13, DriverAssumption DEF Plug
  <2> QED
    BY <1>13, <2>1, Zenon DEF Plug, hardware
<1> QED
  BY <1>4, <1>5, <1>6, <1>7, <1>8, <1>9, <1>10, <1>11, <1>12, <1>13, ZenonT(90) DEF Next, Handler

LEMMA StepHardware ==
  ASSUME DriverInv, Next
  PROVE  HardwareAtStage'
<1>1. call \in Calls /\ activeStarts \in [Devices -> Nat] /\ runtime \in BOOLEAN /\ running \in BOOLEAN
  BY Zenon DEF DriverInv, DriverTypeOK
<1>2. HardwareAtStage
  BY Zenon DEF DriverInv
<1>3. ASSUME call = Free
      PROVE  /\ call.pc = "free" /\ (session # Absent <=> runtime) /\ (runtime <=> running)
             /\ running => anyActive(activeStarts) /\ (inputEnabled <=> activeStarts["in"] # 0)
  BY <1>2, <1>3, FreeCall, Zenon DEF HardwareAtStage
<1>4. ASSUME UNCHANGED <<session, runtime, inputEnabled, running, activeStarts, call>>
      PROVE  HardwareAtStage'
  BY <1>2, <1>4, Zenon DEF HardwareAtStage, anyActive
<1>5. ASSUME call = Free, call' = Free, anyActive(activeStarts)',
             inputEnabled' = InputEnabled(runtime, activeStarts'), UNCHANGED <<session, runtime, running>>
      PROVE  HardwareAtStage'
  <2>1. call'.pc = "free"
    BY Zenon, <1>5 DEF Free
  <2>2. running' => (inputEnabled' <=> activeStarts'["in"] # 0)
    BY <1>3, <1>5, Zenon DEF InputEnabled
  <2> QED
    BY Zenon, <1>3, <1>5, <2>1, <2>2 DEF HardwareAtStage
<1>6. ASSUME call' = Free, stopHardware
      PROVE  HardwareAtStage'
  <2>1. call'.pc = "free"
    BY Zenon, <1>6 DEF Free
  <2> QED
    BY Zenon, <1>6, <2>1 DEF HardwareAtStage, stopHardware
<1>7. ASSUME NEW d \in Devices, call = Free, call' = Free, AfterStop(d)
      PROVE  HardwareAtStage'
  <2>1. CASE anyActive(activeStarts')
    BY <1>5, <1>7, <2>1, Zenon DEF AfterStop, anyActive
  <2>2. CASE ~anyActive(activeStarts')
    BY <1>6, <1>7, <2>2, Zenon DEF AfterStop
  <2> QED
    BY <2>1, <2>2, Zenon
<1>8. ASSUME NEW d \in Devices, NEW i \in Ids, addClient(d, i) PROVE HardwareAtStage'
  BY <1>4, <1>8, Zenon DEF addClient, hardware
<1>9. ASSUME NEW d \in Devices, NEW i \in Ids, stopIO(d, i) PROVE HardwareAtStage'
  BY <1>7, <1>9, Zenon DEF stopIO
<1>10. ASSUME NEW d \in Devices, NEW i \in Ids, removeClient(d, i) PROVE HardwareAtStage'
  <2>1. call = Free /\ call' = Free
    BY <1>10, Zenon DEF removeClient
  <2>2. CASE starts[d][i] > 0
    BY <1>7, <1>10, <2>1, <2>2, Zenon DEF removeClient
  <2>3. CASE ~(starts[d][i] > 0)
    <3>1. starts[d][i] \in 0..MaxStarts
      BY ZenonT(90) DEF DriverInv, DriverTypeOK
    <3>2. starts[d][i] = 0 /\ activeStarts[d] - 0 = activeStarts[d]
      BY <1>1, <2>3, <3>1, DriverAssumption
    <3>3. UNCHANGED activeStarts
      BY Zenon, <1>1, <1>10, <3>2 DEF removeClient, LifecycleRemove
    <3>4. inputEnabled' = InputEnabled(runtime, activeStarts') /\ UNCHANGED <<session, runtime, running>>
      BY <1>10, <2>3, Zenon DEF removeClient
    <3>5. CASE anyActive(activeStarts)
      BY <1>5, <2>1, <3>3, <3>4, <3>5, Zenon DEF anyActive
    <3>6. CASE ~anyActive(activeStarts)
      <4>1. call'.pc = "free" /\ ~running /\ ~runtime /\ session = Absent
        BY <1>3, <2>1, <3>6, Zenon
      <4> QED
        BY Zenon, <3>4, <4>1 DEF HardwareAtStage
    <3> QED
      BY <3>5, <3>6, Zenon
  <2> QED
    BY <2>2, <2>3, Zenon
<1>11. ASSUME NEW d \in Devices, NEW i \in Ids, StartIOActive(d, i) PROVE HardwareAtStage'
  <2>1. /\ call = Free /\ call' = Free /\ inputEnabled' = InputEnabled(runtime, activeStarts')
        /\ UNCHANGED <<session, runtime, running>>
    BY <1>11, Zenon DEF StartIOActive
  <2>2. activeStarts'[d] = activeStarts[d] + 1 /\ activeStarts[d] \in Nat
    BY <1>1, <1>11, StartIOActiveRecords, Zenon DEF Counted
  <2>3. activeStarts'[d] # 0
    BY <2>2
  <2> QED
    BY <1>5, <2>1, <2>3, Zenon DEF anyActive
<1>12. ASSUME NEW d \in Devices, NEW i \in Ids, StartIOIdle(d, i) PROVE HardwareAtStage'
  <2>1. /\ call = Free /\ ~anyActive(activeStarts) /\ UNCHANGED <<session, runtime, running>>
        /\ call' = [pc |-> "open", by |-> "startIO", device |-> d, id |-> i]
    BY <1>12, Zenon DEF StartIOIdle, hardware
  <2>2. activeStarts'[d] = activeStarts[d] + 1 /\ activeStarts[d] \in Nat
    BY <1>1, <1>12, StartIOIdleRecords, Zenon DEF Counted
  <2>3. activeStarts'[d] # 0
    BY <2>2
  <2>4. anyActive(activeStarts)' /\ ~running /\ ~runtime /\ session = Absent
    BY <1>3, <2>1, <2>3, Zenon DEF anyActive
  <2>5. call'.pc = "open"
    BY Zenon, <2>1
  <2> QED
    BY Zenon, <2>1, <2>4, <2>5 DEF HardwareAtStage, Absent
<1>13. CASE Open
  <2>1. /\ call.pc = "open" /\ UNCHANGED <<activeStarts, runtime, running>>
        /\ \/ call'.pc = "activate" /\ session' # Absent
           \/ call'.pc = "failed" /\ session' = Absent
    BY Zenon, <1>1, <1>13, CallMoves DEF Open, counts, Stages
  <2>2. anyActive(activeStarts)' /\ ~runtime /\ ~running
    BY Zenon, <1>2, <2>1 DEF HardwareAtStage, anyActive
  <2> QED
    BY Zenon, <2>1, <2>2 DEF HardwareAtStage, Absent
<1>14. CASE Activate
  <2>1. /\ call.pc = "activate" /\ UNCHANGED <<activeStarts, running>> /\ runtime'
        /\ call'.pc = "run" /\ session' # Absent
    BY Zenon, <1>1, <1>14, CallMoves DEF Activate, counts, Stages, Absent
  <2>2. anyActive(activeStarts)' /\ ~running
    BY Zenon, <1>2, <2>1 DEF HardwareAtStage, anyActive
  <2> QED
    BY Zenon, <2>1, <2>2 DEF HardwareAtStage, Absent
<1>15. CASE RunTransport
  <2>1. /\ call.pc = "run" /\ UNCHANGED <<activeStarts, session, runtime>> /\ running'
        /\ call'.pc = "started"
    BY Zenon, <1>1, <1>15, CallMoves DEF RunTransport, counts, Stages
  <2>2. inputEnabled' <=> activeStarts'["in"] # 0
    BY Zenon, <1>15 DEF RunTransport, counts
  <2>3. anyActive(activeStarts)' /\ session # Absent /\ runtime
    BY Zenon, <1>2, <2>1 DEF HardwareAtStage, anyActive
  <2> QED
    BY Zenon, <2>1, <2>2, <2>3 DEF HardwareAtStage, Absent
<1>16. CASE StageFails
  <2>1. /\ call.pc \in {"activate", "run"} /\ UNCHANGED <<activeStarts, running>> /\ ~runtime'
        /\ call'.pc = "failed" /\ session' = Absent
    BY Zenon, <1>1, <1>16, CallMoves DEF StageFails, counts, Stages
  <2>2. anyActive(activeStarts)' /\ ~running
    BY Zenon, <1>2, <2>1 DEF HardwareAtStage, anyActive
  <2> QED
    BY Zenon, <2>1, <2>2 DEF HardwareAtStage, Absent
<1>17. CASE StartIOStarted
  <2>1. /\ call.pc = "started" /\ call' = Free /\ UNCHANGED <<activeStarts, session, runtime, running>>
        /\ inputEnabled' = InputEnabled(runtime, activeStarts)
    BY <1>17, Zenon DEF StartIOStarted
  <2>2. anyActive(activeStarts)' /\ session # Absent /\ runtime /\ running
    BY Zenon, <1>2, <2>1 DEF HardwareAtStage, anyActive
  <2>3. inputEnabled' <=> activeStarts'["in"] # 0
    BY <2>1, <2>2, Zenon DEF InputEnabled
  <2>4. call'.pc = "free"
    BY Zenon, <2>1 DEF Free
  <2> QED
    BY Zenon, <2>1, <2>2, <2>3, <2>4 DEF HardwareAtStage, Absent
<1>18. CASE StartIOFailed
  <2>1. call.pc = "failed" /\ call' = Free /\ UNCHANGED <<session, runtime, running>>
    BY <1>18, Zenon DEF StartIOFailed, hardware
  <2>2. session = Absent /\ ~runtime /\ ~running
    BY Zenon, <1>2, <2>1 DEF HardwareAtStage
  <2>3. call'.pc = "free"
    BY Zenon, <2>1 DEF Free
  <2> QED
    BY Zenon, <2>1, <2>2, <2>3 DEF HardwareAtStage, Absent
<1>19. ASSUME NEW d \in Devices, NotifyRunningChanged(d) PROVE HardwareAtStage'
  BY <1>4, <1>19, Zenon DEF NotifyRunningChanged, hardware, counts
<1>20. CASE monitorUSB
  <2>1. call = Free /\ anyActive(activeStarts) /\ UNCHANGED activeStarts
    BY <1>20, Zenon DEF monitorUSB, counts
  <2>2. session' = Absent /\ ~runtime' /\ ~running'
    BY <1>3, <1>20, <2>1 DEF monitorUSB, stopHardware, hardware
  <2>3. call'.pc \in {"free", "open"}
    BY Zenon, <1>20 DEF monitorUSB, Free
  <2> QED
    BY Zenon, <2>1, <2>2, <2>3 DEF HardwareAtStage, Absent, anyActive
<1>21. CASE MonitorReturns
  <2>1. /\ call.pc \in {"started", "failed"} /\ call' = Free
        /\ UNCHANGED <<session, runtime, inputEnabled, running, activeStarts>>
    BY <1>21, Zenon DEF MonitorReturns, hardware, counts
  <2>2. call'.pc = "free"
    BY Zenon, <2>1 DEF Free
  <2> QED
    BY Zenon, <1>2, <2>1, <2>2 DEF HardwareAtStage, Absent, anyActive
<1>22. CASE Unplug \/ Plug
  BY <1>4, <1>22, Zenon DEF Unplug, Plug, hardware, counts
<1> QED
  BY ZenonT(90), <1>8, <1>9, <1>10, <1>11, <1>12, <1>13, <1>14, <1>15, <1>16, <1>17, <1>18, <1>19, <1>20, <1>21,
     <1>22, Zenon DEF Next, Handler, HardwareStep
-----------------------------------------------------------------------------
(* What the host knows                                                     *)

HostTypeOK == notify \subseteq Devices /\ missed \subseteq Devices /\ hostView \in [Devices -> BOOLEAN]
HostOK == HostTypeOK /\ HostFollows

\* A step that changes no other device's count than d's, and says so of d.
LEMMA OneDeviceChanges ==
  ASSUME NEW d \in Devices, HostOK, UNCHANGED hostView,
         \A e \in Devices : e # d => IsRunning(e)' = IsRunning(e) /\ (StartIOOf(e) => StartIOOf(e)'),
         notify \subseteq notify' /\ notify' \subseteq notify \cup {d},
         missed \subseteq missed' /\ missed' \subseteq missed \cup {d},
         \/ d \in notify' \cup missed'
         \/ StartIOOf(d)'
         \/ IsRunning(d)' = IsRunning(d) /\ ~StartIOOf(d)
  PROVE  HostOK'
<1>1. HostTypeOK'
  BY Zenon DEF HostOK, HostTypeOK
<1>2. ASSUME NEW e \in Devices \ (notify \cup missed)', ~StartIOOf(e)'
      PROVE  hostView'[e] <=> IsRunning(e)'
  <2>1. e \in Devices \ (notify \cup missed)
    BY Zenon, <1>2
  <2>2. ~StartIOOf(e) /\ IsRunning(e)' = IsRunning(e)
    BY <1>2, Zenon
  <2>3. hostView[e] <=> IsRunning(e)
    BY <2>1, <2>2, Zenon DEF HostOK, HostFollows
  <2> QED
    BY <2>2, <2>3, Zenon
<1> QED
  BY <1>1, <1>2, Zenon DEF HostOK, HostFollows

LEMMA OthersRun ==
  ASSUME NEW d \in Devices, NEW i \in Ids, NEW n, NEW c, Counted(d, i, n, c)
  PROVE  \A e \in Devices : e # d => IsRunning(e)' = IsRunning(e)
BY Zenon DEF Counted, IsRunning

\* StopIO and RemoveClient: a device that no longer runs is announced or missed.
LEMMA AfterStopHost ==
  ASSUME NEW d \in Devices, NEW i \in Ids, NEW n, NEW c, DriverTypeOK, HostOK, call = Free, UNCHANGED call,
         Counted(d, i, n, c), AfterStop(d), activeStarts[d] # 0, UNCHANGED hostView
  PROVE  HostOK'
<1>1. \A e \in Devices : ~StartIOOf(e) /\ ~StartIOOf(e)'
  BY Zenon, FreeCall DEF StartIOOf, Free
<1>2. \A e \in Devices : e # d => IsRunning(e)' = IsRunning(e)
  BY OthersRun, Zenon
<1>3. /\ notify \subseteq notify' /\ notify' \subseteq notify \cup {d}
      /\ missed \subseteq missed' /\ missed' \subseteq missed \cup {d}
      /\ d \in notify' \cup missed' \/ activeStarts'[d] # 0
  BY Zenon DEF AfterStop
<1>4. activeStarts'[d] # 0 => IsRunning(d)' = IsRunning(d)
  BY ZenonT(90) DEF IsRunning
<1> QED
  BY <1>1, <1>2, <1>3, <1>4, OneDeviceChanges, Zenon

LEMMA StepHost ==
  ASSUME DriverInv, Next
  PROVE  HostOK'
<1>1. call \in Calls /\ activeStarts \in [Devices -> Nat] /\ DriverTypeOK
  BY Zenon DEF DriverInv, DriverTypeOK
<1>2. HostOK
  BY Zenon DEF DriverInv, DriverTypeOK, HostOK, HostTypeOK
<1>3. ASSUME UNCHANGED <<activeStarts, host>>, SameCall
      PROVE  HostOK'
  BY <1>2, <1>3, Zenon DEF HostOK, HostTypeOK, HostFollows, SameCall, IsRunning, host
<1>4. ASSUME UNCHANGED call PROVE SameCall
  BY <1>4, Zenon DEF SameCall, StartIOOf, Entering
<1>5. ASSUME call' = Free PROVE \A d \in Devices, i \in Ids : ~StartIOOf(d)' /\ ~Entering(d, i)'
  BY Zenon, <1>5 DEF StartIOOf, Entering, Free
<1>6. ASSUME NEW d \in Devices, NEW i \in Ids, addClient(d, i) PROVE HostOK'
  BY <1>3, <1>4, <1>6, Zenon DEF addClient
<1>7. ASSUME NEW d \in Devices, NEW i \in Ids, starts[d][i] > 0, call = Free
      PROVE  activeStarts[d] # 0
  <2>1. activeStarts[d] = Cardinality(StartedBy(starts[d])) /\ starts[d] \in [Ids -> 0..MaxStarts]
    BY Zenon DEF DriverInv, SumsAgree, DriverTypeOK, Started, StartedBy
  <2>2. starts[d][i] # 0
    BY <1>7, <2>1, DriverAssumption
  <2> QED
    BY <2>1, <2>2, SomeStart, Zenon
<1>8. ASSUME NEW d \in Devices, NEW i \in Ids, stopIO(d, i) PROVE HostOK'
  <2>1. call = Free /\ UNCHANGED <<call, hostView>> /\ starts[d][i] > 0 /\ AfterStop(d)
    BY <1>8, Zenon DEF stopIO
  <2>2. Counted(d, i, starts[d][i] - 1, -1)
    BY <1>8, stopIORecords, Zenon
  <2> QED
    BY <1>1, <1>2, <1>7, <2>1, <2>2, AfterStopHost, Zenon
<1>9. ASSUME NEW d \in Devices, NEW i \in Ids, removeClient(d, i) PROVE HostOK'
  <2>1. call = Free /\ UNCHANGED <<call, hostView>>
    BY <1>9, Zenon DEF removeClient
  <2>2. Counted(d, i, 0, -starts[d][i])
    BY <1>9, removeClientRecords, Zenon
  <2>3. CASE starts[d][i] > 0
    <3>1. AfterStop(d)
      BY <1>9, <2>3, Zenon DEF removeClient
    <3> QED
      BY <1>1, <1>2, <1>7, <2>1, <2>2, <2>3, <3>1, AfterStopHost, ZenonT(90)
  <2>4. CASE ~(starts[d][i] > 0)
    <3>1. starts[d][i] \in 0..MaxStarts
      BY Zenon DEF DriverInv, DriverTypeOK
    <3>2. starts[d][i] = 0 /\ activeStarts[d] - 0 = activeStarts[d]
      BY <1>1, <2>4, <3>1, DriverAssumption
    <3>3. UNCHANGED activeStarts
      BY Zenon, <1>1, <1>9, <3>2 DEF removeClient, LifecycleRemove
    <3>4. UNCHANGED <<notify, missed>>
      BY <1>9, <2>4, Zenon DEF removeClient
    <3> QED
      BY <1>3, <1>4, <2>1, <3>3, <3>4, ZenonT(90) DEF host
  <2> QED
    BY <2>3, <2>4, Zenon
<1>10. ASSUME NEW d \in Devices, NEW i \in Ids, StartIOActive(d, i) PROVE HostOK'
  <2>1. /\ call = Free /\ call' = Free /\ UNCHANGED <<hostView, missed>>
        /\ notify' = IF activeStarts[d] = 0 THEN notify \cup {d} ELSE notify
    BY <1>10, Zenon DEF StartIOActive
  <2>2. Counted(d, i, starts[d][i] + 1, 1)
    BY <1>10, StartIOActiveRecords, Zenon
  <2>3. \A e \in Devices : ~StartIOOf(e) /\ ~StartIOOf(e)'
    BY <1>5, <2>1, FreeCall, Zenon
  <2>4. activeStarts[d] \in Nat /\ activeStarts'[d] = activeStarts[d] + 1
    BY <1>1, <2>2, Zenon DEF Counted
  <2>5. activeStarts[d] # 0 => IsRunning(d)' = IsRunning(d)
    BY <2>4 DEF IsRunning
  <2>6. /\ notify \subseteq notify' /\ notify' \subseteq notify \cup {d}
        /\ activeStarts[d] = 0 => d \in notify'
    BY Zenon, <2>1
  <2> QED
    BY <1>2, <2>1, <2>2, <2>3, <2>5, <2>6, OthersRun, OneDeviceChanges, ZenonT(90)
<1>11. ASSUME NEW d \in Devices, NEW i \in Ids, StartIOIdle(d, i) PROVE HostOK'
  <2>1. /\ call = Free /\ UNCHANGED host
        /\ call' = [pc |-> "open", by |-> "startIO", device |-> d, id |-> i]
    BY <1>11, Zenon DEF StartIOIdle
  <2>2. Counted(d, i, starts[d][i] + 1, 1)
    BY <1>11, StartIOIdleRecords, Zenon
  <2>3. StartIOOf(d)' /\ \A e \in Devices : ~StartIOOf(e)
    BY Zenon, <2>1, FreeCall DEF StartIOOf
  <2> QED
    BY <1>2, <2>1, <2>2, <2>3, OthersRun, OneDeviceChanges, Zenon DEF host
<1>12. CASE HardwareStep
  <2>1. PICK stage \in Stages : call' = [call EXCEPT !.pc = stage]
    BY <1>12, Zenon DEF HardwareStep, Open, Activate, RunTransport, StageFails, Stages
  <2>2. call.pc # "free" /\ UNCHANGED <<activeStarts, host>>
    BY Zenon, <1>12 DEF HardwareStep, Open, Activate, RunTransport, StageFails, counts
  <2> QED
    BY <1>1, <1>3, <2>1, <2>2, CallMoves, Zenon
<1>13. CASE StartIOStarted
  <2>1. /\ call.pc = "started" /\ call.by = "startIO" /\ notify' = notify \cup {call.device}
        /\ UNCHANGED <<activeStarts, hostView, missed>>
    BY <1>13, Zenon DEF StartIOStarted
  <2>2. call.device \in Devices
    BY Zenon, <1>1, <2>1, CallInProgress
  <2>3. \A e \in Devices : e # call.device => ~StartIOOf(e)
    BY Zenon DEF StartIOOf
  <2>4. \A e \in Devices : IsRunning(e)' = IsRunning(e)
    BY <2>1, Zenon DEF IsRunning
  <2> QED
    BY ZenonT(90), <1>2, <2>1, <2>2, <2>3, <2>4, OneDeviceChanges
<1>14. CASE StartIOFailed
  <2>1. missed' = missed \cup {call.device} /\ UNCHANGED <<hostView, notify>>
    BY <1>14, Zenon DEF StartIOFailed
  <2>2. /\ call.device \in Devices
        /\ \A e \in Devices : e # call.device => activeStarts'[e] = activeStarts[e]
    BY <1>14, StartIOFailedRecords, Zenon
  <2>3. \A e \in Devices : e # call.device => ~StartIOOf(e)
    BY Zenon DEF StartIOOf
  <2>4. \A e \in Devices : e # call.device => IsRunning(e)' = IsRunning(e)
    BY <2>2, Zenon DEF IsRunning
  <2> QED
    BY Zenon, <1>2, <2>1, <2>2, <2>3, <2>4, OneDeviceChanges
<1>15. ASSUME NEW d \in Devices, NotifyRunningChanged(d) PROVE HostOK'
  <2>1. /\ notify' = notify \ {d} /\ missed' = missed \ {d}
        /\ hostView' = [hostView EXCEPT ![d] = IsRunning(d)]
        /\ UNCHANGED <<activeStarts, call>>
    BY <1>15, Zenon DEF NotifyRunningChanged, counts
  <2>2. IsRunning(d) \in BOOLEAN /\ hostView \in [Devices -> BOOLEAN]
    BY <1>2, Zenon DEF IsRunning, HostOK, HostTypeOK
  <2>3. hostView' \in [Devices -> BOOLEAN] /\ notify' \subseteq Devices /\ missed' \subseteq Devices
    BY <1>2, <2>1, <2>2, Zenon DEF HostOK, HostTypeOK
  <2>4. hostView'[d] = IsRunning(d) /\ \A e \in Devices : e # d => hostView'[e] = hostView[e]
    BY <2>1, <2>2, Zenon
  <2>5. \A e \in Devices : (IsRunning(e)' <=> IsRunning(e)) /\ (StartIOOf(e)' <=> StartIOOf(e))
    BY <2>1, Zenon DEF IsRunning, StartIOOf
  <2>6. \A e \in Devices \ (notify \cup missed)' : e # d => e \in Devices \ (notify \cup missed)
    BY Zenon, <2>1
  <2> QED
    BY <1>2, <2>3, <2>4, <2>5, <2>6, Zenon DEF HostOK, HostTypeOK, HostFollows
<1>16. CASE monitorUSB
  <2>1. UNCHANGED <<activeStarts, host>> /\ call = Free
    BY <1>16, Zenon DEF monitorUSB, counts
  <2>2. call' = Free \/ call' = [pc |-> "open", by |-> "monitor"]
    BY <1>16, Zenon DEF monitorUSB
  <2>3. call'.pc = "free" \/ call'.by # "startIO"
    BY <2>2 DEF Free
  <2>4. SameCall
    BY <2>1, <2>3, FreeCall, Zenon DEF SameCall, StartIOOf, Entering
  <2> QED
    BY <1>3, <2>1, <2>4, Zenon
<1>17. CASE MonitorReturns
  <2>1. UNCHANGED <<activeStarts, host>> /\ call.by = "monitor" /\ call' = Free
    BY <1>17, Zenon DEF MonitorReturns, counts
  <2>2. \A e \in Devices, i \in Ids : ~StartIOOf(e) /\ ~Entering(e, i)
    BY Zenon, <2>1 DEF StartIOOf, Entering
  <2>3. \A e \in Devices, i \in Ids : ~StartIOOf(e)' /\ ~Entering(e, i)'
    BY <1>5, <2>1, Zenon
  <2>4. \A e \in Devices : ~StartIOOf(e) /\ ~StartIOOf(e)'
    BY Zenon, <2>1 DEF StartIOOf, Free
  <2>5. SameCall
    BY <2>2, <2>3, <2>4, Zenon DEF SameCall
  <2> QED
    BY <1>3, <2>1, <2>5, Zenon
<1>18. CASE Unplug \/ Plug
  BY <1>3, <1>4, <1>18, Zenon DEF Unplug, Plug, counts
<1> QED
  BY <1>6, <1>8, <1>9, <1>10, <1>11, <1>12, <1>13, <1>14, <1>15, <1>16, <1>17, <1>18, Zenon
     DEF Next, Handler
-----------------------------------------------------------------------------
(* The theorems                                                            *)

LEMMA InitDriver ==
  ASSUME Init
  PROVE  DriverInv
<1>1. /\ 0 \in 0..MaxStarts /\ 0 \in 0..MaxGeneration /\ 1 \in 0..MaxGeneration
      /\ DOMAIN clients = {} /\ call = Free
  BY DriverAssumption DEF Init
<1>2. clients \in [DOMAIN clients -> ClientValue]
  BY <1>1 DEF Init
<1>3. /\ keys \in [ActivitySlots -> {NoKey} \cup (Devices \X Ids)]
      /\ starts \in [Devices -> [Ids -> 0..MaxStarts]] /\ activeStarts \in [Devices -> Nat]
      /\ hostView \in [Devices -> BOOLEAN]
  BY Zenon, <1>1 DEF Init
<1>4. /\ session \in 0..MaxGeneration /\ usb \in 0..MaxGeneration /\ generation \in 0..MaxGeneration
      /\ runtime \in BOOLEAN /\ inputEnabled \in BOOLEAN /\ running \in BOOLEAN
  BY <1>1, Zenon DEF Init, Absent
<1>5. DriverTypeOK
  BY Zenon, <1>1, <1>2, <1>3, <1>4 DEF Init, DriverTypeOK, Calls
<1>6. /\ \A k \in ActivitySlots : keys[k] = NoKey
      /\ \A d \in Devices, i \in Ids : starts[d][i] = 0
      /\ \A d \in Devices : activeStarts[d] = 0 /\ ~hostView[d]
  BY Zenon DEF Init
<1>7. SlotsOwned
  BY Zenon, <1>1, <1>6 DEF SlotsOwned
<1>8. StartsEntered
  BY Zenon, <1>1, <1>6, FreeCall DEF StartsEntered, hasClient
<1>9. SumsAgree
  <2>1. SUFFICES ASSUME NEW d \in Devices
                 PROVE  Cardinality(StartedBy(starts[d])) = 0
    BY <1>6, Zenon DEF SumsAgree, Started, StartedBy
  <2>2. starts[d] \in [Ids -> 0..MaxStarts] /\ \A i \in Ids : starts[d][i] = 0
    BY <1>3, <1>6, Zenon
  <2> QED
    BY <2>2, SomeStart, Zenon
<1>10. HardwareAtStage
  BY Zenon, <1>1, FreeCall DEF Init, HardwareAtStage
<1>11. HostFollows
  BY <1>6, Zenon DEF HostFollows, IsRunning
<1> QED
  BY <1>5, <1>7, <1>8, <1>9, <1>10, <1>11, Zenon DEF DriverInv

LEMMA StepDriver ==
  ASSUME DriverInv, [Next]_vars
  PROVE  DriverInv'
<1>1. CASE Next
  <2>1. HardwareTypeOK
    BY Zenon DEF DriverInv, DriverTypeOK, HardwareTypeOK
  <2>2. RecordsOK' /\ HardwareTypeOK' /\ HardwareAtStage' /\ HostOK'
    BY <1>1, <2>1, StepRecords, StepHardwareTypes, StepHardware, StepHost, Zenon
  <2> QED
    BY <2>2, Zenon DEF DriverInv, DriverTypeOK, RecordsOK, RecordsTypeOK, HardwareTypeOK, HostOK, HostTypeOK
<1>2. CASE UNCHANGED vars
  <2>1. SameCall /\ UNCHANGED <<counts, hardware, host, usb, generation, call>>
    BY <1>2, Zenon DEF vars, counts, hardware, host, SameCall, StartIOOf, Entering
  <2>2. RecordsOK'
    BY <1>2, <2>1, OtherRecords, Zenon DEF vars, DriverInv, DriverTypeOK
  <2>3. DriverTypeOK'
    BY <1>2, Zenon DEF vars, DriverInv, DriverTypeOK
  <2>4. HardwareAtStage'
    BY <1>2, Zenon DEF vars, DriverInv, HardwareAtStage, anyActive
  <2>5. HostFollows'
    BY <1>2, <2>1, Zenon DEF vars, DriverInv, HostFollows, IsRunning, SameCall
  <2> QED
    BY <2>2, <2>3, <2>4, <2>5, Zenon DEF DriverInv, RecordsOK
<1> QED
  BY <1>1, <1>2, Zenon

\* The inductive invariant of the driver: the activity slots, the start counts of the
\* clients and of the devices, the hardware, and what the host has been told agree in
\* every reachable state, in the middle of StartIO and StopIO included.
THEOREM DriverInvariant == Spec => []DriverInv
<1>1. Init => DriverInv
  BY InitDriver, Zenon
<1>2. DriverInv /\ [Next]_vars => DriverInv'
  BY StepDriver, Zenon
<1> QED
  BY <1>1, <1>2, PTL DEF Spec

\* Over any order of starts, stops, removals, failures to start and unplugging, the
\* table of clients, the lifecycles and the activity slots agree; outside a handler
\* a session is open exactly while the transport runs, and then for a client that is
\* active, with capture on exactly while the input device has one.
THEOREM DriverHardwareFollowsClients == Spec => []HardwareFollowsClients
<1>1. ASSUME DriverInv PROVE HardwareFollowsClients
  <2>1. TypeOK
    <3>1. \A d \in Devices : activeStarts[d] \in 0..(MaxStarts * Cardinality(Ids))
      <4>1. SUFFICES ASSUME NEW d \in Devices
                     PROVE  activeStarts[d] \in 0..(MaxStarts * Cardinality(Ids))
        BY Zenon
      <4>2. activeStarts[d] = Cardinality(StartedBy(starts[d]))
        BY <1>1, Zenon DEF DriverInv, SumsAgree, Started, StartedBy
      <4>3. Cardinality(Ids) \in Nat
        BY Zenon, DriverAssumption, FS_CardinalityType
      <4> QED
        BY <4>2, <4>3, StartedFinite, DriverAssumption
    <3>2. activeStarts \in [Devices -> 0..(MaxStarts * Cardinality(Ids))]
      BY <1>1, <3>1, Zenon DEF DriverInv, DriverTypeOK
    <3>3. call.pc \in {"free", "open", "activate", "run", "started", "failed"}
      BY <1>1 DEF DriverInv, DriverTypeOK, Calls, Stages, Free
    <3> QED
      BY <1>1, <3>2, <3>3, Zenon DEF DriverInv, DriverTypeOK, TypeOK, ClientValue
  <2>2. ASSUME NEW k \in ActivitySlots
        PROVE  keys[k] # NoKey <=> \E p \in DOMAIN clients : clients[p].slot = k /\ keys[k] = p
    BY <1>1, ClientIsKey, Zenon DEF DriverInv, DriverTypeOK, SlotsOwned
  <2>3. CountsAgree
    BY <1>1, <2>1, <2>2, FreeCall, ZenonT(90) DEF DriverInv, CountsAgree, StartsEntered, SumsAgree
  <2> QED
    BY <1>1, <2>3, FreeCall, Zenon DEF DriverInv, HardwareFollowsClients, HardwareAtStage
<1> QED
  BY <1>1, DriverInvariant, PTL

\* With the notifications out and no start in progress, the host has each device's
\* running state right, unless the code returned without notifying it.
THEOREM DriverHostKnowsRunning == Spec => []HostKnowsRunning
<1>1. ASSUME DriverInv PROVE HostKnowsRunning
  BY <1>1, FreeCall, Zenon DEF DriverInv, HostFollows, HostKnowsRunning
<1> QED
  BY <1>1, DriverInvariant, PTL

\* No handler closes the session on the attached controller while a client of
\* either device is still active.
THEOREM DriverKeepsSession == Spec => SessionKeptForActive
<1>1. ASSUME DriverInv, [Next]_vars, call = Free, session = usb, session # Absent, session' = Absent
      PROVE  ~anyActive(activeStarts')
  <2>1. call.pc = "free"
    BY <1>1, FreeCall, Zenon
  <2>2. session' # session
    BY <1>1, Zenon
  <2>3. ~HardwareStep /\ ~StartIOStarted /\ ~StartIOFailed /\ ~MonitorReturns
    BY Zenon, <2>1 DEF HardwareStep, Open, Activate, RunTransport, StageFails, StartIOStarted, StartIOFailed,
       MonitorReturns
  <2>4. ~monitorUSB /\ ~Unplug /\ ~Plug /\ ~UNCHANGED vars
    BY <1>1, <2>2, Zenon DEF monitorUSB, Unplug, Plug, hardware, vars
  <2>5. PICK d \in Devices : AfterStop(d)
    <3>1. \A d \in Devices : ~NotifyRunningChanged(d)
      BY <2>2, Zenon DEF NotifyRunningChanged, hardware
    <3>2. PICK d \in Devices, i \in Ids : stopIO(d, i) \/ removeClient(d, i)
      BY <1>1, <2>2, <2>3, <2>4, <3>1, ZenonT(90)
         DEF Next, Handler, addClient, StartIOActive, StartIOIdle, hardware
    <3> QED
      BY <2>2, <3>2, Zenon DEF stopIO, removeClient
  <2> QED
    BY <2>2, <2>5, Zenon DEF AfterStop
<1>2. DriverInv /\ [Next]_vars =>
        (call = Free /\ session = usb /\ session # Absent /\ session' = Absent => ~anyActive(activeStarts'))
  BY <1>1, ZenonT(90)
<1> QED
  BY <1>2, DriverInvariant, PTL DEF Spec, SessionKeptForActive
-----------------------------------------------------------------------------
(* The tables of properties                                                *)

LEMMA SizeIsDataSize ==
  ASSUME NEW object \in Objects, NEW selector \in Selectors, NEW scope \in Scopes,
         hasProperty(object, selector, scope)
  PROVE  /\ getPropertySize(object, selector, scope) = DataSize(object, selector, scope)
         /\ DataSize(object, selector, scope) \in Nat
<1> USE DEF NameTexts, PluginTexts, DeviceTexts, StatusTexts, Classes, DeviceNumbers, StreamNumbers,
            Ranges, Formats, RangedFormats
<1> USE DEF getPropertySize, DataSize
<1>1. CASE selector \in NameTexts \cup DeviceTexts \cup PluginTexts
  BY ZenonT(90), <1>1
<1>2. CASE selector \in Classes \cup DeviceNumbers \cup StreamNumbers
  BY ZenonT(90), <1>2
<1>3. CASE selector \in {"TranslateUIDToDevice", "Latency", "RelatedDevices"}
  BY Zenon, <1>3
<1>4. CASE selector \in Ranges
  BY <1>4
<1>5. CASE selector = "NominalSampleRate"
  BY Zenon, <1>5
<1>6. CASE selector = "CustomPropertyInfoList"
  BY <1>6
<1>7. CASE selector = "DeviceList"
  <2>1. object = Plugin
    BY Zenon, <1>7 DEF PluginLists, hasProperty
  <2> QED
    BY <1>7, <2>1
<1>8. CASE selector \in {"BoxList", "ClockDeviceList"}
  BY ZenonT(90), <1>8
<1>9. CASE selector = "ControlList"
  BY ZenonT(90), <1>9
<1>10. CASE selector = "OwnedObjects"
  BY <1>10
<1>11. CASE selector = "Streams"
  BY ZenonT(90), <1>11 DEF Value
<1>12. CASE selector = "PreferredChannelLayout"
  BY ZenonT(90), <1>12
<1>13. CASE selector = "PreferredChannelsForStereo"
  BY <1>13
<1>14. CASE selector = "StreamConfiguration"
  BY <1>14 DEF Value
<1>15. CASE selector \in Formats
  BY ZenonT(90), <1>15
<1>16. CASE selector \in RangedFormats
  BY <1>16
<1> QED
  BY ZenonT(90), <1>1, <1>2, <1>3, <1>4, <1>5, <1>6, <1>7, <1>8, <1>9, <1>10, <1>11, <1>12, <1>13, <1>14, <1>15,
     <1>16, Zenon DEF Selectors, PluginLists

LEMMA SizesAgreeHold == SizesAgree
<1>1. SUFFICES ASSUME NEW object \in Objects, NEW selector \in Selectors, NEW scope \in Scopes,
                      hasProperty(object, selector, scope)
               PROVE  LET size == getPropertySize(object, selector, scope)
                      IN  propertyData(object, selector, scope, size)
                            = [status |-> "noErr", size |-> size]
  BY Zenon DEF SizesAgree
<1>2. /\ getPropertySize(object, selector, scope) = DataSize(object, selector, scope)
      /\ DataSize(object, selector, scope) \in Nat
  BY <1>1, SizeIsDataSize, Zenon
<1> QED
  BY <1>1, <1>2 DEF propertyData

LEMMA ObjectsAgreeHold == ObjectsAgree
<1>1. /\ \A d \in Devices :
           Read(d, "Owner", "global") = Plugin /\ Read(d, "OwnedObjects", "global") = {StreamOf(d)}
      /\ Read("outStream", "Owner", "global") = "out" /\ Read("inStream", "Owner", "global") = "in"
      /\ Read(Plugin, "OwnedObjects", "global") = {"out", "in"}
      /\ Read(Plugin, "DeviceList", "global") = {"out", "in"}
  BY Zenon DEF Read, Value, Formats, RangedFormats, Plugin, Devices
<1>2. ASSUME NEW o \in Objects \ {Plugin}
      PROVE  o \in Read(Read(o, "Owner", "global"), "OwnedObjects", "global")
  BY Zenon, <1>1 DEF Objects, Devices, Streams, StreamOf, Plugin
<1>3. \A d \in Devices, s \in Scopes :
        Read(d, "Streams", s) = IF s = Direction(d) THEN {StreamOf(d)} ELSE {}
  BY Zenon DEF Read, Value, Formats, RangedFormats
<1>4. \A d \in Devices, s \in Scopes :
        Read(d, "StreamConfiguration", s) =
          IF s = Direction(d) THEN <<streamFormat(d = "in").channels>> ELSE <<>>
  BY Zenon DEF Read, Value, Formats, RangedFormats
<1>5. ASSUME NEW d \in Devices
      PROVE  UNION {Read(d, "Streams", s) : s \in Scopes \ {"global"}} = Read(d, "OwnedObjects", "global")
  <2>1. Direction(d) \in Scopes \ {"global"}
    BY Zenon DEF Direction, Scopes
  <2>2. \A x : x \in UNION {Read(d, "Streams", s) : s \in Scopes \ {"global"}} <=> x = StreamOf(d)
    BY <1>3, <2>1
  <2> QED
    BY <1>1, <2>2
<1>6. ASSUME NEW d \in Devices
      PROVE  Value(Plugin, "TranslateUIDToDevice", "global", Read(d, "DeviceUID", "global")) = d
  <2>1. Read(d, "DeviceUID", "global") = IF d = "in" THEN "inputUID" ELSE "outputUID"
    BY Zenon DEF Read, Value, Formats, RangedFormats
  <2>2. \A q : Value(Plugin, "TranslateUIDToDevice", "global", q) =
                 CASE q = "outputUID" -> "out" [] q = "inputUID" -> "in" [] OTHER -> "unknown"
    BY Zenon DEF Value, Formats, RangedFormats
  <2> QED
    BY Zenon, <2>1, <2>2 DEF Devices
<1>7. ASSUME NEW d \in Devices
      PROVE  /\ Read(StreamOf(d), "Direction", "global") = Direction(d)
             /\ Read(StreamOf(d), "VirtualFormat", "global") = streamFormat(d = "in")
  <2>1. Read(StreamOf(d), "Direction", "global") = Direction(d)
    BY Zenon DEF Read, Value, Formats, RangedFormats, Devices, StreamOf, Direction
  <2>2. StreamOf(d) = "inStream" <=> d = "in"
    BY Zenon DEF StreamOf
  <2>3. Read(StreamOf(d), "VirtualFormat", "global") = streamFormat(d = "in")
    <3>1. CASE d = "in"
      BY Zenon, <3>1 DEF Read, Value, Formats, RangedFormats, StreamOf, streamFormat
    <3>2. CASE d # "in"
      BY Zenon, <3>2 DEF Read, Value, Formats, RangedFormats, StreamOf, streamFormat
    <3> QED
      BY Zenon, <3>1, <3>2
  <2> QED
    BY Zenon, <2>1, <2>3
<1>8. ASSUME NEW d \in Devices, NEW s \in Scopes \ {"global"}
      PROVE  /\ \A o \in Read(d, "Streams", s) :
                 /\ Read(o, "Direction", "global") = s
                 /\ <<Read(o, "VirtualFormat", "global").channels>> = Read(d, "StreamConfiguration", s)
             /\ Read(d, "Streams", s) = {} => Read(d, "StreamConfiguration", s) = <<>>
  <2>1. CASE s = Direction(d)
    <3>1. /\ Read(d, "Streams", s) = {StreamOf(d)}
          /\ Read(d, "StreamConfiguration", s) = <<streamFormat(d = "in").channels>>
      BY <1>3, <1>4, <2>1, Zenon
    <3> QED
      BY <1>7, <2>1, <3>1, Zenon
  <2>2. CASE s # Direction(d)
    <3>1. Read(d, "Streams", s) = {} /\ Read(d, "StreamConfiguration", s) = <<>>
      BY <1>3, <1>4, <2>2, Zenon
    <3> QED
      BY <3>1, Zenon
  <2> QED
    BY <2>1, <2>2, Zenon
<1> QED
  <2>1. Read(Plugin, "DeviceList", "global") = Read(Plugin, "OwnedObjects", "global")
    BY <1>1, Zenon
  <2> QED
    BY <1>2, <1>5, <1>6, <1>8, <2>1, ZenonT(90) DEF ObjectsAgree
-----------------------------------------------------------------------------
(* The clients' activity                                                   *)

EntryValue == [starts : 0..MaxClientStarts, slot : Entries]
SlotValue == [key : {Nobody} \cup (Devices \X Clients), last : Owners]

ActivityTypes ==
  /\ DOMAIN table \subseteq Devices \X Clients
  /\ table \in [DOMAIN table -> EntryValue]
  /\ activity \in [Entries -> SlotValue]
  /\ operations \subseteq [slot : Entries, late : BOOLEAN]
  /\ reading \in [clock : BOOLEAN, later : SUBSET Entries]

\* Client and slot name each other.
EntriesOwned ==
  /\ \A p \in DOMAIN table : activity[table[p].slot].key = p
  /\ \A k \in Entries : activity[k].key # Nobody =>
       activity[k].key \in DOMAIN table /\ table[activity[k].key].slot = k

\* What a client left behind is in a free slot only, and an operation that was not
\* overtaken is on one that is not free.
LeftoversFree ==
  /\ \A k \in Entries : activity[k].last = "left" => activity[k].key = Nobody
  /\ \A o \in operations : ~o.late => activity[o.slot].key # Nobody

ActivityInv == ActivityTypes /\ EntriesOwned /\ LeftoversFree

LEMMA ClientIsSomebody ==
  ASSUME NEW p \in Devices \X Clients
  PROVE  p # Nobody
BY DEF Nobody

LEMMA AddDeviceClientInv ==
  ASSUME NEW d \in Devices, NEW i \in Clients, ActivityInv, AddDeviceClient(d, i)
  PROVE  ActivityInv'
<1> USE DEF ActivityInv
<1> DEFINE q == <<d, i>>
           r(k) == [starts |-> 0, slot |-> k]
           s == [key |-> q, last |-> "none"]
<1>1. q \notin DOMAIN table /\ UNCHANGED <<operations, reading>>
  BY Zenon DEF AddDeviceClient
<1>2. PICK k \in Unused :
        /\ table' = [p \in DOMAIN table \cup {q} |-> IF p = q THEN r(k) ELSE table[p]]
        /\ activity' = [activity EXCEPT ![k] = s]
  BY Zenon DEF AddDeviceClient
<1>3. k \in Entries /\ activity[k].key = Nobody
  BY Zenon DEF Unused
<1>4. q \in Devices \X Clients
  BY Zenon
<1>5. r(k) \in EntryValue /\ r(k).slot = k
  BY <1>3, ActivityAssumption DEF EntryValue
<1>6. s \in SlotValue /\ s.key = q /\ s.last = "none"
  BY <1>4, Zenon DEF SlotValue, Owners
<1> HIDE DEF q, r, s
<1>7. /\ DOMAIN table' = DOMAIN table \cup {q} /\ table'[q] = r(k)
      /\ \A p \in DOMAIN table : table'[p] = table[p]
  BY Zenon, <1>1, <1>2
<1>8. table' \in [DOMAIN table' -> EntryValue]
  BY Zenon, <1>2, <1>5, <1>7 DEF ActivityTypes
<1>9. /\ activity' \in [Entries -> SlotValue] /\ activity'[k] = s
      /\ \A l \in Entries : l # k => activity'[l] = activity[l]
  BY Zenon, <1>2, <1>3, <1>6 DEF ActivityTypes
<1>10. ActivityTypes'
  BY Zenon, <1>1, <1>4, <1>7, <1>8, <1>9 DEF ActivityTypes
<1>11. \A p \in DOMAIN table : table[p].slot \in Entries /\ table[p].slot # k
  <2>1. \A p \in DOMAIN table : table[p].slot \in Entries
    BY Zenon DEF ActivityTypes, EntryValue
  <2> QED
    BY <1>3, <2>1, ClientIsSomebody, Zenon DEF EntriesOwned, ActivityTypes
<1>12. EntriesOwned'
  <2>1. ASSUME NEW p \in DOMAIN table'
        PROVE  activity'[table'[p].slot].key = p
    <3>1. CASE p = q
      BY <1>5, <1>6, <1>7, <1>9, <3>1, Zenon
    <3>2. CASE p \in DOMAIN table
      <4>1. table'[p].slot = table[p].slot /\ activity[table[p].slot].key = p
        BY <1>7, <3>2, Zenon DEF EntriesOwned
      <4>2. activity'[table[p].slot] = activity[table[p].slot]
        BY <1>9, <1>11, <3>2, Zenon
      <4> QED
        BY <4>1, <4>2, Zenon
    <3> QED
      BY <1>7, <3>1, <3>2, Zenon
  <2>2. ASSUME NEW l \in Entries, activity'[l].key # Nobody
        PROVE  activity'[l].key \in DOMAIN table' /\ table'[activity'[l].key].slot = l
    <3>1. CASE l = k
      BY <1>5, <1>6, <1>7, <1>9, <3>1, Zenon
    <3>2. CASE l # k
      <4>1. activity'[l] = activity[l]
        BY <1>9, <3>2, Zenon
      <4>2. activity[l].key \in DOMAIN table /\ table[activity[l].key].slot = l
        BY <2>2, <4>1, Zenon DEF EntriesOwned
      <4> QED
        BY <1>7, <4>1, <4>2, Zenon
    <3> QED
      BY <3>1, <3>2, Zenon
  <2> QED
    BY <2>1, <2>2, Zenon DEF EntriesOwned, Entries
<1>13. LeftoversFree'
  <2>1. ASSUME NEW l \in Entries, activity'[l].last = "left"
        PROVE  activity'[l].key = Nobody
    <3>1. l # k
      BY <1>6, <1>9, <2>1, Zenon
    <3> QED
      BY <1>9, <2>1, <3>1, Zenon DEF LeftoversFree
  <2>2. ASSUME NEW o \in operations, ~o.late
        PROVE  activity'[o.slot].key # Nobody
    <3>1. o.slot \in Entries /\ activity[o.slot].key # Nobody
      BY <2>2, Zenon DEF ActivityTypes, LeftoversFree
    <3>2. o.slot # k
      BY <1>3, <3>1, Zenon
    <3> QED
      BY <1>9, <3>1, <3>2, Zenon
  <2> QED
    BY <1>1, <2>1, <2>2, Zenon DEF LeftoversFree, Entries
<1> QED
  BY <1>10, <1>12, <1>13, Zenon

LEMMA RemoveDeviceClientInv ==
  ASSUME NEW q \in DOMAIN table, ActivityInv, RemoveDeviceClient(q)
  PROVE  ActivityInv'
<1> USE DEF ActivityInv
<1> DEFINE k == table[q].slot
           s == [key |-> Nobody, last |-> IF activity[k].last = "own" THEN "left" ELSE activity[k].last]
           Overtake(o) == [o EXCEPT !.late = o.late \/ o.slot = k]
<1>1. /\ table' = [p \in DOMAIN table \ {q} |-> table[p]]
      /\ activity' = [activity EXCEPT ![k] = s]
      /\ operations' = {Overtake(o) : o \in operations}
      /\ UNCHANGED reading
  BY Zenon DEF RemoveDeviceClient
<1>2. k \in Entries /\ activity[k].key = q
  BY Zenon DEF ActivityTypes, EntryValue, EntriesOwned
<1>3. s \in SlotValue /\ s.key = Nobody
  <2>1. activity[k].last \in Owners
    BY <1>2, Zenon DEF ActivityTypes, SlotValue
  <2>2. (IF activity[k].last = "own" THEN "left" ELSE activity[k].last) \in Owners
    BY <2>1, Zenon DEF Owners
  <2> QED
    BY <2>2, Zenon DEF SlotValue
<1>4. ASSUME NEW o \in operations
      PROVE  /\ Overtake(o) \in [slot : Entries, late : BOOLEAN]
             /\ Overtake(o).slot = o.slot /\ Overtake(o).late = (o.late \/ o.slot = k)
  BY DEF ActivityTypes
<1>5. \A p \in DOMAIN table : table[p].slot \in Entries /\ (p # q => table[p].slot # k)
  <2>1. \A p \in DOMAIN table : table[p].slot \in Entries
    BY Zenon DEF ActivityTypes, EntryValue
  <2> QED
    BY <1>2, <2>1, Zenon DEF EntriesOwned
<1> HIDE DEF k, s, Overtake
<1>6. /\ DOMAIN table' = DOMAIN table \ {q}
      /\ \A p \in DOMAIN table \ {q} : table'[p] = table[p]
      /\ table' \in [DOMAIN table' -> EntryValue]
  BY Zenon, <1>1 DEF ActivityTypes
<1>7. /\ activity' \in [Entries -> SlotValue] /\ activity'[k] = s
      /\ \A l \in Entries : l # k => activity'[l] = activity[l]
  BY Zenon, <1>1, <1>2, <1>3 DEF ActivityTypes
<1>8. operations' \subseteq [slot : Entries, late : BOOLEAN]
  BY Zenon, <1>1, <1>4
<1>9. ActivityTypes'
  BY Zenon, <1>1, <1>6, <1>7, <1>8 DEF ActivityTypes
<1>10. EntriesOwned'
  <2>1. ASSUME NEW p \in DOMAIN table'
        PROVE  activity'[table'[p].slot].key = p
    <3>1. p \in DOMAIN table \ {q} /\ table'[p] = table[p]
      BY <1>6, Zenon
    <3>2. activity[table[p].slot].key = p
      BY <3>1, Zenon DEF EntriesOwned
    <3> QED
      BY <1>5, <1>7, <3>1, <3>2, Zenon
  <2>2. ASSUME NEW l \in Entries, activity'[l].key # Nobody
        PROVE  activity'[l].key \in DOMAIN table' /\ table'[activity'[l].key].slot = l
    <3>1. l # k /\ activity'[l] = activity[l]
      BY <1>3, <1>7, <2>2, Zenon
    <3>2. activity[l].key \in DOMAIN table /\ table[activity[l].key].slot = l
      BY <2>2, <3>1, Zenon DEF EntriesOwned
    <3>3. activity[l].key # q
      BY <3>1, <3>2, Zenon DEF k
    <3> QED
      BY <1>6, <3>1, <3>2, <3>3, Zenon
  <2> QED
    BY <2>1, <2>2, Zenon DEF EntriesOwned, Entries
<1>11. LeftoversFree'
  <2>1. ASSUME NEW l \in Entries, activity'[l].last = "left"
        PROVE  activity'[l].key = Nobody
    <3>1. CASE l = k
      BY <1>3, <1>7, <3>1, Zenon
    <3>2. CASE l # k
      BY <1>7, <2>1, <3>2, Zenon DEF LeftoversFree
    <3> QED
      BY <3>1, <3>2, Zenon
  <2>2. ASSUME NEW n \in operations', ~n.late
        PROVE  activity'[n.slot].key # Nobody
    <3>1. PICK o \in operations : n = Overtake(o)
      BY <1>1, Zenon
    <3>2. n.slot = o.slot /\ ~o.late /\ o.slot # k
      BY <1>4, <2>2, <3>1, Zenon
    <3>3. o.slot \in Entries /\ activity[o.slot].key # Nobody
      BY <3>2, Zenon DEF ActivityTypes, LeftoversFree
    <3> QED
      BY <1>7, <3>2, <3>3, Zenon
  <2> QED
    BY <2>1, <2>2, Zenon DEF LeftoversFree, Entries
<1> QED
  BY <1>9, <1>10, <1>11, Zenon

\* A start or a stop changes the starts of one entry.
LEMMA StartsInv ==
  ASSUME NEW q \in DOMAIN table, NEW n \in 0..MaxClientStarts, ActivityInv,
         table' = [table EXCEPT ![q].starts = n], UNCHANGED <<activity, operations, reading>>
  PROVE  ActivityInv'
<1> USE DEF ActivityInv
<1>1. table[q] \in EntryValue
  BY Zenon DEF ActivityTypes
<1>2. DOMAIN table' = DOMAIN table /\ table' \in [DOMAIN table' -> EntryValue]
  BY <1>1 DEF ActivityTypes, EntryValue
<1>3. \A p \in DOMAIN table : table'[p].slot = table[p].slot
  BY <1>1 DEF ActivityTypes, EntryValue
<1>4. ActivityTypes'
  BY Zenon, <1>2 DEF ActivityTypes
<1>5. EntriesOwned'
  BY Zenon, <1>2, <1>3 DEF EntriesOwned, Entries
<1>6. LeftoversFree'
  BY Zenon DEF LeftoversFree, Entries
<1> QED
  BY <1>4, <1>5, <1>6, Zenon

\* A store, or time passing, changes the time of one slot.
LEMMA TimeInv ==
  ASSUME NEW k \in Entries, NEW last \in Owners \ {"left"}, ActivityInv,
         activity' = [activity EXCEPT ![k].last = last], UNCHANGED table,
         operations' \subseteq operations, reading' \in [clock : BOOLEAN, later : SUBSET Entries]
  PROVE  ActivityInv'
<1> USE DEF ActivityInv
<1>1. activity[k] \in SlotValue
  BY Zenon DEF ActivityTypes
<1>2. /\ activity' \in [Entries -> SlotValue]
      /\ \A l \in Entries : activity'[l].key = activity[l].key
      /\ activity'[k].last = last
      /\ \A l \in Entries : l # k => activity'[l] = activity[l]
  BY <1>1 DEF ActivityTypes, SlotValue
<1>3. ActivityTypes'
  BY Zenon, <1>2 DEF ActivityTypes
<1>4. \A p \in DOMAIN table : table[p].slot \in Entries
  BY Zenon DEF ActivityTypes, EntryValue
<1>5. EntriesOwned'
  BY Zenon, <1>2, <1>4 DEF EntriesOwned, Entries
<1>6. \A l \in Entries : activity'[l].last = "left" => activity'[l].key = Nobody
  BY Zenon, <1>2 DEF LeftoversFree
<1>7. \A o \in operations : o.slot \in Entries
  BY Zenon DEF ActivityTypes
<1>8. LeftoversFree'
  BY Zenon, <1>2, <1>6, <1>7 DEF LeftoversFree, Entries
<1> QED
  BY <1>3, <1>5, <1>8, Zenon

LEMMA ActivityStep ==
  ASSUME ActivityInv, [ActivityNext]_activityVars
  PROVE  ActivityInv'
<1>1. ASSUME UNCHANGED <<table, activity>>, operations' \subseteq [slot : Entries, late : BOOLEAN],
             \A o \in operations' \ operations : activity[o.slot].key # Nobody,
             reading' \in [clock : BOOLEAN, later : SUBSET Entries]
      PROVE  ActivityInv'
  <2>1. ActivityTypes'
    BY Zenon, <1>1 DEF ActivityInv, ActivityTypes
  <2>2. EntriesOwned'
    BY Zenon, <1>1 DEF ActivityInv, EntriesOwned, Entries
  <2>3. LeftoversFree'
    BY Zenon, <1>1 DEF ActivityInv, LeftoversFree, Entries
  <2> QED
    BY <2>1, <2>2, <2>3, Zenon DEF ActivityInv
<1>2. /\ operations \subseteq [slot : Entries, late : BOOLEAN]
      /\ reading \in [clock : BOOLEAN, later : SUBSET Entries]
      /\ \A p \in DOMAIN table : table[p].starts \in 0..MaxClientStarts
  BY Zenon DEF ActivityInv, ActivityTypes, EntryValue
<1>3. ASSUME NEW d \in Devices, NEW i \in Clients, FindActivity(d, i)
      PROVE  ActivityInv'
  <2>1. PICK k \in Entries :
          activity[k].key = <<d, i>> /\ operations' = operations \cup {[slot |-> k, late |-> FALSE]}
    BY <1>3, Zenon DEF FindActivity
  <2>2. UNCHANGED <<table, activity, reading>>
    BY <1>3, Zenon DEF FindActivity
  <2>3. /\ [slot |-> k, late |-> FALSE] \in [slot : Entries, late : BOOLEAN]
        /\ [slot |-> k, late |-> FALSE].slot = k
    BY <2>1, Zenon
  <2>4. activity[k].key # Nobody
    BY <2>1, ClientIsSomebody, Zenon
  <2> QED
    BY <1>1, <1>2, <2>1, <2>2, <2>3, <2>4, Zenon
<1>4. ASSUME NEW p \in DOMAIN table, StartDeviceIO(p) \/ StopDeviceIO(p)
      PROVE  ActivityInv'
  <2>1. PICK n \in 0..MaxClientStarts : table' = [table EXCEPT ![p].starts = n]
    <3>1. CASE StartDeviceIO(p)
      <4>1. table[p].starts + 1 \in 0..MaxClientStarts
        BY <1>2, <3>1, ActivityAssumption DEF StartDeviceIO
      <4> QED
        BY <3>1, <4>1, Zenon DEF StartDeviceIO
    <3>2. CASE StopDeviceIO(p)
      <4>1. table[p].starts - 1 \in 0..MaxClientStarts
        BY <1>2, <3>2, ActivityAssumption DEF StopDeviceIO
      <4> QED
        BY <3>2, <4>1, Zenon DEF StopDeviceIO
    <3> QED
      BY <1>4, <3>1, <3>2, Zenon
  <2>2. UNCHANGED <<activity, operations, reading>>
    BY <1>4, Zenon DEF StartDeviceIO, StopDeviceIO
  <2> QED
    BY <2>1, <2>2, StartsInv, Zenon
<1>5. ASSUME NEW o \in operations, StoreLastIO(o)
      PROVE  ActivityInv'
  <2>1. o.slot \in Entries
    BY <1>2, Zenon
  <2>2. reading' \in [clock : BOOLEAN, later : SUBSET Entries]
    BY <1>2, <1>5, <2>1 DEF StoreLastIO
  <2>3. PICK last \in Owners \ {"left"} : activity' = [activity EXCEPT ![o.slot].last = last]
    <3>1. (IF o.late THEN "late" ELSE "own") \in Owners \ {"left"}
      BY DEF Owners
    <3> QED
      BY <1>5, <3>1, Zenon DEF StoreLastIO
  <2>4. operations' \subseteq operations /\ UNCHANGED table
    BY <1>5, Zenon DEF StoreLastIO
  <2> QED
    BY <2>1, <2>2, <2>3, <2>4, TimeInv, Zenon
<1>6. ASSUME NEW k \in Entries, Age(k)
      PROVE  ActivityInv'
  <2>1. "none" \in Owners \ {"left"}
    BY DEF Owners
  <2>2. activity' = [activity EXCEPT ![k].last = "none"] /\ UNCHANGED <<table, operations, reading>>
    BY <1>6, Zenon DEF Age
  <2>3. operations' \subseteq operations /\ reading' \in [clock : BOOLEAN, later : SUBSET Entries]
    BY <1>2, <2>2, Zenon
  <2> DEFINE last == "none"
  <2>4. last \in Owners \ {"left"} /\ activity' = [activity EXCEPT ![k].last = last]
    BY <2>1, <2>2, Zenon
  <2> HIDE DEF last
  <2> QED
    BY <2>2, <2>3, <2>4, TimeInv, Zenon
<1>7. CASE ReadClock \/ MakeList
  <2>1. reading' \in [clock : BOOLEAN, later : SUBSET Entries]
    <3>1. PICK clock \in BOOLEAN, later \in SUBSET Entries :
            reading' = [clock |-> clock, later |-> later]
      <4>1. {} \in SUBSET Entries
        BY Zenon
      <4> QED
        BY <1>7, <4>1, Zenon DEF ReadClock, MakeList
    <3> QED
      BY <3>1, Zenon
  <2>2. UNCHANGED <<table, activity, operations>>
    BY <1>7, Zenon DEF ReadClock, MakeList
  <2> QED
    BY <1>1, <1>2, <2>1, <2>2, Zenon
<1>8. CASE UNCHANGED activityVars
  BY <1>1, <1>2, <1>8, Zenon DEF activityVars
<1> QED
  BY <1>3, <1>4, <1>5, <1>6, <1>7, <1>8, AddDeviceClientInv, RemoveDeviceClientInv, Zenon DEF ActivityNext

\* Whatever property an object has, the size the host is told is the size it is
\* given; the tree of objects reads the same from above and below; and, however
\* clients come and go while I/O threads store their times without the mutex, the
\* list of active clients has every client that started and, of the others, none for
\* the I/O a client before it in its slot had stored.
THEOREM DriverPropertiesAgree == ActivitySpec => []PropertiesAgree
<1>1. ActivityInit => ActivityInv
  <2>1. ASSUME ActivityInit PROVE ActivityTypes
    <3>1. DOMAIN table = {} /\ table \in [DOMAIN table -> EntryValue]
      BY <2>1 DEF ActivityInit
    <3>2. activity \in [Entries -> SlotValue]
      BY <2>1, Zenon DEF ActivityInit, SlotValue, Owners
    <3> QED
      BY <2>1, <3>1, <3>2, Zenon DEF ActivityInit, ActivityTypes
  <2>2. ASSUME ActivityInit PROVE EntriesOwned /\ LeftoversFree
    <3>1. DOMAIN table = {} /\ operations = {}
      BY <2>2 DEF ActivityInit
    <3>2. \A k \in Entries : activity[k].key = Nobody
      BY <2>2, Zenon DEF ActivityInit
    <3> QED
      BY <3>1, <3>2, Zenon DEF EntriesOwned, LeftoversFree
  <2> QED
    BY <2>1, <2>2, Zenon DEF ActivityInv
<1>2. ASSUME ActivityInv PROVE ListsActiveClients
  <2>1. ActivityTypeOK
    <3>1. \A p \in DOMAIN table : table[p] \in EntryValue
      BY <1>2, Zenon DEF ActivityInv, ActivityTypes
    <3> QED
      BY <1>2, <3>1, Zenon DEF ActivityInv, ActivityTypes, ActivityTypeOK, EntryValue, SlotValue
  <2>2. ASSUME NEW p \in DOMAIN table
        PROVE  /\ activity[table[p].slot].key = p
               /\ table[p].starts # 0 /\ p[2] \notin NoProcess => p[2] \in ActiveClients(p[1])
    <3>1. p \in Devices \X Clients
      BY <1>2, Zenon DEF ActivityInv, ActivityTypes
    <3>2. p = <<p[1], p[2]>> /\ p[2] \in Clients
      BY <3>1
    <3>3. table[p].starts # 0 /\ p[2] \notin NoProcess => p[2] \in ActiveClients(p[1])
      BY <3>2, Zenon DEF ActiveClients
    <3> QED
      BY <1>2, <3>3, Zenon DEF ActivityInv, EntriesOwned
  <2>3. ASSUME NEW d \in Devices, NEW i \in ActiveClients(d), table[<<d, i>>].starts = 0
        PROVE  activity[table[<<d, i>>].slot].last \in {"own", "late"}
    <3> DEFINE k == table[<<d, i>>].slot
    <3>1. <<d, i>> \in DOMAIN table /\ activity[k].last # "none"
      BY <2>3, Zenon DEF ActiveClients, Recent
    <3>2. k \in Entries /\ activity[k].key = <<d, i>>
      BY <1>2, <3>1, Zenon DEF ActivityInv, ActivityTypes, EntryValue, EntriesOwned
    <3>3. activity[k].last \in Owners
      BY <1>2, <3>2, Zenon DEF ActivityInv, ActivityTypes, SlotValue
    <3>4. <<d, i>> # Nobody
      BY DEF Nobody
    <3>5. activity[k].last # "left"
      BY <1>2, <3>2, <3>4, Zenon DEF ActivityInv, LeftoversFree
    <3> QED
      BY <3>1, <3>3, <3>5, Zenon DEF Owners
  <2>4. ASSUME NEW o \in operations, ~o.late
        PROVE  \E p \in DOMAIN table : table[p].slot = o.slot
    <3>1. o.slot \in Entries /\ activity[o.slot].key # Nobody
      BY <1>2, <2>4, Zenon DEF ActivityInv, ActivityTypes, LeftoversFree
    <3> QED
      BY <1>2, <3>1, Zenon DEF ActivityInv, EntriesOwned
  <2> QED
    BY <2>1, <2>2, <2>3, <2>4, Zenon DEF ListsActiveClients
<1>3. ActivityInv => PropertiesAgree
  BY <1>2, SizesAgreeHold, ObjectsAgreeHold, Zenon DEF PropertiesAgree
<1>4. ActivityInv /\ [ActivityNext]_activityVars => ActivityInv'
  BY ActivityStep, Zenon
<1> QED
  BY <1>1, <1>3, <1>4, PTL DEF ActivitySpec
=============================================================================
