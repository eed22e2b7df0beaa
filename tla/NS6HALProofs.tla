---------------------------- MODULE NS6HALProofs ----------------------------
(***************************************************************************)
(* The lease of the earlier plug-in agrees with its running clients, for   *)
(* every number of clients, starts, handles, leases and queued requests.   *)
(*                                                                         *)
(* The invariant, and the steps of the service and of the plug-in that     *)
(* count nothing, are in NS6DeviceSystemProofs.  Here are the steps that   *)
(* count: starts that CoreAudio runs, one by one, as a finite set of       *)
(* pairs, and the leases in the registry.                                  *)
(***************************************************************************)
EXTENDS NS6DeviceSystemProofs, FiniteSetTheorems

-----------------------------------------------------------------------------
(* The accounts: every start that CoreAudio runs, one by one               *)

LEMMA StartsFinite ==
  ASSUME NEW f
  PROVE  IsFiniteSet(Starts(f)) /\ Cardinality(Starts(f)) \in Nat
<1>1. IsFiniteSet(Clients) /\ IsFiniteSet(1..MaxRunning)
  BY HalAssumption, FS_Interval
<1>2. IsFiniteSet(Clients \X (1..MaxRunning)) /\ Starts(f) \in SUBSET (Clients \X (1..MaxRunning))
  BY Zenon, <1>1, FS_Product DEF Starts
<1> QED BY Zenon, <1>2, FS_Subset, FS_CardinalityType

\* One start more: at most one more to count.
LEMMA StartsRaised ==
  ASSUME NEW f \in [Clients -> 0..MaxRunning], NEW c \in Clients, f[c] < MaxRunning
  PROVE  Cardinality(Starts([f EXCEPT ![c] = f[c] + 1])) <= Cardinality(Starts(f)) + 1
<1> DEFINE g == [f EXCEPT ![c] = f[c] + 1]
           x == <<c, f[c] + 1>>
<1>1. g[c] = f[c] + 1 /\ \A d \in Clients : d # c => g[d] = f[d]
  BY Zenon
<1> HIDE DEF g, x
<1>2. ASSUME NEW p \in Starts(g)
      PROVE  p \in Starts(f) \cup {x}
  <2>1. PICK d \in Clients, n \in 1..MaxRunning : p = <<d, n>>
    BY DEF Starts
  <2>2. n <= g[d]
    BY Zenon, <2>1 DEF Starts
  <2>3. CASE d # c
    BY Zenon, <1>1, <2>1, <2>2, <2>3 DEF Starts
  <2>4. CASE d = c
    <3>1. n <= f[c] \/ n = f[c] + 1
      BY <1>1, <2>2, <2>4, HalAssumption
    <3> QED BY Zenon, <2>1, <2>4, <3>1 DEF Starts, x
  <2> QED BY Zenon, <2>3, <2>4
<1>3. Starts(g) \in SUBSET (Starts(f) \cup {x})
  BY Zenon, <1>2
<1>4. /\ IsFiniteSet(Starts(f)) /\ Cardinality(Starts(f)) \in Nat
      /\ IsFiniteSet(Starts(g)) /\ Cardinality(Starts(g)) \in Nat
  BY Zenon, StartsFinite
<1>5. CASE x \in Starts(f)
  <2>1. Starts(f) \cup {x} = Starts(f)
    BY Zenon, <1>5
  <2>2. Cardinality(Starts(g)) <= Cardinality(Starts(f))
    BY Zenon, <1>3, <1>4, <2>1, FS_Subset
  <2> QED BY <1>4, <2>2 DEF g
<1>6. CASE x \notin Starts(f)
  <2>1. IsFiniteSet(Starts(f) \cup {x}) /\ Cardinality(Starts(f) \cup {x}) = Cardinality(Starts(f)) + 1
    BY Zenon, <1>4, <1>6, FS_AddElement
  <2>2. Cardinality(Starts(g)) <= Cardinality(Starts(f) \cup {x})
    BY Zenon, <1>3, <2>1, FS_Subset
  <2> QED BY Zenon, <2>1, <2>2 DEF g
<1> QED BY Zenon, <1>5, <1>6

\* Starts of one client that end: at least as many less to count.
LEMMA StartsLowered ==
  ASSUME NEW f \in [Clients -> 0..MaxRunning], NEW c \in Clients, NEW m \in 0..f[c]
  PROVE  Cardinality(Starts([f EXCEPT ![c] = m])) + (f[c] - m) <= Cardinality(Starts(f))
<1> DEFINE g == [f EXCEPT ![c] = m]
           ended == {c} \X ((m + 1)..f[c])
<1>1. g[c] = m /\ \A d \in Clients : d # c => g[d] = f[d]
  BY Zenon
<1>2. m \in Nat /\ f[c] \in Nat /\ m <= f[c] /\ f[c] <= MaxRunning /\ MaxRunning \in Nat
  BY HalAssumption
<1>3. IsFiniteSet((m + 1)..f[c]) /\ Cardinality((m + 1)..f[c]) = f[c] - m
  <2>1. m + 1 \in Int /\ f[c] \in Int
    BY <1>2
  <2>2. /\ IsFiniteSet((m + 1)..f[c])
        /\ Cardinality((m + 1)..f[c]) = IF m + 1 > f[c] THEN 0 ELSE f[c] - (m + 1) + 1
    BY Zenon, <2>1, FS_Interval
  <2> QED BY <1>2, <2>2
<1>4. IsFiniteSet({c}) /\ Cardinality({c}) = 1
  BY Zenon, FS_Singleton
<1>5. IsFiniteSet(ended) /\ Cardinality(ended) = Cardinality({c}) * Cardinality((m + 1)..f[c])
  BY Zenon, <1>3, <1>4, FS_Product
<1>6. Cardinality(ended) = f[c] - m
  BY <1>2, <1>3, <1>4, <1>5
<1>7. \A p \in ended : \E n \in (m + 1)..f[c] : p = <<c, n>>
  OBVIOUS
<1> HIDE DEF g, ended
<1>8. /\ IsFiniteSet(Starts(f)) /\ Cardinality(Starts(f)) \in Nat
      /\ IsFiniteSet(Starts(g)) /\ Cardinality(Starts(g)) \in Nat
  BY Zenon, StartsFinite
<1>9. ASSUME NEW p \in ended
      PROVE  p \in Starts(f) /\ p \notin Starts(g)
  <2>1. PICK n \in (m + 1)..f[c] : p = <<c, n>>
    BY Zenon, <1>7
  <2>2. n \in 1..MaxRunning /\ n <= f[c] /\ ~(n <= m)
    BY <1>2
  <2> QED BY Zenon, <1>1, <2>1, <2>2 DEF Starts
<1>10. ASSUME NEW p \in Starts(g)
       PROVE  p \in Starts(f)
  <2>1. PICK d \in Clients, n \in 1..MaxRunning : p = <<d, n>>
    BY DEF Starts
  <2>2. n <= g[d]
    BY Zenon, <2>1 DEF Starts
  <2>3. CASE d # c
    BY Zenon, <1>1, <2>1, <2>2, <2>3 DEF Starts
  <2>4. CASE d = c
    <3>1. n <= f[c]
      BY <1>1, <1>2, <2>2, <2>4
    <3> QED BY Zenon, <2>1, <2>4, <3>1 DEF Starts
  <2> QED BY Zenon, <2>3, <2>4
<1>11. Starts(g) \cup ended \in SUBSET Starts(f) /\ Starts(g) \cap ended = {}
  BY Zenon, <1>9, <1>10
<1>12. /\ IsFiniteSet(Starts(g) \cup ended)
       /\ Cardinality(Starts(g) \cup ended)
          = Cardinality(Starts(g)) + Cardinality(ended) - Cardinality(Starts(g) \cap ended)
  BY Zenon, <1>5, <1>8, FS_Union
<1>13. Cardinality(Starts(g) \cap ended) = 0
  BY Zenon, <1>11, FS_EmptySet
<1>14. Cardinality(Starts(g) \cup ended) <= Cardinality(Starts(f))
  BY Zenon, <1>8, <1>11, FS_Subset
<1>15. Cardinality(Starts(g)) + (f[c] - m) <= Cardinality(Starts(f))
  BY <1>2, <1>6, <1>8, <1>12, <1>13, <1>14
<1> QED BY Zenon, <1>15 DEF g

\* A client has no more starts than there are.
LEMMA StartsOfClient ==
  ASSUME NEW f \in [Clients -> 0..MaxRunning], NEW c \in Clients
  PROVE  f[c] <= Cardinality(Starts(f))
<1>1. f[c] \in Nat /\ 0 \in 0..f[c]
  BY HalAssumption
<1>2. Cardinality(Starts([f EXCEPT ![c] = 0])) + (f[c] - 0) <= Cardinality(Starts(f))
  BY Zenon, <1>1, StartsLowered
<1>3. Cardinality(Starts([f EXCEPT ![c] = 0])) \in Nat /\ Cardinality(Starts(f)) \in Nat
  BY Zenon, StartsFinite
<1> QED BY <1>1, <1>2, <1>3

-----------------------------------------------------------------------------
(* CoreAudio's calls                                                       *)

\* What the accounts of the plug-in say, for the arithmetic of one client.
LEMMA AccountsOf ==
  ASSUME PluginInv, NEW c \in Clients
  PROVE  /\ hal.clients \in Nat /\ hal.clients <= MaxRunning /\ MaxRunning \in Nat
         /\ hal.running \in [Clients -> 0..MaxRunning] /\ hal.starts \in [Clients -> Nat]
         /\ hal.running[c] \in Nat /\ hal.starts[c] \in Nat /\ hal.starts[c] <= hal.running[c]
         /\ hal.running[c] <= hal.clients
         /\ Cardinality(Starts(hal.running)) \in Nat
         /\ Cardinality(Starts(hal.running)) <= hal.clients
<1>1. /\ hal.clients \in 0..MaxRunning /\ hal.running \in [Clients -> 0..MaxRunning]
      /\ hal.starts \in [Clients -> Nat] /\ hal.starts[c] <= hal.running[c]
      /\ Cardinality(Starts(hal.running)) <= hal.clients
  BY Zenon DEF PluginInv, Accounts
<1>2. hal.running[c] <= Cardinality(Starts(hal.running)) /\ Cardinality(Starts(hal.running)) \in Nat
  BY Zenon, <1>1, StartsOfClient, StartsFinite
<1>3. hal.running[c] \in 0..MaxRunning /\ hal.starts[c] \in Nat
  BY Zenon, <1>1
<1>4. hal.clients \in Nat /\ hal.clients <= MaxRunning /\ MaxRunning \in Nat /\ hal.running[c] \in Nat
  BY <1>1, <1>3, HalAssumption
<1>5. hal.running[c] <= hal.clients
  BY <1>1, <1>2, <1>4
<1> QED BY Zenon, <1>1, <1>2, <1>3, <1>4, <1>5

\* The rest of start_io books one start more.
LEMMA StartedBooks ==
  ASSUME PluginInv, NEW c \in Clients, hal.clients < MaxRunning,
         hal' = Started(c) \/ hal' = [Started(c) EXCEPT !.missed = FALSE]
  PROVE  /\ HalShape' /\ Accounts' /\ Running' /\ hal'.at = "free" /\ hal'.ready = hal.ready
         /\ hal'.missed => hal.missed
<1> DEFINE raised == [hal.running EXCEPT ![c] = hal.running[c] + 1]
           booked == [hal.starts EXCEPT ![c] = hal.starts[c] + 1]
<1>1. /\ HalShape' /\ hal'.at = "free" /\ hal'.ready = hal.ready /\ hal'.clients = hal.clients + 1
      /\ hal'.running = raised /\ hal'.tracked = hal.tracked /\ (hal'.missed => hal.missed)
      /\ \/ c \in hal.tracked /\ hal'.starts = booked
         \/ hal'.starts = hal.starts
  <2>1. CASE c \in hal.tracked
    <3>1. PICK k : k = [hal EXCEPT !.starts = booked]
      BY Zenon
    <3>2. \/ hal' = [k EXCEPT !.at = "free", !.clients = k.clients + 1,
                              !.running = [k.running EXCEPT ![c] = k.running[c] + 1]]
          \/ hal' = [k EXCEPT !.at = "free", !.clients = k.clients + 1,
                              !.running = [k.running EXCEPT ![c] = k.running[c] + 1], !.missed = FALSE]
      BY Zenon, <2>1, <3>1 DEF Started
    <3> QED BY Zenon, <2>1, <3>1, <3>2 DEF PluginInv, HalShape
  <2>2. CASE c \notin hal.tracked
    <3>1. PICK k : k = [hal EXCEPT !.untracked = hal.untracked + 1]
      BY Zenon
    <3>2. \/ hal' = [k EXCEPT !.at = "free", !.clients = k.clients + 1,
                              !.running = [k.running EXCEPT ![c] = k.running[c] + 1]]
          \/ hal' = [k EXCEPT !.at = "free", !.clients = k.clients + 1,
                              !.running = [k.running EXCEPT ![c] = k.running[c] + 1], !.missed = FALSE]
      <4>1. k = IF c \in hal.tracked THEN [hal EXCEPT !.starts[c] = @ + 1]
                ELSE [hal EXCEPT !.untracked = @ + 1]
        BY Zenon, <2>2, <3>1
      <4>2. Started(c) = [k EXCEPT !.at = "free", !.clients = @ + 1, !.running[c] = @ + 1]
        BY Zenon, <4>1 DEF Started
      <4> QED BY Zenon, <4>2
    <3> QED BY Zenon, <2>2, <3>1, <3>2 DEF PluginInv, HalShape
  <2> QED BY Zenon, <2>1, <2>2
<1>2. /\ hal.clients \in Nat /\ hal.clients <= MaxRunning /\ MaxRunning \in Nat
      /\ hal.running \in [Clients -> 0..MaxRunning] /\ hal.starts \in [Clients -> Nat]
      /\ hal.running[c] \in Nat /\ hal.starts[c] \in Nat /\ hal.starts[c] <= hal.running[c]
      /\ hal.running[c] <= hal.clients
      /\ Cardinality(Starts(hal.running)) \in Nat
      /\ Cardinality(Starts(hal.running)) <= hal.clients
  BY Zenon, AccountsOf
<1>3. /\ hal.running[c] < MaxRunning /\ hal.running[c] + 1 \in 0..MaxRunning
      /\ hal.starts[c] + 1 \in Nat /\ hal.starts[c] + 1 <= hal.running[c] + 1
      /\ hal.starts[c] <= hal.running[c] + 1
      /\ hal.clients + 1 \in 0..MaxRunning /\ hal.clients + 1 > 0
  BY <1>2
<1>4. Cardinality(Starts(raised)) <= Cardinality(Starts(hal.running)) + 1
  BY Zenon, <1>2, <1>3, StartsRaised
<1>5. Cardinality(Starts(raised)) <= hal.clients + 1
  BY <1>2, <1>4, StartsFinite
<1>6. /\ raised \in [Clients -> 0..MaxRunning] /\ booked \in [Clients -> Nat]
      /\ raised[c] = hal.running[c] + 1 /\ booked[c] = hal.starts[c] + 1
      /\ \A d \in Clients : d # c => raised[d] = hal.running[d] /\ booked[d] = hal.starts[d]
  BY Zenon, <1>2, <1>3
<1> HIDE DEF raised, booked
<1>7. \A d \in Clients : hal'.starts[d] <= hal'.running[d]
  <2>1. \A d \in Clients : hal.starts[d] <= hal.running[d]
    BY Zenon DEF PluginInv, Accounts
  <2>2. \A d \in Clients : booked[d] <= raised[d] /\ hal.starts[d] <= raised[d]
    <3> SUFFICES ASSUME NEW d \in Clients PROVE booked[d] <= raised[d] /\ hal.starts[d] <= raised[d]
      BY Zenon
    <3>1. CASE d = c
      BY Zenon, <1>3, <1>6, <3>1
    <3>2. CASE d # c
      BY Zenon, <1>6, <2>1, <3>2
    <3> QED BY Zenon, <3>1, <3>2
  <2> QED BY Zenon, <1>1, <2>2
<1>8. ASSUME NEW d \in Clients \ hal'.tracked PROVE hal'.starts[d] = 0
  <2>1. d \in Clients /\ d \notin hal.tracked /\ hal.starts[d] = 0
    BY Zenon, <1>1 DEF PluginInv, Accounts
  <2>2. CASE c \in hal.tracked /\ hal'.starts = booked
    <3>1. booked[d] = 0
      BY Zenon, <1>6, <2>1, <2>2
    <3> QED BY Zenon, <2>2, <3>1
  <2>3. CASE hal'.starts = hal.starts
    BY Zenon, <2>1, <2>3
  <2> QED BY Zenon, <1>1, <2>2, <2>3
<1> QED BY Zenon, <1>1, <1>2, <1>3, <1>5, <1>6, <1>7, <1>8 DEF Accounts, Running

\* stop_io and remove_client.
LEMMA StopIOInv ==
  ASSUME PluginInv, UNCHANGED call, NEW c \in Clients, StopIO(c)
  PROVE  PluginInv'
<1> DEFINE lowered == [hal.running EXCEPT ![c] = hal.running[c] - 1]
           paid    == [hal.starts EXCEPT ![c] = hal.starts[c] - 1]
           stopped == [hal EXCEPT !.running = lowered]
           after   == IF hal.clients = 0 THEN stopped
                      ELSE IF c \in hal.tracked /\ hal.starts[c] > 0
                      THEN [stopped EXCEPT !.starts = [stopped.starts EXCEPT ![c] = stopped.starts[c] - 1],
                                           !.clients = stopped.clients - 1]
                      ELSE IF hal.untracked > 0
                      THEN [stopped EXCEPT !.untracked = stopped.untracked - 1,
                                           !.clients = stopped.clients - 1]
                      ELSE stopped
<1>1. hal.at = "free" /\ hal.running[c] > 0 /\ UNCHANGED <<alive, service, client>> /\ GoesIdle(hal, after)
  BY Zenon DEF StopIO, Unchanged
<1>2. /\ hal.clients \in Nat /\ hal.clients <= MaxRunning /\ MaxRunning \in Nat
      /\ hal.running \in [Clients -> 0..MaxRunning] /\ hal.starts \in [Clients -> Nat]
      /\ hal.running[c] \in Nat /\ hal.starts[c] \in Nat /\ hal.starts[c] <= hal.running[c]
      /\ hal.running[c] <= hal.clients
      /\ Cardinality(Starts(hal.running)) \in Nat
      /\ Cardinality(Starts(hal.running)) <= hal.clients
  BY Zenon, AccountsOf
<1>3. /\ hal.running[c] - 1 \in 0..hal.running[c] /\ hal.running[c] - 1 \in 0..MaxRunning
      /\ hal.running[c] - (hal.running[c] - 1) = 1
      /\ hal.clients \in 0..hal.clients /\ hal.clients - 1 \in 0..hal.clients /\ hal.clients # 0
      /\ hal.starts[c] > 0 => hal.starts[c] - 1 \in Nat /\ hal.starts[c] - 1 <= hal.running[c] - 1
      /\ ~(hal.starts[c] > 0) => hal.starts[c] = 0 /\ hal.starts[c] <= hal.running[c] - 1
  BY <1>1, <1>2
<1>4. Cardinality(Starts(lowered)) + (hal.running[c] - (hal.running[c] - 1)) <= Cardinality(Starts(hal.running))
  BY Zenon, <1>2, <1>3, StartsLowered
<1>5. Cardinality(Starts(lowered)) <= hal.clients /\ Cardinality(Starts(lowered)) <= hal.clients - 1
  BY <1>2, <1>3, <1>4, StartsFinite
<1>6. /\ lowered \in [Clients -> 0..MaxRunning] /\ lowered[c] = hal.running[c] - 1
      /\ \A d \in Clients : d # c => lowered[d] = hal.running[d] /\ paid[d] = hal.starts[d]
      /\ paid[c] = hal.starts[c] - 1
      /\ hal.starts[c] > 0 => paid \in [Clients -> Nat]
  BY Zenon, <1>2, <1>3
<1>7. /\ HalShape /\ \A d \in Clients : hal.starts[d] <= hal.running[d]
      /\ \A d \in Clients \ hal.tracked : hal.starts[d] = 0
  BY Zenon DEF PluginInv, Accounts
<1>8. PICK s : s = stopped
  BY Zenon
<1>9. /\ s.running = lowered /\ s.starts = hal.starts /\ s.clients = hal.clients /\ s.tracked = hal.tracked
      /\ s.at = hal.at /\ s.ready = hal.ready /\ s.missed = hal.missed
      /\ s.buffer = hal.buffer /\ s.setting = hal.setting /\ DOMAIN s = DOMAIN hal
  BY Zenon, <1>7, <1>8 DEF HalShape
<1>10. PICK a : a = after
  BY Zenon
<1>11. \/ /\ c \in hal.tracked /\ hal.starts[c] > 0
          /\ a = [s EXCEPT !.starts = [s.starts EXCEPT ![c] = s.starts[c] - 1], !.clients = s.clients - 1]
       \/ /\ ~(c \in hal.tracked /\ hal.starts[c] > 0)
          /\ a = s \/ a = [s EXCEPT !.untracked = s.untracked - 1, !.clients = s.clients - 1]
  BY Zenon, <1>3, <1>8, <1>10
<1> HIDE DEF lowered, paid, stopped, after
<1>12. DOMAIN a = DOMAIN hal /\ a.buffer = hal.buffer /\ a.setting = hal.setting /\ a.at = hal.at
       /\ a.ready = hal.ready /\ a.missed = hal.missed /\ a.running = lowered /\ a.tracked = hal.tracked
  BY Zenon, <1>7, <1>9, <1>11 DEF HalShape
<1>13. a.clients = hal.clients \/ a.clients = hal.clients - 1
  BY Zenon, <1>7, <1>9, <1>11 DEF HalShape
<1>14. \/ c \in hal.tracked /\ hal.starts[c] > 0 /\ a.starts = paid
       \/ ~(c \in hal.tracked /\ hal.starts[c] > 0) /\ a.starts = hal.starts
  BY Zenon, <1>7, <1>9, <1>11 DEF HalShape, paid
<1>15. c \notin hal.tracked => hal.starts[c] = 0
  BY Zenon, <1>7
<1>16. ASSUME NEW d \in Clients PROVE a.starts[d] <= a.running[d]
  <2>1. CASE d = c
    <3>1. hal.starts[c] > 0 => c \in hal.tracked
      BY <1>15, <1>2
    <3> QED BY Zenon, <1>3, <1>6, <1>12, <1>14, <2>1, <3>1
  <2>2. CASE d # c
    BY Zenon, <1>6, <1>7, <1>12, <1>14, <2>2
  <2> QED BY Zenon, <2>1, <2>2
<1>17. ASSUME NEW d \in Clients \ a.tracked PROVE a.starts[d] = 0
  <2>1. d \in Clients /\ d \notin hal.tracked /\ hal.starts[d] = 0
    BY Zenon, <1>7, <1>12
  <2>2. CASE c \in hal.tracked /\ a.starts = paid
    <3>1. paid[d] = 0
      BY Zenon, <1>6, <2>1, <2>2
    <3> QED BY Zenon, <2>2, <3>1
  <2>3. CASE a.starts = hal.starts
    BY Zenon, <2>1, <2>3
  <2> QED BY Zenon, <1>14, <2>2, <2>3
<1>18. a.clients \in 0..hal.clients /\ Cardinality(Starts(a.running)) <= a.clients
  BY Zenon, <1>3, <1>5, <1>12, <1>13
<1>19. a.running \in [Clients -> 0..MaxRunning] /\ a.starts \in [Clients -> Nat]
  BY Zenon, <1>2, <1>6, <1>12, <1>14
<1>20. LeftBehind(a)
  BY Zenon, <1>1, <1>7, <1>12, <1>16, <1>17, <1>18, <1>19 DEF LeftBehind, HalShape
<1> QED BY Zenon, <1>1, <1>10, <1>20, GoesIdleInv

LEMMA RemoveClientInv ==
  ASSUME PluginInv, UNCHANGED call, NEW c \in Clients, RemoveClient(c)
  PROVE  PluginInv'
<1> DEFINE lowered == [hal.running EXCEPT ![c] = 0]
           paid    == [hal.starts EXCEPT ![c] = 0]
           left    == IF hal.clients >= hal.starts[c] THEN hal.clients - hal.starts[c] ELSE 0
           after   == [hal EXCEPT !.tracked = @ \ {c}, !.starts = paid, !.running = lowered, !.clients = left]
<1>1. hal.at = "free" /\ UNCHANGED <<alive, service, client>> /\ GoesIdle(hal, after)
  BY Zenon DEF RemoveClient, Unchanged
<1>2. /\ hal.clients \in Nat /\ hal.clients <= MaxRunning /\ MaxRunning \in Nat
      /\ hal.running \in [Clients -> 0..MaxRunning] /\ hal.starts \in [Clients -> Nat]
      /\ hal.running[c] \in Nat /\ hal.starts[c] \in Nat /\ hal.starts[c] <= hal.running[c]
      /\ hal.running[c] <= hal.clients
      /\ Cardinality(Starts(hal.running)) \in Nat
      /\ Cardinality(Starts(hal.running)) <= hal.clients
  BY Zenon, AccountsOf
<1>3. /\ 0 \in 0..hal.running[c] /\ 0 \in 0..MaxRunning /\ 0 \in Nat /\ 0 <= 0
      /\ left = hal.clients - hal.starts[c] /\ left \in 0..hal.clients
  BY <1>2
<1>4. Cardinality(Starts(lowered)) + (hal.running[c] - 0) <= Cardinality(Starts(hal.running))
  BY Zenon, <1>2, <1>3, StartsLowered
<1> HIDE DEF left
<1>5. Cardinality(Starts(lowered)) <= left
  BY <1>2, <1>3, <1>4, StartsFinite
<1>6. /\ lowered \in [Clients -> 0..MaxRunning] /\ lowered[c] = 0
      /\ \A d \in Clients : d # c => lowered[d] = hal.running[d] /\ paid[d] = hal.starts[d]
      /\ paid[c] = 0 /\ paid \in [Clients -> Nat]
  BY Zenon, <1>2, <1>3
<1>7. /\ HalShape /\ \A d \in Clients : hal.starts[d] <= hal.running[d]
      /\ \A d \in Clients \ hal.tracked : hal.starts[d] = 0
  BY Zenon DEF PluginInv, Accounts
<1>8. PICK a : a = after
  BY Zenon
<1> HIDE DEF lowered, paid
<1>9. /\ a.running = lowered /\ a.starts = paid /\ a.clients = left /\ a.tracked = hal.tracked \ {c}
      /\ a.at = hal.at /\ a.ready = hal.ready /\ a.missed = hal.missed
      /\ a.buffer = hal.buffer /\ a.setting = hal.setting /\ DOMAIN a = DOMAIN hal
  BY Zenon, <1>7, <1>8 DEF HalShape
<1> HIDE DEF after
<1>10. \A d \in Clients : a.starts[d] <= a.running[d]
  BY Zenon, <1>3, <1>6, <1>7, <1>9
<1>11. ASSUME NEW d \in Clients \ a.tracked PROVE a.starts[d] = 0
  BY Zenon, <1>6, <1>7, <1>9
<1>12. LeftBehind(a)
  BY Zenon, <1>1, <1>3, <1>5, <1>6, <1>7, <1>9, <1>10, <1>11 DEF LeftBehind, HalShape
<1> QED BY Zenon, <1>1, <1>8, <1>12, GoesIdleInv

\* One more start is counted, with dev told the activity or known to be active.
LEMMA StartedInv ==
  ASSUME PluginInv, UNCHANGED <<alive, service, call, client, port>>, NEW c \in Clients,
         hal.clients < MaxRunning,
         \/ hal' = Started(c) /\ answer' = answer /\ hal.at = "free" /\ Running
         \/ /\ hal' = [Started(c) EXCEPT !.missed = FALSE]
            /\ Succeeded(Plugin) /\ Forget(Plugin) /\ hal.at = "start"
  PROVE  PluginInv'
<1>1. /\ HalShape' /\ Accounts' /\ Running' /\ hal'.at = "free" /\ hal'.ready = hal.ready
      /\ hal'.missed => hal.missed
  BY Zenon, StartedBooks
<1>2. HandleIds' /\ client' \in [Handles -> ClientValue] /\ AtRest' /\ ~Starting'
  BY Zenon, <1>1, HandlesKept DEF AtRest, Starting
<1>3. CASE hal' = Started(c) /\ answer' = answer /\ hal.at = "free" /\ Running
  <2>1. hal'.missed = hal.missed
    <3>1. CASE c \in hal.tracked
      BY Zenon, <1>3, <3>1 DEF Started, PluginInv, HalShape
    <3>2. CASE c \notin hal.tracked
      BY Zenon, <1>3, <3>2 DEF Started, PluginInv, HalShape
    <3> QED BY Zenon, <3>1, <3>2
  <2>2. (Settled' => Settled) /\ AtRest /\ answer[Plugin].state # "waiting"
    BY Zenon, <1>1, <1>3, <2>1 DEF Settled, AtRest, PluginInv, UnderLock
  <2>3. Settled' => /\ Settled /\ client'["dev"] = client["dev"]
                    /\ client["dev"].session # 0 => (Running' <=> Running)
    BY Zenon, <1>1, <1>3, <2>2
  <2> QED BY Zenon, <1>1, <1>2, <1>3, <2>2, <2>3, RestingInv
<1>4. CASE Succeeded(Plugin) /\ Forget(Plugin) /\ hal.at = "start"
  <2>1. LeaseIs("dev", TRUE) /\ answer[Plugin].state # "waiting"
    BY Zenon, <1>4, Trios DEF PluginInv, Answered, Telling, Succeeded
  <2>2. LeaseIs("dev", Running)'
    BY Zenon, <1>1, <2>1 DEF LeaseIs
  <2> QED BY Zenon, <1>1, <1>2, <1>4, <2>1, <2>2, RestingInv
<1> QED BY Zenon, <1>3, <1>4

\* start_io begins: the first client activates, a later one may re-prime.
LEMMA StartIOInv ==
  ASSUME PluginInv, UNCHANGED call, NEW c \in Clients, StartIO(c)
  PROVE  PluginInv'
<1>1. /\ UNCHANGED <<alive, service, client>> /\ hal.at = "free" /\ AtRest /\ hal.clients < MaxRunning
      /\ "active" \in Kinds
  BY Zenon DEF StartIO, Unchanged, AtRest, Kinds
<1>2. answer[Plugin].state # "waiting"
  BY Zenon, <1>1 DEF PluginInv, UnderLock
<1>3. ASSUME NEW value \in {0, 1}, NEW at \in {"start", "reprime"}, at = "start" <=> value = 1,
             SendControl("active", "dev", value), hal' = [hal EXCEPT !.at = at, !.who = c]
      PROVE  PluginInv'
  <2>1. Turned(at) /\ hal'.who = c
    BY Zenon, <1>3 DEF PluginInv, HalShape, Turned
  <2>2. HalShape' /\ hal'.at = at /\ Accounts' /\ hal'.clients = hal.clients
    BY Zenon, <2>1, TurnedBooks DEF Turned
  <2>3. ~AtRest' /\ ~Starting' /\ ~Settled' /\ hal'.at \notin {"hello", "stop"}
    BY Zenon, <2>2 DEF AtRest, Starting, Settled
  <2>4. \A g \in Trio, active \in BOOLEAN : Telling(g, active)' => g = "dev" /\ (value # 0 <=> active)
    BY Zenon, <1>3, <2>2, Values DEF Telling
  <2>5. value \in Nat \union Buffers
    BY Zenon, Values
  <2>6. hal'.clients < MaxRunning /\ hal'.who \in Clients
    BY Zenon, <1>1, <2>1, <2>2
  <2>7. HalShape' /\ Accounts' /\ "dev" \in Trio /\ UNCHANGED <<alive, service, call, client>>
    BY Zenon, <1>1, <2>2, Trios
  <2>8. \A g \in Trio, active \in BOOLEAN :
          Telling(g, active)' => "active" = "active" /\ g = "dev" /\ (value # 0 <=> active)
    BY Zenon, <2>4
  <2>9. hal'.at \in {"start", "reprime"} => hal'.clients < MaxRunning /\ hal'.who \in Clients
    BY Zenon, <2>6
  <2>10. hal'.at # "hello" /\ (hal'.at = "stop" => hal'.clients = 0)
    BY Zenon, <2>3
  <2> QED BY ZenonT(60), <1>1, <1>2, <1>3, <2>3, <2>5, <2>7, <2>8, <2>9, <2>10, ControlSentInv
<1>4. CASE hal.clients = 0
  BY Zenon, <1>3, <1>4 DEF StartIO
<1>5. CASE hal.clients # 0
  <2>1. Running
    BY <1>5, AccountsOf DEF Running
  <2>2. \/ hal' = Started(c) /\ UNCHANGED <<port, answer>>
        \/ SendControl("active", "dev", 0) /\ hal' = [hal EXCEPT !.at = "reprime", !.who = c]
    BY Zenon, <1>5 DEF StartIO
  <2>3. 0 \in {0, 1} /\ ~(0 = 1) /\ ~("reprime" = "start")
    OBVIOUS
  <2> QED BY Zenon, <1>1, <1>3, <2>1, <2>2, <2>3, StartedInv
<1> QED BY Zenon, <1>4, <1>5

\* ... and goes on when it is answered.
LEMMA StartAnsweredInv ==
  ASSUME PluginInv, UNCHANGED call, StartIOReprimed \/ StartIOActivated
  PROVE  PluginInv'
<1>1. UNCHANGED <<alive, service, client>> /\ Returned(Plugin) /\ hal.at \in {"reprime", "start"}
  BY Zenon DEF StartIOReprimed, StartIOActivated, Unchanged, Stay, AnswerAt
<1>2. /\ answer[Plugin].state # "waiting" /\ "active" \in Kinds
      /\ hal.clients < MaxRunning /\ hal.who \in Clients
  BY Zenon, <1>1 DEF PluginInv, UnderLock, Returned, Kinds
<1>3. ASSUME hal' = [hal EXCEPT !.at = "free", !.missed = TRUE], Forget(Plugin), UNCHANGED port
      PROVE  PluginInv'
  <2>1. Turned("free") /\ hal'.missed
    BY Zenon, <1>3 DEF PluginInv, HalShape, Turned
  <2>2. ~Settled'
    BY Zenon, <2>1 DEF Turned, Settled
  <2> QED BY Zenon, <1>1, <1>3, <2>1, <2>2, RestedInv
<1>4. CASE StartIOReprimed /\ Ok
  <2>1. SendControl("active", "dev", 1) /\ Then("start")
    BY Zenon, <1>4 DEF StartIOReprimed
  <2>2. Turned("start") /\ hal'.who = hal.who
    BY Zenon, <2>1, ThenTurns
  <2>3. HalShape' /\ hal'.at = "start" /\ Accounts' /\ hal'.clients = hal.clients
    BY Zenon, <2>2, TurnedBooks DEF Turned
  <2>4. ~AtRest' /\ ~Starting' /\ ~Settled' /\ hal'.at \notin {"hello", "stop"}
    BY Zenon, <2>3 DEF AtRest, Starting, Settled
  <2>5. \A g \in Trio, active \in BOOLEAN : Telling(g, active)' => g = "dev" /\ (1 # 0 <=> active)
    BY Zenon, <2>3, Values DEF Telling
  <2>6. hal'.clients < MaxRunning /\ hal'.who \in Clients
    BY Zenon, <1>2, <2>2, <2>3
  <2>7. 1 \in Nat \union Buffers
    BY Zenon, Values
  <2>8. HalShape' /\ Accounts' /\ "dev" \in Trio /\ UNCHANGED <<alive, service, call, client>>
    BY Zenon, <1>1, <2>3, Trios
  <2>9. hal'.at \in {"start", "reprime"} => hal'.clients < MaxRunning /\ hal'.who \in Clients
    BY Zenon, <2>6
  <2>10. hal'.at # "hello" /\ (hal'.at = "stop" => hal'.clients = 0)
    BY Zenon, <2>4
  <2> QED BY ZenonT(60), <1>2, <2>1, <2>4, <2>5, <2>7, <2>8, <2>9, <2>10, ControlSentInv
<1>5. CASE StartIOReprimed /\ ~Ok
  BY Zenon, <1>3, <1>5 DEF StartIOReprimed
<1>6. CASE StartIOActivated /\ Ok
  <2>1. /\ hal' = [Started(hal.who) EXCEPT !.missed = FALSE] /\ Succeeded(Plugin) /\ Forget(Plugin)
        /\ UNCHANGED port /\ hal.at = "start"
    BY Zenon, <1>6 DEF StartIOActivated, Stay, Ok, AnswerAt
  <2>2. PICK c \in Clients : c = hal.who
    BY Zenon, <1>2
  <2> QED BY Zenon, <1>1, <1>2, <2>1, <2>2, StartedInv
<1>7. CASE StartIOActivated /\ ~Ok
  BY Zenon, <1>3, <1>7 DEF StartIOActivated, Stay
<1> QED BY Zenon, <1>4, <1>5, <1>6, <1>7

-----------------------------------------------------------------------------
(* All the steps                                                           *)

LEMMA HalStepPlugin ==
  ASSUME PluginInv, UNCHANGED call, HalStep \/ HalWait \/ MonitorPoll
  PROVE  PluginInv'
BY Zenon, InitializeInv, MonitorPollInv, MonitorReadyInv, MonitorReplacesInv, MonitorDropsInv,
   StartAnsweredInv, IdleAnsweredInv, SetBufferInv DEF HalStep, HalWait

LEMMA CallsPlugin ==
  ASSUME PluginInv, UNCHANGED call, NEW c \in Clients, CoreAudioCalls(c)
  PROVE  PluginInv'
BY Zenon, AddClientInv, StartIOInv, StopIOInv, RemoveClientInv DEF CoreAudioCalls

LEMMA HalKeptPlugin ==
  ASSUME PluginInv, UNCHANGED <<alive, service, port, answer, client, call, hal>>
  PROVE  PluginInv'
<1>1. HalShape'
  BY Zenon DEF PluginInv, HalShape
<1> QED BY Zenon, <1>1, KeptInv

LEMMA PartsNextInv == PartsInv /\ [Next]_vars => PartsInv'
<1> SUFFICES ASSUME PartsInv, [Next]_vars PROVE PartsInv'
  BY Zenon
<1> USE DEF helperSide, halSide
<1>1. part' = part
  BY Zenon DEF Next, vars, ServiceRuns, ServiceStarts, ServiceCrashes, HelpersRun, PluginRuns, PluginWaits,
     MonitorWakes, MonitorGivesUp, CoreAudioRuns, BufferChanges, CallbackRuns, Flush
<1>2. CASE part = "leases"
  <2>1. hal' = hal
    BY Zenon, <1>2 DEF Next, vars, ServiceRuns, ServiceStarts, ServiceCrashes, HelpersRun, PluginRuns,
       PluginWaits, MonitorWakes, MonitorGivesUp, CoreAudioRuns, BufferChanges, CallbackRuns, Flush,
       MappingFlush
  <2> QED BY Zenon, <1>1, <1>2, <2>1 DEF PartsInv
<1>3. CASE part # "leases"
  <2> SUFFICES PluginInv'
    BY Zenon, <1>1, <1>3 DEF PartsInv
  <2>1. PluginInv
    BY Zenon, <1>3 DEF PartsInv
  <2>2. CASE ServiceRuns
    BY Zenon, <2>1, <2>2, PluginServiceInv DEF ServiceRuns
  <2>3. CASE ServiceStarts \/ ServiceCrashes
    BY Zenon, <2>1, <2>3, PluginRestartInv DEF ServiceStarts, ServiceCrashes
  <2>4. CASE PluginRuns \/ PluginWaits \/ MonitorWakes
    BY Zenon, <2>1, <2>4, HalStepPlugin DEF PluginRuns, PluginWaits, MonitorWakes
  <2>5. CASE MonitorGivesUp
    BY Zenon, <2>1, <2>5, PluginTimesOutInv DEF MonitorGivesUp, PluginTimesOut
  <2>6. CASE CoreAudioRuns
    BY Zenon, <2>1, <2>6, CallsPlugin DEF CoreAudioRuns
  <2>7. CASE BufferChanges
    BY Zenon, <2>1, <2>7, SetBufferInv DEF BufferChanges
  <2>8. CASE CallbackRuns
    <3>1. ASSUME CallbackPin \/ CallbackStep, UNCHANGED call PROVE PluginInv'
      BY Zenon, <2>1, <3>1, HalKeptPlugin
         DEF CallbackPin, CallbackStep, CallbackLease, CallbackRelease, serviceVars
    <3> QED BY Zenon, <2>1, <2>8, <3>1, StartIOInv, StartAnsweredInv DEF CallbackRuns
  <2>9. CASE Flush
    BY Zenon, <2>1, <2>9, HalKeptPlugin DEF Flush, MappingFlush, serviceVars
  <2>10. CASE UNCHANGED vars
    BY Zenon, <2>1, <2>10, HalKeptPlugin DEF vars, serviceVars
  <2> QED
    BY Zenon, <1>3, <2>2, <2>3, <2>4, <2>5, <2>6, <2>7, <2>8, <2>9, <2>10 DEF Next, HelpersRun
<1> QED BY Zenon, <1>2, <1>3

LEMMA PartsInitInv == Init => PartsInv
<1> SUFFICES ASSUME Init PROVE PartsInv
  BY Zenon
<1>1. /\ port = <<>> /\ answer = [p \in Processes |-> Quiet] /\ service = ServiceDown
      /\ client = [h \in Handles |-> NoClient] /\ call = [p \in Helpers |-> "none"]
      /\ hal = [at |-> "init", ready |-> FALSE, clients |-> 0,
                tracked |-> {}, starts |-> [c \in Clients |-> 0], untracked |-> 0,
                running |-> [c \in Clients |-> 0], who |-> CHOOSE c \in Clients : TRUE,
                buffer |-> DefaultBuffer, setting |-> DefaultBuffer, missed |-> FALSE]
      /\ part # "leases" => alive = {Plugin}
  BY Zenon DEF Init, ServiceInit, ClientInit, HelpersInit, HalInit
<1>2. /\ hal.at = "init" /\ hal.clients = 0 /\ hal.tracked = {} /\ hal.starts = [c \in Clients |-> 0]
      /\ hal.running = [c \in Clients |-> 0] /\ HalShape
  BY Zenon, <1>1, ServiceAssumption DEF HalShape
<1> SUFFICES ASSUME part # "leases" PROVE PluginInv
  BY Zenon, <1>2 DEF PartsInv
<1>3. /\ NoRequest \in RequestValue /\ NoRequest.kind = "none" /\ ~NoRequest.expected
      /\ Quiet \in AnswerValue /\ Quiet.state = "idle"
      /\ NoClient \in ClientValue /\ NoClient.id = 0 /\ NoClient.session = 0
  BY DEF NoRequest, RequestValue, Pids, Quiet, AnswerValue, NoClient, ClientValue
<1>4. /\ service \in ServiceValue /\ service.request = NoRequest /\ service.leases = {} /\ ~service.up
      /\ service.at = "down"
  BY <1>1, <1>3, ServiceAssumption DEF ServiceDown, ServiceValue, Places
<1>5. /\ \A h \in Handles : client[h] = NoClient
      /\ answer[Plugin] = Quiet /\ \A r \in Requests : r = NoRequest
  <2>1. Requests = {NoRequest}
    BY <1>1, <1>4 DEF Requests
  <2> QED BY Zenon, <1>1, <2>1, HalAssumption
<1>6. Trio \subseteq Handles
  BY Zenon, HalAssumption DEF Trio
<1>7. LeaseTypeOK
  <2>1. port \in Seq(RequestValue)
    BY <1>1
  <2> QED BY Zenon, <1>1, <1>3, <1>4, <2>1 DEF LeaseTypeOK
<1>8. Alone
  BY Zenon, <1>1, <1>3, <1>4, <1>5 DEF Alone
<1>9. LastExpected
  <2>1. 1..Len(port) = {}
    BY <1>1
  <2> QED BY Zenon, <1>1, <1>3, <1>4, <1>5, <2>1 DEF LastExpected
<1>10. HandleIds
  BY Zenon, <1>2, <1>3, <1>5, <1>6 DEF HandleIds
<1>11. UnderLock /\ Unheard
  BY Zenon, <1>2, <1>3, <1>4, <1>5 DEF UnderLock, Unheard, Inactive
<1>12. Accounts
  <2>1. Starts([c \in Clients |-> 0]) = {}
    BY DEF Starts
  <2>2. Cardinality(Starts([c \in Clients |-> 0])) = 0
    BY Zenon, <2>1, FS_EmptySet
  <2>3. 0 \in 0..MaxRunning /\ 0 \in Nat /\ 0 <= 0
    BY HalAssumption
  <2> QED BY Zenon, <1>2, <2>2, <2>3 DEF Accounts
<1>13. \A r \in Requests : Wanted(r)
  BY Zenon, <1>3, <1>5 DEF Wanted
<1>14. Applied /\ Answered
  BY Zenon, <1>3, <1>4, <1>5 DEF Applied, Working, Answered, Succeeded
<1>15. ~Settled
  BY Zenon, <1>2 DEF Settled
<1> QED BY Zenon, <1>2, <1>7, <1>8, <1>9, <1>10, <1>11, <1>12, <1>13, <1>14, <1>15 DEF PluginInv

-----------------------------------------------------------------------------
(* The limits of the registry, the port and the reader count               *)

LEMMA RegistryWithin ==
  ASSUME RegistryInv, NEW leases \in SUBSET service.leases, service'.leases = leases,
         Len(port') <= QueueLimit, \A r \in Requests' : Named(r)
  PROVE  RegistryInv'
<1>1. IsFiniteSet(leases) /\ Cardinality(leases) <= Cardinality(service.leases)
      /\ Cardinality(leases) \in Nat /\ Cardinality(service.leases) \in Nat
  BY Zenon, FS_Subset, FS_CardinalityType DEF RegistryInv
<1>2. Cardinality(service.leases) <= MaxClients
  BY Zenon DEF RegistryInv
<1>3. Cardinality(leases) <= MaxClients
  BY <1>1, <1>2, ServiceAssumption
<1> QED BY Zenon, <1>1, <1>3 DEF RegistryInv, Named

\* A registry with some leases changed in place is no larger.
LEMMA RegistryChanged ==
  ASSUME RegistryInv, NEW f, service'.leases = {f[l] : l \in service.leases},
         \A l \in service.leases : f[l].id \in Ids /\ f[l].process \in Processes,
         Len(port') <= QueueLimit, \A r \in Requests' : Named(r)
  PROVE  RegistryInv'
<1> DEFINE leases == {f[l] : l \in service.leases}
           g == [l \in service.leases |-> f[l]]
<1>1. leases = {g[l] : l \in service.leases}
  BY Zenon
<1>2. g \in [service.leases -> leases] /\ \A k \in leases : \E l \in service.leases : g[l] = k
  BY Zenon
<1>3. g \in Surjection(service.leases, leases)
  BY Zenon, <1>2 DEF Surjection
<1>4. IsFiniteSet(leases) /\ Cardinality(leases) <= Cardinality(service.leases)
  BY Zenon, <1>3, FS_Surjection DEF RegistryInv
<1>5. Cardinality(leases) \in Nat /\ Cardinality(service.leases) \in Nat
      /\ Cardinality(service.leases) <= MaxClients
  BY Zenon, <1>4, FS_CardinalityType DEF RegistryInv
<1>6. Cardinality(leases) <= MaxClients
  BY <1>4, <1>5, ServiceAssumption
<1>7. \A k \in leases : k.id \in Ids /\ k.process \in Processes
  BY Zenon
<1> HIDE DEF leases, g
<1>8. service'.leases = leases
  BY Zenon DEF leases
<1> QED BY Zenon, <1>4, <1>6, <1>7, <1>8 DEF RegistryInv, Named

\* Every step of the service, on the queue and the registry.
LEMMA RegistryService ==
  ASSUME LeaseTypeOK, RegistryInv, ServiceStep
  PROVE  RegistryInv'
<1>1. /\ service \in ServiceValue /\ service.request \in RequestValue /\ port \in Seq(RequestValue)
      /\ service.leases \subseteq LeaseValue /\ NoRequest.kind # "hello"
  BY DEF LeaseTypeOK, ServiceValue, NoRequest
<1>2. Len(port) <= QueueLimit /\ (\A r \in Requests : Named(r)) /\ Named(NoRequest) /\ service.request \in Requests
  BY Zenon, <1>1 DEF RegistryInv, Named, Requests
<1>3. ASSUME UNCHANGED port, service'.request \in {service.request, NoRequest}
      PROVE  Len(port') <= QueueLimit /\ \A r \in Requests' : Named(r)
  BY Zenon, <1>2, <1>3 DEF Requests
<1>4. ASSUME UNCHANGED port, service'.request \in {service.request, NoRequest},
             service'.leases \subseteq service.leases
      PROVE  RegistryInv'
  <2>1. PICK leases \in SUBSET service.leases : leases = service'.leases
    BY Zenon, <1>4
  <2> QED BY Zenon, <1>3, <1>4, <2>1, RegistryWithin
<1>5. Handled.leases = service.leases /\ Handled.request = NoRequest
  BY <1>1 DEF Handled, ServiceValue
<1>6. CASE ServiceReceive
  <2>1. /\ service'.request = IF port = <<>> THEN NoRequest ELSE Head(port)
        /\ port' = IF port = <<>> THEN port ELSE Tail(port)
    BY <1>1, <1>6 DEF ServiceReceive, WithLeases, ServiceValue
  <2>2. service'.leases = service.leases \/ service'.leases = Reap(service.leases)
    BY <1>1, <1>6 DEF ServiceReceive, WithLeases, ServiceValue
  <2>3. PICK leases \in SUBSET service.leases : leases = service'.leases
    BY Zenon, <2>2 DEF Reap
  <2>4. Len(port') <= QueueLimit /\ \A r \in Requests' : r \in Requests \/ r = NoRequest
    BY <1>1, <1>2, <2>1, ServiceAssumption DEF Requests
  <2>5. \A r \in Requests' : Named(r)
    BY Zenon, <1>2, <2>4
  <2> QED BY Zenon, <2>3, <2>4, <2>5, RegistryWithin
<1>7. CASE ServiceCheckPause \/ ServiceStorePause \/ ServiceReply \/ HandleState \/ HandleUnknown
           \/ HandleStartupBuffer \/ ServiceRestart \/ ServiceStarted
  <2>1. /\ UNCHANGED port /\ service'.request \in {service.request, NoRequest}
        /\ service'.leases = service.leases
    <3>1. CASE ServiceReply \/ HandleState \/ HandleUnknown \/ ServiceStarted
      BY Zenon, <1>5, <3>1 DEF ServiceReply, HandleState, HandleUnknown, ServiceStarted
    <3>2. CASE ServiceCheckPause
      BY <1>1, <3>2 DEF ServiceCheckPause, ServiceValue
    <3>3. CASE ServiceStorePause
      BY <1>1, <3>3 DEF ServiceStorePause, ServiceValue
    <3>4. CASE HandleStartupBuffer
      BY <1>1, <3>4 DEF HandleStartupBuffer, ServiceValue
    <3>5. CASE ServiceRestart
      BY <1>1, <3>5 DEF ServiceRestart, ServiceValue
    <3> QED BY Zenon, <1>7, <3>1, <3>2, <3>3, <3>4, <3>5
  <2> QED BY Zenon, <1>4, <2>1
<1>8. CASE HandleRelease
  <2>1. /\ UNCHANGED port /\ service'.request = service.request
        /\ service'.leases = Detach(service.leases, service.request.id)
    BY <1>1, <1>8 DEF HandleRelease, WithLeases, ServiceValue
  <2> QED BY Zenon, <1>4, <2>1 DEF Detach
<1>9. CASE HandleAudioActive
  <2> DEFINE f == [l \in service.leases |->
                     IF l.id = service.request.id THEN [l EXCEPT !.active = service.request.value # 0] ELSE l]
  <2>1. /\ UNCHANGED port /\ service'.request = service.request
        /\ service'.leases = SetActive(service.leases, service.request.id, service.request.value # 0)
    BY <1>1, <1>9 DEF HandleAudioActive, WithLeases, ServiceValue
  <2>2. \A l \in service.leases : f[l].id \in Ids /\ f[l].process \in Processes
    BY <1>1 DEF RegistryInv, LeaseValue
  <2>3. service'.leases = {f[l] : l \in service.leases}
    BY Zenon, <2>1 DEF SetActive
  <2>4. PICK g : g = f
    BY Zenon
  <2> HIDE DEF f
  <2> QED BY Zenon, <1>3, <2>1, <2>2, <2>3, <2>4, RegistryChanged
<1>10. CASE HandleHello
  <2> DEFINE id == service.request.id
             p == service.request.from
  <2>1. /\ UNCHANGED port /\ service'.request = NoRequest
        /\ \/ service'.leases = service.leases
           \/ /\ CanAttach(service.leases, id)
              /\ service'.leases = Attach(service.leases, id, p)
    BY <1>1, <1>10 DEF HandleHello, Handled, ServiceValue
  <2>2. id \in Ids /\ p \in Processes
    BY Zenon, <1>2, <1>10 DEF HandleHello, Handling, Named
  <2>3. CASE service'.leases = service.leases
    BY Zenon, <1>4, <2>1, <2>3
  <2>4. CASE service'.leases = Attach(service.leases, id, p) /\ Contains(service.leases, id)
    <3> DEFINE f == [l \in service.leases |-> IF l.id = id THEN [l EXCEPT !.process = p] ELSE l]
    <3>1. service'.leases = {f[l] : l \in service.leases}
      BY Zenon, <2>4 DEF Attach
    <3>2. \A l \in service.leases : f[l].id \in Ids /\ f[l].process \in Processes
      BY <1>1, <2>2 DEF RegistryInv, LeaseValue
    <3>3. PICK g : g = f
      BY Zenon
    <3> HIDE DEF f
    <3> QED BY Zenon, <1>3, <2>1, <3>1, <3>2, <3>3, RegistryChanged
  <2>5. CASE /\ service'.leases = Attach(service.leases, id, p) /\ ~Contains(service.leases, id)
             /\ CanAttach(service.leases, id)
    <3> DEFINE l == [id |-> id, process |-> p, active |-> FALSE]
    <3>1. service'.leases = service.leases \union {l} /\ Cardinality(service.leases) < MaxClients
      BY Zenon, <2>5 DEF Attach, CanAttach
    <3>2. l.id \in Ids /\ l.process \in Processes /\ l.id = id
      BY Zenon, <2>2
    <3>3. l \notin service.leases
      BY Zenon, <2>5, <3>2 DEF Contains
    <3>4. PICK k : k = l
      BY Zenon
    <3> HIDE DEF l
    <3>5. /\ IsFiniteSet(service.leases \union {k})
          /\ Cardinality(service.leases \union {k}) = Cardinality(service.leases) + 1
          /\ Cardinality(service.leases) \in Nat
      BY Zenon, <3>3, <3>4, FS_AddElement, FS_CardinalityType DEF RegistryInv
    <3>6. Cardinality(service.leases \union {k}) <= MaxClients
      BY <3>1, <3>5, ServiceAssumption
    <3>7. \A m \in service.leases \union {k} : m.id \in Ids /\ m.process \in Processes
      BY Zenon, <3>2, <3>4 DEF RegistryInv
    <3> QED BY Zenon, <1>3, <2>1, <3>1, <3>4, <3>5, <3>6, <3>7 DEF RegistryInv, Named
  <2> QED BY Zenon, <2>1, <2>3, <2>4, <2>5
<1> QED BY Zenon, <1>6, <1>7, <1>8, <1>9, <1>10 DEF ServiceStep

\* The process ends or starts: an empty registry.
LEMMA RegistryRestarts ==
  ASSUME LeaseTypeOK, RegistryInv, MainCrash \/ MainPublish
  PROVE  RegistryInv'
<1>1. /\ UNCHANGED port /\ service'.leases = {} /\ service'.request = NoRequest
  <2>1. CASE MainCrash
    BY Zenon, <2>1 DEF MainCrash, ProcessEnds, ServiceDown
  <2>2. CASE MainPublish
    <3>1. PICK session : service' = [ServiceDown EXCEPT !.up = TRUE, !.session = session, !.at = "receive"]
      BY Zenon, <2>2 DEF MainPublish, Publish
    <3>2. service'.leases = {} /\ service'.request = NoRequest
      BY Zenon, <3>1 DEF ServiceDown
    <3> QED BY Zenon, <2>2, <3>2 DEF MainPublish, Publish
  <2> QED BY Zenon, <2>1, <2>2
<1>2. NoRequest.kind # "hello" /\ \A r \in Requests' : r \in Requests \/ r = NoRequest
  BY <1>1 DEF NoRequest, Requests
<1>3. \A r \in Requests' : Named(r)
  BY Zenon, <1>2 DEF RegistryInv, Named
<1>4. Len(port') <= QueueLimit /\ {} \in SUBSET service.leases
  BY Zenon, <1>1 DEF RegistryInv
<1> QED BY Zenon, <1>1, <1>3, <1>4, RegistryWithin

LEMMA RegistryNextInv == HelpersInv /\ PartsInv /\ RegistryInv /\ [Next]_vars => RegistryInv'
<1> SUFFICES ASSUME HelpersInv, PartsInv, RegistryInv, [Next]_vars PROVE RegistryInv'
  BY Zenon
<1>1. LeaseTypeOK
  BY Zenon DEF HelpersInv, LeaseInv, PartsInv, PluginInv
<1>2. CASE ServiceRuns
  BY Zenon, <1>1, <1>2, RegistryService DEF ServiceRuns
<1>3. CASE ServiceStarts \/ ServiceCrashes
  BY Zenon, <1>1, <1>3, RegistryRestarts DEF ServiceStarts, ServiceCrashes
<1>4. CASE HelpersRun
  BY Zenon, <1>1, <1>4, RegistryHelpers DEF HelpersRun
<1>5. CASE PluginRuns \/ PluginWaits \/ MonitorWakes \/ CoreAudioRuns
  BY Zenon, <1>1, <1>5, PluginMoves, RegistryPort DEF PluginRuns, PluginWaits, MonitorWakes, CoreAudioRuns
<1>6. CASE MonitorGivesUp
  BY Zenon, <1>1, <1>6, RegistryAbandoned DEF MonitorGivesUp, PluginTimesOut, ExchangeTimesOut
<1>7. UNCHANGED <<port, service>> => PortMoves
  BY Zenon DEF PortMoves
<1>8. CASE BufferChanges
  BY Zenon, <1>1, <1>7, <1>8, PluginMoves, RegistryPort DEF BufferChanges, SetBufferStored, serviceVars
<1>9. CASE CallbackRuns
  <2>1. CASE CallbackPin \/ CallbackStep
    BY Zenon, <1>1, <1>7, <2>1, RegistryPort
       DEF CallbackPin, CallbackStep, CallbackLease, CallbackRelease, serviceVars
  <2> QED BY Zenon, <1>1, <1>9, <2>1, PluginMoves, RegistryPort DEF CallbackRuns, HalStep, CoreAudioCalls
<1>10. CASE Flush \/ UNCHANGED vars
  BY Zenon, <1>1, <1>7, <1>10, RegistryPort DEF Flush, MappingFlush, serviceVars, vars
<1> QED BY Zenon, <1>2, <1>3, <1>4, <1>5, <1>6, <1>8, <1>9, <1>10 DEF Next

LEMMA RegistryInitInv == Init => RegistryInv
<1> SUFFICES ASSUME Init PROVE RegistryInv
  BY Zenon
<1>1. port = <<>> /\ service.leases = {} /\ service.request = NoRequest
  BY Zenon DEF Init, ServiceInit, ServiceDown
<1>2. IsFiniteSet({}) /\ Cardinality({}) = 0
  BY Zenon, FS_EmptySet
<1>3. Cardinality(service.leases) <= MaxClients /\ IsFiniteSet(service.leases) /\ Len(port) <= QueueLimit
  BY <1>1, <1>2, ServiceAssumption
<1>4. \A r \in Requests : r.kind # "hello"
  BY <1>1 DEF Requests, NoRequest
<1> QED BY Zenon, <1>1, <1>3, <1>4 DEF RegistryInv

\* Whenever stream_lock is free, the plug-in serves a session and none of its last
\* activations was lost, the service holds the plug-in's lease, active exactly when a
\* running client is counted, and every start CoreAudio runs is counted
\* (start_io, stop_io, remove_client, device_service_monitor and the registry of the
\* service, which stays within NS6_DEVICE_MAX_CLIENTS): through crashes and restarts
\* of the service, exchanges that time out, replaced handles and late requests.
THEOREM PluginLeaseFollowsClients == Spec => []LeaseFollowsClients
<1> DEFINE Inv == HelpersInv /\ PartsInv /\ RegistryInv /\ ReadersInv
<1>1. Init => Inv
  <2>1. Init => ReadersInv
    BY DEF Init, HalInit, ReadersInv
  <2> QED BY Zenon, <2>1, HelpersInitInv, PartsInitInv, RegistryInitInv
<1>2. Inv /\ [Next]_vars => Inv'
  BY Zenon, HelpersNextInv, PartsNextInv, RegistryNextInv, ReadersNextInv
<1>3. Inv => LeaseFollowsClients
  <2> SUFFICES ASSUME HelpersInv, PartsInv, RegistryInv, ReadersInv PROVE LeaseFollowsClients
    BY Zenon
  <2>1. LeaseTypeOK
    BY Zenon DEF HelpersInv, LeaseInv, PartsInv, PluginInv
  <2>2. \A l \in service.leases : l.active \in BOOLEAN
    BY Zenon, <2>1 DEF LeaseTypeOK, ServiceValue, LeaseValue
  <2>3. mapping.readers \in 0..1
    BY DEF ReadersInv
  <2>4. hal.clients \in 0..MaxRunning
    <3>1. 0 \in 0..MaxRunning
      BY HalAssumption
    <3> QED BY Zenon, <3>1 DEF PartsInv, PluginInv, Accounts
  <2>5. SystemTypeOK
    BY Zenon, <2>2, <2>3, <2>4 DEF RegistryInv, SystemTypeOK
  <2>6. ASSUME hal.at = "free", hal.ready, ~hal.missed, service.up, client["dev"].session = service.session
        PROVE  /\ \E l \in service.leases : l.id = client["dev"].id /\ l.active = (hal.clients > 0)
               /\ hal.clients >= AllRunning
    <3>1. PluginInv
      BY Zenon, <2>6 DEF PartsInv
    <3>2. Settled
      BY Zenon, <2>6 DEF Settled
    <3>3. PICK l \in service.leases : l.id = client["dev"].id /\ (l.active <=> Running)
      BY Zenon, <2>6, <3>1, <3>2 DEF PluginInv, LeaseIs
    <3>4. l.active = (hal.clients > 0)
      BY <2>2, <3>3 DEF Running
    <3>5. hal.clients >= Cardinality(Starts(hal.running))
      <4>1. Cardinality(Starts(hal.running)) <= hal.clients /\ hal.clients \in 0..MaxRunning
        BY Zenon, <3>1 DEF PluginInv, Accounts
      <4> QED BY <4>1, StartsFinite
    <3>6. AllRunning = Cardinality(Starts(hal.running))
      BY Zenon DEF AllRunning, RunningStarts, Starts
    <3> QED BY Zenon, <3>3, <3>4, <3>5, <3>6
  <2> QED BY Zenon, <2>5, <2>6 DEF LeaseFollowsClients
<1> QED BY <1>1, <1>2, <1>3, PTL DEF Spec
=============================================================================
