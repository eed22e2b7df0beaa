-------------------------- MODULE LifecyclesProofs --------------------------
(***************************************************************************)
(* Proofs about the USB session, its activation and the output worker, for *)
(* every set of controllers, every number of attempts, of reads and of     *)
(* transfer slots.                                                         *)
(*                                                                         *)
(* open() fills the members of the session one call at a time, so the      *)
(* promise it makes when it returns is inductive only together with what   *)
(* each call finds: which members are set at each of its points, and that  *)
(* what the process keeps is exactly what the members record.              *)
(***************************************************************************)
EXTENDS Lifecycles, FiniteSetTheorems, WellFoundedInduction, TLAPS

-----------------------------------------------------------------------------
(* NS6DeviceSession                                                        *)

Empty(n) == member[n] = NoInterface

\* An interface of the device open() matched first, before it is claimed, and once
\* it has its pipes and its event source.
Unclaimed(n) ==
  member[n].device = matched /\ ~member[n].opened /\ ~member[n].source

Claimed(n) == member[n].device = matched /\ member[n].opened /\ ~member[n].source

Ready(n, d) ==
  /\ member[n].device = d /\ member[n].opened /\ member[n].source
  /\ Needed(n) \subseteq member[n].pipes

\* What the process keeps is what the members record.
KeptIsRecorded ==
  \A n \in Numbers : kept[n] = [objects |-> Count(member[n].device # NoDevice),
                                claims |-> Count(member[n].opened),
                                sources |-> Count(member[n].source)]

\* The members at each point of open().
OpenStage ==
  \/ /\ sessionPc \in {Idle, <<"match", 0>>, <<"configure", 0>>}
     /\ Empty(0) /\ Empty(1) /\ id = NoDevice /\ matched = NoDevice
  \/ sessionPc = Idle /\ id \in Devices /\ Ready(0, id) /\ Ready(1, id) /\ matched = NoDevice
  \/ /\ matched \in Devices /\ id = NoDevice
     /\ \/ sessionPc = <<"seize", 0>> /\ Unclaimed(0) /\ Empty(1)
        \/ sessionPc = <<"endpoints", 0>> /\ Claimed(0) /\ Empty(1)
        \/ sessionPc = <<"source", 0>> /\ Claimed(0) /\ Needed(0) \subseteq member[0].pipes /\ Empty(1)
        \/ sessionPc = <<"match", 1>> /\ Ready(0, matched) /\ Empty(1)
        \/ sessionPc = <<"seize", 1>> /\ Ready(0, matched) /\ Unclaimed(1)
        \/ sessionPc = <<"endpoints", 1>> /\ Ready(0, matched) /\ Claimed(1)
        \/ /\ sessionPc = <<"source", 1>> /\ Ready(0, matched)
           /\ Claimed(1) /\ Needed(1) \subseteq member[1].pipes

SessionInv == SessionTypeOK /\ KeptIsRecorded /\ OpenStage

LEMMA SessionInitInv == SessionInit => SessionInv
BY SessionAssumption DEF SessionInit, SessionInv, SessionTypeOK, KeptIsRecorded, OpenStage, Empty,
   NoInterface, NothingKept, Numbers, Count, Idle

\* close() gives back exactly what is kept, from whichever point of open() it is
\* called: nothing is left, and no counter goes below zero.
LEMMA ClosingLeavesNothing ==
  ASSUME SessionInv, CloseFrom(member, kept)
  PROVE  /\ member' = [n \in Numbers |-> NoInterface] /\ id' = NoDevice
         /\ kept' = [n \in Numbers |-> NothingKept]
<1>1. ASSUME NEW n \in Numbers
      PROVE  /\ kept[n].objects - Count(member[n].device # NoDevice) = 0
             /\ kept[n].claims - Count(member[n].opened) = 0
             /\ kept[n].sources - Count(member[n].source) = 0
  <2>1. kept[n] = [objects |-> Count(member[n].device # NoDevice),
                   claims |-> Count(member[n].opened), sources |-> Count(member[n].source)]
    BY Zenon DEF SessionInv, KeptIsRecorded, Count
  <2>2. member[n].opened \in BOOLEAN /\ member[n].source \in BOOLEAN
    BY Zenon DEF SessionInv, SessionTypeOK
  <2> QED BY <2>1, <2>2 DEF Count
<1>2. \A n \in Numbers : [objects |-> kept[n].objects - Count(member[n].device # NoDevice),
                          claims |-> kept[n].claims - Count(member[n].opened),
                          sources |-> kept[n].sources - Count(member[n].source)] = NothingKept
  BY ZenonT(90), <1>1 DEF NothingKept, Count
<1> QED BY Zenon, <1>2 DEF CloseFrom, Count

\* The session after close(), back at the start or on its way.
LEMMA NothingKeptInv ==
  ASSUME SessionInv, member' = [n \in Numbers |-> NoInterface], id' = NoDevice,
         kept' = [n \in Numbers |-> NothingKept], matched' = NoDevice, attempt' \in 0..MaxAttempts,
         sessionPc' = Idle, UNCHANGED <<bus, published>>
  PROVE  SessionInv'
BY SessionAssumption DEF SessionInv, SessionTypeOK, KeptIsRecorded, OpenStage, Empty, NoInterface,
   NothingKept, Numbers, Count, Idle

\* The types of what the session records and keeps.
SessionRecord ==
  [device : Devices \cup {NoDevice}, opened : BOOLEAN,
   pipes : SUBSET (AllPipes(0) \cup AllPipes(1)), source : BOOLEAN]
KeptRecord == [objects : 0..1, claims : 0..1, sources : 0..1]

\* matchingInterface() keeps the interface it returns, and records its device.
LEMMA FoundIsRecorded ==
  ASSUME SessionInv, NEW n \in Numbers, NEW d \in Devices, Empty(n), Found(n, d)
  PROVE  /\ member' \in [Numbers -> SessionRecord] /\ kept' \in [Numbers -> KeptRecord]
         /\ \A o \in Numbers \ {n} : member'[o] = member[o]
         /\ member'[n].device = d /\ ~member'[n].opened /\ ~member'[n].source
         /\ KeptIsRecorded'
<1>1. /\ member \in [Numbers -> SessionRecord] /\ kept \in [Numbers -> KeptRecord]
      /\ d # NoDevice
  BY Zenon, SessionAssumption DEF SessionInv, SessionTypeOK, SessionRecord, KeptRecord
<1>2. /\ member[n].device = NoDevice /\ ~member[n].opened /\ ~member[n].source
  BY DEF Empty, NoInterface
<1>3. kept[n] = [objects |-> 0, claims |-> 0, sources |-> 0]
  BY Zenon, <1>2 DEF SessionInv, KeptIsRecorded, Count
<1>4. member' = [member EXCEPT ![n].device = d] /\ kept' = [kept EXCEPT ![n].objects = @ + 1]
  BY Zenon DEF Found
<1>5. /\ member' \in [Numbers -> SessionRecord]
      /\ \A o \in Numbers \ {n} : member'[o] = member[o]
      /\ member'[n].device = d /\ ~member'[n].opened /\ ~member'[n].source
  BY SMTT(60), <1>1, <1>2, <1>4 DEF SessionRecord
<1>6. kept'[n] = [objects |-> 1, claims |-> 0, sources |-> 0]
  BY <1>1, <1>3, <1>4 DEF KeptRecord
<1>7. \A o \in Numbers \ {n} : kept'[o] = kept[o]
  BY Zenon, <1>1, <1>4
<1>8. kept' \in [Numbers -> KeptRecord]
  BY <1>1, <1>4, <1>3 DEF KeptRecord
<1>9. KeptIsRecorded'
  BY <1>1, <1>5, <1>6, <1>7 DEF SessionInv, KeptIsRecorded, Count
<1> QED BY Zenon, <1>5, <1>8, <1>9

LEMMA SessionNextInv == SessionInv /\ [SessionNext]_sessionVars => SessionInv'
<1> SUFFICES ASSUME SessionInv, [SessionNext]_sessionVars PROVE SessionInv'
  BY Zenon
<1> USE SessionAssumption DEF SessionInv
<1>1. CASE Open
  BY ZenonT(90), <1>1 DEF Open, SessionTypeOK, KeptIsRecorded, OpenStage, Empty, Ready, Idle
<1>2. CASE MatchMain
  <2>1. Empty(0) /\ Empty(1) /\ id = NoDevice /\ matched = NoDevice
    BY <1>2 DEF MatchMain, OpenStage, Idle
  <2>2. ASSUME NEW d \in Matching(NoDevice), Found(0, d), matched' = d,
               UNCHANGED <<attempt, id, bus, published>>
        PROVE  SessionInv'
    <3>1. d \in Devices /\ 0 \in Numbers
      BY Zenon, <2>2 DEF Matching, SessionTypeOK, Numbers
    <3>2. /\ member' \in [Numbers -> SessionRecord] /\ kept' \in [Numbers -> KeptRecord]
          /\ \A o \in Numbers \ {0} : member'[o] = member[o]
          /\ member'[0].device = d /\ ~member'[0].opened /\ ~member'[0].source
          /\ KeptIsRecorded'
      BY Zenon, <2>1, <2>2, <3>1, FoundIsRecorded
    <3>3. OpenStage'
      BY <2>1, <2>2, <3>1, <3>2 DEF OpenStage, Unclaimed, Empty, Found, Numbers
    <3>4. SessionTypeOK'
      BY SMTT(30), <2>2, <3>1, <3>2 DEF SessionTypeOK, SessionRecord, KeptRecord
    <3> QED BY Zenon, <3>2, <3>3, <3>4
  <2>3. CASE /\ sessionPc' \in {sessionPc, <<"configure", 0>>} /\ attempt' \in 0..MaxAttempts
             /\ UNCHANGED <<member, id, matched, kept, bus, published>>
    BY ZenonT(90), <1>2, <2>1, <2>3 DEF MatchMain, SessionTypeOK, KeptIsRecorded, OpenStage, Empty
  <2> QED BY SMTT(60), <1>2, <2>2, <2>3 DEF MatchMain, SessionTypeOK
<1>3. CASE MatchMainFails
  BY SMTT(60), <1>3 DEF MatchMainFails, FailsEarly, Leave, SessionTypeOK, KeptIsRecorded, OpenStage, Empty, Idle
<1>4. CASE SessionConfigure
  BY <1>4 DEF SessionConfigure, SessionTypeOK, KeptIsRecorded, OpenStage, Empty, Idle
<1>5. CASE SessionConfigureFails
  BY <1>5 DEF SessionConfigureFails, FailsEarly, Leave, SessionTypeOK, KeptIsRecorded, OpenStage,
     Empty, Idle
<1>6. ASSUME NEW n \in Numbers, Seize(n) PROVE SessionInv'
  <2>1. /\ member[n].device = matched /\ ~member[n].opened /\ ~member[n].source
        /\ matched \in Devices /\ id = NoDevice
    BY Zenon, <1>6 DEF Seize, OpenStage, Unclaimed, Idle, Numbers
  <2>2. kept[n] = [objects |-> 1, claims |-> 0, sources |-> 0]
    BY Zenon, <2>1 DEF KeptIsRecorded, Count
  <2>3. /\ member' = [member EXCEPT ![n].opened = TRUE]
        /\ kept' = [kept EXCEPT ![n].claims = @ + 1]
    BY Zenon, <1>6 DEF Seize
  <2>4. SessionTypeOK'
    <3>1. member' \in [Numbers -> SessionRecord]
      BY ZenonT(90), <2>3 DEF SessionTypeOK, SessionRecord
    <3>2. kept' \in [Numbers -> KeptRecord]
      BY <2>2, <2>3 DEF SessionTypeOK, KeptRecord
    <3> QED BY Zenon, <1>6, <2>1, <3>1, <3>2 DEF SessionTypeOK, SessionRecord, KeptRecord, Seize
  <2>5. KeptIsRecorded'
    BY <2>1, <2>2, <2>3 DEF KeptIsRecorded, Count, SessionTypeOK
  <2>6. OpenStage'
    BY SMTT(60), <1>6, <2>1 DEF OpenStage, Seize, Empty, Unclaimed, Claimed, Ready, Numbers, Idle, SessionTypeOK
  <2> QED BY Zenon, <2>4, <2>5, <2>6
<1>7. ASSUME NEW n \in Numbers, SeizeFails(n) PROVE SessionInv'
  <2>1. /\ member[n].device = matched /\ ~member[n].opened /\ ~member[n].source
        /\ matched # NoDevice
    BY Zenon, <1>7 DEF SeizeFails, OpenStage, Unclaimed, Idle, Numbers
  <2> DEFINE m == [member EXCEPT ![n] = NoInterface]
             k == [kept EXCEPT ![n].objects = @ - 1]
  <2>2. kept[n] = [objects |-> 1, claims |-> 0, sources |-> 0]
    BY Zenon, <2>1 DEF KeptIsRecorded, Count
  <2>3. ASSUME NEW o \in Numbers
        PROVE  /\ k[o].objects - Count(m[o].device # NoDevice) = 0
               /\ k[o].claims - Count(m[o].opened) = 0
               /\ k[o].sources - Count(m[o].source) = 0
    <3>1. CASE o = n
      BY <2>2, <3>1 DEF Count, NoInterface, SessionTypeOK
    <3>2. CASE o # n
      BY <3>2 DEF Count, SessionTypeOK, KeptIsRecorded
    <3> QED BY Zenon, <3>1, <3>2
  <2> HIDE DEF m, k
  <2>4. kept' = [o \in Numbers |-> NothingKept]
    <3>1. \A o \in Numbers : [objects |-> k[o].objects - Count(m[o].device # NoDevice),
                              claims |-> k[o].claims - Count(m[o].opened),
                              sources |-> k[o].sources - Count(m[o].source)] = NothingKept
      BY Zenon, <2>3 DEF NothingKept, Count
    <3>2. CloseFrom(m, k)
      BY ZenonT(90), <1>7 DEF SeizeFails, m, k
    <3> QED BY Zenon, <3>1, <3>2 DEF CloseFrom, Count
  <2> QED BY <1>7, <2>4, NothingKeptInv DEF SeizeFails, CloseFrom, Leave
<1>8. ASSUME NEW n \in Numbers, FindPipes(n) PROVE SessionInv'
  BY <1>8 DEF FindPipes, SessionTypeOK, KeptIsRecorded, OpenStage, Empty, Claimed, Ready, Numbers,
     AllPipes, Needed, Idle
<1>9. ASSUME NEW n \in Numbers, CreateSource(n) PROVE SessionInv'
  <2>1. /\ member[n].device = matched /\ member[n].opened /\ ~member[n].source
        /\ Needed(n) \subseteq member[n].pipes /\ matched \in Devices /\ id = NoDevice
    BY Zenon, <1>9 DEF CreateSource, OpenStage, Claimed, Idle, Numbers
  <2>2. kept[n] = [objects |-> 1, claims |-> 1, sources |-> 0]
    BY Zenon, <2>1 DEF KeptIsRecorded, Count
  <2>3. /\ member' = [member EXCEPT ![n].source = TRUE]
        /\ kept' = [kept EXCEPT ![n].sources = @ + 1]
    BY Zenon, <1>9 DEF CreateSource
  <2>4. SessionTypeOK'
    <3>1. member' \in [Numbers -> SessionRecord]
      BY ZenonT(90), <2>3 DEF SessionTypeOK, SessionRecord
    <3>2. kept' \in [Numbers -> KeptRecord]
      BY <2>2, <2>3 DEF SessionTypeOK, KeptRecord
    <3>3. /\ {id', matched'} \subseteq Devices \cup {NoDevice} /\ attempt' \in 0..MaxAttempts
          /\ bus' = bus /\ published' = published
      BY <1>9, <2>1 DEF SessionTypeOK, CreateSource, Leave
    <3> QED BY Zenon, <3>1, <3>2, <3>3 DEF SessionTypeOK, SessionRecord, KeptRecord
  <2>5. KeptIsRecorded'
    BY <2>1, <2>2, <2>3 DEF KeptIsRecorded, Count, SessionTypeOK
  <2>6. OpenStage'
    BY SMTT(60), <1>9, <2>1 DEF OpenStage, CreateSource, Leave, Empty, Claimed, Ready, Numbers, Idle,
       SessionTypeOK
  <2> QED BY Zenon, <2>4, <2>5, <2>6
<1>10. CASE MatchAuxiliary
  <2>1. Ready(0, matched) /\ Empty(1) /\ matched \in Devices /\ id = NoDevice
    BY <1>10 DEF MatchAuxiliary, OpenStage, Idle
  <2>2. PICK d \in Matching(matched) : Found(1, d)
    BY Zenon, <1>10 DEF MatchAuxiliary
  <2>3. d = matched /\ 0 \in Numbers /\ 1 \in Numbers
    BY Zenon, <2>1, <2>2 DEF Matching, Numbers
  <2>4. /\ member' \in [Numbers -> SessionRecord] /\ kept' \in [Numbers -> KeptRecord]
        /\ \A o \in Numbers \ {1} : member'[o] = member[o]
        /\ member'[1].device = matched /\ ~member'[1].opened /\ ~member'[1].source
        /\ KeptIsRecorded'
    BY ZenonT(90), <2>1, <2>2, <2>3, FoundIsRecorded
  <2>5. OpenStage'
    BY <1>10, <2>1, <2>2, <2>3, <2>4 DEF MatchAuxiliary, OpenStage, Unclaimed, Ready, Found
  <2>6. SessionTypeOK'
    BY Zenon, <1>10, <2>4 DEF MatchAuxiliary, SessionTypeOK, SessionRecord, KeptRecord
  <2> QED BY Zenon, <2>4, <2>5, <2>6
<1>11. CASE CallFails
  BY SMTT(30), <1>11, ClosingLeavesNothing, NothingKeptInv DEF CallFails, Fails, Leave
<1>12. CASE SessionClose
  BY Zenon, <1>12, ClosingLeavesNothing, NothingKeptInv DEF SessionClose, OpenStage, SessionTypeOK, Idle
<1>13. ASSUME NEW d \in Devices, Unplug(d) \/ Plug(d) PROVE SessionInv'
  <2>1. UNCHANGED <<member, id, sessionPc, matched, attempt, kept>>
    BY Zenon, <1>13 DEF Unplug, Plug
  <2>2. SessionTypeOK'
    BY Zenon, <1>13, <2>1 DEF Unplug, Plug, SessionTypeOK
  <2>3. KeptIsRecorded'
    BY ZenonT(90), <2>1 DEF KeptIsRecorded
  <2>4. OpenStage'
    BY ZenonT(90), <2>1 DEF OpenStage, Empty, Unclaimed, Claimed, Ready
  <2> QED BY Zenon, <2>2, <2>3, <2>4
<1>14. CASE UNCHANGED sessionVars
  <2>1. SessionTypeOK' /\ KeptIsRecorded'
    BY Zenon, <1>14 DEF sessionVars, SessionTypeOK, KeptIsRecorded
  <2>2. OpenStage'
    BY ZenonT(90), <1>14 DEF sessionVars, OpenStage, Empty, Unclaimed, Claimed, Ready
  <2> QED BY Zenon, <2>1, <2>2
<1> QED
  BY ZenonT(90), <1>1, <1>2, <1>3, <1>4, <1>5, <1>6, <1>7, <1>8, <1>9, <1>10, <1>11, <1>12, <1>13, <1>14
  DEF SessionNext

\* open() gives all or nothing, for every set of controllers on the bus, whichever
\* call fails and however they are exchanged while it runs (NS6DeviceSession::open).
THEOREM SessionAllOrNothing == SessionSpec => []AllOrNothing
<1>1. SessionInv => AllOrNothing
  <2> SUFFICES ASSUME SessionInv, sessionPc = Idle
               PROVE  IF member[0].opened
                      THEN \A n \in Numbers :
                             /\ member[n].opened /\ member[n].source /\ Needed(n) \subseteq member[n].pipes
                             /\ kept[n] = [objects |-> 1, claims |-> 1, sources |-> 1]
                             /\ member[n].device = id /\ id \in Devices
                      ELSE \A n \in Numbers : member[n] = NoInterface /\ kept[n] = NothingKept
    BY Zenon DEF SessionInv, AllOrNothing
  <2>1. \/ Empty(0) /\ Empty(1)
        \/ id \in Devices /\ Ready(0, id) /\ Ready(1, id)
    BY Zenon DEF SessionInv, OpenStage, Idle
  <2>2. CASE Empty(0) /\ Empty(1)
    BY <2>2, SessionAssumption DEF SessionInv, KeptIsRecorded, Empty, NoInterface, NothingKept, Count, Numbers
  <2>3. CASE id \in Devices /\ Ready(0, id) /\ Ready(1, id)
    BY Zenon, <2>3, SessionAssumption DEF SessionInv, KeptIsRecorded, Ready, Count, Numbers
  <2> QED BY Zenon, <2>1, <2>2, <2>3
<1> QED BY <1>1, SessionInitInv, SessionNextInv, PTL DEF SessionSpec

-----------------------------------------------------------------------------
(* ControllerActivation                                                    *)

\* Where activate() has not returned, where it holds the event source, and where
\* its reads are not submitted.
InActivate ==
  {"start", "sequence", "drainRefused", "drain", "reopen", "reopenOpen", "restart", "wake",
   "drainRestart", "drainWake"}
HoldsEvents == InActivate \ {"reopen", "reopenOpen"}
NothingSubmitted == {"start", "reopen", "reopenOpen", "restart"}

\* A drain that gave up leaves the event source held, for close() alone.
EventsWhereHeld ==
  /\ pc \in HoldsEvents => session.events = 1
  /\ pc \notin HoldsEvents => session.events = 0 \/ (pc = "close" /\ timedOut)

\* No read is submitted before its start, nor left when activate() returned.
ReadsAtRest == pc \in NothingSubmitted \/ (~frame /\ ~timedOut) => InFlight = {}

\* The mode the session will give back is the controller's own.
ModeIsKept ==
  /\ ~lost /\ session.changed => session.previous = "original"
  /\ ~lost /\ ~session.changed => mode = "original"
  /\ pc = "up" => mode = "input"
  /\ pc = "down" => ~session.changed

ActivationInv ==
  /\ ActivationTypeOK
  /\ frame <=> pc \in InActivate
  /\ EventsWhereHeld
  /\ ReadsAtRest
  /\ ModeIsKept

\* The types of the session and of a read.
SessionValue ==
  [open : BOOLEAN, events : 0..1, changed : BOOLEAN, previous : {"original", "input"}]
ReadValue == [running : BOOLEAN, state : {"idle", "busy", "due"}]

LEMMA ActivationValues ==
  /\ NoSession \in SessionValue /\ IdleRead \in ReadValue
  /\ NoActivationWriter \in [next : {"none", "identify", "reply", "jog", "wake", "done"}, ok : BOOLEAN]
BY DEF NoSession, SessionValue, IdleRead, ReadValue, NoActivationWriter

LEMMA ActivationInitInv == ActivationInit => ActivationInv
<1> SUFFICES ASSUME ActivationInit PROVE ActivationInv
  BY Zenon
<1>1. ActivationTypeOK
  BY ZenonT(90), ActivationValues DEF ActivationInit, ActivationTypeOK, SessionValue, ReadValue
<1>2. InFlight = {}
  BY Zenon DEF ActivationInit, InFlight, IdleRead
<1> QED BY Zenon, <1>1, <1>2 DEF ActivationInit, ActivationInv, InActivate, HoldsEvents, EventsWhereHeld,
   ReadsAtRest, ModeIsKept, NoSession

LEMMA ActivationNextInv == ActivationInv /\ [ActivationNext]_activationVars => ActivationInv'
<1> SUFFICES ASSUME ActivationInv, [ActivationNext]_activationVars PROVE ActivationInv'
  BY Zenon
<1> USE DEF ActivationInv, InActivate, HoldsEvents, NothingSubmitted
<1>1. CASE OpenSession
  <2>1. ActivationTypeOK'
    BY ZenonT(90), <1>1 DEF OpenSession, ActivationTypeOK
  <2>2. (frame <=> pc \in InActivate)' /\ EventsWhereHeld' /\ ReadsAtRest'
    BY Zenon, <1>1 DEF OpenSession, ActivationTypeOK, EventsWhereHeld, ReadsAtRest, InFlight
  <2>3. ModeIsKept'
    BY Zenon, <1>1 DEF OpenSession, ActivationTypeOK, ModeIsKept
  <2> QED BY Zenon, <2>1, <2>2, <2>3
<1>2. CASE Configure
  <2>1. ActivationTypeOK'
    BY ZenonT(90), <1>2 DEF Configure, ActivationTypeOK, Saved
  <2>2. (frame <=> pc \in InActivate)' /\ EventsWhereHeld'
    BY Zenon, <1>2 DEF Configure, ActivationTypeOK, EventsWhereHeld, Saved
  <2>3. ReadsAtRest'
    BY Zenon, <1>2 DEF Configure, ActivationTypeOK, ReadsAtRest, InFlight
  <2>4. ModeIsKept'
    BY Zenon, <1>2 DEF Configure, ActivationTypeOK, ModeIsKept, Saved
  <2> QED BY Zenon, <2>1, <2>2, <2>3, <2>4
<1>3. CASE ConfigureFails
  <2>1. ActivationTypeOK'
    BY ZenonT(90), <1>3 DEF ConfigureFails, ActivationTypeOK, Saved
  <2>2. (frame <=> pc \in InActivate)' /\ EventsWhereHeld'
    BY ZenonT(90), <1>3 DEF ConfigureFails, ActivationTypeOK, EventsWhereHeld, Saved
  <2>3. ReadsAtRest'
    BY Zenon, <1>3 DEF ConfigureFails, ActivationTypeOK, EventsWhereHeld, ReadsAtRest, InFlight, Saved
  <2>4. ModeIsKept'
    BY Zenon, <1>3 DEF ConfigureFails, ActivationTypeOK, ModeIsKept, Saved
  <2> QED BY Zenon, <2>1, <2>2, <2>3, <2>4
<1>4. CASE CloseSession
  <2>1. ActivationTypeOK'
    <3>1. session' \in SessionValue
      BY Zenon, <1>4, ActivationValues DEF CloseSession, Close
    <3> QED BY ZenonT(90), <1>4, <3>1 DEF CloseSession, ActivationTypeOK, SessionValue, ReadValue, Close
  <2>2. (frame <=> pc \in InActivate)' /\ EventsWhereHeld'
    BY Zenon, <1>4 DEF CloseSession, ActivationTypeOK, EventsWhereHeld, Close, NoSession
  <2>3. ReadsAtRest'
    BY Zenon, <1>4 DEF CloseSession, ActivationTypeOK, EventsWhereHeld, ReadsAtRest, InFlight, Close, NoSession
  <2>4. ModeIsKept'
    BY Zenon, <1>4 DEF CloseSession, ActivationTypeOK, ModeIsKept, Close, NoSession
  <2> QED BY Zenon, <2>1, <2>2, <2>3, <2>4
<1>5. CASE stopHardware
  BY <1>5 DEF stopHardware, ActivationTypeOK, EventsWhereHeld, ReadsAtRest, ModeIsKept, InFlight
<1>6. CASE Begin
  <2>1. ActivationTypeOK'
    <3>1. session' \in SessionValue
      BY <1>6 DEF Begin, AcquireEvents, EventsWhereHeld, ActivationTypeOK, SessionValue
    <3>2. reads' \in [Reads -> ReadValue]
      BY Zenon, <1>6, ActivationValues DEF Begin
    <3> QED BY Zenon, <1>6, <3>1, <3>2 DEF Begin, ActivationTypeOK, SessionValue, ReadValue, Return
  <2>2. (frame <=> pc \in InActivate)' /\ EventsWhereHeld'
    BY <1>6 DEF Begin, ActivationTypeOK, EventsWhereHeld, AcquireEvents, Return, IdleRead
  <2>3. ReadsAtRest'
    BY Zenon, <1>6 DEF Begin, ActivationTypeOK, EventsWhereHeld, ReadsAtRest, InFlight, AcquireEvents, Return, IdleRead
  <2>4. ModeIsKept'
    BY ZenonT(90), <1>6 DEF Begin, ActivationTypeOK, ModeIsKept, AcquireEvents, Return, IdleRead
  <2> QED BY Zenon, <2>1, <2>2, <2>3, <2>4
<1>7. CASE StartReads
  <2>1. ActivationTypeOK'
    <3>1. reads' \in [Reads -> ReadValue]
      BY <1>7 DEF StartReads, ReadValue
    <3>2. activationWriter' \in [next : {"none", "identify", "reply", "jog", "wake", "done"}, ok : BOOLEAN]
      <4>1. \/ \E m \in {"identify", "wake"} : activationWriter' = [next |-> m, ok |-> TRUE]
            \/ activationWriter' = activationWriter
        BY Zenon, <1>7 DEF StartReads
      <4>2. \A m \in {"identify", "wake"} :
              [next |-> m, ok |-> TRUE] \in [next : {"none", "identify", "reply", "jog", "wake", "done"}, ok : BOOLEAN]
        BY Zenon
      <4> QED BY Zenon, <4>1, <4>2 DEF ActivationTypeOK
    <3> QED BY <1>7, <3>1, <3>2 DEF StartReads, ActivationTypeOK, SessionValue, ReadValue
  <2>2. (frame <=> pc \in InActivate)' /\ EventsWhereHeld'
    BY Zenon, <1>7 DEF StartReads, ActivationTypeOK, EventsWhereHeld
  <2>3. ReadsAtRest'
    BY Zenon, <1>7 DEF StartReads, ActivationTypeOK, EventsWhereHeld, ReadsAtRest, InFlight
  <2>4. ModeIsKept'
    BY ZenonT(90), <1>7 DEF StartReads, ActivationTypeOK, ModeIsKept
  <2> QED BY Zenon, <2>1, <2>2, <2>3, <2>4
<1>8. CASE Write
  <2>1. ActivationTypeOK'
    BY <1>8 DEF Write, ActivationTypeOK
  <2>2. (frame <=> pc \in InActivate)' /\ EventsWhereHeld' /\ ReadsAtRest'
    BY ZenonT(90), <1>8 DEF Write, ActivationTypeOK, EventsWhereHeld, ReadsAtRest, InFlight
  <2>3. ModeIsKept'
    BY ZenonT(90), <1>8 DEF Write, ActivationTypeOK, ModeIsKept
  <2> QED BY Zenon, <2>1, <2>2, <2>3
<1>9. CASE AwaitReply
  <2>1. ActivationTypeOK'
    BY Zenon, <1>9 DEF AwaitReply, ActivationTypeOK
  <2>2. (frame <=> pc \in InActivate)' /\ EventsWhereHeld' /\ ReadsAtRest'
    BY ZenonT(90), <1>9 DEF AwaitReply, ActivationTypeOK, EventsWhereHeld, ReadsAtRest, InFlight
  <2>3. ModeIsKept'
    BY ZenonT(90), <1>9 DEF AwaitReply, ActivationTypeOK, ModeIsKept
  <2> QED BY Zenon, <2>1, <2>2, <2>3
<1>10. CASE StopReads
  <2>1. ActivationTypeOK'
    BY ZenonT(90), <1>10 DEF StopReads, ActivationTypeOK, NoActivationWriter
  <2>2. (frame <=> pc \in InActivate)' /\ EventsWhereHeld'
    BY Zenon, <1>10 DEF StopReads, ActivationTypeOK, EventsWhereHeld
  <2>3. ReadsAtRest'
    BY Zenon, <1>10 DEF StopReads, ActivationTypeOK, ReadsAtRest, InFlight
  <2>4. ModeIsKept'
    BY Zenon, <1>10 DEF StopReads, ActivationTypeOK, ModeIsKept
  <2> QED BY Zenon, <2>1, <2>2, <2>3, <2>4
<1>11. CASE ActivationDrained
  <2>1. ActivationTypeOK'
    <3>1. session' \in SessionValue
      BY <1>11 DEF ActivationDrained, ReleaseEvents, ActivationTypeOK, SessionValue
    <3> QED BY ZenonT(90), <1>11, <3>1 DEF ActivationDrained, ActivationTypeOK, SessionValue, ReadValue, Return
  <2>2. (frame <=> pc \in InActivate)' /\ EventsWhereHeld'
    BY <1>11 DEF ActivationDrained, ActivationTypeOK, EventsWhereHeld, ReleaseEvents, Return, Draining
  <2>3. ReadsAtRest'
    BY Zenon, <1>11 DEF ActivationDrained, ActivationTypeOK, EventsWhereHeld, ReadsAtRest, InFlight, ReleaseEvents, Return, Draining
  <2>4. ModeIsKept'
    BY Zenon, <1>11 DEF ActivationDrained, ActivationTypeOK, ModeIsKept, ReleaseEvents, Return, Draining
  <2> QED BY Zenon, <2>1, <2>2, <2>3, <2>4
<1>12. CASE ActivationDrainTimeout
  <2>1. ActivationTypeOK'
    <3>1. session' \in SessionValue
      BY <1>12 DEF ActivationDrainTimeout, ReleaseEvents, ActivationTypeOK, SessionValue
    <3> QED BY Zenon, <1>12, <3>1 DEF ActivationDrainTimeout, ActivationTypeOK, SessionValue, ReadValue, Return
  <2>2. (frame <=> pc \in InActivate)' /\ EventsWhereHeld'
    BY Zenon, <1>12 DEF ActivationDrainTimeout, ActivationTypeOK, EventsWhereHeld, ReleaseEvents, Return, Draining
  <2>3. ReadsAtRest'
    BY Zenon, <1>12 DEF ActivationDrainTimeout, ActivationTypeOK, EventsWhereHeld, ReadsAtRest, InFlight, ReleaseEvents, Return, Draining
  <2>4. ModeIsKept'
    BY <1>12 DEF ActivationDrainTimeout, ActivationTypeOK, ModeIsKept, ReleaseEvents, Return, Draining
  <2> QED BY Zenon, <2>1, <2>2, <2>3, <2>4
<1>13. CASE ReopenClose
  <2>1. ActivationTypeOK'
    <3>1. session' \in SessionValue
      BY Zenon, <1>13, ActivationValues DEF ReopenClose, Close
    <3> QED BY ZenonT(90), <1>13, <3>1 DEF ReopenClose, ActivationTypeOK, SessionValue, ReadValue, Close, Return
  <2>2. (frame <=> pc \in InActivate)' /\ EventsWhereHeld'
    <3>1. session'.events = 0
      BY Zenon, <1>13 DEF ReopenClose, Close, NoSession
    <3>2. \/ pc' = "reopenOpen" /\ frame
          \/ pc' = "close" /\ ~frame'
      BY Zenon, <1>13 DEF ReopenClose, Return
    <3>3. pc' = "reopenOpen" => frame' = frame
      BY Zenon, <1>13 DEF ReopenClose, Return
    <3> QED BY Zenon, <3>1, <3>2, <3>3 DEF EventsWhereHeld
  <2>3. ReadsAtRest'
    BY Zenon, <1>13 DEF ReopenClose, ActivationTypeOK, EventsWhereHeld, ReadsAtRest, InFlight, Close, Return, NoSession
  <2>4. ModeIsKept'
    BY Zenon, <1>13 DEF ReopenClose, ActivationTypeOK, ModeIsKept, Close, Return, NoSession
  <2> QED BY Zenon, <2>1, <2>2, <2>3, <2>4
<1>14. CASE ReopenOpen
  <2>1. ActivationTypeOK'
    <3>1. session' \in SessionValue
      <4>1. \/ session' = [session EXCEPT !.open = TRUE, !.events = 1]
            \/ session' = [session EXCEPT !.open = TRUE]
            \/ session' = session
        BY Zenon, <1>14 DEF ReopenOpen
      <4>2. session \in SessionValue
        BY Zenon DEF ActivationTypeOK, SessionValue
      <4>3. [session EXCEPT !.open = TRUE] \in SessionValue
        BY Zenon, <4>2 DEF SessionValue
      <4>4. [session EXCEPT !.open = TRUE, !.events = 1] \in SessionValue
        <5>1. \A t \in SessionValue : [t EXCEPT !.events = 1] \in SessionValue
          BY DEF SessionValue
        <5>2. [session EXCEPT !.open = TRUE, !.events = 1]
                = [[session EXCEPT !.open = TRUE] EXCEPT !.events = 1]
          BY Zenon
        <5> QED BY Zenon, <4>3, <5>1, <5>2
      <4> QED BY Zenon, <4>1, <4>2, <4>3, <4>4
    <3>2. reads' \in [Reads -> ReadValue]
      BY Zenon, <1>14, ActivationValues DEF ReopenOpen
    <3> QED BY ZenonT(90), <1>14, <3>1, <3>2 DEF ReopenOpen, ActivationTypeOK, SessionValue, ReadValue, Return
  <2>2. (frame <=> pc \in InActivate)' /\ EventsWhereHeld'
    BY Zenon, <1>14 DEF ReopenOpen, ActivationTypeOK, EventsWhereHeld, Return, IdleRead
  <2>3. ReadsAtRest'
    BY Zenon, <1>14 DEF ReopenOpen, ActivationTypeOK, EventsWhereHeld, ReadsAtRest, InFlight, Return, IdleRead
  <2>4. ModeIsKept'
    BY ZenonT(90), <1>14 DEF ReopenOpen, ActivationTypeOK, ModeIsKept, Return, IdleRead
  <2> QED BY Zenon, <2>1, <2>2, <2>3, <2>4
<1>15. ASSUME NEW r \in Reads, UsbFinishesRead(r) PROVE ActivationInv'
  BY <1>15 DEF UsbFinishesRead, ActivationTypeOK, EventsWhereHeld, ReadsAtRest, ModeIsKept, InFlight
<1>16. ASSUME NEW r \in Reads, ReadCompletion(r) PROVE ActivationInv'
  <2>1. ActivationTypeOK'
    <3>1. reads' \in [Reads -> ReadValue]
      BY <1>16 DEF ReadCompletion, ActivationTypeOK, ReadValue
    <3>2. replySeen' \in BOOLEAN
      BY <1>16, Zenon DEF ReadCompletion, ActivationTypeOK
    <3> QED BY <1>16, <3>1, <3>2 DEF ReadCompletion, ActivationTypeOK, SessionValue, ReadValue
  <2>2. (frame <=> pc \in InActivate)' /\ EventsWhereHeld'
    BY Zenon, <1>16 DEF ReadCompletion, ActivationTypeOK, EventsWhereHeld, CallbackDue, RunLoop
  <2>3. ReadsAtRest'
    BY Zenon, <1>16 DEF ReadCompletion, ActivationTypeOK, EventsWhereHeld, ReadsAtRest, InFlight, CallbackDue, RunLoop
  <2>4. ModeIsKept'
    BY ZenonT(90), <1>16 DEF ReadCompletion, ActivationTypeOK, ModeIsKept, CallbackDue, RunLoop
  <2> QED BY ZenonT(90), <2>1, <2>2, <2>3, <2>4
<1>17. CASE UNCHANGED activationVars
  BY SMTT(60), <1>17 DEF activationVars, ActivationTypeOK, EventsWhereHeld, ReadsAtRest, ModeIsKept, InFlight
<1> QED
  BY Zenon, <1>1, <1>2, <1>3, <1>4, <1>5, <1>6, <1>7, <1>8, <1>9, <1>10, <1>11, <1>12, <1>13, <1>14, <1>15, <1>16,
     <1>17
  DEF ActivationNext, WriterThreadStep

\* activate() returns with no read in flight and its event source given back unless
\* a drain gave up, no callback runs after its return, and the controller gets its
\* own mode back, for every number of reads (activate, startHardware, close).
THEOREM ActivationReturnsClean == ActivationSpec => []ReturnsClean
<1>1. ActivationInv => ReturnsClean
  BY DEF ActivationInv, ReturnsClean, InActivate, HoldsEvents, NothingSubmitted, EventsWhereHeld,
     ReadsAtRest, ModeIsKept, CallbackDue, RunLoop, ActivationTypeOK
<1> QED BY <1>1, ActivationInitInv, ActivationNextInv, PTL DEF ActivationSpec
-----------------------------------------------------------------------------
(* AudioOutWorker.  The counter stop() and the destructor rely on is exact, no   *)
(* transfer outlives its buffers or its event source, and the worker with its     *)
(* replacements implements the contract of an endpoint worker.  The invariant is  *)
(* inductive once it says, for each place of the thread, what stop() has achieved *)
(* by then: the worker halted, the drain complete, or a result that keeps the old *)
(* worker alive.                                                                   *)

\* Buffers and event source are held together, by an initialized worker, and a
\* worker without them has nothing in flight and does not run.
HeldTogether ==
  /\ worker.sourceAdded => buffers = Slots /\ worker.initialized
  /\ ~worker.sourceAdded => buffers = {} /\ Pending = {} /\ ~worker.running

\* What the thread may rely on where it is.
StopStage ==
  /\ workerThread.pc \in {"start", "ended"} => worker = NewWorker
  /\ workerThread.pc \in {"drain", "release", "stopped", "swap"} => ~worker.running
  /\ workerThread.pc \in {"release", "swap"} => Pending = {}
  /\ workerThread.pc = "stopped" /\ workerThread.result = "ok" => Pending = {}

WorkerInv == InFlightIsExact /\ HeldTogether /\ StopStage /\ ~terminated

LEMMA SlotsAreFinite == IsFiniteSet(Slots) /\ Cardinality(Slots) = SlotCount
BY FS_Interval, SlotAssumption DEF Slots

LEMMA PendingIsBounded ==
  IsFiniteSet(Pending) /\ Cardinality(Pending) \in 0..SlotCount /\ (Cardinality(Pending) = 0 <=> Pending = {})
<1>1. Pending \in SUBSET Slots
  BY Zenon DEF Pending
<1> QED BY <1>1, SlotsAreFinite, FS_Subset, FS_CardinalityType, FS_EmptySet, SlotAssumption

\* reserveFree() finds a slot whenever one is free (AudioOutTransferSlots).
LEMMA LowestFreeIsFree ==
  ASSUME NEW used, NEW s \in Slots \ used
  PROVE  LowestFree(used) \in Slots \ used
<1> DEFINE T == Slots \ used
           R == OpToRel(<, Nat)
<1>1. T \subseteq Nat /\ T # {}
  BY SlotAssumption DEF Slots
<1>2. IsWellFoundedOn(R, Nat)
  BY Zenon, NatLessThanWellFounded
<1>3. \A a, b \in Nat : a < b => <<a, b>> \in R
  BY Zenon DEF OpToRel
<1> HIDE DEF R
<1>4. PICK x \in T : \A y \in T : ~(<<y, x>> \in R)
  BY Zenon, <1>1, <1>2, WFMin
<1>5. ASSUME NEW t \in T PROVE x <= t
  <2>1. t \in Nat /\ x \in Nat
    BY Zenon, <1>1
  <2>2. ~(<<t, x>> \in R)
    BY Zenon, <1>4
  <2>3. ~(t < x)
    BY Zenon, <1>3, <2>1, <2>2
  <2> QED BY <2>1, <2>3
<1> QED BY Zenon, <1>5 DEF LowestFree

LEMMA WorkerInitInv == WorkerInit => WorkerInv
<1> SUFFICES ASSUME WorkerInit PROVE WorkerInv
  BY Zenon
<1>1. Pending = {}
  BY Zenon DEF WorkerInit, Pending
<1>2. WorkerTypeOK
  <2>1. worker \in [initialized : BOOLEAN, running : BOOLEAN, accepting : BOOLEAN, sourceAdded : BOOLEAN]
    BY Zenon DEF WorkerInit, NewWorker
  <2>2. usb \in [Slots -> {"none", "busy", "sent", "failed"}] /\ inFlight \in 0..SlotCount
    BY SlotAssumption DEF WorkerInit
  <2> QED BY Zenon, <2>1, <2>2 DEF WorkerInit, WorkerTypeOK, WorkerAt
<1> QED BY Zenon, <1>1, <1>2, FS_EmptySet DEF WorkerInit, WorkerInv, InFlightIsExact, HeldTogether, StopStage,
   NewWorker, WorkerAt

\* Actions of the thread that leave the slots and the worker alone.
LEMMA SlotsUnchanged ==
  ASSUME WorkerInv, UNCHANGED <<inUse, inFlight, usb, buffers, worker, terminated>>, WorkerTypeOK', StopStage'
  PROVE  WorkerInv'
BY Zenon DEF WorkerInv, InFlightIsExact, HeldTogether, Pending

\* stop() halts the worker, and goes on to the drain while transfers are in flight.
LEMMA StopInv ==
  ASSUME WorkerInv, NEW goal \in {"retry", "abandon", "shutdown"}, Stop(goal, worker, inFlight),
         UNCHANGED <<inUse, inFlight, buffers, usb, workerStopRequested, current, terminated>>
  PROVE  WorkerInv'
<1> USE DEF WorkerInv, InFlightIsExact
<1>1. Pending' = Pending /\ (inFlight = 0 <=> Pending = {})
  BY Zenon, PendingIsBounded DEF Pending
<1>2. CASE ~worker.initialized
  BY <1>1, <1>2 DEF Stop, HeldTogether, StopStage, WorkerAt, WorkerTypeOK
<1>3. CASE worker.initialized
  <2>1. worker' = [worker EXCEPT !.running = FALSE, !.accepting = FALSE]
    BY Zenon, <1>3 DEF Stop
  <2>2. PICK drained \in {"ok", "error"} :
          workerThread' = [pc |-> IF inFlight # 0 THEN "drain" ELSE "release",
                           goal |-> goal, result |-> drained]
    BY Zenon, <1>3 DEF Stop
  <2>3. WorkerTypeOK'
    BY Zenon, <2>1, <2>2 DEF WorkerTypeOK
  <2>4. HeldTogether'
    BY Zenon, <1>1, <2>1 DEF HeldTogether, WorkerTypeOK
  <2>5. StopStage'
    BY Zenon, <1>1, <2>1, <2>2 DEF StopStage, WorkerTypeOK
  <2> QED BY Zenon, <1>1, <2>3, <2>4, <2>5
<1> QED BY Zenon, <1>2, <1>3

\* A completion frees its slot, and takes at most one free slot again; the counter
\* follows (AudioOutTransferSlots::complete, AudioOutWorker::submitNext).
LEMMA CompletionCounts ==
  ASSUME WorkerInv, NEW s \in Slots, didComplete(s)
  PROVE  /\ s \in Pending
         /\ usb' \in [Slots -> {"none", "busy", "sent", "failed"}]
         /\ inUse' = Pending' /\ inFlight' = Cardinality(Pending')
         /\ \/ inFlight' = inFlight - 1
            \/ inFlight' = inFlight /\ worker.running
<1> DEFINE freed == inUse \ {s}
<1>1. /\ usb[s] \in {"sent", "failed"} /\ s \in inUse /\ inUse = Pending
      /\ usb \in [Slots -> {"none", "busy", "sent", "failed"}] /\ freed \subseteq Slots
  BY Zenon DEF WorkerInv, InFlightIsExact, didComplete, Pending, WorkerTypeOK
<1>2. /\ IsFiniteSet(freed) /\ Cardinality(freed) = inFlight - 1 /\ Complete(s) = inFlight - 1
      /\ Cardinality(freed) \in Nat /\ inFlight \in Nat
  <2>1. IsFiniteSet(inUse) /\ Cardinality(inUse) = inFlight
    BY Zenon, PendingIsBounded DEF WorkerInv, InFlightIsExact
  <2>2. IsFiniteSet(freed) /\ Cardinality(freed) = Cardinality(inUse) - 1
    BY Zenon, <1>1, <2>1, FS_RemoveElement
  <2> QED BY Zenon, <1>1, <2>1, <2>2, FS_CardinalityType DEF Complete
<1>3. CASE inUse' = freed /\ inFlight' = Complete(s) /\ usb' = UsbKeeping(freed)
  <2>1. usb' \in [Slots -> {"none", "busy", "sent", "failed"}] /\ Pending' = freed
    BY ZenonT(90), <1>1, <1>3 DEF UsbKeeping, Pending
  <2> QED BY Zenon, <1>1, <1>2, <1>3, <2>1
<1>4. CASE /\ worker.running /\ inUse' = freed \cup {LowestFree(freed)} /\ inFlight' = Complete(s) + 1
           /\ usb' = [UsbKeeping(freed) EXCEPT ![LowestFree(freed)] = "busy"]
  <2> DEFINE t == LowestFree(freed)
  <2>1. t \in Slots \ freed
    BY Zenon, <1>1, LowestFreeIsFree
  <2> HIDE DEF t
  <2>2. usb' \in [Slots -> {"none", "busy", "sent", "failed"}] /\ Pending' = freed \cup {t}
    BY Zenon, <1>1, <1>4, <2>1 DEF UsbKeeping, Pending, t
  <2>3. Cardinality(freed \cup {t}) = Cardinality(freed) + 1
    BY Zenon, <1>2, <2>1, FS_AddElement
  <2> QED BY SMTT(60), <1>1, <1>2, <1>4, <2>2, <2>3 DEF t
<1> QED BY Zenon, <1>3, <1>4 DEF didComplete, Resubmit

\* start() hands the first n slots to the USB stack.
LEMMA StartCounts ==
  ASSUME NEW n \in 0..SlotCount, WorkerStartSubmits(n)
  PROVE  /\ usb' \in [Slots -> {"none", "busy", "sent", "failed"}]
         /\ Pending' = 0..(n - 1) /\ Pending' \subseteq Slots
         /\ inUse' = Pending' /\ inFlight' = Cardinality(Pending') /\ inFlight' = n
<1>1. usb' = [s \in Slots |-> IF s < n THEN "busy" ELSE "none"] /\ inUse' = 0..(n - 1) /\ inFlight' = n
  BY Zenon DEF WorkerStartSubmits
<1>2. Pending' = 0..(n - 1)
  BY <1>1, SlotAssumption DEF Pending, Slots
<1>3. Cardinality(0..(n - 1)) = n
  BY FS_Interval, SlotAssumption
<1> QED BY <1>1, <1>2, <1>3, SlotAssumption DEF Slots

WorkerValue == [initialized : BOOLEAN, running : BOOLEAN, accepting : BOOLEAN, sourceAdded : BOOLEAN]

\* A worker that is replaced, or given up, leaves nothing behind.
LEMMA NewWorkerInv ==
  ASSUME WorkerInv, Pending = {}, worker' = NewWorker, inUse' = {}, inFlight' = 0, buffers' = {},
         UNCHANGED <<usb, workerStopRequested, current>>, terminated' = FALSE,
         NEW p \in {"start", "ended"}, NEW g \in {"restart", "abandon", "shutdown"},
         workerThread' = WorkerAt(p, g)
  PROVE  WorkerInv'
<1>1. Pending' = {}
  BY Zenon DEF Pending
<1>2. NewWorker \in WorkerValue
  BY Zenon DEF NewWorker, WorkerValue
<1>3. WorkerTypeOK'
  <2>1. workerThread' \in [pc : {"start", "ended"}, goal : {"restart", "abandon", "shutdown"}, result : {"ok"}]
    BY Zenon DEF WorkerAt
  <2>2. inUse' \subseteq Slots /\ buffers' \subseteq Slots /\ inFlight' \in 0..SlotCount
    BY SlotAssumption
  <2>3. /\ usb' \in [Slots -> {"none", "busy", "sent", "failed"}]
        /\ workerStopRequested' \in BOOLEAN /\ current' \in BOOLEAN
    BY Zenon DEF WorkerInv, InFlightIsExact, WorkerTypeOK
  <2>4. terminated' \in BOOLEAN
    BY Zenon
  <2> QED BY ZenonT(90), <1>2, <2>1, <2>2, <2>3, <2>4 DEF WorkerTypeOK, WorkerValue
<1> QED BY Zenon, <1>1, <1>3, FS_EmptySet DEF WorkerInv, InFlightIsExact, HeldTogether, StopStage, NewWorker,
   WorkerAt

LEMMA WorkerNextInv == WorkerInv /\ [WorkerNext]_workerVars => WorkerInv'
<1> SUFFICES ASSUME WorkerInv, [WorkerNext]_workerVars PROVE WorkerInv'
  BY Zenon
<1> USE DEF WorkerInv, InFlightIsExact
<1>1. CASE WorkerDrainTimeout
  BY ZenonT(90), <1>1, SlotsUnchanged DEF WorkerDrainTimeout, StopStage, WorkerTypeOK, Pending
<1>2. CASE DrainDone
  BY <1>2, SlotsUnchanged, PendingIsBounded DEF DrainDone, StopStage, WorkerTypeOK, Pending
<1>3. CASE ReleaseAndReturn
  <2>1. Pending' = Pending /\ Pending = {} /\ ~worker.running
    BY Zenon, <1>3 DEF ReleaseAndReturn, StopStage, Pending
  <2>2. worker' = [worker EXCEPT !.sourceAdded = FALSE] /\ buffers' = {}
    BY Zenon, <1>3 DEF ReleaseAndReturn
  <2>3. /\ workerThread'.pc = "stopped" /\ workerThread' \in [pc : {"stopped"},
                       goal : {"launch", "serve", "restart", "retry", "launchFailed", "restartFailed",
                               "abandon", "shutdown"},
                       result : {"ok", "error", "timeout"}]
    BY Zenon, <1>3 DEF ReleaseAndReturn, WorkerTypeOK
  <2>4. WorkerTypeOK'
    BY Zenon, <1>3, <2>2, <2>3 DEF ReleaseAndReturn, WorkerTypeOK
  <2>5. HeldTogether' /\ StopStage'
    BY ZenonT(90), <2>1, <2>2, <2>3 DEF HeldTogether, StopStage, WorkerTypeOK
  <2> QED BY Zenon, <1>3, <2>1, <2>4, <2>5 DEF ReleaseAndReturn
<1>4. CASE StartFailsBeforeSubmitting
  BY <1>4, SlotsUnchanged DEF StartFailsBeforeSubmitting, StopStage, HeldTogether, NewWorker, WorkerTypeOK,
     WorkerAt, Pending
<1>5. ASSUME NEW n \in 0..SlotCount, WorkerStartSubmits(n) PROVE WorkerInv'
  <2> DEFINE started == [initialized |-> TRUE, running |-> TRUE, accepting |-> TRUE, sourceAdded |-> TRUE]
  <2>1. /\ usb' \in [Slots -> {"none", "busy", "sent", "failed"}] /\ Pending' \subseteq Slots
        /\ inUse' = Pending' /\ inFlight' = Cardinality(Pending') /\ inFlight' = n
        /\ n = 0 => Pending' = {}
    BY <1>5, StartCounts
  <2>2. buffers' = Slots /\ UNCHANGED <<workerStopRequested, current, terminated>>
    BY Zenon, <1>5 DEF WorkerStartSubmits
  <2>3. CASE n = SlotCount
    <3>1. worker' = started /\ workerThread' = WorkerAt("loop", "serve")
      BY Zenon, <1>5, <2>3 DEF WorkerStartSubmits
    <3>2. WorkerTypeOK'
      BY Zenon, <2>1, <2>2, <3>1 DEF WorkerTypeOK, WorkerAt
    <3> QED BY Zenon, <2>1, <2>2, <3>1, <3>2 DEF HeldTogether, StopStage, WorkerAt
  <2>4. CASE n # SlotCount
    <3>1. PICK goal \in {"launchFailed", "restartFailed"} : Stop(goal, started, n)
      BY Zenon, <1>5, <2>4 DEF WorkerStartSubmits
    <3>2. worker' = [initialized |-> TRUE, running |-> FALSE, accepting |-> FALSE, sourceAdded |-> TRUE]
      BY Zenon, <3>1 DEF Stop
    <3>3. PICK drained \in {"ok", "error"} :
            workerThread' = [pc |-> IF n # 0 THEN "drain" ELSE "release", goal |-> goal, result |-> drained]
      BY Zenon, <3>1 DEF Stop
    <3>4. WorkerTypeOK'
      BY <2>1, <2>2, <3>2, <3>3 DEF WorkerTypeOK
    <3> QED BY Zenon, <2>1, <2>2, <3>2, <3>3, <3>4 DEF HeldTogether, StopStage
  <2> QED BY Zenon, <2>3, <2>4
<1>6. CASE RetryStop
  BY ZenonT(90), <1>6, StopInv DEF RetryStop
<1>7. CASE RetryReturns
  BY <1>7, SlotsUnchanged DEF RetryReturns, StopStage, WorkerTypeOK, Pending, WorkerAt
<1>8. CASE WorkerSwap
  <2>1. Pending = {} /\ inFlight = 0 /\ ~worker.running
    BY ZenonT(90), <1>8, PendingIsBounded DEF WorkerSwap, StopStage
  <2> QED BY Zenon, <1>8, <2>1, NewWorkerInv DEF WorkerSwap, Destroy
<1>9. CASE SwapAllocationFails
  BY SMTT(60), <1>9, SlotsUnchanged DEF SwapAllocationFails, StopStage, WorkerTypeOK, WorkerAt, Pending
<1>10. CASE FailedStartReturns
  BY <1>10, SlotsUnchanged DEF FailedStartReturns, StopStage, WorkerTypeOK, Pending, WorkerAt
<1>11. CASE ShutdownStop
  BY Zenon, <1>11, StopInv DEF ShutdownStop
<1>12. CASE ShutdownReturns
  <2>1. CASE workerThread.result # "ok"
    BY <1>12, <2>1, SlotsUnchanged DEF ShutdownReturns, StopStage, WorkerTypeOK, WorkerAt, Pending
  <2>2. CASE workerThread.result = "ok"
    <3>1. Pending = {} /\ inFlight = 0 /\ ~worker.running
      BY Zenon, <1>12, <2>2, PendingIsBounded DEF ShutdownReturns, StopStage
    <3> QED BY Zenon, <1>12, <2>2, <3>1, NewWorkerInv DEF ShutdownReturns, Destroy
  <2> QED BY ZenonT(90), <2>1, <2>2
<1>13. ASSUME NEW s \in Slots, didComplete(s) PROVE WorkerInv'
  <2>1. /\ usb' \in [Slots -> {"none", "busy", "sent", "failed"}]
        /\ inUse' = Pending' /\ inFlight' = Cardinality(Pending')
    BY Zenon, <1>13, CompletionCounts
  <2>2. worker' \in {worker, [worker EXCEPT !.running = FALSE, !.accepting = FALSE]}
    BY Zenon, <1>13 DEF didComplete, Resubmit
  <2>3. /\ worker.sourceAdded /\ workerThread.pc \in {"loop", "drain"}
        /\ UNCHANGED <<buffers, workerThread, workerStopRequested, current, terminated>>
    BY Zenon, <1>13 DEF didComplete
  <2>4. worker' \in WorkerValue /\ worker'.sourceAdded /\ (worker.initialized => worker'.initialized)
        /\ (~worker.running => ~worker'.running)
    BY ZenonT(90), <2>2, <2>3 DEF WorkerTypeOK, WorkerValue
  <2>5. Pending' \subseteq Slots /\ inFlight' \in 0..SlotCount
    <3>1. Pending' \in SUBSET Slots
      BY Zenon DEF Pending
    <3> QED BY SMTT(60), <2>1, <3>1, SlotsAreFinite, FS_Subset, FS_CardinalityType, SlotAssumption
  <2>6. WorkerTypeOK'
    BY ZenonT(90), <2>1, <2>3, <2>4, <2>5 DEF WorkerTypeOK, WorkerValue
  <2> QED BY Zenon, <2>1, <2>3, <2>4, <2>6 DEF HeldTogether, StopStage
<1>14. ASSUME NEW s \in Slots, NEW status \in {"sent", "failed"}, UsbFinish(s, status) PROVE WorkerInv'
  <2>1. Pending' = Pending /\ usb' \in [Slots -> {"none", "busy", "sent", "failed"}]
    BY ZenonT(90), <1>14 DEF UsbFinish, Pending, WorkerTypeOK
  <2> QED BY <1>14, <2>1 DEF UsbFinish, WorkerTypeOK, HeldTogether, StopStage
<1>15. CASE RequestStop
  BY <1>15, SlotsUnchanged DEF RequestStop, StopStage, WorkerTypeOK, Pending
<1>16. CASE WorkerLaunch
  BY ZenonT(90), <1>16, SlotsUnchanged DEF WorkerLaunch, StopStage, WorkerTypeOK, Pending, WorkerAt
<1>17. CASE DeviceChanges
  BY SMTT(60), <1>17, SlotsUnchanged DEF DeviceChanges, StopStage, WorkerTypeOK, Pending
<1>18. CASE UNCHANGED workerVars
  BY <1>18, SlotsUnchanged DEF workerVars, StopStage, WorkerTypeOK, Pending
<1> QED
  BY ZenonT(90), <1>1, <1>2, <1>3, <1>4, <1>5, <1>6, <1>7, <1>8, <1>9, <1>10, <1>11, <1>12, <1>13, <1>14, <1>15,
     <1>16, <1>17, <1>18
  DEF WorkerNext, WorkerThreadStep

LEMMA WorkerInductive == WorkerSpec => []WorkerInv
BY WorkerInitInv, WorkerNextInv, PTL DEF WorkerSpec

\* For every number of slots: inFlight counts the transfers whose callback is due,
\* none of them outlives its buffers, its event source or its worker, and the
\* destructor never terminates (AudioOutWorker::stop, releaseEvents, releaseBuffers,
\* ~AudioOutWorker, AudioTransportRuntime::workerMain).
THEOREM TransfersKeepTheirResources == WorkerSpec => []ResourcesOutliveTransfers
<1>1. WorkerInv => ResourcesOutliveTransfers
  BY Zenon DEF WorkerInv, ResourcesOutliveTransfers, HeldTogether
<1> QED BY <1>1, WorkerInductive, PTL

-----------------------------------------------------------------------------
(* The contract                                                            *)

\* A step of the worker is a step of the contract, or none.
LEMMA WorkerStepKeepsContract ==
  ASSUME WorkerInv, WorkerInv', [WorkerNext]_workerVars
  PROVE  [Contract!ContractNext]_(Contract!contractVars)
<1> USE DEF Contract!contractVars
<1>0. /\ worker \in WorkerValue /\ worker' \in WorkerValue
      /\ Cardinality(Pending) \in 0..SlotCount /\ inFlight = Cardinality(Pending)
      /\ Cardinality(Pending) = 0 <=> Pending = {}
  BY Zenon, PendingIsBounded DEF WorkerInv, InFlightIsExact, WorkerTypeOK, WorkerValue
<1>1. ASSUME UNCHANGED <<usb, worker>> PROVE UNCHANGED Contract!contractVars
  BY Zenon, <1>1 DEF Pending
<1>2. ASSUME NEW goal, Stop(goal, worker, inFlight), UNCHANGED usb
      PROVE  Contract!Halt \/ UNCHANGED Contract!contractVars
  <2>1. Pending' = Pending
    BY Zenon, <1>2 DEF Pending
  <2>2. \/ worker' = worker
        \/ worker' = [worker EXCEPT !.running = FALSE, !.accepting = FALSE]
    BY Zenon, <1>2 DEF Stop
  <2>3. /\ worker'.sourceAdded = worker.sourceAdded /\ worker.running \in BOOLEAN
        /\ worker'.running = worker.running \/ worker'.running = FALSE
    BY Zenon, <1>0, <2>2 DEF WorkerValue
  <2> QED BY Zenon, <2>1, <2>3 DEF Contract!Halt
<1>3. ASSUME Pending = {}, ~worker.running, UNCHANGED usb, worker'.sourceAdded = FALSE, worker'.running = FALSE
      PROVE  Contract!Disarm \/ UNCHANGED Contract!contractVars
  <2>1. Pending' = Pending /\ Cardinality(Pending) = 0
    BY Zenon, <1>0, <1>3 DEF Pending
  <2>2. worker.sourceAdded \in BOOLEAN /\ worker.running = FALSE
    BY Zenon, <1>0, <1>3 DEF WorkerValue
  <2> QED BY Zenon, <1>3, <2>1, <2>2 DEF Contract!Disarm
<1>4. CASE ReleaseAndReturn
  <2>1. Pending = {} /\ ~worker.running /\ worker' = [worker EXCEPT !.sourceAdded = FALSE] /\ UNCHANGED usb
    BY Zenon, <1>4 DEF ReleaseAndReturn, WorkerInv, StopStage
  <2>2. worker'.sourceAdded = FALSE /\ worker'.running = FALSE
    BY Zenon, <1>0, <2>1 DEF WorkerValue
  <2> QED BY Zenon, <1>3, <2>1, <2>2 DEF Contract!ContractNext
<1>5. CASE WorkerSwap \/ (ShutdownReturns /\ workerThread.result = "ok")
  <2>1. Pending = {} /\ ~worker.running /\ worker' = NewWorker /\ UNCHANGED usb
    BY Zenon, <1>5 DEF WorkerSwap, ShutdownReturns, WorkerInv, StopStage
  <2>2. worker'.sourceAdded = FALSE /\ worker'.running = FALSE
    BY Zenon, <2>1 DEF NewWorker
  <2> QED BY Zenon, <1>3, <2>1, <2>2 DEF Contract!ContractNext
<1>6. ASSUME NEW n \in 0..SlotCount, WorkerStartSubmits(n) PROVE Contract!ContractNext
  <2>1. ~worker.sourceAdded
    BY <1>6 DEF WorkerStartSubmits, WorkerInv, StopStage, NewWorker
  <2>2. Cardinality(Pending') \in 0..SlotCount
    BY Zenon, <1>6, StartCounts
  <2>3. worker'.sourceAdded = TRUE
    <3> DEFINE started == [initialized |-> TRUE, running |-> TRUE, accepting |-> TRUE, sourceAdded |-> TRUE]
    <3>1. CASE n = SlotCount
      BY <1>6, <3>1 DEF WorkerStartSubmits
    <3>2. CASE n # SlotCount
      <4>1. PICK goal \in {"launchFailed", "restartFailed"} : Stop(goal, started, n)
        BY Zenon, <1>6, <3>2 DEF WorkerStartSubmits
      <4> QED BY Zenon, <4>1 DEF Stop
    <3> QED BY Zenon, <3>1, <3>2
  <2>4. worker'.running \in BOOLEAN
    BY Zenon, <1>0 DEF WorkerValue
  <2> QED BY ZenonT(90), <2>1, <2>2, <2>3, <2>4 DEF Contract!ContractNext, Contract!Arm
<1>7. ASSUME NEW s \in Slots, didComplete(s) PROVE Contract!ContractNext
  <2>1. /\ Cardinality(Pending) > 0
        /\ \/ Cardinality(Pending') = Cardinality(Pending) - 1
           \/ Cardinality(Pending') = Cardinality(Pending) /\ worker.running
    BY <1>0, <1>7, CompletionCounts
  <2>2. worker' \in {worker, [worker EXCEPT !.running = FALSE, !.accepting = FALSE]}
    BY Zenon, <1>7 DEF didComplete, Resubmit
  <2>3. /\ worker'.sourceAdded = worker.sourceAdded /\ worker.running \in BOOLEAN
        /\ worker'.running \in BOOLEAN /\ (~worker.running => worker'.running = FALSE)
    BY Zenon, <1>0, <2>2 DEF WorkerValue
  <2> QED BY Zenon, <2>1, <2>3 DEF Contract!ContractNext, Contract!Return
<1>8. ASSUME NEW s \in Slots, NEW status \in {"sent", "failed"}, UsbFinish(s, status)
      PROVE  UNCHANGED Contract!contractVars
  <2>1. Pending' = Pending
    BY Zenon, <1>8 DEF UsbFinish, Pending, WorkerInv, InFlightIsExact, WorkerTypeOK
  <2> QED BY Zenon, <1>8, <2>1 DEF UsbFinish
<1>9. CASE RetryStop \/ ShutdownStop
  BY Zenon, <1>2, <1>9 DEF RetryStop, ShutdownStop, Contract!ContractNext
<1>10. CASE \/ WorkerDrainTimeout \/ DrainDone \/ StartFailsBeforeSubmitting \/ RetryReturns
            \/ SwapAllocationFails \/ FailedStartReturns \/ RequestStop \/ WorkerLaunch \/ DeviceChanges
            \/ (ShutdownReturns /\ workerThread.result # "ok") \/ UNCHANGED workerVars
  <2>1. UNCHANGED <<usb, worker>>
    BY Zenon, <1>10 DEF WorkerDrainTimeout, DrainDone, StartFailsBeforeSubmitting, RetryReturns, SwapAllocationFails,
       FailedStartReturns, RequestStop, WorkerLaunch, DeviceChanges, ShutdownReturns, workerVars
  <2> QED BY Zenon, <1>1, <2>1
<1> QED
  BY ZenonT(90), <1>4, <1>5, <1>6, <1>7, <1>8, <1>9, <1>10 DEF WorkerNext, WorkerThreadStep

\* The worker with its replacements implements the contract of an endpoint worker:
\* it holds buffers and event source until the last transfer is back, and submits
\* nothing once it is halted (AudioOutWorker under AudioTransportRuntime::workerMain).
THEOREM WorkerImplementsContract == WorkerSpec => KeepsContract
<1>1. WorkerInit => Contract!ContractInit
  <2> SUFFICES ASSUME WorkerInit PROVE Contract!ContractInit
    BY Zenon
  <2>1. Pending = {}
    BY Zenon DEF WorkerInit, Pending
  <2> QED BY Zenon, <2>1, FS_EmptySet DEF WorkerInit, NewWorker, Contract!ContractInit
<1>2. WorkerInv /\ WorkerInv' /\ [WorkerNext]_workerVars => [Contract!ContractNext]_(Contract!contractVars)
  BY Zenon, WorkerStepKeepsContract
<1> QED BY <1>1, <1>2, WorkerInductive, PTL DEF WorkerSpec, KeepsContract, Contract!ContractSpec

-----------------------------------------------------------------------------
(* The composition                                                         *)

\* A behaviour of the parts side by side is a behaviour of each of them, so what is
\* proved of a part holds where the parts are checked together.
THEOREM PartsKeepTheirSpecs == PartSpec => SessionSpec /\ ActivationSpec /\ WorkerSpec
<1>1. PartInit => SessionInit /\ ActivationInit /\ WorkerInit
  BY Zenon DEF PartInit
<1>2. [PartNext]_partVars =>
        [SessionNext]_sessionVars /\ [ActivationNext]_activationVars /\ [WorkerNext]_workerVars
  <2> SUFFICES ASSUME [PartNext]_partVars
               PROVE  /\ SessionNext \/ UNCHANGED sessionVars
                      /\ ActivationNext \/ UNCHANGED activationVars
                      /\ WorkerNext \/ UNCHANGED workerVars
    BY Zenon
  <2> QED BY Zenon DEF PartNext, partVars, Of, OfSession, OfActivation, OfWorker, OfKeepalive
<1> QED BY <1>1, <1>2, PTL DEF PartSpec, SessionSpec, ActivationSpec, WorkerSpec
=============================================================================
