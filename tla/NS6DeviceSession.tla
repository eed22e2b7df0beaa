-------------------------- MODULE NS6DeviceSession --------------------------
(***************************************************************************)
(* NS6DeviceSession::open and close: the two USB interfaces of one         *)
(* controller, found among the devices on the bus, claimed one after the   *)
(* other, with every call able to fail and controllers coming and going    *)
(* between the calls.                                                      *)
(*                                                                         *)
(* The audio mode and the clients of the event sources are modelled in     *)
(* ControllerActivation and AudioTransportRuntime; the firmware query is a *)
(* diagnostic and is left out.                                             *)
(***************************************************************************)
EXTENDS Integers, FiniteSets

CONSTANTS
  Devices,      \* registry entry IDs of the controllers that may be plugged in
  NoDevice,     \* the ID 0
  MaxAttempts   \* searches for the interfaces after the configuration, 20 in the code

ASSUME SessionAssumption == NoDevice \notin Devices /\ MaxAttempts \in Nat \ {0}

Numbers == {0, 1}   \* interface_ and auxiliaryInterface_

VARIABLES
  member,     \* the members of the session for each interface
  id,         \* deviceID_
  sessionPc,         \* open(): the next call and its interface; "idle" outside
  matched,    \* the local deviceID of open()
  attempt,    \* the local attempt of open()
  bus,        \* devices plugged in (external)
  published,  \* devices whose interfaces are in the registry (external)
  kept        \* what the process has not given back, by interface (external)

sessionVars == <<member, id, sessionPc, matched, attempt, bus, published, kept>>

NoInterface == [device |-> NoDevice, opened |-> FALSE, pipes |-> {}, source |-> FALSE]
NothingKept == [objects |-> 0, claims |-> 0, sources |-> 0]
Idle == <<"idle", 0>>

SessionInit ==
  /\ member = [n \in Numbers |-> NoInterface] /\ id = NoDevice
  /\ sessionPc = Idle /\ matched = NoDevice /\ attempt = 0
  /\ bus \in SUBSET Devices /\ published \in SUBSET bus
  /\ kept = [n \in Numbers |-> NothingKept]
-----------------------------------------------------------------------------
(* close()                                                                 *)

Count(b) == IF b THEN 1 ELSE 0

\* Every member that is set is given back, starting from members m; errors of the
\* calls are reported and change nothing.
CloseFrom(m, k) ==
  /\ member' = [n \in Numbers |-> NoInterface]
  /\ id' = NoDevice
  /\ kept' = [n \in Numbers |-> [objects |-> k[n].objects - Count(m[n].device # NoDevice),
                                 claims |-> k[n].claims - Count(m[n].opened),
                                 sources |-> k[n].sources - Count(m[n].source)]]

SessionClose ==
  /\ sessionPc = Idle
  /\ CloseFrom(member, kept)
  /\ UNCHANGED <<sessionPc, matched, attempt, bus, published>>
-----------------------------------------------------------------------------
(* open()                                                                  *)

\* Its return.  The locals are gone.
Leave == sessionPc' = Idle /\ matched' = NoDevice /\ attempt' = 0

Fails ==
  /\ CloseFrom(member, kept)
  /\ Leave
  /\ UNCHANGED <<bus, published>>

\* An error before the first interface is claimed returns without close().
FailsEarly ==
  /\ Leave
  /\ UNCHANGED <<member, id, bus, published, kept>>

\* Faulty variant: the second interface may be that of another controller.
MatchingAny(wanted) == bus \cap published

\* matchingInterface(): the high-speed NS6 devices, or the wanted one.
Matching(wanted) == {d \in bus \cap published : wanted \in {NoDevice, d}}

Found(n, d) ==
  /\ member' = [member EXCEPT ![n].device = d]
  /\ kept' = [kept EXCEPT ![n].objects = @ + 1]
  /\ sessionPc' = <<"seize", n>>

Open ==
  /\ sessionPc = Idle /\ ~member[0].opened
  /\ sessionPc' = <<"match", 0>>
  /\ UNCHANGED <<member, id, matched, attempt, bus, published, kept>>

\* The first interface; if there is none the device is configured, and the search
\* repeated.  One whose plug-in cannot be made is passed over.
MatchMain ==
  /\ sessionPc = <<"match", 0>>
  /\ \/ \E d \in Matching(NoDevice) :
          Found(0, d) /\ matched' = d /\ UNCHANGED <<attempt, id>>
     \/ /\ attempt = 0
        /\ sessionPc' = <<"configure", 0>>
        /\ UNCHANGED <<member, id, matched, attempt, kept>>
     \/ /\ attempt \in 1..(MaxAttempts - 1)
        /\ attempt' = attempt + 1
        /\ UNCHANGED <<member, id, sessionPc, matched, kept>>
  /\ UNCHANGED <<bus, published>>

MatchMainFails ==
  /\ sessionPc = <<"match", 0>>
  /\ FailsEarly

\* configureDevice(): any of the controllers is opened, set to its configuration,
\* whose interfaces are then published, and closed.
SessionConfigure ==
  /\ sessionPc = <<"configure", 0>>
  /\ bus # {}
  /\ \E d \in bus : published' \in {published, published \cup {d}}
  /\ sessionPc' = <<"match", 0>> /\ attempt' = 1
  /\ UNCHANGED <<member, id, matched, bus, kept>>

SessionConfigureFails ==
  /\ sessionPc = <<"configure", 0>>
  /\ FailsEarly

\* A call to the device of interface n can only succeed while it is there.
Present(n) == member[n].device \in bus

Seize(n) ==
  /\ sessionPc = <<"seize", n>> /\ Present(n)
  /\ member' = [member EXCEPT ![n].opened = TRUE]
  /\ kept' = [kept EXCEPT ![n].claims = @ + 1]
  /\ sessionPc' = <<"endpoints", n>>
  /\ UNCHANGED <<id, matched, attempt, bus, published>>

\* The interface that cannot be claimed is released first; then close().
SeizeFails(n) ==
  /\ sessionPc = <<"seize", n>>
  /\ CloseFrom([member EXCEPT ![n] = NoInterface], [kept EXCEPT ![n].objects = @ - 1])
  /\ Leave
  /\ UNCHANGED <<bus, published>>

AllPipes(n) == IF n = 0 THEN {"audioOut", "midiIn", "midiOut"} ELSE {"feedback", "audioIn"}
Needed(n) == IF n = 0 THEN {"audioOut"} ELSE {"feedback", "audioIn"}

\* The alternate setting is chosen and the pipes looked up; those of MIDI may lack.
FindPipes(n) ==
  /\ sessionPc = <<"endpoints", n>> /\ Present(n)
  /\ \E found \in SUBSET AllPipes(n) :
       /\ Needed(n) \subseteq found
       /\ member' = [member EXCEPT ![n].pipes = found]
  /\ sessionPc' = <<"source", n>>
  /\ UNCHANGED <<id, matched, attempt, bus, published, kept>>

\* The event source; after the second one the session is open.
CreateSource(n) ==
  /\ sessionPc = <<"source", n>> /\ Present(n)
  /\ member' = [member EXCEPT ![n].source = TRUE]
  /\ kept' = [kept EXCEPT ![n].sources = @ + 1]
  /\ IF n = 0 THEN sessionPc' = <<"match", 1>> /\ UNCHANGED <<id, matched, attempt>>
              ELSE id' = matched /\ Leave
  /\ UNCHANGED <<bus, published>>

\* The second interface of the same device.
MatchAuxiliary ==
  /\ sessionPc = <<"match", 1>>
  /\ \E d \in Matching(matched) : Found(1, d)
  /\ UNCHANGED <<id, matched, attempt, bus, published>>

\* Any of the calls fails, or a pipe is missing.
CallFails ==
  /\ sessionPc[1] \in {"endpoints", "source"} \/ sessionPc = <<"match", 1>>
  /\ Fails
-----------------------------------------------------------------------------
(* The bus                                                                 *)

Unplug(d) ==
  /\ d \in bus
  /\ bus' = bus \ {d} /\ published' = published \ {d}
  /\ UNCHANGED <<member, id, sessionPc, matched, attempt, kept>>

\* A controller may come up configured or not.
Plug(d) ==
  /\ d \notin bus
  /\ bus' = bus \cup {d} /\ published' \in {published, published \cup {d}}
  /\ UNCHANGED <<member, id, sessionPc, matched, attempt, kept>>

SessionNext ==
  \/ Open \/ MatchMain \/ MatchMainFails \/ SessionConfigure \/ SessionConfigureFails
  \/ \E n \in Numbers : Seize(n) \/ SeizeFails(n) \/ FindPipes(n) \/ CreateSource(n)
  \/ MatchAuxiliary \/ CallFails \/ SessionClose
  \/ \E d \in Devices : Unplug(d) \/ Plug(d)

SessionSpec == SessionInit /\ [][SessionNext]_sessionVars
-----------------------------------------------------------------------------
\* The types.
SessionTypeOK ==
  /\ member \in [Numbers -> [device : Devices \cup {NoDevice}, opened : BOOLEAN,
                             pipes : SUBSET (AllPipes(0) \cup AllPipes(1)), source : BOOLEAN]]
  /\ {id, matched} \subseteq Devices \cup {NoDevice}
  /\ attempt \in 0..MaxAttempts
  /\ published \subseteq bus /\ bus \subseteq Devices
  /\ kept \in [Numbers -> [objects : 0..1, claims : 0..1, sources : 0..1]]

\* open() gives all or nothing: it returns with both interfaces claimed, their pipes
\* found and their event sources made, or with nothing kept, whichever call failed;
\* and both belong to the device isCurrentDevice() compares with the bus, even if
\* controllers are exchanged while open() runs.
AllOrNothing ==
  /\ SessionTypeOK
  /\ sessionPc = Idle =>
       IF member[0].opened
       THEN \A n \in Numbers : /\ member[n].opened /\ member[n].source /\ Needed(n) \subseteq member[n].pipes
                               /\ kept[n] = [objects |-> 1, claims |-> 1, sources |-> 1]
                               /\ member[n].device = id /\ id \in Devices
       ELSE \A n \in Numbers : member[n] = NoInterface /\ kept[n] = NothingKept

=============================================================================
