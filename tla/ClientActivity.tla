--------------------------- MODULE ClientActivity ---------------------------
(***************************************************************************)
(* Which clients the plug-in lists as active: those that started a device, *)
(* and those that did I/O in the last two seconds.                         *)
(*                                                                         *)
(* Every client has a slot in activity[], which AddDeviceClient finds free *)
(* and RemoveDeviceClient frees, both under the mutex.  BeginIOOperation   *)
(* runs on I/O threads without it: it finds the slot that has its client's *)
(* key and then stores the time there, and handlers run in between.  The   *)
(* property ActiveClients reads the clock before it takes the mutex.       *)
(*                                                                         *)
(* A time is known here by whether it is recent, and for the properties by *)
(* whose I/O it is of.  What the handlers do besides is NS6AudioDriver.    *)
(* The text has room for 60 of the longest lines and is not cut here.      *)
(***************************************************************************)
EXTENDS DriverProperties, FiniteSets

CONSTANTS
  Clients,         \* client ids
  NoProcess,       \* those of them whose process id is not positive
  TableSize,       \* the 64 entries of clients[] and activity[]
  MaxClientStarts  \* bound on the starts of one client

ASSUME ActivityAssumption ==
  NoProcess \subseteq Clients /\ TableSize \in Nat /\ MaxClientStarts \in Nat

VARIABLES
  table,       \* attached <<device, id>> -> its starts and its slot
  activity,    \* slot -> its key, and whose I/O a recent lastIO is of
  operations,  \* BeginIOOperations that have found their slot
  reading      \* ActiveClients: the clock is read; the slots stored to with a later time

activityVars == <<table, activity, operations, reading>>

Entries == 1..TableSize
Nobody == <<>>

\* "none": lastIO is zero or more than two seconds old.  "own": of the client that has
\* the slot; "left": of one that has left since; "late": stored for one that had left.
Owners == {"none", "own", "left", "late"}

ActivityInit ==
  /\ table = <<>>
  /\ activity = [k \in Entries |-> [key |-> Nobody, last |-> "none"]]
  /\ operations = {}
  /\ reading = [clock |-> FALSE, later |-> {}]

Unused == {k \in Entries : activity[k].key = Nobody}

\* Faulty variant: lastIO is what the client before left there.
AddDeviceClientKeepingTime(d, i) ==
  /\ <<d, i>> \notin DOMAIN table
  /\ Cardinality(DOMAIN table) < TableSize
  /\ \E k \in Unused :
       /\ \A other \in Unused : k <= other
       /\ table' = [p \in DOMAIN table \cup {<<d, i>>} |->
                      IF p = <<d, i>> THEN [starts |-> 0, slot |-> k] ELSE table[p]]
       /\ activity' = [activity EXCEPT ![k].key = <<d, i>>]
  /\ UNCHANGED <<operations, reading>>

AddDeviceClient(d, i) ==
  /\ <<d, i>> \notin DOMAIN table
  /\ Cardinality(DOMAIN table) < TableSize
  /\ \E k \in Unused :
       /\ \A other \in Unused : k <= other
       /\ table' = [p \in DOMAIN table \cup {<<d, i>>} |->
                      IF p = <<d, i>> THEN [starts |-> 0, slot |-> k] ELSE table[p]]
       /\ activity' = [activity EXCEPT ![k] = [key |-> <<d, i>>, last |-> "none"]]
  /\ UNCHANGED <<operations, reading>>

\* The time stays in the slot; the operations that found it go on.
RemoveDeviceClient(p) ==
  LET k == table[p].slot
  IN  /\ table' = [q \in DOMAIN table \ {p} |-> table[q]]
      /\ activity' = [activity EXCEPT
                        ![k] = [key |-> Nobody, last |-> IF @.last = "own" THEN "left" ELSE @.last]]
      /\ operations' = {[o EXCEPT !.late = o.late \/ o.slot = k] : o \in operations}
      /\ UNCHANGED reading

\* StartIO and StopIO that succeed.
StartDeviceIO(p) ==
  /\ table[p].starts < MaxClientStarts
  /\ table' = [table EXCEPT ![p].starts = @ + 1]
  /\ UNCHANGED <<activity, operations, reading>>

StopDeviceIO(p) ==
  /\ table[p].starts # 0
  /\ table' = [table EXCEPT ![p].starts = @ - 1]
  /\ UNCHANGED <<activity, operations, reading>>

\* A client that is not, or not yet, in the table finds no slot.
FindActivity(d, i) ==
  /\ \E k \in Entries :
       activity[k].key = <<d, i>> /\ operations' = operations \cup {[slot |-> k, late |-> FALSE]}
  /\ UNCHANGED <<table, activity, reading>>

\* The time may be of before or after the moment a reader read the clock.
StoreLastIO(o) ==
  /\ activity' = [activity EXCEPT ![o.slot].last = IF o.late THEN "late" ELSE "own"]
  /\ operations' = operations \ {o}
  /\ \/ reading.clock /\ reading' = [reading EXCEPT !.later = @ \cup {o.slot}]
     \/ reading' = [reading EXCEPT !.later = @ \ {o.slot}]
  /\ UNCHANGED table

\* Two seconds pass without another store.
Age(k) ==
  /\ activity[k].last # "none"
  /\ activity' = [activity EXCEPT ![k].last = "none"]
  /\ UNCHANGED <<table, operations, reading>>

ReadClock ==
  /\ ~reading.clock
  /\ reading' = [clock |-> TRUE, later |-> {}]
  /\ UNCHANGED <<table, activity, operations>>

\* The list is made under the mutex, of ActiveClients as they are then.
MakeList ==
  /\ reading.clock
  /\ reading' = [clock |-> FALSE, later |-> {}]
  /\ UNCHANGED <<table, activity, operations>>

\* A time after the reader's clock is not recent.
Recent(k) == activity[k].last # "none" /\ k \notin reading.later

ActiveClients(d) ==
  {i \in Clients \ NoProcess :
     /\ <<d, i>> \in DOMAIN table
     /\ table[<<d, i>>].starts # 0 \/ Recent(table[<<d, i>>].slot)}

ActivityNext ==
  \/ \E d \in Devices, i \in Clients : AddDeviceClient(d, i) \/ FindActivity(d, i)
  \/ \E p \in DOMAIN table : RemoveDeviceClient(p) \/ StartDeviceIO(p) \/ StopDeviceIO(p)
  \/ \E o \in operations : StoreLastIO(o)
  \/ \E k \in Entries : Age(k)
  \/ ReadClock \/ MakeList

ActivitySpec == ActivityInit /\ [][ActivityNext]_activityVars
-----------------------------------------------------------------------------
\* The types.
ActivityTypeOK ==
  /\ DOMAIN table \subseteq Devices \X Clients
  /\ \A p \in DOMAIN table : table[p] \in [starts : 0..MaxClientStarts, slot : Entries]
  /\ activity \in [Entries -> [key : {Nobody} \cup (Devices \X Clients), last : Owners]]
  /\ operations \subseteq [slot : Entries, late : BOOLEAN]
  /\ reading \in [clock : BOOLEAN, later : SUBSET Entries]

\* Who is listed as active: a client that started the device, whatever slot it has,
\* and one that did I/O itself in the last two seconds.  The I/O of a client that
\* left is never taken for that of the client that got its slot, unless it was
\* stored only after the slot had been freed.  An operation that was not overtaken
\* so stores into the slot of an attached client.
ListsActiveClients ==
  /\ ActivityTypeOK
  /\ \A p \in DOMAIN table :
       /\ activity[table[p].slot].key = p
       /\ table[p].starts # 0 /\ p[2] \notin NoProcess => p[2] \in ActiveClients(p[1])
  /\ \A d \in Devices : \A i \in ActiveClients(d) :
       table[<<d, i>>].starts # 0 \/ activity[table[<<d, i>>].slot].last \in {"own", "late"}
  /\ \A o \in operations :
       ~o.late => \E p \in DOMAIN table : table[p].slot = o.slot

\* CoreAudio asks whether there is a property, for its size, then for its data: the
\* three tables agree on whatever the plug-in, its devices and its streams have; and
\* the one property whose value is put together from the records of two sides, the
\* handlers' table and the I/O threads' times, lists the right clients.
PropertiesAgree == SizesAgree /\ ObjectsAgree /\ ListsActiveClients
=============================================================================
