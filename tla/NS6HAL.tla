----------------------------- MODULE NS6HAL -----------------------------
(* The CoreAudio plug-in of the earlier driver (NS6HAL.c with NS6HALMapping.h *)
(* and NS6IOClientAccounting.h) as a client of the device service.  CoreAudio  *)
(* clients start, stop and disappear; a monitor thread checks the session once  *)
(* a second and replaces a client handle that does not answer; both hold        *)
(* stream_lock through their exchanges.  I/O callbacks take no lock: they pin    *)
(* the published mapping and use the memory of its handle.                       *)
EXTENDS NS6DeviceServiceMain

CONSTANTS
    Plugin,      \* the process of the plug-in; its handles are "dev", "new", "old"
    Clients,     \* CoreAudio clients of the device
    MaxRunning   \* bound on the starts of all clients together

ASSUME HalAssumption ==
    /\ {"dev", "new", "old"} \subseteq Handles /\ Plugin \in Processes
    /\ \A h \in {"dev", "new", "old"} : Owner[h] = Plugin
    /\ IsFiniteSet(Clients) /\ MaxRunning \in Nat

VARIABLES
    hal,      \* the plug-in's state under stream_lock
    mapping,  \* callback_mapping: [memory, session, readers], the store of NULL that is
              \* not visible yet (buffered), and whether the build lets a load pass it (weak)
    callback  \* the I/O thread: [at, memory, session], and whether it counted itself
              \* before the withdrawal under way, if any (early; not in the code)

HalInit ==
    /\ hal = [at |-> "init", ready |-> FALSE, clients |-> 0,
              tracked |-> {}, starts |-> [c \in Clients |-> 0], untracked |-> 0,
              running |-> [c \in Clients |-> 0], who |-> CHOOSE c \in Clients : TRUE,
              buffer |-> DefaultBuffer, setting |-> DefaultBuffer, missed |-> FALSE]
    /\ \E weak \in BOOLEAN :
           mapping = [memory |-> 0, session |-> 0, readers |-> 0, buffered |-> FALSE, weak |-> weak]
    /\ callback = [at |-> "idle", memory |-> 0, session |-> 0, early |-> FALSE]

Active == IF hal.clients > 0 THEN 1 ELSE 0
\* Each start CoreAudio has running, as the client and which of its starts it is.
RunningStarts == {p \in Clients \X (1..MaxRunning) : p[2] <= hal.running[p[1]]}
AllRunning == Cardinality(RunningStarts)

--------------------------------------------------------------------------
(* The lease of the mapping. *)

\* ns6_hal_mapping_withdraw stores NULL, which becomes visible some time later, and
\* waits for the readers it can see.  Release and acquire do not order the store
\* before the load of the count: a build that uses ldapr may wait before that time
\* too, one that uses ldar does not.
Withdraw == mapping' = [mapping EXCEPT !.buffered = TRUE]
MappingFlush ==
    /\ mapping.buffered
    /\ mapping' = [mapping EXCEPT !.memory = 0, !.buffered = FALSE]
    /\ UNCHANGED <<serviceVars, client, main, hal, callback>>
\* A faulty variant: the wait is left out.
UnpinnedAtOnce == TRUE
Unpinned == mapping.readers = 0 /\ (mapping.buffered => mapping.weak)
PublishMapping(c) ==
    mapping' = [mapping EXCEPT !.memory = c.id, !.session = c.session, !.buffered = FALSE]

\* ns6_hal_mapping_acquire counts the reader before it looks at the mapping.
CallbackPin ==
    /\ callback.at = "idle"
    /\ \E c \in Clients : hal.running[c] > 0
    /\ callback' = [callback EXCEPT !.at = "pinned", !.early = ~mapping.buffered]
    /\ mapping' = [mapping EXCEPT !.readers = @ + 1]
    /\ UNCHANGED <<serviceVars, client, main, hal>>

CallbackLease ==
    /\ callback.at = "pinned"
    /\ IF mapping.memory = 0
       THEN /\ callback' = [callback EXCEPT !.at = "idle", !.early = FALSE]
            /\ mapping' = [mapping EXCEPT !.readers = @ - 1]
       ELSE /\ callback' = [callback EXCEPT !.at = "using", !.memory = mapping.memory,
                                             !.session = mapping.session]
            /\ UNCHANGED mapping
    /\ UNCHANGED <<serviceVars, client, main, hal>>

\* do_io ends: ns6_device_session_io_end and ns6_hal_mapping_release.
CallbackRelease ==
    /\ callback.at = "using"
    /\ callback' = [at |-> "idle", memory |-> 0, session |-> 0, early |-> FALSE]
    /\ mapping' = [mapping EXCEPT !.readers = @ - 1]
    /\ UNCHANGED <<serviceVars, client, main, hal>>

CallbackStep == CallbackLease \/ CallbackRelease

--------------------------------------------------------------------------
(* The steps that hold stream_lock.  hal.at names the exchange or the wait the *)
(* thread that holds it is in; "free" means nobody does. *)

\* Goes on at a step without a call, or sends a control request and waits there.
Stay == UNCHANGED <<port, client>> /\ Forget(Plugin)
Then(at) == hal' = [hal EXCEPT !.at = at]
Unchanged == UNCHANGED <<alive, service, usb, main, callback>>

Ok == Succeeded(Plugin)
AnswerAt(at) == hal.at = at /\ Returned(Plugin)

\* initialize: connect, send the stored buffer size, publish the mapping.
Initialize ==
    /\ hal.at = "init"
    /\ SendHello("dev")
    /\ Then("initHello")
    /\ UNCHANGED mapping /\ Unchanged

InitializeHello ==
    /\ AnswerAt("initHello")
    /\ client' = HelloReturned("dev")
    /\ IF Ok THEN /\ Send(Request("buffer", Plugin, client["dev"].id,
                                  answer[Plugin].session, hal.buffer))
                  /\ Then("initBuffer")
       ELSE /\ Then("free") /\ Forget(Plugin) /\ UNCHANGED port
    /\ UNCHANGED mapping /\ Unchanged

InitializeBuffer ==
    /\ AnswerAt("initBuffer")
    /\ UNCHANGED client
    /\ IF Ok
       THEN /\ PublishMapping(client["dev"])
            /\ hal' = [hal EXCEPT !.at = "free", !.ready = TRUE]
            /\ Forget(Plugin) /\ UNCHANGED port
       ELSE /\ SendControl("release", "dev", 0)
            /\ Then("dropDev")
            /\ UNCHANGED mapping
    /\ Unchanged

--------------------------------------------------------------------------
(* device_service_monitor, one round a second. *)

MonitorPoll ==
    /\ hal.at = "free"
    /\ IF Connected("dev")
       THEN SendControl("state", "dev", 0) /\ Then("state") /\ UNCHANGED client
       ELSE SendHello("new") /\ Then("hello")
    /\ UNCHANGED mapping /\ Unchanged

\* Another session answers: the handle is kept, and no other is ever opened.
MonitorReplaced ==
    /\ AnswerAt("state")
    /\ StateReplaced(Plugin)
    /\ Withdraw
    /\ Then("replaced")
    /\ Stay /\ Unchanged

MonitorSuperseded ==
    /\ hal.at = "replaced"
    /\ Unpinned
    /\ hal' = [hal EXCEPT !.at = "free", !.ready = FALSE]
    /\ UNCHANGED <<port, client, answer, mapping>> /\ Unchanged

MonitorReady ==
    /\ AnswerAt("state")
    /\ StateReady(Plugin)
    /\ IF hal.ready
       THEN hal' = [hal EXCEPT !.at = "free"] /\ Stay
       ELSE /\ hal' = [hal EXCEPT !.at = "reattach"]
            /\ SendControl("active", "dev", Active)
            /\ UNCHANGED client
    /\ UNCHANGED mapping /\ Unchanged

MonitorReattached ==
    /\ AnswerAt("reattach")
    /\ IF Ok THEN Withdraw /\ hal' = [hal EXCEPT !.at = "publish", !.missed = FALSE]
       ELSE UNCHANGED mapping /\ hal' = [hal EXCEPT !.at = "free", !.missed = TRUE]
    /\ Stay /\ Unchanged

\* No answer: a replacement is connected before the old handle goes.
MonitorUnavailable ==
    /\ AnswerAt("state")
    /\ ~StateReady(Plugin) /\ ~StateReplaced(Plugin)
    /\ SendHello("new")
    /\ Then("hello")
    /\ UNCHANGED mapping /\ Unchanged

MonitorHello ==
    /\ AnswerAt("hello")
    /\ client' = HelloReturned("new")
    /\ IF Ok
       THEN /\ Send(Request("buffer", Plugin, client["new"].id,
                            answer[Plugin].session, hal.buffer))
            /\ Then("newBuffer")
            /\ UNCHANGED mapping
       ELSE /\ Withdraw
            /\ Then("retire")
            /\ Forget(Plugin) /\ UNCHANGED port
    /\ Unchanged

MonitorNewBuffer ==
    /\ AnswerAt("newBuffer")
    /\ IF Ok THEN SendControl("active", "new", Active) /\ Then("newActive")
       ELSE SendControl("release", "new", 0) /\ Then("dropNew")
    /\ UNCHANGED <<client, mapping>> /\ Unchanged

\* device_client=replacement; publish_device_mapping_locked.
MonitorNewActive ==
    /\ AnswerAt("newActive")
    /\ IF Ok
       THEN /\ client' = [client EXCEPT !["old"] = client["dev"], !["dev"] = client["new"],
                                        !["new"] = NoClient]
            /\ Withdraw
            /\ hal' = [hal EXCEPT !.at = "publish", !.missed = FALSE]
            /\ Forget(Plugin) /\ UNCHANGED port
       ELSE /\ SendControl("release", "new", 0)
            /\ Then("dropNew")
            /\ UNCHANGED <<client, mapping>>
    /\ Unchanged

\* The previous handle, if there is one, is disconnected after the publication.
MonitorPublish ==
    /\ hal.at = "publish"
    /\ Unpinned
    /\ PublishMapping(client["dev"])
    /\ IF Connected("old")
       THEN /\ SendControl("release", "old", 0)
            /\ hal' = [hal EXCEPT !.at = "dropOld", !.ready = TRUE]
       ELSE /\ hal' = [hal EXCEPT !.at = "free", !.ready = TRUE]
            /\ UNCHANGED <<port, answer>>
    /\ UNCHANGED client /\ Unchanged

\* ns6_device_client_disconnect of a handle: unmapped whatever was answered.
MonitorDropOld ==
    /\ AnswerAt("dropOld")
    /\ client' = [client EXCEPT !["old"] = NoClient]
    /\ Then("free")
    /\ Forget(Plugin)
    /\ UNCHANGED <<port, mapping>> /\ Unchanged

MonitorDropNew ==
    /\ AnswerAt("dropNew")
    /\ client' = [client EXCEPT !["new"] = NoClient]
    /\ Withdraw
    /\ Then("retire")
    /\ Forget(Plugin)
    /\ UNCHANGED port /\ Unchanged

MonitorRetire ==
    /\ hal.at = "retire"
    /\ Unpinned
    /\ IF Connected("dev")
       THEN SendControl("release", "dev", 0) /\ Then("dropDev")
       ELSE /\ hal' = [hal EXCEPT !.at = "free", !.ready = FALSE]
            /\ UNCHANGED <<port, answer>>
    /\ UNCHANGED <<client, mapping>> /\ Unchanged

MonitorDropDev ==
    /\ AnswerAt("dropDev")
    /\ client' = [client EXCEPT !["dev"] = NoClient]
    /\ hal' = [hal EXCEPT !.at = "free", !.ready = FALSE]
    /\ Forget(Plugin)
    /\ UNCHANGED <<port, mapping>> /\ Unchanged

--------------------------------------------------------------------------
(* CoreAudio's calls. *)

AddClient(c) ==
    /\ hal.at = "free"
    /\ c \notin hal.tracked
    /\ hal' = [hal EXCEPT !.tracked = @ \union {c}, !.starts[c] = 0]
    /\ UNCHANGED <<port, client, answer, mapping>> /\ Unchanged

\* A start is booked on the client's slot, or as an untracked one.
Started(c) ==
    LET counted == IF c \in hal.tracked THEN [hal EXCEPT !.starts[c] = @ + 1]
                   ELSE [hal EXCEPT !.untracked = @ + 1]
    IN  [counted EXCEPT !.at = "free", !.clients = @ + 1, !.running[c] = @ + 1]

\* start_io refuses at once when the service is not there.
StartIO(c) ==
    /\ hal.at = "free"
    /\ AllRunning < MaxRunning /\ hal.clients < MaxRunning
    /\ hal.ready /\ Connected("dev")
    /\ IF hal.clients = 0
       THEN /\ SendControl("active", "dev", 1)
            /\ hal' = [hal EXCEPT !.at = "start", !.who = c]
       ELSE \/ hal' = Started(c) /\ UNCHANGED <<port, answer>>
            \/ /\ SendControl("active", "dev", 0)     \* re-prime a stale output
               /\ hal' = [hal EXCEPT !.at = "reprime", !.who = c]
    /\ UNCHANGED <<client, mapping>> /\ Unchanged

StartIOReprimed ==
    /\ AnswerAt("reprime")
    /\ IF Ok THEN SendControl("active", "dev", 1) /\ Then("start")
       ELSE /\ hal' = [hal EXCEPT !.at = "free", !.missed = TRUE]
            /\ Forget(Plugin) /\ UNCHANGED port
    /\ UNCHANGED <<client, mapping>> /\ Unchanged

StartIOActivated ==
    /\ AnswerAt("start")
    /\ hal' = IF Ok THEN [Started(hal.who) EXCEPT !.missed = FALSE]
              ELSE [hal EXCEPT !.at = "free", !.missed = TRUE]
    /\ Stay
    /\ UNCHANGED mapping /\ Unchanged

\* A faulty variant: every client that leaves marks audio inactive.
GoesIdleEveryTime(before, after) ==
    IF Connected("dev")
    THEN SendControl("active", "dev", 0) /\ hal' = [after EXCEPT !.at = "stop"]
    ELSE hal' = after /\ UNCHANGED <<port, answer>>
\* The rest of stop_io and remove_client: the last one out marks audio inactive,
\* over a handle that is connected.
GoesIdle(before, after) ==
    IF after.clients = 0 /\ before.clients > 0 /\ Connected("dev")
    THEN SendControl("active", "dev", 0) /\ hal' = [after EXCEPT !.at = "stop"]
    ELSE hal' = after /\ UNCHANGED <<port, answer>>

\* CoreAudio stops a client it runs; an untracked start may pay for it.
StopIO(c) ==
    /\ hal.at = "free"
    /\ hal.running[c] > 0
    /\ LET stopped == [hal EXCEPT !.running[c] = @ - 1]
       IN  GoesIdle(hal,
               IF hal.clients = 0 THEN stopped
               ELSE IF c \in hal.tracked /\ hal.starts[c] > 0
               THEN [stopped EXCEPT !.starts[c] = @ - 1, !.clients = @ - 1]
               ELSE IF hal.untracked > 0
               THEN [stopped EXCEPT !.untracked = @ - 1, !.clients = @ - 1]
               ELSE stopped)
    /\ UNCHANGED <<client, mapping>> /\ Unchanged

\* A client goes, running or not; its tracked starts go with it.
RemoveClient(c) ==
    /\ hal.at = "free"
    /\ c \in hal.tracked
    /\ LET left == IF hal.clients >= hal.starts[c] THEN hal.clients - hal.starts[c] ELSE 0
       IN  GoesIdle(hal, [hal EXCEPT !.tracked = @ \ {c}, !.starts[c] = 0,
                                     !.running[c] = 0, !.clients = left])
    /\ UNCHANGED <<client, mapping>> /\ Unchanged

\* The result of the last exchange of stop_io and remove_client is ignored.
IdleAnswered ==
    /\ AnswerAt("stop")
    /\ hal' = [hal EXCEPT !.at = "free", !.missed = ~Ok]
    /\ Stay
    /\ UNCHANGED mapping /\ Unchanged

\* set_property of the driver buffer; the accepted size is stored after the unlock.
SetBuffer(frames) ==
    /\ hal.at = "free"
    /\ hal.setting = hal.buffer
    /\ frames # hal.buffer
    /\ hal.ready
    /\ SendControl("buffer", "dev", frames)
    /\ hal' = [hal EXCEPT !.at = "setBuffer", !.setting = frames]
    /\ UNCHANGED <<client, mapping>> /\ Unchanged

SetBufferAnswered ==
    /\ AnswerAt("setBuffer")
    /\ hal' = [hal EXCEPT !.at = "free", !.setting = IF Ok THEN @ ELSE hal.buffer]
    /\ Stay
    /\ UNCHANGED mapping /\ Unchanged

SetBufferStored ==
    /\ hal.at # "setBuffer"
    /\ hal.setting # hal.buffer
    /\ hal' = [hal EXCEPT !.buffer = hal.setting]
    /\ UNCHANGED <<serviceVars, client, main, mapping, callback>>

CoreAudioCalls(c) == AddClient(c) \/ StartIO(c) \/ StopIO(c) \/ RemoveClient(c)

PluginTimesOut == ExchangeTimesOut(Plugin) /\ UNCHANGED <<main, hal, mapping, callback>>

\* The steps of a thread that holds stream_lock, or takes it for the monitor.
HalStep ==
    \/ Initialize \/ InitializeHello \/ InitializeBuffer
    \/ MonitorReplaced \/ MonitorReady \/ MonitorReattached
    \/ MonitorUnavailable \/ MonitorHello \/ MonitorNewBuffer \/ MonitorNewActive
    \/ MonitorDropOld \/ MonitorDropNew \/ MonitorDropDev
    \/ StartIOReprimed \/ StartIOActivated \/ IdleAnswered \/ SetBufferAnswered
HalWait == MonitorSuperseded \/ MonitorPublish \/ MonitorRetire

==========================================================================
