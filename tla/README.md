# TLA+ models of the Numark NS6 driver

Models, model-checking runs and machine-checked proofs for the macOS driver of the Numark NS6
controller in `src/numark-ns6/`, and for the earlier driver in `src/coreaudio/`, a device service with
clients. File names below are relative to the first of these directories, or to the second where
the earlier driver is meant (its files begin with `NS6` and end in `.c` or `.h`). `PROJECT.json` maps
every definition that models code to its lines, and lists components, hazards, runs, faulty variants
("mutants"), findings and theorems.

```
tlc -workers 2 -config MCDataPaths.cfg MCDataPaths           # a run: module and cfg as in PROJECT.json
tlapm StreamsProofs.tla                                      # the proofs of a module
```

Definitions commented as *faulty variant* change a definition the way a plausible bug would. No
specification uses them: each shows that a property would notice the bug.

## 1. The system

The driver is an AudioServerPlugIn that `coreaudiod` loads, together with a bridge process in the
user's session. The plug-in publishes an output and an input device; both use the one controller.

| Part | State | Operations | Who runs it |
|---|---|---|---|
| plug-in (`coreaudio/NS6AudioDriver`, `AudioClientLifecycle`, `AudioDeviceLifecycle`) | client table, start counts, session, runtime, activity slots | add/remove client, start/stop I/O, properties, USB monitor | host threads and the monitor, under one mutex; I/O threads store their times without it |
| USB session (`usb/NS6DeviceSession`) | two interfaces, pipes, event sources and their client counts, audio mode | open, close, configure, acquire/release events | plug-in thread, then the runtime's thread |
| activation (`midi/ControllerActivation`) | four reads in its own stack frame, reply matcher, flags | activate | plug-in thread and a writer thread |
| runtime (`coreaudio/AudioTransportRuntime`) | the four endpoints, local flags, stop request | start, stop, workerMain, setInputEnabled | its own thread with a run loop |
| endpoints (`audio-out/AudioOutWorker`, `audio-in/AudioInputReader`, `audio-feedback/AudioFeedbackReader`, `midi/MIDIInputReader`) | slots, buffers, running flags, sequence numbers | start, stop, submit, completion | the runtime's run loop |
| ring and engines (`audio-out/AudioOutputRing`, `coreaudio/Audio*Engine`, `audio-out/AudioOutPacket`) | storage, two indices, read fraction | write, read, resample, skip | one real-time host thread and the runtime's thread, no lock |
| packet policy (`audio-out/AudioPacketPolicy`, `audio-feedback/*`) | queue of reports, pattern history, averaging window | observe, next packet | the runtime's thread |
| MIDI in (`midi/MIDIInputParser`, `LocalMIDIForwarder`) | a partial message | feed a report, publish | the runtime's thread, datagrams to the bridge |
| MIDI out (`midi/MIDIUserSessionBridge`, `MIDIOutputWriter`) | a report being packed, a socket | pack, receive, write, retry | CoreMIDI thread, writer thread |
| keepalive (`midi/MIDIUserSessionBridge`, `coreaudio/AudioKeepalivePolicy`) | the device it plays on and the attachment it was started for | a round every second, or quarter of one while idle | a bridge thread |

The earlier driver has the same task and another shape: one process owns the USB device, and the plug-in
is its client.

| Part | State | Operations | Who runs it |
|---|---|---|---|
| device service (`NS6DeviceMachService.c`, `NS6DeviceClientRegistry.h`) | leases of clients, session, whether audio is active | hello, state, audio active, startup buffer, release; reaping of dead clients | service thread; launchd restarts the process and keeps its port |
| main (`NS6MIDIBridge.c`) | whether the device is ready | publish, start the transport, maintain the pause flag each second, stop | main thread of the service |
| USB worker (`NS6USB.c`) | sessions, OUT, feedback and bulk-IN slots, recovery flags | open, submit, complete, clean up, recover | its own thread with a run loop |
| output ring (`NS6Transport.c`) | slots with positions, cursor, high-water mark | append, reset, interpolated read with prefill | I/O callback of the plug-in and the worker, in shared memory |
| capture ring (`NS6CaptureRing.h`) | storage, head, tail | append, skip, read | worker and I/O callback, in shared memory |
| clock (`NS6ClockControl.c`) | window of reports, queue of patterns | observe, next millisecond, reset | the worker's thread |
| service client (`NS6DeviceClient.c`) | a session and its mapping | connect, control, state, disconnect | any client process |
| plug-in (`NS6HAL.c`, `NS6HALMapping.h`, `NS6IOClientAccounting.h`) | clients, three handles, published mapping and its readers | StartIO, StopIO, removal, buffer size, monitor, I/O callbacks | host threads and the monitor under one lock; callbacks without |

What makes it hard: the ring has no lock and its 32-bit indices wrap; USB requests complete late, out of
order, with errors, or while `stop()` drains; drains time out and are repeated; two endpoints share an
event source; the controller comes and goes during every call; the host is notified after the mutex
is released; MIDI messages are cut anywhere by reports, of which some fail. In the earlier driver,
requests that timed out are handled later, processes die holding leases, the service restarts behind a
port that stays, three threads write one flag, and memory is unmapped while callbacks without a lock use it.

## 2. Modules

| Module | Models | State and steps |
|---|---|---|
| `FrameFIFO` | what the ring promises | a bounded queue of frames: `Put`, `Take` |
| `AudioOutputRing` | the ring | a call is split at its atomic accesses: load both indices, copy, publish. A frame is its position in the stream; doubles are multiples of 1/`Unit` |
| `AudioEngines` | `writeMix`, `publishUSBBlock`, packets, `readInput` | extends the ring; a call is its sequence of ring operations; a behaviour is playback or capture |
| `EndpointContract` | what an endpoint promises its session | held, active, requests in flight |
| `AudioOutWorker` | output worker, its slots, its part of `workerMain` | one action for each branch of start, stop, submission, completion, replacement |
| `AudioInputReader` | capture reader, shared event source, its part of `workerMain` | slots with sequence numbers; `drainCompletions` is a loop of steps |
| `MIDIInputReader` | MIDI reader with parser, its part of `workerMain` | the pipe's stream is cut into reports in submission order |
| `AudioTransportRuntime` | the runtime over all four endpoints, MIDI output thread, caller | composes the endpoints as the contract has them; the feedback reader is modelled here |
| `NS6DeviceSession` | `open`, `close` | one action for each call of `open`, the devices on the bus change in between |
| `ControllerActivation` | `startHardware` in detail: session, audio mode, `activate` | caller's thread, writer thread with its wait for the reply, USB stack, run loop |
| `DriverProperties` | presence, size and data of properties | operators, as in the three tables of the code |
| `NS6AudioDriver` | clients, I/O, hardware stages, monitor, notifications | a handler is one step, except the stages of `startHardware` and the notification |
| `ClientActivity` | the list of active clients: table, activity slots, `beginIO`, the property | handlers are one step under the mutex; `beginIO` finds its slot and stores the time in two steps without it; the reader takes its clock before the mutex. A time is recent or not, and known by whose I/O it is of |
| `AudioPacketPolicy` | policy, feedback parser and callback | one step per call |
| `MIDIInputParser`, `HandshakeReplyParser` | the two parsers | operators, one byte at a time |
| `MIDIReportStream` | activation, then reports and datagrams | compares outputs with what the stream says; during the activation reports have any length, and a full one ends with the terminator, which the reply matcher is given too |
| `MIDIOutbound` | bridge to controller | packing, socket, writer with retries |
| `AudioKeepalive` | the keepalive thread | the reads of a round are separate steps |
| `NS6Transport` | the earlier output ring with the worker's `fill` | split at its atomic accesses; an append is preempted between any two stores, a reset is four steps, and a start that fails is repeated with another reset |
| `NS6CaptureRing` | the earlier capture ring with its request flag | split at its atomic accesses; the first read of a request skips |
| `NS6ClockControl` | feedback window and packet patterns | one step for a report, a packet, an expiry |
| `NS6DeviceMachService` | the service thread | receive (which reaps), check, store the pause flag, reply; a request is a record in a port that outlives the process |
| `NS6DeviceClient` | one exchange with the service | send, answered, timed out; ids and session numbers are reused when nothing refers to them |
| `NS6DeviceServiceMain` | main, and the worker as far as its flags | read and store of the pause flag are separate steps |
| `NS6DeviceHelpers` | processes with one handle each | connect, activate, leave, die, start again |
| `NS6HAL` | the plug-in | a call is a step up to each exchange; withdrawal, wait and unmapping are separate steps; a behaviour whose `mapping.weak` is set runs where the withdrawal may become visible late |
| `NS6USB` | the worker's sessions with every transfer | one action for each callback, loop pass and stage of opening and cleanup |
| `DataPaths` | everything that carries data, side by side | the paths share no state: a behaviour is about one of them |
| `Lifecycles` | session, activation, worker, keepalive side by side | likewise |
| `NS6DeviceSystem` | service with helpers, with the plug-in, with a changing buffer size, with an I/O callback | composes the service, its clients and the plug-in; `part` chooses which of them there are |
| `EarlierTransport` | the service's three threads with a helper; the worker's sessions | likewise |
| `LifecyclesProofs` (session, activation, output worker), `MIDIInputReaderProofs`, `AudioTransportRuntimeProofs`, `NS6AudioDriverProofs` | theorems about the driver | section 5 |
| `StreamsProofs` | theorems about the audio streams of both drivers: the ring and its engines, the earlier rings and USB transfers | section 5 |
| `DeviceReportsProofs` | theorems about what both drivers make of the device's reports: the capture reader of the driver, the clock of the earlier one | section 5 |
| `NS6DeviceSystemProofs`, `NS6HALProofs` | theorems about the earlier driver: leases and mapping; the plug-in's lease | section 5 |

The `MC*` modules add the values of constants that a cfg cannot write; `MCNS6AudioDriver` also puts `ClientActivity` beside
the plug-in, with which it shares no state that both write: what the handlers do to the hardware is in the one, what the
I/O threads do to the activity slots in the other.

How they fit: `NS6AudioDriver` takes opening, activating and starting the transport as single stages that
succeed or fail. `NS6DeviceSession`, `ControllerActivation` and `AudioTransportRuntime` detail these
stages, and their properties (`AllOrNothing`, `StartHardwareEnds`, `CallsReturn`, `AtRest`) are what the
driver's model assumes. `AudioTransportRuntime` in turn takes an endpoint as `EndpointContract` has it;
`AudioOutWorker` is checked to implement that contract (`KeepsContract`). For the capture reader, whose
event source may be acquired twice (section 6), the runtime's model has the same double acquisition. These
assumptions are stated, not composed into one state space.

The earlier driver is composed where its parts meet: service, client, main and plug-in share the port, the
leases and the pause flag in `NS6DeviceSystem` and `EarlierTransport`. `NS6DeviceServiceMain` takes the worker as
its flags, and `NS6USB` has the same life cycle with the transfers.

Left out as data: sample values and their conversion, log texts, statistics, PCM layout. Left out as
unreachable: null arguments, and failure to make a thread or a run loop.

## 3. Runs

Each property's comment in its module states it in words. "States" are distinct states.

| Run | Properties | Instance and why it is enough |
|---|---|---|
| `data_paths` | ring and engines: `UsedIsExact` `CopiesDisjoint` `FramesIntact` `SilenceOnlyWhenDry` `ImplementsFifo` | 2 frames, indices modulo 6, half-frame phases with steps 1/2, 1, 3/2, blocks up to 3, 7 frames accepted. Full, empty, wrapped storage and wrapped indices all occur, and blocks exceed the ring; section 5 extends the invariants to every size |
| | policy: `PatternsAreExact` `FramesFollowFeedback` | queue of 2, history of 2 patterns, window of 2; short, valid and invalid reports, so that queue, history and window all go round |
| | MIDI: `OutputIsTheMessages` `FoundExactly` `OutboundWhole` | reports of 3 bytes in, two between resets, 5 bytes out; every byte kind; for the reply a prefix of 4 bytes of which the second returns, cut by reports of up to 5 bytes whose fifth is the terminator, so that a reply is found across short reports, overlaps a broken one, and is missed over a terminator; packets that fill a report, do not fit, are incomplete, continue an earlier one or are longer than a report; 2 write attempts |
| | earlier output ring: `TransportReadsWhole` | 3 slots, blocks of 1 and 2, packets of 1 and 2, steps of 1/2 and 3/2, positions up to 5: the ring goes round, overflows and runs dry, and any number of failed starts reset it at every step of an append. No packet is filled during a reset, for the worker is made after it |
| | earlier capture ring: `CaptureInOrder` | 3 frames, blocks and reads of 1 and 2, positions up to 9 |
| | earlier clock: `ClockFollowsReports` | window of 2, queue of 3, three report values of which one is invalid |
| `lifecycles` | `AllOrNothing` | two controllers that are exchanged, 2 searches; every call may fail |
| | `ReturnsClean` `StartHardwareEnds` | the code's 4 reads; every write may fail, and the controller may answer late or never |
| | `ResourcesOutliveTransfers` `KeepsContract` `ShutdownEnds` `HaltedWorkerIsReplaced` | 3 slots: one transfer late, one failed, one being resubmitted |
| | `KeepaliveFollowsController` | controller and device changing 3 and 2 times |
| `input_reader` | `ResourcesOutliveReads` `BlocksInOrder` `UnwantedInputStops` | 2 reads, sequence numbers modulo 3, so that they wrap constantly; statuses ok, stalled, gone (an error is handled like a stall that clears); at most 2 event clients |
| `input_recovery` | `WantedInputIsServed`, **violated** | the same with a controller that stays attached; section 6 |
| `midi_reader` | `MessagesInOrder` `EventClientsExact` `ErrorsAreRecovered` | 2 reads, one byte in a report: each two-byte message is cut. The runtime's thread ends and is not launched again, hence no deadlock check |
| `midi_whole_messages` | `OnlySentMessages`, **violated** | 2 bytes in a report, a three-byte and a two-byte message; section 6 |
| `runtime` | `AtRest` `CallsReturn` | all four endpoints, at most 2 clients of an event source |
| `driver` | `HardwareFollowsClients` `HostKnowsRunning` `PropertiesAgree` `SessionKeptForActive` `ControllerIsReopened` | two devices, 2 client ids, 2 activity slots, a lifecycle of 2, counts up to 2: tables and counts reach their limits; the controller is plugged in twice. For the activity: both devices, an id with and one without a process, 2 slots, a start each, any number of I/O operations that have found a slot and not stored yet: each slot is freed and reused under them |
| `device_system` | `LeaseKept` `LeaseFollowsClients` `PinnedMemoryIsMapped` | two helpers at a registry of two leases, so that it fills with orphans; a port of one request; the plug-in with its three handles, 4 client ids and 2 session numbers, both reused; a client started up to twice. The two helpers run the same program and are interchangeable, so the run uses that symmetry; `service_restart`, about liveness, does not |
| `service_restart` | `ReconnectsAfterRestart`, **violated** | the same; section 6 |
| `pinned_mapping` | `MemoryInUseStaysMapped`, **violated** | the part with an I/O callback; section 6 |
| `earlier_transport` | `TransfersKeptQueued` `StreamResumes` `PauseFollowsClients` | two OUT slots, a feedback and a bulk-IN slot, sessions without end; a helper that comes, plays, dies and is started again, with all three threads of the service |

`data_paths`, `lifecycles` and `driver` check parts that share no state in one run: an initial state chooses the part, and
the others stay as they began. The run costs the sum of its parts and not their product.

`MaxWritten`, `MaxEventClients`, `MaxGeneration`, `MaxReports`, `MaxDatagrams`, `MaxWire`, `MaxMessages`,
`MaxEntry`, `MaxDevice`, `MaxRunning`, `MaxClientStarts`, `LastPosition`, `LastCapture` bound what the code does not bound; each is a
guard of the action it limits. `QueueLimit` is the limit of the Mach port. `Ids` and `Sessions` are reused, which
stands for numbers that never run out. The other constants are sizes of the code, made small.

## 4. Fairness

Liveness is stated only with fairness the code's scheduling gives.

- *Threads go on* (weak): a thread that can take a step takes it. In the driver, this is the holder of
  the mutex; the monitor polls, so it gets the mutex again and again (strong).
- *Callbacks are delivered* (strong): `CFRunLoopRunInMode` handles a ready source before it returns, and the
  thread enters a run loop again and again.
- *The run loop returns* (strong for the checks after it): it runs for 100 ms at most.
- *USB requests end*: isochronous transfers and capture reads end on their own, for the controller streams
  all the time (weak). A MIDI read ends on its own only when the controller sends, so nothing makes
  it end except an abort that is repeated. A MIDI write has a one-second timeout, and the
  writer's wait for the reply a deadline of 100 ms: nothing makes the controller answer.
- *A controller that stays attached is not refused for ever* (strong, in `driver` and in the keepalive): this
  is about the device and not the code, and only `ControllerIsReopened` and `KeepaliveFollowsController`
  need it.

- *The service's threads and launchd go on* (weak), as do the worker's loop and the plug-in's threads; the
  monitor wakes each second, among any calls of CoreAudio, and its spin on the reader count sees a zero that
  recurs (strong). Helpers, CoreAudio and the device need never do anything.

`StreamResumes` and `PauseFollowsClients` are conditional: they speak of what happens once the disturbances
they name have ended, for the code cannot make a device answer.

Nothing assumes that a start succeeds, that a drain ends in time, or that datagrams arrive.
`HaltedWorkerIsReplaced`, `ErrorsAreRecovered` and `WantedInputIsServed` say that a start is attempted again
and again, not that it succeeds.

## 5. What is proved

TLAPS checks these for all values of the constants, under the assumptions of the modules (the second table),
which TLC evaluates in the runs.

| Theorem | Says |
|---|---|
| `RingInductive`, `RingTypeOK` | `Spec => []IndInv`, and the types in it |
| `RingUsedIsExact` | the unsigned difference of the indices is the number of stored frames, whatever wrapped |
| `RingCopiesDisjoint` | producer and consumer never touch the same slot at once: the ring needs no lock |
| `RingFramesIntact` | what is delivered is what was accepted, in order |
| `RingImplementsFifo` | the ring implements the queue `FrameFIFO` |
| `EnginesInductive` | `EngineSpec => []EngineInv` |
| `EnginesUseTheRing` | `EngineSpec => Spec`: playback and capture only do what the ring has |
| `EnginesFramesIntact`, `EnginesImplementFifo`, `EnginesSilenceOnlyWhenDry` | the ring's properties under its users; silence stands only for frames that were not there |
| `TransfersKeepTheirResources` | `[]ResourcesOutliveTransfers` of the output worker |
| `WorkerImplementsContract` | the output worker implements `EndpointContract` (`KeepsContract`) |
| `ReadsKeepTheirResources` | `[]ResourcesOutliveReads` of the capture reader |
| `BlocksReachTheEngineInOrder` | the action property `BlocksInOrder` of the capture reader |
| `ReaderKeepsItsEventSource` | `[]EventClientsExact` of the MIDI reader |
| `SessionAllOrNothing` | `[]AllOrNothing` of the USB session |
| `ActivationReturnsClean` | `[]ReturnsClean` of the activation |
| `PartsKeepTheirSpecs` | what is proved of session, activation and worker holds in `Lifecycles`, which composes them |
| `RuntimeEndsAtRest` | `[]AtRest` of the transport runtime |
| `DriverInvariant` | `Spec => []DriverInv`, from which the next three follow |
| `DriverHardwareFollowsClients` | `[]HardwareFollowsClients` of the plug-in |
| `DriverHostKnowsRunning` | `[]HostKnowsRunning` of the plug-in |
| `DriverKeepsSession` | the action property `SessionKeptForActive` of the plug-in |
| `DriverPropertiesAgree` | `[]PropertiesAgree` of the plug-in: the tables, and who is listed as active |
| `CaptureKeepsOrder` | `[]CaptureInOrder` of the earlier capture ring |
| `TransportKeepsFrames` | `[]TransportReadsWhole` of the earlier output ring |
| `EarlierClockFollowsReports` | `[]ClockFollowsReports` of the earlier clock |
| `TransfersStayQueued` | `[]TransfersKeptQueued` of the earlier USB worker |
| `HelpersKeepTheirLeases` | `[]LeaseKept` of the earlier device service, with all its clients |
| `PluginLeaseFollowsClients` | `[]LeaseFollowsClients` of the earlier plug-in and service |
| `CallbacksUseMappedMemory` | `[]PinnedMemoryIsMapped` of the earlier plug-in: with the order that release and acquire give for callbacks that counted themselves before a withdrawal, with a stronger one for all |

| Assumption | What it asks, and why the code has it |
|---|---|
| `RingAssumption`, `EngineAssumption` | the capacity is at most half the index range, which the ring's constructor enforces, and divides it, which it does not: the rings the driver makes have a power of two of frames, the indices 2^32 values. Blocks and steps are natural numbers |
| `RuntimeAssumption` | the bound on clients of an event source, the model's own, admits the two endpoints of an interface |
| `SlotAssumption`, `ActivationAssumption` | at least one slot, at least one read |
| `ReaderAssumption` | fewer slots than sequence numbers: 2^64 of these in the code |
| `MIDIReaderAssumption` | likewise; the controller's stream is not empty, a report has at least one byte |
| `DriverAssumption` | finitely many client ids; a lifecycle holds no more clients than the driver's tables, 64 entries in the code; a count of starts, 32 bits in the code, reaches at least one; so does the number of times the controller is plugged in, the model's own bound |
| `ActivityAssumption` | sizes are natural numbers; the clients without a process are clients |
| `SessionAssumption` | the absent device is no device |
| `CaptureAssumption`, `TransportAssumption` | sizes are positive; in the output ring a prefill and a block together fit the ring |
| `ClockAssumption` | the window of averaged reports and the queue of patterns have at least one place |
| `UsbAssumption` | the three kinds of slots are different objects |
| `ServiceAssumption`, `HelpersAssumption`, `HalAssumption`, `SystemAssumption` | ids and session numbers are not zero, each helper has a handle, the plug-in has its three, processes have pids of their own; CoreAudio has finitely many clients, and runs a bounded number of starts |

A property is seldom inductive. What each proof adds, and why:

**The ring.** `FramesIntact` says nothing of frames still stored, and `CopiesDisjoint` nothing of indices loaded some
time ago. `IndInv` adds:

- `WriterBounded`: the space reserved by a writer that loaded an old read index is still free, because that
  index only moves forward;
- `CopiedIntact`: frames copied and not yet published are in their slots;
- `StoredIntact`: each frame not yet released is in the slot of its position;
- `ReaderBounded`: the offsets a reader plans to read lie among the frames published when it loaded.

The lemmas are about slots: `SlotAdd` (the modulo slot is the slot of the two-piece copy, wrapped or not; here
the capacity must divide the index range), `SlotInjective` (fewer positions apart than the capacity, different
slots) and `SlotShift`. For the refinement, `IndInv` determines what lies between the indices: the positions after
`taken` up to `written` (`QueueIsPositions`). Storing the write index is then `Put`, storing the read index `Take`,
and every other step leaves the queue.

**The engines.** Each engine step is a ring step with the same arguments, or leaves the ring alone. `RequestOK`
ties the call in progress to the reader's phase; `ReadOK` remembers how many frames were published when the call
loaded the indices, and that a plan that falls short uses them all.

**The output worker.** That a transfer in flight has its buffers follows only if the slots' counter is right at
every callback of a drain. `WorkerInv` has `InFlightIsExact` (the counter is the number of reserved slots, which are
those of the transfers pending), `HeldTogether` (the event source is added exactly while the buffers are there, and
without it nothing is pending or runs) and `StopStage` (what the thread may rely on at each stage of `stop()`, the
replacement and the end). The same invariant maps each step to one of `EndpointContract` or to none: held is the
event source, active is `running_`, and the requests in flight are the transfers pending.

**The capture reader.** Order over wrapping sequence numbers is a statement about all outstanding reads: `InTurn`
says that their numbers are the `n` consecutive ones from `nextProcess` on. Two of these are never equal because there
are more numbers than slots. `WaitsForEarlier` says that a completed read waits only for one in
flight; `ReadsHoldResources` and `StopStage` are as for the worker.

**The MIDI reader.** Its part of the count is exact only because the reader has the event source exactly while it has
its session (`SourceCounted`), and `stop()` may be entered from recovery, from a failed `start()` and at shutdown with callbacks
nested in its drain: `StopStage` says at each place of the thread, and in a callback by where it returns to, whether
the reader still runs and what is in flight. What the parser makes of the reports does not enter.

**The runtime.** `AtRest` is about the end, and at the end the thread can only know what it did before. `RuntimeInv`
follows it there: who may have asked for the start or stop at hand (`ReasonFits`), which endpoints hold nothing
yet during the launch and while a start is submitting (`LaterOff`, `StartsFromNothing`), and, once it shuts down,
that each endpoint still holding something is being stopped, is in the rest of this pass or has failed and is in
the next (`NothingForgotten`). `EventsCounted` has the clients of the main interface exact; `CallStage` says what
`start()` and `stop()` may find the thread doing. Two conjuncts came from failed attempts: a drain is only entered by
an endpoint that holds its source, and the pause between two passes begins with the pass used up.

**The session and the activation.** `open()` is straight-line code with some twenty exits, so the invariant says for
each stage exactly what is claimed and kept by then; every exit undoes just that. In the activation, it
relates the reads in flight, the writer thread and the event source at each stage, including after a drain that
gave up, where only the removal of the event source by `close()` keeps callbacks away.

**The plug-in.** The sums that `HardwareFollowsClients` compares are stated as cardinalities of sets of pairs (a client and the number of
one of its starts), because adding and removing elements is within the provers' reach and recursion over a set is not. `DriverInv`
keeps the three records of activity together (`SlotsOwned`, `StartsEntered`, `SumsAgree`), gives for every stage of `startHardware` what is
open by then (`HardwareAtStage`), and says what the host was last told of the devices for which no notification is due (`HostFollows`).
`SessionKeptForActive` follows from the one place that closes the session outside a failed start.

`PropertiesAgree` has two parts. The tables are compared by cases over objects and selectors. Who is listed as active needs
an invariant of its own, `ActivityInv`: client and slot name each other (`EntriesOwned`), and the time a client left behind is in a free slot
only, while an operation that was not overtaken is on one that is not free (`LeftoversFree`). It is inductive because `addClient` clears the time
before it publishes the key.

**The earlier clock.** Queue and window are rings that drop their oldest entry when full. What a ring gives, takes and
drops is proved once of any ring (`RingTakes`, `RingGives`, over `SlotOf`); the sum is the number of frames of the
window's reports, counted as pairs again (`Together`), so a report that is overwritten takes exactly its frames away. `ClockInv` adds to
the property what the window's places hold.

**The earlier rings.** Positions are not reduced there, only slots, and positions less than a lap apart have
different slots (`SlotsDiffer`). For the capture ring: reader and writer are at most a
lap apart, published frames are in place, the decoder's block fits whatever the reader did since (`DecoderFits`), what
`ReadInput` loaded is still the ring's (`InputFollows`), and after the first read of a request the tail is not before
its begin (`NothingOlder`). For the output ring, the resets of
repeated starts fall between any two stores of an append, and after one of them cursor, high-water mark and tags may
belong to different blocks. What holds all the same is little: a tag names the frame that is in its slot, or the slot is
the one being written (`TagsNameSamples`), an append fits in front of the cursor once the worker runs (`AppenderFits`),
and what a packet reads stays (`FillerFollows`). That suffices for the frames. That there is no hole needs to know that
no append was cut (`WholeRing`), and where a start may begin (`StartsClean`).

**The earlier USB worker.** `StreamInv` keeps flags and transfers together at all times, not only in a session
(`FlagsAreExact`), with nothing at the device between sessions and no drain outside one
(`NothingBetweenSessions`); a new drain then knows each bulk-IN slot to be submitted, pending from before, or lost.

**The leases.** A lease must survive requests that were given up and are handled later. `LeaseInv` says of each
request in the port or in the service's hands that it is *current* if somebody waits for it (`Current`: it is the
one its living helper is in, under that helper's id), at most one for each helper (`OneEach`), and that a late request
under the id of a living helper is its own and releases its lease only during its disconnect (`Faithful`); that ids of
living helpers differ; and that the lease is there from the good answer to hello on (`LeaseHeld`). The first version was
not inductive: a hello answered after the service had passed its stage would have given an id without a lease
(`PastHello` excludes it). The theorem is about `Spec` of `NS6DeviceSystem`, in whose part with helpers the service
stays up once it is.

**The plug-in's lease.** `LeaseFollowsClients` speaks of the moments when `stream_lock` is free, and what holds then was
settled several exchanges earlier, some of them lost. `PluginInv` follows each: the request that is waited for is
the one that this place of the plug-in sends (`Wanted`), it was sent last (`LastExpected`), the service has done it before
it answers (`Applied`), so a good answer says that the lease is as told (`Answered`), and once it is settled no
request still under way under that id can change it (`Undisturbed`): this is where the fresh id of each
hello is needed. `Accounts` has the starts that CoreAudio runs counted as pairs of a client and a number, for
the same reason as in the plug-in above. `RegistryInv` and `ReadersInv` give the limits of registry, port and reader count.

**The mapping.** `MappingInv` relates the published pointer, the reader count and the stage of the callback to
those of the monitor's withdrawal. Where the withdrawal may become visible late, the monitor may have passed a callback it
should have waited for (`Passed`); the invariant keeps the memory of every other callback, and says that one that counted
itself before the withdrawal is never passed. That the claim without this condition is false is the run
`pinned_mapping` (section 6).

**Only model-checked**, with the reason:

- all liveness, for fairness and `ENABLED` are outside the prover's reach: `StartHardwareEnds`, `ShutdownEnds`,
  `HaltedWorkerIsReplaced`, `KeepaliveFollowsController`, `UnwantedInputStops`, `ErrorsAreRecovered`, `CallsReturn`,
  `ControllerIsReopened`, `StreamResumes`, `PauseFollowsClients`;
- what folds compute over a stream or a window, which takes induction over data: `OutputIsTheMessages`, `FoundExactly`,
  `OutboundWhole`, `MessagesInOrder`, `PatternsAreExact`, `FramesFollowFeedback`.

Every safety property of a passing run that is not in this list is a theorem.

## 6. What the checks found

- **Capture that halts is not restarted** (`input_recovery`). `AudioInputReader` stops itself when a stall
  cannot be cleared or a resubmission is refused. `workerMain` restarts input only while its local flag
  `inputRunning` is false (`coreaudio/AudioTransportRuntime.cpp:249`), and nothing clears it then. Capture stays
  dead until the last input client stops, although the capture plan says that the worker
  "stops/restarts independently".
- **A message may be put together from two halves** (`midi_whole_messages`). A failed or short report is skipped
  while the parser keeps its state (`midi/MIDIInputReader.cpp:125`), and later reports in flight are
  parsed with it. `midi/MIDIInputParser.hpp:12` promises complete messages.

- **After a restart of the service, the earlier plug-in stays silent** (`service_restart`). launchd keeps the port
  of the service, so the plug-in's next poll reaches the new process, which does not know its session and answers
  `MIG_BAD_ID`. The client reports that as *replaced*, and the monitor then never connects again
  (`NS6HAL.c:157`), although `src/coreaudio/README.md:100` says that it "reconnects the shared-memory session
  after a service restart". It does so only if a poll fails while no service runs.
- **Memory in use can be unmapped** (`pinned_mapping`). `ns6_hal_mapping_withdraw` stores the pointer with release
  and loads the reader count with acquire (`NS6HALMapping.h:46`), which does not order the store before the
  load. With that reordering, which arm64 allows for `stlr` and `ldapr`, a callback can pin a mapping that
  the monitor has found unread, against `src/coreaudio/README.md:101`. Callbacks that began before the withdrawal are safe
  all the same, and all are where the two accesses are ordered (`PinnedMemoryIsMapped`, in `device_system`):
  sequentially consistent order for them is enough.

Seen while modelling, without a run of its own:

- The capture reader's `start()` after a failed start whose drain timed out acquires the event source again
  without having released it (`audio-in/AudioInputReader.cpp:29`). The count then stays too high until the
  session is closed, which is harmless for the neighbour: `AtRest` says "at least" of the auxiliary interface for this reason,
  and "exactly" of the main one.
- A drain of `activate()` that gives up returns with reads in flight, whose memory is its stack frame, and
  `close()` asks for all I/O to be finished. `ReturnsClean` holds because `close()` removes the event
  source before that thread runs a run loop again.
- After a failed `stopHardware()` and after a failed start the host gets no notification; `HostKnowsRunning`
  excludes exactly those returns.
- `beginIO` stores the time of a client's I/O into the slot it found a moment before
  (`coreaudio/NS6AudioDriver.cpp:857`). If the client is removed and another gets the slot in between, the other one is listed as active
  for up to two seconds without having done anything. `PropertiesAgree` names this exception and shows that it is the
  only one. A client that is listed for its I/O alone is also missed by a reader whose clock was read before the
  latest store.
- The device service is published before `ns6_usb_start`, which is repeated every two seconds while it fails
  (`NS6MIDIBridge.c:108`) and resets the output ring each time (`NS6USB.c:913`). An append under way during the reset of a
  repeated start can leave the cursor at zero with the next block further on: `available` then stays at zero, the
  prefill gate does not open, and the output is silent until another reset. `TransportReadsWhole` excludes just this for
  its second part; what is read is right even then.
- A reply that a full report cuts is missed when the terminator of that report is not filler: the matcher is given all
  42 bytes (`midi/ControllerActivation.cpp:59`), though `midi/MIDIInputParser.cpp:6` says of the last that it is
  no MIDI data. The activation then waits for its deadline and goes on. `FoundExactly` says that a reply is missed in no
  other way.
- The matcher's fallback after a mismatch is right only for a prefix whose first byte does not come again, as
  in the code (`PrefixAssumption`).
- The repository's README says that system exclusive messages are not forwarded; the bridge does send them to
  the controller. The sentence seems to be about the other direction. Of a system exclusive message that CoreMIDI
  splits over packets only the first packet is sent.
- In the earlier driver, `cleanup()` waits 0.2 s for aborted transfers (`NS6USB.c:812`). A bulk-IN read whose
  completion is later keeps its `in_flight` flag for the life of the process and is not submitted again
  (`TransfersKeptQueued` excludes such slots as `lost`), and a bulk-IN read whose resubmission is refused waits for the
  next drain. Feedback reads are resubmitted by their callbacks during that wait, so that their buffers are
  destroyed with reads outstanding when recovery, and not the end, is the cause.
- A client that gave up on its hello leaves a lease nobody knows (`NS6DeviceClient.c:40`); it keeps one of eight places
  until its process ends. A plug-in whose hellos time out eight times cannot connect any more;
  `ReconnectsAfterRestart` asks for room in the registry so as not to be about this.
- `publish_connection_state` reads the number of clients and then withdraws the device (`NS6HAL.c:98`): a start
  in between is not seen.

## 7. Not modelled

- `zeroTimestamp` and the clock's anchor and seed; the input statistics of `doIO`; the COM reference
  count of the plug-in. The text of the active clients has room for about 60 of the longest lines and is not cut in
  the model.
- The floating-point rate correction: `AudioEngines` takes every step the ring accepts.
- `probeHostIdentify` and the firmware query, which are diagnostics; the branch of the packet policy for other
  service rates.
- `AudioOutSchedule`, `AudioFeedbackSchedule`, `NS6AudioOutLayout`, `MIDIInputEventEncoder`: compiled, called by
  tests only.
- The status application, probes, packaging and removal scripts: no state of the driver.
- Of the earlier driver: `NS6MIDI.c` and its helpers. It does not compile as it stands: it uses
  `in_flight_read_mask`, `input_polling`, `client_active` and others that nothing declares, and
  `NS6MIDIRecovery.h` has an `#endif` too many. The rest of the driver meets it at `ns6_midi_start`, whose result
  `NS6USB` takes as a choice.
- Of the earlier driver: properties, timestamps, metrics and the publication of the device's presence in `NS6HAL.c`
  (`start_io` is modelled for a device that is present), and its `service_superseded`, which only keeps a log line from being repeated; timing statistics, thread priorities and the firmware
  query in `NS6USB.c`; sample conversion; `ns6_transport_mix_at` and `ns6_transport_discard`, which tests call; the
  build of `NS6MIDIBridge.c` without the service; who may send to the service.
- `src/tools/` and the other probes: single threads of blocking calls without lasting state.
- Memory orders weaker than the acquire and release that the rings use: with these, and one writer for each
  index, interleaving the accesses loses no outcome. The mapping, where it does, has `mapping.weak`.

## 8. Plan

The order so far: ring and engines, endpoints, runtime, session and activation, plug-in, policy, MIDI; then the
earlier driver's rings and clock, service, clients, plug-in and USB worker. Next:

- *Model*: the device clock (anchor and seed loaded separately); the feedback reader's slots; the presence of the
  earlier device; the earlier MIDI reader once its source is complete.
