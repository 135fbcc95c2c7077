# gopro_native: TLA+ models, checks and proofs

gopro_native is a Dart package with a C++ core that finds a GoPro camera over
USB, controls it over Bluetooth LE and HTTP, and joins it to a network. This
directory models the parts of it in which the order of events matters and the
byte formats between its two languages, checks them with TLC on small instances
and proves with TLAPS, for every instance, all the safety properties that the
runs check but one (`ReadsBack`).

## The system

| component | state | operations | interacts with |
|---|---|---|---|
| command queue (`native/src/command_queue.cpp`) | `pending_`, `in_flight_`, `ready_` | `submit`, `set_ready`, `on_response`, `tick`, `cancel_all` | calls `write_` and completions, which may call back in |
| BLE session (`native/src/ble_session.cpp`, `query_parser.cpp`) | busy, encoding, keep-alive clock, reassemblers, queue | `feed`, `submit`, `submit_protobuf`, `tick`, `on_disconnect` | queue below, bridge above |
| framing (`native/src/ble_protocol.cpp`) | a buffer and a counter per characteristic | `fragment`, `feed`, `reset`, `take` | session |
| bridge (`native/src/ble_bridge.cpp`, `lib/src/ffi/ble_codec.dart`) | a port and a session | C functions, one per session operation | posts every callback, as bytes, to the Dart isolate's port |
| link machine (`native/src/ble_link.cpp`) | rung, since when, failed attempts | `update`, `note_attempt_failed`, `reset` | transport |
| BLE transport (`lib/src/ble_transport.dart`) | link state, futures by id, subscriptions, ticker | `connect`, `send`, `sendProtobuf`, `close`, `_onDrop`, `_onEvent` | BlueZ, bridge, link machine |
| USB discovery (`gopro_usb.cpp`, `gopro_bridge.cpp`, `discovery.dart`) | known cameras, arrival cache, worker thread | hotplug callback, rescan, `set_timeout`, stop, `wait_until_ready` | libusb, sysfs, Dart port |
| camera record (`gopro_types.h`, `glaze_meta.h`, `ffi/codec.dart`) | none | `encode`, `decode` on either side | bridge and isolate |
| Dart API linking (`dart_api_dl.c`) | the function pointers | `Dart_InitializeApiDL` | the VM, both bridges |
| HTTP client (`lib/src/http`) | a file, a sink, a stall timer | `download` and single exchanges | camera, disk |
| Wi-Fi (`lib/src/wifi`) | futures that listen for pushes | `scan`, `connect`, `connectNew` | transport |
| COHN, streaming (`lib/src/{cohn,streaming}`) | one request or poll at a time | `provision`, `start`, `stop` | transport, HTTP |

Where it is hard: the queue's operations re-enter through callbacks; a reply is
matched by an id without a sequence number; the gate is derived from statuses
that arrive in replies and pushes and must not survive a reconnect; the
keep-alive shares an id with an ordinary setting; packets may be lost or belong
to interleaved messages; the Dart side learns of native outcomes through a port,
later; the link drops while anything is going on; a camera's interface is renamed,
rebound or unplugged while it is being read; the end of a Wi-Fi scan comes as a
push that may overtake the reply; a download goes on after it was given up. The hazards in `PROJECT.json`
give the lines.

## Modules

| module | models | role |
|---|---|---|
| `CommandQueue` | `command_queue.cpp` | every operation, with the C++ call stack |
| `CommandService` | what `CommandQueue` promises | abstract specification, refined by `CommandQueue` |
| `BleWire` | ids of `ble_session.h`, `query_parser.cpp`, events of `ble_bridge.cpp` and `ble_codec.dart` | bytes, as pure operators |
| `BleSession` | `ble_session.cpp`, `ReadyState` of `query_parser.cpp` | extends `CommandQueue` and `BleWire` |
| `Framing` | `ble_protocol.cpp` | header bytes, `fragment()`, one `feed()`, as pure operators |
| `Reassembler` | the reassemblers of a session | uses `Framing` over a lossy link |
| `BleCamera` | `GoProBleCamera` of `ble_transport.dart`, `ble_bridge.cpp` | futures, drops, reconnection, `close()`; extends `BleWire` |
| `LinkMachine` | `ble_link.cpp`, `link_bridge.cpp`, `link_types.dart` | the advice function and how it is packed, as pure operators |
| `BringUp` | `_bringUp()` of `ble_transport.dart` | extends `LinkMachine`, climbs against BlueZ |
| `UsbDiscovery` | `gopro_bridge.cpp`, `discovery.dart`, hotplug of `gopro_usb.cpp` | worker thread, kernel and isolate, several cameras |
| `GlazeMeta` | `glaze_meta.h` | encoder and decoder, as pure operators |
| `CameraCodec` | `gopro_types.h`, `ffi/codec.dart` | the record's fields and the Dart decoder; extends `GlazeMeta` |
| `DartApi` | `dart_api_dl.c` | the pointers the bridges post through, as pure operators |
| `UsbCamera` | `gopro_usb.cpp`, its use by `gopro_bridge.cpp` | one camera, look by look; extends `CameraCodec` and `DartApi` |
| `HttpDownload` | `download()` of `gopro_http.dart` | pump, sink, stall timer, disk |
| `NetworkClient` | `scan()`, `connect()`, `connectNew()` of `network_client.dart` | calls over an abstract camera link |
| `BleSessionProofs` | | theorems about `CommandQueue` and `BleSession` |
| `ReassemblerProofs`, `BleCameraProofs`, `BringUpProofs`, `UsbDiscoveryProofs`, `UsbCameraProofs`, `HttpDownloadProofs`, `NetworkClientProofs` | | theorems about the module each extends |
| `MC*` | | the instances that TLC checks |

The operator and action names are those of the source where there is one. A
definition commented as a mutant is a plausible error in the definition that
follows it; it is not part of the model.

### CommandQueue

`pending`, `in_flight` and `ready` are the members of the class. The queue has
no clock; an entry's age stands for `now - queued_at_ms` or `now - sent_at_ms`,
so the state space is finite without a bound on time (ages stop at the longer
timeout). `Elapse` moves the clock between calls.

Every operation may call out: `write_` from `pump()`, and completions from
`on_response()`, `tick()` and `cancel_all()`. The code called may call back in.
The model keeps the call stack: `pump` is the scan loop, `collect` the two erase
loops of `tick()`, `complete` a loop over completions, `user` code outside the
queue. A call may start when the stack is empty or when a `user` frame is on
top. `MaxNest` bounds the open callbacks. Everything the code computes after a
callback returns is computed by the step that pops the frame, from the state the
callback left.

`CommandService` has one variable, the phase of a submission (idle, live,
settled). `CommandQueue` maps to it: a submission is live when pending or in
flight, settled when its completion is owed but the entry is gone.

### BleSession

The bridge posts each callback to another isolate, so nothing calls back into a
session: `MaxNest` is 0 and an event starts on an empty stack. `todo` holds the
rest of a handler that has called the queue, so that `deliver()` (answer first,
fold statuses afterwards) and `on_disconnect()` have the order of the source.
The camera may answer, answer late (`late`), push or stay silent. Messages are
byte strings: `deliver()` resolves them through `BleWire`, which computes ids from
channels and bytes and parses the entries. Each message of an instance also
carries what it says (`says`), written by hand, and `told` keeps what the camera
has said on this connection, so that the properties do not rest on the parser
they are about. A message has at least one byte, because `feed()` delivers no
empty one. `set_att_payload()` only changes packet sizes.

Three definitions say what the properties need of the camera and the constants:
`Understood` (the parser takes each message for what it says), `Unambiguous` (no
unasked message looks like the answer to a command) and `Timely` (a write is
given up on within two keep-alive intervals, and only `tick()` submits the
keep-alive's command). `MCBleSession` assumes them, so that TLC evaluates them.

### Framing and Reassembler

The two header forms that `fragment()` writes, and the three that `feed()` reads,
are arithmetic on bytes; `feed()` ignores the counter of a continuation, so the
model has none. Payload bytes are pairs (message, position), so that a splice is
visible. Lengths are those that `fragment()` takes, and an `AttPayload` is larger
than the longest header. The link loses packets, damages them (cut short, overlong, of a
reserved type or of length zero), interleaves characteristics and
disconnects. If both a continuation and the next message's start are lost, what
follows is spliced on. `NoSplice` excepts a message whose start was lost; without
the exception TLC finds the splice.

### BleCamera

The Dart isolate runs one event at a time and an async function gives way at
each `await`, so `_onDrop()` and `close()` have a program counter each, and every
other action is one turn of the event loop. Of the native session the module
keeps what `CommandService` promises: which id is outstanding for which
submission. The native side answers through `port`, a queue that `OnEvent` empties
in order; an event is the bytes that `ble_bridge.cpp` writes, next to what it
meant by them, and Dart acts on what `decode` makes of the bytes. `misuse` records what is used after `close()` has released it. A future
is known by the number of its `send()`.

### LinkMachine and BringUp

`enter` and `advise` are the two halves of `LinkMachine::update()`. `BringUp` runs the loop of
`_bringUp()`: observe, ask for advice, act. BlueZ and the camera are external:
objects appear a few at a time (`Expose`), calls fail, the link drops (`Drop`),
`Notifying` survives a disconnect while the camera's own subscription
(`listening`) does not. The machine outlives a climb, the stopwatch does not
(`NextClimb`). Unsigned differences are taken modulo `Wrap`. The observation is
packed into flags and the advice into a 32-bit number and taken apart again on
the Dart side. The first climb finds a link up or not, with any objects already there;
no `Notifying` flag is set yet.

The deadline is tested once in a turn, before `_act()`, so the clock counts what
`_act()` does: it waits out the backoff, a delay takes one unit and a D-Bus call up to
one, `setPowered()`, `startDiscovery()`, `pair()`, and the `StopNotify` and `StartNotify` of each channel
(`calls`) included. `DeadlineKept` bounds what this adds to the deadline:
less than `backoff_max` and `MostCalls`, the calls of the longest `_act()`. With one unit
less the run refutes it. A D-Bus call that takes longer than the unit, or never
returns, is not bounded by anything in the loop.

### UsbDiscovery

`worker_loop()` has a program counter; its loops over arrivals and settling
cameras take one camera per step, so the kernel, the isolate and the worker
interleave everywhere they can. The kernel raises, lowers, unplugs and replugs a camera;
libusb queues the events. `Close` blocks the isolate until `Joined`. A camera is
known by its port, as in the code. History numbers the arrivals of a port that
the worker has been told of, and a record carries the number of the arrival it
settles. A reading of a camera is one step. `PumpEnds` goes on to the rescan or the
settling cameras only when no hotplug event is queued, where the code lets events
queue between `pump()`'s return and `enumerate()`'s list (`gopro_bridge.cpp:96-99`).

### UsbCamera, CameraCodec, GlazeMeta, DartApi

`UsbCamera` opens up that one step: `build()` and `advance_readiness()`
look at the kernel up to five times, and here each look is a step between which
the kernel may plug, unplug, rename, rebind, lease or give a name the camera has
lost to another device (`foreign`). `caller` says what a reading is for: an
arrival, a rescan, a settling turn or `wait_until_ready()`. `window` collects the levels the camera
really had during a reading, and `stale` says that a look by name did not meet the
camera's own interface. A reading need not report the stage of any one moment:
`StageWithinReading` says between which stages it lies, which is what
`UsbDiscovery`'s single step leaves out. The result is posted as a record through the pointer
`Dart_InitializeApiDL()` found; the record's bytes are those of `GlazeMeta`, and
`CameraCodec` reads them as Dart does. The native decoder of `GlazeMeta` has no
bounds check: its `wild` flag records a read past the buffer.

### HttpDownload

`pc` is the place of `download()`, `pump` the loop over the response, which nothing
stops when the timer wins: it ends when the closed sink refuses a chunk. The
sink takes chunks at once and the disk writes them later or fails. Chunks are
counted. `silence` is the true time since the last chunk.

### NetworkClient

Each call first listens for the push that ends it and then sends its request, so
a call has a future for the push (`settled`) and a place (`pc`). The transport below is
what `BleCamera` promises: one request per id, failed by a drop or `close()`.
Pushes name no attempt. The three requests have an action id each (`action`), so that
`connect()` and `connectNew()` may be outstanding at once; both end with the same
notification. A push may be malformed: what `fromBuffer()` throws of it ends the
future. A future that fails while nothing handles it is recorded in `unhandled`,
with how it failed.

## What the runs show

| run | properties | result |
|---|---|---|
| `command_queue` | `SingleFlight`: an id is outstanding once. `OneQueuedInFlight`: at most one ordinary command. `NoLostWakeup`: whatever may be sent has a pump on the stack. `ExactlyOnce`: a completion is owed for exactly the live and collected submissions, once each. `ServiceSpec`: refinement of `CommandService`. `EveryCommandCompletes`, though the camera may never answer or become ready | holds, callbacks nested two deep |
| `ble_session` | `GateMatchesCamera`: what the camera said, the gate and what the caller was told agree whenever no handler runs, whatever the bytes of its messages. `AnswersItsOwn`: no notification or message of another characteristic completes a command. `SentAfterReport`: nothing ordinary is sent on a connection before it reported both statuses. `KeepAliveInTime`: bounded silence | holds |
| `reassembler` | `NoSplice`, `IntactIsDelivered`, `Accounting`: a fault costs the message it hit and no other | holds |
| `ble_camera` | `NoOrphan`, `EveryFutureCompletes`, `OwnOutcome`, `ReleasedWithoutReconnect`. `EventsDecode`: Dart makes of the bytes what was meant | holds |
| `bring_up` | `StallIsEarned`. `DeadlineKept`: overrun by less than a backoff and the calls of one `_act()`. `ListeningIfUndisturbed`, `ClimbEnds`. `ActionFits`: what the climb does fits what it observed, through both packings | holds |
| `usb_discovery` | `CamerasMatchAttached`, `TerminalStateLearnt`, `AtMostOncePerArrival`: however replugs, rescans and late events interleave, no arrival the worker was told of comes out of `ready` twice. `StartedMeansLooked`, `CloseEnds` | holds |
| `usb_camera` | `StageWithinReading`: ready only if reachable during the reading; the stage reported not outside those of the reading, unless the name went stale; an address that is not the camera's is that of the device that took its name. `RenameWitnessed`, `DepartureIsKnown`. `ReadsBack`: both decoders return the record. `ReadingEnds` | holds, with the exceptions each property names |
| `http_download` | `WholeOrNothing`: returned whole or deleted. `StallIsEarned`, `BodyEnds`: given up after the stall timeout, and not before | holds |
| `network_client` | `NothingMissed`: no call waits on after its own end was delivered. `ScanErrorsHandled`, an action property: `close()`, a drop or a refusal leaves no error of a scan unhandled; what does is a scan begun on closed streams, or one whose timer runs out, or whose push cannot be read, while its reply is awaited. `CallsEnd` | holds |
| `stolen_reply` | `NoStolenReply`: a reply completes the command it answers | violated: late answer after a timeout |
| `reconnect` | `ReconnectCompletes`: a reconnection whose climb succeeded comes up | violated: `_attach()` sends before the link is up |
| `deaf_after_drop` | `ReadyMeansListening`: ready implies that the camera listens on every required channel | violated: drop within a climb |

Not kept as properties of a run, though they hold on the same instances: the
modules' type invariants (but the queue's), `UngatedNeverWait`,
`NothingSurvivesDisconnect` (`BleSession`) and `DownIsTerminal` (`BleCamera`),
which are proved too, and `EveryCameraSettles` (`UsbDiscovery`).

The modules also define formulas that state what a comment or document says and
that TLC refutes with a short trace. No run is kept for them:

- `KeepAliveBlockedOnlyByItself` (`CommandQueue`): `command_queue.h:29` says the
  keep-alive is never blocked; `submit()` refuses it while an application's
  command holds its id (`command_queue.cpp:109`).
- `OneFastpassInFlight` (`CommandQueue`, with two fastpass commands): the comment at
  `command_queue.cpp:59` against line 60. Two fastpass commands with different
  ids are in flight together.
- `SentOnlyWhenClear` (`BleSession`): `command_queue.h:8` against
  `ble_session.cpp:116`. A reply that reports busy frees the slot and pumps
  before the report is folded in.
- `OwnOutcome` (`BleCamera`, when `AppCmds` holds a write of setting 91): the keep-alive's outcome
  completes an application's write of the same setting (`ble_transport.dart:451`).
- `NothingUsedAfterRelease` (`BleCamera`): `close()` during a reconnection frees
  handles that `_onDrop()` goes on to use (`ble_transport.dart:414`, against line
  69). Without reconnection it holds: `ReleasedWithoutReconnect`.
- `CloseReleases` (`BleCamera`, `FairSpec`): `close()` and `_onDrop()` empty one
  list of subscriptions at once, so `close()` may throw before it releases
  (`ble_transport.dart:373`).
- `ReadyMeansListening` (`BringUp`) also fails without a drop, when an optional
  channel is counted for a required one (`ble_transport.dart:705`, `ble_link.h:23`).
- `OptionalDoesNotGate` (`BringUp`, `Refused = {"network"}`, located first): a
  refused optional channel ends `_subscribe()` before the required ones
  (`ble_transport.dart:820`, `README.md:546`).
- `BackoffCarriesOver` (`BringUp`): `ble_link.cpp:128` clears the attempts on a
  change of stage; `ble_transport.dart:651` says they carry over.
- `ReadyIsShown` (`UsbDiscovery`): `distinct()` compares ports only, so a camera
  plugged into the same port again never comes out of `ready`
  (`discovery.dart:46`, against lines 41-43).
- `RescanKeepsReady` (`UsbDiscovery`, `MaxUpsets = 0`, `MaxRescans = 1`): a rescan
  reports a ready camera as `kHostAddressed` (`gopro_bridge.cpp:99`), and nothing
  settles it again.
- "A camera appears here at most once per attachment" (`discovery.dart:42`), read of the
  kernel's attachments: libusb may report a camera twice that arrives during the
  registration, and one that is replugged while it settles may be found ready
  before its departure and new arrival are delivered and again after (with a
  `MaxLag` of 2). `distinct()` hides the second report only when no other camera
  came out in between. What holds is `AtMostOncePerArrival`, of the arrivals that
  the worker is told of.
- `DownloadEnds` (`HttpDownload`): the stall timer starts with the body, so headers
  or an error's body that never come are waited for without end
  (`gopro_http.dart:212`).
- `NothingPartial` (`HttpDownload`): when the disk fails, `sink.close()` throws inside
  the catch clause, or after it, and the partial file stays (`gopro_http.dart:225`
  and 233, against line 226).
- `StraightToDisk` (`HttpDownload`): the sink takes chunks faster than the disk does.
- `ErrorsHandled` (`NetworkClient`): `connect()` and `connectNew()` leave the future
  that listens for the push without a handler when their request fails
  (`network_client.dart:204`, against line 296); `scan()` does when the streams are
  closed before it starts, and when its timer runs out or a notification it cannot
  read comes before the reply.
- `OwnResult` (`NetworkClient`): a push of an attempt that timed out ends the next.

- `OwnAddress` (`UsbCamera`): a kept interface name may belong to another device, whose
  address is then reported (`gopro_usb.cpp:160`), where `gopro_usb.h:105` says "handed out
  by the camera's own DHCP server".

Read from `UsbCamera`, as the exceptions its properties name: a rescan that meets a camera
just leaving overwrites the cached serial, so that the departure has none
(`gopro_usb.cpp:414`); a negative `readinessTimeout` never runs out
(`gopro_bridge.cpp:120`). From `DartApi`: `gopro_bridge_init()` drops the result that
tells of a VM of another major version. From `BleWire`: `query_parser.h` keeps the entries
before a truncated one, and `deliver()` ignores them.

## Bounds

- `CommandQueue`: commands of each priority, two of which share an id; timeouts of 1
  and 2 units, so that a command can time out in flight, in the queue, or be
  overtaken. `MaxNest` 2 lets a completion submit, and the completion this
  triggers call again; the safety properties and the refinement are proved for
  every `MaxNest`.
- `BleSession`: replies and pushes with both statuses of either value; pushes with one
  alone, an unknown id, a missing value, too short and truncated ones, settings with a
  status' id (a reply is folded in by the same code as a push); a
  protobuf command that shares its leading byte with another and a notification
  of its feature; a write timeout (3) longer than the keep-alive interval (2), as 5 s and
  3 s are in the code, so that an unanswered keep-alive meets the next one; a
  queue timeout (1) that a waiting command meets before the one in flight is given up on.
- `Reassembler`: `AttPayload` 4 with lengths 2, 5 and 6: one packet, two
  and three; two characteristics. The header forms are proved for all lengths.
- `BleCamera`: two sends with two ids, the first status query included, suffice
  for reuse of an id after a timeout, a drop or a refusal. `MaxPort` lets a
  keep-alive be due only when the isolate has taken its messages; commands and
  drops are not bounded this way.
- `BringUp`: one drop per climb and two climbs give stale channels, stale
  `Notifying` flags and a machine with an old start of stage. `Timeout` 4 exceeds
  every stage's budget (2 or 3) and leaves room for a backoff (`BackoffMax` 2) before the
  last turn. `StopNotify` fails always or never in a behaviour.
- `UsbDiscovery`: two ports, one whose camera moves (`Restless`) and one whose
  camera stays at any stage, so that loops over several cameras happen. One
  replugging or fall, one rescan, a settling budget of one turn, one
  event or message of lag when the kernel acts; the safety properties are proved
  for any ports, budget, lag and number of replugs and rescans.
- `UsbCamera`: three changes of the kernel suffice for a rename, a takeover of the
  old name and an address, or for unplugging and replugging within a reading; two
  cameras, one with a serial that gives no address; budgets of 0 and -1; names and
  serials are short byte strings, one of each length. But for the bytes, the safety
  properties are proved for any serials, names, budgets and number of changes.
- `HttpDownload`: four chunks, a stall timeout of three ticks.
- `NetworkClient`: two calls of any of the three kinds at once, one drop, one message under
  way. One is enough for every order of messages: the camera sends when it likes, and
  a message lost with the link is as good as one not sent.

## Fairness

`command_queue` assumes that a call runs to its end, that the clock moves and
that `tick()` is called: the transport's periodic timer does that. `ble_camera`
assumes that the isolate takes its messages, that the ticker runs and that awaits
return; of `_bringUp()` that it ends, which is `ClimbEnds`. `bring_up` assumes that
each D-Bus call returns or times out. `usb_discovery` assumes that the worker
thread and the isolate are scheduled, `usb_camera` that the reading program is.
`http_download` assumes the isolate, its timers and the disk, `network_client` the
isolate, its timers and the native queue's timeouts, which `EveryCommandCompletes`
shows. Nothing is assumed of the camera, of BlueZ's
objects appearing, or of the application.

Deadlock is not checked where the system may stop: a closed camera, a climb that
has ended, a closed discovery, a camera that is read and left alone, a download
that is over, calls that have all ended.

## Proofs

Each theorem holds for every value of the constants that satisfies the
assumptions the module names. An inductive invariant was checked by TLC on the
run's instance before it was proved.

`BleSessionProofs` on `CommandQueue`, for any commands, ids, priorities, timeouts and
nesting:

- `TypeCorrect`: `Spec => []TypeOK`.
- `SingleFlightHolds`: inductive with `TypeOK`; only `submit()` adds an id, after
  a search of both lists, and `pump()` moves an entry from one to the other.
- `OneQueuedHolds`: inductive with `TypeOK`; only `pump()` transmits, and it
  recomputes the serialisation condition on every turn of its loop.
- `NoLostWakeupHolds` by `WakeupInv == NoLostWakeup /\ CollectAbovePump`.
  `NoLostWakeup` alone is not inductive: when the `collect` frame of a `tick()` is popped it
  must be replaced by frames that end in a pump, so the invariant says where on the
  stack such frames lie.
- `UngatedNeverWaitHolds`, from `NoLostWakeup` on an empty stack: a keep-alive or
  fastpass command that waits could be sent, so a pump would be on the stack.
- `ExactlyOnceHolds` by `OnceInv`, which says the same of the lists of commands on
  the stack (`Held`, `Once`) so that a push or a pop changes one of them, and adds
  that a frame which completes nothing lists nothing.
- `ImplementsService`: initial states map to initial states, and by `OnceStep` every step
  accepts, settles or reports in `CommandService`, or stutters.

`BleSessionProofs` on `BleSession`, for any commands, timeouts, interval and messages:

- `QueueBelowSession`. The session does one thing `CommandQueue`'s clients do not:
  a tick submits the keep-alive while it may be outstanding. `SessionIsQueue` shows
  that every step of the session is a step of the queue or such a refusal, and
  `RefusalKeeps` that a refusal keeps the queue's invariants.
- `SessionTypeCorrect`, and `NothingSurvives` by `CancelInv`: between `cancel_all()`
  and the reset only completions are on the stack.
- `GateHolds`, assuming `Understood`. `GateMatchesCamera` speaks of moments when no handler
  runs; `GateInv` says what holds within one: what the camera said is what is
  kept, or will be when the pending fold or reset has run.
- `SentAfterReportHolds`, assuming `Understood`, an action property: only `pump()`
  transmits (`OnlyPumpSends`), behind a gate that `GateInv` ties to the statuses
  received, and it does not run between `cancel_all()` and the reset.
- `AnswersItsOwnHolds`, assuming `Unambiguous`: `ResolvedSpeaks`, an id determines the channel, the
  width and the leading bytes it was made of.
- `KeepAliveInTimeHolds`, assuming `Timely`, by `AliveInv`: the silence is the time
  since the last submission, or one interval more if that was refused, and a
  keep-alive in flight is as old as the silence; so the one that causes a second
  refusal has been given up on by the tick that would make it.

`ReassemblerProofs`, for any `AttPayload` above 3, any lengths up to the maximum
and any characteristics: `HeaderRoundTrip` (`feed()` reads back every length
`fragment()` can write, in either form), `RxTypeCorrect`, `AccountingHolds`, `NoSpliceHolds` and the action
property `IntactIsDeliveredHolds`. `RxInv` adds to the accounting what is still to be
sent (`Sending`: the end of the current message), that a message in progress
whose start was fed is the current one with no more bytes than have gone by
(`Assembling`), and that nothing is missing while every packet was fed (`Keeping`).

`BleCameraProofs`, for any commands and any number of calls:

- `EventsDecodeHolds`: lemmas on the little-endian ids, on the width that tells where
  an id's channel is, and on each kind of event, for every byte string.
- `CameraTypeCorrect`, `NoOrphanHolds`, `ReleasedHolds` and the action property
  `DownIsTerminalHolds` by `CameraInv`: which of `_onDrop()` and `close()` may be where
  (`Phases`), what they have left behind (`Settled`, `Undisturbed`), that who waits
  is listed (`Listed`) and what is listed has its outcome on the way (`OnTheWay`).
- `OwnOutcomeHolds` by `Owned`: while the link is up, an id's command is outstanding, or
  its one outcome is in the port, or there is neither. It assumes that the
  application does not write the keep-alive's setting, without which it is false.

`BringUpProofs`, for any stage timeouts, backoffs and deadline, any channels and any
number of climbs: `StallIsEarnedInClimb`, `DeadlineKeptHolds`, `ListeningHolds` and the
action property `ActionFitsHolds`, with lemmas that flags and advice read back
as packed. `BringInv` ties the stage's clock to the climb's (`Clocks`): a machine
used before either leaves its stage at the first look or starts at zero. `Deadlines`
says where the clock can be at each place of the loop, and within `_subscribe()` how many
calls are left to the channels not yet subscribed.

`UsbDiscoveryProofs`, for any ports, settling budget, lag of events and messages and
any number of replugs and rescans, by `UsbInv`:

- `UsbTypeCorrect`, with lemmas on `forget()` (what stays, once each and in order)
  and on the loop over the settling cameras.
- `CamerasMatchAttachedHolds` and `TerminalStateLearntHolds` by `Snapshot`. The
  properties speak of moments when nothing is on its way, which no step preserves;
  `Snapshot` says for each port what is true before: the last event about it tells
  whether a camera is there (`EventsTell`), and where no event is about it, the last
  message about it, or else what Dart holds already, is right (`InStep`,
  `Learns`) - right to the stage for a camera that does not settle. `Enumerating`
  is needed because a rescan's list may hold a camera that has gone: then its
  departure is still to come. `Settling` ties the loop's place to the list it
  walks, which loses elements under it.
- `AtMostOncePerArrivalHolds` by `Once`: the arrivals that settle, whose ready
  record is under way, and that have come out are different ones.
- `StartedMeansLookedHolds`, an action property, by `Looked`: before the sentinel,
  posted or to be posted, lies an update of every camera there was at the start.

`UsbCameraProofs`, for any serials, interface names and budgets, and any number of
changes of the kernel between the looks of a reading, by `CameraInv`:

- `StageWithinReadingHolds` by `Sampling` and `Between`: after each look, what the record says
  so far was reached at some moment of the reading, the present level is one of
  the moments recorded, and the address is of who had the name (`Addressed`). The property
  alone speaks of the end of a reading only.
- `RenameWitnessedHolds` by `Names_OK`, which also follows the copy of the Camera that
  settles from one reading to the next.
- The action property `DepartureIsKnownHolds` by `Cached` (what is cached or being
  built was read while the camera was there) and `Events`: arrivals and departures
  alternate, and of a camera that the worker takes for gone it holds nothing, so
  that nothing of one attachment is left when the next begins. `CameraAssumption`
  asks that a serial is more than line ends: sysfs would give an empty one.

`HttpDownloadProofs`, for any length and stall timeout: `HttpTypeCorrect`,
`WholeOrNothingHolds` and the action property `StallIsEarnedHolds` by `HttpInv`, which follows
every chunk (`Conserved`), says what `download()` holds at each place (`Placed`) and
that the timer is never ahead of the silence (`TimerBehind`).

`NetworkClientProofs`, for any set of calls: `NetworkTypeCorrect`,
`NothingMissedHolds` and the action property `ScanErrorsHandledHolds` by `NetworkInv`: a call listens before
the camera can know of it (`Begun`), a correlation id is asked once (`OneEach`), and
requests are resolved before the streams close (`DownHasNoRequest`).

Only model-checked: everything under fairness (`EveryCommandCompletes`,
`EveryFutureCompletes`, `ClimbEnds`, `CloseEnds`, `ReadingEnds`, `BodyEnds`, `CallsEnd`),
which is out of the prover's reach; and what the recursive definitions
compute for all inputs (`entries` of `BleWire`, the encoder of `GlazeMeta`), which
needs an induction over data. `Understood` is therefore a hypothesis, and
`ReadsBack`, that both decoders return every record posted, is checked for the
records that arise in the run.

## Not modelled

- COHN and streaming: polls and sequences of single exchanges with nothing
  concurrent in them; likewise the JSON requests of `gopro_http.dart`, `accessPoints()`,
  `release()` and the host's own Wi-Fi.
- Of `download()`: `exists()` and `delete()` failing (`gopro_http.dart:228` and 236), the
  parent directory that cannot be created (192), and an `onProgress` that throws (219).
- The pairing agent's one `_pairing` field, shared by climbs of several cameras,
  and the choice among cameras.
- Two cameras whose serials end in the same three digits, which share an address.
- `LinkMachine::reset()` and the attempt counter's accessors, which nothing calls;
  the `seen_bonded_without_encryption_` flag, which only changes a message.
- Argument checks of the C functions that the Dart caller never fails.
- The declarations of the Dart SDK in `dart_api.h`, `dart_native_api.h` and
  `dart_api_dl.h`: a vendored interface of which the bridges call one function. Its
  symbols are those of `DartApi`.
- Protobuf bodies, generated tables, library loading, the wording of
  explanations: no order of events is involved.

## Plan

Done: the modules above, and the proofs of every safety property of the runs but
`ReadsBack`. Left:

1. The encodings of a fixed number of fields in `ReadsBack`, as far as they need no
   induction.
2. The pairing agent in `BringUp`, and an abstract link shown to be implemented by
   `BleCamera` below `NetworkClient`.
