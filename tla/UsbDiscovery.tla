---------------------------- MODULE UsbDiscovery ----------------------------
(***************************************************************************)
(* USB discovery: the worker thread of native/src/gopro_bridge.cpp over    *)
(* native/src/gopro_usb.cpp, and GoProDiscovery (lib/src/discovery.dart),  *)
(* which takes what the worker posts in order.                             *)
(*                                                                         *)
(* The kernel and libusb are external: a camera in a USB port climbs to an *)
(* address and an answer, may fall back, and may be unplugged at any time; *)
(* libusb queues the arrivals and departures for the worker's pump().      *)
(* A camera is known by its port (sysfs_name), its only identity here, so  *)
(* the arrivals in a port are numbered as the worker is told of them.      *)
(***************************************************************************)
EXTENDS Naturals, Sequences, FiniteSets, SequencesExt

CONSTANTS
  Ports,        \* USB ports, by sysfs_name
  Addressable,  \* ports whose camera's serial yields an address
  Restless,     \* bound: ports whose cameras come, go and change stage
  Budget,       \* turns of the worker's loop before a camera is abandoned
  MaxLag,       \* bound: undelivered events and messages when the kernel acts
  MaxUpsets,    \* bound: cameras plugged in, and falls back by a stage
  MaxRescans    \* bound: calls of rescan()

ASSUME UsbAssumption ==
  /\ IsFiniteSet(Ports) /\ "none" \notin Ports
  /\ Addressable \subseteq Ports /\ Restless \subseteq Ports
  /\ {Budget, MaxLag, MaxUpsets, MaxRescans} \subseteq Nat

\* Readiness, in order.
Stages == <<"kAbsent", "kUsbPresent", "kNetdevBound", "kHostAddressed", "kL3Ready">>
Readiness == Range(Stages)
Level(r) == CHOOSE n \in DOMAIN Stages : Stages[n] = r

VARIABLES
  kernel,      \* kernel: how far the camera in each port has really come
  plugs,       \* history: the camera's number; 1 is what was there at the start
  upsets,      \* history: what MaxUpsets bounds
  twice,       \* libusb: cameras there at the start that it reports again
  hotplug,     \* libusb: arrivals and departures not yet delivered
  pc,          \* where worker_loop() is
  todo,        \* what its present loop has still to visit
  pending,     \* ctx->pending
  rescan,      \* ctx->rescan
  stop,        \* ctx->stop
  port,        \* messages posted to the isolate
  current,     \* _current
  started,     \* start() has completed
  closing,     \* close() waits for the worker to end
  closed,      \* close() has let the port go
  ready,       \* what has come out of the ready stream: cameras, by arrival
  arrivals,    \* history: arrivals in each port the worker has been told of
  seen,        \* history: what the worker last made of the camera in the port
  rescans

kernelVars == <<kernel, plugs, upsets, twice, hotplug>>

MaxPlugs == MaxUpsets + 1
workerVars == <<pc, todo, pending>>
dartVars   == <<current, started, closing, closed, ready, rescans>>
history    == <<arrivals, seen>>
usbVars    == <<kernelVars, workerVars, rescan, stop, port, dartVars, history>>

Nowhere == "none"
Sentinel == [kind |-> "kSentinel"]
Update(p, n, r) == [kind |-> "kUpdate", cam |-> p, nth |-> n, readiness |-> r]
Left(p)         == [kind |-> "kLeft", cam |-> p]

\* An event of libusb, a camera in ctx->pending (nth numbers its arrival), and
\* what is posted.
Event   == [cam : Ports, arrived : BOOLEAN]
Pending == [cam : Ports, nth : Nat, age : 0..Budget, last : Readiness, bound : BOOLEAN]
Message == {Sentinel} \cup [kind : {"kLeft"}, cam : Ports]
             \cup [kind : {"kUpdate"}, cam : Ports, nth : Nat, readiness : Readiness]

present == {p \in Ports : kernel[p] # "kAbsent"}

-----------------------------------------------------------------------------
(* Reading a camera's readiness. *)

\* resolve_netdev() keeps the interface it has seen before.
resolve_netdev(p, bound) == bound \/ Level(kernel[p]) >= Level("kNetdevBound")

\* advance_readiness(): the stages are tried in order, the last one only with
\* a port to probe and an address.
advance_readiness(p, bound, probe) ==
  CASE kernel[p] = "kAbsent" -> "kAbsent"
    [] kernel[p] = "kUsbPresent" ->
         IF resolve_netdev(p, bound) THEN "kNetdevBound" ELSE "kUsbPresent"
    [] kernel[p] \in {"kNetdevBound", "kHostAddressed"} -> kernel[p]
    [] kernel[p] = "kL3Ready" ->
         IF probe /\ p \in Addressable THEN "kL3Ready" ELSE "kHostAddressed"

\* Mutant: build() probes the camera too.
build_probing(p) == advance_readiness(p, FALSE, TRUE)

\* Discovery::Impl::build() samples without a probe.
build(p) == advance_readiness(p, FALSE, FALSE)

-----------------------------------------------------------------------------
(* The hotplug callback. *)

arrival(p, n) == [cam |-> p, nth |-> n, age |-> 0, last |-> build(p),
                  bound |-> resolve_netdev(p, FALSE)]

\* Mutant: a departure leaves the camera settling.
forget_nothing(p) == pending

\* std::erase_if(): the elements that stay, in their order.
staying(p) == {i \in DOMAIN pending : pending[i].cam # p}
rank(I, i) == Cardinality({j \in I : j <= i})
forget(p)  == [n \in 1..Cardinality(staying(p)) |->
                 pending[CHOOSE i \in staying(p) : rank(staying(p), i) = n]]

Arrived(p) ==
  /\ arrivals' = [arrivals EXCEPT ![p] = @ + 1]
  /\ pending' = Append(pending, arrival(p, arrivals'[p]))
  /\ port' = Append(port, Update(p, arrivals'[p], build(p)))
  /\ seen' = [seen EXCEPT ![p] = build(p)]

Departed(p) ==
  /\ pending' = forget(p)
  /\ port' = Append(port, Left(p))
  /\ UNCHANGED history

-----------------------------------------------------------------------------
(* worker_loop(). *)

Start ==
  /\ pc = "start"
  /\ port' = Append(port, Sentinel)
  /\ pc' = "top"
  /\ UNCHANGED <<todo, pending, kernelVars, rescan, stop, dartVars, history>>

\* Mutant: the loop is not told to stop.
stopping_never == FALSE

stopping == stop

Top ==
  /\ pc = "top"
  /\ pc' = IF stopping THEN "ended" ELSE "pump"
  /\ UNCHANGED <<todo, pending, kernelVars, rescan, stop, port, dartVars, history>>

\* pump(): the callback runs for each event, on this thread.
Pump ==
  /\ pc = "pump" /\ hotplug # <<>>
  /\ hotplug' = Tail(hotplug)
  /\ LET e == Head(hotplug)
     IN  IF e.arrived THEN Arrived(e.cam) ELSE Departed(e.cam)
  /\ UNCHANGED <<pc, todo, kernel, plugs, upsets, twice, rescan, stop, dartVars>>

\* Each camera in pending is to be visited, then it is round to the top.
startSettling == [i \in DOMAIN pending |-> i]
unlessDone(here, rest) == IF rest = <<>> THEN "top" ELSE here

\* pump() returns; if a rescan was asked for, the device list is taken.
PumpEnds ==
  /\ pc = "pump" /\ hotplug = <<>>
  /\ rescan' = FALSE
  /\ IF rescan /\ present # {}
     THEN pc' = "enumerate" /\ todo' = SetToSeq(present)
     ELSE pc' = unlessDone("settle", pending) /\ todo' = startSettling
  /\ UNCHANGED <<pending, kernelVars, stop, port, dartVars, history>>

\* One camera of enumerate() is built and posted.
Enumerate ==
  /\ pc = "enumerate"
  /\ LET p == Head(todo)
     IN  /\ port' = Append(port, Update(p, arrivals[p], build(p)))
         /\ seen' = [seen EXCEPT ![p] = build(p)]
  /\ IF Len(todo) > 1
     THEN todo' = Tail(todo) /\ UNCHANGED pc
     ELSE todo' = startSettling /\ pc' = unlessDone("settle", pending)
  /\ UNCHANGED <<pending, kernelVars, rescan, stop, dartVars, arrivals>>

\* Mutant: an abandoned camera is dropped without a word.
final_record_never(e, after) == FALSE

\* A final record on abandonment, even if nothing changed.
final_record(e, after) == after = e.last /\ after # "kL3Ready"

abandoned(e) == e.age >= Budget

aged(e) == e.age + 1

settled(after) == after \in {"kL3Ready", "kAbsent"}

\* One settling camera: post a change, and let it go when it is ready, gone or
\* out of time.  todo holds the indices that remain, which shift when one goes.
Settle ==
  /\ pc = "settle"
  /\ LET i     == Head(todo)
         e     == pending[i]
         after == advance_readiness(e.cam, e.bound, TRUE)
         done  == settled(after) \/ abandoned(e)
         next  == [e EXCEPT !.age = aged(e), !.last = after,
                            !.bound = resolve_netdev(e.cam, e.bound)]
     IN  /\ port' = IF after # e.last \/ (done /\ final_record(e, after))
                    THEN Append(port, Update(e.cam, e.nth, after)) ELSE port
         /\ pending' = IF done THEN RemoveAt(pending, i) ELSE [pending EXCEPT ![i] = next]
         /\ todo' = IF done THEN [k \in DOMAIN Tail(todo) |-> Tail(todo)[k] - 1]
                            ELSE Tail(todo)
         /\ seen' = [seen EXCEPT ![e.cam] = after]
  /\ pc' = unlessDone("settle", Tail(todo))
  /\ UNCHANGED <<kernelVars, rescan, stop, dartVars, arrivals>>

-----------------------------------------------------------------------------
(* GoProDiscovery. *)

\* distinct() on the ready stream drops a camera with the name of the last one.
passes(e) ==
  e.readiness = "kL3Ready" /\ (ready = <<>> \/ ready[Len(ready)].cam # e.cam)

OnMessage ==
  /\ port # <<>> /\ ~closing
  /\ port' = Tail(port)
  /\ LET e == Head(port)
     IN  \/ /\ e.kind = "kSentinel"
            /\ started' = TRUE
            /\ UNCHANGED <<current, ready>>
         \/ /\ e.kind = "kUpdate"
            /\ current' = [current EXCEPT ![e.cam] = e.readiness]
            /\ ready' = IF passes(e) THEN Append(ready, [cam |-> e.cam, nth |-> e.nth])
                        ELSE ready
            /\ UNCHANGED started
         \/ /\ e.kind = "kLeft"
            /\ current' = [current EXCEPT ![e.cam] = Nowhere]
            /\ UNCHANGED <<started, ready>>
  /\ UNCHANGED <<kernelVars, workerVars, rescan, stop, closing, closed, rescans, history>>

Rescan ==
  /\ started /\ ~closing /\ rescans < MaxRescans
  /\ rescans' = rescans + 1
  /\ rescan' = TRUE
  /\ UNCHANGED <<kernelVars, workerVars, stop, port, current, started, closing, closed,
                 ready, history>>

\* close(): destroy() tells the worker to stop and joins it, on the isolate.
Close ==
  /\ started /\ ~closing
  /\ closing' = TRUE /\ stop' = TRUE
  /\ UNCHANGED <<kernelVars, workerVars, rescan, port, current, started, closed, ready, rescans, history>>

\* ~Discovery(): what libusb still holds is lost with its context.
released == hotplug' = <<>>

Joined ==
  /\ closing /\ ~closed /\ pc = "ended"
  /\ closed' = TRUE
  /\ released /\ port' = <<>>
  /\ UNCHANGED <<kernel, plugs, upsets, twice, workerVars, rescan, stop, current, started, closing, ready, rescans, history>>

-----------------------------------------------------------------------------
(* The kernel and libusb. *)

kernelStep ==
  /\ Len(hotplug) + Len(port) <= MaxLag /\ ~closing
  /\ UNCHANGED <<workerVars, rescan, stop, port, dartVars, history>>

Plug(p) ==
  /\ kernel[p] = "kAbsent" /\ upsets < MaxUpsets
  /\ upsets' = upsets + 1
  /\ kernel' = [kernel EXCEPT ![p] = "kUsbPresent"]
  /\ plugs' = [plugs EXCEPT ![p] = @ + 1]
  /\ hotplug' = Append(hotplug, [cam |-> p, arrived |-> TRUE])
  /\ UNCHANGED twice /\ kernelStep

Unplug(p) ==
  /\ p \in present
  /\ kernel' = [kernel EXCEPT ![p] = "kAbsent"]
  /\ hotplug' = Append(hotplug, [cam |-> p, arrived |-> FALSE])
  /\ UNCHANGED <<plugs, upsets, twice>> /\ kernelStep

Advance(p) ==
  /\ p \in present /\ kernel[p] # "kL3Ready"
  /\ kernel' = [kernel EXCEPT ![p] = Stages[Level(@) + 1]]
  /\ UNCHANGED <<plugs, upsets, twice, hotplug>> /\ kernelStep

Lapse(p) ==
  /\ upsets < MaxUpsets /\ Level(kernel[p]) > Level("kUsbPresent")
  /\ kernel' = [kernel EXCEPT ![p] = Stages[Level(@) - 1]]
  /\ upsets' = upsets + 1
  /\ UNCHANGED <<plugs, twice, hotplug>> /\ kernelStep

-----------------------------------------------------------------------------
\* Mutant: cameras already there are left to the worker.
enumerate_at_start_later(ps) == <<>>

\* gopro_discovery_create() registers the callback with
\* LIBUSB_HOTPLUG_ENUMERATE: it runs for the cameras already there, before the
\* worker starts.  Of one that arrives meanwhile libusb may tell again.
enumerate_at_start(ps) == SetToSeq(ps)

\* gopro_discovery_create(): the cameras there are reported at once or soon.
Created ==
  /\ twice \in SUBSET (present \cap Restless)
  /\ LET ps == enumerate_at_start(present)
     IN  /\ pending = [i \in DOMAIN ps |-> arrival(ps[i], 1)]
         /\ port = [i \in DOMAIN ps |-> Update(ps[i], 1, build(ps[i]))]
         /\ arrivals = [p \in Ports |-> IF p \in Range(ps) THEN 1 ELSE 0]
  /\ LET later == present \ {pending[i].cam : i \in DOMAIN pending}
     IN  hotplug = SetToSeq({[cam |-> p, arrived |-> TRUE] : p \in later \cup twice})
  /\ pc = "start" /\ closing = FALSE /\ closed = FALSE

\* Discovery::create() gives none, and start() throws with its port closed.
Refused ==
  /\ twice = {} /\ pending = <<>> /\ port = <<>> /\ hotplug = <<>>
  /\ arrivals = [p \in Ports |-> 0]
  /\ pc = "ended" /\ closing = TRUE /\ closed = TRUE

Init ==
  /\ kernel \in [Ports -> Readiness]
  /\ plugs = [p \in Ports |-> 1] /\ upsets = 0
  /\ Created \/ Refused
  /\ seen = [p \in Ports |-> build(p)]
  /\ todo = <<>> /\ rescan = FALSE /\ stop = FALSE
  /\ current = [p \in Ports |-> Nowhere] /\ started = FALSE /\ ready = <<>>
  /\ rescans = 0

WorkerStep == Start \/ Top \/ Pump \/ PumpEnds \/ Enumerate \/ Settle

Next ==
  \/ WorkerStep
  \/ OnMessage \/ Rescan \/ Close \/ Joined
  \/ \E p \in Restless : Plug(p) \/ Unplug(p) \/ Advance(p) \/ Lapse(p)

Spec == Init /\ [][Next]_usbVars

\* The worker thread and the isolate are scheduled.
FairSpec == Spec /\ WF_usbVars(WorkerStep) /\ WF_usbVars(OnMessage) /\ WF_usbVars(Joined)

-----------------------------------------------------------------------------
(* Properties. *)

\* Types.
TypeOK ==
  /\ kernel \in [Ports -> Readiness] /\ plugs \in [Ports -> 1..MaxPlugs]
  /\ upsets \in 0..MaxUpsets /\ twice \subseteq Ports /\ rescans \in 0..MaxRescans
  /\ hotplug \in Seq(Event) /\ pending \in Seq(Pending) /\ port \in Seq(Message)
  /\ pc \in {"start", "top", "pump", "enumerate", "settle", "ended"}
  /\ current \in [Ports -> Readiness \cup {Nowhere}]
  /\ ready \in Seq([cam : Ports, nth : Nat])
  /\ arrivals \in [Ports -> Nat] /\ seen \in [Ports -> Readiness]
  /\ rescan \in BOOLEAN /\ stop \in BOOLEAN /\ started \in BOOLEAN
  /\ closing \in BOOLEAN /\ closed \in BOOLEAN

drained == hotplug = <<>> /\ port = <<>> /\ started /\ ~closing

\* cameras is a "Snapshot of every camera currently attached": when every
\* event has been delivered, it holds the attached cameras and no other.  No
\* update posted after a departure, by a settling camera or by a rescan,
\* brings a camera back that is gone.
CamerasMatchAttached ==
  drained => \A p \in Ports : current[p] # Nowhere <=> p \in present

settling == {pending[i].cam : i \in DOMAIN pending}

\* "so Dart always learns the terminal state": once a camera no longer
\* settles, what Dart holds of it is what the worker last saw, rescans and
\* stale interface names notwithstanding.
TerminalStateLearnt ==
  drained => \A p \in present \ settling : current[p] = seen[p]

\* "an empty [cameras] afterwards genuinely means none attached": when start()
\* completes every camera that was there at its start, and has not gone since,
\* is in the snapshot.
StartedMeansLooked ==
  [][~started /\ started' =>
       \A p \in present : plugs[p] = 1 => current'[p] # Nowhere]_usbVars

\* Of the ready stream, "A camera appears here at most once per attachment":
\* so it is, rescans and lapses included, for every arrival that libusb
\* reports.  (It may report a camera twice; and one that is replugged while it
\* settles may be found ready before its arrival is reported, and after.)
AtMostOncePerArrival == IsInjective(ready)

\* A camera does not settle for ever, whatever it does, unless discovery is
\* closed.
EveryCameraSettles ==
  \A p \in Ports : p \in settling ~> p \notin settling \/ closing

\* close() blocks the isolate until the worker ends; it ends.
CloseEnds == closing ~> closed

-----------------------------------------------------------------------------
(* What the documentation says and the code does not do. *)

\* ready gives the "Cameras that have reached [Readiness.l3Ready]": the first
\* record of an arrival that says so comes out of it.
ReadyIsShown ==
  [][\A p \in Ports :
       current[p] # "kL3Ready" /\ current'[p] = "kL3Ready"
       /\ [cam |-> p, nth |-> Head(port).nth] \notin Range(ready)
       => ready' # ready]_usbVars

\* firstReady() "Waits for the first camera to become reachable": where no
\* camera falls back, one known to be ready stays so until it is unplugged.
RescanKeepsReady ==
  [][\A p \in present : current[p] = "kL3Ready" => current'[p] \in {"kL3Ready", Nowhere}]_usbVars

=============================================================================
