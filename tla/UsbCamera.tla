------------------------------ MODULE UsbCamera ------------------------------
(***************************************************************************)
(* How one camera is read from a kernel that changes while it is read:     *)
(* build(), advance_readiness(), wait_until_ready() and the arrival cache  *)
(* of native/src/gopro_usb.cpp, their use by the worker of gopro_bridge.cpp *)
(* and the bytes in which the result reaches Dart.                         *)
(*                                                                         *)
(* UsbDiscovery takes a reading as one step and has several cameras; here  *)
(* every look at the kernel is a step of its own and there is one camera,  *)
(* with another network device (foreign) that may take an interface name   *)
(* the camera has let go of.  An IPv4 address is known by its owner, the   *)
(* camera's derived one by the three digits that decide it.                *)
(***************************************************************************)
EXTENDS CameraCodec, DartApi, FiniteSets, FiniteSetsExt, Functions

CONSTANTS
  VM,          \* NativeApi.initializeApiDLData: the table of the running VM
  Serials,     \* the serial of each camera plugged in, as characters
  Names,       \* names of network interfaces
  Budgets,     \* values of set_timeout(), in turns of the loop
  Timeout,     \* timeout_ms of wait_until_ready(), in polls
  MaxChanges,  \* bound: changes of the kernel's state
  MaxRescans   \* bound: calls of rescan()

ASSUME CameraAssumption ==
  /\ Serials \in Seq(Seq(0..127)) \ {<<>>}
  /\ \A s \in Range(Serials) : \E i \in DOMAIN s : s[i] \notin {10, 13}
  /\ Names \subseteq Seq(0..127) \ {<<>>}
  /\ IsDartApi(VM)
  /\ Budgets \subseteq Int /\ {Timeout, MaxChanges, MaxRescans} \subseteq Nat

VARIABLES
  \* The kernel.
  attached, own, foreign, lease, answers, events, changes, plugs,
  \* The program: "bridge" is the worker of gopro_bridge.cpp, "tool" a command
  \* line program that waits for one camera.
  program, pc,
  caller,    \* what the present reading is for
  c,         \* the Camera being read
  cache,     \* impl_->cache
  pending,   \* ctx->pending: its one camera, with what was last posted
  elapsed,   \* turns since arrival; in the tool, since wait_until_ready() began
  budget, rescan, rescans,
  \* History.
  window,    \* levels the camera has had during the present reading
  stale,     \* the name looked up in the present reading was not the camera's
  names,     \* names this Camera has been seen under
  known,     \* serials read while the camera was there, in this attachment
  gone,      \* a build() in this attachment found the camera gone
  posted     \* the last message: its kind and record

kernelVars  == <<attached, own, foreign, lease, answers, events, changes, plugs>>
programVars == <<program, pc, caller, c, cache, pending, elapsed, budget, rescan, rescans>>
readingVars == <<window, stale, names, known, gone>>
cameraVars  == <<kernelVars, programVars, readingVars, posted>>

Nothing == <<>>
kGoProVid == 9842

\* A number in decimal, and sysfs_name(): "2-1.4", or "usb2" for a root hub.
decimal[n \in Nat] ==
  IF n < 10 THEN <<48 + n>> ELSE Append(decimal[n \div 10], 48 + (n % 10))
sysfs_name(bus, ports) ==
  IF ports = <<>> THEN <<117, 115, 98>> \o decimal[bus]
  ELSE decimal[bus] \o FlattenSeq([i \in DOMAIN ports |->
                                   <<IF i = 1 THEN 45 ELSE 46>> \o decimal[ports[i]]])

\* Readiness and SerialSource, by their values.
kAbsent == 0
kUsbPresent == 1
kNetdevBound == 2
kHostAddressed == 3
kL3Ready == 4
SerialSource == [kNone |-> 0, kDescriptor |-> 1, kSysfs |-> 2]

serial == Serials[plugs]

\* How far the camera has really come.
level ==
  CASE ~attached                 -> kAbsent
    [] attached /\ own = Nothing -> kUsbPresent
    [] own # Nothing /\ ~lease["own"] -> kNetdevBound
    [] own # Nothing /\ lease["own"] /\ ~answers -> kHostAddressed
    [] OTHER -> kL3Ready

-----------------------------------------------------------------------------
(* Looking at the kernel. *)

address_of(who) == IF who = "own" THEN <<1>> ELSE <<2>>
operstate_of(who) == IF who = "own" THEN <<3>> ELSE <<4>>
holder(name) == {who \in {"own", "foreign"} : name # Nothing /\
                   name = IF who = "own" THEN own ELSE foreign}

\* Mutant: a miss ends the search.
find_netdev_sticky == Nothing

\* find_netdev(): the interface below the camera's own USB device.
find_netdev == IF attached THEN own ELSE Nothing

\* host_ipv4() and link_state() go by the name, whoever has it.
host_ipv4(name) ==
  IF \E who \in holder(name) : lease[who]
  THEN address_of(CHOOSE who \in holder(name) : TRUE) ELSE Nothing
link_state(name) ==
  IF holder(name) # {} THEN operstate_of(CHOOSE who \in holder(name) : TRUE) ELSE Nothing

\* A line of sysfs, without what ends it; nothing when the file is not there.
read_sysfs_line(there, text) ==
  IF there THEN SubSeq(text, 1, Max({0} \cup {i \in DOMAIN text : text[i] \notin {10, 13}}))
  ELSE Nothing

\* derive_ip(): the last three characters, when they are digits.
usable(s) == Len(s) >= 3 /\ \A i \in Len(s) - 2..Len(s) : s[i] \in 48..57
derive_ip(s) == IF usable(s) THEN SubSeq(s, Len(s) - 2, Len(s)) ELSE Nothing

\* CDC control, CDC data, or the class of RNDIS composites.
is_cdc_class(cls) == cls \in {2, 10, 239}

-----------------------------------------------------------------------------
(* The Camera and its record. *)

NewCamera == [
  vid |-> 0, pid |-> 0, bus |-> 0, address |-> 0, sysfs_name |-> Nothing,
  serial |-> Nothing, serial_source |-> SerialSource.kNone, ip |-> Nothing,
  netdev |-> Nothing, netdev_first_seen |-> Nothing, netdev_renamed |-> FALSE,
  link_state |-> Nothing, host_ip |-> Nothing, readiness |-> kAbsent,
  has_cdc_interface |-> FALSE]

build_identity == [NewCamera EXCEPT
  !.vid = kGoProVid, !.pid = 89, !.bus = 2, !.address = 7, !.sysfs_name = sysfs_name(2, <<1, 4>>)]

to_record(cam, ms) == [
  vid |-> cam.vid, pid |-> cam.pid, bus |-> cam.bus, address |-> cam.address,
  sysfsName |-> cam.sysfs_name, serial |-> cam.serial, serialSource |-> cam.serial_source,
  ip |-> cam.ip, netdev |-> cam.netdev, netdevFirstSeen |-> cam.netdev_first_seen,
  netdevRenamed |-> cam.netdev_renamed, linkState |-> cam.link_state,
  hostIp |-> cam.host_ip, readiness |-> cam.readiness, hasCdc |-> cam.has_cdc_interface,
  elapsedMs |-> ms]

\* post() calls through the pointer, and a call through a null one is the end
\* of the process.  The order in which Dart takes the messages is UsbDiscovery's
\* matter.
Dart_PostCObject_DL == gopro_bridge_init(VM)["Dart_PostCObject"]
post(kind, cam, ms) ==
  /\ Dart_PostCObject_DL # NULL
  /\ posted' = <<kind, to_record(cam, ms)>>

-----------------------------------------------------------------------------
(* build() and advance_readiness(), a look at a time. *)

reading == {"netdev", "address", "probe"}

\* The descriptor needs the device and permission, sysfs only the device.
serial_read(permitted) ==
  CASE ~attached              -> <<Nothing, SerialSource.kNone>>
    [] attached /\ permitted  -> <<serial, SerialSource.kDescriptor>>
    [] attached /\ ~permitted -> <<read_sysfs_line(attached, serial \o <<10>>), SerialSource.kSysfs>>

\* The classes of the interfaces of a MAX2: CDC control, CDC data and PTP.
classes == IF attached THEN <<2, 10, 6>> ELSE <<>>
has_cdc_interface == \E i \in DOMAIN classes : is_cdc_class(classes[i])

\* logind may or may not have given access to the device by now.
Build ==
  /\ pc = "serial"
  /\ \E permitted \in BOOLEAN :
       LET s == serial_read(permitted)
       IN  /\ c' = [build_identity EXCEPT
                      !.serial = s[1], !.serial_source = s[2], !.ip = derive_ip(s[1]),
                      !.has_cdc_interface = has_cdc_interface]
           /\ known' = known \cup ({s[1]} \ {Nothing})
  /\ names' = {} /\ gone' = (gone \/ ~attached)
  /\ pc' = "usb"
  /\ UNCHANGED <<kernelVars, program, caller, cache, pending, elapsed, budget, rescan,
                 rescans, window, stale, posted>>

rest(now, next) ==
  /\ pc = now /\ pc' = next
  /\ UNCHANGED <<kernelVars, program, caller, cache, pending, elapsed, budget, rescan,
                 rescans, known, gone, posted>>

\* Stage 1: is the device there?
StageUsb ==
  /\ c' = [c EXCEPT !.readiness = IF attached THEN kUsbPresent ELSE kAbsent]
  /\ window' = {level} /\ stale' = FALSE
  /\ rest("usb", IF attached THEN "netdev" ELSE "sampled")
  /\ UNCHANGED names

\* Mutant: the first name seen is forgotten with the next.
first_seen_latest(cam, now) == now

first_seen(cam, now) == IF cam.netdev_first_seen = Nothing THEN now ELSE cam.netdev_first_seen

\* resolve_netdev(): a name that has gone is kept.
resolve_netdev(cam, now) ==
  IF now = Nothing THEN cam
  ELSE [cam EXCEPT !.netdev_first_seen = first_seen(cam, now),
                   !.netdev_renamed = @ \/ now # first_seen(cam, now),
                   !.netdev = now]

\* Stage 2: is an interface bound?
StageNetdev ==
  LET r == resolve_netdev(c, find_netdev)
  IN  /\ c' = IF r.netdev = Nothing THEN r ELSE [r EXCEPT !.readiness = kNetdevBound]
      /\ names' = names \cup ({find_netdev} \ {Nothing})
      /\ stale' = (r.netdev \notin {Nothing, own})
      /\ rest("netdev", IF r.netdev = Nothing THEN "sampled" ELSE "address")
      /\ UNCHANGED window

\* The reading goes on to the probe when there is one to make.
probes == caller \in {"settle", "wait"} /\ c.ip # Nothing

\* Stage 3: does the host have an address on it?
StageAddress ==
  LET ip == host_ipv4(c.netdev)
  IN  /\ c' = [c EXCEPT !.link_state = link_state(c.netdev), !.host_ip = ip,
                        !.readiness = IF ip = Nothing THEN @ ELSE kHostAddressed]
      /\ stale' = (stale \/ c.netdev # own)
      /\ rest("address", IF ip # Nothing /\ probes THEN "probe" ELSE "sampled")
      /\ UNCHANGED <<window, names>>

\* The connection is made, or is refused or times out.
probe_tcp == level = kL3Ready

\* Stage 4: does the camera answer?
StageProbe ==
  /\ c' = IF probe_tcp THEN [c EXCEPT !.readiness = kL3Ready] ELSE c
  /\ rest("probe", "sampled")
  /\ UNCHANGED <<window, stale, names>>

-----------------------------------------------------------------------------
(* The bridge's worker. *)

worker(p) == program = "bridge" /\ pc = p
Begin(who, at) == caller' = who /\ pc' = at /\ posted' = <<>>

\* A reading is over; its local Camera and history are forgotten.
Finish ==
  /\ pc' = "idle" /\ caller' = "none" /\ c' = NewCamera
  /\ window' = {} /\ stale' = FALSE /\ names' = {}
  /\ UNCHANGED <<kernelVars, program, known, gone>>

\* pump() delivers an arrival ...
PumpArrived ==
  /\ worker("idle") /\ events # <<>> /\ Head(events) = "arrived"
  /\ events' = Tail(events)
  /\ Begin("arrived", "serial")
  /\ known' = {} /\ gone' = FALSE
  /\ UNCHANGED <<attached, own, foreign, lease, answers, changes, plugs,
                 program, c, cache, pending, elapsed, budget, rescan, rescans, window,
                 stale, names>>

\* ... the camera is read, cached, left to settle and posted.
Arrived ==
  /\ pc = "sampled" /\ caller = "arrived"
  /\ cache' = <<c>> /\ elapsed' = 0
  /\ pending' = <<[cam |-> c, last |-> c.readiness, names |-> names]>>
  /\ post("kUpdate", c, 0)
  /\ Finish
  /\ UNCHANGED <<budget, rescan, rescans>>

\* Mutant: the departure is reported as libusb gives it.
recover_nothing == build_identity

\* What is known of a camera that has gone.
recover ==
  IF cache = <<>> THEN build_identity
  ELSE [build_identity EXCEPT
          !.vid = cache[1].vid, !.pid = cache[1].pid, !.serial = cache[1].serial,
          !.serial_source = cache[1].serial_source, !.ip = cache[1].ip,
          !.netdev = cache[1].netdev, !.has_cdc_interface = cache[1].has_cdc_interface]

\* pump() delivers a departure.
PumpLeft ==
  /\ worker("idle") /\ events # <<>> /\ Head(events) = "left"
  /\ events' = Tail(events)
  /\ cache' = <<>> /\ pending' = <<>>
  /\ post("kLeft", recover, 0)
  /\ UNCHANGED <<attached, own, foreign, lease, answers, changes, plugs,
                 program, pc, caller, c, elapsed, budget, rescan, rescans, readingVars>>

\* A rescan: the camera is in the device list, and may go before it is read.
EnumerateStart ==
  /\ worker("idle") /\ events = <<>> /\ rescan
  /\ rescan' = FALSE
  /\ IF attached THEN Begin("enumerate", "serial") ELSE UNCHANGED <<caller, pc, posted>>
  /\ UNCHANGED <<kernelVars, program, c, cache, pending, elapsed, budget, rescans, readingVars>>

Enumerate ==
  /\ worker("sampled") /\ caller = "enumerate"
  /\ cache' = <<c>>
  /\ post("kUpdate", c, 0)
  /\ Finish
  /\ UNCHANGED <<pending, elapsed, budget, rescan, rescans>>

\* The settling camera is read on, from what was known of it.
SettleStart ==
  /\ worker("idle") /\ events = <<>> /\ ~rescan /\ pending # <<>>
  /\ c' = pending[1].cam
  /\ names' = pending[1].names
  /\ Begin("settle", "usb")
  /\ UNCHANGED <<kernelVars, program, cache, pending, elapsed, budget, rescan, rescans,
                 window, stale, known, gone>>

\* Mutant: a camera is never given up.
over_budget_never == FALSE

\* elapsed > static_cast<uint32_t>(budget): a negative budget is never over.
over_budget == budget >= 0 /\ elapsed > budget

Settle ==
  /\ pc = "sampled" /\ caller = "settle"
  /\ LET before == pending[1].last
         done   == c.readiness \in {kL3Ready, kAbsent} \/ over_budget
     IN  /\ IF c.readiness # before \/ (done /\ c.readiness # kL3Ready)
            THEN post("kUpdate", c, elapsed) ELSE UNCHANGED posted
         /\ pending' = IF done THEN <<>> ELSE <<[cam |-> c, last |-> c.readiness, names |-> names]>>
  /\ elapsed' = Min({elapsed + 1, Max(Budgets) + 1})
  /\ Finish
  /\ UNCHANGED <<cache, budget, rescan, rescans>>

\* gopro_discovery_set_timeout() and gopro_discovery_rescan(), from Dart.
SetTimeout(ms) ==
  /\ program = "bridge" /\ budget = Max(Budgets) /\ budget' = ms
  /\ UNCHANGED <<kernelVars, program, pc, caller, c, cache, pending, elapsed, rescan, rescans, readingVars, posted>>

Rescan ==
  /\ program = "bridge" /\ rescans < MaxRescans
  /\ rescan' = TRUE /\ rescans' = rescans + 1
  /\ UNCHANGED <<kernelVars, program, pc, caller, c, cache, pending, elapsed, budget, readingVars, posted>>

-----------------------------------------------------------------------------
(* wait_until_ready(), after enumerate(). *)

WaitStart ==
  /\ program = "tool" /\ pc = "idle"
  /\ Begin("enumerate", "serial")
  /\ UNCHANGED <<kernelVars, program, c, cache, pending, elapsed, budget, rescan, rescans,
                 readingVars>>

Wait ==
  /\ program = "tool" /\ pc = "sampled"
  /\ IF caller = "wait" /\ (c.readiness = kL3Ready \/ elapsed >= Timeout)
     THEN pc' = "returned" /\ UNCHANGED <<caller, elapsed, posted>>
     ELSE /\ Begin("wait", "usb")
          /\ elapsed' = IF caller = "wait" THEN elapsed + 1 ELSE 0
  /\ UNCHANGED <<kernelVars, program, c, cache, pending, budget, rescan, rescans, readingVars>>

-----------------------------------------------------------------------------
(* The kernel. *)

change ==
  /\ changes < MaxChanges /\ changes' = changes + 1
  /\ window' = IF pc \in reading THEN window \cup {level'} ELSE window
  /\ UNCHANGED <<programVars, stale, names, known, gone, posted>>

Plug ==
  /\ ~attached /\ plugs < Len(Serials) /\ program = "bridge"
  /\ attached' = TRUE /\ plugs' = plugs + 1 /\ answers' = FALSE
  /\ events' = Append(events, "arrived")
  /\ UNCHANGED <<own, foreign, lease>> /\ change

Unplug ==
  /\ attached
  /\ attached' = FALSE /\ own' = Nothing /\ lease' = [lease EXCEPT !["own"] = FALSE]
  /\ answers' = FALSE
  /\ events' = Append(events, "left")
  /\ UNCHANGED <<foreign, plugs>> /\ change

\* The driver binds, and udev renames, or the driver lets go.
Interface(name) ==
  /\ attached /\ name # own /\ (name = Nothing \/ name # foreign)
  /\ own' = name
  /\ lease' = IF name = Nothing THEN [lease EXCEPT !["own"] = FALSE] ELSE lease
  /\ answers' = (answers /\ name # Nothing)
  /\ UNCHANGED <<attached, foreign, events, plugs>> /\ change

\* Another device takes a name, with an address of its own.
Foreign(name) ==
  /\ foreign = Nothing /\ name # own
  /\ foreign' = name /\ lease' = [lease EXCEPT !["foreign"] = TRUE]
  /\ UNCHANGED <<attached, own, answers, events, plugs>> /\ change

\* DHCP gives the host its address; the camera's server comes up, or stops.
Lease ==
  /\ own # Nothing /\ lease' = [lease EXCEPT !["own"] = ~@]
  /\ UNCHANGED <<attached, own, foreign, answers, events, plugs>> /\ change
Serve ==
  /\ own # Nothing /\ answers' = ~answers
  /\ UNCHANGED <<attached, own, foreign, lease, events, plugs>> /\ change

-----------------------------------------------------------------------------
\* Discovery::Impl, as create() makes it: nothing has been cached.
Impl == cache = <<>>

Init ==
  /\ program \in {"bridge", "tool"}
  /\ attached \in BOOLEAN /\ (program = "tool" => attached)
  /\ own \in {Nothing} \cup (IF attached THEN {CHOOSE n \in Names : TRUE} ELSE {})
  /\ foreign = Nothing
  /\ lease = [who \in {"own", "foreign"} |-> FALSE] /\ answers = FALSE
  /\ events = IF attached /\ program = "bridge" THEN <<"arrived">> ELSE <<>>
  /\ changes = 0 /\ plugs = IF attached THEN 1 ELSE 0
  /\ pc = "idle" /\ caller = "none" /\ c = NewCamera /\ Impl /\ pending = <<>>
  /\ elapsed = 0 /\ budget = Max(Budgets) /\ rescan = FALSE /\ rescans = 0
  /\ window = {} /\ stale = FALSE /\ names = {} /\ known = {} /\ gone = FALSE
  /\ posted = <<>>

ProgramStep ==
  \/ Build \/ StageUsb \/ StageNetdev \/ StageAddress \/ StageProbe
  \/ PumpArrived \/ Arrived \/ PumpLeft \/ EnumerateStart \/ Enumerate
  \/ SettleStart \/ Settle \/ WaitStart \/ Wait

Next ==
  \/ ProgramStep \/ Rescan
  \/ \E ms \in Budgets : SetTimeout(ms)
  \/ Plug \/ Unplug \/ Lease \/ Serve
  \/ \E name \in Names \cup {Nothing} : Interface(name)
  \/ \E name \in Names : Foreign(name)

Spec == Init /\ [][Next]_cameraVars

\* The worker's thread, or the tool, runs on.
FairSpec == Spec /\ WF_cameraVars(ProgramStep)

-----------------------------------------------------------------------------
(* Properties. *)

\* Types.
CameraTypeOK ==
  /\ {attached, answers, rescan, stale, gone} \subseteq BOOLEAN
  /\ own \in Names \cup {Nothing} /\ foreign \in Names \cup {Nothing}
  /\ pc \in reading \cup {"idle", "serial", "usb", "sampled", "returned"}
  /\ caller \in {"none", "arrived", "enumerate", "settle", "wait"}
  /\ c.readiness \in kAbsent..kL3Ready /\ window \subseteq kAbsent..kL3Ready
  /\ elapsed \in 0..Max({Timeout} \cup {b + 1 : b \in Budgets})
  /\ names \subseteq Names /\ known \subseteq Range(Serials)

\* The stage that a reading of several looks reports lies within what was the case
\* while it was read, whatever is renamed, unplugged or taken over between the
\* looks.  It need not be the stage of any one moment: a camera unplugged after
\* the first look of advance_readiness() is reported as kUsbPresent, though it went
\* from kL3Ready to kAbsent.
\*   - kL3Ready is said only of a camera that could be reached at some moment of
\*     that very reading.
\*   - As long as each look by name found the camera's own interface, the stage is
\*     neither above the highest nor below the lowest that the camera had during the
\*     reading, save that it stops at kHostAddressed when no probe is made.
\*   - A host_ip that is not the camera's is that of the device that took the very
\*     name this reading goes by, after the camera lost it.
StageWithinReading ==
  pc = "sampled" =>
    /\ c.readiness = kL3Ready => kL3Ready \in window
    /\ ~stale =>
         /\ c.readiness <= Max(window)
         /\ c.readiness >= Min(window) \/ (~probes /\ c.readiness = kHostAddressed)
    /\ c.readiness >= kHostAddressed =>
         c.host_ip = address_of("own") \/ (stale /\ c.netdev = foreign)

\* gopro_usb.h says of host_ip that it is "handed out by the camera's own DHCP
\* server".  It fails once another device has taken the name that resolve_netdev()
\* keeps: host_ipv4() goes by the name alone.
OwnAddress ==
  pc = "sampled" /\ c.readiness >= kHostAddressed => c.host_ip = address_of("own")

\* "netdev_renamed == true means this run witnessed the kernel-name ->
\* predictable-name rename": it is set exactly when one Camera has been seen
\* under two names, over any number of readings.
RenameWitnessed == pc = "sampled" => (c.netdev_renamed <=> Cardinality(names) > 1)

\* An object with a field of every other type the header encodes, made of a
\* record's values.
others == << <<"lag", "int16">>, <<"at", "uint64">>, <<"names", "strings">>,
             <<"raw", "bytes">>, <<"table", "map">>, <<"port", "string">> >>
other(rec) ==
  [lag   |-> -rec.elapsedMs - rec.readiness, at |-> rec.vid * rec.vid,
   names |-> <<rec.netdev, rec.ip, rec.netdevFirstSeen>>,
   raw   |-> rec.serial,
   table |-> (rec.netdev :> rec.hostIp) @@ (rec.netdevFirstSeen :> rec.ip) @@ (rec.ip :> rec.serial),
   port  |-> rec.sysfsName]

\* What Dart decodes is what the worker read, field by field; and the native
\* "Decode a struct from a byte buffer using its meta<T>::fields.  Returns the
\* offset past the consumed bytes" reads every record as it was posted, up to
\* its last byte and no further, and so containers and vectors of structs, empty
\* strings and absent addresses included.
ReadsBack ==
  posted # <<>> =>
    LET rec   == posted[2]
        bytes == post_bytes(posted[1], rec)
        whole(r, buf, v) == ~r.wild /\ r.at = Len(buf) /\ r.value = v
        mixed == encode_struct(others, other(rec))
        pairs == encode_structs(fields, <<rec, rec>>)
    IN  /\ decodeEvent(bytes) = [kind |-> posted[1], ok |-> TRUE, rec |-> rec]
        /\ whole(decode(bytes, 1), bytes, rec)
        /\ whole(decode_struct(others, mixed, At(0)), mixed, other(rec))
        /\ whole(decode_structs(fields, pairs, At(0)), pairs, <<rec, rec>>)

\* A departure reports "the serial/ip the device had while it was still
\* readable", unless a build() came too late to read it.
DepartureIsKnown ==
  [][cache # <<>> /\ cache' = <<>> /\ ~gone
       => posted'[2].serial \in known /\ posted'[2].ip = derive_ip(posted'[2].serial)
     ]_cameraVars

\* A camera does not settle for ever, whatever the kernel does, unless the
\* budget is negative; and wait_until_ready() returns.
ReadingEnds ==
  /\ pending # <<>> /\ budget >= 0 ~> pending = <<>> \/ budget < 0
  /\ program = "tool" ~> pc = "returned"

=============================================================================
