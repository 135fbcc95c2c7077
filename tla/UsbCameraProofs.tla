--------------------------- MODULE UsbCameraProofs ---------------------------
(***************************************************************************)
(* Proofs about UsbCamera, for any serials, interface names and budgets,   *)
(* any number of changes of the kernel's state while a camera is read, and *)
(* any number of rescans.                                                  *)
(***************************************************************************)
EXTENDS UsbCamera, FiniteSetTheorems, SequenceTheorems, WellFoundedInduction, TLAPS

-----------------------------------------------------------------------------
(* The inductive invariant. *)

Fields == DOMAIN NewCamera
looking == reading \cup {"usb", "sampled"}

\* The kernel: an interface only of a camera that is there, under a name that
\* nobody else has.
KernelOK ==
  /\ attached \in BOOLEAN /\ answers \in BOOLEAN
  /\ lease \in [{"own", "foreign"} -> BOOLEAN]
  /\ own # Nothing => attached /\ own # foreign
  /\ attached => plugs \in 1..Len(Serials)
  /\ plugs \in 0..Len(Serials)

\* The Cameras of the program are records with these fields.
Records ==
  /\ DOMAIN c = Fields
  /\ pending # <<>> => DOMAIN pending[1].cam = Fields

\* How far a reading has come, what it says so far, and what was the case
\* meanwhile: s is the stage it has found.
Found(s) ==
  /\ c.readiness = s
  /\ ~stale => \E l \in window : l >= s
Addressed ==
  \/ c.host_ip = address_of("own")
  \/ stale /\ c.netdev = foreign /\ foreign # Nothing
Sampling ==
  /\ pc \in reading => level \in window /\ window \subseteq kAbsent..kL3Ready
  /\ pc = "netdev" => ~stale /\ Found(kUsbPresent)
  /\ pc = "address" => c.netdev # Nothing /\ Found(kNetdevBound)
  /\ pc = "probe" => Found(kHostAddressed) /\ Addressed
  /\ pc = "sampled" /\ c.readiness >= kHostAddressed => Addressed

\* What the stage that was found has to do with those of the reading.
Between ==
  pc = "sampled" =>
    /\ c.readiness = kL3Ready => kL3Ready \in window
    /\ ~stale => /\ c.readiness <= Max(window)
                 /\ c.readiness >= Min(window) \/ (~probes /\ c.readiness = kHostAddressed)

\* What a Camera says of the names it has been seen under.
Named(cam, ns) ==
  /\ IsFiniteSet(ns) /\ Nothing \notin ns
  /\ IF ns = {} THEN cam.netdev_first_seen = Nothing /\ ~cam.netdev_renamed
     ELSE /\ cam.netdev_first_seen \in ns
          /\ cam.netdev_renamed <=> \E n \in ns : n # cam.netdev_first_seen
Names_OK ==
  /\ pc \in looking => Named(c, names)
  /\ pending # <<>> => Named(pending[1].cam, pending[1].names)

\* What the worker has been told: of a camera that it takes for gone it holds
\* nothing.
told == IF events = <<>> THEN attached ELSE Head(events) = "left"
Events ==
  program = "bridge" =>
    /\ events \in Seq({"arrived", "left"})
    /\ \A i \in 1..Len(events) - 1 : events[i] # events[i + 1]
    /\ events # <<>> => (events[Len(events)] = "arrived" <=> attached)
    /\ ~told => cache = <<>> /\ pending = <<>> /\ pc = "idle"

\* The serial of a Camera that was built while it was there.
Known(cam) == (gone \/ cam.serial \in known) /\ cam.ip = derive_ip(cam.serial)
Cached ==
  /\ cache # <<>> => Known(cache[1])
  /\ pc \in looking /\ caller \in {"arrived", "enumerate"} => Known(c)

CameraInv == KernelOK /\ Records /\ Sampling /\ Names_OK /\ Events /\ Cached /\ Between


-----------------------------------------------------------------------------
(* What the model's operators give. *)

LEMMA FieldFacts ==
  /\ Fields = {"vid", "pid", "bus", "address", "sysfs_name", "serial", "serial_source", "ip",
               "netdev", "netdev_first_seen", "netdev_renamed", "link_state", "host_ip",
               "readiness", "has_cdc_interface"}
  /\ DOMAIN build_identity = Fields
  /\ build_identity.netdev_first_seen = Nothing /\ build_identity.netdev_renamed = FALSE
<1>1. Fields = {"vid", "pid", "bus", "address", "sysfs_name", "serial", "serial_source", "ip",
                "netdev", "netdev_first_seen", "netdev_renamed", "link_state", "host_ip",
                "readiness", "has_cdc_interface"}
  BY DEF Fields, NewCamera
<1>2. NewCamera.netdev_first_seen = Nothing /\ NewCamera.netdev_renamed = FALSE
  BY DEF NewCamera
<1>3. DOMAIN build_identity = Fields
  BY DEF build_identity, Fields
<1>4. /\ build_identity.netdev_first_seen = Nothing
      /\ build_identity.netdev_renamed = FALSE
  BY <1>1, <1>2 DEF build_identity, Fields
<1> QED
  BY <1>1, <1>3, <1>4

\* The highest and the lowest stage of a reading.
LEMMA WindowEnds ==
  ASSUME NEW w \in SUBSET (kAbsent..kL3Ready), NEW l \in w
  PROVE  /\ Max(w) \in kAbsent..kL3Ready /\ l <= Max(w)
         /\ Min(w) \in kAbsent..kL3Ready /\ Min(w) <= l
<1>1. w \subseteq 0..4
  BY DEF kAbsent, kL3Ready
<1>2. \E x \in w : \A y \in w : x >= y
  BY <1>1
<1>3. \E x \in w : \A y \in w : x =< y
  BY <1>1
<1>4. Max(w) \in w /\ \A y \in w : Max(w) >= y
  BY <1>2 DEF Max
<1>5. Min(w) \in w /\ \A y \in w : Min(w) =< y
  BY <1>3 DEF Min
<1> QED
  BY <1>1, <1>4, <1>5 DEF kAbsent, kL3Ready

LEMMA LevelFacts ==
  ASSUME KernelOK
  PROVE  /\ level \in kAbsent..kL3Ready
         /\ ~attached => level = kAbsent
         /\ attached /\ own = Nothing => level = kUsbPresent
         /\ own # Nothing /\ ~lease["own"] => level = kNetdevBound
         /\ own # Nothing /\ lease["own"] => level = IF answers THEN kL3Ready ELSE kHostAddressed
BY DEF KernelOK, level, kAbsent, kUsbPresent, kNetdevBound, kHostAddressed, kL3Ready

\* The name of the camera's interface is nobody else's, and so is what is found
\* under it.
LEMMA OwnName ==
  ASSUME KernelOK, own # Nothing
  PROVE  host_ipv4(own) = IF lease["own"] THEN address_of("own") ELSE Nothing
<1>1. holder(own) = {"own"}
  BY DEF KernelOK, holder
<1>2. (CHOOSE who \in {"own"} : TRUE) = "own"
  OBVIOUS
<1> QED
  BY <1>1, <1>2 DEF host_ipv4

\* What is found under any name is the camera's, or that of the device that has
\* taken it.
LEMMA AnyName ==
  ASSUME NEW name, host_ipv4(name) # Nothing
  PROVE  \/ host_ipv4(name) = address_of("own") /\ name = own
         \/ host_ipv4(name) = address_of("foreign") /\ name = foreign
<1>1. holder(name) # {} /\ host_ipv4(name) = address_of(CHOOSE who \in holder(name) : TRUE)
  BY DEF host_ipv4
<1>2. PICK who : who = (CHOOSE w \in holder(name) : TRUE)
  OBVIOUS
<1>3. who \in holder(name)
  BY <1>1, <1>2
<1> QED
  BY <1>1, <1>2, <1>3 DEF holder

\* An address is never the empty one.
LEMMA AddressFacts == \A who : address_of(who) # Nothing
BY DEF address_of, Nothing


-----------------------------------------------------------------------------
(* What the kernel's changes and Dart's calls leave alone. *)

KernelMoves ==
  \/ Plug \/ Unplug \/ Lease \/ Serve
  \/ \E name \in Names \cup {Nothing} : Interface(name)
  \/ \E name \in Names : Foreign(name)
DartCalls == Rescan \/ \E ms \in Budgets : SetTimeout(ms)

LEMMA NextSplit == Next => ProgramStep \/ KernelMoves \/ DartCalls
BY DEF Next, KernelMoves, DartCalls

LEMMA KernelMovesLeave ==
  ASSUME KernelMoves
  PROVE  /\ UNCHANGED <<programVars, stale, names, known, gone, posted>>
         /\ window' = IF pc \in reading THEN window \cup {level'} ELSE window
BY DEF KernelMoves, Plug, Unplug, Lease, Serve, Interface, Foreign, change

LEMMA DartCallsLeave ==
  ASSUME DartCalls
  PROVE  UNCHANGED <<kernelVars, program, pc, caller, c, cache, pending, readingVars, posted>>
BY DEF DartCalls, Rescan, SetTimeout

LEMMA ProgramLeaves ==
  ASSUME ProgramStep
  PROVE  UNCHANGED <<attached, own, foreign, lease, answers, changes, plugs, program>>
BY DEF ProgramStep, Build, StageUsb, StageNetdev, StageAddress, StageProbe, PumpArrived, Arrived,
       PumpLeft, EnumerateStart, Enumerate, SettleStart, Settle, WaitStart, Wait, rest, Finish,
       kernelVars

LEMMA LevelStays ==
  ASSUME UNCHANGED <<attached, own, lease, answers>>
  PROVE  level' = level
BY DEF level

-----------------------------------------------------------------------------
(* The kernel. *)

LEMMA KernelInit == Init => KernelOK
<1> SUFFICES ASSUME Init PROVE KernelOK
  OBVIOUS
<1>1. Len(Serials) \in Nat \ {0}
  BY CameraAssumption, EmptySeq
<1>2. attached \in BOOLEAN /\ answers = FALSE /\ lease = [who \in {"own", "foreign"} |-> FALSE]
  BY DEF Init
<1>3. plugs = (IF attached THEN 1 ELSE 0)
  BY DEF Init
<1>4. own # Nothing => attached /\ own # foreign
  BY DEF Init
<1>5. plugs \in 0..Len(Serials) /\ (attached => plugs \in 1..Len(Serials))
  BY <1>1, <1>2, <1>3
<1>6. lease \in [{"own", "foreign"} -> BOOLEAN]
  BY <1>2
<1> QED
  BY <1>2, <1>4, <1>5, <1>6 DEF KernelOK

LEMMA KernelStep ==
  ASSUME KernelOK, [Next]_cameraVars
  PROVE  KernelOK'
<1>1. Len(Serials) \in Nat
  BY CameraAssumption, LenProperties
<1>2. CASE UNCHANGED <<attached, own, foreign, lease, answers, plugs>>
  BY <1>2 DEF KernelOK
<1>3. CASE Plug
  <2>0. plugs \in 0..Len(Serials)
    BY DEF KernelOK
  <2>1. /\ plugs < Len(Serials) /\ plugs' = plugs + 1
        /\ attached' = TRUE /\ answers' = FALSE /\ UNCHANGED <<own, foreign, lease>>
    BY <1>3 DEF Plug
  <2>2. plugs' \in 1..Len(Serials)
    BY <1>1, <2>0, <2>1
  <2>3. plugs' \in 0..Len(Serials)
    BY <1>1, <2>2
  <2>4. lease' \in [{"own", "foreign"} -> BOOLEAN] /\ (own' # Nothing => own' # foreign')
    BY <2>1 DEF KernelOK
  <2> QED
    BY <2>1, <2>2, <2>3, <2>4 DEF KernelOK
<1>4. CASE Unplug
  BY <1>1, <1>4 DEF KernelOK, Unplug, Nothing
<1>5. CASE Lease
  BY <1>1, <1>5 DEF KernelOK, Lease
<1>6. CASE Serve
  BY <1>1, <1>6 DEF KernelOK, Serve
<1>7. ASSUME NEW name \in Names \cup {Nothing}, Interface(name) PROVE KernelOK'
  BY <1>1, <1>7 DEF KernelOK, Interface
<1>8. ASSUME NEW name \in Names, Foreign(name) PROVE KernelOK'
  BY <1>1, <1>8 DEF KernelOK, Foreign
<1> QED
  BY <1>2, <1>3, <1>4, <1>5, <1>6, <1>7, <1>8, NextSplit, DartCallsLeave, ProgramLeaves
     DEF KernelMoves, cameraVars, kernelVars


-----------------------------------------------------------------------------
(* What each look at the kernel does to the Camera. *)

LEMMA Resolves ==
  ASSUME NEW cam, DOMAIN cam = Fields, NEW now
  PROVE  LET r == resolve_netdev(cam, now)
         IN  /\ DOMAIN r = Fields /\ r.readiness = cam.readiness
             /\ r.serial = cam.serial /\ r.ip = cam.ip
             /\ now = Nothing => r = cam
             /\ now # Nothing =>
                  /\ r.netdev = now
                  /\ r.netdev_first_seen = first_seen(cam, now)
                  /\ r.netdev_renamed = (cam.netdev_renamed \/ now # first_seen(cam, now))
BY FieldFacts DEF resolve_netdev

\* What every look keeps.
Identity == /\ DOMAIN c' = Fields
            /\ c'.serial = c.serial /\ c'.ip = c.ip
Unnamed  == /\ c'.netdev_first_seen = c.netdev_first_seen
            /\ c'.netdev_renamed = c.netdev_renamed
            /\ names' = names

LEMMA UsbLook ==
  ASSUME Records, StageUsb
  PROVE  /\ Identity /\ Unnamed
         /\ c'.readiness = IF attached THEN kUsbPresent ELSE kAbsent
         /\ pc = "usb" /\ pc' = IF attached THEN "netdev" ELSE "sampled"
         /\ window' = {level} /\ stale' = FALSE
         /\ UNCHANGED <<caller, cache, pending, known, gone, kernelVars>>
<1>1. c' = [c EXCEPT !.readiness = IF attached THEN kUsbPresent ELSE kAbsent]
  BY DEF StageUsb
<1>2. DOMAIN c = Fields
  BY DEF Records
<1> QED
  BY <1>1, <1>2, FieldFacts DEF StageUsb, rest, Identity, Unnamed

LEMMA NetdevLook ==
  ASSUME Records, StageNetdev
  PROVE  /\ Identity
         /\ names' = names \cup ({find_netdev} \ {Nothing})
         /\ find_netdev = Nothing => Unnamed
         /\ find_netdev # Nothing =>
              /\ c'.netdev_first_seen = first_seen(c, find_netdev)
              /\ c'.netdev_renamed = (c.netdev_renamed \/ find_netdev # first_seen(c, find_netdev))
         /\ pc = "netdev"
         /\ \/ /\ pc' = "sampled" /\ find_netdev = Nothing /\ c'.readiness = c.readiness
            \/ pc' = "address" /\ c'.netdev # Nothing /\ c'.readiness = kNetdevBound
         /\ stale' = (c'.netdev \notin {Nothing, own}) /\ window' = window
         /\ UNCHANGED <<caller, cache, pending, known, gone, kernelVars>>
<1> DEFINE r == resolve_netdev(c, find_netdev)
<1>1. DOMAIN c = Fields
  BY DEF Records
<1>2. /\ DOMAIN r = Fields /\ r.readiness = c.readiness
      /\ r.serial = c.serial /\ r.ip = c.ip
      /\ find_netdev = Nothing => r = c
      /\ find_netdev # Nothing =>
           /\ r.netdev = find_netdev
           /\ r.netdev_first_seen = first_seen(c, find_netdev)
           /\ r.netdev_renamed = (c.netdev_renamed \/ find_netdev # first_seen(c, find_netdev))
  BY <1>1, Resolves
<1>3. /\ c' = IF r.netdev = Nothing THEN r ELSE [r EXCEPT !.readiness = kNetdevBound]
      /\ names' = names \cup ({find_netdev} \ {Nothing})
      /\ stale' = (r.netdev \notin {Nothing, own}) /\ window' = window
      /\ pc = "netdev" /\ pc' = IF r.netdev = Nothing THEN "sampled" ELSE "address"
      /\ UNCHANGED <<caller, cache, pending, known, gone, kernelVars>>
  BY DEF StageNetdev, rest
<1> HIDE DEF r
<1>4. /\ DOMAIN c' = Fields /\ c'.serial = r.serial /\ c'.ip = r.ip /\ c'.netdev = r.netdev
      /\ c'.netdev_first_seen = r.netdev_first_seen /\ c'.netdev_renamed = r.netdev_renamed
      /\ c'.readiness = IF r.netdev = Nothing THEN r.readiness ELSE kNetdevBound
  BY <1>2, <1>3, FieldFacts
<1> QED
  BY <1>2, <1>3, <1>4 DEF Identity, Unnamed

LEMMA AddressLook ==
  ASSUME Records, StageAddress
  PROVE  /\ Identity /\ Unnamed /\ c'.netdev = c.netdev
         /\ c'.host_ip = host_ipv4(c.netdev)
         /\ c'.readiness = IF host_ipv4(c.netdev) = Nothing THEN c.readiness ELSE kHostAddressed
         /\ stale' = (stale \/ c.netdev # own) /\ window' = window
         /\ pc = "address"
         /\ pc' = IF host_ipv4(c.netdev) # Nothing /\ probes THEN "probe" ELSE "sampled"
         /\ UNCHANGED <<caller, cache, pending, known, gone, kernelVars>>
<1> DEFINE ip == host_ipv4(c.netdev)
<1>1. c' = [c EXCEPT !.link_state = link_state(c.netdev), !.host_ip = ip,
                     !.readiness = IF ip = Nothing THEN @ ELSE kHostAddressed]
  BY DEF StageAddress
<1>2. DOMAIN c = Fields
  BY DEF Records
<1> HIDE DEF ip
<1>3. /\ Identity /\ c'.netdev = c.netdev /\ c'.netdev_first_seen = c.netdev_first_seen
      /\ c'.netdev_renamed = c.netdev_renamed /\ c'.host_ip = ip
      /\ c'.readiness = IF ip = Nothing THEN c.readiness ELSE kHostAddressed
  BY <1>1, <1>2, FieldFacts DEF Identity
<1> QED
  BY <1>3 DEF StageAddress, rest, Unnamed, ip

LEMMA ProbeLook ==
  ASSUME Records, StageProbe
  PROVE  /\ Identity /\ Unnamed /\ c'.host_ip = c.host_ip /\ c'.netdev = c.netdev
         /\ c'.readiness = IF level = kL3Ready THEN kL3Ready ELSE c.readiness
         /\ stale' = stale /\ window' = window
         /\ pc = "probe" /\ pc' = "sampled"
         /\ UNCHANGED <<caller, cache, pending, known, gone, kernelVars>>
<1>1. c' = IF level = kL3Ready THEN [c EXCEPT !.readiness = kL3Ready] ELSE c
  BY DEF StageProbe, probe_tcp
<1>2. DOMAIN c = Fields
  BY DEF Records
<1> QED
  BY <1>1, <1>2, FieldFacts DEF StageProbe, rest, Identity, Unnamed

LEMMA Building ==
  ASSUME Build
  PROVE  /\ DOMAIN c' = Fields /\ names' = {}
         /\ c'.netdev_first_seen = Nothing /\ c'.netdev_renamed = FALSE
         /\ pc = "serial" /\ pc' = "usb"
         /\ UNCHANGED <<caller, cache, pending, window, stale, kernelVars>>
         /\ gone' = (gone \/ ~attached)
         /\ \E permitted \in BOOLEAN :
              /\ c'.serial = serial_read(permitted)[1]
              /\ c'.ip = derive_ip(c'.serial)
              /\ known' = known \cup ({c'.serial} \ {Nothing})
<1>1. PICK permitted \in BOOLEAN :
        LET s == serial_read(permitted)
        IN  /\ c' = [build_identity EXCEPT
                       !.serial = s[1], !.serial_source = s[2], !.ip = derive_ip(s[1]),
                       !.has_cdc_interface = has_cdc_interface]
            /\ known' = known \cup ({s[1]} \ {Nothing})
  BY DEF Build
<1> DEFINE s == serial_read(permitted)
<1> HIDE DEF s
<1>2. /\ c' = [build_identity EXCEPT
                 !.serial = s[1], !.serial_source = s[2], !.ip = derive_ip(s[1]),
                 !.has_cdc_interface = has_cdc_interface]
      /\ known' = known \cup ({s[1]} \ {Nothing})
  BY <1>1 DEF s
<1>3. /\ DOMAIN c' = Fields
      /\ c'.netdev_first_seen = Nothing /\ c'.netdev_renamed = FALSE
      /\ c'.serial = s[1] /\ c'.ip = derive_ip(s[1])
  BY <1>2, FieldFacts
<1> QED
  BY <1>2, <1>3 DEF Build, s


Looks  == StageUsb \/ StageNetdev \/ StageAddress \/ StageProbe
Others == \/ Build \/ PumpArrived \/ Arrived \/ PumpLeft \/ EnumerateStart \/ Enumerate
          \/ SettleStart \/ Settle \/ WaitStart \/ Wait

LEMMA ProgramSplit == ProgramStep => Looks \/ Others
BY DEF ProgramStep, Looks, Others

\* Only a look at the kernel goes on with a reading.
LEMMA OthersLeave ==
  ASSUME Others
  PROVE  pc' \notin reading \cup {"sampled"}
BY DEF Others, Build, PumpArrived, Arrived, PumpLeft, EnumerateStart, Enumerate, SettleStart,
       Settle, WaitStart, Wait, Finish, Begin, worker, reading

\* What does not touch the program.
Quiet == UNCHANGED <<program, pc, caller, c, cache, pending, stale, names, known, gone>>
LEMMA QuietSteps ==
  ASSUME [Next]_cameraVars, ~ProgramStep
  PROVE  /\ Quiet
         /\ KernelMoves \/ UNCHANGED <<kernelVars, window>>
         /\ window' = window \/ (pc \in reading /\ window' = window \cup {level'})
<1>1. CASE KernelMoves
  BY <1>1, KernelMovesLeave DEF Quiet, programVars
<1>2. CASE DartCalls
  BY <1>2, DartCallsLeave DEF Quiet, readingVars
<1>3. CASE UNCHANGED cameraVars
  BY <1>3 DEF cameraVars, programVars, readingVars, Quiet
<1> QED
  BY <1>1, <1>2, <1>3, NextSplit

-----------------------------------------------------------------------------
(* The records keep their fields. *)

LEMMA RecordsStep ==
  ASSUME Records, [Next]_cameraVars
  PROVE  Records'
<1>1. CASE Looks
  BY <1>1, UsbLook, NetdevLook, AddressLook, ProbeLook DEF Records, Identity, Looks
<1>2. CASE Build
  BY <1>2, Building DEF Records
<1>3. CASE PumpArrived
  BY <1>3 DEF PumpArrived, Records
<1>4. CASE Arrived
  BY <1>4 DEF Arrived, Finish, Records, Fields
<1>5. CASE PumpLeft
  BY <1>5 DEF PumpLeft, Records
<1>6. CASE EnumerateStart
  BY <1>6 DEF EnumerateStart, Records
<1>7. CASE Enumerate
  BY <1>7 DEF Enumerate, Finish, Records, Fields
<1>8. CASE SettleStart
  BY <1>8 DEF SettleStart, Records
<1>9. CASE Settle
  <2>1. /\ c' = NewCamera
        /\ pending' = <<>> \/ pending' = <<[cam |-> c, last |-> c.readiness, names |-> names]>>
    BY <1>9 DEF Settle, Finish
  <2> QED
    BY <2>1 DEF Records, Fields
<1>10. CASE WaitStart
  BY <1>10 DEF WaitStart, Records
<1>11. CASE Wait
  BY <1>11 DEF Wait, Records
<1>12. CASE ~ProgramStep
  BY <1>12, QuietSteps DEF Quiet, Records
<1> QED
  BY <1>1, <1>2, <1>3, <1>4, <1>5, <1>6, <1>7, <1>8, <1>9, <1>10, <1>11, <1>12, ProgramSplit
     DEF Others

-----------------------------------------------------------------------------
(* What a reading of several looks reports. *)

LEMMA SamplingStep ==
  ASSUME KernelOK, KernelOK', Records, Sampling, [Next]_cameraVars
  PROVE  Sampling'
<1>1. CASE StageUsb
  <2>1. pc' = "netdev" => c'.readiness = kUsbPresent /\ stale' = FALSE /\ level >= kUsbPresent
    BY <1>1, UsbLook, LevelFacts DEF KernelOK, kAbsent, kUsbPresent, kNetdevBound, kHostAddressed, kL3Ready
  <2>2. level' = level /\ window' = {level} /\ level \in kAbsent..kL3Ready /\ pc' \in {"netdev", "sampled"}
    BY <1>1, UsbLook, LevelFacts, LevelStays DEF kernelVars
  <2>3. ~(c'.readiness >= kHostAddressed)
    BY <1>1, UsbLook DEF kAbsent, kUsbPresent, kHostAddressed
  <2> QED
    BY <2>1, <2>2, <2>3 DEF Sampling, Found, reading
<1>2. CASE StageNetdev
  <2>1. /\ pc = "netdev" /\ window' = window /\ pc' \in {"address", "sampled"}
        /\ stale' = (c'.netdev \notin {Nothing, own})
        /\ pc' = "address" => c'.netdev # Nothing /\ c'.readiness = kNetdevBound
    BY <1>2, NetdevLook
  <2>2. level' = level
    BY <1>2, NetdevLook, LevelStays DEF kernelVars
  <2>3. level \in window /\ window \subseteq kAbsent..kL3Ready
    BY <2>1 DEF Sampling, reading
  <2>4. own # Nothing => level >= kNetdevBound
    BY LevelFacts DEF KernelOK, kNetdevBound, kHostAddressed, kL3Ready
  <2>5. ~stale' /\ pc' = "address" => own # Nothing
    BY <2>1
  <2>6. pc' = "sampled" => ~(c'.readiness >= kHostAddressed)
    BY <1>2, NetdevLook DEF Sampling, Found, kUsbPresent, kNetdevBound, kHostAddressed
  <2> QED
    BY <2>1, <2>2, <2>3, <2>4, <2>5, <2>6 DEF Sampling, Found, reading
<1>3. CASE StageAddress
  <2>1. /\ pc = "address" /\ window' = window /\ pc' \in {"probe", "sampled"}
        /\ stale' = (stale \/ c.netdev # own)
        /\ c'.host_ip = host_ipv4(c.netdev)
        /\ pc' = "probe" => host_ipv4(c.netdev) # Nothing /\ c'.readiness = kHostAddressed
    BY <1>3, AddressLook
  <2>2. level' = level
    BY <1>3, AddressLook, LevelStays DEF kernelVars
  <2>3. level \in window /\ window \subseteq kAbsent..kL3Ready /\ c.netdev # Nothing
    BY <2>1 DEF Sampling, reading
  <2>4. ASSUME ~stale', pc' = "probe"
        PROVE  level >= kHostAddressed
    <3>1. own # Nothing /\ c.netdev = own
      BY <2>1, <2>3, <2>4
    <3>2. lease["own"]
      BY <2>1, <2>4, <3>1, OwnName
    <3> QED
      BY <3>1, <3>2, LevelFacts DEF kHostAddressed, kL3Ready
  <2>5. /\ DOMAIN c' = Fields /\ c'.netdev = c.netdev /\ foreign' = foreign
        /\ c'.readiness = IF host_ipv4(c.netdev) = Nothing THEN c.readiness ELSE kHostAddressed
    BY <1>3, AddressLook DEF kernelVars, Identity
  <2>6. c'.readiness >= kHostAddressed => host_ipv4(c.netdev) # Nothing
    BY <2>1, <2>5 DEF Sampling, Found, kNetdevBound, kHostAddressed
  <2>7. c'.readiness >= kHostAddressed => Addressed'
    <3> SUFFICES ASSUME host_ipv4(c.netdev) # Nothing PROVE Addressed'
      BY <2>6
    <3>1. CASE host_ipv4(c.netdev) = address_of("own")
      BY <2>1, <3>1 DEF Addressed, address_of
    <3>2. CASE host_ipv4(c.netdev) # address_of("own")
      <4>1. c.netdev = foreign
        BY <3>2, AnyName
      <4>2. c.netdev # own
        <5> SUFFICES ASSUME c.netdev = own PROVE FALSE
          OBVIOUS
        <5> QED
          BY <2>3, <4>1 DEF KernelOK
      <4> QED
        BY <2>1, <2>3, <2>5, <4>1, <4>2 DEF Addressed
    <3> QED
      BY <3>1, <3>2
  <2>8. pc' = "probe" => c'.readiness >= kHostAddressed
    BY <2>1 DEF kHostAddressed
  <2> QED
    BY <2>1, <2>2, <2>3, <2>4, <2>7, <2>8 DEF Sampling, Found, reading
<1>4. CASE StageProbe
  <2>1. /\ pc = "probe" /\ pc' = "sampled" /\ c'.netdev = c.netdev
        /\ UNCHANGED <<foreign, stale>> /\ c'.host_ip = c.host_ip
    BY <1>4, ProbeLook DEF kernelVars
  <2>2. Addressed'
    BY <2>1 DEF Sampling, Addressed, address_of
  <2> QED
    BY <2>1, <2>2 DEF Sampling, reading
<1>5. CASE Others
  BY <1>5, OthersLeave DEF Sampling, reading
<1>6. CASE ~ProgramStep
  <2>1. /\ UNCHANGED <<pc, c, stale>>
        /\ window \subseteq window'
    BY <1>6, QuietSteps DEF Quiet
  <2>2. ASSUME pc \in reading PROVE level' \in window' /\ window' \subseteq kAbsent..kL3Ready
    <3>1. CASE KernelMoves
      <4>1. window' = window \cup {level'}
        BY <2>2, <3>1, KernelMovesLeave
      <4>2. level' \in kAbsent..kL3Ready
        BY DEF KernelOK, level, kAbsent, kUsbPresent, kNetdevBound, kHostAddressed, kL3Ready
      <4> QED
        BY <2>2, <4>1, <4>2 DEF Sampling
    <3>2. CASE UNCHANGED <<kernelVars, window>>
      BY <2>2, <3>2, LevelStays DEF kernelVars, Sampling
    <3> QED
      BY <1>6, <3>1, <3>2, QuietSteps
  <2>3. \A s : Found(s) => Found(s)'
    BY <2>1 DEF Found
  <2>4. foreign # Nothing => foreign' = foreign
    BY <1>6, QuietSteps DEF KernelMoves, Plug, Unplug, Lease, Serve, Interface, Foreign, kernelVars
  <2>5. Addressed => Addressed'
    BY <2>1, <2>4 DEF Addressed, address_of
  <2> QED
    BY <2>1, <2>2, <2>3, <2>5 DEF Sampling
<1> QED
  BY <1>1, <1>2, <1>3, <1>4, <1>5, <1>6, ProgramSplit DEF Looks


LEMMA BetweenStep ==
  ASSUME KernelOK, Records, Sampling, Between, [Next]_cameraVars
  PROVE  Between'
<1> USE DEF kAbsent, kUsbPresent, kNetdevBound, kHostAddressed, kL3Ready
<1>1. CASE StageUsb
  <2> SUFFICES ASSUME pc' = "sampled" PROVE Between'
    BY DEF Between
  <2>1. c'.readiness = kAbsent /\ window' = {kAbsent}
    BY <1>1, UsbLook, LevelFacts
  <2>2. kAbsent <= Max(window') /\ kAbsent >= Min(window')
    BY <2>1, WindowEnds
  <2> QED
    BY <2>1, <2>2 DEF Between
<1>2. CASE StageNetdev
  <2> SUFFICES ASSUME pc' = "sampled" PROVE Between'
    BY DEF Between
  <2>1. /\ pc = "netdev" /\ window' = window
        /\ find_netdev = Nothing /\ c'.readiness = c.readiness
    BY <1>2, NetdevLook
  <2>2. /\ level \in window /\ window \subseteq kAbsent..kL3Ready
        /\ c.readiness = kUsbPresent /\ \E l \in window : l >= kUsbPresent
    BY <2>1 DEF Sampling, Found, reading
  <2>3. level <= kUsbPresent
    BY <2>1, LevelFacts DEF find_netdev, KernelOK
  <2>4. Max(window) >= kUsbPresent
    <3>1. PICK l \in window : l >= kUsbPresent
      BY <2>2
    <3>2. Max(window) \in 0..4 /\ l <= Max(window)
      BY <2>2, <3>1, WindowEnds
    <3> QED
      BY <2>2, <3>1, <3>2
  <2>5. Min(window) <= kUsbPresent
    <3>1. Min(window) \in 0..4 /\ Min(window) <= level
      BY <2>2, WindowEnds
    <3> QED
      BY <2>2, <2>3, <3>1
  <2>6. Max(window) \in 0..4 /\ Min(window) \in 0..4
    BY <2>2, WindowEnds
  <2> QED
    BY <2>1, <2>2, <2>4, <2>5, <2>6 DEF Between
<1>3. CASE StageAddress
  <2> SUFFICES ASSUME pc' = "sampled" PROVE Between'
    BY DEF Between
  <2>1. /\ pc = "address" /\ window' = window /\ Identity /\ caller' = caller
        /\ stale' = (stale \/ c.netdev # own)
        /\ c'.host_ip = host_ipv4(c.netdev)
        /\ c'.readiness = IF host_ipv4(c.netdev) = Nothing THEN c.readiness ELSE kHostAddressed
        /\ host_ipv4(c.netdev) = Nothing \/ ~probes
    BY <1>3, AddressLook
  <2>2. /\ level \in window /\ window \subseteq kAbsent..kL3Ready
        /\ c.netdev # Nothing /\ c.readiness = kNetdevBound
    BY <2>1 DEF Sampling, Found, reading
  <2>3. c'.readiness \in {kNetdevBound, kHostAddressed}
    BY <2>1, <2>2
  <2>4. SUFFICES ASSUME ~stale'
        PROVE  /\ c'.readiness <= Max(window')
               /\ c'.readiness >= Min(window') \/ (~probes' /\ c'.readiness = kHostAddressed)
    BY <2>3 DEF Between
  <2>5. ~stale /\ c.netdev = own /\ own # Nothing
    BY <2>1, <2>2, <2>4
  <2>6. host_ipv4(c.netdev) = IF lease["own"] THEN address_of("own") ELSE Nothing
    BY <2>5, OwnName
  <2>7. level >= c'.readiness
    <3>1. CASE lease["own"]
      BY <2>3, <2>5, <3>1, LevelFacts
    <3>2. CASE ~lease["own"]
      BY <2>1, <2>2, <2>5, <2>6, <3>2, LevelFacts
    <3> QED
      BY <3>1, <3>2
  <2>8. /\ Max(window) \in 0..4 /\ level <= Max(window)
        /\ Min(window) \in 0..4 /\ Min(window) <= level
    BY <2>2, WindowEnds
  <2>9. c'.readiness <= Max(window')
    BY <2>1, <2>2, <2>3, <2>7, <2>8
  <2>10. CASE lease["own"]
    <3>1. host_ipv4(c.netdev) = address_of("own") /\ host_ipv4(c.netdev) # Nothing
      BY <2>6, <2>10, AddressFacts
    <3>2. ~probes /\ c'.readiness = kHostAddressed
      BY <2>1, <3>1
    <3>3. ~probes'
      BY <2>1, <3>2 DEF probes, Identity
    <3> QED
      BY <2>1, <2>9, <3>1, <3>2, <3>3
  <2>11. CASE ~lease["own"]
    <3>1. c'.readiness = kNetdevBound /\ level = kNetdevBound
      BY <2>1, <2>2, <2>5, <2>6, <2>11, LevelFacts
    <3> QED
      BY <2>1, <2>8, <2>9, <3>1
  <2> QED
    BY <2>10, <2>11
<1>4. CASE StageProbe
  <2>1. /\ pc = "probe" /\ window' = window /\ stale' = stale
        /\ c'.readiness = IF level = kL3Ready THEN kL3Ready ELSE c.readiness
    BY <1>4, ProbeLook
  <2>2. /\ level \in window /\ window \subseteq kAbsent..kL3Ready
        /\ c.readiness = kHostAddressed
        /\ ~stale => \E l \in window : l >= kHostAddressed
    BY <2>1 DEF Sampling, Found, reading
  <2>3. /\ Max(window) \in 0..4 /\ level <= Max(window)
        /\ Min(window) \in 0..4 /\ Min(window) <= level
    BY <2>2, WindowEnds
  <2>4. ~stale => Max(window) >= kHostAddressed
    <3> SUFFICES ASSUME ~stale PROVE Max(window) >= kHostAddressed
      OBVIOUS
    <3>1. PICK l \in window : l >= kHostAddressed
      BY <2>2
    <3>2. l <= Max(window)
      BY <2>2, <3>1, WindowEnds
    <3> QED
      BY <2>2, <2>3, <3>1, <3>2
  <2>5. CASE level = kL3Ready
    BY <2>1, <2>2, <2>3, <2>5 DEF Between
  <2>6. CASE level # kL3Ready
    <3>1. level <= kHostAddressed /\ c'.readiness = kHostAddressed
      BY <2>1, <2>2, <2>6
    <3> QED
      BY <2>1, <2>2, <2>3, <2>4, <3>1 DEF Between
  <2> QED
    BY <2>5, <2>6
<1>5. CASE Others
  BY <1>5, OthersLeave DEF Between
<1>6. CASE ~ProgramStep
  <2>1. UNCHANGED <<pc, caller, c, stale>> /\ (pc = "sampled" => window' = window)
    BY <1>6, QuietSteps DEF Quiet, reading
  <2> QED
    BY <2>1 DEF Between, probes
<1> QED
  BY <1>1, <1>2, <1>3, <1>4, <1>5, <1>6, ProgramSplit DEF Looks

-----------------------------------------------------------------------------
(* The names a Camera has been seen under. *)

LEMMA NamedStays ==
  ASSUME NEW cam, NEW ns, Named(cam, ns), NEW later,
         later.netdev_first_seen = cam.netdev_first_seen,
         later.netdev_renamed = cam.netdev_renamed
  PROVE  Named(later, ns)
BY DEF Named

LEMMA NamedGrows ==
  ASSUME NEW cam, NEW ns, Named(cam, ns), NEW now, now # Nothing, NEW later,
         later.netdev_first_seen = first_seen(cam, now),
         later.netdev_renamed = (cam.netdev_renamed \/ now # first_seen(cam, now))
  PROVE  Named(later, ns \cup {now})
<1>1. IsFiniteSet(ns \cup {now}) /\ Nothing \notin ns \cup {now} /\ ns \cup {now} # {}
  BY FS_AddElement DEF Named
<1>2. CASE ns = {}
  BY <1>1, <1>2 DEF Named, first_seen
<1>3. CASE ns # {}
  <2>1. /\ cam.netdev_first_seen \in ns /\ cam.netdev_first_seen # Nothing
        /\ cam.netdev_renamed <=> \E n \in ns : n # cam.netdev_first_seen
    BY <1>3 DEF Named
  <2>2. first_seen(cam, now) = cam.netdev_first_seen
    BY <2>1 DEF first_seen
  <2> QED
    BY <1>1, <2>1, <2>2 DEF Named
<1> QED
  BY <1>2, <1>3

LEMMA NamesStep ==
  ASSUME Records, Names_OK, [Next]_cameraVars
  PROVE  Names_OK'
<1>1. CASE StageUsb \/ StageAddress \/ StageProbe
  <2>1. Unnamed /\ pc \in looking /\ pending' = pending
    BY <1>1, UsbLook, AddressLook, ProbeLook DEF looking, reading
  <2>2. Named(c', names')
    BY <2>1, NamedStays DEF Unnamed, Names_OK
  <2> QED
    BY <2>1, <2>2 DEF Names_OK
<1>2. CASE StageNetdev
  <2>1. Named(c, names) /\ pending' = pending
    BY <1>2, NetdevLook DEF Names_OK, looking, reading
  <2>2. CASE find_netdev = Nothing
    <3>1. Named(c', names')
      BY <1>2, <2>1, <2>2, NetdevLook, NamedStays DEF Unnamed
    <3> QED
      BY <2>1, <3>1 DEF Names_OK
  <2>3. CASE find_netdev # Nothing
    <3>1. /\ names' = names \cup {find_netdev}
          /\ c'.netdev_first_seen = first_seen(c, find_netdev)
          /\ c'.netdev_renamed = (c.netdev_renamed \/ find_netdev # first_seen(c, find_netdev))
      BY <1>2, <2>3, NetdevLook
    <3>2. Named(c', names')
      BY <2>1, <2>3, <3>1, NamedGrows
    <3> QED
      BY <2>1, <3>2 DEF Names_OK
  <2> QED
    BY <2>2, <2>3
<1>3. CASE Build
  <2>1. names' = {} /\ c'.netdev_first_seen = Nothing /\ c'.netdev_renamed = FALSE /\ pending' = pending
    BY <1>3, Building
  <2>2. Named(c', names')
    BY <2>1, FS_EmptySet DEF Named
  <2> QED
    BY <2>1, <2>2 DEF Names_OK
<1>4. CASE PumpArrived \/ PumpLeft \/ EnumerateStart \/ WaitStart
  <2>1. pc' \notin looking /\ (pending' = pending \/ pending' = <<>>)
    BY <1>4 DEF PumpArrived, PumpLeft, EnumerateStart, WaitStart, worker, Begin, looking, reading
  <2> QED
    BY <2>1 DEF Names_OK
<1>5. CASE Arrived \/ Enumerate \/ Settle
  <2>1. /\ pc = "sampled" /\ pc' = "idle"
        /\ \/ pending' = pending \/ pending' = <<>>
           \/ \E l : pending' = <<[cam |-> c, last |-> l, names |-> names]>>
    BY <1>5 DEF Arrived, Enumerate, Settle, worker, Finish
  <2>2. Named(c, names)
    BY <2>1 DEF Names_OK, looking
  <2>3. pending' # <<>> => Named(pending'[1].cam, pending'[1].names)
    BY <2>1, <2>2 DEF Names_OK
  <2> QED
    BY <2>1, <2>3 DEF Names_OK, looking, reading
<1>6. CASE SettleStart
  <2>1. /\ pending # <<>> /\ pending' = pending
        /\ c' = pending[1].cam /\ names' = pending[1].names
    BY <1>6 DEF SettleStart
  <2> QED
    BY <2>1 DEF Names_OK
<1>7. CASE Wait
  <2>1. pc = "sampled" /\ UNCHANGED <<c, names, pending>>
    BY <1>7 DEF Wait, readingVars
  <2> QED
    BY <2>1 DEF Names_OK, looking
<1>8. CASE ~ProgramStep
  BY <1>8, QuietSteps DEF Quiet, Names_OK
<1> QED
  BY <1>1, <1>2, <1>3, <1>4, <1>5, <1>6, <1>7, <1>8, ProgramSplit DEF Looks, Others


-----------------------------------------------------------------------------
(* What the worker has been told. *)

LEMMA EventAppend ==
  ASSUME NEW q \in Seq({"arrived", "left"}), NEW e \in {"arrived", "left"},
         \A i \in 1..Len(q) - 1 : q[i] # q[i + 1],
         q # <<>> => q[Len(q)] # e,
         NEW r, r = Append(q, e)
  PROVE  /\ r \in Seq({"arrived", "left"}) /\ r # <<>> /\ r[Len(r)] = e
         /\ \A i \in 1..Len(r) - 1 : r[i] # r[i + 1]
         /\ Head(r) = IF q = <<>> THEN e ELSE Head(q)
<1>1. Len(q) \in Nat /\ (q # <<>> => Len(q) >= 1)
  BY LenProperties, EmptySeq
<1>2. /\ r \in Seq({"arrived", "left"}) /\ Len(r) = Len(q) + 1
      /\ r[Len(r)] = e /\ \A i \in 1..Len(q) : r[i] = q[i]
  BY AppendProperties
<1>3. \A i \in 1..Len(r) - 1 : r[i] # r[i + 1]
  <2> SUFFICES ASSUME NEW i \in 1..Len(r) - 1 PROVE r[i] # r[i + 1]
    OBVIOUS
  <2>1. CASE i = Len(q)
    <3>1. q # <<>> /\ r[i] = q[Len(q)] /\ r[i + 1] = e
      BY <1>1, <1>2, <2>1, EmptySeq
    <3> QED
      BY <3>1
  <2>2. CASE i # Len(q)
    <3>1. i \in 1..Len(q) - 1 /\ i \in 1..Len(q) /\ i + 1 \in 1..Len(q)
      BY <1>1, <1>2, <2>2
    <3>2. r[i] = q[i] /\ r[i + 1] = q[i + 1]
      BY <1>2, <3>1
    <3> QED
      BY <3>1, <3>2
  <2> QED
    BY <2>1, <2>2
<1>4. r # <<>> /\ Head(r) = r[1]
  BY <1>1, <1>2, EmptySeq
<1>5. Head(r) = IF q = <<>> THEN e ELSE Head(q)
  <2>1. CASE q = <<>>
    BY <1>2, <1>4, <2>1, EmptySeq
  <2>2. CASE q # <<>>
    <3>1. 1 \in 1..Len(q) /\ Head(q) = q[1]
      BY <1>1, <2>2
    <3> QED
      BY <1>2, <1>4, <2>2, <3>1
  <2> QED
    BY <2>1, <2>2
<1> QED
  BY <1>2, <1>3, <1>4, <1>5

LEMMA EventTail ==
  ASSUME NEW q \in Seq({"arrived", "left"}), q # <<>>,
         \A i \in 1..Len(q) - 1 : q[i] # q[i + 1],
         NEW r, r = Tail(q)
  PROVE  /\ r \in Seq({"arrived", "left"})
         /\ \A i \in 1..Len(r) - 1 : r[i] # r[i + 1]
         /\ r = <<>> => q[Len(q)] = Head(q)
         /\ r # <<>> => r[Len(r)] = q[Len(q)] /\ Head(r) # Head(q) /\ Head(r) \in {"arrived", "left"}
<1>1. Len(q) \in Nat \ {0}
  BY EmptySeq
<1>2. /\ r \in Seq({"arrived", "left"}) /\ Len(r) = Len(q) - 1
      /\ \A i \in 1..Len(r) : r[i] = q[i + 1]
      /\ Head(q) = q[1]
  BY <1>1, HeadTailProperties
<1>3. \A i \in 1..Len(r) - 1 : r[i] # r[i + 1]
  BY <1>1, <1>2
<1>4. ASSUME r = <<>> PROVE q[Len(q)] = Head(q)
  <2>1. Len(r) = 0
    <3>1. Len(<<>>) = 0
      OBVIOUS
    <3> QED
      BY <1>4, <3>1
  <2>2. Len(q) = 1
    BY <1>1, <1>2, <2>1
  <2> QED
    BY <1>2, <2>2
<1>5. ASSUME r # <<>>
      PROVE  r[Len(r)] = q[Len(q)] /\ Head(r) # Head(q) /\ Head(r) \in {"arrived", "left"}
  <2>0. Len(r) \in Nat \ {0}
    BY <1>2, <1>5, EmptySeq
  <2>1. Len(r) >= 1 /\ 1 \in 1..Len(q) - 1
    BY <1>1, <1>2, <2>0
  <2>2. Head(r) = r[1] /\ r[1] = q[2] /\ q[1] # q[2]
    <3>1. q[1] # q[1 + 1] /\ 1 \in 1..Len(r)
      BY <2>0, <2>1
    <3>2. r[1] = q[1 + 1] /\ Head(r) = r[1]
      BY <1>2, <1>5, <3>1
    <3> QED
      BY <3>1, <3>2
  <2>3. r[Len(r)] = q[Len(q)]
    <3>1. Len(r) \in 1..Len(r) /\ Len(r) + 1 = Len(q)
      BY <1>1, <1>2, <2>0
    <3> QED
      BY <1>2, <3>1
  <2>4. r[1] \in {"arrived", "left"}
    BY <1>2, <2>0, ElementOfSeq
  <2> QED
    BY <1>2, <2>2, <2>3, <2>4
<1> QED
  BY <1>2, <1>3, <1>4, <1>5

LEMMA EventsInit == Init => Events
<1> SUFFICES ASSUME Init, program = "bridge" PROVE Events
  BY DEF Events
<1>1. cache = <<>> /\ pending = <<>> /\ pc = "idle"
  BY DEF Init, Impl
<1>2. CASE attached
  <2>1. events = <<"arrived">>
    BY <1>2 DEF Init
  <2> QED
    BY <1>1, <1>2, <2>1 DEF Events
<1>3. CASE ~attached
  <2>1. events = <<>>
    BY <1>3 DEF Init
  <2> QED
    BY <1>1, <2>1 DEF Events
<1> QED
  BY <1>2, <1>3

\* A step that leaves the events alone is one of a worker that has been told.
LEMMA ToldSteps ==
  ASSUME Events, program = "bridge", ProgramStep, ~PumpArrived
  PROVE  \/ told
         \/ UNCHANGED <<events, cache, pending, pc>>
<1> SUFFICES ASSUME ~told PROVE UNCHANGED <<events, cache, pending, pc>>
  OBVIOUS
<1>1. pc = "idle" /\ pending = <<>>
  BY DEF Events
<1>2. ~PumpLeft
  BY DEF PumpLeft, told
<1>3. EnumerateStart
  BY <1>1, <1>2 DEF ProgramStep, Build, StageUsb, StageNetdev, StageAddress, StageProbe, rest,
       Arrived, Enumerate, SettleStart, Settle, WaitStart, Wait, worker
<1> QED
  BY <1>3 DEF EnumerateStart, told, kernelVars

LEMMA EventsStep ==
  ASSUME KernelOK, Events, [Next]_cameraVars
  PROVE  Events'
<1>1. SUFFICES ASSUME program = "bridge", program' = program PROVE Events'
  BY ProgramLeaves, QuietSteps DEF Events, Quiet
<1>2. /\ events \in Seq({"arrived", "left"})
      /\ \A i \in 1..Len(events) - 1 : events[i] # events[i + 1]
      /\ events # <<>> => (events[Len(events)] = "arrived" <=> attached)
      /\ ~told => cache = <<>> /\ pending = <<>> /\ pc = "idle"
  BY <1>1 DEF Events
<1>3. CASE PumpArrived
  <2>1. /\ events # <<>> /\ Head(events) = "arrived" /\ events' = Tail(events) /\ attached' = attached
    BY <1>3 DEF PumpArrived
  <2>2. /\ events' \in Seq({"arrived", "left"})
        /\ \A i \in 1..Len(events') - 1 : events'[i] # events'[i + 1]
        /\ events' = <<>> => events[Len(events)] = Head(events)
        /\ events' # <<>> => /\ events'[Len(events')] = events[Len(events)]
                             /\ Head(events') # Head(events) /\ Head(events') \in {"arrived", "left"}
    BY <1>2, <2>1, EventTail
  <2>3. told'
    BY <1>2, <2>1, <2>2 DEF told
  <2> QED
    BY <1>2, <2>1, <2>2, <2>3 DEF Events
<1>4. CASE PumpLeft
  <2>1. /\ events # <<>> /\ events' = Tail(events) /\ attached' = attached
        /\ pc' = "idle" /\ cache' = <<>> /\ pending' = <<>>
    BY <1>4 DEF PumpLeft, worker
  <2>2. /\ events' \in Seq({"arrived", "left"})
        /\ \A i \in 1..Len(events') - 1 : events'[i] # events'[i + 1]
        /\ events' # <<>> => events'[Len(events')] = events[Len(events)]
    BY <1>2, <2>1, EventTail
  <2> QED
    BY <1>2, <2>1, <2>2 DEF Events
<1>5. CASE ProgramStep /\ ~PumpArrived /\ ~PumpLeft
  <2>1. events' = events /\ attached' = attached
    BY <1>5 DEF ProgramStep, Build, StageUsb, StageNetdev, StageAddress, StageProbe, Arrived,
       EnumerateStart, Enumerate, SettleStart, Settle, WaitStart, Wait, rest, Finish, kernelVars
  <2>2. told' = told
    BY <2>1 DEF told
  <2>3. told \/ UNCHANGED <<cache, pending, pc>>
    BY <1>1, <1>5, ToldSteps
  <2> QED
    BY <1>2, <2>1, <2>2, <2>3 DEF Events
<1>6. CASE Plug
  <2>1. ~attached /\ attached' = TRUE /\ events' = Append(events, "arrived")
    BY <1>6 DEF Plug
  <2>2. events # <<>> => events[Len(events)] # "arrived"
    BY <1>2, <2>1
  <2>3. /\ events' \in Seq({"arrived", "left"}) /\ events' # <<>> /\ events'[Len(events')] = "arrived"
        /\ \A i \in 1..Len(events') - 1 : events'[i] # events'[i + 1]
        /\ Head(events') = IF events = <<>> THEN "arrived" ELSE Head(events)
    BY <1>2, <2>1, <2>2, EventAppend
  <2>4. told => told'
    BY <2>1, <2>3 DEF told
  <2>5. UNCHANGED <<cache, pending, pc>>
    BY <1>6, KernelMovesLeave DEF KernelMoves, programVars
  <2> QED
    BY <1>2, <2>1, <2>3, <2>4, <2>5 DEF Events
<1>7. CASE Unplug
  <2>1. attached /\ attached' = FALSE /\ events' = Append(events, "left")
    BY <1>7 DEF Unplug
  <2>2. events # <<>> => events[Len(events)] # "left"
    BY <1>2, <2>1
  <2>3. /\ events' \in Seq({"arrived", "left"}) /\ events' # <<>> /\ events'[Len(events')] = "left"
        /\ \A i \in 1..Len(events') - 1 : events'[i] # events'[i + 1]
        /\ Head(events') = IF events = <<>> THEN "left" ELSE Head(events)
    BY <1>2, <2>1, <2>2, EventAppend
  <2>4. told => told'
    BY <2>1, <2>3 DEF told
  <2>5. UNCHANGED <<cache, pending, pc>>
    BY <1>7, KernelMovesLeave DEF KernelMoves, programVars
  <2> QED
    BY <1>2, <2>1, <2>3, <2>4, <2>5 DEF Events
<1>8. CASE ~ProgramStep /\ ~Plug /\ ~Unplug
  <2>1. UNCHANGED <<cache, pending, pc>>
    BY <1>8, QuietSteps DEF Quiet
  <2>2. events' = events /\ attached' = attached
    BY <1>8, QuietSteps DEF KernelMoves, Lease, Serve, Interface, Foreign, kernelVars
  <2>3. told' = told
    BY <2>2 DEF told
  <2> QED
    BY <1>2, <2>1, <2>2, <2>3 DEF Events
<1> QED
  BY <1>3, <1>4, <1>5, <1>6, <1>7, <1>8


-----------------------------------------------------------------------------
(* The serial that is read. *)

LEMMA GreatestOf ==
  ASSUME NEW X \in SUBSET Nat, 0 \in X, NEW b \in Nat, \A x \in X : x <= b
  PROVE  Max(X) \in X /\ \A x \in X : Max(X) >= x
<1> DEFINE T == {n \in Nat : \A x \in X : x <= n}
           R == OpToRel(<, Nat)
<1>1. T \subseteq Nat /\ T # {}
  OBVIOUS
<1>2. IsWellFoundedOn(R, Nat)
  BY NatLessThanWellFounded
<1>3. \A m, n \in Nat : m < n => <<m, n>> \in R
  BY DEF OpToRel
<1> HIDE DEF T, R
<1>4. PICK m \in T : \A n \in T : ~(<<n, m>> \in R)
  BY <1>1, <1>2, WFMin
<1>5. m \in Nat /\ \A x \in X : x <= m
  BY <1>4 DEF T
<1>6. m \in X
  <2> SUFFICES ASSUME m \notin X PROVE FALSE
    OBVIOUS
  <2>1. m # 0
    OBVIOUS
  <2>2. m - 1 \in Nat /\ m - 1 < m
    BY <1>5, <2>1
  <2>3. \A x \in X : x <= m - 1
    BY <1>5
  <2>4. m - 1 \in T
    BY <2>2, <2>3 DEF T
  <2> QED
    BY <1>3, <1>4, <1>5, <2>2, <2>4
<1>7. \A x \in X : m >= x
  BY <1>5
<1> QED
  BY <1>6, <1>7 DEF Max

\* A line of which something is left is not the empty one.
LEMMA LineIsRead ==
  ASSUME NEW s \in Seq(0..127), NEW i \in 1..Len(s), s[i] \notin {10, 13}
  PROVE  read_sysfs_line(TRUE, s \o <<10>>) # Nothing
<1>1. PICK t : t = s \o <<10>>
  OBVIOUS
<1>2. PICK n \in Nat : n = Len(s)
  BY LenProperties
<1>3. /\ t \in Seq(0..127) /\ Len(t) = n + 1
      /\ \A k \in 1..n : t[k] = s[k]
  <2>1. <<10>> \in Seq(0..127) /\ Len(<<10>>) = 1
    OBVIOUS
  <2>2. /\ t \in Seq(0..127) /\ Len(t) = Len(s) + Len(<<10>>)
        /\ \A k \in 1..Len(s) + Len(<<10>>) :
             t[k] = IF k <= Len(s) THEN s[k] ELSE <<10>>[k - Len(s)]
    BY <1>1, <2>1, ConcatProperties
  <2> QED
    BY <1>2, <2>1, <2>2
<1>4. DOMAIN t = 1..n + 1
  BY <1>3, LenProperties
<1>5. PICK X : X = {0} \cup {k \in DOMAIN t : t[k] \notin {10, 13}}
  OBVIOUS
<1>6. X \in SUBSET (0..n + 1) /\ 0 \in X /\ i \in X
  BY <1>2, <1>3, <1>4, <1>5
<1>7. \A x \in X : x <= n + 1
  BY <1>6
<1>8. X \in SUBSET Nat
  BY <1>6
<1>9. Max(X) \in X /\ \A x \in X : Max(X) >= x
  <2>1. n + 1 \in Nat
    OBVIOUS
  <2> QED
    BY <1>6, <1>7, <1>8, <2>1, GreatestOf, ZenonT(30)
<1>10. PICK m \in 1..n + 1 : m = Max(X)
  <2>1. PICK m : m = Max(X)
    OBVIOUS
  <2>2. m \in X /\ m >= i
    BY <1>6, <1>9, <2>1
  <2>3. m \in 0..n + 1
    BY <1>6, <2>2
  <2>4. m \in 1..n + 1
    BY <1>2, <2>2, <2>3
  <2> QED
    BY <2>1, <2>4
<1>11. \A k \in 1..m : t[k] \in 0..127
  <2>1. \A k \in 1..Len(t) : t[k] \in 0..127
    BY <1>3, ElementOfSeq
  <2> QED
    BY <1>2, <1>3, <1>10, <2>1
<1>12. Len(SubSeq(t, 1, m)) = IF 1 <= m THEN m - 1 + 1 ELSE 0
  BY <1>10, <1>11, SubSeqProperties
<1>13. Len(SubSeq(t, 1, m)) # 0
  BY <1>2, <1>10, <1>12
<1>14. SubSeq(t, 1, m) # <<>>
  <2>1. Len(<<>>) = 0
    OBVIOUS
  <2> QED
    BY <1>13, <2>1
<1> QED
  BY <1>1, <1>5, <1>10, <1>14 DEF read_sysfs_line, Nothing

LEMMA SerialIsRead ==
  ASSUME KernelOK, attached, NEW permitted \in BOOLEAN
  PROVE  serial_read(permitted)[1] # Nothing
<1>1. plugs \in DOMAIN Serials
  <2>1. plugs \in 1..Len(Serials)
    BY DEF KernelOK
  <2> QED
    BY <2>1, CameraAssumption, LenProperties
<1>2. serial \in Range(Serials)
  BY <1>1 DEF serial, Range
<1>3. serial \in Seq(0..127) /\ \E i \in DOMAIN serial : serial[i] \notin {10, 13}
  <2>1. Serials[plugs] \in Seq(0..127)
    BY <1>1, CameraAssumption, ElementOfSeq, LenProperties
  <2> QED
    BY <1>2, <2>1, CameraAssumption DEF serial
<1>4. PICK i \in DOMAIN serial : serial[i] \notin {10, 13}
  BY <1>3
<1>5. DOMAIN serial = 1..Len(serial) /\ Len(serial) \in Nat
  BY <1>3, LenProperties
<1>6. CASE permitted
  <2>1. serial_read(permitted) = <<serial, SerialSource.kDescriptor>>
    BY <1>6 DEF serial_read
  <2> QED
    BY <1>4, <1>5, <2>1 DEF Nothing
<1>7. CASE ~permitted
  <2>1. serial_read(permitted)[1] = read_sysfs_line(attached, serial \o <<10>>)
    BY <1>7 DEF serial_read
  <2> QED
    BY <1>3, <1>4, <1>5, <2>1, LineIsRead
<1> QED
  BY <1>6, <1>7


-----------------------------------------------------------------------------
(* What is known of a camera that has gone. *)

LEMMA KnownStays ==
  ASSUME NEW cam, Known(cam), gone => gone', known \subseteq known',
         NEW later, later.serial = cam.serial, later.ip = cam.ip
  PROVE  (gone' \/ later.serial \in known') /\ later.ip = derive_ip(later.serial)
BY DEF Known

LEMMA CachedStep ==
  ASSUME KernelOK, Records, Events, Cached, program \in {"bridge", "tool"}, [Next]_cameraVars
  PROVE  Cached'
<1>1. CASE Looks
  <2>1. /\ Identity /\ UNCHANGED <<caller, cache, known, gone>> /\ pc \in looking
    BY <1>1, UsbLook, NetdevLook, AddressLook, ProbeLook DEF Looks, looking, reading
  <2> QED
    BY <2>1 DEF Cached, Known, Identity
<1>2. CASE Build
  <2>1. /\ UNCHANGED <<caller, cache>> /\ gone' = (gone \/ ~attached)
        /\ \E permitted \in BOOLEAN :
             /\ c'.serial = serial_read(permitted)[1]
             /\ c'.ip = derive_ip(c'.serial)
             /\ known' = known \cup ({c'.serial} \ {Nothing})
    BY <1>2, Building
  <2>2. c'.ip = derive_ip(c'.serial) /\ known \subseteq known'
    BY <2>1
  <2>3. gone' \/ c'.serial \in known'
    <3> SUFFICES ASSUME attached PROVE c'.serial \in known'
      BY <2>1
    <3>1. PICK permitted \in BOOLEAN :
            /\ c'.serial = serial_read(permitted)[1]
            /\ known' = known \cup ({c'.serial} \ {Nothing})
      BY <2>1
    <3>2. c'.serial # Nothing
      BY <3>1, SerialIsRead
    <3> QED
      BY <3>1, <3>2
  <2> QED
    BY <2>1, <2>2, <2>3 DEF Cached, Known
<1>3. CASE PumpArrived
  <2>1. cache = <<>> /\ cache' = cache
    BY <1>3 DEF PumpArrived, worker, Events, told
  <2>2. pc' \notin looking
    BY <1>3 DEF PumpArrived, Begin, looking, reading
  <2> QED
    BY <2>1, <2>2 DEF Cached
<1>4. CASE Arrived \/ Enumerate
  <2>1. /\ pc = "sampled" /\ caller \in {"arrived", "enumerate"} /\ pc' = "idle"
        /\ cache' = <<c>> /\ UNCHANGED <<known, gone>>
    BY <1>4 DEF Arrived, Enumerate, worker, Finish
  <2>2. Known(c)
    BY <2>1 DEF Cached, looking
  <2>3. cache'[1] = c
    BY <2>1
  <2> QED
    BY <2>1, <2>2, <2>3 DEF Cached, Known, looking, reading
<1>5. CASE PumpLeft
  <2>1. cache' = <<>> /\ pc' = "idle"
    BY <1>5 DEF PumpLeft, worker
  <2> QED
    BY <2>1 DEF Cached, looking, reading
<1>6. CASE EnumerateStart \/ WaitStart
  <2>1. UNCHANGED <<cache, known, gone>> /\ pc' \notin looking
    BY <1>6 DEF EnumerateStart, WaitStart, worker, Begin, readingVars, looking, reading
  <2> QED
    BY <2>1 DEF Cached, Known
<1>7. CASE SettleStart
  <2>1. UNCHANGED <<cache, known, gone>> /\ caller' = "settle"
    BY <1>7 DEF SettleStart, Begin
  <2> QED
    BY <2>1 DEF Cached, Known
<1>8. CASE Settle
  <2>1. UNCHANGED <<cache, known, gone>> /\ pc' = "idle"
    BY <1>8 DEF Settle, Finish
  <2> QED
    BY <2>1 DEF Cached, Known, looking, reading
<1>9. CASE Wait
  <2>1. /\ UNCHANGED <<c, cache, known, gone>>
        /\ pc' \notin looking \/ caller' = "wait"
    BY <1>9 DEF Wait, Begin, readingVars, looking, reading
  <2> QED
    BY <2>1 DEF Cached, Known
<1>10. CASE ~ProgramStep
  BY <1>10, QuietSteps DEF Quiet, Cached, Known
<1> QED
  BY <1>1, <1>2, <1>3, <1>4, <1>5, <1>6, <1>7, <1>8, <1>9, <1>10, ProgramSplit DEF Others

-----------------------------------------------------------------------------
(* The invariant and what it gives. *)

Programs == program \in {"bridge", "tool"}

LEMMA CameraInvInit == Init => Programs /\ CameraInv
<1> SUFFICES ASSUME Init PROVE Programs /\ CameraInv
  OBVIOUS
<1>1. /\ Programs /\ pc = "idle" /\ c = NewCamera /\ cache = <<>> /\ pending = <<>>
  BY DEF Init, Programs, Impl
<1>2. Records
  BY <1>1 DEF Records, Fields
<1>3. Sampling /\ Names_OK /\ Cached /\ Between
  BY <1>1 DEF Sampling, Names_OK, Cached, Between, looking, reading
<1> QED
  BY <1>1, <1>2, <1>3, KernelInit, EventsInit DEF CameraInv

LEMMA CameraInvStep == Programs /\ CameraInv /\ [Next]_cameraVars => Programs' /\ CameraInv'
<1> SUFFICES ASSUME Programs, CameraInv, [Next]_cameraVars PROVE Programs' /\ CameraInv'
  OBVIOUS
<1>1. /\ KernelOK /\ Records /\ Sampling /\ Names_OK /\ Events /\ Cached /\ Between
  BY DEF CameraInv
<1>2. program' = program
  BY ProgramLeaves, QuietSteps DEF Quiet
<1>3. KernelOK' /\ Records' /\ Names_OK' /\ Events'
  BY <1>1, KernelStep, RecordsStep, NamesStep, EventsStep
<1>4. Sampling' /\ Between'
  BY <1>1, <1>3, SamplingStep, BetweenStep
<1>5. Cached'
  BY <1>1, CachedStep DEF Programs
<1> QED
  BY <1>2, <1>3, <1>4, <1>5 DEF Programs, CameraInv

LEMMA CameraInvHolds == Spec => [](Programs /\ CameraInv)
<1>1. Init => Programs /\ CameraInv
  BY CameraInvInit
<1>2. Programs /\ CameraInv /\ [Next]_cameraVars => (Programs /\ CameraInv)'
  BY CameraInvStep
<1> QED
  BY <1>1, <1>2, PTL DEF Spec

\* Whatever the kernel does between the looks of advance_readiness(), and however
\* often, kL3Ready is said only of a camera that could be reached during that
\* reading; the stage lies between the lowest and the highest that the camera had
\* during it (though it need not be one of them), unless a look by name met
\* another interface or none; and an address that is not the camera's is that of
\* the device that has taken the name.
THEOREM StageWithinReadingHolds == Spec => []StageWithinReading
<1>1. CameraInv => StageWithinReading
  BY DEF CameraInv, Between, Sampling, Addressed, StageWithinReading
<1> QED
  BY <1>1, CameraInvHolds, PTL

\* resolve_netdev() sets netdev_renamed exactly when the Camera has been seen
\* under two names, over any number of readings and renames.
THEOREM RenameWitnessedHolds == Spec => []RenameWitnessed
<1>1. CameraInv => RenameWitnessed
  <2> SUFFICES ASSUME CameraInv, pc = "sampled"
               PROVE  c.netdev_renamed <=> Cardinality(names) > 1
    BY DEF RenameWitnessed
  <2>1. Named(c, names)
    BY DEF CameraInv, Names_OK, looking
  <2>2. IsFiniteSet(names) /\ Cardinality(names) \in Nat
    BY <2>1, FS_CardinalityType DEF Named
  <2>3. CASE names = {}
    BY <2>1, <2>3, FS_EmptySet DEF Named
  <2>4. CASE names # {}
    <3> DEFINE first == c.netdev_first_seen
    <3>1. first \in names /\ (c.netdev_renamed <=> \E n \in names : n # first)
      BY <2>1, <2>4 DEF Named
    <3>2. CASE \E n \in names : n # first
      <4>1. PICK n \in names : n # first
        BY <3>2
      <4>2. {first, n} \in SUBSET names
        BY <3>1
      <4>3. Cardinality({first, n}) = 2
        <5>1. IsFiniteSet({first}) /\ Cardinality({first}) = 1
          BY FS_Singleton
        <5>2. Cardinality({first} \cup {n}) = Cardinality({first}) + 1
          BY <4>1, <5>1, FS_AddElement
        <5>3. {first} \cup {n} = {first, n}
          OBVIOUS
        <5> QED
          BY <5>1, <5>2, <5>3
      <4>4. Cardinality({first, n}) <= Cardinality(names)
        BY <2>2, <4>2, FS_Subset
      <4> QED
        BY <2>2, <3>1, <3>2, <4>3, <4>4
    <3>3. CASE ~\E n \in names : n # first
      <4>1. names = {first}
        BY <3>1, <3>3
      <4>2. Cardinality(names) = 1
        BY <4>1, FS_Singleton
      <4> QED
        BY <3>1, <3>3, <4>2
    <3> QED
      BY <3>2, <3>3
  <2> QED
    BY <2>3, <2>4
<1> QED
  BY <1>1, CameraInvHolds, PTL

\* The departure that PumpLeft posts names the serial and the address the camera
\* was read with while it was there, whatever rescans came in between, unless a
\* build() found it gone.
THEOREM DepartureIsKnownHolds == Spec => DepartureIsKnown
<1> DEFINE Departs == cache # <<>> /\ cache' = <<>> /\ ~gone
                        => posted'[2].serial \in known /\ posted'[2].ip = derive_ip(posted'[2].serial)
<1>1. CameraInv /\ [Next]_cameraVars => [Departs]_cameraVars
  <2> SUFFICES ASSUME CameraInv, Next, cache # <<>>, cache' = <<>>, ~gone
               PROVE  posted'[2].serial \in known /\ posted'[2].ip = derive_ip(posted'[2].serial)
    OBVIOUS
  <2>1. PumpLeft
    <3>1. cache' # cache
      OBVIOUS
    <3>2. ProgramStep
      BY <3>1, QuietSteps DEF Quiet
    <3>3. ~Looks
      BY <3>1, UsbLook, NetdevLook, AddressLook, ProbeLook DEF Looks, CameraInv
    <3>4. ~Arrived /\ ~Enumerate
      BY DEF Arrived, Enumerate
    <3> QED
      BY <3>1, <3>2, <3>3, <3>4, ProgramSplit, Building
         DEF Others, PumpArrived, EnumerateStart, SettleStart, Settle, WaitStart, Wait
  <2>2. posted' = <<"kLeft", to_record(recover, 0)>>
    BY <2>1 DEF PumpLeft, post
  <2>3. posted'[2].serial = recover.serial /\ posted'[2].ip = recover.ip
    BY <2>2 DEF to_record
  <2>4. recover.serial = cache[1].serial /\ recover.ip = cache[1].ip
    BY FieldFacts DEF recover
  <2>5. cache[1].serial \in known /\ cache[1].ip = derive_ip(cache[1].serial)
    BY DEF CameraInv, Cached, Known
  <2> QED
    BY <2>3, <2>4, <2>5
<1> QED
  BY <1>1, CameraInvHolds, PTL DEF Spec, DepartureIsKnown

=============================================================================
