---------------------------- MODULE BringUpProofs ----------------------------
(***************************************************************************)
(* Proofs about a climb of GoProBleTransport._bringUp() and the LinkMachine*)
(* it drives, for any channels, budgets, backoff, deadline and number of   *)
(* climbs.                                                                 *)
(***************************************************************************)
EXTENDS BringUp, FiniteSetTheorems, TLAPS

-----------------------------------------------------------------------------
(* The machine's numbers. *)

Machines == [state : Members(LinkState), since : Nat, last_failure : Nat, attempts : Nat]

\* A power of two is a number: it counts the subsets of a set.
LEMMA PowerOfTwo ==
  ASSUME NEW n \in Nat
  PROVE  2^n \in Nat
<1>1. IsFiniteSet(1..n) /\ Cardinality(1..n) = n
  BY FS_Interval
<1>2. IsFiniteSet(SUBSET (1..n)) /\ Cardinality(SUBSET (1..n)) = 2^Cardinality(1..n)
  BY <1>1, FS_SUBSET
<1>3. Cardinality(SUBSET (1..n)) \in Nat
  BY <1>2, FS_CardinalityType
<1> QED
  BY <1>1, <1>2, <1>3

\* The members of LinkState, spelt out.
LEMMA States ==
  Members(LinkState) = {"kAbsent", "kAdvertising", "kConnected", "kServicesResolved",
                        "kEncrypted", "kReady"}
  BY DEF Members, LinkState

\* Each configured duration is a positive number, whatever
\* gopro_link_create() was asked for.
LEMMA Configured ==
  /\ backoff_initial \in Nat \ {0}
  /\ backoff_max \in Nat \ {0}
  /\ \A s \in Members(LinkState) : Budget(s) \in Nat \ {0}
<1>1. /\ ConnectTimeout \in Nat \ {0} /\ ServicesTimeout \in Nat \ {0}
      /\ EncryptTimeout \in Nat \ {0} /\ SubscribeTimeout \in Nat \ {0}
      /\ BackoffInitial \in Nat \ {0} /\ BackoffMax \in Nat \ {0}
  BY LinkConfigAssumption
<1>2. /\ Asked.connect \in Nat /\ Asked.services \in Nat /\ Asked.encrypt \in Nat
      /\ Asked.subscribe \in Nat /\ Asked.initial \in Nat /\ Asked.max \in Nat
  BY LinkConfigAssumption
<1>3. \A asked \in Nat, default \in Nat \ {0} : configured(asked, default) \in Nat \ {0}
  BY DEF configured
<1>4. backoff_initial \in Nat \ {0} /\ backoff_max \in Nat \ {0}
  BY <1>1, <1>2, <1>3 DEF backoff_initial, backoff_max
<1>5. ASSUME NEW s \in Members(LinkState)
      PROVE  Budget(s) \in Nat \ {0}
  BY <1>1, <1>2, <1>3, <1>5, States DEF Budget
<1> QED
  BY <1>4, <1>5

\* backoff_ms() never exceeds its cap, however many attempts failed.
LEMMA BackoffCapped ==
  ASSUME NEW m \in Machines
  PROVE  backoff(m) \in 0..backoff_max
<1>1. CASE m.attempts = 0
  BY <1>1, Configured DEF backoff
<1>2. CASE m.attempts # 0
  <2>1. m.attempts - 1 \in Nat
    BY <1>2 DEF Machines
  <2>2. 2^(m.attempts - 1) \in Nat
    BY <2>1, PowerOfTwo
  <2> DEFINE p == 2^(m.attempts - 1)
  <2>3. backoff(m) = Least(backoff_initial * p, backoff_max)
    BY <1>2 DEF backoff
  <2>4. p \in Nat
    BY <2>2
  <2> HIDE DEF p
  <2>5. backoff_initial * p \in Nat
    BY <2>4, Configured
  <2> QED
    BY <2>3, <2>5, Configured DEF Least
<1> QED
  BY <1>1, <1>2

-----------------------------------------------------------------------------
(* The way to Dart and back. *)

\* A Boolean of an observation as its bit.
LEMMA BitsAreRead ==
  ASSUME NEW a \in {0, 1}, NEW b \in {0, 2}, NEW c \in {0, 4}, NEW d \in {0, 8},
         NEW e \in {0, 16}, NEW f \in {0, 32}
  PROVE  LET bits == a + b + c + d + e + f
         IN  /\ bits % 2 = 1 <=> a = 1
             /\ (bits \div 2) % 2 = 1 <=> b = 2
             /\ (bits \div 4) % 2 = 1 <=> c = 4
             /\ (bits \div 8) % 2 = 1 <=> d = 8
             /\ (bits \div 16) % 2 = 1 <=> e = 16
             /\ (bits \div 32) % 2 = 1 <=> f = 32
  OBVIOUS

Seen == [candidate : BOOLEAN, classic : BOOLEAN, connected : BOOLEAN, bonded : BOOLEAN,
         attributes : Nat, found : BOOLEAN, notified : BOOLEAN, subscribed : Nat,
         required : Nat]

\* What gopro_link_update() reads of the flags is what link_types.dart put there.
LEMMA FlagsRoundTrip ==
  ASSUME NEW o \in Seen
  PROVE  LET seen == observed(flags(o), o.attributes, o.subscribed, o.required)
         IN  /\ seen.candidate = o.candidate /\ seen.classic = o.classic
             /\ seen.connected = o.connected /\ seen.bonded = o.bonded
             /\ seen.found = o.found /\ seen.notified = o.notified
             /\ seen.attributes = o.attributes /\ seen.subscribed = o.subscribed
             /\ seen.required = IF o.required = 0 THEN 1 ELSE o.required
<1> DEFINE a == IF o.candidate THEN 1 ELSE 0
           b == IF o.classic THEN 2 ELSE 0
           c == IF o.connected THEN 4 ELSE 0
           d == IF o.bonded THEN 8 ELSE 0
           e == IF o.found THEN 16 ELSE 0
           f == IF o.notified THEN 32 ELSE 0
           bits == a + b + c + d + e + f
<1>1. 2^0 = 1 /\ 2^1 = 2 /\ 2^2 = 4 /\ 2^3 = 8 /\ 2^4 = 16 /\ 2^5 = 32
  OBVIOUS
<1>2. flags(o) = bits
  BY <1>1 DEF flags, FlagBits, Seen
<1>3. /\ a \in {0, 1} /\ b \in {0, 2} /\ c \in {0, 4} /\ d \in {0, 8}
      /\ e \in {0, 16} /\ f \in {0, 32}
  OBVIOUS
<1>4. /\ a = 1 <=> o.candidate
      /\ b = 2 <=> o.classic
      /\ c = 4 <=> o.connected
      /\ d = 8 <=> o.bonded
      /\ e = 16 <=> o.found
      /\ f = 32 <=> o.notified
  OBVIOUS
<1> HIDE DEF a, b, c, d, e, f
<1>5. /\ bits % 2 = 1 <=> a = 1
      /\ (bits \div 2) % 2 = 1 <=> b = 2
      /\ (bits \div 4) % 2 = 1 <=> c = 4
      /\ (bits \div 8) % 2 = 1 <=> d = 8
      /\ (bits \div 16) % 2 = 1 <=> e = 16
      /\ (bits \div 32) % 2 = 1 <=> f = 32
  BY <1>3, BitsAreRead
<1>6. bits \div 1 = bits
  BY <1>3
<1> DEFINE seen == observed(flags(o), o.attributes, o.subscribed, o.required)
<1> HIDE DEF bits
<1>7. /\ seen.candidate = ((bits \div 1) % 2 = 1)
      /\ seen.classic = ((bits \div 2) % 2 = 1)
      /\ seen.connected = ((bits \div 4) % 2 = 1)
      /\ seen.bonded = ((bits \div 8) % 2 = 1)
      /\ seen.found = ((bits \div 16) % 2 = 1)
      /\ seen.notified = ((bits \div 32) % 2 = 1)
  BY <1>1, <1>2 DEF observed, GoProLinkFlags
<1>8. /\ seen.attributes = o.attributes /\ seen.subscribed = o.subscribed
      /\ seen.required = IF o.required = 0 THEN 1 ELSE o.required
  BY DEF observed
<1>9. /\ o.candidate \in BOOLEAN /\ o.classic \in BOOLEAN /\ o.connected \in BOOLEAN
      /\ o.bonded \in BOOLEAN /\ o.found \in BOOLEAN /\ o.notified \in BOOLEAN
  BY DEF Seen
<1> QED
  BY <1>4, <1>5, <1>6, <1>7, <1>8, <1>9

\* The members of the other two enumerations, spelt out.
LEMMA Actions ==
  Members(LinkAction) = {"kNone", "kScan", "kDisconnectClassic", "kConnect",
                         "kWaitForServices", "kPair", "kSubscribe"}
  BY DEF Members, LinkAction

LEMMA Reasons ==
  Members(StallReason) = {"kNone", "kNoAdvertisement", "kClassicBlocking", "kConnectFailed",
                          "kServicesNeverAppeared", "kWrongDevice", "kNotEncrypted",
                          "kSubscribeFailed"}
  BY DEF Members, StallReason

\* Dart's member for a native one.
DartState ==
  [kAbsent |-> "absent", kAdvertising |-> "advertising", kConnected |-> "connected",
   kServicesResolved |-> "servicesResolved", kEncrypted |-> "encrypted", kReady |-> "ready"]
DartAction ==
  [kNone |-> "none", kScan |-> "scan", kDisconnectClassic |-> "disconnectClassic",
   kConnect |-> "connect", kWaitForServices |-> "waitForServices", kPair |-> "pair",
   kSubscribe |-> "subscribe"]
DartReason ==
  [kNone |-> "none", kNoAdvertisement |-> "noAdvertisement",
   kClassicBlocking |-> "classicBlocking", kConnectFailed |-> "connectFailed",
   kServicesNeverAppeared |-> "servicesNeverAppeared", kWrongDevice |-> "wrongDevice",
   kNotEncrypted |-> "notEncrypted", kSubscribeFailed |-> "subscribeFailed"]

LEMMA StatePositions ==
  ASSUME NEW s \in Members(LinkState)
  PROVE  /\ Position(LinkState, s) \in 0..5
         /\ LinkStateDart[Position(LinkState, s) + 1] = DartState[s]
<1>1. Len(LinkState) = 6
  BY DEF LinkState
<1>2. PICK i \in 0..5 : LinkState[i + 1] = s
  BY DEF Members, LinkState
<1>3. \A j \in 0..5 : LinkState[j + 1] = LinkState[i + 1] => j = i
  BY DEF LinkState
<1>4. Position(LinkState, s) = i
  BY <1>1, <1>2, <1>3 DEF Position
<1>5. LinkStateDart[i + 1] = DartState[LinkState[i + 1]]
  BY DEF LinkState, LinkStateDart, DartState
<1> QED
  BY <1>2, <1>4, <1>5

LEMMA ActionPositions ==
  ASSUME NEW s \in Members(LinkAction)
  PROVE  /\ Position(LinkAction, s) \in 0..6
         /\ LinkActionDart[Position(LinkAction, s) + 1] = DartAction[s]
<1>1. Len(LinkAction) = 7
  BY DEF LinkAction
<1>2. PICK i \in 0..6 : LinkAction[i + 1] = s
  BY DEF Members, LinkAction
<1>3. \A j \in 0..6 : LinkAction[j + 1] = LinkAction[i + 1] => j = i
  BY DEF LinkAction
<1>4. Position(LinkAction, s) = i
  BY <1>1, <1>2, <1>3 DEF Position
<1>5. LinkActionDart[i + 1] = DartAction[LinkAction[i + 1]]
  BY DEF LinkAction, LinkActionDart, DartAction
<1> QED
  BY <1>2, <1>4, <1>5

LEMMA ReasonPositions ==
  ASSUME NEW s \in Members(StallReason)
  PROVE  /\ Position(StallReason, s) \in 0..7
         /\ StallReasonDart[Position(StallReason, s) + 1] = DartReason[s]
<1>1. Len(StallReason) = 8
  BY DEF StallReason
<1>2. PICK i \in 0..7 : StallReason[i + 1] = s
  BY DEF Members, StallReason
<1>3. \A j \in 0..7 : StallReason[j + 1] = StallReason[i + 1] => j = i
  BY DEF StallReason
<1>4. Position(StallReason, s) = i
  BY <1>1, <1>2, <1>3 DEF Position
<1>5. StallReasonDart[i + 1] = DartReason[StallReason[i + 1]]
  BY DEF StallReason, StallReasonDart, DartReason
<1> QED
  BY <1>2, <1>4, <1>5

\* LinkAdvice.unpack() makes of the packed advice what the machine advised.
LEMMA AdviceRoundTrip ==
  ASSUME NEW a, NEW w,
         a.state \in Members(LinkState), a.action \in Members(LinkAction),
         a.stall \in Members(StallReason)
  PROVE  unpack(pack(a), w) = [state |-> DartState[a.state], action |-> DartAction[a.action],
                               stall |-> DartReason[a.stall], retry_at |-> w]
<1> DEFINE s == Position(LinkState, a.state)
           t == Position(LinkAction, a.action)
           r == Position(StallReason, a.stall)
           packed == s * 65536 + t * 256 + r
<1>1. 2^16 = 65536 /\ 2^8 = 256
  OBVIOUS
<1>2. s \in 0..5 /\ LinkStateDart[s + 1] = DartState[a.state]
  BY StatePositions
<1>3. t \in 0..6 /\ LinkActionDart[t + 1] = DartAction[a.action]
  BY ActionPositions
<1>4. r \in 0..7 /\ StallReasonDart[r + 1] = DartReason[a.stall]
  BY ReasonPositions
<1>5. pack(a) = packed
  BY <1>1 DEF pack
<1> HIDE DEF s, t, r
<1>6. /\ (packed \div 65536) % 256 = s
      /\ (packed \div 256) % 256 = t
      /\ packed % 256 = r
  <2>1. s \in 0..255 /\ t \in 0..255 /\ r \in 0..255
    BY <1>2, <1>3, <1>4
  <2>2. packed \div 65536 = s
    BY <2>1
  <2>3. packed \div 256 = s * 256 + t
    BY <2>1
  <2>4. packed % 256 = r
    BY <2>1
  <2>5. s % 256 = s /\ (s * 256 + t) % 256 = t
    BY <2>1
  <2> HIDE DEF packed
  <2> QED
    BY <2>2, <2>3, <2>4, <2>5
<1> HIDE DEF packed
<1>7. Len(LinkStateDart) = 6 /\ Len(LinkActionDart) = 7 /\ Len(StallReasonDart) = 8
  BY DEF LinkStateDart, LinkActionDart, StallReasonDart
<1>8. unpack(packed, w) = [state |-> LinkStateDart[s + 1], action |-> LinkActionDart[t + 1],
                           stall |-> StallReasonDart[r + 1], retry_at |-> w]
  BY <1>1, <1>2, <1>3, <1>4, <1>6, <1>7 DEF unpack
<1> QED
  BY <1>2, <1>3, <1>4, <1>5, <1>8

-----------------------------------------------------------------------------
(* The inductive invariant. *)

BringTypes ==
  /\ pc \in {"observe", "act", "subscribe", "ready", "failed"}
  /\ clock \in Nat /\ entered \in Nat /\ drops \in Nat
  /\ machine \in Machines
  /\ advice.retry_at \in Nat
  /\ IsFiniteSet(subscribed) /\ subscribed \subseteq Channels
  /\ exposed \subseteq Channels
  /\ candidate \in BOOLEAN /\ classic \in BOOLEAN /\ connected \in BOOLEAN
  /\ paired \in BOOLEAN

\* A machine that is ready has no failure left to it, and only a climb that
\* ended ready, or one that has yet to look, has such a machine.
Stage ==
  /\ pc = "ready" => machine.state = "kReady"
  /\ machine.state = "kReady" =>
       /\ machine.attempts = 0 /\ machine.last_failure = 0
       /\ pc = "ready" \/ (pc \in {"observe", "failed"} /\ advice = NoAdvice)

\* The stage's clock is the machine's, from the climb's first look on; before
\* it, either the machine will leave its stage or the clock is at the start.
Clocks ==
  /\ machine.last_failure <= clock
  /\ advice = NoAdvice => pc \in {"observe", "failed"}
  /\ advice # NoAdvice => machine.since = entered /\ entered <= clock
  /\ pc = "observe" /\ advice = NoAdvice =>
       /\ clock = 0 /\ subscribed = {}
       /\ machine.state = "kReady" \/ machine.since = 0

\* The calls _subscribe() has yet to make, at most.
Remaining == IF only THEN 2 ELSE 2 * Cardinality(Channels \ subscribed)

\* Where the clock can be on the way round the loop.  The rest of the channels
\* are subscribed only once one of them has been.
Deadlines ==
  /\ pc = "act" => /\ clock < Timeout /\ advice.retry_at <= clock + backoff_max
                   /\ advice.action = "subscribe" => subscribed # {}
  /\ pc = "subscribe" => clock + Remaining < Timeout + backoff_max + MostCalls
  /\ DeadlineKept

\* The camera hears what was subscribed while the link held.
Heard == drops = 0 /\ ~stopFails => subscribed \subseteq listening

Counted == pc = "ready" => Cardinality(subscribed) >= Cardinality(Required)

BringInv == BringTypes /\ Stage /\ Clocks /\ Deadlines /\ Heard /\ Counted /\ StallIsEarned

-----------------------------------------------------------------------------
(* What one look at BlueZ comes to. *)

\* The channels are finitely many: Order lists them.
LEMMA ChannelsFinite ==
  /\ IsFiniteSet(Channels)
  /\ \A S \in SUBSET Channels : IsFiniteSet(S) /\ Cardinality(S) \in Nat
  /\ IsFiniteSet(Required) /\ Cardinality(Required) \in Nat
<1>1. /\ Order \in [1 .. Len(Order) -> Channels] /\ Len(Order) \in Nat
      /\ \A c \in Channels : \E i \in 1 .. Len(Order) : Order[i] = c
  BY BringUpAssumption DEF Range
<1>2. Order \in Surjection(1 .. Len(Order), Channels)
  BY <1>1 DEF Surjection
<1>3. IsFiniteSet(1 .. Len(Order))
  BY <1>1, FS_Interval
<1>4. IsFiniteSet(Channels)
  BY <1>2, <1>3, FS_Surjection
<1>5. \A S \in SUBSET Channels : IsFiniteSet(S)
  BY <1>4, FS_Subset
<1>6. \A S \in SUBSET Channels : Cardinality(S) \in Nat
  BY <1>5, FS_CardinalityType
<1>7. Required \in SUBSET Channels
  BY DEF Channels
<1> QED
  BY <1>4, <1>5, <1>6, <1>7

LEMMA ObservationTyped ==
  ASSUME BringTypes
  PROVE  Observation \in Seen
<1>1. Cardinality(subscribed) \in Nat
  BY FS_CardinalityType DEF BringTypes
<1>2. Cardinality(exposed) \in Nat /\ Cardinality(Required) \in Nat
  BY ChannelsFinite DEF BringTypes
<1> QED
  BY <1>1, <1>2 DEF Observation, Seen, BringTypes, complete

\* The stage that an observation puts the machine in, in terms of BlueZ's
\* objects and the climb's own sets.
Shows(s) ==
  CASE s = "kAbsent"           -> ~candidate
    [] s = "kAdvertising"      -> candidate /\ ~connected
    [] s = "kConnected"        -> connected /\ (exposed = {} \/ ~complete(rescanned))
    [] s = "kServicesResolved" -> connected /\ complete(rescanned) /\ subscribed = {}
    [] s = "kEncrypted"        -> connected /\ subscribed # {}
                                    /\ Cardinality(subscribed) < Cardinality(Required)
    [] s = "kReady"            -> connected /\ complete(rescanned) /\ subscribed # {}
                                    /\ Cardinality(subscribed) >= Cardinality(Required)

LEMMA StageShown ==
  ASSUME BringTypes, NEW seen,
         seen = observed(flags(Observation), Observation.attributes, Observation.subscribed,
                         Observation.required)
  PROVE  classify(seen) \in Members(LinkState) /\ Shows(classify(seen)) /\ seen.classic = classic
<1> DEFINE o == Observation
<1>1. o \in Seen
  BY ObservationTyped
<1>2. /\ o.candidate = candidate /\ o.classic = classic
      /\ o.connected = (candidate /\ connected)
      /\ o.attributes = IF candidate THEN Cardinality(exposed) ELSE 0
      /\ o.found = complete(rescanned) /\ o.notified = (subscribed # {})
      /\ o.subscribed = Cardinality(subscribed) /\ o.required = Cardinality(Required)
  BY DEF Observation
<1> HIDE DEF o
<1>3. /\ seen.candidate = o.candidate /\ seen.classic = o.classic
      /\ seen.connected = o.connected
      /\ seen.found = o.found /\ seen.notified = o.notified
      /\ seen.attributes = o.attributes /\ seen.subscribed = o.subscribed
      /\ seen.required = IF o.required = 0 THEN 1 ELSE o.required
  BY <1>1, FlagsRoundTrip DEF o
<1>4. Cardinality(subscribed) \in Nat /\ (Cardinality(subscribed) = 0 <=> subscribed = {})
  BY FS_CardinalityType, FS_EmptySet DEF BringTypes
<1>5. /\ Cardinality(exposed) \in Nat /\ Cardinality(Required) \in Nat
      /\ Cardinality(exposed) = 0 <=> exposed = {}
  BY ChannelsFinite, FS_EmptySet DEF BringTypes
<1>6. candidate \in BOOLEAN /\ connected \in BOOLEAN /\ complete(rescanned) \in BOOLEAN
  BY DEF BringTypes, complete
<1>7. CASE ~candidate
  <2>1. classify(seen) = "kAbsent"
    BY <1>2, <1>3, <1>6, <1>7 DEF classify
  <2> QED
    BY <2>1, <1>7, <1>2, <1>3, States DEF Shows
<1>8. CASE candidate /\ ~connected
  <2>1. classify(seen) = "kAdvertising"
    BY <1>2, <1>3, <1>6, <1>8 DEF classify
  <2> QED
    BY <2>1, <1>8, <1>2, <1>3, States DEF Shows
<1>9. CASE candidate /\ connected /\ (exposed = {} \/ ~complete(rescanned))
  <2>1. classify(seen) = "kConnected"
    BY <1>2, <1>3, <1>5, <1>6, <1>9 DEF classify
  <2> QED
    BY <2>1, <1>9, <1>2, <1>3, States DEF Shows
<1>10. CASE candidate /\ connected /\ exposed # {} /\ complete(rescanned)
  <2>1. seen.connected /\ seen.attributes # 0 /\ seen.found
    BY <1>2, <1>3, <1>5, <1>10
  <2>2. CASE subscribed = {}
    <3>1. classify(seen) = "kServicesResolved"
      BY <2>1, <2>2, <1>2, <1>3 DEF classify
    <3> QED
      BY <3>1, <2>2, <1>10, <1>2, <1>3, States DEF Shows
  <2>3. CASE subscribed # {} /\ Cardinality(subscribed) < Cardinality(Required)
    <3>3. seen.notified
      BY <2>3, <1>2, <1>3
    <3>4. seen.subscribed < seen.required
      BY <2>3, <1>2, <1>3, <1>4, <1>5
    <3>1. classify(seen) = "kEncrypted"
      BY <2>1, <3>3, <3>4 DEF classify
    <3> QED
      BY <3>1, <2>3, <1>10, <1>2, <1>3, States DEF Shows
  <2>4. CASE subscribed # {} /\ ~(Cardinality(subscribed) < Cardinality(Required))
    <3>3. seen.notified
      BY <2>4, <1>2, <1>3
    <3>4. ~(seen.subscribed < seen.required)
      BY <2>4, <1>2, <1>3, <1>4, <1>5
    <3>1. classify(seen) = "kReady"
      BY <2>1, <3>3, <3>4 DEF classify
    <3>2. Cardinality(subscribed) >= Cardinality(Required)
      BY <2>4, <1>4, <1>5
    <3> QED
      BY <3>1, <3>2, <2>4, <1>10, <1>2, <1>3, States DEF Shows
  <2> QED
    BY <2>2, <2>3, <2>4
<1> QED
  BY <1>6, <1>7, <1>8, <1>9, <1>10

\* A stall other than a Classic link is found only when the budget is spent.
LEMMA StallIsOver ==
  ASSUME NEW m \in Machines, NEW seen, NEW now
  PROVE  /\ stall(m, seen, now) \in Members(StallReason)
         /\ DartReason[stall(m, seen, now)] \notin {"none", "classicBlocking"}
            => (now - m.since) % Wrap >= Budget(m.state)
<1> DEFINE over == (now - m.since) % Wrap >= Budget(m.state)
<1>1. m.state \in Members(LinkState)
  BY DEF Machines
<1>2. CASE over
  BY <1>2, Reasons DEF stall
<1>3. CASE ~over
  <2>1. stall(m, seen, now) \in {"kNone", "kClassicBlocking"}
    BY <1>3 DEF stall
  <2> QED
    BY <2>1, Reasons DEF DartReason
<1> QED
  BY <1>2, <1>3

LEMMA ActionOf ==
  ASSUME NEW m \in Machines, NEW seen
  PROVE  /\ action(m, seen) \in Members(LinkAction)
         /\ m.state = "kAbsent" =>
              DartAction[action(m, seen)] = IF seen.classic THEN "disconnectClassic" ELSE "scan"
         /\ m.state = "kAdvertising" => DartAction[action(m, seen)] = "connect"
         /\ m.state = "kConnected" => DartAction[action(m, seen)] = "waitForServices"
         /\ m.state = "kServicesResolved" => DartAction[action(m, seen)] = "pair"
         /\ m.state = "kEncrypted" => DartAction[action(m, seen)] = "subscribe"
         /\ m.state = "kReady" => DartAction[action(m, seen)] = "none"
<1>1. m.state \in {"kAbsent", "kAdvertising", "kConnected", "kServicesResolved",
                   "kEncrypted", "kReady"}
  BY States DEF Machines
<1> QED
  BY <1>1, Actions DEF action, DartAction

\* One turn of the loop: the machine is in the stage that BlueZ shows, newly or
\* still, and the climb acts on the machine's advice.
LEMMA ObserveFacts ==
  ASSUME BringTypes, Observe
  PROVE  /\ machine' \in Machines /\ Shows(machine'.state)
         /\ IF machine'.state = machine.state THEN machine' = machine
            ELSE machine'.since = clock /\ machine'.last_failure = 0 /\ machine'.attempts = 0
         /\ advice' # NoAdvice
         /\ advice'.retry_at = retry_at(machine')
         /\ advice'.stall \notin {"none", "classicBlocking"}
            => (clock - machine'.since) % Wrap >= Budget(machine'.state)
         /\ pc' = IF machine'.state = "kReady" THEN "ready" ELSE "act"
         /\ entered' = IF machine'.state # machine.state \/ advice = NoAdvice
                       THEN clock ELSE entered
         /\ \E seen : /\ seen.classic = classic
                      /\ advice'.action = DartAction[action(machine', seen)]
<1> DEFINE o     == Observation
           seen  == observed(flags(o), o.attributes, o.subscribed, o.required)
           m     == enter(machine, seen, clock)
           a     == advise(m, seen, clock)
           known == unpack(pack(a), a.retry_at)
<1>1. /\ machine' = m /\ advice' = known
      /\ pc' = CASE known = NoAdvice       -> "failed"
                 [] known.state = "ready" -> "ready"
                 [] OTHER                 -> "act"
      /\ entered' = IF m.state # machine.state \/ advice = NoAdvice THEN clock ELSE entered
  BY DEF Observe
<1>2. classify(seen) \in Members(LinkState) /\ Shows(classify(seen)) /\ seen.classic = classic
  BY StageShown
<1> HIDE DEF o, seen
<1>3. machine \in Machines /\ clock \in Nat
  BY DEF BringTypes
<1>4. /\ m \in Machines /\ m.state = classify(seen)
      /\ IF m.state = machine.state THEN m = machine
         ELSE m.since = clock /\ m.last_failure = 0 /\ m.attempts = 0
  BY <1>2, <1>3 DEF enter, Machines
<1> HIDE DEF m
<1>5. /\ a.state = m.state /\ a.action = action(m, seen)
      /\ a.stall = stall(m, seen, clock) /\ a.retry_at = retry_at(m)
  BY DEF advise
<1>6. /\ a.state \in Members(LinkState) /\ a.action \in Members(LinkAction)
      /\ a.stall \in Members(StallReason)
  BY <1>4, <1>5, StallIsOver, ActionOf DEF Machines
<1> HIDE DEF a
<1>7. known = [state |-> DartState[a.state], action |-> DartAction[a.action],
               stall |-> DartReason[a.stall], retry_at |-> a.retry_at]
  BY <1>6, AdviceRoundTrip
<1> HIDE DEF known
<1>8. /\ known.state = DartState[m.state] /\ known.action = DartAction[action(m, seen)]
      /\ known.stall = DartReason[stall(m, seen, clock)] /\ known.retry_at = retry_at(m)
  BY <1>5, <1>7
<1>9. known.state # "none" /\ (known.state = "ready" <=> m.state = "kReady")
  BY <1>8, <1>4, States DEF DartState, Machines
<1>10. known # NoAdvice
  BY <1>9 DEF NoAdvice
<1>11. pc' = IF m.state = "kReady" THEN "ready" ELSE "act"
  BY <1>1, <1>9, <1>10
<1>12. known.stall \notin {"none", "classicBlocking"}
       => (clock - m.since) % Wrap >= Budget(m.state)
  BY <1>4, <1>8, StallIsOver
<1>13. /\ seen.classic = classic
       /\ advice'.action = DartAction[action(machine', seen)]
  BY <1>1, <1>2, <1>8
<1>14. \E sn : /\ sn.classic = classic
               /\ advice'.action = DartAction[action(machine', sn)]
  BY <1>13
<1>15. machine' \in Machines /\ Shows(m.state)
  BY <1>1, <1>2, <1>4
<1>16. m = machine'
  BY <1>1
<1>17. Shows(machine'.state)
  BY <1>15, <1>16
<1>18. IF machine'.state = machine.state THEN machine' = machine
       ELSE machine'.since = clock /\ machine'.last_failure = 0 /\ machine'.attempts = 0
  BY <1>4, <1>16
<1>19. advice' # NoAdvice /\ advice'.retry_at = retry_at(machine')
  BY <1>1, <1>8, <1>10, <1>16
<1>20. advice'.stall \notin {"none", "classicBlocking"}
       => (clock - machine'.since) % Wrap >= Budget(machine'.state)
  BY <1>1, <1>12, <1>16
<1>21. /\ pc' = IF machine'.state = "kReady" THEN "ready" ELSE "act"
       /\ entered' = IF machine'.state # machine.state \/ advice = NoAdvice
                     THEN clock ELSE entered
  BY <1>1, <1>11, <1>16
<1> QED
  BY <1>14, <1>15, <1>17, <1>18, <1>19, <1>20, <1>21

\* The action is to subscribe only once a StartNotify has succeeded.
LEMMA SubscribeAdvised ==
  ASSUME NEW m \in Machines, NEW seen, Shows(m.state),
         DartAction[action(m, seen)] = "subscribe"
  PROVE  subscribed # {}
<1>1. m.state \in {"kAbsent", "kAdvertising", "kConnected", "kServicesResolved",
                   "kEncrypted", "kReady"}
  BY States DEF Machines
<1>2. m.state = "kEncrypted"
  BY <1>1, ActionOf
<1> QED
  BY <1>2 DEF Shows

\* The bound is a number, no less than what each action needs.
LEMMA MostCallsBounds ==
  /\ MostCalls \in Nat /\ 3 <= MostCalls
  /\ \A S \in SUBSET Channels : S # {} => 2 * Cardinality(Channels \ S) <= MostCalls
<1>1. IsFiniteSet(Channels) /\ Cardinality(Channels) \in Nat
  BY ChannelsFinite
<1>2. /\ MostCalls \in Nat /\ 3 <= MostCalls
      /\ 2 * (Cardinality(Channels) - 1) <= MostCalls
  BY <1>1 DEF MostCalls
<1>3. ASSUME NEW S \in SUBSET Channels, S # {}
      PROVE  2 * Cardinality(Channels \ S) <= MostCalls
  <2>1. Channels \ S \subseteq Channels /\ Channels \ S # Channels
    BY <1>3
  <2>2. Cardinality(Channels \ S) <= Cardinality(Channels)
    BY <1>1, <2>1, FS_Subset
  <2>3. Cardinality(Channels \ S) # Cardinality(Channels)
    BY <1>1, <2>1, FS_Subset
  <2>4. Cardinality(Channels \ S) \in Nat
    BY <2>1, ChannelsFinite
  <2> QED
    BY <1>1, <1>2, <2>2, <2>3, <2>4
<1> QED
  BY <1>2, <1>3

LEMMA WithinDifference ==
  ASSUME NEW x \in Nat, NEW w \in Nat \ {0}, NEW b \in Nat, x % w >= b
  PROVE  x >= b
  OBVIOUS

-----------------------------------------------------------------------------
(* Every step preserves the invariant. *)

LEMMA ObserveStep ==
  ASSUME BringInv, Observe
  PROVE  BringInv'
<1>1. BringTypes /\ Stage /\ Clocks /\ Deadlines /\ Heard
  BY DEF BringInv
<1>2. /\ machine' \in Machines /\ Shows(machine'.state)
      /\ IF machine'.state = machine.state THEN machine' = machine
         ELSE machine'.since = clock /\ machine'.last_failure = 0 /\ machine'.attempts = 0
      /\ advice' # NoAdvice
      /\ advice'.retry_at = retry_at(machine')
      /\ advice'.stall \notin {"none", "classicBlocking"}
         => (clock - machine'.since) % Wrap >= Budget(machine'.state)
      /\ pc' = IF machine'.state = "kReady" THEN "ready" ELSE "act"
      /\ entered' = IF machine'.state # machine.state \/ advice = NoAdvice THEN clock ELSE entered
  BY <1>1, ObserveFacts
<1>3. /\ clock' = clock /\ subscribed' = subscribed /\ drops' = drops /\ exposed' = exposed
      /\ candidate' = candidate /\ classic' = classic /\ connected' = connected
      /\ paired' = paired /\ stopFails' = stopFails /\ listening' = listening
      /\ pc = "observe" /\ clock < Timeout
  BY DEF Observe, busVars
<1>4. clock \in Nat /\ entered \in Nat /\ machine \in Machines
  BY <1>1 DEF BringTypes
<1>5. backoff_max \in Nat /\ backoff(machine') \in 0..backoff_max
  BY <1>2, Configured, BackoffCapped
<1>6. machine'.state = "kReady" => machine.state # "kReady" \/ subscribed # {}
  BY <1>2 DEF Shows
<1>7. machine'.state = "kReady" => machine'.state # machine.state
  BY <1>1, <1>2, <1>3, <1>6 DEF Stage, Clocks, Shows
<1>8. machine'.since = entered' /\ entered' \in Nat /\ entered' <= clock
  <2>1. CASE machine'.state # machine.state
    BY <2>1, <1>2, <1>4
  <2>2. CASE machine'.state = machine.state /\ advice # NoAdvice
    BY <2>2, <1>1, <1>2, <1>4 DEF Clocks
  <2>3. CASE machine'.state = machine.state /\ advice = NoAdvice
    <3>1. clock = 0 /\ machine.since = 0
      BY <2>3, <1>1, <1>3, <1>7 DEF Clocks
    <3> QED
      BY <2>3, <3>1, <1>2
  <2> QED
    BY <2>1, <2>2, <2>3
<1>9. machine'.last_failure \in Nat /\ machine'.last_failure <= clock
  BY <1>1, <1>2, <1>4 DEF Clocks, Machines
<1>10. advice'.retry_at \in Nat /\ advice'.retry_at <= clock + backoff_max
  BY <1>2, <1>4, <1>5, <1>9 DEF retry_at
<1>11. BringTypes'
  BY <1>1, <1>2, <1>3, <1>8, <1>10 DEF BringTypes
<1>12. Stage'
  BY <1>2, <1>7 DEF Stage
<1>13. Clocks'
  BY <1>2, <1>3, <1>8, <1>9 DEF Clocks
<1>14. Deadlines'
  <2>1. advice'.action = "subscribe" => subscribed' # {}
    BY <1>1, <1>2, <1>3, ObserveFacts, SubscribeAdvised
  <2>2. clock' < Timeout + backoff_max + MostCalls
    BY <1>3, <1>4, <1>5, MostCallsBounds, BringUpAssumption
  <2> QED
    BY <1>2, <1>3, <1>10, <2>1, <2>2 DEF Deadlines, DeadlineKept
<1>15. Heard'
  BY <1>1, <1>3 DEF Heard
<1>16. Counted'
  <2>1. pc' = "ready" => Cardinality(subscribed) >= Cardinality(Required)
    BY <1>2 DEF Shows
  <2> QED
    BY <2>1, <1>3 DEF Counted
<1>17. StallIsEarned'
  <2>1. ASSUME advice'.stall \notin {"none", "classicBlocking"}
        PROVE  clock' - entered' >= Budget(machine'.state)
    <3>1. (clock - entered') % Wrap >= Budget(machine'.state)
      BY <2>1, <1>2, <1>8
    <3>2. Budget(machine'.state) \in Nat /\ Wrap \in Nat \ {0} /\ clock - entered' \in Nat
      BY <1>2, <1>4, <1>8, Configured, LinkConfigAssumption DEF Machines
    <3>3. clock - entered' >= Budget(machine'.state)
      BY <3>1, <3>2, WithinDifference
    <3> QED
      BY <3>3, <1>3
  <2> QED
    BY <2>1 DEF StallIsEarned
<1> QED
  BY <1>11, <1>12, <1>13, <1>14, <1>15, <1>16, <1>17 DEF BringInv

\* Acting begins once the backoff, which is capped, is over.
LEMMA ActTime ==
  ASSUME BringInv, pc = "act"
  PROVE  Waited \in Nat /\ clock <= Waited /\ Waited < Timeout + backoff_max
<1>1. clock \in Nat /\ advice.retry_at \in Nat
  BY DEF BringInv, BringTypes
<1>2. clock < Timeout /\ advice.retry_at <= clock + backoff_max
  BY DEF BringInv, Deadlines
<1>3. Timeout \in Nat /\ backoff_max \in Nat
  BY BringUpAssumption, Configured
<1> QED
  BY <1>1, <1>2, <1>3 DEF Waited

\* What a step of _act() or _subscribe() may do to the climb.
LEMMA ActingStep ==
  ASSUME BringInv, pc \in {"act", "subscribe"},
         pc' \in {"observe", "failed", "subscribe"},
         clock' \in Nat, clock <= clock', clock' < Timeout + backoff_max + MostCalls,
         pc' = "subscribe" => clock' + Remaining' < Timeout + backoff_max + MostCalls,
         machine' = machine \/ machine' = note_attempt_failed(machine, clock'),
         advice' = advice, entered' = entered, drops' = drops,
         IsFiniteSet(subscribed'), subscribed' \subseteq Channels, exposed' = exposed, Heard',
         candidate' \in BOOLEAN, classic' \in BOOLEAN, connected' \in BOOLEAN,
         paired' \in BOOLEAN
  PROVE  BringInv'
<1>1. BringTypes /\ Stage /\ Clocks /\ Deadlines
  BY DEF BringInv
<1>2. machine.state # "kReady" /\ advice # NoAdvice
  BY <1>1 DEF Stage, Clocks
<1>3. /\ machine' \in Machines /\ machine'.state = machine.state
      /\ machine'.since = machine.since
      /\ machine'.last_failure \in {machine.last_failure, clock'}
  <2>1. machine \in Machines
    BY <1>1 DEF BringTypes
  <2>2. CASE machine' = machine
    BY <2>1, <2>2
  <2>3. CASE machine' = note_attempt_failed(machine, clock')
    <3>1. /\ machine.state \in Members(LinkState) /\ machine.since \in Nat
          /\ machine.attempts \in Nat
      BY <2>1 DEF Machines
    <3>2. machine' = [state |-> machine.state, since |-> machine.since,
                      last_failure |-> clock', attempts |-> machine.attempts + 1]
      BY <2>1, <2>3 DEF Machines, note_attempt_failed
    <3> QED
      BY <3>1, <3>2 DEF Machines
  <2> QED
    BY <2>2, <2>3
<1>4. BringTypes'
  BY <1>1, <1>3 DEF BringTypes
<1>5. Stage'
  BY <1>2, <1>3 DEF Stage
<1>6. Clocks'
  <2>1. machine'.last_failure <= clock'
    BY <1>1, <1>3 DEF BringTypes, Machines, Clocks
  <2>2. machine.since = entered /\ entered <= clock' /\ entered \in Nat
    BY <1>1, <1>2 DEF BringTypes, Clocks
  <2> QED
    BY <2>1, <2>2, <1>2, <1>3 DEF Clocks
<1>7. Deadlines'
  BY DEF Deadlines, DeadlineKept
<1>8. Counted' /\ StallIsEarned'
  BY DEF Counted, StallIsEarned
<1> QED
  BY <1>4, <1>5, <1>6, <1>7, <1>8 DEF BringInv

\* Time after some of the calls, and what is left of the bound.
LEMMA CallsLeft ==
  ASSUME NEW now \in Nat, NEW later \in Nat, NEW left \in Nat, NEW still \in Nat,
         NEW bound \in Nat, now + left < bound, later + still <= now + left
  PROVE  later < bound /\ later + still < bound
  OBVIOUS

LEMMA ActStep ==
  ASSUME BringInv, Scan \/ DisconnectClassic \/ Connect \/ WaitForServices \/ Pair \/ Subscribe
  PROVE  BringInv'
<1>1. pc = "act"
  BY DEF Scan, DisconnectClassic, Connect, WaitForServices, Pair, Subscribe, Acts
<1>2. Waited \in Nat /\ clock <= Waited /\ Waited < Timeout + backoff_max
  BY <1>1, ActTime
<1>3. clock \in Nat /\ Timeout \in Nat /\ backoff_max \in Nat
  BY BringUpAssumption, Configured DEF BringInv, BringTypes
<1>4. /\ advice' = advice /\ entered' = entered /\ drops' = drops /\ exposed' = exposed
      /\ subscribed' = subscribed /\ listening' = listening /\ stopFails' = stopFails
  BY DEF Scan, DisconnectClassic, Connect, WaitForServices, Pair, Subscribe, actUnchanged, busVars
<1>5. /\ candidate \in BOOLEAN /\ classic \in BOOLEAN /\ connected \in BOOLEAN
      /\ paired \in BOOLEAN
  BY DEF BringInv, BringTypes
<1>6. /\ candidate' \in BOOLEAN /\ classic' \in BOOLEAN /\ connected' \in BOOLEAN
      /\ paired' \in BOOLEAN
  <2>1. CASE Scan
    BY <2>1, <1>5 DEF Scan
  <2>2. CASE DisconnectClassic
    BY <2>2, <1>5 DEF DisconnectClassic
  <2>3. CASE Connect
    BY <2>3, <1>5 DEF Connect
  <2>4. CASE WaitForServices
    BY <2>4, <1>5 DEF WaitForServices
  <2>5. CASE Pair
    BY <2>5, <1>5 DEF Pair
  <2>6. CASE Subscribe
    BY <2>6, <1>5 DEF Subscribe, busVars
  <2> QED
    BY <2>1, <2>2, <2>3, <2>4, <2>5, <2>6
<1>7. /\ pc' \in {"observe", "failed", "subscribe"}
      /\ clock' \in Waited .. Waited + 3
      /\ machine' = machine \/ machine' = note_attempt_failed(machine, clock')
  <2>1. CASE Scan
    BY <2>1, <1>2 DEF Scan, Done, Fail
  <2>2. CASE DisconnectClassic
    BY <2>2, <1>2 DEF DisconnectClassic, Done, Fail
  <2>3. CASE Connect
    BY <2>3, <1>2 DEF Connect, Done, Fail
  <2>4. CASE WaitForServices
    BY <2>4, <1>2 DEF WaitForServices, Done
  <2>5. CASE Pair
    BY <2>5, <1>2 DEF Pair, Fail
  <2>6. CASE Subscribe
    BY <2>6, <1>2 DEF Subscribe
  <2> QED
    BY <2>1, <2>2, <2>3, <2>4, <2>5, <2>6
<1>8. clock' \in Nat /\ clock <= clock' /\ clock' < Timeout + backoff_max + MostCalls
  BY <1>2, <1>3, <1>7, MostCallsBounds
<1>9. IsFiniteSet(subscribed') /\ subscribed' \subseteq Channels /\ Heard'
  BY <1>4 DEF BringInv, BringTypes, Heard
<1>10. pc' = "subscribe" => clock' + Remaining' < Timeout + backoff_max + MostCalls
  <2>1. CASE Pair /\ pc' = "subscribe"
    <3>1. clock' \in Waited .. Waited + 1
      BY <2>1, <1>2 DEF Pair, Fail
    <3>2. only'
      BY <2>1 DEF Pair, Fail
    <3>3. Remaining' = 2
      BY <3>2 DEF Remaining
    <3>4. MostCalls \in Nat /\ 3 <= MostCalls
      BY MostCallsBounds
    <3>5. PICK now \in Waited .. Waited + 1 : clock' = now
      BY <3>1
    <3>6. now + 2 < Timeout + backoff_max + MostCalls
      BY <3>4, <1>2, <1>3
    <3> QED
      BY <3>3, <3>5, <3>6
  <2>2. CASE Subscribe
    <3>1. only' = FALSE /\ clock' = Waited /\ advice.action = "subscribe"
      BY <2>2 DEF Subscribe, Acts
    <3>2. subscribed # {} /\ subscribed \subseteq Channels
      BY <3>1, <1>1 DEF BringInv, BringTypes, Deadlines
    <3>3. Remaining' = 2 * Cardinality(Channels \ subscribed)
      BY <3>1, <1>4 DEF Remaining
    <3>4. 2 * Cardinality(Channels \ subscribed) <= MostCalls
      BY <3>2, MostCallsBounds
    <3>5. Cardinality(Channels \ subscribed) \in Nat
      BY ChannelsFinite
    <3> QED
      BY <3>1, <3>3, <3>4, <3>5, <1>2, <1>3, MostCallsBounds
  <2>3. CASE Scan \/ DisconnectClassic \/ Connect \/ WaitForServices \/ pc' # "subscribe"
    BY <2>3 DEF Scan, DisconnectClassic, Connect, WaitForServices, Done, Fail
  <2> QED
    BY <2>1, <2>2, <2>3
<1> QED
  BY <1>1, <1>4, <1>6, <1>7, <1>8, <1>9, <1>10, ActingStep

\* A channel that is subscribed is one fewer to attempt.
LEMMA OneFewer ==
  ASSUME NEW c \in Channels \ subscribed
  PROVE  /\ Cardinality(Channels \ subscribed) \in Nat \ {0}
         /\ Cardinality(Channels \ (subscribed \cup {c}))
              = Cardinality(Channels \ subscribed) - 1
<1> DEFINE rest == Channels \ subscribed
<1>1. IsFiniteSet(rest) /\ Cardinality(rest) \in Nat /\ c \in rest
  BY ChannelsFinite
<1>2. Channels \ (subscribed \cup {c}) = rest \ {c}
  OBVIOUS
<1>3. Cardinality(rest \ {c}) = Cardinality(rest) - 1
  BY <1>1, FS_RemoveElement
<1>4. Cardinality(rest) # 0
  BY <1>1, FS_EmptySet
<1> QED
  BY <1>1, <1>2, <1>3, <1>4

LEMMA SubscribeStep ==
  ASSUME BringInv, StartNotify \/ StartNotifyFails \/ SubscribeEnds
  PROVE  BringInv'
<1>1. pc = "subscribe"
  BY DEF StartNotify, StartNotifyFails, SubscribeEnds
<1>2. /\ clock \in Nat /\ clock + Remaining < Timeout + backoff_max + MostCalls
      /\ clock < Timeout + backoff_max + MostCalls
  BY <1>1 DEF BringInv, BringTypes, Deadlines, DeadlineKept
<1>3. Timeout \in Nat /\ backoff_max \in Nat /\ MostCalls \in Nat
  BY BringUpAssumption, Configured, MostCallsBounds
<1>4. /\ advice' = advice /\ entered' = entered /\ drops' = drops /\ exposed' = exposed
      /\ candidate' = candidate /\ classic' = classic /\ connected' = connected
      /\ paired' = paired /\ stopFails' = stopFails /\ only' = only
  BY DEF StartNotify, StartNotifyFails, SubscribeEnds, Fail, busVars
<1>5. /\ candidate' \in BOOLEAN /\ classic' \in BOOLEAN /\ connected' \in BOOLEAN
      /\ paired' \in BOOLEAN
  BY <1>4 DEF BringInv, BringTypes
<1>6. IsFiniteSet(subscribed) /\ subscribed \subseteq Channels /\ Heard
  BY DEF BringInv, BringTypes
<1>7. CASE StartNotify
  <2>1. PICK c \in Channels \ subscribed :
          /\ clock' \in clock .. clock + calls(c)
          /\ subscribed' = subscribed \cup {c}
          /\ listening' = IF c \in stop_first(c) THEN listening ELSE listening \cup {c}
    BY <1>7 DEF StartNotify
  <2>2. pc' = (IF only THEN "observe" ELSE "subscribe") /\ machine' = machine
    BY <1>7 DEF StartNotify
  <2>3. IsFiniteSet(subscribed') /\ subscribed' \subseteq Channels
    BY <2>1, <1>6, FS_AddElement
  <2>4. ~stopFails => c \notin stop_first(c)
    BY DEF stop_first
  <2>5. Heard'
    BY <2>1, <2>4, <1>4, <1>6 DEF Heard
  <2>6. calls(c) \in {1, 2}
    BY DEF calls
  <2>7. clock' \in Nat /\ clock <= clock' /\ clock' <= clock + 2
    BY <2>1, <2>6, <1>2
  <2>8. /\ clock' < Timeout + backoff_max + MostCalls
        /\ pc' = "subscribe" => clock' + Remaining' < Timeout + backoff_max + MostCalls
    <3>1. CASE only
      <4>1. Remaining = 2
        BY <3>1 DEF Remaining
      <4> QED
        BY <3>1, <4>1, <2>2, <2>7, <1>2, <1>3
    <3>2. CASE ~only
      <4>1. /\ Remaining = 2 * Cardinality(Channels \ subscribed)
            /\ Remaining' = 2 * Cardinality(Channels \ (subscribed \cup {c}))
        BY <3>2, <1>4, <2>1 DEF Remaining
      <4>2. /\ Cardinality(Channels \ subscribed) \in Nat \ {0}
            /\ Cardinality(Channels \ (subscribed \cup {c}))
                 = Cardinality(Channels \ subscribed) - 1
        BY OneFewer
      <4>3. PICK n \in Nat \ {0} : n = Cardinality(Channels \ subscribed)
        BY <4>2
      <4>4. Remaining = 2 * n /\ Remaining' = 2 * (n - 1)
        BY <4>1, <4>2, <4>3
      <4>5. clock + 2 * n < Timeout + backoff_max + MostCalls
        BY <4>4, <1>2
      <4>6. PICK later \in Nat : later = clock' /\ later <= clock + 2
        BY <2>7
      <4>7. later + 2 * (n - 1) <= clock + 2 * n
        BY <4>3, <4>6, <1>2
      <4>8. /\ later < Timeout + backoff_max + MostCalls
            /\ later + 2 * (n - 1) < Timeout + backoff_max + MostCalls
        <5>1. 2 * n \in Nat /\ 2 * (n - 1) \in Nat /\ Timeout + backoff_max + MostCalls \in Nat
          BY <4>3, <1>3
        <5> QED
          BY <5>1, <4>5, <4>6, <4>7, <1>2, CallsLeft
      <4> QED
        BY <4>4, <4>6, <4>8
    <3> QED
      BY <3>1, <3>2
  <2> QED
    BY <2>2, <2>3, <2>5, <2>7, <2>8, <1>1, <1>4, <1>5, ActingStep
<1>8. CASE StartNotifyFails
  <2>1. PICK c \in Channels \ subscribed :
          \E now \in clock .. clock + calls(c) : Fail(now)
    BY <1>8 DEF StartNotifyFails
  <2>2. PICK now \in clock .. clock + calls(c) : Fail(now)
    BY <2>1
  <2>3. /\ pc' = "observe" /\ clock' = now
        /\ machine' = note_attempt_failed(machine, clock')
    BY <2>2 DEF Fail
  <2>4. subscribed' = subscribed /\ listening' = listening
    BY <1>8 DEF StartNotifyFails
  <2>5. calls(c) \in {1, 2} /\ 2 <= Remaining /\ Remaining \in Nat
    <3>1. Cardinality(Channels \ subscribed) \in Nat \ {0}
      BY OneFewer
    <3> QED
      BY <3>1 DEF calls, Remaining
  <2>6. clock' \in Nat /\ clock <= clock' /\ clock' < Timeout + backoff_max + MostCalls
    BY <2>2, <2>3, <2>5, <1>2, <1>3
  <2>7. Heard' /\ IsFiniteSet(subscribed') /\ subscribed' \subseteq Channels
    BY <2>4, <1>4, <1>6 DEF Heard
  <2> QED
    BY <2>3, <2>6, <2>7, <1>1, <1>4, <1>5, ActingStep
<1>9. CASE SubscribeEnds
  <2>1. /\ pc' = "observe" /\ clock' = clock /\ machine' = machine
        /\ subscribed' = subscribed /\ listening' = listening
    BY <1>9 DEF SubscribeEnds, busVars
  <2>2. clock' \in Nat /\ clock <= clock' /\ clock' < Timeout + backoff_max + MostCalls
    BY <2>1, <1>2, <1>3
  <2>3. Heard' /\ IsFiniteSet(subscribed') /\ subscribed' \subseteq Channels
    BY <2>1, <1>4, <1>6 DEF Heard
  <2> QED
    BY <2>1, <2>2, <2>3, <1>1, <1>4, <1>5, ActingStep
<1> QED
  BY <1>7, <1>8, <1>9

LEMMA ExpireStep ==
  ASSUME BringInv, Expire
  PROVE  BringInv'
<1>1. BringTypes'
  BY DEF BringInv, BringTypes, Expire, busVars
<1>2. Stage' /\ Clocks'
  BY DEF BringInv, Stage, Clocks, Expire, busVars
<1>3. Deadlines'
  BY DEF BringInv, Deadlines, DeadlineKept, Remaining, Expire, busVars
<1>4. Heard' /\ Counted' /\ StallIsEarned'
  BY DEF BringInv, Heard, Counted, StallIsEarned, Expire, busVars
<1> QED
  BY <1>1, <1>2, <1>3, <1>4 DEF BringInv

LEMMA BusStep ==
  ASSUME BringInv, Drop \/ \E c \in Channels : Expose(c)
  PROVE  BringInv'
<1>1. /\ pc' = pc /\ clock' = clock /\ machine' = machine /\ advice' = advice
      /\ entered' = entered /\ subscribed' = subscribed /\ only' = only
      /\ candidate' = candidate /\ classic' = classic /\ paired' = paired
      /\ stopFails' = stopFails
  BY DEF Drop, Expose, climbVars
<1>2. /\ connected' \in BOOLEAN /\ exposed' \subseteq Channels /\ drops' \in Nat
      /\ (listening' = listening /\ drops' = drops) \/ drops' # 0
  <2>1. CASE Drop
    <3>1. /\ connected' = FALSE /\ drops' = drops + 1 /\ exposed' \in {exposed, {}}
          /\ drops \in Nat /\ exposed \subseteq Channels
      BY <2>1 DEF Drop, BringInv, BringTypes
    <3>2. drops' \in Nat /\ drops' # 0
      BY <3>1
    <3>3. exposed' \subseteq Channels
      BY <3>1
    <3> QED
      BY <3>1, <3>2, <3>3
  <2>2. CASE \E c \in Channels : Expose(c)
    BY <2>2 DEF Expose, BringInv, BringTypes
  <2> QED
    BY <2>1, <2>2
<1>3. BringTypes'
  BY <1>1, <1>2 DEF BringInv, BringTypes
<1>4. Stage' /\ Clocks'
  BY <1>1 DEF BringInv, Stage, Clocks
<1>5. Deadlines' /\ Counted' /\ StallIsEarned'
  BY <1>1 DEF BringInv, Deadlines, DeadlineKept, Remaining, Counted, StallIsEarned
<1>6. Heard'
  BY <1>1, <1>2 DEF BringInv, Heard
<1> QED
  BY <1>3, <1>4, <1>5, <1>6 DEF BringInv

\* The next climb begins with the clock at zero and a machine that is ready.
LEMMA NextClimbStep ==
  ASSUME BringInv, NextClimb
  PROVE  BringInv'
<1>1. /\ pc' = "observe" /\ clock' = 0 /\ subscribed' = {} /\ entered' = 0 /\ drops' = 0
      /\ advice' = NoAdvice /\ connected' = FALSE /\ candidate' \in BOOLEAN
      /\ machine' = machine /\ classic' = classic /\ paired' = paired /\ pc = "ready"
      /\ exposed' \in {exposed, {}}
  BY DEF NextClimb
<1>2. machine.state = "kReady" /\ machine.last_failure = 0 /\ machine.attempts = 0
  BY <1>1 DEF BringInv, Stage
<1>3. BringTypes'
  <2>1. IsFiniteSet({})
    BY FS_EmptySet
  <2>2. advice'.retry_at \in Nat
    BY <1>1 DEF NoAdvice
  <2>3. /\ machine \in Machines /\ exposed \subseteq Channels /\ classic \in BOOLEAN
        /\ paired \in BOOLEAN
    BY DEF BringInv, BringTypes
  <2>4. exposed' \subseteq Channels
    BY <1>1, <2>3
  <2>5. IsFiniteSet(subscribed')
    BY <1>1, <2>1
  <2> QED
    BY <1>1, <2>2, <2>3, <2>4, <2>5 DEF BringTypes
<1>4. Stage' /\ Clocks'
  BY <1>1, <1>2 DEF Stage, Clocks
<1>5. Deadlines'
  BY <1>1, BringUpAssumption, Configured, MostCallsBounds DEF Deadlines, DeadlineKept
<1>6. Heard' /\ Counted' /\ StallIsEarned'
  BY <1>1 DEF Heard, Counted, StallIsEarned
<1> QED
  BY <1>3, <1>4, <1>5, <1>6 DEF BringInv

LEMMA BringInit == Init => BringInv
<1> SUFFICES ASSUME Init PROVE BringInv
  OBVIOUS
<1>1. BringTypes
  <2>1. IsFiniteSet({})
    BY FS_EmptySet
  <2>2. machine \in Machines
    BY States DEF Init, NewMachine, Machines
  <2>3. advice.retry_at \in Nat
    BY DEF Init, NoAdvice
  <2>4. IsFiniteSet(subscribed)
    BY <2>1 DEF Init
  <2>5. exposed \subseteq Channels
    BY DEF Init
  <2> QED
    BY <2>2, <2>3, <2>4, <2>5 DEF Init, BringTypes
<1>2. Stage /\ Clocks
  BY DEF Init, Stage, Clocks, NewMachine
<1>3. Deadlines
  BY BringUpAssumption, Configured, MostCallsBounds DEF Init, Deadlines, DeadlineKept
<1>4. Heard /\ Counted /\ StallIsEarned
  BY DEF Init, Heard, Counted, StallIsEarned
<1> QED
  BY <1>1, <1>2, <1>3, <1>4 DEF BringInv

LEMMA BringStep == BringInv /\ [Next]_bringVars => BringInv'
<1> SUFFICES ASSUME BringInv, [Next]_bringVars PROVE BringInv'
  OBVIOUS
<1>1. CASE ClimbStep
  <2>1. CASE Observe
    BY <2>1, ObserveStep
  <2>2. CASE Expire
    BY <2>2, ExpireStep
  <2>3. CASE Scan \/ DisconnectClassic \/ Connect \/ WaitForServices \/ Pair \/ Subscribe
    BY <2>3, ActStep
  <2>4. CASE StartNotify \/ StartNotifyFails \/ SubscribeEnds
    BY <2>4, SubscribeStep
  <2> QED
    BY <1>1, <2>1, <2>2, <2>3, <2>4 DEF ClimbStep
<1>2. CASE Drop \/ \E c \in Channels : Expose(c)
  BY <1>2, BusStep
<1>3. CASE NextClimb
  BY <1>3, NextClimbStep
<1>4. CASE UNCHANGED bringVars
  <2>1. BringTypes'
    BY <1>4 DEF BringInv, BringTypes, bringVars, climbVars, busVars
  <2>2. Stage' /\ Clocks'
    BY <1>4 DEF BringInv, Stage, Clocks, bringVars, climbVars, busVars
  <2>3. Deadlines' /\ Heard' /\ Counted' /\ StallIsEarned'
    BY <1>4 DEF BringInv, Deadlines, DeadlineKept, Remaining, Heard, Counted, StallIsEarned,
       bringVars, climbVars, busVars
  <2> QED
    BY <2>1, <2>2, <2>3 DEF BringInv
<1> QED
  BY <1>1, <1>2, <1>3, <1>4 DEF Next

\* BringInv holds in every climb.
LEMMA BringInvariant == Spec => []BringInv
  BY BringInit, BringStep, PTL DEF Spec

\* A stage is called stalled only when this climb has seen it for its whole
\* budget, although one machine serves climb after climb and its times are
\* unsigned, whatever the width of their wrap.
THEOREM StallIsEarnedInClimb == Spec => []StallIsEarned
<1>1. BringInv => StallIsEarned
  BY DEF BringInv
<1> QED
  BY <1>1, BringInvariant, PTL

\* The deadline of _bringUp() is overrun by less than one backoff, which
\* backoff_ms() caps, and the calls of one _act(): those of a scan, of pairing
\* and one subscription, or of the subscription of every channel but one.
THEOREM DeadlineKeptHolds == Spec => []DeadlineKept
<1>1. BringInv => DeadlineKept
  BY DEF BringInv, Deadlines
<1> QED
  BY <1>1, BringInvariant, PTL

\* A climb that ends ready undisturbed leaves the camera listening on every
\* required channel, whatever Notifying flags an earlier climb left behind.
THEOREM ListeningHolds == Spec => []ListeningIfUndisturbed
<1>1. ASSUME BringInv PROVE ListeningIfUndisturbed
  <2> SUFFICES ASSUME pc = "ready", drops = 0, ~stopFails, subscribed \subseteq Required
               PROVE  Required \subseteq listening
    BY DEF ListeningIfUndisturbed
  <2>1. Cardinality(subscribed) >= Cardinality(Required) /\ subscribed \subseteq listening
    BY <1>1 DEF BringInv, Counted, Heard
  <2>2. /\ IsFiniteSet(Required) /\ Cardinality(Required) \in Nat
        /\ Cardinality(subscribed) \in Nat
    BY <1>1, ChannelsFinite, FS_CardinalityType DEF BringInv, BringTypes
  <2>3. /\ Cardinality(subscribed) <= Cardinality(Required)
        /\ Cardinality(Required) = Cardinality(subscribed) => Required = subscribed
    BY <2>2, FS_Subset
  <2> QED
    BY <2>1, <2>2, <2>3
<1> QED
  BY <1>1, BringInvariant, PTL

LEMMA FitsValues ==
  /\ Fits["scan"] <=> ~candidate /\ ~classic
  /\ Fits["disconnectClassic"] <=> ~candidate /\ classic
  /\ Fits["connect"] <=> candidate /\ ~connected
  /\ Fits["waitForServices"] <=> connected /\ (exposed = {} \/ ~complete(rescanned))
  /\ Fits["pair"] <=> connected /\ complete(rescanned) /\ subscribed = {}
  /\ Fits["subscribe"] <=> /\ connected /\ subscribed # {}
                          /\ Cardinality(subscribed) < Cardinality(Required)
  /\ Fits["none"] <=> /\ connected /\ complete(rescanned)
                     /\ Cardinality(subscribed) >= Cardinality(Required)
  BY DEF Fits

\* Whatever is packed and unpacked on the way, what the climb does next fits
\* what BlueZ shows it, and it is ready exactly when nothing is left to do.
THEOREM ActionFitsHolds == Spec => ActionFits
<1>1. ASSUME BringInv, [Next]_bringVars, pc = "observe", pc' \in {"act", "ready"}
      PROVE  Fits[advice'.action] /\ (pc' = "ready" <=> advice'.action = "none")
  <2>1. Observe
    BY <1>1 DEF Next, ClimbStep, Expire, Scan, DisconnectClassic, Connect, WaitForServices,
       Pair, Subscribe, StartNotify, StartNotifyFails, SubscribeEnds, Acts, Expose, Drop,
       Awaiting, NextClimb, bringVars, climbVars
  <2>2. BringTypes
    BY <1>1 DEF BringInv
  <2>3. /\ machine' \in Machines /\ Shows(machine'.state)
        /\ pc' = IF machine'.state = "kReady" THEN "ready" ELSE "act"
    BY <2>1, <2>2, ObserveFacts
  <2>4. PICK seen : /\ seen.classic = classic
                    /\ advice'.action = DartAction[action(machine', seen)]
    BY <2>1, <2>2, ObserveFacts
  <2>5. machine'.state \in {"kAbsent", "kAdvertising", "kConnected", "kServicesResolved",
                            "kEncrypted", "kReady"}
    BY <2>3, States DEF Machines
  <2>6. CASE machine'.state = "kAbsent"
    <3>1. advice'.action = IF classic THEN "disconnectClassic" ELSE "scan"
      BY <2>3, <2>4, <2>6, ActionOf
    <3>2. ~candidate
      BY <2>3, <2>6 DEF Shows
    <3> QED
      BY <2>3, <2>6, <3>1, <3>2, FitsValues
  <2>7. CASE machine'.state = "kAdvertising"
    <3>1. advice'.action = "connect"
      BY <2>3, <2>4, <2>7, ActionOf
    <3> QED
      BY <2>3, <2>7, <3>1, FitsValues DEF Shows
  <2>8. CASE machine'.state = "kConnected"
    <3>1. advice'.action = "waitForServices"
      BY <2>3, <2>4, <2>8, ActionOf
    <3> QED
      BY <2>3, <2>8, <3>1, FitsValues DEF Shows
  <2>9. CASE machine'.state = "kServicesResolved"
    <3>1. advice'.action = "pair"
      BY <2>3, <2>4, <2>9, ActionOf
    <3> QED
      BY <2>3, <2>9, <3>1, FitsValues DEF Shows
  <2>10. CASE machine'.state = "kEncrypted"
    <3>1. advice'.action = "subscribe"
      BY <2>3, <2>4, <2>10, ActionOf
    <3> QED
      BY <2>3, <2>10, <3>1, FitsValues DEF Shows
  <2>11. CASE machine'.state = "kReady"
    <3>1. advice'.action = "none"
      BY <2>3, <2>4, <2>11, ActionOf
    <3> QED
      BY <2>3, <2>11, <3>1, FitsValues DEF Shows
  <2> QED
    BY <2>5, <2>6, <2>7, <2>8, <2>9, <2>10, <2>11
<1>2. BringInv /\ [Next]_bringVars =>
        [pc = "observe" /\ pc' \in {"act", "ready"}
         => Fits[advice'.action] /\ (pc' = "ready" <=> advice'.action = "none")]_bringVars
  BY <1>1
<1> QED
  BY <1>2, BringInvariant, PTL DEF Spec, ActionFits

==============================================================================
