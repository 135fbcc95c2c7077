------------------------------ MODULE BringUp ------------------------------
(***************************************************************************)
(* GoProBleTransport._bringUp() (lib/src/ble_transport.dart) driving a     *)
(* LinkMachine against BlueZ: the first climb of connect() and, with the   *)
(* same machine and a clock that starts again, one climb per reconnection. *)
(*                                                                         *)
(* BlueZ and the camera are external.  They act while the climb awaits:    *)
(* objects appear a few at a time, calls fail, the link drops.             *)
(***************************************************************************)
EXTENDS LinkMachine, Sequences, FiniteSets, SequencesExt

CONSTANTS
  Required, Optional,   \* channels of _characteristics and _optionalChars
  Order,                \* the order in which _locate() goes through them
  Refused,              \* channels on which StartNotify always fails
  MaxDrops,             \* bound: drops of the link during a climb
  Climbs,               \* bound: climbs made with one machine
  Timeout               \* the climb's deadline

Channels == Required \cup Optional

ASSUME BringUpAssumption ==
  /\ Order \in Seq(Channels)
  /\ Range(Order) = Channels /\ Len(Order) = Cardinality(Channels)
  /\ Refused \subseteq Channels
  /\ {MaxDrops, Climbs, Timeout} \subseteq Nat

VARIABLES
  pc,          \* where _bringUp() is
  clock,       \* its Stopwatch
  located,     \* the keys of notifies (and writes), in insertion order
  subscribed,  \* subscribed
  only,        \* _subscribe() is to stop after one attempt
  machine,     \* the LinkMachine
  advice,      \* last
  candidate, classic, connected, paired,  \* BlueZ: the device's properties
  bonded,      \* the LE link can be encrypted
  exposed,     \* BlueZ: channels whose characteristics are on D-Bus
  notifying,   \* BlueZ: the Notifying property, which survives a disconnect
  listening,   \* camera: channels whose descriptor has been written
  stopFails,   \* BlueZ: StopNotify fails, here always or never
  drops, climb,
  entered,     \* history: when this climb first saw the present stage
  refusals     \* history: channels on which StartNotify failed in this climb

climbVars == <<pc, clock, located, subscribed, only, machine, advice, entered, refusals>>
busVars   == <<candidate, classic, connected, paired, bonded, exposed, notifying, listening,
               stopFails>>
bringVars == <<climbVars, busVars, drops, climb>>

-----------------------------------------------------------------------------
(* The climb. *)

complete(keys) == Required \subseteq Range(keys)

\* _locate(): new keys go to the end of the map.
locate(keys) == keys \o SelectSeq(Order, LAMBDA c : c \in exposed \ Range(keys))

rescanned == IF candidate /\ connected /\ ~complete(located) THEN locate(located) ELSE located

Observation ==
  [candidate |-> candidate, classic |-> classic, connected |-> candidate /\ connected,
   bonded |-> candidate /\ paired,
   attributes |-> IF candidate THEN Cardinality(exposed) ELSE 0, found |-> complete(rescanned),
   notified |-> subscribed # {}, subscribed |-> Cardinality(subscribed),
   required |-> Cardinality(Required)]

\* One turn of the loop up to _act(), gopro_link_update() included.
Observe ==
  /\ pc = "observe" /\ clock < Timeout
  /\ located' = rescanned
  /\ \E o    \in {Observation} :
     \E seen \in {observed(flags(o), o.attributes, o.subscribed, o.required)} :
     \E m    \in {enter(machine, seen, clock)} :
     \E a    \in {advise(m, seen, clock)} :
       /\ machine' = m
       /\ \E known \in {unpack(pack(a), a.retry_at)} :
            /\ advice' = known
            /\ pc' = CASE known = NoAdvice       -> "failed"
                       [] known.state = "ready" -> "ready"
                       [] OTHER                 -> "act"
       /\ entered' = IF m.state # machine.state \/ advice = NoAdvice THEN clock ELSE entered
  /\ UNCHANGED <<clock, subscribed, only, refusals, busVars, drops, climb>>

\* The deadline has passed: throw the last advice.
Expire ==
  /\ pc = "observe" /\ clock >= Timeout
  /\ pc' = "failed"
  /\ UNCHANGED <<clock, located, subscribed, only, machine, advice, entered, refusals,
                 busVars, drops, climb>>

\* _act() waits out the backoff.  Each of its calls and delays then takes at
\* most one unit of time, and no deadline is tested between them.
Waited == IF clock < advice.retry_at THEN advice.retry_at ELSE clock
Acts(a) == pc = "act" /\ advice.action = a

\* A BlueZException: note the failure and go round again.
Fail(now) ==
  /\ pc' = "observe"
  /\ clock' = now
  /\ machine' = note_attempt_failed(machine, now)

\* The action succeeds as far as D-Bus is concerned, after so many delays and
\* calls: a delay takes its unit, a call may return sooner.
Done(delays, calls) ==
  /\ pc' = "observe"
  /\ clock' \in Waited + delays .. Waited + delays + calls
  /\ UNCHANGED machine

actUnchanged == UNCHANGED <<located, subscribed, only, advice, entered, refusals,
                            notifying, stopFails, drops, climb>>

\* Power the adapter and start discovery, where needed, and wait for an
\* advertisement; a Classic link suppresses it.  Without an adapter the climb
\* is over at once.
Scan ==
  /\ Acts("scan")
  /\ \/ Done(1, 2) /\ candidate' \in {candidate, ~classic}
     \/ \E now \in Waited .. Waited + 2 : Fail(now) /\ UNCHANGED candidate
     \/ pc' = "failed" /\ clock' = Waited /\ UNCHANGED <<machine, candidate>>
  /\ UNCHANGED <<classic, connected, paired, bonded, exposed, listening>>
  /\ actUnchanged

DisconnectClassic ==
  /\ Acts("disconnectClassic")
  /\ \/ Done(0, 1) /\ classic' = FALSE
     \/ \E now \in Waited .. Waited + 1 : Fail(now) /\ UNCHANGED classic
  /\ UNCHANGED <<candidate, connected, paired, bonded, exposed, listening>>
  /\ actUnchanged

Connect ==
  /\ Acts("connect")
  /\ \/ Done(0, 1) /\ connected' = TRUE
     \/ \E now \in Waited .. Waited + 1 : Fail(now) /\ UNCHANGED connected
  /\ UNCHANGED <<candidate, classic, paired, bonded, exposed, listening>>
  /\ actUnchanged

\* Mutant: the wait is no wait.
WaitForServices_spin ==
  /\ Acts("waitForServices")
  /\ pc' = "observe"
  /\ UNCHANGED <<clock, machine>>
  /\ UNCHANGED <<candidate, classic, connected, paired, bonded, exposed, listening>>
  /\ actUnchanged

WaitForServices ==
  /\ Acts("waitForServices")
  /\ Done(1, 0)
  /\ UNCHANGED <<candidate, classic, connected, paired, bonded, exposed, listening>>
  /\ actUnchanged

\* Pair unless BlueZ says it is paired, then try one StartNotify.
Pair ==
  /\ Acts("pair")
  /\ \/ /\ paired
        /\ pc' = "subscribe" /\ only' = TRUE /\ clock' = Waited
        /\ UNCHANGED <<paired, bonded, machine>>
     \/ /\ ~paired /\ connected
        /\ pc' = "subscribe" /\ only' = TRUE /\ clock' \in Waited .. Waited + 1
        /\ paired' = TRUE /\ bonded' = TRUE
        /\ UNCHANGED machine
     \/ /\ ~paired
        /\ \E now \in Waited .. Waited + 1 : Fail(now)
        /\ UNCHANGED <<paired, bonded, only>>
  /\ UNCHANGED <<candidate, classic, connected, exposed, listening>>
  /\ UNCHANGED <<located, subscribed, advice, entered, refusals, notifying, stopFails,
                 drops, climb>>

Subscribe ==
  /\ Acts("subscribe")
  /\ pc' = "subscribe" /\ only' = FALSE /\ clock' = Waited
  /\ UNCHANGED <<machine, located, subscribed, advice, entered, refusals, busVars, drops, climb>>

-----------------------------------------------------------------------------
(* _subscribe(). *)

Unsubscribed == SelectSeq(located, LAMBDA c : c \notin subscribed)

\* Mutant: StartNotify is called whatever Notifying says.
stop_first_never(c) == notifying

\* StopNotify, which is best effort, when Notifying is left over from an
\* earlier connection.
stop_first(c) ==
  IF c \in notifying /\ ~stopFails THEN notifying \ {c} ELSE notifying

\* The calls made for a channel: StopNotify where needed, and StartNotify.
calls(c) == IF c \in notifying THEN 2 ELSE 1

\* StartNotify succeeds: it writes the descriptor only if BlueZ did not
\* already consider the characteristic notifying.
StartNotify ==
  /\ pc = "subscribe" /\ Unsubscribed # <<>>
  /\ \E c \in Channels \ subscribed :
       /\ c = Head(Unsubscribed)
       /\ connected /\ bonded /\ c \notin Refused
       /\ clock' \in clock .. clock + calls(c)
       /\ listening' = IF c \in stop_first(c) THEN listening ELSE listening \cup {c}
       /\ notifying' = stop_first(c) \cup {c}
       /\ subscribed' = subscribed \cup {c}
  /\ pc' = IF only THEN "observe" ELSE "subscribe"
  /\ UNCHANGED <<located, only, machine, advice, entered, refusals, candidate, classic,
                 connected, paired, bonded, exposed, stopFails, drops, climb>>

\* It fails: the rest of the loop is abandoned.
StartNotifyFails ==
  /\ pc = "subscribe" /\ Unsubscribed # <<>>
  /\ \E c \in Channels \ subscribed :
       /\ c = Head(Unsubscribed)
       /\ \E now \in clock .. clock + calls(c) : Fail(now)
       /\ notifying' = stop_first(c)
       /\ refusals' = refusals \cup {c}
  /\ UNCHANGED <<located, subscribed, only, advice, entered, candidate, classic,
                 connected, paired, bonded, exposed, listening, stopFails, drops, climb>>

SubscribeEnds ==
  /\ pc = "subscribe" /\ Unsubscribed = <<>>
  /\ pc' = "observe"
  /\ UNCHANGED <<clock, located, subscribed, only, machine, advice, entered, refusals,
                 busVars, drops, climb>>

-----------------------------------------------------------------------------
(* BlueZ and the camera, while the climb awaits. *)

Awaiting == pc \in {"act", "subscribe"}

Expose(c) ==
  /\ Awaiting /\ connected /\ c \notin exposed
  /\ exposed' = exposed \cup {c}
  /\ UNCHANGED <<climbVars, candidate, classic, connected, paired, bonded, notifying,
                 listening, stopFails, drops, climb>>

\* The camera forgets its subscriptions; BlueZ may keep the objects.
Drop ==
  /\ Awaiting /\ connected /\ drops < MaxDrops
  /\ drops' = drops + 1
  /\ connected' = FALSE
  /\ listening' = {}
  /\ exposed' \in {exposed, {}}
  /\ UNCHANGED <<climbVars, candidate, classic, paired, bonded, notifying, stopFails, climb>>

\* The link of a ready camera is lost and _onDrop() starts a climb with the
\* same machine and everything else afresh.
NextClimb ==
  /\ pc = "ready" /\ climb < Climbs
  /\ climb' = climb + 1 /\ drops' = 0
  /\ pc' = "observe" /\ clock' = 0
  /\ located' = <<>> /\ subscribed' = {} /\ refusals' = {} /\ only' = FALSE
  /\ entered' = 0
  /\ advice' = NoAdvice
  /\ connected' = FALSE /\ listening' = {} /\ exposed' \in {exposed, {}}
  /\ candidate' \in BOOLEAN
  /\ UNCHANGED <<machine, classic, paired, bonded, notifying, stopFails>>

Init ==
  /\ pc = "observe" /\ clock = 0 /\ located = <<>> /\ subscribed = {} /\ only = FALSE
  /\ machine = NewMachine
  /\ advice = NoAdvice
  /\ entered = 0 /\ refusals = {}
  /\ candidate \in BOOLEAN /\ classic \in BOOLEAN
  /\ connected \in BOOLEAN
  /\ paired \in BOOLEAN /\ bonded \in {FALSE, paired}
  /\ exposed \in SUBSET Channels /\ notifying = {} /\ listening = {}
  /\ stopFails \in BOOLEAN
  /\ drops = 0 /\ climb = 1

ClimbStep ==
  \/ Observe \/ Expire
  \/ Scan \/ DisconnectClassic \/ Connect \/ WaitForServices \/ Pair \/ Subscribe
  \/ StartNotify \/ StartNotifyFails \/ SubscribeEnds

Next == ClimbStep \/ (\E c \in Channels : Expose(c)) \/ Drop \/ NextClimb

Spec == Init /\ [][Next]_bringVars

\* Every await of the climb ends: D-Bus calls return or time out.
FairSpec == Spec /\ WF_bringVars(ClimbStep)

-----------------------------------------------------------------------------
(* Properties. *)

\* Types.
TypeOK ==
  /\ pc \in {"observe", "act", "subscribe", "ready", "failed"}
  /\ clock \in Nat
  /\ located \in Seq(Channels) /\ IsInjective(located)
  /\ subscribed \subseteq Range(located)
  /\ machine \in [state : Members(LinkState), since : Nat, last_failure : Nat, attempts : Nat]
  /\ advice \in [state : Members(LinkStateDart) \cup {"none"},
                 action : Members(LinkActionDart), stall : Members(StallReasonDart),
                 retry_at : Nat]
  /\ exposed \subseteq Channels /\ listening \subseteq notifying
  /\ notifying \subseteq Channels /\ refusals \subseteq Channels

\* A stall is earned: the machine, used for climb after climb with clocks that
\* each start at zero, calls a stage stalled only when this climb has seen the
\* stage for its whole budget.  (A start time left from an earlier climb would
\* make the unsigned difference huge.)
StallIsEarned ==
  pc \in {"act", "ready"} /\ advice.stall \notin {"none", "classicBlocking"}
  => clock - entered >= Budget(machine.state)

\* What BlueZ shows when the climb's next action is to be this one.
Fits ==
  [scan              |-> ~candidate /\ ~classic,
   disconnectClassic |-> ~candidate /\ classic,
   connect           |-> candidate /\ ~connected,
   waitForServices   |-> connected /\ (exposed = {} \/ ~complete(rescanned)),
   pair              |-> connected /\ complete(rescanned) /\ subscribed = {},
   subscribe         |-> connected /\ subscribed # {}
                           /\ Cardinality(subscribed) < Cardinality(Required),
   none              |-> connected /\ complete(rescanned)
                           /\ Cardinality(subscribed) >= Cardinality(Required)]

\* Whatever is packed and unpacked on the way through the native machine, what
\* the climb does next fits what BlueZ shows it: it pairs only a link whose
\* characteristics are located and on which nothing has been subscribed,
\* whatever the bonded flag says, and is ready only with enough subscriptions.
ActionFits ==
  [][pc = "observe" /\ pc' \in {"act", "ready"}
     => Fits[advice'.action] /\ (pc' = "ready" <=> advice'.action = "none")]_bringVars

\* When a climb ends ready the camera listens on every required channel, and
\* so answers on it, although BlueZ's Notifying flags are left over from the
\* climb before: provided that the link held for this climb, that StopNotify
\* works, and that no optional channel was counted for a required one.
ListeningIfUndisturbed ==
  pc = "ready" /\ drops = 0 /\ ~stopFails /\ subscribed \subseteq Required
  => Required \subseteq listening

\* The most delays and calls in one _act(): a scan's setPowered(),
\* startDiscovery() and delay; pair(), StopNotify and StartNotify; or the last
\* two for each channel but the one that proved the encryption.
MostCalls ==
  LET rest == 2 * (Cardinality(Channels) - 1) IN IF rest < 3 THEN 3 ELSE rest

\* The deadline, tested once in a turn of the loop, is overrun by less than one
\* backoff and the calls of one _act(), however many attempts have failed.
DeadlineKept == clock < Timeout + backoff_max + MostCalls

\* The loop ends, ready or with an exception, whatever BlueZ does.
ClimbEnds == pc \notin {"ready", "failed"} ~> pc \in {"ready", "failed"}

-----------------------------------------------------------------------------
(* What the documentation says and the code does not do. *)

\* "kReady: every required characteristic is subscribed": when a climb ends
\* ready, the camera listens on every required channel.
ReadyMeansListening == pc = "ready" => Required \subseteq listening

\* The optional pair "does not gate reaching ready": a climb that fails for
\* want of subscriptions met a refusal on a required channel.
OptionalDoesNotGate ==
  pc = "failed" /\ advice.stall = "subscribeFailed" => refusals \cap Required # {}

\* "backoff and attempt counts carry over": the machine still knows, when the
\* next climb begins, of an attempt that failed in this one.
BackoffCarriesOver ==
  [][climb' # climb /\ refusals # {} => machine'.attempts > 0]_bringVars

=============================================================================
