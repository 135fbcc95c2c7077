---------------------------- MODULE LinkMachine ----------------------------
(***************************************************************************)
(* gp::ble::LinkMachine (native/src/ble_link.cpp): from what is observed   *)
(* of the link to the stage it has reached, what to do next, whether the   *)
(* stage has stalled and when to try again.  With it link_bridge.cpp, which*)
(* takes the observation as bits and gives the advice as one integer, and  *)
(* link_types.dart, which packs the one and unpacks the other.             *)
(*                                                                         *)
(* The machine is pure, so it is a record and operators on it.  Its        *)
(* explanations, and the flag that only selects one, are left out.         *)
(***************************************************************************)
EXTENDS Integers, Sequences

CONSTANTS
  ConnectTimeout, ServicesTimeout, EncryptTimeout, SubscribeTimeout,  \* LinkConfig
  BackoffInitial, BackoffMax,
  Asked,        \* the durations gopro_link_create() is given, 0 to keep LinkConfig's
  Wrap          \* times are unsigned: differences are taken modulo Wrap

ASSUME LinkConfigAssumption ==
  /\ {ConnectTimeout, ServicesTimeout, EncryptTimeout, SubscribeTimeout,
      BackoffInitial, BackoffMax} \subseteq Nat \ {0}
  /\ Asked \in [{"connect", "services", "encrypt", "subscribe", "initial", "max"} -> Nat]
  /\ Wrap \in Nat \ {0}

\* The enumerations, in their order: their members travel as positions.
LinkState == <<"kAbsent", "kAdvertising", "kConnected", "kServicesResolved",
               "kEncrypted", "kReady">>
LinkAction == <<"kNone", "kScan", "kDisconnectClassic", "kConnect",
                "kWaitForServices", "kPair", "kSubscribe">>
StallReason == <<"kNone", "kNoAdvertisement", "kClassicBlocking", "kConnectFailed",
                 "kServicesNeverAppeared", "kWrongDevice", "kNotEncrypted",
                 "kSubscribeFailed">>

Members(enum) == {enum[i] : i \in DOMAIN enum}

\* gopro_link_create(): zero keeps the default.
configured(asked, default) == IF asked = 0 THEN default ELSE asked

NewMachine == [state |-> "kAbsent", since |-> 0, last_failure |-> 0, attempts |-> 0]

\* An observation: candidate, classic, connected, bonded, found and notified
\* are Booleans, attributes and subscribed counts, required the count wanted.
classify(obs) ==
  CASE ~obs.connected /\ obs.candidate                              -> "kAdvertising"
    [] ~obs.connected /\ ~obs.candidate                             -> "kAbsent"
    [] obs.connected /\ (obs.attributes = 0 \/ ~obs.found)          -> "kConnected"
    [] obs.connected /\ obs.attributes # 0 /\ obs.found ->
         IF ~obs.notified THEN "kServicesResolved"
         ELSE IF obs.subscribed < obs.required THEN "kEncrypted" ELSE "kReady"

backoff_initial == configured(Asked.initial, BackoffInitial)
backoff_max == configured(Asked.max, BackoffMax)

Least(a, b) == IF a < b THEN a ELSE b

\* Mutant: the delay is doubled without a cap.
backoff_uncapped(m) == IF m.attempts = 0 THEN 0 ELSE backoff_initial * 2^(m.attempts - 1)

backoff(m) ==
  IF m.attempts = 0 THEN 0 ELSE Least(backoff_initial * 2^(m.attempts - 1), backoff_max)

note_attempt_failed(m, now) ==
  [m EXCEPT !.attempts = @ + 1, !.last_failure = now]

\* Mutant: a regression is not a change of stage.
enter_progress_only(m, obs, now) ==
  IF classify(obs) = m.state \/ m.state = "kReady"
  THEN [m EXCEPT !.state = classify(obs)]
  ELSE [state |-> classify(obs), since |-> now, last_failure |-> 0, attempts |-> 0]

\* The machine after update(): a change of stage, forwards or backwards,
\* restarts its clock and clears the penalty.
enter(m, obs, now) ==
  IF classify(obs) = m.state THEN m
  ELSE [state |-> classify(obs), since |-> now, last_failure |-> 0, attempts |-> 0]

Budget(s) ==
  CASE s \in {"kAbsent", "kAdvertising"} -> configured(Asked.connect, ConnectTimeout)
    [] s = "kConnected"                  -> configured(Asked.services, ServicesTimeout)
    [] s = "kServicesResolved"           -> configured(Asked.encrypt, EncryptTimeout)
    [] s \in {"kEncrypted", "kReady"}    -> configured(Asked.subscribe, SubscribeTimeout)

action(m, obs) ==
  CASE m.state = "kAbsent"           -> IF obs.classic THEN "kDisconnectClassic" ELSE "kScan"
    [] m.state = "kAdvertising"      -> "kConnect"
    [] m.state = "kConnected"        -> "kWaitForServices"
    [] m.state = "kServicesResolved" -> "kPair"
    [] m.state = "kEncrypted"        -> "kSubscribe"
    [] m.state = "kReady"            -> "kNone"

stall(m, obs, now) ==
  LET over == (now - m.since) % Wrap >= Budget(m.state)
  IN  CASE m.state = "kAbsent" /\ obs.classic                    -> "kClassicBlocking"
        [] m.state = "kAbsent" /\ ~obs.classic /\ over           -> "kNoAdvertisement"
        [] m.state = "kAdvertising" /\ m.attempts > 0 /\ over    -> "kConnectFailed"
        [] m.state = "kConnected" /\ over ->
             IF obs.attributes > 0 /\ ~obs.found THEN "kWrongDevice"
                                                 ELSE "kServicesNeverAppeared"
        [] m.state = "kServicesResolved" /\ over                 -> "kNotEncrypted"
        [] m.state = "kEncrypted" /\ over                        -> "kSubscribeFailed"
        [] OTHER                                                 -> "kNone"

retry_at(m) ==
  IF m.attempts > 0 /\ m.state # "kReady" THEN m.last_failure + backoff(m) ELSE 0

\* The advice update() returns, for the machine it leaves.
advise(m, obs, now) ==
  [state |-> m.state, action |-> action(m, obs), stall |-> stall(m, obs, now),
   retry_at |-> retry_at(m)]

-----------------------------------------------------------------------------
(* The way to Dart and back. *)

\* Dart's enumerations and the native members they mirror.
LinkStateDart == <<"absent", "advertising", "connected", "servicesResolved",
                   "encrypted", "ready">>
LinkActionDart == <<"none", "scan", "disconnectClassic", "connect",
                    "waitForServices", "pair", "subscribe">>
StallReasonDart == <<"none", "noAdvertisement", "classicBlocking", "connectFailed",
                     "servicesNeverAppeared", "wrongDevice", "notEncrypted",
                     "subscribeFailed">>

\* LinkObservation.flags: one bit for each Boolean.
FlagBits == <<"candidate", "classic", "connected", "bonded", "found", "notified">>
flags(obs) ==
  LET bit(i) == IF obs[FlagBits[i]] THEN 2^(i - 1) ELSE 0
  IN  bit(1) + bit(2) + bit(3) + bit(4) + bit(5) + bit(6)

\* Mutant: the bond, which is for diagnostics only, is read as the proof of encryption.
GoProLinkFlags_bonded == [candidate |-> 0, classic |-> 1, connected |-> 2, bonded |-> 3,
                          found |-> 4, notified |-> 3]

\* GoProLinkFlags: the bit each Boolean is read from.
GoProLinkFlags == [candidate |-> 0, classic |-> 1, connected |-> 2, bonded |-> 3,
                   found |-> 4, notified |-> 5]

\* The observation gopro_link_update() makes of its arguments.
observed(bits, attributes, subscribed, required) ==
  LET set(flag) == (bits \div 2^GoProLinkFlags[flag]) % 2 = 1
  IN  [candidate |-> set("candidate"), classic |-> set("classic"),
       connected |-> set("connected"), bonded |-> set("bonded"),
       found |-> set("found"), notified |-> set("notified"),
       attributes |-> attributes, subscribed |-> subscribed,
       required |-> IF required = 0 THEN 1 ELSE required]

Position(enum, member) == CHOOSE i \in 0 .. Len(enum) - 1 : enum[i + 1] = member

pack(a) == Position(LinkState, a.state) * 2^16 + Position(LinkAction, a.action) * 2^8
             + Position(StallReason, a.stall)

NoAdvice == [state |-> "none", action |-> "none", stall |-> "none", retry_at |-> 0]

\* LinkAdvice.unpack(), or null when a position is out of range.
unpack(packed, retryAt) ==
  LET s == (packed \div 2^16) % 256
      a == (packed \div 2^8) % 256
      r == packed % 256
  IN  IF s >= Len(LinkStateDart) \/ a >= Len(LinkActionDart) \/ r >= Len(StallReasonDart)
      THEN NoAdvice
      ELSE [state |-> LinkStateDart[s + 1], action |-> LinkActionDart[a + 1],
            stall |-> StallReasonDart[r + 1], retry_at |-> retryAt]

=============================================================================
