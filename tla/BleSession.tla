----------------------------- MODULE BleSession -----------------------------
(***************************************************************************)
(* gp::ble::BleSession (native/src/ble_session.cpp) over CommandQueue: the *)
(* camera's readiness, matching of replies, the keep-alive and disconnect. *)
(*                                                                         *)
(* The bridge that owns a session (ble_bridge.cpp) posts every callback to *)
(* another isolate, so nothing calls back into a session: an event starts  *)
(* when the queue's stack and `todo` are empty.  `todo` is the rest of a   *)
(* handler that called the queue and runs on when the queue returns.       *)
(*                                                                         *)
(* The camera is external: it may answer what is in flight, answer late,   *)
(* or stay silent, and it reports its two statuses as it likes.  Framing   *)
(* (feed() up to a whole message) is the module Reassembler.               *)
(***************************************************************************)
EXTENDS CommandQueue, BleWire

CONSTANTS
  KeepAlive,          \* the submission tick() makes
  Sent,               \* Sent[c]: the Command a submission is
  Replies,            \* Replies[c]: messages the camera may answer it with
  Pushes,             \* messages it sends unasked, each with its channel; a
                      \* message is its bytes and what the camera says by it
  KeepAliveInterval   \* keep_alive_interval_ms, in the unit of the timeouts

\* The BUSY and ENCODING entries of a message; "none" when it has no such
\* entry or the entry has no value.
Update == [busy : {"none", "yes", "no"}, encoding : {"none", "yes", "no"}]

\* feed() delivers no message of length zero.
Message == [bytes : Seq(Byte) \ {<<>>}, says : Update]

ASSUME KeepAliveAssumption ==
  /\ KeepAlive \in Cmds /\ CmdPrio[KeepAlive] = "kKeepAlive" /\ "none" \notin Cmds
  /\ Sent[KeepAlive] = Command(kSettings, keep_alive_payload, FALSE)
  /\ \A c \in Cmds : Sent[c] \in Commands /\ CmdId[c] = id_of(Sent[c])
  /\ \A c \in Cmds : \A m \in Replies[c] : m \in Message
  /\ \A p \in Pushes : p[1] \in Channel /\ p[2] \in Message
  /\ KeepAliveInterval \in Nat \ {0}

VARIABLES
  busy, encoding,  \* busy_, encoding_ of ReadyState
  todo,            \* what is left of the handler that called the queue
  started,         \* keep_alive_started_
  since,           \* now - last_keep_alive_ms_, up to KeepAliveInterval
  due,             \* the clock has moved and tick() has not run yet
  announced,       \* history: the last value given to on_ready_
  told,            \* history: the statuses received since the last disconnect
  silence,         \* history: time since a keep-alive was transmitted
  late             \* camera: commands given up on that it may still answer

readyVars   == <<busy, encoding, announced, told>>
aliveVars   == <<started, since, due, silence>>
sessionVars == <<readyVars, aliveVars, todo, late, vars>>

Status == {"unknown", "yes", "no"}
Unknown  == [busy |-> "unknown", encoding |-> "unknown"]

Steps == [step : {"fold"}, upd : Update, id : Ids, answers : Cmds \cup {"none"}]
           \cup [step : {"keep_alive", "reset"}]

Idle == stack = <<>> /\ todo = <<>>

-----------------------------------------------------------------------------
(* ReadyState (query_parser.cpp). *)

IsReady(b, e) == b = "no" /\ e = "no"
readyNow      == IsReady(busy, encoding)
fold(old, new) == IF new = "none" THEN old ELSE new

\* Mutant: a message without a status forgets the one received before.
apply_afresh(upd) ==
  /\ busy' = fold("unknown", upd.busy)
  /\ encoding' = fold("unknown", upd.encoding)

apply(upd) ==
  /\ busy' = fold(busy, upd.busy)
  /\ encoding' = fold(encoding, upd.encoding)

-----------------------------------------------------------------------------
(* feed() and deliver(). *)

\* Which outstanding command a message answers: the two-byte id if it is in
\* flight, else the one-byte id.
resolve(channel, msg) ==
  IF Len(msg) >= 2 /\ is_in_flight(protobuf_correlation_of_message(channel, msg))
  THEN protobuf_correlation_of_message(channel, msg)
  ELSE correlation_of_message(channel, msg)

\* deliver() of a reply: the queue completes the command and pumps, the
\* statuses are folded in afterwards.  `answers` is history: the command the
\* camera really answered.
deliver_reply(id, upd, answers) ==
  /\ on_response(id)
  /\ todo' = <<[step |-> "fold", upd |-> upd, id |-> id, answers |-> answers]>>
  /\ UNCHANGED <<busy, encoding, announced>>

FoldReply ==
  /\ stack = <<>> /\ todo # <<>> /\ Head(todo).step = "fold"
  /\ apply(Head(todo).upd)
  /\ todo' = <<>>
  /\ LET now == IsReady(busy', encoding')
     IN  IF now # readyNow
         THEN announced' = now /\ set_ready(now)
         ELSE UNCHANGED <<announced, vars>>
  /\ UNCHANGED <<told, aliveVars, late>>

\* deliver() of a message nothing waits for: tell the queue, then the caller.
deliver_push(upd) ==
  /\ apply(upd)
  /\ LET now == IsReady(busy', encoding')
     IN  IF now # readyNow
         THEN announced' = now /\ set_ready(now)
         ELSE UNCHANGED <<announced, vars>>
  /\ UNCHANGED todo

deliver(channel, msg, answers) ==
  LET id  == resolve(channel, msg.bytes)
      upd == status_update(msg.bytes)
  IN  /\ Idle
      /\ told' = [busy |-> fold(told.busy, msg.says.busy),
                  encoding |-> fold(told.encoding, msg.says.encoding)]
      /\ IF is_in_flight(id) THEN deliver_reply(id, upd, answers) ELSE deliver_push(upd)
      /\ UNCHANGED aliveVars

\* The answer to a command comes on the partner of its characteristic.
Reply(c) ==
  /\ InSeq(c, in_flight)
  /\ \E msg \in Replies[c] : deliver(Sent[c].channel, msg, c)
  /\ UNCHANGED late

\* The answer to a command that was given up on arrives after all.
LateReply(c) ==
  /\ c \in late
  /\ \E msg \in Replies[c] : deliver(Sent[c].channel, msg, c)
  /\ late' = late \ {c}

Push ==
  /\ \E p \in Pushes : deliver(p[1], p[2], "none")
  /\ UNCHANGED late

-----------------------------------------------------------------------------
(* submit(), tick(), on_disconnect(). *)

Send(c) ==
  /\ Idle
  /\ c \notin owed \cup {KeepAlive}
  /\ submit(c)
  /\ UNCHANGED <<readyVars, aliveVars, todo, late>>

SessionTick ==
  /\ Idle /\ due
  /\ tick
  /\ due' = FALSE
  /\ todo' = <<[step |-> "keep_alive"]>>
  /\ UNCHANGED <<readyVars, started, since, silence, late>>

\* Mutant: the comparison is off by one.
interval_over_late(s) == s > KeepAliveInterval

interval_over(s) == s >= KeepAliveInterval

\* The second half of tick(): anchor on the first call, then submit a
\* keep-alive per interval; a refusal is ignored and the interval restarts.
KeepAliveDue ==
  /\ stack = <<>> /\ todo # <<>> /\ Head(todo).step = "keep_alive"
  /\ todo' = <<>>
  /\ \/ /\ ~started
        /\ started' = TRUE /\ since' = 0 /\ silence' = 0
        /\ UNCHANGED vars
     \/ /\ started /\ ~interval_over(since)
        /\ UNCHANGED <<started, since, silence, vars>>
     \/ /\ started /\ interval_over(since)
        /\ since' = 0
        /\ submit(KeepAlive)
        /\ UNCHANGED <<started, silence>>
  /\ UNCHANGED <<readyVars, due, late>>

Disconnect ==
  /\ Idle
  /\ cancel_all
  /\ todo' = <<[step |-> "reset"]>>
  /\ told' = Unknown
  /\ late' = {}
  /\ UNCHANGED <<busy, encoding, announced, aliveVars>>

\* Mutant: statuses survive the disconnect.
forget_nothing == UNCHANGED <<busy, encoding>>

forget == busy' = "unknown" /\ encoding' = "unknown"

announce_closed == announced' = IF readyNow THEN FALSE ELSE announced

\* The rest of on_disconnect(), after cancel_all().
DisconnectReset ==
  /\ stack = <<>> /\ todo # <<>> /\ Head(todo).step = "reset"
  /\ todo' = <<>>
  /\ forget
  /\ set_ready(FALSE)
  /\ announce_closed
  /\ started' = FALSE
  /\ silence' = 0
  /\ UNCHANGED <<told, since, due, late>>

-----------------------------------------------------------------------------
\* A step inside the queue.  A keep-alive that is transmitted breaks the
\* silence; a command erased by tick() may still be answered.
QueueStep ==
  /\ InnerStep \/ Return
  /\ silence' = IF InSeq(KeepAlive, in_flight') /\ ~InSeq(KeepAlive, in_flight)
                THEN 0 ELSE silence
  /\ late' = late \cup IF OnTop("collect")
                       THEN {c \in Cmds : InSeq(c, in_flight) /\ ~InSeq(c, in_flight')}
                       ELSE {}
  /\ UNCHANGED <<readyVars, started, since, due, todo>>

\* The transport's timer calls tick() once per unit of time.
Time ==
  /\ Idle /\ ~due
  /\ Elapse
  /\ due' = TRUE
  /\ since' = IF since < KeepAliveInterval THEN since + 1 ELSE since
  /\ silence' = IF started THEN silence + 1 ELSE silence
  /\ UNCHANGED <<readyVars, started, todo, late>>

SessionInit ==
  /\ Init
  /\ busy = "unknown" /\ encoding = "unknown" /\ announced = FALSE /\ told = Unknown
  /\ started = FALSE /\ since = 0 /\ due = FALSE /\ silence = 0
  /\ todo = <<>> /\ late = {}

SessionNext ==
  \/ \E c \in Cmds : Reply(c) \/ LateReply(c) \/ Send(c)
  \/ Push \/ FoldReply
  \/ SessionTick \/ KeepAliveDue
  \/ Disconnect \/ DisconnectReset
  \/ QueueStep \/ Time

SessionSpec == SessionInit /\ [][SessionNext]_sessionVars

-----------------------------------------------------------------------------
(* What some of the properties need of the camera and of the constants.  The   *)
(* proofs take these as hypotheses, the runs evaluate them.                    *)

\* The parser takes every message for what the camera says by it.
Understood ==
  /\ \A c \in Cmds : \A m \in Replies[c] : status_update(m.bytes) = m.says
  /\ \A p \in Pushes : status_update(p[2].bytes) = p[2].says

\* A message that looks like the answer to a command: it comes on the same
\* channel and begins with the same byte, or, for a protobuf command, with its
\* feature and the action of the response.
Speaks(channel, bytes, c) ==
  /\ channel = c.channel /\ bytes[1] = c.payload[1]
  /\ c.protobuf => Len(bytes) >= 2 /\ bytes[2] = protobuf_response_action(c.payload[2])

\* The camera answers so, and says nothing unasked that looks like an answer.
Unambiguous ==
  /\ \A c, d \in Cmds : \A m \in Replies[c] :
       Speaks(Sent[c].channel, m.bytes, Sent[d]) => CmdId[d] = CmdId[c]
  /\ \A p \in Pushes : \A d \in Cmds : ~Speaks(p[1], p[2].bytes, Sent[d])

\* A write is given up on within two intervals (5 s against 3 s) and nothing but
\* tick() submits the keep-alive's command.
Timely ==
  /\ WriteTimeout <= 2 * KeepAliveInterval
  /\ \A c \in Cmds : CmdId[c] = CmdId[KeepAlive] => c = KeepAlive

-----------------------------------------------------------------------------
(* Properties. *)

\* Types of the session's own state.
SessionTypeOK ==
  /\ TypeOK
  /\ busy \in Status /\ encoding \in Status
  /\ announced \in BOOLEAN
  /\ told \in [busy : Status, encoding : Status]
  /\ started \in BOOLEAN /\ due \in BOOLEAN
  /\ since \in 0..KeepAliveInterval
  /\ silence \in Nat
  /\ todo \in Seq(Steps) /\ Len(todo) <= 1
  /\ late \subseteq Cmds

\* Between events the queue's gate is open exactly when the camera has said,
\* on this connection, that it is neither busy nor encoding: whichever path (reply,
\* push, disconnect) brought the news, and whatever else its messages hold (ids
\* unknown, values missing, settings with a status' id, truncated tails).
\* And the caller of on_ready has been told so.
GateMatchesCamera ==
  Idle => (ready <=> IsReady(told.busy, told.encoding)) /\ (announced <=> ready)

\* Nothing but an answer to it completes a command, or a late answer to an
\* earlier one with its id: not a notification that begins with the same
\* feature, nor a message with the same bytes on another characteristic.
AnswersItsOwn ==
  \A i \in DOMAIN todo : todo[i].step = "fold" =>
    todo[i].answers # "none" /\ CmdId[todo[i].answers] = todo[i].id

\* "Readiness must not survive a reconnect": an ordinary command is
\* transmitted only if both statuses have been received since the last
\* disconnect.
SentAfterReport ==
  [][\A c \in Cmds :
       /\ CmdPrio[c] = "kQueued" /\ InSeq(c, in_flight') /\ ~InSeq(c, in_flight)
       => told.busy # "unknown" /\ told.encoding # "unknown"]_sessionVars

\* When on_disconnect() has cancelled everything, nothing is queued, nothing in
\* flight and no completion is still to run, so no reply on the next connection
\* can be taken for an answer to something sent before.
NothingSurvivesDisconnect ==
  todo # <<>> /\ Head(todo).step = "reset" /\ stack = <<>>
  => pending = <<>> /\ in_flight = <<>> /\ owed = {}

\* A refused or unanswered keep-alive delays the next by one interval at most:
\* with ticks on time, no more than two intervals (6 s; the camera drops the
\* link at about 10 s) pass without one, whatever the camera answers and
\* however long it is busy.  Holds when the constants are Timely.
KeepAliveInTime == silence <= 2 * KeepAliveInterval

\* ble_session.h: the single-flight rule "is what keeps two commands sharing
\* one id from stealing each other's reply": the answer to a command that was
\* given up on completes no other command.
NoStolenReply ==
  [][\A c \in late \ late' : todo' = <<>> \/ Head(todo').step # "fold"]_sessionVars

\* command_queue.h: "ordinary commands must wait until both are clear": one is
\* transmitted only if the statuses last received are both clear.
SentOnlyWhenClear ==
  [][\A c \in Cmds :
       /\ CmdPrio[c] = "kQueued" /\ InSeq(c, in_flight') /\ ~InSeq(c, in_flight)
       => IsReady(told.busy, told.encoding)]_sessionVars

=============================================================================
