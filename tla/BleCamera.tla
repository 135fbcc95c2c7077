----------------------------- MODULE BleCamera -----------------------------
(***************************************************************************)
(* GoProBleCamera (lib/src/ble_transport.dart) over the native bridge      *)
(* (native/src/ble_bridge.cpp): futures, drops, reconnection and close().  *)
(*                                                                         *)
(* One isolate runs everything; an async function gives way at each await, *)
(* so _onDrop() and close() have a program counter each.  The native       *)
(* session reports by posting to a port whose messages the isolate takes   *)
(* one at a time, in order, as bytes.  Of the session the module keeps     *)
(* what CommandService promises: which ids are outstanding and for whom.   *)
(* A command is one packet here (Framing has the rest), and the climb      *)
(* inside _bringUp() is BringUp's.                                         *)
(***************************************************************************)
EXTENDS BleWire, FiniteSets, SequencesExt

CONSTANTS
  AppCmds,      \* the Commands an application sends
  Notices,      \* events of no command: ready changes, pushes, framing errors
  MaxSends,     \* bound: sends made, the first query included
  MaxPort       \* bound: messages in the port when the keep-alive is due

\* The status query that _attach() sends, and the session's keep-alive.
QueryCmd == Command(kQuery, <<19, kStatusBusy, kStatusEncoding>>, FALSE)
KeepAliveCmd == Command(kSettings, keep_alive_payload, FALSE)

\* What the session reports of itself.
Events ==
  [kind : {"ready"}, ready : BOOLEAN] \cup [kind : {"push"}, channel : Channel, bytes : Seq(Byte)]
  \cup [kind : {"frame"}, channel : Channel, result : Range(kFeedResults)]

ASSUME CameraAssumption ==
  /\ QueryCmd \in AppCmds /\ IsFiniteSet(AppCmds) /\ \A c \in AppCmds : c \in Commands
  /\ \A n \in Notices : n \in Events
  /\ MaxSends \in Nat \ {0} /\ MaxPort \in Nat

Sent    == AppCmds \cup {KeepAliveCmd}

\* The id a future waits under: send() computes its own, sendProtobuf() asks
\* the native side.
future_id(c) == IF c.protobuf THEN id_of(c) ELSE correlationOf(c.channel, c.payload[1])

Ids     == {id_of(c) : c \in Sent} \cup {future_id(c) : c \in Sent}
cmd_of == [id \in Ids |-> CHOOSE c \in Sent : id_of(c) = id]
QueryId == future_id(QueryCmd)
KeepAliveId == id_of(KeepAliveCmd)
Nobody  == 0
Tickets == 1..MaxSends      \* one per call of send()
KaTicket == MaxSends + 1    \* the keep-alive's submissions

VARIABLES
  state,      \* _state
  reconnect,  \* _reconnectTimeout is not zero
  pending,    \* _pending: whose future waits under each id
  result,     \* history: what became of each future, and whose outcome it got
  native,     \* native session: whose submission is outstanding under each id
  sent,       \* native session: ids transmitted
  port,       \* messages posted to the isolate
  heard,      \* camera: ids received on this connection and not answered
  connected,  \* BlueZ: the device is connected
  attached,   \* _subs, _writes and _notifies are filled
  ticking,    \* _ticker is running
  dropPc,     \* where _onDrop() is
  closePc,    \* where close() is
  freed,      \* the session, the link machine and the port are gone
  misuse      \* history: what was used after it was released

futures == <<pending, result>>
session == <<native, sent>>
flow    == <<state, dropPc, closePc, ticking>>
cameraVars == <<state, reconnect, pending, result, native, sent, port, heard,
                connected, attached, ticking, dropPc, closePc, freed, misuse>>

\* A message in the port: its bytes, with the submission it is about and what
\* the session meant by it as history.
Posted(bytes, t, meant) == [bytes |-> bytes, by |-> t, meant |-> meant]

Response(id, t, o) ==
  Posted(response_event(id, o, IF o = "kResponded" THEN cmd_of[id].payload ELSE <<>>), t,
         [kind |-> "response", id |-> id, outcome |-> BleOutcomes[ordinal(o, kOutcomes) + 1],
          bytes |-> IF o = "kResponded" THEN cmd_of[id].payload ELSE <<>>])
Write(id) ==
  Posted(write_event(channel_of_correlation(id), cmd_of[id].payload), Nobody,
         [kind |-> "write", channel |-> cmd_of[id].channel, bytes |-> cmd_of[id].payload])
Notice(n) ==
  Posted(CASE n.kind = "ready" -> ready_event(n.ready)
           [] n.kind = "push"  -> push_event(n.channel, n.bytes)
           [] n.kind = "frame" -> frame_event(n.channel, n.result), Nobody,
         IF n.kind # "frame" THEN n
         ELSE [kind |-> "frame", channel |-> n.channel,
               error |-> BleFrameErrors[ordinal(n.result, kFeedResults) + 1]])
Turn == [kind |-> "turn"]

Uses(thing) == misuse' = IF freed THEN misuse \cup {thing} ELSE misuse

-----------------------------------------------------------------------------
(* The bridge. *)

\* gopro_ble_submit() returns 1 unless the id is outstanding; a refusal is
\* posted as an outcome too.
accepts(id) == native[id] = Nobody
submit(id, t) ==
  IF accepts(id)
  THEN native' = [native EXCEPT ![id] = t] /\ UNCHANGED port
  ELSE port' = Append(port, Response(id, t, "kRejected")) /\ UNCHANGED native

outstanding == {id \in Ids : native[id] # Nobody}

\* gopro_ble_disconnect(): every outstanding command is cancelled.
disconnect ==
  /\ port' = port \o SetToSeq({Response(id, native[id], "kCanceled") : id \in outstanding})
  /\ native' = [id \in Ids |-> Nobody]
  /\ sent' = {}

\* The session transmits a command, in whichever call its gate lets it.
Transmit(id) ==
  /\ ~freed /\ native[id] # Nobody /\ id \notin sent
  /\ sent' = sent \cup {id}
  /\ port' = Append(port, Write(id))
  /\ UNCHANGED <<flow, futures, reconnect, native, heard, connected, attached, freed, misuse>>

\* The session reports something that concerns no command.
Notify(n) ==
  /\ ~freed /\ connected /\ attached /\ Len(port) <= MaxPort
  /\ port' = Append(port, Notice(n))
  /\ UNCHANGED <<flow, futures, session, reconnect, heard, connected, attached, freed, misuse>>

-----------------------------------------------------------------------------
(* Calls and events. *)

used == {t \in Tickets : result[t].outcome # "unused"}

usable == state = "up"

\* Mutant: the check for an outstanding id is left to the native side.
already_outstanding_never(id) == FALSE

already_outstanding(id) == pending[id] # Nobody

\* send() and sendProtobuf() past their guards.
send(c) ==
  LET t == Cardinality(used) + 1
      refused == ~accepts(id_of(c))
  IN  /\ t \in Tickets
      /\ submit(id_of(c), t)
      /\ pending' = [pending EXCEPT ![future_id(c)] = IF refused THEN Nobody ELSE t]
      /\ result' = [result EXCEPT ![t] =
                      [by |-> Nobody, outcome |-> IF refused THEN "refused" ELSE "waiting"]]

\* A call of the application's; it throws where a guard fails.
Send(c) ==
  /\ usable /\ ~already_outstanding(future_id(c))
  /\ send(c)
  /\ UNCHANGED <<flow, reconnect, sent, heard, connected, attached, freed, misuse>>

\* The ticker calls gopro_ble_tick(): a keep-alive is due ...
KeepAlive ==
  /\ ticking /\ Len(port) <= MaxPort
  /\ submit(KeepAliveId, KaTicket)
  /\ Uses("session")
  /\ UNCHANGED <<flow, futures, reconnect, sent, heard, connected, attached, freed>>

\* ... or a command is overdue.  (What tick() does for several commands is
\* several of these steps: nothing else depends on their order.)
TimeOut(id) ==
  /\ ticking /\ native[id] # Nobody
  /\ native' = [native EXCEPT ![id] = Nobody]
  /\ sent' = sent \ {id}
  /\ port' = Append(port, Response(id, native[id], "kTimedOut"))
  /\ Uses("session")
  /\ UNCHANGED <<flow, futures, reconnect, heard, connected, attached, freed>>

\* A notification arrives and is fed to the session: the camera's answer to
\* what it heard.  It settles whatever is in flight under the id.
Reply(id) ==
  /\ connected /\ attached /\ id \in heard
  /\ heard' = heard \ {id}
  /\ IF id \in sent
     THEN /\ native' = [native EXCEPT ![id] = Nobody]
          /\ sent' = sent \ {id}
          /\ port' = Append(port, Response(id, native[id], "kResponded"))
     ELSE UNCHANGED <<session, port>>
  /\ Uses("session")
  /\ UNCHANGED <<flow, futures, reconnect, connected, attached, freed>>

\* Mutant: only replies complete a future.
completes_responded(e) == e.kind = "response" /\ e.outcome = "responded"

completes(e) == e.kind = "response"

\* What the camera takes a written packet for.
hears(e) == {id \in Ids : cmd_of[id].channel = e.channel /\ cmd_of[id].payload = e.bytes}

\* _onEvent(): complete the future under the id, if any; write to the camera
\* if the characteristic is there; what is not decoded is ignored, and the
\* rest goes to the streams, unless they are closed.
OnEvent ==
  /\ port # <<>> /\ ~freed /\ Head(port) # Turn
  /\ port' = Tail(port)
  /\ \E e \in {decode(Head(port).bytes)} :
         /\ IF completes(e) /\ e.id \in Ids /\ pending[e.id] # Nobody
            THEN /\ pending' = [pending EXCEPT ![e.id] = Nobody]
                 /\ result' = [result EXCEPT ![pending[e.id]] =
                                 [by |-> Head(port).by, outcome |-> e.outcome]]
            ELSE UNCHANGED futures
         /\ heard' = IF e.kind = "write" /\ attached /\ connected
                     THEN heard \cup hears(e) ELSE heard
  /\ UNCHANGED <<flow, reconnect, session, connected, attached, freed, misuse>>

\* _resolvePending().
resolvePending ==
  /\ pending' = [id \in Ids |-> Nobody]
  /\ result' = [t \in Tickets |-> IF \E id \in Ids : pending[id] = t
                                  THEN [by |-> t, outcome |-> "canceled"] ELSE result[t]]

-----------------------------------------------------------------------------
(* close().  startClose is its part up to the first await. *)

\* Mutant: the ticker is left running.
startClose_ticking ==
  /\ state' = "down"
  /\ ticking' = ticking
  /\ closePc' = "watch"

startClose ==
  /\ state' = "down"
  /\ ticking' = FALSE
  /\ closePc' = "watch"

Close ==
  /\ state # "down"
  /\ startClose
  /\ UNCHANGED <<futures, session, reconnect, port, heard, connected, attached,
                 dropPc, freed, misuse>>

\* The watchers are cancelled; then the session is told, and _detach() starts
\* on the subscriptions.
CloseWatched ==
  /\ closePc = "watch"
  /\ disconnect
  /\ closePc' = IF attached THEN "detach" ELSE "detached"
  /\ UNCHANGED <<futures, state, ticking, dropPc, reconnect, heard, connected,
                 attached, freed, misuse>>

\* _detach() has cancelled every subscription and empties the lists.  If
\* _onDrop() emptied them first, the iteration throws and close() ends here.
CloseDetach ==
  /\ closePc = "detach"
  /\ closePc' = IF attached THEN "detached" ELSE "threw"
  /\ attached' = FALSE
  /\ UNCHANGED <<futures, session, state, ticking, dropPc, reconnect, port, heard,
                 connected, freed, misuse>>

\* The zero-length delay: a timer message behind all that was posted.
CloseDelay ==
  /\ closePc = "detached"
  /\ closePc' = "turn"
  /\ port' = Append(port, Turn)
  /\ UNCHANGED <<futures, session, state, ticking, dropPc, reconnect, heard,
                 connected, attached, freed, misuse>>

\* Resolve what is left, destroy the session and the link machine, close the port.
CloseRelease ==
  /\ closePc = "turn" /\ port # <<>> /\ Head(port) = Turn
  /\ resolvePending
  /\ freed' = TRUE
  /\ port' = <<>>
  /\ native' = [id \in Ids |-> Nobody] /\ sent' = {}
  /\ closePc' = "streams"
  /\ UNCHANGED <<state, ticking, dropPc, reconnect, heard, connected, attached, misuse>>

\* The caller's streams are closed.
CloseStreams ==
  /\ closePc = "streams"
  /\ closePc' = "done"
  /\ UNCHANGED <<futures, session, state, ticking, dropPc, reconnect, port, heard,
                 connected, attached, freed, misuse>>

-----------------------------------------------------------------------------
(* Drops. *)

\* The link goes away, whatever is going on.
LinkDrop ==
  /\ connected
  /\ connected' = FALSE
  /\ heard' = {}
  /\ UNCHANGED <<flow, futures, session, reconnect, port, attached, freed, misuse>>

\* _onDrop(), called by a watcher or by the ticker's poll: give up if there is
\* to be no reconnection, else cancel everything and start _detach().
OnDrop ==
  /\ ~connected /\ state = "up"
  /\ IF reconnect
     THEN /\ state' = "reconnecting"
          /\ disconnect
          /\ dropPc' = "detach"
          /\ UNCHANGED <<ticking, closePc>>
     ELSE startClose /\ UNCHANGED <<session, port, dropPc>>
  /\ UNCHANGED <<futures, reconnect, heard, connected, attached, freed, misuse>>

\* _detach() ends; it throws if close() emptied the lists in between.
DropDetach ==
  /\ dropPc = "detach"
  /\ attached' = FALSE
  /\ IF attached THEN dropPc' = "bringUp" /\ resolvePending
                 ELSE dropPc' = "idle" /\ UNCHANGED futures
  /\ UNCHANGED <<session, state, ticking, closePc, reconnect, port, heard,
                 connected, freed, misuse>>

\* _bringUp() uses the link machine all along and returns or throws.
BringUp ==
  /\ dropPc = "bringUp"
  /\ \/ dropPc' = "attach" /\ connected' = TRUE
     \/ dropPc' = "caught" /\ UNCHANGED connected
  /\ Uses("link")
  /\ UNCHANGED <<futures, session, state, ticking, closePc, reconnect, port, heard,
                 attached, freed>>

\* _attach() fills the lists, then sends the status query; send() throws
\* unless the link is up.  After _attach() the link is declared up.
Attach ==
  /\ dropPc = "attach"
  /\ attached' = TRUE
  /\ Uses("session")
  /\ IF usable /\ ~already_outstanding(QueryId) /\ accepts(QueryId)
     THEN send(QueryCmd) /\ state' = "up" /\ dropPc' = "idle"
     ELSE dropPc' = "caught" /\ UNCHANGED <<futures, native, port, state>>
  /\ UNCHANGED <<sent, ticking, closePc, reconnect, heard, connected, freed>>

\* The catch clause: report, then close().
Caught ==
  /\ dropPc = "caught"
  /\ dropPc' = "idle"
  /\ misuse' = IF closePc = "done" THEN misuse \cup {"faults"} ELSE misuse
  /\ IF state # "down" THEN startClose ELSE UNCHANGED <<state, ticking, closePc>>
  /\ UNCHANGED <<futures, session, reconnect, port, heard, connected, attached, freed>>

-----------------------------------------------------------------------------
\* connect() has attached and sent the first status query.
Init ==
  /\ state = "up" /\ reconnect \in BOOLEAN
  /\ pending = [id \in Ids |-> IF id = QueryId THEN 1 ELSE Nobody]
  /\ native = pending
  /\ result = [t \in Tickets |-> [by |-> Nobody,
                                  outcome |-> IF t = 1 THEN "waiting" ELSE "unused"]]
  /\ sent = {} /\ port = <<>> /\ heard = {}
  /\ connected = TRUE /\ attached = TRUE /\ ticking = TRUE
  /\ dropPc = "idle" /\ closePc = "open" /\ freed = FALSE /\ misuse = {}

CloseStep == CloseWatched \/ CloseDetach \/ CloseDelay \/ CloseRelease \/ CloseStreams
DropStep  == DropDetach \/ BringUp \/ Attach \/ Caught

Next ==
  \/ \E c \in AppCmds : Send(c)
  \/ \E id \in Ids : Transmit(id) \/ TimeOut(id) \/ Reply(id)
  \/ KeepAlive \/ OnEvent \/ \E n \in Notices : Notify(n)
  \/ LinkDrop \/ OnDrop \/ DropStep
  \/ Close \/ CloseStep

Spec == Init /\ [][Next]_cameraVars

\* The isolate takes its messages and resumes its coroutines; the ticker polls
\* for drops and times out what is not answered (EveryCommandCompletes of
\* CommandQueue); bring-up has a deadline.  Nothing is assumed of the camera.
Fairness ==
  /\ WF_cameraVars(OnEvent)
  /\ WF_cameraVars(OnDrop)
  /\ WF_cameraVars(DropStep)
  /\ WF_cameraVars(CloseStep)
  /\ \A id \in Ids : WF_cameraVars(TimeOut(id))

FairSpec == Spec /\ Fairness

-----------------------------------------------------------------------------
(* Properties. *)

\* Types; every message in the port speaks for a submission.
TypeOK ==
  /\ state \in {"up", "reconnecting", "down"} /\ reconnect \in BOOLEAN
  /\ pending \in [Ids -> 0..MaxSends]
  /\ native \in [Ids -> 0..KaTicket]
  /\ result \in [Tickets -> [by : 0..KaTicket,
                             outcome : Range(BleOutcomes) \cup {"unused", "waiting", "refused"}]]
  /\ sent \subseteq Ids /\ heard \subseteq Ids
  /\ \A i \in DOMAIN port : port[i] # Turn /\ port[i].meant.kind = "response"
                           => port[i].by \in 1..KaTicket
  /\ connected \in BOOLEAN /\ attached \in BOOLEAN /\ ticking \in BOOLEAN
  /\ dropPc \in {"idle", "detach", "bringUp", "attach", "caught"}
  /\ closePc \in {"open", "watch", "detach", "detached", "turn", "streams", "done", "threw"}
  /\ freed \in BOOLEAN
  /\ misuse \subseteq {"session", "link", "faults"}

Answered(id) ==
  \E i \in DOMAIN port : /\ port[i] # Turn /\ port[i].meant.kind = "response"
                         /\ port[i].meant.id = id

\* No orphan: a future that still waits is in _pending, and its outcome is on
\* the way: the command is outstanding natively, or an outcome for its id is
\* in the port, or _onDrop() or close() is about to resolve everything.
NoOrphan ==
  \A t \in Tickets :
    result[t].outcome = "waiting" =>
      \E id \in Ids : /\ pending[id] = t
                      /\ \/ native[id] # Nobody \/ Answered(id)
                         \/ dropPc = "detach" /\ attached
                         \/ closePc \in {"watch", "detach", "detached", "turn"}

\* "one format written in two places": Dart makes of every event in the port
\* what the session meant, and a command is written to the characteristic it was
\* submitted on, which the queue only has from the width of its id.
EventsDecode ==
  \A i \in DOMAIN port : port[i] # Turn => decode(port[i].bytes) = port[i].meant

\* A future is completed with the outcome of its own submission, never with
\* that of an earlier one or of the keep-alive whose message came first.
OwnOutcome == \A t \in Tickets : result[t].by \in {Nobody, t}

\* Without reconnection close() is the end: once it has released the session,
\* the link machine and the port, no timer, notification or message uses them.
\* (With reconnection a climb may be under way: NothingUsedAfterRelease.)
ReleasedWithoutReconnect == ~reconnect => misuse = {}

\* CameraLink.down is "Terminal".
DownIsTerminal == [][state = "down" => state' = "down"]_cameraVars

\* Every future completes: the camera may never answer, the link may drop at
\* any moment and the application may close at any moment.
EveryFutureCompletes ==
  \A t \in Tickets : result[t].outcome = "waiting" ~> result[t].outcome # "waiting"

-----------------------------------------------------------------------------
(* What the documentation says and the code does not do. *)

\* "A link that drops afterwards is re-established automatically": once
\* _bringUp() has returned a link and nobody has called close(), the camera
\* goes up.
ReconnectCompletes ==
  [][dropPc = "attach" /\ dropPc' # "attach" /\ state = "reconnecting"
     => state' = "up"]_cameraVars

\* CameraLink.down means "Given up": once close() has released the native
\* handles nothing uses them.
NothingUsedAfterRelease == misuse = {}

\* close() lets the handle go after a turn of the event loop: it always
\* gets there.
CloseReleases == state = "down" ~> freed

=============================================================================
