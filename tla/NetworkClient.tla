--------------------------- MODULE NetworkClient ---------------------------
(***************************************************************************)
(* NetworkClient (lib/src/wifi/network_client.dart): scan(), connect() and *)
(* connectNew() over a GoProBleCamera.  A request is answered at once; how *)
(* it ends comes later, or sooner, as a push that names no attempt.        *)
(*                                                                         *)
(* The camera and the link are external.  Replies and pushes reach the     *)
(* isolate in the order they were sent.  A future's error with no handler  *)
(* attached is an unhandled error of the program.                          *)
(***************************************************************************)
EXTENDS Naturals, Sequences, FiniteSets

CONSTANTS
  Attempts,   \* calls the application makes, at any time
  Timeout,    \* the timeout of a call, in ticks
  MaxDrops,   \* bound: times the link goes down
  MaxWire     \* bound: messages on their way at once

ASSUME NetworkAssumption ==
  /\ Timeout \in Nat \ {0} /\ {MaxDrops, MaxWire} \subseteq Nat

VARIABLES
  \* The link and the camera.
  link,       \* "up", "reconnecting", "down" (close() has run), "closed" (the streams too)
  drops,
  wire,       \* replies and pushes on their way
  job,        \* job[a]: what the camera does for a
  answered,   \* attempts the camera has answered
  \* The calls.
  action,     \* action[a]: the request's action id
  pc,         \* pc[a]: "idle", awaiting the "reply" or the "end", "done"
  settled,    \* settled[a]: the future that listens for the push
  age,        \* ticks since a call began
  outcome,
  unhandled,  \* attempts whose future failed without a handler, and how
  by,         \* history: the attempt whose push settled a call
  missed      \* history: calls that heard of their own end and go on

linkVars == <<link, drops, wire, job, answered>>
callVars == <<action, pc, settled, age, outcome, unhandled, by, missed>>
networkVars == <<linkVars, callVars>>

Actions == {"scan", "connect", "connectNew"}
Ends == {"ok", "failed", "malformed", "timeout", "closed"}
Pushes == {"started", "ok", "failed", "malformed"}
pending(act) == {a \in Attempts : pc[a] = "reply" /\ action[a] = act}

-----------------------------------------------------------------------------
(* The futures. *)

\* Who handles an error of a's future: the call that awaits it, or the
\* catchError() that scan() leaves behind when its request fails.
handled(a) == pc[a] = "end" \/ (pc[a] = "done" /\ action[a] = "scan")

\* The futures of the attempts in S complete with `how`; the calls that await
\* them return or throw.
settle(S, how) ==
  /\ settled' = [a \in Attempts |-> IF a \in S THEN how ELSE settled[a]]
  /\ LET awaited == {a \in S : pc[a] = "end"}
     IN  /\ pc' = [a \in Attempts |-> IF a \in awaited THEN "done" ELSE pc[a]]
         /\ outcome' = [a \in Attempts |-> IF a \in awaited THEN how ELSE outcome[a]]
  /\ UNCHANGED <<action, age>>
  /\ unhandled' = unhandled \cup
       IF how = "ok" THEN {} ELSE {<<a, how>> : a \in {b \in S : ~handled(b)}}

listening == {a \in Attempts : settled[a] = "waiting"}

\* firstWhere() of scan() waits for SCANNING_SUCCESS; that of
\* _awaitProvisioned() for a state that is not pending.  What fromBuffer()
\* throws of a malformed notification ends either.
ends(a, what) == what \in {"ok", "malformed"} \/ (what = "failed" /\ action[a] # "scan")

\* Both ways of connecting end with the same notification.
is_notification(a, m) == action[a] = "scan" <=> action[m.of] = "scan"

-----------------------------------------------------------------------------
(* The calls. *)

\* The request of a fails: the call throws, its future is left.
request_failed(S, how) ==
  /\ pc' = [a \in Attempts |-> IF a \in S THEN "done" ELSE pc[a]]
  /\ outcome' = [a \in Attempts |-> IF a \in S THEN how ELSE outcome[a]]
  /\ UNCHANGED <<action, age, settled, unhandled>>

\* Mutant: the call listens once it has the reply.
subscribed_late == "none"

subscribed == "waiting"

may_send(a) == link = "up" /\ pending(action[a]) = {}

\* The body of a call to its first await: it listens, then asks.  sendProtobuf()
\* throws when the link is not up or the same request is outstanding; the
\* future of a closed stream fails at once, before scan() can catch it.
Start(a) ==
  /\ pc[a] = "idle"
  /\ settled' = [settled EXCEPT ![a] = IF link = "closed" THEN "closed" ELSE subscribed]
  /\ age' = [age EXCEPT ![a] = 0]
  /\ IF may_send(a)
     THEN /\ pc' = [pc EXCEPT ![a] = "reply"]
          /\ job' = [job EXCEPT ![a] = "asked"]
          /\ UNCHANGED <<outcome, unhandled>>
     ELSE /\ pc' = [pc EXCEPT ![a] = "done"]
          /\ outcome' = [outcome EXCEPT ![a] = "request"]
          /\ unhandled' = IF link = "closed"
                          THEN unhandled \cup {<<a, "at once">>} ELSE unhandled
          /\ UNCHANGED job
  /\ UNCHANGED <<link, drops, wire, answered, action, by, missed>>

\* The reply resolves the request outstanding under its id, whoever it was for.
DeliverReply ==
  /\ wire # <<>> /\ Head(wire).type = "reply" /\ link = "up"
  /\ wire' = Tail(wire)
  /\ LET m == Head(wire)
         S == pending(action[m.of])
         over == {a \in S : settled[a] \in Ends}
     IN  IF m.what = "refused" THEN request_failed(S, "refused")
         ELSE /\ pc' = [a \in Attempts |-> IF a \in over THEN "done"
                                          ELSE IF a \in S THEN "end" ELSE pc[a]]
              /\ outcome' = [a \in Attempts |-> IF a \in over THEN settled[a] ELSE outcome[a]]
              /\ settled' = [a \in Attempts |-> IF a \in S \ over THEN "waiting" ELSE settled[a]]
              /\ UNCHANGED <<action, age, unhandled>>
  /\ UNCHANGED <<link, drops, job, answered, by, missed>>

DeliverPush ==
  /\ wire # <<>> /\ Head(wire).type = "push" /\ link = "up"
  /\ wire' = Tail(wire)
  /\ LET m == Head(wire)
         S == {a \in listening : is_notification(a, m) /\ ends(a, m.what)}
     IN  /\ settle(S, m.what)
         /\ by' = [a \in Attempts |-> IF a \in S THEN m.of ELSE by[a]]
         /\ missed' = missed \cup
              IF ends(m.of, m.what) /\ m.of \notin S /\ settled[m.of] \notin Ends
              THEN {m.of} ELSE {}
  /\ UNCHANGED <<link, drops, job, answered>>

\* The native queue gives up on the request.
RequestExpires(a) ==
  /\ pc[a] = "reply"
  /\ request_failed({a}, "request")
  /\ UNCHANGED <<linkVars, by, missed>>

\* Mutant: there is no timer.
timer_over_never(a) == FALSE

timer_over(a) == age[a] = Timeout

\* The timer of the future.
Expires(a) ==
  /\ a \in listening /\ timer_over(a)
  /\ settle({a}, "timeout")
  /\ UNCHANGED <<linkVars, by, missed>>

-----------------------------------------------------------------------------
(* The transport's connection. *)

\* on_disconnect() cancels what is outstanding; the streams stay open.
Drop ==
  /\ link = "up" /\ drops < MaxDrops
  /\ link' = "reconnecting" /\ drops' = drops + 1 /\ wire' = <<>>
  /\ request_failed({a \in Attempts : pc[a] = "reply"}, "request")
  /\ UNCHANGED <<job, answered, by, missed>>

Reattach ==
  /\ link = "reconnecting" /\ link' = "up"
  /\ UNCHANGED <<drops, wire, job, answered, callVars>>

\* Mutant: close() closes the streams before it resolves the requests.
close_first_streams ==
  /\ link' = "closed"
  /\ settle(listening, "closed")

close_first_requests ==
  /\ link' = "down"
  /\ request_failed({a \in Attempts : pc[a] = "reply"}, "request")

\* close(): first every outstanding request is resolved ...
Close ==
  /\ link \in {"up", "reconnecting"}
  /\ wire' = <<>>
  /\ close_first_requests
  /\ UNCHANGED <<drops, job, answered, by, missed>>

\* ... then the streams are closed, and firstWhere() throws.
CloseStreams ==
  /\ link = "down" /\ link' = "closed"
  /\ settle(listening, "closed")
  /\ UNCHANGED <<drops, wire, job, answered, by, missed>>

-----------------------------------------------------------------------------
(* The camera and time. *)

message(type, a, what) == [type |-> type, of |-> a, what |-> what]
sent(m) == IF link = "up" THEN Append(wire, m) ELSE wire

\* The camera takes a request up or refuses it ...
Begin(a) ==
  /\ job[a] = "asked" /\ Len(wire) < MaxWire
  /\ \/ job' = [job EXCEPT ![a] = "running"] /\ UNCHANGED <<wire, answered>>
     \/ /\ job' = [job EXCEPT ![a] = "over"]
        /\ wire' = sent(message("reply", a, "refused")) /\ answered' = answered \cup {a}
  /\ UNCHANGED <<link, drops, callVars>>

\* ... answers it at any time, or never ...
Answer(a) ==
  /\ job[a] # "asked" /\ job[a] # "none" /\ a \notin answered /\ Len(wire) < MaxWire
  /\ answered' = answered \cup {a}
  /\ wire' = sent(message("reply", a, "accepted"))
  /\ UNCHANGED <<link, drops, job, callVars>>

\* ... and reports how it goes.
Report(a) ==
  /\ job[a] \in {"running", "reported"} /\ Len(wire) < MaxWire
  /\ \E what \in Pushes :
       /\ what \in {"started", "malformed"} => job[a] = "running"
       /\ job' = [job EXCEPT ![a] =
                     IF what \in {"started", "malformed"} THEN "reported" ELSE "over"]
       /\ wire' = sent(message("push", a, what))
  /\ UNCHANGED <<link, drops, answered, callVars>>

Tick ==
  /\ \E a \in listening : age[a] < Timeout
  /\ \A a \in listening : ~timer_over(a)
  /\ age' = [a \in Attempts |-> IF a \in listening /\ age[a] < Timeout THEN age[a] + 1 ELSE age[a]]
  /\ UNCHANGED <<linkVars, action, pc, settled, outcome, unhandled, by, missed>>

-----------------------------------------------------------------------------
NetworkInit ==
  /\ link = "up" /\ drops = 0 /\ wire = <<>>
  /\ job = [a \in Attempts |-> "none"] /\ answered = {}
  /\ action \in [Attempts -> Actions]
  /\ pc = [a \in Attempts |-> "idle"] /\ settled = [a \in Attempts |-> "none"]
  /\ age = [a \in Attempts |-> 0] /\ outcome = [a \in Attempts |-> "none"]
  /\ unhandled = {} /\ by = [a \in Attempts |-> a] /\ missed = {}

Deliver == DeliverReply \/ DeliverPush

NetworkNext ==
  \/ Deliver \/ Drop \/ Reattach \/ Close \/ CloseStreams \/ Tick
  \/ \E a \in Attempts :
       Start(a) \/ RequestExpires(a) \/ Expires(a) \/ Begin(a) \/ Answer(a) \/ Report(a)

NetworkSpec == NetworkInit /\ [][NetworkNext]_networkVars

\* The native queue and the timers always come to an end, the isolate runs;
\* nothing makes the camera answer.
FairNetworkSpec ==
  /\ NetworkSpec
  /\ WF_networkVars(Deliver) /\ WF_networkVars(Tick) /\ WF_networkVars(CloseStreams)
  /\ \A a \in Attempts : WF_networkVars(RequestExpires(a)) /\ WF_networkVars(Expires(a))

-----------------------------------------------------------------------------
(* Properties. *)

\* Types, and at most one request outstanding per correlation id.
NetworkTypeOK ==
  /\ link \in {"up", "reconnecting", "down", "closed"} /\ drops \in 0..MaxDrops
  /\ job \in [Attempts -> {"none", "asked", "running", "reported", "over"}]
  /\ pc \in [Attempts -> {"idle", "reply", "end", "done"}]
  /\ settled \in [Attempts -> Ends \cup {"none", "waiting"}]
  /\ outcome \in [Attempts -> Ends \cup {"none", "request", "refused"}]
  /\ age \in [Attempts -> 0..Timeout] /\ by \in [Attempts -> Attempts]
  /\ \A act \in Actions : Cardinality(pending(act)) <= 1

\* "a notification nobody is listening for is simply gone": a call never waits
\* on after the end of its own attempt was delivered, also when that came
\* before the reply.
NothingMissed == \A a \in missed : pc[a] = "done"

\* scan() catches its future "If the request fails", so that it does not
\* complete "later with an unhandled error -- the stream closes when the camera
\* does".  A scan begun before the streams close leaves no such error, whenever
\* close() runs and whatever the link does, nor any error once its request has
\* failed.  It leaves one only when its timer runs out, or a malformed
\* notification comes, while the reply is still awaited.
ScanErrorsHandled ==
  [][\A a \in Attempts, how \in Ends \cup {"at once"} :
       action[a] = "scan" /\ <<a, how>> \in unhandled' \ unhandled
       => \/ how = "at once" /\ link = "closed"
          \/ how \in {"timeout", "malformed"} /\ pc[a] = "reply"]_networkVars

\* Every call ends, whatever the camera does.
CallsEnd == \A a \in Attempts : pc[a] = "reply" ~> pc[a] = "done"

-----------------------------------------------------------------------------
(* What the documentation says and the code does not do. *)

\* network_client.dart: "a caller that never awaits this must not be left with
\* an unhandled error when the stream closes"; connect() has no catchError(),
\* and scan() attaches its own only once the request has failed.
ErrorsHandled == unhandled = {}

\* "Nothing correlates the two but the id, so the notification has to be
\* watched for": a call reports the end of its own attempt; no id is compared.
OwnResult == \A a \in Attempts : outcome[a] \in {"ok", "failed"} => by[a] = a

=============================================================================
