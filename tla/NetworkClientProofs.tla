------------------------ MODULE NetworkClientProofs ------------------------
(***************************************************************************)
(* Proofs about NetworkClient, for any set of calls, any timeout and any   *)
(* number of drops and of messages on their way.                           *)
(***************************************************************************)
EXTENDS NetworkClient, FiniteSetTheorems, SequenceTheorems, TLAPS

-----------------------------------------------------------------------------
(* The inductive invariant. *)

Messages == [type : {"reply", "push"}, of : Attempts,
             what : Pushes \cup {"refused", "accepted"}]

\* The types without their cardinality, and those of what NetworkTypeOK leaves out.
CallTypes ==
  /\ link \in {"up", "reconnecting", "down", "closed"} /\ drops \in 0..MaxDrops
  /\ wire \in Seq(Messages)
  /\ job \in [Attempts -> {"none", "asked", "running", "reported", "over"}]
  /\ action \in [Attempts -> Actions]
  /\ pc \in [Attempts -> {"idle", "reply", "end", "done"}]
  /\ settled \in [Attempts -> Ends \cup {"none", "waiting"}]
  /\ outcome \in [Attempts -> Ends \cup {"none", "request", "refused"}]
  /\ age \in [Attempts -> 0..Timeout] /\ by \in [Attempts -> Attempts]

\* A call that has begun has a future, and the camera knows of no other call.
Begun ==
  /\ \A a \in Attempts : settled[a] = "none" <=> pc[a] = "idle"
  /\ \A a \in Attempts : job[a] # "none" => pc[a] # "idle"
  /\ \A i \in 1..Len(wire) : job[wire[i].of] # "none"

\* One request per correlation id.
OneEach ==
  \A a, b \in Attempts : pc[a] = "reply" /\ pc[b] = "reply" /\ action[a] = action[b] => a = b

\* close() resolves the requests before it closes the streams.
DownHasNoRequest == link \in {"down", "closed"} => \A a \in Attempts : pc[a] # "reply"

\* No call is even passed over by the push it waits for.
NoneMissed == missed = {}

NetworkInv == CallTypes /\ Begun /\ OneEach /\ DownHasNoRequest /\ NoneMissed

-----------------------------------------------------------------------------
(* The wire. *)

LEMMA WireTail ==
  ASSUME wire \in Seq(Messages), wire # <<>>
  PROVE  /\ Head(wire) \in Messages /\ Head(wire) = wire[1] /\ 1 \in 1..Len(wire)
         /\ Tail(wire) \in Seq(Messages)
         /\ \A i \in 1..Len(Tail(wire)) :
              Tail(wire)[i] = wire[i + 1] /\ i + 1 \in 1..Len(wire)
BY HeadTailProperties, EmptySeq

LEMMA WireOf ==
  ASSUME wire \in Seq(Messages)
  PROVE  \A i \in 1..Len(wire) : wire[i].of \in Attempts
<1>1. \A i \in 1..Len(wire) : wire[i] \in Messages
  BY ElementOfSeq
<1> QED BY <1>1 DEF Messages

LEMMA WireSent ==
  ASSUME wire \in Seq(Messages), NEW m \in Messages
  PROVE  /\ sent(m) \in Seq(Messages)
         /\ \A i \in 1..Len(sent(m)) :
              sent(m)[i] = m \/ \E j \in 1..Len(wire) : sent(m)[i] = wire[j]
BY AppendProperties DEF sent

LEMMA MessageType ==
  ASSUME NEW type \in {"reply", "push"}, NEW a \in Attempts,
         NEW what \in Pushes \cup {"refused", "accepted"}
  PROVE  message(type, a, what) \in Messages /\ message(type, a, what).of = a
BY DEF message, Messages

-----------------------------------------------------------------------------
(* The invariant is inductive. *)

LEMMA NetworkInitial == NetworkInit => NetworkInv
<1> SUFFICES ASSUME NetworkInit PROVE NetworkInv
  OBVIOUS
<1> USE NetworkAssumption DEF NetworkInit
<1>1. CallTypes
  <2>1. wire \in Seq(Messages) /\ Len(wire) = 0
    BY EmptySeq
  <2> QED BY <2>1 DEF CallTypes, Ends
<1>2. Begun
  BY EmptySeq DEF Begun
<1>3. OneEach /\ DownHasNoRequest /\ NoneMissed
  BY DEF OneEach, DownHasNoRequest, NoneMissed
<1> QED BY <1>1, <1>2, <1>3 DEF NetworkInv

\* The body of a call up to its first await.
LEMMA StartKeeps ==
  ASSUME NetworkInv, NEW a \in Attempts, Start(a)
  PROVE  NetworkInv'
<1> USE NetworkAssumption DEF NetworkInv
<1>1. /\ pc[a] = "idle" /\ UNCHANGED <<link, drops, wire, action, by, missed>>
      /\ age' = [age EXCEPT ![a] = 0]
      /\ \E f \in {"closed", "waiting"} : settled' = [settled EXCEPT ![a] = f]
  BY DEF Start, subscribed
<1>2. \E p \in {"reply", "done"} :
        /\ pc' = [pc EXCEPT ![a] = p]
        /\ p = "reply" => link = "up" /\ pending(action[a]) = {}
  BY DEF Start, may_send
<1>3. /\ job' = job \/ job' = [job EXCEPT ![a] = "asked"]
      /\ outcome' = outcome \/ outcome' = [outcome EXCEPT ![a] = "request"]
      /\ unhandled' \subseteq unhandled \cup {<<a, "at once">>}
  <2>1. CASE may_send(a)
    BY <2>1 DEF Start
  <2>2. CASE ~may_send(a)
    BY <2>2 DEF Start
  <2> QED BY <2>1, <2>2
<1>4. CallTypes'
  <2>1. /\ pc' \in [Attempts -> {"idle", "reply", "end", "done"}]
        /\ settled' \in [Attempts -> Ends \cup {"none", "waiting"}]
        /\ age' \in [Attempts -> 0..Timeout]
    BY <1>1, <1>2 DEF CallTypes, Ends
  <2>2. job' \in [Attempts -> {"none", "asked", "running", "reported", "over"}]
    BY <1>3 DEF CallTypes
  <2>3. outcome' \in [Attempts -> Ends \cup {"none", "request", "refused"}]
    BY <1>3 DEF CallTypes
  <2> QED BY <1>1, <2>1, <2>2, <2>3 DEF CallTypes
<1>5. Begun'
  <2> PICK p \in {"reply", "done"} : pc' = [pc EXCEPT ![a] = p]
    BY <1>2
  <2>1. pc'[a] # "idle" /\ \A b \in Attempts \ {a} : pc'[b] = pc[b]
    BY DEF CallTypes
  <2>2. settled'[a] # "none" /\ \A b \in Attempts \ {a} : settled'[b] = settled[b]
    BY <1>1 DEF CallTypes
  <2>3. \A b \in Attempts : /\ b # a => job'[b] = job[b]
                            /\ job[b] # "none" => job'[b] # "none"
    BY <1>3 DEF CallTypes
  <2>4. \A i \in 1..Len(wire) : wire[i].of \in Attempts
    BY WireOf DEF CallTypes
  <2> QED BY <1>1, <2>1, <2>2, <2>3, <2>4 DEF Begun
<1>6. OneEach' /\ DownHasNoRequest'
  <2> PICK p \in {"reply", "done"} :
             /\ pc' = [pc EXCEPT ![a] = p]
             /\ p = "reply" => link = "up" /\ pending(action[a]) = {}
    BY <1>2
  <2>1. pc'[a] = p /\ \A b \in Attempts \ {a} : pc'[b] = pc[b]
    BY DEF CallTypes
  <2>2. p = "reply" => \A b \in Attempts : pc[b] = "reply" => action[b] # action[a]
    BY DEF pending
  <2> QED BY <1>1, <2>1, <2>2 DEF OneEach, DownHasNoRequest
<1>7. NoneMissed'
  BY <1>1, <1>3 DEF NoneMissed
<1> QED BY <1>4, <1>5, <1>6, <1>7

\* A request that fails leaves its future as it is.
LEMMA RequestFailedKeeps ==
  ASSUME NetworkInv, NEW S \in SUBSET Attempts, NEW how \in {"request", "refused"},
         \A a \in S : pc[a] = "reply", request_failed(S, how),
         UNCHANGED <<job, by, missed>>,
         link' \in {"up", "reconnecting", "down", "closed"},
         link' \in {"down", "closed"}
           => link = link' \/ \A a \in Attempts : pc[a] = "reply" => a \in S,
         drops' \in 0..MaxDrops, wire' \in Seq(Messages),
         \A i \in 1..Len(wire') : job[wire'[i].of] # "none"
  PROVE  NetworkInv'
<1> USE NetworkAssumption DEF request_failed, NetworkInv
<1>1. CallTypes'
  BY DEF CallTypes, Ends
<1>2. Begun'
  BY DEF CallTypes, Begun
<1>3. OneEach'
  BY DEF CallTypes, OneEach
<1>4. DownHasNoRequest'
  BY DEF CallTypes, DownHasNoRequest
<1>5. NoneMissed'
  BY DEF CallTypes, NoneMissed
<1> QED BY <1>1, <1>2, <1>3, <1>4, <1>5

\* Futures that listen complete.
LEMMA SettleKeeps ==
  ASSUME NetworkInv, NEW S \in SUBSET listening, NEW how, S # {} => how \in Ends,
         how = "closed" => link = "down",
         settle(S, how), UNCHANGED <<job, drops>>, missed' = missed,
         by' \in [Attempts -> Attempts],
         link' = link \/ (link = "down" /\ link' = "closed"),
         wire' \in Seq(Messages), \A i \in 1..Len(wire') : job[wire'[i].of] # "none"
  PROVE  NetworkInv'
<1> USE NetworkAssumption DEF settle, NetworkInv
<1>0. S \subseteq Attempts /\ \A a \in S : settled[a] = "waiting" /\ pc[a] # "idle"
  BY DEF listening, Begun
<1>1. CallTypes'
  BY <1>0 DEF CallTypes, Ends
<1>2. Begun'
  BY <1>0 DEF CallTypes, Begun, Ends
<1>3. OneEach'
  BY DEF CallTypes, OneEach
<1>4. DownHasNoRequest'
  BY DEF CallTypes, DownHasNoRequest
<1>5. NoneMissed'
  BY DEF NoneMissed
<1> QED BY <1>1, <1>2, <1>3, <1>4, <1>5

\* The camera works on, or says something.
LEMMA CameraKeeps ==
  ASSUME NetworkInv, UNCHANGED <<link, drops, callVars>>,
         NEW a \in Attempts, job[a] # "none",
         NEW j \in {"asked", "running", "reported", "over"}, job' = [job EXCEPT ![a] = j],
         NEW m \in Messages, m.of = a, wire' = wire \/ wire' = sent(m)
  PROVE  NetworkInv'
<1> USE DEF NetworkInv, callVars
<1>1. /\ wire' \in Seq(Messages)
      /\ \A i \in 1..Len(wire') :
           wire'[i] = m \/ \E k \in 1..Len(wire) : wire'[i] = wire[k]
  BY WireSent DEF CallTypes
<1>2. \A b \in Attempts : job[b] # "none" <=> job'[b] # "none"
  BY DEF CallTypes
<1>3. \A i \in 1..Len(wire') : job[wire'[i].of] # "none" /\ wire'[i].of \in Attempts
  <2>1. \A k \in 1..Len(wire) : wire[k].of \in Attempts /\ job[wire[k].of] # "none"
    BY WireOf DEF Begun, CallTypes
  <2> TAKE i \in 1..Len(wire')
  <2>2. wire'[i] = m \/ \E k \in 1..Len(wire) : wire'[i] = wire[k]
    BY <1>1
  <2> QED BY <2>1, <2>2
<1>4. CallTypes'
  <2>1. job' \in [Attempts -> {"none", "asked", "running", "reported", "over"}]
    BY DEF CallTypes
  <2> QED BY <1>1, <2>1 DEF CallTypes
<1>5. Begun'
  BY <1>2, <1>3 DEF Begun
<1>6. OneEach' /\ DownHasNoRequest' /\ NoneMissed'
  BY DEF OneEach, DownHasNoRequest, NoneMissed
<1> QED BY <1>4, <1>5, <1>6

LEMMA BeginKeeps ==
  ASSUME NetworkInv, NEW a \in Attempts, Begin(a)
  PROVE  NetworkInv'
<1> DEFINE m == message("reply", a, "refused")
<1>1. m \in Messages /\ m.of = a
  BY MessageType
<1> HIDE DEF m
<1>2. \/ job' = [job EXCEPT ![a] = "running"] /\ wire' = wire
      \/ job' = [job EXCEPT ![a] = "over"] /\ wire' = sent(m)
  BY DEF Begin, m
<1>3. job[a] # "none" /\ UNCHANGED <<link, drops, callVars>>
  BY DEF Begin
<1> QED BY <1>1, <1>2, <1>3, CameraKeeps

LEMMA AnswerKeeps ==
  ASSUME NetworkInv, NEW a \in Attempts, Answer(a)
  PROVE  NetworkInv'
<1> DEFINE m == message("reply", a, "accepted")
<1>1. m \in Messages /\ m.of = a
  BY MessageType
<1>2. wire' = sent(m)
  BY DEF Answer
<1> HIDE DEF m
<1>3. job[a] \in {"asked", "running", "reported", "over"} /\ job' = [job EXCEPT ![a] = job[a]]
  BY DEF Answer, NetworkInv, CallTypes
<1> QED BY <1>1, <1>2, <1>3, CameraKeeps DEF Answer

LEMMA ReportKeeps ==
  ASSUME NetworkInv, NEW a \in Attempts, Report(a)
  PROVE  NetworkInv'
<1> PICK what \in Pushes :
           /\ job' = [job EXCEPT ![a] =
                         IF what \in {"started", "malformed"} THEN "reported" ELSE "over"]
           /\ wire' = sent(message("push", a, what))
  BY DEF Report
<1> DEFINE m == message("push", a, what)
<1>1. m \in Messages /\ m.of = a
  BY MessageType
<1>2. wire' = sent(m)
  OBVIOUS
<1> HIDE DEF m
<1>3. \E j \in {"asked", "running", "reported", "over"} : job' = [job EXCEPT ![a] = j]
  OBVIOUS
<1> QED BY <1>1, <1>2, <1>3, CameraKeeps DEF Report

\* What is left of the wire when a message is taken from it.
LEMMA WireTaken ==
  ASSUME NetworkInv, wire # <<>>, wire' = Tail(wire)
  PROVE  /\ wire' \in Seq(Messages) /\ \A i \in 1..Len(wire') : job[wire'[i].of] # "none"
         /\ Head(wire).of \in Attempts /\ job[Head(wire).of] # "none"
         /\ Head(wire).what \in Pushes \cup {"refused", "accepted"}
<1>1. wire \in Seq(Messages) /\ \A i \in 1..Len(wire) : job[wire[i].of] # "none"
  BY DEF NetworkInv, CallTypes, Begun
<1> QED BY <1>1, WireTail DEF Messages

\* A reply: the calls that wait under its id throw, return, or wait on for the end.
LEMMA DeliverReplyKeeps ==
  ASSUME NetworkInv, DeliverReply
  PROVE  NetworkInv'
<1> DEFINE m == Head(wire)
           S == pending(action[m.of])
           over == {a \in S : settled[a] \in Ends}
<1>1. /\ wire # <<>> /\ wire' = Tail(wire) /\ link = "up"
      /\ UNCHANGED <<link, drops, job, by, missed>>
  BY DEF DeliverReply
<1>2. wire' \in Seq(Messages) /\ \A i \in 1..Len(wire') : job[wire'[i].of] # "none"
  BY <1>1, WireTaken
<1>3. S \in SUBSET Attempts /\ \A a \in S : pc[a] = "reply"
  BY DEF pending
<1>4. link' \in {"up", "reconnecting", "down", "closed"} /\ drops' \in 0..MaxDrops
  BY <1>1 DEF NetworkInv, CallTypes
<1>5. CASE m.what = "refused"
  <2>1. request_failed(S, "refused")
    BY <1>5 DEF DeliverReply
  <2> HIDE DEF S
  <2> QED BY <1>1, <1>2, <1>3, <1>4, <2>1, RequestFailedKeeps
<1>6. CASE m.what # "refused"
  <2>1. /\ pc' = [a \in Attempts |-> IF a \in over THEN "done"
                                     ELSE IF a \in S THEN "end" ELSE pc[a]]
        /\ outcome' = [a \in Attempts |-> IF a \in over THEN settled[a] ELSE outcome[a]]
        /\ settled' = [a \in Attempts |-> IF a \in S \ over THEN "waiting" ELSE settled[a]]
        /\ UNCHANGED <<action, age, unhandled>>
    BY <1>6 DEF DeliverReply
  <2>2. over \subseteq S /\ \A a \in over : settled[a] \in Ends
    OBVIOUS
  <2> HIDE DEF S, over
  <2>3. CallTypes'
    BY <1>1, <1>2, <1>4, <2>1, <2>2 DEF NetworkInv, CallTypes
  <2>4. Begun'
    BY <1>1, <1>2, <1>3, <2>1, <2>2 DEF NetworkInv, CallTypes, Begun, Ends
  <2>5. OneEach' /\ DownHasNoRequest'
    BY <1>1, <1>3, <2>1, <2>2 DEF NetworkInv, OneEach, DownHasNoRequest
  <2>6. NoneMissed'
    BY <1>1, <2>1 DEF NetworkInv, NoneMissed
  <2> QED BY <2>3, <2>4, <2>5, <2>6 DEF NetworkInv
<1> QED BY <1>5, <1>6

\* A push ends the futures it is for; the call whose end it tells is among them
\* or has ended.
LEMMA DeliverPushKeeps ==
  ASSUME NetworkInv, DeliverPush
  PROVE  NetworkInv'
<1> DEFINE m == Head(wire)
           S == {a \in listening : is_notification(a, m) /\ ends(a, m.what)}
<1>1. /\ wire # <<>> /\ wire' = Tail(wire) /\ UNCHANGED <<link, drops, job>>
      /\ settle(S, m.what)
      /\ by' = [a \in Attempts |-> IF a \in S THEN m.of ELSE by[a]]
      /\ missed' = missed \cup
           IF ends(m.of, m.what) /\ m.of \notin S /\ settled[m.of] \notin Ends
           THEN {m.of} ELSE {}
  BY DEF DeliverPush
<1>2. /\ wire' \in Seq(Messages) /\ \A i \in 1..Len(wire') : job[wire'[i].of] # "none"
      /\ m.of \in Attempts /\ job[m.of] # "none"
      /\ m.what \in Pushes \cup {"refused", "accepted"}
  BY <1>1, WireTaken
<1>3. settled[m.of] \in Ends \cup {"waiting"}
  BY <1>2 DEF NetworkInv, Begun, CallTypes
<1>4. settled[m.of] = "waiting" /\ ends(m.of, m.what) => m.of \in S
  BY <1>2 DEF listening, is_notification
<1>5. missed' = missed
  BY <1>1, <1>3, <1>4 DEF NetworkInv, NoneMissed
<1>6. S \in SUBSET listening /\ (S # {} => m.what \in Ends) /\ m.what # "closed"
  BY <1>2 DEF ends, Ends, Pushes
<1>7. by' \in [Attempts -> Attempts]
  BY <1>1, <1>2 DEF NetworkInv, CallTypes
<1> HIDE DEF m, S
<1> QED BY <1>1, <1>2, <1>5, <1>6, <1>7, SettleKeeps

LEMMA NetworkStep == NetworkInv /\ [NetworkNext]_networkVars => NetworkInv'
<1> SUFFICES ASSUME NetworkInv, [NetworkNext]_networkVars PROVE NetworkInv'
  OBVIOUS
<1>0. /\ wire \in Seq(Messages) /\ \A i \in 1..Len(wire) : job[wire[i].of] # "none"
      /\ drops \in 0..MaxDrops /\ MaxDrops \in Nat /\ by \in [Attempts -> Attempts]
      /\ link \in {"up", "reconnecting", "down", "closed"}
  BY NetworkAssumption DEF NetworkInv, CallTypes, Begun
<1>1. CASE DeliverReply
  BY <1>1, DeliverReplyKeeps
<1>2. CASE DeliverPush
  BY <1>2, DeliverPushKeeps
<1>3. CASE Drop
  <2> DEFINE S == {a \in Attempts : pc[a] = "reply"}
  <2>1. /\ S \in SUBSET Attempts /\ \A a \in S : pc[a] = "reply"
        /\ wire' = <<>> /\ drops' \in 0..MaxDrops /\ link' = "reconnecting"
        /\ request_failed(S, "request") /\ UNCHANGED <<job, by, missed>>
    BY <1>0, <1>3 DEF Drop
  <2>2. wire' \in Seq(Messages) /\ Len(wire') = 0
    BY <2>1, EmptySeq
  <2> HIDE DEF S
  <2> QED BY <2>1, <2>2, RequestFailedKeeps
<1>4. CASE Close
  <2> DEFINE S == {a \in Attempts : pc[a] = "reply"}
  <2>1. /\ S \in SUBSET Attempts /\ \A a \in Attempts : pc[a] = "reply" <=> a \in S
        /\ wire' = <<>> /\ drops' \in 0..MaxDrops /\ link' = "down"
        /\ request_failed(S, "request") /\ UNCHANGED <<job, by, missed>>
    BY <1>0, <1>4 DEF Close, close_first_requests
  <2>2. wire' \in Seq(Messages) /\ Len(wire') = 0
    BY <2>1, EmptySeq
  <2> HIDE DEF S
  <2> QED BY <2>1, <2>2, RequestFailedKeeps
<1>5. CASE CloseStreams
  <2>1. /\ settle(listening, "closed") /\ link = "down" /\ link' = "closed"
        /\ UNCHANGED <<drops, wire, job, by, missed>>
    BY <1>5 DEF CloseStreams
  <2> QED BY <1>0, <2>1, SettleKeeps DEF Ends
<1>6. CASE Reattach
  <2>1. CallTypes'
    BY <1>6 DEF Reattach, callVars, NetworkInv, CallTypes
  <2>2. Begun' /\ OneEach' /\ DownHasNoRequest' /\ NoneMissed'
    BY <1>6 DEF Reattach, callVars, NetworkInv, Begun, OneEach, DownHasNoRequest, NoneMissed
  <2> QED BY <2>1, <2>2 DEF NetworkInv
<1>7. CASE Tick
  <2>1. age' \in [Attempts -> 0..Timeout]
    BY <1>7, NetworkAssumption DEF Tick, NetworkInv, CallTypes
  <2>2. CallTypes'
    BY <1>7, <2>1 DEF Tick, linkVars, NetworkInv, CallTypes
  <2>3. Begun' /\ OneEach' /\ DownHasNoRequest' /\ NoneMissed'
    BY <1>7 DEF Tick, linkVars, NetworkInv, Begun, OneEach, DownHasNoRequest, NoneMissed
  <2> QED BY <2>2, <2>3 DEF NetworkInv
<1>8. ASSUME NEW a \in Attempts, RequestExpires(a) PROVE NetworkInv'
  <2>1. /\ \A b \in {a} : pc[b] = "reply" /\ request_failed({a}, "request")
        /\ UNCHANGED <<link, drops, wire, job, by, missed>>
    BY <1>8 DEF RequestExpires, linkVars
  <2> QED BY <1>0, <2>1, RequestFailedKeeps
<1>9. ASSUME NEW a \in Attempts, Expires(a) PROVE NetworkInv'
  <2>1. /\ {a} \in SUBSET listening /\ settle({a}, "timeout")
        /\ UNCHANGED <<link, drops, wire, job, by, missed>>
    BY <1>9 DEF Expires, linkVars
  <2> QED BY <1>0, <2>1, SettleKeeps DEF Ends
<1>10. CASE UNCHANGED networkVars
  <2>1. CallTypes' /\ Begun'
    BY <1>10 DEF networkVars, linkVars, callVars, NetworkInv, CallTypes, Begun
  <2>2. OneEach' /\ DownHasNoRequest' /\ NoneMissed'
    BY <1>10 DEF networkVars, linkVars, callVars, NetworkInv, OneEach, DownHasNoRequest,
       NoneMissed
  <2> QED BY <2>1, <2>2 DEF NetworkInv
<1> QED
  BY <1>1, <1>2, <1>3, <1>4, <1>5, <1>6, <1>7, <1>8, <1>9, <1>10,
     StartKeeps, BeginKeeps, AnswerKeeps, ReportKeeps DEF NetworkNext, Deliver

-----------------------------------------------------------------------------
(* Theorems. *)

LEMMA NetworkInvariant == NetworkSpec => []NetworkInv
BY NetworkInitial, NetworkStep, PTL DEF NetworkSpec

\* Types, and never more than one request outstanding under a correlation id,
\* for any number of calls: sendProtobuf()'s check is enough, whatever expires,
\* drops or is refused in between.
THEOREM NetworkTypeCorrect == NetworkSpec => []NetworkTypeOK
<1>1. NetworkInv => NetworkTypeOK
  <2> SUFFICES ASSUME NetworkInv PROVE NetworkTypeOK
    OBVIOUS
  <2>1. ASSUME NEW act \in Actions PROVE Cardinality(pending(act)) <= 1
    <3>1. CASE pending(act) = {}
      BY <3>1, FS_EmptySet
    <3>2. CASE pending(act) # {}
      <4>1. PICK a \in Attempts : a \in pending(act)
        BY <3>2 DEF pending
      <4>2. pending(act) = {a}
        BY <4>1 DEF pending, NetworkInv, OneEach
      <4>3. Cardinality({a}) = 1
        BY FS_Singleton
      <4> QED BY <4>2, <4>3
    <3> QED BY <3>1, <3>2
  <2> QED BY <2>1 DEF NetworkTypeOK, NetworkInv, CallTypes
<1> QED BY <1>1, NetworkInvariant, PTL

\* scan(), connect() and connectNew() listen before they ask, so that no call,
\* of any number made at any time, waits on after its end was delivered, also
\* when the push came before the reply.
THEOREM NothingMissedHolds == NetworkSpec => []NothingMissed
<1>1. NetworkInv => NothingMissed
  BY DEF NetworkInv, NoneMissed, NothingMissed
<1> QED BY <1>1, NetworkInvariant, PTL

\* What one step may add to the errors a scan leaves without a handler.
ScanStep ==
  \A a \in Attempts, how \in Ends \cup {"at once"} :
    action[a] = "scan" /\ <<a, how>> \in unhandled' \ unhandled
    => \/ how = "at once" /\ link = "closed"
       \/ how \in {"timeout", "malformed"} /\ pc[a] = "reply"

\* A future that listens has a handler unless its reply is awaited, so that its
\* error goes unhandled only then.
LEMMA SettleScans ==
  ASSUME NetworkInv, NEW S \in SUBSET listening, NEW how, settle(S, how),
         \A a \in S : action[a] = "scan" => how \in {"ok", "timeout", "malformed"} \/ pc[a] # "reply"
  PROVE  ScanStep
<1> SUFFICES ASSUME NEW a \in Attempts, NEW h \in Ends \cup {"at once"},
                    action[a] = "scan", <<a, h>> \in unhandled' \ unhandled
             PROVE  h \in {"timeout", "malformed"} /\ pc[a] = "reply"
  BY DEF ScanStep
<1>1. how # "ok" /\ h = how /\ a \in S /\ ~handled(a)
  BY DEF settle
<1>2. settled[a] = "waiting"
  BY <1>1 DEF listening
<1>3. pc[a] \in {"reply", "end", "done"}
  BY <1>2 DEF NetworkInv, CallTypes, Begun
<1>4. pc[a] = "reply"
  BY <1>1, <1>3 DEF handled
<1> QED BY <1>1, <1>4

LEMMA ScanSteps == NetworkInv /\ [NetworkNext]_networkVars => ScanStep
<1> SUFFICES ASSUME NetworkInv, [NetworkNext]_networkVars PROVE ScanStep
  OBVIOUS
<1>1. ASSUME NEW a \in Attempts, Start(a) PROVE ScanStep
  <2>1. \/ unhandled' = unhandled
        \/ link = "closed" /\ unhandled' = unhandled \cup {<<a, "at once">>}
    <3>1. CASE may_send(a)
      BY <1>1, <3>1 DEF Start
    <3>2. CASE ~may_send(a)
      BY <1>1, <3>2 DEF Start
    <3> QED BY <3>1, <3>2
  <2>2. ASSUME NEW b, NEW how, <<b, how>> \in unhandled' \ unhandled
        PROVE  how = "at once" /\ link = "closed"
    <3>1. <<b, how>> = <<a, "at once">> /\ link = "closed"
      BY <2>1, <2>2
    <3> QED BY <3>1
  <2> QED BY <2>2 DEF ScanStep
<1>2. CASE DeliverPush
  <2> DEFINE m == Head(wire)
             S == {a \in listening : is_notification(a, m) /\ ends(a, m.what)}
  <2>1. settle(S, m.what)
    BY <1>2 DEF DeliverPush
  <2>2. S \in SUBSET listening
    OBVIOUS
  <2>3. \A a \in S : action[a] = "scan" => m.what \in {"ok", "timeout", "malformed"}
    BY DEF ends
  <2> HIDE DEF m, S
  <2> QED BY <2>1, <2>2, <2>3, SettleScans
<1>3. ASSUME NEW a \in Attempts, Expires(a) PROVE ScanStep
  <2>1. {a} \in SUBSET listening /\ settle({a}, "timeout")
    BY <1>3 DEF Expires
  <2> QED BY <2>1, SettleScans
<1>4. CASE CloseStreams
  <2>1. link = "down" /\ settle(listening, "closed")
    BY <1>4 DEF CloseStreams
  <2>2. \A a \in listening : pc[a] # "reply"
    BY <2>1 DEF NetworkInv, DownHasNoRequest, listening
  <2> QED BY <2>1, <2>2, SettleScans
<1>5. CASE unhandled' = unhandled
  BY <1>5 DEF ScanStep
<1>6. CASE DeliverReply \/ Drop \/ Close
  <2>1. unhandled' = unhandled
    BY <1>6 DEF DeliverReply, Drop, Close, close_first_requests, request_failed
  <2> QED BY <2>1, <1>5
<1>7. CASE Reattach \/ Tick \/ UNCHANGED networkVars
  <2>1. unhandled' = unhandled
    BY <1>7 DEF Reattach, Tick, networkVars, callVars
  <2> QED BY <2>1, <1>5
<1>8. ASSUME NEW a \in Attempts, RequestExpires(a) \/ Begin(a) \/ Answer(a) \/ Report(a)
      PROVE  ScanStep
  <2>1. unhandled' = unhandled
    BY <1>8 DEF RequestExpires, request_failed, Begin, Answer, Report, callVars
  <2> QED BY <2>1, <1>5
<1> QED
  BY <1>1, <1>2, <1>3, <1>4, <1>6, <1>7, <1>8 DEF NetworkNext, Deliver

\* No error of a scan is without a handler but those that come while its reply
\* is awaited, the timer's and a malformed notification's, and that of a scan
\* begun on closed streams: close() resolves every request before it closes the
\* streams, and catchError() covers what comes once the request has failed.
THEOREM ScanErrorsHandledHolds == NetworkSpec => ScanErrorsHandled
<1>1. NetworkInv /\ [NetworkNext]_networkVars => [ScanStep]_networkVars
  BY ScanSteps
<1> QED BY <1>1, NetworkInvariant, PTL DEF NetworkSpec, ScanErrorsHandled, ScanStep

=============================================================================
