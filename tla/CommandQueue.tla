---------------------------- MODULE CommandQueue ----------------------------
(***************************************************************************)
(* gp::ble::CommandQueue (native/src/command_queue.cpp): the ready-gated   *)
(* queue between the BLE session and the link.                             *)
(*                                                                         *)
(* The class has no threads, but every operation can call out (write_ for  *)
(* a transmission, done for a completion) and the code called may call     *)
(* back in: "a completion callback may submit", "a transport that          *)
(* completes synchronously".  The model therefore keeps the C++ call stack *)
(* in `stack`, one frame per loop or callback in progress, top at the end. *)
(* A caller may start an operation when the stack is empty or when its own *)
(* code (a "user" frame) is on top; everything else runs to completion in  *)
(* the order of the source.                                                *)
(*                                                                         *)
(* The operations carry the names of the source; BleSession calls them     *)
(* from its own handlers.                                                  *)
(***************************************************************************)
EXTENDS Naturals, Sequences, FiniteSets

CONSTANTS
  Cmds,           \* submissions a client may make; one is reused once completed
  CmdId,          \* the correlation id of each submission
  CmdPrio,        \* its Priority
  WriteTimeout,   \* write_timeout_ms, in units of the clock step
  QueueTimeout,   \* queue_timeout_ms in the same unit, 0 disables it
  MaxNest         \* bound: callbacks that may be open when a caller calls in

Priority == {"kQueued", "kFastpass", "kKeepAlive"}
Outcome  == {"kResponded", "kTimedOut", "kCanceled", "kRejected"}
Ids      == {CmdId[c] : c \in Cmds}

ASSUME CmdsAssumption    == CmdId \in [Cmds -> Ids] /\ CmdPrio \in [Cmds -> Priority]
ASSUME TimeoutAssumption == WriteTimeout \in Nat \ {0} /\ QueueTimeout \in Nat
ASSUME NestAssumption    == MaxNest \in Nat

VARIABLES
  pending,    \* pending_: submissions waiting, in queue order
  in_flight,  \* in_flight_: submissions transmitted and not yet answered
  ready,      \* ready_
  age,        \* now - queued_at_ms of a pending entry, now - sent_at_ms of one in flight
  stack,      \* the call stack inside the queue
  owed        \* history: accepted submissions whose completion has not run

queueVars == <<pending, in_flight, ready, age, owed>>
vars      == <<pending, in_flight, ready, age, owed, stack>>

-----------------------------------------------------------------------------
(* The call stack. *)

\* pump: the while loop of pump().  collect: the two erase loops of tick().
\* complete: a loop that calls the completions in cmds with one outcome.
\* user: code outside the queue, reached through write_ or done.
Frame == [fn : {"pump", "collect", "complete", "user"},
          cmds : Seq(Cmds), outcome : Outcome \cup {"none"}]

PumpFrame            == [fn |-> "pump", cmds |-> <<>>, outcome |-> "none"]
CollectFrame(cs)     == [fn |-> "collect", cmds |-> cs, outcome |-> "none"]
CompleteFrame(cs, o) == [fn |-> "complete", cmds |-> cs, outcome |-> o]
UserFrame            == [fn |-> "user", cmds |-> <<>>, outcome |-> "none"]

Top(st)  == st[Len(st)]
Pop(st)  == SubSeq(st, 1, Len(st) - 1)
OnTop(f) == stack # <<>> /\ Top(stack).fn = f

\* Client code is running: nothing is on the stack, or a callback is on top.
Nesting == Cardinality({i \in DOMAIN stack : stack[i].fn = "user"})
CanCall == (stack = <<>> \/ OnTop("user")) /\ Nesting <= MaxNest

-----------------------------------------------------------------------------
(* Helpers of the source. *)

InSeq(c, s)     == \E i \in DOMAIN s : s[i] = c
Without(s, i)   == SubSeq(s, 1, i - 1) \o SubSeq(s, i + 1, Len(s))
IsFirst(i, s, P(_)) == i \in DOMAIN s /\ P(s[i]) /\ \A j \in 1..(i - 1) : ~P(s[j])

is_in_flight(id) == \E i \in DOMAIN in_flight : CmdId[in_flight[i]] = id
is_pending(id)   == \E i \in DOMAIN pending : CmdId[pending[i]] = id

\* Mutant: the kQueued case forgets to serialise.
can_send_unserialized(c) ==
  ~is_in_flight(CmdId[c]) /\ (CmdPrio[c] = "kQueued" => ready)

can_send(c) ==
  /\ ~is_in_flight(CmdId[c])
  /\ CASE CmdPrio[c] = "kKeepAlive" -> TRUE
       [] CmdPrio[c] = "kFastpass"  -> TRUE
       [] CmdPrio[c] = "kQueued"    ->
            /\ ready
            /\ \A i \in DOMAIN in_flight : CmdPrio[in_flight[i]] # "kQueued"

SomethingSendable == \E i \in DOMAIN pending : can_send(pending[i])

WriteOverdue(c) == age[c] >= WriteTimeout

\* Mutant: no deadline behind the gate.
QueueOverdue_never(c) == FALSE

QueueOverdue(c) == QueueTimeout # 0 /\ age[c] >= QueueTimeout

AgeCap == IF WriteTimeout > QueueTimeout THEN WriteTimeout ELSE QueueTimeout

-----------------------------------------------------------------------------
(* The public operations: what each does before it calls out or pumps. *)

\* Mutant: only commands already transmitted count as duplicates.
duplicate_in_flight_only(id) == is_in_flight(id)

duplicate(id) == is_in_flight(id) \/ is_pending(id)

\* Mutant: queued_at_ms is left at zero, so now - queued_at_ms is huge.
queued_age_unset(c) == [age EXCEPT ![c] = AgeCap + 1]

queued_age(c) == [age EXCEPT ![c] = 0]

\* submit(): refuse an id that is outstanding, else enqueue and pump.
submit(c) ==
  IF duplicate(CmdId[c])
  THEN /\ stack' = Append(stack, CompleteFrame(<<c>>, "kRejected"))
       /\ UNCHANGED queueVars
  ELSE /\ pending' = IF CmdPrio[c] = "kKeepAlive" THEN <<c>> \o pending
                                                  ELSE Append(pending, c)
       /\ age' = queued_age(c)
       /\ owed' = owed \cup {c}
       /\ stack' = Append(stack, PumpFrame)
       /\ UNCHANGED <<in_flight, ready>>

\* set_ready(): record the gate, pump only when it is open.
set_ready(r) ==
  /\ ready' = r
  /\ stack' = IF r THEN Append(stack, PumpFrame) ELSE stack
  /\ UNCHANGED <<pending, in_flight, age, owed>>

\* Mutant: the reply does not release the next command.
on_response_no_pump(id) ==
  \E i \in DOMAIN in_flight :
    /\ CmdId[in_flight[i]] = id
    /\ in_flight' = Without(in_flight, i)
    /\ age' = [age EXCEPT ![in_flight[i]] = 0]
    /\ stack' = Append(stack, CompleteFrame(<<in_flight[i]>>, "kResponded"))
    /\ UNCHANGED <<pending, ready, owed>>

\* on_response(): erase the entry, complete it, then pump.  An id nothing is
\* waiting on returns false and changes nothing.
on_response(id) ==
  \E i \in DOMAIN in_flight :
    /\ CmdId[in_flight[i]] = id
    /\ in_flight' = Without(in_flight, i)
    /\ age' = [age EXCEPT ![in_flight[i]] = 0]
    /\ stack' = stack \o <<PumpFrame, CompleteFrame(<<in_flight[i]>>, "kResponded")>>
    /\ UNCHANGED <<pending, ready, owed>>

\* tick(): collect what is overdue, complete it, then pump.
tick ==
  /\ stack' = stack \o <<PumpFrame, CollectFrame(<<>>)>>
  /\ UNCHANGED queueVars

\* Mutant: in_flight_.clear() is forgotten.
cancel_all_keep_in_flight ==
  /\ pending' = <<>>
  /\ stack' = Append(stack, CompleteFrame(in_flight \o pending, "kCanceled"))
  /\ UNCHANGED <<in_flight, ready, age, owed>>

\* cancel_all(): empty both containers, complete everything; no pump.
cancel_all ==
  /\ pending' = <<>>
  /\ in_flight' = <<>>
  /\ age' = [c \in Cmds |-> 0]
  /\ stack' = Append(stack, CompleteFrame(in_flight \o pending, "kCanceled"))
  /\ UNCHANGED <<ready, owed>>

-----------------------------------------------------------------------------
(* Steps inside the queue. *)

\* pump() finds a sendable entry: it is recorded in flight first, then write_
\* runs (send()).  The scan starts over afterwards.
PumpSend ==
  /\ OnTop("pump")
  /\ \E i \in DOMAIN pending :
       /\ IsFirst(i, pending, can_send)
       /\ pending' = Without(pending, i)
       /\ in_flight' = Append(in_flight, pending[i])
       /\ age' = [age EXCEPT ![pending[i]] = 0]
  /\ stack' = Append(stack, UserFrame)
  /\ UNCHANGED <<ready, owed>>

\* pump() makes a full pass that sends nothing.
PumpDone ==
  /\ OnTop("pump")
  /\ ~SomethingSendable
  /\ stack' = Pop(stack)
  /\ UNCHANGED queueVars

\* tick() erases the next overdue entry of in_flight_.
CollectInFlight ==
  /\ OnTop("collect")
  /\ \E i \in DOMAIN in_flight :
       /\ IsFirst(i, in_flight, WriteOverdue)
       /\ in_flight' = Without(in_flight, i)
       /\ age' = [age EXCEPT ![in_flight[i]] = 0]
       /\ stack' = Append(Pop(stack), CollectFrame(Append(Top(stack).cmds, in_flight[i])))
  /\ UNCHANGED <<pending, ready, owed>>

\* Then the next overdue entry of pending_, when the queue has a deadline.
CollectPending ==
  /\ OnTop("collect")
  /\ \A i \in DOMAIN in_flight : ~WriteOverdue(in_flight[i])
  /\ \E i \in DOMAIN pending :
       /\ IsFirst(i, pending, QueueOverdue)
       /\ pending' = Without(pending, i)
       /\ age' = [age EXCEPT ![pending[i]] = 0]
       /\ stack' = Append(Pop(stack), CollectFrame(Append(Top(stack).cmds, pending[i])))
  /\ UNCHANGED <<in_flight, ready, owed>>

\* Nothing overdue is left: invoke what was collected.
CollectDone ==
  /\ OnTop("collect")
  /\ \A i \in DOMAIN in_flight : ~WriteOverdue(in_flight[i])
  /\ \A i \in DOMAIN pending : ~QueueOverdue(pending[i])
  /\ stack' = Append(Pop(stack), CompleteFrame(Top(stack).cmds, "kTimedOut"))
  /\ UNCHANGED queueVars

\* The next completion of a loop runs: done(outcome) enters client code.
Complete ==
  /\ OnTop("complete")
  /\ Top(stack).cmds # <<>>
  /\ LET f == Top(stack)
         c == Head(f.cmds)
     IN  /\ stack' = Pop(stack) \o <<CompleteFrame(Tail(f.cmds), f.outcome), UserFrame>>
         /\ owed' = IF f.outcome = "kRejected" THEN owed ELSE owed \ {c}
  /\ UNCHANGED <<pending, in_flight, ready, age>>

CompleteDone ==
  /\ OnTop("complete")
  /\ Top(stack).cmds = <<>>
  /\ stack' = Pop(stack)
  /\ UNCHANGED queueVars

\* Client code returns into the queue.
Return ==
  /\ OnTop("user")
  /\ stack' = Pop(stack)
  /\ UNCHANGED queueVars

\* The clock advances between calls: now_ms is read once per operation.
Elapse ==
  /\ stack = <<>>
  /\ age' = [c \in Cmds |-> IF (InSeq(c, pending) \/ InSeq(c, in_flight)) /\ age[c] < AgeCap
                            THEN age[c] + 1 ELSE age[c]]
  /\ UNCHANGED <<pending, in_flight, ready, owed, stack>>

InnerStep ==
  \/ PumpSend \/ PumpDone
  \/ CollectInFlight \/ CollectPending \/ CollectDone
  \/ Complete \/ CompleteDone

-----------------------------------------------------------------------------
Submit(c)      == CanCall /\ c \notin owed /\ submit(c)
SetReady(r)    == CanCall /\ set_ready(r)
OnResponse(id) == CanCall /\ on_response(id)
Tick           == CanCall /\ tick
CancelAll      == CanCall /\ cancel_all

Init ==
  /\ pending = <<>>
  /\ in_flight = <<>>
  /\ ready = FALSE
  /\ age = [c \in Cmds |-> 0]
  /\ owed = {}
  /\ stack = <<>>

Next ==
  \/ \E c \in Cmds : Submit(c)
  \/ \E r \in BOOLEAN : SetReady(r)
  \/ \E id \in Ids : OnResponse(id)
  \/ Tick
  \/ CancelAll
  \/ InnerStep
  \/ Return
  \/ Elapse

Spec == Init /\ [][Next]_vars

\* What a client relies on, as an abstract service: a command is live while
\* the queue holds it and settled once its outcome is decided.
Phase(c) == CASE InSeq(c, pending) \/ InSeq(c, in_flight) -> "live"
              [] c \in owed /\ ~InSeq(c, pending) /\ ~InSeq(c, in_flight) -> "settled"
              [] OTHER -> "idle"
Service == INSTANCE CommandService WITH phase <- [c \in Cmds |-> Phase(c)]

\* The owner calls tick() from a periodic timer on its event loop, which serves
\* its events in order, so the timer is not overtaken for ever; time passes;
\* the queue's own loops run on; a callback, at whatever depth, returns.
Fairness ==
  /\ WF_vars(InnerStep)
  /\ \A n \in 1..(MaxNest + 1) : SF_vars(Return /\ Nesting = n)
  /\ SF_vars(stack = <<>> /\ Tick)
  /\ SF_vars(Elapse)

FairSpec == Spec /\ Fairness

-----------------------------------------------------------------------------
(* Properties. *)

\* Types of the queue's state; the bound on age is what the timeouts compare.
TypeOK ==
  /\ pending \in Seq(Cmds)
  /\ in_flight \in Seq(Cmds)
  /\ ready \in BOOLEAN
  /\ age \in [Cmds -> 0..AgeCap]
  /\ owed \subseteq Cmds
  /\ stack \in Seq(Frame)

\* No correlation id is outstanding twice, whether waiting or transmitted, in
\* any nesting of callbacks: responses carry no sequence number, so a second
\* holder of the id could be answered by the first one's reply (submit()).
SingleFlight ==
  /\ \A i, j \in DOMAIN pending : CmdId[pending[i]] = CmdId[pending[j]] => i = j
  /\ \A i, j \in DOMAIN in_flight : CmdId[in_flight[i]] = CmdId[in_flight[j]] => i = j
  /\ \A i \in DOMAIN pending : ~is_in_flight(CmdId[pending[i]])

\* Ordinary commands are serialised: at most one kQueued command is in flight
\* even when a completion or a synchronous transport submits from inside pump().
OneQueuedInFlight ==
  \A i, j \in DOMAIN in_flight :
    CmdPrio[in_flight[i]] = "kQueued" /\ CmdPrio[in_flight[j]] = "kQueued" => i = j

\* No lost wake-up: whenever some pending command could go out, a pump() that
\* has not finished its last pass is on the call stack.  cancel_all() and
\* set_ready(false) do not pump, so this is a claim about every path.
NoLostWakeup ==
  SomethingSendable => \E i \in DOMAIN stack : stack[i].fn = "pump"

\* When no operation is running, keep-alive and fastpass commands are never
\* waiting: they went out in the call that accepted them ("Never gated.
\* Starving this is what kills the connection").
UngatedNeverWait ==
  stack = <<>> => \A i \in DOMAIN pending : CmdPrio[pending[i]] = "kQueued"

\* A completion slot is a command some loop on the stack still has to complete.
Slots == UNION {{i} \X DOMAIN stack[i].cmds :
                  i \in {j \in DOMAIN stack : stack[j].outcome # "kRejected"}}
SlotCmd(s) == stack[s[1]].cmds[s[2]]

\* "Called exactly once per accepted submission": an accepted command whose
\* completion has not run is in exactly one place: pending, in flight, or one
\* slot of a completion loop (a re-entrant cancel_all() or tick() may not
\* complete it again), and a command in any of those places is still owed one.
ExactlyOnce ==
  /\ \A s, t \in Slots : SlotCmd(s) = SlotCmd(t) => s = t
  /\ \A s \in Slots : ~InSeq(SlotCmd(s), pending) /\ ~InSeq(SlotCmd(s), in_flight)
  /\ \A c \in Cmds : c \in owed <=> \/ InSeq(c, pending)
                                    \/ InSeq(c, in_flight)
                                    \/ \E s \in Slots : SlotCmd(s) = c

\* The queue implements CommandService: between acceptance and completion a
\* command is live, then settled, then reported once; an id is live at most
\* once; and nothing is accepted while its id is live.
ServiceSpec == Service!Spec

\* Every accepted command is eventually completed, even if the camera never
\* answers and never becomes ready: the two deadlines of tick() see to it.
EveryCommandCompletes == \A c \in Cmds : c \in owed ~> c \notin owed

-----------------------------------------------------------------------------
(* What the comments say and the code does not do. *)

\* command_queue.h: a keep-alive is "Never blocked by anything except an
\* outstanding keep-alive of its own": a submission of one is refused only when
\* a keep-alive is outstanding.
KeepAliveBlockedOnlyByItself ==
  [][\A c \in Cmds :
       /\ CmdPrio[c] = "kKeepAlive"
       /\ Len(stack') > Len(stack)
       /\ Top(stack') = CompleteFrame(<<c>>, "kRejected")
       => \E d \in Cmds : /\ CmdPrio[d] = "kKeepAlive"
                          /\ InSeq(d, pending) \/ InSeq(d, in_flight)]_vars

\* can_send(): fastpass "does not stampede: still one at a time".
OneFastpassInFlight ==
  \A i, j \in DOMAIN in_flight :
    CmdPrio[in_flight[i]] = "kFastpass" /\ CmdPrio[in_flight[j]] = "kFastpass" => i = j

=============================================================================
