--------------------------- MODULE CommandService ---------------------------
(***************************************************************************)
(* What gp::ble::CommandQueue promises the code above it, without its      *)
(* queues, priorities, gate or call stack.  A submission is accepted only  *)
(* while no other live one has its correlation id; the queue settles live  *)
(* submissions, several at once on a timeout or a disconnect; and each     *)
(* settled one is reported, once, before it may be submitted again.        *)
(***************************************************************************)
CONSTANTS Cmds, CmdId

VARIABLE phase

Live == {c \in Cmds : phase[c] = "live"}

Init == phase = [c \in Cmds |-> "idle"]

\* submit() returns true.
Accept(c) ==
  /\ phase[c] = "idle"
  /\ \A d \in Live : CmdId[d] # CmdId[c]
  /\ phase' = [phase EXCEPT ![c] = "live"]

\* A response, a deadline or a disconnect decides the outcome of S.
Settle(S) ==
  /\ S # {}
  /\ phase' = [c \in Cmds |-> IF c \in S THEN "settled" ELSE phase[c]]

\* The completion runs.
Report(c) ==
  /\ phase[c] = "settled"
  /\ phase' = [phase EXCEPT ![c] = "idle"]

Next ==
  \/ \E c \in Cmds : Accept(c)
  \/ \E S \in SUBSET Live : Settle(S)
  \/ \E c \in Cmds : Report(c)

Spec == Init /\ [][Next]_phase

=============================================================================
