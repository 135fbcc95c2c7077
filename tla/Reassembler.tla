----------------------------- MODULE Reassembler -----------------------------
(***************************************************************************)
(* The reassemblers of a BLE session: one per notify characteristic, fed   *)
(* by BleSession::feed() and reset by BleSession::on_disconnect().  The    *)
(* camera, which sends messages packet by packet, is external.             *)
(***************************************************************************)
EXTENDS Framing

CONSTANTS
  Channels,     \* the notify characteristics
  Lengths,      \* lengths of the messages the camera sends
  AttPayload    \* usable bytes per packet

ASSUME FramingAssumption ==
  Lengths \subseteq 1..kMaxMessageLen /\ AttPayload \in Nat /\ AttPayload > 3

VARIABLES
  rx,       \* rx_[channel]
  tx,       \* camera: packets of the current message not sent yet
  current,  \* camera: the message being sent on each channel
  intact,   \* history: every packet of the current message so far was fed
  begun,    \* history: the current message's start was fed, sound or damaged
  got       \* history: what the last feed() on the channel took, or <<>>

rxVars == <<rx, tx, current, intact, begun, got>>

\* Mutant: one reassembler serves every characteristic.
rx_index_shared(ch) == CHOOSE c \in Channels : TRUE

rx_index(ch) == ch

\* Reassembler::take(): the message moves out and leaves the reassembler clean.
take(r) == [message |-> r.buf, left |-> Fresh]

\* BleSession::feed(): reassemble; on kComplete take() the message.
Feed(ch, p) ==
  LET r == rx[rx_index(ch)]
      done == feed_result(r, p) = "kComplete"
      fed  == feed(r, p)
  IN  /\ rx' = [rx EXCEPT ![rx_index(ch)] = IF done THEN take(fed).left ELSE fed]
      /\ got' = [got EXCEPT ![ch] = IF done THEN take(fed).message ELSE <<>>]

\* The camera starts its next message once the last one is out.
SendMessage(ch) ==
  /\ tx[ch] = <<>>
  /\ \E len \in Lengths :
       LET m == Message(1 - current[ch][1].msg, len)
       IN  /\ current' = [current EXCEPT ![ch] = m]
           /\ tx' = [tx EXCEPT ![ch] = fragment(m, AttPayload)]
  /\ intact' = [intact EXCEPT ![ch] = TRUE]
  /\ begun' = [begun EXCEPT ![ch] = FALSE]
  /\ got' = [got EXCEPT ![ch] = <<>>]
  /\ UNCHANGED rx

Starts(ch) == begun[ch] \/ Head(tx[ch]).kind = "start"

Notify(ch) ==
  /\ tx[ch] # <<>>
  /\ Feed(ch, Head(tx[ch]))
  /\ tx' = [tx EXCEPT ![ch] = Tail(@)]
  /\ begun' = [begun EXCEPT ![ch] = Starts(ch)]
  /\ UNCHANGED <<current, intact>>

\* A packet is lost on the way.
Lose(ch) ==
  /\ tx[ch] # <<>>
  /\ tx' = [tx EXCEPT ![ch] = Tail(@)]
  /\ intact' = [intact EXCEPT ![ch] = FALSE]
  /\ got' = [got EXCEPT ![ch] = <<>>]
  /\ UNCHANGED <<rx, current, begun>>

\* A packet arrives damaged: cut short, with a reserved type, with a zero
\* length, or carrying more than its message of len bytes declared.
Damaged(p, len) ==
  {[p EXCEPT !.kind = k, !.payload = <<>>] : k \in {"empty", "truncated", "reserved"}}
  \cup {[p EXCEPT !.declared = 0, !.kind = "start"]}
  \cup {[p EXCEPT !.payload = @ \o Message(0, len + 1)]}

NotifyDamaged(ch) ==
  /\ tx[ch] # <<>>
  /\ \E p \in Damaged(Head(tx[ch]), Len(current[ch])) : Feed(ch, p)
  /\ tx' = [tx EXCEPT ![ch] = Tail(@)]
  /\ intact' = [intact EXCEPT ![ch] = FALSE]
  /\ begun' = [begun EXCEPT ![ch] = Starts(ch)]
  /\ UNCHANGED current

\* on_disconnect(): every reassembler is reset; the rest of what the camera
\* was sending is gone and it starts afresh.
Drop ==
  /\ rx' = [ch \in Channels |-> Fresh]
  /\ tx' = [ch \in Channels |-> <<>>]
  /\ intact' = [ch \in Channels |-> FALSE]
  /\ begun' = [ch \in Channels |-> FALSE]
  /\ got' = [ch \in Channels |-> <<>>]
  /\ UNCHANGED current

Init ==
  /\ rx = [ch \in Channels |-> Fresh]
  /\ tx = [ch \in Channels |-> <<>>]
  /\ current = [ch \in Channels |-> Message(0, 1)]
  /\ intact = [ch \in Channels |-> FALSE]
  /\ begun = [ch \in Channels |-> FALSE]
  /\ got = [ch \in Channels |-> <<>>]

Next ==
  \/ \E ch \in Channels : \/ SendMessage(ch) \/ Notify(ch)
                          \/ Lose(ch) \/ NotifyDamaged(ch)
  \/ Drop

Spec == Init /\ [][Next]_rxVars

-----------------------------------------------------------------------------
(* Properties. *)

\* Types.  The bytes held are bounded by what the header declared.
TypeOK ==
  /\ rx \in [Channels -> [buf : Seq(Byte), remaining : Nat, declared : Nat,
                          in_progress : BOOLEAN]]
  /\ tx \in [Channels -> Seq(Packet)]
  /\ current \in [Channels -> Seq(Byte)]
  /\ intact \in [Channels -> BOOLEAN] /\ begun \in [Channels -> BOOLEAN]
  /\ got \in [Channels -> Seq(Byte)]

\* The counter that decides completion is exact: the bytes buffered and the
\* bytes remaining make up the declared length, something is missing while a
\* message is in progress, and nothing is kept otherwise, after any packets.
Accounting ==
  \A ch \in Channels :
    LET r == rx[ch]
    IN  IF r.in_progress
        THEN r.remaining > 0 /\ Len(r.buf) + r.remaining = r.declared
        ELSE r = Fresh

\* A message taken from a reassembler is the message the camera was sending
\* on that characteristic, whole and in order: no loss, damage, interleaving
\* of characteristics or disconnect makes it a splice, as long as its start
\* reached feed().  (If a continuation is lost and the next message's start as
\* well, continuations of the right length are spliced on, as packets carry
\* no number that feed() reads; the excepted case occurs in this model.)
NoSplice == \A ch \in Channels : begun[ch] => got[ch] \in {<<>>, current[ch]}

\* "a corrupt packet costs one message": a message all of whose packets are
\* fed is delivered, whatever happened to the packets before it.
IntactIsDelivered ==
  [][\A ch \in Channels :
       tx[ch] # <<>> /\ tx'[ch] = <<>> /\ intact[ch] /\ intact'[ch]
       => got'[ch] = current[ch]]_rxVars

=============================================================================
