------------------------------- MODULE Framing -------------------------------
(***************************************************************************)
(* The pure part of native/src/ble_protocol.cpp: the header bytes,         *)
(* fragment(), which splits a message into packets, and what               *)
(* Reassembler::feed() makes of one packet.                                *)
(*                                                                         *)
(* A packet is its header as decoded and its payload; the bytes of a message  *)
(* are numbered, so that a message put together from parts of two others   *)
(* is told apart from either.                                              *)
(***************************************************************************)
EXTENDS Integers, Sequences

-----------------------------------------------------------------------------
(* Headers.  kExt13 holds 13 bits of length in two bytes, kExt16 sixteen bits *)
(* in three; transmission uses kExt16 from 2^13 - 1 on.                       *)

kMaxMessageLen == 65534
kExt13 == 32
kExt16 == 64

first_hdr(len) ==
  IF len < 8191 THEN <<kExt13 + ((len \div 256) % 32), len % 256>>
                ELSE <<kExt16, (len \div 256) % 256, len % 256>>

\* feed()'s reading of a header; the type is in bits 5 and 6 of the first byte.
declared_length(hdr) ==
  CASE (hdr[1] % 128) \div 32 = 0 -> hdr[1] % 32
    [] (hdr[1] % 128) \div 32 = 1 -> (hdr[1] % 32) * 256 + hdr[2]
    [] (hdr[1] % 128) \div 32 = 2 -> hdr[2] * 256 + hdr[3]

-----------------------------------------------------------------------------
(* fragment(): att is the usable ATT payload, at least kMinAttPayload and so   *)
(* more than a header; the message is not empty.                              *)

Byte == [msg : {0, 1}, pos : Nat]
Message(m, len) == [k \in 1..len |-> [msg |-> m, pos |-> k]]

\* Payload bytes before packet n.
FirstRoom(len, att) == att - Len(first_hdr(len))
Offset(len, att, n) == IF n = 1 THEN 0 ELSE FirstRoom(len, att) + (n - 2) * (att - 1)

PacketCount(len, att) ==
  IF len <= FirstRoom(len, att) THEN 1
  ELSE 1 + (len - FirstRoom(len, att) + att - 2) \div (att - 1)

fragment(data, att) ==
  LET len == Len(data)
      End(n) == IF n = PacketCount(len, att) THEN len ELSE Offset(len, att, n + 1)
  IN  [n \in 1..PacketCount(len, att) |->
         [kind |-> IF n = 1 THEN "start" ELSE "cont",
          declared |-> IF n = 1 THEN declared_length(first_hdr(len)) ELSE 0,
          payload |-> SubSeq(data, Offset(len, att, n) + 1, End(n))]]

-----------------------------------------------------------------------------
(* Reassembler::feed(). *)

\* What a packet can be: a start (any of the three length headers), a
\* continuation, or one that feed() refuses by its header alone.
Packet == [kind : {"start", "cont", "empty", "truncated", "reserved"},
           declared : Nat, payload : Seq(Byte)]

Errors == {"kEmptyPacket", "kTruncatedHdr", "kReservedHdr", "kStrayCont",
           "kOverflow", "kZeroLength"}
FeedResult == Errors \cup {"kNeedMore", "kComplete"}

Fresh == [buf |-> <<>>, remaining |-> 0, declared |-> 0, in_progress |-> FALSE]

\* Bytes the packet may still bring.
Expected(r, p) == IF p.kind = "start" THEN p.declared ELSE r.remaining

\* Mutant: a start is refused while a message is in progress.
feed_result_refuse_restart(r, p) ==
  CASE p.kind = "start" /\ r.in_progress -> "kOverflow"
    [] p.kind = "cont" /\ ~r.in_progress -> "kStrayCont"
    [] p.kind \notin {"start", "cont"}    -> "kReservedHdr"
    [] p.kind \in {"start", "cont"} /\ r.in_progress = (p.kind = "cont") ->
         IF Len(p.payload) > Expected(r, p) \/ Expected(r, p) = 0 THEN "kOverflow"
         ELSE IF Len(p.payload) = Expected(r, p) THEN "kComplete" ELSE "kNeedMore"

feed_result(r, p) ==
  CASE p.kind = "empty"     -> "kEmptyPacket"
    [] p.kind = "truncated" -> "kTruncatedHdr"
    [] p.kind = "reserved"  -> "kReservedHdr"
    [] p.kind = "cont" /\ ~r.in_progress   -> "kStrayCont"
    [] p.kind = "start" /\ p.declared = 0  -> "kZeroLength"
    [] p.kind \in {"start", "cont"} /\ (p.kind = "cont" => r.in_progress)
         /\ (p.kind = "start" => p.declared # 0) ->
         IF Len(p.payload) > Expected(r, p) THEN "kOverflow"
         ELSE IF Len(p.payload) = Expected(r, p) THEN "kComplete" ELSE "kNeedMore"

\* Mutant: a new message is appended to the partial one.
kept_bytes_no_clear(r, p) == r.buf

\* A start discards any partial message.
kept_bytes(r, p) == IF p.kind = "start" THEN <<>> ELSE r.buf

\* The reassembler after feed(): an error resets it.
feed(r, p) ==
  IF feed_result(r, p) \in Errors THEN Fresh
  ELSE [buf |-> kept_bytes(r, p) \o p.payload,
        remaining |-> Expected(r, p) - Len(p.payload),
        declared |-> IF p.kind = "start" THEN p.declared ELSE r.declared,
        in_progress |-> feed_result(r, p) = "kNeedMore"]

=============================================================================
