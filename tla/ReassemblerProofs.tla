-------------------------- MODULE ReassemblerProofs --------------------------
(***************************************************************************)
(* Proofs about Framing and Reassembler, for any set of characteristics,   *)
(* every length a header can declare and every packet size.                *)
(***************************************************************************)
EXTENDS Reassembler, SequenceTheorems, TLAPS

-----------------------------------------------------------------------------
(* The packets of native/src/ble_protocol.cpp. *)

\* A length is made up of its high part and its low byte.
LEMMA HighLow ==
  ASSUME NEW len \in Nat, NEW h \in Nat, h = len \div 256,
         NEW l \in Nat, l = len % 256
  PROVE  len = h * 256 + l /\ l < 256
BY SMT

LEMMA HighTypes ==
  ASSUME NEW len \in Nat
  PROVE  len \div 256 \in Nat /\ len % 256 \in Nat
BY SMT

\* The first header byte of a 13-bit length: type 1 beside five bits.
LEMMA Ext13Byte ==
  ASSUME NEW h \in Nat, h < 32
  PROVE  /\ h % 32 = h
         /\ ((32 + h) % 128) \div 32 = 1
         /\ (32 + h) % 32 = h
BY SMT

LEMMA Ext16Byte == (64 % 128) \div 32 = 2
BY SMT

LEMMA HighByte ==
  ASSUME NEW h \in Nat, h < 256
  PROVE  h % 256 = h
BY SMT

LEMMA ShortRead ==
  ASSUME NEW h \in Nat, h < 32, NEW l \in Nat
  PROVE  declared_length(<<32 + h, l>>) = h * 256 + l
<1> DEFINE hdr == <<32 + h, l>>
<1>1. hdr[1] = 32 + h /\ hdr[2] = l
  OBVIOUS
<1>2. (hdr[1] % 128) \div 32 = 1 /\ hdr[1] % 32 = h
  BY <1>1, Ext13Byte
<1> HIDE DEF hdr
<1>3. declared_length(hdr) = (hdr[1] % 32) * 256 + hdr[2]
  BY <1>2 DEF declared_length
<1> QED BY <1>1, <1>2, <1>3 DEF hdr

LEMMA LongRead ==
  ASSUME NEW h \in Nat, NEW l \in Nat
  PROVE  declared_length(<<64, h, l>>) = h * 256 + l
<1> DEFINE hdr == <<64, h, l>>
<1>1. hdr[1] = 64 /\ hdr[2] = h /\ hdr[3] = l
  OBVIOUS
<1>2. (hdr[1] % 128) \div 32 = 2
  BY <1>1, Ext16Byte
<1> HIDE DEF hdr
<1>3. declared_length(hdr) = hdr[2] * 256 + hdr[3]
  BY <1>2 DEF declared_length
<1> QED BY <1>1, <1>3 DEF hdr

\* feed() reads the length that fragment() wrote, for every length it accepts,
\* across the change from the 13-bit to the 16-bit header.
THEOREM HeaderRoundTrip ==
  \A len \in Nat : len <= kMaxMessageLen => declared_length(first_hdr(len)) = len
<1> SUFFICES ASSUME NEW len \in Nat, len <= kMaxMessageLen
             PROVE  declared_length(first_hdr(len)) = len
  OBVIOUS
<1> DEFINE h == len \div 256
           l == len % 256
<1>1. h \in Nat /\ l \in Nat
  BY HighTypes
<1>2. h = len \div 256 /\ l = len % 256
  OBVIOUS
<1> HIDE DEF h, l
<1>3. len = h * 256 + l /\ l < 256
  BY <1>1, <1>2, HighLow
<1>4. CASE len < 8191
  <2>1. h < 32
    BY <1>1, <1>3, <1>4
  <2>2. first_hdr(len) = <<32 + h, l>>
    BY <1>2, <1>1, <1>4, <2>1, Ext13Byte DEF first_hdr, kExt13
  <2> QED BY <2>1, <2>2, <1>1, <1>3, ShortRead
<1>5. CASE ~(len < 8191)
  <2>1. h < 256
    BY <1>1, <1>3 DEF kMaxMessageLen
  <2>2. first_hdr(len) = <<64, h, l>>
    BY <1>2, <1>1, <1>5, <2>1, HighByte DEF first_hdr, kExt16
  <2> QED BY <2>2, <1>1, <1>3, LongRead
<1> QED BY <1>4, <1>5

-----------------------------------------------------------------------------
(* The inductive invariant. *)

Rx == [buf : Seq(Byte), remaining : Nat, declared : Nat, in_progress : BOOLEAN]

\* Packets a message of len bytes is sent in, and its bytes in the first n.
Count(len) == PacketCount(len, AttPayload)
Bytes(len, n) == IF n = Count(len) THEN len
                 ELSE IF n = 0 THEN 0 ELSE FirstRoom(len, AttPayload) + (n - 1) * (AttPayload - 1)

Length(ch) == Len(current[ch])
\* Packets of the current message that are no longer to be sent.
Gone(ch) == Count(Length(ch)) - Len(tx[ch])

\* The bytes held and the bytes missing make up what was declared.
Sound(r) == IF r.in_progress
            THEN r.remaining > 0 /\ Len(r.buf) + r.remaining = r.declared
            ELSE r = Fresh

\* The camera sends a message that fragment() took; what is left to send is
\* the end of it.
Sending(ch) ==
  /\ Length(ch) \in 1..kMaxMessageLen
  /\ Len(tx[ch]) <= Count(Length(ch))
  /\ \A i \in 1..Len(tx[ch]) : tx[ch][i] = fragment(current[ch], AttPayload)[Gone(ch) + i]

\* r is assembling data, of which n bytes have gone by: it holds no more than
\* these, and if it holds that many they are the beginning.
Assembles(r, data, n) ==
  /\ r.declared = Len(data)
  /\ Len(r.buf) <= n
  /\ Len(r.buf) = n => r.buf = SubSeq(data, 1, n)

\* Once its start was fed, a message in progress is the current one.
Assembling(ch) ==
  begun[ch] =>
    /\ Gone(ch) >= 1
    /\ rx[ch].in_progress => Assembles(rx[ch], current[ch], Bytes(Length(ch), Gone(ch)))

\* While every packet is fed, what has gone by is held.
Keeping(ch) ==
  intact[ch] /\ Gone(ch) >= 1 /\ tx[ch] # <<>> =>
    /\ begun[ch] /\ rx[ch].in_progress
    /\ Len(rx[ch].buf) = Bytes(Length(ch), Gone(ch))

\* NoSplice on one characteristic.
Whole(ch) == begun[ch] => got[ch] \in {<<>>, current[ch]}

ChannelInv(ch) ==
  Sound(rx[ch]) /\ Sending(ch) /\ Assembling(ch) /\ Keeping(ch) /\ Whole(ch)

RxInv == TypeOK /\ \A ch \in Channels : ChannelInv(ch)

-----------------------------------------------------------------------------
(* The bytes of a message in its first packets. *)

LEMMA SizeTypes ==
  /\ AttPayload \in Nat /\ AttPayload > 3 /\ kMaxMessageLen \in Nat
  /\ \A len \in Lengths : len \in 1..kMaxMessageLen
<1>1. kMaxMessageLen \in Nat
  BY DEF kMaxMessageLen
<1>2. /\ AttPayload \in Nat /\ AttPayload > 3
      /\ \A len \in Lengths : len \in 1..kMaxMessageLen
  BY FramingAssumption
<1> QED BY <1>1, <1>2

LEMMA DivBelow ==
  ASSUME NEW y \in Nat, NEW d \in Nat, d > 0
  PROVE  (y \div d) \in Nat /\ (y \div d) * d <= y
OBVIOUS

LEMMA DivAtLeastOne ==
  ASSUME NEW y \in Nat, NEW d \in Nat, d > 0, y >= d
  PROVE  (y \div d) >= 1
OBVIOUS

LEMMA TimesMonotonic ==
  ASSUME NEW a \in Nat, NEW b \in Nat, NEW d \in Nat, a <= b
  PROVE  a * d <= b * d /\ a * d \in Nat /\ b * d \in Nat
OBVIOUS

LEMMA TimesNext ==
  ASSUME NEW a \in Nat, NEW d \in Nat
  PROVE  (a + 1) * d = a * d + d
OBVIOUS

LEMMA RoomType ==
  ASSUME NEW len \in Nat
  PROVE  FirstRoom(len, AttPayload) \in Nat /\ FirstRoom(len, AttPayload) > 0
BY SizeTypes DEF FirstRoom, first_hdr

\* There is a packet; all but the last together hold less than the message.
LEMMA CountProps ==
  ASSUME NEW len \in 1..kMaxMessageLen
  PROVE  /\ Count(len) \in Nat /\ Count(len) >= 1
         /\ Count(len) > 1 =>
              FirstRoom(len, AttPayload) + (Count(len) - 2) * (AttPayload - 1) < len
<1> DEFINE room == FirstRoom(len, AttPayload)
           d == AttPayload - 1
           y == len - room + AttPayload - 2
           q == y \div d
<1>1. room \in Nat /\ room > 0 /\ d \in Nat /\ d > 0 /\ len \in Nat /\ len > 0
  BY RoomType, SizeTypes
<1>2. Count(len) = IF len <= room THEN 1 ELSE 1 + q
  BY DEF Count, PacketCount
<1> HIDE DEF room
<1>3. CASE len <= room
  BY <1>2, <1>3
<1>4. CASE ~(len <= room)
  <2>1. y \in Nat /\ y >= d /\ y = (len - room) + d - 1
    BY <1>1, <1>4, SizeTypes
  <2> HIDE DEF y
  <2>2. q \in Nat /\ q * d <= y /\ q >= 1
    BY <1>1, <2>1, DivBelow, DivAtLeastOne
  <2> HIDE DEF q, d
  <2>3. q - 1 \in Nat /\ q = (q - 1) + 1
    BY <2>2
  <2>4. q * d = (q - 1) * d + d /\ (q - 1) * d \in Nat
    BY <1>1, <2>3, TimesNext, TimesMonotonic
  <2>5. room + (q - 1) * d < len
    BY <1>1, <2>1, <2>2, <2>4
  <2>6. Count(len) = 1 + q /\ Count(len) - 2 = q - 1
    BY <1>2, <1>4, <2>2
  <2> QED BY <2>2, <2>5, <2>6 DEF d, room
<1> QED BY <1>3, <1>4

\* Every packet holds some of the message, the last one its end.
LEMMA BytesProps ==
  ASSUME NEW len \in 1..kMaxMessageLen
  PROVE  /\ Bytes(len, 0) = 0 /\ Bytes(len, Count(len)) = len
         /\ \A n \in 0..Count(len) : Bytes(len, n) \in 0..len
         /\ \A n \in 1..Count(len) : Bytes(len, n - 1) < Bytes(len, n)
         /\ \A n \in 0..Count(len) : Bytes(len, n) = len => n = Count(len)
<1> DEFINE room == FirstRoom(len, AttPayload)
           d == AttPayload - 1
           N == Count(len)
<1>1. /\ room \in Nat /\ room > 0 /\ d \in Nat /\ d > 0 /\ len \in Nat /\ len > 0
      /\ N \in Nat /\ N >= 1 /\ (N > 1 => room + (N - 2) * d < len)
  BY RoomType, SizeTypes, CountProps
<1>2. \A n \in 0..N : Bytes(len, n) = IF n = N THEN len
                                       ELSE IF n = 0 THEN 0 ELSE room + (n - 1) * d
  BY DEF Bytes
<1> HIDE DEF room, d, N
<1>3. \A n \in 1..N : n < N => /\ Bytes(len, n) = room + (n - 1) * d
                               /\ (n - 1) * d \in Nat /\ Bytes(len, n) \in 0..(len - 1)
  <2> TAKE n \in 1..N
  <2> HAVE n < N
  <2>1. n - 1 \in Nat /\ N - 2 \in Nat /\ n - 1 <= N - 2
    BY <1>1
  <2>2. (n - 1) * d <= (N - 2) * d /\ (n - 1) * d \in Nat /\ (N - 2) * d \in Nat
    BY <1>1, <2>1, TimesMonotonic
  <2>3. room + (n - 1) * d < len
    BY <1>1, <2>1, <2>2
  <2> QED BY <1>1, <1>2, <2>2, <2>3
<1>4. Bytes(len, 0) = 0 /\ Bytes(len, N) = len
  BY <1>1, <1>2
<1>5. ASSUME NEW n \in 0..N
      PROVE  Bytes(len, n) \in 0..len /\ (n < N => Bytes(len, n) < len)
  <2>1. CASE n = 0
    BY <1>1, <1>4, <2>1
  <2>2. CASE n = N
    BY <1>1, <1>4, <2>2
  <2>3. CASE n \in 1..N /\ n < N
    BY <1>1, <1>3, <2>3
  <2> QED BY <1>1, <2>1, <2>2, <2>3
<1>6. \A n \in 1..N : Bytes(len, n - 1) < Bytes(len, n)
  <2> TAKE n \in 1..N
  <2>1. CASE n = N
    <3>1. n - 1 \in 0..N /\ n - 1 < N
      BY <1>1, <2>1
    <3>2. Bytes(len, n - 1) < len
      BY <1>5, <3>1
    <3> QED BY <1>4, <2>1, <3>2
  <2>2. CASE n < N /\ n = 1
    <3>1. Bytes(len, n) = room + (n - 1) * d /\ (n - 1) * d \in Nat
      BY <1>3, <2>2
    <3> QED BY <1>1, <1>4, <2>2, <3>1
  <2>3. CASE n < N /\ n > 1
    <3>1. n - 1 \in 1..N /\ n - 1 < N /\ n - 2 \in Nat /\ (n - 2) + 1 = n - 1
      BY <1>1, <2>3
    <3>2. Bytes(len, n) = room + (n - 1) * d /\ Bytes(len, n - 1) = room + ((n - 1) - 1) * d
      BY <1>3, <2>3, <3>1
    <3>3. (n - 1) * d = (n - 2) * d + d /\ (n - 2) * d \in Nat
      BY <1>1, <3>1, TimesNext, TimesMonotonic
    <3>4. ((n - 1) - 1) * d = (n - 2) * d
      BY <3>1
    <3> QED BY <1>1, <3>2, <3>3, <3>4
  <2> QED BY <1>1, <2>1, <2>2, <2>3
<1>7. ASSUME NEW n \in 0..N, Bytes(len, n) = len PROVE n = N
  <2>1. n < N => Bytes(len, n) < len
    BY <1>5
  <2> QED BY <1>1, <1>7, <2>1
<1>8. \A n \in 0..N : Bytes(len, n) \in 0..len
  BY <1>5
<1> QED BY <1>4, <1>6, <1>7, <1>8, Zenon DEF N

-----------------------------------------------------------------------------
(* Messages and their packets. *)

LEMMA MessageType ==
  ASSUME NEW m \in {0, 1}, NEW len \in Nat
  PROVE  /\ Message(m, len) \in Seq(Byte) /\ Len(Message(m, len)) = len
         /\ \A k \in 1..len : Message(m, len)[k].msg = m
<1>1. \A k \in 1..len : [msg |-> m, pos |-> k] \in Byte
  BY DEF Byte
<1> QED BY <1>1 DEF Message

\* A part of a message.
LEMMA PartType ==
  ASSUME NEW data \in Seq(Byte), NEW a \in 0..Len(data), NEW b \in 0..Len(data), a <= b
  PROVE  /\ SubSeq(data, a + 1, b) \in Seq(Byte)
         /\ Len(SubSeq(data, a + 1, b)) = b - a
<1>1. \A i \in (a + 1)..b : data[i] \in Byte
  BY ElementOfSeq
<1>2. Len(data) \in Nat /\ a \in Int /\ b \in Int /\ a + 1 \in Int
  BY LenProperties
<1>3. /\ SubSeq(data, a + 1, b) \in Seq(Byte)
      /\ Len(SubSeq(data, a + 1, b)) = IF a + 1 <= b THEN b - (a + 1) + 1 ELSE 0
  BY <1>1, <1>2, SubSeqProperties
<1> QED BY <1>2, <1>3

\* What fragment() makes of a message.
LEMMA FragmentProps ==
  ASSUME NEW data \in Seq(Byte), NEW len \in 1..kMaxMessageLen, len = Len(data)
  PROVE  /\ Len(fragment(data, AttPayload)) = Count(len)
         /\ fragment(data, AttPayload) \in Seq(Packet)
         /\ \A n \in 1..Count(len) :
              LET p == fragment(data, AttPayload)[n]
              IN  /\ p.kind = IF n = 1 THEN "start" ELSE "cont"
                  /\ n = 1 => p.declared = len
                  /\ p.payload = SubSeq(data, Bytes(len, n - 1) + 1, Bytes(len, n))
<1> DEFINE N == Count(len)
           End(n) == IF n = N THEN len ELSE Offset(len, AttPayload, n + 1)
           packet(n) == [kind |-> IF n = 1 THEN "start" ELSE "cont",
                         declared |-> IF n = 1 THEN declared_length(first_hdr(len)) ELSE 0,
                         payload |-> SubSeq(data, Offset(len, AttPayload, n) + 1, End(n))]
<1>1. fragment(data, AttPayload) = [n \in 1..N |-> packet(n)]
  BY DEF fragment, Count
<1>2. N \in Nat /\ N >= 1 /\ len \in Nat
  BY CountProps
<1>3. declared_length(first_hdr(len)) = len
  BY <1>2, HeaderRoundTrip
<1>4. ASSUME NEW n \in 1..N
      PROVE  Offset(len, AttPayload, n) = Bytes(len, n - 1) /\ End(n) = Bytes(len, n)
  <2>1. Offset(len, AttPayload, n) = Bytes(len, n - 1)
    BY <1>2 DEF Offset, Bytes, N
  <2>2. ASSUME n = N PROVE End(n) = Bytes(len, n)
    BY <1>2, <2>2 DEF Bytes
  <2>3. ASSUME n # N PROVE End(n) = Bytes(len, n)
    BY <1>2, <2>3 DEF Bytes, Offset
  <2> QED BY <2>1, <2>2, <2>3
<1>5. ASSUME NEW n \in 1..N
      PROVE  packet(n).payload \in Seq(Byte)
  <2>1. n - 1 \in 0..N /\ n \in 0..N
    BY <1>2
  <2> DEFINE a == Bytes(len, n - 1)
             b == Bytes(len, n)
  <2>2. a \in 0..Len(data) /\ b \in 0..Len(data) /\ a < b
    BY <2>1, BytesProps
  <2>3. packet(n).payload = SubSeq(data, a + 1, b)
    BY <1>4
  <2> HIDE DEF a, b, packet
  <2>4. a <= b
    BY <1>2, <2>2
  <2> QED BY <2>2, <2>3, <2>4, PartType
<1>6. ASSUME NEW n \in 1..N PROVE packet(n) \in Packet
  BY <1>2, <1>3, <1>5 DEF Packet
<1>7. [n \in 1..N |-> packet(n)] \in Seq(Packet) /\ Len([n \in 1..N |-> packet(n)]) = N
  <2> HIDE DEF packet
  <2> QED BY <1>2, <1>6
<1>8. ASSUME NEW n \in 1..N
      PROVE  LET p == fragment(data, AttPayload)[n]
             IN  /\ p.kind = IF n = 1 THEN "start" ELSE "cont"
                 /\ n = 1 => p.declared = len
                 /\ p.payload = SubSeq(data, Bytes(len, n - 1) + 1, Bytes(len, n))
  <2>1. fragment(data, AttPayload)[n] = packet(n)
    BY <1>1
  <2>2. /\ packet(n).kind = IF n = 1 THEN "start" ELSE "cont"
        /\ n = 1 => packet(n).declared = len
        /\ packet(n).payload = SubSeq(data, Offset(len, AttPayload, n) + 1, End(n))
    BY <1>3
  <2> HIDE DEF packet, End
  <2> QED BY <1>4, <2>1, <2>2
<1> HIDE DEF packet
<1> QED BY <1>1, <1>7, <1>8

-----------------------------------------------------------------------------
(* feed(). *)

\* Which packets are taken, and which of them completes a message.
LEMMA FeedResultIs ==
  ASSUME NEW r \in Rx, NEW p \in Packet
  PROVE  /\ p.kind \notin {"start", "cont"} => feed_result(r, p) \in Errors
         /\ p.kind = "cont" /\ ~r.in_progress => feed_result(r, p) \in Errors
         /\ p.kind = "start" /\ p.declared = 0 => feed_result(r, p) \in Errors
         /\ p.kind \in {"start", "cont"} /\ Len(p.payload) > Expected(r, p)
            => feed_result(r, p) \in Errors
         /\ \/ p.kind = "start" /\ p.declared # 0
            \/ p.kind = "cont" /\ r.in_progress
            => /\ Len(p.payload) < Expected(r, p) => feed_result(r, p) = "kNeedMore"
               /\ Len(p.payload) = Expected(r, p) => feed_result(r, p) = "kComplete"
         /\ feed_result(r, p) \in FeedResult
<1>0. /\ p.kind \in {"start", "cont", "empty", "truncated", "reserved"}
      /\ p.declared \in Nat /\ Len(p.payload) \in Nat /\ r.remaining \in Nat
      /\ r.in_progress \in BOOLEAN
  BY LenProperties DEF Packet, Rx
<1>1. Expected(r, p) \in Nat
  BY <1>0 DEF Expected
<1>2. CASE p.kind \notin {"start", "cont"}
  BY <1>0, <1>2 DEF feed_result, Errors, FeedResult
<1>3. CASE p.kind = "cont" /\ ~r.in_progress
  BY <1>0, <1>3 DEF feed_result, Errors, FeedResult
<1>4. CASE p.kind = "start" /\ p.declared = 0
  BY <1>0, <1>4 DEF feed_result, Errors, FeedResult
<1>5. CASE (p.kind = "start" /\ p.declared # 0) \/ (p.kind = "cont" /\ r.in_progress)
  <2>1. feed_result(r, p) =
          IF Len(p.payload) > Expected(r, p) THEN "kOverflow"
          ELSE IF Len(p.payload) = Expected(r, p) THEN "kComplete" ELSE "kNeedMore"
    BY <1>0, <1>5 DEF feed_result
  <2> QED BY <1>0, <1>1, <1>5, <2>1 DEF Errors, FeedResult
<1> QED BY <1>0, <1>2, <1>3, <1>4, <1>5

\* feed() leaves the reassembler clean or with what it held and the payload.
LEMMA FeedProps ==
  ASSUME NEW r \in Rx, NEW p \in Packet, Sound(r)
  PROVE  /\ feed_result(r, p) \in Errors => feed(r, p) = Fresh
         /\ feed_result(r, p) \notin Errors =>
              /\ feed(r, p) \in Rx
              /\ feed(r, p).buf = kept_bytes(r, p) \o p.payload
              /\ Len(feed(r, p).buf) = Len(kept_bytes(r, p)) + Len(p.payload)
              /\ feed(r, p).declared = IF p.kind = "start" THEN p.declared ELSE r.declared
         /\ feed_result(r, p) = "kNeedMore" => feed(r, p).in_progress /\ Sound(feed(r, p))
         /\ feed_result(r, p) = "kComplete" =>
              Len(feed(r, p).buf) = feed(r, p).declared
<1>0. /\ p.kind \in {"start", "cont", "empty", "truncated", "reserved"}
      /\ p.declared \in Nat /\ p.payload \in Seq(Byte) /\ Len(p.payload) \in Nat
      /\ r.buf \in Seq(Byte) /\ Len(r.buf) \in Nat /\ r.declared \in Nat
      /\ r.remaining \in Nat /\ r.in_progress \in BOOLEAN
  BY LenProperties DEF Packet, Rx
<1>1. kept_bytes(r, p) \in Seq(Byte) /\ Len(kept_bytes(r, p)) \in Nat
  BY <1>0, EmptySeq, LenProperties DEF kept_bytes
<1>2. CASE feed_result(r, p) \in Errors
  BY <1>2 DEF feed, Errors
<1>3. CASE feed_result(r, p) \notin Errors
  <2> DEFINE f == feed(r, p)
  <2>1. f = [buf |-> kept_bytes(r, p) \o p.payload,
             remaining |-> Expected(r, p) - Len(p.payload),
             declared |-> IF p.kind = "start" THEN p.declared ELSE r.declared,
             in_progress |-> feed_result(r, p) = "kNeedMore"]
    BY <1>3 DEF feed
  <2> HIDE DEF f
  <2>2. /\ kept_bytes(r, p) \o p.payload \in Seq(Byte)
        /\ Len(kept_bytes(r, p) \o p.payload) = Len(kept_bytes(r, p)) + Len(p.payload)
    BY <1>0, <1>1, ConcatProperties
  <2>3. /\ p.kind = "start" \/ (p.kind = "cont" /\ r.in_progress)
        /\ Len(p.payload) <= Expected(r, p)
        /\ feed_result(r, p) = IF Len(p.payload) = Expected(r, p) THEN "kComplete"
                                                                 ELSE "kNeedMore"
    <3>1. p.kind \in {"start", "cont"} /\ (p.kind = "cont" => r.in_progress)
      BY <1>0, <1>3, FeedResultIs
    <3>2. Expected(r, p) \in Nat /\ ~(Len(p.payload) > Expected(r, p))
      BY <1>0, <1>3, <3>1, FeedResultIs DEF Expected
    <3>3. p.kind = "start" => p.declared # 0
      BY <1>0, <1>3, FeedResultIs
    <3>4. CASE Len(p.payload) = Expected(r, p)
      BY <3>1, <3>3, <3>4, FeedResultIs
    <3>5. CASE Len(p.payload) < Expected(r, p)
      BY <1>0, <3>1, <3>2, <3>3, <3>5, FeedResultIs
    <3> QED BY <1>0, <3>1, <3>2, <3>4, <3>5
  <2>4. Len(kept_bytes(r, p)) + Expected(r, p)
          = IF p.kind = "start" THEN p.declared ELSE r.declared
    <3>1. CASE p.kind = "start"
      BY <1>0, <3>1, EmptySeq DEF kept_bytes, Expected
    <3>2. CASE p.kind # "start"
      BY <1>0, <2>3, <3>2 DEF kept_bytes, Expected, Sound
    <3> QED BY <3>1, <3>2
  <2>5. Expected(r, p) \in Nat
    BY <1>0 DEF Expected
  <2>6. f \in Rx
    BY <1>0, <2>1, <2>2, <2>3, <2>5 DEF Rx
  <2>7. ASSUME feed_result(r, p) = "kNeedMore" PROVE f.in_progress /\ Sound(f)
    <3>1. f.in_progress
      BY <2>1, <2>7
    <3>2. Len(p.payload) < Expected(r, p)
      BY <1>0, <2>3, <2>5, <2>7
    <3>3. f.remaining > 0 /\ Len(f.buf) + f.remaining = f.declared
      BY <1>0, <1>1, <2>1, <2>2, <2>4, <2>5, <3>2
    <3> QED BY <3>1, <3>3 DEF Sound
  <2>8. feed_result(r, p) = "kComplete" => Len(f.buf) = f.declared
    BY <1>0, <1>1, <2>1, <2>2, <2>3, <2>4, <2>5
  <2> QED BY <1>3, <2>1, <2>2, <2>6, <2>7, <2>8 DEF f
<1> QED BY <1>2, <1>3 DEF Errors

\* p is the n-th packet of data.
PacketOf(p, data, n) ==
  /\ p \in Packet
  /\ p.kind = IF n = 1 THEN "start" ELSE "cont"
  /\ n = 1 => p.declared = Len(data)
  /\ p.payload = SubSeq(data, Bytes(Len(data), n - 1) + 1, Bytes(Len(data), n))

\* feed() on the n-th packet of a message whose earlier packets, as far as
\* they arrived, are what the reassembler holds.
LEMMA FeedCurrent ==
  ASSUME NEW data \in Seq(Byte), NEW len \in 1..kMaxMessageLen, len = Len(data),
         NEW n \in 1..Count(len), NEW p, PacketOf(p, data, n),
         NEW r \in Rx, Sound(r),
         n > 1 /\ r.in_progress => Assembles(r, data, Bytes(len, n - 1))
  PROVE  /\ feed_result(r, p) = "kComplete" => feed(r, p).buf = data
         /\ feed_result(r, p) = "kNeedMore" =>
              Assembles(feed(r, p), data, Bytes(len, n))
         /\ n = 1 \/ (r.in_progress /\ Len(r.buf) = Bytes(len, n - 1)) =>
              feed_result(r, p) = IF n = Count(len) THEN "kComplete" ELSE "kNeedMore"
         /\ /\ n = 1 \/ (r.in_progress /\ Len(r.buf) = Bytes(len, n - 1))
            /\ n # Count(len)
            => Len(feed(r, p).buf) = Bytes(len, n)
<1> DEFINE a == Bytes(len, n - 1)
           b == Bytes(len, n)
           f == feed(r, p)
           kept == kept_bytes(r, p)
<1>0. Count(len) \in Nat /\ n \in Nat /\ n >= 1 /\ len \in Nat /\ len > 0
  BY CountProps
<1>1. n - 1 \in 0..Count(len) /\ n \in 0..Count(len)
  BY <1>0
<1>2. a \in 0..len /\ b \in 0..len /\ a < b /\ (b = len <=> n = Count(len))
  BY <1>1, BytesProps
<1>3. n = 1 => a = 0
  BY <1>0, BytesProps
<1>4. p \in Packet /\ p.payload = SubSeq(data, a + 1, b)
  BY DEF PacketOf
<1>5. p.kind = (IF n = 1 THEN "start" ELSE "cont") /\ (n = 1 => p.declared = len)
  BY DEF PacketOf
<1>6. n > 1 /\ r.in_progress => Assembles(r, data, a)
  OBVIOUS
<1> HIDE DEF a, b, f, kept
<1>7. p.payload \in Seq(Byte) /\ Len(p.payload) = b - a
  BY <1>0, <1>2, <1>4, PartType
<1>8. /\ r.buf \in Seq(Byte) /\ Len(r.buf) \in Nat /\ r.declared \in Nat
      /\ r.remaining \in Nat /\ r.in_progress \in BOOLEAN
  BY LenProperties DEF Rx
<1>9. ASSUME feed_result(r, p) \in {"kComplete", "kNeedMore"}
      PROVE  Assembles(f, data, b)
  <2>1. feed_result(r, p) \notin Errors
    BY <1>9 DEF Errors
  <2>2. /\ f.buf = kept \o p.payload
        /\ Len(f.buf) = Len(kept) + Len(p.payload)
        /\ f.declared = IF p.kind = "start" THEN p.declared ELSE r.declared
    BY <1>4, <2>1, FeedProps DEF f, kept
  <2>3. CASE n = 1
    <3>1. kept = <<>> /\ f.declared = len /\ a = 0
      BY <1>3, <1>5, <2>2, <2>3 DEF kept, kept_bytes
    <3>2. f.buf = p.payload
      BY <1>7, <2>2, <3>1, ConcatEmptySeq
    <3>3. f.buf = SubSeq(data, 1, b) /\ Len(f.buf) = b
      BY <1>2, <1>4, <1>7, <3>1, <3>2
    <3> QED BY <1>2, <3>1, <3>3 DEF Assembles
  <2>4. CASE n # 1
    <3>1. r.in_progress
      BY <1>4, <1>5, <1>8, <2>1, <2>4, FeedResultIs
    <3>2. kept = r.buf /\ f.declared = r.declared
      BY <1>5, <2>2, <2>4 DEF kept, kept_bytes
    <3>3. r.declared = len /\ Len(r.buf) <= a /\ (Len(r.buf) = a => r.buf = SubSeq(data, 1, a))
      BY <1>0, <1>6, <2>4, <3>1 DEF Assembles
    <3>4. Len(f.buf) = Len(r.buf) + (b - a)
      BY <1>7, <2>2, <3>2
    <3>5. Len(f.buf) <= b /\ (Len(f.buf) = b => Len(r.buf) = a)
      BY <1>2, <1>8, <3>3, <3>4
    <3>6. ASSUME Len(f.buf) = b PROVE f.buf = SubSeq(data, 1, b)
      <4>1. f.buf = SubSeq(data, 1, a) \o SubSeq(data, a + 1, b)
        BY <1>4, <2>2, <3>2, <3>3, <3>5, <3>6
      <4>2. SubSeq(data, 1, a) \o SubSeq(data, a + 1, b) = SubSeq(data, 1, b)
        BY <1>0, <1>2, ConcatAdjacentSubSeq
      <4> QED BY <4>1, <4>2
    <3> QED BY <3>2, <3>3, <3>5, <3>6 DEF Assembles
  <2> QED BY <2>3, <2>4
<1>10. ASSUME feed_result(r, p) = "kComplete" PROVE f.buf = data
  <2>1. Assembles(f, data, b)
    BY <1>9, <1>10
  <2>2. Len(f.buf) = f.declared
    BY <1>4, <1>10, FeedProps DEF f
  <2>3. Len(f.buf) = len /\ len <= b
    BY <2>1, <2>2 DEF Assembles
  <2>4. b = len
    BY <1>0, <1>2, <2>3
  <2>5. f.buf = SubSeq(data, 1, len)
    BY <2>1, <2>3, <2>4 DEF Assembles
  <2> QED BY <2>5, SubSeqFull
<1>11. ASSUME n = 1 \/ (r.in_progress /\ Len(r.buf) = a)
       PROVE  /\ feed_result(r, p) = IF n = Count(len) THEN "kComplete" ELSE "kNeedMore"
              /\ n # Count(len) => Len(f.buf) = b
  <2>1. /\ Expected(r, p) = len - a
        /\ (p.kind = "start" /\ p.declared # 0) \/ (p.kind = "cont" /\ r.in_progress)
    <3>1. CASE n = 1
      BY <1>0, <1>3, <1>5, <3>1 DEF Expected
    <3>2. CASE n # 1
      <4>1. r.declared = len /\ r.in_progress
        BY <1>0, <1>6, <1>11, <3>2 DEF Assembles
      <4>2. Len(r.buf) + r.remaining = r.declared
        BY <4>1 DEF Sound
      <4> QED BY <1>2, <1>5, <1>8, <1>11, <3>2, <4>1, <4>2, SMTT(40) DEF Expected
    <3> QED BY <3>1, <3>2
  <2>2. CASE n = Count(len)
    <3>1. Len(p.payload) = Expected(r, p)
      BY <1>2, <1>7, <2>1, <2>2
    <3> QED BY <1>4, <2>1, <2>2, <3>1, FeedResultIs
  <2>3. CASE n # Count(len)
    <3>1. Len(p.payload) < Expected(r, p)
      BY <1>0, <1>2, <1>7, <2>1, <2>3
    <3>2. feed_result(r, p) = "kNeedMore"
      BY <1>4, <2>1, <3>1, FeedResultIs
    <3>3. feed_result(r, p) \notin Errors
      BY <3>2 DEF Errors
    <3>4. Len(f.buf) = Len(kept) + Len(p.payload)
      BY <1>4, <3>3, FeedProps DEF f, kept
    <3>5. Len(kept) = a
      <4>1. CASE n = 1
        BY <1>3, <1>5, <4>1, EmptySeq DEF kept, kept_bytes
      <4>2. CASE n # 1
        BY <1>5, <1>11, <4>2 DEF kept, kept_bytes
      <4> QED BY <4>1, <4>2
    <3> QED BY <1>2, <1>7, <2>3, <3>2, <3>4, <3>5
  <2> QED BY <2>2, <2>3
<1> QED BY <1>9, <1>10, <1>11 DEF a, b, f

-----------------------------------------------------------------------------
(* One characteristic. *)

\* The next packet to go out.
LEMMA HeadIs ==
  ASSUME TypeOK, NEW ch \in Channels, Sending(ch), tx[ch] # <<>>
  PROVE  /\ Gone(ch) \in Nat /\ Gone(ch) + 1 \in 1..Count(Length(ch))
         /\ PacketOf(Head(tx[ch]), current[ch], Gone(ch) + 1)
<1> DEFINE n == Gone(ch) + 1
           len == Length(ch)
<1>0. /\ current[ch] \in Seq(Byte) /\ len \in 1..kMaxMessageLen /\ len = Len(current[ch])
      /\ tx[ch] \in Seq(Packet) /\ Len(tx[ch]) \in Nat /\ Len(tx[ch]) > 0
  BY LenProperties, EmptySeq DEF TypeOK, Sending, Length
<1>1. Count(len) \in Nat /\ Count(len) >= 1
  BY <1>0, CountProps
<1>2. Len(tx[ch]) <= Count(len)
  BY DEF Sending
<1>3. Gone(ch) \in Nat /\ n \in 1..Count(len)
  BY <1>0, <1>1, <1>2 DEF Gone
<1>4. Head(tx[ch]) = tx[ch][1] /\ 1 \in 1..Len(tx[ch])
  BY <1>0
<1>5. Head(tx[ch]) = fragment(current[ch], AttPayload)[n]
  BY <1>4 DEF Sending
<1>6. Head(tx[ch]) \in Packet
  BY <1>0, HeadTailProperties
<1> HIDE DEF n, len
<1>7. /\ Head(tx[ch]).kind = IF n = 1 THEN "start" ELSE "cont"
      /\ n = 1 => Head(tx[ch]).declared = len
      /\ Head(tx[ch]).payload
           = SubSeq(current[ch], Bytes(len, n - 1) + 1, Bytes(len, n))
  BY <1>0, <1>3, <1>5, FragmentProps, SMTT(40)
<1>8. PacketOf(Head(tx[ch]), current[ch], n)
  BY <1>0, <1>6, <1>7 DEF PacketOf
<1> QED BY <1>3, <1>8 DEF n, len

LEMMA NoneLeft ==
  ASSUME NEW c \in Nat, NEW l \in Nat, NEW g, g = c - l
  PROVE  g = c <=> l = 0
OBVIOUS

\* A packet went out.
LEMMA PacketGone ==
  ASSUME TypeOK, NEW ch \in Channels, Sending(ch), tx[ch] # <<>>,
         tx' = [tx EXCEPT ![ch] = Tail(@)], UNCHANGED current
  PROVE  /\ tx' \in [Channels -> Seq(Packet)]
         /\ Sending(ch)' /\ Gone(ch)' = Gone(ch) + 1
         /\ tx'[ch] = <<>> <=> Gone(ch)' = Count(Length(ch))
         /\ Length(ch)' = Length(ch)
<1>0. /\ tx[ch] \in Seq(Packet) /\ Len(tx[ch]) \in Nat /\ Len(tx[ch]) > 0
      /\ tx'[ch] = Tail(tx[ch])
  BY LenProperties, EmptySeq DEF TypeOK
<1>1. /\ Tail(tx[ch]) \in Seq(Packet) /\ Len(Tail(tx[ch])) = Len(tx[ch]) - 1
      /\ \A i \in 1..Len(Tail(tx[ch])) : Tail(tx[ch])[i] = tx[ch][i + 1]
  BY <1>0, HeadTailProperties
<1>2. tx' \in [Channels -> Seq(Packet)]
  BY <1>0, <1>1 DEF TypeOK
<1>3. Length(ch)' = Length(ch)
  BY DEF Length
<1>4. Length(ch) \in 1..kMaxMessageLen /\ Len(tx[ch]) <= Count(Length(ch))
  BY DEF Sending
<1>5. Count(Length(ch)) \in Nat
  BY <1>4, CountProps
<1>6. Gone(ch)' = Gone(ch) + 1 /\ Gone(ch) \in Nat
  <2>1. Gone(ch)' = Count(Length(ch)) - Len(Tail(tx[ch]))
    BY <1>0, <1>3 DEF Gone
  <2>2. Gone(ch) = Count(Length(ch)) - Len(tx[ch])
    BY DEF Gone
  <2> QED BY <1>0, <1>1, <1>4, <1>5, <2>1, <2>2
<1>7. ASSUME NEW i \in 1..Len(tx'[ch])
      PROVE  tx'[ch][i] = fragment(current'[ch], AttPayload)[Gone(ch)' + i]
  <2>0. i \in 1..Len(Tail(tx[ch]))
    BY <1>0
  <2>1. i + 1 \in 1..Len(tx[ch]) /\ tx'[ch][i] = tx[ch][i + 1]
    <3>1. i \in 1..(Len(tx[ch]) - 1)
      BY <1>1, <2>0
    <3>2. i + 1 \in 1..Len(tx[ch])
      BY <1>0, <3>1
    <3>3. Tail(tx[ch])[i] = tx[ch][i + 1]
      BY <1>1, <2>0, Zenon
    <3> QED BY <1>0, <3>2, <3>3, Zenon
  <2>2. tx[ch][i + 1] = fragment(current[ch], AttPayload)[Gone(ch) + (i + 1)]
    BY <2>1, Zenon DEF Sending
  <2>3. Gone(ch) + (i + 1) = Gone(ch)' + i
    BY <1>6
  <2> QED BY <2>1, <2>2, <2>3
<1>8. Sending(ch)'
  <2>1. Len(tx'[ch]) <= Count(Length(ch))
    BY <1>0, <1>1, <1>4, <1>5
  <2> QED BY <1>3, <1>4, <1>7, <2>1 DEF Sending
<1>9. tx'[ch] = <<>> <=> Gone(ch)' = Count(Length(ch))
  <2>1. Len(tx'[ch]) \in Nat /\ (Len(tx'[ch]) = 0 <=> tx'[ch] = <<>>)
    BY <1>0, <1>1, LenProperties, EmptySeq
  <2>2. Gone(ch)' = Count(Length(ch)) - Len(tx'[ch])
    BY <1>3 DEF Gone
  <2>3. Gone(ch)' = Count(Length(ch)) <=> Len(tx'[ch]) = 0
    BY <1>5, <2>1, <2>2, NoneLeft
  <2> QED BY <2>1, <2>3, Zenon
<1> QED BY <1>2, <1>3, <1>6, <1>8, <1>9

\* BleSession::feed() keeps the other reassemblers, and its own sound.
LEMMA FeedStep ==
  ASSUME TypeOK, NEW ch \in Channels, NEW p \in Packet, Sound(rx[ch]), Feed(ch, p)
  PROVE  /\ rx' \in [Channels -> Rx] /\ got' \in [Channels -> Seq(Byte)]
         /\ rx'[ch] = IF feed_result(rx[ch], p) = "kNeedMore" THEN feed(rx[ch], p) ELSE Fresh
         /\ got'[ch] = IF feed_result(rx[ch], p) = "kComplete" THEN feed(rx[ch], p).buf ELSE <<>>
         /\ \A c \in Channels \ {ch} : rx'[c] = rx[c] /\ got'[c] = got[c]
         /\ Sound(rx'[ch])
<1> DEFINE r == rx[ch]
           done == feed_result(r, p) = "kComplete"
<1>0. rx \in [Channels -> Rx] /\ got \in [Channels -> Seq(Byte)] /\ r \in Rx
  BY DEF TypeOK, Rx
<1>1. Fresh \in Rx /\ <<>> \in Seq(Byte) /\ Sound(Fresh) /\ ~Fresh.in_progress
  BY EmptySeq DEF Fresh, Rx, Sound
<1>2. /\ rx' = [rx EXCEPT ![ch] = IF done THEN Fresh ELSE feed(r, p)]
      /\ got' = [got EXCEPT ![ch] = IF done THEN feed(r, p).buf ELSE <<>>]
  BY DEF Feed, rx_index, take
<1>3. feed_result(r, p) \in FeedResult
  BY <1>0, FeedResultIs
<1>4. feed(r, p) \in Rx
  BY <1>0, <1>1, FeedProps
<1>5. feed(r, p).buf \in Seq(Byte)
  BY <1>4 DEF Rx
<1> HIDE DEF r
<1>6. rx'[ch] = (IF done THEN Fresh ELSE feed(r, p))
  BY <1>0, <1>2
<1>7. rx'[ch] = IF feed_result(r, p) = "kNeedMore" THEN feed(r, p) ELSE Fresh
  <2>1. CASE feed_result(r, p) \in Errors
    <3>1. feed(r, p) = Fresh
      BY <2>1, <1>0, FeedProps DEF r
    <3> QED BY <1>6, <2>1, <3>1 DEF Errors
  <2>2. CASE feed_result(r, p) = "kNeedMore"
    BY <1>6, <2>2
  <2>3. CASE feed_result(r, p) = "kComplete"
    BY <1>6, <2>3
  <2> QED BY <1>3, <2>1, <2>2, <2>3 DEF FeedResult
<1>8. Sound(rx'[ch])
  <2>1. CASE feed_result(r, p) = "kNeedMore"
    BY <1>0, <1>7, <2>1, FeedProps DEF r
  <2>2. CASE feed_result(r, p) # "kNeedMore"
    BY <1>1, <1>7, <2>2
  <2> QED BY <2>1, <2>2
<1>9. rx' \in [Channels -> Rx]
  BY <1>0, <1>1, <1>2, <1>4
<1>10. got' \in [Channels -> Seq(Byte)]
  BY <1>0, <1>1, <1>2, <1>5
<1>11. \A c \in Channels \ {ch} : rx'[c] = rx[c] /\ got'[c] = got[c]
  BY <1>0, <1>2
<1>12. got'[ch] = IF done THEN feed(r, p).buf ELSE <<>>
  BY <1>0, <1>2
<1> QED BY <1>7, <1>8, <1>9, <1>10, <1>11, <1>12 DEF r

\* A characteristic that a step is not about.
LEMMA OtherChannel ==
  ASSUME NEW c \in Channels, ChannelInv(c),
         rx'[c] = rx[c], tx'[c] = tx[c], current'[c] = current[c],
         intact'[c] = intact[c], begun'[c] = begun[c], got'[c] = got[c]
  PROVE  ChannelInv(c)'
<1>1. Length(c)' = Length(c)
  BY DEF Length
<1>2. Gone(c)' = Gone(c)
  BY <1>1 DEF Gone
<1> QED BY <1>1, <1>2 DEF ChannelInv, Sound, Sending, Assembling, Keeping, Whole

-----------------------------------------------------------------------------
(* The actions. *)

LEMMA MoreThanAll ==
  ASSUME NEW a \in Nat, NEW len \in Nat, NEW x, x = a + (len + 1)
  PROVE  /\ x \in Nat /\ x > len
         /\ \A b, c \in Nat : b + c = len => x > c
OBVIOUS

\* A damaged packet of a message being assembled is refused.
LEMMA DamagedIsRefused ==
  ASSUME NEW data \in Seq(Byte), NEW len \in 1..kMaxMessageLen, len = Len(data),
         NEW n \in 1..Count(len), NEW p, PacketOf(p, data, n),
         NEW q \in Damaged(p, len)
  PROVE  /\ q \in Packet
         /\ \A r \in Rx : Sound(r) /\ (n > 1 /\ r.in_progress => r.declared = len)
                          => feed_result(r, q) \in Errors
<1>0. /\ p \in Packet /\ p.payload \in Seq(Byte) /\ p.declared \in Nat
      /\ p.kind = IF n = 1 THEN "start" ELSE "cont"
      /\ n = 1 => p.declared = len
      /\ len \in Nat /\ n \in Nat /\ n >= 1
  <2>1. Count(len) \in Nat /\ len \in Nat
    BY CountProps
  <2>2. n \in Nat /\ n >= 1
    BY <2>1
  <2>3. p \in Packet /\ p.payload \in Seq(Byte) /\ p.declared \in Nat
    BY DEF PacketOf, Packet
  <2>4. p.kind = (IF n = 1 THEN "start" ELSE "cont") /\ (n = 1 => p.declared = len)
    BY DEF PacketOf
  <2> QED BY <2>1, <2>2, <2>3, <2>4
<1>1. CASE \E k \in {"empty", "truncated", "reserved"} :
             q = [p EXCEPT !.kind = k, !.payload = <<>>]
  <2>1. PICK k \in {"empty", "truncated", "reserved"} :
             q = [p EXCEPT !.kind = k, !.payload = <<>>]
    BY <1>1
  <2>2. q \in Packet /\ q.kind \notin {"start", "cont"}
    BY <1>0, <2>1, EmptySeq DEF Packet
  <2> QED BY <2>2, FeedResultIs
<1>2. CASE q = [p EXCEPT !.declared = 0, !.kind = "start"]
  <2>1. q \in Packet /\ q.kind = "start" /\ q.declared = 0
    BY <1>0, <1>2 DEF Packet
  <2> QED BY <2>1, FeedResultIs
<1>3. CASE q = [p EXCEPT !.payload = @ \o Message(0, len + 1)]
  <2>1. Message(0, len + 1) \in Seq(Byte) /\ Len(Message(0, len + 1)) = len + 1
    <3>1. len + 1 \in Nat
      BY <1>0
    <3> QED BY <3>1, MessageType
  <2> DEFINE extra == Message(0, len + 1)
  <2> HIDE DEF extra
  <2>2. /\ p.payload \o extra \in Seq(Byte)
        /\ Len(p.payload \o extra) = Len(p.payload) + Len(extra)
    BY <1>0, <2>1, ConcatProperties DEF extra
  <2>3. Len(p.payload) \in Nat /\ Len(extra) = len + 1
    BY <1>0, <2>1, LenProperties DEF extra
  <2>4. /\ q \in Packet /\ q.kind = p.kind /\ q.declared = p.declared
        /\ q.payload = p.payload \o extra
    BY <1>0, <1>3, <2>2 DEF Packet, extra
  <2>5. Len(q.payload) = Len(p.payload) + (len + 1) /\ Len(q.payload) \in Nat
        /\ Len(q.payload) > len
    <3>1. Len(q.payload) = Len(p.payload) + (len + 1)
      BY <2>2, <2>3, <2>4
    <3> QED BY <1>0, <2>3, <3>1, MoreThanAll
  <2>6. ASSUME NEW r \in Rx, Sound(r), n > 1 /\ r.in_progress => r.declared = len
        PROVE  feed_result(r, q) \in Errors
    <3>0. /\ Len(r.buf) \in Nat /\ r.remaining \in Nat /\ r.in_progress \in BOOLEAN
      BY LenProperties DEF Rx
    <3>1. CASE n = 1
      <4>1. Expected(r, q) = len /\ q.kind = "start"
        BY <1>0, <2>4, <3>1 DEF Expected
      <4> QED BY <2>4, <2>5, <4>1, FeedResultIs
    <3>2. CASE n # 1 /\ r.in_progress
      <4>1. Len(r.buf) + r.remaining = len
        BY <1>0, <2>6, <3>2 DEF Sound
      <4>2. Expected(r, q) = r.remaining /\ q.kind = "cont"
        BY <1>0, <2>4, <3>2 DEF Expected
      <4>3. Len(q.payload) > Expected(r, q)
        BY <1>0, <2>3, <2>5, <3>0, <4>1, <4>2, MoreThanAll
      <4> QED BY <2>4, <4>2, <4>3, FeedResultIs
    <3>3. CASE n # 1 /\ ~r.in_progress
      <4>1. q.kind = "cont"
        BY <1>0, <2>4, <3>3
      <4> QED BY <2>4, <3>3, <4>1, FeedResultIs
    <3> QED BY <3>0, <3>1, <3>2, <3>3
  <2> QED BY <2>4, <2>6
<1> QED BY <1>1, <1>2, <1>3 DEF Damaged

LEMMA SendMessageStep ==
  ASSUME RxInv, NEW ch \in Channels, SendMessage(ch)
  PROVE  RxInv'
<1>1. PICK len \in Lengths :
        /\ current' = [current EXCEPT ![ch] = Message(1 - current[ch][1].msg, len)]
        /\ tx' = [tx EXCEPT ![ch] = fragment(Message(1 - current[ch][1].msg, len), AttPayload)]
  BY DEF SendMessage
<1> DEFINE b == 1 - current[ch][1].msg
           m == Message(b, len)
<1>2. len \in 1..kMaxMessageLen /\ len \in Nat
  BY SizeTypes
<1>3. b \in {0, 1}
  <2>1. current[ch] \in Seq(Byte) /\ Len(current[ch]) \in 1..kMaxMessageLen
    BY DEF RxInv, TypeOK, ChannelInv, Sending, Length
  <2>2. Len(current[ch]) \in Nat /\ Len(current[ch]) >= 1
    BY <2>1, SizeTypes
  <2>3. current[ch][1] \in Byte
    BY <2>1, <2>2, ElementOfSeq
  <2>4. current[ch][1].msg \in {0, 1}
    BY <2>3 DEF Byte
  <2> QED BY <2>4
<1> HIDE DEF b
<1>4. m \in Seq(Byte) /\ Len(m) = len
  BY <1>2, <1>3, MessageType
<1> HIDE DEF m
<1>5. /\ current' = [current EXCEPT ![ch] = m]
      /\ tx' = [tx EXCEPT ![ch] = fragment(m, AttPayload)]
  BY <1>1 DEF m, b
<1>6. /\ Len(fragment(m, AttPayload)) = Count(len)
      /\ fragment(m, AttPayload) \in Seq(Packet)
  BY <1>2, <1>4, FragmentProps
<1>7. /\ intact' = [intact EXCEPT ![ch] = TRUE] /\ begun' = [begun EXCEPT ![ch] = FALSE]
      /\ got' = [got EXCEPT ![ch] = <<>>] /\ rx' = rx
  BY DEF SendMessage
<1>8. TypeOK'
  <2>1. current' \in [Channels -> Seq(Byte)]
    BY <1>4, <1>5 DEF RxInv, TypeOK
  <2>2. tx' \in [Channels -> Seq(Packet)]
    BY <1>5, <1>6 DEF RxInv, TypeOK
  <2>3. got' \in [Channels -> Seq(Byte)]
    BY <1>7, EmptySeq DEF RxInv, TypeOK
  <2>4. intact' \in [Channels -> BOOLEAN] /\ begun' \in [Channels -> BOOLEAN]
    BY <1>7 DEF RxInv, TypeOK
  <2> QED BY <1>7, <2>1, <2>2, <2>3, <2>4 DEF RxInv, TypeOK
<1>9. ChannelInv(ch)'
  <2>1. /\ current'[ch] = m /\ tx'[ch] = fragment(m, AttPayload)
        /\ begun'[ch] = FALSE /\ rx'[ch] = rx[ch]
    BY <1>5, <1>7 DEF RxInv, TypeOK
  <2>2. Length(ch)' = len
    BY <1>4, <2>1 DEF Length
  <2>3. Count(len) \in Nat
    BY <1>2, CountProps
  <2>4. Gone(ch)' = Count(Length(ch)') - Len(tx'[ch])
    BY DEF Gone
  <2>5. Gone(ch)' = 0
    BY <1>6, <2>1, <2>2, <2>3, <2>4
  <2>6. Sending(ch)'
    <3>1. \A i \in 1..Len(tx'[ch]) :
             tx'[ch][i] = fragment(current'[ch], AttPayload)[Gone(ch)' + i]
      <4> TAKE i \in 1..Len(tx'[ch])
      <4>1. Gone(ch)' + i = i
        BY <1>6, <2>1, <2>3, <2>5
      <4> QED BY <2>1, <4>1
    <3>2. Len(tx'[ch]) <= Count(Length(ch)')
      BY <1>6, <2>1, <2>2, <2>3
    <3> QED BY <1>2, <2>2, <3>1, <3>2 DEF Sending
  <2>7. Sound(rx[ch])'
    BY <2>1 DEF RxInv, ChannelInv, Sound
  <2>8. Assembling(ch)' /\ Whole(ch)'
    BY <2>1 DEF Assembling, Whole
  <2>9. Keeping(ch)'
    BY <2>5 DEF Keeping
  <2> QED BY <2>6, <2>7, <2>8, <2>9 DEF ChannelInv
<1>10. ASSUME NEW c \in Channels, c # ch PROVE ChannelInv(c)'
  <2>1. /\ rx'[c] = rx[c] /\ tx'[c] = tx[c] /\ current'[c] = current[c]
        /\ intact'[c] = intact[c] /\ begun'[c] = begun[c] /\ got'[c] = got[c]
    BY <1>5, <1>7, <1>10 DEF RxInv, TypeOK
  <2> QED BY <2>1, OtherChannel DEF RxInv
<1> QED BY <1>8, <1>9, <1>10 DEF RxInv

\* Feeding the next packet of the current message, sound or damaged: what
\* Notify and NotifyDamaged have in common.
LEMMA FedTypes ==
  ASSUME RxInv, NEW ch \in Channels, tx[ch] # <<>>, NEW p \in Packet, Feed(ch, p),
         tx' = [tx EXCEPT ![ch] = Tail(@)],
         begun' = [begun EXCEPT ![ch] = Starts(ch)], UNCHANGED current,
         intact' = intact \/ intact' = [intact EXCEPT ![ch] = FALSE]
  PROVE  /\ TypeOK'
         /\ \A c \in Channels \ {ch} : ChannelInv(c)'
         /\ Sound(rx[ch])' /\ Sending(ch)' /\ Gone(ch)' = Gone(ch) + 1
         /\ Length(ch)' = Length(ch)
         /\ begun'[ch] <=> begun[ch] \/ Gone(ch) = 0
<1>0. TypeOK /\ ChannelInv(ch)
  BY DEF RxInv
<1>1. Sound(rx[ch]) /\ Sending(ch)
  BY <1>0 DEF ChannelInv
<1>2. /\ rx' \in [Channels -> Rx] /\ got' \in [Channels -> Seq(Byte)]
      /\ \A c \in Channels \ {ch} : rx'[c] = rx[c] /\ got'[c] = got[c]
      /\ Sound(rx'[ch])
  BY <1>0, <1>1, FeedStep
<1>3. /\ tx' \in [Channels -> Seq(Packet)]
      /\ Sending(ch)' /\ Gone(ch)' = Gone(ch) + 1 /\ Length(ch)' = Length(ch)
  BY <1>0, <1>1, PacketGone
<1>4. Gone(ch) \in Nat /\ PacketOf(Head(tx[ch]), current[ch], Gone(ch) + 1)
  BY <1>0, <1>1, HeadIs
<1>5. Starts(ch) <=> begun[ch] \/ Gone(ch) = 0
  <2>1. Head(tx[ch]).kind = IF Gone(ch) + 1 = 1 THEN "start" ELSE "cont"
    BY <1>4 DEF PacketOf
  <2>2. Head(tx[ch]).kind = "start" <=> Gone(ch) = 0
    BY <1>4, <2>1
  <2> QED BY <2>2 DEF Starts
<1>6. begun \in [Channels -> BOOLEAN] /\ intact \in [Channels -> BOOLEAN]
  BY <1>0 DEF TypeOK
<1>7. begun' \in [Channels -> BOOLEAN] /\ (begun'[ch] <=> Starts(ch))
  <2>1. Starts(ch) \in BOOLEAN
    BY <1>6 DEF Starts
  <2> QED BY <1>6, <2>1
<1>8. intact' \in [Channels -> BOOLEAN]
  BY <1>6
<1>9. TypeOK'
  BY <1>0, <1>2, <1>3, <1>7, <1>8 DEF TypeOK, Rx
<1>10. ASSUME NEW c \in Channels \ {ch} PROVE ChannelInv(c)'
  <2>1. tx'[c] = tx[c] /\ begun'[c] = begun[c] /\ intact'[c] = intact[c]
    BY <1>0 DEF TypeOK
  <2>2. ChannelInv(c) /\ c \in Channels /\ rx'[c] = rx[c] /\ got'[c] = got[c]
    BY <1>2 DEF RxInv
  <2> QED BY <2>1, <2>2, OtherChannel
<1> QED BY <1>2, <1>3, <1>5, <1>7, <1>9, <1>10

\* The n-th packet of a message whose start was fed meets a reassembler that
\* holds nothing or the beginning of it.
LEMMA HeldIsCurrent ==
  ASSUME RxInv, NEW ch \in Channels, tx[ch] # <<>>, begun[ch] \/ Gone(ch) = 0,
         Gone(ch) + 1 > 1, rx[ch].in_progress
  PROVE  Assembles(rx[ch], current[ch], Bytes(Length(ch), (Gone(ch) + 1) - 1))
<1>1. Assembling(ch) /\ Gone(ch) \in Nat
  BY HeadIs DEF RxInv, ChannelInv
<1>2. (Gone(ch) + 1) - 1 = Gone(ch) /\ begun[ch]
  BY <1>1
<1>3. Assembles(rx[ch], current[ch], Bytes(Length(ch), Gone(ch)))
  BY <1>1, <1>2 DEF Assembling
<1> QED BY <1>2, <1>3

LEMMA NotifyStep ==
  ASSUME RxInv, NEW ch \in Channels, Notify(ch)
  PROVE  /\ RxInv'
         /\ intact[ch] /\ tx'[ch] = <<>> => got'[ch] = current[ch]
<1> DEFINE p == Head(tx[ch])
           r == rx[ch]
           len == Length(ch)
           n == Gone(ch) + 1
<1>0. /\ TypeOK /\ ChannelInv(ch) /\ tx[ch] # <<>> /\ Feed(ch, p)
      /\ tx' = [tx EXCEPT ![ch] = Tail(@)]
      /\ begun' = [begun EXCEPT ![ch] = Starts(ch)] /\ current' = current
      /\ intact' = intact
  BY DEF Notify, RxInv
<1>1. Sound(r) /\ Sending(ch) /\ Assembling(ch) /\ Keeping(ch) /\ r \in Rx
  BY <1>0 DEF ChannelInv, TypeOK, Rx
<1>2. /\ Gone(ch) \in Nat /\ n \in 1..Count(len)
      /\ PacketOf(p, current[ch], n)
  BY <1>0, <1>1, HeadIs
<1>3. p \in Packet
  BY <1>2 DEF PacketOf
<1>4. /\ TypeOK' /\ \A c \in Channels \ {ch} : ChannelInv(c)'
      /\ Sound(rx[ch])' /\ Sending(ch)' /\ Gone(ch)' = n /\ Length(ch)' = len
      /\ begun'[ch] <=> begun[ch] \/ Gone(ch) = 0
  BY <1>0, <1>3, FedTypes
<1>5. /\ rx'[ch] = IF feed_result(r, p) = "kNeedMore" THEN feed(r, p) ELSE Fresh
      /\ got'[ch] = IF feed_result(r, p) = "kComplete" THEN feed(r, p).buf ELSE <<>>
  BY <1>0, <1>1, <1>3, FeedStep
<1>6. current[ch] \in Seq(Byte) /\ len \in 1..kMaxMessageLen /\ len = Len(current[ch])
  BY <1>0, <1>1 DEF TypeOK, Sending, Length
<1>7. begun[ch] \/ Gone(ch) = 0 =>
        (n > 1 /\ r.in_progress => Assembles(r, current[ch], Bytes(len, n - 1)))
  BY <1>0, HeldIsCurrent
<1>8. tx'[ch] = <<>> <=> n = Count(len)
  BY <1>0, <1>1, <1>4, PacketGone
<1>9. ~Fresh.in_progress
  BY DEF Fresh
<1>10. (n = 1 <=> Gone(ch) = 0) /\ n >= 1 /\ n - 1 = Gone(ch)
  BY <1>2
<1> HIDE DEF p, r, len, n
<1>11. ASSUME begun'[ch]
       PROVE  /\ feed_result(r, p) = "kComplete" => feed(r, p).buf = current[ch]
              /\ feed_result(r, p) = "kNeedMore" =>
                   Assembles(feed(r, p), current[ch], Bytes(len, n))
  <2>1. n > 1 /\ r.in_progress => Assembles(r, current[ch], Bytes(len, n - 1))
    BY <1>4, <1>7, <1>11
  <2> QED BY <1>1, <1>2, <1>6, <2>1, FeedCurrent
<1>12. ASSUME intact[ch]
       PROVE  /\ begun'[ch]
              /\ feed_result(r, p) = IF n = Count(len) THEN "kComplete" ELSE "kNeedMore"
              /\ n # Count(len) => Len(feed(r, p).buf) = Bytes(len, n)
  <2>1. begun[ch] \/ Gone(ch) = 0
    BY <1>0, <1>1, <1>2, <1>12 DEF Keeping
  <2>2. n = 1 \/ (r.in_progress /\ Len(r.buf) = Bytes(len, n - 1))
    <3>1. CASE Gone(ch) = 0
      BY <1>10, <3>1
    <3>2. CASE Gone(ch) # 0
      BY <1>0, <1>1, <1>2, <1>10, <1>12, <3>2 DEF Keeping, r, len
    <3> QED BY <3>1, <3>2
  <2>3. n > 1 /\ r.in_progress => Assembles(r, current[ch], Bytes(len, n - 1))
    BY <1>7, <2>1
  <2>4. begun'[ch]
    BY <1>4, <2>1
  <2> QED BY <1>1, <1>2, <1>6, <2>2, <2>3, <2>4, FeedCurrent
<1>13. Assembling(ch)'
  <2>1. ASSUME begun'[ch], rx'[ch].in_progress
        PROVE  Assembles(rx'[ch], current'[ch], Bytes(len, n))
    <3>1. feed_result(r, p) = "kNeedMore" /\ rx'[ch] = feed(r, p)
      BY <1>5, <1>9, <2>1
    <3> QED BY <1>0, <1>11, <2>1, <3>1
  <2> QED BY <1>4, <1>10, <2>1 DEF Assembling
<1>14. Keeping(ch)'
  <2>1. ASSUME intact[ch], tx'[ch] # <<>>
        PROVE  begun'[ch] /\ rx'[ch].in_progress /\ Len(rx'[ch].buf) = Bytes(len, n)
    <3>1. begun'[ch] /\ feed_result(r, p) = "kNeedMore" /\ Len(feed(r, p).buf) = Bytes(len, n)
      BY <1>8, <1>12, <2>1
    <3>2. feed(r, p).in_progress
      BY <1>1, <1>3, <3>1, FeedProps
    <3> QED BY <1>5, <3>1, <3>2
  <2> QED BY <1>0, <1>4, <2>1 DEF Keeping
<1>15. Whole(ch)'
  BY <1>0, <1>5, <1>11 DEF Whole
<1>16. ChannelInv(ch)'
  BY <1>4, <1>13, <1>14, <1>15 DEF ChannelInv
<1>17. ASSUME intact[ch], tx'[ch] = <<>> PROVE got'[ch] = current[ch]
  <2>1. begun'[ch] /\ feed_result(r, p) = "kComplete"
    BY <1>8, <1>12, <1>17
  <2> QED BY <1>5, <1>11, <2>1
<1> QED BY <1>4, <1>16, <1>17 DEF RxInv

LEMMA NotifyDamagedStep ==
  ASSUME RxInv, NEW ch \in Channels, NotifyDamaged(ch)
  PROVE  RxInv'
<1> DEFINE p == Head(tx[ch])
           r == rx[ch]
           len == Length(ch)
           n == Gone(ch) + 1
<1>0. /\ TypeOK /\ ChannelInv(ch) /\ tx[ch] # <<>>
      /\ tx' = [tx EXCEPT ![ch] = Tail(@)]
      /\ begun' = [begun EXCEPT ![ch] = Starts(ch)] /\ current' = current
      /\ intact' = [intact EXCEPT ![ch] = FALSE]
  BY DEF NotifyDamaged, RxInv
<1>1. Sound(r) /\ Sending(ch) /\ Assembling(ch) /\ r \in Rx
  BY <1>0 DEF ChannelInv, TypeOK, Rx
<1>2. /\ Gone(ch) \in Nat /\ n \in 1..Count(len)
      /\ PacketOf(p, current[ch], n)
  BY <1>0, <1>1, HeadIs
<1>3. current[ch] \in Seq(Byte) /\ len \in 1..kMaxMessageLen /\ len = Len(current[ch])
  BY <1>0, <1>1 DEF TypeOK, Sending, Length
<1>4. PICK q \in Damaged(p, len) : Feed(ch, q)
  BY DEF NotifyDamaged, Length
<1>5. /\ q \in Packet
      /\ Sound(r) /\ (n > 1 /\ r.in_progress => r.declared = len)
         => feed_result(r, q) \in Errors
  BY <1>1, <1>2, <1>3, DamagedIsRefused
<1>6. /\ TypeOK' /\ \A c \in Channels \ {ch} : ChannelInv(c)'
      /\ Sound(rx[ch])' /\ Sending(ch)' /\ Gone(ch)' = n /\ Length(ch)' = len
      /\ begun'[ch] <=> begun[ch] \/ Gone(ch) = 0
  BY <1>0, <1>4, <1>5, FedTypes
<1>7. /\ rx'[ch] = IF feed_result(r, q) = "kNeedMore" THEN feed(r, q) ELSE Fresh
      /\ got'[ch] = IF feed_result(r, q) = "kComplete" THEN feed(r, q).buf ELSE <<>>
  BY <1>0, <1>1, <1>4, <1>5, FeedStep
<1>8. begun[ch] \/ Gone(ch) = 0 =>
        (n > 1 /\ r.in_progress => Assembles(r, current[ch], Bytes(len, n - 1)))
  BY <1>0, HeldIsCurrent
<1>9. n >= 1 /\ ~Fresh.in_progress /\ intact'[ch] = FALSE
  BY <1>0, <1>2 DEF Fresh, TypeOK
<1> HIDE DEF p, r, len, n
<1>10. ASSUME begun'[ch] PROVE rx'[ch] = Fresh /\ got'[ch] = <<>>
  <2>1. n > 1 /\ r.in_progress => r.declared = len
    BY <1>3, <1>6, <1>8, <1>10 DEF Assembles
  <2>2. feed_result(r, q) \in Errors
    BY <1>1, <1>5, <2>1
  <2> QED BY <1>7, <2>2 DEF Errors
<1>11. Assembling(ch)' /\ Whole(ch)'
  BY <1>6, <1>9, <1>10 DEF Assembling, Whole
<1>12. Keeping(ch)'
  BY <1>9 DEF Keeping
<1>13. ChannelInv(ch)'
  BY <1>6, <1>11, <1>12 DEF ChannelInv
<1> QED BY <1>6, <1>13 DEF RxInv

LEMMA LoseStep ==
  ASSUME RxInv, NEW ch \in Channels, Lose(ch)
  PROVE  RxInv'
<1> DEFINE len == Length(ch)
           n == Gone(ch) + 1
<1>0. /\ TypeOK /\ ChannelInv(ch) /\ tx[ch] # <<>>
      /\ tx' = [tx EXCEPT ![ch] = Tail(@)]
      /\ intact' = [intact EXCEPT ![ch] = FALSE] /\ got' = [got EXCEPT ![ch] = <<>>]
      /\ rx' = rx /\ current' = current /\ begun' = begun
  BY DEF Lose, RxInv
<1>1. Sound(rx[ch]) /\ Sending(ch) /\ Assembling(ch) /\ rx[ch] \in Rx
  BY <1>0 DEF ChannelInv, TypeOK, Rx
<1>2. Gone(ch) \in Nat /\ n \in 1..Count(len) /\ len \in 1..kMaxMessageLen
  BY <1>0, <1>1, HeadIs DEF Sending
<1>3. /\ tx' \in [Channels -> Seq(Packet)]
      /\ Sending(ch)' /\ Gone(ch)' = n /\ Length(ch)' = len
  BY <1>0, <1>1, PacketGone
<1>4. intact'[ch] = FALSE /\ got'[ch] = <<>>
  BY <1>0 DEF TypeOK
<1>5. TypeOK'
  <2>1. got' \in [Channels -> Seq(Byte)]
    BY <1>0, EmptySeq DEF TypeOK
  <2>2. intact' \in [Channels -> BOOLEAN]
    BY <1>0 DEF TypeOK
  <2> QED BY <1>0, <1>3, <2>1, <2>2 DEF TypeOK
<1>6. Bytes(len, n - 1) < Bytes(len, n) /\ n - 1 = Gone(ch) /\ n >= 1
      /\ Bytes(len, n - 1) \in Int /\ Bytes(len, n) \in Int
  <2>1. Count(len) \in Nat
    BY <1>2, CountProps
  <2>2. n - 1 = Gone(ch) /\ n >= 1 /\ n - 1 \in 0..Count(len) /\ n \in 0..Count(len)
    BY <1>2, <2>1
  <2>3. len \in Nat
    BY <1>2, SizeTypes
  <2>4. Bytes(len, n - 1) \in 0..len /\ Bytes(len, n) \in 0..len
    BY <1>2, <2>2, BytesProps
  <2>5. Bytes(len, n - 1) < Bytes(len, n)
    BY <1>2, BytesProps
  <2> QED BY <2>2, <2>3, <2>4, <2>5
<1> HIDE DEF n
<1>7. Assembling(ch)'
  <2>1. ASSUME begun[ch], rx[ch].in_progress
        PROVE  Assembles(rx[ch], current[ch], Bytes(len, n))
    <3>1. Assembles(rx[ch], current[ch], Bytes(len, n - 1))
      BY <1>1, <1>6, <2>1 DEF Assembling
    <3>2. Len(rx[ch].buf) \in Nat
      BY <1>1, LenProperties DEF Rx
    <3>3. Len(rx[ch].buf) < Bytes(len, n)
      BY <1>6, <3>1, <3>2 DEF Assembles
    <3> QED BY <1>6, <3>1, <3>2, <3>3 DEF Assembles
  <2> QED BY <1>0, <1>3, <1>6, <2>1 DEF Assembling
<1>8. Keeping(ch)' /\ Whole(ch)'
  BY <1>4 DEF Keeping, Whole
<1>9. Sound(rx[ch])'
  BY <1>0, <1>1 DEF Sound
<1>10. ASSUME NEW c \in Channels, c # ch PROVE ChannelInv(c)'
  <2>1. /\ rx'[c] = rx[c] /\ tx'[c] = tx[c] /\ current'[c] = current[c]
        /\ intact'[c] = intact[c] /\ begun'[c] = begun[c] /\ got'[c] = got[c]
    BY <1>0, <1>10 DEF TypeOK
  <2> QED BY <2>1, OtherChannel DEF RxInv
<1>11. ChannelInv(ch)'
  BY <1>3, <1>7, <1>8, <1>9 DEF ChannelInv
<1> QED BY <1>5, <1>10, <1>11 DEF RxInv

LEMMA FreshType == Fresh \in Rx
BY EmptySeq DEF Fresh, Rx

LEMMA DropStep ==
  ASSUME RxInv, Drop
  PROVE  RxInv'
<1>1. TypeOK'
  BY FreshType, EmptySeq DEF RxInv, TypeOK, Drop, Rx
<1>2. ASSUME NEW ch \in Channels PROVE ChannelInv(ch)'
  <2>1. /\ rx'[ch] = Fresh /\ tx'[ch] = <<>> /\ begun'[ch] = FALSE
        /\ intact'[ch] = FALSE /\ current'[ch] = current[ch]
    BY DEF Drop
  <2>2. current[ch] \in Seq(Byte) /\ Length(ch) \in 1..kMaxMessageLen
    BY DEF RxInv, TypeOK, ChannelInv, Sending
  <2>3. current'[ch] \in Seq(Byte) /\ Length(ch)' \in 1..kMaxMessageLen
    BY <2>1, <2>2 DEF Length
  <2>4. Count(Length(ch)') \in Nat
    BY <2>3, CountProps
  <2>5. Len(tx'[ch]) = 0
    BY <2>1, EmptySeq
  <2>6. Sending(ch)'
    BY <2>3, <2>4, <2>5 DEF Sending
  <2> QED BY <2>1, <2>6 DEF ChannelInv, Sound, Fresh, Assembling, Keeping, Whole
<1> QED BY <1>1, <1>2 DEF RxInv

LEMMA RxInit == Init => RxInv
<1> SUFFICES ASSUME Init PROVE RxInv
  OBVIOUS
<1>1. Message(0, 1) \in Seq(Byte) /\ Len(Message(0, 1)) = 1
  BY MessageType
<1>2. TypeOK
  BY <1>1, FreshType, EmptySeq DEF Init, TypeOK, Rx
<1>3. ASSUME NEW ch \in Channels PROVE ChannelInv(ch)
  <2>1. /\ rx[ch] = Fresh /\ tx[ch] = <<>> /\ begun[ch] = FALSE
        /\ intact[ch] = FALSE /\ current[ch] = Message(0, 1)
    BY DEF Init
  <2>2. kMaxMessageLen = 65534 /\ Length(ch) = 1
    BY <1>1, <2>1 DEF Length, kMaxMessageLen
  <2>3. Length(ch) \in 1..kMaxMessageLen
    BY <2>2
  <2>4. Count(Length(ch)) \in Nat
    BY <2>3, CountProps
  <2>5. Len(tx[ch]) = 0
    BY <2>1, EmptySeq
  <2>6. Sending(ch)
    BY <2>3, <2>4, <2>5 DEF Sending
  <2> QED BY <2>1, <2>6 DEF ChannelInv, Sound, Fresh, Assembling, Keeping, Whole
<1> QED BY <1>2, <1>3 DEF RxInv

LEMMA RxStep == RxInv /\ [Next]_rxVars => RxInv'
<1> SUFFICES ASSUME RxInv, [Next]_rxVars PROVE RxInv'
  OBVIOUS
<1>1. ASSUME NEW ch \in Channels, SendMessage(ch) PROVE RxInv'
  BY <1>1, SendMessageStep
<1>2. ASSUME NEW ch \in Channels, Notify(ch) PROVE RxInv'
  BY <1>2, NotifyStep
<1>3. ASSUME NEW ch \in Channels, Lose(ch) PROVE RxInv'
  BY <1>3, LoseStep
<1>4. ASSUME NEW ch \in Channels, NotifyDamaged(ch) PROVE RxInv'
  BY <1>4, NotifyDamagedStep
<1>5. CASE Drop
  BY <1>5, DropStep
<1>6. CASE UNCHANGED rxVars
  <2>1. /\ rx' = rx /\ tx' = tx /\ current' = current
        /\ intact' = intact /\ begun' = begun /\ got' = got
    BY <1>6 DEF rxVars
  <2>2. \A ch \in Channels : ChannelInv(ch)'
    BY <2>1, OtherChannel DEF RxInv
  <2>3. TypeOK'
    BY <2>1 DEF RxInv, TypeOK
  <2> QED BY <2>2, <2>3 DEF RxInv
<1> QED BY <1>1, <1>2, <1>3, <1>4, <1>5, <1>6 DEF Next

LEMMA RxAlways == Spec => []RxInv
<1> QED BY RxInit, RxStep, PTL DEF Spec

-----------------------------------------------------------------------------
(* The theorems. *)

\* The variables keep their types, whatever is sent, lost or damaged.
THEOREM RxTypeCorrect == Spec => []TypeOK
<1>1. RxInv => TypeOK
  BY DEF RxInv
<1> QED BY <1>1, RxAlways, PTL

\* remaining_ is exact in every reassembler: with the bytes buffered it makes
\* up the declared length, and an idle reassembler is clean.
THEOREM AccountingHolds == Spec => []Accounting
<1>1. RxInv => Accounting
  BY DEF RxInv, ChannelInv, Sound, Accounting
<1> QED BY <1>1, RxAlways, PTL

\* A message that BleSession::feed() takes from a reassembler is the one the
\* camera was sending there, whole and in order, if its start was fed: for
\* every length up to kMaxMessageLen and every ATT payload.
THEOREM NoSpliceHolds == Spec => []NoSplice
<1>1. RxInv => NoSplice
  BY DEF RxInv, ChannelInv, Whole, NoSplice
<1> QED BY <1>1, RxAlways, PTL

\* A step after which an intact message is out delivers it.
LEMMA LastPacketDelivers ==
  RxInv /\ [Next]_rxVars =>
    [\A ch \in Channels :
       tx[ch] # <<>> /\ tx'[ch] = <<>> /\ intact[ch] /\ intact'[ch]
       => got'[ch] = current[ch]]_rxVars
<1> SUFFICES ASSUME RxInv, Next, NEW ch \in Channels,
                    tx[ch] # <<>>, tx'[ch] = <<>>, intact[ch], intact'[ch]
             PROVE  got'[ch] = current[ch]
  OBVIOUS
<1>0. TypeOK
  BY DEF RxInv
<1>1. CASE Drop
  BY <1>1 DEF Drop
<1>2. ASSUME NEW c \in Channels,
             SendMessage(c) \/ Notify(c) \/ Lose(c) \/ NotifyDamaged(c)
      PROVE  got'[ch] = current[ch]
  <2>1. c = ch
    BY <1>0, <1>2 DEF TypeOK, SendMessage, Notify, Lose, NotifyDamaged
  <2>2. ~SendMessage(ch)
    BY DEF SendMessage
  <2>3. ~Lose(ch)
    BY <1>0 DEF TypeOK, Lose
  <2>4. ~NotifyDamaged(ch)
    BY <1>0 DEF TypeOK, NotifyDamaged
  <2>5. Notify(ch)
    BY <1>2, <2>1, <2>2, <2>3, <2>4
  <2> QED BY <2>5, NotifyStep
<1> QED BY <1>1, <1>2 DEF Next

\* "a corrupt packet costs one message": once all packets of a message have
\* been fed it has been delivered, whatever came before.
THEOREM IntactIsDeliveredHolds == Spec => IntactIsDelivered
<1> QED BY RxAlways, LastPacketDelivers, PTL DEF Spec, IntactIsDelivered

=============================================================================
