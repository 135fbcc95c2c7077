--------------------------- MODULE BleCameraProofs ---------------------------
(***************************************************************************)
(* Proofs about GoProBleCamera and the native bridge, for any commands and *)
(* any number of calls: every event is decoded to what was meant, every    *)
(* future that waits has its outcome on the way and gets its own, and      *)
(* without reconnection nothing is used after close() has released it.     *)
(***************************************************************************)
EXTENDS BleCamera, FiniteSetTheorems, SequenceTheorems, TLAPS

-----------------------------------------------------------------------------
(* Ids. *)

\* The powers of two and of 256 that the wire format uses.
LEMMA Powers ==
  /\ 2^8 = 256 /\ 2^16 = 65536 /\ 2^24 = 256 * 65536
  /\ 256^0 = 1 /\ 256^1 = 256 /\ 256^2 = 65536 /\ 256^3 = 256 * 65536
  OBVIOUS

LEMMA SentWellFormed == \A c \in Sent : c \in Commands
<1>1. KeepAliveCmd \in Commands
  BY DEF KeepAliveCmd, Command, Commands, keep_alive_payload, kSettings, Channel, Byte,
     kChannelCount
<1> QED
  BY <1>1, CameraAssumption DEF Sent

\* Dart and the native side number a command alike.
LEMMA SameId == \A c \in Sent : future_id(c) = id_of(c)
  BY DEF future_id, id_of, correlationOf, correlation_of

\* Ids have 25 bits.
IdLimit == 512 * 65536

LEMMA BytesOf ==
  ASSUME NEW p \in Seq(Byte)
  PROVE  /\ Len(p) >= 1 => p[1] \in 0..255
         /\ Len(p) >= 2 => p[2] \in 0..255
<1>1. p \in [1..Len(p) -> Byte] /\ Len(p) \in Nat
  OBVIOUS
<1>2. ASSUME NEW i \in Nat, 1 <= i, i <= Len(p)
      PROVE  p[i] \in Byte
  BY <1>1, <1>2
<1>3. /\ Len(p) >= 1 => p[1] \in Byte
      /\ Len(p) >= 2 => p[2] \in Byte
  BY <1>1, <1>2
<1> QED
  BY <1>3 DEF Byte

\* The width of an id tells where its channel is.
LEMMA IdOfCommand ==
  ASSUME NEW c \in Commands
  PROVE  /\ id_of(c) \in Nat /\ id_of(c) < IdLimit
         /\ channel_of_correlation(id_of(c)) = c.channel
<1> DEFINE ch == c.channel
           p  == c.payload
           id == id_of(c)
<1>1. /\ ch \in 0..3 /\ p \in Seq(Byte) /\ c.protobuf \in BOOLEAN
      /\ Len(p) >= 1 /\ (c.protobuf => Len(p) >= 2)
  BY DEF Commands, Channel, kChannelCount
<1>2. id = IF c.protobuf
           THEN 256 * 65536 + ch * 65536 + p[1] * 256 + protobuf_response_action(p[2])
           ELSE ch * 256 + p[1]
  BY Powers DEF id_of, correlation_of, correlation_of_protobuf, wide_id,
     kProtobufCorrelationBit
<1>3. channel_of_correlation(id) =
        IF id >= 256 * 65536 THEN (id \div 65536) % 256 ELSE (id \div 256) % 256
  BY Powers DEF channel_of_correlation, kProtobufCorrelationBit
<1> HIDE DEF ch, p, id
<1>4. CASE ~c.protobuf
  <2>1. p[1] \in 0..255
    BY <1>1, BytesOf
  <2>2. id = ch * 256 + p[1]
    BY <1>2, <1>4
  <2> DEFINE b == p[1]
  <2>5. b \in 0..255 /\ id = ch * 256 + b
    BY <2>1, <2>2
  <2> HIDE DEF b
  <2>3. id \in Nat /\ id < 65536 /\ (id \div 256) % 256 = ch
    BY <1>1, <2>5
  <2>4. ~(id >= 256 * 65536) /\ id < IdLimit
    BY <2>3 DEF IdLimit
  <2> QED
    BY <1>3, <2>3, <2>4 DEF id, ch
<1>5. CASE c.protobuf
  <2> DEFINE a == protobuf_response_action(p[2])
  <2>1. p[1] \in 0..255 /\ p[2] \in 0..255
    BY <1>1, <1>5, BytesOf
  <2>2. a \in 0..255
    BY <2>1 DEF protobuf_response_action
  <2> DEFINE f == p[1]
  <2>3. f \in 0..255 /\ id = 256 * 65536 + ch * 65536 + f * 256 + a
    BY <1>2, <1>5, <2>1
  <2> HIDE DEF a, f
  <2>4. /\ id \in Nat /\ 256 * 65536 <= id /\ id < IdLimit
        /\ (id \div 65536) % 256 = ch
    BY <1>1, <2>2, <2>3 DEF IdLimit
  <2>5. id >= 256 * 65536
    BY <2>4
  <2> QED
    BY <1>3, <2>4, <2>5 DEF id, ch
<1> QED
  BY <1>1, <1>4, <1>5

\* What is known under an id is a command submitted under it.
LEMMA CommandOfId ==
  ASSUME NEW id \in Ids
  PROVE  /\ cmd_of[id] \in Commands
         /\ id \in Nat /\ id < IdLimit
         /\ channel_of_correlation(id) = cmd_of[id].channel
<1>1. \E c \in Sent : id_of(c) = id
  BY SameId DEF Ids
<1>2. cmd_of[id] = CHOOSE c \in Sent : id_of(c) = id
  BY DEF cmd_of
<1>3. cmd_of[id] \in Sent /\ id_of(cmd_of[id]) = id
  BY <1>1, <1>2
<1>4. cmd_of[id] \in Commands
  BY <1>3, SentWellFormed
<1>5. /\ id_of(cmd_of[id]) \in Nat /\ id_of(cmd_of[id]) < IdLimit
      /\ channel_of_correlation(id_of(cmd_of[id])) = cmd_of[id].channel
  BY <1>4, IdOfCommand
<1> QED
  BY <1>3, <1>4, <1>5

-----------------------------------------------------------------------------
(* Events: what the bridge writes is what BleCodec reads. *)

LEMMA Concatenated ==
  ASSUME NEW a \in Seq(Byte), NEW b \in Seq(Byte)
  PROVE  /\ a \o b \in Seq(Byte) /\ Len(a \o b) = Len(a) + Len(b)
         /\ \A i \in 1..Len(a) : (a \o b)[i] = a[i]
         /\ \A i \in 1..Len(b) : (a \o b)[i + Len(a)] = b[i]
  OBVIOUS

\* What follows a header is read back whole.
LEMMA AfterHeader ==
  ASSUME NEW h \in Seq(Byte), NEW bytes \in Seq(Byte)
  PROVE  /\ Len(h \o bytes) = Len(h) + Len(bytes) /\ Len(bytes) \in Nat
         /\ \A i \in 1..Len(h) : (h \o bytes)[i] = h[i]
         /\ rest_from(h \o bytes, Len(h) + 1) = bytes
<1> DEFINE data == h \o bytes
<1>1. /\ data \in Seq(Byte) /\ Len(data) = Len(h) + Len(bytes)
      /\ Len(h) \in Nat /\ Len(bytes) \in Nat
      /\ \A i \in 1..Len(h) : data[i] = h[i]
  OBVIOUS
<1>2. \A i \in 1..Len(bytes) : data[i + Len(h)] = bytes[i]
  OBVIOUS
<1> HIDE DEF data
<1>3. rest_from(data, Len(h) + 1) = bytes
  BY <1>1, <1>2 DEF rest_from
<1> QED
  BY <1>1, <1>3 DEF data

LEMMA WriteDecodes ==
  ASSUME NEW ch \in 0..3, NEW bytes \in Seq(Byte)
  PROVE  decode(write_event(ch, bytes)) = [kind |-> "write", channel |-> ch, bytes |-> bytes]
<1> DEFINE h    == <<16, ch>>
           data == h \o bytes
<1>1. write_event(ch, bytes) = data
  BY DEF write_event, kGoProBleWrite
<1>2. h \in Seq(Byte) /\ Len(h) = 2 /\ h[1] = 16 /\ h[2] = ch
  BY DEF Byte
<1> HIDE DEF h
<1>3. /\ Len(data) = Len(h) + Len(bytes) /\ Len(bytes) \in Nat
      /\ \A i \in 1..Len(h) : data[i] = h[i]
      /\ rest_from(data, Len(h) + 1) = bytes
  BY <1>2, AfterHeader
<1> HIDE DEF data
<1>4. /\ data # <<>> /\ Len(data) >= 2 /\ data[1] = 16 /\ data[2] = ch
      /\ rest_from(data, 3) = bytes
  BY <1>2, <1>3
<1>5. is_channel(data)
  BY <1>4 DEF is_channel, kChannelCount
<1> QED
  BY <1>1, <1>4, <1>5 DEF decode

LEMMA PushDecodes ==
  ASSUME NEW ch \in 0..3, NEW bytes \in Seq(Byte)
  PROVE  decode(push_event(ch, bytes)) = [kind |-> "push", channel |-> ch, bytes |-> bytes]
<1> DEFINE h    == <<19, ch>>
           data == h \o bytes
<1>1. push_event(ch, bytes) = data
  BY DEF push_event, kGoProBlePush
<1>2. h \in Seq(Byte) /\ Len(h) = 2 /\ h[1] = 19 /\ h[2] = ch
  BY DEF Byte
<1> HIDE DEF h
<1>3. /\ Len(data) = Len(h) + Len(bytes) /\ Len(bytes) \in Nat
      /\ \A i \in 1..Len(h) : data[i] = h[i]
      /\ rest_from(data, Len(h) + 1) = bytes
  BY <1>2, AfterHeader
<1> HIDE DEF data
<1>4. /\ data # <<>> /\ Len(data) >= 2 /\ data[1] = 19 /\ data[2] = ch
      /\ rest_from(data, 3) = bytes
  BY <1>2, <1>3
<1>5. is_channel(data)
  BY <1>4 DEF is_channel, kChannelCount
<1> QED
  BY <1>1, <1>4, <1>5 DEF decode

LEMMA ReadyDecodes ==
  ASSUME NEW ready \in BOOLEAN
  PROVE  decode(ready_event(ready)) = [kind |-> "ready", ready |-> ready]
<1> DEFINE data == <<18, IF ready THEN 1 ELSE 0>>
<1>1. ready_event(ready) = data
  BY DEF ready_event, kGoProBleReady
<1>2. data # <<>> /\ Len(data) = 2 /\ data[1] = 18 /\ (data[2] # 0) = ready
  OBVIOUS
<1> HIDE DEF data
<1>3. decode(data) = [kind |-> "ready", ready |-> data[2] # 0]
  BY <1>2 DEF decode
<1> QED
  BY <1>1, <1>2, <1>3

\* A FeedResult travels as its ordinal.
LEMMA FeedOrdinals ==
  ASSUME NEW r \in Range(kFeedResults)
  PROVE  ordinal(r, kFeedResults) \in 0..7
<1>1. DOMAIN kFeedResults = 1..8
  BY DEF kFeedResults
<1>2. \E i \in 1..8 : kFeedResults[i] = r
  BY <1>1 DEF Range
<1>3. (CHOOSE i \in 1..8 : kFeedResults[i] = r) \in 1..8
  BY <1>2
<1> QED
  BY <1>1, <1>3 DEF ordinal

LEMMA FrameDecodes ==
  ASSUME NEW ch \in 0..3, NEW r \in Range(kFeedResults)
  PROVE  decode(frame_event(ch, r)) =
           [kind |-> "frame", channel |-> ch,
            error |-> BleFrameErrors[ordinal(r, kFeedResults) + 1]]
<1> DEFINE o    == ordinal(r, kFeedResults)
           data == <<20, ch, o>>
<1>1. frame_event(ch, r) = data
  BY DEF frame_event, kGoProBleFrameError
<1>2. o \in 0..7
  BY FeedOrdinals
<1> HIDE DEF o
<1>3. data # <<>> /\ Len(data) = 3 /\ data[1] = 20 /\ data[2] = ch /\ data[3] = o
  OBVIOUS
<1> HIDE DEF data
<1>4. is_channel(data) /\ Len(BleFrameErrors) = 8
  BY <1>3 DEF is_channel, kChannelCount, BleFrameErrors
<1>5. decode(data) = [kind |-> "frame", channel |-> ch, error |-> BleFrameErrors[o + 1]]
  BY <1>2, <1>3, <1>4 DEF decode
<1> QED
  BY <1>1, <1>5 DEF o

\* An Outcome travels as its ordinal, and Dart has a name for each.
LEMMA OutcomeOrdinals ==
  ASSUME NEW o \in Range(kOutcomes)
  PROVE  /\ ordinal(o, kOutcomes) \in 0..3
         /\ BleOutcomes[ordinal(o, kOutcomes) + 1] \in Range(BleOutcomes)
<1>1. DOMAIN kOutcomes = 1..4 /\ DOMAIN BleOutcomes = 1..4
  BY DEF kOutcomes, BleOutcomes
<1>2. \E i \in 1..4 : kOutcomes[i] = o
  BY <1>1 DEF Range
<1>3. (CHOOSE i \in 1..4 : kOutcomes[i] = o) \in 1..4
  BY <1>2
<1>4. ordinal(o, kOutcomes) \in 0..3
  BY <1>1, <1>3 DEF ordinal
<1> QED
  BY <1>1, <1>4 DEF Range

LEMMA OutcomeNames ==
  Range(BleOutcomes) = {"responded", "timedOut", "canceled", "rejected"}
<1>1. DOMAIN BleOutcomes = 1..4
  BY DEF BleOutcomes
<1> QED
  BY <1>1 DEF Range, BleOutcomes

\* Four bytes, least significant first, are the number again.
LEMMA LittleEndian ==
  ASSUME NEW v \in Nat, v < IdLimit
  PROVE  /\ v % 256 \in 0..255 /\ (v \div 256) % 256 \in 0..255
         /\ (v \div 65536) % 256 \in 0..255 /\ (v \div (256 * 65536)) % 256 \in 0..255
         /\ (v % 256) + ((v \div 256) % 256) * 256 + ((v \div 65536) % 256) * 65536
            + ((v \div (256 * 65536)) % 256) * (256 * 65536) = v
  BY DEF IdLimit

LEMMA Uint64 ==
  ASSUME NEW v \in Nat, v < IdLimit
  PROVE  /\ append_u64(v) \in Seq(Byte) /\ Len(append_u64(v)) = 8
         /\ append_u64(v)[1] + append_u64(v)[2] * 256 + append_u64(v)[3] * 65536
            + append_u64(v)[4] * (256 * 65536) = v
<1> DEFINE u == append_u64(v)
<1>1. \A i \in 1..8 : u[i] = IF i > 4 THEN 0 ELSE (v \div 256^(i - 1)) % 256
  BY DEF append_u64
<1>2. /\ u[1] = (v \div 256^0) % 256 /\ u[2] = (v \div 256^1) % 256
      /\ u[3] = (v \div 256^2) % 256 /\ u[4] = (v \div 256^3) % 256
      /\ u[5] = 0 /\ u[6] = 0 /\ u[7] = 0 /\ u[8] = 0
  BY <1>1
<1>3. DOMAIN u = 1..8
  BY DEF append_u64
<1>4. u = [i \in 1..8 |-> u[i]]
  BY DEF append_u64
<1> HIDE DEF u
<1>5. /\ u[1] = v % 256 /\ u[2] = (v \div 256) % 256
      /\ u[3] = (v \div 65536) % 256 /\ u[4] = (v \div (256 * 65536)) % 256
  <2>1. v \div 1 = v
    OBVIOUS
  <2> QED
    BY <1>2, <2>1, Powers
<1>6. /\ u[1] \in 0..255 /\ u[2] \in 0..255 /\ u[3] \in 0..255 /\ u[4] \in 0..255
      /\ u[1] + u[2] * 256 + u[3] * 65536 + u[4] * (256 * 65536) = v
  BY <1>5, LittleEndian
<1>7. \A i \in 1..8 : u[i] \in Byte
  BY <1>2, <1>6, SMTT(40) DEF Byte
<1>8. u \in Seq(Byte) /\ Len(u) = 8
  BY <1>4, <1>7
<1> QED
  BY <1>6, <1>8 DEF u

LEMMA ResponseDecodes ==
  ASSUME NEW id \in Nat, id < IdLimit, NEW o \in Range(kOutcomes), NEW bytes \in Seq(Byte)
  PROVE  decode(response_event(id, o, bytes)) =
           [kind |-> "response", id |-> id,
            outcome |-> BleOutcomes[ordinal(o, kOutcomes) + 1], bytes |-> bytes]
<1> DEFINE u    == append_u64(id)
           n    == ordinal(o, kOutcomes)
           tag  == <<17>>
           last == <<n>>
           h    == (tag \o u) \o last
           data == h \o bytes
<1>1. response_event(id, o, bytes) = data
  BY DEF response_event, kGoProBleResponse
<1>2. /\ u \in Seq(Byte) /\ Len(u) = 8
      /\ u[1] + u[2] * 256 + u[3] * 65536 + u[4] * (256 * 65536) = id
  BY Uint64
<1>3. n \in 0..3
  BY OutcomeOrdinals
<1> HIDE DEF u, n
<1>4. tag \in Seq(Byte) /\ Len(tag) = 1 /\ tag[1] = 17
  BY DEF Byte
<1>5. last \in Seq(Byte) /\ Len(last) = 1 /\ last[1] = n
  BY <1>3 DEF Byte
<1> HIDE DEF tag, last
<1>6. /\ h \in Seq(Byte) /\ Len(h) = 10 /\ h[1] = 17 /\ h[10] = n
      /\ h[2] = u[1] /\ h[3] = u[2] /\ h[4] = u[3] /\ h[5] = u[4]
  <2> DEFINE g == tag \o u
  <2>1. /\ g \in Seq(Byte) /\ Len(g) = Len(tag) + Len(u)
        /\ \A i \in 1..Len(tag) : g[i] = tag[i]
        /\ \A i \in 1..Len(u) : g[i + Len(tag)] = u[i]
    <3>1. tag \in Seq(Byte) /\ u \in Seq(Byte)
      BY <1>2, <1>4
    <3> QED
      BY <3>1, Concatenated
  <2> HIDE DEF g
  <2>2. /\ g \in Seq(Byte) /\ Len(g) = 9 /\ g[1] = 17
        /\ \A i \in 1..8 : g[i + 1] = u[i]
    BY <1>2, <1>4, <2>1
  <2>3. g[2] = u[1] /\ g[3] = u[2] /\ g[4] = u[3] /\ g[5] = u[4]
    <3>1. g[1 + 1] = u[1] /\ g[2 + 1] = u[2] /\ g[3 + 1] = u[3] /\ g[4 + 1] = u[4]
      BY <2>2
    <3> QED
      BY <3>1
  <2>4. /\ h \in Seq(Byte) /\ Len(h) = Len(g) + Len(last)
        /\ \A i \in 1..Len(g) : h[i] = g[i]
        /\ \A i \in 1..Len(last) : h[i + Len(g)] = last[i]
    <3>1. g \in Seq(Byte) /\ last \in Seq(Byte)
      BY <1>5, <2>2
    <3>2. h = g \o last
      BY DEF g
    <3> HIDE DEF h
    <3> QED
      BY <3>1, <3>2, Concatenated
  <2> HIDE DEF h
  <2>5. /\ Len(h) = 10 /\ \A i \in 1..9 : h[i] = g[i]
    BY <1>5, <2>2, <2>4
  <2>6. h[1 + 9] = n
    BY <1>5, <2>2, <2>4
  <2>7. h[1] = g[1] /\ h[2] = g[2] /\ h[3] = g[3] /\ h[4] = g[4] /\ h[5] = g[5]
    BY <2>5
  <2>8. h[10] = n
    BY <2>6
  <2>9. h[2] = u[1] /\ h[3] = u[2] /\ h[4] = u[3] /\ h[5] = u[4] /\ h[1] = 17
    BY <2>2, <2>3, <2>7
  <2>10. h \in Seq(Byte)
    BY <2>4
  <2>11. Len(h) = 10
    BY <2>5
  <2> QED
    BY <2>8, <2>9, <2>10, <2>11
<1> HIDE DEF h
<1>7. /\ Len(data) = Len(h) + Len(bytes) /\ Len(bytes) \in Nat
      /\ \A i \in 1..Len(h) : data[i] = h[i]
      /\ rest_from(data, Len(h) + 1) = bytes
  <2>1. h \in Seq(Byte)
    BY <1>6
  <2> QED
    BY <2>1, AfterHeader
<1> HIDE DEF data
<1>8. /\ data # <<>> /\ ~(Len(data) < 10) /\ data[1] = 17 /\ data[10] = n
      /\ data[2] = u[1] /\ data[3] = u[2] /\ data[4] = u[3] /\ data[5] = u[4]
      /\ rest_from(data, 11) = bytes
  BY <1>6, <1>7
<1>9. getUint64(data, 2) = data[2] + data[3] * 256 + data[4] * 65536 + data[5] * (256 * 65536)
  BY Powers DEF getUint64
<1>10. getUint64(data, 2) = id
  BY <1>2, <1>8, <1>9
<1>11. Len(BleOutcomes) = 4
  BY DEF BleOutcomes
<1>12. decode(data) = [kind |-> "response", id |-> id, outcome |-> BleOutcomes[n + 1],
                       bytes |-> bytes]
  BY <1>3, <1>8, <1>10, <1>11 DEF decode
<1> QED
  BY <1>1, <1>12 DEF n

-----------------------------------------------------------------------------
(* Messages. *)

Messages ==
  {Turn} \cup {Response(id, t, o) : id \in Ids, t \in 1..KaTicket, o \in Range(kOutcomes)}
  \cup {Write(id) : id \in Ids} \cup {Notice(n) : n \in Notices}

LEMMA PostedIsNoTurn ==
  ASSUME NEW b, NEW t, NEW m
  PROVE  Posted(b, t, m) # Turn
<1>1. DOMAIN Posted(b, t, m) = {"bytes", "by", "meant"} /\ DOMAIN Turn = {"kind"}
  BY DEF Posted, Turn
<1> QED
  BY <1>1

\* What BleCodec makes of a message and what the message is about.
Decodes(m) ==
  /\ m # Turn
  /\ decode(m.bytes) = m.meant

LEMMA ResponseFacts ==
  ASSUME NEW id \in Ids, NEW t \in 1..KaTicket, NEW o \in Range(kOutcomes)
  PROVE  LET m == Response(id, t, o)
         IN  /\ m \in Messages /\ Decodes(m) /\ m.by = t
             /\ m.meant.kind = "response" /\ m.meant.id = id
             /\ m.meant.outcome \in Range(BleOutcomes)
<1> DEFINE m     == Response(id, t, o)
           bytes == IF o = "kResponded" THEN cmd_of[id].payload ELSE <<>>
           meant == [kind |-> "response", id |-> id,
                     outcome |-> BleOutcomes[ordinal(o, kOutcomes) + 1], bytes |-> bytes]
<1>1. m = Posted(response_event(id, o, bytes), t, meant)
  BY DEF Response
<1>2. m.bytes = response_event(id, o, bytes) /\ m.by = t /\ m.meant = meant
  BY <1>1 DEF Posted
<1>3. id \in Nat /\ id < IdLimit /\ cmd_of[id] \in Commands
  BY CommandOfId
<1>4. bytes \in Seq(Byte)
  BY <1>3 DEF Commands
<1>5. decode(m.bytes) = meant
  <2> HIDE DEF bytes, m
  <2>1. decode(response_event(id, o, bytes)) = meant
    BY <1>3, <1>4, ResponseDecodes
  <2> QED
    BY <1>2, <2>1
<1>6. m # Turn
  BY <1>1, PostedIsNoTurn
<1>7. meant.outcome \in Range(BleOutcomes)
  BY OutcomeOrdinals
<1>8. m \in Messages
  BY DEF Messages
<1> HIDE DEF m
<1> QED
  BY <1>2, <1>5, <1>6, <1>7, <1>8 DEF Decodes, m

LEMMA WriteFacts ==
  ASSUME NEW id \in Ids
  PROVE  LET m == Write(id)
         IN  m \in Messages /\ Decodes(m) /\ m.meant.kind = "write"
<1> DEFINE m     == Write(id)
           c     == cmd_of[id]
           meant == [kind |-> "write", channel |-> c.channel, bytes |-> c.payload]
<1>1. m = Posted(write_event(channel_of_correlation(id), c.payload), Nobody, meant)
  BY DEF Write
<1>2. c \in Commands /\ channel_of_correlation(id) = c.channel
  BY CommandOfId
<1>3. c.channel \in 0..3 /\ c.payload \in Seq(Byte)
  BY <1>2 DEF Commands, Channel, kChannelCount
<1>4. m.bytes = write_event(c.channel, c.payload) /\ m.meant = meant
  BY <1>1, <1>2 DEF Posted
<1>5. decode(m.bytes) = meant
  BY <1>3, <1>4, WriteDecodes
<1>6. m # Turn
  BY <1>1, PostedIsNoTurn
<1>7. m \in Messages
  BY DEF Messages
<1> HIDE DEF m
<1> QED
  BY <1>4, <1>5, <1>6, <1>7 DEF Decodes, m

LEMMA NoticeFacts ==
  ASSUME NEW n \in Notices
  PROVE  LET m == Notice(n)
         IN  m \in Messages /\ Decodes(m) /\ m.meant.kind # "response"
<1> DEFINE m == Notice(n)
<1>1. n \in Events
  BY CameraAssumption
<1>2. m \in Messages
  BY DEF Messages
<1>3. m # Turn
  BY PostedIsNoTurn DEF Notice
<1>4. CASE n \in [kind : {"ready"}, ready : BOOLEAN]
  <2>1. n.kind = "ready" /\ n.ready \in BOOLEAN /\ n = [kind |-> "ready", ready |-> n.ready]
    BY <1>4
  <2>2. m.bytes = ready_event(n.ready) /\ m.meant = n
    BY <2>1 DEF Notice, Posted
  <2>3. decode(m.bytes) = n
    BY <2>1, <2>2, ReadyDecodes
  <2> QED
    BY <1>2, <1>3, <2>1, <2>2, <2>3 DEF Decodes
<1>5. CASE n \in [kind : {"push"}, channel : Channel, bytes : Seq(Byte)]
  <2>1. /\ n.kind = "push" /\ n.channel \in 0..3 /\ n.bytes \in Seq(Byte)
        /\ n = [kind |-> "push", channel |-> n.channel, bytes |-> n.bytes]
    BY <1>5 DEF Channel, kChannelCount
  <2>2. m.bytes = push_event(n.channel, n.bytes) /\ m.meant = n
    BY <2>1 DEF Notice, Posted
  <2>3. decode(m.bytes) = n
    BY <2>1, <2>2, PushDecodes
  <2> QED
    BY <1>2, <1>3, <2>1, <2>2, <2>3 DEF Decodes
<1>6. CASE n \in [kind : {"frame"}, channel : Channel, result : Range(kFeedResults)]
  <2>1. n.kind = "frame" /\ n.channel \in 0..3 /\ n.result \in Range(kFeedResults)
    BY <1>6 DEF Channel, kChannelCount
  <2> DEFINE meant == [kind |-> "frame", channel |-> n.channel,
                       error |-> BleFrameErrors[ordinal(n.result, kFeedResults) + 1]]
  <2>2. m.bytes = frame_event(n.channel, n.result) /\ m.meant = meant
    BY <2>1 DEF Notice, Posted
  <2>3. decode(m.bytes) = meant
    BY <2>1, <2>2, FrameDecodes
  <2>4. meant.kind = "frame"
    OBVIOUS
  <2> QED
    BY <1>2, <1>3, <2>2, <2>3, <2>4 DEF Decodes
<1> QED
  BY <1>1, <1>4, <1>5, <1>6 DEF Events

\* What every message in the port is.
LEMMA MessageFacts ==
  ASSUME NEW m \in Messages, m # Turn
  PROVE  /\ decode(m.bytes) = m.meant
         /\ m.meant.kind = "response" =>
              /\ m.meant.id \in Ids /\ m.by \in 1..KaTicket
              /\ m.meant.outcome \in Range(BleOutcomes)
<1>1. CASE \E id \in Ids, t \in 1..KaTicket, o \in Range(kOutcomes) : m = Response(id, t, o)
  BY <1>1, ResponseFacts DEF Decodes
<1>2. CASE \E id \in Ids : m = Write(id)
  BY <1>2, WriteFacts DEF Decodes
<1>3. CASE \E n \in Notices : m = Notice(n)
  BY <1>3, NoticeFacts DEF Decodes
<1> QED
  BY <1>1, <1>2, <1>3 DEF Messages

-----------------------------------------------------------------------------
(* Cancelling everything. *)

LEMMA SetToSeqType ==
  ASSUME NEW S, IsFiniteSet(S)
  PROVE  SetToSeq(S) \in Seq(S)
<1>1. Cardinality(S) \in Nat /\ ExistsBijection(1..Cardinality(S), S)
  BY FS_CardinalityType
<1>2. \E f \in [1..Cardinality(S) -> S] : IsInjective(f)
  BY <1>1 DEF ExistsBijection, Bijection, Injection, IsInjective
<1>3. SetToSeq(S) \in [1..Cardinality(S) -> S]
  BY <1>2 DEF SetToSeq
<1> QED
  BY <1>1, <1>3

LEMMA Numbers ==
  /\ MaxSends \in Nat \ {0} /\ KaTicket = MaxSends + 1 /\ KaTicket \in 1..KaTicket
  /\ Tickets = 1..MaxSends /\ Tickets \subseteq 1..KaTicket /\ Nobody = 0
  BY CameraAssumption DEF KaTicket, Tickets, Nobody

LEMMA IdsFinite == IsFiniteSet(Ids)
<1>1. IsFiniteSet(Sent)
  <2>1. Sent = AppCmds \cup {KeepAliveCmd}
    BY DEF Sent
  <2> QED
    BY <2>1, CameraAssumption, FS_AddElement
<1>2. Ids = {id_of(c) : c \in Sent}
  BY SameId DEF Ids
<1> DEFINE f == [c \in Sent |-> id_of(c)]
<1>3. f \in Surjection(Sent, Ids)
  BY <1>2 DEF Surjection
<1> HIDE DEF f
<1> QED
  BY <1>1, <1>3, FS_Surjection

LEMMA IdsOfCommands ==
  /\ \A c \in AppCmds : id_of(c) \in Ids /\ future_id(c) = id_of(c)
  /\ QueryId \in Ids /\ QueryId = id_of(QueryCmd) /\ QueryCmd \in AppCmds
  /\ KeepAliveId \in Ids
<1>1. \A c \in Sent : id_of(c) \in Ids /\ future_id(c) = id_of(c)
  BY SameId DEF Ids
<1>2. AppCmds \subseteq Sent /\ KeepAliveCmd \in Sent /\ QueryCmd \in AppCmds
  BY CameraAssumption DEF Sent
<1> QED
  BY <1>1, <1>2 DEF QueryId, KeepAliveId

-----------------------------------------------------------------------------
(* The inductive invariant. *)

Stories == Range(BleOutcomes) \cup {"unused", "waiting", "refused"}

CameraTypes ==
  /\ state \in {"up", "reconnecting", "down"} /\ reconnect \in BOOLEAN
  /\ pending \in [Ids -> 0..MaxSends]
  /\ native \in [Ids -> 0..KaTicket]
  /\ result \in [Tickets -> [by : 0..KaTicket, outcome : Stories]]
  /\ sent \subseteq Ids /\ heard \subseteq Ids
  /\ port \in Seq(Messages)
  /\ connected \in BOOLEAN /\ attached \in BOOLEAN /\ ticking \in BOOLEAN
  /\ dropPc \in {"idle", "detach", "bringUp", "attach", "caught"}
  /\ closePc \in {"open", "watch", "detach", "detached", "turn", "streams", "done", "threw"}
  /\ freed \in BOOLEAN
  /\ misuse \subseteq {"session", "link", "faults"}
  /\ sent \subseteq outstanding

Cleared == \A id \in Ids : pending[id] = Nobody

\* Who may be doing what: nobody comes back up, and close() runs once.
Phases ==
  /\ state = "up" => attached /\ dropPc = "idle" /\ closePc = "open"
  /\ closePc # "open" => state = "down" /\ ~ticking
  /\ freed => closePc \in {"streams", "done"}

\* Past the point where everything was resolved nothing waits again.
Settled ==
  /\ dropPc \in {"bringUp", "attach", "caught"} => Cleared /\ state # "up"
  /\ closePc \in {"threw", "streams", "done"} => Cleared
  /\ closePc = "detach" /\ ~attached => Cleared

\* Without reconnection only close() takes the link down.
Undisturbed ==
  ~reconnect =>
    /\ dropPc = "idle" /\ misuse = {}
    /\ closePc \in {"detached", "turn", "streams", "done"} => ~attached

\* NoOrphan by its two halves: who waits is listed, and what is listed has its
\* outcome on the way.
Listed ==
  \A t \in Tickets : result[t].outcome = "waiting" => \E id \in Ids : pending[id] = t

Resolving ==
  \/ dropPc = "detach" /\ attached
  \/ closePc \in {"watch", "detach", "detached", "turn"}

OnTheWay ==
  \A id \in Ids : pending[id] # Nobody => native[id] # Nobody \/ Answered(id) \/ Resolving

Control == Phases /\ Settled /\ Undisturbed

CameraInv == CameraTypes /\ Control /\ Listed /\ OnTheWay

-----------------------------------------------------------------------------
(* What the bridge's calls do to the port. *)

IsResponse(m, id) == m # Turn /\ m.meant.kind = "response" /\ m.meant.id = id

LEMMA ResponseIs ==
  ASSUME NEW id \in Ids, NEW t \in 1..KaTicket, NEW o \in Range(kOutcomes)
  PROVE  /\ Response(id, t, o) \in Messages /\ Response(id, t, o).by = t
         /\ \A x : IsResponse(Response(id, t, o), x) <=> x = id
  BY ResponseFacts DEF Decodes, IsResponse

LEMMA OutcomesUsed ==
  {"kResponded", "kTimedOut", "kCanceled", "kRejected"} \subseteq Range(kOutcomes)
<1>1. DOMAIN kOutcomes = 1..4
  BY DEF kOutcomes
<1> QED
  BY <1>1 DEF Range, kOutcomes

LEMMA Appended ==
  ASSUME port \in Seq(Messages), NEW m \in Messages, port' = Append(port, m)
  PROVE  /\ port' \in Seq(Messages) /\ DOMAIN port' = DOMAIN port \cup {Len(port) + 1}
         /\ Len(port) + 1 \notin DOMAIN port
         /\ port'[Len(port) + 1] = m /\ \A i \in DOMAIN port : port'[i] = port[i]
  OBVIOUS

\* What is answered stays so when more is posted.
LEMMA AnsweredStays ==
  ASSUME DOMAIN port \subseteq DOMAIN port', \A i \in DOMAIN port : port'[i] = port[i]
  PROVE  \A id : Answered(id) => Answered(id)'
  BY DEF Answered

LEMMA SubmitFacts ==
  ASSUME CameraTypes, NEW id \in Ids, NEW t \in 1..KaTicket, submit(id, t)
  PROVE  /\ native' \in [Ids -> 0..KaTicket] /\ port' \in Seq(Messages)
         /\ \A x \in Ids : native[x] # Nobody => native'[x] # Nobody
         /\ \A x \in Ids : Answered(x) => Answered(x)'
         /\ native'[id] # Nobody
<1>1. native \in [Ids -> 0..KaTicket] /\ port \in Seq(Messages)
  BY DEF CameraTypes
<1>2. CASE accepts(id)
  <2>1. native' = [native EXCEPT ![id] = t] /\ port' = port
    BY <1>2 DEF submit
  <2>2. \A x : Answered(x) => Answered(x)'
    BY <2>1 DEF Answered
  <2> QED
    BY <1>1, <1>2, <2>1, <2>2, Numbers
<1>3. CASE ~accepts(id)
  <2> DEFINE m == Response(id, t, "kRejected")
  <2>1. native' = native /\ port' = Append(port, m) /\ native[id] # Nobody
    BY <1>3 DEF submit, accepts
  <2>2. m \in Messages
    BY ResponseIs, OutcomesUsed
  <2> HIDE DEF m
  <2>3. /\ port' \in Seq(Messages) /\ DOMAIN port \subseteq DOMAIN port'
        /\ \A i \in DOMAIN port : port'[i] = port[i]
    BY <1>1, <2>1, <2>2, Appended
  <2>4. \A x : Answered(x) => Answered(x)'
    BY <2>3, AnsweredStays
  <2> QED
    BY <1>1, <2>1, <2>3, <2>4
<1> QED
  BY <1>2, <1>3

LEMMA DisconnectFacts ==
  ASSUME CameraTypes, disconnect
  PROVE  /\ native' \in [Ids -> 0..KaTicket] /\ port' \in Seq(Messages) /\ sent' = {}
         /\ \A x \in Ids : native'[x] = Nobody
         /\ DOMAIN port \subseteq DOMAIN port' /\ \A i \in DOMAIN port : port'[i] = port[i]
         /\ \A i \in DOMAIN port' : i \notin DOMAIN port =>
              \E x \in outstanding : port'[i] = Response(x, native[x], "kCanceled")
<1> DEFINE D == {Response(x, native[x], "kCanceled") : x \in outstanding}
           s == SetToSeq(D)
<1>1. native \in [Ids -> 0..KaTicket] /\ port \in Seq(Messages)
  BY DEF CameraTypes
<1>2. /\ port' = port \o s /\ native' = [x \in Ids |-> Nobody] /\ sent' = {}
  BY DEF disconnect
<1>3. outstanding \subseteq Ids /\ \A x \in outstanding : native[x] \in 1..KaTicket
  BY <1>1, Numbers DEF outstanding
<1>4. IsFiniteSet(outstanding)
  BY <1>3, IdsFinite, FS_Subset
<1>5. D \subseteq Messages
  BY <1>3, ResponseIs, OutcomesUsed
<1>6. IsFiniteSet(D)
  <2> DEFINE f == [x \in outstanding |-> Response(x, native[x], "kCanceled")]
  <2>1. f \in Surjection(outstanding, D)
    BY DEF Surjection
  <2> HIDE DEF f, D
  <2> QED
    BY <1>4, <2>1, FS_Surjection
<1>7. s \in Seq(D)
  <2> HIDE DEF D
  <2> QED
    BY <1>6, SetToSeqType
<1>8. \A y \in D : \E x \in outstanding : y = Response(x, native[x], "kCanceled")
  OBVIOUS
<1> HIDE DEF D, s
<1>9. s \in Seq(Messages) /\ \A i \in 1..Len(s) : s[i] \in D
  BY <1>5, <1>7
<1>10. /\ port' \in Seq(Messages) /\ DOMAIN port \subseteq DOMAIN port'
       /\ \A i \in DOMAIN port : port'[i] = port[i]
  BY <1>1, <1>2, <1>9
<1>11. ASSUME NEW i \in DOMAIN port', i \notin DOMAIN port
       PROVE  \E x \in outstanding : port'[i] = Response(x, native[x], "kCanceled")
  <2>1. i - Len(port) \in 1..Len(s) /\ port'[i] = s[i - Len(port)]
    BY <1>1, <1>2, <1>9, <1>11
  <2> QED
    BY <1>8, <1>9, <2>1
<1>12. native' \in [Ids -> 0..KaTicket] /\ \A x \in Ids : native'[x] = Nobody
  BY <1>2, Numbers
<1> QED
  BY <1>2, <1>10, <1>11, <1>12

\* Every ticket that waits under some id is cancelled.
LEMMA ResolveFacts ==
  ASSUME CameraTypes, resolvePending
  PROVE  /\ pending' \in [Ids -> 0..MaxSends] /\ \A id \in Ids : pending'[id] = Nobody
         /\ result' \in [Tickets -> [by : 0..KaTicket, outcome : Stories]]
         /\ \A t \in Tickets :
              \/ \E id \in Ids : pending[id] = t
                 /\ result'[t] = [by |-> t, outcome |-> "canceled"]
              \/ result'[t] = result[t] /\ \A id \in Ids : pending[id] # t
<1>1. /\ pending' = [id \in Ids |-> Nobody]
      /\ result' = [t \in Tickets |-> IF \E id \in Ids : pending[id] = t
                                      THEN [by |-> t, outcome |-> "canceled"] ELSE result[t]]
  BY DEF resolvePending
<1>2. pending' \in [Ids -> 0..MaxSends] /\ \A id \in Ids : pending'[id] = Nobody
  BY <1>1, Numbers
<1>3. "canceled" \in Stories
  BY OutcomeNames DEF Stories
<1>4. result \in [Tickets -> [by : 0..KaTicket, outcome : Stories]]
  BY DEF CameraTypes
<1>5. ASSUME NEW t \in Tickets
      PROVE  /\ \/ \E id \in Ids : pending[id] = t
                   /\ result'[t] = [by |-> t, outcome |-> "canceled"]
                \/ result'[t] = result[t] /\ \A id \in Ids : pending[id] # t
             /\ result'[t] \in [by : 0..KaTicket, outcome : Stories]
  <2>1. t \in 0..KaTicket
    BY Numbers
  <2>2. CASE \E id \in Ids : pending[id] = t
    <3>1. result'[t] = [by |-> t, outcome |-> "canceled"]
      BY <1>1, <2>2
    <3> QED
      BY <1>3, <2>1, <2>2, <3>1
  <2>3. CASE ~\E id \in Ids : pending[id] = t
    <3>1. result'[t] = result[t]
      BY <1>1, <2>3
    <3> QED
      BY <1>4, <2>3, <3>1
  <2> QED
    BY <2>2, <2>3
<1>6. result' = [t \in Tickets |-> result'[t]]
  BY <1>1
<1>7. result' \in [Tickets -> [by : 0..KaTicket, outcome : Stories]]
  BY <1>5, <1>6
<1> QED
  BY <1>2, <1>5, <1>7

-----------------------------------------------------------------------------
(* Types. *)

\* What send() does past its guards.
LEMMA SendFacts ==
  ASSUME CameraTypes, NEW c \in AppCmds, send(c)
  PROVE  \E t \in Tickets :
           /\ submit(id_of(c), t)
           /\ pending' = [pending EXCEPT ![id_of(c)] =
                            IF accepts(id_of(c)) THEN t ELSE Nobody]
           /\ result' = [result EXCEPT ![t] =
                           [by |-> Nobody, outcome |-> IF accepts(id_of(c)) THEN "waiting"
                                                       ELSE "refused"]]
<1> DEFINE t == Cardinality(used) + 1
<1>1. /\ t \in Tickets /\ submit(id_of(c), t)
      /\ pending' = [pending EXCEPT ![future_id(c)] = IF ~accepts(id_of(c)) THEN Nobody ELSE t]
      /\ result' = [result EXCEPT ![t] = [by |-> Nobody,
                                          outcome |-> IF ~accepts(id_of(c)) THEN "refused"
                                                      ELSE "waiting"]]
  BY DEF send
<1>2. future_id(c) = id_of(c)
  BY IdsOfCommands
<1> HIDE DEF t
<1>3. CASE accepts(id_of(c))
  BY <1>1, <1>2, <1>3
<1>4. CASE ~accepts(id_of(c))
  BY <1>1, <1>2, <1>4
<1> QED
  BY <1>3, <1>4

LEMMA SendTypes ==
  ASSUME CameraTypes, NEW c \in AppCmds, send(c)
  PROVE  /\ pending' \in [Ids -> 0..MaxSends] /\ native' \in [Ids -> 0..KaTicket]
         /\ result' \in [Tickets -> [by : 0..KaTicket, outcome : Stories]]
         /\ port' \in Seq(Messages) /\ outstanding \subseteq outstanding'
<1>1. PICK t \in Tickets :
        /\ submit(id_of(c), t)
        /\ pending' = [pending EXCEPT ![id_of(c)] = IF accepts(id_of(c)) THEN t ELSE Nobody]
        /\ result' = [result EXCEPT ![t] =
                        [by |-> Nobody, outcome |-> IF accepts(id_of(c)) THEN "waiting"
                                                    ELSE "refused"]]
  BY SendFacts
<1>2. id_of(c) \in Ids /\ t \in 1..KaTicket /\ t \in 0..MaxSends /\ 0 \in 0..KaTicket
  BY IdsOfCommands, Numbers
<1>3. /\ pending \in [Ids -> 0..MaxSends]
      /\ result \in [Tickets -> [by : 0..KaTicket, outcome : Stories]]
  BY DEF CameraTypes
<1>4. /\ native' \in [Ids -> 0..KaTicket] /\ port' \in Seq(Messages)
      /\ \A x \in Ids : native[x] # Nobody => native'[x] # Nobody
  BY <1>1, <1>2, SubmitFacts
<1>5. pending' \in [Ids -> 0..MaxSends]
  BY <1>1, <1>2, <1>3, Numbers
<1>6. result' \in [Tickets -> [by : 0..KaTicket, outcome : Stories]]
  <2>1. [by |-> Nobody, outcome |-> IF accepts(id_of(c)) THEN "waiting" ELSE "refused"]
        \in [by : 0..KaTicket, outcome : Stories]
    BY <1>2, Numbers DEF Stories
  <2> QED
    BY <1>1, <1>3, <2>1
<1> QED
  BY <1>4, <1>5, <1>6 DEF outstanding

\* What _onEvent() makes of the message at the head of the port.
LEMMA EventFacts ==
  ASSUME CameraTypes, OnEvent
  PROVE  LET e == Head(port).meant
         IN  /\ port' \in Seq(Messages) /\ port' = Tail(port) /\ port # <<>>
             /\ Head(port) \in Messages /\ Head(port) # Turn
             /\ IF completes(e) /\ e.id \in Ids /\ pending[e.id] # Nobody
                THEN /\ pending' = [pending EXCEPT ![e.id] = Nobody]
                     /\ result' = [result EXCEPT ![pending[e.id]] =
                                     [by |-> Head(port).by, outcome |-> e.outcome]]
                     /\ Head(port).by \in 1..KaTicket /\ e.outcome \in Range(BleOutcomes)
                     /\ pending[e.id] \in Tickets
                ELSE pending' = pending /\ result' = result
             /\ heard' \subseteq Ids
<1>1. port \in Seq(Messages) /\ pending \in [Ids -> 0..MaxSends] /\ heard \subseteq Ids
  BY DEF CameraTypes
<1>2. port # <<>> /\ Head(port) # Turn /\ port' = Tail(port)
  BY DEF OnEvent
<1>3. Head(port) \in Messages /\ port' \in Seq(Messages)
  BY <1>1, <1>2
<1> DEFINE h == Head(port)
           e == h.meant
<1>4. /\ decode(h.bytes) = e
      /\ e.kind = "response" => h.by \in 1..KaTicket /\ e.outcome \in Range(BleOutcomes)
  BY <1>2, <1>3, MessageFacts
<1>5. /\ IF completes(decode(h.bytes)) /\ decode(h.bytes).id \in Ids
            /\ pending[decode(h.bytes).id] # Nobody
         THEN /\ pending' = [pending EXCEPT ![decode(h.bytes).id] = Nobody]
              /\ result' = [result EXCEPT ![pending[decode(h.bytes).id]] =
                              [by |-> h.by, outcome |-> decode(h.bytes).outcome]]
         ELSE UNCHANGED futures
      /\ heard' = IF decode(h.bytes).kind = "write" /\ attached /\ connected
                  THEN heard \cup hears(decode(h.bytes)) ELSE heard
  BY DEF OnEvent
<1> HIDE DEF h, e
<1>6. /\ IF completes(e) /\ e.id \in Ids /\ pending[e.id] # Nobody
         THEN /\ pending' = [pending EXCEPT ![e.id] = Nobody]
              /\ result' = [result EXCEPT ![pending[e.id]] =
                              [by |-> h.by, outcome |-> e.outcome]]
         ELSE UNCHANGED futures
      /\ heard' = IF e.kind = "write" /\ attached /\ connected
                  THEN heard \cup hears(e) ELSE heard
  BY <1>4, <1>5
<1>7. heard' \subseteq Ids
  BY <1>1, <1>6 DEF hears
<1>8. IF completes(e) /\ e.id \in Ids /\ pending[e.id] # Nobody
      THEN /\ pending' = [pending EXCEPT ![e.id] = Nobody]
           /\ result' = [result EXCEPT ![pending[e.id]] = [by |-> h.by, outcome |-> e.outcome]]
           /\ h.by \in 1..KaTicket /\ e.outcome \in Range(BleOutcomes)
           /\ pending[e.id] \in Tickets
      ELSE pending' = pending /\ result' = result
  <2>1. CASE completes(e) /\ e.id \in Ids /\ pending[e.id] # Nobody
    <3>1. pending[e.id] \in Tickets
      BY <1>1, <2>1, Numbers
    <3>2. h.by \in 1..KaTicket /\ e.outcome \in Range(BleOutcomes)
      BY <1>4, <2>1 DEF completes
    <3> QED
      BY <1>6, <2>1, <3>1, <3>2
  <2>2. CASE ~(completes(e) /\ e.id \in Ids /\ pending[e.id] # Nobody)
    BY <1>6, <2>2 DEF futures
  <2> QED
    BY <2>1, <2>2
<1> QED
  BY <1>2, <1>3, <1>7, <1>8 DEF h, e

LEMMA EventTypes ==
  ASSUME CameraTypes, OnEvent
  PROVE  /\ pending' \in [Ids -> 0..MaxSends]
         /\ result' \in [Tickets -> [by : 0..KaTicket, outcome : Stories]]
<1> DEFINE h == Head(port)
           e == h.meant
<1>1. IF completes(e) /\ e.id \in Ids /\ pending[e.id] # Nobody
      THEN /\ pending' = [pending EXCEPT ![e.id] = Nobody]
           /\ result' = [result EXCEPT ![pending[e.id]] = [by |-> h.by, outcome |-> e.outcome]]
           /\ h.by \in 1..KaTicket /\ e.outcome \in Range(BleOutcomes)
           /\ pending[e.id] \in Tickets
      ELSE pending' = pending /\ result' = result
  BY EventFacts
<1> HIDE DEF h, e
<1>2. /\ pending \in [Ids -> 0..MaxSends]
      /\ result \in [Tickets -> [by : 0..KaTicket, outcome : Stories]]
  BY DEF CameraTypes
<1>3. CASE completes(e) /\ e.id \in Ids /\ pending[e.id] # Nobody
  <2>1. [by |-> h.by, outcome |-> e.outcome] \in [by : 0..KaTicket, outcome : Stories]
    <3>1. h.by \in 0..KaTicket /\ e.outcome \in Stories
      BY <1>1, <1>3, Numbers DEF Stories
    <3> QED
      BY <3>1
  <2>2. result' \in [Tickets -> [by : 0..KaTicket, outcome : Stories]]
    BY <1>1, <1>2, <1>3, <2>1
  <2>3. pending' \in [Ids -> 0..MaxSends]
    BY <1>1, <1>2, <1>3, Numbers
  <2> QED
    BY <2>2, <2>3
<1>4. CASE ~(completes(e) /\ e.id \in Ids /\ pending[e.id] # Nobody)
  BY <1>1, <1>2, <1>4
<1> QED
  BY <1>3, <1>4

\* Something is posted.
LEMMA PostTypes ==
  ASSUME CameraTypes, NEW m \in Messages, port' = Append(port, m)
  PROVE  port' \in Seq(Messages)
  BY Appended DEF CameraTypes

\* The session settles what is outstanding under an id.
LEMMA SettleTypes ==
  ASSUME CameraTypes, NEW id \in Ids, native[id] # Nobody, NEW o \in Range(kOutcomes),
         native' = [native EXCEPT ![id] = Nobody], sent' = sent \ {id},
         port' = Append(port, Response(id, native[id], o))
  PROVE  /\ native' \in [Ids -> 0..KaTicket] /\ sent' \subseteq Ids
         /\ sent' \subseteq outstanding' /\ port' \in Seq(Messages)
         /\ native[id] \in 1..KaTicket
<1>1. native \in [Ids -> 0..KaTicket] /\ sent \subseteq outstanding /\ sent \subseteq Ids
  BY DEF CameraTypes
<1>2. native[id] \in 1..KaTicket
  BY <1>1, Numbers
<1>3. Response(id, native[id], o) \in Messages
  BY <1>2, ResponseIs
<1>4. port' \in Seq(Messages)
  BY <1>3, PostTypes
<1>5. native' \in [Ids -> 0..KaTicket]
  BY <1>1, Numbers
<1>6. sent' \subseteq outstanding'
  BY <1>1 DEF outstanding
<1> QED
  BY <1>1, <1>2, <1>4, <1>5, <1>6

LEMMA TypesStep == CameraTypes /\ Control /\ [Next]_cameraVars => CameraTypes'
<1> SUFFICES ASSUME CameraTypes, Control, [Next]_cameraVars PROVE CameraTypes'
  OBVIOUS
<1>1. ASSUME NEW c \in AppCmds, Send(c) PROVE CameraTypes'
  <2>1. /\ pending' \in [Ids -> 0..MaxSends] /\ native' \in [Ids -> 0..KaTicket]
        /\ result' \in [Tickets -> [by : 0..KaTicket, outcome : Stories]]
        /\ port' \in Seq(Messages) /\ outstanding \subseteq outstanding'
    BY <1>1, SendTypes DEF Send
  <2> QED
    BY <1>1, <2>1 DEF Send, flow, CameraTypes
<1>2. ASSUME NEW id \in Ids, Transmit(id) PROVE CameraTypes'
  <2>1. Write(id) \in Messages
    BY WriteFacts
  <2>2. port' = Append(port, Write(id)) /\ sent' = sent \cup {id} /\ native' = native
    BY <1>2 DEF Transmit
  <2>3. port' \in Seq(Messages)
    BY <2>1, <2>2, PostTypes
  <2>4. sent' \subseteq outstanding'
    BY <1>2, <2>2 DEF outstanding, CameraTypes, Transmit
  <2> QED
    BY <1>2, <2>3, <2>4 DEF Transmit, flow, futures, CameraTypes
<1>3. ASSUME NEW id \in Ids, TimeOut(id) PROVE CameraTypes'
  <2>1. /\ native' = [native EXCEPT ![id] = Nobody] /\ sent' = sent \ {id}
        /\ port' = Append(port, Response(id, native[id], "kTimedOut")) /\ native[id] # Nobody
    BY <1>3 DEF TimeOut
  <2>2. /\ native' \in [Ids -> 0..KaTicket] /\ sent' \subseteq Ids
        /\ sent' \subseteq outstanding' /\ port' \in Seq(Messages)
    BY <2>1, OutcomesUsed, SettleTypes
  <2> QED
    BY <1>3, <2>2 DEF TimeOut, Uses, flow, futures, CameraTypes
<1>4. ASSUME NEW id \in Ids, Reply(id) PROVE CameraTypes'
  <2>1. CASE id \in sent
    <3>1. native[id] # Nobody
      BY <2>1 DEF CameraTypes, outstanding
    <3>2. /\ native' = [native EXCEPT ![id] = Nobody] /\ sent' = sent \ {id}
          /\ port' = Append(port, Response(id, native[id], "kResponded"))
      BY <1>4, <2>1 DEF Reply
    <3>3. /\ native' \in [Ids -> 0..KaTicket] /\ sent' \subseteq Ids
          /\ sent' \subseteq outstanding' /\ port' \in Seq(Messages)
      BY <3>1, <3>2, OutcomesUsed, SettleTypes
    <3> QED
      BY <1>4, <3>3 DEF Reply, Uses, flow, futures, CameraTypes
  <2>2. CASE id \notin sent
    BY <1>4, <2>2 DEF Reply, Uses, flow, futures, session, CameraTypes, outstanding
  <2> QED
    BY <2>1, <2>2
<1>5. CASE KeepAlive
  <2>1. KeepAliveId \in Ids /\ KaTicket \in 1..KaTicket
    BY IdsOfCommands, Numbers
  <2>2. /\ native' \in [Ids -> 0..KaTicket] /\ port' \in Seq(Messages)
        /\ \A x \in Ids : native[x] # Nobody => native'[x] # Nobody
    BY <1>5, <2>1, SubmitFacts DEF KeepAlive
  <2>3. outstanding \subseteq outstanding'
    BY <2>2 DEF outstanding
  <2> QED
    BY <1>5, <2>2, <2>3 DEF KeepAlive, Uses, flow, futures, CameraTypes
<1>6. CASE OnEvent
  <2>1. /\ pending' \in [Ids -> 0..MaxSends]
        /\ result' \in [Tickets -> [by : 0..KaTicket, outcome : Stories]]
    BY <1>6, EventTypes
  <2>2. port' \in Seq(Messages) /\ heard' \subseteq Ids
    BY <1>6, EventFacts
  <2> QED
    BY <1>6, <2>1, <2>2 DEF OnEvent, flow, session, CameraTypes, outstanding
<1>7. ASSUME NEW n \in Notices, Notify(n) PROVE CameraTypes'
  <2>1. Notice(n) \in Messages
    BY NoticeFacts
  <2>2. port' \in Seq(Messages)
    BY <1>7, <2>1, PostTypes DEF Notify
  <2> QED
    BY <1>7, <2>2 DEF Notify, flow, futures, session, CameraTypes, outstanding
<1>8. CASE LinkDrop
  BY <1>8, ZenonT(40) DEF LinkDrop, flow, futures, session, CameraTypes, outstanding
<1>9. CASE OnDrop
  <2>1. CASE reconnect
    <3>1. /\ native' \in [Ids -> 0..KaTicket] /\ port' \in Seq(Messages) /\ sent' = {}
      BY <1>9, <2>1, DisconnectFacts DEF OnDrop
    <3> QED
      BY <1>9, <2>1, <3>1 DEF OnDrop, futures, CameraTypes
  <2>2. CASE ~reconnect
    BY <1>9, <2>2 DEF OnDrop, startClose, futures, session, CameraTypes, outstanding
  <2> QED
    BY <2>1, <2>2
<1>10. CASE DropDetach
  <2>1. /\ pending' \in [Ids -> 0..MaxSends]
        /\ result' \in [Tickets -> [by : 0..KaTicket, outcome : Stories]]
    <3>1. CASE attached
      BY <1>10, <3>1, ResolveFacts DEF DropDetach
    <3>2. CASE ~attached
      BY <1>10, <3>2 DEF DropDetach, futures, CameraTypes
    <3> QED
      BY <3>1, <3>2
  <2> QED
    BY <1>10, <2>1 DEF DropDetach, session, CameraTypes, outstanding
<1>11. CASE BringUp
  BY <1>11 DEF BringUp, Uses, futures, session, CameraTypes, outstanding
<1>12. CASE Attach
  <2>1. ~usable
    BY <1>12 DEF Attach, usable, Control, Settled
  <2> QED
    BY <1>12, <2>1 DEF Attach, Uses, futures, CameraTypes, outstanding
<1>13. CASE Caught
  BY <1>13 DEF Caught, startClose, futures, session, CameraTypes, outstanding
<1>14. CASE Close
  BY <1>14 DEF Close, startClose, futures, session, CameraTypes, outstanding
<1>15. CASE CloseWatched
  <2>1. /\ native' \in [Ids -> 0..KaTicket] /\ port' \in Seq(Messages) /\ sent' = {}
    BY <1>15, DisconnectFacts DEF CloseWatched
  <2> QED
    BY <1>15, <2>1 DEF CloseWatched, futures, CameraTypes
<1>16. CASE CloseDetach
  BY <1>16 DEF CloseDetach, futures, session, CameraTypes, outstanding
<1>17. CASE CloseDelay
  <2>1. port' \in Seq(Messages)
    <3>1. Turn \in Messages
      BY DEF Messages
    <3> QED
      BY <1>17, <3>1, PostTypes DEF CloseDelay
  <2> QED
    BY <1>17, <2>1 DEF CloseDelay, futures, session, CameraTypes, outstanding
<1>18. CASE CloseRelease
  <2>1. /\ pending' \in [Ids -> 0..MaxSends]
        /\ result' \in [Tickets -> [by : 0..KaTicket, outcome : Stories]]
    BY <1>18, ResolveFacts DEF CloseRelease
  <2>2. native' \in [Ids -> 0..KaTicket] /\ port' \in Seq(Messages)
    BY <1>18, Numbers DEF CloseRelease
  <2> QED
    BY <1>18, <2>1, <2>2 DEF CloseRelease, CameraTypes
<1>19. CASE CloseStreams
  BY <1>19 DEF CloseStreams, futures, session, CameraTypes, outstanding
<1>20. CASE UNCHANGED cameraVars
  BY <1>20 DEF cameraVars, CameraTypes, outstanding
<1> QED
  BY <1>1, <1>2, <1>3, <1>4, <1>5, <1>6, <1>7, <1>8, <1>9, <1>10, <1>11, <1>12, <1>13, <1>14,
     <1>15, <1>16, <1>17, <1>18, <1>19, <1>20 DEF Next, CloseStep, DropStep

-----------------------------------------------------------------------------
(* Who may be doing what. *)

LEMMA ClearedKept ==
  ASSUME pending' = pending
  PROVE  Cleared' <=> Cleared
  BY DEF Cleared

\* Nothing of the control flow moves, and what is used is not released.
LEMMA ControlKept ==
  ASSUME Control, UNCHANGED flow, UNCHANGED <<reconnect, attached, freed>>,
         Cleared => Cleared', ~reconnect => misuse' = misuse
  PROVE  Control'
  BY DEF Control, Phases, Settled, Undisturbed, flow

LEMMA ControlStep == CameraTypes /\ Control /\ [Next]_cameraVars => Control'
<1> SUFFICES ASSUME CameraTypes, Control, [Next]_cameraVars PROVE Control'
  OBVIOUS
<1>1. ASSUME NEW c \in AppCmds, Send(c) PROVE Control'
  <2>1. state = "up" /\ state' = "up" /\ dropPc' = dropPc /\ closePc' = closePc
        /\ ticking' = ticking /\ reconnect' = reconnect /\ attached' = attached
        /\ freed' = freed /\ misuse' = misuse
    BY <1>1 DEF Send, usable, flow
  <2> QED
    BY <2>1 DEF Control, Phases, Settled, Undisturbed
<1>2. ASSUME NEW id \in Ids, Transmit(id) PROVE Control'
  <2>1. Cleared => Cleared'
    BY <1>2, ClearedKept DEF Transmit, futures
  <2> QED
    BY <1>2, <2>1, ControlKept DEF Transmit
<1>3. ASSUME NEW id \in Ids, TimeOut(id) PROVE Control'
  <2>1. Cleared => Cleared'
    BY <1>3, ClearedKept DEF TimeOut, futures
  <2>2. misuse' = misuse
    BY <1>3 DEF TimeOut, Uses, Control, Phases
  <2> QED
    BY <1>3, <2>1, <2>2, ControlKept DEF TimeOut
<1>4. ASSUME NEW id \in Ids, Reply(id) PROVE Control'
  <2>1. Cleared => Cleared'
    BY <1>4, ClearedKept DEF Reply, futures
  <2>2. ~reconnect => misuse' = misuse
    BY <1>4 DEF Reply, Uses, Control, Phases, Undisturbed
  <2> QED
    BY <1>4, <2>1, <2>2, ControlKept DEF Reply
<1>5. CASE KeepAlive
  <2>1. Cleared => Cleared'
    BY <1>5, ClearedKept DEF KeepAlive, futures
  <2>2. misuse' = misuse
    BY <1>5 DEF KeepAlive, Uses, Control, Phases
  <2> QED
    BY <1>5, <2>1, <2>2, ControlKept DEF KeepAlive
<1>6. CASE OnEvent
  <2>1. Cleared => Cleared'
    <3> DEFINE e == Head(port).meant
    <3>1. IF completes(e) /\ e.id \in Ids /\ pending[e.id] # Nobody
          THEN pending' = [pending EXCEPT ![e.id] = Nobody]
          ELSE pending' = pending
      BY <1>6, EventFacts
    <3> HIDE DEF e
    <3> QED
      BY <3>1 DEF Cleared
  <2> QED
    BY <1>6, <2>1, ControlKept DEF OnEvent
<1>7. ASSUME NEW n \in Notices, Notify(n) PROVE Control'
  <2>1. Cleared => Cleared'
    BY <1>7, ClearedKept DEF Notify, futures
  <2> QED
    BY <1>7, <2>1, ControlKept DEF Notify
<1>8. CASE LinkDrop
  <2>1. Cleared => Cleared'
    BY <1>8, ClearedKept DEF LinkDrop, futures
  <2> QED
    BY <1>8, <2>1, ControlKept DEF LinkDrop
<1>9. CASE OnDrop
  <2>1. Cleared' <=> Cleared
    BY <1>9, ClearedKept DEF OnDrop, futures
  <2> QED
    BY <1>9, <2>1 DEF OnDrop, startClose, Control, Phases, Settled, Undisturbed
<1>10. CASE DropDetach
  <2>1. CASE attached
    <3>1. Cleared'
      BY <1>10, <2>1 DEF DropDetach, resolvePending, Cleared
    <3> QED
      BY <1>10, <2>1, <3>1 DEF DropDetach, Control, Phases, Settled, Undisturbed
  <2>2. CASE ~attached
    <3>1. Cleared' <=> Cleared
      BY <1>10, <2>2, ClearedKept DEF DropDetach, futures
    <3> QED
      BY <1>10, <2>2, <3>1 DEF DropDetach, Control, Phases, Settled, Undisturbed
  <2> QED
    BY <2>1, <2>2
<1>11. CASE BringUp
  <2>1. Cleared' <=> Cleared
    BY <1>11, ClearedKept DEF BringUp, futures
  <2> QED
    BY <1>11, <2>1 DEF BringUp, Uses, Control, Phases, Settled, Undisturbed
<1>12. CASE Attach
  <2>1. ~usable
    BY <1>12 DEF Attach, usable, Control, Settled
  <2>2. dropPc' = "caught" /\ pending' = pending /\ state' = state
    BY <1>12, <2>1 DEF Attach, futures
  <2>3. Cleared' <=> Cleared
    BY <2>2, ClearedKept
  <2> QED
    BY <1>12, <2>2, <2>3 DEF Attach, Uses, Control, Phases, Settled, Undisturbed
<1>13. CASE Caught
  <2>1. Cleared' <=> Cleared
    BY <1>13, ClearedKept DEF Caught, futures
  <2> QED
    BY <1>13, <2>1 DEF Caught, startClose, Control, Phases, Settled, Undisturbed
<1>14. CASE Close
  <2>1. Cleared' <=> Cleared
    BY <1>14, ClearedKept DEF Close, futures
  <2> QED
    BY <1>14, <2>1 DEF Close, startClose, Control, Phases, Settled, Undisturbed
<1>15. CASE CloseWatched
  <2>1. Cleared' <=> Cleared
    BY <1>15, ClearedKept DEF CloseWatched, futures
  <2> QED
    BY <1>15, <2>1 DEF CloseWatched, Control, Phases, Settled, Undisturbed
<1>16. CASE CloseDetach
  <2>1. Cleared' <=> Cleared
    BY <1>16, ClearedKept DEF CloseDetach, futures
  <2> QED
    BY <1>16, <2>1 DEF CloseDetach, Control, Phases, Settled, Undisturbed
<1>17. CASE CloseDelay
  <2>1. Cleared' <=> Cleared
    BY <1>17, ClearedKept DEF CloseDelay, futures
  <2> QED
    BY <1>17, <2>1 DEF CloseDelay, Control, Phases, Settled, Undisturbed
<1>18. CASE CloseRelease
  <2>1. Cleared'
    BY <1>18 DEF CloseRelease, resolvePending, Cleared
  <2> QED
    BY <1>18, <2>1 DEF CloseRelease, Control, Phases, Settled, Undisturbed
<1>19. CASE CloseStreams
  <2>1. Cleared' <=> Cleared
    BY <1>19, ClearedKept DEF CloseStreams, futures
  <2> QED
    BY <1>19, <2>1 DEF CloseStreams, Control, Phases, Settled, Undisturbed
<1>20. CASE UNCHANGED cameraVars
  <2>1. Cleared' <=> Cleared
    BY <1>20, ClearedKept DEF cameraVars
  <2> QED
    BY <1>20, <2>1 DEF cameraVars, Control, Phases, Settled, Undisturbed
<1> QED
  BY <1>1, <1>2, <1>3, <1>4, <1>5, <1>6, <1>7, <1>8, <1>9, <1>10, <1>11, <1>12, <1>13, <1>14,
     <1>15, <1>16, <1>17, <1>18, <1>19, <1>20 DEF Next, CloseStep, DropStep

-----------------------------------------------------------------------------
(* No future is forgotten. *)

\* What completes, or is about to complete, the future under an id.
Helped(id) == native[id] # Nobody \/ Answered(id) \/ Resolving

\* The futures are left alone, and none of those that wait loses its help.
LEMMA HoldStep ==
  ASSUME CameraInv, UNCHANGED futures,
         \A x \in Ids : pending[x] # Nobody /\ Helped(x) => Helped(x)'
  PROVE  Listed' /\ OnTheWay'
<1>1. pending' = pending /\ result' = result
  BY DEF futures
<1>2. Listed'
  BY <1>1 DEF CameraInv, Listed
<1>3. OnTheWay'
  BY <1>1 DEF CameraInv, OnTheWay, Helped
<1> QED
  BY <1>2, <1>3

LEMMA SettleHelps ==
  ASSUME CameraTypes, NEW id \in Ids, native[id] # Nobody, NEW o \in Range(kOutcomes),
         native' = [native EXCEPT ![id] = Nobody], sent' = sent \ {id},
         port' = Append(port, Response(id, native[id], o)), UNCHANGED <<flow, attached>>
  PROVE  \A x \in Ids : Helped(x) => Helped(x)'
<1> DEFINE m == Response(id, native[id], o)
<1>1. native \in [Ids -> 0..KaTicket] /\ port \in Seq(Messages)
  BY DEF CameraTypes
<1>2. native[id] \in 1..KaTicket
  BY <1>1, Numbers
<1>3. m \in Messages /\ IsResponse(m, id)
  BY <1>2, ResponseIs
<1>4. port' = Append(port, m)
  OBVIOUS
<1> HIDE DEF m
<1>5. /\ DOMAIN port' = DOMAIN port \cup {Len(port) + 1}
      /\ port'[Len(port) + 1] = m /\ \A i \in DOMAIN port : port'[i] = port[i]
  BY <1>1, <1>3, <1>4, Appended
<1>6. Answered(id)'
  BY <1>3, <1>5 DEF Answered, IsResponse
<1>7. \A x : Answered(x) => Answered(x)'
  BY <1>5, AnsweredStays
<1>8. \A x \in Ids : x # id => native'[x] = native[x]
  BY <1>1
<1>9. Resolving' <=> Resolving
  BY DEF Resolving, flow
<1> QED
  BY <1>6, <1>7, <1>8, <1>9 DEF Helped

LEMMA TailAnswered ==
  ASSUME port \in Seq(Messages), port # <<>>, port' = Tail(port), NEW id,
         Answered(id), ~IsResponse(Head(port), id)
  PROVE  Answered(id)'
<1>1. PICK i \in DOMAIN port : IsResponse(port[i], id)
  BY DEF Answered, IsResponse
<1>2. i # 1 /\ i \in 1..Len(port)
  BY <1>1
<1>3. i - 1 \in DOMAIN port' /\ port'[i - 1] = port[i]
  BY <1>2
<1> QED
  BY <1>1, <1>3 DEF Answered, IsResponse

LEMMA NotWaiting == "waiting" \notin Range(BleOutcomes)
<1>1. DOMAIN BleOutcomes = 1..4
  BY DEF BleOutcomes
<1>2. /\ BleOutcomes[1] # "waiting" /\ BleOutcomes[2] # "waiting"
      /\ BleOutcomes[3] # "waiting" /\ BleOutcomes[4] # "waiting"
  BY DEF BleOutcomes
<1> QED
  BY <1>1, <1>2 DEF Range

LEMMA SendHelps ==
  ASSUME CameraInv, NEW c \in AppCmds, Send(c)
  PROVE  Listed' /\ OnTheWay'
<1> DEFINE id == id_of(c)
<1>1. PICK t \in Tickets :
        /\ submit(id_of(c), t)
        /\ pending' = [pending EXCEPT ![id_of(c)] = IF accepts(id_of(c)) THEN t ELSE Nobody]
        /\ result' = [result EXCEPT ![t] =
                        [by |-> Nobody, outcome |-> IF accepts(id_of(c)) THEN "waiting"
                                                    ELSE "refused"]]
  BY SendFacts DEF CameraInv, Send
<1>2. id \in Ids /\ t \in 1..KaTicket /\ pending[id] = Nobody
  BY IdsOfCommands, Numbers DEF Send, already_outstanding
<1>3. /\ pending \in [Ids -> 0..MaxSends]
      /\ result \in [Tickets -> [by : 0..KaTicket, outcome : Stories]]
  BY DEF CameraInv, CameraTypes
<1>4. /\ \A x \in Ids : native[x] # Nobody => native'[x] # Nobody
      /\ \A x \in Ids : Answered(x) => Answered(x)'
      /\ native'[id] # Nobody
  BY <1>1, <1>2, SubmitFacts DEF CameraInv
<1>5. Resolving' <=> Resolving
  BY DEF Resolving, Send, flow
<1> DEFINE ok == accepts(id)
<1>6. /\ \A x \in Ids : x # id => pending'[x] = pending[x]
      /\ pending'[id] = IF ok THEN t ELSE Nobody
  BY <1>1, <1>2, <1>3
<1>7. /\ \A u \in Tickets : u # t => result'[u] = result[u]
      /\ result'[t].outcome = IF ok THEN "waiting" ELSE "refused"
  BY <1>1, <1>3
<1> HIDE DEF ok, id
<1>8. Listed'
  <2> SUFFICES ASSUME NEW u \in Tickets, result'[u].outcome = "waiting"
               PROVE  \E x \in Ids : pending'[x] = u
    BY DEF Listed
  <2>1. CASE u = t
    BY <1>2, <1>6, <1>7, <2>1
  <2>2. CASE u # t
    <3>1. PICK x \in Ids : pending[x] = u
      BY <1>7, <2>2 DEF CameraInv, Listed
    <3>2. x # id
      BY <1>2, <3>1, Numbers
    <3> QED
      BY <1>6, <3>1, <3>2
  <2> QED
    BY <2>1, <2>2
<1>9. OnTheWay'
  BY <1>4, <1>5, <1>6 DEF CameraInv, OnTheWay
<1> QED
  BY <1>8, <1>9

LEMMA EventHelps ==
  ASSUME CameraInv, OnEvent
  PROVE  Listed' /\ OnTheWay'
<1> DEFINE h == Head(port)
           e == h.meant
           hit == completes(e) /\ e.id \in Ids /\ pending[e.id] # Nobody
<1>1. /\ IF hit
         THEN /\ pending' = [pending EXCEPT ![e.id] = Nobody]
              /\ result' = [result EXCEPT ![pending[e.id]] =
                              [by |-> h.by, outcome |-> e.outcome]]
              /\ h.by \in 1..KaTicket /\ e.outcome \in Range(BleOutcomes)
              /\ pending[e.id] \in Tickets
         ELSE pending' = pending /\ result' = result
      /\ port' = Tail(port) /\ port # <<>> /\ h \in Messages /\ h # Turn
  BY EventFacts DEF CameraInv
<1>2. /\ pending \in [Ids -> 0..MaxSends] /\ port \in Seq(Messages)
      /\ result \in [Tickets -> [by : 0..KaTicket, outcome : Stories]]
  BY DEF CameraInv, CameraTypes
<1>3. /\ native' = native /\ (Resolving' <=> Resolving)
  BY DEF OnEvent, Resolving, flow, session
<1>4. \A x \in Ids : IsResponse(h, x) => completes(e) /\ e.id = x
  BY DEF IsResponse, completes
<1>5. \A x \in Ids : Answered(x) /\ ~IsResponse(h, x) => Answered(x)'
  BY <1>1, <1>2, TailAnswered
<1> HIDE DEF h, e
<1>6. CASE hit
  <2>1. /\ pending'[e.id] = Nobody /\ \A x \in Ids : x # e.id => pending'[x] = pending[x]
    BY <1>1, <1>2, <1>6
  <2>2. Listed'
    <3> SUFFICES ASSUME NEW u \in Tickets, result'[u].outcome = "waiting"
                 PROVE  \E x \in Ids : pending'[x] = u
      BY DEF Listed
    <3>1. u # pending[e.id]
      BY <1>1, <1>2, <1>6, NotWaiting
    <3>2. result'[u] = result[u]
      BY <1>1, <1>2, <1>6, <3>1
    <3>3. PICK x \in Ids : pending[x] = u
      BY <3>2 DEF CameraInv, Listed
    <3> QED
      BY <2>1, <3>1, <3>3
  <2>3. OnTheWay'
    BY <1>3, <1>4, <1>5, <1>6, <2>1 DEF CameraInv, OnTheWay
  <2> QED
    BY <2>2, <2>3
<1>7. CASE ~hit
  <2>1. pending' = pending /\ result' = result
    BY <1>1, <1>7
  <2>2. \A x \in Ids : pending[x] # Nobody => ~IsResponse(h, x)
    BY <1>4, <1>7
  <2>3. Listed'
    BY <2>1 DEF CameraInv, Listed
  <2>4. OnTheWay'
    BY <1>3, <1>5, <2>1, <2>2 DEF CameraInv, OnTheWay
  <2> QED
    BY <2>3, <2>4
<1> QED
  BY <1>6, <1>7

LEMMA ResolveHelps ==
  ASSUME CameraInv, resolvePending
  PROVE  Listed' /\ OnTheWay'
<1>1. /\ \A id \in Ids : pending'[id] = Nobody
      /\ \A t \in Tickets :
           \/ \E id \in Ids : pending[id] = t
              /\ result'[t] = [by |-> t, outcome |-> "canceled"]
           \/ result'[t] = result[t] /\ \A id \in Ids : pending[id] # t
  BY ResolveFacts DEF CameraInv
<1>2. ASSUME NEW t \in Tickets PROVE result'[t].outcome # "waiting"
  <2>1. CASE result'[t] = [by |-> t, outcome |-> "canceled"]
    BY <2>1
  <2>2. CASE result'[t] = result[t] /\ \A id \in Ids : pending[id] # t
    BY <2>2 DEF CameraInv, Listed
  <2> QED
    BY <1>1, <2>1, <2>2
<1>3. Listed'
  BY <1>2 DEF Listed
<1>4. OnTheWay'
  BY <1>1 DEF OnTheWay
<1> QED
  BY <1>3, <1>4

LEMMA HelpStep == CameraInv /\ [Next]_cameraVars => Listed' /\ OnTheWay'
<1> SUFFICES ASSUME CameraInv, [Next]_cameraVars PROVE Listed' /\ OnTheWay'
  OBVIOUS
<1> USE DEF CameraInv
<1>1. ASSUME NEW c \in AppCmds, Send(c) PROVE Listed' /\ OnTheWay'
  BY <1>1, SendHelps
<1>2. ASSUME NEW id \in Ids, Transmit(id) PROVE Listed' /\ OnTheWay'
  <2>1. Write(id) \in Messages /\ port \in Seq(Messages) /\ port' = Append(port, Write(id))
    BY <1>2, WriteFacts DEF Transmit, CameraTypes
  <2>2. DOMAIN port \subseteq DOMAIN port' /\ \A i \in DOMAIN port : port'[i] = port[i]
    BY <2>1, Appended
  <2>3. \A x : Answered(x) => Answered(x)'
    BY <2>2, AnsweredStays
  <2>4. \A x \in Ids : Helped(x) => Helped(x)'
    BY <1>2, <2>3 DEF Helped, Resolving, Transmit, flow
  <2> QED
    BY <1>2, <2>4, HoldStep DEF Transmit
<1>3. ASSUME NEW id \in Ids, TimeOut(id) PROVE Listed' /\ OnTheWay'
  <2>1. \A x \in Ids : Helped(x) => Helped(x)'
    BY <1>3, SettleHelps, OutcomesUsed DEF TimeOut
  <2> QED
    BY <1>3, <2>1, HoldStep DEF TimeOut
<1>4. ASSUME NEW id \in Ids, Reply(id) PROVE Listed' /\ OnTheWay'
  <2>1. CASE id \in sent
    <3>1. native[id] # Nobody
      BY <2>1 DEF CameraTypes, outstanding
    <3>2. \A x \in Ids : Helped(x) => Helped(x)'
      BY <1>4, <2>1, <3>1, SettleHelps, OutcomesUsed DEF Reply
    <3> QED
      BY <1>4, <3>2, HoldStep DEF Reply
  <2>2. CASE id \notin sent
    <3>1. \A x \in Ids : Helped(x) => Helped(x)'
      BY <1>4, <2>2 DEF Reply, Helped, Answered, Resolving, flow, session
    <3> QED
      BY <1>4, <3>1, HoldStep DEF Reply
  <2> QED
    BY <2>1, <2>2
<1>5. CASE KeepAlive
  <2>1. KeepAliveId \in Ids /\ KaTicket \in 1..KaTicket
    BY IdsOfCommands, Numbers
  <2>2. /\ \A x \in Ids : native[x] # Nobody => native'[x] # Nobody
        /\ \A x \in Ids : Answered(x) => Answered(x)'
    BY <1>5, <2>1, SubmitFacts DEF KeepAlive
  <2>3. \A x \in Ids : Helped(x) => Helped(x)'
    BY <1>5, <2>2 DEF KeepAlive, Helped, Resolving, flow
  <2> QED
    BY <1>5, <2>3, HoldStep DEF KeepAlive
<1>6. CASE OnEvent
  BY <1>6, EventHelps
<1>7. ASSUME NEW n \in Notices, Notify(n) PROVE Listed' /\ OnTheWay'
  <2>1. Notice(n) \in Messages /\ port \in Seq(Messages) /\ port' = Append(port, Notice(n))
    BY <1>7, NoticeFacts DEF Notify, CameraTypes
  <2>2. DOMAIN port \subseteq DOMAIN port' /\ \A i \in DOMAIN port : port'[i] = port[i]
    BY <2>1, Appended
  <2>3. \A x : Answered(x) => Answered(x)'
    BY <2>2, AnsweredStays
  <2>4. \A x \in Ids : Helped(x) => Helped(x)'
    BY <1>7, <2>3 DEF Helped, Resolving, Notify, flow, session
  <2> QED
    BY <1>7, <2>4, HoldStep DEF Notify
<1>8. CASE LinkDrop
  <2>1. \A x \in Ids : Helped(x) => Helped(x)'
    BY <1>8 DEF LinkDrop, Helped, Answered, Resolving, flow, session
  <2> QED
    BY <1>8, <2>1, HoldStep DEF LinkDrop
<1>9. CASE OnDrop
  <2>1. Resolving'
    BY <1>9 DEF OnDrop, startClose, Resolving, Control, Phases
  <2> QED
    BY <1>9, <2>1, HoldStep DEF OnDrop, Helped
<1>10. CASE DropDetach
  <2>1. CASE attached
    BY <1>10, <2>1, ResolveHelps DEF DropDetach
  <2>2. CASE ~attached
    <3>1. \A x \in Ids : Helped(x) => Helped(x)'
      BY <1>10, <2>2 DEF DropDetach, Helped, Answered, Resolving, session
    <3> QED
      BY <1>10, <2>2, <3>1, HoldStep DEF DropDetach
  <2> QED
    BY <2>1, <2>2
<1>11. CASE BringUp
  <2>1. Cleared
    BY <1>11 DEF BringUp, Control, Settled
  <2> QED
    BY <1>11, <2>1, HoldStep DEF BringUp, Cleared
<1>12. CASE Attach
  <2>1. Cleared /\ ~usable
    BY <1>12 DEF Attach, usable, Control, Settled
  <2>2. UNCHANGED futures
    BY <1>12, <2>1 DEF Attach
  <2> QED
    BY <2>1, <2>2, HoldStep DEF Cleared
<1>13. CASE Caught
  <2>1. Cleared
    BY <1>13 DEF Caught, Control, Settled
  <2> QED
    BY <1>13, <2>1, HoldStep DEF Caught, Cleared
<1>14. CASE Close
  <2>1. Resolving'
    BY <1>14 DEF Close, startClose, Resolving
  <2> QED
    BY <1>14, <2>1, HoldStep DEF Close, Helped
<1>15. CASE CloseWatched
  <2>1. Resolving'
    BY <1>15 DEF CloseWatched, Resolving
  <2> QED
    BY <1>15, <2>1, HoldStep DEF CloseWatched, Helped
<1>16. CASE CloseDetach
  <2>1. UNCHANGED futures
    BY <1>16 DEF CloseDetach
  <2>2. CASE attached
    <3>1. Resolving'
      BY <1>16, <2>2 DEF CloseDetach, Resolving
    <3> QED
      BY <2>1, <3>1, HoldStep DEF Helped
  <2>3. CASE ~attached
    <3>1. Cleared
      BY <1>16, <2>3 DEF CloseDetach, Control, Settled
    <3> QED
      BY <2>1, <3>1, HoldStep DEF Cleared
  <2> QED
    BY <2>2, <2>3
<1>17. CASE CloseDelay
  <2>1. Resolving'
    BY <1>17 DEF CloseDelay, Resolving
  <2> QED
    BY <1>17, <2>1, HoldStep DEF CloseDelay, Helped
<1>18. CASE CloseRelease
  BY <1>18, ResolveHelps DEF CloseRelease
<1>19. CASE CloseStreams
  <2>1. Cleared
    BY <1>19 DEF CloseStreams, Control, Settled
  <2> QED
    BY <1>19, <2>1, HoldStep DEF CloseStreams, Cleared
<1>20. CASE UNCHANGED cameraVars
  <2>1. \A x \in Ids : Helped(x) => Helped(x)'
    BY <1>20 DEF cameraVars, Helped, Answered, Resolving
  <2>2. UNCHANGED futures
    BY <1>20 DEF cameraVars, futures
  <2> QED
    BY <2>1, <2>2, HoldStep
<1> QED
  BY <1>1, <1>2, <1>3, <1>4, <1>5, <1>6, <1>7, <1>8, <1>9, <1>10, <1>11, <1>12, <1>13, <1>14,
     <1>15, <1>16, <1>17, <1>18, <1>19, <1>20 DEF Next, CloseStep, DropStep

LEMMA CameraInit == Init => CameraInv
<1> SUFFICES ASSUME Init PROVE CameraInv
  OBVIOUS
<1>1. QueryId \in Ids /\ 1 \in Tickets /\ 1 \in 0..MaxSends /\ 0 \in 0..MaxSends
      /\ 1 \in 0..KaTicket /\ 0 \in 0..KaTicket
  BY IdsOfCommands, Numbers
<1>2. pending \in [Ids -> 0..MaxSends] /\ native \in [Ids -> 0..KaTicket]
  BY <1>1 DEF Init, Nobody
<1>3. result \in [Tickets -> [by : 0..KaTicket, outcome : Stories]]
  BY <1>1 DEF Init, Nobody, Stories
<1>4. CameraTypes
  <2>1. /\ state = "up" /\ reconnect \in BOOLEAN /\ attached = TRUE /\ connected = TRUE
        /\ ticking = TRUE /\ dropPc = "idle" /\ closePc = "open" /\ freed = FALSE
        /\ misuse = {} /\ sent = {} /\ heard = {}
    BY DEF Init
  <2>2. port = <<>> /\ <<>> \in Seq(Messages)
    BY DEF Init
  <2>3. port \in Seq(Messages)
    BY <2>2
  <2> QED
    BY <1>2, <1>3, <2>1, <2>3 DEF CameraTypes
<1>5. Control
  BY DEF Init, Control, Phases, Settled, Undisturbed
<1>6. pending[QueryId] = 1 /\ \A x \in Ids : pending[x] # Nobody => native[x] # Nobody
  BY <1>1 DEF Init, Nobody
<1>7. \A t \in Tickets : result[t].outcome = "waiting" => t = 1
  BY DEF Init
<1>8. Listed
  BY <1>1, <1>6, <1>7 DEF Listed
<1>9. OnTheWay
  BY <1>6 DEF OnTheWay
<1> QED
  BY <1>4, <1>5, <1>8, <1>9 DEF CameraInv

\* CameraInv holds in every reachable state.
LEMMA CameraInvariant == Spec => []CameraInv
<1>1. CameraInv /\ [Next]_cameraVars => CameraInv'
  BY TypesStep, ControlStep, HelpStep DEF CameraInv
<1> QED
  BY <1>1, CameraInit, PTL DEF Spec

\* Types: every variable of the camera stays in its set, and every outcome in
\* the port is that of a submission.
THEOREM CameraTypeCorrect == Spec => []TypeOK
<1>1. CameraInv => TypeOK
  <2> SUFFICES ASSUME CameraInv PROVE TypeOK
    OBVIOUS
  <2>1. CameraTypes
    BY DEF CameraInv
  <2>2. \A i \in DOMAIN port : port[i] # Turn /\ port[i].meant.kind = "response"
                               => port[i].by \in 1..KaTicket
    BY <2>1, MessageFacts DEF CameraTypes
  <2> QED
    BY <2>1, <2>2 DEF TypeOK, CameraTypes, Stories
<1> QED
  BY <1>1, CameraInvariant, PTL

\* BleCodec and the bridge agree on the format: Dart makes of every message in
\* the port what the session meant by it, for every command, payload and event.
THEOREM EventsDecodeHolds == Spec => []EventsDecode
<1>1. CameraInv => EventsDecode
  BY MessageFacts DEF CameraInv, CameraTypes, EventsDecode
<1> QED
  BY <1>1, CameraInvariant, PTL

\* No future is forgotten: one that waits is in _pending and its outcome is on
\* the way, whatever drops, closes, times out or is refused.
THEOREM NoOrphanHolds == Spec => []NoOrphan
<1>1. CameraInv => NoOrphan
  <2> SUFFICES ASSUME CameraInv, NEW t \in Tickets, result[t].outcome = "waiting"
               PROVE  \E id \in Ids : /\ pending[id] = t
                                      /\ \/ native[id] # Nobody \/ Answered(id)
                                         \/ dropPc = "detach" /\ attached
                                         \/ closePc \in {"watch", "detach", "detached", "turn"}
    BY DEF NoOrphan
  <2>1. PICK id \in Ids : pending[id] = t
    BY DEF CameraInv, Listed
  <2>2. pending[id] # Nobody
    BY <2>1, Numbers
  <2> QED
    BY <2>1, <2>2 DEF CameraInv, OnTheWay, Resolving
<1> QED
  BY <1>1, CameraInvariant, PTL

\* Without reconnection nothing is used after close() released it.
THEOREM ReleasedHolds == Spec => []ReleasedWithoutReconnect
<1>1. CameraInv => ReleasedWithoutReconnect
  BY DEF CameraInv, Control, Undisturbed, ReleasedWithoutReconnect
<1> QED
  BY <1>1, CameraInvariant, PTL

\* CameraLink.down is terminal: no handler takes the state out of it.
THEOREM DownIsTerminalHolds == Spec => DownIsTerminal
<1>1. CameraInv /\ [Next]_cameraVars => [state = "down" => state' = "down"]_cameraVars
  <2> SUFFICES ASSUME CameraInv, Next, state = "down" PROVE state' = "down"
    OBVIOUS
  <2>1. ASSUME Attach PROVE state' = "down"
    BY <2>1 DEF Attach, usable
  <2> QED
    BY <2>1 DEF Next, DropStep, CloseStep, Send, usable, Transmit, TimeOut, Reply, KeepAlive,
          OnEvent, Notify, LinkDrop, OnDrop, DropDetach, BringUp, Caught, Close, startClose,
          CloseWatched, CloseDetach, CloseDelay, CloseRelease, CloseStreams, flow
<1> QED
  BY <1>1, CameraInvariant, PTL DEF Spec, DownIsTerminal

-----------------------------------------------------------------------------
(* Whose outcome a future gets. *)

\* While the link is up an id is used by one send() at a time: its command is
\* outstanding, or its outcome is in the port, once, or nothing is.  When the
\* link is going down there may be more, but of no other submission than the
\* one that waits.
Own(id) ==
  /\ pending[id] # Nobody =>
       /\ native[id] \in {Nobody, pending[id]}
       /\ \A i \in DOMAIN port : IsResponse(port[i], id) => port[i].by = pending[id]
  /\ state = "up" =>
       /\ pending[id] = Nobody => native[id] = Nobody
       /\ pending[id] = Nobody \/ native[id] # Nobody =>
            \A i \in DOMAIN port : ~IsResponse(port[i], id)
       /\ \A i, j \in DOMAIN port :
            IsResponse(port[i], id) /\ IsResponse(port[j], id) => i = j

AppIds == Ids \ {KeepAliveId}

Owned ==
  /\ pending[KeepAliveId] = Nobody
  /\ \A id \in AppIds : Own(id)
  /\ OwnOutcome

\* Nothing is posted, and the application's ids keep what they have.
LEMMA OwnKept ==
  ASSUME Owned, port' = port, UNCHANGED futures, state' = "up" => state = "up",
         \A id \in AppIds : native'[id] = native[id]
  PROVE  Owned'
<1>1. pending' = pending /\ result' = result
  BY DEF futures
<1>2. pending'[KeepAliveId] = Nobody /\ OwnOutcome'
  BY <1>1 DEF Owned, OwnOutcome
<1>3. ASSUME NEW id \in AppIds PROVE Own(id)'
  <2>1. Own(id) /\ native'[id] = native[id]
    BY DEF Owned
  <2> QED
    BY <1>1, <2>1 DEF Own
<1> QED
  BY <1>2, <1>3 DEF Owned

\* What is posted is no outcome of the application's.
LEMMA OwnPosted ==
  ASSUME CameraTypes, Owned, NEW m \in Messages, port' = Append(port, m), UNCHANGED futures,
         state' = "up" => state = "up",
         \A id \in AppIds : native'[id] = native[id] /\ ~IsResponse(m, id)
  PROVE  Owned'
<1>1. pending' = pending /\ result' = result
  BY DEF futures
<1>2. pending'[KeepAliveId] = Nobody /\ OwnOutcome'
  BY <1>1 DEF Owned, OwnOutcome
<1>3. /\ DOMAIN port' = DOMAIN port \cup {Len(port) + 1}
      /\ port'[Len(port) + 1] = m /\ \A i \in DOMAIN port : port'[i] = port[i]
  <2>1. port \in Seq(Messages)
    BY DEF CameraTypes
  <2> QED
    BY <2>1, Appended
<1>4. ASSUME NEW id \in AppIds PROVE Own(id)'
  <2>1. Own(id) /\ native'[id] = native[id] /\ ~IsResponse(m, id)
    BY DEF Owned
  <2>2. \A i \in DOMAIN port' : IsResponse(port'[i], id) => i \in DOMAIN port
    BY <1>3, <2>1
  <2> QED
    BY <1>1, <1>3, <2>1, <2>2 DEF Own
<1> QED
  BY <1>2, <1>4 DEF Owned

\* The session settles what is outstanding under an id.
LEMMA OwnSettled ==
  ASSUME CameraTypes, Owned, NEW id \in Ids, native[id] # Nobody, NEW o \in Range(kOutcomes),
         native' = [native EXCEPT ![id] = Nobody],
         port' = Append(port, Response(id, native[id], o)),
         UNCHANGED futures, state' = state
  PROVE  Owned'
<1> DEFINE m == Response(id, native[id], o)
<1>1. native \in [Ids -> 0..KaTicket] /\ port \in Seq(Messages)
  BY DEF CameraTypes
<1>2. native[id] \in 1..KaTicket
  BY <1>1, Numbers
<1>3. m \in Messages /\ m.by = native[id] /\ \A x : IsResponse(m, x) <=> x = id
  BY <1>2, ResponseIs
<1>4. port' = Append(port, m)
  OBVIOUS
<1> HIDE DEF m
<1>5. /\ DOMAIN port' = DOMAIN port \cup {Len(port) + 1} /\ Len(port) + 1 \notin DOMAIN port
      /\ port'[Len(port) + 1] = m /\ \A i \in DOMAIN port : port'[i] = port[i]
  BY <1>1, <1>3, <1>4, Appended
<1>6. pending' = pending /\ result' = result
  BY DEF futures
<1>7. pending'[KeepAliveId] = Nobody /\ OwnOutcome'
  BY <1>6 DEF Owned, OwnOutcome
<1>8. ASSUME NEW x \in AppIds PROVE Own(x)'
  <2>1. Own(x) /\ x \in Ids
    BY DEF Owned, AppIds
  <2>2. CASE x # id
    <3>1. native'[x] = native[x]
      BY <1>1, <2>1, <2>2
    <3>2. \A i \in DOMAIN port' : IsResponse(port'[i], x) => i \in DOMAIN port
      BY <1>3, <1>5, <2>2
    <3> QED
      BY <1>5, <1>6, <2>1, <3>1, <3>2 DEF Own
  <2>3. CASE x = id
    <3>1. native'[x] = Nobody
      BY <1>1, <2>1, <2>3
    <3>2. pending[x] # Nobody => \A i \in DOMAIN port' : IsResponse(port'[i], x)
                                                         => port'[i].by = pending[x]
      BY <1>3, <1>5, <2>1, <2>3 DEF Own
    <3>3. state = "up" => pending[x] # Nobody /\ \A i \in DOMAIN port : ~IsResponse(port[i], x)
      BY <2>1, <2>3 DEF Own
    <3>4. state = "up" => \A i \in DOMAIN port' : IsResponse(port'[i], x) => i = Len(port) + 1
      BY <1>5, <3>3
    <3> QED
      BY <1>6, <3>1, <3>2, <3>3, <3>4 DEF Own
  <2> QED
    BY <2>2, <2>3
<1> QED
  BY <1>7, <1>8 DEF Owned

\* Everything is cancelled, and the link is not up.
LEMMA OwnDisconnected ==
  ASSUME CameraTypes, Owned, disconnect, UNCHANGED futures, state' # "up"
  PROVE  Owned'
<1>1. /\ \A x \in Ids : native'[x] = Nobody
      /\ DOMAIN port \subseteq DOMAIN port' /\ \A i \in DOMAIN port : port'[i] = port[i]
      /\ \A i \in DOMAIN port' : i \notin DOMAIN port =>
           \E x \in outstanding : port'[i] = Response(x, native[x], "kCanceled")
  BY DisconnectFacts
<1>2. pending' = pending /\ result' = result
  BY DEF futures
<1>3. pending'[KeepAliveId] = Nobody /\ OwnOutcome'
  BY <1>2 DEF Owned, OwnOutcome
<1>4. native \in [Ids -> 0..KaTicket]
  BY DEF CameraTypes
<1>5. ASSUME NEW id \in AppIds PROVE Own(id)'
  <2>1. Own(id) /\ native'[id] = Nobody
    BY <1>1 DEF Owned, AppIds
  <2>2. ASSUME pending[id] # Nobody, NEW i \in DOMAIN port', IsResponse(port'[i], id)
        PROVE  port'[i].by = pending[id]
    <3>1. CASE i \in DOMAIN port
      BY <1>1, <2>1, <2>2, <3>1 DEF Own
    <3>2. CASE i \notin DOMAIN port
      <4>1. PICK x \in outstanding : port'[i] = Response(x, native[x], "kCanceled")
        BY <1>1, <3>2
      <4>2. x \in Ids /\ native[x] # Nobody /\ native[x] \in 1..KaTicket
        BY <1>4, <4>1, Numbers DEF outstanding
      <4>3. port'[i].by = native[x] /\ x = id
        BY <2>2, <4>1, <4>2, ResponseIs, OutcomesUsed
      <4> QED
        BY <2>1, <2>2, <4>2, <4>3 DEF Own
    <3> QED
      BY <3>1, <3>2
  <2> QED
    BY <1>2, <2>1, <2>2 DEF Own
<1> QED
  BY <1>3, <1>5 DEF Owned

\* Everything is resolved, and the link is not up.
LEMMA OwnResolved ==
  ASSUME CameraTypes, Owned, resolvePending, state' # "up"
  PROVE  Owned'
<1>1. /\ \A id \in Ids : pending'[id] = Nobody
      /\ \A t \in Tickets :
           \/ \E id \in Ids : pending[id] = t
              /\ result'[t] = [by |-> t, outcome |-> "canceled"]
           \/ result'[t] = result[t] /\ \A id \in Ids : pending[id] # t
  BY ResolveFacts
<1>2. \A id \in AppIds : Own(id)'
  BY <1>1 DEF Own, AppIds
<1>3. ASSUME NEW t \in Tickets PROVE result'[t].by \in {Nobody, t}
  <2>1. CASE result'[t] = [by |-> t, outcome |-> "canceled"]
    BY <2>1
  <2>2. CASE result'[t] = result[t]
    BY <2>2 DEF Owned, OwnOutcome
  <2> QED
    BY <1>1, <2>1, <2>2
<1>4. OwnOutcome'
  BY <1>3 DEF OwnOutcome
<1>5. pending'[KeepAliveId] = Nobody
  BY <1>1, IdsOfCommands
<1> QED
  BY <1>2, <1>4, <1>5 DEF Owned

\* A send() finds its id free of everything.
LEMMA OwnSent ==
  ASSUME CameraTypes, Owned, NEW c \in AppCmds, id_of(c) # KeepAliveId, Send(c)
  PROVE  Owned'
<1> DEFINE id == id_of(c)
<1>1. PICK t \in Tickets :
        /\ submit(id_of(c), t)
        /\ pending' = [pending EXCEPT ![id_of(c)] = IF accepts(id_of(c)) THEN t ELSE Nobody]
        /\ result' = [result EXCEPT ![t] =
                        [by |-> Nobody, outcome |-> IF accepts(id_of(c)) THEN "waiting"
                                                    ELSE "refused"]]
  BY SendFacts DEF Send
<1>2. id \in AppIds /\ id \in Ids /\ pending[id] = Nobody /\ state = "up" /\ state' = state
  BY IdsOfCommands DEF Send, already_outstanding, AppIds, usable, flow
<1>3. native[id] = Nobody /\ \A i \in DOMAIN port : ~IsResponse(port[i], id)
  BY <1>2 DEF Owned, Own
<1>4. native' = [native EXCEPT ![id] = t] /\ port' = port /\ accepts(id_of(c))
  BY <1>1, <1>3 DEF submit, accepts
<1>5. /\ pending \in [Ids -> 0..MaxSends] /\ native \in [Ids -> 0..KaTicket]
      /\ result \in [Tickets -> [by : 0..KaTicket, outcome : Stories]]
  BY DEF CameraTypes
<1>6. /\ pending'[id] = t /\ native'[id] = t
      /\ \A x \in Ids : x # id => pending'[x] = pending[x] /\ native'[x] = native[x]
  BY <1>1, <1>2, <1>4, <1>5
<1>7. t # Nobody
  BY Numbers
<1>8. OwnOutcome'
  BY <1>1, <1>5 DEF Owned, OwnOutcome
<1>9. pending'[KeepAliveId] = Nobody
  BY <1>6, IdsOfCommands DEF Owned
<1> HIDE DEF id
<1>10. ASSUME NEW x \in AppIds PROVE Own(x)'
  <2>1. x \in Ids /\ Own(x)
    BY DEF Owned, AppIds
  <2>2. CASE x = id
    BY <1>2, <1>3, <1>4, <1>6, <1>7, <2>2 DEF Own
  <2>3. CASE x # id
    BY <1>2, <1>4, <1>6, <2>1, <2>3 DEF Own
  <2> QED
    BY <2>2, <2>3
<1> QED
  BY <1>8, <1>9, <1>10 DEF Owned

\* _onEvent() completes a future with the one outcome there is for it.
LEMMA OwnCompleted ==
  ASSUME CameraTypes, Owned, OnEvent
  PROVE  Owned'
<1> DEFINE h == Head(port)
           e == h.meant
           hit == completes(e) /\ e.id \in Ids /\ pending[e.id] # Nobody
<1>1. /\ IF hit
         THEN /\ pending' = [pending EXCEPT ![e.id] = Nobody]
              /\ result' = [result EXCEPT ![pending[e.id]] =
                              [by |-> h.by, outcome |-> e.outcome]]
              /\ h.by \in 1..KaTicket /\ e.outcome \in Range(BleOutcomes)
              /\ pending[e.id] \in Tickets
         ELSE pending' = pending /\ result' = result
      /\ port' = Tail(port) /\ port # <<>> /\ h \in Messages /\ h # Turn
  BY EventFacts
<1>2. /\ pending \in [Ids -> 0..MaxSends] /\ port \in Seq(Messages)
      /\ result \in [Tickets -> [by : 0..KaTicket, outcome : Stories]]
  BY DEF CameraTypes
<1>3. native' = native /\ state' = state
  BY DEF OnEvent, flow, session
<1>4. /\ 1 \in DOMAIN port /\ port[1] = h
      /\ \A i \in DOMAIN port' : i + 1 \in DOMAIN port /\ port'[i] = port[i + 1]
                                 /\ i + 1 # 1 /\ i \in Nat
  BY <1>1, <1>2
<1>5. \A x : IsResponse(h, x) <=> completes(e) /\ e.id = x
  BY <1>1 DEF IsResponse, completes
<1> HIDE DEF h, e
<1>6. ASSUME NEW id \in AppIds, pending'[id] = pending[id],
             ~IsResponse(h, id) \/ pending[id] # Nobody
      PROVE  Own(id)'
  <2>1. Own(id)
    BY DEF Owned
  <2>2. \A i \in DOMAIN port' : IsResponse(port'[i], id) => IsResponse(port[i + 1], id)
    BY <1>4
  <2>3. \A i, j \in DOMAIN port' : i + 1 = j + 1 => i = j
    BY <1>4
  <2>4. pending'[id] # Nobody => /\ native'[id] \in {Nobody, pending'[id]}
                                 /\ \A i \in DOMAIN port' : IsResponse(port'[i], id)
                                                            => port'[i].by = pending'[id]
    BY <1>3, <1>4, <1>6, <2>1, <2>2 DEF Own
  <2>5. ASSUME state = "up"
        PROVE  /\ pending'[id] = Nobody => native'[id] = Nobody
               /\ pending'[id] = Nobody \/ native'[id] # Nobody =>
                    \A i \in DOMAIN port' : ~IsResponse(port'[i], id)
    BY <1>3, <1>4, <1>6, <2>1, <2>2, <2>5 DEF Own
  <2>6. ASSUME state = "up", NEW i \in DOMAIN port', NEW j \in DOMAIN port',
               IsResponse(port'[i], id), IsResponse(port'[j], id)
        PROVE  i = j
    <3>1. i + 1 \in DOMAIN port /\ j + 1 \in DOMAIN port
      BY <1>4
    <3>2. i + 1 = j + 1
      BY <2>1, <2>2, <2>6, <3>1 DEF Own
    <3> QED
      BY <2>3, <3>2
  <2> QED
    BY <1>3, <2>4, <2>5, <2>6 DEF Own
<1>7. CASE hit
  <2>1. /\ pending'[e.id] = Nobody /\ \A x \in Ids : x # e.id => pending'[x] = pending[x]
    BY <1>1, <1>2, <1>7
  <2>2. e.id # KeepAliveId /\ e.id \in AppIds
    BY <1>7 DEF Owned, AppIds
  <2>3. Own(e.id) /\ IsResponse(h, e.id)
    BY <1>5, <1>7, <2>2 DEF Owned
  <2>4. h.by = pending[e.id]
    BY <1>4, <1>7, <2>3 DEF Own
  <2>5. OwnOutcome'
    <3> SUFFICES ASSUME NEW t \in Tickets PROVE result'[t].by \in {Nobody, t}
      BY DEF OwnOutcome
    <3>1. CASE t = pending[e.id]
      BY <1>1, <1>2, <1>7, <2>4, <3>1
    <3>2. CASE t # pending[e.id]
      BY <1>1, <1>2, <1>7, <3>2 DEF Owned, OwnOutcome
    <3> QED
      BY <3>1, <3>2
  <2>6. pending'[KeepAliveId] = Nobody
    BY <2>1, <2>2, IdsOfCommands DEF Owned
  <2>7. ASSUME NEW x \in AppIds, x = e.id PROVE Own(x)'
    <3>1. ASSUME state = "up"
          PROVE  native[x] = Nobody /\ \A i \in DOMAIN port' : ~IsResponse(port'[i], x)
      <4>1. native[x] = Nobody
        BY <1>4, <2>3, <2>7, <3>1 DEF Own
      <4>2. ASSUME NEW i \in DOMAIN port', IsResponse(port'[i], x) PROVE FALSE
        <5>1. i + 1 \in DOMAIN port /\ IsResponse(port[i + 1], x) /\ i + 1 # 1
          BY <1>4, <4>2
        <5>2. 1 \in DOMAIN port /\ IsResponse(port[1], x)
          BY <1>4, <2>3, <2>7
        <5>3. \A k, j \in DOMAIN port :
                IsResponse(port[k], x) /\ IsResponse(port[j], x) => k = j
          BY <2>3, <2>7, <3>1 DEF Own
        <5> QED
          BY <5>1, <5>2, <5>3
      <4> QED
        BY <4>1, <4>2
    <3> QED
      BY <1>3, <2>1, <2>7, <3>1 DEF Own
  <2>8. ASSUME NEW x \in AppIds PROVE Own(x)'
    <3>1. CASE x = e.id
      BY <2>7, <3>1
    <3>2. CASE x # e.id
      <4>1. pending'[x] = pending[x] /\ ~IsResponse(h, x)
        BY <1>5, <2>1, <3>2 DEF AppIds
      <4> QED
        BY <1>6, <4>1
    <3> QED
      BY <3>1, <3>2
  <2> QED
    BY <2>5, <2>6, <2>8 DEF Owned
<1>8. CASE ~hit
  <2>1. pending' = pending /\ result' = result
    BY <1>1, <1>8
  <2>2. pending'[KeepAliveId] = Nobody /\ OwnOutcome'
    BY <2>1 DEF Owned, OwnOutcome
  <2>3. ASSUME NEW x \in AppIds PROVE Own(x)'
    <3>1. CASE pending[x] # Nobody
      BY <1>6, <2>1, <3>1
    <3>2. CASE pending[x] = Nobody
      <4>1. ASSUME state = "up"
            PROVE  native[x] = Nobody /\ \A i \in DOMAIN port' : ~IsResponse(port'[i], x)
        BY <1>4, <3>2, <4>1 DEF Owned, Own
      <4> QED
        BY <1>3, <2>1, <3>2, <4>1 DEF Own
    <3> QED
      BY <3>1, <3>2
  <2> QED
    BY <2>2, <2>3 DEF Owned
<1> QED
  BY <1>7, <1>8

LEMMA OwnStep ==
  ASSUME \A c \in AppCmds : id_of(c) # KeepAliveId
  PROVE  CameraInv /\ Owned /\ [Next]_cameraVars => Owned'
<1> SUFFICES ASSUME CameraInv, Owned, [Next]_cameraVars PROVE Owned'
  OBVIOUS
<1>0. CameraTypes /\ Control
  BY DEF CameraInv
<1>1. ASSUME NEW c \in AppCmds, Send(c) PROVE Owned'
  BY <1>0, <1>1, OwnSent
<1>2. ASSUME NEW id \in Ids, Transmit(id) PROVE Owned'
  <2>1. Write(id) \in Messages /\ \A x : ~IsResponse(Write(id), x)
    BY WriteFacts DEF IsResponse
  <2> QED
    BY <1>0, <1>2, <2>1, OwnPosted DEF Transmit, flow
<1>3. ASSUME NEW id \in Ids, TimeOut(id) PROVE Owned'
  BY <1>0, <1>3, OwnSettled, OutcomesUsed DEF TimeOut, flow
<1>4. ASSUME NEW id \in Ids, Reply(id) PROVE Owned'
  <2>1. CASE id \in sent
    <3>1. native[id] # Nobody
      BY <1>0, <2>1 DEF CameraTypes, outstanding
    <3> QED
      BY <1>0, <1>4, <2>1, <3>1, OwnSettled, OutcomesUsed DEF Reply, flow
  <2>2. CASE id \notin sent
    BY <1>4, <2>2, OwnKept DEF Reply, flow, session
  <2> QED
    BY <2>1, <2>2
<1>5. CASE KeepAlive
  <2>1. UNCHANGED futures /\ state' = state /\ submit(KeepAliveId, KaTicket)
    BY <1>5 DEF KeepAlive, flow
  <2>2. CASE accepts(KeepAliveId)
    <3>1. port' = port /\ native' = [native EXCEPT ![KeepAliveId] = KaTicket]
      BY <2>1, <2>2 DEF submit
    <3>2. \A x \in AppIds : native'[x] = native[x]
      BY <1>0, <3>1 DEF CameraTypes, AppIds
    <3> QED
      BY <2>1, <3>1, <3>2, OwnKept
  <2>3. CASE ~accepts(KeepAliveId)
    <3> DEFINE m == Response(KeepAliveId, KaTicket, "kRejected")
    <3>1. native' = native /\ port' = Append(port, m)
      BY <2>1, <2>3 DEF submit
    <3>2. m \in Messages /\ \A x : IsResponse(m, x) <=> x = KeepAliveId
      BY ResponseIs, OutcomesUsed, IdsOfCommands, Numbers
    <3> HIDE DEF m
    <3> QED
      BY <1>0, <2>1, <3>1, <3>2, OwnPosted DEF AppIds
  <2> QED
    BY <2>2, <2>3
<1>6. CASE OnEvent
  BY <1>0, <1>6, OwnCompleted
<1>7. ASSUME NEW n \in Notices, Notify(n) PROVE Owned'
  <2>1. Notice(n) \in Messages /\ \A x : ~IsResponse(Notice(n), x)
    BY NoticeFacts DEF IsResponse
  <2> QED
    BY <1>0, <1>7, <2>1, OwnPosted DEF Notify, flow, session
<1>8. CASE LinkDrop
  BY <1>8, OwnKept DEF LinkDrop, flow, session
<1>9. CASE OnDrop
  <2>1. CASE reconnect
    BY <1>0, <1>9, <2>1, OwnDisconnected DEF OnDrop
  <2>2. CASE ~reconnect
    BY <1>9, <2>2, OwnKept DEF OnDrop, startClose, session
  <2> QED
    BY <2>1, <2>2
<1>10. CASE DropDetach
  <2>1. state' # "up"
    BY <1>0, <1>10 DEF DropDetach, Control, Phases
  <2>2. CASE attached
    BY <1>0, <1>10, <2>1, <2>2, OwnResolved DEF DropDetach
  <2>3. CASE ~attached
    BY <1>10, <2>1, <2>3, OwnKept DEF DropDetach, session
  <2> QED
    BY <2>2, <2>3
<1>11. CASE BringUp
  BY <1>11, OwnKept DEF BringUp, session
<1>12. CASE Attach
  <2>1. ~usable
    BY <1>0, <1>12 DEF Attach, usable, Control, Settled
  <2> QED
    BY <1>12, <2>1, OwnKept DEF Attach
<1>13. CASE Caught
  BY <1>13, OwnKept DEF Caught, startClose, session
<1>14. CASE Close
  BY <1>14, OwnKept DEF Close, startClose, session
<1>15. CASE CloseWatched
  <2>1. state' # "up"
    BY <1>0, <1>15 DEF CloseWatched, Control, Phases
  <2> QED
    BY <1>0, <1>15, <2>1, OwnDisconnected DEF CloseWatched
<1>16. CASE CloseDetach
  BY <1>16, OwnKept DEF CloseDetach, session
<1>17. CASE CloseDelay
  <2>1. Turn \in Messages /\ \A x : ~IsResponse(Turn, x)
    BY DEF Messages, IsResponse
  <2> QED
    BY <1>0, <1>17, <2>1, OwnPosted DEF CloseDelay, session
<1>18. CASE CloseRelease
  <2>1. state' # "up"
    BY <1>0, <1>18 DEF CloseRelease, Control, Phases
  <2> QED
    BY <1>0, <1>18, <2>1, OwnResolved DEF CloseRelease
<1>19. CASE CloseStreams
  BY <1>19, OwnKept DEF CloseStreams, session
<1>20. CASE UNCHANGED cameraVars
  BY <1>20, OwnKept DEF cameraVars, futures
<1> QED
  BY <1>1, <1>2, <1>3, <1>4, <1>5, <1>6, <1>7, <1>8, <1>9, <1>10, <1>11, <1>12, <1>13, <1>14,
     <1>15, <1>16, <1>17, <1>18, <1>19, <1>20 DEF Next, CloseStep, DropStep

LEMMA OwnInit ==
  ASSUME \A c \in AppCmds : id_of(c) # KeepAliveId
  PROVE  Init => Owned
<1> SUFFICES ASSUME Init PROVE Owned
  OBVIOUS
<1>1. QueryId \in Ids /\ QueryId # KeepAliveId /\ KeepAliveId \in Ids
  BY IdsOfCommands
<1>2. /\ pending = [id \in Ids |-> IF id = QueryId THEN 1 ELSE Nobody] /\ native = pending
      /\ DOMAIN port = {} /\ \A t \in Tickets : result[t].by = Nobody
  BY DEF Init
<1>3. pending[KeepAliveId] = Nobody
  BY <1>1, <1>2
<1>4. \A id \in AppIds : Own(id)
  BY <1>2 DEF Own
<1>5. OwnOutcome
  BY <1>2 DEF OwnOutcome
<1> QED
  BY <1>3, <1>4, <1>5 DEF Owned

\* A future is completed with the outcome of its own submission and never with
\* that of an earlier one, if no command of the application has the id of the
\* keep-alive (a write of setting 91, which shares its outcomes: see README).
THEOREM OwnOutcomeHolds ==
  ASSUME \A c \in AppCmds : id_of(c) # KeepAliveId
  PROVE  Spec => []OwnOutcome
<1>1. Init => Owned
  BY OwnInit
<1>2. CameraInv /\ Owned /\ [Next]_cameraVars => Owned'
  BY OwnStep
<1>3. Owned => OwnOutcome
  BY DEF Owned
<1> QED
  BY <1>1, <1>2, <1>3, CameraInvariant, PTL DEF Spec

==============================================================================
