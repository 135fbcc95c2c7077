------------------------------ MODULE BleWire ------------------------------
(***************************************************************************)
(* What the BLE session writes and reads as numbers and bytes: correlation *)
(* ids (ble_session.h), query responses (query_parser.cpp) and the events  *)
(* that ble_bridge.cpp posts and lib/src/ffi/ble_codec.dart decodes.       *)
(*                                                                         *)
(* A byte is a number below 256, a byte string a sequence.                 *)
(***************************************************************************)
EXTENDS Integers, Sequences

-----------------------------------------------------------------------------
(* Correlation ids. *)

\* Channel.
kCommand  == 0
kSettings == 1
kQuery    == 2
kNetwork  == 3
kChannelCount == 4

correlation_of(channel, leading_byte) == channel * 2^8 + leading_byte

kProtobufCorrelationBit == 2^24

protobuf_response_action(request) == IF request < 128 THEN request + 128 ELSE request

wide_id(channel, feature, action) ==
  kProtobufCorrelationBit + channel * 2^16 + feature * 2^8 + action

\* Mutant: a protobuf command is known by its leading byte, as others are.
correlation_of_protobuf_leading(channel, feature_id, request_action_id) ==
  correlation_of(channel, feature_id)

correlation_of_protobuf(channel, feature_id, request_action_id) ==
  wide_id(channel, feature_id, protobuf_response_action(request_action_id))

channel_of_correlation(id) ==
  IF id >= kProtobufCorrelationBit THEN (id \div 2^16) % 256 ELSE (id \div 2^8) % 256

\* A command as it is submitted: its channel, its payload (a protobuf one's
\* begins with the feature and the action) and which form of submit() it takes.
Command(channel, payload, protobuf) ==
  [channel |-> channel, payload |-> payload, protobuf |-> protobuf]

\* send() throws on an empty payload; sendProtobuf() prepends two bytes.
Byte    == 0..255
Channel == 0..(kChannelCount - 1)
Commands ==
  {c \in [channel : Channel, payload : Seq(Byte), protobuf : BOOLEAN] :
     Len(c.payload) >= IF c.protobuf THEN 2 ELSE 1}

\* The id that submit() and submit_protobuf() queue a command under.
id_of(c) ==
  IF c.protobuf THEN correlation_of_protobuf(c.channel, c.payload[1], c.payload[2])
                ELSE correlation_of(c.channel, c.payload[1])

\* keep_alive_payload(): setting 91, one byte, value 66.
keep_alive_payload == <<91, 1, 66>>

\* The two ids a message may answer; a message of one byte has no wide id.
correlation_of_message(channel, msg) ==
  correlation_of(channel, IF msg = <<>> THEN 0 ELSE msg[1])

protobuf_correlation_of_message(channel, msg) == wide_id(channel, msg[1], msg[2])

-----------------------------------------------------------------------------
(* parse_query() and QueryResponse. *)

kStatusBusy == 8
kStatusEncoding == 10
StatusCmds == {19, 83, 115, 147}   \* kGetStatusVal .. kStatusValPush

\* Entries [id][len][value] from the third byte on, up to a trailing byte or
\* to one whose length runs past the end, which keeps those before it.
entries(msg) ==
  LET from[i \in 3..(Len(msg) + 1)] ==
        IF i >= Len(msg) THEN [result |-> "kOk", list |-> <<>>]
        ELSE IF i + 1 + msg[i + 1] > Len(msg)
        THEN [result |-> "kTruncatedTlv", list |-> <<>>]
        ELSE LET rest == from[i + 2 + msg[i + 1]]
             IN  [result |-> rest.result,
                  list |-> <<[id |-> msg[i],
                              value |-> SubSeq(msg, i + 2, i + 1 + msg[i + 1])]>> \o rest.list]
  IN  from[3]

parse_query(msg) ==
  IF Len(msg) < 2 THEN [result |-> "kTooShort", list |-> <<>>] ELSE entries(msg)

\* The value of the first entry with the id; an empty one if there is none.
find(list, id) ==
  IF \E i \in DOMAIN list : list[i].id = id
  THEN list[CHOOSE i \in DOMAIN list :
              list[i].id = id /\ \A j \in 1..(i - 1) : list[j].id # id].value
  ELSE <<>>

\* as_bool() reads a big-endian number; more than eight bytes are none.
as_bool(value) == Len(value) <= 8 /\ \E i \in DOMAIN value : value[i] # 0

reported(list, id) ==
  LET value == find(list, id)
  IN  IF value = <<>> THEN "none" ELSE IF as_bool(value) THEN "yes" ELSE "no"

is_status(msg) == msg[1] \in StatusCmds

\* What deliver() folds into the ready state: the BUSY and ENCODING entries of
\* a status message that parses; "none" where it says nothing.
status_update(msg) ==
  LET parsed == parse_query(msg)
  IN  IF parsed.result = "kOk" /\ is_status(msg)
      THEN [busy |-> reported(parsed.list, kStatusBusy),
            encoding |-> reported(parsed.list, kStatusEncoding)]
      ELSE [busy |-> "none", encoding |-> "none"]

-----------------------------------------------------------------------------
(* Events, as the bridge writes them. *)

kGoProBleWrite      == 16
kGoProBleResponse   == 17
kGoProBleReady      == 18
kGoProBlePush       == 19
kGoProBleFrameError == 20

kOutcomes == <<"kResponded", "kTimedOut", "kCanceled", "kRejected">>
kFeedResults == <<"kNeedMore", "kComplete", "kEmptyPacket", "kTruncatedHdr",
                  "kReservedHdr", "kStrayCont", "kOverflow", "kZeroLength">>
ordinal(value, names) == (CHOOSE i \in DOMAIN names : names[i] = value) - 1

\* Mutant: most significant byte first.
append_u64_big(v) == [i \in 1..8 |-> IF i < 5 THEN 0 ELSE (v \div 256^(8 - i)) % 256]

\* Little-endian; an id has 25 bits, so the upper half is zero.
append_u64(v) == [i \in 1..8 |-> IF i > 4 THEN 0 ELSE (v \div 256^(i - 1)) % 256]

write_event(channel, bytes) == <<kGoProBleWrite, channel>> \o bytes
response_event(id, outcome, bytes) ==
  <<kGoProBleResponse>> \o append_u64(id) \o <<ordinal(outcome, kOutcomes)>> \o bytes
ready_event(ready) == <<kGoProBleReady, IF ready THEN 1 ELSE 0>>
push_event(channel, bytes) == <<kGoProBlePush, channel>> \o bytes
frame_event(channel, result) ==
  <<kGoProBleFrameError, channel, ordinal(result, kFeedResults)>>

-----------------------------------------------------------------------------
(* Events, as BleCodec reads them. *)

BleOutcomes == <<"responded", "timedOut", "canceled", "rejected">>
BleFrameErrors == <<"needMore", "complete", "emptyPacket", "truncatedHeader",
                    "reservedHeader", "strayContinuation", "overflow", "zeroLength">>

getUint64(data, at) ==
  data[at] + data[at + 1] * 2^8 + data[at + 2] * 2^16 + data[at + 3] * 2^24

Null == [kind |-> "null"]
rest_from(data, at) == SubSeq(data, at, Len(data))
is_channel(data) == Len(data) >= 2 /\ data[2] < kChannelCount

\* BleCodec.decode().
decode(data) ==
  CASE data = <<>> -> Null
    [] data # <<>> /\ data[1] = 16 ->
         IF ~is_channel(data) THEN Null
         ELSE [kind |-> "write", channel |-> data[2], bytes |-> rest_from(data, 3)]
    [] data # <<>> /\ data[1] = 17 ->
         IF Len(data) < 10 \/ data[10] >= Len(BleOutcomes) THEN Null
         ELSE [kind |-> "response", id |-> getUint64(data, 2),
               outcome |-> BleOutcomes[data[10] + 1], bytes |-> rest_from(data, 11)]
    [] data # <<>> /\ data[1] = 18 ->
         IF Len(data) < 2 THEN Null ELSE [kind |-> "ready", ready |-> data[2] # 0]
    [] data # <<>> /\ data[1] = 19 ->
         IF ~is_channel(data) THEN Null
         ELSE [kind |-> "push", channel |-> data[2], bytes |-> rest_from(data, 3)]
    [] data # <<>> /\ data[1] = 20 ->
         IF Len(data) < 3 \/ ~is_channel(data) \/ data[3] >= Len(BleFrameErrors) THEN Null
         ELSE [kind |-> "frame", channel |-> data[2], error |-> BleFrameErrors[data[3] + 1]]
    [] data # <<>> /\ data[1] \notin 16..20 -> Null

\* BleCodec.correlationOf(), the mirror of correlation_of().
correlationOf(channel, leadingByte) == channel * 2^8 + leadingByte

=============================================================================
