----------------------------- MODULE CameraCodec -----------------------------
(***************************************************************************)
(* The bytes in which the USB bridge posts a camera to Dart: the encoding  *)
(* of native/include/glaze_meta.h over the fields that gopro_types.h lists, *)
(* and the reader of lib/src/ffi/codec.dart.                               *)
(*                                                                         *)
(* The two sides list the fields separately and there are no type tags, so *)
(* only the bytes tie them together.  A string is a sequence of bytes.     *)
(***************************************************************************)
EXTENDS GlazeMeta

\* glz::meta<CameraRecord>: the fields and their types, in the order written.
fields == <<
  <<"vid", "uint16">>, <<"pid", "uint16">>, <<"bus", "uint8">>, <<"address", "uint8">>,
  <<"sysfsName", "string">>, <<"serial", "string">>, <<"serialSource", "uint8">>,
  <<"ip", "string">>, <<"netdev", "string">>, <<"netdevFirstSeen", "string">>,
  <<"netdevRenamed", "bool">>, <<"linkState", "string">>, <<"hostIp", "string">>,
  <<"readiness", "uint8">>, <<"hasCdc", "bool">>, <<"elapsedMs", "uint32">> >>

encode(rec) == encode_struct(fields, rec)

\* glz::decode(), with which the bytes can be read natively.
decode(buf, offset) == decode_struct(fields, buf, At(offset))

\* The discriminator byte before every payload.
EventKind == [kSentinel |-> 0, kUpdate |-> 1, kLeft |-> 2]

\* The bytes post() hands to Dart_PostCObject_DL.
post_bytes(kind, rec) ==
  <<EventKind[kind]>> \o (IF kind = "kSentinel" THEN <<>> ELSE encode(rec))

-----------------------------------------------------------------------------
(* GlazeCodec.decodeEvent().  at is the number of bytes consumed. *)

\* Mutant: the fields are read in an order of Dart's own.
read_order_drifted == <<
  <<"vid", "uint16">>, <<"pid", "uint16">>, <<"bus", "uint8">>, <<"address", "uint8">>,
  <<"sysfsName", "string">>, <<"serial", "string">>, <<"serialSource", "uint8">>,
  <<"ip", "string">>, <<"netdevFirstSeen", "string">>, <<"netdev", "string">>,
  <<"netdevRenamed", "bool">>, <<"linkState", "string">>, <<"hostIp", "string">>,
  <<"readiness", "uint8">>, <<"hasCdc", "bool">>, <<"elapsedMs", "uint32">> >>

read_order == <<
  <<"vid", "uint16">>, <<"pid", "uint16">>, <<"bus", "uint8">>, <<"address", "uint8">>,
  <<"sysfsName", "string">>, <<"serial", "string">>, <<"serialSource", "uint8">>,
  <<"ip", "string">>, <<"netdev", "string">>, <<"netdevFirstSeen", "string">>,
  <<"netdevRenamed", "bool">>, <<"linkState", "string">>, <<"hostIp", "string">>,
  <<"readiness", "uint8">>, <<"hasCdc", "bool">>, <<"elapsedMs", "uint32">> >>

width(type) == CASE type \in {"uint8", "bool"} -> 1 [] type = "uint16" -> 2 [] OTHER -> 4

\* One field read at an offset; the bounds checks of the buffer and of
\* readString() throw.
readField(data, r, type) ==
  LET w     == width(type)
      fixed == SubSeq(data, r.at + 1, r.at + w)
      n     == read_bytes(fixed)
      Took(v, k) == [ok |-> TRUE, at |-> r.at + k, value |-> v]
      Throws     == [ok |-> FALSE, at |-> r.at, value |-> 0]
  IN  IF ~r.ok \/ r.at + w > Len(data) THEN Throws
      ELSE CASE type = "bool"   -> Took(n # 0, w)
             [] type = "string" -> IF n > Len(data) - r.at - w THEN Throws
                                   ELSE Took(SubSeq(data, r.at + w + 1, r.at + w + n), w + n)
             [] OTHER           -> Took(n, w)

\* A value no enumerator has is taken for the first.
serialSource(v) == IF v < 3 THEN v ELSE 0
readiness(v) == IF v < 5 THEN v ELSE 0
converted(name, v) == CASE name = "serialSource" -> serialSource(v)
                        [] name = "readiness"    -> readiness(v)
                        [] OTHER                 -> v

\* The fields in read order; bytes left over are not looked at.
readCamera(data, at) ==
  LET upto[n \in 0..Len(read_order)] ==
        IF n = 0 THEN [ok |-> TRUE, at |-> at, rec |-> <<>>]
        ELSE LET before == upto[n - 1]
                 r == readField(data, before, read_order[n][2])
             IN  [ok |-> r.ok, at |-> r.at, rec |-> before.rec
                    @@ (read_order[n][1] :> converted(read_order[n][1], r.value))]
  IN  upto[Len(read_order)]

\* An event of a kind unknown here, and an empty one, are ignored.
decodeEvent(data) ==
  LET kinds == {k \in DOMAIN EventKind : data # <<>> /\ EventKind[k] = data[1]}
      kind  == IF kinds = {} THEN "ignored" ELSE CHOOSE k \in kinds : TRUE
      cam   == IF kind \in {"kUpdate", "kLeft"} THEN readCamera(data, 1)
               ELSE [ok |-> TRUE, at |-> 1, rec |-> <<>>]
  IN  [kind |-> kind, ok |-> cam.ok, rec |-> cam.rec]

=============================================================================
