------------------------------ MODULE GlazeMeta ------------------------------
(***************************************************************************)
(* The encoding of native/include/glaze_meta.h: fields in the order in     *)
(* which glz::meta lists them, little-endian, no type tags, a uint32       *)
(* length or count before strings, vectors and maps.                       *)
(*                                                                         *)
(* A string is a sequence of bytes.  A type is known by its name; fields   *)
(* is a sequence of pairs of a name and a type, an object a record.        *)
(***************************************************************************)
EXTENDS Integers, Sequences, SequencesExt

-----------------------------------------------------------------------------
(* Encoding. *)

\* An integer of w bytes, by its remainder modulo 256^w.
write_bytes(n, w) ==
  LET left[i \in 0..w] == IF i = 0 THEN n ELSE left[i - 1] \div 256
  IN  [i \in 1..w |-> left[i - 1] % 256]

size(type) == CASE type \in {"uint8", "bool"}   -> 1
                [] type \in {"int16", "uint16"} -> 2
                [] type = "uint32"              -> 4
                [] type = "uint64"              -> 8

encode_length(n) == write_bytes(n, 4)
encode_string(s) == encode_length(Len(s)) \o s

\* A count and the encoded elements.
encode_vector(items) == encode_length(Len(items)) \o FlattenSeq(items)

\* std::map is iterated in the order of its keys.
key_order(s, t) ==
  \/ s # t /\ IsPrefix(s, t)
  \/ \E i \in DOMAIN s \cap DOMAIN t :
       s[i] < t[i] /\ \A j \in 1..i - 1 : s[j] = t[j]
encode_map(m) ==
  LET keys == SetToSortSeq(DOMAIN m, key_order)
  IN  encode_vector([i \in DOMAIN keys |-> encode_string(keys[i]) \o encode_string(m[keys[i]])])

encode_field(type, v) ==
  CASE type = "bool"    -> <<IF v THEN 1 ELSE 0>>
    [] type \in {"string", "bytes"} -> encode_string(v)
    [] type = "strings" -> encode_vector([i \in DOMAIN v |-> encode_string(v[i])])
    [] type = "map"     -> encode_map(v)
    [] OTHER            -> write_bytes(v, size(type))

encode_struct(fields, obj) ==
  FlattenSeq([n \in DOMAIN fields |-> encode_field(fields[n][2], obj[fields[n][1]])])

\* A vector of structs.
encode_structs(fields, v) == encode_vector([i \in DOMAIN v |-> encode_struct(fields, v[i])])

-----------------------------------------------------------------------------
(* Decoding.  A reader r is the offset reached, the value read last and     *)
(* whether bytes outside the buffer have been read: nothing checks that.    *)

At(offset) == [at |-> offset, value |-> <<>>, wild |-> FALSE]

\* n bytes, of which those outside the buffer may be anything.
take_bytes(buf, r, n) ==
  LET beyond == n > Len(buf) - r.at
  IN  [at |-> r.at + n, wild |-> r.wild \/ beyond,
       value |-> SubSeq(buf, r.at + 1, IF beyond THEN Len(buf) ELSE r.at + n)]

\* What a sequence of bytes stands for.
read_bytes(b) ==
  LET value[i \in 1..Len(b) + 1] == IF i > Len(b) THEN 0 ELSE b[i] + 256 * value[i + 1]
  IN  value[1]

signed(n) == IF n >= 2^15 THEN n - 2^16 ELSE n

\* What was read, as a value of the type.
scalar(type, n) == CASE type = "bool"  -> n # 0
                     [] type = "int16" -> signed(n)
                     [] OTHER          -> n
decode_scalar(buf, r, type) ==
  [take_bytes(buf, r, size(type)) EXCEPT !.value = scalar(type, read_bytes(@))]

decode_length(buf, r) == decode_scalar(buf, r, "uint32")

\* The bytes that a length announces.
prefixed(buf, len) == take_bytes(buf, len, len.value)
decode_string(buf, r) == prefixed(buf, decode_length(buf, r))

\* count elements, one after the other; item gives the one at an offset.  Every
\* element has at least one byte.
elements(item, buf, count) ==
  LET upto[n \in 0..count.value] ==
        IF n = 0 THEN [count EXCEPT !.value = <<>>]
        ELSE LET prior == upto[n - 1]
             IN  IF prior.wild THEN prior
                 ELSE [item[prior.at] EXCEPT !.value = Append(prior.value, @)]
  IN  IF count.wild \/ count.value > Len(buf) - count.at THEN [count EXCEPT !.wild = TRUE]
      ELSE upto[count.value]
decode_vector(item, buf, r) == elements(item, buf, decode_length(buf, r))
strings_at(buf) == [at \in 0..Len(buf) |-> decode_string(buf, At(at))]

\* A key with its value; of two equal keys the later one counts.
keyed(buf, key) == [decode_string(buf, key) EXCEPT !.value = <<key.value, @>>]
decode_pair(buf, r) == keyed(buf, decode_string(buf, r))
as_map(pairs) ==
  LET last(k) == CHOOSE i \in DOMAIN pairs.value :
                   /\ pairs.value[i][1] = k
                   /\ \A j \in DOMAIN pairs.value : pairs.value[j][1] = k => j <= i
  IN  IF pairs.wild THEN pairs
      ELSE [pairs EXCEPT !.value = [k \in {@[i][1] : i \in DOMAIN @} |-> @[last(k)][2]]]
decode_map(buf, r) ==
  as_map(decode_vector([at \in 0..Len(buf) |-> decode_pair(buf, At(at))], buf, r))

decode_field(buf, r, type) ==
  CASE type \in {"string", "bytes"} -> decode_string(buf, r)
    [] type = "strings" -> decode_vector(strings_at(buf), buf, r)
    [] type = "map"     -> decode_map(buf, r)
    [] OTHER            -> decode_scalar(buf, r, type)

\* The fields in their order, each where the one before it ended.
with_field(buf, prior, field) ==
  [decode_field(buf, prior, field[2]) EXCEPT !.value = prior.value @@ (field[1] :> @)]
decode_struct(fields, buf, r) ==
  LET upto[n \in 0..Len(fields)] ==
        IF n = 0 THEN [r EXCEPT !.value = <<>>]
        ELSE with_field(buf, upto[n - 1], fields[n])
  IN  upto[Len(fields)]

decode_structs(fields, buf, r) ==
  decode_vector([at \in 0..Len(buf) |-> decode_struct(fields, buf, At(at))], buf, r)

=============================================================================
