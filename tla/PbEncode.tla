------------------------------ MODULE PbEncode ------------------------------
(***************************************************************************)
(* The encoder of nanopb (pb_encode.c).  An output stream is a record: out *)
(* is what the buffer holds so far, written the count the stream keeps,    *)
(* max its limit; a sizing stream (callback NULL) only counts.  A failed   *)
(* call leaves ok FALSE and every caller returns at once.                  *)
(*                                                                         *)
(* The C functions call each other down into submessages.  Here a function *)
(* that meets a submessage is given what encodes one, enc; pb_encode comes *)
(* out of MaxNesting such levels.  A struct is paired with its descriptor. *)
(***************************************************************************)
EXTENDS PbWire

CONSTANTS Kinds,        \* names of the message types
          Desc,         \* the descriptor of each
          Messages,     \* the structs of each that are encoded
          MaxNesting    \* how deep they are nested

\* the values a field holds that is not a callback
Held(f, v) == CASE f.alloc = "callback"                                     -> {}
                [] f.alloc = "static" /\ f.rule = "optional"                 -> IF v.has THEN {v.val} ELSE {}
                [] f.alloc = "static" /\ f.rule \in {"repeated", "fixarray"} -> Range(v)
                [] f.alloc = "static" /\ f.rule \in {"required", "singular", "oneof"} -> {v}

\* the structs directly inside one
Inside(p) ==
  UNION {{<<p[1][i].sub, v>> : v \in Held(p[1][i], p[2][p[1][i].tag])} :
           i \in {i \in DOMAIN p[1] : p[1][i].type = "submsg"}}

Encoded == UNION {{<<Desc[k], m>> : m \in Messages[k]} : k \in Kinds}
InsideAt[n \in 0..MaxNesting] == IF n = 0 THEN Encoded
                                 ELSE UNION {Inside(p) : p \in InsideAt[n - 1]}
Structs == Encoded \union UNION {InsideAt[n] : n \in 1..MaxNesting}

\* one value of a field, as its type has it
FitsType(f, v) ==
  \/ f.type = "bool" /\ v \in BOOLEAN
  \/ f.type \in Varints \ {"bool"} /\ v \in [1..GroupCount -> 0..127]
  \/ f.type \in {"fixed32", "fixed64", "fixedbytes"} /\ v \in Seq(0..255) /\ Len(v) = f.size
  \/ f.type \in {"string", "bytes"} /\ v \in Seq(0..255)
  \/ f.type = "submsg" /\ <<f.sub, v>> \in Structs

\* a callback field: what its function writes on the first pass and on the second
FitsField(f, v) ==
  /\ \/ f.alloc = "callback" /\ v \in Seq(Seq(0..255)) /\ Len(v) \in {0, 2}
     \/ f.alloc = "static" /\ f.rule = "optional" /\ v.has \in BOOLEAN
     \/ f.alloc = "static" /\ f.rule \in {"repeated", "fixarray"} /\ v \in Seq(Range(v))
     \/ f.alloc = "static" /\ f.rule \in {"required", "singular", "oneof"}
  /\ \A w \in Held(f, v) : FitsType(f, w)

\* every struct is what its descriptor says, down to the innermost
ASSUME StructsAssumption ==
  /\ MaxNesting \in Nat
  /\ \A p \in InsideAt[MaxNesting] : Inside(p) = {}
  /\ \A p \in Structs : p[1] \in Seq(Range(p[1]))
  /\ \A p \in Structs : \A i \in DOMAIN p[1] :
       LET f == p[1][i] IN f.tag \in Nat /\ f.max \in Nat /\ FitsField(f, p[2][f.tag])

Streams == [ok : BOOLEAN, out : Seq(0..255), written : Nat, max : Nat, sizing : BOOLEAN]

pb_ostream_from_buffer(bufsize) ==
  [ok |-> TRUE, out |-> <<>>, written |-> 0, max |-> bufsize, sizing |-> FALSE]
PB_OSTREAM_SIZING == [pb_ostream_from_buffer(0) EXCEPT !.sizing = TRUE]

Failed(s) == [s EXCEPT !.ok = FALSE]

\* the mutant: the limit is compared before the bytes are counted
Bugpb_write(s, bytes) ==
  IF ~s.ok \/ s.sizing \/ s.written <= s.max
  THEN [s EXCEPT !.written = @ + Len(bytes),
                 !.out = IF s.sizing THEN @ ELSE @ \o bytes]
  ELSE Failed(s)

pb_write(s, bytes) ==
  IF ~s.ok THEN s
  ELSE IF ~s.sizing /\ bytes # <<>> /\ s.written + Len(bytes) > s.max
       THEN Failed(s)
       ELSE [s EXCEPT !.written = @ + Len(bytes),
                      !.out = IF s.sizing THEN @ ELSE @ \o bytes]

\* pb_write(stream, NULL, size) on a sizing stream
Skip(s, size) == [s EXCEPT !.written = @ + size]

\* one step after the other, until one of them fails
InTurn(steps, s) ==
  LET after[i \in 0..Len(steps)] ==
        IF i = 0 THEN s
        ELSE LET t == after[i - 1] IN IF t.ok THEN steps[i][t] ELSE t
  IN  after[Len(steps)]

\* the mutant: the high word is dropped (PB_WITHOUT_64BIT of a 64-bit value)
Bugpb_encode_varint_32(s, g) ==
  LET top == CHOOSE i \in 1..5 : (i = 1 \/ g[i] # 0) /\ \A j \in (i+1)..5 : g[j] = 0
  IN  pb_write(s, [i \in 1..top |-> g[i] + IF i < top THEN 128 ELSE 0])

\* every group but the last significant one says that another follows
pb_encode_varint_32(s, g) ==
  LET top == CHOOSE i \in 1..GroupCount :
               (i = 1 \/ g[i] # 0) /\ \A j \in (i+1)..GroupCount : g[j] = 0
  IN  pb_write(s, [i \in 1..top |-> g[i] + IF i < top THEN 128 ELSE 0])

\* one byte without the loop when that is enough
pb_encode_varint(s, g) == IF g = Groups(g[1]) THEN pb_write(s, <<g[1]>>)
                          ELSE pb_encode_varint_32(s, g)

\* zigzag: v << 1, complemented when v is negative
pb_encode_svarint(s, g) ==
  pb_encode_varint(s, IF TopBit(g) THEN Complement(Doubled(g)) ELSE Doubled(g))

pb_encode_tag(s, wiretype, tag) == pb_encode_varint(s, Groups(tag * 8 + wiretype))
pb_encode_tag_for_field(s, f) == pb_encode_tag(s, WireTypeOf(f.type), f.tag)
pb_encode_string(s, bytes) == pb_write(pb_encode_varint(s, Groups(Len(bytes))), bytes)

pb_enc_bool(s, v) == pb_encode_varint(s, Groups(IF v THEN 1 ELSE 0))
pb_enc_fixed(s, v) == pb_write(s, v)
pb_enc_varint(s, f, v) == IF f.type = "svarint" THEN pb_encode_svarint(s, v)
                          ELSE pb_encode_varint(s, v)

EncodeScalar(s, f, v) ==
  CASE f.type = "bool"                           -> pb_enc_bool(s, v)
    [] f.type \in {"varint", "uvarint", "svarint"} -> pb_enc_varint(s, f, v)
    [] f.type \in {"fixed32", "fixed64"}         -> pb_enc_fixed(s, v)

\* the bytes array's size field takes two bytes; a string needs room for its end
pb_enc_bytes(s, f, v) == IF Len(v) > f.size - 2 THEN Failed(s) ELSE pb_encode_string(s, v)
pb_enc_string(s, f, v) == IF Len(v) > f.size - 1 THEN Failed(s) ELSE pb_encode_string(s, v)

----------------------------------------------------------------------------
\* In proto3 a field without a has flag is written only when it is not zero; zero
\* says of each struct inside whether it is.
pb_check_proto3_default_value(f, m, zero) ==
  LET v == m[f.tag]
  IN  CASE f.alloc = "callback"               -> v = <<>>
        [] f.rule \in {"required", "fixarray"} -> FALSE
        [] f.rule = "repeated"                -> v = <<>>
        [] f.rule = "oneof"                   -> m[0] = 0
        [] f.rule = "optional"                -> ~v.has
        [] f.type = "fixedbytes"              -> f.size = 0
        [] f.type = "submsg"                  -> zero[<<f.sub, v>>]
        [] OTHER                              -> v = ZeroValue(f)

AllDefault[n \in 0..MaxNesting] ==
  [p \in Structs |-> \/ n = 0
                     \/ \A i \in DOMAIN p[1] :
                          pb_check_proto3_default_value(p[1][i], p[2], AllDefault[n - 1])]
IsZero == AllDefault[MaxNesting]

\* the size is computed by a pass that writes nothing, and held to in the second
pb_encode_submessage(s, p, enc) ==
  LET sized == enc[p][PB_OSTREAM_SIZING]
      held(t, size, sub) ==
        LET done == [sub EXCEPT !.written = t.written + @, !.max = t.max]
        IN  IF sub.written # size THEN Failed(done) ELSE done
      second(t, size) ==
        IF ~t.ok THEN t
        ELSE IF t.sizing THEN Skip(t, size)
        ELSE IF t.written + size > t.max THEN Failed(t)
        ELSE held(t, size, enc[p][[t EXCEPT !.max = size, !.written = 0]])
  IN  IF ~sized.ok THEN Failed(s)
      ELSE second(pb_encode_varint(s, Groups(sized.written)), sized.written)

encode_basic_field(s, f, v, enc) ==
  LET value(t) ==
        IF ~t.ok THEN t
        ELSE CASE f.type \in Packable    -> EncodeScalar(t, f, v)
               [] f.type = "bytes"       -> pb_enc_bytes(t, f, v)
               [] f.type = "string"      -> pb_enc_string(t, f, v)
               [] f.type = "fixedbytes"  -> pb_encode_string(t, v)
               [] f.type = "submsg"      -> pb_encode_submessage(t, <<f.sub, v>>, enc)
  IN  value(pb_encode_tag_for_field(s, f))

\* the elements of an array
EachOf(s, f, seq, packed, enc) ==
  InTurn([i \in 1..Len(seq) |-> [t \in Streams |->
            IF packed THEN EncodeScalar(t, f, seq[i])
            ELSE encode_basic_field(t, f, seq[i], enc)]], s)

encode_array(s, f, seq, enc) ==
  LET elements(t, size) == IF ~t.ok THEN t
                           ELSE IF t.sizing THEN Skip(t, size) ELSE EachOf(t, f, seq, TRUE, enc)
      packed(size) ==
        elements(pb_encode_varint(pb_encode_tag(s, WT_STRING, f.tag), Groups(size)), size)
  IN  IF seq = <<>> THEN s
      ELSE IF Len(seq) > f.max THEN Failed(s)
      ELSE IF f.type \notin Packable THEN EachOf(s, f, seq, FALSE, enc)
      ELSE packed(EachOf(PB_OSTREAM_SIZING, f, seq, TRUE, enc).written)

\* pb_default_field_callback: the application's function, if it set one
encode_callback_field(s, v) ==
  IF v = <<>> THEN s ELSE pb_write(s, IF s.sizing THEN v[1] ELSE v[2])

encode_field(s, f, m, enc) ==
  LET v == m[f.tag]
      absent == \/ f.rule = "oneof" /\ m[0] # f.tag
                \/ f.rule = "optional" /\ f.alloc = "static" /\ ~v.has
                \/ f.rule = "singular" /\ pb_check_proto3_default_value(f, m, IsZero)
  IN  IF absent THEN s
      ELSE IF f.alloc = "callback" THEN encode_callback_field(s, v)
      ELSE IF f.rule \in {"repeated", "fixarray"} THEN encode_array(s, f, v, enc)
      ELSE encode_basic_field(s, f, IF f.rule = "optional" THEN v.val ELSE v, enc)

\* the fields in the order of the descriptor
EncodeFields(s, desc, m, enc) ==
  InTurn([i \in 1..Len(desc) |-> [t \in Streams |-> encode_field(t, desc[i], m, enc)]], s)

\* the encoder of messages nested less than n deep
Encoder[n \in 0..MaxNesting + 1] ==
  [p \in Structs |-> [s \in Streams |->
     IF n = 0 THEN Failed(s) ELSE EncodeFields(s, p[1], p[2], Encoder[n - 1])]]

pb_encode(s, desc, m) == Encoder[MaxNesting + 1][<<desc, m>>][s]

pb_encode_ex(s, desc, m, mode) ==
  CASE mode = "delimited"      -> pb_encode_submessage(s, <<desc, m>>, Encoder[MaxNesting + 1])
    [] mode = "nullterminated" -> pb_write(pb_encode(s, desc, m), <<0>>)
    [] mode = "plain"          -> pb_encode(s, desc, m)

\* the size is what the sizing stream counted, if its ok says so
pb_get_encoded_size(desc, m) == pb_encode(PB_OSTREAM_SIZING, desc, m)
=============================================================================
