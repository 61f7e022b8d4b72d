------------------------------ MODULE PbDecode ------------------------------
(***************************************************************************)
(* The decoder of nanopb (pb_decode.c).  An input stream reads src from at *)
(* on and may take left more bytes; a substream is the same buffer with a  *)
(* smaller left.  A reading operator returns the stream and the value; the *)
(* callback fields of the reader have no function set, as in this program. *)
(***************************************************************************)
EXTENDS PbWire

\* memset to zero of a struct, and of one value of any field
RECURSIVE ZeroStruct(_)
ZeroOf(f) == IF f.type = "submsg" THEN ZeroStruct(f.sub) ELSE ZeroValue(f)
ZeroStruct(desc) ==
  [t \in TagsOf(desc) |-> IF t = 0 THEN 0
                          ELSE LET f == FieldOf(desc, t) IN DefaultOf(f, ZeroOf(f))]

\* callbacks are kept, the contents of fixed arrays and of the union too; the
\* counts and the has flags are reset
RECURSIVE pb_message_set_to_defaults(_, _)
pb_field_set_to_default(f, v) ==
  LET reset(w) == IF f.type = "submsg" THEN pb_message_set_to_defaults(f.sub, w) ELSE ZeroValue(f)
  IN  CASE f.alloc = "callback" \/ f.rule \in {"fixarray", "oneof"} -> v
        [] f.alloc = "static" /\ f.rule = "repeated"                -> <<>>
        [] f.alloc = "static" /\ f.rule = "optional" -> [has |-> FALSE, val |-> reset(v.val)]
        [] f.alloc = "static" /\ f.rule \in {"singular", "required"} -> reset(v)

pb_message_set_to_defaults(desc, m) ==
  [t \in DOMAIN m |-> IF t = 0 THEN 0 ELSE pb_field_set_to_default(FieldOf(desc, t), m[t])]

----------------------------------------------------------------------------
pb_istream_from_buffer(bytes) == [ok |-> TRUE, src |-> bytes, at |-> 0, left |-> Len(bytes)]

Refused(s) == [s EXCEPT !.ok = FALSE]
Got(s, v) == [s |-> s, v |-> v]

\* the mutant: a short read counts as a read
Bugpb_read(s, n) == IF s.left < n THEN [s EXCEPT !.at = @ + s.left, !.left = 0]
                    ELSE [s EXCEPT !.at = @ + n, !.left = @ - n]

pb_read(s, n) == IF ~s.ok \/ s.left < n THEN Refused(s)
                 ELSE [s EXCEPT !.at = @ + n, !.left = @ - n]
Bytes(s, n) == SubSeq(s.src, s.at + 1, s.at + IF n > s.left THEN 0 ELSE n)

\* how many bytes the varint at the head of the stream takes, 0 if it is cut off
VarintLength(s) ==
  LET ends == {k \in 1..s.left : s.src[s.at + k] < 128}
  IN  IF ~s.ok \/ ends = {} THEN 0 ELSE CHOOSE k \in ends : \A j \in ends : k <= j

\* the groups of a varint of n bytes; the tenth holds one bit, the others are lost
GroupsAt(s, n) ==
  [i \in 1..GroupCount |-> IF i > n THEN 0
     ELSE LET b == s.src[s.at + i] % 128 IN IF i = GroupCount THEN b % 2 ELSE b]

VarintOf(s, n) == IF n = 0 \/ n > 10 THEN Got(Refused(s), NoBits)
                  ELSE Got(pb_read(s, n), GroupsAt(s, n))
pb_decode_varint(s) == VarintOf(s, VarintLength(s))

\* a 32-bit varint: more than five bytes must be padding or a sign extension
Varint32Of(s, n) ==
  LET byte(i)  == s.src[s.at + i]
      negative == n >= 5 /\ (byte(5) % 16) >= 8
      extension(i) == byte(i) % 128 = 0 \/ (negative /\ byte(i) = IF i < 10 THEN 255 ELSE 1)
  IN  IF \/ n = 0 \/ n > 10
         \/ n = 5 /\ byte(5) >= 16
         \/ \E i \in 6..n : ~extension(i)
      THEN Got(Refused(s), 0)
      ELSE Got(pb_read(s, n), Number(Low32(GroupsAt(s, n))))
pb_decode_varint32(s) == Varint32Of(s, VarintLength(s))

UnZigZag(r) == Got(r.s, IF r.v[1] % 2 = 1 THEN Complement(Halved(r.v)) ELSE Halved(r.v))
pb_decode_svarint(s) == UnZigZag(pb_decode_varint(s))

\* the key of a field
KeyOf(r) == [s |-> r.s, tag |-> r.v \div 8, wt |-> r.v % 8]
pb_decode_tag(s) == KeyOf(pb_decode_varint32(s))

pb_skip_varint(s) == IF VarintLength(s) = 0 THEN Refused(s) ELSE pb_read(s, VarintLength(s))
pb_skip_string(s) == LET r == pb_decode_varint32(s) IN pb_read(r.s, r.v)

pb_skip_field(s, wt) == CASE wt = WT_VARINT -> pb_skip_varint(s)
                          [] wt = WT_64BIT  -> pb_read(s, 8)
                          [] wt = WT_32BIT  -> pb_read(s, 4)
                          [] wt = WT_STRING -> pb_skip_string(s)
                          [] OTHER          -> Refused(s)

\* a scalar copied out for a callback: a buffer of ten bytes, no strings
read_raw_value(s, wt) ==
  IF wt = WT_STRING \/ (wt = WT_VARINT /\ VarintLength(s) > 10) THEN Refused(s)
  ELSE pb_skip_field(s, wt)

\* length-delimited contents as a stream of their own ([s |-> parent, sub |-> substream])
Divided(r) == IF ~r.s.ok \/ r.s.left < r.v THEN [s |-> Refused(r.s), sub |-> Refused(r.s)]
              ELSE [s |-> [r.s EXCEPT !.left = @ - r.v], sub |-> [r.s EXCEPT !.left = r.v]]
pb_make_string_substream(s) == Divided(pb_decode_varint32(s))

\* what the substream left unread is skipped
pb_close_string_substream(s, sub) == [s EXCEPT !.at = sub.at + sub.left]
\* o the two streams, r what was decoded from the substream, old what there was
Rejoined(o, r, old) ==
  IF ~o.s.ok THEN Got(o.s, old)
  ELSE Got(IF r.s.ok THEN pb_close_string_substream(o.s, r.s) ELSE Refused(o.s), r.v)

----------------------------------------------------------------------------
pb_dec_bool(s) == LET r == pb_decode_varint32(s) IN Got(r.s, r.v # 0)
pb_decode_fixed32(s) == Got(pb_read(s, 4), Bytes(s, 4))
pb_decode_fixed64(s) == Got(pb_read(s, 8), Bytes(s, 8))

\* a signed field keeps the low word; the others must fit
Cast(r, f) ==
  LET cast == IF f.size = 8 THEN r.v ELSE IF f.type = "uvarint" THEN Low32(r.v) ELSE Int32(r.v)
  IN  Got(IF f.type # "varint" /\ cast # r.v THEN Refused(r.s) ELSE r.s, cast)
pb_dec_varint(s, f) ==
  Cast(IF f.type = "svarint" THEN pb_decode_svarint(s) ELSE pb_decode_varint(s), f)

DecodeScalar(s, f) == CASE f.type = "bool"    -> pb_dec_bool(s)
                        [] f.type = "fixed32" -> pb_decode_fixed32(s)
                        [] f.type = "fixed64" -> pb_decode_fixed64(s)
                        [] f.type \in {"varint", "uvarint", "svarint"} -> pb_dec_varint(s, f)

\* the contents of a string whose length fits, else an error
Fitting(r, f, lengths) ==
  IF ~r.s.ok \/ r.v \notin lengths \/ r.s.left < r.v THEN Got(Refused(r.s), ZeroOf(f))
  ELSE Got(pb_read(r.s, r.v), Bytes(r.s, r.v))
Contents(s, f, lengths) == Fitting(pb_decode_varint32(s), f, lengths)

pb_dec_bytes(s, f) == Contents(s, f, 0..(f.size - 2))
pb_dec_string(s, f) == Contents(s, f, 0..(f.size - 1))
\* none at all stands for all zeros
pb_dec_fixed_length_bytes(s, f) ==
  LET r == Contents(s, f, {0, f.size})
  IN  Got(r.s, IF r.v = <<>> THEN ZeroOf(f) ELSE r.v)

RECURSIVE DecodeFields(_, _, _, _, _)

\* the fixed-count array being filled: none yet
NoFixed == [tag |-> 0, count |-> 0, total |-> 0]

pb_decode_inner(s, desc, m, noinit, zeroends) ==
  DecodeFields([s |-> s, v |-> IF noinit THEN m ELSE pb_message_set_to_defaults(desc, m)],
               desc, {}, NoFixed, zeroends)

\* a static submessage is not reset again: a second occurrence is merged into it
pb_dec_submessage(s, f, old) ==
  LET within(o) ==
        Rejoined(o, pb_decode_inner(o.sub, f.sub, old, f.rule \notin {"repeated", "fixarray"}, FALSE),
                 old)
  IN  within(pb_make_string_substream(s))

decode_basic_field(s, wt, f, old, packed) ==
  IF ~packed /\ wt # WireTypeOf(f.type) THEN Got(Refused(s), old)
  ELSE IF f.type \in Packable THEN DecodeScalar(s, f)
  ELSE CASE f.type = "submsg"     -> pb_dec_submessage(s, f, old)
         [] f.type = "bytes"      -> pb_dec_bytes(s, f)
         [] f.type = "string"     -> pb_dec_string(s, f)
         [] f.type = "fixedbytes" -> pb_dec_fixed_length_bytes(s, f)

\* the elements of a packed array, as long as there is room for one more
RECURSIVE Unpack(_, _, _)
Unpack(s, f, seq) ==
  LET further(r) == Unpack(r.s, f, IF r.s.ok THEN Append(seq, r.v) ELSE seq)
  IN  IF ~s.ok \/ s.left = 0 \/ Len(seq) >= f.max THEN Got(s, seq)
      ELSE further(DecodeScalar(s, f))

DecodeRepeated(s, wt, f, seq) ==
  LET unpacked(o, u) == IF ~o.s.ok \/ ~u.s.ok \/ u.s.left # 0 THEN Got(Refused(s), u.v)
                        ELSE Got(pb_close_string_substream(o.s, u.s), u.v)
      packed(o)   == unpacked(o, Unpack(o.sub, f, seq))
      appended(r) == Got(r.s, Append(seq, r.v))
  IN  IF wt = WT_STRING /\ f.type \in Packable THEN packed(pb_make_string_substream(s))
      ELSE IF Len(seq) >= f.max THEN Got(Refused(s), seq)
      ELSE appended(decode_basic_field(s, wt, f, ZeroOf(f), FALSE))

\* the callback is called, reads nothing, and the rest of the field is skipped
decode_callback_field(s, wt) ==
  LET skipped(o) == IF ~o.s.ok THEN o.s ELSE pb_close_string_substream(o.s, o.sub)
  IN  IF wt # WT_STRING THEN read_raw_value(s, wt) ELSE skipped(pb_make_string_substream(s))

\* the stream, and the struct with the field decoded into it
decode_static_field(s, wt, f, m) ==
  LET old == CASE f.rule = "optional" -> m[f.tag].val
               \* a submessage that was not the one set before starts from its defaults
               [] f.rule = "oneof" -> IF m[0] # f.tag /\ f.type = "submsg" THEN ZeroOf(f)
                                      ELSE m[f.tag]
               [] OTHER -> m[f.tag]
      stored(r) ==
        Got(r.s, CASE f.rule = "optional" -> [m EXCEPT ![f.tag] = [has |-> TRUE, val |-> r.v]]
                   [] f.rule = "oneof"    -> [m EXCEPT ![0] = f.tag, ![f.tag] = r.v]
                   [] OTHER               -> [m EXCEPT ![f.tag] = r.v])
  IN  stored(IF f.rule \in {"repeated", "fixarray"} THEN DecodeRepeated(s, wt, f, old)
             ELSE decode_basic_field(s, wt, f, old, FALSE))

decode_field(s, wt, f, m) == IF f.alloc = "callback" THEN Got(decode_callback_field(s, wt), m)
                             ELSE decode_static_field(s, wt, f, m)

\* the loop of pb_decode_inner: st holds the stream and the struct, seen the
\* required fields met, fixed the fixed-count array being filled; an unknown
\* field is skipped
DecodeFields(st, desc, seen, fixed, zeroends) ==
  LET short   == fixed.tag # 0 /\ fixed.count # fixed.total
      missing == \E j \in DOMAIN desc : desc[j].rule = "required" /\ desc[j].tag \notin seen
      ended(s) == Got(IF short \/ missing THEN Refused(s) ELSE s, st.v)
      known(k, f) ==
        LET isFixed == f.rule = "fixarray" /\ f.alloc = "static"
            anew    == isFixed /\ fixed.tag # f.tag
            filled(d) == IF ~isFixed THEN fixed
                         ELSE [tag |-> f.tag, count |-> Len(d.v[f.tag]), total |-> f.max]
            onward(d) == DecodeFields(d, desc, seen \union {f.tag}, filled(d), zeroends)
        IN  IF anew /\ short THEN Got(Refused(st.s), st.v)
            ELSE onward(decode_field(k.s, k.wt, f, IF anew THEN [st.v EXCEPT ![f.tag] = <<>>] ELSE st.v))
      field(k, i) ==
        CASE ~k.s.ok \/ (k.tag = 0 /\ ~zeroends) -> Got(Refused(st.s), st.v)
          [] k.s.ok /\ k.tag = 0 /\ zeroends     -> ended(k.s)
          [] k.s.ok /\ k.tag # 0 /\ i # 0        -> known(k, desc[i])
          [] k.s.ok /\ k.tag # 0 /\ i = 0 ->
               DecodeFields(Got(pb_skip_field(k.s, k.wt), st.v), desc, seen, fixed, zeroends)
      next(k) == field(k, pb_field_iter_find(desc, k.tag))
  IN  IF ~st.s.ok THEN st ELSE IF st.s.left = 0 THEN ended(st.s) ELSE next(pb_decode_tag(st.s))

pb_decode_ex(s, desc, m, mode) ==
  LET within(o) == Rejoined(o, pb_decode_inner(o.sub, desc, m, FALSE, FALSE), m)
  IN  IF mode = "delimited" THEN within(pb_make_string_substream(s))
      ELSE pb_decode_inner(s, desc, m, FALSE, mode = "nullterminated")
=============================================================================
