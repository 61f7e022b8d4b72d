------------------------------- MODULE PbWire -------------------------------
(***************************************************************************)
(* What both halves of nanopb share (pb.h, pb_common.c): the description   *)
(* of a message type, the wire types, and a 64-bit integer as the ten      *)
(* 7-bit groups its varint is made of, least significant first (the last   *)
(* group holds one bit), so that no width is lost.                         *)
(*                                                                         *)
(* A descriptor is the sequence of its fields in tag order.  A struct is a *)
(* function from tags to contents: a value for "required", "singular" and  *)
(* "oneof", [has, val] for "optional", a sequence for "repeated" and       *)
(* "fixarray"; tag 0 holds which member of the oneof is set (0 for none).  *)
(* A callback field holds <<>> when the application set no function, else  *)
(* the bytes its function writes when called on a sizing stream and when   *)
(* called again to write.  Left out: pointer fields (PB_ENABLE_MALLOC is   *)
(* not defined), extensions and proto2 defaults (no message here has any). *)
(***************************************************************************)
EXTENDS Integers, Sequences, SequencesExt

Field(tag, rule, type, size, max, sub, alloc) ==
  [tag |-> tag, rule |-> rule, type |-> type, size |-> size, max |-> max,
   sub |-> sub, alloc |-> alloc]

Varints == {"bool", "varint", "uvarint", "svarint"}
Packable == Varints \union {"fixed32", "fixed64"}

WT_VARINT == 0
WT_64BIT == 1
WT_STRING == 2
WT_32BIT == 5

\* pb_encode_tag_for_field and the checks of decode_basic_field
WireTypeOf(type) == CASE type \in Varints   -> WT_VARINT
                      [] type = "fixed32"   -> WT_32BIT
                      [] type = "fixed64"   -> WT_64BIT
                      [] OTHER              -> WT_STRING

\* pb_field_iter_find: the circular walk over the field table reaches every
\* field, whichever it starts from; 0 when there is none with that tag
pb_field_iter_find(desc, tag) ==
  LET hits == {i \in DOMAIN desc : desc[i].tag = tag}
  IN  IF hits = {} THEN 0 ELSE CHOOSE i \in hits : TRUE

----------------------------------------------------------------------------
GroupCount == 10
NoBits == [i \in 1..GroupCount |-> 0]
AllBits == [i \in 1..GroupCount |-> IF i = GroupCount THEN 1 ELSE 127]

\* an unsigned integer of 32 bits
Groups(n) == [NoBits EXCEPT ![1] = n % 128, ![2] = (n \div 128) % 128,
                            ![3] = (n \div 16384) % 128, ![4] = (n \div 2097152) % 128,
                            ![5] = (n \div 268435456) % 16]
Huge == 2097152

\* a group sequence read back: from 2^21 on, only the low three bits (the wire
\* type of a key) matter, since no tag and no length is that large
Number(g) == IF \A i \in 4..GroupCount : g[i] = 0
             THEN g[1] + 128 * g[2] + 16384 * g[3]
             ELSE Huge + (g[1] % 8)

Complement(g) == [i \in 1..GroupCount |-> AllBits[i] - g[i]]
TopBit(g) == g[GroupCount] = 1
\* v << 1 and v >> 1 on 64 bits, without the sign
Doubled(g) == [i \in 1..GroupCount |->
                 ((2 * g[i]) % (AllBits[i] + 1)) + (IF i = 1 THEN 0 ELSE g[i - 1] \div 64)]
Halved(g) == [i \in 1..GroupCount |->
                 g[i] \div 2 + (IF i = GroupCount THEN 0
                                ELSE IF i = GroupCount - 1 THEN 64 * g[i + 1]
                                ELSE 64 * (g[i + 1] % 2))]

\* (uint32_t)v, and (int32_t)v extended to 64 bits: bit 31 is bit 3 of group 5
Low32(g) == [i \in 1..GroupCount |-> IF i < 5 THEN g[i]
                                     ELSE IF i = 5 THEN g[5] % 16 ELSE 0]
Int32(g) == IF (g[5] % 16) < 8 THEN Low32(g)
            ELSE [i \in 1..GroupCount |-> IF i < 5 THEN g[i]
                    ELSE IF i = 5 THEN 112 + (g[5] % 16) ELSE AllBits[i]]

----------------------------------------------------------------------------
TagsOf(desc) == {0} \union {desc[i].tag : i \in DOMAIN desc}
FieldOf(desc, tag) == desc[pb_field_iter_find(desc, tag)]

\* memset to zero of one value of a field that is not a submessage
ZeroValue(f) == CASE f.type = "bool"                -> FALSE
                  [] f.type \in Varints \ {"bool"}  -> NoBits
                  [] f.type \in {"fixed32", "fixed64", "fixedbytes"}
                                                    -> [i \in 1..f.size |-> 0]
                  [] f.type \in {"string", "bytes"} -> <<>>

\* the _init_zero initialisers, and pb_field_set_to_default on a static field,
\* for a field whose value when zeroed is zero
DefaultOf(f, zero) == CASE f.alloc = "callback"  -> <<>>
                        [] f.rule = "optional"   -> [has |-> FALSE, val |-> zero]
                        [] f.rule = "repeated"   -> <<>>
                        [] f.rule = "fixarray"   -> [i \in 1..f.max |-> zero]
                        [] OTHER                 -> zero
=============================================================================
