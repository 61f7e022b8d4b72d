------------------------------- MODULE I2Cdev -------------------------------
(***************************************************************************)
(* The bit arithmetic of libraries/I2Cdev/I2Cdev.cpp: what readBit,        *)
(* readBits, writeBit and writeBits make of a register.  A register is the *)
(* set of the positions of its one bits, so that OR is union, AND NOT is   *)
(* set difference and a shift moves the positions; the width is part of    *)
(* the mask, which is the same for bytes and for words.                    *)
(***************************************************************************)
EXTENDS Integers

\* The width of uint8_t.
ByteBits == 0..7
Byte == SUBSET ByteBits

\* The mask ((1 << length) - 1) << (bitStart - length + 1).
Mask(bitStart, length) == (bitStart - length + 1)..bitStart

\* data <<= k and b >>= k.
ShiftUp(data, k) == {i + k : i \in data}
ShiftDown(b, k) == {i - k : i \in b}

\* readBit leaves the bit where it is: the result is zero or 1 << bitNum.
ReadBit(b, bitNum) == b \cap {bitNum}

\* readBits: masked, then shifted to the right.
ReadBits(b, bitStart, length) ==
    ShiftDown(b \cap Mask(bitStart, length), bitStart - length + 1)

\* writeBit: any value but zero sets the bit.
WriteBit(b, bitNum, data) ==
    IF data # {} THEN b \cup {bitNum} ELSE b \ {bitNum}

\* writeBits: what of the value does not fit the field is dropped.
BugWriteBits(b, bitStart, length, data) ==
    (b \ Mask(bitStart, length)) \cup (ShiftUp(data, bitStart - length + 1) \cap ByteBits)

WriteBits(b, bitStart, length, data) ==
    (b \ Mask(bitStart, length))
        \cup (ShiftUp(data, bitStart - length + 1) \cap Mask(bitStart, length))

\* A word is sent high byte first and put together again in that order.
WordBits == 0..15
HighByte(w) == ShiftDown(w \cap (8..15), 8)
LowByte(w) == w \cap ByteBits
WordOf(high, low) == ShiftUp(high, 8) \cup low
=============================================================================
