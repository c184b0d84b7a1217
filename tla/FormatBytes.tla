----------------------------- MODULE FormatBytes -----------------------------
(***************************************************************************)
(* The numbers in the meta files of FileStore (Bits.java, and readZInt,    *)
(* readZLong, writeZInt, writeZLong of the format streams).  A number is   *)
(* written with its highest byte first, and the top bits of the first byte *)
(* say how many bytes follow: two bits for an int, three for a long.       *)
(*                                                                         *)
(* unit is what one more byte adds to the first byte: 2 ^ 6 or 2 ^ 5.      *)
(* Data are bytes 0 .. 255; shifts and masks are written as arithmetic.    *)
(***************************************************************************)
EXTENDS Integers, Sequences

Byte == 0 .. 255

IntUnit == 64
LongUnit == 32

Weight1 == 256
Weight2 == Weight1 * 256
Weight3 == Weight2 * 256
Weight4 == Weight3 * 256
Weight5 == Weight4 * 256
Weight6 == Weight5 * 256
Weight7 == Weight6 * 256
Weight == <<1, Weight1, Weight2, Weight3, Weight4, Weight5, Weight6, Weight7>>

(* How many bytes a number takes: the fewest that leave room for the bits  *)
(* of the length (the tests val >>> 6 == 0, val >>> 14 == 0, ...).         *)
Length(val, unit) ==
    IF val < unit THEN 1 ELSE IF val < unit * Weight1 THEN 2
    ELSE IF val < unit * Weight2 THEN 3 ELSE IF val < unit * Weight3 THEN 4
    ELSE IF val < unit * Weight4 THEN 5 ELSE IF val < unit * Weight5 THEN 6
    ELSE IF val < unit * Weight6 THEN 7 ELSE 8

(* What put takes; it throws IllegalArgumentException for any other.       *)
PutsInt == {val \in Nat : val < IntUnit * Weight3}
PutsLong == {val \in Nat : val < LongUnit * Weight7}

Put(val, unit) ==
    LET n == Length(val, unit)
    IN  [i \in 1 .. n |-> ((val \div Weight[n - i + 1]) % 256)
                          + (IF i = 1 THEN (n - 1) * unit ELSE 0)]

(* How many bytes get looks at, given that the number begins behind off.   *)
Takes(data, off, unit) == 1 + data[off + 1] \div unit

(* The part of the number that its jth byte from the right stands for; of  *)
(* the first byte only the bits below those of the length.                 *)
Part(data, off, unit, j) ==
    LET n == Takes(data, off, unit)
    IN  IF j > n THEN 0
        ELSE IF j = n THEN (data[off + 1] % unit) * Weight[j]
        ELSE data[off + n - j + 1] * Weight[j]

Get(data, off, unit) ==
    Part(data, off, unit, 1) + Part(data, off, unit, 2) + Part(data, off, unit, 3)
    + Part(data, off, unit, 4) + Part(data, off, unit, 5) + Part(data, off, unit, 6)
    + Part(data, off, unit, 7) + Part(data, off, unit, 8)

PutInt(val) == Put(val, IntUnit)
PutLong(val) == Put(val, LongUnit)
GetInt(data, off) == Get(data, off, IntUnit)
GetLong(data, off) == Get(data, off, LongUnit)

(* What the streams make of it: the number, and the position behind it; at *)
(* the end of the data -1, and the position stays.                         *)
ReadZ(data, position, unit) ==
    IF position = Len(data) THEN [val |-> -1, position |-> position]
    ELSE [val |-> Get(data, position, unit),
          position |-> position + Takes(data, position, unit)]

ReadZInt(data, position) == ReadZ(data, position, IntUnit)
ReadZLong(data, position) == ReadZ(data, position, LongUnit)

(* The other fields of a meta: a string as its length and its characters,  *)
(* encoded, and a single byte.                                             *)
WriteString(str) == PutInt(Len(str)) \o str

ReadString(data, position) ==
    LET len == ReadZInt(data, position)
    IN  [val |-> SubSeq(data, len.position + 1, len.position + len.val),
         position |-> len.position + len.val]

ReadByte(data, position) == [val |-> data[position + 1], position |-> position + 1]

(* The byte a meta begins with, as Java sees it: a negative number also    *)
(* stands for the end of the data.                                         *)
ReadUByte(data, position) ==
    IF position = Len(data) THEN [val |-> -1, position |-> position]
    ELSE [val |-> IF data[position + 1] < 128 THEN data[position + 1] ELSE data[position + 1] - 256,
          position |-> position + 1]

(* A block in a meta: its place and its length (Block.write, Block.read). *)
WriteBlock(off, len) == PutLong(off) \o PutInt(len)

ReadBlock(data, position) ==
    LET off == ReadZLong(data, position)
        len == ReadZInt(data, off.position)
    IN  [off |-> off.val, len |-> len.val, position |-> len.position]

(* A meta up to its blocks (Meta.write, Meta.read). *)
WriteHead(meta) ==
    <<meta.header>> \o (WriteString(meta.fileName) \o (PutInt(meta.node)
        \o (<<meta.flag>> \o PutInt(meta.blocks))))

NoMeta == "no meta"

ReadHead(data, position) ==
    LET header == ReadUByte(data, position)
        name == ReadString(data, header.position)
        node == ReadZInt(data, name.position)
        flag == ReadByte(data, node.position)
        blocks == ReadZInt(data, flag.position)
    IN  IF header.val < 0 THEN [meta |-> NoMeta, position |-> header.position]
        ELSE [meta |-> [header |-> header.val, fileName |-> name.val, node |-> node.val,
                        flag |-> flag.val, blocks |-> blocks.val],
              position |-> blocks.position]
=============================================================================
