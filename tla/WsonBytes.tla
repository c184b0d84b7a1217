------------------------------ MODULE WsonBytes ------------------------------
(***************************************************************************)
(* The bytes under the tokens of Wson (wson.c): integers in groups of      *)
(* seven bits, signed integers folded onto unsigned ones, eight-byte       *)
(* numbers, and the growth of the buffer.  Bytes are 0 .. 255; the         *)
(* operations on bits are written as arithmetic.                           *)
(***************************************************************************)
EXTENDS Integers, Sequences

Byte == 0 .. 255
Uint32 == 0 .. 2 ^ 32 - 1
Int32 == - (2 ^ 31) .. 2 ^ 31 - 1

(* The weight of each group of seven bits. *)
Weight == <<1, 128, 16384, 2097152, 268435456>>

(* How often wson_push_uint goes round: until nothing is left of num. *)
Groups(num) ==
    IF num < Weight[2] THEN 1 ELSE IF num < Weight[3] THEN 2
    ELSE IF num < Weight[4] THEN 3 ELSE IF num < Weight[5] THEN 4 ELSE 5

(* Every byte but the last has its highest bit set. *)
PushUint(num) ==
    [i \in 1 .. Groups(num) |->
        ((num \div Weight[i]) % 128) + (IF i < Groups(num) THEN 128 ELSE 0)]

(* How many bytes wson_next_uint takes, and the number in them; it looks   *)
(* at no more than five, and of the fifth at four bits.                    *)
TakesUint(data) ==
    IF data[1] < 128 THEN 1 ELSE IF data[2] < 128 THEN 2
    ELSE IF data[3] < 128 THEN 3 ELSE IF data[4] < 128 THEN 4 ELSE 5

Group(data, i) ==
    IF i > TakesUint(data) THEN 0
    ELSE (data[i] % (IF i = 5 THEN 16 ELSE 128)) * Weight[i]

NextUint(data) ==
    Group(data, 1) + Group(data, 2) + Group(data, 3) + Group(data, 4) + Group(data, 5)

(* msg_buffer_varint_Zig and Zag: small numbers of either sign are short. *)
Zig(value) == IF value >= 0 THEN 2 * value ELSE - 2 * value - 1
Zag(num) == IF num % 2 = 0 THEN num \div 2 ELSE - (num \div 2) - 1

PushInt(value) == PushUint(Zig(value))
NextInt(data) == Zag(NextUint(data))

Two32 == 65536 * 65536
Two40 == Two32 * 256
Two48 == Two32 * 65536
Two56 == Two48 * 256
Two64 == Two32 * Two32

(* wson_push_long and wson_next_long: the highest byte first. *)
PushLong(num) ==
    << (num \div Two56) % 256, (num \div Two48) % 256, (num \div Two40) % 256,
       (num \div Two32) % 256, (num \div 16777216) % 256, (num \div 65536) % 256,
       (num \div 256) % 256, num % 256 >>

NextLong(data) ==
    data[8] + data[7] * 256 + data[6] * 65536 + data[5] * 16777216
        + data[4] * Two32 + data[3] * Two40 + data[2] * Two48 + data[1] * Two56

(* msg_buffer_resize: the new length, of 32 bits. *)
Resized(length, size) ==
    ((IF size >= length THEN size + 1024 ELSE IF length < 16384 THEN 16384 ELSE length)
        + length) % (65536 * 65536)

(* WSON_BUFFER_ENSURE_SIZE *)
Ensured(length, position, size) ==
    IF length < position + size THEN Resized(length, size) ELSE length
=============================================================================
