------------------------------- MODULE Crc32 -------------------------------
(* crc32() of src/shared/crc32.c, the CRC-32 the server keeps for every   *)
(* 16 MiB block of an image.  Both builds are modelled: the little-endian *)
(* one (a byte loop up to a 16-byte aligned address, then crc32pclmul or  *)
(* the four-table word loop, then a byte loop) and the big-endian one     *)
(* (byte loop to a 4-byte aligned address, word loop with tables 4..7 on  *)
(* a byte-swapped register, byte loop).  Each loop iteration is a step,   *)
(* so the state is the C function's locals: c, buf and len.               *)
(*                                                                         *)
(* The eight tables are the literal crc_table[8][256]; here each is given *)
(* by the rule it was generated by, and the ASSUMEs below compare entries *)
(* of every table with the literal.                                       *)
EXTENDS Integers, Sequences, SequencesExt, Bitwise

CONSTANTS
    Inputs,   \* the buffers crc32 is called on, as byte sequences
    Crcs      \* the crc arguments (a running CRC or 0)

\* A 32-bit value is kept as its four bytes, least significant first
\* (TLC's integers are 32-bit signed).
Bytes == 0..255
Word32 == [1..4 -> Bytes]
W(x3, x2, x1, x0) == <<x0, x1, x2, x3>>
Zero32 == <<0, 0, 0, 0>>
XOR(a, b) == <<a[1] ^^ b[1], a[2] ^^ b[2], a[3] ^^ b[3], a[4] ^^ b[4]>>
Complement(x) == <<255 - x[1], 255 - x[2], 255 - x[3], 255 - x[4]>>
\* x >> 8 and (x << 8) truncated to 32 bits
ShiftRight8(x) == <<x[2], x[3], x[4], 0>>
ShiftLeft8(x) == <<0, x[1], x[2], x[3]>>
\* a byte as a 32-bit value
Widen(b) == <<b, 0, 0, 0>>
\* x >> 1
ShiftRight1(x) ==
    <<x[1] \div 2 + (x[2] % 2) * 128, x[2] \div 2 + (x[3] % 2) * 128,
      x[3] \div 2 + (x[4] % 2) * 128, x[4] \div 2>>

\* the CRC-32 polynomial, bit-reversed: 0xEDB88320
Poly == W(237, 184, 131, 32)

\* one bit of the shift register (reference definition of CRC-32)
RegBit(r) == IF r[1] % 2 = 1 THEN XOR(ShiftRight1(r), Poly) ELSE ShiftRight1(r)

RECURSIVE RegBits(_, _)
RegBits(r, n) == IF n = 0 THEN r ELSE RegBits(RegBit(r), n - 1)

\* the reference: the register after one byte, after a sequence of bytes,
\* and the CRC-32 of a buffer continuing from crc
RefByte(r, b) == RegBits(XOR(r, Widen(b)), 8)
\* (next is compared with itself so that TLC computes it before the
\* recursive call instead of building a chain of unevaluated arguments)
RECURSIVE RefRegister(_, _)
RefRegister(r, bytes) ==
    IF bytes = <<>> THEN r
    ELSE LET next == RefByte(r, Head(bytes))
         IN IF next = next THEN RefRegister(next, Tail(bytes)) ELSE r
RefCrc(crc, bytes) == Complement(RefRegister(Complement(crc), bytes))

-----------------------------------------------------------------------------
(* crc_table[0..7] of crc32.c.                                             *)

crc_table_0 == [n \in Bytes |-> RegBits(Widen(n), 8)]
\* table k: the register after k zero bytes following byte n
NextTable(t) == [n \in Bytes |-> XOR(crc_table_0[t[n][1]], ShiftRight8(t[n]))]
crc_table_1 == NextTable(crc_table_0)
crc_table_2 == NextTable(crc_table_1)
crc_table_3 == NextTable(crc_table_2)

\* net_order_32 of the big-endian build (a byte swap) and tables 4..7,
\* the byte-swapped tables 0..3
net_order_32(x) == <<x[4], x[3], x[2], x[1]>>
crc_table_4 == [n \in Bytes |-> net_order_32(crc_table_0[n])]
crc_table_5 == [n \in Bytes |-> net_order_32(crc_table_1[n])]
crc_table_6 == [n \in Bytes |-> net_order_32(crc_table_2[n])]
crc_table_7 == [n \in Bytes |-> net_order_32(crc_table_3[n])]

\* the entries 1, 2, 128 and 255 of each table in the source, written
\* as W(most significant byte, ..., least significant byte): table 0 has
\* 0x77073096, 0xee0e612c, 0xedb88320 and 0x2d02ef8d there
ASSUME /\ crc_table_0[1] = W(119, 7, 48, 150)
       /\ crc_table_0[2] = W(238, 14, 97, 44)
       /\ crc_table_0[128] = W(237, 184, 131, 32)
       /\ crc_table_0[255] = W(45, 2, 239, 141)
       /\ crc_table_1[1] = W(25, 27, 49, 65)
       /\ crc_table_1[2] = W(50, 54, 98, 130)
       /\ crc_table_1[128] = W(59, 131, 152, 75)
       /\ crc_table_1[255] = W(147, 36, 253, 114)
       /\ crc_table_2[1] = W(1, 194, 106, 55)
       /\ crc_table_2[2] = W(3, 132, 212, 110)
       /\ crc_table_2[128] = W(225, 53, 27, 128)
       /\ crc_table_2[255] = W(190, 152, 52, 237)
       /\ crc_table_3[1] = W(184, 188, 103, 101)
       /\ crc_table_3[2] = W(170, 9, 200, 139)
       /\ crc_table_3[128] = W(237, 89, 182, 59)
       /\ crc_table_3[255] = W(222, 5, 6, 241)
       /\ crc_table_4[1] = W(150, 48, 7, 119)
       /\ crc_table_4[2] = W(44, 97, 14, 238)
       /\ crc_table_4[128] = W(32, 131, 184, 237)
       /\ crc_table_4[255] = W(141, 239, 2, 45)
       /\ crc_table_5[1] = W(65, 49, 27, 25)
       /\ crc_table_5[2] = W(130, 98, 54, 50)
       /\ crc_table_5[128] = W(75, 152, 131, 59)
       /\ crc_table_5[255] = W(114, 253, 36, 147)
       /\ crc_table_6[1] = W(55, 106, 194, 1)
       /\ crc_table_6[2] = W(110, 212, 132, 3)
       /\ crc_table_6[128] = W(128, 27, 53, 225)
       /\ crc_table_6[255] = W(237, 52, 152, 190)
       /\ crc_table_7[1] = W(101, 103, 188, 184)
       /\ crc_table_7[2] = W(139, 200, 9, 170)
       /\ crc_table_7[128] = W(59, 182, 89, 237)
       /\ crc_table_7[255] = W(241, 6, 5, 222)

\* the CRC-32 check value of "123456789" (0xcbf43926)
ASSUME RefCrc(Zero32, <<49, 50, 51, 52, 53, 54, 55, 56, 57>>) = W(203, 244, 57, 38)

-----------------------------------------------------------------------------
(* crc32(crc, buf, len).                                                   *)

\* PCLMUL_MIN_LEN, PCLMUL_ALIGN_MASK
PCLMUL_MIN_LEN == 64
PCLMUL_ALIGN_MASK == 15

VARIABLES
    bigEndian,  \* the build: DNBD3_BIG_ENDIAN or DNBD3_LITTLE_ENDIAN
    pclmul,     \* __builtin_cpu_supports("pclmul") && ("sse4.1")
    crc,        \* the crc argument
    data,       \* the buffer
    base,       \* the buffer's address modulo 16
    pos,        \* bytes of the buffer consumed: buf - base
    len,
    c,
    pc

vars == <<bigEndian, pclmul, crc, data, base, pos, len, c, pc>>

\* the next byte *buf, and the four bytes at p as the host reads *buf4
NextByte == data[pos + 1]
WordAt(p) ==
    LET b(i) == data[p + i]
    IN IF bigEndian THEN W(b(1), b(2), b(3), b(4)) ELSE W(b(4), b(3), b(2), b(1))

\* c = crc_table[0][(c ^ *buf++) & 0xff] ^ (c >> 8)
LittleByte(r, b) == XOR(crc_table_0[XOR(r, Widen(b))[1]], ShiftRight8(r))
\* mutant: c kept in a 64-bit register, the byte shifted out stays
BigByteWide(r, b) == Append(XOR(crc_table_4[r[4] ^^ b], ShiftLeft8(r)), r[4])

\* c = crc_table[4][(c >> 24) ^ *buf++] ^ (c << 8)
BigByte(r, b) == XOR(crc_table_4[r[4] ^^ b], ShiftLeft8(r))

\* mutant: DOLIT4 with the tables in the big-endian order
DOLIT4Swapped(r, w) ==
    LET x == XOR(r, w)
    IN XOR(XOR(crc_table_0[x[1]], crc_table_1[x[2]]), XOR(crc_table_2[x[3]], crc_table_3[x[4]]))

\* DOLIT4 and DOBIG4: c ^= *buf4++, then four table lookups
DOLIT4(r, w) ==
    LET x == XOR(r, w)
    IN XOR(XOR(crc_table_3[x[1]], crc_table_2[x[2]]), XOR(crc_table_1[x[3]], crc_table_0[x[4]]))
DOBIG4(r, w) ==
    LET x == XOR(r, w)
    IN XOR(XOR(crc_table_4[x[1]], crc_table_5[x[2]]), XOR(crc_table_6[x[3]], crc_table_7[x[4]]))

\* the buffer's address modulo the alignment the head loop waits for
Misaligned == (base + pos) % (IF bigEndian THEN 4 ELSE PCLMUL_ALIGN_MASK + 1) # 0

Init ==
    /\ bigEndian \in BOOLEAN
    /\ pclmul \in IF bigEndian THEN {FALSE} ELSE BOOLEAN
    /\ crc \in Crcs
    /\ data \in Inputs
    /\ base \in 0..PCLMUL_ALIGN_MASK
    /\ pos = 0
    /\ len = Len(data)
    /\ c = Zero32
    /\ pc = "entry"

Step(c2, n, pc2) ==
    /\ c' = c2
    /\ pos' = pos + n
    /\ len' = len - n
    /\ pc' = pc2
    /\ UNCHANGED <<bigEndian, pclmul, crc, data, base>>

\* c = ~crc (little-endian), c = ~net_order_32(crc) (big-endian)
Entry ==
    /\ pc = "entry"
    /\ Step(Complement(IF bigEndian THEN net_order_32(crc) ELSE crc), 0, "head")

\* while (len && ((uintptr_t)buf & PCLMUL_ALIGN_MASK)) (& 3 big-endian)
HeadLoop ==
    /\ pc = "head"
    /\ IF len # 0 /\ Misaligned
       THEN Step(IF bigEndian THEN BigByte(c, NextByte) ELSE LittleByte(c, NextByte), 1, "head")
       ELSE Step(c, 0, IF bigEndian THEN "words" ELSE "simd")

\* if (pclmul && len >= PCLMUL_MIN_LEN): crc32pclmul folds
\* len & ~PCLMUL_ALIGN_MASK bytes into c, which it returns
Simd ==
    /\ pc = "simd"
    /\ IF pclmul /\ len >= PCLMUL_MIN_LEN
       THEN LET n == len - (len % (PCLMUL_ALIGN_MASK + 1))
            IN Step(RefRegister(c, SubSeq(data, pos + 1, pos + n)), n, "tail")
       ELSE Step(c, 0, "words")

\* while (len >= 32) DOLIT32; while (len >= 4) DOLIT4
RECURSIVE Words(_, _, _)
Words(r, p, k) ==
    IF k = 0 THEN r
    ELSE Words(IF bigEndian THEN DOBIG4(r, WordAt(p)) ELSE DOLIT4(r, WordAt(p)), p + 4, k - 1)

WordLoop ==
    /\ pc = "words"
    /\ IF len >= 32 THEN Step(Words(c, pos, 8), 32, "words")
       ELSE IF len >= 4 THEN Step(Words(c, pos, 1), 4, "words")
       ELSE Step(c, 0, "tail")

\* if (len) do c = ... while (--len)
TailLoop ==
    /\ pc = "tail"
    /\ len # 0
    /\ Step(IF bigEndian THEN BigByte(c, NextByte) ELSE LittleByte(c, NextByte), 1, "tail")

\* mutant: the final complement is left out
ReturnNoComplement ==
    /\ pc = "tail"
    /\ len = 0
    /\ Step(IF bigEndian THEN net_order_32(c) ELSE c, 0, "done")

\* c = ~c; return c (net_order_32(c) big-endian)
Return ==
    /\ pc = "tail"
    /\ len = 0
    /\ Step(IF bigEndian THEN net_order_32(Complement(c)) ELSE Complement(c), 0, "done")

Next == Entry \/ HeadLoop \/ Simd \/ WordLoop \/ TailLoop \/ Return

Spec == Init /\ [][Next]_vars

-----------------------------------------------------------------------------

TypeOK ==
    /\ c \in Word32
    /\ pos \in 0..Len(data) /\ pos + len = Len(data)
    /\ pc \in {"entry", "head", "simd", "words", "tail", "done"}

\* the register the reference holds after the bytes consumed so far, in
\* the byte order the build keeps c in (byte-swapped on big-endian)
HostRegister(r) == IF bigEndian THEN net_order_32(r) ELSE r

\* Between the loops of crc32, c is the CRC register after exactly the
\* bytes consumed, whichever of the byte loop, the word loops or
\* crc32pclmul consumed them and wherever the buffer starts.
RegisterInvariant ==
    pc \in {"head", "simd", "words", "tail"} =>
        c = HostRegister(RefRegister(Complement(crc), SubSeq(data, 1, pos)))

\* crc32 returns the CRC-32 of the buffer continuing from crc.
Crc32Correct ==
    pc = "done" => c = RefCrc(crc, data)

====
