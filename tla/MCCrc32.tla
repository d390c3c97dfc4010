------------------------------- MODULE MCCrc32 -------------------------------
(* Buffers for crc32: empty, one byte, the check string, one that reaches  *)
(* DOLIT32 and DOLIT4 after any head, and one long enough for crc32pclmul  *)
(* after any head (16 bytes of alignment at most, then 64).                *)
EXTENDS Crc32

Pattern(n) == [i \in 1..n |-> (i * 73 + 19) % 256]
MCInputs == {<<>>, <<0>>, <<255>>, <<49, 50, 51, 52, 53, 54, 55, 56, 57>>,
             Pattern(41), Pattern(80)}
\* 0, all ones, and a running CRC (0xcbf43926)
MCCrcs == {Zero32, W(255, 255, 255, 255), W(203, 244, 57, 38)}
====
