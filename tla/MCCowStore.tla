----------------------------- MODULE MCCowStore -----------------------------
(* Instances of CowStore for TLC: two dispatcher threads, a 4-byte        *)
(* metadata block of two 2-byte frames, two metadata blocks per L2 block  *)
(* and an image of three frames on the server.                            *)
EXTENDS CowStore

CONSTANTS t1, t2

\* unaligned head and tail inside the original image, a write across two
\* metadata blocks, and a write past the end of the file
MCWriteOpsMixed == {<<1, 2>>, <<5, 2>>, <<8, 3>>}
MCSizeOpsMixed == {3, 9}
\* as above, with a write whose head pads frame 1 alone, so that a read of
\* the original image splits into remote, local and remote runs
MCWriteOpsSplit == {<<3, 1>>, <<5, 2>>, <<8, 3>>}
MCReadOpsSplit == {<<0, 6>>}
MCReadOpsMixed == {<<0, 6>>, <<4, 5>>}
\* unaligned heads and tails, overlapping writes and a write across two
\* metadata blocks, all inside the original image
MCWriteOpsInside == {<<1, 2>>, <<3, 3>>, <<0, 5>>, <<5, 1>>}
\* one write into the last frame of a metadata block, then an extension
MCWriteOpsLastBlock == {<<4, 2>>}
MCSizeOpsGrow == {9}
\* two whole-frame writes into the same metadata block
MCWriteOpsSameBlock == {<<0, 2>>, <<2, 2>>}
====
