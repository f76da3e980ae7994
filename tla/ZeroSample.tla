----------------------------- MODULE ZeroSample -----------------------------
(***************************************************************************)
(* SampleForZeroBlocks, by which every command decides whether to warn that *)
(* TRIM has wiped the disk: which of the disk's blocks it looks at, and    *)
(* what it makes of them.  Blocks are numbered from 0.                     *)
(***************************************************************************)
EXTENDS Integers, FiniteSets

\* What a call is about: a disk's size in bytes, the size of a block and the
\* number of samples asked for, 4096 and 256 in every call.
TotalBlocks(size, blockSize) == size \div blockSize

SampleCount(total, asked) == IF asked > total THEN total ELSE asked

Step(total, asked) == total \div SampleCount(total, asked)

BlockIdx(total, asked, i) == i * Step(total, asked)

\* The loop's test that the block lies on the disk.
OnDisk(size, blockSize, b) == b * blockSize + blockSize <= size

Tried(total, asked) ==
    {BlockIdx(total, asked, i) : i \in 0 .. SampleCount(total, asked) - 1}

\* The share of zero blocks, in its two parts: of the blocks tried that can be
\* read, those that are zero, and all of them.  A disk without a block, or of
\* which nothing could be read, has none.
Share(total, asked, readable, zero) ==
    IF total = 0 THEN <<0, 0>>
    ELSE <<Cardinality(Tried(total, asked) \cap readable \cap zero),
           Cardinality(Tried(total, asked) \cap readable)>>
=============================================================================
