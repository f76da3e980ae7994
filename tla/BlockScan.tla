------------------------------ MODULE BlockScan ------------------------------
(***************************************************************************)
(* DiskReader.ScanBlocks driving Carver.Scan's callback: the disk is read  *)
(* block by block, every block is searched together with the tail of the   *)
(* block before it, and each header met is handed to extractFile.  Offsets *)
(* are absolute: cur stands for searchOffset + i of the source.            *)
(***************************************************************************)
EXTENDS Integers, Sequences, Functions

CONSTANTS
    MaxSize,              \* bound on the disk size
    BlockSizes,           \* values of -block-size
    Overlap,              \* overlapSize, 64 in the source
    HeaderLen             \* len(sig.Header), 4 for both signatures

ASSUME ScanAssumption ==
    /\ MaxSize \in Nat
    /\ BlockSizes \subseteq Nat \ {0}
    /\ Overlap \in Nat
    /\ HeaderLen \in Nat \ {0}

\* What a block and the tail kept of it must hold for no header to be split
\* over more than two blocks: all of a header but its last byte.
WideEnough ==
    /\ Overlap >= HeaderLen - 1
    /\ \A b \in BlockSizes : b >= HeaderLen - 1

VARIABLES
    headers,              \* offsets at which a header stands on the disk
    size,                 \* DiskReader.size
    blockSize,            \* Carver.blockSize
    offset,               \* ScanBlocks' offset: start of the current block
    n,                    \* bytes of the current block, 0 between blocks
    err,                  \* what ReadAt returned with them
    tail,                 \* len(prevTail)
    cur,                  \* offset the search of searchBuf has reached
    found,                \* extractFile calls, in order
    pc                    \* "read", "search", "done" or "failed"

vars == <<headers, size, blockSize, offset, n, err, tail, cur, found, pc>>
disk == <<headers, size, blockSize>>

Smaller(a, b) == IF a < b THEN a ELSE b

\* Neither %PDF nor PK\3\4 overlaps itself or the other.
Disks(s) ==
    {H \in SUBSET (0 .. s - HeaderLen) :
        \A g, h \in H : g < h => g + HeaderLen <= h}

Init ==
    /\ size \in 0 .. MaxSize
    /\ headers \in Disks(size)
    /\ blockSize \in BlockSizes
    /\ offset = 0 /\ n = 0 /\ tail = 0 /\ cur = 0
    /\ err = "none"
    /\ found = <<>>
    /\ pc = "read"

-----------------------------------------------------------------------------
\* Mutants: the whole block is kept, or a byte too little.
WholeTail == n
ShortTail == IF n < Overlap THEN n - 1 ELSE Overlap - 1

\* A prevTail of more than one block is never kept.
NewTail == Smaller(Overlap, n)

StartSearch ==
    /\ cur' = offset - tail
    /\ pc' = "search"

\* ReadAt fills the buffer, or reaches the end of the device and says io.EOF.
ReadBlock ==
    /\ pc = "read"
    /\ offset < size
    /\ n' = Smaller(blockSize, size - offset)
    /\ err' = IF offset + blockSize > size THEN "eof" ELSE "none"
    /\ StartSearch
    /\ UNCHANGED <<disk, offset, tail, found>>

\* An unreadable sector: what precedes it in the block is still searched.
ReadBadBlock ==
    /\ pc = "read"
    /\ offset < size
    /\ n' \in 0 .. Smaller(blockSize, size - offset) - 1
    /\ err' = "io"
    /\ IF n' > 0 THEN StartSearch ELSE pc' = "failed" /\ UNCHANGED cur
    /\ UNCHANGED <<disk, offset, tail, found>>

EndOfDisk ==
    /\ pc = "read"
    /\ offset >= size
    /\ pc' = "done"
    /\ UNCHANGED <<disk, offset, n, err, tail, cur, found>>

\* Mutants: the tail is always searched again, or never.
SearchAgain(p) == FALSE
SearchNoTail(p) == p < offset

\* The header was searched for, in full, with the block before this one.
AlreadySearched(p) == p < offset /\ p + HeaderLen <= offset

\* Mutant: a header that ends with the block is left to the next one.
MatchesInside(p) == p \in headers /\ p + HeaderLen < offset + n

Matches(p) == p \in headers /\ p + HeaderLen <= offset + n

Probe ==
    /\ pc = "search"
    /\ cur < offset + n
    /\ found' = IF Matches(cur) /\ ~AlreadySearched(cur)
                THEN Append(found, cur) ELSE found
    /\ cur' = cur + 1
    /\ UNCHANGED <<disk, offset, n, err, tail, pc>>

\* Mutant: the tail is read again instead of kept.
OffsetBackToTail == offset + n - NewTail

NextOffset == offset + n

\* The callback keeps the tail and returns true; ScanBlocks then looks at err.
EndBlock ==
    /\ pc = "search"
    /\ cur = offset + n
    /\ tail' = NewTail
    /\ \/ err = "none" /\ offset' = NextOffset /\ n' = 0 /\ pc' = "read"
       \/ err = "eof" /\ pc' = "done" /\ UNCHANGED <<offset, n>>
       \/ err = "io" /\ pc' = "failed" /\ UNCHANGED <<offset, n>>
    /\ UNCHANGED <<disk, err, cur, found>>

Next == ReadBlock \/ ReadBadBlock \/ EndOfDisk \/ Probe \/ EndBlock

Spec == Init /\ [][Next]_vars

\* One goroutine runs the loop and nothing in it waits.
FairSpec == Spec /\ WF_vars(Next)

-----------------------------------------------------------------------------
\* State types, with the ranges the arithmetic of the loop stays in.
TypeOK ==
    /\ size \in 0 .. MaxSize
    /\ headers \in SUBSET (0 .. size - HeaderLen)
    /\ blockSize \in BlockSizes
    /\ offset \in 0 .. size
    /\ n \in 0 .. blockSize /\ offset + n <= size
    /\ err \in {"none", "eof", "io"}
    /\ tail \in 0 .. Overlap /\ tail <= blockSize
    /\ cur \in 0 .. size
    /\ found \in Seq(headers)
    /\ pc \in {"read", "search", "done", "failed"}

\* Extraction goes up the disk and no header is extracted twice, although
\* every tail is searched twice.
VisitedInOrder ==
    \A i, j \in DOMAIN found : i < j => found[i] < found[j]

\* Headers that end at or before offset e.
Ended(e) == {h \in headers : h + HeaderLen <= e}

\* A scan that ends well has handed over every header of the disk, the ones
\* that lie across block boundaries included.
NothingMissed == pc = "done" => Range(found) = headers

\* A read error costs only the headers not read in full before it.
ErrorLosesOnlyUnread == pc = "failed" => Range(found) = Ended(offset + n)

\* The loop ends, whatever the sizes, at the end of the disk or at an error.
Terminates == <>(pc \in {"done", "failed"})

\* What the loop knows between two steps: with the tail of a whole block in
\* hand, everything that has ended by offset was found, and inside a block
\* also what ends with it and starts below cur.
Progress ==
    /\ pc \in {"read", "search"} =>
        /\ tail <= offset
        /\ tail = IF offset = 0 THEN 0 ELSE Smaller(Overlap, blockSize)
    /\ pc = "read" => Range(found) = Ended(offset)
    /\ pc = "search" =>
        /\ cur >= offset - tail /\ cur <= offset + n
        /\ Range(found) = Ended(offset) \cup {h \in Ended(offset + n) : h < cur}
        /\ err = "none" => n = blockSize
        /\ err = "eof" => offset + n = size

\* The inductive invariant.
Inductive ==
    TypeOK /\ VisitedInOrder /\ Progress /\ NothingMissed /\ ErrorLosesOnlyUnread

Sweep == INSTANCE HeaderSweep WITH
    Positions <- 0 .. MaxSize,
    status <- IF pc \in {"done", "failed"} THEN pc ELSE "running"

\* The block loop keeps the promise of HeaderSweep.
Sweeps == Sweep!SweepSpec
=============================================================================
