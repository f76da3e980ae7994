------------------------------ MODULE Ext4File ------------------------------
(***************************************************************************)
(* Where ext4 keeps a file's blocks, and how RecoverInodeData finds them    *)
(* again: parseExtentNode goes down a tree of extents, collectLegacyBlocks *)
(* through direct and indirect pointers.  A file is given by the way its   *)
(* blocks follow each other on the disk; the nodes of its tree and the     *)
(* pointers to it follow from that.  A byte is its offset in the partition.*)
(***************************************************************************)
EXTENDS Integers, Sequences, FiniteSets, SequencesExt

CONSTANTS
    BlockSize,            \* sb.BlockSize
    Blocks,               \* blocks that can be read
    RootEntries,          \* entries of the inode's own node, 4
    NodeEntries,          \* entries of a tree block, (BlockSize - 12) / 12
    Direct,               \* direct pointers of an inode, 12
    Pointers,             \* pointers of an indirect block, BlockSize / 4
    MaxDepth,             \* nodes below each other that are followed, 5
    Unwritten,            \* added to the length of a preallocated extent, 32768
    FirstData, TreeBase   \* where the file's blocks and those of its tree lie

ASSUME Ext4FileAssumption ==
    /\ {BlockSize, Blocks, RootEntries, NodeEntries, Direct, Pointers} \subseteq Nat \ {0}
    /\ MaxDepth \in Nat /\ Unwritten \in Nat \ {0}
    /\ {FirstData, TreeBase} \subseteq Nat \ {0}

\* A block of the file lies right behind the one before it or apart from it, is
\* preallocated but not written, or is a hole.
Steps == {"next", "apart", "preallocated", "hole"}

\* Nothing, or one block of the tree that cannot be read, that another file has
\* written over with its data or with a node of its own tree, or that names itself
\* as its child.
Damages == {"none", "unreadable", "reused", "taken", "loop"}

Ceiling(a, b) == (a + b - 1) \div b

Least(a, b) == IF a < b THEN a ELSE b

-----------------------------------------------------------------------------
(* How ext4 keeps a file f: f.plan is a sequence of steps, f.extents says   *)
(* which of the two forms it has, f.height how deep its tree is; f.bad is a *)
(* data block that cannot be read and f.hit the tree block with f.damage.  *)

Mapped(f, k) == k \in DOMAIN f.plan /\ f.plan[k] # "hole"

Place(f, k) ==
    FirstData + Cardinality({j \in 1 .. k : Mapped(f, j)})
              + Cardinality({j \in 1 .. k : f.plan[j] = "apart"})

\* Does the k-th block continue the extent of the one before it?
Continues(f, k) ==
    /\ Mapped(f, k) /\ Mapped(f, k - 1)
    /\ f.plan[k] # "apart"
    /\ (f.plan[k] = "preallocated") = (f.plan[k - 1] = "preallocated")

\* The extents with the k-th block: one that continues the last of them makes it
\* longer.
WithBlock(f, extents, k) ==
    CASE ~Mapped(f, k) -> extents
      [] Continues(f, k) -> [extents EXCEPT ![Len(extents)].length = @ + 1]
      [] OTHER -> Append(extents,
             [start |-> Place(f, k),
              length |-> 1 + IF f.plan[k] = "preallocated" THEN Unwritten ELSE 0])

\* The extents of the first blocks, and of all.
ExtentsSoFar(f) ==
    LET soFar[k \in 0 .. Len(f.plan)] ==
            IF k = 0 THEN <<>> ELSE WithBlock(f, soFar[k - 1], k)
    IN  soFar

Extents(f) == ExtentsSoFar(f)[Len(f.plan)]

\* The i-th node of depth l - 1 of the tree, and the first of the blocks from
\* the k-th on that an indirect block of the given level leads to.
TreeBlock(l, i) == TreeBase + 10 * i + l

PointerBlock(level, k) == TreeBase + 10 * k + level

\* The nodes above those that hold something.
Parents(held, d) == [i \in 1 .. Ceiling(Len(held), NodeEntries) |-> TreeBlock(d, i)]

\* What the nodes of a depth hold: the extents, or the nodes below.
Tree(f) ==
    LET held[d \in 0 .. f.height] ==
            IF d = 0 THEN Extents(f) ELSE Parents(held[d - 1], d)
    IN  held

Held(f, depth) == Tree(f)[depth]

Fits(f) == Len(Held(f, f.height)) <= RootEntries

NoNode == [magic |-> FALSE, depth |-> 0, entries |-> <<>>]

\* The root is in the inode; a deletion clears its entries, or all of it.
Root(f, state) ==
    CASE state = "intact" -> [magic |-> TRUE, depth |-> f.height, entries |-> Held(f, f.height)]
      [] state = "cleared" -> [NoNode EXCEPT !.magic = TRUE]
      [] state \in {"wiped", "unrooted"} -> NoNode

\* The i-th node's share of what the nodes of a depth hold.
Group(held, i) == SubSeq(held, (i - 1) * NodeEntries + 1, Least(i * NodeEntries, Len(held)))

Level(b) == (b - TreeBase) % 10

Index(b) == (b - TreeBase) \div 10

\* A block that holds nothing of the file's tree, or no longer.
Foreign(f, b) ==
    \/ b < TreeBase + 10
    \/ Level(b) \notin 1 .. IF f.extents THEN f.height ELSE 3
    \/ b = f.hit /\ f.damage = "reused"

\* A block of another file.
Stranger == 1

NodeAt(f, b) ==
    CASE Foreign(f, b) -> NoNode
      [] ~Foreign(f, b) /\ b = f.hit /\ f.damage = "loop" ->
             [magic |-> TRUE, depth |-> 1, entries |-> <<b>>]
      [] ~Foreign(f, b) /\ b = f.hit /\ f.damage = "taken" ->
             [magic |-> TRUE, depth |-> 0, entries |-> <<[start |-> Stranger, length |-> 1]>>]
      [] OTHER ->
             [magic |-> TRUE, depth |-> Level(b) - 1,
              entries |-> Group(Held(f, Level(b) - 1), Index(b))]

\* Blocks that a pointer of a level stands for.
Span(level) == <<1, Pointers, Pointers * Pointers, Pointers * Pointers * Pointers>>[level + 1]

\* The pointer to what begins with the k-th block.
PointerTo(f, level, k) ==
    IF ~\E j \in k .. k + Span(level) - 1 : Mapped(f, j) THEN 0
    ELSE IF level = 0 THEN Place(f, k)
    ELSE PointerBlock(level, k)

\* First block an inode's pointer of a level stands for.
LevelStart(level) ==
    Direct + <<1, 1 + Pointers, 1 + Pointers + Pointers * Pointers>>[level]

PointersAt(f, b) ==
    [i \in 1 .. Pointers |->
        IF Foreign(f, b) THEN Stranger
        ELSE PointerTo(f, Level(b) - 1, Index(b) + (i - 1) * Span(Level(b) - 1))]

\* The blocks of a level below the inode's pointer of level top.
IndirectBlocks(f, top, level) ==
    {PointerTo(f, level, LevelStart(top) + j * Span(level)) : j \in 0 .. Span(top - level) - 1}

TreeBlocks(f) ==
    IF f.extents
    THEN UNION {{TreeBlock(d, i) : i \in 1 .. Ceiling(Len(Held(f, d - 1)), NodeEntries)} :
                    d \in 1 .. f.height}
    ELSE (UNION {UNION {IndirectBlocks(f, top, level) : level \in 1 .. top} : top \in 1 .. 3}) \ {0}

DataBlocks(f) == {Place(f, k) : k \in {k \in DOMAIN f.plan : Mapped(f, k)}}

Readable(f, b) ==
    b < Blocks /\ b # f.bad /\ ~(b = f.hit /\ f.damage = "unreadable")

-----------------------------------------------------------------------------
(* collectExtents, parseExtentNode                                         *)

Found(seq) == [ok |-> TRUE, found |-> seq]

Failed == [ok |-> FALSE, found |-> <<>>]

Merged(results) ==
    IF \A i \in DOMAIN results : results[i].ok
    THEN Found(FlattenSeq([i \in DOMAIN results |-> results[i].found]))
    ELSE Failed

\* A node that cannot be read is none.
ReadNode(f, b) == IF Readable(f, b) THEN NodeAt(f, b) ELSE NoNode

\* left says how many nodes below each other may still be followed, below what the
\* children give; a child 0 is passed over.
ParseExtentNode(node, left, below) ==
    IF ~node.magic THEN Failed
    ELSE IF node.depth = 0 THEN Found(node.entries)
    ELSE IF left = 0 THEN Failed
    ELSE Merged([i \in DOMAIN node.entries |->
             IF node.entries[i] = 0 THEN Found(<<>>) ELSE below[node.entries[i]]])

\* The node in the inode has depth 0, and one is followed up to depth MaxDepth.
CollectExtents(f, root) ==
    LET parsed[left \in 0 .. MaxDepth] ==
            [b \in 0 .. Blocks - 1 |->
                ParseExtentNode(ReadNode(f, b), left, IF left = 0 THEN <<>> ELSE parsed[left - 1])]
    IN  ParseExtentNode(root, MaxDepth + 1, parsed[MaxDepth])

-----------------------------------------------------------------------------
(* collectLegacyBlocks, readIndirectBlocks                                 *)

\* Mutant: a block the file fills in part is not counted.
WholeBlocks(f) == f.size \div BlockSize

Needed(f) == Ceiling(f.size, BlockSize)

Extended(result, more) ==
    IF more.ok THEN Found(result.found \o more.found) ELSE Failed

\* One pointer more, of at most so many blocks; a zero pointer is passed over.
\* below is what the blocks the pointers lead to give.
WithPointer(result, ptr, below, most) ==
    IF ~result.ok \/ Len(result.found) >= most \/ ptr = 0 THEN result
    ELSE Extended(result, below[ptr][most - Len(result.found)])

ReadPointers(ptrs, below, most) ==
    LET read[i \in 0 .. Pointers] ==
            IF i = 0 THEN Found(<<>>) ELSE WithPointer(read[i - 1], ptrs[i], below, most)
    IN  read[Pointers]

\* The pointers of a block of level 1 are those looked for.
ReadLevels(f, limit) ==
    LET read[l \in 0 .. 3] ==
            [b \in 1 .. Blocks - 1 |-> [most \in 1 .. limit |->
                IF l = 0 THEN Found(<<b>>)
                ELSE IF Readable(f, b) THEN ReadPointers(PointersAt(f, b), read[l - 1], most)
                ELSE Failed]]
    IN  read

ReadIndirectBlocks(f, block, level, limit) ==
    IF block = 0 \/ limit <= 0 THEN Found(<<>>) ELSE ReadLevels(f, limit)[level][block][limit]

\* A pointer of the inode; a deletion clears them all.
InodePointer(f, intact, level, k) == IF intact THEN PointerTo(f, level, k) ELSE 0

WithLevel(f, intact, result, level) ==
    IF ~result.ok \/ Len(result.found) >= Needed(f) THEN result
    ELSE Extended(result,
             ReadIndirectBlocks(f, InodePointer(f, intact, level, LevelStart(level)),
                                level, Needed(f) - Len(result.found)))

CollectLegacyBlocks(f, intact) ==
    LET Given(k) == InodePointer(f, intact, 0, k)
        direct == FlattenSeq([k \in 1 .. Direct |-> IF Given(k) = 0 THEN <<>> ELSE <<Given(k)>>])
        first == Found(SubSeq(direct, 1, Least(Needed(f), Len(direct))))
        second == WithLevel(f, intact, first, 1)
        third == WithLevel(f, intact, second, 2)
    IN  WithLevel(f, intact, third, 3)

-----------------------------------------------------------------------------
(* RecoverInodeData                                                        *)

BytesOf(b) == [j \in 1 .. BlockSize |-> b * BlockSize + j - 1]

\* Mutants: of an extent with a bad block nothing is taken; all of it is, zeros
\* standing for what could not be read.
AllOrNothing(f, extent) ==
    IF \A j \in 1 .. extent.length : Readable(f, extent.start + j - 1)
    THEN FlattenSeq([j \in 1 .. extent.length |-> BytesOf(extent.start + j - 1)])
    ELSE <<>>
WholeBuffer(f, extent) ==
    FlattenSeq([j \in 1 .. extent.length |->
        IF \A i \in 1 .. j : Readable(f, extent.start + i - 1)
        THEN BytesOf(extent.start + j - 1) ELSE BytesOf(0)])

\* One read, which ends at the first block that cannot be read; none at block 0.
ReadExtent(f, extent) ==
    LET blocks == {j \in 1 .. extent.length :
                      extent.start # 0 /\ \A i \in 1 .. j : Readable(f, extent.start + i - 1)}
    IN  FlattenSeq([j \in blocks |-> BytesOf(extent.start + j - 1)])

ReadBlock(f, b) == IF Readable(f, b) THEN BytesOf(b) ELSE <<>>

Trimmed(f, data) == IF f.size > 0 THEN SubSeq(data, 1, Least(Len(data), f.size)) ELSE data

\* The extents flag without the magic leaves a copy from the journal no root.
Places(f, state) ==
    IF state = "unrooted" THEN Found(<<>>)
    ELSE IF f.extents THEN CollectExtents(f, Root(f, state))
    ELSE CollectLegacyBlocks(f, state = "intact")

RecoverInodeData(f, state) ==
    LET places == Places(f, state)
        read == [i \in DOMAIN places.found |->
                    IF f.extents THEN ReadExtent(f, places.found[i])
                    ELSE ReadBlock(f, places.found[i])]
    IN  [ok |-> places.ok, data |-> Trimmed(f, FlattenSeq(read))]

\* hasZeroedBlockData: a root above other nodes shows no extents either.
HasZeroedBlockData(f, state) ==
    LET root == Root(f, state)
    IN  IF f.extents
        THEN \/ ~root.magic
             \/ root.depth # 0
             \/ \A i \in DOMAIN root.entries : root.entries[i].start = 0
        ELSE state # "intact" \/ f.plan = <<>> \/ \A k \in DOMAIN f.plan : ~Mapped(f, k)
=============================================================================
