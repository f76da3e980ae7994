----------------------------- MODULE Ext4Parser -----------------------------
(***************************************************************************)
(* The ext4 parser as runExt4 drives it: ParseSuperblock, then             *)
(* ScanDeletedInodes through the inode tables of the groups, then the scan *)
(* of the journal; what either delivers is read with RecoverInodeData.     *)
(* Of the deleted files one, given by file, may still have its blocks in   *)
(* its inode, in copies of it in the journal, or in both.                  *)
(***************************************************************************)
EXTENDS Ext4File, Ext4Journal

CONSTANTS
    MaxExtentBlocks,      \* bound on the blocks of a file with extents
    MaxHeight,            \* bound on the height of its tree
    MaxPointerBlocks,     \* bound on those of a file with block pointers
    MaxTotal,             \* bound on sb.TotalBlocks
    GroupBlocks,          \* sb.BlocksPerGroup
    GroupInodes,          \* sb.InodesPerGroup
    InodesPerBlock,       \* sb.BlockSize / sb.InodeSize
    FirstTable,           \* the block where the first group's inode table begins
    Word                  \* 2^32: what the low half of an address can say

ASSUME Ext4ParserAssumption ==
    /\ {MaxHeight, MaxPointerBlocks, MaxTotal} \subseteq Nat /\ MaxExtentBlocks \in Nat \ {0}
    /\ {GroupBlocks, GroupInodes, InodesPerBlock, FirstTable, Word} \subseteq Nat \ {0}
    /\ GroupBlocks < Word

\* Blocks of a group's inode table.
TableBlocks == Ceiling(GroupInodes, InodesPerBlock)

\* What the low half of an address says reaches over the first group's table.
ASSUME Ext4TableAssumption == FirstTable + TableBlocks <= Word

\* What belongs to the file lies on the disk, its data before its tree; a tree is
\* no higher than what is followed and a file no longer than its pointers reach.
ASSUME Ext4LayoutAssumption ==
    /\ \A n \in {MaxExtentBlocks, MaxPointerBlocks} :
           FirstData + 2 * n < TreeBase /\ TreeBase + 10 * (n + 1) <= Blocks
    /\ MaxHeight <= MaxDepth + 1 /\ MaxHeight < 10
    /\ MaxPointerBlocks < LevelStart(3) + Span(3)
    /\ Stranger < Blocks

VARIABLES
    file,                 \* the deleted file, see Ext4File
    sb,                   \* TotalBlocks, FirstDataBlock, Feature64bit, GroupDescSize
    inodes,               \* inode number -> what stands in the tables
    badGroup,             \* group whose descriptor cannot be read, -1 for none
    maxGroups,            \* -max-groups, 0 for no limit
    group, index,         \* inode looked at next
    recovered             \* what came of the inodes delivered, in call order

filesystem == <<file, sb, inodes, badGroup, maxGroups>>
parserVars == <<filesystem, group, index, recovered, vars>>

-----------------------------------------------------------------------------
(* What can stand on the disk.                                             *)

\* Bound: blocks are preallocated at the end of a file only, where its size may
\* leave them out.
Plans(steps, bound) ==
    {plan \in UNION {[1 .. n -> steps] : n \in 1 .. bound} :
        /\ plan[1] # "preallocated"
        /\ \A k \in 1 .. Len(plan) - 1 :
               plan[k] = "preallocated" => plan[k + 1] = "preallocated"
        /\ \E k \in DOMAIN plan : plan[k] # "hole"}

\* The file ends with a block or one byte into it.
Sizes(plan) ==
    LET ends == {n \in DOMAIN plan : \A k \in n + 1 .. Len(plan) : plan[k] = "preallocated"}
    IN  {n * BlockSize : n \in ends} \cup {(n - 1) * BlockSize + 1 : n \in ends}

Sound(plan, extents, height, size) ==
    [plan |-> plan, extents |-> extents, height |-> height, size |-> size,
     bad |-> 0, hit |-> 0, damage |-> "none"]

OfAnySize(plan, extents, height) == {Sound(plan, extents, height, size) : size \in Sizes(plan)}

SoundFiles ==
    {f \in UNION {UNION {OfAnySize(plan, TRUE, h) : h \in 0 .. MaxHeight} :
                      plan \in Plans(Steps, MaxExtentBlocks)} : Fits(f)}
    \cup UNION {OfAnySize(plan, FALSE, 0) : plan \in Plans({"next", "hole"}, MaxPointerBlocks)}

NeverPreallocated(f) == \A k \in DOMAIN f.plan : f.plan[k] # "preallocated"

\* One block of data that cannot be read, or one of the tree damaged.
WithDamage(f, damage) == {[f EXCEPT !.hit = b, !.damage = damage] : b \in TreeBlocks(f)}

WithFault(f) ==
    {[f EXCEPT !.bad = b] : b \in DataBlocks(f)}
    \cup WithDamage(f, "unreadable") \cup WithDamage(f, "reused")
    \cup IF f.extents THEN WithDamage(f, "taken") \cup WithDamage(f, "loop") ELSE {}

SmallFile == Sound(<<"next">>, TRUE, 0, BlockSize)

\* A deleted regular file with its blocks, or without; "kept" is any other inode.
Inode == {"intact", "cleared", "wiped", "kept"}

Groups(s) == Ceiling(s.total - s.first, GroupBlocks)

\* GroupDescSize is set with 64 bits only, but for some that say 32; without
\* them no block's number has a high half.
Superblocks ==
    {s \in [total : 1 .. MaxTotal, first : {0, 1}, wide : BOOLEAN, descSize : {0, 32, 64}] :
        /\ s.total > s.first /\ s.wide = (s.descSize = 64)
        /\ ~s.wide => FirstTable + Groups(s) * TableBlocks <= Word}

NoJournal == [r \in {} |-> Other]

OneCopy(n) ==
    [r \in {0, 1} |-> IF r = 0 THEN Other ELSE [inode |-> n, deletionTime |-> 1, blocks |-> "intact"]]

\* Bound: of file, tables and journal one is as rich as the constants allow and
\* the other two are small.
OneGroup ==
    /\ sb = [total |-> GroupBlocks, first |-> 0, wide |-> FALSE, descSize |-> 0]
    /\ \E state \in Inode \ {"kept"} :
           inodes = [n \in 1 .. GroupInodes |-> IF n = 1 THEN state ELSE "kept"]
    /\ badGroup = -1 /\ maxGroups = 0

RichFile ==
    /\ OneGroup
    /\ \/ file \in SoundFiles /\ journal = OneCopy(1)
       \/ /\ file \in UNION {WithFault(f) : f \in {f \in SoundFiles : NeverPreallocated(f)}}
          /\ inodes[1] = "intact"
          /\ journal = NoJournal

RichTables ==
    /\ file = SmallFile
    /\ sb \in Superblocks
    /\ inodes \in [1 .. Groups(sb) * GroupInodes -> {"cleared", "kept"}]
    /\ badGroup \in -1 .. Groups(sb) - 1
    /\ maxGroups \in 0 .. Groups(sb)
    /\ journal = NoJournal

RichJournal ==
    /\ file = SmallFile
    /\ OneGroup /\ inodes[1] = "cleared"
    /\ JournalContent

ParserInit ==
    /\ RichFile \/ RichTables \/ RichJournal
    /\ pass = "superblock" /\ group = 0 /\ index = 0 /\ recovered = <<>>
    /\ NothingFound

-----------------------------------------------------------------------------
(* ParseSuperblock, ReadGroupDescriptor, ReadInode                         *)

\* The superblock may not be readable, or none.
ParseSuperblock ==
    /\ pass = "superblock"
    /\ pass' \in {"walk", "failed"}
    /\ UNCHANGED <<filesystem, group, index, recovered, journal, pos, found, delivered>>

\* How far mkfs puts the descriptors apart, and where a group's inode table; with
\* 64 bits the tables are as far apart as the high half of an address tells.
Stride == IF sb.wide THEN 64 ELSE 32

TableStart(g) == FirstTable + g * (IF sb.wide THEN Word ELSE TableBlocks)

\* Which of the inode-sized slots of the partition holds an inode.
Slot(n) == TableStart((n - 1) \div GroupInodes) * InodesPerBlock + ((n - 1) % GroupInodes)

\* What stands at an offset of the descriptor table; behind the last group, zeros.
DescriptorAt(offset) ==
    LET g == offset \div Stride
    IN  IF offset % Stride = 0 /\ g < Groups(sb)
        THEN [lo |-> TableStart(g) % Word, hi |-> TableStart(g) \div Word]
        ELSE [lo |-> 0, hi |-> 0]

\* What stands in the i-th slot from a block on: an inode, if it is in one of the
\* tables, or anything else.
SlotAt(block, i) ==
    LET here == {n \in DOMAIN inodes : Slot(n) = block * InodesPerBlock + i}
    IN  IF here = {} THEN "other" ELSE inodes[CHOOSE n \in here : TRUE]

DescSize == IF sb.descSize < 32 THEN 32 ELSE sb.descSize

\* Mutant: the high half is not looked at.
LowHalf(g) == DescriptorAt(g * DescSize).lo

InodeTable(g) ==
    LET gd == DescriptorAt(g * DescSize)
    IN  gd.lo + IF sb.wide /\ DescSize >= 64 THEN gd.hi * Word ELSE 0

ReadInode(num) ==
    LET g == (num - 1) \div GroupInodes
    IN  IF g = badGroup THEN "unreadable"
        ELSE SlotAt(InodeTable(g), (num - 1) % GroupInodes)

-----------------------------------------------------------------------------
(* ScanDeletedInodes                                                       *)

\* The first data block is not taken off the blocks.
NumGroups ==
    LET n == Ceiling(sb.total, GroupBlocks)
    IN  IF maxGroups > 0 /\ n > maxGroups THEN maxGroups ELSE n

InodeNum == group * GroupInodes + index + 1

\* Mutant: the index is not set back for the next group.
IndexGoesOn ==
    /\ index' = index + 1
    /\ group' = IF (index + 1) % GroupInodes = 0 THEN group + 1 ELSE group

Advance ==
    /\ index' = (index + 1) % GroupInodes
    /\ group' = IF index + 1 = GroupInodes THEN group + 1 ELSE group

Recovered(from, number, state) ==
    LET result == RecoverInodeData(file, state)
    IN  recovered' = Append(recovered,
            [from |-> from, number |-> number, state |-> state,
             marked |-> from = "table" /\ HasZeroedBlockData(file, state),
             ok |-> result.ok, data |-> result.data])

VisitDeleted ==
    /\ pass = "walk" /\ group < NumGroups
    /\ ReadInode(InodeNum) \in {"intact", "cleared", "wiped"}
    /\ Recovered("table", InodeNum, ReadInode(InodeNum))
    /\ Advance
    /\ UNCHANGED <<filesystem, vars>>

\* What is no inode may pass for a deleted file all the same, here for one with
\* a block of another file.
VisitDebris ==
    /\ pass = "walk" /\ group < NumGroups
    /\ ReadInode(InodeNum) = "other"
    /\ recovered' = Append(recovered,
           [from |-> "table", number |-> InodeNum, state |-> "debris",
            marked |-> FALSE, ok |-> TRUE, data |-> BytesOf(Stranger)])
    /\ Advance
    /\ UNCHANGED <<filesystem, vars>>

\* An inode that cannot be read, or is no deleted file, is passed over.
VisitOther ==
    /\ pass = "walk" /\ group < NumGroups
    /\ ReadInode(InodeNum) \in {"unreadable", "kept", "other"}
    /\ Advance
    /\ UNCHANGED <<filesystem, recovered, vars>>

EndWalk ==
    /\ pass = "walk" /\ group >= NumGroups
    /\ pass' = "open"
    /\ UNCHANGED <<filesystem, group, index, recovered, journal, pos, found, delivered>>

-----------------------------------------------------------------------------
(* ScanJournalForInodes                                                    *)

SearchJournal ==
    /\ Open \/ Look \/ EndRecords \/ EndBlocks \/ EndDelivery
    /\ UNCHANGED <<filesystem, group, index, recovered>>

DeliverCopy ==
    /\ Deliver
    /\ LET copy == delivered'[Len(delivered')]
       IN  Recovered("journal", copy.number, journal[copy.record].blocks)
    /\ UNCHANGED <<filesystem, group, index>>

ParserNext ==
    \/ ParseSuperblock \/ VisitDeleted \/ VisitDebris \/ VisitOther \/ EndWalk
    \/ SearchJournal \/ DeliverCopy

ParserSpec == ParserInit /\ [][ParserNext]_parserVars

-----------------------------------------------------------------------------
ParserTypeOK ==
    /\ pass \in {"superblock", "walk", "open", "records", "blocks", "deliver", "done", "failed"}
    /\ group \in Nat /\ index \in 0 .. GroupInodes - 1
    /\ ScanTypeOK
    /\ \A i \in DOMAIN recovered :
           /\ recovered[i].from \in {"table", "journal"}
           /\ recovered[i].number \in Nat
           /\ recovered[i].ok \in BOOLEAN /\ recovered[i].marked \in BOOLEAN
           /\ ~recovered[i].ok => recovered[i].data = <<>>
           /\ \A j \in DOMAIN recovered[i].data :
                  recovered[i].data[j] \in 0 .. Blocks * BlockSize - 1

\* Inodes of a group.
InodesOf(g) == g * GroupInodes + 1 .. (g + 1) * GroupInodes

\* The groups to be scanned whose descriptor can be read, and their deleted files.
Scanned == {g \in 0 .. Groups(sb) - 1 : maxGroups = 0 \/ g < maxGroups} \ {badGroup}

Wanted == {n \in UNION {InodesOf(g) : g \in Scanned} : inodes[n] # "kept"}

TableCalls == {i \in DOMAIN recovered : recovered[i].from = "table"}

\* The calls for inodes that there are.
InodeCalls == {i \in TableCalls : recovered[i].number \in DOMAIN inodes}

\* Every deleted file of the groups to be scanned whose descriptor can be read is
\* delivered once, under the number of its inode and in the order of the tables,
\* wherever the tables lie and however many blocks the last group has.  If the
\* first data block makes the walk count a group too many, what is read for that
\* group, files of the first one among it, comes behind all the others and under
\* numbers that no inode has; otherwise there is no call with such a number.
DeletedDelivered ==
    pass \notin {"superblock", "walk", "failed"} =>
        /\ {<<recovered[i].number, recovered[i].state>> : i \in InodeCalls} =
               {<<n, inodes[n]>> : n \in Wanted}
        /\ \A i, j \in TableCalls : i < j => recovered[i].number < recovered[j].number
        /\ NumGroups <= Groups(sb) => InodeCalls = TableCalls

-----------------------------------------------------------------------------
(* What RecoverInodeData promises.                                         *)

\* The bytes of the file's blocks in its order, holes left out.
Content ==
    FlattenSeq([k \in DOMAIN file.plan |->
        IF Mapped(file, k) THEN BytesOf(Place(file, k)) ELSE <<>>])

NoHoles == \A k \in DOMAIN file.plan : Mapped(file, k)

WrittenToTheEnd ==
    \A k \in DOMAIN file.plan : file.plan[k] = "preallocated" => (k - 1) * BlockSize >= file.size

\* Nothing of another file is followed: neither its data as pointers nor, as it has
\* the magic too, a node of its tree.
NoStrayPointers == file.damage # IF file.extents THEN "taken" ELSE "reused"

Results == {recovered[i] : i \in DOMAIN recovered}

\* ext4.go:2-3: the data block locations of deleted files.  Whatever the
\* height of the tree and the number of extents or levels of pointers, a file
\* without holes is put together byte for byte, and what is preallocated behind
\* its end is cut off.
FileRecovered ==
    \A r \in Results :
        r.state = "intact" /\ NoHoles /\ WrittenToTheEnd
          /\ file.bad = 0 /\ file.damage = "none" =>
        r.ok /\ r.data = SubSeq(Content, 1, file.size)

\* Every element of seq comes from content, each later one from further back.
InOrderOf(seq, content) ==
    /\ Range(seq) \subseteq Range(content)
    /\ \A i, j \in DOMAIN seq : i < j =>
           \E m, n \in DOMAIN content : m < n /\ content[m] = seq[i] /\ content[n] = seq[j]

\* A file with holes, with a block that cannot be read or with a damaged tree
\* comes out short, but with nothing in it that is not its own, nothing twice
\* and nothing out of order; unless a block of its tree holds what is followed
\* as its own but is another file's.
NothingForeign ==
    NeverPreallocated(file) /\ NoStrayPointers =>
        \A r \in Results : r.state # "debris" => InOrderOf(r.data, Content)

\* Bytes that a bad block costs: with extents all the rest of its extent.
BadBytes ==
    IF ~file.extents THEN Range(BytesOf(file.bad))
    ELSE UNION {UNION {Range(BytesOf(b)) : b \in file.bad .. e.start + e.length - 1} :
                    e \in {e \in Range(Extents(file)) :
                              file.bad \in e.start .. e.start + e.length - 1}}

\* Unless another file's node or data is followed as its own, a file that still
\* has its root is given up only for a damaged block of its tree, and misses no
\* byte but those behind a block that cannot be read; one not marked for the
\* journal is not empty for less.
LostForCause ==
    NeverPreallocated(file) /\ NoStrayPointers =>
        \A r \in Results :
            /\ r.state = "intact" /\ ~r.ok => file.damage # "none"
            /\ r.state = "intact" /\ r.ok =>
                   Range(SubSeq(Content, 1, Least(Len(Content), file.size))) \subseteq Range(r.data) \cup
                       (IF file.bad = 0 THEN {} ELSE BadBytes)
            /\ r.from = "table" /\ ~r.marked /\ r.data = <<>> =>
                   file.bad # 0 \/ file.damage # "none"
=============================================================================
