------------------------------ MODULE NtfsFile ------------------------------
(***************************************************************************)
(* From an MFT entry to the bytes of its file: ReadMFTEntry applies the    *)
(* fixups and walks the attributes, decodeDataRuns turns the mapping pairs *)
(* of $DATA into runs of clusters and RecoverFileData reads them one after *)
(* the other.  A pair is its two little-endian fields, of digits below     *)
(* Base; a byte is its offset in the partition, below 0 before it.         *)
(***************************************************************************)
EXTENDS Integers, Sequences, FiniteSets, SequencesExt

CONSTANTS
    Base,                 \* values of a byte, 256
    Width,                \* bound on the bytes of an offset
    Clusters,             \* clusters of the partition
    Before, Behind,       \* clusters of the device before and behind it
    ClusterSize,          \* boot.ClusterSize
    MaxRuns,              \* bound on the runs of the file
    MaxAttrs              \* bound on the attributes of the entry

ASSUME NtfsAssumption ==
    /\ {Width, Clusters, ClusterSize} \subseteq Nat \ {0}
    /\ {Before, Behind, MaxRuns, MaxAttrs} \subseteq Nat
    /\ Base \in Nat \ {0} /\ Base % 2 = 0

VARIABLES
    layout,               \* where the file lies: runs [start, count], start -1 for a hole
    size,                 \* its size in bytes
    attrs,                \* the attributes of its entry, in order
    torn,                 \* pair whose last byte a sector end replaces, 0 for none
    fixup,                \* the entry's update sequence is as it should be
    bad,                  \* clusters that cannot be read
    buf,                  \* the mapping pairs as they stand in buf
    i,                    \* attribute or run to be looked at next
    fileName,             \* entry.FileName: "" or "long"
    dataRuns,             \* entry.DataRuns
    fileSize,             \* entry.FileSize
    data,                 \* bytes read so far
    pc                    \* "entry", "walk", "read", then "unread", "crashed",
                          \* "skipped", "failed" or "done"

disk == <<layout, size, attrs, torn, fixup, bad>>
entry == <<fileName, dataRuns, fileSize>>
vars == <<disk, buf, i, entry, data, pc>>

\* entry.FileName as long as no attribute has named the file.
NoName == ""

Least(a, b) == IF a < b THEN a ELSE b

-----------------------------------------------------------------------------
(* How NTFS keeps a file.                                                  *)

Hole == -1

Runs == {r \in [start : 0 .. Clusters - 1, count : 1 .. Clusters] :
             r.start + r.count <= Clusters}

Apart(r, s) == r.start + r.count <= s.start \/ s.start + s.count <= r.start

Extent == Runs \cup {[start |-> Hole, count |-> 1]}

Layouts ==
    {l \in UNION {[1 .. k -> Extent] : k \in 0 .. MaxRuns} :
        \A j, k \in DOMAIN l :
            j < k /\ l[j].start # Hole /\ l[k].start # Hole => Apart(l[j], l[k])}

\* What is left of v above its k lowest digits.
Above(v, k) ==
    LET above[d \in 0 .. k] == IF d = 0 THEN v ELSE above[d - 1] \div Base
    IN  above[k]

\* The digits of v in a field of k bytes, two's complement: the highest bit of
\* the highest byte is the sign.
Written(v, k) == [d \in 1 .. k |-> Above(v, d - 1) % Base]

FitsIn(v, k) == -(Base \div 2) <= Above(v, k - 1) /\ Above(v, k - 1) < Base \div 2

Field(v) == Written(v, CHOOSE k \in 1 .. Width : FitsIn(v, k))

ASSUME FieldsAreWideEnough == \A v \in -Clusters .. Clusters : \E k \in 1 .. Width : FitsIn(v, k)

\* Start of the last run before the k-th that is no hole.
StartBefore(l, k) ==
    LET starts == {j \in 1 .. k - 1 : l[j].start # Hole}
    IN  IF starts = {} THEN 0
        ELSE l[CHOOSE j \in starts : \A m \in starts : m <= j].start

\* A hole has no offset; the others count from the run before them.
Pairs(l) ==
    [k \in DOMAIN l |->
        [count |-> Field(l[k].count),
         offset |-> IF l[k].start = Hole THEN <<>> ELSE Field(l[k].start - StartBefore(l, k))]]

\* The update sequence number stands where the sector ends.
UpdateSequence == 1

Tear(pairs, k) ==
    [j \in DOMAIN pairs |->
        IF j = k THEN [pairs[j] EXCEPT !.offset[Len(pairs[j].offset)] = UpdateSequence]
        ELSE pairs[j]]

\* "own" is the file's own $DATA, "resident" and "stream" are others; "bad" has
\* a length that is none, "short" is a $FILE_NAME or $DATA without what is looked
\* for in it, and "other" is any attribute the walk passes over.
Attributes == {"dos", "long", "own", "resident", "stream", "other", "bad", "short"}

\* The walk does not get past these.
Stops == {"bad", "short"}

\* The clusters of the device.
Device == -Before .. Clusters + Behind - 1

DeviceBytes == -Before * ClusterSize .. (Clusters + Behind) * ClusterSize - 1

\* Bytes of a run, in the order of the disk.
BytesOf(start, count) ==
    [k \in 1 .. count * ClusterSize |-> start * ClusterSize + k - 1]

\* The bytes of the file in its order, holes left out.
Content ==
    FlattenSeq([k \in DOMAIN layout |->
        IF layout[k].start = Hole THEN <<>> ELSE BytesOf(layout[k].start, layout[k].count)])

Holes == {k \in DOMAIN layout : layout[k].start = Hole}

\* The file ends with its last cluster or one byte into it.
Sizes ==
    LET total == Len(Content) + ClusterSize * Cardinality(Holes)
    IN  {total, total - (IF total = 0 THEN 0 ELSE ClusterSize - 1)}

Init ==
    /\ attrs \in UNION {[1 .. k -> Attributes] : k \in 0 .. MaxAttrs}
    /\ Cardinality({k \in DOMAIN attrs : attrs[k] = "own"}) <= 1
    /\ layout \in IF "own" \in Range(attrs) THEN Layouts ELSE {<<>>}
    /\ size \in Sizes
    /\ torn \in {0} \cup {k \in DOMAIN layout : layout[k].start # Hole}
    /\ fixup \in BOOLEAN /\ (torn = 0 => fixup)
    /\ bad \in {{}} \cup {{c} : c \in Device}
    /\ buf = IF torn = 0 THEN Pairs(layout) ELSE Tear(Pairs(layout), torn)
    /\ i = 1 /\ fileName = NoName /\ dataRuns = <<>> /\ fileSize = 0 /\ data = <<>>
    /\ pc = "entry"

-----------------------------------------------------------------------------
(* ReadMFTEntry                                                            *)

\* Mutant: the bytes at the sector ends stay as they are.
NoFixup == buf

\* applyFixup puts the bytes at the sector ends back; without a sequence that
\* fits the entry it does nothing, and the walk goes on all the same.
ApplyFixup == IF fixup THEN Pairs(layout) ELSE buf

ReadEntry ==
    /\ pc = "entry"
    /\ \/ buf' = ApplyFixup /\ pc' = "walk"
       \/ pc' = "unread" /\ UNCHANGED buf
    /\ UNCHANGED <<disk, i, entry, data>>

\* The digits of a field below what stands above them.
Read(field, above) ==
    LET read[n \in 0 .. Len(field)] ==
            IF n = 0 THEN above ELSE Base * read[n - 1] + field[Len(field) - n + 1]
    IN  read[Len(field)]

Unsigned(field) == Read(field, 0)

\* Mutant: no sign.
NoSign(field) == Unsigned(field)

\* A negative offset is filled up with ones.
Signed(field) == Read(field, IF 2 * field[Len(field)] >= Base THEN -1 ELSE 0)

\* Mutant: an offset counts from the start of the partition.
OffsetFromStart(prev, pair) == Signed(pair.offset)

PrevOffset(prev, pair) == prev + Signed(pair.offset)

\* Holes are left out.
DecodePair(before, pair) ==
    IF pair.offset = <<>> THEN before
    ELSE [prev |-> PrevOffset(before.prev, pair),
          runs |-> Append(before.runs, [start |-> PrevOffset(before.prev, pair),
                                        count |-> Unsigned(pair.count)])]

DecodeDataRuns(pairs) ==
    LET decoded[k \in 0 .. Len(pairs)] ==
            IF k = 0 THEN [prev |-> 0, runs |-> <<>>] ELSE DecodePair(decoded[k - 1], pairs[k])
    IN  decoded[Len(pairs)].runs

\* Some other stream's single run.
StreamRuns == <<[start |-> 0, count |-> 1]>>

TakeName(attr) == fileName' = IF attr = "long" THEN attr ELSE fileName

\* Every $DATA replaces what the one before it said, a resident one by nothing.
TakeData(attr) ==
    CASE attr = "own" -> dataRuns' = DecodeDataRuns(buf) /\ fileSize' = size
      [] attr = "stream" -> dataRuns' = StreamRuns /\ fileSize' = ClusterSize
      [] attr = "resident" -> dataRuns' = <<>> /\ fileSize' = 0
      [] OTHER -> UNCHANGED <<dataRuns, fileSize>>

Attribute ==
    /\ pc = "walk"
    /\ i <= Len(attrs) /\ attrs[i] \notin Stops
    /\ TakeName(attrs[i])
    /\ TakeData(attrs[i])
    /\ i' = i + 1
    /\ UNCHANGED <<disk, buf, data, pc>>

\* The end mark, or a length that leads out of the entry; the callback then
\* leaves an entry without a name or without runs.
EndWalk ==
    /\ pc = "walk"
    /\ i <= Len(attrs) => attrs[i] = "bad"
    /\ i' = 1
    /\ pc' = IF fileName = NoName \/ dataRuns = <<>> THEN "skipped" ELSE "read"
    /\ UNCHANGED <<disk, buf, entry, data>>

\* parseFileNameAttr and parseDataAttr look behind the end of an attribute that
\* is too short for them: the program panics.
Panic ==
    /\ pc = "walk"
    /\ i <= Len(attrs) /\ attrs[i] = "short"
    /\ pc' = "crashed"
    /\ UNCHANGED <<disk, buf, i, entry, data>>

-----------------------------------------------------------------------------
(* RecoverFileData                                                         *)

\* Clusters of the run up to the first that cannot be read, or is none of the
\* device's; the partition does not bound it.
Readable(run) ==
    LET stops == {k \in 0 .. run.count - 1 :
                      run.start + k \in bad \/ run.start + k \notin Device}
    IN  IF stops = {} THEN run.count ELSE CHOOSE k \in stops : \A m \in stops : k <= m

\* Mutant: what could not be read of a run stands in the file as it was in memory.
ReadRunWhole ==
    /\ pc = "read"
    /\ i <= Len(dataRuns)
    /\ data' = data \o BytesOf(dataRuns[i].start, dataRuns[i].count)
    /\ i' = i + 1
    /\ UNCHANGED <<disk, buf, entry, pc>>

ReadRun ==
    /\ pc = "read"
    /\ i <= Len(dataRuns)
    /\ Readable(dataRuns[i]) > 0
    /\ data' = data \o BytesOf(dataRuns[i].start, Readable(dataRuns[i]))
    /\ i' = i + 1
    /\ UNCHANGED <<disk, buf, entry, pc>>

\* Nothing of the run can be read: the file is given up.
RunFails ==
    /\ pc = "read"
    /\ i <= Len(dataRuns)
    /\ Readable(dataRuns[i]) = 0
    /\ pc' = "failed"
    /\ UNCHANGED <<disk, buf, i, entry, data>>

Trimmed == IF fileSize > 0 THEN SubSeq(data, 1, Least(Len(data), fileSize)) ELSE data

EndFile ==
    /\ pc = "read"
    /\ i > Len(dataRuns)
    /\ data' = Trimmed
    /\ pc' = "done"
    /\ UNCHANGED <<disk, buf, i, entry>>

Next == ReadEntry \/ Attribute \/ EndWalk \/ Panic \/ ReadRun \/ RunFails \/ EndFile

Spec == Init /\ [][Next]_vars

-----------------------------------------------------------------------------
TypeOK ==
    /\ i \in Nat \ {0}
    /\ fileName \in {NoName, "long"}
    /\ \A k \in DOMAIN dataRuns : dataRuns[k].start \in Int /\ dataRuns[k].count \in Nat
    /\ fileSize \in Nat
    /\ \A k \in DOMAIN data : data[k] \in DeviceBytes
    /\ pc \in {"entry", "walk", "read", "unread", "crashed", "skipped", "failed", "done"}

\* Attributes the walk gets to.
Walked == {k \in DOMAIN attrs : \A j \in 1 .. k : attrs[j] \notin Stops}

Has(attr) == \E k \in Walked : attrs[k] = attr

\* The entry says where one stream lies and nothing distorts it.
Faithful == Has("own") /\ ~Has("resident") /\ ~Has("stream") /\ (torn # 0 => fixup)

\* Byte b lies in the k-th run of the file.
InRun(b, k) ==
    /\ layout[k].start # Hole
    /\ b \in layout[k].start * ClusterSize .. (layout[k].start + layout[k].count) * ClusterSize - 1

OwnClusterBad ==
    \E k \in DOMAIN layout \ Holes :
        \E c \in layout[k].start .. layout[k].start + layout[k].count - 1 : c \in bad

\* docs/index.html:1329: data runs "handle fragmentation".  A fragmented file is
\* put together byte for byte, wherever its runs lie before and after each other
\* and whichever of them a sector end cuts, and is cut to its size; its name is
\* the long one, with the DOS name before it, after it or missing.
FileRecovered ==
    pc = "done" /\ Faithful /\ Holes = {} /\ ~OwnClusterBad =>
        data = SubSeq(Content, 1, size) /\ fileName = "long"

\* Where the walk stops at an attribute too short.
TooShort(k) == attrs[k] = "short" /\ \A j \in 1 .. k - 1 : attrs[j] \notin Stops

\* A file is left out only for want of a name or of data, given up only for a
\* cluster of its own that cannot be read, and lost with the rest of the run only
\* for an attribute that ends before what is looked for in it.
LostForCause ==
    Faithful =>
        /\ pc = "crashed" => \E k \in DOMAIN attrs : TooShort(k)
        /\ pc = "skipped" => ~Has("long") \/ Holes = DOMAIN layout
        /\ pc = "failed" => OwnClusterBad

\* A file with holes or with clusters that cannot be read comes out short, but
\* with nothing in it that is not its own, nothing twice and nothing out of order.
NothingForeign ==
    pc \in {"read", "done"} /\ Faithful =>
        /\ \A m \in DOMAIN data : \E k \in DOMAIN layout : InRun(data[m], k)
        /\ \A m, n \in DOMAIN data : m < n =>
               \A j, k \in DOMAIN layout :
                   InRun(data[m], j) /\ InRun(data[n], k) => j < k \/ (j = k /\ data[m] < data[n])

-----------------------------------------------------------------------------
(* What keeps the entry, the runs and the bytes together.                  *)

Digit == 0 .. Base - 1

Pair == [count : Seq(Digit), offset : Seq(Digit)]

DataRun == [start : Int, count : Nat]

OwnRuns == DecodeDataRuns(Pairs(layout))

\* The first k runs one after the other.
Joined(runs, k) == FlattenSeq([j \in 1 .. k |-> BytesOf(runs[j].start, runs[j].count)])

\* The file lies on the disk in runs that do not share a cluster, and its pairs
\* are read as they were written unless a sector end is left in them.
AsWritten ==
    /\ layout \in Seq(Extent)
    /\ \A j, k \in DOMAIN layout :
           j < k /\ layout[j].start # Hole /\ layout[k].start # Hole => Apart(layout[j], layout[k])
    /\ attrs \in Seq(Attributes)
    /\ size \in Nat
    /\ Holes = {} /\ layout # <<>> => size \in 1 .. Len(Content)
    /\ buf \in Seq(Pair)
    /\ torn = 0 \/ (fixup /\ pc \notin {"entry", "unread"}) => buf = Pairs(layout)

Seen(attr) == \E k \in 1 .. i - 1 : attrs[k] = attr

\* The entry as far as the walk has come.
EntrySoFar ==
    /\ pc = "entry" => i = 1 /\ fileName = NoName /\ dataRuns = <<>>
    /\ pc \in {"entry", "walk"} => data = <<>>
    /\ pc = "walk" =>
           /\ i \in 1 .. Len(attrs) + 1
           /\ \A k \in 1 .. i - 1 : attrs[k] \notin Stops
           /\ fileName = IF Seen("long") THEN "long" ELSE NoName
           /\ ~Seen("resident") /\ ~Seen("stream") /\ (torn # 0 => fixup) =>
                  IF Seen("own") THEN dataRuns = OwnRuns /\ fileSize = size ELSE dataRuns = <<>>

\* Where the program has panicked.
CrashedAt ==
    pc = "crashed" =>
        /\ i \in DOMAIN attrs /\ attrs[i] = "short"
        /\ \A k \in 1 .. i - 1 : attrs[k] \notin Stops

\* The entry that is handed on.
EntryTaken ==
    pc \in {"skipped", "read", "failed", "done"} =>
        /\ fileName = IF Has("long") THEN "long" ELSE NoName
        /\ Faithful => dataRuns = OwnRuns /\ fileSize = size
        /\ (pc = "skipped") <=> (fileName = NoName \/ dataRuns = <<>>)

\* Byte b lies in the k-th run of the entry.
InDataRun(b, k) ==
    b \in dataRuns[k].start * ClusterSize
              .. (dataRuns[k].start + dataRuns[k].count) * ClusterSize - 1

\* The bytes read are of the runs before the i-th, in the order of the runs and
\* of the disk.
BytesInOrder ==
    pc \in {"read", "done"} /\ Faithful =>
        /\ \A m \in DOMAIN data : \E k \in 1 .. i - 1 : InDataRun(data[m], k)
        /\ \A m, n \in DOMAIN data : m < n =>
               \A j, k \in DOMAIN dataRuns :
                   InDataRun(data[m], j) /\ InDataRun(data[n], k) =>
                       j < k \/ (j = k /\ data[m] < data[n])

\* What has been read is the beginning of the file.
WholeSoFar ==
    Faithful /\ Holes = {} /\ ~OwnClusterBad =>
        /\ pc = "read" => data = Joined(layout, i - 1)
        /\ pc = "done" => data = SubSeq(Content, 1, size)

\* The inductive invariant.
Inductive ==
    /\ TypeOK
    /\ dataRuns \in Seq(DataRun) /\ data \in Seq(Int)
    /\ AsWritten
    /\ EntrySoFar
    /\ CrashedAt
    /\ EntryTaken
    /\ pc = "read" => i <= Len(dataRuns) + 1
    /\ pc = "done" => i = Len(dataRuns) + 1
    /\ BytesInOrder
    /\ WholeSoFar
    /\ pc = "failed" /\ Faithful => OwnClusterBad
=============================================================================
