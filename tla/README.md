# Verification of the file recovery tool

TLA+ models of the recovery tool in `src/`, model-checked with TLC, and proofs
of the most important invariants with TLAPS. The program is a command line tool
in Go: it reads a disk or a disk image, finds files that are no longer listed
(or whose file system is gone) and writes them to an output directory.

## 1. The system

### 1.1 Components

| Component | Source | State | Operations |
|---|---|---|---|
| Block reader | `pkg/scanner/scanner.go` | device, its size | `ReadAt`, `ScanBlocks`, `SampleForZeroBlocks` |
| Carver: scan | `pkg/carver/carver.go` `Scan` | block size, tail of the block before, offset | search of each block with that tail, call of `extractFile` per header |
| Carver: extraction | `carver.go` `extractFile`, `extractZip` and what they call | `recoveredRanges`, `counter`, `results`, output directory | find a file's end in chunks, validate, classify, filter, number, write |
| Signatures | `pkg/signature` | constant registry | `MatchHeader`, `ForTypes` |
| NTFS parser | `pkg/ntfs/ntfs.go` | boot sector | walk the MFT, parse an entry, decode data runs, read the file |
| ext4 parser | `pkg/ext4/ext4.go` | superblock | walk inode tables, scan the journal, read the blocks of an inode |
| Commands | `cmd/recover/main.go` `runCarve`, `runNTFS`, `runExt4` | count, report | callback per file, report at the end |
| Auto, wizard, command line | `main.go` `main`, `runInteractive`, `runAuto` | answers of the user | prompts, warnings, detection, hand-over to a command |
| Menus | `pkg/tui` | terminal mode, cursor | `SelectOption`, `Confirm`, `AskInput` |
| Report | `pkg/output` | none | `WriteReport`, `PrintSummary` |
| Disk listing | `main.go`, output of `lsblk`, `df`, `wmic` | none | parse text |

### 1.2 How they interact

Everything runs in one goroutine. A parser or the block reader calls back a
closure of the command for each block, entry or inode; the closure reads more of
the disk through the same reader and writes to the output directory. What makes
the code hard is therefore not interleaving but:

* **windows**: data arrives in blocks (scan) and chunks (extraction), and what
  is looked for lies across their boundaries or ends with them exactly;
* **order of decisions**: header by header the carver decides with what earlier
  headers left behind (ranges, counter), before or after filter and write;
* **failures in the middle**: a read error with part of a block, a write that
  fails before or after it creates the file, an entry that cannot be parsed,
  an interrupt, a second run into the same directory;
* **caches made of positions**: the journal's inodes get numbers made from where
  they stand, twice;
* **legal sequences** of prompts, warnings and hand-overs that must not start a
  recovery nobody agreed to, or start it with other arguments.

### 1.3 What makes each part correct

* Scan: every header is handed over, once, lowest offset first; a read error
  loses only what was not read; the loop ends.
* Carver: no byte in two archives, no archive lost for its neighbour, every
  result on disk, whole, under its own name; nothing overwritten in a run.
* End of a file: no marker passed over, a file that lies alone is cut at its
  end, wherever chunks end.
* Commands: what a report says is in the directory; one failure costs one file.
* NTFS: a fragmented file comes out byte for byte, a damaged one with nothing
  foreign in it.
* ext4: every deleted inode delivered once under its number; its file put
  together byte for byte, or short with nothing foreign in it unless a block of its
  tree is another file's by now and looks the part; each copy in the journal
  that the code takes for usable delivered once by the two passes together.
* TRIM detection: different blocks are sampled, all of them on the disk, and the
  share is of what could be read.
* Session: no recovery without consent; it runs with what was asked.

`PROJECT.json` lists each hazard at its line with the properties that cover it.

## 2. The modules

| Module | Models | Uses |
|---|---|---|
| `HeaderSweep` | abstract specification: what a signature scan promises | |
| `BlockScan` | `ScanBlocks` with `Scan`'s callback | refines `HeaderSweep` |
| `Carver` | `extractFile`'s bookkeeping on each header | extends `HeaderSweep` |
| `CarveCommand` | `runCarve`: report, failures, interrupts, reruns | extends `Carver` |
| `PdfEnd` | chunk loop and `findPDFEnd` for one PDF header | |
| `ZipEnd` | chunk loop, `findValidZipEnd` and `validateZip` for one archive header | |
| `FsRecovery` | `runNTFS` and `runExt4` with their callbacks and the journal pass | |
| `NtfsFile` | one MFT entry from fixups to bytes | |
| `Ext4File` | where ext4 keeps a file's blocks, and how `RecoverInodeData` finds them again (operators only) | |
| `Ext4Journal` | `ScanJournalForInodes` | |
| `Ext4Parser` | the ext4 parser as `runExt4` drives it: superblock, inode tables, journal, data | extends `Ext4File`, `Ext4Journal` |
| `Session` | `main`, `runInteractive`, `runAuto` | |
| `ZeroSample` | `SampleForZeroBlocks`, a function | |
| `SequenceLemmas` | lemmas: appending, sets of numbers, recursive functions, sequences put together of pieces | |
| `BlockScanProofs` | theorems about `BlockScan` and `ZeroSample` | extends both |
| `CarverProofs` | theorems about `Carver` and `CarveCommand` | extends `CarveCommand` |
| `PdfEndProofs`, `ZipEndProofs`, `FsRecoveryProofs`, `NtfsFileProofs`, `Ext4ParserProofs` | theorems about the module of that name | extends it |

The layers fit together at three seams. `HeaderSweep` is the seam between the
scan and the carver: `BlockScan` is shown to implement it and `Carver` is
written on top of it, one visit one `extractFile`. In `Carver` a header carries a
verdict ("valid" with an end, "junk", "fragment"): `PdfEnd` and `ZipEnd` show
how the code comes to it. `FsRecovery` takes entries of which is given what
can be read of them: `NtfsFile` and `Ext4Parser` show how the parsers come to
it. `Session` ends where a command starts.

### 2.1 BlockScan

A disk is its size and the set of offsets where a header stands (headers do not
overlap: neither `%PDF` nor `PK\3\4` overlaps itself or the other). `ReadBlock`
and `ReadBadBlock` are `ReadAt` (full, to the end with EOF, or short with an
error), `Probe` is one position of the search of `searchBuf`, `EndBlock` the rest
of the callback, which keeps the tail, and what `ScanBlocks` does with the error
after it. Offsets are absolute; `AlreadySearched` is the test on the tail.

### 2.2 Carver and CarveCommand

`Carve` is one call of `extractFile` or `extractZip`: `Ignore` (inside a range
already carved), `Reject`, `Warn`, `FilterOut`, `Save`, `SaveFails`. A failed
write leaves no file or part of one. The range is added before the filter is
asked, the counter moves before the write, as in the code. `CarveCommand` adds
what ends a run (`ExitOnScanError`, `WriteReport`, `Interrupt`) and `Rerun`,
which starts again with fresh state and the directory of the run before. A rerun
extracts anew, and a read that failed may come off now, or the other way round:
`Reread` says what it may find at a header (a PDF may be found, lost or cut
elsewhere; an archive found or lost, since a sound one has one end). `changed`
remembers the headers that two runs found differently.

A PDF adds no range and consults none: an archive in a PDF, or a PDF in one, is
extracted a second time. The code has it so, no document says otherwise, and
nothing is claimed about PDFs and ranges.

### 2.3 PdfEnd and ZipEnd

Bytes are abstracted to where markers, newlines and records stand. `ReadChunk` is
one turn of the chunk loop, short reads included. In `PdfEnd` each search sees
only the chunk and `EofLen - 1` bytes before it. `Accept` and `Refuse` are what
follows: the test of the length (`LongEnough`) and `validatePDF` (`ValidPdf`), that is
the least size, `startxref` or a bare `xref` (`HasXref`), and in one verdict, `sound`,
what does not depend on where the markers are: version, object, trailer, control
bytes. A file that fails is warned of if it looks like a fragment (`pages`). In
`ZipEnd` the search goes on
where `lastChecked` says. `ZipEnd`'s `Valid(to)` is `validateZip` on the first `to`
bytes: local header, the last record that ends there, its directory. The checks
inside the directory and the test decompression are one verdict per record.

### 2.4 FsRecovery

`table` is what `ScanMFT` or `ScanDeletedInodes` goes through, `copies` what the
journal holds; `VisitEntry` and `VisitCopy` are the callbacks: skip, save, or fail
to write. The journal's inodes come in any order, since the code ranges over a
Go map. `DetectFileType` has the order of the tests of `detectFileType`; the names
that decide are in `marks`, those of them that stand in the first 4096 bytes
in `head`. An MFT entry that makes the parser panic (`NtfsFile`) is left out here: it
ends the command without report, as a kill does.

### 2.5 NtfsFile

`layout` is where the file lies. `Pairs` writes it the way NTFS does, as
little-endian fields wide enough for the number and its sign, and `Tear` puts the
update sequence number where a sector ends; both describe disks, and are written
apart from the decoder: a field is written by dividing (`Above`, `Written`) and read
by adding up its digits below the sign (`Read`, `Signed`). `ReadEntry` applies the
fixups, `Attribute` is one turn of the walk, `DecodePair` one turn of the decoder's
loop and `DecodeDataRuns` all of it; `ReadRun`, `RunFails` and `EndFile` are
`RecoverFileData`. A read is bounded by the device only: with `-offset` a stray run
reads before or behind the partition, and `Device` has `Before` clusters in front of the
partition's and `Behind` after them. An attribute may lead out of the entry ("bad"), which ends
the walk, or be too short for what is looked for in it ("short"), which ends the
program: `Panic` (ntfs.go:274, 280 and 316 index without a test). `Base` is 256 in the source
and 6 in the run, so that offsets of
one and two bytes, negative and positive, occur on a partition of four clusters. The
counts and offsets of a partition fit in an int64 (`FieldsAreWideEnough` with
`Width` 8), so that the shifts of the source lose nothing.

### 2.6 ext4

A file is a plan: each of its blocks lies right behind the one before it or apart
from it, is preallocated but not written, or is a hole. `Ext4File` derives from the
plan what stands on the disk (extents and the nodes of their tree, or the values
of direct and indirect pointers) and, apart from that, has the code's way back:
`ParseExtentNode`, `ReadIndirectBlocks`, `CollectLegacyBlocks`, `ReadExtent` and
`RecoverInodeData`. The two recursive functions of the source are functions of how
many nodes or levels may still be followed: `CollectExtents` parses every block with
none left, then with one, and so on; `ReadLevels` does the same for the levels of
pointers, and `ReadPointers` is the loop over one block of them. A byte is its
offset in the partition, so that a byte of another file shows. One data block may be
unreadable, or one block of the tree be unreadable, written over with another
file's data ("reused"), with a node of another file's tree ("taken"), or name itself as
its child. Only the magic of a node is asked for (ext4.go:661-669), so that a node that is
taken gives the other file's extents, as a block of pointers that is reused gives
other files' data for pointers. `Places` also has the copies from the journal whose
flags and root do not go together: they come out empty.

`Ext4Parser` is one run of the parser: `ParseSuperblock`, the walk of
`ScanDeletedInodes` (`VisitDeleted`, `VisitDebris`, `VisitOther`) and the journal. Where group
descriptors and inode tables lie follows from the superblock (`DescriptorAt`,
`TableStart`); `InodeTable`, `ReadInode`, `NumGroups` and `Advance` are the code's
arithmetic. An inode is what stands in an inode-sized slot of the partition (`Slot`, `SlotAt`).
If `FirstDataBlock` is 1 and the last group just full, `NumGroups` is one too many; its
descriptor is zeros, and its "table" is what stands from block 0 on: the boot
block, the first group's table, whatever follows. An inode of that table is delivered
again, and what is no inode may pass for a deleted one (`VisitDebris`). `Recovered` is
what the callback is handed and reads.

In `Ext4Journal`, `journal` is the sequence of inode-sized records, each a copy of an inode or
something else. What a copy says of its blocks is one of `Areas`: all, a root without
entries, words that make no root, or nothing; the code takes all but the last
(`Usable`). `Look` examines one in either pass, `SyntheticNum` is the number
it gets, `Deliver` the loop over the map.

### 2.7 Session

`step` is where the program stands. The actions of the wizard are its prompts in
order, each with the answers it takes, Ctrl+C included. `HandOver` builds the
arguments auto passes on. `IsOnSameDevice` has the branches of the code: a
`PhysicalDrive` is never warned of, two drive letters are compared, and otherwise `df`
is asked. `Refuse` and `Recover` stand for the commands: which
arguments they refuse, and that they run.

## 3. What is checked

| Run | Properties beside types | What it shows |
|---|---|---|
| `block_scan` | `VisitedInOrder`, `NothingMissed`, `ErrorLosesOnlyUnread`, `Sweeps`, `Terminates` | the sliding window finds each header once, in order, across boundaries; implements `HeaderSweep`; ends |
| `carver` | `RangesDisjoint`, `EveryArchiveCarved`, `ResultsOnDisk`, `NeverOverwrites` | nested, adjacent and broken archives, any filter, any failing writes |
| `carve_command` | `ReportMatchesDirectory`, `RerunKeepsNumbers` | report and directory agree over reruns and interrupts; numbers move only behind a header that two runs read differently |
| `pdf_end` | `NoFooterPassed`, `LonePdfSaved`, `Terminates` | chunk boundaries lose no `%%EOF`, and a lone PDF is lost for its bytes or a read error only |
| `zip_end` | `NoArchivePassed`, `LoneArchiveSaved`, `Terminates` | resuming the search loses no archive |
| `fs_recovery` | `EntriesOnDisk`, `WantedSaved`, `NeverOverwrites` | one failure costs one file; report and directory agree |
| `ntfs_file` | `FileRecovered`, `NothingForeign`, `LostForCause` | decoder against the encoding it must undo |
| `ext4_parser` | `DeletedDelivered`, `FileRecovered`, `NothingForeign`, `LostForCause`, `UsableDeliveredOnce` | the tables are walked without slip, trees and pointers are followed to the file's own bytes and no others, two passes of the journal make one delivery |
| `session` | `NothingWithoutConsent`, `ChoicesReachEngine`, `SameDiskAccepted`, no deadlock | every sequence of answers |
| `pdf_chunks` | `ChunksUnseen` (violated) | finding 1 |
| `ext4_pre_deletion` | `PreDeletionCopiesUsed` (violated) | finding 2 |
| `fs_workbook` | `WorkbookIsXlsx` (violated) | finding 3 |

Findings, each with its counterexample:

1. `extractFile` applies `findPDFEnd` to one chunk at a time. An orphan `%%EOF` in
   an earlier chunk is taken although a proper one follows, and a proper one whose
   `startxref` lies in the chunk before is passed over for the next file's.
2. The journal is searched for copies of inodes from before their deletion, but
   records without deletion time are skipped, and those copies have none.
3. `detectFileType` calls every archive with `[Content_Types].xml` a DOCX, and every
   workbook has one: the ext4 command saves workbooks as `.docx`, and none with
   `-type xlsx`.

Differences between code and documents met on the way and not given a run: the
100 MB limit of a PDF is never raised to `MaxSize` (carver.go:241-249); PDFs
without footer are rejected, not saved up to `MaxSize` (docs/index.html:724);
the first footer is used, not the last (context.md:70); the count of journal
files includes failed writes (main.go:526-528); samples for zero blocks are
evenly spaced, not "at random offsets" (scanner.go:67, 83), so a disk with the
same period can be misjudged; Ctrl+C at the verbose prompt
counts as No (main.go:857-860); a scan error in `runCarve` ends without report
(main.go:171-174); records of the journal that have the magic and no entries, or
words that are no pointers, pass for "usable extent/block pointer data" (ext4.go:440)
and are delivered empty; the group too many of ext4.go:295, whose inodes come
from block 0 on under numbers no inode has; numbers of inodes from the journal,
which differ with the order of a Go map (ext4.go:589).

### 3.1 Bounds

* `BlockScan`: 11 bytes, headers of 4, blocks of 3, 4, 5 and 7: a header may lie
  in the tail, across one boundary, end with a block, and a block may be shorter
  than a header, as short as `WideEnough` allows; three blocks and more occur.
* `Carver`: headers at 0, 2 and 3 of 4 bytes: nested, adjacent and separate
  archives. `CarveCommand` has two offsets and two runs.
* `PdfEnd`: `%%EOF`, `startxref` and `xref` of 2 bytes, chunks of 4, limit 9, disk up
  to 10, window 3, a least size of 6 and a least body of 3: each marker is cut by
  each chunk boundary, the limit cuts the file, and files too short and just long
  enough occur.
* `ZipEnd`: records of 2 bytes with comments up to 2, chunks of 3, limit 8: a
  longest record spans more than a chunk.
* `FsRecovery`: two entries in table and journal together: one before and one after
  each failure, or one on each side. More entries are covered by the proofs.
* `NtfsFile`: three runs (one may be a hole between two), two attributes, one
  unreadable cluster, clusters of two bytes so that the last can be partial; a
  cluster of the device before the partition and one behind it.
* `Ext4Parser`: the initial states are the union of three families, of which each
  makes one part of the disk rich and the other two small: files (up to five
  blocks in extents, eight behind pointers), tables (up to seven blocks in
  groups of three, 32 and 64-bit descriptors, a descriptor that cannot be read,
  `-max-groups`), journals (four records in blocks of two: the second pass begins at the
  second block, the last block is cut short). The parser keeps nothing from one
  file to the next but the superblock, so the parts meet in the small ones.
  With two entries in a node and two pointers in a block, one direct pointer and
  blocks of two bytes, trees up to `MaxHeight` 2 (three levels with the root, all that
  five extents need), all three levels of indirection, and a file that ends inside a
  block occur; `Word` is 16 for 2^32. Blocks are
  preallocated only from some point to the end of a file; a unit that cannot be read
  is a block; there is one fault in a file.
* `Session`: nothing unbounded.

`CHECK_DEADLOCK FALSE` stands where the modelled program ends; `Session` has an
explicit last state instead.

### 3.2 Fairness

Only weak fairness of the whole next-state relation, in `BlockScan`, `PdfEnd` and
`ZipEnd`: a single goroutine runs the loop, and nothing in it waits
for anybody but the device, which answers with data or an error. No action is
given fairness of its own: a read or write may fail each time.

## 4. What is proved

For every value of the constants that meets the named assumptions:

* `BlockScanProofs` (assuming `WideEnough`: overlap and blocks hold a header but
  its last byte): `ScanTypes`, `ScanInOrder`, `ScanMissesNothing`,
  `ScanErrorLosesOnlyUnread`, and `ScanRefinesSweep`, that `BlockScan` implements
  `HeaderSweep`. The inductive invariant adds `Progress`: between blocks exactly
  the headers that end by `offset` have been found, inside a block also those that
  end in it and start below `cur`, and the tail is that of a whole block; without
  the last part a header across the boundary could be forgotten. `WideEnough` is
  needed: with blocks of one or two bytes, which `-block-size` allows, a header of
  four spans more blocks than the tail remembers.
* `CarverProofs`: `CarverTypes`, `CarvesDisjointRanges`, `CarvesEveryArchive`,
  `CarverResultsOnDisk`, `CarverNeverOverwrites`. The inductive invariant adds
  `Swept` (all that is pending lies above all that was visited), without which an
  archive could be found below a range and overlap it from the front,
  `RangesStartAtHeaders` and `NamesNumbered` (no file has a number above the
  counter), which makes the next name new.
  Of the command: `CommandTypes`, `CommandReportTrue`, `CommandKeepsNumbers` and
  `EveryRunSound` (what is proved of a run by itself holds of each run into the
  directory). A rerun finds files of the run before and starts counting again, so
  that `NamesNumbered` is lost and only the rest, `RunInductive`, goes on;
  `ReportStands` says in its place that a report, once written, is not overtaken.
  For the numbers `NumberedByDisk` ties each file to the rank of its header among
  those that get a number. The rank depends on the filter and on what extraction
  finds at the headers before it, so that it is claimed only of files below the
  first header that two runs found differently (`Steady`).
* `PdfEndProofs`: `PdfTypes`, `PdfPassesNoFooter`, `PdfSavesLonePdf`. The inductive
  invariant adds `NothingCut` (while no end is found, all that was to be read was, and
  holds no whole footer) and `CutAtMarker` (an end that was found belongs to a marker
  in what was read). `PdfSavesLonePdf` says where a lone PDF is cut, and that it is
  then saved if it is long enough and the rest of its bytes satisfies `validatePDF`. That the smallest
  of a set of positions exists comes from the well-foundedness of the order.
* `ZipEndProofs`: `ZipTypes`, `ZipPassesNoArchive`, `ZipSavesLoneArchive`. The
  inductive invariant adds `SearchBehind`: a record below `lastChecked`, however
  long its comment, ended within what was searched already.

* `FsRecoveryProofs` (assuming that the five types are among `Types`): `FsTypes`,
  `FsEntriesOnDisk`, `FsWantedSaved`, `FsNeverOverwrites`, for any number of entries.
  The inductive invariant adds `DealtWith` (what has been delivered so far is
  reported, failed or not wanted, and the phase says how much that is); that no
  name has a number above the count is part of `TypeOK`. `WantedKept` is the lemma
  that the tests for type, filter and validity do not contradict each other.
* `Ext4ParserProofs`: `JournalDeliversOnce` and `ParserDeliversOnce`, for any journal and
  any number of records in a block. The inductive invariant adds that a number is
  the position of the record it stands for (`FoundAtPosition`), without which the
  second pass could find a record again under another number, and `UsableFound`, that
  the first pass leaves none out. What has the magic or a word other than zero is
  delivered, whether or not anything can be read of it.
  Of the walk: `ParserDeliversDeleted`, for any number and size of groups,
  descriptors of 32 and 64 bytes, any descriptor that cannot be read and any
  `-max-groups`, assuming that a group has fewer than 2^32 blocks, that the first
  table ends below block 2^32 (`Ext4TableAssumption`) and that without 64-bit
  descriptors all tables do (`Superblocks`). `WalkInductive` says that what has been handed over is `Due`: the
  deleted inodes before the next one, in the order of the tables, and behind them at
  most what is read for the group too many. The lemmas under
  it are the arithmetic: the two halves of a block number put together
  (`Halves`), the number of groups (`GroupFacts`), tables that do not meet
  (`TablesApart`) and the position an inode number stands for (`ReadInodeFacts`).
  Of the files: `ParserTyped`, `ParserRecoversFile`, `ParserKeepsOrder` and
  `ParserLosesForCause`; see 4.1.
* `NtfsFileProofs`: `NtfsTypes`, `NtfsRecoversFile`, `NtfsNothingForeign`,
  `NtfsLostForCause`, for any base, partition, cluster size and number of runs and
  attributes, assuming that fields are wide enough for the partition. The argument
  has three parts. *Fields*: what `Read` makes of `Written` is the number
  (`WrittenFacts`), from the sign downwards. *Run lists*: `DecodeFacts`, that after k
  pairs the decoder has the first k runs without the holes, and in `prev` the start
  of the last of them; here an offset counted from anywhere else would show. *The
  entry*: the inductive invariant `Inductive` ties the entry to the attributes seen so
  far (`EntrySoFar`, `EntryTaken`), the pairs in the buffer to the layout
  (`AsWritten`) and the bytes read to the runs before the next one (`BytesInOrder`,
  `WholeSoFar`); that a byte lies in one run at most comes from the layout, whose
  runs share no cluster. A byte is shown to be one of the device's, not of the
  partition's, since nothing else bounds a read; that a faithful entry's bytes are
  its own follows from its runs. `CrashedAt` says where a panic can come from.
* `ZeroSample` (functions, no state; proofs in `BlockScanProofs`): `SamplesOnDisk`,
  `SamplesApart`, `SamplesCover`, `ShareOfSamples`, for every size of disk and block and
  every number of samples. `SamplesCover` says what is never looked at: the blocks
  behind the last step.

`SequenceLemmas` has what appending does to a sequence's range, and what replaces
the induction theorems, which the provers cannot instantiate: `UpTo` is induction up
to a number stated with a set instead of a predicate, proved from the
well-foundedness of the order; with it `Recursion` gives a recursive function its
values one by one and `Same` shows it to be the only one. The decoder, the fields and
`FlattenSeq` are reasoned about this way. Sequences put together of pieces, the bytes
of runs and of blocks, are `FirstOf(f, k)`, the first k pieces one behind the other:
`FirstOfFacts` adds a piece, `Split` cuts between two, `Pieces` says where in a piece an
element of the whole stands.

### 4.1 The files of ext4

The four theorems hold for every size of block, any number of entries in a node and
pointers in a block, any number of direct pointers, trees of any height that is
followed and files of any plan, with one fault or none; `ParserKeepsOrder` and
`ParserLosesForCause` leave out the two faults no reader can tell, another file's node in a tree
and another file's data for pointers (`NoStrayPointers`). Two assumptions are made of
the constants. `Ext4ParserAssumption` says which of them are numbers, and not zero.
`Ext4LayoutAssumption` says that what belongs to a file lies on the disk, its data
before its tree, that a tree is no higher than what `parseExtentNode` follows (ext4
allows five levels below the root, and five are followed) and that a file is no longer
than its pointers reach: what the file system sees to when it writes the file. That
a height has one digit is a matter of the model, which numbers the blocks of a tree by
place and depth (`TreeBlock`). How long a file, how high a tree is stays open.

The state says little here, since a file does not change: the inductive invariant
`ParserInductive` is that of the journal and that of the walk, and `EachRecovered`: the
file is `Stored`, laid out as one of the initial states has it, and every call carries
what `RecoverInodeData` makes of it. What that is, `Recovers`, is shown of every
stored file, in steps that follow the code back from the bytes:

1. *Blocks* (`Placed`): later blocks of a file lie further back, none twice. What is
   read of some of its blocks, in order, is `ReadOf`; its bytes rise, and so each
   comes from the content and from behind the one before (`ReadPlaces`).
2. *Extents* (`SoFar`): block by block, the extents are those of the block before, the
   last of them one longer, or one more. What is read of them is the bytes of the
   blocks that are `Kept`, all but those behind a bad one in its extent (`Gathered`).
3. *The tree*: the groups of a depth put together are the depth (`GroupsTogether`), so
   that if each node gives what it holds, the nodes above give all of it (`Gives`,
   from `FirstDepth` up by `NextDepth`). A node that is damaged makes all above it fail
   (`DamagedFails`); one that names itself fails for every number of nodes that may
   still be followed.
4. *Pointers*: what a pointer of a level stands for is a piece of the sequence of
   blocks (`Piece`), and a block of pointers leads to the pieces of its pointers one
   behind the other (`Leads`, from `DirectLead` up by `BlockLeads`), for as many blocks
   as are asked for. Three levels behind the direct pointers reach the end of the file.
5. *The cut*: trimmed to its size, what was read is the content cut there if nothing
   is lost (`WholeResult`), its own in its order (`OwnResult`), and short of no byte but
   what the bad block costs (`ShortResult`).

That a stray node or block of pointers cannot lead outside the disk is part of the
typing (`TreeTyped`, `ParseTyped`, `ReadLevelsFacts`), which holds of damaged files too, of
those with another file's node among them: the byte typing is of what can be read of the device.

### 4.2 What is only model-checked

All liveness (`Terminates` of three modules): fairness is out of the prover's reach.
`Session` (`TypeOK`, `NothingWithoutConsent`, `ChoicesReachEngine`,
`SameDiskAccepted`): it has no constants, so that its run goes through all of its
states and a proof would say no more.

## 5. Not modelled

* The bytes of records: ext4's and NTFS's structures are records with values, except
  data runs and fixups (`NtfsFile`), whose bytes decide.
* The keys of menus (`tui`): a prompt is its possible results. Moving over items
  is output; skipping disabled ones is dead code, since no item is ever disabled.
* Text of `lsblk`, `df` and `wmic`, progress output, `PrintSummary`, formatting: the
  listing of disks is the parsing of other programs' text, and what depends on it
  (is something mounted, is the output on the same device) is a choice in `Session`.
* The fields of a ZIP directory and of a local header, decompression: a verdict.
* `FindFooter`, which only tests call.

## 6. Plan

Done in order of weight: scan and its refinement; carver; ends of files;
commands; session; journal; NTFS files; ext4 files and tables; sampling; the proofs,
those about the data of ext4's files last. To come:

1. ZIP: central directory and classification against the entries of an archive,
   so that `ZipEnd`'s verdict becomes a composition.
2. `Carver` with the verdicts of `PdfEnd` and `ZipEnd` in place of its own.
3. More than one fault in a file of ext4.
