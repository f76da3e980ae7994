--------------------------- MODULE BlockScanProofs ---------------------------
(***************************************************************************)
(* Of pkg/scanner: the block loop of ScanBlocks and Scan finds every       *)
(* header, once and in order, for every disk, every overlap and every      *)
(* block size that is wide enough; and SampleForZeroBlocks looks at blocks *)
(* of the disk only, at none twice, from its beginning nearly to its end.  *)
(***************************************************************************)
EXTENDS BlockScan, ZeroSample, SequenceLemmas, FiniteSetTheorems, TLAPS

-----------------------------------------------------------------------------
\* The arithmetic facts about headers and sizes that the steps use.
LEMMA Bounds ==
    ASSUME TypeOK
    PROVE  /\ size \in Nat /\ blockSize \in Nat \ {0} /\ offset \in Nat
           /\ n \in Nat /\ tail \in Nat /\ cur \in Nat
           /\ Overlap \in Nat /\ HeaderLen \in Nat \ {0}
           /\ \A h \in headers : h \in Nat /\ h + HeaderLen <= size
           /\ headers \subseteq Nat
  BY ScanAssumption DEF TypeOK

\* The first state of a scan satisfies the inductive invariant.
LEMMA InitInductive == Init => Inductive
<1> SUFFICES ASSUME Init PROVE Inductive
  OBVIOUS
<1>1. TypeOK
  BY ScanAssumption DEF Init, TypeOK, Disks
<1>2. Range(found) = {}
  BY DEF Init, Range
<1>3. Ended(0) = {}
  BY <1>1, Bounds DEF Ended
<1>4. QED
  BY <1>1, <1>2, <1>3 DEF Init, Inductive, VisitedInOrder, Progress,
     NothingMissed, ErrorLosesOnlyUnread

-----------------------------------------------------------------------------
\* A block is read in full or up to the end of the device: by then every
\* header that ended before it is found, and none waits below the tail.
LEMMA ReadBlockInductive ==
    ASSUME WideEnough, Inductive, ReadBlock
    PROVE  Inductive'
<1>0. TypeOK
  BY DEF Inductive
<1> USE Bounds, <1>0
<1>2. /\ tail = IF offset = 0 THEN 0 ELSE Smaller(Overlap, blockSize)
      /\ tail <= offset
  BY DEF ReadBlock, Inductive, Progress
<1>1. TypeOK'
  <2>1. /\ offset < size /\ n' = Smaller(blockSize, size - offset)
        /\ cur' = offset - tail /\ pc' = "search" /\ err' \in {"eof", "none"}
        /\ UNCHANGED <<headers, size, blockSize, offset, tail, found>>
    BY DEF ReadBlock, StartSearch, disk
  <2>2. /\ size \in Nat /\ blockSize \in Nat /\ offset \in Nat /\ tail \in Nat
        /\ offset <= size
    BY DEF TypeOK
  <2>3. n' \in 0 .. blockSize /\ offset + n' <= size
    BY <2>1, <2>2 DEF Smaller
  <2>4. cur' \in 0 .. size
    BY <1>2, <2>1, <2>2
  <2>5. QED
    BY <2>1, <2>3, <2>4 DEF TypeOK
<1>3. \A h \in headers : h < offset - tail => h + HeaderLen <= offset
  BY <1>2, SMTT(30) DEF WideEnough, Smaller, TypeOK
<1>4. Range(found) = Ended(offset)
  BY DEF ReadBlock, Inductive, Progress
<1>5. Range(found)' = (Ended(offset) \cup {h \in Ended(offset + n) : h < cur})'
  BY <1>3, <1>4, <1>1 DEF ReadBlock, StartSearch, disk, Ended, TypeOK
<1>6. VisitedInOrder'
  BY DEF ReadBlock, Inductive, VisitedInOrder
<1>7. Progress'
  BY <1>2, <1>5, <1>1, SMTT(30) DEF ReadBlock, StartSearch, disk, Progress, Smaller, TypeOK
<1>8. NothingMissed' /\ ErrorLosesOnlyUnread'
  BY DEF ReadBlock, StartSearch, NothingMissed, ErrorLosesOnlyUnread
<1>9. QED
  BY <1>1, <1>6, <1>7, <1>8 DEF Inductive

\* An unreadable sector cuts the block short; if nothing precedes it the scan
\* fails with everything that ended by offset found.
LEMMA ReadBadBlockInductive ==
    ASSUME WideEnough, Inductive, ReadBadBlock
    PROVE  Inductive'
<1>1. TypeOK
  BY DEF Inductive
<1> USE Bounds, <1>1
<1>2. /\ tail = IF offset = 0 THEN 0 ELSE Smaller(Overlap, blockSize)
      /\ tail <= offset
      /\ Range(found) = Ended(offset)
  BY DEF ReadBadBlock, Inductive, Progress
<1>3. n' \in 0 .. Smaller(blockSize, size - offset) - 1
  BY DEF ReadBadBlock
<1>4. n' \in Nat /\ n' < blockSize /\ n' < size - offset
  BY <1>3, SMT DEF Smaller, ReadBadBlock
<1>5. TypeOK'
  <2>1. cur' \in 0 .. size /\ pc' \in {"search", "failed"}
    BY <1>2, SMTT(30) DEF ReadBadBlock, StartSearch, TypeOK
  <2>2. err' = "io" /\ UNCHANGED <<headers, size, blockSize, offset, tail, found>>
    BY DEF ReadBadBlock, disk
  <2>3. n' \in 0 .. blockSize /\ offset + n' <= size
    BY <1>4
  <2>4. QED
    BY <2>1, <2>2, <2>3 DEF TypeOK
<1>6. \A h \in headers : h < offset - tail => h + HeaderLen <= offset
  BY <1>2, SMTT(30) DEF WideEnough, Smaller, TypeOK
<1>7. VisitedInOrder' /\ NothingMissed'
  BY DEF ReadBadBlock, StartSearch, Inductive, VisitedInOrder, NothingMissed
<1>8. CASE n' > 0
  <2>1. pc' = "search" /\ cur' = offset - tail
    BY <1>8 DEF ReadBadBlock, StartSearch
  <2>2. Range(found)' = (Ended(offset) \cup {h \in Ended(offset + n) : h < cur})'
    BY <1>2, <1>5, <1>6, <2>1 DEF ReadBadBlock, disk, Ended
  <2>3. Progress'
    BY <1>2, <1>4, <2>1, <2>2 DEF ReadBadBlock, disk, Progress, Smaller
  <2>4. QED
    BY <1>5, <1>7, <2>1, <2>3 DEF Inductive, ErrorLosesOnlyUnread
<1>9. CASE n' = 0
  <2>1. pc' = "failed" /\ offset' = offset /\ found' = found
    BY <1>9 DEF ReadBadBlock
  <2>2. ErrorLosesOnlyUnread'
    BY <1>2, <1>9, <2>1 DEF ReadBadBlock, disk, Ended, ErrorLosesOnlyUnread
  <2>3. QED
    BY <1>5, <1>7, <2>1, <2>2 DEF Inductive, Progress
<1>10. QED
  BY <1>4, <1>8, <1>9

\* At the end of the disk every header has ended.
LEMMA EndOfDiskInductive ==
    ASSUME Inductive, EndOfDisk
    PROVE  Inductive'
<1>1. TypeOK
  BY DEF Inductive
<1>2. TypeOK'
  BY <1>1 DEF EndOfDisk, TypeOK, disk
<1>3. Range(found) = headers
  BY <1>1, Bounds DEF EndOfDisk, Inductive, Progress, Ended
<1>4. QED
  BY <1>2, <1>3 DEF EndOfDisk, disk, Inductive, VisitedInOrder, Progress,
     NothingMissed, ErrorLosesOnlyUnread

-----------------------------------------------------------------------------
\* The header just met lies above all those found: it ends after offset and
\* at or above cur.
LEMMA MetIsHighest ==
    ASSUME Inductive, pc = "search", Matches(cur), ~AlreadySearched(cur)
    PROVE  /\ cur \in headers
           /\ \A h \in Range(found) : h < cur
<1>1. TypeOK
  BY DEF Inductive
<1>2. Range(found) = Ended(offset) \cup {h \in Ended(offset + n) : h < cur}
  BY DEF Inductive, Progress
<1>3. QED
  BY <1>1, <1>2, Bounds DEF Matches, AlreadySearched, Ended

\* A position of the search buffer is looked at and the cursor moves on.
LEMMA ProbeInductive ==
    ASSUME Inductive, Probe
    PROVE  Inductive'
<1>1. TypeOK
  BY DEF Inductive
<1> USE Bounds, <1>1
<1>2. /\ Range(found) = Ended(offset) \cup {h \in Ended(offset + n) : h < cur}
      /\ cur >= offset - tail /\ cur < offset + n
      /\ pc = "search" /\ pc' = "search" /\ cur' = cur + 1
      /\ UNCHANGED <<headers, size, blockSize, offset, n, err, tail>>
  BY DEF Probe, Inductive, Progress, disk
<1>3. /\ found' \in Seq(headers)
      /\ VisitedInOrder'
      /\ Range(found') = Ended(offset) \cup {h \in Ended(offset + n) : h < cur + 1}
  <2>1. CASE Matches(cur) /\ ~AlreadySearched(cur)
    <3>1. found' = Append(found, cur)
      BY <2>1 DEF Probe
    <3>2. cur \in headers /\ \A h \in Range(found) : h < cur
      BY <1>2, <2>1, MetIsHighest
    <3>3. found \in Seq(headers)
      BY DEF TypeOK
    <3>4. /\ Append(found, cur) \in Seq(headers)
          /\ Len(Append(found, cur)) = Len(found) + 1
          /\ DOMAIN found = 1 .. Len(found) /\ DOMAIN Append(found, cur) = 1 .. Len(found) + 1
          /\ \A i \in DOMAIN found : Append(found, cur)[i] = found[i]
          /\ Append(found, cur)[Len(found) + 1] = cur
          /\ Range(Append(found, cur)) = Range(found) \cup {cur}
      BY <3>2, <3>3, AppendRange, SMTT(30)
    <3>5. DOMAIN found = 1 .. Len(found) /\ DOMAIN found' = 1 .. Len(found) + 1
      BY <3>1, <3>4
    <3>6. ASSUME NEW i \in DOMAIN found', NEW j \in DOMAIN found', i < j
          PROVE  found'[i] < found'[j]
      <4>1. CASE j \in DOMAIN found
        BY <4>1, <3>1, <3>3, <3>4, <3>5, <3>6 DEF Inductive, VisitedInOrder
      <4>2. CASE j = Len(found) + 1
        BY <4>2, <3>1, <3>2, <3>3, <3>4, <3>5, <3>6 DEF Range
      <4>3. QED
        BY <3>3, <3>5, <4>1, <4>2
    <3>7. Range(found') = Ended(offset) \cup {h \in Ended(offset + n) : h < cur + 1}
      BY <1>2, <2>1, <3>1, <3>2, <3>4, SMTT(30) DEF Matches, Ended
    <3>8. QED
      BY <3>1, <3>4, <3>6, <3>7 DEF VisitedInOrder
  <2>2. CASE ~(Matches(cur) /\ ~AlreadySearched(cur))
    <3>1. found' = found
      BY <2>2 DEF Probe
    <3>2. Range(found) = Ended(offset) \cup {h \in Ended(offset + n) : h < cur + 1}
      BY <1>2, <2>2 DEF Matches, AlreadySearched, Ended
    <3>3. QED
      BY <3>1, <3>2 DEF TypeOK, Inductive, VisitedInOrder
  <2>3. QED
    BY <2>1, <2>2
<1>4. TypeOK'
  BY <1>2, <1>3 DEF TypeOK
<1>5. Progress'
  <2>1. Ended(offset)' = Ended(offset) /\ Ended(offset + n)' = Ended(offset + n)
    BY <1>2 DEF Ended
  <2>2. QED
    BY <1>2, <1>3, <2>1, SMTT(30) DEF Inductive, Progress
<1>6. QED
  BY <1>2, <1>3, <1>4, <1>5 DEF Inductive, NothingMissed, ErrorLosesOnlyUnread

\* Searched to its end, the block's headers are all found; the tail kept is
\* that of a whole block unless the scan stops here.
LEMMA EndBlockInductive ==
    ASSUME Inductive, EndBlock
    PROVE  Inductive'
<1>1. TypeOK
  BY DEF Inductive
<1> USE Bounds, <1>1
<1>2. /\ cur = offset + n
      /\ Range(found) = Ended(offset) \cup {h \in Ended(offset + n) : h < cur}
      /\ tail' = Smaller(Overlap, n)
      /\ err = "none" => n = blockSize
      /\ err = "eof" => offset + n = size
      /\ UNCHANGED <<headers, size, blockSize, err, cur, found>>
  BY DEF EndBlock, NewTail, Inductive, Progress, disk
<1>3. Range(found) = Ended(offset + n)
  BY <1>2 DEF Ended
<1>4. VisitedInOrder'
  BY <1>2 DEF Inductive, VisitedInOrder
<1>5. CASE err = "none"
  <2>1. offset' = offset + n /\ n' = 0 /\ pc' = "read"
    BY <1>5 DEF EndBlock, NextOffset
  <2>2. TypeOK'
    BY <1>2, <1>5, <2>1 DEF TypeOK, Smaller
  <2>3. Progress'
    BY <1>2, <1>3, <1>5, <2>1 DEF Progress, Ended, Smaller
  <2>4. QED
    BY <1>4, <2>1, <2>2, <2>3 DEF Inductive, NothingMissed, ErrorLosesOnlyUnread
<1>6. CASE err = "eof"
  <2>1. pc' = "done" /\ UNCHANGED <<offset, n>>
    BY <1>6 DEF EndBlock
  <2>2. TypeOK'
    BY <1>2, <2>1 DEF TypeOK, Smaller
  <2>3. Range(found) = headers
    BY <1>2, <1>3, <1>6 DEF Ended
  <2>4. QED
    BY <1>2, <1>4, <2>1, <2>2, <2>3 DEF Inductive, Progress, NothingMissed, ErrorLosesOnlyUnread
<1>7. CASE err = "io"
  <2>1. pc' = "failed" /\ UNCHANGED <<offset, n>>
    BY <1>7 DEF EndBlock
  <2>2. TypeOK'
    BY <1>2, <2>1 DEF TypeOK, Smaller
  <2>3. ErrorLosesOnlyUnread'
    BY <1>2, <1>3, <2>1 DEF Ended, ErrorLosesOnlyUnread
  <2>4. QED
    BY <1>4, <2>1, <2>2, <2>3 DEF Inductive, Progress, NothingMissed
<1>8. QED
  BY <1>5, <1>6, <1>7 DEF TypeOK

-----------------------------------------------------------------------------
\* Every step of the loop preserves the inductive invariant.
LEMMA StepInductive ==
    ASSUME WideEnough, Inductive, [Next]_vars
    PROVE  Inductive'
<1>1. CASE ReadBlock
  BY <1>1, ReadBlockInductive
<1>2. CASE ReadBadBlock
  BY <1>2, ReadBadBlockInductive
<1>3. CASE EndOfDisk
  BY <1>3, EndOfDiskInductive
<1>4. CASE Probe
  BY <1>4, ProbeInductive
<1>5. CASE EndBlock
  BY <1>5, EndBlockInductive
<1>6. CASE UNCHANGED vars
  BY <1>6 DEF vars, Inductive, TypeOK, VisitedInOrder, Progress,
     NothingMissed, ErrorLosesOnlyUnread, Ended
<1>7. QED
  BY <1>1, <1>2, <1>3, <1>4, <1>5, <1>6 DEF Next

\* With blocks and overlap wide enough for a header, what the scan knows
\* between two steps is an invariant of it.
THEOREM ScanInductive == ASSUME WideEnough PROVE Spec => []Inductive
<1>1. Init => Inductive
  BY InitInductive
<1>2. Inductive /\ [Next]_vars => Inductive'
  BY StepInductive
<1>3. QED
  BY <1>1, <1>2, PTL DEF Spec

\* The variables keep their types and the loop's arithmetic its ranges.
THEOREM ScanTypes == ASSUME WideEnough PROVE Spec => []TypeOK
<1>1. Inductive => TypeOK
  BY DEF Inductive
<1>2. QED
  BY <1>1, ScanInductive, PTL

\* Extraction goes up the disk: no header is extracted twice.
THEOREM ScanInOrder == ASSUME WideEnough PROVE Spec => []VisitedInOrder
<1>1. Inductive => VisitedInOrder
  BY DEF Inductive
<1>2. QED
  BY <1>1, ScanInductive, PTL

\* A scan that ends well has handed over every header of the disk.
THEOREM ScanMissesNothing == ASSUME WideEnough PROVE Spec => []NothingMissed
<1>1. Inductive => NothingMissed
  BY DEF Inductive
<1>2. QED
  BY <1>1, ScanInductive, PTL

\* A scan cut short by a read error found all that was read in full.
THEOREM ScanErrorLosesOnlyUnread ==
    ASSUME WideEnough PROVE Spec => []ErrorLosesOnlyUnread
<1>1. Inductive => ErrorLosesOnlyUnread
  BY DEF Inductive
<1>2. QED
  BY <1>1, ScanInductive, PTL

-----------------------------------------------------------------------------
(* Refinement: what the callback's caller sees of a step.                  *)

\* A position that matches and was not searched before is the abstract
\* Visit of the lowest pending header; any other is a stutter.
LEMMA ProbeRefines ==
    ASSUME Inductive, Probe
    PROVE  [Sweep!SweepNext]_(Sweep!sweepVars)
<1>1. TypeOK
  BY DEF Inductive
<1> USE Bounds, <1>1
<1>2. /\ pc = "search" /\ pc' = pc /\ headers' = headers
      /\ cur < offset + n
      /\ Range(found) = Ended(offset) \cup {h \in Ended(offset + n) : h < cur}
  BY DEF Probe, Inductive, Progress, disk
<1>3. CASE Matches(cur) /\ ~AlreadySearched(cur)
  <2>1. cur \in headers /\ \A h \in Range(found) : h < cur
    BY <1>2, <1>3, MetIsHighest
  <2>2. \A g \in headers \ Range(found) : cur <= g
    BY <1>2, <1>3 DEF Ended, Matches, AlreadySearched
  <2>3. cur \in headers \ Range(found)
    BY <2>1
  <2>4. found' = Append(found, cur)
    BY <1>3 DEF Probe
  <2>5. Sweep!VisitHeader(cur)
    BY <1>2, <2>2, <2>3, <2>4 DEF Sweep!VisitHeader, Sweep!IsNext,
       Sweep!Pending, Sweep!Range, Range
  <2>6. QED
    BY <2>1, <2>5 DEF Sweep!SweepNext, Sweep!Visit
<1>4. CASE ~(Matches(cur) /\ ~AlreadySearched(cur))
  <2>1. found' = found
    BY <1>4 DEF Probe
  <2>2. QED
    BY <1>2, <2>1 DEF Sweep!sweepVars
<1>5. QED
  BY <1>3, <1>4

\* Every step of the block loop is a step of the sweep or a stutter.
LEMMA StepRefines ==
    ASSUME Inductive, Inductive', [Next]_vars
    PROVE  [Sweep!SweepNext]_(Sweep!sweepVars)
<1>1. CASE ReadBlock
  BY <1>1 DEF ReadBlock, StartSearch, disk, Sweep!sweepVars
<1>2. CASE ReadBadBlock
  <2>1. /\ UNCHANGED <<headers, found>> /\ pc = "read"
        /\ pc' = "search" \/ pc' = "failed"
    BY <1>2 DEF ReadBadBlock, StartSearch, disk
  <2>2. QED
    BY <2>1 DEF Sweep!SweepNext, Sweep!Fail, Sweep!sweepVars
<1>3. CASE EndOfDisk
  <2>1. /\ UNCHANGED <<headers, found>> /\ pc = "read" /\ pc' = "done"
        /\ Range(found) = headers
    BY <1>3 DEF EndOfDisk, disk, Inductive, NothingMissed
  <2>2. QED
    BY <2>1 DEF Sweep!SweepNext, Sweep!Finish,
       Sweep!Pending, Sweep!Range, Range
<1>4. CASE Probe
  BY <1>4, ProbeRefines
<1>5. CASE EndBlock
  <2>1. UNCHANGED <<headers, found>> /\ pc = "search"
    BY <1>5 DEF EndBlock, disk
  <2>2. CASE pc' = "read"
    BY <2>1, <2>2 DEF Sweep!sweepVars
  <2>3. CASE pc' = "done"
    BY <2>1, <2>3 DEF Inductive, NothingMissed, Sweep!SweepNext, Sweep!Finish,
       Sweep!Pending, Sweep!Range, Range
  <2>4. CASE pc' = "failed"
    BY <2>1, <2>4 DEF Sweep!SweepNext, Sweep!Fail
  <2>5. QED
    BY <1>5, <2>2, <2>3, <2>4 DEF EndBlock
<1>6. CASE UNCHANGED vars
  BY <1>6 DEF vars, Sweep!sweepVars
<1>7. QED
  BY <1>1, <1>2, <1>3, <1>4, <1>5, <1>6 DEF Next

\* The block loop implements the sweep: whatever the block size and the
\* overlap, if they are wide enough, extractFile sees every header once, lowest
\* first, and the scan is done only when none is left.
THEOREM ScanRefinesSweep == ASSUME WideEnough PROVE Spec => Sweeps
<1>1. Init => Sweep!SweepInit
  <2> SUFFICES ASSUME Init PROVE Sweep!SweepInit
    OBVIOUS
  <2>1. TypeOK
    BY InitInductive DEF Inductive
  <2>2. headers \in SUBSET (0 .. MaxSize)
    BY <2>1, Bounds, ScanAssumption DEF TypeOK
  <2>3. QED
    BY <2>2 DEF Init, Sweep!SweepInit
<1>2. Inductive /\ Inductive' /\ [Next]_vars => [Sweep!SweepNext]_(Sweep!sweepVars)
  BY StepRefines
<1>3. Spec => []Inductive
  BY ScanInductive
<1>4. QED
  BY <1>1, <1>2, <1>3, PTL DEF Spec, Sweeps, Sweep!SweepSpec

-----------------------------------------------------------------------------
(* SampleForZeroBlocks                                                     *)

\* Division with remainder.
LEMMA Division ==
    ASSUME NEW a \in Nat, NEW b \in Nat \ {0}
    PROVE  /\ a \div b \in Nat
           /\ b * (a \div b) <= a
           /\ a < b * (a \div b) + b
  OBVIOUS

\* At least one sample, at least a block apart, and together no longer than the
\* disk; what they leave over at its end is shorter than their number.
LEMMA StepFits ==
    ASSUME NEW total \in Nat \ {0}, NEW asked \in Nat \ {0}
    PROVE  /\ SampleCount(total, asked) \in 1 .. total
           /\ Step(total, asked) \in Nat \ {0}
           /\ SampleCount(total, asked) * Step(total, asked) <= total
           /\ total < SampleCount(total, asked) * Step(total, asked) + SampleCount(total, asked)
<1> DEFINE c == SampleCount(total, asked)
           s == Step(total, asked)
<1>1. c \in 1 .. total
  BY DEF SampleCount
<1>2. s \in Nat /\ c * s <= total /\ total < c * s + c
  BY <1>1, Division DEF Step
<1>3. s # 0
  <2> SUFFICES ASSUME s = 0 PROVE FALSE
    OBVIOUS
  <2>1. c * s = 0
    BY <1>1
  <2> QED
    BY <1>1, <1>2, <2>1
<1> QED
  BY <1>1, <1>2, <1>3

-----------------------------------------------------------------------------
\* The loop's break is never taken: every block it comes to lies on the disk.
THEOREM SamplesOnDisk ==
    ASSUME NEW bytes \in Nat, NEW block \in Nat \ {0}, NEW asked \in Nat \ {0},
           NEW total, total = TotalBlocks(bytes, block), total # 0,
           NEW i \in 0 .. SampleCount(total, asked) - 1
    PROVE  /\ BlockIdx(total, asked, i) \in 0 .. total - 1
           /\ OnDisk(bytes, block, BlockIdx(total, asked, i))
<1> DEFINE c == SampleCount(total, asked)
           s == Step(total, asked)
           b == i * s
<1>1. total \in Nat \ {0} /\ block * total <= bytes
  BY Division DEF TotalBlocks
<1>2. c \in 1 .. total /\ s \in Nat \ {0} /\ c * s <= total
  BY <1>1, StepFits
<1>3. i \in Nat /\ i + 1 <= c
  BY <1>2
<1> HIDE DEF c, s
<1>4. (i + 1) * s <= c * s
  BY <1>2, <1>3
<1>5. (i + 1) * s = b + s /\ b \in Nat
  BY <1>2, <1>3
<1>6. b + 1 <= total
  BY <1>1, <1>2, <1>4, <1>5
<1> HIDE DEF b
<1>7. (b + 1) * block <= total * block
  BY <1>1, <1>5, <1>6
<1>8. (b + 1) * block = b * block + block /\ total * block = block * total
  BY <1>1, <1>5
<1>9. b * block + block <= bytes
  BY <1>1, <1>5, <1>7, <1>8
<1>10. BlockIdx(total, asked, i) = b
  BY DEF BlockIdx, b, s
<1> QED
  BY <1>1, <1>5, <1>6, <1>9, <1>10 DEF OnDisk

\* No block is counted twice: each sample lies behind the one before it, by the
\* same distance, so that the share is that of different blocks.
THEOREM SamplesApart ==
    ASSUME NEW total \in Nat \ {0}, NEW asked \in Nat \ {0}, NEW i \in Nat, NEW j \in Nat, i < j
    PROVE  BlockIdx(total, asked, i) + Step(total, asked) <= BlockIdx(total, asked, j)
<1> DEFINE s == Step(total, asked)
<1>1. s \in Nat
  BY StepFits
<1> HIDE DEF s
<1>2. (i + 1) * s <= j * s
  BY <1>1
<1>3. (i + 1) * s = i * s + s
  BY <1>1
<1> QED
  BY <1>2, <1>3 DEF BlockIdx, s

\* scanner.go:83: "evenly spaced offsets across the disk".  Every block is within
\* a step of a sample, up to the last step; the blocks behind that, fewer than
\* there are samples, are none of them looked at.
THEOREM SamplesCover ==
    ASSUME NEW total \in Nat \ {0}, NEW asked \in Nat \ {0}, NEW b \in 0 .. total - 1
    PROVE  LET reach == SampleCount(total, asked) * Step(total, asked)
           IN  /\ b < reach => \E t \in Tried(total, asked) : t <= b /\ b < t + Step(total, asked)
               /\ b >= reach => b \notin Tried(total, asked)
               /\ total - reach < SampleCount(total, asked)
<1> DEFINE c == SampleCount(total, asked)
           s == Step(total, asked)
<1>1. c \in 1 .. total /\ s \in Nat \ {0} /\ c * s <= total /\ total < c * s + c
  BY StepFits
<1>2. Tried(total, asked) = {i * s : i \in 0 .. c - 1}
  BY DEF Tried, BlockIdx
<1> HIDE DEF c, s
<1>3. ASSUME b < c * s
      PROVE  \E t \in Tried(total, asked) : t <= b /\ b < t + s
  <2> DEFINE i == b \div s
  <2>1. i \in Nat /\ s * i <= b /\ b < s * i + s
    BY <1>1, Division
  <2> HIDE DEF i
  <2>2. i * s = s * i
    BY <1>1, <2>1
  <2>3. i < c
    <3> SUFFICES ASSUME i >= c PROVE FALSE
      BY <1>1, <2>1
    <3>1. c * s <= i * s
      BY <1>1, <2>1
    <3> QED
      BY <1>1, <1>3, <2>1, <2>2, <3>1
  <2>4. i * s \in Tried(total, asked)
    BY <1>1, <1>2, <2>1, <2>3
  <2> QED
    BY <2>1, <2>2, <2>4
<1>4. ASSUME b >= c * s, b \in Tried(total, asked)
      PROVE  FALSE
  <2>1. PICK i \in 0 .. c - 1 : b = i * s
    BY <1>2, <1>4
  <2>2. i * s < c * s
    BY <1>1, <2>1
  <2> QED
    BY <1>1, <1>4, <2>1, <2>2
<1> QED
  BY <1>1, <1>3, <1>4 DEF c, s

\* As many different blocks are looked at as were asked for, or all there are;
\* what is returned is a share of those that could be read, none counted twice.
THEOREM ShareOfSamples ==
    ASSUME NEW total \in Nat \ {0}, NEW asked \in Nat \ {0}, NEW readable, NEW zero
    PROVE  LET share == Share(total, asked, readable, zero)
           IN  /\ Cardinality(Tried(total, asked)) = SampleCount(total, asked)
               /\ share[1] \in 0 .. share[2]
               /\ share[2] \in 0 .. SampleCount(total, asked)
<1> DEFINE c == SampleCount(total, asked)
           T == Tried(total, asked)
           f == [i \in 0 .. c - 1 |-> BlockIdx(total, asked, i)]
<1>1. c \in 1 .. total /\ Step(total, asked) \in Nat \ {0}
  BY StepFits
<1>2. f \in Surjection(0 .. c - 1, T)
  <2>1. f \in [0 .. c - 1 -> T]
    BY DEF Tried
  <2>2. ASSUME NEW t \in T PROVE \E i \in 0 .. c - 1 : f[i] = t
    <3>1. PICK i \in 0 .. c - 1 : t = BlockIdx(total, asked, i)
      BY DEF Tried
    <3>2. f[i] = t
      BY <3>1
    <3> QED
      BY <3>2
  <2> HIDE DEF f, T, c
  <2> QED
    BY <2>1, <2>2 DEF Surjection
<1>3. IsFiniteSet(0 .. c - 1) /\ Cardinality(0 .. c - 1) = c
  <2>1. c \in Nat \ {0}
    BY <1>1
  <2> HIDE DEF c
  <2>2. c - 1 \in Int /\ ~(0 > c - 1) /\ (c - 1) - 0 + 1 = c
    BY <2>1
  <2> QED
    BY <2>2, FS_Interval
<1>4. \A i \in Nat : BlockIdx(total, asked, i) \in Nat
  BY <1>1 DEF BlockIdx
<1>5. ASSUME NEW i \in 0 .. c - 1, NEW j \in 0 .. c - 1, f[i] = f[j] PROVE i = j
  <2>1. i \in Nat /\ j \in Nat
    BY <1>1
  <2>2. BlockIdx(total, asked, i) = BlockIdx(total, asked, j)
    BY <1>5
  <2>3. /\ i < j => BlockIdx(total, asked, i) + Step(total, asked) <= BlockIdx(total, asked, j)
        /\ j < i => BlockIdx(total, asked, j) + Step(total, asked) <= BlockIdx(total, asked, i)
    BY <2>1, SamplesApart
  <2> QED
    BY <1>1, <1>4, <2>1, <2>2, <2>3
<1>6. f \in Injection(0 .. c - 1, T)
  <2>1. f \in [0 .. c - 1 -> T]
    BY DEF Tried
  <2> HIDE DEF f, T, c
  <2> QED
    BY <1>5, <2>1 DEF Injection, IsInjective
<1> HIDE DEF f, T, c
<1>7. IsFiniteSet(T) /\ Cardinality(T) = c
  BY <1>2, <1>3, <1>6, FS_Surjection
<1>8. /\ IsFiniteSet(T \cap readable) /\ Cardinality(T \cap readable) <= c
      /\ Cardinality(T \cap readable) \in Nat
  BY <1>7, FS_Subset, FS_CardinalityType
<1>9. /\ Cardinality(T \cap readable \cap zero) <= Cardinality(T \cap readable)
      /\ Cardinality(T \cap readable \cap zero) \in Nat
  BY <1>8, FS_Subset, FS_CardinalityType
<1>10. Share(total, asked, readable, zero)
         = <<Cardinality(T \cap readable \cap zero), Cardinality(T \cap readable)>>
  BY DEF Share, T
<1> QED
  BY <1>1, <1>7, <1>8, <1>9, <1>10 DEF c, T
=============================================================================
