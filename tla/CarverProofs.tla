---------------------------- MODULE CarverProofs ----------------------------
(***************************************************************************)
(* For every disk, every filter and every pattern of failing writes: no    *)
(* two archives the carver carves overlap, no sound archive outside those  *)
(* is passed over, and what Results lists is on the output directory; and  *)
(* after any number of runs of the command into one directory the report   *)
(* of the last one is true and each file keeps the number it had, as far   *)
(* up the disk as the runs read it alike.                                  *)
(***************************************************************************)
EXTENDS CarveCommand, SequenceLemmas, FiniteSetTheorems, WellFoundedInduction, TLAPS

\* What holds of the header a visit hands over, and of the headers left.
LEMMA VisitFacts ==
    ASSUME RunInductive, NEW p \in headers, VisitHeader(p)
    PROVE  /\ p \notin Range(found)
           /\ p \in Positions /\ p \in Nat /\ p < DiskSize
           /\ disk[p] \in Contents(p)
           /\ found' \in Seq(headers)
           /\ Range(found') = Range(found) \cup {p}
           /\ \A q \in Range(found) : q < p
           /\ UNCHANGED <<headers, status>>
           /\ \A q \in Range(found') : \A r \in headers \ Range(found') : q < r
<1>1. /\ p \in Pending /\ \A g \in Pending : p <= g
      /\ found' = Append(found, p) /\ UNCHANGED <<headers, status>>
  BY DEF VisitHeader, IsNext
<1>2. found \in Seq(headers) /\ p \in DOMAIN disk /\ disk[p] \in Contents(p) /\ p \in Positions
  BY DEF RunInductive, TypeOK
<1>3. p \in Nat /\ p < DiskSize
  BY <1>2, PositionsAssumption, DiskAssumption
<1>4. found' \in Seq(headers) /\ Range(found') = Range(found) \cup {p}
  BY <1>1, <1>2, AppendRange
<1>5. p \notin Range(found) /\ \A q \in Range(found) : q < p
  BY <1>1 DEF Pending, RunInductive, Swept
<1>6. headers \subseteq Nat
  BY PositionsAssumption DEF RunInductive, TypeOK
<1>7. ASSUME NEW q \in Range(found'), NEW r \in headers \ Range(found')
      PROVE  q < r
  <2>1. r \in Pending /\ r # p
    BY <1>4, <1>7 DEF Pending
  <2>2. CASE q = p
    <3>1. r \in Nat /\ p <= r
      BY <1>1, <1>6, <1>7, <2>1
    <3>2. QED
      BY <1>3, <2>1, <2>2, <3>1
  <2>3. CASE q \in Range(found)
    BY <2>1, <2>3 DEF RunInductive, Swept
  <2>4. QED
    BY <1>4, <2>2, <2>3
<1>8. QED
  BY <1>1, <1>2, <1>3, <1>4, <1>5, <1>7

-----------------------------------------------------------------------------
\* The archive carved at p lies above every range before it, and covers p.
LEMMA RangeStep ==
    ASSUME RunInductive, NEW p \in headers, VisitHeader(p), UNCHANGED disk,
           ~Ignored(p), disk[p].verdict = "valid", AddRecoveredRange(p)
    PROVE  /\ recoveredRanges' \in Seq(Extents)
           /\ RangesDisjoint' /\ RangesStartAtHeaders' /\ EveryArchiveCarved'
<1>0. TypeOK /\ RangesDisjoint /\ RangesStartAtHeaders /\ EveryArchiveCarved
  BY DEF RunInductive
<1>1. /\ p \in Positions /\ p \in Nat
      /\ disk[p] \in Contents(p)
      /\ Range(found') = Range(found) \cup {p}
      /\ \A q \in Range(found) : q < p
  BY VisitFacts
<1>2. recoveredRanges \in Seq(Extents)
  BY <1>0 DEF TypeOK
<1>3. CASE disk[p].kind = "zip"
  <2> DEFINE r == [start |-> p, end |-> disk[p].end]
  <2>1. disk[p].end \in p + 1 .. DiskSize
    BY <1>1 DEF Contents, Whole, Broken
  <2>2. r \in Extents /\ r.start = p /\ r.start < r.end
    BY <1>1, <2>1, DiskAssumption DEF Extents
  <2>3. recoveredRanges' = Append(recoveredRanges, r)
    BY <1>3 DEF AddRecoveredRange
  <2> HIDE DEF r
  <2>4. /\ recoveredRanges' \in Seq(Extents)
        /\ DOMAIN recoveredRanges = 1 .. Len(recoveredRanges)
        /\ DOMAIN recoveredRanges' = 1 .. Len(recoveredRanges) + 1
        /\ Len(recoveredRanges) \in Nat
        /\ \A i \in DOMAIN recoveredRanges : recoveredRanges'[i] = recoveredRanges[i]
        /\ recoveredRanges'[Len(recoveredRanges) + 1] = r
    BY <1>2, <2>2, <2>3
  <2>5. \A i \in DOMAIN recoveredRanges : recoveredRanges[i].end <= p
    <3> SUFFICES ASSUME NEW i \in DOMAIN recoveredRanges
                 PROVE  recoveredRanges[i].end <= p
      OBVIOUS
    <3>1. recoveredRanges[i].start < p
      BY <1>0, <1>1 DEF RangesStartAtHeaders
    <3>2. ~(recoveredRanges[i].start <= p /\ p < recoveredRanges[i].end)
      BY <1>3 DEF Ignored, IsOffsetRecovered
    <3>3. recoveredRanges[i] \in Extents
      BY <1>2
    <3>4. recoveredRanges[i].start \in Positions /\ recoveredRanges[i].end \in 0 .. DiskSize
      BY <3>3 DEF Extents
    <3>5. recoveredRanges[i].start \in Int /\ recoveredRanges[i].end \in Int /\ p \in Int
      <4> DEFINE s == recoveredRanges[i].start
      <4>0. s \in Positions
        BY <3>4
      <4> HIDE DEF s
      <4>1. s \in Int
        BY <4>0, PositionsAssumption
      <4>2. recoveredRanges[i].end \in Int
        BY <3>4, DiskAssumption
      <4>3. QED
        BY <1>1, <4>1, <4>2 DEF s
    <3>6. QED
      BY <3>1, <3>2, <3>5
  <2>6. RangesDisjoint'
    <3> SUFFICES ASSUME NEW i \in DOMAIN recoveredRanges', NEW j \in DOMAIN recoveredRanges',
                        i < j
                 PROVE  recoveredRanges'[i].end <= recoveredRanges'[j].start
      BY DEF RangesDisjoint
    <3>1. CASE j \in DOMAIN recoveredRanges
      BY <1>0, <2>4, <3>1 DEF RangesDisjoint
    <3>2. CASE j = Len(recoveredRanges) + 1
      BY <2>2, <2>4, <2>5, <3>2
    <3>3. QED
      BY <2>4, <3>1, <3>2
  <2>7. RangesStartAtHeaders'
    BY <1>0, <1>1, <2>2, <2>4 DEF RangesStartAtHeaders
  <2>8. EveryArchiveCarved'
    <3> SUFFICES ASSUME NEW q \in Range(found'), disk[q].kind = "zip", disk[q].verdict = "valid"
                 PROVE  \E i \in DOMAIN recoveredRanges' : Covers(recoveredRanges'[i], q)
      BY DEF EveryArchiveCarved
    <3>1. CASE q = p
      <4>1. Covers(recoveredRanges'[Len(recoveredRanges) + 1], p)
        BY <1>1, <2>1, <2>2, <2>4 DEF Covers, r
      <4>2. QED
        BY <2>4, <3>1, <4>1
    <3>2. CASE q \in Range(found)
      BY <1>0, <2>4, <3>2 DEF EveryArchiveCarved
    <3>3. QED
      BY <1>1, <3>1, <3>2
  <2>9. QED
    BY <2>4, <2>6, <2>7, <2>8
<1>4. CASE disk[p].kind # "zip"
  <2>1. recoveredRanges' = recoveredRanges
    BY <1>4 DEF AddRecoveredRange
  <2>2. EveryArchiveCarved'
    BY <1>0, <1>1, <1>4, <2>1 DEF EveryArchiveCarved
  <2>3. RangesDisjoint' /\ RangesStartAtHeaders'
    BY <1>0, <1>1, <2>1 DEF RangesDisjoint, RangesStartAtHeaders
  <2>4. QED
    BY <1>2, <2>1, <2>2, <2>3
<1>5. QED
  BY <1>3, <1>4

\* A header that is passed over leaves the ranges as they are; a sound archive
\* among them lies in one.
LEMMA PassStep ==
    ASSUME RunInductive, NEW p \in headers, VisitHeader(p), UNCHANGED disk,
           UNCHANGED recoveredRanges,
           Ignored(p) \/ disk[p].verdict # "valid"
    PROVE  /\ recoveredRanges' \in Seq(Extents)
           /\ RangesDisjoint' /\ RangesStartAtHeaders' /\ EveryArchiveCarved'
<1>1. TypeOK /\ RangesDisjoint /\ RangesStartAtHeaders /\ EveryArchiveCarved
  BY DEF RunInductive
<1>2. Range(found') = Range(found) \cup {p}
  BY VisitFacts
<1>3. EveryArchiveCarved'
  BY <1>1, <1>2 DEF EveryArchiveCarved, Ignored, IsOffsetRecovered, Covers
<1>4. QED
  BY <1>1, <1>2, <1>3 DEF TypeOK, RangesDisjoint, RangesStartAtHeaders

-----------------------------------------------------------------------------
\* What every extraction keeps of the disk, the filter and the sweep.
LEMMA CarveKeeps ==
    ASSUME RunInductive, NEW p \in headers, VisitHeader(p),
           UNCHANGED <<disk, outputTypes>>
    PROVE  /\ headers' \subseteq DOMAIN disk' /\ DOMAIN disk' \subseteq Positions
           /\ \A q \in DOMAIN disk' : disk'[q] \in Contents(q)
           /\ found' \in Seq(headers')
           /\ status' \in {"running", "done", "failed"}
           /\ outputTypes' \subseteq Types
           /\ Swept'
<1>1. TypeOK
  BY DEF RunInductive
<1>2. /\ UNCHANGED <<headers, status>> /\ found' \in Seq(headers)
      /\ \A q \in Range(found') : \A r \in headers \ Range(found') : q < r
  BY VisitFacts
<1>3. Swept'
  BY <1>2 DEF Swept, Pending
<1>4. QED
  BY <1>1, <1>2, <1>3 DEF TypeOK

\* Passing a header over changes at most the warnings.
LEMMA PassInductive ==
    ASSUME RunInductive, NEW p \in headers, VisitHeader(p),
           UNCHANGED <<disk, outputTypes>>,
           Ignore(p) \/ Reject(p) \/ Warn(p)
    PROVE  RunInductive'
<1>1. /\ UNCHANGED <<recoveredRanges, counter, results, files>>
      /\ warnings' \subseteq warnings \cup {p}
      /\ Ignored(p) \/ disk[p].verdict # "valid"
  BY DEF Ignore, Reject, Warn, carverVars
<1>2. TypeOK /\ ResultsNumbered /\ ResultsOnDisk
  BY DEF RunInductive
<1>3. UNCHANGED disk /\ UNCHANGED recoveredRanges /\ UNCHANGED headers
  BY <1>1 DEF VisitHeader
<1>4. /\ recoveredRanges' \in Seq(Extents)
      /\ RangesDisjoint' /\ RangesStartAtHeaders' /\ EveryArchiveCarved'
  BY <1>1, <1>3, PassStep
<1>5. TypeOK' /\ Swept'
  BY <1>1, <1>2, <1>3, <1>4, CarveKeeps DEF TypeOK
<1>6. ResultsNumbered' /\ ResultsOnDisk'
  BY <1>1, <1>2 DEF ResultsNumbered, ResultsOnDisk
<1>7. QED
  BY <1>4, <1>5, <1>6 DEF RunInductive

\* The name a file is about to get is none that this run has listed.
LEMMA NextNameUnlisted ==
    ASSUME RunInductive, NEW p \in headers, disk[p].verdict = "valid"
    PROVE  /\ NextName(p) \in Names /\ NextName(p)[1] = counter + 1
           /\ counter \in Nat
           /\ \A i \in DOMAIN results : /\ results[i].name[1] \in Nat
                                        /\ results[i].name # NextName(p)
<1>1. TypeOK /\ ResultsNumbered
  BY DEF RunInductive
<1>2. counter \in Nat /\ disk[p] \in Contents(p)
  BY <1>1 DEF TypeOK
<1>3. disk[p].type \in Types
  BY <1>2 DEF Contents, Whole, Broken, Types
<1>4. NextName(p) = <<counter + 1, disk[p].type>>
  BY DEF NextName, NextCount
<1>5. NextName(p) \in Names /\ NextName(p)[1] = counter + 1
  BY <1>2, <1>3, <1>4 DEF Names
<1>6. ASSUME NEW i \in DOMAIN results
      PROVE  results[i].name[1] \in Nat /\ results[i].name # NextName(p)
  <2>1. results[i].name \in Names
    <3>1. results \in Seq([name : Names, extent : Extents])
      BY <1>1 DEF TypeOK
    <3> DEFINE Entries == [name : Names, extent : Extents]
    <3>2. \A r \in Entries : r.name \in Names
      OBVIOUS
    <3> HIDE DEF Entries
    <3>3. results \in Seq(Entries)
      BY <3>1 DEF Entries
    <3>4. results[i] \in Entries
      BY <3>3
    <3>5. QED
      BY <3>2, <3>4
  <2>2. results[i].name[1] \in Nat
    BY <2>1 DEF Names
  <2>3. results[i].name[1] <= counter
    BY <1>1 DEF ResultsNumbered
  <2>4. results[i].name[1] # NextName(p)[1]
    <3>1. NextName(p)[1] = counter + 1
      BY <1>5
    <3>2. QED
      BY <1>2, <2>2, <2>3, <3>1
  <2>5. QED
    BY <2>2, <2>4
<1>7. QED
  BY <1>2, <1>5, <1>6

\* Storing under the next name leaves every other file alone.
LEMMA StoreFacts ==
    ASSUME RunInductive, NEW p \in headers, disk[p].verdict = "valid",
           NEW what, Store(NextName(p), what)
    PROVE  /\ DOMAIN files' = DOMAIN files \cup {NextName(p)}
           /\ files'[NextName(p)] = what
           /\ \A name \in DOMAIN files : name # NextName(p) => files'[name] = files[name]
           /\ DOMAIN files' \subseteq Names
<1>1. DOMAIN files \subseteq Names
  BY DEF RunInductive, TypeOK
<1>2. QED
  BY <1>1, NextNameUnlisted DEF Store

\* The filter drops the file, its range is kept.
LEMMA FilterOutInductive ==
    ASSUME RunInductive, NEW p \in headers, VisitHeader(p),
           UNCHANGED <<disk, outputTypes>>, FilterOut(p)
    PROVE  RunInductive'
<1>1. /\ UNCHANGED <<counter, results, warnings, files>>
      /\ ~Ignored(p) /\ disk[p].verdict = "valid" /\ AddRecoveredRange(p)
  BY DEF FilterOut
<1>2. TypeOK /\ ResultsNumbered /\ ResultsOnDisk
  BY DEF RunInductive
<1>3. UNCHANGED disk /\ UNCHANGED headers
  BY DEF VisitHeader
<1>4. /\ recoveredRanges' \in Seq(Extents)
      /\ RangesDisjoint' /\ RangesStartAtHeaders' /\ EveryArchiveCarved'
  BY <1>1, <1>3, RangeStep
<1>5. TypeOK' /\ Swept'
  BY <1>1, <1>2, <1>3, <1>4, CarveKeeps DEF TypeOK
<1>6. ResultsNumbered' /\ ResultsOnDisk'
  BY <1>1, <1>2 DEF ResultsNumbered, ResultsOnDisk
<1>7. QED
  BY <1>4, <1>5, <1>6 DEF RunInductive

\* The file is written whole and listed, under a name no result has.
LEMMA SaveInductive ==
    ASSUME RunInductive, NEW p \in headers, VisitHeader(p),
           UNCHANGED <<disk, outputTypes>>, Save(p)
    PROVE  RunInductive'
<1> DEFINE entry == [name |-> NextName(p), extent |-> Extent(p)]
<1>1. /\ ~Ignored(p) /\ disk[p].verdict = "valid" /\ AddRecoveredRange(p)
      /\ counter' = NextCount /\ Store(NextName(p), Extent(p))
      /\ results' = Append(results, entry) /\ UNCHANGED warnings
  BY DEF Save
<1>2. TypeOK /\ ResultsNumbered /\ ResultsOnDisk
  BY DEF RunInductive
<1>3. UNCHANGED disk /\ UNCHANGED headers
  BY DEF VisitHeader
<1>4. /\ recoveredRanges' \in Seq(Extents)
      /\ RangesDisjoint' /\ RangesStartAtHeaders' /\ EveryArchiveCarved'
  BY <1>1, <1>3, RangeStep
<1>5. /\ DOMAIN files' = DOMAIN files \cup {NextName(p)}
      /\ files'[NextName(p)] = Extent(p)
      /\ \A name \in DOMAIN files : name # NextName(p) => files'[name] = files[name]
      /\ DOMAIN files' \subseteq Names
  BY <1>1, StoreFacts
<1>6. entry \in [name : Names, extent : Extents]
  <2>1. NextName(p) \in Names
    BY <1>1, NextNameUnlisted
  <2>2. disk[p] \in Contents(p) /\ p \in Positions
    BY VisitFacts
  <2>3. Extent(p) \in Extents
    BY <1>1, <2>2, PositionsAssumption, DiskAssumption
    DEF Extent, Extents, Contents, Whole, Broken
  <2>4. QED
    BY <2>1, <2>3
<1>7. /\ results' \in Seq([name : Names, extent : Extents])
      /\ Len(results) \in Nat /\ DOMAIN results = 1 .. Len(results)
      /\ DOMAIN results' = 1 .. Len(results) + 1
      /\ \A i \in DOMAIN results : results'[i] = results[i]
      /\ results'[Len(results) + 1] = entry
  <2>1. results \in Seq([name : Names, extent : Extents])
    BY <1>2 DEF TypeOK
  <2> HIDE DEF entry
  <2>2. QED
    BY <1>1, <1>6, <2>1
<1>8. counter \in Nat /\ counter' = counter + 1
  BY <1>1, NextNameUnlisted DEF NextCount
<1>9. TypeOK' /\ Swept'
  BY <1>1, <1>2, <1>3, <1>4, <1>5, <1>7, <1>8, CarveKeeps DEF TypeOK
<1>10. entry.name = NextName(p) /\ entry.extent = Extent(p)
  OBVIOUS
<1> HIDE DEF entry
<1>11. ResultsOnDisk'
  <2> SUFFICES ASSUME NEW i \in DOMAIN results'
               PROVE  /\ results'[i].name \in DOMAIN files'
                      /\ files'[results'[i].name] = results'[i].extent
    BY DEF ResultsOnDisk
  <2>1. CASE i \in DOMAIN results
    <3>1. results[i].name # NextName(p)
      BY <1>1, <2>1, NextNameUnlisted
    <3>2. QED
      BY <1>2, <1>5, <1>7, <2>1, <3>1 DEF ResultsOnDisk
  <2>2. CASE i = Len(results) + 1
    BY <1>5, <1>7, <1>10, <2>2
  <2>3. QED
    BY <1>7, <2>1, <2>2
<1>12. ResultsNumbered'
  <2>1. \A i \in DOMAIN results : results[i].name[1] \in Nat /\ results[i].name[1] <= counter
    BY <1>1, <1>2, NextNameUnlisted DEF ResultsNumbered
  <2>2. entry.name[1] = counter + 1
    BY <1>1, <1>10, NextNameUnlisted
  <2>3. ASSUME NEW i \in DOMAIN results'
        PROVE  /\ results'[i].name[1] <= counter'
               /\ \A j \in DOMAIN results' : i < j => results'[i].name[1] < results'[j].name[1]
    <3>1. CASE i \in DOMAIN results
      <4>1. results'[i].name[1] <= counter
        BY <1>7, <2>1, <3>1
      <4>2. ASSUME NEW j \in DOMAIN results', i < j
            PROVE  results'[i].name[1] < results'[j].name[1]
        <5>1. CASE j \in DOMAIN results
          BY <1>2, <1>7, <3>1, <4>2, <5>1 DEF ResultsNumbered
        <5>2. CASE j = Len(results) + 1
          BY <1>7, <1>8, <2>1, <2>2, <3>1, <5>2
        <5>3. QED
          BY <1>7, <5>1, <5>2
      <4>3. QED
        BY <1>7, <1>8, <2>1, <3>1, <4>1, <4>2
    <3>2. CASE i = Len(results) + 1
      BY <1>7, <1>8, <2>2, <3>2
    <3>3. QED
      BY <1>7, <3>1, <3>2
  <2>4. QED
    BY <2>3 DEF ResultsNumbered
<1>13. QED
  BY <1>4, <1>9, <1>11, <1>12 DEF RunInductive

\* A write that fails uses its number up and may leave a part of the file.
LEMMA SaveFailsInductive ==
    ASSUME RunInductive, NEW p \in headers, VisitHeader(p),
           UNCHANGED <<disk, outputTypes>>, SaveFails(p)
    PROVE  RunInductive'
<1>1. /\ ~Ignored(p) /\ disk[p].verdict = "valid" /\ AddRecoveredRange(p)
      /\ counter' = NextCount /\ UNCHANGED <<results, warnings>>
      /\ UNCHANGED files \/ Store(NextName(p), Part(p))
  BY DEF SaveFails
<1>2. TypeOK /\ ResultsNumbered /\ ResultsOnDisk
  BY DEF RunInductive
<1>3. UNCHANGED disk /\ UNCHANGED headers
  BY DEF VisitHeader
<1>4. /\ recoveredRanges' \in Seq(Extents)
      /\ RangesDisjoint' /\ RangesStartAtHeaders' /\ EveryArchiveCarved'
  BY <1>1, <1>3, RangeStep
<1>5. /\ DOMAIN files \subseteq DOMAIN files'
      /\ \A name \in DOMAIN files : name # NextName(p) => files'[name] = files[name]
      /\ DOMAIN files' \subseteq Names
  <2>1. CASE Store(NextName(p), Part(p))
    BY <1>1, <2>1, StoreFacts
  <2>2. CASE UNCHANGED files
    BY <1>2, <2>2 DEF TypeOK
  <2>3. QED
    BY <1>1, <2>1, <2>2
<1>6. counter \in Nat /\ counter' = counter + 1
  BY <1>1, NextNameUnlisted DEF NextCount
<1>7. TypeOK' /\ Swept'
  BY <1>1, <1>2, <1>3, <1>4, <1>5, <1>6, CarveKeeps DEF TypeOK
<1>8. \A i \in DOMAIN results : /\ results[i].name[1] \in Nat
                                /\ results[i].name # NextName(p)
  BY <1>1, NextNameUnlisted
<1>9. ResultsOnDisk'
  BY <1>1, <1>2, <1>5, <1>8 DEF ResultsOnDisk
<1>10. ResultsNumbered'
  BY <1>1, <1>2, <1>6, <1>8 DEF ResultsNumbered
<1>11. QED
  BY <1>4, <1>7, <1>9, <1>10 DEF RunInductive

-----------------------------------------------------------------------------
\* Before anything is found there is nothing to keep apart.
LEMMA StartInductive ==
    ASSUME headers \subseteq DOMAIN disk, DOMAIN disk \subseteq Positions,
           \A p \in DOMAIN disk : disk[p] \in Contents(p),
           outputTypes \subseteq Types, DOMAIN files \subseteq Names,
           found = <<>>, status = "running", recoveredRanges = <<>>, counter = 0,
           results = <<>>, warnings = {}
    PROVE  RunInductive
<1>1. /\ found \in Seq(headers) /\ Range(found) = {}
      /\ recoveredRanges \in Seq(Extents)
      /\ results \in Seq([name : Names, extent : Extents])
      /\ DOMAIN recoveredRanges = {} /\ DOMAIN results = {}
  BY DEF Range
<1>2. TypeOK
  BY <1>1 DEF TypeOK
<1>3. QED
  BY <1>1, <1>2 DEF RunInductive, Swept, RangesStartAtHeaders, ResultsNumbered,
     RangesDisjoint, EveryArchiveCarved, ResultsOnDisk

LEMMA InitInductive == Init => Inductive
<1> SUFFICES ASSUME Init PROVE Inductive
  OBVIOUS
<1>1. PICK H \in SUBSET Positions :
          /\ DOMAIN disk = H
          /\ \A p \in H : disk[p] \in Contents(p)
  BY DEF Init
<1>2. headers \subseteq DOMAIN disk
  BY DEF Init, SelectHeaders
<1>3. DOMAIN files = {}
  BY DEF Init
<1>4. RunInductive
  BY <1>1, <1>2, <1>3, StartInductive DEF Init
<1>5. QED
  BY <1>3, <1>4 DEF Inductive, NamesNumbered

\* Every step of the carver preserves the invariant of a run.
LEMMA StepInductive ==
    ASSUME RunInductive, [Next]_vars
    PROVE  RunInductive'
<1>1. CASE Carve
  <2>1. PICK p \in headers : /\ VisitHeader(p) /\ Extract(p)
                             /\ UNCHANGED <<disk, outputTypes>>
    BY <1>1 DEF Carve
  <2>2. CASE Ignore(p) \/ Reject(p) \/ Warn(p)
    BY <2>1, <2>2, PassInductive
  <2>3. CASE FilterOut(p)
    BY <2>1, <2>3, FilterOutInductive
  <2>4. CASE Save(p)
    BY <2>1, <2>4, SaveInductive
  <2>5. CASE SaveFails(p)
    BY <2>1, <2>5, SaveFailsInductive
  <2>6. QED
    BY <2>1, <2>2, <2>3, <2>4, <2>5 DEF Extract
<1>2. CASE EndScan
  <2>1. /\ UNCHANGED <<headers, found, disk, outputTypes, carverVars>>
        /\ status' \in {"done", "failed"}
    BY <1>2 DEF EndScan, Finish, Fail
  <2>2. QED
    BY <2>1 DEF carverVars, RunInductive, TypeOK, Swept, Pending, RangesStartAtHeaders,
       ResultsNumbered, RangesDisjoint, EveryArchiveCarved, ResultsOnDisk
<1>3. CASE UNCHANGED vars
  BY <1>3 DEF vars, sweepVars, carverVars, RunInductive, TypeOK, Swept, Pending,
     RangesStartAtHeaders, ResultsNumbered, RangesDisjoint, EveryArchiveCarved,
     ResultsOnDisk
<1>4. QED
  BY <1>1, <1>2, <1>3 DEF Next

\* In a directory that was empty no step writes to a name that was written to.
LEMMA StepKeepsFiles ==
    ASSUME Inductive, [Next]_vars
    PROVE  /\ NamesNumbered'
           /\ \A name \in DOMAIN files : name \in DOMAIN files' /\ files'[name] = files[name]
<1>1. RunInductive /\ NamesNumbered
  BY DEF Inductive
<1>2. /\ counter \in Nat
      /\ \A name \in DOMAIN files : name[1] \in Nat /\ name[1] <= counter
  BY <1>1 DEF RunInductive, TypeOK, Names, NamesNumbered
<1>3. CASE UNCHANGED files /\ counter' \in {counter, counter + 1}
  BY <1>2, <1>3 DEF NamesNumbered
<1>4. ASSUME NEW p \in headers, Save(p) \/ SaveFails(p)
      PROVE  /\ NamesNumbered'
             /\ \A name \in DOMAIN files : name \in DOMAIN files' /\ files'[name] = files[name]
  <2>1. disk[p].verdict = "valid" /\ counter' = counter + 1
    BY <1>4 DEF Save, SaveFails, NextCount
  <2>2. UNCHANGED files \/ \E what : Store(NextName(p), what)
    BY <1>4 DEF Save, SaveFails
  <2>3. CASE UNCHANGED files
    BY <1>3, <2>1, <2>3
  <2>4. ASSUME NEW what, Store(NextName(p), what)
        PROVE  /\ NamesNumbered'
               /\ \A name \in DOMAIN files : name \in DOMAIN files' /\ files'[name] = files[name]
    <3>1. /\ DOMAIN files' = DOMAIN files \cup {NextName(p)}
          /\ \A name \in DOMAIN files : name # NextName(p) => files'[name] = files[name]
      BY <1>1, <2>1, <2>4, StoreFacts
    <3>2. NextName(p)[1] = counter + 1
      BY <1>1, <2>1, NextNameUnlisted
    <3>3. \A name \in DOMAIN files : name # NextName(p)
      BY <1>2, <3>2
    <3>4. \A name \in DOMAIN files' : name[1] <= counter + 1
      BY <1>2, <3>1, <3>2
    <3>5. QED
      BY <2>1, <3>1, <3>3, <3>4 DEF NamesNumbered
  <2>5. QED
    BY <2>2, <2>3, <2>4
<1>5. CASE Carve
  <2>1. PICK p \in headers : Extract(p)
    BY <1>5 DEF Carve
  <2>2. CASE UNCHANGED <<files, counter>>
    BY <1>3, <2>2
  <2>3. QED
    BY <1>4, <2>1, <2>2 DEF Extract, Ignore, Reject, Warn, FilterOut, carverVars
<1>6. CASE EndScan
  BY <1>3, <1>6 DEF EndScan, carverVars
<1>7. CASE UNCHANGED vars
  BY <1>3, <1>7 DEF vars, carverVars
<1>8. QED
  BY <1>5, <1>6, <1>7 DEF Next

\* What keeps the carver's ranges, files and results together is an invariant.
THEOREM CarverInductive == Spec => []Inductive
<1>1. Inductive /\ [Next]_vars => Inductive'
  BY StepInductive, StepKeepsFiles DEF Inductive
<1>2. QED
  BY <1>1, InitInductive, PTL DEF Spec

\* The variables of the carver keep their types.
THEOREM CarverTypes == Spec => []TypeOK
<1>1. Inductive => TypeOK
  BY DEF Inductive, RunInductive
<1>2. QED
  BY <1>1, CarverInductive, PTL

\* No byte of the disk is carved into two archives.
THEOREM CarvesDisjointRanges == Spec => []RangesDisjoint
<1>1. Inductive => RangesDisjoint
  BY DEF Inductive, RunInductive
<1>2. QED
  BY <1>1, CarverInductive, PTL

\* A sound archive is carved, or lies in one that was.
THEOREM CarvesEveryArchive == Spec => []EveryArchiveCarved
<1>1. Inductive => EveryArchiveCarved
  BY DEF Inductive, RunInductive
<1>2. QED
  BY <1>1, CarverInductive, PTL

\* What Results lists is in the directory, whole and under its name.
THEOREM CarverResultsOnDisk == Spec => []ResultsOnDisk
<1>1. Inductive => ResultsOnDisk
  BY DEF Inductive, RunInductive
<1>2. QED
  BY <1>1, CarverInductive, PTL

\* A run never writes twice to one name, the rests of failed writes included.
THEOREM CarverNeverOverwrites == Spec => NeverOverwrites
<1>1. Inductive /\ [Next]_vars =>
        [\A name \in DOMAIN files : name \in DOMAIN files' /\ files'[name] = files[name]]_vars
  BY StepKeepsFiles
<1>2. QED
  BY <1>1, CarverInductive, PTL DEF Spec, NeverOverwrites

-----------------------------------------------------------------------------
(* The command: the report, and the runs one after the other.              *)

\* A listed name stands for one result: as many names as results.
LEMMA NamesOfResults ==
    ASSUME RunInductive, NEW I \in SUBSET (DOMAIN results)
    PROVE  /\ IsFiniteSet(I)
           /\ Cardinality({results[i].name : i \in I}) = Cardinality(I)
<1> DEFINE T == {results[i].name : i \in I}
           f == [i \in I |-> results[i].name]
<1>1. ResultsNumbered /\ counter \in Nat
      /\ results \in Seq([name : Names, extent : Extents])
  BY DEF RunInductive, TypeOK
<1>2. DOMAIN results = 1 .. Len(results) /\ Len(results) \in Nat
  BY <1>1
<1>3. IsFiniteSet(I)
  <2> DEFINE l == Len(results)
  <2>1. l \in Nat /\ I \in SUBSET (1 .. l)
    BY <1>2
  <2> HIDE DEF l
  <2>2. IsFiniteSet(1 .. l)
    BY <2>1, FS_Interval
  <2>3. QED
    BY <2>1, <2>2, FS_Subset
<1>4. f \in Surjection(I, T)
  BY DEF Surjection, Range
<1>5. f \in Injection(I, T)
  <2>1. ASSUME NEW i \in I, NEW j \in I, f[i] = f[j]
        PROVE  i = j
    <3>1. i \in DOMAIN results /\ j \in DOMAIN results
      OBVIOUS
    <3>2. results[i].name = results[j].name
      BY <2>1
    <3>3. results[i].name[1] \in Nat
      <4> DEFINE Entries == [name : Names, extent : Extents]
      <4>1. \A r \in Entries : r.name[1] \in Nat
        BY DEF Names
      <4>2. results \in Seq(Entries)
        BY <1>1
      <4> HIDE DEF Entries
      <4>3. results[i] \in Entries
        BY <3>1, <4>2
      <4>4. QED
        BY <4>1, <4>3
    <3>4. ~(i < j) /\ ~(j < i)
      BY <1>1, <3>1, <3>2, <3>3 DEF ResultsNumbered
    <3>5. QED
      BY <1>2, <3>1, <3>4
  <2>2. QED
    BY <2>1 DEF Injection, IsInjective
<1>6. Cardinality(T) = Cardinality(I)
  BY <1>3, <1>4, <1>5, FS_Surjection
<1>7. QED
  BY <1>3, <1>6

\* The report of a run that has ended is true of the directory.
LEMMA ReportTrue ==
    ASSUME CommandInductive
    PROVE  ReportMatchesDirectory
<1>1. RunInductive /\ ResultsOnDisk /\ ReportStands
      /\ results \in Seq([name : Names, extent : Extents])
  BY DEF CommandInductive, RunInductive, TypeOK
<1> SUFFICES ASSUME exit = "ok", report # <<>>, report[1].run = run
             PROVE  LET r == report[1]
                        names == {r.entries[i].name : i \in DOMAIN r.entries}
                    IN  /\ \A i \in DOMAIN r.entries :
                               /\ r.entries[i].name \in DOMAIN files
                               /\ files[r.entries[i].name] = r.entries[i].extent
                        /\ r.filesFound = Cardinality(names)
                        /\ \A t \in Types :
                               r.filesByType[t] = Cardinality({f \in names : f[2] = t})
  BY DEF ReportMatchesDirectory
<1> DEFINE names == {results[i].name : i \in DOMAIN results}
<1>2. report[1] = Report
  BY <1>1 DEF ReportStands
<1>3. /\ Report.entries = results /\ Report.filesFound = Len(results)
      /\ \A t \in Types : Report.filesByType[t] = Cardinality(OfType(t))
  BY DEF Report
<1>4. Cardinality(names) = Len(results)
  <2>1. DOMAIN results = 1 .. Len(results) /\ Len(results) \in Nat
    BY <1>1
  <2>2. Cardinality(1 .. Len(results)) = Len(results)
    <3> DEFINE l == Len(results)
    <3>1. l \in Nat
      BY <2>1
    <3> HIDE DEF l
    <3>2. Cardinality(1 .. l) = l
      BY <3>1, FS_Interval
    <3>3. QED
      BY <3>2 DEF l
  <2>3. QED
    BY <1>1, <2>1, <2>2, NamesOfResults
<1>5. ASSUME NEW t \in Types
      PROVE  Cardinality(OfType(t)) = Cardinality({f \in names : f[2] = t})
  <2>1. OfType(t) \in SUBSET (DOMAIN results)
    BY DEF OfType
  <2>2. {results[i].name : i \in OfType(t)} = {f \in names : f[2] = t}
    BY DEF OfType
  <2>3. Cardinality({results[i].name : i \in OfType(t)}) = Cardinality(OfType(t))
    BY <1>1, <2>1, NamesOfResults
  <2>4. QED
    BY <2>2, <2>3
<1>6. \A i \in DOMAIN results : /\ results[i].name \in DOMAIN files
                                /\ files[results[i].name] = results[i].extent
  BY <1>1 DEF ResultsOnDisk
<1> HIDE DEF names
<1>7. QED
  BY <1>2, <1>3, <1>4, <1>5, <1>6 DEF names

-----------------------------------------------------------------------------
(* Numbers.                                                                *)

\* Below an offset only finitely many headers can lie.
LEMMA BelowFinite ==
    ASSUME TypeOK, NEW S \in SUBSET headers, NEW b \in Nat, \A p \in S : p <= b
    PROVE  IsFiniteSet(S)
<1>1. S \in SUBSET Nat
  BY PositionsAssumption DEF TypeOK
<1>2. QED
  BY <1>1, FS_BoundedSetOfNaturals

\* No two headers have the same rank.
LEMMA RankInjective ==
    ASSUME TypeOK, NEW A, NEW p \in SavedIn(A), NEW q \in SavedIn(A), Rank(A, p) = Rank(A, q)
    PROVE  p = q
<1> DEFINE Upto(x) == {y \in SavedIn(A) : y <= x}
<1>1. SavedIn(A) \subseteq headers /\ \A y \in SavedIn(A) : y \in Nat
  BY PositionsAssumption DEF SavedIn, TypeOK
<1>2. p \in Nat /\ q \in Nat
  BY <1>1
<1>3. IsFiniteSet(Upto(p)) /\ IsFiniteSet(Upto(q))
  BY <1>1, <1>2, BelowFinite
<1>4. Cardinality(Upto(p)) = Cardinality(Upto(q))
  BY DEF Rank
<1>5. ASSUME p <= q PROVE p = q
  <2>1. Upto(p) \subseteq Upto(q)
    <3> SUFFICES ASSUME NEW y \in SavedIn(A), y <= p
                 PROVE  y <= q
      OBVIOUS
    <3>1. QED
      BY <1>1, <1>2, <1>5
  <2>2. Upto(p) = Upto(q)
    BY <1>3, <1>4, <2>1, FS_Subset
  <2>3. q \in Upto(p)
    BY <1>2, <2>2
  <2>4. QED
    BY <1>2, <1>5, <2>3
<1>6. ASSUME q <= p PROVE p = q
  <2>1. Upto(q) \subseteq Upto(p)
    <3> SUFFICES ASSUME NEW y \in SavedIn(A), y <= q
                 PROVE  y <= p
      OBVIOUS
    <3>1. QED
      BY <1>1, <1>2, <1>6
  <2>2. Upto(p) = Upto(q)
    BY <1>3, <1>4, <2>1, FS_Subset
  <2>3. p \in Upto(q)
    BY <1>2, <2>2
  <2>4. QED
    BY <1>2, <1>6, <2>3
<1>7. QED
  BY <1>2, <1>5, <1>6

\* What a run has carved of A is what can hide the next header from it.
LEMMA NextCarved ==
    ASSUME RunInductive, NEW A \in SUBSET headers, NEW b, NumberedBy(A, b),
           NEW p \in headers, IsNext(p)
    PROVE  Ignored(p) <=> /\ disk[p].kind = "zip"
                          /\ ~\A q \in A : q < p => disk[q].end <= p
<1>1. TypeOK /\ RangesStartAtHeaders
  BY DEF RunInductive
<1>2. headers \subseteq Nat /\ p \in Nat
  BY <1>1, PositionsAssumption DEF TypeOK
<1>3. \A q \in headers : q < p => q \in Range(found)
  <2> SUFFICES ASSUME NEW q \in headers, q < p, q \notin Range(found)
               PROVE  FALSE
    OBVIOUS
  <2>1. p <= q
    BY DEF IsNext, Pending
  <2>2. QED
    BY <1>2, <2>1
<1>4. \A q \in Range(found) : q < p
  BY DEF RunInductive, Swept, IsNext
<1>5. ASSUME NEW q \in headers
      PROVE  disk[q].end \in Int
  <2>1. disk[q] \in Contents(q) /\ q \in Nat
    BY <1>1, <1>2 DEF TypeOK
  <2>2. QED
    BY <2>1, DiskAssumption DEF Contents, Whole, Broken
<1>6. ASSUME NEW q \in A, q < p, ~(disk[q].end <= p)
      PROVE  IsOffsetRecovered(p)
  <2>1. q \in headers /\ q \in Range(found)
    BY <1>3, <1>6
  <2>2. PICK i \in DOMAIN recoveredRanges : recoveredRanges[i].start = q
    BY <2>1 DEF NumberedBy
  <2>3. recoveredRanges[i].end = disk[q].end
    BY <2>2 DEF NumberedBy
  <2>4. q <= p /\ p < disk[q].end
    BY <1>2, <1>5, <1>6, <2>1
  <2>5. QED
    BY <2>2, <2>3, <2>4 DEF IsOffsetRecovered
<1>7. ASSUME IsOffsetRecovered(p)
      PROVE  \E q \in A : q < p /\ ~(disk[q].end <= p)
  <2>1. PICK i \in DOMAIN recoveredRanges :
            recoveredRanges[i].start <= p /\ p < recoveredRanges[i].end
    BY <1>7 DEF IsOffsetRecovered
  <2> DEFINE q == recoveredRanges[i].start
  <2>2. q \in A /\ q \in Range(found) /\ recoveredRanges[i].end = disk[q].end
    BY <1>1 DEF NumberedBy, RangesStartAtHeaders
  <2>3. p < disk[q].end
    BY <2>1, <2>2
  <2> HIDE DEF q
  <2>4. q < p /\ ~(disk[q].end <= p)
    <3>1. q \in headers /\ disk[q].end \in Int
      BY <1>5, <2>2
    <3>2. QED
      BY <1>2, <1>4, <2>2, <2>3, <3>1
  <2>5. QED
    BY <2>2, <2>4
<1>8. QED
  BY <1>6, <1>7 DEF Ignored

\* What is carved can be told one header further than it was.
LEMMA NumberedFurther ==
    ASSUME RunInductive, NEW A \in SUBSET headers, NEW b \in 0 .. DiskSize, NumberedBy(A, b),
           NEW p \in headers, IsNext(p)
    PROVE  \E B \in SUBSET headers, c \in 0 .. DiskSize : NumberedBy(B, c) /\ p < c
<1>1. TypeOK /\ DiskSize \in Nat
  BY DiskAssumption DEF RunInductive
<1>2. /\ \A q \in headers : q \in Nat
      /\ p \in Nat /\ p < DiskSize /\ b \in Nat
  <2>1. \A q \in headers : q \in Positions
    BY <1>1 DEF TypeOK
  <2>2. \A q \in headers : q \in Nat
    BY <2>1, PositionsAssumption
  <2>3. p < DiskSize
    BY <2>1, DiskAssumption
  <2>4. QED
    BY <1>1, <2>2, <2>3
<1>3. CASE p < b
  BY <1>3
<1>4. CASE ~(p < b)
  <2> DEFINE carved == /\ disk[p].kind = "zip" /\ disk[p].verdict = "valid"
                       /\ \A q \in A : q < p => disk[q].end <= p
             B == A \cup {q \in {p} : carved}
             c == p + 1
  <2>1. B \in SUBSET headers /\ c \in 0 .. DiskSize /\ c \in Nat
    <3>1. c \in 0 .. DiskSize /\ c \in Nat
      BY <1>1, <1>2
    <3>2. B \subseteq headers
      BY ZenonT(20)
    <3>3. QED
      BY <3>1, <3>2
  <2>2. \A q \in A : q < b /\ q < p /\ q \in Nat
    BY <1>2, <1>4 DEF NumberedBy, CarvedBelow
  <2>3. p \notin A /\ (p \in B <=> carved) /\ \A q : q # p => (q \in B <=> q \in A)
    <3>1. p \notin A
      BY <1>2, <2>2
    <3> HIDE DEF carved
    <3>2. \A q : q \in B <=> q \in A \/ (q = p /\ carved)
      OBVIOUS
    <3> QED
      BY <3>1, <3>2, Zenon
  <2>4. \A q \in headers : q < c => q = p \/ q < b
    <3> SUFFICES ASSUME NEW q \in headers, q < c, q # p
                 PROVE  q < b
      OBVIOUS
    <3>1. q \in Nat /\ q < p
      BY <1>2
    <3>2. q \in Range(found)
      BY <1>2, <3>1 DEF IsNext, Pending
    <3>3. QED
      BY <3>2 DEF NumberedBy
  <2> HIDE DEF B, c
  <2>5. CarvedBelow(B, c)
    <3>1. ASSUME NEW q \in B PROVE q < c
      <4>1. CASE q = p
        BY <1>2, <4>1 DEF c
      <4>2. CASE q # p
        <5>1. q \in A
          BY <2>3, <4>2
        <5>2. q \in Nat /\ q < p
          BY <2>2, <5>1
        <5>3. QED
          BY <1>2, <5>2 DEF c
      <4>3. QED
        BY <4>1, <4>2
    <3>2. ASSUME NEW q \in headers, q < c
          PROVE  q \in B <=> /\ disk[q].kind = "zip" /\ disk[q].verdict = "valid"
                             /\ \A r \in B : r < q => disk[r].end <= q
      <4>1. CASE q = p
        <5>1. \A r \in B : r < p => r \in A
          BY <1>2, <2>3
        <5>2. \A r \in A : r \in B
          BY <2>3
        <5>3. QED
          BY <2>3, <4>1, <5>1, <5>2
      <4>2. CASE q # p
        <5>1. q < b /\ q \in Nat /\ q < p
          BY <1>2, <1>4, <2>4, <3>2, <4>2
        <5>2. \A r : r \in B /\ r < q <=> r \in A /\ r < q
          BY <1>2, <2>3, <5>1
        <5>3. q \in A <=> /\ disk[q].kind = "zip" /\ disk[q].verdict = "valid"
                          /\ \A r \in A : r < q => disk[r].end <= q
          BY <5>1 DEF NumberedBy, CarvedBelow
        <5>4. QED
          BY <2>3, <4>2, <5>2, <5>3
      <4>3. QED
        BY <4>1, <4>2
    <3>3. QED
      BY <3>1, <3>2 DEF CarvedBelow
  <2>6. \A q \in headers : q # p => (q \in SavedIn(B) <=> q \in SavedIn(A))
    BY <2>3 DEF SavedIn
  <2>7. p \notin Range(found) /\ Range(found) \subseteq headers
    <3>1. found \in Seq(headers)
      BY <1>1 DEF TypeOK
    <3>2. Range(found) \subseteq headers
      BY <3>1 DEF Range
    <3>3. QED
      BY <3>2 DEF IsNext, Pending
  <2>8. SavedIn(B) \cap Range(found) = SavedIn(A) \cap Range(found)
    BY <2>6, <2>7
  <2>9. ASSUME NEW q \in SavedIn(A), q < b
        PROVE  q \in SavedIn(B) /\ Rank(B, q) = Rank(A, q) /\ q < c
    <3>1. q \in headers /\ q \in Nat /\ q < p /\ q # p
      BY <1>2, <1>4, <2>9 DEF SavedIn
    <3>2. {r \in SavedIn(B) : r <= q} = {r \in SavedIn(A) : r <= q}
      <4>1. \A r \in headers : r <= q => r # p
        BY <1>2, <3>1
      <4>2. QED
        BY <2>6, <4>1 DEF SavedIn
    <3>3. QED
      BY <1>2, <2>6, <2>9, <3>1, <3>2 DEF Rank, c
  <2>10. NumberedBy(B, c)
    <3>1. \A q \in Range(found) : q < c
      <4>1. \A q \in Range(found) : q < b /\ q \in Nat
        BY <1>2, <2>7 DEF NumberedBy
      <4>2. b < c
        BY <1>2, <1>4 DEF c
      <4> SUFFICES ASSUME NEW q \in Range(found) PROVE q < c
        OBVIOUS
      <4>3. QED
        BY <1>2, <2>1, <4>1, <4>2
    <3>2. Range(found) \cap B = Range(found) \cap A
      BY <2>3, <2>7
    <3>3. \A q \in A : q \in B
      BY <2>3, <2>2
    <3>4. QED
      BY <2>5, <2>8, <2>9, <3>1, <3>2, <3>3 DEF NumberedBy
  <2>11. p < c
    BY <1>2 DEF c
  <2>12. QED
    BY <2>1, <2>10, <2>11
<1>5. QED
  BY <1>3, <1>4


\* What extraction does to ranges, counter and files, in one place.
LEMMA ExtractEffect ==
    ASSUME NEW p, Extract(p)
    PROVE  /\ IF disk[p].verdict = "valid" /\ ~Ignored(p)
              THEN AddRecoveredRange(p)
              ELSE UNCHANGED recoveredRanges
           /\ \/ /\ disk[p].verdict = "valid" /\ ~Ignored(p) /\ ShouldSave(disk[p].type)
                 /\ counter' = counter + 1
                 /\ \/ UNCHANGED files
                    \/ \E what : what.start = p /\ Store(NextName(p), what)
              \/ /\ ~(disk[p].verdict = "valid" /\ ~Ignored(p) /\ ShouldSave(disk[p].type))
                 /\ UNCHANGED <<counter, files>>
<1>1. Extent(p).start = p /\ Part(p).start = p
  BY DEF Extent, Part
<1>2. CASE Ignore(p) \/ Reject(p) \/ Warn(p)
  BY <1>2 DEF Ignore, Reject, Warn, carverVars
<1>3. CASE FilterOut(p)
  BY <1>3 DEF FilterOut
<1>4. CASE Save(p)
  BY <1>1, <1>4 DEF Save, NextCount
<1>5. CASE SaveFails(p)
  BY <1>1, <1>5 DEF SaveFails, NextCount
<1>6. QED
  BY <1>2, <1>3, <1>4, <1>5 DEF Extract

\* A visit below b keeps to A, and gives a file the rank of its header: the name
\* it writes to is new or holds what the same header left there, or something
\* from behind a header that the runs do not agree on.
LEMMA VisitNumbers ==
    ASSUME RunInductive, NEW A \in SUBSET headers, NEW b \in 0 .. DiskSize, NumberedBy(A, b),
           NEW p \in headers, p < b, VisitHeader(p), Extract(p),
           UNCHANGED <<disk, outputTypes, changed>>
    PROVE  /\ NumberedBy(A, b)'
           /\ \A name \in DOMAIN files :
                  Steady(files[name].start) => files'[name].start = files[name].start
<1> DEFINE carved == disk[p].kind = "zip" /\ disk[p].verdict = "valid" /\ ~Ignored(p)
           saved == disk[p].verdict = "valid" /\ ~Ignored(p) /\ ShouldSave(disk[p].type)
<1>1. /\ TypeOK /\ IsNext(p) /\ UNCHANGED headers /\ UNCHANGED disk /\ UNCHANGED outputTypes
      /\ headers' = headers /\ disk' = disk
  BY DEF RunInductive, VisitHeader
<1>2. /\ p \in Nat /\ p \notin Range(found) /\ disk[p] \in Contents(p)
      /\ Range(found') = Range(found) \cup {p}
      /\ \A q \in Range(found) : q < p
  BY VisitFacts
<1>3. disk[p].kind \in {"pdf", "zip"}
  BY <1>2 DEF Contents, Whole, Broken
<1>4. p \in A <=> carved
  <2>1. p \in A <=> /\ disk[p].kind = "zip" /\ disk[p].verdict = "valid"
                    /\ \A q \in A : q < p => disk[q].end <= p
    BY DEF NumberedBy, CarvedBelow
  <2>2. Ignored(p) <=> /\ disk[p].kind = "zip"
                       /\ ~\A q \in A : q < p => disk[q].end <= p
    BY <1>1, NextCarved
  <2>3. QED
    BY <2>1, <2>2
<1>5. p \in SavedIn(A) <=> saved
  BY <1>3, <1>4 DEF SavedIn, Ignored
<1>6. SavedIn(A)' = SavedIn(A) /\ CarvedBelow(A, b)' /\ \A s : Rank(A, s)' = Rank(A, s)
  BY <1>1 DEF SavedIn, ShouldSave, CarvedBelow, NumberedBy, Rank
<1>7. {q \in SavedIn(A) : q <= p} = SavedIn(A) \cap Range(found')
  <2>1. ASSUME NEW q \in SavedIn(A)
        PROVE  q <= p <=> q \in Range(found')
    <3>1. q \in headers /\ q \in Nat
      BY <1>1, PositionsAssumption DEF SavedIn, TypeOK
    <3>2. q \notin Range(found') => p < q
      BY <1>1, <1>2, <3>1 DEF IsNext, Pending
    <3>3. QED
      BY <1>2, <3>1, <3>2
  <2>2. QED
    BY <2>1
<1>8. /\ counter \in Nat /\ counter = Cardinality(SavedIn(A) \cap Range(found))
      /\ IsFiniteSet(SavedIn(A) \cap Range(found))
  <2> DEFINE S == SavedIn(A) \cap Range(found)
  <2>1. S \in SUBSET headers
    BY DEF SavedIn
  <2>2. \A q \in S : q <= p
    <3>1. \A q \in S : q \in Nat /\ q < p
      BY <1>1, <1>2, <2>1, PositionsAssumption DEF TypeOK
    <3>2. QED
      BY <1>2, <3>1
  <2>3. IsFiniteSet(S)
    BY <1>1, <1>2, <2>1, <2>2, BelowFinite
  <2>4. QED
    BY <1>1, <2>3 DEF TypeOK, NumberedBy
<1>9. /\ saved => /\ SavedIn(A) \cap Range(found') = (SavedIn(A) \cap Range(found)) \cup {p}
                  /\ Cardinality(SavedIn(A) \cap Range(found')) = counter + 1
                  /\ Rank(A, p) = counter + 1
      /\ ~saved => SavedIn(A) \cap Range(found') = SavedIn(A) \cap Range(found)
  <2>1. CASE saved
    <3>1. SavedIn(A) \cap Range(found') = (SavedIn(A) \cap Range(found)) \cup {p}
      BY <1>2, <1>5, <2>1
    <3>2. Cardinality(SavedIn(A) \cap Range(found')) = counter + 1
      BY <1>2, <1>8, <3>1, FS_AddElement
    <3>3. QED
      BY <1>7, <2>1, <3>1, <3>2 DEF Rank
  <2>2. CASE ~saved
    BY <1>2, <1>5, <2>2
  <2>3. QED
    BY <2>1, <2>2
<1>10. /\ \/ saved /\ counter' = counter + 1
          \/ ~saved /\ UNCHANGED <<counter, files>>
       /\ \/ UNCHANGED files
          \/ saved /\ \E what : what.start = p /\ Store(NextName(p), what)
  BY ExtractEffect
<1>11. counter' = Cardinality(SavedIn(A) \cap Range(found'))
  <2> HIDE DEF saved
  <2>1. QED
    BY <1>8, <1>9, <1>10
<1>12. /\ \A q \in Range(found') \cap A :
             \E i \in DOMAIN recoveredRanges' : recoveredRanges'[i].start = q
       /\ \A i \in DOMAIN recoveredRanges' :
             /\ recoveredRanges'[i].start \in A
             /\ recoveredRanges'[i].end = disk[recoveredRanges'[i].start].end
  <2>1. /\ \A q \in Range(found) \cap A :
               \E i \in DOMAIN recoveredRanges : recoveredRanges[i].start = q
        /\ \A i \in DOMAIN recoveredRanges :
               /\ recoveredRanges[i].start \in A
               /\ recoveredRanges[i].end = disk[recoveredRanges[i].start].end
    BY DEF NumberedBy
  <2>2. CASE carved
    <3> DEFINE r == [start |-> p, end |-> disk[p].end]
    <3>1. r.start = p /\ r.end = disk[p].end
      OBVIOUS
    <3>2. recoveredRanges' = Append(recoveredRanges, r)
      BY <2>2, ExtractEffect DEF AddRecoveredRange
    <3>3. recoveredRanges \in Seq(Extents)
      BY <1>1 DEF TypeOK
    <3> HIDE DEF r
    <3>4. /\ DOMAIN recoveredRanges' = 1 .. Len(recoveredRanges) + 1
          /\ DOMAIN recoveredRanges = 1 .. Len(recoveredRanges)
          /\ Len(recoveredRanges) \in Nat
          /\ \A i \in DOMAIN recoveredRanges : recoveredRanges'[i] = recoveredRanges[i]
          /\ recoveredRanges'[Len(recoveredRanges) + 1] = r
      BY <3>2, <3>3
    <3>5. p \in A
      BY <1>4, <2>2
    <3> HIDE DEF carved
    <3>6. ASSUME NEW i \in DOMAIN recoveredRanges'
          PROVE  i \in DOMAIN recoveredRanges \/ recoveredRanges'[i] = r
      BY <3>4
    <3>7. Len(recoveredRanges) + 1 \in DOMAIN recoveredRanges'
      BY <3>4
    <3>8. DOMAIN recoveredRanges \subseteq DOMAIN recoveredRanges'
      BY <3>4
    <3>9. QED
      BY <1>2, <2>1, <3>1, <3>4, <3>5, <3>6, <3>7, <3>8
  <2>3. CASE ~carved
    <3>1. UNCHANGED recoveredRanges
      BY <2>3, ExtractEffect DEF AddRecoveredRange
    <3>2. p \notin A
      BY <1>4, <2>3
    <3>3. QED
      BY <1>2, <2>1, <3>1, <3>2
  <2>4. QED
    BY <2>2, <2>3
<1>13. \A name \in DOMAIN files : Steady(files[name].start) =>
           /\ files[name].start \in SavedIn(A) /\ files[name].start < b
           /\ name[1] = Rank(A, files[name].start)
  BY DEF NumberedBy
<1>14. /\ \A name \in DOMAIN files' : Steady(files'[name].start) =>
             /\ files'[name].start \in SavedIn(A) /\ files'[name].start < b
             /\ name[1] = Rank(A, files'[name].start)
       /\ \A name \in DOMAIN files :
             Steady(files[name].start) => files'[name].start = files[name].start
  <2>1. CASE UNCHANGED files
    BY <1>13, <2>1
  <2>2. ASSUME NEW what, what.start = p, Store(NextName(p), what), saved
        PROVE  /\ \A name \in DOMAIN files' : Steady(files'[name].start) =>
                      /\ files'[name].start \in SavedIn(A) /\ files'[name].start < b
                      /\ name[1] = Rank(A, files'[name].start)
               /\ \A name \in DOMAIN files :
                      Steady(files[name].start) => files'[name].start = files[name].start
    <3>1. disk[p].verdict = "valid" /\ p \in SavedIn(A)
      BY <1>5, <2>2
    <3>2. /\ DOMAIN files' = DOMAIN files \cup {NextName(p)}
          /\ files'[NextName(p)] = what
          /\ \A name \in DOMAIN files : name # NextName(p) => files'[name] = files[name]
      BY <2>2, <3>1, StoreFacts
    <3>3. NextName(p)[1] = Rank(A, p)
      BY <1>9, <2>2, <3>1, NextNameUnlisted
    <3> HIDE DEF saved
    <3>4. NextName(p) \in DOMAIN files /\ Steady(files[NextName(p)].start) =>
            files[NextName(p)].start = p
      BY <1>1, <1>13, <3>1, <3>3, RankInjective
    <3>5. QED
      BY <1>13, <2>2, <3>1, <3>2, <3>3, <3>4
  <2>3. QED
    BY <1>10, <2>1, <2>2
<1>15. \A q \in Range(found') : q < b
  BY <1>2 DEF NumberedBy
<1> HIDE DEF saved, carved
<1>16. \A name \in DOMAIN files' :
          /\ Rank(A, files[name].start)' = Rank(A, files'[name].start)
          /\ Steady(files[name].start)' = Steady(files'[name].start)
  BY <1>6 DEF Rank, Steady
<1>17. NumberedBy(A, b)'
  BY <1>1, <1>6, <1>11, <1>12, <1>14, <1>15, <1>16 DEF NumberedBy
<1>18. QED
  BY <1>14, <1>17


\* One filter among those there were is all of them.
LEMMA OneFilter ==
    ASSUME NEW F, NEW G, NEW f \in F, NEW g \in G, F \subseteq G,
           IsFiniteSet(G), Cardinality(G) = 1
    PROVE  Cardinality(F) = 1 /\ f = g
<1>1. PICK x : G = {x}
  BY FS_Singleton
<1>2. F = {x}
  BY <1>1
<1>3. QED
  BY <1>1, <1>2, FS_Singleton

\* Nothing found yet: the command begins with its invariant.
LEMMA CommandInitInductive == CommandInit => CommandInductive
<1> SUFFICES ASSUME CommandInit PROVE CommandInductive
  OBVIOUS
<1>1. /\ Init /\ exit = "none" /\ report = <<>> /\ run = 1 /\ filters = {outputTypes}
      /\ changed = {}
  BY DEF CommandInit
<1>2. RunInductive /\ TypeOK
  BY <1>1, InitInductive DEF Inductive, RunInductive
<1>3. CommandTypeOK
  BY <1>1, <1>2, RunsAssumption DEF CommandTypeOK, TypeOK
<1>4. ReportStands
  BY <1>1 DEF ReportStands
<1>5. NumberedBy({}, 0)
  <2>1. /\ found = <<>> /\ recoveredRanges = <<>> /\ counter = 0 /\ files = <<>>
    BY <1>1 DEF Init
  <2>2. Range(found) = {} /\ DOMAIN recoveredRanges = {} /\ DOMAIN files = {}
    BY <2>1 DEF Range
  <2>3. CarvedBelow({}, 0)
    <3>1. \A p \in headers : p \in Nat
      BY <1>2, PositionsAssumption DEF TypeOK
    <3>2. \A p \in headers : ~(p < 0)
      BY <3>1
    <3>3. QED
      BY <3>2 DEF CarvedBelow
  <2>4. SavedIn({}) \cap Range(found) = {}
    BY <2>2
  <2>5. counter = Cardinality(SavedIn({}) \cap Range(found))
    BY <2>1, <2>4, FS_EmptySet
  <2>6. QED
    BY <2>2, <2>3, <2>5 DEF NumberedBy
<1>6. NumberedByDisk
  <2>1. headers = SelectHeaders
    BY <1>1 DEF Init
  <2>2. IsFiniteSet(filters)
    BY <1>1, FS_Singleton
  <2>3. {} \in SUBSET headers /\ 0 \in 0 .. DiskSize
    BY DiskAssumption
  <2>4. QED
    BY <1>5, <2>1, <2>2, <2>3 DEF NumberedByDisk
<1>7. QED
  BY <1>2, <1>3, <1>4, <1>6 DEF CommandInductive

\* A step of the scan keeps the numbers those of the disk.
LEMMA ScanNumbers ==
    ASSUME RunInductive, NumberedByDisk, Next, UNCHANGED <<filters, changed>>
    PROVE  /\ NumberedByDisk'
           /\ Cardinality(filters) = 1 =>
                  \A name \in DOMAIN files :
                      Steady(files[name].start) => files'[name].start = files[name].start
<1>1. /\ headers = SelectHeaders /\ IsFiniteSet(filters) /\ UNCHANGED <<headers, disk, outputTypes>>
  BY DEF NumberedByDisk, Next, Carve, VisitHeader, EndScan, Finish, Fail
<1>2. headers' = SelectHeaders' /\ IsFiniteSet(filters')
  BY <1>1 DEF SelectHeaders, Selected
<1>3. CASE Cardinality(filters) # 1
  BY <1>2, <1>3 DEF NumberedByDisk
<1>4. CASE Cardinality(filters) = 1
  <2>1. PICK A \in SUBSET headers, b \in 0 .. DiskSize : NumberedBy(A, b)
    BY <1>4 DEF NumberedByDisk
  <2>2. CASE EndScan
    <3>1. UNCHANGED <<headers, found, disk, outputTypes, recoveredRanges, counter, files>>
      BY <2>2 DEF EndScan, Finish, Fail, carverVars
    <3>2. NumberedBy(A, b)'
      BY <2>1, <3>1 DEF NumberedBy, CarvedBelow, SavedIn, ShouldSave, Rank, Steady
    <3>3. QED
      BY <1>1, <1>2, <2>1, <3>1, <3>2 DEF NumberedByDisk
  <2>3. CASE Carve
    <3>1. PICK p \in headers : VisitHeader(p) /\ Extract(p) /\ UNCHANGED <<disk, outputTypes>>
      BY <2>3 DEF Carve
    <3>2. IsNext(p)
      BY <3>1 DEF VisitHeader
    <3>3. PICK B \in SUBSET headers, c \in 0 .. DiskSize : NumberedBy(B, c) /\ p < c
      BY <2>1, <3>2, NumberedFurther
    <3>4. /\ NumberedBy(B, c)'
          /\ \A name \in DOMAIN files :
                 Steady(files[name].start) => files'[name].start = files[name].start
      BY <3>1, <3>3, VisitNumbers
    <3>5. QED
      BY <1>1, <1>2, <3>3, <3>4 DEF NumberedByDisk
  <2>4. QED
    BY <2>2, <2>3 DEF Next
<1>5. QED
  BY <1>3, <1>4

\* Among numbers there is a least, or b is not above any of them.
LEMMA LeastBelow ==
    ASSUME NEW S \in SUBSET Nat, NEW b \in Nat
    PROVE  \E c \in 0 .. b : (c = b \/ c \in S) /\ \A q \in S : c <= q
<1> DEFINE T == S \cup {b}
           R == OpToRel(<, Nat)
<1>1. IsWellFoundedOn(R, Nat)
  BY NatLessThanWellFounded
<1>2. \A x, y \in Nat : y < x => <<y, x>> \in R
  BY DEF OpToRel
<1>3. T \in SUBSET Nat /\ T # {} /\ b \in T /\ \A y \in S : y \in T
  OBVIOUS
<1> HIDE DEF R, T
<1>4. PICK c \in T : \A y \in T : ~(<<y, c>> \in R)
  BY <1>1, <1>3, WFMin
<1>5. \A y \in T : y \in Nat /\ c \in Nat /\ ~(y < c)
  BY <1>2, <1>3, <1>4
<1>6. c = b \/ c \in S
  BY <1>4 DEF T
<1>7. c \in 0 .. b /\ \A q \in S : c <= q
  BY <1>3, <1>5
<1>8. QED
  BY <1>6, <1>7

\* What the runs agree on is carved and numbered alike in the next one.
LEMMA RereadNumbers ==
    ASSUME CommandTypeOK, NEW A \in SUBSET headers, NEW b \in 0 .. DiskSize, NumberedBy(A, b),
           Rerun, headers' = headers, UNCHANGED outputTypes
    PROVE  \E B \in SUBSET headers', c \in 0 .. DiskSize : NumberedBy(B, c)'
<1>1. /\ UNCHANGED files /\ found' = <<>> /\ recoveredRanges' = <<>> /\ counter' = 0
      /\ changed' = changed \cup {p \in DOMAIN disk : disk'[p] # disk[p]}
      /\ DOMAIN disk' = DOMAIN disk
  BY DEF Rerun
<1>2. /\ headers \subseteq DOMAIN disk /\ DOMAIN disk \subseteq Nat /\ changed \subseteq DOMAIN disk
      /\ DiskSize \in Nat /\ b \in Nat
  <2>1. headers \subseteq DOMAIN disk /\ DOMAIN disk \subseteq Positions
    BY DEF CommandTypeOK, TypeOK
  <2>2. DOMAIN disk \subseteq Nat
    BY <2>1, PositionsAssumption
  <2>3. changed \subseteq DOMAIN disk
    BY DEF CommandTypeOK
  <2>4. DiskSize \in Nat
    BY DiskAssumption
  <2>5. QED
    BY <2>1, <2>2, <2>3, <2>4
<1>3. changed' \in SUBSET Nat
  BY <1>1, <1>2
<1>4. PICK c \in 0 .. b : (c = b \/ c \in changed') /\ \A q \in changed' : c <= q
  BY <1>2, <1>3, LeastBelow
<1> DEFINE B == {p \in A : p < c}
<1>5. c \in Nat /\ c <= b /\ c \in 0 .. DiskSize
  BY <1>2
<1>6. \A p \in headers : p < c => p \in Nat /\ p < b /\ disk'[p] = disk[p]
  <2> SUFFICES ASSUME NEW p \in headers, p < c
               PROVE  p \in Nat /\ p < b /\ disk'[p] = disk[p]
    OBVIOUS
  <2>1. p \in Nat /\ p < b /\ p \in DOMAIN disk
    BY <1>2, <1>5
  <2>2. p \notin changed'
    BY <1>4, <1>5, <2>1
  <2>3. QED
    BY <1>1, <2>1, <2>2
<1>7. B \in SUBSET headers' /\ \A p \in headers : p \in B <=> p \in A /\ p < c
  OBVIOUS
<1> HIDE DEF B
<1>8. CarvedBelow(B, c)'
  <2>1. ASSUME NEW p \in headers, p < c
        PROVE  p \in B <=> /\ disk'[p].kind = "zip" /\ disk'[p].verdict = "valid"
                           /\ \A q \in B : q < p => disk'[q].end <= p
    <3>1. p \in A <=> /\ disk[p].kind = "zip" /\ disk[p].verdict = "valid"
                      /\ \A q \in A : q < p => disk[q].end <= p
      BY <1>6, <2>1 DEF NumberedBy, CarvedBelow
    <3>2. \A q \in headers : q < p => q < c
      BY <1>2, <1>5, <2>1
    <3>3. \A q \in headers : q \in B /\ q < p <=> q \in A /\ q < p
      BY <1>7, <3>2
    <3>4. \A q \in headers : q < p => disk'[q] = disk[q]
      BY <1>6, <3>2
    <3>5. B \subseteq headers /\ A \subseteq headers
      BY <1>7
    <3>6. (\A q \in B : q < p => disk'[q].end <= p) <=> (\A q \in A : q < p => disk[q].end <= p)
      BY <3>3, <3>4, <3>5
    <3>7. disk'[p] = disk[p] /\ (p \in B <=> p \in A)
      BY <1>6, <1>7, <2>1
    <3>8. QED
      BY <3>1, <3>6, <3>7
  <2>2. \A p \in B : p < c
    BY <1>7
  <2>3. QED
    BY <2>1, <2>2 DEF CarvedBelow
<1>9. \A p \in headers : p < c => (p \in SavedIn(B)' <=> p \in SavedIn(A))
  BY <1>6, <1>7 DEF SavedIn, ShouldSave
<1>10. ASSUME NEW p \in SavedIn(A), p < c
       PROVE  p \in SavedIn(B)' /\ Rank(B, p)' = Rank(A, p)
  <2>1. p \in headers /\ SavedIn(A) \subseteq headers /\ SavedIn(B)' \subseteq headers
    BY DEF SavedIn
  <2>2. \A q \in headers : q <= p => q < c
    BY <1>2, <1>5, <1>10, <2>1
  <2>3. {q \in SavedIn(B)' : q <= p} = {q \in SavedIn(A) : q <= p}
    BY <1>9, <2>1, <2>2
  <2>4. Rank(B, p)' = Rank(A, p)
    BY <2>3 DEF Rank
  <2>5. QED
    BY <1>9, <1>10, <2>1, <2>4
<1>11. ASSUME NEW name \in DOMAIN files, Steady(files[name].start)'
       PROVE  /\ files[name].start \in SavedIn(B)' /\ files[name].start < c
              /\ name[1] = Rank(B, files[name].start)'
  <2> PICK s : s = files[name].start
    OBVIOUS
  <2>1. \A q \in changed' : s < q
    BY <1>1, <1>11 DEF Steady
  <2>2. Steady(s)
    BY <1>1, <2>1 DEF Steady
  <2>3. s \in SavedIn(A) /\ s < b /\ name[1] = Rank(A, s)
    BY <2>2 DEF NumberedBy
  <2>4. s < c
    BY <1>4, <2>1, <2>3
  <2>5. s \in SavedIn(B)' /\ Rank(B, s)' = Rank(A, s)
    BY <1>10, <2>3, <2>4
  <2>6. Rank(B, files[name].start)' = Rank(B, s)'
    BY <1>1 DEF Rank
  <2>7. QED
    BY <1>1, <2>3, <2>4, <2>5, <2>6
<1>12. /\ Range(found)' = {} /\ DOMAIN recoveredRanges' = {}
  BY <1>1 DEF Range
<1>13. counter' = Cardinality(SavedIn(B)' \cap Range(found)')
  <2>1. SavedIn(B)' \cap Range(found)' = {}
    BY <1>12
  <2>2. QED
    BY <1>1, <2>1, FS_EmptySet
<1>14. \A name \in DOMAIN files' : Steady(files[name].start)' =>
          /\ files'[name].start \in SavedIn(B)' /\ files'[name].start < c
          /\ name[1] = Rank(B, files[name].start)'
  BY <1>1, <1>11
<1>15. NumberedBy(B, c)'
  BY <1>8, <1>12, <1>13, <1>14 DEF NumberedBy
<1>16. QED
  BY <1>5, <1>7, <1>15

\* A new run with the same filter begins where the files are already numbered, as
\* far as the runs agree.
LEMMA RerunInductive ==
    ASSUME CommandInductive, Rerun
    PROVE  CommandInductive'
<1>1. /\ exit' = "none" /\ run' = run + 1 /\ run < MaxRuns
      /\ UNCHANGED <<files, report>>
      /\ DOMAIN disk' = DOMAIN disk /\ \A p \in DOMAIN disk : disk'[p] \in Reread(p)
      /\ changed' = changed \cup {p \in DOMAIN disk : disk'[p] # disk[p]}
      /\ outputTypes' \in SUBSET Types /\ headers' = SelectHeaders'
      /\ found' = <<>> /\ status' = "running"
      /\ recoveredRanges' = <<>> /\ counter' = 0 /\ results' = <<>> /\ warnings' = {}
      /\ filters' = filters \cup {outputTypes'}
  BY DEF Rerun
<1>2. TypeOK /\ CommandTypeOK /\ NumberedByDisk
  BY DEF CommandInductive, RunInductive
<1>3. /\ headers' \subseteq DOMAIN disk' /\ DOMAIN disk' \subseteq Positions
      /\ \A p \in DOMAIN disk' : disk'[p] \in Contents(p)
      /\ DOMAIN files' \subseteq Names
  BY <1>1, <1>2 DEF TypeOK, SelectHeaders, Reread
<1>4. /\ Range(found)' = {} /\ DOMAIN recoveredRanges' = {} /\ DOMAIN results' = {}
      /\ found' \in Seq(headers') /\ recoveredRanges' \in Seq(Extents)
      /\ results' \in Seq([name : Names, extent : Extents])
  BY <1>1 DEF Range
<1>5. TypeOK'
  BY <1>1, <1>3, <1>4 DEF TypeOK
<1>6. RunInductive'
  BY <1>4, <1>5 DEF RunInductive, Swept, RangesStartAtHeaders, ResultsNumbered,
     RangesDisjoint, EveryArchiveCarved, ResultsOnDisk
<1>7. run \in Nat /\ MaxRuns \in Nat /\ (report = <<>> \/ report[1].run \in 1 .. run)
  BY <1>2, RunsAssumption DEF CommandTypeOK
<1>8. CommandTypeOK'
  <2>1. run' \in 1 .. MaxRuns
    BY <1>1, <1>2, <1>7 DEF CommandTypeOK
  <2>2. report' = <<>> \/ report'[1].run \in 1 .. run'
    BY <1>1, <1>7
  <2>3. outputTypes' \in filters' /\ filters' \subseteq SUBSET Types
    BY <1>1, <1>2 DEF CommandTypeOK
  <2>4. changed' \subseteq DOMAIN disk'
    BY <1>1, <1>2 DEF CommandTypeOK
  <2>5. QED
    BY <1>1, <1>5, <2>1, <2>2, <2>3, <2>4 DEF CommandTypeOK
<1>9. ReportStands'
  <2>1. report' # <<>> => report'[1].run < run'
    BY <1>1, <1>7
  <2>2. QED
    BY <1>1, <2>1 DEF ReportStands
<1>10. NumberedByDisk'
  <2>1. IsFiniteSet(filters')
    BY <1>1, <1>2, FS_AddElement DEF NumberedByDisk
  <2>2. ASSUME Cardinality(filters') = 1
        PROVE  \E A \in SUBSET headers', b \in 0 .. DiskSize : NumberedBy(A, b)'
    <3>1. Cardinality(filters) = 1 /\ outputTypes = outputTypes'
      <4>1. outputTypes \in filters /\ outputTypes' \in filters' /\ filters \subseteq filters'
        BY <1>1, <1>2 DEF CommandTypeOK
      <4>2. QED
        BY <2>1, <2>2, <4>1, OneFilter
    <3>2. PICK A \in SUBSET headers, b \in 0 .. DiskSize : NumberedBy(A, b)
      BY <1>2, <3>1 DEF NumberedByDisk
    <3>3. headers' = headers
      <4>1. \A p \in DOMAIN disk : disk'[p].kind = disk[p].kind
        BY <1>1 DEF Reread
      <4>2. headers = SelectHeaders /\ headers' = SelectHeaders'
        BY <1>1, <1>2 DEF NumberedByDisk
      <4>3. QED
        BY <1>1, <3>1, <4>1, <4>2 DEF SelectHeaders, Selected
    <3>4. QED
      BY <1>2, <3>1, <3>2, <3>3, RereadNumbers
  <2>3. QED
    BY <1>1, <2>1, <2>2 DEF NumberedByDisk
<1>11. QED
  BY <1>6, <1>8, <1>9, <1>10 DEF CommandInductive

\* A step that ends a run leaves the carver where it stands.
LEMMA EndInductive ==
    ASSUME CommandInductive, ExitOnScanError \/ WriteReport \/ Interrupt
    PROVE  CommandInductive'
<1>1. /\ exit = "none" /\ UNCHANGED <<vars, run, filters, changed>>
      /\ \/ exit' \in {"error", "killed"} /\ UNCHANGED report
         \/ exit' = "ok" /\ (report' \in {<<Report>>, <<>>} \/ UNCHANGED report)
  BY DEF ExitOnScanError, WriteReport, Interrupt
<1>2. RunInductive /\ [Next]_vars
  BY <1>1 DEF CommandInductive
<1>3. RunInductive'
  BY <1>2, StepInductive
<1>4. CommandTypeOK /\ ReportStands /\ NumberedByDisk
  BY DEF CommandInductive
<1>5. run \in Nat /\ run \in 1 .. MaxRuns
  BY <1>4, RunsAssumption DEF CommandTypeOK
<1>6. Report.run = run
  BY DEF Report
<1>7. Report' = Report
  BY <1>1 DEF vars, carverVars, Report, OfType
<1>8. report # <<>> => report[1].run < run
  BY <1>1, <1>4 DEF ReportStands
<1>9. ASSUME report' = report
      PROVE  CommandTypeOK' /\ ReportStands'
  <2>1. CommandTypeOK'
    BY <1>1, <1>3, <1>4, <1>9 DEF CommandTypeOK, RunInductive, vars
  <2>2. ReportStands'
    <3>1. run' = run
      BY <1>1
    <3>2. report # <<>> => report[1].run # run
      <4>1. report # <<>> => report[1].run \in Nat
        BY <1>4, <1>5 DEF CommandTypeOK
      <4>2. QED
        BY <1>5, <1>8, <4>1
    <3>3. QED
      BY <1>8, <1>9, <3>1, <3>2 DEF ReportStands
  <2>3. QED
    BY <2>1, <2>2
<1>10. ASSUME exit' = "ok", report' \in {<<Report>>, <<>>}
       PROVE  CommandTypeOK' /\ ReportStands'
  <2>1. report' = <<>> \/ report'[1].run \in 1 .. run'
    BY <1>1, <1>5, <1>6, <1>10
  <2>2. CommandTypeOK'
    BY <1>1, <1>3, <1>4, <1>10, <2>1 DEF CommandTypeOK, RunInductive, vars
  <2>3. ReportStands'
    BY <1>7, <1>10 DEF ReportStands
  <2>4. QED
    BY <2>2, <2>3
<1>11. NumberedByDisk'
  <2>1. UNCHANGED <<headers, found, disk, outputTypes, recoveredRanges, counter, files,
                    filters, changed>>
    BY <1>1 DEF vars, sweepVars, carverVars
  <2>2. headers' = SelectHeaders' /\ IsFiniteSet(filters)'
    BY <1>4, <2>1 DEF NumberedByDisk, SelectHeaders, Selected
  <2>3. ASSUME NEW A, NEW b, NumberedBy(A, b)
        PROVE  NumberedBy(A, b)'
    <3>1. CarvedBelow(A, b)'
      BY <2>1, <2>3 DEF NumberedBy, CarvedBelow
    <3>2. SavedIn(A)' = SavedIn(A)
      BY <2>1 DEF SavedIn, ShouldSave
    <3>3. ASSUME NEW p PROVE Rank(A, p)' = Rank(A, p) /\ Steady(p)' = Steady(p)
      BY <2>1, <3>2 DEF Rank, Steady
    <3>4. \A name \in DOMAIN files : Steady(files[name].start)' =>
              /\ files[name].start \in SavedIn(A)' /\ files[name].start < b
              /\ name[1] = Rank(A, files[name].start)'
      BY <2>1, <2>3, <3>2, <3>3, Zenon DEF NumberedBy
    <3>5. QED
      BY <2>1, <2>3, <3>1, <3>2, <3>4, Zenon DEF NumberedBy
  <2>4. QED
    BY <1>4, <2>1, <2>2, <2>3 DEF NumberedByDisk
<1>12. CommandTypeOK' /\ ReportStands'
  BY <1>1, <1>9, <1>10
<1>13. QED
  BY <1>3, <1>11, <1>12 DEF CommandInductive


\* Every step of the command preserves its invariant, and with one filter it
\* leaves every file to the header it was carved from, up to the lowest one that
\* the runs do not agree on.
LEMMA CommandStep ==
    ASSUME CommandInductive, [CommandNext]_allVars
    PROVE  /\ CommandInductive'
           /\ Cardinality(filters') = 1 =>
                  \A name \in DOMAIN files :
                      Steady(files[name].start) => files'[name].start = files[name].start
<1>1. CASE Scanning
  <2>1. /\ exit = "none" /\ Next /\ UNCHANGED <<exit, report, run, filters, changed>>
    BY <1>1 DEF Scanning, commandVars
  <2>2. /\ CommandTypeOK /\ RunInductive /\ ReportStands /\ NumberedByDisk
    BY DEF CommandInductive
  <2>3. RunInductive' /\ TypeOK'
    BY <2>1, <2>2, StepInductive DEF RunInductive
  <2>4. UNCHANGED <<outputTypes, disk>>
    BY <2>1 DEF Next, Carve, EndScan
  <2>5. CommandTypeOK' /\ ReportStands'
    BY <2>1, <2>2, <2>3, <2>4 DEF CommandTypeOK, ReportStands
  <2>6. /\ NumberedByDisk'
        /\ Cardinality(filters) = 1 =>
               \A name \in DOMAIN files :
                   Steady(files[name].start) => files'[name].start = files[name].start
    BY <2>1, <2>2, ScanNumbers
  <2>7. QED
    BY <2>1, <2>3, <2>5, <2>6 DEF CommandInductive
<1>2. CASE ExitOnScanError \/ WriteReport \/ Interrupt
  <2>1. UNCHANGED files
    BY <1>2 DEF ExitOnScanError, WriteReport, Interrupt, vars, carverVars
  <2>2. QED
    BY <1>2, <2>1, EndInductive
<1>3. CASE Rerun
  <2>1. UNCHANGED files
    BY <1>3 DEF Rerun
  <2>2. QED
    BY <1>3, <2>1, RerunInductive
<1>4. CASE UNCHANGED allVars
  <2>1. /\ UNCHANGED vars
        /\ exit' = exit /\ report' = report /\ run' = run /\ filters' = filters
        /\ changed' = changed
    BY <1>4 DEF allVars, commandVars
  <2>2. RunInductive' /\ TypeOK'
    BY <2>1, StepInductive DEF CommandInductive, RunInductive
  <2>3. /\ headers' = headers /\ found' = found /\ disk' = disk /\ outputTypes' = outputTypes
        /\ recoveredRanges' = recoveredRanges /\ counter' = counter /\ files' = files
        /\ results' = results
    BY <2>1 DEF vars, sweepVars, carverVars
  <2>4. CommandTypeOK' /\ ReportStands'
    <3>1. Report' = Report
      BY <2>1, <2>3 DEF Report, OfType
    <3>2. QED
      BY <2>1, <2>2, <2>3, <3>1 DEF CommandInductive, CommandTypeOK, ReportStands
  <2>5. NumberedByDisk'
    <3>1. headers' = SelectHeaders' /\ IsFiniteSet(filters)'
      BY <2>1, <2>3 DEF CommandInductive, NumberedByDisk, SelectHeaders, Selected
    <3>2. ASSUME NEW A, NEW b, NumberedBy(A, b)
          PROVE  NumberedBy(A, b)'
      BY <2>1, <2>3, <3>2 DEF NumberedBy, CarvedBelow, SavedIn, ShouldSave, Rank, Steady
    <3>3. QED
      BY <2>1, <2>3, <3>1, <3>2 DEF CommandInductive, NumberedByDisk
  <2>6. QED
    BY <2>2, <2>3, <2>4, <2>5 DEF CommandInductive
<1>5. QED
  BY <1>1, <1>2, <1>3, <1>4 DEF CommandNext

\* What ties the runs into one directory together is an invariant.
THEOREM CommandInductiveHolds == CommandSpec => []CommandInductive
<1>1. CommandInductive /\ [CommandNext]_allVars => CommandInductive'
  BY CommandStep
<1>2. QED
  BY <1>1, CommandInitInductive, PTL DEF CommandSpec

\* The variables of the command keep their types.
THEOREM CommandTypes == CommandSpec => []CommandTypeOK
<1>1. CommandInductive => CommandTypeOK
  BY DEF CommandInductive
<1>2. QED
  BY <1>1, CommandInductiveHolds, PTL

\* A run's report agrees with the directory it leaves, whatever runs, failed
\* writes and interrupts came before it.
THEOREM CommandReportTrue == CommandSpec => []ReportMatchesDirectory
<1>1. CommandInductive => ReportMatchesDirectory
  BY ReportTrue
<1>2. QED
  BY <1>1, CommandInductiveHolds, PTL

\* What holds of a run's archives and results holds of every run into the directory.
THEOREM EveryRunSound ==
    CommandSpec => [](RangesDisjoint /\ EveryArchiveCarved /\ ResultsOnDisk)
<1>1. CommandInductive => RangesDisjoint /\ EveryArchiveCarved /\ ResultsOnDisk
  BY DEF CommandInductive, RunInductive
<1>2. QED
  BY <1>1, CommandInductiveHolds, PTL

\* Runs with one filter give a name to another header's file only behind a header
\* that they did not all read alike.
THEOREM CommandKeepsNumbers == CommandSpec => RerunKeepsNumbers
<1>1. CommandInductive /\ [CommandNext]_allVars =>
        [Cardinality(filters') = 1 =>
            \A name \in DOMAIN files :
                Steady(files[name].start) => files'[name].start = files[name].start]_allVars
  BY CommandStep
<1>2. QED
  BY <1>1, CommandInductiveHolds, PTL DEF CommandSpec, RerunKeepsNumbers

=============================================================================
