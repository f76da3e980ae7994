------------------------------- MODULE Carver -------------------------------
(***************************************************************************)
(* What the carver does with the headers the scan hands it: ranges of the  *)
(* archives already carved, the type filter, the counter that numbers the  *)
(* files and the writes that may fail.  The scan itself is the sweep that  *)
(* BlockScan implements; how the end of a file is found is in PdfEnd and   *)
(* ZipEnd, and is here the verdict on a header.                            *)
(***************************************************************************)
EXTENDS HeaderSweep

CONSTANTS
    DiskSize,             \* bytes of the disk
    ZipTypes              \* what classifyZip can call an archive

ASSUME DiskAssumption ==
    /\ DiskSize \in Nat
    /\ \A p \in Positions : p < DiskSize
    /\ "PDF" \notin ZipTypes

Types == {"PDF"} \cup ZipTypes

VARIABLES
    disk,                 \* for every offset with a header, what is there
    outputTypes,          \* the -type filter, {} for none
    recoveredRanges,      \* ranges of the archives carved so far
    counter,              \* number of the last file saveFile named
    results,              \* Carver.results
    warnings,             \* offsets warned of as fragmented
    files                 \* the output directory: name -> what it holds

carverVars ==
    <<recoveredRanges, counter, results, warnings, files>>
vars == <<sweepVars, disk, outputTypes, carverVars>>

-----------------------------------------------------------------------------
(* The disk and the filter.                                                *)

\* A header starts a file that extraction can read and validate up to its end,
\* or something that it cannot: a lone header or a file that has lost its end
\* ("junk"), or one whose beginning still looks sound ("fragment").
Whole(p) ==
    [kind : {"pdf"}, type : {"PDF"}, verdict : {"valid"}, end : p + 1 .. DiskSize]
    \cup
    [kind : {"zip"}, type : ZipTypes, verdict : {"valid"}, end : p + 1 .. DiskSize]

Broken(p) ==
    [kind : {"pdf", "zip"}, type : {"none"}, verdict : {"junk", "fragment"}, end : {p}]

Contents(p) == Whole(p) \cup Broken(p)

\* ForTypes: every Office type needs the one ZIP signature.
Selected(kind) ==
    \/ outputTypes = {}
    \/ kind = "pdf" /\ "PDF" \in outputTypes
    \/ kind = "zip" /\ outputTypes \cap ZipTypes # {}

ShouldSave(type) == outputTypes = {} \/ type \in outputTypes

SelectHeaders == {p \in DOMAIN disk : Selected(disk[p].kind)}

Init ==
    /\ \E H \in SUBSET Positions :
           disk \in {d \in [H -> UNION {Contents(p) : p \in H}] :
                         \A p \in H : d[p] \in Contents(p)}
    /\ outputTypes \in SUBSET Types
    /\ headers = SelectHeaders
    /\ found = <<>>
    /\ status = "running"
    /\ recoveredRanges = <<>> /\ counter = 0 /\ results = <<>> /\ warnings = {}
    /\ files = <<>>

-----------------------------------------------------------------------------
(* extractFile and extractZip on the header at p.                          *)

\* Mutants: the byte after an archive counts as part of it, or only its first.
InClosedRange(p) ==
    \E i \in DOMAIN recoveredRanges :
        recoveredRanges[i].start <= p /\ p <= recoveredRanges[i].end

StartsRange(p) ==
    \E i \in DOMAIN recoveredRanges : recoveredRanges[i].start = p

IsOffsetRecovered(p) ==
    \E i \in DOMAIN recoveredRanges :
        recoveredRanges[i].start <= p /\ p < recoveredRanges[i].end

Ignored(p) == disk[p].kind = "zip" /\ IsOffsetRecovered(p)

Ignore(p) ==
    /\ Ignored(p)
    /\ UNCHANGED carverVars

Reject(p) ==
    /\ ~Ignored(p)
    /\ disk[p].verdict = "junk"
    /\ UNCHANGED carverVars

Warn(p) ==
    /\ ~Ignored(p)
    /\ disk[p].verdict = "fragment"
    /\ warnings' = warnings \cup {p}
    /\ UNCHANGED <<recoveredRanges, counter, results, files>>

\* Mutants: an archive the filter drops does not block out its range; a range
\* reaches a byte too far.
AddRangeIfSaved(p) ==
    recoveredRanges' =
        IF disk[p].kind = "zip" /\ ShouldSave(disk[p].type)
        THEN Append(recoveredRanges, [start |-> p, end |-> disk[p].end])
        ELSE recoveredRanges

AddLongRange(p) ==
    recoveredRanges' =
        IF disk[p].kind = "zip"
        THEN Append(recoveredRanges, [start |-> p, end |-> disk[p].end + 1])
        ELSE recoveredRanges

\* Only archives block out their range, and they do whether or not the filter
\* lets them be saved.
AddRecoveredRange(p) ==
    recoveredRanges' =
        IF disk[p].kind = "zip"
        THEN Append(recoveredRanges, [start |-> p, end |-> disk[p].end])
        ELSE recoveredRanges

\* Mutant: files are numbered by the results, so that a failed write leaves
\* its number to the next file.
ResultCount == Len(results) + 1

NextCount == counter + 1

\* recovered_<count>_<type>
NextName(p) == <<NextCount, disk[p].type>>

Extent(p) == [start |-> p, end |-> disk[p].end]

\* What a write that fails leaves of it.
Part(p) == [start |-> p, end |-> p]

Store(name, what) ==
    files' = [x \in DOMAIN files \cup {name} |-> IF x = name THEN what ELSE files[x]]

FilterOut(p) ==
    /\ ~Ignored(p)
    /\ disk[p].verdict = "valid"
    /\ ~ShouldSave(disk[p].type)
    /\ AddRecoveredRange(p)
    /\ UNCHANGED <<counter, results, warnings, files>>

\* The counter moves on before the write, and stays there if it fails.
Save(p) ==
    /\ ~Ignored(p)
    /\ disk[p].verdict = "valid"
    /\ ShouldSave(disk[p].type)
    /\ AddRecoveredRange(p)
    /\ counter' = NextCount
    /\ Store(NextName(p), Extent(p))
    /\ results' = Append(results, [name |-> NextName(p), extent |-> Extent(p)])
    /\ UNCHANGED warnings

\* Mutant: the result is recorded although the write failed.
SaveFailsUnseen(p) ==
    /\ ~Ignored(p)
    /\ disk[p].verdict = "valid"
    /\ ShouldSave(disk[p].type)
    /\ AddRecoveredRange(p)
    /\ counter' = NextCount
    /\ Store(NextName(p), Part(p))
    /\ results' = Append(results, [name |-> NextName(p), extent |-> Extent(p)])
    /\ UNCHANGED warnings

\* os.WriteFile fails before it creates the file or leaves a part of it.
SaveFails(p) ==
    /\ ~Ignored(p)
    /\ disk[p].verdict = "valid"
    /\ ShouldSave(disk[p].type)
    /\ AddRecoveredRange(p)
    /\ counter' = NextCount
    /\ \/ UNCHANGED files
       \/ Store(NextName(p), Part(p))
    /\ UNCHANGED <<results, warnings>>

Extract(p) ==
    \/ Ignore(p) \/ Reject(p) \/ Warn(p)
    \/ FilterOut(p) \/ Save(p) \/ SaveFails(p)

Carve == \E p \in headers : VisitHeader(p) /\ Extract(p) /\ UNCHANGED <<disk, outputTypes>>

EndScan == (Finish \/ Fail) /\ UNCHANGED <<disk, outputTypes, carverVars>>

Next == Carve \/ EndScan

Spec == Init /\ [][Next]_vars

-----------------------------------------------------------------------------
Extents == [start : Positions, end : 0 .. DiskSize]
Names == (Nat \ {0}) \X Types

\* The state of the carver and of its output directory.
TypeOK ==
    /\ headers \subseteq DOMAIN disk /\ DOMAIN disk \subseteq Positions
    /\ \A p \in DOMAIN disk : disk[p] \in Contents(p)
    /\ found \in Seq(headers)
    /\ status \in {"running", "done", "failed"}
    /\ outputTypes \subseteq Types
    /\ recoveredRanges \in Seq(Extents)
    /\ counter \in Nat
    /\ results \in Seq([name : Names, extent : Extents])
    /\ warnings \subseteq headers
    /\ DOMAIN files \subseteq Names

\* No byte of the disk is carved into two archives, nested archives included,
\* and the ranges lie in disk order, although each header is judged alone.
RangesDisjoint ==
    \A i, j \in DOMAIN recoveredRanges :
        i < j => recoveredRanges[i].end <= recoveredRanges[j].start

Covers(range, p) == range.start <= p /\ p < range.end

\* A sound archive is never passed over but for one around it that was carved:
\* archives stored back to back are all carved, whatever the filter drops.
EveryArchiveCarved ==
    \A p \in Range(found) :
        disk[p].kind = "zip" /\ disk[p].verdict = "valid" =>
            \E i \in DOMAIN recoveredRanges : Covers(recoveredRanges[i], p)

\* Whatever Results reports is in the directory, whole and under its name,
\* whichever of the writes before and after it failed.
ResultsOnDisk ==
    \A i \in DOMAIN results :
        /\ results[i].name \in DOMAIN files
        /\ files[results[i].name] = results[i].extent

\* A run never writes to a name it has written to, not even to the rest of a
\* write that failed.
NeverOverwrites ==
    [][\A name \in DOMAIN files : name \in DOMAIN files' /\ files'[name] = files[name]]_vars

-----------------------------------------------------------------------------
\* What the visits leave behind them: all that is still pending lies above.
Swept == \A p \in Range(found) : \A q \in Pending : p < q

RangesStartAtHeaders ==
    \A i \in DOMAIN recoveredRanges :
        /\ recoveredRanges[i].start \in Range(found)
        /\ recoveredRanges[i].start < recoveredRanges[i].end

\* Each result has a number above that of the result before it.
ResultsNumbered ==
    \A i \in DOMAIN results :
        /\ results[i].name[1] <= counter
        /\ \A j \in DOMAIN results : i < j => results[i].name[1] < results[j].name[1]

NamesNumbered == \A name \in DOMAIN files : name[1] <= counter

\* The inductive invariant of a run, whatever its directory held before it ...
RunInductive ==
    /\ TypeOK
    /\ Swept
    /\ RangesStartAtHeaders
    /\ ResultsNumbered
    /\ RangesDisjoint
    /\ EveryArchiveCarved
    /\ ResultsOnDisk

\* ... and of one that began with an empty directory.
Inductive == RunInductive /\ NamesNumbered
=============================================================================
