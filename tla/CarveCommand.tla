---------------------------- MODULE CarveCommand ----------------------------
(***************************************************************************)
(* The carve command around the carver: it ends with a report, or without *)
(* one when the scan fails or the user interrupts it, and may then be run  *)
(* again, with the same or another filter, into the directory the run      *)
(* before it left behind.                                                  *)
(***************************************************************************)
EXTENDS Carver, FiniteSets

CONSTANT MaxRuns          \* bound on the runs into one directory

ASSUME RunsAssumption == MaxRuns \in Nat \ {0}

VARIABLES
    exit,                 \* "none" while the command runs, then how it ended
    report,               \* recovery_report.json: <<>> or <<what it says>>
    run,                  \* number of this run
    filters,              \* history: the filters of the runs so far
    changed               \* history: headers that extraction ever found otherwise

commandVars == <<exit, report, run, filters, changed>>
allVars == <<vars, commandVars>>

CommandInit ==
    /\ Init
    /\ exit = "none"
    /\ report = <<>>
    /\ run = 1
    /\ filters = {outputTypes}
    /\ changed = {}

-----------------------------------------------------------------------------
Scanning ==
    /\ exit = "none"
    /\ Next
    /\ UNCHANGED commandVars

\* log and os.Exit(1), past everything below.
ExitOnScanError ==
    /\ exit = "none"
    /\ status = "failed"
    /\ exit' = "error"
    /\ UNCHANGED <<vars, report, run, filters, changed>>

OfType(t) == {i \in DOMAIN results : results[i].name[2] = t}

\* Mutant: the entries are the files of the whole directory.
ReportDirectory ==
    [run |-> run,
     filesFound |-> Cardinality(DOMAIN files),
     filesByType |-> [t \in Types |-> Cardinality({f \in DOMAIN files : f[2] = t})],
     entries |-> results]

Report ==
    [run |-> run,
     filesFound |-> Len(results),
     filesByType |-> [t \in Types |-> Cardinality(OfType(t))],
     entries |-> results]

\* A report that cannot be written is only warned of; a part of it may be left.
WriteReport ==
    /\ exit = "none"
    /\ status = "done"
    /\ \/ report' = <<Report>>
       \/ report' = <<>>
       \/ UNCHANGED report
    /\ exit' = "ok"
    /\ UNCHANGED <<vars, run, filters, changed>>

\* Ctrl+C or a kill, which no handler catches.
Interrupt ==
    /\ exit = "none"
    /\ exit' = "killed"
    /\ UNCHANGED <<vars, report, run, filters, changed>>

\* What a later run may find at the header at p: its extraction reads the disk
\* anew, and a read that failed may come off now, or one that came off fail, so
\* that the file is found or lost, or a PDF cut at another %%EOF.
Reread(p) ==
    {c \in Contents(p) :
        /\ c.kind = disk[p].kind
        /\ c.kind = "zip" /\ c.verdict = disk[p].verdict => c = disk[p]}

\* The command is given again for the same disk and directory.
Rerun ==
    /\ exit # "none"
    /\ run < MaxRuns
    /\ run' = run + 1
    /\ UNCHANGED <<files, report>>
    /\ disk' \in [DOMAIN disk -> UNION {Reread(p) : p \in DOMAIN disk}]
    /\ \A p \in DOMAIN disk : disk'[p] \in Reread(p)
    /\ changed' = changed \cup {p \in DOMAIN disk : disk'[p] # disk[p]}
    /\ outputTypes' \in SUBSET Types
    /\ headers' = SelectHeaders'
    /\ found' = <<>>
    /\ status' = "running"
    /\ recoveredRanges' = <<>> /\ counter' = 0 /\ results' = <<>> /\ warnings' = {}
    /\ exit' = "none"
    /\ filters' = filters \cup {outputTypes'}

CommandNext == Scanning \/ ExitOnScanError \/ WriteReport \/ Interrupt \/ Rerun

CommandSpec == CommandInit /\ [][CommandNext]_allVars

-----------------------------------------------------------------------------
CommandTypeOK ==
    /\ TypeOK
    /\ exit \in {"none", "ok", "error", "killed"}
    /\ report = <<>> \/ report[1].run \in 1 .. run
    /\ run \in 1 .. MaxRuns
    /\ outputTypes \in filters /\ filters \subseteq SUBSET Types
    /\ changed \subseteq DOMAIN disk

\* The report a run leaves agrees with the directory it leaves: every entry is
\* the file of that name, no two entries are one file, and the totals are those
\* of the entries, whatever earlier runs and failed writes left behind.
ReportMatchesDirectory ==
    exit = "ok" /\ report # <<>> /\ report[1].run = run =>
        LET r == report[1]
            names == {r.entries[i].name : i \in DOMAIN r.entries}
        IN  /\ \A i \in DOMAIN r.entries :
                   /\ r.entries[i].name \in DOMAIN files
                   /\ files[r.entries[i].name] = r.entries[i].extent
            /\ r.filesFound = Cardinality(names)
            /\ \A t \in Types :
                   r.filesByType[t] = Cardinality({f \in names : f[2] = t})

\* No header up to p was ever found otherwise than in the first run.
Steady(p) == \A q \in changed : p < q

\* With one filter throughout, a file is replaced by that of another header only
\* behind a header whose extraction came off differently in two of the runs: a
\* transient read error moves the numbers of the files above it and of no others,
\* and failed writes, interrupts and scan errors move none.
RerunKeepsNumbers ==
    [][Cardinality(filters') = 1 =>
           \A name \in DOMAIN files :
               Steady(files[name].start) => files'[name].start = files[name].start]_allVars

-----------------------------------------------------------------------------
(* What keeps report, directory and numbers together.                      *)

\* A report of this run was written when the run ended, and says what it found.
ReportStands ==
    /\ exit # "ok" /\ report # <<>> => report[1].run < run
    /\ exit = "ok" /\ report # <<>> /\ report[1].run = run => report[1] = Report

\* Below the offset b, A is where archives are carved, whatever run carves them.
CarvedBelow(A, b) ==
    /\ \A p \in A : p < b
    /\ \A p \in headers : p < b =>
           (p \in A <=> /\ disk[p].kind = "zip" /\ disk[p].verdict = "valid"
                        /\ \A q \in A : q < p => disk[q].end <= p)

SavedIn(A) ==
    {p \in headers : /\ disk[p].verdict = "valid" /\ ShouldSave(disk[p].type)
                     /\ disk[p].kind = "pdf" \/ p \in A}

Rank(A, p) == Cardinality({q \in SavedIn(A) : q <= p})

\* This run carves at A as far as it has come, and its counter is what it has
\* saved or failed to; a file, of this run or another, has the rank of its header,
\* if all the runs agree on what comes before it.
NumberedBy(A, b) ==
    /\ CarvedBelow(A, b)
    /\ \A p \in Range(found) : p < b
    /\ \A p \in Range(found) \cap A :
           \E i \in DOMAIN recoveredRanges : recoveredRanges[i].start = p
    /\ \A i \in DOMAIN recoveredRanges :
           /\ recoveredRanges[i].start \in A
           /\ recoveredRanges[i].end = disk[recoveredRanges[i].start].end
    /\ counter = Cardinality(SavedIn(A) \cap Range(found))
    /\ \A name \in DOMAIN files : Steady(files[name].start) =>
           /\ files[name].start \in SavedIn(A) /\ files[name].start < b
           /\ name[1] = Rank(A, files[name].start)

\* With one filter so far, the numbers are those of the disk as this run finds it.
NumberedByDisk ==
    /\ headers = SelectHeaders
    /\ IsFiniteSet(filters)
    /\ Cardinality(filters) = 1 =>
           \E A \in SUBSET headers, b \in 0 .. DiskSize : NumberedBy(A, b)

\* The inductive invariant of the command.
CommandInductive ==
    /\ CommandTypeOK
    /\ RunInductive
    /\ ReportStands
    /\ NumberedByDisk
=============================================================================
