----------------------------- MODULE FsRecovery -----------------------------
(***************************************************************************)
(* The ntfs and ext4 commands from the parsed boot sector or superblock    *)
(* on: every entry the parser delivers is read, typed, filtered, validated *)
(* and written; ext4 then does the same with the inodes of its journal,    *)
(* whose order is that of a Go map; the report comes last.  What can be    *)
(* read of an entry is given; ScanMFT, ScanDeletedInodes and the journal   *)
(* scan, which find the entries, are left to modules of their own.         *)
(***************************************************************************)
EXTENDS Integers, Sequences, FiniteSets

CONSTANTS
    MaxFiles,             \* bound on the entries of table and journal together
    Types,                \* the extensions of the supported types
    Marks                 \* names that classify an archive: "types", "word", "xl", "ppt"

ASSUME FsAssumption ==
    /\ MaxFiles \in Nat
    /\ {"pdf", "docx", "xlsx", "pptx", "zip"} \subseteq Types /\ "other" \notin Types

VARIABLES
    engine,               \* "ntfs" or "ext4"
    selected,             \* targetTypes, {} for all
    table,                \* entries of the MFT or of the inode tables, in order
    copies,               \* deleted inodes found in the journal
    next,                 \* index of the entry delivered next
    left,                 \* copies not delivered yet
    phase,                \* "table", "journal", "report" or "done"
    count,                \* number of the last file named
    entries,              \* report.Entries
    files,                \* the output directory: name -> <<source, index>>, whole or not
    failed,               \* history: entries whose write failed
    report                \* recovery_report.json: <<>> or <<what it says>>

disk == <<engine, selected, table, copies>>
output == <<count, entries, files, failed>>
vars == <<disk, next, left, phase, output, report>>

-----------------------------------------------------------------------------
(* What a parser can deliver.                                              *)

\* An entry that cannot be parsed, or read, or that has no data.  One that makes the
\* NTFS parser panic is left to NtfsFile: the command has no more to do then.
Lost ==
    [read : {"unparsed", "failed", "empty"}, ext : {"other"}, kind : {"other"},
     sound : {FALSE}, marks : {{}}, head : {{}}]

\* An MFT entry with its name's extension, which need not fit what is in it.
NtfsFile ==
    [read : {"ok"}, ext : Types \cup {"other"}, kind : {"pdf", "zip", "other"},
     sound : BOOLEAN, marks : {{}}, head : {{}}]

\* An inode has no name; of an archive's names the first 4096 bytes show some.
Ext4File ==
    [read : {"ok"}, ext : {"other"}, kind : {"pdf", "other"},
     sound : BOOLEAN, marks : {{}}, head : {{}}]
    \cup
    {f \in [read : {"ok"}, ext : {"other"}, kind : {"zip"},
            sound : BOOLEAN, marks : SUBSET Marks, head : SUBSET Marks] :
        f.head \subseteq f.marks}

Sequences(S, bound) == UNION {[1 .. k -> S] : k \in 0 .. bound}

Init ==
    /\ \/ engine = "ntfs" /\ table \in Sequences(Lost \cup NtfsFile, MaxFiles) /\ copies = <<>>
       \/ /\ engine = "ext4"
          /\ table \in Sequences(Lost \cup Ext4File, MaxFiles)
          /\ copies \in Sequences(Lost \cup Ext4File, MaxFiles - Len(table))
    /\ selected \in SUBSET Types
    /\ next = 1 /\ left = DOMAIN copies /\ phase = "table"
    /\ count = 0 /\ entries = <<>> /\ files = <<>> /\ failed = {}
    /\ report = <<>>

-----------------------------------------------------------------------------
(* Types.                                                                  *)

\* detectFileType: [Content_Types].xml alone makes a docx.
DetectFileType(f) ==
    CASE f.kind = "pdf" -> "pdf"
      [] f.kind = "other" -> "other"
      [] f.kind = "zip" /\ f.head \cap {"word", "types"} # {} -> "docx"
      [] f.kind = "zip" /\ f.head \cap {"word", "types", "xl"} = {"xl"} -> "xlsx"
      [] f.kind = "zip" /\ f.head = {"ppt"} -> "pptx"
      [] OTHER -> "zip"

\* The type an entry is filtered, validated and saved as.
Ext(f) == IF engine = "ntfs" THEN f.ext ELSE DetectFileType(f)

IsTargetFile(ext) == ext \in Types /\ (selected = {} \/ ext \in selected)

ValidateRecoveredFile(f, ext) ==
    /\ f.sound
    /\ f.kind = (IF ext = "pdf" THEN "pdf" ELSE "zip")

Kept(f) ==
    /\ f.read = "ok"
    /\ IsTargetFile(Ext(f))
    /\ ValidateRecoveredFile(f, Ext(f))

-----------------------------------------------------------------------------
(* The callback, for an entry of the table or of the journal.              *)

\* Mutants: files are numbered by the entries of the report, or those of the
\* journal apart.
EntryCount(source) == Len(entries) + 1
CountApart(source) == IF source = "journal" THEN count ELSE count + 1

NextCount(source) == count + 1

\* ntfs_<count>_<name>, ext4_<count>_inode<number><ext>: names may be shared by
\* files of different directories, inode numbers are not.
NextName(source, i, f) ==
    <<NextCount(source), source, IF engine = "ntfs" THEN 0 ELSE i, Ext(f)>>

Store(name, what) ==
    files' = [x \in DOMAIN files \cup {name} |-> IF x = name THEN what ELSE files[x]]

Skip(source, i, f) ==
    /\ ~Kept(f)
    /\ UNCHANGED output

Save(source, i, f) ==
    /\ Kept(f)
    /\ count' = NextCount(source)
    /\ Store(NextName(source, i, f), [source |-> source, index |-> i, whole |-> TRUE])
    /\ entries' = Append(entries, [name |-> NextName(source, i, f), type |-> Ext(f),
                                   source |-> source, index |-> i])
    /\ UNCHANGED failed

\* Mutant: the failed write is reported all the same.
SaveFailsUnseen(source, i, f) ==
    /\ Kept(f)
    /\ count' = NextCount(source)
    /\ Store(NextName(source, i, f), [source |-> source, index |-> i, whole |-> FALSE])
    /\ entries' = Append(entries, [name |-> NextName(source, i, f), type |-> Ext(f),
                                   source |-> source, index |-> i])
    /\ UNCHANGED failed

\* os.WriteFile fails before it creates the file or leaves a part of it.
SaveFails(source, i, f) ==
    /\ Kept(f)
    /\ count' = NextCount(source)
    /\ \/ UNCHANGED files
       \/ Store(NextName(source, i, f), [source |-> source, index |-> i, whole |-> FALSE])
    /\ failed' = failed \cup {<<source, i>>}
    /\ UNCHANGED entries

Handle(source, i, f) == Skip(source, i, f) \/ Save(source, i, f) \/ SaveFails(source, i, f)

\* Mutant: an entry that cannot be parsed ends the scan.
StopAtUnparsed == IF table[next].read = "unparsed" THEN Len(table) + 1 ELSE next + 1

Following == next + 1

VisitEntry ==
    /\ phase = "table"
    /\ next <= Len(table)
    /\ Handle("table", next, table[next])
    /\ next' = Following
    /\ UNCHANGED <<disk, left, phase, report>>

\* An error of the scan is printed, and the command goes on.
EndTable ==
    /\ phase = "table"
    /\ next > Len(table)
    /\ phase' = IF engine = "ext4" THEN "journal" ELSE "report"
    /\ UNCHANGED <<disk, next, left, output, report>>

VisitCopy ==
    /\ phase = "journal"
    /\ \E i \in left :
           /\ Handle("journal", i, copies[i])
           /\ left' = left \ {i}
    /\ UNCHANGED <<disk, next, phase, report>>

\* The journal cannot be read or is none: nothing of it is delivered.
JournalFails ==
    /\ phase = "journal"
    /\ left = DOMAIN copies
    /\ phase' = "report"
    /\ UNCHANGED <<disk, next, left, output, report>>

EndJournal ==
    /\ phase = "journal"
    /\ left = {}
    /\ phase' = "report"
    /\ UNCHANGED <<disk, next, left, output, report>>

Report ==
    [filesFound |-> Len(entries),
     filesByType |-> [t \in Types |->
         Cardinality({i \in DOMAIN entries : entries[i].type = t})],
     entries |-> entries]

WriteReport ==
    /\ phase = "report"
    /\ report' \in {<<Report>>, <<>>}
    /\ phase' = "done"
    /\ UNCHANGED <<disk, next, left, output>>

Next ==
    VisitEntry \/ EndTable \/ VisitCopy \/ JournalFails \/ EndJournal \/ WriteReport

Spec == Init /\ [][Next]_vars

-----------------------------------------------------------------------------
TypeOK ==
    /\ engine \in {"ntfs", "ext4"} /\ selected \subseteq Types
    /\ next \in 1 .. Len(table) + 1
    /\ left \subseteq DOMAIN copies
    /\ phase \in {"table", "journal", "report", "done"}
    /\ count \in Nat 
    /\ \A i \in DOMAIN entries : entries[i].name[1] \in 1 .. count
    /\ \A name \in DOMAIN files : name[1] \in 1 .. count

\* What the report says is in the directory: each entry is a whole file, that
\* of the entry it names, and no two entries share one, whichever writes failed.
EntriesOnDisk ==
    \A i \in DOMAIN entries :
        /\ entries[i].name \in DOMAIN files
        /\ files[entries[i].name] =
               [source |-> entries[i].source, index |-> entries[i].index, whole |-> TRUE]
        /\ \A j \in DOMAIN entries : entries[j].name = entries[i].name => i = j

Reported(source, i) ==
    \E k \in DOMAIN entries : entries[k].source = source /\ entries[k].index = i

\* A file whose name or contents say that it is wanted.
Wanted(f) ==
    /\ f.read = "ok" /\ f.sound
    /\ \E t \in IF selected = {} THEN Types ELSE selected :
           /\ f.kind = (IF t = "pdf" THEN "pdf" ELSE "zip")
           /\ engine = "ntfs" => f.ext = t
           /\ engine = "ext4" => (f.kind = "pdf" \/ selected = {})

SavedOrFailed(source, i) == Reported(source, i) \/ <<source, i>> \in failed

\* A wanted file of the table is in the report or its write failed, and so is
\* one of the journal unless none of it could be read: neither an entry that
\* cannot be parsed, nor a journal that cannot be read, nor a write that failed
\* costs any other file.
WantedSaved ==
    phase = "done" =>
        /\ \A i \in DOMAIN table : Wanted(table[i]) => SavedOrFailed("table", i)
        /\ left # DOMAIN copies =>
               \A i \in DOMAIN copies : Wanted(copies[i]) => SavedOrFailed("journal", i)

\* A run never writes to a name it has written to.
NeverOverwrites ==
    [][\A name \in DOMAIN files : name \in DOMAIN files' /\ files'[name] = files[name]]_vars

-----------------------------------------------------------------------------
(* What the documentation says.                                            *)

\* README.md: an XLSX is a "ZIP with xl/ content", whatever mode recovers it.
WorkbookIsXlsx ==
    \A i \in DOMAIN entries :
        LET f == IF entries[i].source = "table" THEN table[entries[i].index]
                                                ELSE copies[entries[i].index]
        IN  engine = "ext4" /\ "xl" \in f.head /\ "word" \notin f.head => entries[i].type = "xlsx"
=============================================================================
