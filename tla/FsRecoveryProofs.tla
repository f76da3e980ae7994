-------------------------- MODULE FsRecoveryProofs --------------------------
(***************************************************************************)
(* For every disk, filter, order of the journal's inodes and pattern of    *)
(* failing writes: what the ntfs and ext4 commands report is on the output *)
(* directory, nothing there is overwritten, and each wanted file is        *)
(* reported or its write has failed.                                       *)
(***************************************************************************)
EXTENDS FsRecovery, SequenceLemmas, TLAPS

-----------------------------------------------------------------------------
(* The inductive invariant.                                                *)

\* What the parser of the engine delivers.
Delivered == Lost \cup (IF engine = "ntfs" THEN NtfsFile ELSE Ext4File)

InputsOK == table \in Seq(Delivered) /\ copies \in Seq(Delivered)

Sources == {"table", "journal"}

Names == Nat \X Sources \X Nat \X Types

Reports == [name : Names, type : Types, source : Sources, index : Nat]

OutputOK == entries \in Seq(Reports) /\ DOMAIN files \subseteq Names

\* What has been delivered so far is dealt with, and where the command stands
\* says how much that is: without it the end would know of the last entry only.
DealtWith ==
    /\ \A i \in 1 .. next - 1 : Wanted(table[i]) => SavedOrFailed("table", i)
    /\ \A i \in DOMAIN copies \ left : Wanted(copies[i]) => SavedOrFailed("journal", i)
    /\ phase = "table" => left = DOMAIN copies
    /\ phase # "table" => next = Len(table) + 1
    /\ phase \in {"report", "done"} => left \in {{}, DOMAIN copies}

Inductive == TypeOK /\ InputsOK /\ OutputOK /\ EntriesOnDisk /\ DealtWith

-----------------------------------------------------------------------------
(* One call of the callback.                                               *)

\* What the names or the content of a file promise, the tests of the callback
\* keep: detectFileType, isTargetFile and validateRecoveredFile never disagree
\* about a sound file that is wanted.
LEMMA WantedKept ==
    ASSUME TypeOK, NEW f \in Delivered, Wanted(f)
    PROVE  Kept(f)
<1>0. engine \in {"ntfs", "ext4"} /\ selected \subseteq Types
  BY DEF TypeOK
<1>1. f.read = "ok" /\ f.sound
  BY DEF Wanted
<1>2. PICK t \in IF selected = {} THEN Types ELSE selected :
          /\ f.kind = (IF t = "pdf" THEN "pdf" ELSE "zip")
          /\ engine = "ntfs" => f.ext = t
          /\ engine = "ext4" => (f.kind = "pdf" \/ selected = {})
  BY DEF Wanted
<1>3. t \in Types /\ (selected = {} \/ t \in selected)
  BY <1>0, <1>2
<1>4. CASE engine = "ntfs"
  <2>1. Ext(f) = t
    BY <1>2, <1>4 DEF Ext
  <2> QED
    BY <1>1, <1>2, <1>3, <2>1 DEF Kept, IsTargetFile, ValidateRecoveredFile
<1>5. CASE engine = "ext4" /\ f.kind = "pdf"
  <2>1. Ext(f) = "pdf" /\ t = "pdf"
    BY <1>2, <1>5 DEF Ext, DetectFileType
  <2> QED
    BY <1>1, <1>3, <1>5, <2>1 DEF Kept, IsTargetFile, ValidateRecoveredFile
<1>6. CASE engine = "ext4" /\ f.kind = "zip"
  <2>1. DetectFileType(f) \in {"docx", "xlsx", "pptx", "zip"}
    BY <1>6 DEF DetectFileType
  <2>2. Ext(f) \in Types \ {"pdf"}
    BY <1>6, <2>1, FsAssumption DEF Ext
  <2>3. selected = {}
    BY <1>2, <1>6
  <2> QED
    BY <1>1, <1>6, <2>2, <2>3 DEF Kept, IsTargetFile, ValidateRecoveredFile
<1> QED
  BY <1>0, <1>2, <1>4, <1>5, <1>6

\* The name a file is about to get is new to this run's directory.
LEMMA NextNameFresh ==
    ASSUME TypeOK, OutputOK, NEW source \in Sources, NEW i \in Nat, NEW f, Kept(f)
    PROVE  /\ NextName(source, i, f) \in Names
           /\ NextName(source, i, f)[1] = count + 1
           /\ NextName(source, i, f) \notin DOMAIN files
           /\ Ext(f) \in Types
<1>1. Ext(f) \in Types /\ count \in Nat
  BY DEF Kept, IsTargetFile, TypeOK
<1>2. NextName(source, i, f) = <<count + 1, source, IF engine = "ntfs" THEN 0 ELSE i, Ext(f)>>
  BY DEF NextName, NextCount
<1>3. NextName(source, i, f) \in Names /\ NextName(source, i, f)[1] = count + 1
  BY <1>1, <1>2 DEF Names
<1>4. \A name \in DOMAIN files : name[1] <= count
  BY <1>1 DEF TypeOK
<1> QED
  BY <1>1, <1>3, <1>4

\* Storing under that name adds it and leaves what is there alone.
LEMMA StoreFacts ==
    ASSUME TypeOK, OutputOK, NEW source \in Sources, NEW i \in Nat, NEW f, Kept(f),
           NEW what, Store(NextName(source, i, f), what), count' = NextCount(source)
    PROVE  /\ DOMAIN files' = DOMAIN files \cup {NextName(source, i, f)}
           /\ DOMAIN files' \subseteq Names
           /\ files'[NextName(source, i, f)] = what
           /\ \A name \in DOMAIN files : files'[name] = files[name]
           /\ count' \in Nat /\ count' = count + 1
           /\ \A name \in DOMAIN files' : name[1] \in 1 .. count'
<1> DEFINE new == NextName(source, i, f)
<1>1. new \in Names /\ new[1] = count + 1 /\ new \notin DOMAIN files
  BY NextNameFresh
<1>2. count \in Nat /\ count' = count + 1 /\ \A name \in DOMAIN files : name[1] \in 1 .. count
  BY DEF TypeOK, NextCount
<1> HIDE DEF new
<1>3. /\ DOMAIN files' = DOMAIN files \cup {new} /\ files'[new] = what
      /\ \A name \in DOMAIN files : files'[name] = files[name]
  BY <1>1 DEF Store, new
<1>4. DOMAIN files' \subseteq Names
  BY <1>1, <1>3 DEF OutputOK
<1>5. \A name \in DOMAIN files' : name[1] \in 1 .. count'
  BY <1>1, <1>2, <1>3
<1> QED
  BY <1>2, <1>3, <1>4, <1>5 DEF new

\* What a call keeps of the output, and what it makes of the file it is given.
Handled(source, i, f) ==
    /\ count' \in Nat
    /\ \A k \in DOMAIN entries' : entries'[k].name[1] \in 1 .. count'
    /\ \A name \in DOMAIN files' : name[1] \in 1 .. count'
    /\ OutputOK' /\ EntriesOnDisk'
    /\ \A name \in DOMAIN files : name \in DOMAIN files' /\ files'[name] = files[name]
    /\ \A s, j : SavedOrFailed(s, j) => SavedOrFailed(s, j)'
    /\ Wanted(f) => SavedOrFailed(source, i)'

LEMMA SkipHandles ==
    ASSUME Inductive, NEW source \in Sources, NEW i \in Nat, NEW f \in Delivered, Skip(source, i, f)
    PROVE  Handled(source, i, f)
<1>1. UNCHANGED <<count, entries, files, failed>> /\ ~Kept(f)
  BY DEF Skip, output
<1>2. ~Wanted(f)
  BY <1>1, WantedKept DEF Inductive
<1>3. TypeOK /\ OutputOK /\ EntriesOnDisk
  BY DEF Inductive
<1>4. OutputOK' /\ EntriesOnDisk'
  BY <1>1, <1>3 DEF OutputOK, EntriesOnDisk
<1>5. \A s, j : SavedOrFailed(s, j) => SavedOrFailed(s, j)'
  BY <1>1 DEF SavedOrFailed, Reported
<1> QED
  BY <1>1, <1>2, <1>3, <1>4, <1>5 DEF Handled, TypeOK

\* The entry of a file just written is the only one that names it.
LEMMA SaveHandles ==
    ASSUME Inductive, NEW source \in Sources, NEW i \in Nat, NEW f \in Delivered, Save(source, i, f)
    PROVE  Handled(source, i, f)
<1> DEFINE name == NextName(source, i, f)
           entry == [name |-> name, type |-> Ext(f), source |-> source, index |-> i]
           whole == [source |-> source, index |-> i, whole |-> TRUE]
<1>1. /\ Kept(f) /\ count' = NextCount(source) /\ Store(name, whole)
      /\ entries' = Append(entries, entry) /\ failed' = failed
  BY DEF Save
<1>0. whole = [source |-> entry.source, index |-> entry.index, whole |-> TRUE]
  OBVIOUS
<1> HIDE DEF whole
<1>2. TypeOK /\ OutputOK /\ EntriesOnDisk
  BY DEF Inductive
<1>3. /\ name \in Names /\ name[1] = count + 1 /\ name \notin DOMAIN files /\ Ext(f) \in Types
  BY <1>1, <1>2, NextNameFresh
<1>4. /\ DOMAIN files' = DOMAIN files \cup {name} /\ DOMAIN files' \subseteq Names
      /\ files'[name] = whole
      /\ \A x \in DOMAIN files : files'[x] = files[x]
      /\ count' \in Nat /\ count' = count + 1
      /\ \A x \in DOMAIN files' : x[1] \in 1 .. count'
  BY <1>1, <1>2, StoreFacts
<1>5. entry \in Reports /\ entry.name = name /\ entry.source = source /\ entry.index = i
  BY <1>3 DEF Reports
<1> HIDE DEF name, entry
<1>6. /\ entries' \in Seq(Reports)
      /\ DOMAIN entries = 1 .. Len(entries) /\ DOMAIN entries' = 1 .. Len(entries) + 1
      /\ Len(entries) \in Nat
      /\ \A k \in DOMAIN entries : entries'[k] = entries[k]
      /\ entries'[Len(entries) + 1] = entry
  BY <1>1, <1>2, <1>5, AppendRange DEF OutputOK
<1>7. \A k \in DOMAIN entries : entries[k].name \in DOMAIN files
  BY <1>2 DEF EntriesOnDisk
<1>8. \A k \in DOMAIN entries' : entries'[k].name[1] \in 1 .. count'
  BY <1>3, <1>4, <1>5, <1>6, <1>7
<1>9. EntriesOnDisk'
  <2> SUFFICES ASSUME NEW k \in DOMAIN entries'
               PROVE  /\ entries'[k].name \in DOMAIN files'
                      /\ files'[entries'[k].name] =
                            [source |-> entries'[k].source, index |-> entries'[k].index, whole |-> TRUE]
                      /\ \A j \in DOMAIN entries' : entries'[j].name = entries'[k].name => k = j
    BY DEF EntriesOnDisk
  <2>1. CASE k \in DOMAIN entries
    <3>1. /\ entries'[k] = entries[k] /\ entries[k].name \in DOMAIN files
          /\ files[entries[k].name] =
                [source |-> entries[k].source, index |-> entries[k].index, whole |-> TRUE]
          /\ \A j \in DOMAIN entries : entries[j].name = entries[k].name => k = j
      BY <1>2, <1>6, <2>1 DEF EntriesOnDisk
    <3>2. entries[k].name # name
      BY <1>3, <3>1
    <3> QED
      BY <1>4, <1>5, <1>6, <3>1, <3>2
  <2>2. CASE k = Len(entries) + 1
    <3>1. entries'[k] = entry
      BY <1>6, <2>2
    <3>2. \A j \in DOMAIN entries : entries'[j].name # name
      BY <1>3, <1>6, <1>7
    <3>3. entries'[k].name = name /\ files'[name] = whole /\ name \in DOMAIN files'
      BY <1>4, <1>5, <3>1
    <3>4. \A j \in DOMAIN entries' : entries'[j].name = name => k = j
      BY <1>6, <2>2, <3>2
    <3> QED
      BY <1>0, <3>1, <3>3, <3>4
  <2> QED
    BY <1>6, <2>1, <2>2
<1>10. ASSUME NEW s, NEW j, SavedOrFailed(s, j) PROVE SavedOrFailed(s, j)'
  <2>1. CASE Reported(s, j)
    BY <1>6, <2>1 DEF SavedOrFailed, Reported
  <2>2. CASE <<s, j>> \in failed
    BY <1>1, <2>2 DEF SavedOrFailed
  <2> QED
    BY <1>10, <2>1, <2>2 DEF SavedOrFailed
<1>11. SavedOrFailed(source, i)'
  BY <1>5, <1>6 DEF SavedOrFailed, Reported
<1>12. OutputOK'
  BY <1>4, <1>6 DEF OutputOK
<1> QED
  BY <1>4, <1>8, <1>9, <1>10, <1>11, <1>12 DEF Handled

\* A write that fails takes a number with it, and no other file.
LEMMA SaveFailsHandles ==
    ASSUME Inductive, NEW source \in Sources, NEW i \in Nat, NEW f \in Delivered,
           SaveFails(source, i, f)
    PROVE  Handled(source, i, f)
<1> DEFINE name == NextName(source, i, f)
<1>1. /\ Kept(f) /\ count' = NextCount(source)
      /\ entries' = entries /\ failed' = failed \cup {<<source, i>>}
      /\ \/ UNCHANGED files
         \/ Store(name, [source |-> source, index |-> i, whole |-> FALSE])
  BY DEF SaveFails
<1>2. TypeOK /\ OutputOK /\ EntriesOnDisk
  BY DEF Inductive
<1>3. count \in Nat /\ count' = count + 1
  BY <1>1, <1>2 DEF TypeOK, NextCount
<1>4. /\ DOMAIN files \subseteq DOMAIN files' /\ DOMAIN files' \subseteq Names
      /\ \A x \in DOMAIN files : files'[x] = files[x]
      /\ \A x \in DOMAIN files' : x[1] \in 1 .. count'
  <2>1. CASE UNCHANGED files
    BY <1>2, <1>3, <2>1 DEF TypeOK, OutputOK
  <2>2. CASE Store(name, [source |-> source, index |-> i, whole |-> FALSE])
    BY <1>1, <1>2, <2>2, StoreFacts
  <2> QED
    BY <1>1, <2>1, <2>2
<1>5. \A k \in DOMAIN entries' : entries'[k].name[1] \in 1 .. count'
  BY <1>1, <1>2, <1>3 DEF TypeOK
<1>6. EntriesOnDisk'
  BY <1>1, <1>2, <1>4 DEF EntriesOnDisk
<1>7. OutputOK'
  BY <1>1, <1>2, <1>4 DEF OutputOK
<1>8. \A s, j : SavedOrFailed(s, j) => SavedOrFailed(s, j)'
  BY <1>1 DEF SavedOrFailed, Reported
<1>9. SavedOrFailed(source, i)'
  BY <1>1 DEF SavedOrFailed
<1> QED
  BY <1>3, <1>4, <1>5, <1>6, <1>7, <1>8, <1>9 DEF Handled

LEMMA HandleHandles ==
    ASSUME Inductive, NEW source \in Sources, NEW i \in Nat, NEW f \in Delivered,
           Handle(source, i, f)
    PROVE  Handled(source, i, f)
  BY SkipHandles, SaveHandles, SaveFailsHandles DEF Handle

-----------------------------------------------------------------------------
(* The steps of a command.                                                 *)

\* No step changes a file that is there.
Untouched == \A name \in DOMAIN files : name \in DOMAIN files' /\ files'[name] = files[name]

\* A step of the walk handles the entry it is at, and what was dealt with before
\* remains so.
LEMMA VisitEntryStep ==
    ASSUME Inductive, VisitEntry
    PROVE  Inductive' /\ Untouched
<1>1. /\ phase = "table" /\ next <= Len(table) /\ Handle("table", next, table[next])
      /\ next' = next + 1
      /\ UNCHANGED <<engine, selected, table, copies, left, phase, report>>
  BY DEF VisitEntry, disk, Following
<1>2. TypeOK /\ InputsOK /\ DealtWith
  BY DEF Inductive
<1>3. table \in Seq(Delivered) /\ next \in 1 .. Len(table) + 1 /\ Len(table) \in Nat
  BY <1>2 DEF InputsOK, TypeOK
<1>4. PICK i \in 1 .. Len(table), f \in Delivered : i = next /\ f = table[next] /\ Handle("table", i, f)
  BY <1>1, <1>3
<1>5. Handled("table", i, f)
  BY <1>4, HandleHandles DEF Sources
<1>6. TypeOK'
  BY <1>1, <1>2, <1>3, <1>5 DEF TypeOK, Handled
<1>7. InputsOK'
  BY <1>1, <1>2 DEF InputsOK, Delivered
<1>8. DealtWith'
  <2>1. ASSUME NEW k \in 1 .. next' - 1, Wanted(table[k])' PROVE SavedOrFailed("table", k)'
    <3>1. Wanted(table[k])
      BY <1>1, <2>1 DEF Wanted
    <3>2. CASE k = next
      BY <1>4, <1>5, <3>1, <3>2 DEF Handled
    <3>3. CASE k \in 1 .. next - 1
      BY <1>2, <1>5, <3>1, <3>3 DEF DealtWith, Handled
    <3> QED
      BY <1>1, <1>3, <3>2, <3>3
  <2>2. left = DOMAIN copies
    BY <1>1, <1>2 DEF DealtWith
  <2> QED
    BY <1>1, <2>1, <2>2 DEF DealtWith
<1> QED
  BY <1>5, <1>6, <1>7, <1>8 DEF Inductive, Handled, Untouched

LEMMA VisitCopyStep ==
    ASSUME Inductive, VisitCopy
    PROVE  Inductive' /\ Untouched
<1>1. PICK i \in left : Handle("journal", i, copies[i]) /\ left' = left \ {i}
  BY DEF VisitCopy
<1>2. phase = "journal" /\ UNCHANGED <<engine, selected, table, copies, next, phase, report>>
  BY DEF VisitCopy, disk
<1>3. TypeOK /\ InputsOK /\ DealtWith
  BY DEF Inductive
<1>4. copies \in Seq(Delivered) /\ i \in DOMAIN copies /\ i \in Nat
  BY <1>1, <1>3 DEF InputsOK, TypeOK
<1>5. PICK f \in Delivered : f = copies[i] /\ Handle("journal", i, f)
  BY <1>1, <1>4
<1>6. Handled("journal", i, f)
  BY <1>4, <1>5, HandleHandles DEF Sources
<1>7. TypeOK'
  BY <1>1, <1>2, <1>3, <1>6 DEF TypeOK, Handled
<1>8. InputsOK'
  BY <1>2, <1>3 DEF InputsOK, Delivered
<1>9. DealtWith'
  <2>1. ASSUME NEW k \in 1 .. next - 1, Wanted(table[k])' PROVE SavedOrFailed("table", k)'
    <3>1. Wanted(table[k])
      BY <1>2, <2>1 DEF Wanted
    <3> QED
      BY <1>3, <1>6, <2>1, <3>1 DEF DealtWith, Handled
  <2>2. ASSUME NEW k \in DOMAIN copies, k \notin left', Wanted(copies[k])'
        PROVE  SavedOrFailed("journal", k)'
    <3>1. Wanted(copies[k])
      BY <1>2, <2>2 DEF Wanted
    <3>2. CASE k = i
      BY <1>5, <1>6, <3>1, <3>2 DEF Handled
    <3>3. CASE k # i
      BY <1>1, <1>3, <1>6, <2>2, <3>1, <3>3 DEF DealtWith, Handled
    <3> QED
      BY <3>2, <3>3
  <2> QED
    BY <1>2, <1>3, <2>1, <2>2 DEF DealtWith
<1> QED
  BY <1>6, <1>7, <1>8, <1>9 DEF Inductive, Handled, Untouched

\* Between table, journal and report nothing is written but the report.
LEMMA PhaseStep ==
    ASSUME Inductive, EndTable \/ JournalFails \/ EndJournal \/ WriteReport
    PROVE  Inductive' /\ Untouched
<1>1. UNCHANGED <<engine, selected, table, copies, next, left, count, entries, files, failed>>
  BY DEF EndTable, JournalFails, EndJournal, WriteReport, disk, output
<1>2. /\ phase' \in {"journal", "report", "done"}
      /\ phase = "table" => next > Len(table)
      /\ phase' \in {"report", "done"} =>
             phase \in {"table", "report"} \/ left \in {{}, DOMAIN copies}
  BY DEF EndTable, JournalFails, EndJournal, WriteReport
<1>3. TypeOK /\ InputsOK /\ OutputOK /\ EntriesOnDisk /\ DealtWith
  BY DEF Inductive
<1>4. InputsOK' /\ OutputOK' /\ EntriesOnDisk' /\ Untouched
  BY <1>1, <1>3 DEF InputsOK, Delivered, OutputOK, EntriesOnDisk, Untouched
<1>5. TypeOK'
  BY <1>1, <1>2, <1>3 DEF TypeOK
<1>6. DealtWith'
  <2>1. \A k : Wanted(table[k])' = Wanted(table[k]) /\ Wanted(copies[k])' = Wanted(copies[k])
    BY <1>1 DEF Wanted
  <2>2. \A s, k : SavedOrFailed(s, k)' = SavedOrFailed(s, k)
    BY <1>1 DEF SavedOrFailed, Reported
  <2>3. next' = Len(table') + 1
    <3>1. Len(table) \in Nat /\ next \in 1 .. Len(table) + 1
      BY <1>3 DEF InputsOK, TypeOK
    <3>2. phase # "table" => next = Len(table) + 1
      BY <1>3 DEF DealtWith
    <3> QED
      BY <1>1, <1>2, <3>1, <3>2
  <2> QED
    BY <1>1, <1>2, <1>3, <2>1, <2>2, <2>3 DEF DealtWith
<1> QED
  BY <1>4, <1>5, <1>6 DEF Inductive

-----------------------------------------------------------------------------
\* What Init takes the disk's files from are sequences.
LEMMA SequencesOf ==
    ASSUME NEW S, NEW bound \in Int, NEW s \in Sequences(S, bound)
    PROVE  s \in Seq(S)
<1>1. PICK k \in 0 .. bound : s \in [1 .. k -> S]
  BY DEF Sequences
<1> QED
  BY <1>1

LEMMA InitInductive == Init => Inductive
<1> SUFFICES ASSUME Init PROVE Inductive
  OBVIOUS
<1>1. table \in Seq(Delivered) /\ copies \in Seq(Delivered)
  <2>1. CASE engine = "ntfs"
    <3>1. table \in Sequences(Delivered, MaxFiles) /\ copies = <<>>
      BY <2>1 DEF Init, Delivered
    <3> QED
      BY <3>1, SequencesOf, FsAssumption
  <2>2. CASE engine = "ext4"
    <3>1. table \in Sequences(Delivered, MaxFiles)
      BY <2>2 DEF Init, Delivered
    <3>2. copies \in Sequences(Delivered, MaxFiles - Len(table))
      BY <2>2 DEF Init, Delivered
    <3>3. table \in Seq(Delivered) /\ MaxFiles \in Int
      BY <3>1, SequencesOf, FsAssumption
    <3>4. MaxFiles - Len(table) \in Int
      BY <3>3
    <3> QED
      BY <3>2, <3>3, <3>4, SequencesOf
  <2> QED
    BY <2>1, <2>2 DEF Init
<1>2. /\ engine \in {"ntfs", "ext4"} /\ selected \subseteq Types /\ next = 1
      /\ left = DOMAIN copies /\ phase = "table" /\ count = 0
      /\ entries = <<>> /\ files = <<>> /\ failed = {}
  BY DEF Init
<1>3. DOMAIN entries = {} /\ DOMAIN files = {} /\ entries \in Seq(Reports)
  BY <1>2
<1>4. TypeOK
  BY <1>1, <1>2, <1>3 DEF TypeOK
<1>5. DealtWith
  BY <1>2 DEF DealtWith
<1> QED
  BY <1>1, <1>3, <1>4, <1>5 DEF Inductive, InputsOK, OutputOK, EntriesOnDisk

LEMMA NextInductive == Inductive /\ [Next]_vars => Inductive' /\ Untouched
<1> SUFFICES ASSUME Inductive, [Next]_vars PROVE Inductive' /\ Untouched
  OBVIOUS
<1>1. CASE UNCHANGED vars
  <2>1. UNCHANGED <<engine, selected, table, copies, next, left, phase, count, entries, files, failed>>
    BY <1>1 DEF vars, disk, output
  <2> QED
    BY <2>1, SMTT(30) DEF Inductive, TypeOK, InputsOK, Delivered, OutputOK, EntriesOnDisk,
                          DealtWith, Wanted, SavedOrFailed, Reported, Untouched
<1> QED
  BY <1>1, VisitEntryStep, VisitCopyStep, PhaseStep DEF Next

LEMMA AlwaysInductive == Spec => []Inductive
  BY InitInductive, NextInductive, PTL DEF Spec

\* Types, and that no name has a number above the count.
THEOREM FsTypes == Spec => []TypeOK
<1>1. Inductive => TypeOK
  BY DEF Inductive
<1> QED
  BY <1>1, AlwaysInductive, PTL

\* Each entry of the report is a whole file of the directory, of what the entry
\* names, and shares it with no other, for any number of entries and any
\* failing writes.
THEOREM FsEntriesOnDisk == Spec => []EntriesOnDisk
<1>1. Inductive => EntriesOnDisk
  BY DEF Inductive
<1> QED
  BY <1>1, AlwaysInductive, PTL

\* Each wanted file of the table, and of a journal that could be read, is in the
\* report or its write failed.
THEOREM FsWantedSaved == Spec => []WantedSaved
<1>1. Inductive => WantedSaved
  <2> SUFFICES ASSUME Inductive, phase = "done" 
               PROVE  /\ \A i \in DOMAIN table : Wanted(table[i]) => SavedOrFailed("table", i)
                      /\ left # DOMAIN copies =>
                            \A i \in DOMAIN copies : Wanted(copies[i]) => SavedOrFailed("journal", i)
    BY DEF WantedSaved
  <2>1. DealtWith /\ table \in Seq(Delivered)
    BY DEF Inductive, InputsOK
  <2>2. DOMAIN table = 1 .. Len(table) /\ next = Len(table) + 1 /\ Len(table) \in Nat
    BY <2>1 DEF DealtWith
  <2>3. DOMAIN table = 1 .. next - 1
    BY <2>2
  <2>4. left \in {{}, DOMAIN copies}
    BY <2>1 DEF DealtWith
  <2> QED
    BY <2>1, <2>3, <2>4 DEF DealtWith
<1> QED
  BY <1>1, AlwaysInductive, PTL

\* No step of a run writes to a name the run has written to.
THEOREM FsNeverOverwrites == Spec => NeverOverwrites
<1>1. Inductive /\ [Next]_vars =>
        [\A name \in DOMAIN files : name \in DOMAIN files' /\ files'[name] = files[name]]_vars
  BY NextInductive DEF Untouched
<1> QED
  BY <1>1, AlwaysInductive, PTL DEF Spec, NeverOverwrites
=============================================================================
