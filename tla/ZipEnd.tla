------------------------------- MODULE ZipEnd -------------------------------
(***************************************************************************)
(* extractZip on a local file header: the disk is read on from the header  *)
(* in chunks, what was read is searched for an end-of-central-directory    *)
(* record that makes a valid archive of all before it, and the search      *)
(* resumes where a record with the longest comment could still end in the  *)
(* bytes to come.  Offsets are relative to the header; of the bytes only   *)
(* the records matter, and whether the archive they end is sound.          *)
(***************************************************************************)
EXTENDS Integers, FiniteSets

CONSTANTS
    MaxData,              \* bound on the bytes from the header to the disk's end
    MaxRecords,           \* bound on the records among them
    ChunkSize,            \* chunkSize, 1 MB in the source
    MaxSize,              \* sig.MaxSize, 2 GB in the source
    HeadLen,              \* the first local header with its name
    EocdLen,              \* minEOCDRecordSize, 22
    MaxComment            \* maxZIPCommentSize, 65535

ASSUME ZipAssumption ==
    /\ {MaxData, MaxRecords, MaxComment} \subseteq Nat
    /\ {ChunkSize, MaxSize, HeadLen, EocdLen} \subseteq Nat \ {0}

VARIABLES
    remaining,            \* bytes from the header to the end of the disk
    sane,                 \* validateFirstLocalHeader accepts the header
    records,              \* where a record stands -> its comment's length and
                          \* whether its directory describes a sound archive
    readOffset,           \* the chunk loop's position
    len,                  \* bytes read
    lastChecked,          \* where the next search begins
    end,                  \* where the archive was cut, -1 while it was not
    pc                    \* "read", "check", "saved", "warned" or "rejected"

data == <<remaining, sane, records>>
vars == <<data, readOffset, len, lastChecked, end, pc>>

Least(a, b) == IF a < b THEN a ELSE b

ReadSize == Least(MaxSize, remaining)
MaxRecord == EocdLen + MaxComment

Record == [comment : 0 .. MaxComment, sound : BOOLEAN]

Init ==
    /\ remaining \in 1 .. MaxData
    /\ sane \in BOOLEAN
    /\ \E At \in {S \in SUBSET (HeadLen .. remaining - 1) : Cardinality(S) <= MaxRecords} :
           records \in [At -> Record]
    /\ readOffset = 0 /\ len = 0 /\ lastChecked = 0 /\ end = -1
    /\ pc = "read"

-----------------------------------------------------------------------------
EndOf(i) == i + EocdLen + records[i].comment

\* findEOCDAtEnd: the last of the records whose comment ends where the data does.
EocdAtEnd(i, to) ==
    /\ i \in DOMAIN records /\ EndOf(i) = to
    /\ \A j \in DOMAIN records : EndOf(j) = to => j <= i

HeaderSane(to) == sane /\ HeadLen <= to

\* validateZip(fileData[:to])
Valid(to) == HeaderSane(to) /\ \E i \in DOMAIN records : EocdAtEnd(i, to) /\ records[i].sound

\* Mutants: a comment that reaches past the data is not looked at, or is not
\* counted as part of the archive.
EndsUnread(from, to) ==
    {i \in DOMAIN records :
        from <= i /\ i + EocdLen <= to /\ Valid(EndOf(i))}

EndsEarly(from, to) ==
    {i \in DOMAIN records :
        from <= i /\ EndOf(i) < to /\ Valid(EndOf(i))}

\* The records at which findValidZipEnd(fileData[:to], from) can stop.
Ends(from, to) ==
    {i \in DOMAIN records :
        from <= i /\ EndOf(i) <= to /\ Valid(EndOf(i))}

\* Mutants: the search resumes after all that was read, or leaves room for a
\* record without comment only.
ResumeAtEnd(length) == length
ResumeAtRecord(length) == IF length > EocdLen THEN length - EocdLen ELSE lastChecked

Resume(length) == IF length > MaxRecord THEN length - MaxRecord ELSE lastChecked

ChunkBytes == Least(ChunkSize, ReadSize - readOffset)

\* The search stops at the first record that ends a valid archive.
FindEnd(n) ==
    /\ n > 0
    /\ \E i \in Ends(lastChecked, len + n) :
           /\ \A j \in Ends(lastChecked, len + n) : i <= j
           /\ end' = EndOf(i)
    /\ len' = len + n
    /\ pc' = "check"
    /\ UNCHANGED <<readOffset, lastChecked>>

FindNone(n) ==
    /\ n > 0
    /\ Ends(lastChecked, len + n) = {}
    /\ len' = len + n
    /\ lastChecked' = Resume(len + n)
    /\ \/ n < ChunkBytes /\ pc' = "check" /\ UNCHANGED readOffset
       \/ n = ChunkBytes /\ readOffset' = readOffset + ChunkSize /\ UNCHANGED pc
    /\ UNCHANGED end

ReadNothing(n) ==
    /\ n = 0
    /\ pc' = "check"
    /\ UNCHANGED <<readOffset, len, lastChecked, end>>

\* A chunk is read, whole or cut short by an error, and searched.
ReadChunk ==
    /\ pc = "read"
    /\ readOffset < ReadSize
    /\ \E n \in 0 .. ChunkBytes : FindEnd(n) \/ FindNone(n) \/ ReadNothing(n)
    /\ UNCHANGED data

\* Mutant: the loop is left only past the end.
LoopPassed == readOffset > ReadSize

LoopEnded == readOffset >= ReadSize

EndLoop ==
    /\ pc = "read"
    /\ LoopEnded
    /\ pc' = "check"
    /\ UNCHANGED <<data, readOffset, len, lastChecked, end>>

FileLen == IF end >= 0 THEN end ELSE len

\* What is left of the data is validated as a whole, found or not.
Accept ==
    /\ pc = "check"
    /\ Valid(FileLen)
    /\ pc' = "saved"
    /\ UNCHANGED <<data, readOffset, len, lastChecked, end>>

Refuse ==
    /\ pc = "check"
    /\ ~Valid(FileLen)
    /\ pc' = IF HeaderSane(FileLen) THEN "warned" ELSE "rejected"
    /\ UNCHANGED <<data, readOffset, len, lastChecked, end>>

Next == ReadChunk \/ EndLoop \/ Accept \/ Refuse

Spec == Init /\ [][Next]_vars

FairSpec == Spec /\ WF_vars(Next)

-----------------------------------------------------------------------------
TypeOK ==
    /\ remaining \in Nat \ {0}
    /\ sane \in BOOLEAN
    /\ DOMAIN records \subseteq Nat
    /\ \A i \in DOMAIN records : records[i] \in Record
    /\ readOffset \in 0 .. ReadSize + ChunkSize - 1
    /\ len \in 0 .. ReadSize
    /\ lastChecked \in 0 .. len
    /\ end \in -1 .. len
    /\ pc \in {"read", "check", "saved", "warned", "rejected"}

\* Neither the search that resumes in the middle nor the last validation lets
\* an archive go that was read to its end: one is saved whenever there is one.
NoArchivePassed ==
    pc \in {"read", "warned", "rejected"} => \A e \in 1 .. len : ~Valid(e)

\* An archive that is the only one is cut at its last byte, comment included
\* and whatever follows it left out, wherever the chunk boundaries fall; only
\* an unreadable sector before its end costs it.
LoneArchiveSaved ==
    \A e \in 1 .. ReadSize :
        /\ Valid(e) /\ \A f \in 1 .. ReadSize : Valid(f) => f = e
        /\ pc \in {"saved", "warned", "rejected"}
        => \/ pc = "saved" /\ end = e
           \/ pc # "saved" /\ len < e

\* Extraction ends.
Terminates == <>(pc \in {"saved", "warned", "rejected"})

-----------------------------------------------------------------------------
\* A record below lastChecked ends within what was searched.
SearchBehind == lastChecked = 0 \/ lastChecked + MaxRecord <= len

\* The inductive invariant.
Inductive ==
    /\ TypeOK
    /\ SearchBehind
    /\ pc = "read" => end = -1 /\ len <= readOffset
    /\ pc = "check" /\ end = -1 => \A e \in 1 .. len : ~Valid(e)
    /\ end # -1 => pc \in {"check", "saved"} /\ Valid(end)
    /\ pc = "saved" => end # -1
    /\ NoArchivePassed
=============================================================================
