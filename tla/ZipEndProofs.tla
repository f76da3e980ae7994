---------------------------- MODULE ZipEndProofs ----------------------------
(***************************************************************************)
(* The archive search resumes far enough back, and goes on far enough, for *)
(* every chunk size, comment length and layout of records.                 *)
(***************************************************************************)
EXTENDS ZipEnd, TLAPS

-----------------------------------------------------------------------------
\* The arithmetic facts about the loop that the steps use.
LEMMA Bounds ==
    ASSUME TypeOK
    PROVE  /\ ReadSize \in Nat \ {0} /\ MaxRecord \in Nat \ {0}
           /\ len \in Nat /\ len <= ReadSize /\ lastChecked \in Nat /\ end \in Int
           /\ readOffset \in Nat /\ ChunkSize \in Nat \ {0} /\ EocdLen \in Nat \ {0}
           /\ MaxComment \in Nat
           /\ \A i \in DOMAIN records :
                  /\ i \in Nat /\ EndOf(i) \in Nat
                  /\ i < EndOf(i) /\ EndOf(i) <= i + MaxRecord
  BY ZipAssumption DEF TypeOK, ReadSize, Least, MaxRecord, EndOf, Record

\* An archive that ends in what was read is one that the search sees, unless
\* all of it was searched before.
LEMMA SearchSeesArchive ==
    ASSUME TypeOK, SearchBehind, NEW to \in Nat, len <= to,
           NEW e \in 1 .. to, Valid(e), Ends(lastChecked, to) = {}
    PROVE  e <= len
<1>1. PICK i \in DOMAIN records : EocdAtEnd(i, e)
  BY DEF Valid
<1>2. EndOf(i) = e
  BY <1>1 DEF EocdAtEnd
<1>3. i \notin Ends(lastChecked, to)
  OBVIOUS
<1>4. i < lastChecked
  BY <1>2, <1>3, Bounds DEF Ends, TypeOK
<1>5. QED
  BY <1>2, <1>4, Bounds DEF SearchBehind, TypeOK

\* The disk is what it was.
LEMMA SameDisk ==
    ASSUME UNCHANGED data
    PROVE  /\ \A e : Valid(e)' <=> Valid(e)
           /\ ReadSize' = ReadSize
  BY DEF data, Valid, HeaderSane, EocdAtEnd, EndOf, ReadSize, Least

LEMMA InitInductive == Init => Inductive
<1> SUFFICES ASSUME Init PROVE Inductive
  OBVIOUS
<1>1. TypeOK
  BY ZipAssumption DEF Init, TypeOK, ReadSize, Least
<1>2. QED
  BY <1>1 DEF Init, Inductive, SearchBehind, NoArchivePassed

-----------------------------------------------------------------------------
\* The search stops at a record: all of what it returns was read and is valid.
LEMMA FindEndInductive ==
    ASSUME Inductive, pc = "read", readOffset < ReadSize, UNCHANGED data,
           NEW k \in 0 .. ChunkBytes, len + k <= ReadSize, FindEnd(k)
    PROVE  Inductive'
<1> USE DEF Inductive
<1>1. PICK i \in Ends(lastChecked, len + k) : end' = EndOf(i)
  BY DEF FindEnd
<1>2. /\ i \in DOMAIN records /\ EndOf(i) <= len + k /\ Valid(EndOf(i))
  BY <1>1 DEF Ends
<1>3. k \in Nat
  BY Bounds DEF ChunkBytes, Least
<1>4. TypeOK'
  BY <1>1, <1>2, <1>3, Bounds, SameDisk DEF FindEnd, TypeOK, data
<1>5. SearchBehind'
  BY <1>3, Bounds DEF FindEnd, SearchBehind, TypeOK, MaxRecord
<1>6. Valid(end)' /\ end' # -1
  BY <1>1, <1>2, SameDisk, Bounds DEF Valid, HeaderSane, EocdAtEnd, EndOf, data
<1>7. QED
  BY <1>4, <1>5, <1>6 DEF FindEnd, NoArchivePassed

\* The search finds nothing: nothing that ends in what was read is valid.
LEMMA FindNoneInductive ==
    ASSUME Inductive, pc = "read", readOffset < ReadSize, UNCHANGED data,
           NEW k \in 0 .. ChunkBytes, len + k <= ReadSize, FindNone(k)
    PROVE  Inductive'
<1> USE DEF Inductive
<1>1. k \in Nat /\ len + k \in Nat
  BY Bounds DEF ChunkBytes, Least
<1>2. \A e \in 1 .. len + k : ~Valid(e)
  <2> SUFFICES ASSUME NEW e \in 1 .. len + k, Valid(e) PROVE FALSE
    OBVIOUS
  <2>1. e <= len
    BY <1>1, SearchSeesArchive, Bounds DEF FindNone
  <2>2. QED
    BY <2>1 DEF NoArchivePassed
<1>3. lastChecked' \in 0 .. len' /\ SearchBehind'
  BY <1>1, Bounds DEF FindNone, Resume, SearchBehind, TypeOK, MaxRecord
<1>4. readOffset' \in 0 .. ReadSize + ChunkSize - 1
  BY Bounds DEF FindNone, TypeOK
<1>5. TypeOK'
  BY <1>1, <1>3, <1>4, Bounds, SameDisk DEF FindNone, TypeOK, data
<1>6. end' = -1 /\ pc' \in {"read", "check"} /\ len' = len + k
  BY DEF FindNone
<1>7. pc' = "read" => len' <= readOffset'
  BY <1>1, Bounds DEF FindNone, ChunkBytes, Least
<1>8. \A e \in 1 .. len' : ~Valid(e)'
  BY <1>2, <1>6, SameDisk
<1>9. QED
  BY <1>3, <1>5, <1>6, <1>8, <1>7 DEF NoArchivePassed

LEMMA StepInductive == Inductive /\ [Next]_vars => Inductive'
<1> SUFFICES ASSUME Inductive, [Next]_vars PROVE Inductive'
  OBVIOUS
<1> USE DEF Inductive
<1>1. CASE ReadChunk
  <2>1. PICK k \in 0 .. ChunkBytes : FindEnd(k) \/ FindNone(k) \/ ReadNothing(k)
    BY <1>1 DEF ReadChunk
  <2>2. pc = "read" /\ readOffset < ReadSize /\ UNCHANGED data
    BY <1>1 DEF ReadChunk
  <2>3. len + k <= ReadSize
    BY <1>1, Bounds DEF ReadChunk, ChunkBytes, Least
  <2>4. CASE FindEnd(k)
    BY <2>2, <2>4, <2>3, FindEndInductive
  <2>5. CASE FindNone(k)
    BY <2>2, <2>5, <2>3, FindNoneInductive
  <2>6. CASE ReadNothing(k)
    BY <2>2, <2>6, SameDisk DEF ReadNothing, TypeOK, data, SearchBehind, NoArchivePassed
  <2>7. QED
    BY <2>1, <2>4, <2>5, <2>6
<1>2. CASE EndLoop
  BY <1>2, SameDisk DEF EndLoop, TypeOK, data, SearchBehind, NoArchivePassed
<1>3. CASE Accept
  <2>1. end # -1
    BY <1>3, Bounds, ZipAssumption DEF Accept, FileLen, Valid, HeaderSane
  <2>2. QED
    BY <1>3, <2>1, SameDisk DEF Accept, TypeOK, data, SearchBehind, NoArchivePassed, FileLen
<1>4. CASE Refuse
  BY <1>4, SameDisk DEF Refuse, TypeOK, data, SearchBehind, NoArchivePassed, FileLen
<1>5. CASE UNCHANGED vars
  BY <1>5, SameDisk DEF vars, TypeOK, data, SearchBehind, NoArchivePassed
<1>6. QED
  BY <1>1, <1>2, <1>3, <1>4, <1>5 DEF Next

-----------------------------------------------------------------------------
\* The strengthened invariant of the extraction of an archive.
THEOREM ZipInductive == Spec => []Inductive
  BY InitInductive, StepInductive, PTL DEF Spec

\* Types and bounds of the loop, for every disk and every size: what is cut
\* off was read.
THEOREM ZipTypes == Spec => []TypeOK
<1>1. Inductive => TypeOK
  BY DEF Inductive
<1>2. QED
  BY <1>1, ZipInductive, PTL

\* No archive that was read to its end is let go.
THEOREM ZipPassesNoArchive == Spec => []NoArchivePassed
<1>1. Inductive => NoArchivePassed
  BY DEF Inductive
<1>2. QED
  BY <1>1, ZipInductive, PTL

\* An archive that is the only one is cut at its last byte.
THEOREM ZipSavesLoneArchive == Spec => []LoneArchiveSaved
<1>1. Inductive => LoneArchiveSaved
  <2> SUFFICES ASSUME Inductive PROVE LoneArchiveSaved
    OBVIOUS
  <2>1. pc = "saved" => Valid(end) /\ end \in 1 .. ReadSize
    BY Bounds, ZipAssumption DEF Inductive, Valid, HeaderSane, TypeOK
  <2>2. pc \in {"warned", "rejected"} => \A e \in 1 .. ReadSize : Valid(e) => len < e
    BY Bounds DEF Inductive, NoArchivePassed
  <2>3. QED
    BY <2>1, <2>2 DEF LoneArchiveSaved
<1>2. QED
  BY <1>1, ZipInductive, PTL
=============================================================================
