---------------------------- MODULE PdfEndProofs ----------------------------
(***************************************************************************)
(* Wherever the chunk boundaries fall and however short a read comes, no   *)
(* %%EOF is passed over, and a PDF that lies alone is cut where it ends    *)
(* and judged by what it holds.                                            *)
(***************************************************************************)
EXTENDS PdfEnd, WellFoundedInduction, TLAPS

\* Min returns a member that none is below.
LEMMA MinFacts ==
    ASSUME NEW S \in SUBSET Nat, S # {}
    PROVE  Min(S) \in S /\ \A y \in S : Min(S) <= y
<1> DEFINE R == OpToRel(<, Nat)
<1>1. IsWellFoundedOn(R, Nat)
  BY NatLessThanWellFounded
<1>2. \A x, y \in Nat : y < x => <<y, x>> \in R
  BY DEF OpToRel
<1> HIDE DEF R
<1>3. PICK x \in S : \A y \in S : ~(<<y, x>> \in R)
  BY <1>1, WFMin
<1>4. ASSUME NEW y \in S PROVE x <= y
  <2>1. x \in Nat /\ y \in Nat /\ ~(y < x)
    BY <1>2, <1>3
  <2>2. QED
    BY <2>1
<1>5. QED
  BY <1>3, <1>4 DEF Min

-----------------------------------------------------------------------------
\* Where findPDFEnd cuts: behind the marker, at the first byte that is no newline.
LEMMA EndOfFacts ==
    ASSUME NEW p \in Nat, NEW to \in Nat, p + EofLen <= to
    PROVE  /\ EndOf(p, to) \in p + EofLen .. to
           /\ EndOf(p, to) = to \/ EndOf(p, to) \notin newlines
           /\ \A e \in p + EofLen .. to : e = to \/ e \notin newlines => EndOf(p, to) <= e
<1> DEFINE S == {e \in p + EofLen .. to : e = to \/ e \notin newlines}
<1>1. EofLen \in Nat
  BY PdfAssumption
<1>2. S \in SUBSET Nat /\ to \in S
  BY <1>1
<1> HIDE DEF S
<1>3. Min(S) \in S /\ \A y \in S : Min(S) <= y
  BY <1>2, MinFacts
<1>4. EndOf(p, to) = Min(S)
  BY DEF EndOf, S
<1>5. QED
  BY <1>3, <1>4 DEF S

\* With more of the disk to look at, the same marker's end is not nearer.
LEMMA EndOfGrows ==
    ASSUME NEW p \in Nat, NEW a \in Nat, NEW b \in Nat, p + EofLen <= a, a <= b
    PROVE  EndOf(p, a) <= EndOf(p, b)
<1>1. EofLen \in Nat
  BY PdfAssumption
<1>2. /\ EndOf(p, a) \in p + EofLen .. a
      /\ \A e \in p + EofLen .. a : e = a \/ e \notin newlines => EndOf(p, a) <= e
  BY EndOfFacts
<1>3. /\ EndOf(p, b) \in p + EofLen .. b
      /\ EndOf(p, b) = b \/ EndOf(p, b) \notin newlines
  BY <1>1, EndOfFacts
<1>4. CASE EndOf(p, b) < a
  BY <1>1, <1>2, <1>3, <1>4
<1>5. CASE ~(EndOf(p, b) < a)
  BY <1>1, <1>2, <1>3, <1>5
<1>6. QED
  BY <1>4, <1>5

\* What findPDFEnd returns: the end of a marker of the window, or that it has none.
LEMMA FindPdfEndFacts ==
    ASSUME eofs \subseteq Nat, NEW from \in Nat, NEW to \in Nat
    PROVE  \/ FindPdfEnd(from, to) = -1 /\ EofsIn(from, to) = {}
           \/ \E p \in EofsIn(from, to) : FindPdfEnd(from, to) = EndOf(p, to)
<1> DEFINE all == EofsIn(from, to)
           good == {p \in all : Preceded(p, from)}
<1>1. all \in SUBSET Nat /\ good \in SUBSET Nat /\ good \subseteq all
  BY DEF EofsIn
<1>2. FindPdfEnd(from, to) =
        IF good # {} THEN EndOf(Min(good), to)
        ELSE IF all # {} THEN EndOf(Min(all), to) ELSE -1
  BY DEF FindPdfEnd
<1> HIDE DEF all, good
<1>3. CASE good # {}
  <2>1. Min(good) \in all
    BY <1>1, <1>3, MinFacts
  <2>2. QED
    BY <1>2, <1>3, <2>1 DEF all
<1>4. CASE good = {} /\ all # {}
  <2>1. Min(all) \in all
    BY <1>1, <1>4, MinFacts
  <2>2. QED
    BY <1>2, <1>4, <2>1 DEF all
<1>5. CASE good = {} /\ all = {}
  BY <1>2, <1>5 DEF all
<1>6. QED
  BY <1>3, <1>4, <1>5

-----------------------------------------------------------------------------
\* The arithmetic facts about the loop that the steps use.
LEMMA Bounds ==
    ASSUME TypeOK, MarkersOnDisk
    PROVE  /\ remaining \in Nat /\ ReadSize \in Nat /\ ReadSize <= remaining
           /\ ChunkSize \in Nat \ {0} /\ EofLen \in Nat \ {0} /\ XrefLen \in Nat
           /\ readOffset \in Nat /\ len \in Nat /\ len <= ReadSize /\ end \in Int
           /\ eofs \subseteq Nat /\ xrefs \subseteq Nat
<1>1. HeaderLen \in Nat /\ remaining \in Nat /\ {MaxSize, PdfInitialLimit} \subseteq Nat
  BY PdfAssumption DEF TypeOK
<1>2. ReadSize \in Nat /\ ReadSize <= remaining
  BY <1>1 DEF ReadSize, Least
<1>3. eofs \subseteq Nat /\ xrefs \subseteq Nat
  BY <1>1 DEF MarkersOnDisk
<1>4. ChunkSize \in Nat \ {0} /\ EofLen \in Nat \ {0} /\ XrefLen \in Nat
  BY PdfAssumption
<1>5. QED
  BY <1>1, <1>2, <1>3, <1>4 DEF TypeOK

LEMMA InitInductive == Init => Inductive
<1> SUFFICES ASSUME Init PROVE Inductive
  OBVIOUS
<1>1. /\ {HeaderLen, EofLen, XrefLen, ChunkSize, MaxSize, PdfInitialLimit} \subseteq Nat \ {0}
      /\ MaxData \in Nat
  BY PdfAssumption
<1>2. /\ remaining \in HeaderLen .. MaxData
      /\ eofs \subseteq HeaderLen .. remaining - EofLen
      /\ xrefs \subseteq HeaderLen .. remaining - XrefLen
      /\ readOffset = 0 /\ len = 0 /\ end = -1 /\ pc = "read"
  BY DEF Init
<1>3. ReadSize \in Nat
  BY <1>1, <1>2 DEF ReadSize, Least
<1>4. TypeOK
  BY <1>1, <1>2, <1>3 DEF TypeOK
<1>5. MarkersOnDisk
  BY <1>1, <1>2 DEF MarkersOnDisk
<1>6. EofsIn(0, len) = {}
  <2> SUFFICES ASSUME NEW p \in eofs, 0 <= p, p + EofLen <= len PROVE FALSE
    BY DEF EofsIn
  <2>1. p \in HeaderLen .. remaining - EofLen /\ HeaderLen \in Nat
    BY <1>1, <1>2
  <2>2. QED
    BY <1>1, <1>2, <2>1
<1>7. NothingCut
  BY <1>2, <1>3, <1>6 DEF NothingCut, Least
<1>8. QED
  BY <1>2, <1>4, <1>5, <1>7 DEF Inductive, CutAtMarker

\* Where the disk is what it was, so is what is on it.
LEMMA SameDisk ==
    ASSUME UNCHANGED data
    PROVE  /\ ReadSize' = ReadSize /\ MarkersOnDisk' = MarkersOnDisk
           /\ \A from, to : EofsIn(from, to)' = EofsIn(from, to)
           /\ \A p, to : EndOf(p, to)' = EndOf(p, to)
  BY DEF data, ReadSize, Least, MarkersOnDisk, EofsIn, EndOf

\* The window and what was searched before leave no marker between them.
LEMMA OverlapSuffices ==
    ASSUME TypeOK, MarkersOnDisk, EofsIn(0, len) = {}, NEW to \in Nat, len <= to,
           EofsIn(SearchStart(len), to) = {}
    PROVE  EofsIn(0, to) = {}
<1> SUFFICES ASSUME NEW p \in eofs, 0 <= p, p + EofLen <= to
             PROVE  FALSE
  BY DEF EofsIn
<1>1. p \in Nat /\ len \in Nat /\ EofLen \in Nat \ {0}
  BY Bounds
<1>2. ~(p + EofLen <= len)
  BY DEF EofsIn
<1>3. ~(SearchStart(len) <= p)
  BY DEF EofsIn
<1>4. SearchStart(len) = IF 0 > len - EofLen + 1 THEN 0 ELSE len - EofLen + 1
  BY DEF SearchStart, Most
<1>5. QED
  BY <1>1, <1>2, <1>3, <1>4

\* A chunk, whole or short, with a marker in it or without.
LEMMA ReadInductive ==
    ASSUME Inductive, ReadChunk
    PROVE  Inductive'
<1> USE DEF Inductive
<1> DEFINE size == Least(ChunkSize, ReadSize - readOffset)
<1>1. PICK n \in 0 .. size :
         LET found == IF n = 0 THEN -1 ELSE FindPdfEnd(SearchStart(len), len + n)
         IN  /\ len' = len + n
             /\ end' = found
             /\ pc' = IF found >= 0 THEN "check"
                      ELSE IF n < size THEN "rejected" ELSE "read"
             /\ readOffset' = IF found = -1 /\ n = size
                              THEN readOffset + ChunkSize ELSE readOffset
  BY DEF ReadChunk
<1> DEFINE found == IF n = 0 THEN -1 ELSE FindPdfEnd(SearchStart(len), len + n)
<1>2. /\ len' = len + n /\ end' = found
      /\ pc' = IF found >= 0 THEN "check" ELSE IF n < size THEN "rejected" ELSE "read"
      /\ readOffset' = IF found = -1 /\ n = size THEN readOffset + ChunkSize ELSE readOffset
  BY <1>1
<1>3. pc = "read" /\ readOffset < ReadSize /\ UNCHANGED data
  BY DEF ReadChunk
<1>4. /\ remaining \in Nat /\ ReadSize \in Nat /\ ReadSize <= remaining
      /\ ChunkSize \in Nat \ {0} /\ EofLen \in Nat \ {0}
      /\ readOffset \in Nat /\ len \in Nat /\ eofs \subseteq Nat
  BY Bounds
<1>5. len = readOffset /\ end = -1 /\ EofsIn(0, len) = {}
  BY <1>3, <1>4 DEF NothingCut, Least
<1>6. /\ n \in Nat /\ n <= size /\ len + n <= ReadSize /\ len + n \in Nat
      /\ size \in Nat /\ size <= ChunkSize
      /\ n = size => len + n = Least(readOffset + ChunkSize, ReadSize)
  BY <1>3, <1>4, <1>5 DEF Least
<1>7. SearchStart(len) \in Nat
  BY <1>4 DEF SearchStart, Most
<1>8. /\ found = -1 => EofsIn(0, len + n) = {}
      /\ found # -1 => \E p \in EofsIn(0, len + n) : found = EndOf(p, len + n)
  <2>1. CASE n = 0
    BY <1>4, <1>5, <2>1
  <2>2. CASE n # 0
    <3>1. found = FindPdfEnd(SearchStart(len), len + n)
      BY <2>2
    <3> HIDE DEF found
    <3>2. CASE found = -1 /\ EofsIn(SearchStart(len), len + n) = {}
      <4>1. EofsIn(0, len + n) = {}
        BY <1>4, <1>5, <1>6, <3>2, OverlapSuffices
      <4>2. QED
        BY <3>2, <4>1
    <3>3. CASE \E p \in EofsIn(SearchStart(len), len + n) : found = EndOf(p, len + n)
      <4>1. PICK p \in EofsIn(SearchStart(len), len + n) : found = EndOf(p, len + n)
        BY <3>3
      <4>2. p \in EofsIn(0, len + n) /\ p \in Nat /\ p + EofLen <= len + n
        BY <1>4, <4>1 DEF EofsIn
      <4>3. found \in p + EofLen .. len + n
        BY <1>6, <4>1, <4>2, EndOfFacts
      <4>4. found # -1
        BY <1>4, <4>2, <4>3
      <4>5. QED
        BY <4>1, <4>2, <4>4
    <3>4. QED
      BY <1>4, <1>6, <1>7, <3>1, <3>2, <3>3, FindPdfEndFacts
  <2>3. QED
    BY <2>1, <2>2
<1>9. found \in -1 .. len + n
  <2>1. CASE found = -1
    <3> HIDE DEF found
    <3>1. QED
      BY <1>6, <2>1
  <2>2. CASE found # -1
    <3>1. PICK p \in EofsIn(0, len + n) : found = EndOf(p, len + n)
      BY <1>8, <2>2
    <3>2. p \in Nat /\ p + EofLen <= len + n
      BY <1>4, <3>1 DEF EofsIn
    <3> HIDE DEF found
    <3>3. found \in p + EofLen .. len + n
      BY <1>6, <3>1, <3>2, EndOfFacts
    <3>4. QED
      BY <1>4, <1>6, <3>2, <3>3
  <2>3. QED
    BY <2>1, <2>2
<1> HIDE DEF found, size
<1>10. MarkersOnDisk' /\ ReadSize' = ReadSize
  BY <1>3, SameDisk
<1>11. TypeOK'
  <2>1. remaining' \in HeaderLen .. MaxData
    BY <1>3 DEF TypeOK, data
  <2>2. readOffset' \in 0 .. ReadSize + ChunkSize - 1
    BY <1>2, <1>3, <1>4
  <2>3. len' \in 0 .. ReadSize
    BY <1>2, <1>4, <1>6
  <2>4. pc' \in {"read", "check", "saved", "warned", "rejected"}
    BY <1>2
  <2>5. QED
    BY <1>2, <1>9, <1>10, <2>1, <2>2, <2>3, <2>4 DEF TypeOK
<1>12. NothingCut'
  <2>1. end' = -1 => EofsIn(0, len)' = {}
    BY <1>2, <1>3, <1>8, SameDisk DEF EofsIn, data
  <2>2. end' = -1 => pc' \in {"read", "rejected"}
    BY <1>2
  <2>3. pc' = "read" => found = -1 /\ n = size
    BY <1>2, <1>6, <1>9
  <2>4. pc' = "read" => len' = Least(readOffset', ReadSize)
    BY <1>2, <1>6, <2>3
  <2>5. Least(readOffset, ReadSize)' = Least(readOffset', ReadSize)
    BY <1>10 DEF Least
  <2>6. QED
    BY <1>2, <2>1, <2>2, <2>3, <2>4, <2>5 DEF NothingCut
<1>13. CutAtMarker'
  <2>1. ASSUME end' # -1
        PROVE  \E p \in EofsIn(0, len)' : end' = EndOf(p, len)'
    <3>1. PICK p \in EofsIn(0, len + n) : found = EndOf(p, len + n)
      BY <1>2, <1>8, <2>1
    <3>2. p \in EofsIn(0, len)' /\ end' = EndOf(p, len)'
      BY <1>2, <1>3, <3>1 DEF EofsIn, EndOf, data
    <3>3. QED
      BY <3>2
  <2>2. QED
    BY <2>1 DEF CutAtMarker
<1>14. Decided' => end' = -1
  BY <1>2, <1>9, <1>6 DEF Decided
<1>15. QED
  BY <1>10, <1>11, <1>12, <1>13, <1>14

\* The steps that read nothing.
LEMMA DecideInductive ==
    ASSUME Inductive, RejectWithoutFooter \/ Accept \/ Refuse
    PROVE  Inductive'
<1> USE DEF Inductive
<1>1. /\ UNCHANGED data /\ readOffset' = readOffset /\ len' = len /\ end' = end
      /\ pc' \in {"saved", "warned", "rejected"} /\ pc \in {"read", "check"}
  BY DEF RejectWithoutFooter, Accept, Refuse
<1>2. /\ MarkersOnDisk' /\ ReadSize' = ReadSize
      /\ EofsIn(0, len)' = EofsIn(0, len)
      /\ \A p : EndOf(p, len)' = EndOf(p, len)
      /\ LongEnough' = LongEnough /\ ValidPdf' = ValidPdf
  BY <1>1, SameDisk DEF EofsIn, EndOf, HasXref, LongEnough, ValidPdf, data
<1>3. TypeOK'
  BY <1>1, <1>2 DEF TypeOK, data
<1>4. pc = "read" => end = -1
  BY DEF NothingCut
<1>5. Decided' /\ end' # -1 => (pc' = "saved" <=> LongEnough' /\ ValidPdf')
  BY <1>1, <1>2, <1>4 DEF RejectWithoutFooter, Accept, Refuse
<1>6. end' = -1 => pc' = "rejected" /\ EofsIn(0, len)' = {}
  BY <1>1, <1>2 DEF NothingCut, RejectWithoutFooter, Accept, Refuse
<1>7. NothingCut'
  BY <1>1, <1>6 DEF NothingCut
<1>8. CutAtMarker'
  BY <1>1, <1>2 DEF CutAtMarker
<1>9. QED
  BY <1>2, <1>3, <1>5, <1>7, <1>8

\* What keeps the loop right is an invariant.
THEOREM PdfInductive == Spec => []Inductive
<1>1. Inductive /\ [Next]_vars => Inductive'
  <2> SUFFICES ASSUME Inductive, [Next]_vars PROVE Inductive'
    OBVIOUS
  <2>1. CASE UNCHANGED vars
    <3>1. /\ UNCHANGED data /\ remaining' = remaining /\ readOffset' = readOffset
          /\ len' = len /\ end' = end /\ pc' = pc
      BY <2>1 DEF vars, data
    <3>2. /\ MarkersOnDisk' = MarkersOnDisk /\ ReadSize' = ReadSize
          /\ EofsIn(0, len)' = EofsIn(0, len)
          /\ \A p : EndOf(p, len)' = EndOf(p, len)
          /\ LongEnough' = LongEnough /\ ValidPdf' = ValidPdf /\ Decided' = Decided
          /\ Least(readOffset, ReadSize)' = Least(readOffset, ReadSize)
      BY <3>1, SameDisk DEF EofsIn, EndOf, HasXref, LongEnough, ValidPdf, Decided, Least, data
    <3>3. TypeOK' /\ NothingCut' /\ CutAtMarker'
      BY <3>1, <3>2 DEF Inductive, TypeOK, NothingCut, CutAtMarker
    <3>4. QED
      BY <3>1, <3>2, <3>3 DEF Inductive
  <2>2. QED
    BY <2>1, ReadInductive, DecideInductive DEF Next
<1>2. QED
  BY <1>1, InitInductive, PTL DEF Spec

-----------------------------------------------------------------------------
\* The variables of the loop keep their types and bounds.
THEOREM PdfTypes == Spec => []TypeOK
<1>1. Inductive => TypeOK
  BY DEF Inductive
<1>2. QED
  BY <1>1, PdfInductive, PTL

\* Going from chunk to chunk leaves no whole %%EOF behind.
THEOREM PdfPassesNoFooter == Spec => []NoFooterPassed
<1>1. Inductive => NoFooterPassed
  BY DEF Inductive, NothingCut, NoFooterPassed
<1>2. QED
  BY <1>1, PdfInductive, PTL

\* A PDF that lies alone is cut where it ends, unless it cannot be read so far,
\* and saved if it has the makings of one.
THEOREM PdfSavesLonePdf == Spec => []LonePdfSaved
<1>1. Inductive => LonePdfSaved
  <2> SUFFICES ASSUME Inductive, NEW p \in eofs, eofs = {p}, Preceded(p, 0),
                      p + EofLen <= ReadSize, Decided
               PROVE  \/ /\ p + EofLen <= end /\ end <= EndOf(p, remaining)
                         /\ sound /\ p + EofLen >= Most(MinSize, HeaderLen + LeastBody) =>
                                pc = "saved"
                      \/ pc = "rejected" /\ len < p + EofLen
    BY DEF LonePdfSaved
  <2> USE DEF Inductive
  <2>1. /\ p \in Nat /\ len \in Nat /\ remaining \in Nat /\ EofLen \in Nat /\ end \in Int
        /\ ReadSize \in Nat /\ len <= remaining /\ xrefs \subseteq Nat /\ XrefLen \in Nat
        /\ {HeaderLen, LeastBody, MinSize} \subseteq Nat
    <3>1. len <= ReadSize /\ ReadSize <= remaining /\ len \in Nat /\ ReadSize \in Nat
          /\ remaining \in Nat
      BY Bounds
    <3>2. {HeaderLen, LeastBody, MinSize} \subseteq Nat
      BY PdfAssumption
    <3>3. QED
      BY <3>1, <3>2, Bounds
  <2>2. CASE end = -1
    <3>1. pc = "rejected" /\ EofsIn(0, len) = {}
      BY <2>2 DEF NothingCut, Decided
    <3>2. QED
      BY <2>1, <3>1 DEF EofsIn
  <2>3. CASE end # -1
    <3>1. p + EofLen <= len /\ end = EndOf(p, len)
      BY <2>3 DEF CutAtMarker, EofsIn
    <3>2. end \in p + EofLen .. len
      BY <2>1, <3>1, EndOfFacts
    <3>3. end <= EndOf(p, remaining)
      BY <2>1, <3>1, EndOfGrows
    <3>4. PICK s \in xrefs : s + XrefLen <= p
      BY DEF Preceded
    <3>5. s + XrefLen <= end
      BY <2>1, <3>2, <3>4
    <3>6. HasXref
      BY <3>4, <3>5 DEF HasXref
    <3>7. ASSUME sound, p + EofLen >= Most(MinSize, HeaderLen + LeastBody)
          PROVE  pc = "saved"
      <4>1. end >= MinSize /\ end >= HeaderLen + LeastBody
        BY <2>1, <3>2, <3>7 DEF Most
      <4>2. QED
        BY <2>3, <3>6, <3>7, <4>1 DEF LongEnough, ValidPdf
    <3>8. p + EofLen <= end
      BY <2>1, <3>2
    <3>9. QED
      BY <3>3, <3>7, <3>8
  <2>4. QED
    BY <2>2, <2>3
<1>2. QED
  BY <1>1, PdfInductive, PTL
=============================================================================
