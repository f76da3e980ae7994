------------------------------- MODULE PdfEnd -------------------------------
(***************************************************************************)
(* extractFile on a PDF header: the disk is read on from the header in     *)
(* chunks, findPDFEnd is applied to each chunk and the few bytes before it *)
(* that could begin a split %%EOF, the file is cut at what it returns and  *)
(* validatePDF decides on it.  Offsets are relative to the header.  Of the *)
(* bytes only the markers and the newlines matter, at their positions, and *)
(* what validatePDF makes of the rest.                                     *)
(***************************************************************************)
EXTENDS Integers, FiniteSets, FiniteSetsExt

CONSTANTS
    MaxData,              \* bound on the bytes from the header to the disk's end
    ChunkSize,            \* chunkSize, 1 MB in the source
    PdfInitialLimit,      \* pdfInitialLimit, 100 MB in the source
    MaxSize,              \* sig.MaxSize, 500 MB in the source
    HeaderLen,            \* len("%PDF"), 4: no marker lies in the header
    EofLen,               \* len("%%EOF"), 5
    XrefLen,              \* len("startxref"), 9
    TableLen,             \* len("xref"), 4
    Lookback,             \* lookback, 100
    LeastBody,            \* bytes behind the header below which it is dropped, 10
    MinSize               \* bytes a plausible PDF has, 67

ASSUME PdfAssumption ==
    /\ {MaxData, Lookback, LeastBody, MinSize} \subseteq Nat
    /\ HeaderLen <= MaxData
    /\ {ChunkSize, PdfInitialLimit, MaxSize,
        HeaderLen, EofLen, XrefLen, TableLen} \subseteq Nat \ {0}

VARIABLES
    remaining,            \* bytes from the header to the end of the disk
    eofs,                 \* where %%EOF stands
    xrefs,                \* where startxref stands
    tables,               \* where an xref stands that is not part of startxref
    newlines,             \* where a \r or \n stands
    sound,                \* whether the bytes up to the cut have a version, an
                          \* object, a trailer and few control bytes
    pages,                \* whether they have an object and a stream or a page
    readOffset,           \* the chunk loop's position
    len,                  \* len(fileData)
    end,                  \* where the file was cut, -1 while it was not
    pc                    \* "read", "check", "saved", "warned" or "rejected"

data == <<remaining, eofs, xrefs, tables, newlines, sound, pages>>
vars == <<data, readOffset, len, end, pc>>

Least(a, b) == IF a < b THEN a ELSE b
Most(a, b) == IF a > b THEN a ELSE b

ReadSize == Least(Least(MaxSize, remaining), PdfInitialLimit)

-----------------------------------------------------------------------------
(* What can lie after a header: markers that do not overlap.               *)

Apart(S, length) == \A p, q \in S : p < q => p + length <= q

Init ==
    /\ remaining \in HeaderLen .. MaxData
    /\ eofs \in {S \in SUBSET (HeaderLen .. remaining - EofLen) : Apart(S, EofLen)}
    /\ xrefs \in {S \in SUBSET (HeaderLen .. remaining - XrefLen) :
                      /\ Apart(S, XrefLen)
                      /\ \A s \in S, p \in eofs : s + XrefLen <= p \/ p + EofLen <= s}
    /\ tables \in {S \in SUBSET (HeaderLen .. remaining - TableLen) :
                      /\ Apart(S, TableLen)
                      /\ \A t \in S, p \in eofs : t + TableLen <= p \/ p + EofLen <= t
                      /\ \A t \in S, s \in xrefs : t + TableLen <= s \/ s + XrefLen <= t}
    /\ newlines \in SUBSET {q \in HeaderLen .. remaining - 1 :
                      /\ \A p \in eofs : q < p \/ p + EofLen <= q
                      /\ \A s \in xrefs : q < s \/ s + XrefLen <= q
                      /\ \A t \in tables : q < t \/ t + TableLen <= q}
    /\ sound \in BOOLEAN /\ pages \in BOOLEAN
    /\ readOffset = 0 /\ len = 0 /\ end = -1
    /\ pc = "read"

-----------------------------------------------------------------------------
(* findPDFEnd(fileData[from:to])                                           *)

EofsIn(from, to) == {p \in eofs : from <= p /\ p + EofLen <= to}

\* startxref lies in the window, within Lookback bytes before the marker.
Preceded(p, from) ==
    \E s \in xrefs : s >= Most(from, p - Lookback) /\ s + XrefLen <= p

\* Mutant: the newline after the last one is taken too.
EndOfLine(p, to) ==
    Min({e \in p + EofLen .. to : e = to \/ e \notin newlines}) + 1

\* The marker and the newlines after it, as far as the window goes.
EndOf(p, to) ==
    Min({e \in p + EofLen .. to : e = to \/ e \notin newlines})

FindPdfEnd(from, to) ==
    LET all == EofsIn(from, to)
        good == {p \in all : Preceded(p, from)}
    IN  IF good # {} THEN EndOf(Min(good), to)
        ELSE IF all # {} THEN EndOf(Min(all), to)
        ELSE -1

\* Mutants: the overlap is forgotten, or a byte short.
NoSearchOverlap(oldLen) == oldLen
ShortSearchOverlap(oldLen) == Most(0, oldLen - EofLen + 2)

SearchStart(oldLen) == Most(0, oldLen - EofLen + 1)

\* A chunk is read, whole or cut short by an error, and searched.
ReadChunk ==
    /\ pc = "read"
    /\ readOffset < ReadSize
    /\ LET size == Least(ChunkSize, ReadSize - readOffset)
       IN  \E n \in 0 .. size :
             LET found == IF n = 0 THEN -1 ELSE FindPdfEnd(SearchStart(len), len + n)
             IN  /\ len' = len + n
                 /\ end' = found
                 /\ pc' = IF found >= 0 THEN "check"
                          ELSE IF n < size THEN "rejected" ELSE "read"
                 /\ readOffset' = IF found = -1 /\ n = size
                                  THEN readOffset + ChunkSize ELSE readOffset
    /\ UNCHANGED data

\* Mutant: the loop is left only past the end.
LoopPassed == readOffset > ReadSize

LoopEnded == readOffset >= ReadSize

\* No %%EOF in all that may be read.
RejectWithoutFooter ==
    /\ pc = "read"
    /\ LoopEnded
    /\ pc' = "rejected"
    /\ UNCHANGED <<data, readOffset, len, end>>

\* startxref or xref among what is left of the file.
HasXref ==
    \/ \E s \in xrefs : s + XrefLen <= end
    \/ \E t \in tables : t + TableLen <= end

LongEnough == end >= HeaderLen + LeastBody

\* validatePDF on what is left of the file.
ValidPdf == end >= MinSize /\ HasXref /\ sound

Accept ==
    /\ pc = "check"
    /\ LongEnough /\ ValidPdf
    /\ pc' = "saved"
    /\ UNCHANGED <<data, readOffset, len, end>>

\* A file that is long enough and fails is warned of if it looks like a part of
\* one, and dropped silently if not; a shorter one always is.
Refuse ==
    /\ pc = "check"
    /\ ~(LongEnough /\ ValidPdf)
    /\ pc' = IF LongEnough /\ pages THEN "warned" ELSE "rejected"
    /\ UNCHANGED <<data, readOffset, len, end>>

Next == ReadChunk \/ RejectWithoutFooter \/ Accept \/ Refuse

Spec == Init /\ [][Next]_vars

FairSpec == Spec /\ WF_vars(Next)

-----------------------------------------------------------------------------
TypeOK ==
    /\ remaining \in HeaderLen .. MaxData
    /\ readOffset \in 0 .. ReadSize + ChunkSize - 1
    /\ len \in 0 .. ReadSize
    /\ end \in -1 .. len
    /\ pc \in {"read", "check", "saved", "warned", "rejected"}

\* Going from chunk to chunk never leaves a whole %%EOF behind, wherever the
\* chunk boundary cuts it.
NoFooterPassed == pc = "read" => EofsIn(0, len) = {}

Decided == pc \in {"saved", "warned", "rejected"}

\* A PDF that is alone, with its startxref where it should be, is cut at its
\* %%EOF at the least and past its last newline never, wherever the chunk
\* boundaries fall, or an unreadable sector lies before its end; and what is so
\* cut is saved if its bytes have the makings of a PDF and are enough for one.
LonePdfSaved ==
    \A p \in eofs :
        eofs = {p} /\ Preceded(p, 0) /\ p + EofLen <= ReadSize /\ Decided
        => \/ /\ p + EofLen <= end /\ end <= EndOf(p, remaining)
              /\ sound /\ p + EofLen >= Most(MinSize, HeaderLen + LeastBody) => pc = "saved"
           \/ pc = "rejected" /\ len < p + EofLen

\* Extraction ends.
Terminates == <>Decided

-----------------------------------------------------------------------------
(* What the comments say.                                                  *)

\* No read of the loop came up short.
ReadsWhole == len = Least(readOffset + ChunkSize, ReadSize)

\* carver.go:452-455: the "true end" of the file is the first %%EOF that
\* startxref precedes, and the first of all only if none is preceded; where the
\* data is cut into chunks makes no difference.
ChunksUnseen ==
    end >= 0 /\ ReadsWhole =>
        LET all == EofsIn(0, ReadSize)
            good == {p \in all : Preceded(p, 0)}
            true == IF good # {} THEN Min(good) ELSE Min(all)
        IN  true + EofLen <= end /\ end <= EndOf(true, remaining)

-----------------------------------------------------------------------------
(* What keeps the loop right.                                              *)

MarkersOnDisk ==
    /\ eofs \cup xrefs \subseteq HeaderLen .. remaining
    /\ \A p \in eofs : p + EofLen <= remaining

\* While nothing is found, all of what was to be read was, and holds no %%EOF.
NothingCut ==
    /\ pc = "read" => end = -1 /\ len = Least(readOffset, ReadSize)
    /\ end = -1 => pc \in {"read", "rejected"} /\ EofsIn(0, len) = {}

\* A file is cut at a marker within what was read.
CutAtMarker == end # -1 => \E p \in EofsIn(0, len) : end = EndOf(p, len)

\* The inductive invariant.
Inductive ==
    /\ TypeOK
    /\ MarkersOnDisk
    /\ NothingCut
    /\ CutAtMarker
    /\ Decided /\ end # -1 => (pc = "saved" <=> LongEnough /\ ValidPdf)
=============================================================================
