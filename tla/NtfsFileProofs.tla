--------------------------- MODULE NtfsFileProofs ---------------------------
(***************************************************************************)
(* For every base, partition and number of runs: what decodeDataRuns makes *)
(* of mapping pairs is where the file lies, and what RecoverFileData puts  *)
(* together from it is the file.                                           *)
(***************************************************************************)
EXTENDS NtfsFile, SequenceLemmas, FiniteSetTheorems, TLAPS

-----------------------------------------------------------------------------
(* Fields: what is written is what is read.                                *)

LEMMA BaseFacts == Base \in Nat \ {0} /\ 2 * (Base \div 2) = Base
BY NtfsAssumption

\* Reading goes down from the highest digit.
ReadsDown(r, field, above) ==
    /\ r \in [0 .. Len(field) -> Int]
    /\ r[0] = above
    /\ \A n \in 1 .. Len(field) : r[n] = Base * r[n - 1] + field[Len(field) - n + 1]
    /\ Read(field, above) = r[Len(field)]

LEMMA ReadFacts ==
    ASSUME NEW field \in Seq(Digit), NEW above \in Int
    PROVE  \E r : ReadsDown(r, field, above)
<1> DEFINE len == Len(field)
           read[n \in 0 .. Len(field)] ==
               IF n = 0 THEN above ELSE Base * read[n - 1] + field[Len(field) - n + 1]
           step == [n \in 1 .. len |-> [x \in Int |-> Base * x + field[len - n + 1]]]
<1>1. Read(field, above) = read[Len(field)]
  BY DEF Read
<1>2. len \in Nat /\ Base \in Int
  BY BaseFacts
<1>3. \A n \in 1 .. len : field[len - n + 1] \in Int
  <2> SUFFICES ASSUME NEW n \in 1 .. len PROVE field[len - n + 1] \in Digit
    BY <1>2 DEF Digit
  <2> QED
    BY <1>2
<1>4. PICK f : Follows(f, Int, above, len, step)
  <2>1. step \in [1 .. len -> [Int -> Int]]
    BY <1>2, <1>3
  <2> HIDE DEF step, len
  <2> QED
    BY <1>2, <2>1, Recursion, Zenon
<1>5. /\ f \in [0 .. len -> Int] /\ f[0] = above
      /\ \A n \in 1 .. len : f[n] = Base * f[n - 1] + field[len - n + 1]
  <2>1. \A n \in 1 .. len : n - 1 \in 0 .. len
    BY <1>2
  <2> QED
    BY <1>4, <2>1 DEF Follows
<1>6. f = [n \in 0 .. Len(field) |->
              IF n = 0 THEN above ELSE Base * f[n - 1] + field[Len(field) - n + 1]]
  BY <1>5
<1>7. read = [n \in 0 .. Len(field) |->
                 IF n = 0 THEN above ELSE Base * read[n - 1] + field[Len(field) - n + 1]]
  <2> HIDE DEF step
  <2> QED
    BY <1>6
<1>8. read = f
  <2>1. GoTogether(f, read, len)
    <3> HIDE DEF step, read
    <3>1. f = [n \in 0 .. len |-> f[n]] /\ read = [n \in 0 .. len |-> read[n]]
      BY <1>5, <1>7
    <3>2. read[0] = above /\ \A n \in 1 .. len : read[n] = Base * read[n - 1] + field[len - n + 1]
      BY <1>2, <1>7
    <3> QED
      BY <1>5, <3>1, <3>2 DEF GoTogether
  <2> HIDE DEF read, len
  <2> QED
    BY <1>2, <2>1, Same, Zenon
<1>9. ReadsDown(f, field, above)
  BY <1>1, <1>5, <1>8 DEF ReadsDown
<1> QED
  BY <1>9

DividesUp(a, v, k) ==
    /\ a \in [0 .. k -> Int]
    /\ a[0] = v
    /\ \A d \in 1 .. k : a[d] = a[d - 1] \div Base
    /\ Above(v, k) = a[k]

LEMMA AboveRuns ==
    ASSUME NEW v \in Int, NEW k \in Nat
    PROVE  \E a : DividesUp(a, v, k)
<1> DEFINE above[d \in 0 .. k] == IF d = 0 THEN v ELSE above[d - 1] \div Base
           step == [d \in 1 .. k |-> [x \in Int |-> x \div Base]]
<1>1. Above(v, k) = above[k]
  BY DEF Above
<1>2. Base \in Nat \ {0}
  BY BaseFacts
<1>3. PICK f : Follows(f, Int, v, k, step)
  <2>1. step \in [1 .. k -> [Int -> Int]]
    BY <1>2
  <2> HIDE DEF step
  <2> QED
    BY <2>1, Recursion, Zenon
<1>4. f \in [0 .. k -> Int] /\ f[0] = v /\ \A d \in 1 .. k : f[d] = f[d - 1] \div Base
  <2>1. \A d \in 1 .. k : d - 1 \in 0 .. k
    OBVIOUS
  <2> QED
    BY <1>3, <2>1 DEF Follows
<1>5. f = [d \in 0 .. k |-> IF d = 0 THEN v ELSE f[d - 1] \div Base]
  BY <1>4
<1>6. above = [d \in 0 .. k |-> IF d = 0 THEN v ELSE above[d - 1] \div Base]
  <2> HIDE DEF step
  <2> QED
    BY <1>5
<1>7. above = f
  <2>1. GoTogether(f, above, k)
    <3> HIDE DEF step, above
    <3>1. f = [d \in 0 .. k |-> f[d]] /\ above = [d \in 0 .. k |-> above[d]]
      BY <1>4, <1>6
    <3>2. above[0] = v /\ \A d \in 1 .. k : above[d] = above[d - 1] \div Base
      BY <1>6
    <3> QED
      BY <1>4, <3>1, <3>2 DEF GoTogether
  <2> HIDE DEF above
  <2> QED
    BY <2>1, Same, Zenon
<1>8. DividesUp(f, v, k)
  BY <1>1, <1>4, <1>7 DEF DividesUp
<1> QED
  BY <1>8

\* One digit more is one division more.
LEMMA AboveFacts ==
    ASSUME NEW v \in Int
    PROVE  /\ Above(v, 0) = v
           /\ \A k \in Nat : Above(v, k) \in Int /\ Above(v, k + 1) = Above(v, k) \div Base
<1>1. Above(v, 0) = v
  <2>1. PICK a : DividesUp(a, v, 0)
    BY AboveRuns
  <2> QED
    BY <2>1 DEF DividesUp
<1>2. ASSUME NEW k \in Nat PROVE Above(v, k) \in Int /\ Above(v, k + 1) = Above(v, k) \div Base
  <2>1. /\ \E a : DividesUp(a, v, k)
        /\ \E b : DividesUp(b, v, k + 1)
    <3>1. k + 1 \in Nat
      OBVIOUS
    <3> QED
      BY <3>1, AboveRuns
  <2>2. PICK a : DividesUp(a, v, k)
    BY <2>1
  <2>3. PICK b : DividesUp(b, v, k + 1)
    BY <2>1
  <2> DEFINE c == [d \in 0 .. k |-> b[d]]
  <2>4. GoTogether(a, c, k)
    <3>1. a = [d \in 0 .. k |-> a[d]] /\ c = [d \in 0 .. k |-> c[d]] /\ a[0] = c[0]
      BY <2>2, <2>3 DEF DividesUp
    <3>2. ASSUME NEW d \in 1 .. k, a[d - 1] = c[d - 1] PROVE a[d] = c[d]
      <4>1. d \in 1 .. k + 1 /\ d - 1 \in 0 .. k /\ d \in 0 .. k
        OBVIOUS
      <4>2. c[d] = b[d] /\ c[d - 1] = b[d - 1]
        BY <4>1
      <4> QED
        BY <2>2, <2>3, <3>2, <4>1, <4>2 DEF DividesUp
    <3> HIDE DEF c
    <3> QED
      BY <3>1, <3>2 DEF GoTogether
  <2>5. a = c
    <3> HIDE DEF c
    <3> QED
      BY <2>4, Same, Zenon
  <2>6. a[k] = b[k]
    BY <2>5
  <2>7. b[k + 1] = b[k] \div Base
    <3>1. k + 1 \in 1 .. k + 1 /\ (k + 1) - 1 = k
      OBVIOUS
    <3>2. b[k + 1] = b[(k + 1) - 1] \div Base
      BY <2>3, <3>1 DEF DividesUp
    <3> QED
      BY <3>1, <3>2
  <2> QED
    BY <2>2, <2>3, <2>6, <2>7 DEF DividesUp
<1> QED
  BY <1>1, <1>2

\* A field that is wide enough gives back the number written to it: signed, and
\* unsigned if it is not negative.
LEMMA WrittenFacts ==
    ASSUME NEW v \in Int, NEW k \in Nat \ {0}, FitsIn(v, k)
    PROVE  /\ Written(v, k) \in Seq(Digit) /\ Len(Written(v, k)) = k
           /\ Signed(Written(v, k)) = v
           /\ v >= 0 => Unsigned(Written(v, k)) = v
<1> DEFINE w == Written(v, k)
<1>0. Base \in Nat \ {0} /\ 2 * (Base \div 2) = Base
  BY BaseFacts
<1>1. \A d \in 1 .. k : Above(v, d - 1) \in Int /\ Above(v, d) = Above(v, d - 1) \div Base
  <2> SUFFICES ASSUME NEW d \in 1 .. k
               PROVE  Above(v, d - 1) \in Int /\ Above(v, d) = Above(v, d - 1) \div Base
    OBVIOUS
  <2>1. d - 1 \in Nat /\ (d - 1) + 1 = d
    OBVIOUS
  <2>2. Above(v, (d - 1) + 1) = Above(v, d - 1) \div Base /\ Above(v, d - 1) \in Int
    BY <2>1, AboveFacts
  <2> QED
    BY <2>1, <2>2
<1>2. w = [d \in 1 .. k |-> Above(v, d - 1) % Base]
  BY DEF Written
<1>3. \A d \in 1 .. k : w[d] \in Digit /\ w[d] = Above(v, d - 1) % Base
                        /\ Above(v, d - 1) = Base * Above(v, d) + w[d]
  <2> SUFFICES ASSUME NEW d \in 1 .. k
               PROVE  w[d] \in Digit /\ w[d] = Above(v, d - 1) % Base
                      /\ Above(v, d - 1) = Base * Above(v, d) + w[d]
    OBVIOUS
  <2>1. w[d] = Above(v, d - 1) % Base
    BY <1>2
  <2>2. \A x \in Int : x % Base \in 0 .. Base - 1 /\ x = Base * (x \div Base) + (x % Base)
    BY <1>0
  <2> QED
    BY <1>1, <2>1, <2>2 DEF Digit
<1>4. w \in Seq(Digit) /\ Len(w) = k
  <2>1. w \in [1 .. k -> Digit]
    BY <1>2, <1>3
  <2> QED
    BY <2>1
<1> DEFINE top == Above(v, k - 1)
           sign == Above(v, k)
<1>5. top \in Int /\ sign = top \div Base /\ w[k] = top % Base
      /\ -(Base \div 2) <= top /\ top < Base \div 2
  BY <1>1, <1>3 DEF FitsIn
<1>6. sign = IF 2 * w[k] >= Base THEN -1 ELSE 0
  <2> HIDE DEF top, sign, w
  <2>1. CASE top >= 0
    BY <1>0, <1>5, <2>1
  <2>2. CASE top < 0
    <3>1. top + Base \in 0 .. Base - 1 /\ top = Base * (-1) + (top + Base)
      BY <1>0, <1>5, <2>2
    <3>2. top \div Base = -1 /\ top % Base = top + Base
      BY <1>0, <1>5, <3>1
    <3> QED
      BY <1>0, <1>5, <2>2, <3>2
  <2> QED
    BY <1>5, <2>1, <2>2
\* From the sign downwards every number read is the one written from there on.
<1>7. Read(w, sign) = v
  <2>1. sign \in Int
    BY <1>6
  <2> HIDE DEF w, sign
  <2>0. PICK r : ReadsDown(r, w, sign)
    BY <1>4, <2>1, ReadFacts
  <2>2. /\ r \in [0 .. k -> Int] /\ r[0] = sign
        /\ \A n \in 1 .. k : r[n] = Base * r[n - 1] + w[k - n + 1]
        /\ Read(w, sign) = r[k]
    BY <1>4, <2>0 DEF ReadsDown
  <2> DEFINE T == {n \in 0 .. k : r[n] = Above(v, k - n)}
  <2>3. 0 \in T
    BY <2>2 DEF sign
  <2>4. ASSUME NEW n \in 0 .. k - 1, n \in T PROVE n + 1 \in T
    <3>1. k - n \in 1 .. k /\ n + 1 \in 1 .. k /\ (n + 1) - 1 = n
          /\ k - (n + 1) + 1 = k - n /\ k - (n + 1) = (k - n) - 1
      OBVIOUS
    <3>2. r[n + 1] = Base * r[(n + 1) - 1] + w[k - (n + 1) + 1]
      BY <2>2, <3>1
    <3>3. r[n + 1] = Base * Above(v, k - n) + w[k - n]
      BY <2>4, <3>1, <3>2
    <3>4. Above(v, (k - n) - 1) = Base * Above(v, k - n) + w[k - n]
      BY <1>3, <3>1
    <3> QED
      BY <3>1, <3>3, <3>4
  <2>5. k \in T
    <3>1. 0 .. k \subseteq T
      <4> HIDE DEF T
      <4> QED
        BY <2>3, <2>4, UpTo
    <3> QED
      BY <3>1
  <2> QED
    BY <2>2, <2>5, AboveFacts
<1>8. Signed(w) = v
  BY <1>4, <1>6, <1>7 DEF Signed
\* A number that is not negative has nothing above its field.
<1>9. ASSUME v >= 0 PROVE sign = 0
  <2> DEFINE T == {d \in 0 .. k : Above(v, d) >= 0}
  <2>1. 0 \in T
    BY <1>9, AboveFacts
  <2>2. ASSUME NEW d \in 0 .. k - 1, d \in T PROVE d + 1 \in T
    <3>0. d \in Nat
      OBVIOUS
    <3>1. Above(v, d) \in Int /\ Above(v, d + 1) = Above(v, d) \div Base
      BY <3>0, AboveFacts
    <3>2. \A x \in Nat : x \div Base >= 0
      BY <1>0
    <3> QED
      BY <2>2, <3>1, <3>2
  <2>3. 0 .. k \subseteq T
    <3> HIDE DEF T
    <3> QED
      BY <2>1, <2>2, UpTo
  <2>4. sign >= 0
    BY <2>3
  <2> QED
    BY <1>6, <2>4
<1> QED
  BY <1>4, <1>7, <1>8, <1>9 DEF Unsigned

-----------------------------------------------------------------------------
(* Run lists: what is decoded is where the file lies.                      *)

LEMMA RunFacts ==
    ASSUME NEW r \in Extent
    PROVE  /\ r.start \in Int /\ r.count \in 1 .. Clusters /\ Clusters \in Nat \ {0}
           /\ r.start # Hole => r.start \in 0 .. Clusters - 1 /\ r.start + r.count <= Clusters
           /\ r \in DataRun
<1>1. Clusters \in Nat \ {0}
  BY NtfsAssumption
<1>2. CASE r \in Runs
  BY <1>1, <1>2 DEF Runs, DataRun
<1>3. CASE r = [start |-> Hole, count |-> 1]
  BY <1>1, <1>3 DEF Hole, DataRun
<1> QED
  BY <1>2, <1>3 DEF Extent

LEMMA FieldFacts ==
    ASSUME NEW v \in -Clusters .. Clusters
    PROVE  /\ Field(v) \in Seq(Digit) /\ Field(v) # <<>>
           /\ Signed(Field(v)) = v
           /\ v >= 0 => Unsigned(Field(v)) = v
<1> DEFINE k == CHOOSE k \in 1 .. Width : FitsIn(v, k)
<1>1. Width \in Nat \ {0} /\ Clusters \in Nat
  BY NtfsAssumption
<1>2. k \in 1 .. Width /\ FitsIn(v, k)
  BY FieldsAreWideEnough
<1>3. Field(v) = Written(v, k)
  BY DEF Field
<1> HIDE DEF k
<1>4. v \in Int /\ k \in Nat \ {0}
  BY <1>1, <1>2
<1>5. /\ Written(v, k) \in Seq(Digit) /\ Len(Written(v, k)) = k
      /\ Signed(Written(v, k)) = v
      /\ v >= 0 => Unsigned(Written(v, k)) = v
  BY <1>2, <1>4, WrittenFacts
<1> QED
  BY <1>3, <1>4, <1>5

\* Whatever stands in a field is read as a number.
LEMMA ReadNumbers ==
    ASSUME NEW field \in Seq(Digit)
    PROVE  Unsigned(field) \in Nat /\ Signed(field) \in Int
<1>1. \A above \in Int : Read(field, above) \in Int
  <2> SUFFICES ASSUME NEW above \in Int PROVE Read(field, above) \in Int
    OBVIOUS
  <2>1. PICK r : ReadsDown(r, field, above)
    BY ReadFacts
  <2> QED
    BY <2>1 DEF ReadsDown
<1>2. Read(field, 0) \in Nat
  <2>1. PICK r : ReadsDown(r, field, 0)
    BY ReadFacts
  <2> DEFINE len == Len(field)
             T == {n \in 0 .. len : r[n] \in Nat}
  <2>2. len \in Nat /\ Base \in Nat
    BY BaseFacts
  <2>3. 0 \in T
    BY <2>1, <2>2 DEF ReadsDown
  <2>4. ASSUME NEW n \in 0 .. len - 1, n \in T PROVE n + 1 \in T
    <3>1. n + 1 \in 1 .. len /\ (n + 1) - 1 = n /\ len - (n + 1) + 1 \in 1 .. len
      BY <2>2
    <3>2. field[len - (n + 1) + 1] \in Nat
      <4>1. field[len - (n + 1) + 1] \in Digit
        BY <3>1
      <4> QED
        BY <4>1 DEF Digit
    <3>3. r[n + 1] = Base * r[(n + 1) - 1] + field[len - (n + 1) + 1]
      BY <2>1, <3>1 DEF ReadsDown
    <3>4. r[n] \in Nat
      BY <2>4
    <3>5. Base * r[n] \in Nat
      BY <2>2, <3>4
    <3> QED
      BY <3>1, <3>2, <3>3, <3>5
  <2>5. 0 .. len \subseteq T
    <3> HIDE DEF T, len
    <3> QED
      BY <2>2, <2>3, <2>4, UpTo
  <2> QED
    BY <2>1, <2>2, <2>5 DEF ReadsDown
<1>3. Signed(field) = Read(field, -1) \/ Signed(field) = Read(field, 0)
  BY DEF Signed
<1> QED
  BY <1>1, <1>2, <1>3 DEF Unsigned

LEMMA StartBeforeFacts ==
    ASSUME NEW l \in Seq(Extent)
    PROVE  /\ StartBefore(l, 1) = 0
           /\ \A k \in 1 .. Len(l) :
                  /\ StartBefore(l, k) \in 0 .. Clusters - 1
                  /\ StartBefore(l, k + 1) = IF l[k].start = Hole THEN StartBefore(l, k) ELSE l[k].start
<1> DEFINE Starts(k) == {j \in 1 .. k - 1 : l[j].start # Hole}
<1>0. Len(l) \in Nat /\ Clusters \in Nat \ {0}
  BY NtfsAssumption
<1>1. StartBefore(l, 1) = 0
  BY DEF StartBefore
<1>2. ASSUME NEW k \in 1 .. Len(l)
      PROVE  StartBefore(l, k + 1) = IF l[k].start = Hole THEN StartBefore(l, k) ELSE l[k].start
  <2>0. /\ StartBefore(l, k) =
                IF Starts(k) = {} THEN 0
                ELSE l[CHOOSE j \in Starts(k) : \A m \in Starts(k) : m <= j].start
        /\ StartBefore(l, k + 1) =
                IF Starts(k + 1) = {} THEN 0
                ELSE l[CHOOSE j \in Starts(k + 1) : \A m \in Starts(k + 1) : m <= j].start
    BY DEF StartBefore
  <2>1. CASE l[k].start = Hole
    <3>1. Starts(k + 1) = Starts(k)
      BY <2>1
    <3> HIDE DEF Starts
    <3> QED
      BY <2>0, <2>1, <3>1
  <2>2. CASE l[k].start # Hole
    <3>1. k \in Starts(k + 1) /\ \A m \in Starts(k + 1) : m <= k
      BY <2>2
    <3>2. \A j \in Starts(k + 1) : (\A m \in Starts(k + 1) : m <= j) => j = k
      BY <3>1
    <3>3. (CHOOSE j \in Starts(k + 1) : \A m \in Starts(k + 1) : m <= j) = k
      <4> HIDE DEF Starts
      <4> QED
        BY <3>1, <3>2
    <3> HIDE DEF Starts
    <3> QED
      BY <2>0, <2>2, <3>1, <3>3
  <2> QED
    BY <2>1, <2>2
<1>3. 0 .. Len(l) \subseteq {k \in 0 .. Len(l) : StartBefore(l, k + 1) \in 0 .. Clusters - 1}
  <2> DEFINE n == Len(l)
             T == {k \in 0 .. n : StartBefore(l, k + 1) \in 0 .. Clusters - 1}
  <2>1. 0 \in T
    BY <1>0, <1>1
  <2>2. ASSUME NEW k \in 0 .. n - 1, k \in T PROVE k + 1 \in T
    <3>1. k + 1 \in 1 .. n /\ l[k + 1] \in Extent
      BY <1>0
    <3>2. StartBefore(l, (k + 1) + 1) =
              IF l[k + 1].start = Hole THEN StartBefore(l, k + 1) ELSE l[k + 1].start
      BY <1>2, <3>1
    <3> QED
      BY <2>2, <3>1, <3>2, RunFacts
  <2> HIDE DEF n, T
  <2>3. 0 .. n \subseteq T
    <3>1. n \in Nat
      BY <1>0 DEF n
    <3> QED
      BY <2>1, <2>2, <3>1, UpTo
  <2> QED
    BY <2>3 DEF n, T
<1>4. ASSUME NEW k \in 1 .. Len(l) PROVE StartBefore(l, k) \in 0 .. Clusters - 1
  <2>1. k - 1 \in 0 .. Len(l) /\ (k - 1) + 1 = k
    BY <1>0
  <2>2. StartBefore(l, (k - 1) + 1) \in 0 .. Clusters - 1
    BY <1>3, <2>1
  <2> QED
    BY <2>1, <2>2
<1> QED
  BY <1>1, <1>2, <1>4

Decoder == [prev : Int, runs : Seq(DataRun)]

Nothing == [prev |-> 0, runs |-> <<>>]

LEMMA DecodePairFacts ==
    ASSUME NEW before \in Decoder, NEW pair \in Pair
    PROVE  DecodePair(before, pair) \in Decoder
<1> DEFINE prev == PrevOffset(before.prev, pair)
           run == [start |-> prev, count |-> Unsigned(pair.count)]
<1>1. before.prev \in Int /\ before.runs \in Seq(DataRun)
  BY DEF Decoder
<1>2. Unsigned(pair.count) \in Nat /\ Signed(pair.offset) \in Int
  BY ReadNumbers DEF Pair
<1>3. prev \in Int
  BY <1>1, <1>2 DEF PrevOffset
<1>4. DecodePair(before, pair) =
          IF pair.offset = <<>> THEN before
          ELSE [prev |-> prev, runs |-> Append(before.runs, run)]
  BY DEF DecodePair
<1>5. run \in DataRun
  BY <1>2, <1>3 DEF DataRun
<1> HIDE DEF prev, run
<1>6. Append(before.runs, run) \in Seq(DataRun)
  BY <1>1, <1>5
<1>7. [prev |-> prev, runs |-> Append(before.runs, run)] \in Decoder
  BY <1>3, <1>6 DEF Decoder
<1> QED
  BY <1>4, <1>7

\* decodeDataRuns, pair by pair.
Decodes(d, pairs) ==
    /\ d \in [0 .. Len(pairs) -> Decoder]
    /\ d[0] = Nothing
    /\ \A k \in 1 .. Len(pairs) : d[k] = DecodePair(d[k - 1], pairs[k])
    /\ DecodeDataRuns(pairs) = d[Len(pairs)].runs

LEMMA DecodingFacts ==
    ASSUME NEW pairs \in Seq(Pair)
    PROVE  \E d : Decodes(d, pairs)
<1> DEFINE len == Len(pairs)
           decoded[k \in 0 .. Len(pairs)] ==
               IF k = 0 THEN [prev |-> 0, runs |-> <<>>] ELSE DecodePair(decoded[k - 1], pairs[k])
           step == [k \in 1 .. len |-> [x \in Decoder |-> DecodePair(x, pairs[k])]]
<1>1. DecodeDataRuns(pairs) = decoded[Len(pairs)].runs
  BY DEF DecodeDataRuns
<1>2. len \in Nat /\ Nothing \in Decoder
  <2>1. <<>> \in Seq(DataRun)
    OBVIOUS
  <2> QED
    BY <2>1 DEF Nothing, Decoder
<1>3. PICK f : Follows(f, Decoder, Nothing, len, step)
  <2>1. step \in [1 .. len -> [Decoder -> Decoder]]
    <3>1. \A k \in 1 .. len : pairs[k] \in Pair
      OBVIOUS
    <3>2. \A k \in 1 .. len : [x \in Decoder |-> DecodePair(x, pairs[k])] \in [Decoder -> Decoder]
      BY <3>1, DecodePairFacts
    <3> HIDE DEF len
    <3> QED
      BY <3>2
  <2> HIDE DEF step, len
  <2> QED
    BY <1>2, <2>1, Recursion, Zenon
<1>4. /\ f \in [0 .. len -> Decoder] /\ f[0] = Nothing
      /\ \A k \in 1 .. len : f[k] = DecodePair(f[k - 1], pairs[k])
  <2>1. \A k \in 1 .. len : k - 1 \in 0 .. len
    BY <1>2
  <2> QED
    BY <1>3, <2>1 DEF Follows
<1>5. f = [k \in 0 .. Len(pairs) |->
              IF k = 0 THEN [prev |-> 0, runs |-> <<>>] ELSE DecodePair(f[k - 1], pairs[k])]
  BY <1>4 DEF Nothing
<1>6. decoded = [k \in 0 .. Len(pairs) |->
              IF k = 0 THEN [prev |-> 0, runs |-> <<>>] ELSE DecodePair(decoded[k - 1], pairs[k])]
  <2> HIDE DEF step
  <2> QED
    BY <1>5
<1>7. decoded = f
  <2>1. GoTogether(f, decoded, len)
    <3> HIDE DEF step, decoded
    <3>1. f = [k \in 0 .. len |-> f[k]] /\ decoded = [k \in 0 .. len |-> decoded[k]]
      BY <1>4, <1>6
    <3>2. decoded[0] = Nothing /\ \A k \in 1 .. len : decoded[k] = DecodePair(decoded[k - 1], pairs[k])
      BY <1>2, <1>6 DEF Nothing
    <3> QED
      BY <1>4, <3>1, <3>2 DEF GoTogether
  <2> HIDE DEF decoded, len
  <2> QED
    BY <1>2, <2>1, Same, Zenon
<1>8. Decodes(f, pairs)
  BY <1>1, <1>4, <1>7 DEF Decodes
<1> QED
  BY <1>8

LEMMA DecodedRuns ==
    ASSUME NEW pairs \in Seq(Pair)
    PROVE  DecodeDataRuns(pairs) \in Seq(DataRun)
<1>1. PICK d : Decodes(d, pairs)
  BY DecodingFacts
<1>2. d[Len(pairs)] \in Decoder
  <2>1. Len(pairs) \in 0 .. Len(pairs)
    OBVIOUS
  <2> QED
    BY <1>1, <2>1 DEF Decodes
<1> QED
  BY <1>1, <1>2 DEF Decodes, Decoder

\* What is written of a run takes the decoder from the run before it to this one.
LEMMA PairsFacts ==
    ASSUME NEW l \in Seq(Extent)
    PROVE  /\ Pairs(l) \in Seq(Pair) /\ Len(Pairs(l)) = Len(l)
           /\ \A k \in 1 .. Len(l), before \in Decoder :
                  before.prev = StartBefore(l, k) =>
                      DecodePair(before, Pairs(l)[k]) =
                          IF l[k].start = Hole THEN before
                          ELSE [prev |-> l[k].start, runs |-> Append(before.runs, l[k])]
<1> DEFINE offset(k) == IF l[k].start = Hole THEN <<>> ELSE Field(l[k].start - StartBefore(l, k))
           pair(k) == [count |-> Field(l[k].count), offset |-> offset(k)]
<1>1. Clusters \in Nat \ {0}
  BY NtfsAssumption
<1>2. Pairs(l) = [k \in 1 .. Len(l) |-> pair(k)]
  BY DEF Pairs
<1>3. ASSUME NEW k \in 1 .. Len(l)
      PROVE  /\ Field(l[k].count) \in Seq(Digit) /\ Unsigned(Field(l[k].count)) = l[k].count
             /\ offset(k) \in Seq(Digit)
             /\ l[k].start # Hole =>
                    /\ offset(k) # <<>>
                    /\ StartBefore(l, k) + Signed(offset(k)) = l[k].start
  <2>1. l[k] \in Extent /\ StartBefore(l, k) \in 0 .. Clusters - 1
    BY StartBeforeFacts
  <2>2. l[k].count \in -Clusters .. Clusters /\ l[k].count >= 0
    BY <1>1, <2>1, RunFacts
  <2>3. l[k].start # Hole => l[k].start - StartBefore(l, k) \in -Clusters .. Clusters
                             /\ l[k].start \in Int
    BY <1>1, <2>1, RunFacts
  <2>4. Field(l[k].count) \in Seq(Digit) /\ Unsigned(Field(l[k].count)) = l[k].count
    BY <2>2, FieldFacts
  <2>5. ASSUME l[k].start # Hole
        PROVE  /\ offset(k) \in Seq(Digit) /\ offset(k) # <<>>
               /\ StartBefore(l, k) + Signed(offset(k)) = l[k].start
    <3> DEFINE v == l[k].start - StartBefore(l, k)
    <3>1. v \in -Clusters .. Clusters
      BY <2>3, <2>5
    <3>2. StartBefore(l, k) + v = l[k].start
      BY <1>1, <2>1, <2>3, <2>5
    <3>3. offset(k) = Field(v)
      BY <2>5
    <3> HIDE DEF v, offset
    <3>4. Field(v) \in Seq(Digit) /\ Field(v) # <<>> /\ Signed(Field(v)) = v
      BY <3>1, FieldFacts
    <3> QED
      BY <3>2, <3>3, <3>4
  <2>6. ASSUME l[k].start = Hole PROVE offset(k) \in Seq(Digit)
    BY <2>6
  <2> HIDE DEF offset
  <2> QED
    BY <2>4, <2>5, <2>6
<1>4. Pairs(l) \in Seq(Pair) /\ Len(Pairs(l)) = Len(l)
  <2> HIDE DEF offset
  <2>1. \A k \in 1 .. Len(l) : pair(k) \in Pair
    BY <1>3 DEF Pair
  <2> HIDE DEF pair
  <2>2. Pairs(l) \in [1 .. Len(l) -> Pair]
    BY <1>2, <2>1
  <2> QED
    BY <2>2
<1>5. ASSUME NEW k \in 1 .. Len(l), NEW before \in Decoder, before.prev = StartBefore(l, k)
      PROVE  DecodePair(before, Pairs(l)[k]) =
                 IF l[k].start = Hole THEN before
                 ELSE [prev |-> l[k].start, runs |-> Append(before.runs, l[k])]
  <2>1. Pairs(l)[k] = [count |-> Field(l[k].count), offset |-> offset(k)]
    BY <1>2
  <2>2. DecodePair(before, Pairs(l)[k]) =
            IF offset(k) = <<>> THEN before
            ELSE [prev |-> before.prev + Signed(offset(k)),
                  runs |-> Append(before.runs, [start |-> before.prev + Signed(offset(k)),
                                                count |-> Unsigned(Field(l[k].count))])]
    <3> HIDE DEF offset
    <3>1. Pairs(l)[k].offset = offset(k) /\ Pairs(l)[k].count = Field(l[k].count)
      BY <2>1
    <3> QED
      BY <3>1 DEF DecodePair, PrevOffset
  <2>3. CASE l[k].start = Hole
    BY <2>2, <2>3
  <2>4. CASE l[k].start # Hole
    <3> HIDE DEF offset
    <3>1. before.prev + Signed(offset(k)) = l[k].start /\ Unsigned(Field(l[k].count)) = l[k].count
          /\ offset(k) # <<>>
      BY <1>3, <1>5, <2>4
    <3>2. l[k] = [start |-> l[k].start, count |-> l[k].count]
      <4>1. l[k] \in DataRun
        BY RunFacts
      <4> QED
        BY <4>1 DEF DataRun
    <3> QED
      BY <2>2, <2>4, <3>1, <3>2
  <2> QED
    BY <2>3, <2>4
<1> QED
  BY <1>4, <1>5

\* runs are the first k of l with the holes left out: m says which is which.
Traces(m, runs, l, k) ==
    /\ m \in [1 .. Len(runs) -> 1 .. k]
    /\ \A a, b \in 1 .. Len(runs) : a < b => m[a] < m[b]
    /\ \A a \in 1 .. Len(runs) : runs[a] = l[m[a]] /\ l[m[a]].start # Hole
    /\ \A j \in 1 .. k : l[j].start # Hole => \E a \in 1 .. Len(runs) : m[a] = j

Whole(runs, l, k) ==
    (\A j \in 1 .. k : l[j].start # Hole) => runs = [j \in 1 .. k |-> l[j]]

LEMMA TraceGrows ==
    ASSUME NEW l \in Seq(Extent), NEW k \in 0 .. Len(l) - 1, l[k + 1].start # Hole,
           NEW runs \in Seq(DataRun), NEW m, Traces(m, runs, l, k)
    PROVE  \E p : Traces(p, Append(runs, l[k + 1]), l, k + 1)
<1> DEFINE more == Append(runs, l[k + 1])
           n == Len(runs)
           p == [a \in 1 .. n + 1 |-> IF a = n + 1 THEN k + 1 ELSE m[a]]
<1>0. k \in Nat /\ k + 1 \in 1 .. Len(l)
  OBVIOUS
<1>1. n \in Nat /\ l[k + 1] \in DataRun
  BY <1>0, RunFacts
<1>2. /\ Len(more) = n + 1
      /\ \A a \in 1 .. n : more[a] = runs[a]
      /\ more[n + 1] = l[k + 1]
  BY <1>1
<1>3. \A a \in 1 .. n : p[a] = m[a] /\ m[a] \in 1 .. k
  BY <1>1 DEF Traces
<1>4. p[n + 1] = k + 1
  BY <1>1
<1>5. p \in [1 .. n + 1 -> 1 .. k + 1]
  <2>1. \A a \in 1 .. n + 1 : p[a] \in 1 .. k + 1
    <3> HIDE DEF p
    <3> SUFFICES ASSUME NEW a \in 1 .. n + 1 PROVE p[a] \in 1 .. k + 1
      OBVIOUS
    <3>1. CASE a = n + 1
      BY <1>0, <1>4, <3>1
    <3>2. CASE a # n + 1
      <4>1. a \in 1 .. n
        BY <1>1, <3>2
      <4> QED
        BY <1>0, <1>3, <4>1
    <3> QED
      BY <3>1, <3>2
  <2> QED
    BY <2>1
<1> HIDE DEF p, more
<1>6. \A a, b \in 1 .. n + 1 : a < b => p[a] < p[b]
  <2> SUFFICES ASSUME NEW a \in 1 .. n + 1, NEW b \in 1 .. n + 1, a < b PROVE p[a] < p[b]
    OBVIOUS
  <2>1. CASE b = n + 1
    BY <1>1, <1>3, <1>4, <2>1
  <2>2. CASE b # n + 1
    <3>1. a \in 1 .. n /\ b \in 1 .. n
      BY <1>1, <2>2
    <3>2. m[a] < m[b]
      BY <3>1 DEF Traces
    <3> QED
      BY <1>3, <3>1, <3>2
  <2> QED
    BY <2>1, <2>2
<1>7. \A a \in 1 .. n + 1 : more[a] = l[p[a]] /\ l[p[a]].start # Hole
  <2> SUFFICES ASSUME NEW a \in 1 .. n + 1 PROVE more[a] = l[p[a]] /\ l[p[a]].start # Hole
    OBVIOUS
  <2>1. CASE a = n + 1
    BY <1>2, <1>4, <2>1
  <2>2. CASE a # n + 1
    <3>1. a \in 1 .. n
      BY <1>1, <2>2
    <3> QED
      BY <1>2, <1>3, <3>1 DEF Traces
  <2> QED
    BY <2>1, <2>2
<1>8. \A j \in 1 .. k + 1 : l[j].start # Hole => \E a \in 1 .. n + 1 : p[a] = j
  <2> SUFFICES ASSUME NEW j \in 1 .. k + 1, l[j].start # Hole PROVE \E a \in 1 .. n + 1 : p[a] = j
    OBVIOUS
  <2>1. CASE j = k + 1
    BY <1>1, <1>4, <2>1
  <2>2. CASE j # k + 1
    <3>1. j \in 1 .. k
      BY <1>0, <2>2
    <3>2. PICK a \in 1 .. n : m[a] = j
      BY <3>1 DEF Traces
    <3>3. a \in 1 .. n + 1 /\ p[a] = j
      BY <1>1, <1>3, <3>2
    <3> QED
      BY <3>3
  <2> QED
    BY <2>1, <2>2
<1>9. Traces(p, more, l, k + 1)
  BY <1>2, <1>5, <1>6, <1>7, <1>8 DEF Traces
<1> QED
  BY <1>9 DEF more

LEMMA WholeGrows ==
    ASSUME NEW l \in Seq(Extent), NEW k \in 0 .. Len(l) - 1,
           NEW runs \in Seq(DataRun), Whole(runs, l, k)
    PROVE  Whole(Append(runs, l[k + 1]), l, k + 1)
<1> SUFFICES ASSUME \A j \in 1 .. k + 1 : l[j].start # Hole
             PROVE  Append(runs, l[k + 1]) = [j \in 1 .. k + 1 |-> l[j]]
  BY DEF Whole
<1>0. k \in Nat /\ k + 1 \in 1 .. Len(l)
  OBVIOUS
<1>1. l[k + 1] \in DataRun
  BY <1>0, RunFacts
<1>2. runs = [j \in 1 .. k |-> l[j]]
  BY DEF Whole
<1>3. Len(runs) = k
  BY <1>0, <1>2
<1>4. /\ Len(Append(runs, l[k + 1])) = k + 1
      /\ Append(runs, l[k + 1]) \in Seq(DataRun)
      /\ \A j \in 1 .. k : Append(runs, l[k + 1])[j] = l[j]
      /\ Append(runs, l[k + 1])[k + 1] = l[k + 1]
  BY <1>1, <1>2, <1>3
<1> DEFINE more == Append(runs, l[k + 1])
<1> HIDE DEF more
<1>5. more = [j \in 1 .. k + 1 |-> more[j]]
  <2>1. more \in Seq(DataRun) /\ Len(more) = k + 1
    BY <1>4 DEF more
  <2> QED
    BY <1>0, <2>1
<1>6. \A j \in 1 .. k + 1 : more[j] = l[j]
  BY <1>0, <1>4 DEF more
<1> QED
  BY <1>5, <1>6 DEF more

\* decodeDataRuns gives back the runs, without the holes and in their order.
Decoded(runs, l) ==
    /\ runs \in Seq(DataRun)
    /\ \E m : Traces(m, runs, l, Len(l))
    /\ Whole(runs, l, Len(l))

THEOREM DecodeFacts ==
    ASSUME NEW l \in Seq(Extent)
    PROVE  Decoded(DecodeDataRuns(Pairs(l)), l)
<1> DEFINE n == Len(l)
<1>1. /\ Pairs(l) \in Seq(Pair) /\ Len(Pairs(l)) = n
      /\ \A k \in 1 .. n, before \in Decoder :
             before.prev = StartBefore(l, k) =>
                 DecodePair(before, Pairs(l)[k]) =
                     IF l[k].start = Hole THEN before
                     ELSE [prev |-> l[k].start, runs |-> Append(before.runs, l[k])]
  BY PairsFacts
<1>2. PICK d : Decodes(d, Pairs(l))
  BY <1>1, DecodingFacts
<1>3. /\ d \in [0 .. n -> Decoder] /\ d[0] = Nothing
      /\ \A k \in 1 .. n : d[k] = DecodePair(d[k - 1], Pairs(l)[k])
      /\ DecodeDataRuns(Pairs(l)) = d[n].runs
  BY <1>1, <1>2 DEF Decodes
<1>4. n \in Nat
  OBVIOUS
<1> DEFINE Good(k) == /\ d[k].prev = StartBefore(l, k + 1)
                      /\ \E m : Traces(m, d[k].runs, l, k)
                      /\ Whole(d[k].runs, l, k)
           T == {k \in 0 .. n : Good(k)}
<1>5. 0 \in T
  <2>1. d[0].prev = 0 /\ d[0].runs = <<>>
    BY <1>3 DEF Nothing
  <2>2. Traces(<<>>, <<>>, l, 0)
    BY DEF Traces
  <2>3. Whole(<<>>, l, 0)
    BY DEF Whole
  <2>4. StartBefore(l, 0 + 1) = 0
    BY StartBeforeFacts
  <2> QED
    BY <1>4, <2>1, <2>2, <2>3, <2>4
<1>6. ASSUME NEW k \in 0 .. n - 1, k \in T PROVE k + 1 \in T
  <2>1. k + 1 \in 1 .. n /\ (k + 1) - 1 = k /\ k \in 0 .. n /\ k + 1 \in 0 .. n
    BY <1>4
  <2>2. d[k] \in Decoder /\ d[k].runs \in Seq(DataRun)
    BY <1>3, <2>1 DEF Decoder
  <2>3. d[k + 1] = DecodePair(d[(k + 1) - 1], Pairs(l)[k + 1])
    BY <1>3, <2>1
  <2>4. Good(k)
    BY <1>6
  <2>5. d[k + 1] = IF l[k + 1].start = Hole THEN d[k]
                   ELSE [prev |-> l[k + 1].start, runs |-> Append(d[k].runs, l[k + 1])]
    BY <1>1, <2>1, <2>2, <2>3, <2>4
  <2>6. StartBefore(l, (k + 1) + 1) =
            IF l[k + 1].start = Hole THEN StartBefore(l, k + 1) ELSE l[k + 1].start
    BY <2>1, StartBeforeFacts
  <2>7. CASE l[k + 1].start = Hole
    <3>1. d[k + 1] = d[k]
      BY <2>5, <2>7
    <3>2. PICK m : Traces(m, d[k].runs, l, k)
      BY <2>4
    <3>3. Traces(m, d[k].runs, l, k + 1)
      <4> DEFINE e == Len(d[k].runs)
      <4> HIDE DEF T
      <4>1. k \in Nat
        BY <2>1
      <4>2. \A j \in 1 .. k + 1 : l[j].start # Hole => j \in 1 .. k
        BY <2>7, <4>1
      <4>3. m \in [1 .. e -> 1 .. k + 1]
        BY <3>2, <4>1 DEF Traces
      <4> QED
        BY <3>2, <4>2, <4>3 DEF Traces
    <3>4. Whole(d[k].runs, l, k + 1)
      BY <2>1, <2>7 DEF Whole
    <3>5. Good(k + 1)
      BY <2>4, <2>6, <2>7, <3>1, <3>3, <3>4
    <3> QED
      BY <2>1, <3>5
  <2>8. CASE l[k + 1].start # Hole
    <3>1. d[k + 1].prev = l[k + 1].start /\ d[k + 1].runs = Append(d[k].runs, l[k + 1])
      BY <2>5, <2>8
    <3>2. \E p : Traces(p, Append(d[k].runs, l[k + 1]), l, k + 1)
      <4>1. PICK m : Traces(m, d[k].runs, l, k)
        BY <2>4
      <4> QED
        BY <2>2, <2>8, <4>1, TraceGrows
    <3>3. Whole(Append(d[k].runs, l[k + 1]), l, k + 1)
      BY <2>2, <2>4, WholeGrows
    <3>4. Good(k + 1)
      BY <2>6, <2>8, <3>1, <3>2, <3>3
    <3> QED
      BY <2>1, <3>4
  <2> QED
    BY <2>7, <2>8
<1>7. 0 .. n \subseteq T
  <2> HIDE DEF T, n
  <2> QED
    BY <1>4, <1>5, <1>6, UpTo
<1>8. Good(n)
  BY <1>4, <1>7
<1>9. d[n].runs \in Seq(DataRun)
  BY <1>3, <1>4 DEF Decoder
<1> QED
  BY <1>3, <1>8, <1>9 DEF Decoded

-----------------------------------------------------------------------------
(* Bytes: runs one after the other.                                        *)

\* Clusters and bytes count in the same order.
LEMMA Sizing ==
    /\ ClusterSize \in Nat \ {0}
    /\ \A a, b \in Int : a <= b => a * ClusterSize <= b * ClusterSize
    /\ \A a, b \in Int : (a + b) * ClusterSize = a * ClusterSize + b * ClusterSize
    /\ \A a \in Int : a * ClusterSize \in Int
    /\ \A a \in Nat : a * ClusterSize \in Nat /\ ClusterSize * a \in Nat
    /\ \A a \in Nat \ {0} : a * ClusterSize >= ClusterSize /\ ClusterSize * a >= ClusterSize
<1>1. ClusterSize \in Nat \ {0}
  BY NtfsAssumption
<1> DEFINE z == ClusterSize
<1> HIDE DEF z
<1>2. \A x \in Nat \ {0} : \A a, b \in Int : a <= b => a * x <= b * x
  <2> SUFFICES ASSUME NEW x \in Nat \ {0}, NEW a \in Int, NEW b \in Int, a <= b
               PROVE  a * x <= b * x
    OBVIOUS
  <2>1. (b - a) * x >= 0 /\ (b - a) * x = b * x - a * x /\ a * x \in Int /\ b * x \in Int
    OBVIOUS
  <2> QED
    BY <2>1
<1>3. \A x \in Nat \ {0} : \A a, b \in Int : (a + b) * x = a * x + b * x
  OBVIOUS
<1>4. \A x \in Nat \ {0} : \A a \in Int : a * x \in Int /\ x * a = a * x
  OBVIOUS
<1>5. \A x \in Nat \ {0} : \A a \in Nat : a * x \in Nat
  OBVIOUS
<1>6. \A x \in Nat \ {0} : \A a \in Nat \ {0} : a * x >= x
  <2> SUFFICES ASSUME NEW x \in Nat \ {0}, NEW a \in Nat \ {0} PROVE a * x >= x
    OBVIOUS
  <2>1. 1 * x <= a * x /\ 1 * x = x
    BY <1>2
  <2> QED
    BY <2>1
<1>7. \A a \in Nat : a * ClusterSize \in Nat /\ ClusterSize * a = a * ClusterSize
  BY <1>1, <1>4, <1>5
<1>8. \A a \in Nat \ {0} : a * ClusterSize >= ClusterSize
  BY <1>1, <1>6
<1> QED
  BY <1>1, <1>2, <1>3, <1>4, <1>7, <1>8

LEMMA Numbers ==
    /\ Clusters \in Nat \ {0} /\ ClusterSize \in Nat \ {0}
    /\ Clusters * ClusterSize \in Nat
BY NtfsAssumption, Sizing

LEMMA BytesOfFacts ==
    ASSUME NEW start \in Int, NEW count \in Nat
    PROVE  /\ BytesOf(start, count) \in Seq(Int)
           /\ Len(BytesOf(start, count)) = count * ClusterSize
           /\ \A k \in 1 .. count * ClusterSize :
                  /\ BytesOf(start, count)[k] = start * ClusterSize + k - 1
                  /\ BytesOf(start, count)[k]
                         \in start * ClusterSize .. (start + count) * ClusterSize - 1
<1> DEFINE n == count * ClusterSize
           s == start * ClusterSize
           bytes == BytesOf(start, count)
<1>1. n \in Nat /\ s \in Int /\ (start + count) * ClusterSize = s + n
  BY Sizing
<1>2. bytes = [k \in 1 .. n |-> s + k - 1]
  BY DEF BytesOf
<1> HIDE DEF n, s, bytes
<1>3. bytes \in Seq(Int) /\ Len(bytes) = n
  <2>1. bytes \in [1 .. n -> Int]
    BY <1>1, <1>2
  <2> QED
    BY <1>1, <1>2, <2>1
<1>4. \A k \in 1 .. n : bytes[k] = s + k - 1 /\ bytes[k] \in s .. (start + count) * ClusterSize - 1
  BY <1>1, <1>2
<1> QED
  BY <1>3, <1>4 DEF n, s, bytes

\* Every cluster before the first that stops the reading is the device's and readable.
LEMMA ReadableFacts ==
    ASSUME NEW run \in DataRun
    PROVE  /\ Readable(run) \in 0 .. run.count
           /\ \A k \in 0 .. Readable(run) - 1 :
                  run.start + k \in Device /\ run.start + k \notin bad
           /\ Readable(run) = run.count
              \/ run.start + Readable(run) \in bad
              \/ run.start + Readable(run) \notin Device
<1> DEFINE stops == {k \in 0 .. run.count - 1 :
                      run.start + k \in bad \/ run.start + k \notin Device}
           r == CHOOSE k \in stops : \A m \in stops : k <= m
<1>0. run.start \in Int /\ run.count \in Nat
  BY DEF DataRun
<1>1. Readable(run) = IF stops = {} THEN run.count ELSE r
  BY DEF Readable
<1>2. CASE stops = {}
  <2>1. Readable(run) = run.count
    BY <1>1, <1>2
  <2>2. \A k \in 0 .. run.count - 1 :
            run.start + k \in Device /\ run.start + k \notin bad
    BY <1>2
  <2> QED
    BY <1>0, <2>1, <2>2
<1>3. CASE stops # {}
  <2>1. \E k \in stops : \A m \in stops : k <= m
    <3>1. stops \subseteq Nat
      OBVIOUS
    <3> HIDE DEF stops
    <3> QED
      BY <1>3, <3>1, LeastNumber, Zenon
  <2>2. r \in stops /\ \A m \in stops : r <= m
    <3> HIDE DEF stops
    <3> QED
      BY <2>1
  <2> HIDE DEF r
  <2>3. r \in 0 .. run.count - 1
        /\ (run.start + r \in bad \/ run.start + r \notin Device)
    BY <2>2
  <2>4. ASSUME NEW k \in 0 .. r - 1
        PROVE  run.start + k \in Device /\ run.start + k \notin bad
    <3>1. k \in 0 .. run.count - 1 /\ ~(r <= k)
      BY <1>0, <2>3
    <3>2. k \notin stops
      <4> HIDE DEF stops
      <4> QED
        BY <2>2, <3>1
    <3> QED
      BY <3>1, <3>2
  <2>5. Readable(run) = r
    BY <1>1, <1>3
  <2> HIDE DEF stops
  <2> QED
    BY <1>0, <2>3, <2>4, <2>5
<1> QED
  BY <1>2, <1>3

\* What is read of a run lies in it and on the disk.
LEMMA ReadBytes ==
    ASSUME NEW run \in DataRun
    PROVE  LET bytes == BytesOf(run.start, Readable(run))
           IN  /\ bytes \in Seq(Int)
               /\ \A k \in 1 .. Len(bytes) :
                      /\ bytes[k] \in run.start * ClusterSize
                                          .. (run.start + run.count) * ClusterSize - 1
                      /\ bytes[k] \in DeviceBytes
               /\ \A k, m \in 1 .. Len(bytes) : k < m => bytes[k] < bytes[m]
<1> DEFINE r == Readable(run)
           s == run.start
           bytes == BytesOf(s, r)
           first == -Before
           end == Clusters + Behind
<1>0. /\ s \in Int /\ run.count \in Nat /\ r \in Nat /\ r <= run.count
      /\ first \in Int /\ end \in Int /\ Device = first .. end - 1
      /\ DeviceBytes = first * ClusterSize .. end * ClusterSize - 1
  <2>1. Before \in Int /\ Behind \in Int /\ Clusters \in Int /\ ClusterSize \in Int
    BY NtfsAssumption
  <2>2. \A a, c \in Int : -a * c = (-a) * c
    OBVIOUS
  <2>3. -Before * ClusterSize = first * ClusterSize
    BY <2>1, <2>2
  <2> HIDE DEF r
  <2> QED
    BY <2>1, <2>3, ReadableFacts DEF DataRun, Device, DeviceBytes, r
<1> HIDE DEF first, end
<1>1. /\ bytes \in Seq(Int) /\ Len(bytes) = r * ClusterSize
      /\ \A k \in 1 .. r * ClusterSize :
             bytes[k] = s * ClusterSize + k - 1
             /\ bytes[k] \in s * ClusterSize .. (s + r) * ClusterSize - 1
  <2> HIDE DEF r, s
  <2> QED
    BY <1>0, BytesOfFacts
<1>2. ASSUME NEW k \in 1 .. Len(bytes) PROVE first <= s /\ s + r <= end
  <2>1. r # 0
    <3>1. 0 * ClusterSize = 0
      BY Sizing
    <3> HIDE DEF r, bytes, s
    <3> QED
      BY <1>1, <3>1
  <2>2. 0 \in 0 .. r - 1 /\ r - 1 \in 0 .. r - 1
    BY <1>0, <2>1
  <2>3. s + 0 \in first .. end - 1 /\ s + (r - 1) \in first .. end - 1
    BY <1>0, <2>2, ReadableFacts
  <2> HIDE DEF r, s
  <2> QED
    BY <1>0, <2>3
<1>3. ASSUME NEW k \in 1 .. Len(bytes)
      PROVE  /\ bytes[k] \in s * ClusterSize .. (s + run.count) * ClusterSize - 1
             /\ bytes[k] \in DeviceBytes
  <2>1. first <= s /\ s + r <= end
    BY <1>2
  <2>2. bytes[k] \in s * ClusterSize .. (s + r) * ClusterSize - 1
    BY <1>1
  <2> HIDE DEF r, s, bytes
  <2> DEFINE T == [a \in Int |-> a * ClusterSize]
             e == s + run.count
             d == s + r
  <2>3. d \in Int /\ e \in Int /\ d <= e /\ d <= end /\ first <= s
    BY <1>0, <2>1
  <2>4. /\ \A a, b \in Int : a <= b => T[a] <= T[b]
        /\ \A a \in Int : T[a] \in Int
    BY Sizing
  <2>6. bytes[k] \in T[s] .. T[d] - 1
    BY <1>0, <2>2
  <2> HIDE DEF T, d, e
  <2>7. T[first] <= T[s] /\ T[d] <= T[end] /\ T[d] <= T[e]
    BY <1>0, <2>3, <2>4
  <2>8. T[s] \in Int /\ T[d] \in Int /\ T[e] \in Int /\ T[end] \in Int /\ T[first] \in Int
    BY <1>0, <2>3, <2>4
  <2>9. bytes[k] \in T[s] .. T[e] - 1 /\ bytes[k] \in T[first] .. T[end] - 1
    BY <2>6, <2>7, <2>8
  <2> QED
    BY <1>0, <2>3, <2>9 DEF T, e
<1>4. \A k, m \in 1 .. Len(bytes) : k < m => bytes[k] < bytes[m]
  <2>1. s * ClusterSize \in Int
    BY <1>0, Sizing
  <2> HIDE DEF r, s, bytes
  <2> QED
    BY <1>1, <2>1
<1> QED
  BY <1>1, <1>3, <1>4

-----------------------------------------------------------------------------
(* The file and the runs that are decoded.                                 *)

Layout(l) ==
    /\ l \in Seq(Extent)
    /\ \A j, k \in DOMAIN l : j < k /\ l[j].start # Hole /\ l[k].start # Hole => Apart(l[j], l[k])

Shares == [k \in DOMAIN layout |->
               IF layout[k].start = Hole THEN <<>> ELSE BytesOf(layout[k].start, layout[k].count)]

LEMMA ShareFacts ==
    ASSUME layout \in Seq(Extent)
    PROVE  \A k \in 1 .. Len(layout) :
               /\ Shares[k] \in Seq(Int)
               /\ layout[k].start = Hole => Shares[k] = <<>>
               /\ layout[k].start # Hole =>
                      /\ Shares[k] = BytesOf(layout[k].start, layout[k].count)
                      /\ Len(Shares[k]) >= ClusterSize
<1> SUFFICES ASSUME NEW k \in 1 .. Len(layout)
             PROVE  /\ Shares[k] \in Seq(Int)
                    /\ layout[k].start = Hole => Shares[k] = <<>>
                    /\ layout[k].start # Hole =>
                           /\ Shares[k] = BytesOf(layout[k].start, layout[k].count)
                           /\ Len(Shares[k]) >= ClusterSize
  OBVIOUS
<1>1. layout[k] \in Extent /\ layout[k].start \in Int /\ layout[k].count \in Nat \ {0}
  BY RunFacts
<1>2. Shares[k] = IF layout[k].start = Hole THEN <<>>
                  ELSE BytesOf(layout[k].start, layout[k].count)
  BY DEF Shares
<1>3. /\ BytesOf(layout[k].start, layout[k].count) \in Seq(Int)
      /\ Len(BytesOf(layout[k].start, layout[k].count)) = layout[k].count * ClusterSize
  BY <1>1, BytesOfFacts
<1>4. layout[k].count * ClusterSize >= ClusterSize
  BY <1>1, Sizing
<1>5. <<>> \in Seq(Int)
  OBVIOUS
<1> QED
  BY <1>2, <1>3, <1>4, <1>5

\* The content is nothing or takes up a cluster at least.
LEMMA ContentFacts ==
    ASSUME layout \in Seq(Extent)
    PROVE  /\ Content \in Seq(Int) /\ Content = FirstOf(Shares, Len(layout))
           /\ Len(Content) = 0 \/ Len(Content) >= ClusterSize
           /\ layout # <<>> /\ Holes = {} => Len(Content) >= ClusterSize
<1> DEFINE n == Len(layout)
           F(k) == FirstOf(Shares, k)
           T == {k \in 0 .. n : /\ Len(F(k)) = 0 \/ Len(F(k)) >= ClusterSize
                                /\ k > 0 /\ layout[k].start # Hole => Len(F(k)) >= ClusterSize}
<1>0. n \in Nat /\ DOMAIN layout = 1 .. n /\ ClusterSize \in Nat \ {0}
  BY Sizing
<1>1. /\ F(0) = <<>>
      /\ \A k \in 0 .. n : F(k) \in Seq(Int)
      /\ \A k \in 0 .. n - 1 : F(k + 1) = F(k) \o Shares[k + 1]
  <2>1. \A j \in 1 .. n : Shares[j] \in Seq(Int)
    BY ShareFacts
  <2> HIDE DEF n
  <2>2. Extends(Shares, n, Int)
    BY <1>0, <2>1, FirstOfFacts
  <2> QED
    BY <2>2 DEF Extends
<1>2. Content = F(n)
  BY <1>0 DEF Content, FirstOf, Shares
<1> HIDE DEF F
<1>3. 0 \in T
  BY <1>0, <1>1
<1>4. ASSUME NEW k \in 0 .. n - 1, k \in T PROVE k + 1 \in T
  <2>1. k + 1 \in 1 .. n /\ k \in 0 .. n
    BY <1>0
  <2>2. F(k) \in Seq(Int) /\ Shares[k + 1] \in Seq(Int) /\ F(k + 1) = F(k) \o Shares[k + 1]
    BY <1>1, <2>1, ShareFacts
  <2>3. Len(F(k + 1)) = Len(F(k)) + Len(Shares[k + 1])
    BY <2>2
  <2>4. Len(F(k)) \in Nat /\ Len(Shares[k + 1]) \in Nat
    BY <2>2
  <2>5. layout[k + 1].start = Hole => Len(Shares[k + 1]) = 0
    <3>1. layout[k + 1].start = Hole => Shares[k + 1] = <<>>
      BY <2>1, ShareFacts
    <3> QED
      BY <3>1
  <2>6. layout[k + 1].start # Hole => Len(Shares[k + 1]) >= ClusterSize
    BY <2>1, ShareFacts
  <2>7. Len(F(k)) = 0 \/ Len(F(k)) >= ClusterSize
    BY <1>4
  <2> QED
    BY <1>0, <2>1, <2>3, <2>4, <2>5, <2>6, <2>7
<1>5. n \in T
  <2>1. 0 .. n \subseteq T
    <3> HIDE DEF T, n
    <3> QED
      BY <1>0, <1>3, <1>4, UpTo
  <2> QED
    BY <1>0, <2>1
<1>6. ASSUME layout # <<>>, Holes = {} PROVE Len(Content) >= ClusterSize
  <2>1. n > 0 /\ n \in DOMAIN layout
    BY <1>0, <1>6
  <2>2. layout[n].start # Hole
    BY <1>6, <2>1 DEF Holes
  <2> QED
    BY <1>2, <1>5, <2>1, <2>2
<1>7. Content \in Seq(Int) /\ Content = FirstOf(Shares, Len(layout))
  BY <1>0, <1>1, <1>2 DEF F
<1>8. Len(Content) = 0 \/ Len(Content) >= ClusterSize
  BY <1>2, <1>5
<1> QED
  BY <1>6, <1>7, <1>8

LEMMA SizesFacts ==
    ASSUME layout \in Seq(Extent), NEW s \in Sizes
    PROVE  /\ s \in Nat
           /\ Holes = {} /\ layout # <<>> => s \in 1 .. Len(Content)
<1> DEFINE n == Len(layout)
           card == Cardinality(Holes)
           len == Len(Content)
           total == len + ClusterSize * card
<1>1. Holes \subseteq 1 .. n /\ n \in Nat
  BY DEF Holes
<1>2. IsFiniteSet(Holes)
  <2>1. IsFiniteSet(1 .. n)
    BY <1>1, FS_Interval
  <2> QED
    BY <1>1, <2>1, FS_Subset
<1>3. card \in Nat /\ (Holes = {} => card = 0)
  BY <1>2, FS_CardinalityType, FS_EmptySet
<1>4. ClusterSize \in Nat \ {0} /\ ClusterSize * card \in Nat
      /\ (card # 0 => ClusterSize * card >= ClusterSize) /\ (card = 0 => ClusterSize * card = 0)
  <2> HIDE DEF card
  <2>1. ClusterSize * 0 = 0
    BY Sizing
  <2> QED
    BY <1>3, <2>1, Sizing
<1>5. len \in Nat /\ (len = 0 \/ len >= ClusterSize)
      /\ (layout # <<>> /\ Holes = {} => len >= ClusterSize)
  BY ContentFacts
<1>6. s = total \/ s = total - (IF total = 0 THEN 0 ELSE ClusterSize - 1)
  BY DEF Sizes
<1> HIDE DEF card, len
<1> QED
  BY <1>3, <1>4, <1>5, <1>6 DEF len

\* Byte b lies in the run r.
Within(b, r) == b \in r.start * ClusterSize .. (r.start + r.count) * ClusterSize - 1

LEMMA ApartFacts ==
    ASSUME NEW r \in DataRun, NEW s \in DataRun, Apart(r, s), NEW b, Within(b, r)
    PROVE  ~Within(b, s)
<1>1. r.start \in Int /\ r.count \in Nat /\ s.start \in Int /\ s.count \in Nat
  BY DEF DataRun
<1>2. r.start + r.count \in Int /\ s.start + s.count \in Int
  BY <1>1
<1>3. CASE r.start + r.count <= s.start
  <2>1. (r.start + r.count) * ClusterSize <= s.start * ClusterSize
    BY <1>1, <1>2, <1>3, Sizing
  <2>2. (r.start + r.count) * ClusterSize \in Int /\ s.start * ClusterSize \in Int
        /\ r.start * ClusterSize \in Int /\ (s.start + s.count) * ClusterSize \in Int
    BY <1>1, <1>2, Sizing
  <2> QED
    BY <2>1, <2>2 DEF Within
<1>4. CASE s.start + s.count <= r.start
  <2>1. (s.start + s.count) * ClusterSize <= r.start * ClusterSize
    BY <1>1, <1>2, <1>4, Sizing
  <2>2. (r.start + r.count) * ClusterSize \in Int /\ s.start * ClusterSize \in Int
        /\ r.start * ClusterSize \in Int /\ (s.start + s.count) * ClusterSize \in Int
    BY <1>1, <1>2, Sizing
  <2> QED
    BY <2>1, <2>2 DEF Within
<1> QED
  BY <1>3, <1>4 DEF Apart

\* What the decoder gives back of a layout: every byte is in one of its runs at
\* most, and in the same one as in the layout.
Places(runs, m) ==
    /\ m \in [1 .. Len(runs) -> DOMAIN layout]
    /\ \A a, b \in DOMAIN runs : a < b => m[a] < m[b]
    /\ \A a \in DOMAIN runs : runs[a] = layout[m[a]] /\ layout[m[a]].start # Hole
    /\ \A j \in DOMAIN layout \ Holes : \E a \in DOMAIN runs : m[a] = j

OwnFacts(runs) ==
    /\ runs \in Seq(DataRun)
    /\ \E m : Places(runs, m)
    /\ Holes = {} => runs = layout
    /\ \A a, b \in DOMAIN runs : \A x : Within(x, runs[a]) /\ Within(x, runs[b]) => a = b

LEMMA OwnRunsFacts ==
    ASSUME Layout(layout)
    PROVE  OwnFacts(OwnRuns)
<1> DEFINE runs == OwnRuns
           n == Len(layout)
<1>0. layout \in Seq(Extent) /\ n \in Nat /\ DOMAIN layout = 1 .. n
  BY DEF Layout
<1>1. Decoded(runs, layout)
  BY <1>0, DecodeFacts DEF OwnRuns
<1>2. runs \in Seq(DataRun) /\ DOMAIN runs = 1 .. Len(runs)
  <2>1. runs \in Seq(DataRun)
    BY <1>1 DEF Decoded
  <2> HIDE DEF runs
  <2> QED
    BY <2>1
<1> HIDE DEF runs
<1>3. PICK m : Traces(m, runs, layout, n)
  BY <1>1 DEF Decoded
<1>4. Places(runs, m)
  <2>1. \A j \in DOMAIN layout \ Holes : j \in 1 .. n /\ layout[j].start # Hole
    BY <1>0 DEF Holes
  <2> QED
    BY <1>0, <1>2, <1>3, <2>1 DEF Traces, Places
<1>5. ASSUME Holes = {} PROVE runs = layout
  <2>1. \A j \in 1 .. n : layout[j].start # Hole
    BY <1>0, <1>5 DEF Holes
  <2>2. runs = [j \in 1 .. n |-> layout[j]]
    BY <1>1, <2>1 DEF Decoded, Whole
  <2> QED
    BY <1>0, <2>2
<1>6. ASSUME NEW a \in DOMAIN runs, NEW b \in DOMAIN runs, NEW x,
             Within(x, runs[a]), Within(x, runs[b]), a < b
      PROVE  FALSE
  <2>1. m[a] \in 1 .. n /\ m[b] \in 1 .. n /\ m[a] < m[b]
    BY <1>2, <1>3, <1>6 DEF Traces
  <2>2. Apart(layout[m[a]], layout[m[b]])
    BY <1>0, <1>2, <1>3, <2>1 DEF Traces, Layout
  <2>3. Apart(runs[a], runs[b]) /\ runs[a] \in DataRun /\ runs[b] \in DataRun
    BY <1>2, <1>3, <2>2 DEF Traces
  <2> QED
    BY <1>6, <2>3, ApartFacts
<1>7. \A a, b \in DOMAIN runs : \A x : Within(x, runs[a]) /\ Within(x, runs[b]) => a = b
  <2>1. \A a, b \in DOMAIN runs : a < b \/ b < a \/ a = b
    BY <1>2
  <2> QED
    BY <1>6, <2>1
<1>8. OwnFacts(runs)
  BY <1>2, <1>4, <1>5, <1>7 DEF OwnFacts
<1> QED
  BY <1>8 DEF runs

\* A file without holes is its runs one after the other.
LEMMA JoinedFacts ==
    ASSUME layout \in Seq(Extent), Holes = {}
    PROVE  /\ Joined(layout, 0) = <<>>
           /\ Joined(layout, Len(layout)) = Content
           /\ \A k \in 1 .. Len(layout) :
                  Joined(layout, k) =
                      Joined(layout, k - 1) \o BytesOf(layout[k].start, layout[k].count)
<1> DEFINE n == Len(layout)
<1>0. n \in Nat /\ DOMAIN layout = 1 .. n
  OBVIOUS
<1>1. \A j \in 1 .. n : Shares[j] = BytesOf(layout[j].start, layout[j].count)
                        /\ Shares[j] \in Seq(Int)
  <2>1. \A j \in 1 .. n : layout[j].start # Hole
    BY <1>0 DEF Holes
  <2> QED
    BY <2>1, ShareFacts
<1>2. ASSUME NEW k \in 0 .. n PROVE Joined(layout, k) = FirstOf(Shares, k)
  <2>1. [j \in 1 .. k |-> BytesOf(layout[j].start, layout[j].count)] = [j \in 1 .. k |-> Shares[j]]
    BY <1>0, <1>1
  <2> QED
    BY <2>1 DEF Joined, FirstOf
<1>3. Extends(Shares, n, Int)
  <2>1. \A j \in 1 .. n : Shares[j] \in Seq(Int)
    BY <1>1
  <2> HIDE DEF n
  <2> QED
    BY <1>0, <2>1, FirstOfFacts
<1>4. ASSUME NEW k \in 1 .. n
      PROVE  Joined(layout, k) =
                 Joined(layout, k - 1) \o BytesOf(layout[k].start, layout[k].count)
  <2>1. k - 1 \in 0 .. n - 1 /\ k - 1 \in 0 .. n /\ k \in 0 .. n /\ (k - 1) + 1 = k
    BY <1>0
  <2>2. FirstOf(Shares, (k - 1) + 1) = FirstOf(Shares, k - 1) \o Shares[(k - 1) + 1]
    BY <1>3, <2>1 DEF Extends
  <2>3. FirstOf(Shares, k) = FirstOf(Shares, k - 1) \o Shares[k]
    BY <2>1, <2>2
  <2>4. Shares[k] = BytesOf(layout[k].start, layout[k].count)
    BY <1>1
  <2>5. Joined(layout, k) = FirstOf(Shares, k) /\ Joined(layout, k - 1) = FirstOf(Shares, k - 1)
    BY <1>2, <2>1
  <2> QED
    BY <2>3, <2>4, <2>5
<1>5. Joined(layout, 0) = <<>> /\ Joined(layout, n) = Content
  <2>1. Joined(layout, 0) = FirstOf(Shares, 0) /\ Joined(layout, n) = FirstOf(Shares, n)
    BY <1>0, <1>2
  <2> QED
    BY <1>3, <2>1, ContentFacts DEF Extends
<1> QED
  BY <1>4, <1>5

\* A sector end in a pair leaves a pair.
LEMMA TearFacts ==
    ASSUME NEW pairs \in Seq(Pair), NEW k
    PROVE  Tear(pairs, k) \in Seq(Pair)
<1>1. UpdateSequence \in Digit
  <2>1. Base >= 2
    BY BaseFacts
  <2> QED
    BY <2>1, BaseFacts DEF UpdateSequence, Digit
<1> DEFINE torn_(p) == [p EXCEPT !.offset[Len(p.offset)] = UpdateSequence]
<1>2. ASSUME NEW p \in Pair PROVE torn_(p) \in Pair
  <2>1. p.offset \in Seq(Digit) /\ p.count \in Seq(Digit)
    BY DEF Pair
  <2> DEFINE o == [p.offset EXCEPT ![Len(p.offset)] = UpdateSequence]
  <2>2. o \in Seq(Digit)
    <3>1. ASSUME NEW s \in Seq(Digit), NEW x \in Digit
          PROVE  [s EXCEPT ![Len(s)] = x] \in Seq(Digit)
      <4> DEFINE t == [s EXCEPT ![Len(s)] = x]
      <4>1. Len(s) \in Nat /\ s \in [1 .. Len(s) -> Digit]
        OBVIOUS
      <4>2. t \in [1 .. Len(s) -> Digit]
        BY <4>1
      <4> HIDE DEF t
      <4>3. t \in Seq(Digit)
        BY <4>1, <4>2
      <4> QED
        BY <4>3 DEF t
    <3> QED
      BY <1>1, <2>1, <3>1
  <2>3. torn_(p) = [count |-> p.count, offset |-> o]
    <3>1. p = [count |-> p.count, offset |-> p.offset]
      BY DEF Pair
    <3> DEFINE q == [count |-> p.count, offset |-> p.offset]
    <3>2. [q EXCEPT !.offset = o] = [count |-> p.count, offset |-> o]
      <4> HIDE DEF o
      <4> QED
        OBVIOUS
    <3>3. torn_(p) = [p EXCEPT !.offset = o]
      OBVIOUS
    <3> HIDE DEF o, torn_
    <3> QED
      BY <3>1, <3>2, <3>3
  <2> HIDE DEF o, torn_
  <2> QED
    BY <2>1, <2>2, <2>3 DEF Pair
<1>3. \A j \in 1 .. Len(pairs) : (IF j = k THEN torn_(pairs[j]) ELSE pairs[j]) \in Pair
  <2> HIDE DEF torn_
  <2> QED
    BY <1>2
<1>4. Tear(pairs, k) = [j \in 1 .. Len(pairs) |-> IF j = k THEN torn_(pairs[j]) ELSE pairs[j]]
  BY DEF Tear
<1> HIDE DEF torn_
<1>5. Tear(pairs, k) \in [1 .. Len(pairs) -> Pair]
  BY <1>3, <1>4
<1> QED
  BY <1>5

-----------------------------------------------------------------------------
(* The invariant                                                           *)

LEMMA LayoutsAreLayouts ==
    ASSUME NEW l \in Layouts \cup {<<>>}
    PROVE  Layout(l)
<1>1. CASE l = <<>>
  BY <1>1 DEF Layout
<1>2. CASE l \in Layouts
  <2>1. PICK k \in 0 .. MaxRuns : l \in [1 .. k -> Extent]
    BY <1>2 DEF Layouts
  <2>2. l \in Seq(Extent)
    <3>1. k \in Nat
      BY NtfsAssumption
    <3> QED
      BY <2>1, <3>1
  <2> QED
    BY <1>2, <2>2 DEF Layouts, Layout
<1> QED
  BY <1>1, <1>2

LEMMA InductiveInit == Init => Inductive
<1> SUFFICES ASSUME Init PROVE Inductive
  OBVIOUS
<1>1. Layout(layout) /\ layout \in Seq(Extent)
  <2>1. layout \in Layouts \cup {<<>>}
    BY DEF Init
  <2> QED
    BY <2>1, LayoutsAreLayouts DEF Layout
<1>2. attrs \in Seq(Attributes)
  <2>1. PICK k \in 0 .. MaxAttrs : attrs \in [1 .. k -> Attributes]
    BY DEF Init
  <2>2. k \in Nat
    BY NtfsAssumption
  <2> QED
    BY <2>1, <2>2
<1>3. buf \in Seq(Pair) /\ (torn = 0 => buf = Pairs(layout))
  <2>1. Pairs(layout) \in Seq(Pair)
    BY <1>1, PairsFacts
  <2> QED
    BY <2>1, TearFacts DEF Init
<1>4. size \in Nat /\ (Holes = {} /\ layout # <<>> => size \in 1 .. Len(Content))
  <2>1. size \in Sizes
    BY DEF Init
  <2> QED
    BY <1>1, <2>1, SizesFacts
<1>5. i = 1 /\ fileName = NoName /\ dataRuns = <<>> /\ fileSize = 0 /\ data = <<>> /\ pc = "entry"
  BY DEF Init
<1>6. AsWritten
  BY <1>1, <1>2, <1>3, <1>4, <1>5 DEF AsWritten, Layout
<1>7. TypeOK /\ dataRuns \in Seq(DataRun) /\ data \in Seq(Int)
  <2>1. <<>> \in Seq(DataRun) /\ <<>> \in Seq(Int) /\ DOMAIN <<>> = {}
    OBVIOUS
  <2>2. dataRuns \in Seq(DataRun) /\ data \in Seq(Int) /\ DOMAIN dataRuns = {} /\ DOMAIN data = {}
    BY <1>5, <2>1
  <2>3. i \in Nat \ {0} /\ fileSize \in Nat
    <3>1. 1 \in Nat \ {0} /\ 0 \in Nat
      OBVIOUS
    <3> QED
      BY <1>5, <3>1
  <2>4. fileName \in {NoName, "long"}
        /\ pc \in {"entry", "walk", "read", "unread", "crashed", "skipped", "failed", "done"}
    BY <1>5, Zenon
  <2> QED
    BY <2>2, <2>3, <2>4 DEF TypeOK
<1>8. EntrySoFar /\ CrashedAt /\ EntryTaken /\ BytesInOrder /\ WholeSoFar
  BY <1>5 DEF EntrySoFar, CrashedAt, EntryTaken, BytesInOrder, WholeSoFar
<1> QED
  BY <1>5, <1>6, <1>7, <1>8 DEF Inductive

\* The disk and what is known of it stay as they are.
LEMMA SameDisk ==
    ASSUME UNCHANGED disk
    PROVE  /\ layout' = layout /\ attrs' = attrs /\ size' = size
           /\ torn' = torn /\ fixup' = fixup /\ bad' = bad
           /\ Content' = Content /\ Holes' = Holes /\ OwnRuns' = OwnRuns
           /\ Faithful' <=> Faithful
           /\ OwnClusterBad' <=> OwnClusterBad
           /\ \A a : Has(a)' <=> Has(a)
<1>1. /\ layout' = layout /\ attrs' = attrs /\ size' = size
      /\ torn' = torn /\ fixup' = fixup /\ bad' = bad
  BY DEF disk
<1>2. Content' = Content
  BY <1>1 DEF Content
<1>3. Holes' = Holes
  BY <1>1 DEF Holes
<1>4. OwnRuns' = OwnRuns
  BY <1>1 DEF OwnRuns
<1>5. \A a : Has(a)' <=> Has(a)
  BY <1>1 DEF Has, Walked
<1>6. Faithful' <=> Faithful
  BY <1>1, <1>5 DEF Faithful
<1>7. OwnClusterBad' <=> OwnClusterBad
  BY <1>1, <1>3 DEF OwnClusterBad
<1> QED
  BY <1>1, <1>2, <1>3, <1>4, <1>5, <1>6, <1>7

LEMMA AsWrittenStays ==
    ASSUME AsWritten, UNCHANGED <<disk, buf>>, pc \notin {"entry", "unread"}
    PROVE  AsWritten'
BY SameDisk DEF AsWritten

LEMMA ReadEntryStep == Inductive /\ ReadEntry => Inductive'
<1> SUFFICES ASSUME Inductive, ReadEntry PROVE Inductive'
  OBVIOUS
<1>1. /\ UNCHANGED disk /\ pc = "entry" /\ pc' \in {"walk", "unread"}
      /\ i' = i /\ fileName' = fileName /\ dataRuns' = dataRuns /\ fileSize' = fileSize
      /\ data' = data
      /\ buf' = buf \/ buf' = Pairs(layout)
      /\ pc' = "walk" => buf' = IF fixup THEN Pairs(layout) ELSE buf
  BY DEF ReadEntry, ApplyFixup, entry
<1>2. i = 1 /\ fileName = NoName /\ dataRuns = <<>> /\ data = <<>>
  BY <1>1 DEF Inductive, EntrySoFar
<1>3. AsWritten'
  <2>1. layout \in Seq(Extent) /\ buf \in Seq(Pair) /\ (torn = 0 => buf = Pairs(layout))
    BY DEF Inductive, AsWritten
  <2>2. Pairs(layout) \in Seq(Pair)
    BY <2>1, PairsFacts
  <2>3. buf' \in Seq(Pair)
    BY <1>1, <2>1, <2>2
  <2>4. torn = 0 \/ (fixup /\ pc' \notin {"entry", "unread"}) => buf' = Pairs(layout)
    BY <1>1, <2>1
  <2> QED
    BY <1>1, <2>3, <2>4, SameDisk DEF Inductive, AsWritten
<1>4. TypeOK' /\ dataRuns' \in Seq(DataRun) /\ data' \in Seq(Int)
  BY <1>1 DEF Inductive, TypeOK
<1>5. EntrySoFar'
  <2>1. attrs' \in Seq(Attributes) /\ attrs' = attrs
    BY <1>3 DEF AsWritten, disk, ReadEntry
  <2>2. i' = 1 /\ 1 .. i' - 1 = {} /\ i' \in 1 .. Len(attrs') + 1
    BY <1>1, <1>2, <2>1
  <2>3. \A a : ~Seen(a)'
    BY <2>2 DEF Seen
  <2> QED
    BY <1>1, <1>2, <2>2, <2>3 DEF EntrySoFar
<1>6. EntryTaken' /\ CrashedAt' /\ BytesInOrder' /\ WholeSoFar'
      /\ pc' # "read" /\ pc' # "done" /\ pc' # "failed"
  BY <1>1 DEF EntryTaken, CrashedAt, BytesInOrder, WholeSoFar
<1> QED
  BY <1>3, <1>4, <1>5, <1>6 DEF Inductive

LEMMA AttributeStep == Inductive /\ Attribute => Inductive'
<1> SUFFICES ASSUME Inductive, Attribute PROVE Inductive'
  OBVIOUS
<1>1. /\ UNCHANGED disk /\ buf' = buf /\ data' = data /\ pc' = pc
      /\ pc = "walk" /\ i <= Len(attrs) /\ attrs[i] \notin Stops /\ i' = i + 1
      /\ TakeName(attrs[i]) /\ TakeData(attrs[i])
  BY DEF Attribute
<1>2. /\ attrs \in Seq(Attributes) /\ attrs' = attrs /\ size \in Nat
      /\ buf \in Seq(Pair) /\ layout \in Seq(Extent)
      /\ (torn # 0 => fixup) => buf = Pairs(layout)
      /\ (torn # 0 => fixup)' <=> (torn # 0 => fixup)
  BY <1>1, SameDisk DEF Inductive, AsWritten
<1>3. i \in 1 .. Len(attrs) /\ i' \in 1 .. Len(attrs) + 1 /\ attrs[i] \in Attributes
  BY <1>1, <1>2 DEF Inductive, EntrySoFar
<1>4. /\ \A k \in 1 .. i - 1 : attrs[k] \notin Stops
      /\ fileName = IF Seen("long") THEN "long" ELSE NoName
      /\ ~Seen("resident") /\ ~Seen("stream") /\ (torn # 0 => fixup) =>
             IF Seen("own") THEN dataRuns = OwnRuns /\ fileSize = size ELSE dataRuns = <<>>
  BY <1>1 DEF Inductive, EntrySoFar
<1>5. \A a : Seen(a)' <=> Seen(a) \/ attrs[i] = a
  <2>1. 1 .. i' - 1 = (1 .. i - 1) \cup {i}
    BY <1>1, <1>3
  <2> QED
    BY <1>2, <2>1 DEF Seen
<1>6. AsWritten'
  BY <1>1, AsWrittenStays DEF Inductive
<1>7. dataRuns' \in Seq(DataRun) /\ fileSize' \in Nat
  <2>1. DecodeDataRuns(buf) \in Seq(DataRun)
    BY <1>2, DecodedRuns
  <2>2. <<>> \in Seq(DataRun) /\ 0 \in Nat
    OBVIOUS
  <2>3. StreamRuns \in Seq(DataRun) /\ ClusterSize \in Nat
    <3>1. [start |-> 0, count |-> 1] \in DataRun
      BY DEF DataRun
    <3> QED
      BY <3>1, Numbers DEF StreamRuns
  <2>4. dataRuns \in Seq(DataRun) /\ fileSize \in Nat
    BY DEF Inductive, TypeOK
  <2> QED
    BY <1>1, <1>2, <2>1, <2>2, <2>3, <2>4 DEF TakeData
<1>8. fileName' = IF Seen("long")' THEN "long" ELSE NoName
  BY <1>1, <1>4, <1>5 DEF TakeName
<1>9. TypeOK'
  <2>1. i' \in Nat \ {0}
    BY <1>3
  <2>2. \A k \in DOMAIN dataRuns' : dataRuns'[k].start \in Int /\ dataRuns'[k].count \in Nat
    <3>1. \A k \in DOMAIN dataRuns' : dataRuns'[k] \in DataRun
      <4>1. DOMAIN dataRuns' = 1 .. Len(dataRuns')
        BY <1>7
      <4> QED
        BY <1>7, <4>1
    <3> QED
      BY <3>1 DEF DataRun
  <2>3. fileName' \in {NoName, "long"}
    BY <1>8, Zenon
  <2> QED
    BY <1>1, <1>7, <2>1, <2>2, <2>3 DEF Inductive, TypeOK
<1>10. ASSUME ~Seen("resident")', ~Seen("stream")', (torn # 0 => fixup)'
       PROVE  IF Seen("own")' THEN dataRuns' = OwnRuns' /\ fileSize' = size' ELSE dataRuns' = <<>>
  <2>1. ~Seen("resident") /\ ~Seen("stream") /\ attrs[i] # "resident" /\ attrs[i] # "stream"
        /\ (torn # 0 => fixup)
    BY <1>2, <1>5, <1>10
  <2>2. buf = Pairs(layout) /\ OwnRuns = DecodeDataRuns(buf)
    BY <1>2, <2>1 DEF OwnRuns
  <2>3. CASE attrs[i] = "own"
    <3>1. dataRuns' = OwnRuns /\ fileSize' = size
      BY <1>1, <2>2, <2>3 DEF TakeData
    <3> QED
      BY <1>1, <1>5, <2>3, <3>1, SameDisk
  <2>4. CASE attrs[i] # "own"
    <3>1. dataRuns' = dataRuns /\ fileSize' = fileSize
      BY <1>1, <2>1, <2>4 DEF TakeData
    <3> QED
      BY <1>1, <1>4, <1>5, <2>1, <2>4, <3>1, SameDisk
  <2> QED
    BY <2>3, <2>4
<1>11. EntrySoFar'
  <2>1. data' = <<>> /\ pc' = "walk"
    BY <1>1 DEF Inductive, EntrySoFar
  <2>2. \A k \in 1 .. i' - 1 : attrs'[k] \notin Stops
    BY <1>1, <1>2, <1>3, <1>4
  <2> QED
    BY <1>2, <1>3, <1>8, <1>10, <2>1, <2>2 DEF EntrySoFar
<1>12. EntryTaken' /\ CrashedAt' /\ BytesInOrder' /\ WholeSoFar'
       /\ pc' # "read" /\ pc' # "done" /\ pc' # "failed"
  BY <1>1 DEF EntryTaken, CrashedAt, BytesInOrder, WholeSoFar
<1> QED
  BY <1>1, <1>6, <1>7, <1>9, <1>11, <1>12 DEF Inductive

\* Where the walk ends: all it has seen is all it gets to.
LEMMA EndWalkStep == Inductive /\ EndWalk => Inductive'
<1> SUFFICES ASSUME Inductive, EndWalk PROVE Inductive'
  OBVIOUS
<1>1. /\ UNCHANGED disk /\ buf' = buf /\ data' = data /\ pc = "walk"
      /\ fileName' = fileName /\ dataRuns' = dataRuns /\ fileSize' = fileSize
      /\ i' = 1 /\ (i <= Len(attrs) => attrs[i] = "bad")
      /\ pc' = IF fileName = NoName \/ dataRuns = <<>> THEN "skipped" ELSE "read"
  BY DEF EndWalk, entry
<1>2. AsWritten'
  BY <1>1, AsWrittenStays DEF Inductive
<1>3. /\ attrs \in Seq(Attributes) /\ i \in 1 .. Len(attrs) + 1
      /\ \A k \in 1 .. i - 1 : attrs[k] \notin Stops
      /\ fileName = IF Seen("long") THEN "long" ELSE NoName
      /\ ~Seen("resident") /\ ~Seen("stream") /\ (torn # 0 => fixup) =>
             IF Seen("own") THEN dataRuns = OwnRuns /\ fileSize = size ELSE dataRuns = <<>>
      /\ data = <<>>
  BY <1>1 DEF Inductive, AsWritten, EntrySoFar
<1>4. Walked = 1 .. i - 1
  <2>1. ASSUME NEW k \in 1 .. i - 1 PROVE k \in Walked
    BY <1>3 DEF Walked
  <2>2. ASSUME NEW k \in Walked PROVE k \in 1 .. i - 1
    <3>1. k \in 1 .. Len(attrs) /\ \A j \in 1 .. k : attrs[j] \notin Stops
      BY <1>3 DEF Walked
    <3>2. ~(i <= k)
      BY <1>1, <1>3, <3>1 DEF Stops
    <3> QED
      BY <1>3, <3>1, <3>2
  <2> QED
    BY <2>1, <2>2
<1>5. \A a : Has(a) <=> Seen(a)
  BY <1>4 DEF Has, Seen
<1>6. TypeOK' /\ dataRuns' \in Seq(DataRun) /\ data' \in Seq(Int)
  <2>1. i' \in Nat \ {0}
    BY <1>1
  <2>2. pc' \in {"skipped", "read"}
    BY <1>1
  <2> QED
    BY <1>1, <2>1, <2>2 DEF Inductive, TypeOK
<1>7. EntrySoFar' /\ CrashedAt'
  BY <1>1 DEF EntrySoFar, CrashedAt
<1>8. EntryTaken'
  <2>1. fileName' = IF Has("long")' THEN "long" ELSE NoName
    BY <1>1, <1>3, <1>5, SameDisk
  <2>2. Faithful => dataRuns = OwnRuns /\ fileSize = size
    BY <1>3, <1>5 DEF Faithful
  <2>3. Faithful' => dataRuns' = OwnRuns' /\ fileSize' = size'
    BY <1>1, <2>2, SameDisk
  <2>4. (pc' = "skipped") <=> (fileName' = NoName \/ dataRuns' = <<>>)
    BY <1>1
  <2> QED
    BY <2>1, <2>3, <2>4 DEF EntryTaken
<1>9. BytesInOrder'
  <2>1. DOMAIN data' = {}
    BY <1>1, <1>3
  <2> QED
    BY <2>1 DEF BytesInOrder
<1>10. WholeSoFar'
  <2>1. SUFFICES ASSUME pc' = "read", Holes = {} PROVE data' = Joined(layout', i' - 1)
    BY <1>1, SameDisk DEF WholeSoFar
  <2>2. Joined(layout, 0) = <<>>
    BY <2>1, JoinedFacts DEF Inductive, AsWritten
  <2>3. i' - 1 = 0 /\ layout' = layout
    BY <1>1, SameDisk
  <2> QED
    BY <1>1, <1>3, <2>2, <2>3
<1>11. i' <= Len(dataRuns') + 1 /\ pc' # "done" /\ pc' # "failed"
  <2>1. Len(dataRuns) \in Nat
    BY DEF Inductive
  <2> QED
    BY <1>1, <2>1
<1> QED
  BY <1>2, <1>6, <1>7, <1>8, <1>9, <1>10, <1>11 DEF Inductive

\* A panic takes the program with it, at the attribute it comes from.
LEMMA PanicStep == Inductive /\ Panic => Inductive'
<1> SUFFICES ASSUME Inductive, Panic PROVE Inductive'
  OBVIOUS
<1>1. /\ UNCHANGED disk /\ buf' = buf /\ data' = data /\ pc = "walk" /\ pc' = "crashed"
      /\ fileName' = fileName /\ dataRuns' = dataRuns /\ fileSize' = fileSize
      /\ i' = i /\ i <= Len(attrs) /\ attrs[i] = "short"
  BY DEF Panic, entry
<1>2. AsWritten'
  BY <1>1, AsWrittenStays DEF Inductive
<1>3. TypeOK' /\ dataRuns' \in Seq(DataRun) /\ data' \in Seq(Int)
  BY <1>1 DEF Inductive, TypeOK
<1>4. CrashedAt'
  <2>1. i \in 1 .. Len(attrs) + 1 /\ \A k \in 1 .. i - 1 : attrs[k] \notin Stops
    BY <1>1 DEF Inductive, EntrySoFar
  <2>2. attrs \in Seq(Attributes)
    BY DEF Inductive, AsWritten
  <2>3. i \in DOMAIN attrs
    BY <1>1, <2>1, <2>2
  <2> QED
    BY <1>1, <2>1, <2>3, SameDisk DEF CrashedAt
<1>5. EntrySoFar' /\ EntryTaken' /\ BytesInOrder' /\ WholeSoFar'
      /\ pc' # "read" /\ pc' # "done" /\ pc' # "failed"
  BY <1>1 DEF EntrySoFar, EntryTaken, BytesInOrder, WholeSoFar
<1> QED
  BY <1>2, <1>3, <1>4, <1>5 DEF Inductive

\* One more run is read: its bytes come after those of the runs before it.
LEMMA ReadRunStep == Inductive /\ ReadRun => Inductive'
<1> SUFFICES ASSUME Inductive, ReadRun PROVE Inductive'
  OBVIOUS
<1> DEFINE run == dataRuns[i]
           bytes == BytesOf(run.start, Readable(run))
           old == Len(data)
<1>1. /\ UNCHANGED disk /\ buf' = buf /\ pc = "read" /\ pc' = pc
      /\ fileName' = fileName /\ dataRuns' = dataRuns /\ fileSize' = fileSize
      /\ i <= Len(dataRuns) /\ i' = i + 1
      /\ data' = data \o bytes
  BY DEF ReadRun, entry
<1>2. /\ dataRuns \in Seq(DataRun) /\ data \in Seq(Int) /\ i \in Nat \ {0} /\ AsWritten
      /\ layout \in Seq(Extent)
  BY DEF Inductive, TypeOK, AsWritten
<1>3. i \in 1 .. Len(dataRuns) /\ DOMAIN dataRuns = 1 .. Len(dataRuns) /\ run \in DataRun
  BY <1>1, <1>2
<1>4. /\ bytes \in Seq(Int)
      /\ \A k \in 1 .. Len(bytes) :
             Within(bytes[k], run) /\ bytes[k] \in DeviceBytes
      /\ \A k, m \in 1 .. Len(bytes) : k < m => bytes[k] < bytes[m]
  <2> HIDE DEF run
  <2> QED
    BY <1>3, ReadBytes DEF Within
<1> HIDE DEF run, bytes
<1>5. /\ data' \in Seq(Int) /\ DOMAIN data' = 1 .. old + Len(bytes) /\ DOMAIN data = 1 .. old
      /\ old \in Nat /\ Len(bytes) \in Nat
      /\ \A m \in 1 .. old : data'[m] = data[m]
      /\ \A m \in 1 .. old + Len(bytes) : m > old =>
             m - old \in 1 .. Len(bytes) /\ data'[m] = bytes[m - old]
  BY <1>1, <1>2, <1>4
<1>6. AsWritten'
  BY <1>1, <1>2, AsWrittenStays
<1>7. TypeOK'
  <2>1. \A k \in DOMAIN data' : data'[k] \in DeviceBytes
    <3> SUFFICES ASSUME NEW k \in DOMAIN data' PROVE data'[k] \in DeviceBytes
      OBVIOUS
    <3>1. CASE k <= old
      <4>1. k \in DOMAIN data /\ data'[k] = data[k]
        BY <1>5, <3>1
      <4> QED
        BY <4>1 DEF Inductive, TypeOK
    <3>2. CASE k > old
      <4>1. k - old \in 1 .. Len(bytes) /\ data'[k] = bytes[k - old]
        BY <1>5, <3>2
      <4> QED
        BY <1>4, <4>1
    <3> QED
      BY <1>5, <3>1, <3>2
  <2>2. i' \in Nat \ {0}
    BY <1>1, <1>2
  <2> QED
    BY <1>1, <2>1, <2>2 DEF Inductive, TypeOK
<1>8. EntrySoFar' /\ CrashedAt' /\ EntryTaken'
  BY <1>1, SameDisk DEF Inductive, EntrySoFar, CrashedAt, EntryTaken
<1>9. BytesInOrder'
  <2> SUFFICES ASSUME Faithful' PROVE BytesInOrder'
    BY DEF BytesInOrder
  <2>1. Faithful /\ dataRuns = OwnRuns
    BY <1>1, SameDisk DEF Inductive, EntryTaken
  <2>2. \A a, b \in DOMAIN dataRuns : \A x :
            Within(x, dataRuns[a]) /\ Within(x, dataRuns[b]) => a = b
    <3>1. OwnFacts(OwnRuns)
      BY <1>2, OwnRunsFacts DEF AsWritten, Layout
    <3> QED
      BY <2>1, <3>1 DEF OwnFacts
  <2>3. /\ \A m \in DOMAIN data : \E k \in 1 .. i - 1 : Within(data[m], dataRuns[k])
        /\ \A m, n \in DOMAIN data : m < n =>
               \A j, k \in DOMAIN dataRuns :
                   Within(data[m], dataRuns[j]) /\ Within(data[n], dataRuns[k]) =>
                       j < k \/ (j = k /\ data[m] < data[n])
    BY <1>1, <2>1 DEF Inductive, BytesInOrder, InDataRun, Within
  <2>4. ASSUME NEW m \in DOMAIN data' PROVE \E k \in 1 .. i : Within(data'[m], dataRuns[k])
    <3>1. CASE m <= old
      <4>1. PICK k \in 1 .. i - 1 : Within(data[m], dataRuns[k])
        BY <1>5, <2>3, <3>1
      <4>2. k \in 1 .. i
        BY <1>3
      <4>3. data'[m] = data[m]
        BY <1>5, <3>1
      <4> QED
        BY <4>1, <4>2, <4>3
    <3>2. CASE m > old
      <4>1. m - old \in 1 .. Len(bytes) /\ data'[m] = bytes[m - old]
        BY <1>5, <3>2
      <4>2. Within(data'[m], dataRuns[i])
        BY <1>4, <4>1 DEF run
      <4> QED
        BY <1>3, <4>2
    <3> QED
      BY <1>5, <3>1, <3>2
  <2>5. ASSUME NEW m \in DOMAIN data', NEW n \in DOMAIN data', m < n,
               NEW j \in DOMAIN dataRuns, NEW k \in DOMAIN dataRuns,
               Within(data'[m], dataRuns[j]), Within(data'[n], dataRuns[k])
        PROVE  j < k \/ (j = k /\ data'[m] < data'[n])
    <3>1. CASE n <= old
      <4>1. m \in DOMAIN data /\ n \in DOMAIN data /\ data'[m] = data[m] /\ data'[n] = data[n]
        BY <1>5, <2>5, <3>1
      <4> QED
        BY <2>3, <2>5, <4>1
    <3>2. CASE n > old
      <4>1. n - old \in 1 .. Len(bytes) /\ data'[n] = bytes[n - old]
        BY <1>5, <3>2
      <4>2. Within(data'[n], dataRuns[i])
        BY <1>4, <4>1 DEF run
      <4>3. k = i
        BY <1>3, <2>2, <2>5, <4>2
      <4>4. CASE m <= old
        <5>1. m \in DOMAIN data /\ data'[m] = data[m]
          BY <1>5, <4>4
        <5>2. PICK a \in 1 .. i - 1 : Within(data[m], dataRuns[a])
          BY <2>3, <5>1
        <5>3. a \in DOMAIN dataRuns /\ a < i
          BY <1>3
        <5>4. j = a
          BY <2>2, <2>5, <5>1, <5>2, <5>3
        <5> QED
          BY <4>3, <5>3, <5>4
      <4>5. CASE m > old
        <5>1. m - old \in 1 .. Len(bytes) /\ data'[m] = bytes[m - old]
          BY <1>5, <4>5
        <5>2. Within(data'[m], dataRuns[i])
          BY <1>4, <5>1 DEF run
        <5>3. j = i
          BY <1>3, <2>2, <2>5, <5>2
        <5>4. data'[m] < data'[n]
          <6>1. m - old < n - old
            <7>1. m \in Int /\ n \in Int /\ old \in Int
              BY <1>5
            <7> QED
              BY <2>5, <7>1
          <6>2. bytes[m - old] < bytes[n - old]
            BY <1>4, <4>1, <5>1, <6>1
          <6> QED
            BY <4>1, <5>1, <6>2
        <5> QED
          BY <4>3, <5>3, <5>4
      <4> QED
        BY <1>5, <4>4, <4>5
    <3> QED
      BY <1>5, <3>1, <3>2
  <2>6. i' - 1 = i
    BY <1>1, <1>3
  <2>7. \A m \in DOMAIN data' : \E k \in 1 .. i' - 1 : Within(data'[m], dataRuns'[k])
    BY <1>1, <2>4, <2>6
  <2>8. \A m, n \in DOMAIN data' : m < n =>
            \A j, k \in DOMAIN dataRuns' :
                Within(data'[m], dataRuns'[j]) /\ Within(data'[n], dataRuns'[k]) =>
                    j < k \/ (j = k /\ data'[m] < data'[n])
    BY <1>1, <2>5
  <2> QED
    BY <2>7, <2>8 DEF BytesInOrder, InDataRun, Within
<1>10. WholeSoFar'
  <2> SUFFICES ASSUME Faithful, Holes = {}, ~OwnClusterBad PROVE data' = Joined(layout, i' - 1)
    BY <1>1, SameDisk DEF WholeSoFar
  <2>1. dataRuns = layout
    <3>1. OwnFacts(OwnRuns) /\ dataRuns = OwnRuns
      BY <1>1, <1>2, OwnRunsFacts DEF AsWritten, Layout, Inductive, EntryTaken
    <3> QED
      BY <3>1 DEF OwnFacts
  <2>2. Readable(run) = run.count
    <3>1. run \in Extent /\ i \in DOMAIN layout \ Holes /\ run = layout[i] /\ run.start # Hole
      BY <1>2, <1>3, <2>1 DEF run, Holes
    <3>2. run.start \in 0 .. Clusters - 1 /\ run.start + run.count <= Clusters
          /\ run.count \in Nat
      BY <3>1, RunFacts
    <3>3. \A c \in run.start .. run.start + run.count - 1 : c \notin bad
      BY <3>1 DEF OwnClusterBad
    <3> DEFINE r == Readable(run)
    <3>4. r \in 0 .. run.count
          /\ (r = run.count \/ run.start + r \in bad \/ run.start + r \notin Device)
      BY <1>3, ReadableFacts
    <3> HIDE DEF r
    <3>5. r < run.count => run.start + r \in run.start .. run.start + run.count - 1
                           /\ run.start + r \in Device
      BY <3>2, <3>4, Numbers, NtfsAssumption DEF Device
    <3>6. r = run.count
      BY <3>2, <3>3, <3>4, <3>5
    <3> QED
      BY <3>6 DEF r
  <2>3. data = Joined(layout, i - 1)
    BY <1>1 DEF Inductive, WholeSoFar
  <2>4. Joined(layout, i) =
            Joined(layout, i - 1) \o BytesOf(layout[i].start, layout[i].count)
    BY <1>2, <1>3, <2>1, JoinedFacts
  <2>5. i' - 1 = i
    BY <1>1, <1>3
  <2> QED
    BY <1>1, <2>1, <2>2, <2>3, <2>4, <2>5 DEF run, bytes
<1>11. i' <= Len(dataRuns') + 1 /\ pc' # "done" /\ pc' # "failed"
  BY <1>1, <1>3
<1> QED
  BY <1>1, <1>2, <1>5, <1>6, <1>7, <1>8, <1>9, <1>10, <1>11 DEF Inductive

LEMMA RunFailsStep == Inductive /\ RunFails => Inductive'
<1> SUFFICES ASSUME Inductive, RunFails PROVE Inductive'
  OBVIOUS
<1>1. /\ UNCHANGED disk /\ buf' = buf /\ pc = "read" /\ pc' = "failed"
      /\ fileName' = fileName /\ dataRuns' = dataRuns /\ fileSize' = fileSize
      /\ i <= Len(dataRuns) /\ i' = i /\ data' = data
      /\ Readable(dataRuns[i]) = 0
  BY DEF RunFails, entry
<1>2. /\ dataRuns \in Seq(DataRun) /\ i \in Nat \ {0} /\ AsWritten /\ layout \in Seq(Extent)
  BY DEF Inductive, TypeOK, AsWritten
<1>3. AsWritten'
  BY <1>1, <1>2, AsWrittenStays
<1>4. TypeOK' /\ dataRuns' \in Seq(DataRun) /\ data' \in Seq(Int)
  BY <1>1 DEF Inductive, TypeOK
<1>5. EntrySoFar' /\ CrashedAt' /\ EntryTaken'
  BY <1>1, SameDisk DEF Inductive, EntrySoFar, CrashedAt, EntryTaken
<1>6. BytesInOrder' /\ WholeSoFar'
  BY <1>1 DEF BytesInOrder, WholeSoFar
<1>7. ASSUME Faithful PROVE OwnClusterBad
  <2>1. i \in DOMAIN dataRuns /\ dataRuns[i] \in DataRun
    BY <1>1, <1>2
  <2>2. PICK m : Places(dataRuns, m)
    <3>1. OwnFacts(OwnRuns) /\ dataRuns = OwnRuns
      BY <1>1, <1>2, <1>7, OwnRunsFacts DEF AsWritten, Layout, Inductive, EntryTaken
    <3> QED
      BY <3>1 DEF OwnFacts
  <2>3. m[i] \in DOMAIN layout \ Holes /\ dataRuns[i] = layout[m[i]] /\ layout[m[i]].start # Hole
        /\ layout[m[i]] \in Extent
    <3>1. m[i] \in DOMAIN layout /\ dataRuns[i] = layout[m[i]] /\ layout[m[i]].start # Hole
      BY <1>2, <2>1, <2>2 DEF Places
    <3>2. layout[m[i]] \in Extent
      BY <1>2, <3>1
    <3> QED
      BY <3>1, <3>2 DEF Holes
  <2> DEFINE run == layout[m[i]]
  <2>4. run.start \in 0 .. Clusters - 1 /\ run.count \in Nat \ {0}
    BY <2>3, RunFacts
  <2>5. 0 = run.count \/ run.start + 0 \in bad \/ run.start + 0 \notin Device
    BY <1>1, <2>1, <2>3, ReadableFacts
  <2> HIDE DEF run
  <2>6. run.start \in bad /\ run.start \in run.start .. run.start + run.count - 1
    BY <2>4, <2>5, Numbers, NtfsAssumption DEF Device
  <2> QED
    BY <2>3, <2>6 DEF OwnClusterBad, run
<1>8. pc' # "read" /\ pc' # "done" /\ (Faithful' => OwnClusterBad')
  BY <1>1, <1>7, SameDisk
<1> QED
  BY <1>3, <1>4, <1>5, <1>6, <1>8 DEF Inductive

\* What is cut off at the end is cut off behind the file's last byte.
LEMMA TrimmedFacts ==
    ASSUME data \in Seq(Int), fileSize \in Nat
    PROVE  /\ Trimmed \in Seq(Int) /\ DOMAIN Trimmed \subseteq DOMAIN data
           /\ \A m \in DOMAIN Trimmed : Trimmed[m] = data[m]
           /\ fileSize \in 1 .. Len(data) => Trimmed = SubSeq(data, 1, fileSize)
<1> DEFINE n == Least(Len(data), fileSize)
<1>1. Len(data) \in Nat /\ n \in 0 .. Len(data) /\ (fileSize \in 1 .. Len(data) => n = fileSize)
  BY DEF Least
<1>2. Trimmed = IF fileSize > 0 THEN SubSeq(data, 1, n) ELSE data
  BY DEF Trimmed
<1> HIDE DEF n
<1>3. SubSeq(data, 1, n) \in Seq(Int) /\ DOMAIN SubSeq(data, 1, n) = 1 .. n
      /\ \A m \in 1 .. n : SubSeq(data, 1, n)[m] = data[m]
  <2>1. \A m \in 1 .. n : data[m] \in Int
    BY <1>1
  <2> QED
    BY <1>1, <2>1
<1>4. DOMAIN data = 1 .. Len(data) /\ 1 .. n \subseteq 1 .. Len(data)
  BY <1>1
<1>5. CASE fileSize > 0
  <2>1. Trimmed = SubSeq(data, 1, n)
    BY <1>2, <1>5
  <2> QED
    BY <1>1, <1>3, <1>4, <2>1
<1>6. CASE ~(fileSize > 0)
  <2>1. Trimmed = data /\ fileSize \notin 1 .. Len(data)
    BY <1>2, <1>6
  <2> QED
    BY <2>1
<1> QED
  BY <1>5, <1>6

LEMMA EndFileStep == Inductive /\ EndFile => Inductive'
<1> SUFFICES ASSUME Inductive, EndFile PROVE Inductive'
  OBVIOUS
<1>1. /\ UNCHANGED disk /\ buf' = buf /\ pc = "read" /\ pc' = "done"
      /\ fileName' = fileName /\ dataRuns' = dataRuns /\ fileSize' = fileSize
      /\ i > Len(dataRuns) /\ i' = i /\ data' = Trimmed
  BY DEF EndFile, entry
<1>2. /\ dataRuns \in Seq(DataRun) /\ i \in Nat \ {0} /\ AsWritten /\ layout \in Seq(Extent)
      /\ data \in Seq(Int) /\ fileSize \in Nat /\ i <= Len(dataRuns) + 1
  BY <1>1 DEF Inductive, TypeOK, AsWritten
<1>3. AsWritten'
  BY <1>1, <1>2, AsWrittenStays
<1>4. /\ Trimmed \in Seq(Int) /\ DOMAIN Trimmed \subseteq DOMAIN data
      /\ \A m \in DOMAIN Trimmed : Trimmed[m] = data[m]
      /\ fileSize \in 1 .. Len(data) => Trimmed = SubSeq(data, 1, fileSize)
  BY <1>2, TrimmedFacts
<1>5. TypeOK' /\ dataRuns' \in Seq(DataRun) /\ data' \in Seq(Int)
  <2>1. \A k \in DOMAIN Trimmed : Trimmed[k] \in DeviceBytes
    BY <1>4 DEF Inductive, TypeOK
  <2> HIDE DEF Trimmed
  <2> QED
    BY <1>1, <1>4, <2>1 DEF Inductive, TypeOK
<1>6. EntrySoFar' /\ CrashedAt' /\ EntryTaken'
  BY <1>1, SameDisk DEF Inductive, EntrySoFar, CrashedAt, EntryTaken
<1>7. BytesInOrder'
  <2> SUFFICES ASSUME Faithful' PROVE BytesInOrder'
    BY DEF BytesInOrder
  <2>1. /\ \A m \in DOMAIN data : \E k \in 1 .. i - 1 : InDataRun(data[m], k)
        /\ \A m, n \in DOMAIN data : m < n =>
               \A j, k \in DOMAIN dataRuns :
                   InDataRun(data[m], j) /\ InDataRun(data[n], k) =>
                       j < k \/ (j = k /\ data[m] < data[n])
    BY <1>1, SameDisk DEF Inductive, BytesInOrder
  <2>2. /\ \A m \in DOMAIN Trimmed : \E k \in 1 .. i - 1 : InDataRun(Trimmed[m], k)
        /\ \A m, n \in DOMAIN Trimmed : m < n =>
               \A j, k \in DOMAIN dataRuns :
                   InDataRun(Trimmed[m], j) /\ InDataRun(Trimmed[n], k) =>
                       j < k \/ (j = k /\ Trimmed[m] < Trimmed[n])
    BY <1>4, <2>1
  <2>3. \A b, k : InDataRun(b, k)' <=> InDataRun(b, k)
    BY <1>1 DEF InDataRun
  <2> QED
    BY <1>1, <2>2 DEF BytesInOrder, InDataRun
<1>8. WholeSoFar'
  <2> SUFFICES ASSUME Faithful, Holes = {}, ~OwnClusterBad PROVE data' = SubSeq(Content, 1, size)
    BY <1>1, SameDisk DEF WholeSoFar
  <2>1. dataRuns = layout /\ fileSize = size
    <3>1. OwnFacts(OwnRuns) /\ dataRuns = OwnRuns /\ fileSize = size
      BY <1>1, <1>2, OwnRunsFacts DEF AsWritten, Layout, Inductive, EntryTaken
    <3> QED
      BY <3>1 DEF OwnFacts
  <2>2. i - 1 = Len(layout)
    BY <1>1, <1>2, <2>1
  <2>3. data = Joined(layout, i - 1)
    BY <1>1 DEF Inductive, WholeSoFar
  <2>4. data = Content
    BY <1>2, <2>2, <2>3, JoinedFacts
  <2>5. layout # <<>>
    BY <1>1, <2>1 DEF Inductive, EntryTaken
  <2>6. size \in 1 .. Len(Content)
    BY <1>2, <2>5 DEF AsWritten
  <2> QED
    BY <1>1, <1>4, <2>1, <2>4, <2>6
<1>9. i' = Len(dataRuns') + 1 /\ pc' # "read" /\ pc' # "failed"
  BY <1>1, <1>2
<1> QED
  BY <1>3, <1>5, <1>6, <1>7, <1>8, <1>9 DEF Inductive

LEMMA InductiveStep == Inductive /\ [Next]_vars => Inductive'
<1> SUFFICES ASSUME Inductive, [Next]_vars PROVE Inductive'
  OBVIOUS
<1>1. CASE UNCHANGED vars
  <2>1. /\ UNCHANGED disk /\ buf' = buf /\ pc' = pc /\ i' = i /\ data' = data
        /\ fileName' = fileName /\ dataRuns' = dataRuns /\ fileSize' = fileSize
    BY <1>1 DEF vars, entry
  <2>2. AsWritten'
    BY <2>1, SameDisk DEF Inductive, AsWritten
  <2>3. \A b, k : InDataRun(b, k)' <=> InDataRun(b, k)
    BY <2>1 DEF InDataRun
  <2>4. \A a : Seen(a)' <=> Seen(a)
    BY <2>1, SameDisk DEF Seen
  <2>5. TypeOK' /\ EntrySoFar' /\ CrashedAt' /\ EntryTaken'
    BY <2>1, <2>4, SameDisk DEF Inductive, TypeOK, EntrySoFar, CrashedAt, EntryTaken
  <2>6. BytesInOrder' /\ WholeSoFar'
    BY <2>1, <2>3, SameDisk DEF Inductive, BytesInOrder, WholeSoFar
  <2>7. /\ dataRuns' \in Seq(DataRun) /\ data' \in Seq(Int)
        /\ pc' = "read" => i' <= Len(dataRuns') + 1
        /\ pc' = "done" => i' = Len(dataRuns') + 1
        /\ pc' = "failed" /\ Faithful' => OwnClusterBad'
    BY <2>1, SameDisk DEF Inductive
  <2> QED
    BY <2>2, <2>5, <2>6, <2>7 DEF Inductive
<1> QED
  BY <1>1, ReadEntryStep, AttributeStep, EndWalkStep, PanicStep, ReadRunStep, RunFailsStep, EndFileStep
  DEF Next

LEMMA InductiveHolds == Spec => []Inductive
BY InductiveInit, InductiveStep, PTL DEF Spec

\* What the invariant says of the file that comes out.
LEMMA InductiveImplies == Inductive => FileRecovered /\ NothingForeign /\ LostForCause
<1> SUFFICES ASSUME Inductive PROVE FileRecovered /\ NothingForeign /\ LostForCause
  OBVIOUS
<1>1. Layout(layout) /\ layout \in Seq(Extent)
  BY DEF Inductive, AsWritten, Layout
<1>2. NoName # "long"
  BY DEF NoName
<1>3. FileRecovered
  <2> SUFFICES ASSUME pc = "done", Faithful, Holes = {}, ~OwnClusterBad
               PROVE  data = SubSeq(Content, 1, size) /\ fileName = "long"
    BY DEF FileRecovered
  <2>1. data = SubSeq(Content, 1, size)
    BY DEF Inductive, WholeSoFar
  <2>2. fileName = "long"
    BY DEF Inductive, EntryTaken
  <2> QED
    BY <2>1, <2>2
<1>4. LostForCause
  <2> SUFFICES ASSUME Faithful
               PROVE  /\ pc = "crashed" => \E k \in DOMAIN attrs : TooShort(k)
                      /\ pc = "skipped" => ~Has("long") \/ Holes = DOMAIN layout
                      /\ pc = "failed" => OwnClusterBad
    BY DEF LostForCause
  <2>1. ASSUME pc = "skipped", Has("long") PROVE Holes = DOMAIN layout
    <3>1. dataRuns = <<>> /\ dataRuns = OwnRuns
      BY <1>2, <2>1 DEF Inductive, EntryTaken
    <3>2. PICK m : Places(dataRuns, m)
      BY <1>1, <3>1, OwnRunsFacts DEF OwnFacts
    <3>3. DOMAIN layout \ Holes = {}
      <4>1. DOMAIN dataRuns = {}
        BY <3>1
      <4> QED
        BY <3>2, <4>1 DEF Places
    <3> QED
      BY <3>3 DEF Holes
  <2>2. pc = "failed" => OwnClusterBad
    BY DEF Inductive
  <2>3. pc = "crashed" => \E k \in DOMAIN attrs : TooShort(k)
    BY DEF Inductive, CrashedAt, TooShort
  <2> QED
    BY <2>1, <2>2, <2>3
<1>5. NothingForeign
  <2> SUFFICES ASSUME pc \in {"read", "done"}, Faithful
               PROVE  /\ \A x \in DOMAIN data : \E k \in DOMAIN layout : InRun(data[x], k)
                      /\ \A x, y \in DOMAIN data : x < y =>
                             \A j, k \in DOMAIN layout :
                                 InRun(data[x], j) /\ InRun(data[y], k) =>
                                     j < k \/ (j = k /\ data[x] < data[y])
    BY DEF NothingForeign
  <2>1. /\ \A x \in DOMAIN data : \E k \in 1 .. i - 1 : Within(data[x], dataRuns[k])
        /\ \A x, y \in DOMAIN data : x < y =>
               \A j, k \in DOMAIN dataRuns :
                   Within(data[x], dataRuns[j]) /\ Within(data[y], dataRuns[k]) =>
                       j < k \/ (j = k /\ data[x] < data[y])
    BY DEF Inductive, BytesInOrder, InDataRun, Within
  <2>2. PICK m : Places(dataRuns, m)
    <3>1. dataRuns = OwnRuns
      BY DEF Inductive, EntryTaken
    <3> QED
      BY <1>1, <3>1, OwnRunsFacts DEF OwnFacts
  <2>3. \A b : \A k \in DOMAIN layout :
            InRun(b, k) <=> k \in DOMAIN layout \ Holes /\ Within(b, layout[k])
    BY DEF InRun, Within, Holes
  <2>4. 1 .. i - 1 \subseteq DOMAIN dataRuns
    <3>1. dataRuns \in Seq(DataRun) /\ i \in Nat \ {0} /\ i <= Len(dataRuns) + 1
      BY DEF Inductive, TypeOK
    <3> QED
      BY <3>1
  <2>5. ASSUME NEW x \in DOMAIN data PROVE \E k \in DOMAIN layout : InRun(data[x], k)
    <3>1. PICK k \in DOMAIN dataRuns : Within(data[x], dataRuns[k])
      BY <2>1, <2>4
    <3>2. m[k] \in DOMAIN layout /\ dataRuns[k] = layout[m[k]] /\ layout[m[k]].start # Hole
      <4>1. DOMAIN dataRuns = 1 .. Len(dataRuns)
        BY DEF Inductive
      <4> QED
        BY <2>2, <4>1 DEF Places
    <3> QED
      BY <3>1, <3>2 DEF InRun, Within
  <2>6. ASSUME NEW x \in DOMAIN data, NEW y \in DOMAIN data, x < y,
               NEW j \in DOMAIN layout, NEW k \in DOMAIN layout,
               InRun(data[x], j), InRun(data[y], k)
        PROVE  j < k \/ (j = k /\ data[x] < data[y])
    <3>1. PICK a \in DOMAIN dataRuns : m[a] = j
      BY <2>2, <2>3, <2>6 DEF Places
    <3>2. PICK b \in DOMAIN dataRuns : m[b] = k
      BY <2>2, <2>3, <2>6 DEF Places
    <3>3. Within(data[x], dataRuns[a]) /\ Within(data[y], dataRuns[b])
      BY <2>2, <2>3, <2>6, <3>1, <3>2 DEF Places
    <3>4. a < b \/ (a = b /\ data[x] < data[y])
      BY <2>1, <2>6, <3>3
    <3> QED
      BY <2>2, <3>1, <3>2, <3>4 DEF Places
  <2> QED
    BY <2>5, <2>6
<1> QED
  BY <1>3, <1>4, <1>5

-----------------------------------------------------------------------------
(* The properties of the runs                                              *)

\* The entry, its runs and the bytes read keep their types: no byte lies outside
\* the device, whatever the pairs say.
THEOREM NtfsTypes == Spec => []TypeOK
<1>1. Inductive => TypeOK
  BY DEF Inductive
<1> QED
  BY <1>1, InductiveHolds, PTL

\* A file without holes whose clusters can all be read is recovered byte for
\* byte, cut to its size, under its long name.
THEOREM NtfsRecoversFile == Spec => []FileRecovered
<1>1. Inductive => FileRecovered
  BY InductiveImplies
<1> QED
  BY <1>1, InductiveHolds, PTL

\* Whatever is recovered of an entry that is not distorted is the file's own,
\* each byte once and in its order.
THEOREM NtfsNothingForeign == Spec => []NothingForeign
<1>1. Inductive => NothingForeign
  BY InductiveImplies
<1> QED
  BY <1>1, InductiveHolds, PTL

\* An entry is passed over for want of a name or of data, a file given up for a
\* cluster of its own that cannot be read, and the run lost to a panic for an
\* attribute that is too short.
THEOREM NtfsLostForCause == Spec => []LostForCause
<1>1. Inductive => LostForCause
  BY InductiveImplies
<1> QED
  BY <1>1, InductiveHolds, PTL

=============================================================================
