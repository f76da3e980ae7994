-------------------------- MODULE Ext4ParserProofs --------------------------
(***************************************************************************)
(* For every journal, however long and however its records share blocks:   *)
(* the two passes together deliver each usable copy once and nothing else, *)
(* by themselves and behind the walk through the inode tables.  For every  *)
(* layout of groups: that walk delivers each deleted inode of the tables   *)
(* it can read once, under its number.  For every file, with a tree of any *)
(* height that is followed or with pointers of all levels: what is handed  *)
(* over of it is its own, in its order, and short of nothing but what one  *)
(* bad block costs.                                                        *)
(*                                                                         *)
(* The first two parts need no more than the state; the third rests on     *)
(* what RecoverInodeData gives of a file that does not change: where its   *)
(* blocks lie, what is read of some of them, what the nodes of its tree    *)
(* or its indirect blocks lead to, and what is lost to a fault.            *)
(***************************************************************************)
EXTENDS Ext4Parser, SequenceLemmas, FiniteSetTheorems, TLAPS

-----------------------------------------------------------------------------
(* The inductive invariant.                                                *)

Passes == {"superblock", "walk", "open", "records", "blocks", "deliver", "done", "failed"}

Calls == [number : Nat, record : Nat]

\* The first pass leaves no record out: it ends where the journal does.
Passed(n) ==
    /\ DOMAIN journal = 0 .. n - 1
    /\ pos \in Nat
    /\ pass = "records" => pos <= n

\* A number is the position of the record it stands for: this is what makes the
\* second pass find again what the first has found, and nothing else.
FoundAtPosition ==
    \A k \in DOMAIN found : k \in DOMAIN journal /\ found[k] = k /\ Usable(k)

UsableFound ==
    \A r \in DOMAIN journal :
        /\ Usable(r)
        /\ \/ pass = "records" /\ r < pos
           \/ pass \in {"blocks", "deliver", "done"}
        =>
            r \in DOMAIN found

CalledOnce ==
    /\ delivered \in Seq(Calls)
    /\ \A i \in DOMAIN delivered :
           delivered[i].record = delivered[i].number /\ delivered[i].number \in DOMAIN found
    /\ \A i, j \in DOMAIN delivered : delivered[i].number = delivered[j].number => i = j

BeforeJournal == pass \in {"superblock", "walk", "open"} => pos = 0

\* Records keep their block areas.
Recorded == \A r \in DOMAIN journal : journal[r].blocks \in Areas

Inductive ==
    /\ pass \in Passes /\ Recorded
    /\ \E n \in Nat : Passed(n)
    /\ FoundAtPosition /\ UsableFound /\ CalledOnce /\ BeforeJournal
    /\ pass = "done" => Undelivered = {}

-----------------------------------------------------------------------------
\* A pass that has not begun has found and handed over nothing.
LEMMA StartInductive ==
    ASSUME NEW n \in Nat, DOMAIN journal = 0 .. n - 1, Recorded, NothingFound,
           pass \in {"superblock", "open"}
    PROVE  Inductive
<1>1. pos = 0 /\ DOMAIN found = {} /\ delivered = <<>>
  BY DEF NothingFound
<1>2. delivered \in Seq(Calls) /\ DOMAIN delivered = {}
  BY <1>1
<1> QED
  BY <1>1, <1>2 DEF Inductive, Passes, Passed, FoundAtPosition, UsableFound, CalledOnce, BeforeJournal

\* Looking at a record keeps the invariant: what is kept is at its position and usable.
LEMMA LookStep ==
    ASSUME Inductive, Look
    PROVE  Inductive'
<1>1. /\ pass \in {"records", "blocks"} /\ pos \in DOMAIN journal /\ Keep(pos)
      /\ pos' = pos + 1 /\ UNCHANGED <<journal, pass, delivered>>
  BY DEF Look
<1>2. PICK n \in Nat : DOMAIN journal = 0 .. n - 1 /\ pos \in Nat /\ (pass = "records" => pos <= n)
  BY DEF Inductive, Passed
<1>3. FoundAtPosition /\ UsableFound /\ CalledOnce
  BY DEF Inductive
<1>4. /\ DOMAIN found \subseteq DOMAIN found' /\ DOMAIN found' \subseteq DOMAIN found \cup {pos}
      /\ pos \in DOMAIN found' /\ pos \notin DOMAIN found => Usable(pos)
      /\ Usable(pos) => pos \in DOMAIN found'
      /\ \A k \in DOMAIN found' : found'[k] = k
  BY <1>1, <1>3 DEF Keep, Wins, SyntheticNum, FoundAtPosition
<1>5. FoundAtPosition'
  BY <1>1, <1>3, <1>4 DEF FoundAtPosition, Usable
<1>6. UsableFound'
  BY <1>1, <1>2, <1>3, <1>4 DEF UsableFound, Usable
<1>7. CalledOnce'
  BY <1>1, <1>3, <1>4 DEF CalledOnce
<1>8. Passed(n)' /\ Recorded'
  BY <1>1, <1>2 DEF Passed, Inductive, Recorded
<1> QED
  BY <1>1, <1>5, <1>6, <1>7, <1>8 DEF Inductive, BeforeJournal, Passes

\* Handing a copy over adds its number to the calls.
LEMMA DeliverStep ==
    ASSUME Inductive, Deliver
    PROVE  Inductive'
<1>1. pass = "deliver" /\ UNCHANGED <<journal, pass, pos, found>>
  BY DEF Deliver
<1>2. PICK k \in Undelivered : delivered' = Append(delivered, [number |-> k, record |-> found[k]])
  BY DEF Deliver
<1>3. FoundAtPosition /\ UsableFound /\ CalledOnce
  BY DEF Inductive
<1>4. PICK n \in Nat : Passed(n)
  BY DEF Inductive
<1>5. k \in DOMAIN found /\ found[k] = k /\ k \in Nat
      /\ \A i \in DOMAIN delivered : delivered[i].number # k
  BY <1>2, <1>3, <1>4 DEF Undelivered, FoundAtPosition, Passed
<1> DEFINE call == [number |-> k, record |-> found[k]]
<1>6. call \in Calls /\ call.number = k /\ call.record = k
  BY <1>5 DEF Calls
<1> HIDE DEF call
<1>7. /\ delivered' \in Seq(Calls)
      /\ DOMAIN delivered = 1 .. Len(delivered) /\ DOMAIN delivered' = 1 .. Len(delivered) + 1
      /\ \A i \in DOMAIN delivered : delivered'[i] = delivered[i]
      /\ delivered'[Len(delivered) + 1] = call
  BY <1>2, <1>3, <1>6, AppendRange DEF CalledOnce, call
<1>8. CalledOnce'
  BY <1>1, <1>3, <1>5, <1>6, <1>7 DEF CalledOnce
<1>9. FoundAtPosition' /\ UsableFound' /\ Passed(n)' /\ Recorded'
  BY <1>1, <1>3, <1>4 DEF FoundAtPosition, UsableFound, Passed, Usable, Inductive, Recorded
<1> QED
  BY <1>1, <1>8, <1>9 DEF Inductive, BeforeJournal, Passes

\* The other steps change the pass and where it begins.
LEMMA PassStep ==
    ASSUME Inductive, Open \/ EndRecords \/ EndBlocks \/ EndDelivery
    PROVE  Inductive'
<1>1. UNCHANGED <<journal, found, delivered>>
  BY DEF Open, EndRecords, EndBlocks, EndDelivery
<1>2. PICK n \in Nat : DOMAIN journal = 0 .. n - 1 /\ pos \in Nat /\ (pass = "records" => pos <= n)
  BY DEF Inductive, Passed
<1>3. FoundAtPosition /\ UsableFound /\ CalledOnce /\ BeforeJournal
  BY DEF Inductive
<1>4. FoundAtPosition' /\ CalledOnce' /\ Recorded'
  BY <1>1, <1>3 DEF FoundAtPosition, CalledOnce, Usable, Inductive, Recorded
<1>5. CASE Open
  <2>1. pos' = pos /\ pass' \in {"records", "failed"} /\ pos = 0
    BY <1>3, <1>5 DEF Open, BeforeJournal
  <2> QED
    BY <1>1, <1>2, <1>4, <2>1 DEF Inductive, Passes, Passed, UsableFound, BeforeJournal
<1>6. CASE EndRecords
  <2>1. pass = "records" /\ pass' = "blocks" /\ pos \notin DOMAIN journal /\ pos' = PerBlock
    BY <1>6 DEF EndRecords
  <2>2. \A r \in DOMAIN journal : r < pos
    BY <1>2, <2>1
  <2>3. UsableFound'
    BY <1>1, <1>3, <2>1, <2>2 DEF UsableFound, Usable
  <2>4. Passed(n)'
    BY <1>1, <1>2, <2>1, JournalAssumption DEF Passed
  <2> QED
    BY <1>4, <2>1, <2>3, <2>4 DEF Inductive, Passes, BeforeJournal
<1>7. CASE EndBlocks \/ EndDelivery
  <2>1. /\ pass \in {"blocks", "deliver"} /\ pass' \in {"deliver", "done"} /\ pos' = pos
        /\ pass' = "done" => Undelivered = {}
    BY <1>7 DEF EndBlocks, EndDelivery
  <2>2. UsableFound' /\ Passed(n)'
    BY <1>1, <1>2, <1>3, <2>1 DEF UsableFound, Usable, Passed
  <2>3. Undelivered' = Undelivered
    BY <1>1 DEF Undelivered
  <2> QED
    BY <1>4, <2>1, <2>2, <2>3 DEF Inductive, Passes, BeforeJournal
<1> QED
  BY <1>5, <1>6, <1>7

\* A step of the walk changes nothing the journal's invariant speaks of.
LEMMA UnchangedStep ==
    ASSUME Inductive, UNCHANGED vars
    PROVE  Inductive'
<1>1. UNCHANGED <<journal, pass, pos, found, delivered>>
  BY DEF vars
<1>2. PICK n \in Nat : Passed(n)
  BY DEF Inductive
<1>3. Passed(n)' /\ BeforeJournal' /\ pass' \in Passes /\ (pass' = "done" => Undelivered' = {})
  BY <1>1, <1>2 DEF Inductive, Passed, BeforeJournal, Undelivered
<1>4. FoundAtPosition' /\ UsableFound' /\ CalledOnce' /\ Recorded'
  BY <1>1 DEF Inductive, FoundAtPosition, UsableFound, CalledOnce, Usable, Recorded
<1> QED
  BY <1>3, <1>4 DEF Inductive, Passes

\* Up to the journal only the pass moves on.
LEMMA WalkStep ==
    ASSUME Inductive, UNCHANGED <<journal, pos, found, delivered>>,
           pass \in {"superblock", "walk"}, pass' \in {"walk", "open", "failed"}
    PROVE  Inductive'
<1>1. PICK n \in Nat : Passed(n)
  BY DEF Inductive
<1>2. Passed(n)'
  BY <1>1 DEF Passed
<1> QED
  BY <1>2 DEF Inductive, Passes, FoundAtPosition, UsableFound, CalledOnce, BeforeJournal, Usable, Recorded

-----------------------------------------------------------------------------
\* What a record says of its blocks is one of the forms told apart.
LEMMA ContentRecorded ==
    ASSUME NEW n \in Nat, journal \in [0 .. n - 1 -> Copy \cup {Other}]
    PROVE  DOMAIN journal = 0 .. n - 1 /\ Recorded
<1>1. \A c \in Copy \cup {Other} : c.blocks \in Areas
  BY DEF Copy, Other, Areas
<1> QED
  BY <1>1 DEF Recorded

\* What is delivered once under its number is the record of that number.
LEMMA InductiveDelivers == Inductive => UsableDeliveredOnce
<1> SUFFICES ASSUME Inductive, pass = "done", NEW r \in DOMAIN journal
             PROVE  Cardinality({i \in DOMAIN delivered : delivered[i].record = r}) =
                        IF journal[r].deletionTime # 0 /\ journal[r].blocks # "none" THEN 1 ELSE 0
  BY DEF UsableDeliveredOnce
<1> DEFINE S == {i \in DOMAIN delivered : delivered[i].record = r}
<1>1. FoundAtPosition /\ UsableFound /\ CalledOnce /\ Undelivered = {}
  BY DEF Inductive
<1>2. CASE Usable(r)
  <2>1. r \in DOMAIN found
    BY <1>1, <1>2 DEF UsableFound
  <2>2. PICK i \in DOMAIN delivered : delivered[i].number = r
    BY <1>1, <2>1 DEF Undelivered
  <2>3. S = {i}
    BY <1>1, <2>2 DEF CalledOnce
  <2>4. Cardinality({i}) = 1
    BY FS_Singleton
  <2> QED
    BY <1>2, <2>3, <2>4 DEF Usable
<1>3. CASE ~Usable(r)
  <2>1. S = {}
    BY <1>1, <1>3 DEF CalledOnce, FoundAtPosition
  <2>2. Cardinality({}) = 0
    BY FS_EmptySet
  <2> QED
    BY <1>3, <2>1, <2>2 DEF Usable
<1> QED
  BY <1>2, <1>3

\* The scan of the journal by itself.
THEOREM JournalDeliversOnce == Spec => []UsableDeliveredOnce
<1>1. Init => Inductive
  <2> SUFFICES ASSUME Init PROVE Inductive
    OBVIOUS
  <2>1. PICK n \in 0 .. MaxRecords : journal \in [0 .. n - 1 -> Copy \cup {Other}]
    BY DEF Init, JournalContent
  <2>2. n \in Nat /\ DOMAIN journal = 0 .. n - 1 /\ Recorded
    BY <2>1, JournalAssumption, ContentRecorded
  <2> QED
    BY <2>2, StartInductive DEF Init
<1>2. Inductive /\ [Next]_vars => Inductive'
  BY LookStep, DeliverStep, PassStep, UnchangedStep DEF Next
<1> QED
  BY <1>1, <1>2, InductiveDelivers, PTL DEF Spec

\* Behind the superblock and the walk through the inode tables the journal is
\* searched as by itself.
LEMMA ParserStart == ParserInit => Inductive
<1> SUFFICES ASSUME ParserInit PROVE Inductive
  OBVIOUS
<1>1. NothingFound /\ pass = "superblock" /\ (RichFile \/ RichTables \/ RichJournal)
  BY DEF ParserInit
<1>2. \E n \in Nat : DOMAIN journal = 0 .. n - 1 /\ Recorded
  <2>1. CASE journal = OneCopy(1)
    <3>1. DOMAIN journal = 0 .. 2 - 1 /\ DOMAIN journal = {0, 1}
      BY <2>1 DEF OneCopy
    <3>2. journal[0].blocks = "none" /\ journal[1].blocks = "intact"
      BY <2>1 DEF OneCopy, Other
    <3> QED
      BY <3>1, <3>2 DEF Recorded, Areas
  <2>2. CASE journal = NoJournal
    <3>1. DOMAIN journal = 0 .. 0 - 1 /\ DOMAIN journal = {}
      BY <2>2 DEF NoJournal
    <3> QED
      BY <3>1 DEF Recorded
  <2>3. CASE JournalContent
    <3>1. PICK n \in 0 .. MaxRecords : journal \in [0 .. n - 1 -> Copy \cup {Other}]
      BY <2>3 DEF JournalContent
    <3> QED
      BY <3>1, JournalAssumption, ContentRecorded
  <2> QED
    BY <1>1, <2>1, <2>2, <2>3 DEF RichFile, RichTables, RichJournal
<1> QED
  BY <1>1, <1>2, StartInductive

\* Each step of the parser is one of the journal's, or leaves it alone.
LEMMA ParserStep == Inductive /\ [ParserNext]_parserVars => Inductive'
<1> SUFFICES ASSUME Inductive, [ParserNext]_parserVars PROVE Inductive'
  OBVIOUS
<1>1. CASE ParseSuperblock \/ EndWalk
  BY <1>1, WalkStep DEF ParseSuperblock, EndWalk
<1>2. CASE VisitDeleted \/ VisitDebris \/ VisitOther \/ UNCHANGED parserVars
  BY <1>2, UnchangedStep DEF VisitDeleted, VisitDebris, VisitOther, parserVars
<1>3. CASE SearchJournal
  BY <1>3, LookStep, PassStep DEF SearchJournal
<1>4. CASE DeliverCopy
  BY <1>4, DeliverStep DEF DeliverCopy
<1> QED
  BY <1>1, <1>2, <1>3, <1>4 DEF ParserNext

\* The same behind the superblock and the walk through the inode tables, whatever
\* the file system and the file.
THEOREM ParserDeliversOnce == ParserSpec => []UsableDeliveredOnce
BY ParserStart, ParserStep, InductiveDelivers, PTL DEF ParserSpec

-----------------------------------------------------------------------------
(* The walk through the inode tables.                                      *)

\* The file system stands as it was made, and is not written to.
Layout ==
    /\ sb.total \in Nat /\ sb.first \in {0, 1} /\ sb.total > sb.first
    /\ sb.wide \in BOOLEAN /\ sb.descSize \in {0, 32, 64}
    /\ sb.wide <=> sb.descSize = 64
    /\ ~sb.wide => FirstTable + Groups(sb) * TableBlocks <= Word
    /\ inodes \in [1 .. Groups(sb) * GroupInodes -> Inode]
    /\ maxGroups \in Nat /\ badGroup \in Int

\* How many inodes have been looked at.
Seen == group * GroupInodes + index

\* What the callback must have been given by now.
Due == IF pass \in {"superblock", "walk"} THEN {n \in Wanted : n <= Seen} ELSE Wanted

DueDelivered ==
    /\ \A i \in InodeCalls : recovered[i].number \in Due /\ recovered[i].state = inodes[recovered[i].number]
    /\ \A n \in Due : \E i \in InodeCalls : recovered[i].number = n
    /\ \A i, j \in TableCalls : i < j => recovered[i].number < recovered[j].number
    /\ \A i \in TableCalls : recovered[i].number \in Nat /\ recovered[i].number <= Seen
    /\ NumGroups <= Groups(sb) => InodeCalls = TableCalls

\* Until the walk ends nothing comes from the journal, so the next number is
\* above all the others.
WalkInductive ==
    /\ Layout
    /\ group \in Nat /\ index \in 0 .. GroupInodes - 1
    /\ recovered \in Seq(Results)
    /\ pass = "superblock" => Seen = 0 /\ recovered = <<>>
    /\ pass # "failed" => DueDelivered

-----------------------------------------------------------------------------
(* Numbers of groups and of inodes.                                        *)

\* Whole multiples: one more, and in order.
LEMMA Products ==
    ASSUME NEW a \in Nat, NEW b \in Nat, NEW m \in Nat
    PROVE  /\ a * m \in Nat /\ (a + 1) * m = a * m + m
           /\ a <= b => a * m <= b * m
           /\ a < b => (a + 1) * m <= b * m
OBVIOUS

\* What a number in a group divides into.
LEMMA Quotient ==
    ASSUME NEW m \in Nat \ {0}, NEW a \in Nat, NEW i \in 0 .. m - 1
    PROVE  (a * m + i) \div m = a /\ (a * m + i) % m = i
OBVIOUS

\* A number is what its division gives and leaves.
LEMMA Halves ==
    ASSUME NEW m \in Nat \ {0}, NEW x \in Nat
    PROVE  (x % m) + (x \div m) * m = x /\ (x < m => x % m = x)
OBVIOUS

\* Division rounded up.
LEMMA CeilingFacts ==
    ASSUME NEW m \in Nat \ {0}, NEW a \in Nat, NEW b \in Nat, a <= b
    PROVE  /\ Ceiling(a, m) \in Nat /\ Ceiling(a, m) <= Ceiling(b, m)
           /\ Ceiling(a, m) <= a
<1>1. (a + m - 1) \div m \in Nat /\ (a + m - 1) \div m <= (b + m - 1) \div m
  OBVIOUS
<1>2. (a + m - 1) \div m <= a
  OBVIOUS
<1> QED
  BY <1>1, <1>2 DEF Ceiling

\* The number of groups, which nothing but the limit makes smaller.
LEMMA GroupFacts ==
    ASSUME Layout
    PROVE  /\ Groups(sb) \in Nat /\ NumGroups \in Nat
           /\ Groups(sb) <= sb.total /\ Groups(sb) <= Ceiling(sb.total, GroupBlocks)
           /\ \A g \in 0 .. Groups(sb) - 1 : maxGroups = 0 \/ g < maxGroups => g < NumGroups
           /\ \A g \in Nat : g < NumGroups => maxGroups = 0 \/ g < maxGroups
<1> DEFINE used == sb.total - sb.first
<1>1. used \in Nat /\ sb.total \in Nat /\ used <= sb.total /\ maxGroups \in Nat
      /\ GroupBlocks \in Nat \ {0}
  BY Ext4ParserAssumption DEF Layout
<1>2. Groups(sb) = Ceiling(used, GroupBlocks)
  BY DEF Groups
<1> HIDE DEF used
<1>3. /\ Ceiling(used, GroupBlocks) \in Nat /\ Ceiling(sb.total, GroupBlocks) \in Nat
      /\ Ceiling(used, GroupBlocks) <= Ceiling(sb.total, GroupBlocks)
      /\ Ceiling(used, GroupBlocks) <= used
  BY <1>1, CeilingFacts
<1> QED
  BY <1>1, <1>2, <1>3 DEF NumGroups

\* How large a table is.
LEMMA TableSizes ==
    /\ GroupInodes \in Nat \ {0} /\ InodesPerBlock \in Nat \ {0} /\ FirstTable \in Nat \ {0}
    /\ Word \in Nat \ {0} /\ TableBlocks \in Nat \ {0} /\ TableBlocks <= Word
    /\ GroupInodes <= TableBlocks * InodesPerBlock
<1>1. /\ GroupInodes \in Nat \ {0} /\ InodesPerBlock \in Nat \ {0} /\ FirstTable \in Nat \ {0}
      /\ Word \in Nat \ {0}
  BY Ext4ParserAssumption
<1>2. ASSUME NEW n \in Nat \ {0}, NEW m \in Nat \ {0}
      PROVE  Ceiling(n, m) \in Nat \ {0} /\ n <= Ceiling(n, m) * m
  <2> DEFINE x == n + m - 1
             q == x \div m
             r == x % m
  <2>1. x \in Nat /\ x >= m
    OBVIOUS
  <2>2. q \in Nat /\ r \in 0 .. m - 1
    BY <2>1
  <2>3. r + q * m = x
    BY <2>1, Halves
  <2>4. Ceiling(n, m) = q
    BY DEF Ceiling
  <2>5. x = n + m - 1 /\ q * m \in Int
    BY <2>2
  <2> HIDE DEF x, q, r
  <2>6. n <= q * m
    BY <2>2, <2>3, <2>5
  <2>7. q # 0
    BY <2>1, <2>2, <2>6
  <2> QED
    BY <2>2, <2>4, <2>6, <2>7
<1>3. TableBlocks \in Nat \ {0} /\ GroupInodes <= TableBlocks * InodesPerBlock
  BY <1>1, <1>2 DEF TableBlocks
<1>4. TableBlocks <= Word
  BY <1>1, <1>3, Ext4TableAssumption
<1> QED
  BY <1>1, <1>3, <1>4

\* No slot belongs to two inodes.
LEMMA SlotsApart ==
    ASSUME Layout, NEW g \in Nat, NEW i \in 0 .. GroupInodes - 1
    PROVE  /\ TableStart(g) \in Nat
           /\ \A h \in Nat : \A j \in 0 .. GroupInodes - 1 :
                  TableStart(h) * InodesPerBlock + j = TableStart(g) * InodesPerBlock + i => h = g /\ j = i
<1> DEFINE step == IF sb.wide THEN Word ELSE TableBlocks
           w == step * InodesPerBlock
           first == FirstTable * InodesPerBlock
<1>1. step \in Nat \ {0} /\ TableBlocks <= step
  BY TableSizes
<1>2. InodesPerBlock \in Nat \ {0} /\ FirstTable \in Nat /\ first \in Nat /\ GroupInodes \in Nat
  BY TableSizes
<1>3. w \in Nat \ {0} /\ GroupInodes <= w
  <2>1. TableBlocks * InodesPerBlock <= step * InodesPerBlock
    <3>1. TableBlocks \in Nat /\ step \in Nat /\ InodesPerBlock \in Nat
      BY <1>1, <1>2, TableSizes
    <3> HIDE DEF step
    <3> QED
      BY <1>1, <3>1, Products
  <2>2. w \in Nat /\ TableBlocks * InodesPerBlock \in Nat
    <3>1. TableBlocks \in Nat /\ step \in Nat /\ InodesPerBlock \in Nat
      BY <1>1, <1>2, TableSizes
    <3> HIDE DEF step
    <3> QED
      BY <3>1
  <2> HIDE DEF step
  <2>3. GroupInodes \in Nat \ {0} /\ GroupInodes <= TableBlocks * InodesPerBlock
    BY TableSizes
  <2> QED
    BY <2>1, <2>2, <2>3
<1>4. \A h \in Nat : TableStart(h) = FirstTable + h * step
  BY DEF TableStart
<1> HIDE DEF step
<1>5. ASSUME NEW h \in Nat
      PROVE  /\ TableStart(h) \in Nat /\ h * w \in Nat
             /\ TableStart(h) * InodesPerBlock = first + h * w
  <2>1. h * step \in Nat
    BY <1>1
  <2>2. TableStart(h) \in Nat
    BY <1>2, <1>4, <2>1
  <2>3. h * w \in Nat
    <3> HIDE DEF w
    <3> QED
      BY <1>3
  <2>4. (FirstTable + h * step) * InodesPerBlock = FirstTable * InodesPerBlock + h * (step * InodesPerBlock)
    BY <1>1, <1>2
  <2> QED
    BY <1>4, <2>2, <2>3, <2>4
<1> HIDE DEF w, first
<1>6. ASSUME NEW h \in Nat, NEW j \in 0 .. GroupInodes - 1,
             TableStart(h) * InodesPerBlock + j = TableStart(g) * InodesPerBlock + i
      PROVE  h = g /\ j = i
  <2>1. h * w + j = g * w + i
    <3>1. /\ TableStart(h) * InodesPerBlock = first + h * w /\ h * w \in Nat
          /\ TableStart(g) * InodesPerBlock = first + g * w /\ g * w \in Nat
      BY <1>5
    <3>2. first + h * w + j = first + g * w + i
      BY <1>6, <3>1
    <3> QED
      BY <1>2, <3>1, <3>2
  <2>2. i \in 0 .. w - 1 /\ j \in 0 .. w - 1
    BY <1>2, <1>3
  <2>3. (h * w + j) \div w = h /\ (h * w + j) % w = j /\ (g * w + i) \div w = g /\ (g * w + i) % w = i
    BY <1>3, <2>2, Quotient
  <2> QED
    BY <2>1, <2>3
<1> QED
  BY <1>5, <1>6

\* Whatever the width of the descriptors, the place of a table is the one mkfs
\* gave it; behind the last group there is none.
LEMMA InodeTableFacts ==
    ASSUME Layout, NEW g \in Nat
    PROVE  InodeTable(g) = IF g < Groups(sb) THEN TableStart(g) ELSE 0
<1>1. Word \in Nat \ {0} /\ sb.wide \in BOOLEAN
  BY Ext4ParserAssumption DEF Layout
<1>2. /\ Stride = DescSize /\ Stride \in Nat \ {0}
      /\ sb.wide => DescSize >= 64
  <2>1. CASE sb.wide
    BY <2>1 DEF Layout, Stride, DescSize
  <2>2. CASE ~sb.wide
    BY <2>2 DEF Layout, Stride, DescSize
  <2> QED
    BY <2>1, <2>2
<1>3. (g * DescSize) \div Stride = g /\ (g * DescSize) % Stride = 0
  <2>1. (g * Stride + 0) \div Stride = g /\ (g * Stride + 0) % Stride = 0
    BY <1>2, Quotient
  <2> QED
    BY <1>2, <2>1, Products
<1>4. DescriptorAt(g * DescSize) =
          IF g < Groups(sb)
          THEN [lo |-> TableStart(g) % Word, hi |-> TableStart(g) \div Word]
          ELSE [lo |-> 0, hi |-> 0]
  BY <1>3 DEF DescriptorAt
<1>5. TableStart(g) \in Nat
  BY SlotsApart, TableSizes
<1>6. /\ (TableStart(g) % Word) + (TableStart(g) \div Word) * Word = TableStart(g)
      /\ TableStart(g) < Word => TableStart(g) % Word = TableStart(g)
  BY <1>1, <1>5, Halves
<1>7. CASE g < Groups(sb)
  <2>1. CASE sb.wide
    BY <1>1, <1>2, <1>4, <1>5, <1>6, <1>7, <2>1 DEF InodeTable
  <2>2. CASE ~sb.wide
    <3>1. Groups(sb) \in Nat /\ FirstTable + Groups(sb) * TableBlocks <= Word
      BY <2>2, GroupFacts DEF Layout
    <3>2. TableStart(g) = FirstTable + g * TableBlocks
      BY <2>2 DEF TableStart
    <3>3. TableStart(g) < Word
      <4>1. /\ (g + 1) * TableBlocks = g * TableBlocks + TableBlocks
            /\ (g + 1) * TableBlocks <= Groups(sb) * TableBlocks
            /\ g * TableBlocks \in Nat /\ Groups(sb) * TableBlocks \in Nat
        BY <1>7, <3>1, TableSizes, Products
      <4> QED
        BY <3>1, <3>2, <4>1, TableSizes
    <3>4. TableStart(g) % Word \in Nat
      BY <1>5, <1>6, <3>3
    <3> QED
      BY <1>4, <1>6, <1>7, <2>2, <3>3, <3>4 DEF InodeTable
  <2> QED
    BY <1>1, <2>1, <2>2
<1>8. CASE ~(g < Groups(sb))
  BY <1>1, <1>4, <1>8 DEF InodeTable
<1> QED
  BY <1>7, <1>8

\* What ReadInode gives of an inode is what stands in the tables.
LEMMA ReadInodeFacts ==
    ASSUME Layout, NEW g \in Nat, NEW i \in 0 .. GroupInodes - 1
    PROVE  /\ g # badGroup /\ g < Groups(sb) =>
                  ReadInode(g * GroupInodes + i + 1) = inodes[g * GroupInodes + i + 1]
           /\ g = badGroup => ReadInode(g * GroupInodes + i + 1) = "unreadable"
           /\ g * GroupInodes + i + 1 \in DOMAIN inodes <=> g < Groups(sb)
<1>1. GroupInodes \in Nat \ {0} /\ Groups(sb) \in Nat /\ DOMAIN inodes = 1 .. Groups(sb) * GroupInodes
  BY Ext4ParserAssumption, GroupFacts DEF Layout
<1>2. g * GroupInodes \in Nat
  BY <1>1, Products
<1>3. (g * GroupInodes + i) \div GroupInodes = g /\ (g * GroupInodes + i) % GroupInodes = i
  BY <1>1, Quotient
<1> DEFINE num == g * GroupInodes + i + 1
<1>4. (num - 1) \div GroupInodes = g /\ (num - 1) % GroupInodes = i
  <2>1. num - 1 = g * GroupInodes + i
    BY <1>1, <1>2
  <2> QED
    BY <1>3, <2>1
<1>5. num \in DOMAIN inodes <=> g < Groups(sb)
  <2>1. /\ (g + 1) * GroupInodes = g * GroupInodes + GroupInodes
        /\ g < Groups(sb) => (g + 1) * GroupInodes <= Groups(sb) * GroupInodes
        /\ Groups(sb) <= g => Groups(sb) * GroupInodes <= g * GroupInodes
        /\ Groups(sb) * GroupInodes \in Nat
    BY <1>1, Products
  <2> QED
    BY <1>1, <1>2, <2>1
<1> HIDE DEF num
<1>6. ReadInode(num) = IF g = badGroup THEN "unreadable" ELSE SlotAt(InodeTable(g), i)
  BY <1>4 DEF ReadInode
<1>7. ASSUME g < Groups(sb)
      PROVE  SlotAt(InodeTable(g), i) = inodes[num]
  <2> DEFINE here == {n \in DOMAIN inodes : Slot(n) = InodeTable(g) * InodesPerBlock + i}
  <2>1. InodeTable(g) = TableStart(g)
    BY <1>7, InodeTableFacts
  <2>2. num \in here
    BY <1>4, <1>5, <1>7, <2>1 DEF Slot
  <2>3. ASSUME NEW n \in here PROVE n = num
    <3>1. n \in Nat /\ n - 1 \in Nat
      BY <1>1
    <3>2. (n - 1) \div GroupInodes \in Nat /\ (n - 1) % GroupInodes \in 0 .. GroupInodes - 1
          /\ ((n - 1) % GroupInodes) + ((n - 1) \div GroupInodes) * GroupInodes = n - 1
      <4>1. \A m \in Nat \ {0} : \A x \in Nat : x \div m \in Nat /\ x % m \in 0 .. m - 1
        OBVIOUS
      <4> QED
        BY <1>1, <3>1, <4>1, Halves
    <3>3. TableStart((n - 1) \div GroupInodes) * InodesPerBlock + ((n - 1) % GroupInodes)
              = TableStart(g) * InodesPerBlock + i
      BY <2>1, <2>3 DEF Slot
    <3>4. (n - 1) \div GroupInodes = g /\ (n - 1) % GroupInodes = i
      BY <3>2, <3>3, SlotsApart
    <3>5. i + g * GroupInodes = n - 1
      BY <3>2, <3>4
    <3> QED
      BY <1>1, <1>2, <3>1, <3>5 DEF num
  <2>4. here = {num}
    BY <2>2, <2>3
  <2>5. (CHOOSE n \in here : TRUE) = num
    BY <2>4
  <2>6. SlotAt(InodeTable(g), i) = IF here = {} THEN "other" ELSE inodes[CHOOSE n \in here : TRUE]
    BY DEF SlotAt
  <2> HIDE DEF here
  <2> QED
    BY <2>4, <2>5, <2>6
<1> QED
  BY <1>5, <1>6, <1>7 DEF num

\* The inode looked at is due if and only if the walk reads it as a deleted file.
LEMMA WantedFacts ==
    ASSUME Layout
    PROVE  /\ \A g \in Nat : \A i \in 0 .. GroupInodes - 1 :
                  g * GroupInodes + i + 1 \in Wanted <=>
                      g \in Scanned /\ inodes[g * GroupInodes + i + 1] # "kept"
           /\ \A n \in Wanted : n \in Nat /\ n >= 1 /\ n <= NumGroups * GroupInodes
<1>1. GroupInodes \in Nat \ {0} /\ Groups(sb) \in Nat /\ Scanned \subseteq 0 .. Groups(sb) - 1
  BY Ext4ParserAssumption, GroupFacts DEF Scanned
<1>2. ASSUME NEW g \in Nat, NEW i \in 0 .. GroupInodes - 1
      PROVE  g * GroupInodes + i + 1 \in Wanted <=>
                 g \in Scanned /\ inodes[g * GroupInodes + i + 1] # "kept"
  <2> DEFINE num == g * GroupInodes + i + 1
  <2>1. num \in Nat /\ g * GroupInodes \in Nat
    BY <1>1, Products
  <2>2. \A h \in Nat : num \in InodesOf(h) <=> h = g
    <3> SUFFICES ASSUME NEW h \in Nat PROVE num \in InodesOf(h) <=> h = g
      OBVIOUS
    <3>1. h * GroupInodes \in Nat /\ (h + 1) * GroupInodes = h * GroupInodes + GroupInodes
      BY <1>1, Products
    <3>2. h < g => (h + 1) * GroupInodes <= g * GroupInodes
      BY <1>1, Products
    <3>3. g < h => g * GroupInodes + GroupInodes <= h * GroupInodes
      BY <1>1, Products
    <3> QED
      BY <1>1, <2>1, <3>1, <3>2, <3>3 DEF InodesOf
  <2> HIDE DEF num
  <2>3. num \in Wanted <=> g \in Scanned /\ inodes[num] # "kept"
    BY <1>1, <2>2 DEF Wanted
  <2> QED
    BY <2>3 DEF num
<1>3. ASSUME NEW n \in Wanted PROVE n \in Nat /\ n >= 1 /\ n <= NumGroups * GroupInodes
  <2>1. PICK g \in Scanned : n \in InodesOf(g)
    BY DEF Wanted
  <2>2. g \in 0 .. Groups(sb) - 1 /\ (maxGroups = 0 \/ g < maxGroups) /\ g \in Nat
    BY <1>1, <2>1 DEF Scanned
  <2>3. g < NumGroups /\ NumGroups \in Nat
    BY <2>2, GroupFacts
  <2>4. g * GroupInodes \in Nat /\ (g + 1) * GroupInodes \in Nat
        /\ (g + 1) * GroupInodes <= NumGroups * GroupInodes /\ NumGroups * GroupInodes \in Nat
    BY <1>1, <2>2, <2>3, Products
  <2> QED
    BY <2>1, <2>4 DEF InodesOf
<1> QED
  BY <1>2, <1>3

\* The walk goes on to the inode with the next number.
LEMMA AdvanceFacts ==
    ASSUME group \in Nat, index \in 0 .. GroupInodes - 1, Advance
    PROVE  /\ Seen \in Nat /\ InodeNum = Seen + 1
           /\ group' \in Nat /\ index' \in 0 .. GroupInodes - 1 /\ Seen' = Seen + 1
<1>1. GroupInodes \in Nat \ {0}
  BY Ext4ParserAssumption
<1>2. group * GroupInodes \in Nat /\ (group + 1) * GroupInodes = group * GroupInodes + GroupInodes
  BY <1>1, Products
<1>3. CASE index + 1 = GroupInodes
  <2>1. group' = group + 1 /\ index' = 0
    BY <1>1, <1>3 DEF Advance
  <2> QED
    BY <1>1, <1>2, <1>3, <2>1 DEF Seen, InodeNum
<1>4. CASE index + 1 # GroupInodes
  <2>1. group' = group /\ index' = index + 1
    BY <1>1, <1>4, Halves DEF Advance
  <2> QED
    BY <1>1, <1>2, <1>4, <2>1 DEF Seen, InodeNum
<1> QED
  BY <1>3, <1>4

\* A call is put behind the others, and they stay what they are.
LEMMA RecoveredFacts ==
    ASSUME recovered \in Seq(Results), inodes' = inodes, NEW call, recovered' = Append(recovered, call)
    PROVE  /\ recovered' \in Seq(Results')
           /\ DOMAIN recovered = 1 .. Len(recovered) /\ Len(recovered) \in Nat
           /\ TableCalls' = IF call.from = "table" THEN TableCalls \cup {Len(recovered) + 1} ELSE TableCalls
           /\ InodeCalls' = IF call.from = "table" /\ call.number \in DOMAIN inodes
                            THEN InodeCalls \cup {Len(recovered) + 1} ELSE InodeCalls
           /\ \A i \in DOMAIN recovered : recovered'[i] = recovered[i]
           /\ recovered'[Len(recovered) + 1] = call
<1>1. recovered \in Seq(Results \cup {call})
  BY DEF Results
<1>2. /\ recovered' \in Seq(Results \cup {call})
      /\ DOMAIN recovered = 1 .. Len(recovered) /\ DOMAIN recovered' = 1 .. Len(recovered) + 1
      /\ \A i \in DOMAIN recovered : recovered'[i] = recovered[i]
      /\ recovered'[Len(recovered) + 1] = call
  BY <1>1, AppendRange
<1>3. Len(recovered) \in Nat
  OBVIOUS
<1>4. Results' = Results \cup {call}
  BY <1>2, <1>3 DEF Results
<1>5. TableCalls' = IF call.from = "table" THEN TableCalls \cup {Len(recovered) + 1} ELSE TableCalls
  BY <1>2, <1>3 DEF TableCalls
<1>6. InodeCalls' = IF call.from = "table" /\ call.number \in DOMAIN inodes
                   THEN InodeCalls \cup {Len(recovered) + 1} ELSE InodeCalls
  <2>1. TableCalls \subseteq 1 .. Len(recovered)
    BY <1>2 DEF TableCalls
  <2> QED
    BY <1>2, <1>3, <1>5, <2>1 DEF InodeCalls
<1> QED
  BY <1>2, <1>3, <1>4, <1>5, <1>6

\* What RecoverInodeData makes of a file is put behind the other calls.
LEMMA RecoveredCall ==
    ASSUME NEW from, NEW number, NEW state, Recovered(from, number, state)
    PROVE  \E call : /\ recovered' = Append(recovered, call)
                     /\ call.from = from /\ call.number = number /\ call.state = state
BY DEF Recovered

\* What the superblock says and what is wanted of the tables do not change.
LEMMA SameFilesystem ==
    ASSUME Layout, UNCHANGED filesystem
    PROVE  Layout' /\ Wanted' = Wanted /\ UNCHANGED <<sb, inodes, badGroup, maxGroups>>
           /\ Groups(sb)' = Groups(sb) /\ NumGroups' = NumGroups
BY DEF filesystem, Layout, Groups, NumGroups, Wanted, Scanned

\* One more call of the walk, for the inode looked at, keeps what is due delivered.
LEMMA CallStep ==
    ASSUME WalkInductive, pass = "walk", pass' = "walk", group < NumGroups, Advance, UNCHANGED filesystem,
           NEW call, recovered' = Append(recovered, call), call.from = "table", call.number = InodeNum,
           group < Groups(sb) => group # badGroup /\ call.state = inodes[InodeNum] /\ call.state # "kept"
    PROVE  WalkInductive'
<1>1. /\ Layout /\ group \in Nat /\ index \in 0 .. GroupInodes - 1
      /\ recovered \in Seq(Results) /\ DueDelivered
  BY DEF WalkInductive
<1>2. Layout' /\ Wanted' = Wanted /\ inodes' = inodes /\ Groups(sb)' = Groups(sb) /\ NumGroups' = NumGroups
  BY <1>1, SameFilesystem
<1>3. /\ Seen \in Nat /\ InodeNum = Seen + 1
      /\ group' \in Nat /\ index' \in 0 .. GroupInodes - 1 /\ Seen' = Seen + 1
  BY <1>1, AdvanceFacts
<1>4. \A n \in Wanted : n \in Nat
  BY <1>1, WantedFacts
<1>5. Due = {n \in Wanted : n <= Seen} /\ Due' = {n \in Wanted : n <= Seen + 1}
  BY <1>2, <1>3 DEF Due
<1>6. InodeNum \in Wanted <=> group \in Scanned /\ inodes[InodeNum] # "kept"
  BY <1>1, WantedFacts DEF InodeNum
<1>7. InodeNum \in DOMAIN inodes <=> group < Groups(sb)
  BY <1>1, ReadInodeFacts DEF InodeNum
<1>8. group \in Scanned <=> group # badGroup /\ group < Groups(sb)
  BY <1>1, GroupFacts DEF Scanned
<1>9. InodeNum \in Wanted <=> InodeNum \in DOMAIN inodes
  BY <1>6, <1>7, <1>8
<1>10. Due' = (IF InodeNum \in DOMAIN inodes THEN Due \cup {InodeNum} ELSE Due)
  <2>1. \A n \in Nat : n <= Seen + 1 <=> n <= Seen \/ n = InodeNum
    BY <1>3
  <2> QED
    BY <1>4, <1>5, <1>9, <2>1
<1> DEFINE last == Len(recovered) + 1
<1>11. /\ recovered' \in Seq(Results') /\ last \in Nat
       /\ \A i \in DOMAIN recovered : i \in Nat /\ i < last
       /\ TableCalls' = TableCalls \cup {last}
       /\ InodeCalls' = (IF InodeNum \in DOMAIN inodes THEN InodeCalls \cup {last} ELSE InodeCalls)
       /\ \A i \in DOMAIN recovered : recovered'[i] = recovered[i]
       /\ recovered'[last].number = InodeNum /\ recovered'[last].state = call.state
  BY <1>1, <1>2, RecoveredFacts
<1> HIDE DEF last
<1>12. TableCalls \subseteq DOMAIN recovered /\ InodeCalls \subseteq TableCalls
  BY DEF TableCalls, InodeCalls
<1>13. DueDelivered'
  <2>1. \A i \in InodeCalls' : recovered'[i].number \in Due' /\ recovered'[i].state = inodes'[recovered'[i].number]
    BY <1>1, <1>2, <1>7, <1>10, <1>11, <1>12 DEF DueDelivered
  <2>2. \A n \in Due' : \E i \in InodeCalls' : recovered'[i].number = n
    BY <1>1, <1>10, <1>11, <1>12 DEF DueDelivered
  <2>3. \A i \in TableCalls : recovered[i].number \in Nat /\ recovered[i].number < InodeNum
    BY <1>1, <1>3 DEF DueDelivered
  <2>4. \A i, j \in TableCalls' : i < j => recovered'[i].number < recovered'[j].number
    <3> SUFFICES ASSUME NEW i \in TableCalls', NEW j \in TableCalls', i < j
                 PROVE  recovered'[i].number < recovered'[j].number
      OBVIOUS
    <3>1. CASE j = last
      <4>1. i \in TableCalls
        BY <1>11, <1>12, <3>1
      <4> QED
        BY <1>11, <1>12, <2>3, <3>1, <4>1
    <3>2. CASE j # last
      <4>1. j \in TableCalls /\ j < last /\ i \in Nat /\ j \in Nat
        BY <1>11, <1>12, <3>2
      <4>2. i \in TableCalls
        BY <1>11, <4>1
      <4>3. recovered'[i] = recovered[i] /\ recovered'[j] = recovered[j]
        BY <1>11, <1>12, <4>1, <4>2
      <4> QED
        BY <1>1, <4>1, <4>2, <4>3 DEF DueDelivered
    <3> QED
      BY <3>1, <3>2
  <2>5. \A i \in TableCalls' : recovered'[i].number \in Nat /\ recovered'[i].number <= Seen'
    <3>1. \A i \in TableCalls : recovered'[i].number \in Nat /\ recovered'[i].number <= InodeNum
      <4>1. \A i \in TableCalls : recovered[i].number \in Nat /\ recovered[i].number <= InodeNum
        BY <1>3, <2>3
      <4> QED
        BY <1>11, <1>12, <4>1, Zenon
    <3>2. InodeNum \in Nat /\ InodeNum <= InodeNum /\ Seen' = InodeNum
      BY <1>3
    <3>a. TableCalls' = TableCalls \cup {last} /\ recovered'[last].number = InodeNum
      BY <1>11
    <3>3. \A i \in TableCalls' : recovered'[i].number \in Nat /\ recovered'[i].number <= InodeNum
      <4> SUFFICES ASSUME NEW i \in TableCalls'
                   PROVE  recovered'[i].number \in Nat /\ recovered'[i].number <= InodeNum
        OBVIOUS
      <4>1. CASE i = last
        BY <3>a, <3>2, <4>1, Zenon
      <4>2. CASE i # last
        <5>1. i \in TableCalls
          BY <3>a, <4>2, Zenon
        <5> QED
          BY <3>1, <3>2, <5>1, Zenon
      <4> QED
        BY <4>1, <4>2
    <3> QED
      BY <3>2, <3>3
  <2>6. NumGroups' <= Groups(sb)' => InodeCalls' = TableCalls'
    <3>1. Groups(sb) \in Nat /\ NumGroups \in Nat
      BY <1>1, GroupFacts
    <3> QED
      BY <1>1, <1>2, <1>7, <1>11, <3>1 DEF DueDelivered
  <2> QED
    BY <2>1, <2>2, <2>4, <2>5, <2>6 DEF DueDelivered
<1> QED
  BY <1>2, <1>3, <1>11, <1>13 DEF WalkInductive

\* An inode passed over was none to recover.
LEMMA PassedStep ==
    ASSUME WalkInductive, VisitOther
    PROVE  WalkInductive'
<1>1. /\ Layout /\ group \in Nat /\ index \in 0 .. GroupInodes - 1
      /\ recovered \in Seq(Results) /\ DueDelivered
      /\ pass = "walk" /\ pass' = "walk" /\ group < NumGroups /\ Advance /\ UNCHANGED filesystem
      /\ ReadInode(InodeNum) \in {"unreadable", "kept", "other"} /\ recovered' = recovered
  BY DEF WalkInductive, VisitOther, vars
<1>2. Layout' /\ Wanted' = Wanted /\ inodes' = inodes /\ Groups(sb)' = Groups(sb) /\ NumGroups' = NumGroups
  BY <1>1, SameFilesystem
<1>3. /\ Seen \in Nat /\ InodeNum = Seen + 1
      /\ group' \in Nat /\ index' \in 0 .. GroupInodes - 1 /\ Seen' = Seen + 1
  BY <1>1, AdvanceFacts
<1>4. \A n \in Wanted : n \in Nat
  BY <1>1, WantedFacts
<1>5. Due = {n \in Wanted : n <= Seen} /\ Due' = {n \in Wanted : n <= Seen + 1}
  BY <1>1, <1>2, <1>3 DEF Due
<1>6. InodeNum \notin Wanted
  <2>1. InodeNum \in Wanted <=> group \in Scanned /\ inodes[InodeNum] # "kept"
    BY <1>1, WantedFacts DEF InodeNum
  <2>2. group \in Scanned <=> group # badGroup /\ group < Groups(sb)
    BY <1>1, GroupFacts DEF Scanned
  <2>3. /\ group # badGroup /\ group < Groups(sb) => ReadInode(InodeNum) = inodes[InodeNum]
        /\ InodeNum \in DOMAIN inodes <=> group < Groups(sb)
    BY <1>1, ReadInodeFacts DEF InodeNum
  <2>4. InodeNum \in DOMAIN inodes => inodes[InodeNum] \in Inode
    BY <1>1 DEF Layout
  <2> QED
    BY <1>1, <2>1, <2>2, <2>3, <2>4 DEF Inode
<1>7. Due' = Due
  BY <1>3, <1>4, <1>5, <1>6
<1>8. TableCalls' = TableCalls /\ InodeCalls' = InodeCalls /\ Results' = Results
  BY <1>1, <1>2 DEF TableCalls, InodeCalls, Results
<1>9. \A i \in TableCalls : recovered[i].number \in Nat /\ recovered[i].number <= Seen'
  BY <1>1, <1>3 DEF DueDelivered
<1> QED
  BY <1>1, <1>2, <1>3, <1>7, <1>8, <1>9 DEF WalkInductive, DueDelivered

\* Visiting an inode, or what is read in the place of one, keeps the invariant.
LEMMA VisitStep ==
    ASSUME WalkInductive, VisitDeleted \/ VisitDebris \/ VisitOther
    PROVE  WalkInductive'
<1>1. /\ Layout /\ group \in Nat /\ index \in 0 .. GroupInodes - 1
  BY DEF WalkInductive
<1>2. /\ group # badGroup /\ group < Groups(sb) => ReadInode(InodeNum) = inodes[InodeNum]
      /\ group = badGroup => ReadInode(InodeNum) = "unreadable"
      /\ InodeNum \in DOMAIN inodes <=> group < Groups(sb)
  BY <1>1, ReadInodeFacts DEF InodeNum
<1>3. CASE VisitDeleted
  <2>1. /\ pass = "walk" /\ pass' = "walk" /\ group < NumGroups /\ Advance /\ UNCHANGED filesystem
        /\ ReadInode(InodeNum) \in {"intact", "cleared", "wiped"}
        /\ Recovered("table", InodeNum, ReadInode(InodeNum))
    BY <1>3 DEF VisitDeleted, vars
  <2>2. PICK call : /\ recovered' = Append(recovered, call)
                    /\ call.from = "table" /\ call.number = InodeNum /\ call.state = ReadInode(InodeNum)
    BY <2>1, RecoveredCall
  <2>3. group < Groups(sb) => group # badGroup /\ call.state = inodes[InodeNum] /\ call.state # "kept"
    BY <1>2, <2>1, <2>2
  <2> QED
    BY <2>1, <2>2, <2>3, CallStep
<1>4. CASE VisitDebris
  <2> DEFINE call == [from |-> "table", number |-> InodeNum, state |-> "debris",
                      marked |-> FALSE, ok |-> TRUE, data |-> BytesOf(Stranger)]
  <2>1. /\ pass = "walk" /\ pass' = "walk" /\ group < NumGroups /\ Advance /\ UNCHANGED filesystem
        /\ ReadInode(InodeNum) = "other" /\ recovered' = Append(recovered, call)
    BY <1>4 DEF VisitDebris, vars
  <2>2. call.from = "table" /\ call.number = InodeNum
    OBVIOUS
  <2>3. ~(group < Groups(sb))
    <3>1. group < Groups(sb) => inodes[InodeNum] \in Inode
      BY <1>1, <1>2 DEF Layout
    <3> QED
      BY <1>2, <2>1, <3>1 DEF Inode
  <2> HIDE DEF call
  <2> QED
    BY <2>1, <2>2, <2>3, CallStep
<1> QED
  BY <1>3, <1>4, PassedStep

\* Before the walk nothing has been seen and nothing is due.
LEMMA WalkInit == ParserInit => WalkInductive
<1> SUFFICES ASSUME ParserInit PROVE WalkInductive
  OBVIOUS
<1>1. /\ pass = "superblock" /\ group = 0 /\ index = 0 /\ recovered = <<>>
      /\ RichFile \/ RichTables \/ RichJournal
  BY DEF ParserInit
<1>2. {GroupBlocks, GroupInodes, Word} \subseteq Nat \ {0} /\ GroupBlocks < Word /\ MaxTotal \in Nat
  BY Ext4ParserAssumption
<1>3. Layout
  <2>1. CASE OneGroup
    <3>1. sb = [total |-> GroupBlocks, first |-> 0, wide |-> FALSE, descSize |-> 0]
          /\ maxGroups = 0 /\ badGroup = -1
      BY <2>1 DEF OneGroup
    <3>2. Groups(sb) = 1
      <4>1. GroupBlocks \in Nat \ {0} /\ GroupBlocks - 1 \in 0 .. GroupBlocks - 1
        BY <1>2
      <4>2. (1 * GroupBlocks + (GroupBlocks - 1)) \div GroupBlocks = 1
        BY <4>1, Quotient
      <4>3. GroupBlocks - 0 + GroupBlocks - 1 = 1 * GroupBlocks + (GroupBlocks - 1)
        BY <4>1
      <4> QED
        BY <3>1, <4>2, <4>3 DEF Groups, Ceiling
    <3>3. inodes \in [1 .. Groups(sb) * GroupInodes -> Inode]
      <4>1. Groups(sb) * GroupInodes = GroupInodes
        BY <1>2, <3>2
      <4>2. inodes \in [1 .. GroupInodes -> Inode]
        BY <2>1 DEF OneGroup, Inode
      <4> QED
        BY <4>1, <4>2
    <3>4. sb.total = GroupBlocks /\ sb.first = 0 /\ sb.wide = FALSE /\ sb.descSize = 0
      BY <3>1
    <3>5. GroupBlocks \in Nat /\ GroupBlocks > 0 /\ GroupBlocks < Word /\ maxGroups \in Nat /\ badGroup \in Int
      BY <1>2, <3>1
    <3>6. sb.total \in Nat /\ sb.first \in {0, 1} /\ sb.total > sb.first
          /\ FirstTable + Groups(sb) * TableBlocks <= Word
      <4>1. 1 * TableBlocks = TableBlocks
        BY TableSizes
      <4> QED
        BY <3>2, <3>4, <3>5, <4>1, Ext4TableAssumption
    <3>7. sb.wide \in BOOLEAN /\ ~sb.wide
      BY <3>4, Zenon
    <3>8. sb.descSize \in {0, 32, 64} /\ sb.descSize # 64
      BY <3>4
    <3> QED
      BY <3>3, <3>5, <3>6, <3>7, <3>8 DEF Layout
  <2>2. CASE RichTables
    <3>1. sb \in Superblocks /\ inodes \in [1 .. Groups(sb) * GroupInodes -> {"cleared", "kept"}]
          /\ badGroup \in -1 .. Groups(sb) - 1 /\ maxGroups \in 0 .. Groups(sb)
      BY <2>2 DEF RichTables
    <3>2. sb.total \in Nat /\ sb.first \in {0, 1} /\ sb.total > sb.first
          /\ sb.wide \in BOOLEAN /\ sb.descSize \in {0, 32, 64}
          /\ (sb.wide <=> sb.descSize = 64)
          /\ (~sb.wide => FirstTable + Groups(sb) * TableBlocks <= Word)
      BY <1>2, <3>1 DEF Superblocks
    <3>3. inodes \in [1 .. Groups(sb) * GroupInodes -> Inode]
      BY <3>1 DEF Inode
    <3>4. maxGroups \in Nat /\ badGroup \in Int
      BY <3>1
    <3> QED
      BY <3>2, <3>3, <3>4 DEF Layout
  <2> QED
    BY <1>1, <2>1, <2>2 DEF RichFile, RichJournal
<1>4. Seen = 0
  BY <1>1, <1>2 DEF Seen
<1>5. Due = {} /\ TableCalls = {} /\ InodeCalls = {}
  BY <1>1, <1>3, <1>4, WantedFacts DEF Due, TableCalls, InodeCalls
<1>6. recovered \in Seq(Results)
  BY <1>1
<1> QED
  BY <1>1, <1>2, <1>3, <1>4, <1>5, <1>6 DEF WalkInductive, DueDelivered

\* When the walk has gone through its groups it has seen every inode that is due.
LEMMA EndWalkStep ==
    ASSUME WalkInductive, EndWalk
    PROVE  WalkInductive'
<1>1. /\ Layout /\ group \in Nat /\ index \in 0 .. GroupInodes - 1 /\ DueDelivered
      /\ pass = "walk" /\ pass' = "open" /\ group >= NumGroups
      /\ UNCHANGED <<group, index, recovered>> /\ UNCHANGED filesystem
  BY DEF WalkInductive, EndWalk
<1>2. Layout' /\ Wanted' = Wanted /\ inodes' = inodes /\ Groups(sb)' = Groups(sb) /\ NumGroups' = NumGroups
  BY <1>1, SameFilesystem
<1>3. GroupInodes \in Nat \ {0} /\ NumGroups \in Nat
  BY <1>1, GroupFacts, Ext4ParserAssumption
<1>4. NumGroups * GroupInodes \in Nat /\ group * GroupInodes \in Nat
      /\ NumGroups * GroupInodes <= group * GroupInodes
  BY <1>1, <1>3, Products
<1>5. NumGroups * GroupInodes <= Seen
  BY <1>1, <1>3, <1>4 DEF Seen
<1>6. Seen \in Nat
  BY <1>1, <1>3, <1>4 DEF Seen
<1>7. Due' = Due
  BY <1>1, <1>2, <1>4, <1>5, <1>6, WantedFacts DEF Due
<1>8. TableCalls' = TableCalls /\ InodeCalls' = InodeCalls /\ Results' = Results /\ Seen' = Seen
  BY <1>1, <1>2 DEF TableCalls, InodeCalls, Results, Seen
<1> QED
  BY <1>1, <1>2, <1>7, <1>8 DEF WalkInductive, DueDelivered

\* The search of the journal leaves the calls of the walk alone.
LEMMA JournalStep ==
    ASSUME WalkInductive, SearchJournal \/ DeliverCopy
    PROVE  WalkInductive'
<1>1. /\ Layout /\ group \in Nat /\ index \in 0 .. GroupInodes - 1 /\ recovered \in Seq(Results)
      /\ pass \notin {"superblock", "walk", "failed"} /\ pass' \notin {"superblock", "walk"}
      /\ DueDelivered
      /\ UNCHANGED <<group, index>> /\ UNCHANGED filesystem
  BY DEF WalkInductive, SearchJournal, DeliverCopy, Open, Look, EndRecords, EndBlocks, EndDelivery, Deliver
<1>2. Layout' /\ Wanted' = Wanted /\ inodes' = inodes /\ Groups(sb)' = Groups(sb) /\ NumGroups' = NumGroups
  BY <1>1, SameFilesystem
<1>3. Due' = Due /\ Seen' = Seen
  BY <1>1, <1>2 DEF Due, Seen
<1>4. /\ recovered' \in Seq(Results') /\ TableCalls' = TableCalls /\ InodeCalls' = InodeCalls
      /\ \A i \in TableCalls : recovered'[i] = recovered[i]
  <2>1. CASE SearchJournal
    BY <1>1, <1>2, <2>1 DEF SearchJournal, TableCalls, InodeCalls, Results
  <2>2. CASE DeliverCopy
    <3>1. PICK number, state : Recovered("journal", number, state)
      BY <2>2 DEF DeliverCopy
    <3>2. PICK call : recovered' = Append(recovered, call) /\ call.from = "journal"
      BY <3>1, RecoveredCall
    <3> QED
      BY <1>1, <1>2, <3>2, RecoveredFacts DEF TableCalls
  <2> QED
    BY <2>1, <2>2
<1>5. DueDelivered'
  <2>1. InodeCalls \subseteq TableCalls
    BY DEF InodeCalls
  <2> QED
    BY <1>1, <1>2, <1>3, <1>4, <2>1 DEF DueDelivered
<1> QED
  BY <1>1, <1>2, <1>4, <1>5 DEF WalkInductive

\* Each step keeps the walk's invariant.
LEMMA WalkNext == WalkInductive /\ [ParserNext]_parserVars => WalkInductive'
<1> SUFFICES ASSUME WalkInductive, [ParserNext]_parserVars PROVE WalkInductive'
  OBVIOUS
<1>1. CASE ParseSuperblock
  <2>1. /\ Layout /\ UNCHANGED <<group, index, recovered>> /\ UNCHANGED filesystem
        /\ pass = "superblock" /\ pass' \in {"walk", "failed"}
    BY <1>1 DEF WalkInductive, ParseSuperblock
  <2>2. Layout' /\ Wanted' = Wanted /\ inodes' = inodes /\ Groups(sb)' = Groups(sb) /\ NumGroups' = NumGroups
    BY <2>1, SameFilesystem
  <2>3. Seen' = Seen /\ TableCalls' = TableCalls /\ InodeCalls' = InodeCalls /\ Results' = Results
    BY <2>1, <2>2 DEF Seen, TableCalls, InodeCalls, Results
  <2>4. pass' # "failed" => Due' = Due
    BY <2>1, <2>2, <2>3 DEF Due
  <2> QED
    BY <2>1, <2>2, <2>3, <2>4 DEF WalkInductive, DueDelivered
<1>2. CASE UNCHANGED parserVars
  <2>1. UNCHANGED <<group, index, recovered, pass>> /\ UNCHANGED filesystem
    BY <1>2 DEF parserVars, vars
  <2>2. Layout /\ Layout' /\ Wanted' = Wanted /\ inodes' = inodes /\ Groups(sb)' = Groups(sb) /\ NumGroups' = NumGroups
    BY <2>1, SameFilesystem DEF WalkInductive
  <2>3. Seen' = Seen /\ TableCalls' = TableCalls /\ InodeCalls' = InodeCalls /\ Results' = Results /\ Due' = Due
    BY <2>1, <2>2 DEF Seen, TableCalls, InodeCalls, Results, Due
  <2> QED
    BY <2>1, <2>2, <2>3 DEF WalkInductive, DueDelivered
<1> QED
  BY <1>1, <1>2, VisitStep, EndWalkStep, JournalStep DEF ParserNext

\* However large the groups, however they lie and whatever of them is to be
\* scanned, each deleted file is handed over once, and in order.
THEOREM ParserDeliversDeleted == ParserSpec => []DeletedDelivered
<1>1. WalkInductive => DeletedDelivered
  <2> SUFFICES ASSUME WalkInductive, pass \notin {"superblock", "walk", "failed"}
               PROVE  /\ {<<recovered[i].number, recovered[i].state>> : i \in InodeCalls} =
                             {<<n, inodes[n]>> : n \in Wanted}
                      /\ \A i, j \in TableCalls : i < j => recovered[i].number < recovered[j].number
                      /\ NumGroups <= Groups(sb) => InodeCalls = TableCalls
    BY DEF DeletedDelivered
  <2>1. DueDelivered /\ Due = Wanted
    BY DEF WalkInductive, Due
  <2> QED
    BY <2>1 DEF DueDelivered
<1> QED
  BY <1>1, WalkInit, WalkNext, PTL DEF ParserSpec

\* The file's blocks lie before its tree, and both on the disk.
Laid(f) ==
    /\ f.plan \in Seq(Steps)
    /\ FirstData + 2 * Len(f.plan) < TreeBase
    /\ TreeBase + 10 * (Len(f.plan) + 1) <= Blocks

\* The sizes are numbers, none of them zero.
LEMMA FileSizes ==
    /\ BlockSize \in Nat \ {0} /\ Blocks \in Nat \ {0} /\ NodeEntries \in Nat \ {0}
    /\ Direct \in Nat \ {0} /\ Pointers \in Nat \ {0} /\ MaxDepth \in Nat /\ Unwritten \in Nat \ {0}
    /\ FirstData \in Nat \ {0} /\ TreeBase \in Nat \ {0}
BY Ext4FileAssumption

-----------------------------------------------------------------------------
(* Where the blocks of a file lie.                                         *)

\* The blocks up to the k-th that are no holes, and those set apart.
MappedTo(f, k) == {j \in 1 .. k : Mapped(f, j)}

ApartTo(f, k) == {j \in 1 .. k : f.plan[j] = "apart"}

\* A set of numbers up to k, and with the number behind it.
LEMMA OneMore ==
    ASSUME NEW k \in Nat, NEW S, S \subseteq 1 .. k, NEW T, T = S \/ T = S \cup {k + 1}
    PROVE  /\ Cardinality(S) \in Nat
           /\ T = S => Cardinality(T) = Cardinality(S)
           /\ T = S \cup {k + 1} => Cardinality(T) = Cardinality(S) + 1
<1>1. IsFiniteSet(S) /\ k + 1 \notin S
  <2>1. IsFiniteSet(1 .. k)
    BY FS_Interval
  <2>2. IsFiniteSet(S)
    BY <2>1, FS_Subset
  <2>3. k + 1 \notin 1 .. k
    OBVIOUS
  <2> QED
    BY <2>2, <2>3
<1>2. Cardinality(S) \in Nat
  BY <1>1, FS_CardinalityType
<1>3. Cardinality(S \cup {k + 1}) = Cardinality(S) + 1
  BY <1>1, FS_AddElement
<1> QED
  BY <1>2, <1>3

\* A block that is no hole lies behind the one before it.
Placed(f) ==
    /\ Len(f.plan) \in Nat /\ DOMAIN f.plan = 1 .. Len(f.plan)
    /\ \A k \in 1 .. Len(f.plan) : Mapped(f, k) <=> f.plan[k] # "hole"
    /\ \A k \in 0 .. Len(f.plan) :
           Place(f, k) \in Nat /\ FirstData <= Place(f, k) /\ Place(f, k) <= FirstData + 2 * k
    /\ \A k \in 1 .. Len(f.plan) :
           /\ Mapped(f, k) => Place(f, k) > Place(f, k - 1)
           /\ Mapped(f, k) /\ f.plan[k] # "apart" => Place(f, k) = Place(f, k - 1) + 1
           /\ Place(f, k) >= Place(f, k - 1)
           /\ Mapped(f, k) => Place(f, k) < TreeBase /\ Place(f, k) < Blocks /\ Place(f, k) > 0

\* The places of a file that is laid out on the disk.
LEMMA PlaceFacts ==
    ASSUME NEW f, Laid(f)
    PROVE  Placed(f)
<1> DEFINE n == Len(f.plan)
<1>0. /\ n \in Nat /\ DOMAIN f.plan = 1 .. n /\ f.plan \in Seq(Steps)
      /\ FirstData + 2 * n < TreeBase /\ TreeBase + 10 * (n + 1) <= Blocks
  BY DEF Laid
<1>a. FirstData \in Nat \ {0} /\ TreeBase \in Nat \ {0} /\ Blocks \in Nat \ {0}
  BY FileSizes
<1>1. \A k \in 1 .. n : Mapped(f, k) <=> f.plan[k] # "hole"
  BY <1>0 DEF Mapped
<1>2. \A k \in 1 .. n : f.plan[k] = "apart" => Mapped(f, k)
  BY <1>1
<1>3. \A k \in 0 .. n : Place(f, k) = FirstData + Cardinality(MappedTo(f, k)) + Cardinality(ApartTo(f, k))
  BY DEF Place, MappedTo, ApartTo
<1> DEFINE T == {k \in 0 .. n : /\ Cardinality(MappedTo(f, k)) \in 0 .. k
                                /\ Cardinality(ApartTo(f, k)) \in 0 .. k}
<1>4. 0 \in T
  <2>1. MappedTo(f, 0) = {} /\ ApartTo(f, 0) = {}
    BY DEF MappedTo, ApartTo
  <2>2. Cardinality({}) = 0
    BY FS_EmptySet
  <2>3. Cardinality(MappedTo(f, 0)) = 0 /\ Cardinality(ApartTo(f, 0)) = 0
    BY <2>1, <2>2
  <2>4. 0 \in 0 .. n /\ 0 \in 0 .. 0
    BY <1>0
  <2> QED
    BY <2>3, <2>4
<1>5. ASSUME NEW k \in 0 .. n - 1
      PROVE  /\ Cardinality(MappedTo(f, k)) \in Nat /\ Cardinality(ApartTo(f, k)) \in Nat
             /\ Cardinality(MappedTo(f, k + 1)) = Cardinality(MappedTo(f, k)) + IF Mapped(f, k + 1) THEN 1 ELSE 0
             /\ Cardinality(ApartTo(f, k + 1)) = Cardinality(ApartTo(f, k)) + IF f.plan[k + 1] = "apart" THEN 1 ELSE 0
  <2>0. k \in Nat
    BY <1>0
  <2>1. MappedTo(f, k) \subseteq 1 .. k /\ ApartTo(f, k) \subseteq 1 .. k
    BY DEF MappedTo, ApartTo
  <2>2. 1 .. k + 1 = (1 .. k) \cup {k + 1}
    BY <2>0
  <2>3. MappedTo(f, k + 1) = IF Mapped(f, k + 1) THEN MappedTo(f, k) \cup {k + 1} ELSE MappedTo(f, k)
    BY <2>2 DEF MappedTo
  <2>4. ApartTo(f, k + 1) = IF f.plan[k + 1] = "apart" THEN ApartTo(f, k) \cup {k + 1} ELSE ApartTo(f, k)
    BY <2>2 DEF ApartTo
  <2>5. Cardinality(MappedTo(f, k)) \in Nat /\ Cardinality(ApartTo(f, k)) \in Nat
    BY <2>0, <2>1, OneMore
  <2>6. Cardinality(MappedTo(f, k + 1)) = Cardinality(MappedTo(f, k)) + IF Mapped(f, k + 1) THEN 1 ELSE 0
    <3>1. CASE Mapped(f, k + 1)
      <4>1. MappedTo(f, k + 1) = MappedTo(f, k) \cup {k + 1}
        BY <2>3, <3>1
      <4>2. Cardinality(MappedTo(f, k + 1)) = Cardinality(MappedTo(f, k)) + 1
        BY <2>0, <2>1, <4>1, OneMore
      <4> QED
        BY <3>1, <4>2
    <3>2. CASE ~Mapped(f, k + 1)
      <4>1. MappedTo(f, k + 1) = MappedTo(f, k)
        BY <2>3, <3>2
      <4> QED
        BY <2>5, <3>2, <4>1
    <3> QED
      BY <3>1, <3>2
  <2>7. Cardinality(ApartTo(f, k + 1)) = Cardinality(ApartTo(f, k)) + IF f.plan[k + 1] = "apart" THEN 1 ELSE 0
    <3>1. CASE f.plan[k + 1] = "apart"
      <4>1. ApartTo(f, k + 1) = ApartTo(f, k) \cup {k + 1}
        BY <2>4, <3>1
      <4>2. Cardinality(ApartTo(f, k + 1)) = Cardinality(ApartTo(f, k)) + 1
        BY <2>0, <2>1, <4>1, OneMore
      <4> QED
        BY <3>1, <4>2
    <3>2. CASE f.plan[k + 1] # "apart"
      <4>1. ApartTo(f, k + 1) = ApartTo(f, k)
        BY <2>4, <3>2
      <4> QED
        BY <2>5, <3>2, <4>1
    <3> QED
      BY <3>1, <3>2
  <2> QED
    BY <2>5, <2>6, <2>7
<1>6. ASSUME NEW k \in 0 .. n - 1, k \in T PROVE k + 1 \in T
  <2>1. Cardinality(MappedTo(f, k)) \in 0 .. k /\ Cardinality(ApartTo(f, k)) \in 0 .. k
    BY <1>6
  <2>2. Cardinality(MappedTo(f, k + 1)) \in 0 .. k + 1 /\ Cardinality(ApartTo(f, k + 1)) \in 0 .. k + 1
    BY <1>5, <2>1, SMTT(20)
  <2>3. k + 1 \in 0 .. n
    BY <1>0
  <2> QED
    BY <2>2, <2>3
<1>7. 0 .. n \subseteq T
  <2> HIDE DEF T
  <2> QED
    BY <1>0, <1>4, <1>6, UpTo
<1>8. ASSUME NEW k \in 0 .. n
      PROVE  Place(f, k) \in Nat /\ FirstData <= Place(f, k) /\ Place(f, k) <= FirstData + 2 * k
  BY <1>a, <1>3, <1>7
<1>9. ASSUME NEW k \in 1 .. n
      PROVE  /\ Mapped(f, k) => Place(f, k) > Place(f, k - 1)
             /\ Mapped(f, k) /\ f.plan[k] # "apart" => Place(f, k) = Place(f, k - 1) + 1
             /\ Place(f, k) >= Place(f, k - 1)
             /\ Mapped(f, k) => Place(f, k) < TreeBase /\ Place(f, k) < Blocks /\ Place(f, k) > 0
  <2>1. k - 1 \in 0 .. n - 1 /\ k - 1 \in 0 .. n /\ k \in 0 .. n /\ (k - 1) + 1 = k
    BY <1>0
  <2>2. /\ Cardinality(MappedTo(f, k - 1)) \in Nat /\ Cardinality(ApartTo(f, k - 1)) \in Nat
        /\ Cardinality(MappedTo(f, (k - 1) + 1)) = Cardinality(MappedTo(f, k - 1)) + IF Mapped(f, (k - 1) + 1) THEN 1 ELSE 0
        /\ Cardinality(ApartTo(f, (k - 1) + 1)) = Cardinality(ApartTo(f, k - 1)) + IF f.plan[(k - 1) + 1] = "apart" THEN 1 ELSE 0
    BY <1>5, <2>1
  <2>3. /\ Cardinality(MappedTo(f, k)) = Cardinality(MappedTo(f, k - 1)) + IF Mapped(f, k) THEN 1 ELSE 0
        /\ Cardinality(ApartTo(f, k)) = Cardinality(ApartTo(f, k - 1)) + IF f.plan[k] = "apart" THEN 1 ELSE 0
    BY <2>1, <2>2
  <2>4. /\ Place(f, k) = FirstData + Cardinality(MappedTo(f, k)) + Cardinality(ApartTo(f, k))
        /\ Place(f, k - 1) = FirstData + Cardinality(MappedTo(f, k - 1)) + Cardinality(ApartTo(f, k - 1))
    BY <1>3, <2>1
  <2>5. Place(f, k) <= FirstData + 2 * k /\ Place(f, k) \in Nat /\ FirstData <= Place(f, k)
    BY <1>8, <2>1
  <2>6. Place(f, k) < TreeBase /\ Place(f, k) < Blocks /\ Place(f, k) > 0
    BY <1>0, <1>a, <2>1, <2>5
  <2> QED
    BY <1>a, <2>2, <2>3, <2>4, <2>6, SMTT(20)
<1> QED
  BY <1>0, <1>1, <1>8, <1>9 DEF Placed

\* Places follow the order of the file.
LEMMA PlacesGrow ==
    ASSUME NEW f, Placed(f), NEW j \in 1 .. Len(f.plan), NEW k \in 1 .. Len(f.plan), j < k, Mapped(f, k)
    PROVE  Place(f, j) < Place(f, k)
<1> DEFINE n == Len(f.plan)
           T == {m \in 0 .. (k - 1) - j : Place(f, j) <= Place(f, j + m)}
<1>1. n \in Nat /\ \A m \in 0 .. n : Place(f, m) \in Nat
  BY DEF Placed
<1>2. 0 \in T
  <2>1. j + 0 = j /\ Place(f, j) \in Nat
    BY <1>1
  <2> QED
    BY <2>1
<1>3. ASSUME NEW m \in 0 .. (k - 1) - j - 1, m \in T PROVE m + 1 \in T
  <2>1. j + (m + 1) \in 1 .. n /\ (j + (m + 1)) - 1 = j + m /\ j + m \in 0 .. n /\ j + (m + 1) \in 0 .. n /\ m + 1 \in 0 .. (k - 1) - j
    BY <1>1
  <2>2. Place(f, j + (m + 1)) >= Place(f, (j + (m + 1)) - 1)
    BY <2>1 DEF Placed
  <2>3. Place(f, j + (m + 1)) >= Place(f, j + m)
    BY <2>1, <2>2
  <2>4. Place(f, j) <= Place(f, j + m)
    BY <1>3
  <2>5. Place(f, j) <= Place(f, j + (m + 1))
    BY <1>1, <2>1, <2>3, <2>4
  <2> QED
    BY <2>1, <2>5
<1>4. 0 .. (k - 1) - j \subseteq T
  <2>1. (k - 1) - j \in Nat
    BY <1>1
  <2> HIDE DEF T
  <2> QED
    BY <1>2, <1>3, <2>1, UpTo
<1>5. (k - 1) - j \in 0 .. (k - 1) - j /\ j + ((k - 1) - j) = k - 1
  BY <1>1
<1>6. Place(f, j) <= Place(f, j + ((k - 1) - j))
  BY <1>4, <1>5
<1>7. Place(f, j) <= Place(f, k - 1)
  BY <1>5, <1>6
<1>8. Place(f, k) > Place(f, k - 1) /\ k - 1 \in 0 .. n
  BY <1>1 DEF Placed
<1> QED
  BY <1>1, <1>7, <1>8

-----------------------------------------------------------------------------
(* The bytes of blocks.                                                    *)

\* Blocks counted in bytes.
LEMMA InBytes ==
    /\ \A a \in Nat : a * BlockSize \in Nat
    /\ \A a \in Nat : (a + 1) * BlockSize = a * BlockSize + BlockSize
    /\ \A a, b \in Nat : a <= b => a * BlockSize <= b * BlockSize
    /\ 0 * BlockSize = 0 /\ 1 * BlockSize = BlockSize
<1>1. BlockSize \in Nat \ {0}
  BY FileSizes
<1>2. \A z \in Nat \ {0} : \A a \in Nat : a * z \in Nat /\ (a + 1) * z = a * z + z
  OBVIOUS
<1>3. \A z \in Nat \ {0} : \A a, b \in Nat : a <= b => a * z <= b * z
  <2> SUFFICES ASSUME NEW z \in Nat \ {0}, NEW a \in Nat, NEW b \in Nat, a <= b
               PROVE  a * z <= b * z
    OBVIOUS
  <2>1. (b - a) * z >= 0 /\ (b - a) * z = b * z - a * z /\ a * z \in Nat /\ b * z \in Nat
    OBVIOUS
  <2> QED
    BY <2>1
<1> QED
  BY <1>1, <1>2, <1>3

\* All bytes that can be read.
Bytes == 0 .. Blocks * BlockSize - 1

\* The bytes of a block, which are of those that can be read if it is.
LEMMA BlockBytes ==
    ASSUME NEW b \in Nat
    PROVE  /\ BytesOf(b) \in Seq(Nat) /\ Len(BytesOf(b)) = BlockSize
           /\ \A o \in 1 .. BlockSize :
                  BytesOf(b)[o] = b * BlockSize + o - 1 /\ BytesOf(b)[o] \in Nat
           /\ b < Blocks => BytesOf(b) \in Seq(Bytes)
<1> DEFINE z == b * BlockSize
<1>1. z \in Nat /\ BlockSize \in Nat \ {0} /\ Blocks \in Nat
  BY FileSizes, InBytes
<1>2. BytesOf(b) = [o \in 1 .. BlockSize |-> z + o - 1]
  BY DEF BytesOf
<1> HIDE DEF z
<1>3. BytesOf(b) \in [1 .. BlockSize -> Nat]
  BY <1>1, <1>2
<1>4. BytesOf(b) \in Seq(Nat) /\ Len(BytesOf(b)) = BlockSize
  BY <1>1, <1>2, <1>3
<1>5. \A o \in 1 .. BlockSize : BytesOf(b)[o] = z + o - 1 /\ BytesOf(b)[o] \in Nat
  BY <1>1, <1>2
<1>6. ASSUME b < Blocks PROVE BytesOf(b) \in Seq(Bytes)
  <2>1. b + 1 \in Nat /\ b + 1 <= Blocks
    BY <1>1, <1>6
  <2>2. (b + 1) * BlockSize <= Blocks * BlockSize /\ (b + 1) * BlockSize = z + BlockSize
        /\ Blocks * BlockSize \in Nat
    BY <1>1, <2>1, InBytes DEF z
  <2> DEFINE e == Blocks * BlockSize
  <2>3. Bytes = 0 .. e - 1 /\ e \in Nat /\ z + BlockSize <= e
    BY <2>2 DEF Bytes
  <2> HIDE DEF e
  <2>4. BytesOf(b) \in [1 .. BlockSize -> Bytes]
    BY <1>1, <1>2, <2>3
  <2> QED
    BY <1>1, <2>4
<1> QED
  BY <1>4, <1>5, <1>6 DEF z

-----------------------------------------------------------------------------
(* The bytes of some of a file's blocks.                                   *)

\* What each block gives, if those of K are read.
Share(f, K) == [k \in 1 .. Len(f.plan) |-> IF k \in K THEN BytesOf(Place(f, k)) ELSE <<>>]

\* All blocks that are no holes, and the bytes of those of the first k that are in
\* K.
AllMapped(f) == MappedTo(f, Len(f.plan))

ReadOf(f, K, k) == FirstOf(Share(f, K), k)

\* Each block gives its bytes or none, and they are put one behind the other.
LEMMA ShareFacts ==
    ASSUME NEW f, Placed(f), NEW K
    PROVE  /\ \A k \in 1 .. Len(f.plan) :
                  /\ Share(f, K)[k] \in Seq(Nat)
                  /\ Share(f, K)[k] = IF k \in K THEN BytesOf(Place(f, k)) ELSE <<>>
                  /\ Len(Share(f, K)[k]) = IF k \in K THEN BlockSize ELSE 0
                  /\ Place(f, k) \in Nat
           /\ Extends(Share(f, K), Len(f.plan), Nat)
           /\ Len(f.plan) \in Nat
<1> DEFINE n == Len(f.plan)
<1>1. n \in Nat /\ \A k \in 1 .. n : Place(f, k) \in Nat
  <2>1. n \in Nat /\ \A k \in 0 .. n : Place(f, k) \in Nat
    BY DEF Placed
  <2> QED
    BY <2>1
<1>2. \A k \in 1 .. n : Share(f, K)[k] = IF k \in K THEN BytesOf(Place(f, k)) ELSE <<>>
  BY DEF Share
<1>3. \A k \in 1 .. n : BytesOf(Place(f, k)) \in Seq(Nat) /\ Len(BytesOf(Place(f, k))) = BlockSize
  BY <1>1, BlockBytes
<1>4. \A k \in 1 .. n : /\ Share(f, K)[k] \in Seq(Nat)
                        /\ Len(Share(f, K)[k]) = IF k \in K THEN BlockSize ELSE 0
  <2>1. <<>> \in Seq(Nat) /\ Len(<<>>) = 0
    OBVIOUS
  <2> QED
    BY <1>2, <1>3, <2>1
<1>5. Extends(Share(f, K), n, Nat)
  BY <1>1, <1>4, FirstOfFacts
<1> QED
  BY <1>1, <1>2, <1>4, <1>5

\* Increasing, and below the byte behind block b.
Rising(s, b) ==
    /\ s \in Seq(Nat)
    /\ \A p, q \in 1 .. Len(s) : p < q => s[p] < s[q]
    /\ \A p \in 1 .. Len(s) : s[p] < (b + 1) * BlockSize

\* The bytes of a block further back go on rising.
LEMMA RisingOn ==
    ASSUME NEW s, NEW b \in Nat, NEW c \in Nat, Rising(s, b), b < c
    PROVE  Rising(s \o BytesOf(c), c)
<1> DEFINE t == BytesOf(c)
           r == s \o t
           z == c * BlockSize
<1>1. z \in Nat /\ (c + 1) * BlockSize = z + BlockSize /\ BlockSize \in Nat \ {0}
      /\ (b + 1) * BlockSize <= z /\ (b + 1) * BlockSize \in Nat
  BY InBytes, FileSizes
<1>2. t \in Seq(Nat) /\ Len(t) = BlockSize /\ \A o \in 1 .. BlockSize : t[o] = z + o - 1
  BY BlockBytes
<1>3. s \in Seq(Nat) /\ \A p \in 1 .. Len(s) : s[p] < z /\ s[p] \in Nat
  <2>1. s \in Seq(Nat)
    BY DEF Rising
  <2>2. \A p \in 1 .. Len(s) : s[p] < (b + 1) * BlockSize /\ s[p] \in Nat
    BY <2>1 DEF Rising
  <2> HIDE DEF z
  <2> QED
    BY <1>1, <2>1, <2>2
<1> HIDE DEF t, z
<1>4. /\ r \in Seq(Nat) /\ Len(r) = Len(s) + BlockSize /\ Len(s) \in Nat
      /\ \A p \in 1 .. Len(s) : r[p] = s[p]
      /\ \A p \in Len(s) + 1 .. Len(s) + BlockSize : r[p] = t[p - Len(s)]
  <2>1. s \in Seq(Nat) /\ t \in Seq(Nat) /\ Len(t) = BlockSize
    BY <1>2, <1>3
  <2> QED
    BY <2>1
<1> HIDE DEF r
<1>5. \A p \in Len(s) + 1 .. Len(s) + BlockSize : r[p] = z + (p - Len(s)) - 1
  BY <1>1, <1>2, <1>4
<1>z. z \in Nat /\ BlockSize \in Nat \ {0}
  BY <1>1
<1>a. \A p \in 1 .. Len(s) : r[p] = s[p] /\ r[p] < z /\ r[p] \in Nat
  BY <1>3, <1>4
<1>b. Len(r) = Len(s) + BlockSize /\ Len(s) \in Nat
  BY <1>4
<1> DEFINE m == Len(s)
           l == Len(r)
<1>c. /\ m \in Nat /\ l = m + BlockSize
      /\ \A p \in 1 .. m : r[p] = s[p] /\ r[p] < z /\ r[p] \in Nat
      /\ \A p \in m + 1 .. l : r[p] = z + (p - m) - 1
  BY <1>a, <1>b, <1>5
<1> HIDE DEF m, l
<1>6. \A p \in 1 .. l : r[p] < z + BlockSize
  <2> SUFFICES ASSUME NEW p \in 1 .. l PROVE r[p] < z + BlockSize
    OBVIOUS
  <2>1. CASE p \in 1 .. m
    BY <1>z, <1>c, <2>1
  <2>2. CASE p \in m + 1 .. l
    <3>1. r[p] = z + (p - m) - 1
      BY <1>c, <2>2
    <3> QED
      BY <1>z, <1>c, <2>2, <3>1
  <2> QED
    BY <1>c, <1>z, <2>1, <2>2
<1>7. \A p, q \in 1 .. l : p < q => r[p] < r[q]
  <2> SUFFICES ASSUME NEW p \in 1 .. l, NEW q \in 1 .. l, p < q PROVE r[p] < r[q]
    OBVIOUS
  <2>1. CASE q \in 1 .. m
    <3>1. p \in 1 .. m
      BY <1>c, <2>1
    <3>2. s[p] < s[q]
      BY <2>1, <3>1 DEF Rising, m
    <3>3. r[p] = s[p] /\ r[q] = s[q]
      BY <1>c, <2>1, <3>1
    <3> QED
      BY <3>2, <3>3
  <2>2. CASE q \in m + 1 .. l /\ p \in 1 .. m
    <3>1. r[p] < z /\ r[p] \in Nat
      BY <1>c, <2>2
    <3>2. r[q] = z + (q - m) - 1
      BY <1>c, <2>2
    <3> QED
      BY <1>z, <1>c, <2>2, <3>1, <3>2
  <2>3. CASE p \in m + 1 .. l /\ q \in m + 1 .. l
    <3>1. r[p] = z + (p - m) - 1 /\ r[q] = z + (q - m) - 1
      BY <1>c, <2>3
    <3> QED
      BY <1>z, <1>c, <2>3, <3>1
  <2> QED
    BY <1>c, <1>z, <2>1, <2>2, <2>3
<1>8. r \in Seq(Nat) /\ (c + 1) * BlockSize = z + BlockSize
  BY <1>1, <1>4
<1> QED
  BY <1>6, <1>7, <1>8 DEF Rising, r, t, l

\* The bytes read are in the order of the disk.
LEMMA ReadRises ==
    ASSUME NEW f, Placed(f), NEW K, K \subseteq AllMapped(f)
    PROVE  /\ ReadOf(f, K, Len(f.plan)) \in Seq(Nat)
           /\ \A p, q \in 1 .. Len(ReadOf(f, K, Len(f.plan))) :
                  p < q => ReadOf(f, K, Len(f.plan))[p] < ReadOf(f, K, Len(f.plan))[q]
<1> DEFINE n == Len(f.plan)
           T == {k \in 0 .. n : Rising(ReadOf(f, K, k), Place(f, k))}
<1>1. /\ n \in Nat /\ \A k \in 0 .. n : Place(f, k) \in Nat
      /\ \A k \in 1 .. n : /\ Mapped(f, k) => Place(f, k) > Place(f, k - 1)
                           /\ Place(f, k) >= Place(f, k - 1)
  BY DEF Placed
<1>2. /\ ReadOf(f, K, 0) = <<>>
      /\ \A k \in 0 .. n - 1 : ReadOf(f, K, k + 1) = ReadOf(f, K, k) \o Share(f, K)[k + 1]
      /\ \A k \in 0 .. n : ReadOf(f, K, k) \in Seq(Nat)
  BY ShareFacts DEF Extends, ReadOf
<1>3. 0 \in T
  <2>1. Rising(<<>>, Place(f, 0))
    BY DEF Rising
  <2> QED
    BY <1>1, <1>2, <2>1
<1>4. ASSUME NEW k \in 0 .. n - 1, k \in T PROVE k + 1 \in T
  <2>1. k + 1 \in 1 .. n /\ (k + 1) - 1 = k /\ k \in 0 .. n /\ k + 1 \in 0 .. n
    BY <1>1
  <2>2. Rising(ReadOf(f, K, k), Place(f, k))
    BY <1>4
  <2>3. Place(f, k) \in Nat /\ Place(f, k + 1) \in Nat /\ Place(f, k + 1) >= Place(f, (k + 1) - 1)
        /\ (Mapped(f, k + 1) => Place(f, k + 1) > Place(f, (k + 1) - 1))
    BY <1>1, <2>1
  <2>4. Share(f, K)[k + 1] = IF k + 1 \in K THEN BytesOf(Place(f, k + 1)) ELSE <<>>
    BY <2>1, ShareFacts
  <2>5. CASE k + 1 \in K
    <3>1. Mapped(f, k + 1)
      BY <2>5 DEF AllMapped, MappedTo
    <3>2. Rising(ReadOf(f, K, k) \o BytesOf(Place(f, k + 1)), Place(f, k + 1))
      <4>1. Place(f, k) < Place(f, k + 1)
        BY <2>1, <2>3, <3>1
      <4> QED
        BY <2>2, <2>3, <4>1, RisingOn
    <3>3. ReadOf(f, K, k + 1) = ReadOf(f, K, k) \o BytesOf(Place(f, k + 1))
      BY <1>2, <2>4, <2>5
    <3> QED
      BY <2>1, <3>2, <3>3
  <2>6. CASE k + 1 \notin K
    <3>1. ReadOf(f, K, k) \in Seq(Nat) /\ ReadOf(f, K, k + 1) = ReadOf(f, K, k) \o <<>>
      BY <1>2, <2>1, <2>4, <2>6
    <3>2. ReadOf(f, K, k + 1) = ReadOf(f, K, k)
      BY <3>1
    <3>3. (Place(f, k) + 1) * BlockSize <= (Place(f, k + 1) + 1) * BlockSize
          /\ (Place(f, k) + 1) * BlockSize \in Nat /\ (Place(f, k + 1) + 1) * BlockSize \in Nat
      <4>1. Place(f, k) + 1 \in Nat /\ Place(f, k + 1) + 1 \in Nat /\ Place(f, k) + 1 <= Place(f, k + 1) + 1
        BY <2>1, <2>3
      <4> QED
        BY <4>1, InBytes
    <3>4. Rising(ReadOf(f, K, k), Place(f, k + 1))
      <4> DEFINE s == ReadOf(f, K, k)
                 a == (Place(f, k) + 1) * BlockSize
                 b == (Place(f, k + 1) + 1) * BlockSize
      <4>1. s \in Seq(Nat) /\ a <= b /\ a \in Nat /\ b \in Nat
        BY <3>1, <3>3
      <4>2. \A p \in 1 .. Len(s) : s[p] < a
        BY <2>2 DEF Rising
      <4>3. \A p, q \in 1 .. Len(s) : p < q => s[p] < s[q]
        BY <2>2 DEF Rising
      <4> HIDE DEF a, b, s
      <4>4. \A p \in 1 .. Len(s) : s[p] < b
        BY <4>1, <4>2
      <4> QED
        BY <4>1, <4>3, <4>4 DEF Rising, s, b
    <3> QED
      BY <2>1, <3>2, <3>4
  <2> QED
    BY <2>5, <2>6
<1>5. 0 .. n \subseteq T
  <2> HIDE DEF T
  <2> QED
    BY <1>1, <1>3, <1>4, UpTo
<1>6. n \in 0 .. n
  BY <1>1
<1>7. Rising(ReadOf(f, K, n), Place(f, n))
  BY <1>5, <1>6
<1> QED
  BY <1>7 DEF Rising

\* Where the bytes of a block stand, and of which block a byte is.
Standing(f, K, s) ==
    /\ s \in Seq(Nat)
    /\ \A k \in 1 .. Len(f.plan) : k \in K =>
           \A o \in 1 .. BlockSize :
               /\ Len(ReadOf(f, K, k - 1)) + o \in 1 .. Len(s)
               /\ s[Len(ReadOf(f, K, k - 1)) + o] = BytesOf(Place(f, k))[o]
    /\ \A p \in 1 .. Len(s) :
           \E k \in 1 .. Len(f.plan) : \E o \in 1 .. BlockSize :
               /\ k \in K /\ p = Len(ReadOf(f, K, k - 1)) + o
               /\ s[p] = BytesOf(Place(f, k))[o]

\* What is read of a file stands where the blocks read before it end.
LEMMA ReadPlaces ==
    ASSUME NEW f, Placed(f), NEW K
    PROVE  Standing(f, K, ReadOf(f, K, Len(f.plan)))
<1> DEFINE n == Len(f.plan)
           g == Share(f, K)
           s == FirstOf(g, n)
<1>1. n \in Nat /\ \A k \in 1 .. n : g[k] \in Seq(Nat)
  BY ShareFacts
<1>2. \A k \in 1 .. n : /\ Len(g[k]) = IF k \in K THEN BlockSize ELSE 0
                        /\ k \in K => g[k] = BytesOf(Place(f, k))
  BY ShareFacts
<1>3. s \in Seq(Nat)
  BY <1>1, ShareFacts DEF Extends
<1> HIDE DEF g, n
<1>4. /\ \A k \in 1 .. n : \A o \in 1 .. Len(g[k]) :
             /\ Len(FirstOf(g, k - 1)) + o \in 1 .. Len(s)
             /\ s[Len(FirstOf(g, k - 1)) + o] = g[k][o]
      /\ \A p \in 1 .. Len(s) :
             \E k \in 1 .. n : \E o \in 1 .. Len(g[k]) : p = Len(FirstOf(g, k - 1)) + o
  <2>1. Arranged(g, n)
    BY <1>1, Pieces
  <2> QED
    BY <2>1, Zenon DEF Arranged
<1>5. \A k \in 1 .. n : k \in K => \A o \in 1 .. BlockSize :
             /\ Len(FirstOf(g, k - 1)) + o \in 1 .. Len(s)
             /\ s[Len(FirstOf(g, k - 1)) + o] = BytesOf(Place(f, k))[o]
  BY <1>2, <1>4
<1>6. ASSUME NEW p \in 1 .. Len(s)
      PROVE  \E k \in 1 .. n : \E o \in 1 .. BlockSize :
                 /\ k \in K /\ p = Len(FirstOf(g, k - 1)) + o
                 /\ s[p] = BytesOf(Place(f, k))[o]
  <2>1. PICK k \in 1 .. n : \E o \in 1 .. Len(g[k]) : p = Len(FirstOf(g, k - 1)) + o
    BY <1>4
  <2>2. PICK o \in 1 .. Len(g[k]) : p = Len(FirstOf(g, k - 1)) + o
    BY <2>1
  <2>3. k \in K /\ o \in 1 .. BlockSize
    BY <1>2
  <2>4. s[p] = BytesOf(Place(f, k))[o]
    BY <1>5, <2>2, <2>3
  <2> QED
    BY <2>2, <2>3, <2>4
<1> QED
  BY <1>3, <1>5, <1>6 DEF g, n, ReadOf, Standing

\* What is read of fewer blocks is in the order of what is read of more.
LEMMA FewerInOrder ==
    ASSUME NEW f, Placed(f), NEW K, NEW M, K \subseteq M, M \subseteq AllMapped(f),
           NEW m \in Nat
    PROVE  InOrderOf(SubSeq(ReadOf(f, K, Len(f.plan)), 1, Least(Len(ReadOf(f, K, Len(f.plan))), m)),
                     ReadOf(f, M, Len(f.plan)))
<1> DEFINE s == ReadOf(f, K, Len(f.plan))
           c == ReadOf(f, M, Len(f.plan))
           t == SubSeq(s, 1, Least(Len(s), m))
<1>1. s \in Seq(Nat) /\ c \in Seq(Nat)
      /\ \A p, q \in 1 .. Len(s) : p < q => s[p] < s[q]
      /\ \A x, y \in 1 .. Len(c) : x < y => c[x] < c[y]
  BY ReadRises
<1>c. \A x, y \in 1 .. Len(c) : x < y => c[x] < c[y]
  BY ReadRises
<1>2. \A p \in 1 .. Len(s) : \E q \in 1 .. Len(c) : c[q] = s[p]
  <2> SUFFICES ASSUME NEW p \in 1 .. Len(s) PROVE \E q \in 1 .. Len(c) : c[q] = s[p]
    OBVIOUS
  <2>a. Standing(f, K, s) /\ Standing(f, M, c)
    BY ReadPlaces
  <2> HIDE DEF s, c
  <2>1. PICK k \in 1 .. Len(f.plan) : \E o \in 1 .. BlockSize :
                          /\ k \in K /\ p = Len(ReadOf(f, K, k - 1)) + o
                          /\ s[p] = BytesOf(Place(f, k))[o]
    BY <2>a, Zenon DEF Standing
  <2>2. PICK o \in 1 .. BlockSize : k \in K /\ s[p] = BytesOf(Place(f, k))[o]
    BY <2>1
  <2>3. k \in M
    BY <2>2
  <2>4. Len(ReadOf(f, M, k - 1)) + o \in 1 .. Len(c)
        /\ c[Len(ReadOf(f, M, k - 1)) + o] = BytesOf(Place(f, k))[o]
    BY <2>a, <2>3 DEF Standing
  <2> QED
    BY <2>2, <2>4
<1> HIDE DEF s, c
<1>3. Least(Len(s), m) \in 0 .. Len(s)
  BY <1>1 DEF Least
<1>4. t \in Seq(Nat) /\ Len(t) <= Len(s) /\ Len(t) \in Nat /\ DOMAIN t = 1 .. Len(t)
      /\ \A p \in 1 .. Len(t) : t[p] = s[p]
  BY <1>1, <1>3
<1> HIDE DEF t
<1>5. Range(t) \subseteq Range(c)
  <2> SUFFICES ASSUME NEW x \in Range(t) PROVE x \in Range(c)
    OBVIOUS
  <2>1. PICK p \in DOMAIN t : x = t[p]
    BY DEF Range
  <2>2. p \in 1 .. Len(s) /\ x = s[p]
    BY <1>1, <1>4, <2>1
  <2>3. PICK q \in 1 .. Len(c) : c[q] = x
    BY <1>2, <2>2
  <2> QED
    BY <1>1, <2>3 DEF Range
<1>6. ASSUME NEW i \in DOMAIN t, NEW j \in DOMAIN t, i < j
      PROVE  \E a, b \in DOMAIN c : a < b /\ c[a] = t[i] /\ c[b] = t[j]
  <2>1. i \in 1 .. Len(s) /\ j \in 1 .. Len(s) /\ t[i] = s[i] /\ t[j] = s[j]
    BY <1>1, <1>4
  <2>2. s[i] < s[j] /\ s[i] \in Nat /\ s[j] \in Nat
    BY <1>1, <1>6, <2>1
  <2>3. PICK a \in 1 .. Len(c) : c[a] = s[i]
    BY <1>2, <2>1
  <2>4. PICK b \in 1 .. Len(c) : c[b] = s[j]
    BY <1>2, <2>1
  <2>5. Len(c) \in Nat /\ DOMAIN c = 1 .. Len(c)
    BY <1>1
  <2>6. a < b
    <3> SUFFICES ASSUME b <= a PROVE FALSE
      BY <2>5
    <3>1. CASE a = b
      BY <2>2, <2>3, <2>4, <3>1
    <3>2. CASE b < a
      <4>0. \A x, y \in 1 .. Len(c) : x < y => c[x] < c[y]
        BY <1>c, Zenon
      <4>1. c[b] < c[a]
        BY <3>2, <4>0, Zenon
      <4> QED
        BY <2>2, <2>3, <2>4, <4>1
    <3> QED
      BY <2>5, <3>1, <3>2
  <2> QED
    BY <2>1, <2>3, <2>4, <2>5, <2>6
<1>7. InOrderOf(t, c)
  BY <1>5, <1>6 DEF InOrderOf
<1> QED
  BY <1>7 DEF s, c, t

\* Of the first bytes of more, those of blocks that are read come among the first
\* of fewer.
LEMMA FirstBytes ==
    ASSUME NEW f, Placed(f), NEW K, NEW M, K \subseteq M, M \subseteq AllMapped(f),
           NEW size \in Nat,
           NEW p \in 1 .. Len(ReadOf(f, M, Len(f.plan))), p <= size
    PROVE  \/ \E k \in M \ K : ReadOf(f, M, Len(f.plan))[p] \in Range(BytesOf(Place(f, k)))
           \/ ReadOf(f, M, Len(f.plan))[p] \in
                  Range(SubSeq(ReadOf(f, K, Len(f.plan)), 1, Least(Len(ReadOf(f, K, Len(f.plan))), size)))
<1> DEFINE n == Len(f.plan)
           s == ReadOf(f, K, n)
           c == ReadOf(f, M, n)
           t == SubSeq(s, 1, Least(Len(s), size))
           T == {k \in 0 .. n : Len(ReadOf(f, K, k)) <= Len(ReadOf(f, M, k))}
<1>1. n \in Nat /\ s \in Seq(Nat) /\ c \in Seq(Nat) /\ BlockSize \in Nat \ {0}
  BY ReadRises, ShareFacts, FileSizes
<1>2. 0 \in T
  <2>1. ReadOf(f, K, 0) = <<>> /\ ReadOf(f, M, 0) = <<>>
    BY ShareFacts DEF Extends, ReadOf
  <2> QED
    BY <1>1, <2>1
<1>3. ASSUME NEW k \in 0 .. n - 1, k \in T PROVE k + 1 \in T
  <2>1. k + 1 \in 1 .. n /\ k \in 0 .. n /\ k + 1 \in 0 .. n
    BY <1>1
  <2>2. /\ ReadOf(f, K, k + 1) = ReadOf(f, K, k) \o Share(f, K)[k + 1]
        /\ ReadOf(f, M, k + 1) = ReadOf(f, M, k) \o Share(f, M)[k + 1]
        /\ ReadOf(f, K, k) \in Seq(Nat) /\ ReadOf(f, M, k) \in Seq(Nat)
    <3>1. Extends(Share(f, K), n, Nat) /\ Extends(Share(f, M), n, Nat)
      BY ShareFacts
    <3> QED
      BY <2>1, <3>1 DEF Extends, ReadOf
  <2>3. /\ Share(f, K)[k + 1] \in Seq(Nat) /\ Share(f, M)[k + 1] \in Seq(Nat)
        /\ Len(Share(f, K)[k + 1]) = IF k + 1 \in K THEN BlockSize ELSE 0
        /\ Len(Share(f, M)[k + 1]) = IF k + 1 \in M THEN BlockSize ELSE 0
    BY <2>1, ShareFacts
  <2>4. Len(Share(f, K)[k + 1]) <= Len(Share(f, M)[k + 1])
    BY <1>1, <2>3
  <2>5. Len(ReadOf(f, K, k)) <= Len(ReadOf(f, M, k))
    BY <1>3
  <2>6. Len(ReadOf(f, K, k + 1)) <= Len(ReadOf(f, M, k + 1))
    <3> DEFINE x == ReadOf(f, K, k)
               y == ReadOf(f, M, k)
               u == Share(f, K)[k + 1]
               v == Share(f, M)[k + 1]
    <3>1. x \in Seq(Nat) /\ y \in Seq(Nat) /\ u \in Seq(Nat) /\ v \in Seq(Nat)
          /\ Len(u) <= Len(v) /\ Len(x) <= Len(y)
      BY <2>2, <2>3, <2>4, <2>5
    <3> HIDE DEF x, y, u, v
    <3>2. Len(x \o u) <= Len(y \o v)
      BY <3>1
    <3> QED
      BY <2>2, <3>2 DEF x, y, u, v
  <2> QED
    BY <2>1, <2>6
<1>4. 0 .. n \subseteq T
  <2> HIDE DEF T
  <2> QED
    BY <1>1, <1>2, <1>3, UpTo
<1>s. Standing(f, K, s) /\ Standing(f, M, c)
  BY ReadPlaces
<1>5. PICK k \in 1 .. n : \E o \in 1 .. BlockSize :
                          /\ k \in M /\ p = Len(ReadOf(f, M, k - 1)) + o
                          /\ c[p] = BytesOf(Place(f, k))[o]
  <2>1. p \in 1 .. Len(c)
    OBVIOUS
  <2> HIDE DEF s, c
  <2> QED
    BY <1>s, <2>1, Zenon DEF Standing, n
<1>6. PICK o \in 1 .. BlockSize : k \in M /\ p = Len(ReadOf(f, M, k - 1)) + o /\ c[p] = BytesOf(Place(f, k))[o]
  BY <1>5
<1>7. CASE k \notin K
  <2>1. BytesOf(Place(f, k)) \in Seq(Nat) /\ Len(BytesOf(Place(f, k))) = BlockSize
    BY ShareFacts, BlockBytes
  <2>2. c[p] \in Range(BytesOf(Place(f, k)))
    BY <1>6, <2>1, SMTT(20) DEF Range
  <2> QED
    BY <1>6, <1>7, <2>2
<1>8. CASE k \in K
  <2> DEFINE q == Len(ReadOf(f, K, k - 1)) + o
  <2>1. q \in 1 .. Len(s) /\ s[q] = c[p]
    BY <1>6, <1>8, ReadPlaces, ZenonT(30) DEF Standing
  <2>2. Len(ReadOf(f, K, k - 1)) <= Len(ReadOf(f, M, k - 1))
    <3>1. k - 1 \in 0 .. n
      BY <1>1
    <3> QED
      BY <1>4, <3>1
  <2>3. Len(ReadOf(f, K, k - 1)) \in Nat /\ Len(ReadOf(f, M, k - 1)) \in Nat
    <3>1. k - 1 \in 0 .. n
      BY <1>1
    <3>2. ReadOf(f, K, k - 1) \in Seq(Nat) /\ ReadOf(f, M, k - 1) \in Seq(Nat)
      BY <3>1, ShareFacts DEF Extends, ReadOf
    <3> QED
      BY <3>2
  <2>4. q <= size
    BY <1>6, <2>2, <2>3
  <2> HIDE DEF q, s, c
  <2>5. q \in DOMAIN t /\ t[q] = s[q]
    BY <1>1, <2>1, <2>4 DEF Least
  <2>6. c[p] \in Range(t)
    BY <2>1, <2>5 DEF Range
  <2> QED
    BY <2>6 DEF c, s
<1> QED
  BY <1>7, <1>8

-----------------------------------------------------------------------------
(* The extents of a file.                                                  *)

\* Any extent.
Extent == [start : Nat, length : Nat]

\* What the k-th block makes of the extents x.
Lengthened(f, x, k, y) ==
    /\ y \in Seq(Extent) /\ Len(y) <= Len(x) + 1
    /\ ~Mapped(f, k) => y = x
    /\ Continues(f, k) /\ x # <<>> =>
           /\ Len(y) = Len(x)
           /\ \A i \in 1 .. Len(x) - 1 : y[i] = x[i]
           /\ y[Len(x)].start = x[Len(x)].start
           /\ y[Len(x)].length = x[Len(x)].length + 1
    /\ Mapped(f, k) /\ ~Continues(f, k) =>
           /\ Len(y) = Len(x) + 1
           /\ \A i \in 1 .. Len(x) : y[i] = x[i]
           /\ y[Len(x) + 1].start = Place(f, k)
           /\ y[Len(x) + 1].length \in Nat \ {0}
           /\ f.plan[k] # "preallocated" => y[Len(x) + 1].length = 1

\* One block more is a hole, makes the last extent longer or begins one.
LEMMA WithBlockFacts ==
    ASSUME NEW f, Placed(f), NEW k \in 1 .. Len(f.plan), NEW x \in Seq(Extent)
    PROVE  Lengthened(f, x, k, WithBlock(f, x, k))
<1> DEFINE y == WithBlock(f, x, k)
           new == [start |-> Place(f, k), length |-> 1 + IF f.plan[k] = "preallocated" THEN Unwritten ELSE 0]
<1> SUFFICES Lengthened(f, x, k, y)
  OBVIOUS
<1>1. Place(f, k) \in Nat /\ Unwritten \in Nat /\ Len(f.plan) \in Nat
  <2>1. Len(f.plan) \in Nat /\ \A j \in 0 .. Len(f.plan) : Place(f, j) \in Nat
    BY DEF Placed
  <2> QED
    BY <2>1, FileSizes
<1>2. new \in Extent /\ new.start = Place(f, k) /\ new.length \in Nat \ {0}
      /\ (f.plan[k] # "preallocated" => new.length = 1)
  BY <1>1 DEF Extent
<1>3. Len(x) \in Nat /\ x = [i \in 1 .. Len(x) |-> x[i]] /\ \A i \in 1 .. Len(x) : x[i] \in Extent
  OBVIOUS
<1>4. Continues(f, k) => Mapped(f, k)
  BY DEF Continues
<1>5. CASE ~Mapped(f, k)
  <2>0. ~Continues(f, k)
    BY <1>4, <1>5
  <2>1. y = x
    BY <1>5, <2>0, Zenon DEF WithBlock
  <2> HIDE DEF y
  <2>2. y \in Seq(Extent) /\ Len(y) <= Len(x) + 1
    BY <1>3, <2>1
  <2> QED
    BY <1>5, <2>0, <2>1, <2>2, Zenon DEF Lengthened
<1>6. CASE Continues(f, k)
  <2>1. y = [x EXCEPT ![Len(x)].length = @ + 1]
    BY <1>4, <1>6 DEF WithBlock
  <2>2. CASE x = <<>>
    <3>1. y = <<>>
      BY <2>1, <2>2
    <3> HIDE DEF y
    <3>2. y \in Seq(Extent) /\ Len(y) <= Len(x) + 1
      BY <2>2, <3>1
    <3>3. Mapped(f, k)
      BY <1>4, <1>6
    <3> QED
      BY <1>6, <2>2, <3>2, <3>3, Zenon DEF Lengthened
  <2>3. CASE x # <<>>
    <3>1. Len(x) \in 1 .. Len(x)
      BY <1>3, <2>3
    <3>2. x[Len(x)].start \in Nat /\ x[Len(x)].length \in Nat
      BY <1>3, <3>1 DEF Extent
    <3> DEFINE last == [start |-> x[Len(x)].start, length |-> x[Len(x)].length + 1]
    <3>3. last \in Extent
      BY <3>2 DEF Extent
    <3>4. [x[Len(x)] EXCEPT !.length = @ + 1] = last
      BY <1>3, <3>1 DEF Extent
    <3>5. y = [i \in 1 .. Len(x) |-> IF i = Len(x) THEN last ELSE x[i]]
      BY <1>3, <2>1, <3>4
    <3>6. last.start = x[Len(x)].start /\ last.length = x[Len(x)].length + 1
      OBVIOUS
    <3> HIDE DEF last, y
    <3>7. y \in Seq(Extent) /\ Len(y) = Len(x)
      <4>1. y \in [1 .. Len(x) -> Extent]
        BY <1>3, <3>3, <3>5
      <4> QED
        BY <1>3, <3>5, <4>1
    <3>8. \A i \in 1 .. Len(x) - 1 : y[i] = x[i]
      BY <1>3, <3>5
    <3>9. y[Len(x)] = last
      BY <3>1, <3>5
    <3>a. Len(y) <= Len(x) + 1 /\ Mapped(f, k)
      BY <1>3, <1>4, <1>6, <3>7
    <3> QED
      BY <1>6, <3>6, <3>7, <3>8, <3>9, <3>a, Zenon DEF Lengthened
  <2> QED
    BY <2>2, <2>3
<1>7. CASE Mapped(f, k) /\ ~Continues(f, k)
  <2>1. y = Append(x, new)
    BY <1>7 DEF WithBlock
  <2> HIDE DEF new, y
  <2>2. y \in Seq(Extent) /\ Len(y) = Len(x) + 1 /\ y[Len(x) + 1] = new
        /\ \A i \in 1 .. Len(x) : y[i] = x[i]
    BY <1>2, <1>3, <2>1
  <2>3. Len(y) <= Len(x) + 1
    BY <1>3, <2>2
  <2> QED
    BY <1>2, <1>7, <2>2, <2>3, Zenon DEF Lengthened
<1> QED
  BY <1>4, <1>5, <1>6, <1>7

\* The extents of the first blocks follow from those of one block less.
SoFar(f) ==
    /\ ExtentsSoFar(f)[0] = <<>>
    /\ \A k \in 0 .. Len(f.plan) : ExtentsSoFar(f)[k] \in Seq(Extent)
    /\ \A k \in 1 .. Len(f.plan) :
           ExtentsSoFar(f)[k] = WithBlock(f, ExtentsSoFar(f)[k - 1], k)

\* The extents come about block by block.
LEMMA SoFarFacts ==
    ASSUME NEW f, Placed(f)
    PROVE  SoFar(f)
<1> DEFINE len == Len(f.plan)
           soFar[k \in 0 .. Len(f.plan)] ==
               IF k = 0 THEN <<>> ELSE WithBlock(f, soFar[k - 1], k)
           step == [k \in 1 .. len |-> [x \in Seq(Extent) |-> WithBlock(f, x, k)]]
<1>1. ExtentsSoFar(f) = soFar
  BY DEF ExtentsSoFar
<1>2. len \in Nat /\ <<>> \in Seq(Extent)
  BY DEF Placed
<1>3. PICK g : Follows(g, Seq(Extent), <<>>, len, step)
  <2>1. step \in [1 .. len -> [Seq(Extent) -> Seq(Extent)]]
    <3>1. \A k \in 1 .. len : \A x \in Seq(Extent) : WithBlock(f, x, k) \in Seq(Extent)
      BY WithBlockFacts DEF Lengthened
    <3> HIDE DEF len
    <3> QED
      BY <3>1
  <2> HIDE DEF step, len
  <2> QED
    BY <1>2, <2>1, Recursion, Zenon
<1>4. /\ g \in [0 .. len -> Seq(Extent)] /\ g[0] = <<>>
      /\ \A k \in 1 .. len : g[k] = WithBlock(f, g[k - 1], k)
  <2>1. \A k \in 1 .. len : k - 1 \in 0 .. len
    BY <1>2
  <2> QED
    BY <1>3, <2>1 DEF Follows
<1>5. g = [k \in 0 .. Len(f.plan) |-> IF k = 0 THEN <<>> ELSE WithBlock(f, g[k - 1], k)]
  BY <1>4
<1>6. soFar = [k \in 0 .. Len(f.plan) |-> IF k = 0 THEN <<>> ELSE WithBlock(f, soFar[k - 1], k)]
  <2> HIDE DEF step
  <2> QED
    BY <1>5
<1>7. soFar = g
  <2>1. GoTogether(g, soFar, len)
    <3> HIDE DEF step, soFar
    <3>1. g = [k \in 0 .. len |-> g[k]] /\ soFar = [k \in 0 .. len |-> soFar[k]]
      BY <1>4, <1>6
    <3>2. soFar[0] = <<>> /\ \A k \in 1 .. len : soFar[k] = WithBlock(f, soFar[k - 1], k)
      BY <1>2, <1>6
    <3> QED
      BY <1>4, <3>1, <3>2 DEF GoTogether
  <2> HIDE DEF soFar, len
  <2> QED
    BY <1>2, <2>1, Same, Zenon
<1> HIDE DEF soFar, step
<1> QED
  BY <1>1, <1>4, <1>7 DEF SoFar

-----------------------------------------------------------------------------
(* What is read of extents.                                                *)

\* What is read of extents.
ReadsOf(f, x) == [i \in 1 .. Len(x) |-> ReadExtent(f, x[i])]

\* What is read of an extent, and whether all of it can be.
ReadTo(f, s, l) == ReadExtent(f, [start |-> s, length |-> l])

AllRead(f, s, l) == \A j \in 1 .. l : Readable(f, s + j - 1)

\* An extent one block longer gives that block, if it and those before it can be
\* read.
Reading(f, s) ==
    /\ ReadTo(f, s, 0) = <<>>
    /\ \A l \in Nat :
           /\ ReadTo(f, s, l) \in Seq(Bytes)
           /\ s > 0 => ReadTo(f, s, l + 1) =
                  IF AllRead(f, s, l + 1) THEN ReadTo(f, s, l) \o BytesOf(s + l) ELSE ReadTo(f, s, l)

\* Reading an extent, and one that is a block longer.
LEMMA ReadExtentFacts ==
    ASSUME NEW f, NEW s \in Nat
    PROVE  Reading(f, s)
<1> DEFINE B(l) == {j \in 1 .. l : s # 0 /\ AllRead(f, s, j)}
           R(l) == FlattenSeq([j \in B(l) |-> BytesOf(s + j - 1)])
<1>1. ASSUME NEW l \in Nat PROVE ReadTo(f, s, l) = R(l)
  <2>1. [start |-> s, length |-> l].start = s /\ [start |-> s, length |-> l].length = l
    OBVIOUS
  <2> QED
    BY <2>1 DEF ReadTo, ReadExtent, AllRead
<1>2. ASSUME B(0) = {} PROVE R(0) = <<>>
  <2>1. [j \in B(0) |-> BytesOf(s + j - 1)] = <<>>
    BY <1>2
  <2> QED
    BY <2>1, FlattenFew
<1>3. R(0) = <<>>
  <2>1. B(0) = {}
    OBVIOUS
  <2> QED
    BY <1>2, <2>1
<1>4. <<>> \in Seq(Bytes)
  OBVIOUS
<1>5. ASSUME NEW l \in Nat, s > 0
      PROVE  /\ AllRead(f, s, l + 1) => R(l + 1) = R(l) \o BytesOf(s + l) /\ R(l) \in Seq(Bytes)
                                        /\ BytesOf(s + l) \in Seq(Bytes)
             /\ ~AllRead(f, s, l + 1) => R(l + 1) = R(l)
  <2>1. CASE AllRead(f, s, l + 1)
    <3> DEFINE G == [j \in 1 .. l + 1 |-> BytesOf(s + j - 1)]
    <3>1. \A j \in 1 .. l + 1 : Readable(f, s + j - 1)
      BY <2>1 DEF AllRead
    <3>2. \A j \in 1 .. l + 1 : AllRead(f, s, j)
      <4> SUFFICES ASSUME NEW j \in 1 .. l + 1, NEW i \in 1 .. j PROVE Readable(f, s + i - 1)
        BY DEF AllRead
      <4>1. i \in 1 .. l + 1
        OBVIOUS
      <4> QED
        BY <3>1, <4>1
    <3>3. B(l) = 1 .. l /\ B(l + 1) = 1 .. l + 1
      BY <1>5, <3>2
    <3>4. \A j \in 1 .. l + 1 : s + j - 1 \in Nat /\ s + j - 1 < Blocks
      BY <3>1 DEF Readable
    <3>5. \A j \in 1 .. l + 1 : BytesOf(s + j - 1) \in Seq(Bytes)
      BY <3>4, BlockBytes
    <3>6. \A j \in 1 .. l + 1 : G[j] = BytesOf(s + j - 1) /\ G[j] \in Seq(Bytes)
      BY <3>5
    <3>7. [j \in B(l) |-> BytesOf(s + j - 1)] = [j \in 1 .. l |-> G[j]]
      BY <3>3, <3>6
    <3>8. [j \in B(l + 1) |-> BytesOf(s + j - 1)] = [j \in 1 .. l + 1 |-> G[j]]
      BY <3>3, <3>6
    <3>9. R(l) = FirstOf(G, l) /\ R(l + 1) = FirstOf(G, l + 1)
      BY <3>7, <3>8 DEF FirstOf
    <3> HIDE DEF G
    <3>10. Extends(G, l + 1, Bytes)
      BY <3>6, FirstOfFacts
    <3>11. l \in 0 .. (l + 1) - 1 /\ l \in 0 .. l + 1
      OBVIOUS
    <3>12. FirstOf(G, l + 1) = FirstOf(G, l) \o G[l + 1] /\ FirstOf(G, l) \in Seq(Bytes)
      BY <3>10, <3>11 DEF Extends
    <3>13. G[l + 1] = BytesOf(s + l) /\ G[l + 1] \in Seq(Bytes)
      <4>1. l + 1 \in 1 .. l + 1 /\ s + (l + 1) - 1 = s + l
        OBVIOUS
      <4> QED
        BY <3>6, <4>1
    <3> HIDE DEF R
    <3> QED
      BY <2>1, <3>9, <3>12, <3>13
  <2>2. CASE ~AllRead(f, s, l + 1)
    <3>1. B(l + 1) = B(l)
      BY <2>2
    <3> QED
      BY <2>2, <3>1
  <2> QED
    BY <2>1, <2>2
<1>6. ASSUME NEW l \in Nat PROVE R(l) \in Seq(Bytes)
  <2>1. CASE s = 0
    <3>1. B(l) = {}
      BY <2>1
    <3>2. [j \in B(l) |-> BytesOf(s + j - 1)] = <<>>
      BY <3>1
    <3> QED
      BY <1>4, <3>2, FlattenFew
  <2>2. CASE s > 0
    <3> DEFINE T == {k \in 0 .. l : R(k) \in Seq(Bytes)}
    <3>1. 0 \in T
      <4> HIDE DEF R
      <4>1. R(0) \in Seq(Bytes)
        BY <1>3, <1>4, Zenon
      <4>2. 0 \in 0 .. l
        OBVIOUS
      <4> QED
        BY <4>1, <4>2
    <3>2. ASSUME NEW k \in 0 .. l - 1, k \in T PROVE k + 1 \in T
      <4>1. k \in Nat /\ k + 1 \in 0 .. l
        OBVIOUS
      <4>2. /\ AllRead(f, s, k + 1) => R(k + 1) = R(k) \o BytesOf(s + k) /\ BytesOf(s + k) \in Seq(Bytes)
            /\ ~AllRead(f, s, k + 1) => R(k + 1) = R(k)
        BY <1>5, <2>2, <4>1
      <4>3. R(k) \in Seq(Bytes)
        BY <3>2
      <4> HIDE DEF R
      <4>a. \A u, v \in Seq(Bytes) : u \o v \in Seq(Bytes)
        OBVIOUS
      <4>4. R(k + 1) \in Seq(Bytes)
        BY <4>2, <4>3, <4>a, Zenon
      <4> QED
        BY <4>1, <4>4
    <3>3. 0 .. l \subseteq T
      <4> HIDE DEF T
      <4> QED
        BY <3>1, <3>2, UpTo
    <3>4. l \in 0 .. l
      OBVIOUS
    <3> QED
      BY <3>3, <3>4
  <2> QED
    BY <2>1, <2>2
<1> HIDE DEF R
<1>7. ReadTo(f, s, 0) = <<>>
  BY <1>1, <1>3
<1>8. ASSUME NEW l \in Nat
      PROVE  /\ ReadTo(f, s, l) \in Seq(Bytes)
             /\ s > 0 => ReadTo(f, s, l + 1) =
                    IF AllRead(f, s, l + 1) THEN ReadTo(f, s, l) \o BytesOf(s + l) ELSE ReadTo(f, s, l)
  <2>1. ReadTo(f, s, l) = R(l) /\ ReadTo(f, s, l + 1) = R(l + 1) /\ R(l) \in Seq(Bytes)
    BY <1>1, <1>6
  <2> QED
    BY <1>5, <2>1
<1> QED
  BY <1>7, <1>8 DEF Reading

\* What is read of extents is made of bytes that can be read.
LEMMA ReadsOfFacts ==
    ASSUME NEW f, NEW x \in Seq(Extent)
    PROVE  /\ \A i \in 1 .. Len(x) :
                  /\ ReadsOf(f, x)[i] = ReadTo(f, x[i].start, x[i].length)
                  /\ ReadsOf(f, x)[i] \in Seq(Bytes)
           /\ Extends(ReadsOf(f, x), Len(x), Bytes)
           /\ Len(x) \in Nat
<1>1. ASSUME NEW i \in 1 .. Len(x)
      PROVE  /\ ReadsOf(f, x)[i] = ReadTo(f, x[i].start, x[i].length)
             /\ ReadsOf(f, x)[i] \in Seq(Bytes)
  <2>1. x[i] \in Extent
    OBVIOUS
  <2>2. x[i] = [start |-> x[i].start, length |-> x[i].length] /\ x[i].start \in Nat /\ x[i].length \in Nat
    BY <2>1 DEF Extent
  <2>3. ReadsOf(f, x)[i] = ReadExtent(f, x[i])
    BY DEF ReadsOf
  <2>4. ReadsOf(f, x)[i] = ReadTo(f, x[i].start, x[i].length)
    BY <2>2, <2>3 DEF ReadTo
  <2>5. Reading(f, x[i].start)
    BY <2>2, ReadExtentFacts
  <2>6. ReadTo(f, x[i].start, x[i].length) \in Seq(Bytes)
    BY <2>2, <2>5 DEF Reading
  <2> QED
    BY <2>4, <2>6
<1>2. Len(x) \in Nat
  OBVIOUS
<1>3. Extends(ReadsOf(f, x), Len(x), Bytes)
  BY <1>1, <1>2, FirstOfFacts
<1> QED
  BY <1>1, <1>2, <1>3

\* The bytes that can be read are numbers.
LEMMA BytesAreNumbers == Bytes \subseteq Nat /\ Seq(Bytes) \subseteq Seq(Nat)
<1>1. Blocks * BlockSize \in Nat
  BY FileSizes, InBytes
<1> DEFINE e == Blocks * BlockSize
<1>2. e \in Nat /\ Bytes = 0 .. e - 1
  BY <1>1 DEF Bytes
<1> HIDE DEF e
<1>3. Bytes \subseteq Nat
  BY <1>2
<1>4. ASSUME NEW t \in Seq(Bytes) PROVE t \in Seq(Nat)
  <2>1. Len(t) \in Nat /\ t = [i \in 1 .. Len(t) |-> t[i]] /\ \A i \in 1 .. Len(t) : t[i] \in Bytes
    OBVIOUS
  <2>2. \A i \in 1 .. Len(t) : t[i] \in Nat
    BY <1>3, <2>1
  <2>3. t \in [1 .. Len(t) -> Nat]
    BY <2>1, <2>2
  <2> QED
    BY <2>1, <2>3
<1> QED
  BY <1>3, <1>4

\* The first block of the extent that the k-th block is in.
StartOf(f, k) == ExtentsSoFar(f)[k][Len(ExtentsSoFar(f)[k])].start

\* The blocks that come before the first bad one of their extent.
Kept(f) ==
    {k \in 1 .. Len(f.plan) :
        Mapped(f, k) /\ \A b \in StartOf(f, k) .. Place(f, k) : Readable(f, b)}

\* What is read of the extents of the first blocks.
Gathered(f, k, x) ==
    /\ FirstOf(ReadsOf(f, x), Len(x)) = ReadOf(f, Kept(f), k)
    /\ \A i \in 1 .. Len(x) : x[i].start > 0
    /\ Mapped(f, k) =>
           /\ Len(x) > 0
           /\ x[Len(x)].length > 0
           /\ x[Len(x)].start + x[Len(x)].length = Place(f, k) + 1

\* None of the first blocks is preallocated.
Written(f, w) == \A k \in 1 .. w : f.plan[k] # "preallocated"

\* One block more.
LEMMA GatherOne ==
    ASSUME NEW f, Placed(f), NEW k \in 1 .. Len(f.plan), f.plan[k] # "preallocated",
           NEW x \in Seq(Extent), NEW y, Lengthened(f, x, k, y), y = ExtentsSoFar(f)[k],
           Gathered(f, k - 1, x)
    PROVE  Gathered(f, k, y)
<1> DEFINE K == Kept(f)
           L == Len(x)
           rx == ReadsOf(f, x)
           ry == ReadsOf(f, y)
           share == Share(f, K)[k]
           before == ReadOf(f, K, k - 1)
<1>1. y \in Seq(Extent) /\ L \in Nat /\ k \in Nat /\ Len(f.plan) \in Nat
  <2>1. Len(f.plan) \in Nat
    BY DEF Placed
  <2> QED
    BY <2>1 DEF Lengthened
<1>2. Bytes \subseteq Nat /\ Seq(Bytes) \subseteq Seq(Nat)
  BY BytesAreNumbers
<1>3. /\ share = IF k \in K THEN BytesOf(Place(f, k)) ELSE <<>>
      /\ share \in Seq(Nat) /\ before \in Seq(Nat)
      /\ ReadOf(f, K, k) = before \o share
  <2>1. Share(f, K)[k] = IF k \in K THEN BytesOf(Place(f, k)) ELSE <<>>
    BY ShareFacts
  <2>2. Share(f, K)[k] \in Seq(Nat)
    BY ShareFacts
  <2>3. Extends(Share(f, K), Len(f.plan), Nat)
    BY ShareFacts
  <2>4. k - 1 \in 0 .. Len(f.plan) - 1 /\ k - 1 \in 0 .. Len(f.plan) /\ (k - 1) + 1 = k
    BY <1>1
  <2>5. FirstOf(Share(f, K), (k - 1) + 1) = FirstOf(Share(f, K), k - 1) \o Share(f, K)[(k - 1) + 1]
        /\ FirstOf(Share(f, K), k - 1) \in Seq(Nat)
    BY <2>3, <2>4 DEF Extends
  <2> QED
    BY <2>1, <2>2, <2>4, <2>5 DEF ReadOf
<1>4. FirstOf(rx, L) = before /\ \A i \in 1 .. L : x[i].start > 0
  BY DEF Gathered
<1>5. /\ \A i \in 1 .. L : rx[i] = ReadTo(f, x[i].start, x[i].length) /\ rx[i] \in Seq(Bytes)
      /\ Extends(rx, L, Bytes)
  BY ReadsOfFacts
<1>6. /\ \A i \in 1 .. Len(y) : ry[i] = ReadTo(f, y[i].start, y[i].length) /\ ry[i] \in Seq(Bytes)
      /\ Extends(ry, Len(y), Bytes) /\ Len(y) \in Nat
  BY <1>1, ReadsOfFacts
<1>7. CASE ~Mapped(f, k)
  <2>1. y = x /\ k \notin K
    BY <1>7 DEF Lengthened, Kept
  <2>2. share = <<>> /\ before \o <<>> = before
    BY <1>3, <2>1
  <2>3. ReadOf(f, K, k) = before
    BY <1>3, <2>2
  <2> QED
    BY <1>4, <1>7, <2>1, <2>3 DEF Gathered
<1>8. ASSUME Mapped(f, k), NEW s \in Nat, s > 0, NEW l \in Nat, s + l = Place(f, k), StartOf(f, k) = s
      PROVE  ReadTo(f, s, l + 1) = ReadTo(f, s, l) \o share /\ ReadTo(f, s, l) \in Seq(Nat)
  <2>1. k \in K <=> AllRead(f, s, l + 1)
    <3>1. k \in K <=> \A b \in s .. s + l : Readable(f, b)
      BY <1>8 DEF Kept
    <3>2. ASSUME \A b \in s .. s + l : Readable(f, b), NEW j \in 1 .. l + 1 PROVE Readable(f, s + j - 1)
      <4>1. s + j - 1 \in s .. s + l
        OBVIOUS
      <4> QED
        BY <3>2, <4>1
    <3>3. ASSUME AllRead(f, s, l + 1), NEW b \in s .. s + l PROVE Readable(f, b)
      <4>1. b - s + 1 \in 1 .. l + 1 /\ s + (b - s + 1) - 1 = b
        OBVIOUS
      <4>2. Readable(f, s + (b - s + 1) - 1)
        BY <3>3, <4>1 DEF AllRead
      <4> QED
        BY <4>1, <4>2
    <3> QED
      BY <3>1, <3>2, <3>3 DEF AllRead
  <2>2. Reading(f, s)
    BY ReadExtentFacts
  <2>3. /\ ReadTo(f, s, l) \in Seq(Bytes)
        /\ ReadTo(f, s, l + 1) =
               IF AllRead(f, s, l + 1) THEN ReadTo(f, s, l) \o BytesOf(s + l) ELSE ReadTo(f, s, l)
    BY <1>8, <2>2 DEF Reading
  <2>4. ReadTo(f, s, l) \in Seq(Nat)
    BY <1>2, <2>3
  <2>5. ReadTo(f, s, l) \o <<>> = ReadTo(f, s, l)
    BY <2>4
  <2>6. CASE k \in K
    BY <1>3, <1>8, <2>1, <2>3, <2>4, <2>6
  <2>7. CASE k \notin K
    BY <1>3, <2>1, <2>3, <2>4, <2>5, <2>7
  <2> QED
    BY <2>6, <2>7
<1>9. CASE Continues(f, k)
  <2>1. Mapped(f, k) /\ Mapped(f, k - 1) /\ f.plan[k] # "apart"
    BY <1>9 DEF Continues
  <2> DEFINE s == x[L].start
             l == x[L].length
  <2>2. L > 0 /\ l > 0 /\ s + l = Place(f, k - 1) + 1
    BY <2>1 DEF Gathered
  <2>3. Place(f, k) = Place(f, k - 1) + 1
    BY <2>1 DEF Placed
  <2>4. L \in 1 .. L /\ s \in Nat /\ l \in Nat /\ s > 0
    <3>1. L \in 1 .. L
      BY <1>1, <2>2
    <3>2. x[L] \in Extent
      BY <3>1
    <3> QED
      BY <1>4, <3>1, <3>2 DEF Extent
  <2>5. /\ Len(y) = L
        /\ \A i \in 1 .. L - 1 : y[i] = x[i]
        /\ y[L].start = s /\ y[L].length = l + 1
    <3>1. x # <<>>
      BY <2>2
    <3> QED
      BY <1>9, <3>1 DEF Lengthened
  <2>6. StartOf(f, k) = s
    BY <2>5 DEF StartOf
  <2>7. ReadTo(f, s, l + 1) = ReadTo(f, s, l) \o share /\ ReadTo(f, s, l) \in Seq(Nat)
    <3>1. s + l = Place(f, k)
      BY <2>2, <2>3
    <3> HIDE DEF s, l
    <3> QED
      BY <1>8, <2>1, <2>4, <2>6, <3>1
  <2>8. ry[L] = ReadTo(f, s, l + 1) /\ rx[L] = ReadTo(f, s, l)
    BY <1>5, <1>6, <2>4, <2>5
  <2>9. FirstOf(rx, L - 1) = FirstOf(ry, L - 1)
    <3>1. \A j \in 1 .. L - 1 : rx[j] = ry[j]
      <4> SUFFICES ASSUME NEW j \in 1 .. L - 1 PROVE rx[j] = ry[j]
        OBVIOUS
      <4>1. j \in 1 .. L /\ y[j] = x[j]
        BY <1>1, <2>5
      <4> QED
        BY <1>5, <1>6, <2>5, <4>1
    <3>2. L - 1 \in Nat
      BY <1>1, <2>2
    <3> HIDE DEF rx, ry, L
    <3> QED
      BY <3>1, <3>2, SameFirst
  <2>10. /\ FirstOf(rx, L) = FirstOf(rx, L - 1) \o rx[L]
         /\ FirstOf(ry, L) = FirstOf(ry, L - 1) \o ry[L]
         /\ FirstOf(rx, L - 1) \in Seq(Bytes)
    <3>1. L - 1 \in 0 .. L - 1 /\ L - 1 \in 0 .. L /\ (L - 1) + 1 = L
      BY <1>1, <2>2
    <3>2. Extends(rx, L, Bytes) /\ Extends(ry, L, Bytes)
      BY <1>5, <1>6, <2>5
    <3> HIDE DEF rx, ry, L
    <3> QED
      BY <3>1, <3>2 DEF Extends
  <2>11. FirstOf(ry, L) = ReadOf(f, K, k)
    <3> DEFINE a == FirstOf(rx, L - 1)
               b == ReadTo(f, s, l)
    <3>1. a \in Seq(Nat) /\ b \in Seq(Nat) /\ share \in Seq(Nat)
      BY <1>2, <1>3, <2>7, <2>10
    <3>2. (a \o b) \o share = a \o (b \o share)
      <4>1. \A u, v, w \in Seq(Nat) : (u \o v) \o w = u \o (v \o w)
        BY SMTT(20)
      <4> HIDE DEF a, b, share
      <4> QED
        BY <3>1, <4>1, Zenon
    <3>3. FirstOf(ry, L) = a \o (b \o share)
      BY <2>7, <2>8, <2>9, <2>10
    <3>4. before = a \o b
      BY <1>4, <2>8, <2>10
    <3> QED
      BY <1>3, <3>2, <3>3, <3>4
  <2>12. \A i \in 1 .. Len(y) : y[i].start > 0
    <3> SUFFICES ASSUME NEW i \in 1 .. L PROVE y[i].start > 0
      BY <2>5
    <3>1. CASE i = L
      BY <2>4, <2>5, <3>1
    <3>2. CASE i # L
      <4>1. i \in 1 .. L - 1
        BY <1>1, <3>2
      <4> QED
        BY <1>4, <2>5, <4>1
    <3> QED
      BY <3>1, <3>2
  <2>13. s + (l + 1) = Place(f, k) + 1 /\ l + 1 > 0
    BY <2>2, <2>3, <2>4
  <2> HIDE DEF s, l
  <2>14. Len(y) > 0 /\ y[Len(y)].length > 0 /\ y[Len(y)].start + y[Len(y)].length = Place(f, k) + 1
    BY <2>2, <2>5, <2>13
  <2> QED
    BY <2>5, <2>11, <2>12, <2>14 DEF Gathered
<1>10. CASE Mapped(f, k) /\ ~Continues(f, k)
  <2>1. /\ Len(y) = L + 1
        /\ \A i \in 1 .. L : y[i] = x[i]
        /\ y[L + 1].start = Place(f, k) /\ y[L + 1].length = 1
    BY <1>10 DEF Lengthened
  <2>2. StartOf(f, k) = Place(f, k)
    BY <2>1 DEF StartOf
  <2>3. Place(f, k) \in Nat /\ Place(f, k) > 0
    <3>1. Place(f, k) > 0
      BY <1>10 DEF Placed
    <3>2. \A j \in 0 .. Len(f.plan) : Place(f, j) \in Nat
      BY DEF Placed
    <3> QED
      BY <1>1, <3>1, <3>2
  <2>4. ReadTo(f, Place(f, k), 0 + 1) = ReadTo(f, Place(f, k), 0) \o share
    <3>1. Place(f, k) + 0 = Place(f, k)
      BY <2>3
    <3> QED
      BY <1>8, <1>10, <2>2, <2>3, <3>1
  <2>5. ReadTo(f, Place(f, k), 0) = <<>> /\ <<>> \o share = share
    BY <1>3, <2>3, ReadExtentFacts DEF Reading
  <2>6. L + 1 \in 1 .. Len(y) /\ 0 + 1 = 1
    BY <1>1, <2>1
  <2>7. ry[L + 1] = share
    BY <1>6, <2>1, <2>4, <2>5, <2>6, ZenonT(30)
  <2>8. FirstOf(rx, L) = FirstOf(ry, L)
    <3>1. \A j \in 1 .. L : rx[j] = ry[j]
      <4> SUFFICES ASSUME NEW j \in 1 .. L PROVE rx[j] = ry[j]
        OBVIOUS
      <4>1. j \in 1 .. Len(y) /\ y[j] = x[j]
        BY <1>1, <2>1
      <4> QED
        BY <1>5, <1>6, <4>1
    <3> HIDE DEF rx, ry, L
    <3> QED
      BY <1>1, <3>1, SameFirst
  <2>9. FirstOf(ry, L + 1) = FirstOf(ry, L) \o ry[L + 1]
    <3>1. L \in 0 .. (L + 1) - 1 /\ Extends(ry, L + 1, Bytes)
      BY <1>1, <1>6, <2>1
    <3> HIDE DEF ry, L
    <3> QED
      BY <3>1 DEF Extends
  <2>10. FirstOf(ry, Len(y)) = ReadOf(f, K, k)
    BY <1>3, <1>4, <2>1, <2>7, <2>8, <2>9
  <2>11. \A i \in 1 .. Len(y) : y[i].start > 0
    <3> SUFFICES ASSUME NEW i \in 1 .. L + 1 PROVE y[i].start > 0
      BY <2>1
    <3>1. CASE i = L + 1
      BY <2>1, <2>3, <3>1
    <3>2. CASE i # L + 1
      <4>1. i \in 1 .. L
        BY <1>1, <3>2
      <4> QED
        BY <1>4, <2>1, <4>1
    <3> QED
      BY <3>1, <3>2
  <2>12. Len(y) > 0 /\ y[Len(y)].length > 0 /\ y[Len(y)].start + y[Len(y)].length = Place(f, k) + 1
    BY <1>1, <2>1, <2>3
  <2> QED
    BY <2>10, <2>11, <2>12 DEF Gathered
<1> QED
  BY <1>7, <1>9, <1>10 DEF Continues

\* Of the first blocks, if none is preallocated, those before a bad one are read.
LEMMA GatherAll ==
    ASSUME NEW f, Placed(f), NEW w \in 0 .. Len(f.plan), Written(f, w)
    PROVE  Gathered(f, w, ExtentsSoFar(f)[w])
<1> DEFINE n == Len(f.plan)
           x == ExtentsSoFar(f)
           T == {k \in 0 .. w : Gathered(f, k, x[k])}
<1>1. n \in Nat /\ SoFar(f) /\ DOMAIN f.plan = 1 .. n
  BY SoFarFacts DEF Placed
<1>2. 0 \in T
  <2>1. ReadsOf(f, <<>>) = <<>> /\ Len(<<>>) = 0 /\ ~Mapped(f, 0)
    BY <1>1 DEF ReadsOf, Mapped
  <2>2. x[0] = <<>>
    BY <1>1 DEF SoFar
  <2>3. FirstOf(<<>>, 0) = <<>>
    BY FlattenFew DEF FirstOf
  <2>4. ReadOf(f, Kept(f), 0) = <<>>
    BY ShareFacts DEF Extends, ReadOf
  <2>5. Gathered(f, 0, <<>>)
    BY <2>1, <2>3, <2>4 DEF Gathered
  <2>6. 0 \in 0 .. w
    BY <1>1
  <2> HIDE DEF x
  <2> QED
    BY <2>2, <2>5, <2>6
<1>3. ASSUME NEW k \in 0 .. w - 1, k \in T PROVE k + 1 \in T
  <2>1. k + 1 \in 1 .. n /\ k + 1 \in 1 .. w /\ k \in 0 .. n /\ k + 1 \in 0 .. w /\ (k + 1) - 1 = k
    BY <1>1
  <2>2. f.plan[k + 1] # "preallocated"
    BY <2>1 DEF Written
  <2>3. x[k] \in Seq(Extent) /\ x[k + 1] = WithBlock(f, x[(k + 1) - 1], k + 1)
    BY <1>1, <2>1 DEF SoFar
  <2>4. Lengthened(f, x[k], k + 1, x[k + 1])
    <3>1. Lengthened(f, x[k], k + 1, WithBlock(f, x[k], k + 1))
      BY <2>1, <2>3, WithBlockFacts
    <3> QED
      BY <2>1, <2>3, <3>1
  <2>5. Gathered(f, k, x[k])
    BY <1>3
  <2>6. Gathered(f, (k + 1) - 1, x[k])
    BY <2>1, <2>5
  <2>7. Gathered(f, k + 1, x[k + 1])
    BY <2>1, <2>2, <2>3, <2>4, <2>6, GatherOne
  <2> QED
    BY <2>1, <2>7
<1>4. 0 .. w \subseteq T
  <2>1. w \in Nat
    BY <1>1
  <2> HIDE DEF T
  <2> QED
    BY <1>2, <1>3, <2>1, UpTo
<1>5. w \in 0 .. w
  BY <1>1
<1> QED
  BY <1>4, <1>5

\* Extents get longer and more.
Grown(x, y) ==
    /\ Len(x) <= Len(y)
    /\ \A i \in 1 .. Len(x) : y[i].start = x[i].start /\ y[i].length >= x[i].length

\* One block more.
LEMMA GrowOne ==
    ASSUME NEW f, NEW k, NEW x \in Seq(Extent), NEW y, Lengthened(f, x, k, y)
    PROVE  Grown(x, y)
<1>1. y \in Seq(Extent) /\ Len(x) \in Nat /\ Len(y) \in Nat
  BY DEF Lengthened
<1>2. \A i \in 1 .. Len(x) : x[i].start \in Nat /\ x[i].length \in Nat
  <2> SUFFICES ASSUME NEW i \in 1 .. Len(x) PROVE x[i].start \in Nat /\ x[i].length \in Nat
    OBVIOUS
  <2>1. x[i] \in Extent
    OBVIOUS
  <2> QED
    BY <2>1 DEF Extent
<1>3. CASE x = <<>>
  BY <1>1, <1>3 DEF Grown
<1>4. CASE ~Mapped(f, k)
  <2>1. y = x
    BY <1>4 DEF Lengthened
  <2> QED
    BY <1>1, <1>2, <2>1 DEF Grown
<1>5. CASE Continues(f, k) /\ x # <<>>
  <2>1. /\ Len(y) = Len(x)
        /\ \A i \in 1 .. Len(x) - 1 : y[i] = x[i]
        /\ y[Len(x)].start = x[Len(x)].start
        /\ y[Len(x)].length = x[Len(x)].length + 1
    BY <1>5 DEF Lengthened
  <2>2. ASSUME NEW i \in 1 .. Len(x) PROVE y[i].start = x[i].start /\ y[i].length >= x[i].length
    <3>1. CASE i = Len(x)
      BY <1>2, <2>1, <3>1
    <3>2. CASE i # Len(x)
      <4>1. i \in 1 .. Len(x) - 1
        BY <1>1, <3>2
      <4> QED
        BY <1>2, <2>1, <4>1
    <3> QED
      BY <3>1, <3>2
  <2> QED
    BY <1>1, <2>1, <2>2 DEF Grown
<1>6. CASE Mapped(f, k) /\ ~Continues(f, k)
  <2>1. Len(y) = Len(x) + 1 /\ \A i \in 1 .. Len(x) : y[i] = x[i]
    BY <1>6 DEF Lengthened
  <2> QED
    BY <1>1, <1>2, <2>1 DEF Grown
<1> QED
  BY <1>3, <1>4, <1>5, <1>6

\* A block that continues an extent follows it, and one that does not begins one.
LEMMA OneBlock ==
    ASSUME NEW f, Placed(f), NEW k \in 0 .. Len(f.plan) - 1
    PROVE  /\ Lengthened(f, ExtentsSoFar(f)[k], k + 1, ExtentsSoFar(f)[k + 1])
           /\ ExtentsSoFar(f)[k] \in Seq(Extent) /\ ExtentsSoFar(f)[k + 1] \in Seq(Extent)
           /\ k + 1 \in 1 .. Len(f.plan) /\ k \in 0 .. Len(f.plan) /\ Len(f.plan) \in Nat
<1> DEFINE x == ExtentsSoFar(f)
<1>1. Len(f.plan) \in Nat /\ SoFar(f)
  BY SoFarFacts DEF Placed
<1>2. k + 1 \in 1 .. Len(f.plan) /\ k \in 0 .. Len(f.plan) /\ k + 1 \in 0 .. Len(f.plan) /\ (k + 1) - 1 = k
  BY <1>1
<1>3. x[k] \in Seq(Extent) /\ x[k + 1] \in Seq(Extent) /\ x[k + 1] = WithBlock(f, x[(k + 1) - 1], k + 1)
  BY <1>1, <1>2 DEF SoFar
<1>4. Lengthened(f, x[k], k + 1, WithBlock(f, x[k], k + 1))
  BY <1>2, <1>3, WithBlockFacts
<1> QED
  BY <1>1, <1>2, <1>3, <1>4

\* The extents of more blocks are those of fewer, some of them longer.
LEMMA ExtentsGrow ==
    ASSUME NEW f, Placed(f), NEW j \in 0 .. Len(f.plan)
    PROVE  Grown(ExtentsSoFar(f)[j], Extents(f))
<1> DEFINE n == Len(f.plan)
           x == ExtentsSoFar(f)
           T == {m \in 0 .. n - j : Grown(x[j], x[j + m])}
<1>1. n \in Nat /\ SoFar(f)
  BY SoFarFacts DEF Placed
<1>2. x[j] \in Seq(Extent)
  BY <1>1 DEF SoFar
<1>3. Len(x[j]) \in Nat /\ \A i \in 1 .. Len(x[j]) : x[j][i].start \in Nat /\ x[j][i].length \in Nat
  <2>1. ASSUME NEW i \in 1 .. Len(x[j]) PROVE x[j][i].start \in Nat /\ x[j][i].length \in Nat
    <3>1. x[j][i] \in Extent
      BY <1>2
    <3> QED
      BY <3>1 DEF Extent
  <2> QED
    BY <1>2, <2>1
<1>4. 0 \in T
  <2>1. j + 0 = j /\ 0 \in 0 .. n - j
    BY <1>1
  <2>2. Grown(x[j], x[j])
    BY <1>3 DEF Grown
  <2> HIDE DEF x
  <2> QED
    BY <2>1, <2>2
<1>5. ASSUME NEW m \in 0 .. n - j - 1, m \in T PROVE m + 1 \in T
  <2>1. j + m \in 0 .. n - 1 /\ j + (m + 1) = (j + m) + 1 /\ m + 1 \in 0 .. n - j
    BY <1>1
  <2>2. /\ Lengthened(f, x[j + m], (j + m) + 1, x[(j + m) + 1])
        /\ x[j + m] \in Seq(Extent) /\ x[(j + m) + 1] \in Seq(Extent)
    BY <2>1, OneBlock
  <2>3. Grown(x[j + m], x[(j + m) + 1])
    BY <2>2, GrowOne
  <2>4. Grown(x[j], x[j + m])
    BY <1>5
  <2>5. Grown(x[j], x[(j + m) + 1])
    <3> DEFINE u == x[j]
               v == x[j + m]
               y == x[(j + m) + 1]
    <3>1. Grown(u, v) /\ Grown(v, y) /\ u \in Seq(Extent) /\ v \in Seq(Extent) /\ y \in Seq(Extent)
      BY <1>2, <2>2, <2>3, <2>4
    <3> HIDE DEF u, v, y
    <3>2. Len(u) \in Nat /\ Len(v) \in Nat /\ Len(y) \in Nat /\ Len(u) <= Len(v) /\ Len(v) <= Len(y)
      BY <3>1 DEF Grown
    <3>3. ASSUME NEW i \in 1 .. Len(u) PROVE y[i].start = u[i].start /\ y[i].length >= u[i].length
      <4>1. i \in 1 .. Len(v) /\ i \in 1 .. Len(y)
        BY <3>2
      <4>2. u[i] \in Extent /\ v[i] \in Extent /\ y[i] \in Extent
        BY <3>1, <4>1
      <4>3. /\ v[i].start = u[i].start /\ v[i].length >= u[i].length
            /\ y[i].start = v[i].start /\ y[i].length >= v[i].length
        BY <3>1, <4>1 DEF Grown
      <4> QED
        BY <4>2, <4>3 DEF Extent
    <3>4. Grown(u, y)
      BY <3>2, <3>3 DEF Grown
    <3> QED
      BY <3>4 DEF u, y
  <2> QED
    BY <2>1, <2>5
<1>6. 0 .. n - j \subseteq T
  <2>1. n - j \in Nat
    BY <1>1
  <2> HIDE DEF T
  <2> QED
    BY <1>4, <1>5, <2>1, UpTo
<1>7. n - j \in 0 .. n - j /\ j + (n - j) = n
  BY <1>1
<1> QED
  BY <1>6, <1>7 DEF Extents

\* There are no more extents than blocks.
LEMMA FewExtents ==
    ASSUME NEW f, Placed(f)
    PROVE  /\ Extents(f) \in Seq(Extent) /\ Len(Extents(f)) \in 0 .. Len(f.plan)
           /\ Len(f.plan) \in Nat
<1> DEFINE n == Len(f.plan)
           x == ExtentsSoFar(f)
           T == {k \in 0 .. n : Len(x[k]) <= k}
<1>1. n \in Nat /\ SoFar(f)
  BY SoFarFacts DEF Placed
<1>2. 0 \in T
  BY <1>1 DEF SoFar
<1>3. ASSUME NEW k \in 0 .. n - 1, k \in T PROVE k + 1 \in T
  <2>1. /\ Lengthened(f, x[k], k + 1, x[k + 1]) /\ x[k] \in Seq(Extent) /\ x[k + 1] \in Seq(Extent)
    BY OneBlock
  <2>2. Len(x[k + 1]) <= Len(x[k]) + 1 /\ Len(x[k]) \in Nat /\ Len(x[k + 1]) \in Nat
    BY <2>1 DEF Lengthened
  <2>3. Len(x[k]) <= k
    BY <1>3
  <2>4. k + 1 \in 0 .. n /\ k \in Nat
    BY <1>1
  <2>5. Len(x[k + 1]) <= k + 1
    BY <2>2, <2>3, <2>4
  <2> QED
    BY <2>4, <2>5
<1>4. 0 .. n \subseteq T
  <2> HIDE DEF T
  <2> QED
    BY <1>1, <1>2, <1>3, UpTo
<1>5. n \in 0 .. n
  BY <1>1
<1>6. x[n] \in Seq(Extent) /\ Len(x[n]) <= n
  BY <1>1, <1>4, <1>5 DEF SoFar
<1> QED
  BY <1>1, <1>6 DEF Extents

\* Blocks are preallocated behind the w-th only, all of them.
Ends(f, w) ==
    /\ w \in 1 .. Len(f.plan)
    /\ Written(f, w)
    /\ \A k \in w + 1 .. Len(f.plan) : f.plan[k] = "preallocated"

\* What is preallocated comes in extents of its own.
LEMMA TailApart ==
    ASSUME NEW f, Placed(f), NEW w, Ends(f, w)
    PROVE  /\ Len(ExtentsSoFar(f)[w]) <= Len(Extents(f))
           /\ \A i \in 1 .. Len(ExtentsSoFar(f)[w]) : Extents(f)[i] = ExtentsSoFar(f)[w][i]
<1> DEFINE n == Len(f.plan)
           x == ExtentsSoFar(f)
           l == Len(x[w])
           Apart(k) == /\ l <= Len(x[k])
                       /\ k > w => l < Len(x[k])
                       /\ \A i \in 1 .. l : x[k][i] = x[w][i]
           T == {m \in 0 .. n - w : Apart(w + m)}
<1>1. n \in Nat /\ SoFar(f) /\ w \in 1 .. n
  BY SoFarFacts DEF Placed, Ends
<1>2. x[w] \in Seq(Extent) /\ l \in Nat
  <2>1. w \in 0 .. n
    BY <1>1
  <2>2. x[w] \in Seq(Extent)
    BY <1>1, <2>1 DEF SoFar
  <2> QED
    BY <2>2
<1>3. 0 \in T
  <2>1. w + 0 = w /\ 0 \in 0 .. n - w
    BY <1>1
  <2>2. Apart(w)
    BY <1>1, <1>2
  <2> HIDE DEF Apart
  <2> QED
    BY <2>1, <2>2
<1>4. ASSUME NEW m \in 0 .. n - w - 1, m \in T PROVE m + 1 \in T
  <2> DEFINE k == w + m
             u == x[k]
             v == x[k + 1]
  <2>1. k \in 0 .. n - 1 /\ k \in 1 .. n /\ w + (m + 1) = k + 1 /\ m + 1 \in 0 .. n - w
        /\ k + 1 \in w + 1 .. n /\ k >= w /\ (k + 1) - 1 = k
    BY <1>1
  <2>2. Lengthened(f, u, k + 1, v) /\ u \in Seq(Extent) /\ v \in Seq(Extent)
    BY <2>1, OneBlock
  <2>3. Apart(k)
    BY <1>4
  <2>4. f.plan[k + 1] = "preallocated" /\ Mapped(f, k + 1)
    <3>1. f.plan[k + 1] = "preallocated"
      BY <2>1 DEF Ends
    <3>2. k + 1 \in 1 .. n
      BY <2>1
    <3> QED
      BY <3>1, <3>2 DEF Placed
  <2>5. Continues(f, k + 1) => k > w
    <3>1. ASSUME Continues(f, k + 1), k = w PROVE FALSE
      <4>1. f.plan[(k + 1) - 1] = "preallocated"
        BY <2>4, <3>1 DEF Continues
      <4>2. f.plan[w] # "preallocated"
        <5>1. w \in 1 .. w
          BY <1>1
        <5> QED
          BY <5>1 DEF Ends, Written
      <4> QED
        BY <2>1, <3>1, <4>1, <4>2
    <3>2. k >= w /\ k \in Nat /\ w \in Nat
      BY <1>1, <2>1
    <3> HIDE DEF k
    <3> QED
      BY <3>1, <3>2
  <2>6. l <= Len(u) /\ \A i \in 1 .. l : u[i] = x[w][i]
    BY <2>3
  <2>7. k > w => l < Len(u)
    BY <2>3
  <2>8. Len(u) \in Nat
    BY <2>2
  <2>9. /\ l < Len(v)
        /\ \A i \in 1 .. l : v[i] = u[i]
    <3> HIDE DEF u, v, k, l
    <3>1. CASE Continues(f, k + 1)
      <4>1. l < Len(u) /\ u # <<>>
        BY <1>2, <2>5, <2>7, <3>1
      <4>2. Len(v) = Len(u) /\ \A i \in 1 .. Len(u) - 1 : v[i] = u[i]
        BY <2>2, <3>1, <4>1 DEF Lengthened
      <4> QED
        BY <1>2, <2>8, <4>1, <4>2
    <3>2. CASE ~Continues(f, k + 1)
      <4>1. Len(v) = Len(u) + 1 /\ \A i \in 1 .. Len(u) : v[i] = u[i]
        BY <2>2, <2>4, <3>2 DEF Lengthened
      <4> QED
        BY <1>2, <2>6, <2>8, <4>1
    <3> QED
      BY <3>1, <3>2
  <2>10. Apart(k + 1)
    <3>1. l <= Len(v) /\ \A i \in 1 .. l : v[i] = x[w][i]
      <4>1. Len(v) \in Nat
        BY <2>2
      <4> HIDE DEF u, v, k, l
      <4> QED
        BY <1>2, <2>6, <2>9, <4>1
    <3> QED
      BY <2>9, <3>1
  <2> HIDE DEF Apart
  <2> QED
    BY <2>1, <2>10
<1>5. 0 .. n - w \subseteq T
  <2>1. n - w \in Nat
    BY <1>1
  <2> HIDE DEF T
  <2> QED
    BY <1>3, <1>4, <2>1, UpTo
<1>6. n - w \in 0 .. n - w /\ w + (n - w) = n
  BY <1>1
<1>7. Apart(n)
  <2> HIDE DEF Apart
  <2> QED
    BY <1>5, <1>6
<1> QED
  BY <1>7 DEF Extents

\* What is read of all extents begins with what is read of those not preallocated.
LEMMA ReadAll ==
    ASSUME NEW f, Placed(f), NEW w, Ends(f, w)
    PROVE  \E t \in Seq(Nat) :
               /\ FlattenSeq(ReadsOf(f, Extents(f))) = ReadOf(f, Kept(f), w) \o t
               /\ w = Len(f.plan) => t = <<>>
<1> DEFINE n == Len(f.plan)
           x == ExtentsSoFar(f)[w]
           e == Extents(f)
           a == Len(x)
           b == Len(e)
           rx == ReadsOf(f, x)
           re == ReadsOf(f, e)
           t == Between(re, a, b)
<1>1. n \in Nat /\ SoFar(f) /\ w \in 1 .. n /\ w \in 0 .. n /\ Written(f, w)
  <2>1. n \in Nat /\ SoFar(f)
    BY SoFarFacts DEF Placed
  <2>2. w \in 1 .. n /\ Written(f, w)
    BY DEF Ends
  <2> QED
    BY <2>1, <2>2
<1>2. x \in Seq(Extent) /\ e \in Seq(Extent)
  BY <1>1, FewExtents DEF SoFar
<1>3. a <= b /\ \A i \in 1 .. a : e[i] = x[i]
  BY TailApart
<1>4. a \in Nat /\ b \in Nat /\ (\A i \in 1 .. a : rx[i] = ReadTo(f, x[i].start, x[i].length))
      /\ (\A i \in 1 .. b : re[i] = ReadTo(f, e[i].start, e[i].length) /\ re[i] \in Seq(Bytes))
  BY <1>2, ReadsOfFacts
<1>5. FirstOf(rx, a) = ReadOf(f, Kept(f), w)
  <2>1. Gathered(f, w, x)
    BY <1>1, GatherAll
  <2> QED
    BY <2>1 DEF Gathered
<1>6. FirstOf(rx, a) = FirstOf(re, a)
  <2>1. \A i \in 1 .. a : rx[i] = re[i]
    BY <1>3, <1>4
  <2> HIDE DEF rx, re, a
  <2> QED
    BY <1>4, <2>1, SameFirst
<1>7. FlattenSeq(re) = FirstOf(re, b)
  <2>1. re = [i \in 1 .. b |-> re[i]]
    BY DEF ReadsOf
  <2> QED
    BY <2>1 DEF FirstOf
<1>8. FirstOf(re, b) = FirstOf(re, a) \o t /\ t \in Seq(Bytes)
  <2>1. a \in 0 .. b /\ b \in a .. b
    BY <1>3, <1>4
  <2>2. \A i \in 1 .. b : re[i] \in Seq(Bytes)
    BY <1>4
  <2> HIDE DEF re, a, b
  <2> QED
    BY <1>4, <2>1, <2>2, Split
<1>9. t \in Seq(Nat)
  BY <1>8, BytesAreNumbers
<1>10. ASSUME w = n PROVE t = <<>>
  <2>1. x = e
    BY <1>10 DEF Extents
  <2>2. b - a = 0
    BY <1>4, <2>1
  <2>3. t = FirstOf([j \in 1 .. b - a |-> re[a + j]], b - a)
    BY DEF Between
  <2>4. t = FirstOf([j \in 1 .. 0 |-> re[a + j]], 0)
    BY <2>2, <2>3
  <2>5. [j \in 1 .. 0 |-> [i \in 1 .. 0 |-> re[a + i]][j]] = <<>>
    OBVIOUS
  <2> QED
    BY <2>4, <2>5, FlattenFew DEF FirstOf
<1> HIDE DEF t
<1> QED
  BY <1>5, <1>6, <1>7, <1>8, <1>9, <1>10

\* Of a damaged tree the damage is in the tree, which lies behind the data.
Beyond(f) == f.damage # "none" => f.hit >= TreeBase /\ f.hit \in Nat

\* A block before the tree can be read if it is not the bad one.
LEMMA DataReadable ==
    ASSUME NEW f, Laid(f), Beyond(f), NEW b \in Nat, b < TreeBase
    PROVE  Readable(f, b) <=> b # f.bad
<1>1. b < Blocks
  <2>1. Len(f.plan) \in Nat /\ TreeBase + 10 * (Len(f.plan) + 1) <= Blocks
    BY DEF Laid
  <2> QED
    BY <2>1, FileSizes
<1>2. ~(b = f.hit /\ f.damage = "unreadable")
  <2>1. TreeBase \in Nat
    BY FileSizes
  <2> QED
    BY <2>1 DEF Beyond
<1> QED
  BY <1>1, <1>2 DEF Readable

\* A block is lost only behind the bad one of its extent.
LEMMA LostBehindBad ==
    ASSUME NEW f, Laid(f), Beyond(f), NEW w \in 0 .. Len(f.plan), Written(f, w),
           NEW k \in 1 .. w, Mapped(f, k), k \notin Kept(f), f.bad \in Nat
    PROVE  /\ f.bad # 0
           /\ \E e \in Range(Extents(f)) :
                  /\ f.bad \in e.start .. e.start + e.length - 1
                  /\ Place(f, k) \in f.bad .. e.start + e.length - 1
<1> DEFINE n == Len(f.plan)
           x == ExtentsSoFar(f)[k]
           y == Extents(f)
           L == Len(x)
<1>1. Placed(f) /\ n \in Nat /\ k \in 1 .. n /\ k \in 0 .. n
  BY PlaceFacts DEF Placed
<1>2. Written(f, k)
  BY <1>1 DEF Written
<1>3. Gathered(f, k, x)
  BY <1>1, <1>2, GatherAll
<1>4. L > 0 /\ x[L].length > 0 /\ x[L].start + x[L].length = Place(f, k) + 1
      /\ (\A i \in 1 .. L : x[i].start > 0)
  BY <1>3 DEF Gathered
<1>5. x \in Seq(Extent) /\ L \in Nat
  <2>1. x \in Seq(Extent)
    BY <1>1, SoFarFacts DEF SoFar
  <2> QED
    BY <2>1
<1>6. L \in 1 .. L /\ x[L].start \in Nat /\ x[L].length \in Nat /\ x[L].start > 0
  <2>1. L \in 1 .. L
    BY <1>4, <1>5
  <2>2. x[L] \in Extent
    BY <1>5, <2>1
  <2> QED
    BY <1>4, <2>1, <2>2 DEF Extent
<1>7. Grown(x, y) /\ y \in Seq(Extent)
  BY <1>1, ExtentsGrow, FewExtents
<1> DEFINE e == y[L]
<1>8. L <= Len(y) /\ e.start = x[L].start /\ e.length >= x[L].length
  BY <1>6, <1>7 DEF Grown
<1>9. L \in DOMAIN y /\ e \in Extent /\ e \in Range(y)
  <2>1. L \in DOMAIN y
    BY <1>6, <1>7, <1>8
  <2> QED
    BY <1>7, <2>1 DEF Range
<1>10. StartOf(f, k) = x[L].start
  BY DEF StartOf
<1>11. Place(f, k) \in Nat /\ Place(f, k) < TreeBase
  <2>1. \A j \in 0 .. n : Place(f, j) \in Nat
    BY <1>1 DEF Placed
  <2>2. Place(f, k) < TreeBase
    BY <1>1 DEF Placed
  <2> QED
    BY <1>1, <2>1, <2>2
<1>12. PICK b \in StartOf(f, k) .. Place(f, k) : ~Readable(f, b)
  BY <1>1 DEF Kept
<1>13. b \in Nat /\ b < TreeBase /\ b >= x[L].start /\ b <= Place(f, k)
  BY <1>6, <1>10, <1>11, FileSizes
<1>14. b = f.bad
  BY <1>12, <1>13, DataReadable
<1>15. e.start \in Nat /\ e.length \in Nat
  BY <1>9 DEF Extent
<1> HIDE DEF e, x, y, L
<1> DEFINE s == x[L].start
           l == x[L].length
           p == Place(f, k)
           es == e.start
           el == e.length
<1>c. /\ s \in Nat /\ l \in Nat /\ s > 0 /\ l > 0 /\ s + l = p + 1 /\ p \in Nat
      /\ es = s /\ el >= l /\ es \in Nat /\ el \in Nat
      /\ f.bad >= s /\ f.bad <= p /\ f.bad \in Nat
  BY <1>4, <1>6, <1>8, <1>11, <1>13, <1>14, <1>15
<1> HIDE DEF s, l, p, es, el
<1>d. /\ f.bad # 0
      /\ f.bad \in es .. es + el - 1
      /\ p \in f.bad .. es + el - 1
  BY <1>c
<1>16. /\ f.bad # 0
       /\ f.bad \in e.start .. e.start + e.length - 1
       /\ Place(f, k) \in f.bad .. e.start + e.length - 1
  BY <1>d DEF p, es, el
<1> QED
  BY <1>9, <1>16 DEF y

-----------------------------------------------------------------------------
(* The tree of extents.                                                    *)

\* How many nodes it takes.
LEMMA CeilingCovers ==
    ASSUME NEW l \in Nat, NEW m \in Nat \ {0}
    PROVE  /\ Ceiling(l, m) \in Nat /\ Ceiling(l, m) <= l
           /\ \A i \in Nat : i < Ceiling(l, m) => i * m < l
           /\ l <= Ceiling(l, m) * m
<1> DEFINE c == Ceiling(l, m)
           z == c * m
           r == (l + m - 1) % m
<1>1. l + m - 1 \in Nat
  OBVIOUS
<1>2. c = (l + m - 1) \div m
  BY DEF Ceiling
<1>3. c \in Nat /\ r \in 0 .. m - 1 /\ r + z = l + m - 1
  BY <1>1, <1>2, Remains
<1>4. z \in Nat
  BY <1>3, Multiples
<1> HIDE DEF r, c, z
<1>5. l <= z /\ z <= l + m - 1
  BY <1>3, <1>4
<1>6. ASSUME NEW i \in Nat, i < c PROVE i * m < l
  <2>1. i + 1 <= c /\ i + 1 \in Nat
    BY <1>3, <1>6
  <2>2. (i + 1) * m <= z /\ (i + 1) * m = i * m + m /\ i * m \in Nat
    BY <1>3, <2>1, Multiples DEF z
  <2> DEFINE y == i * m
  <2>3. y \in Nat /\ y + m <= z
    BY <2>2
  <2> HIDE DEF y
  <2>4. y < l
    BY <1>4, <1>5, <2>3
  <2> QED
    BY <2>4 DEF y
<1>7. c <= l
  <2>1. CASE l = 0
    <3>1. z < m
      BY <1>4, <1>5, <2>1
    <3>2. c = 0
      <4> SUFFICES ASSUME c # 0 PROVE FALSE
        OBVIOUS
      <4>1. 1 <= c /\ 1 \in Nat
        BY <1>3
      <4>2. 1 * m <= z
        BY <1>3, <4>1, Multiples DEF z
      <4> QED
        BY <1>4, <3>1, <4>2
    <3> QED
      BY <2>1, <3>2
  <2>2. CASE l > 0
    <3> SUFFICES ASSUME c > l PROVE FALSE
      BY <1>3
    <3>1. l * m < l
      BY <1>6
    <3>2. \A u \in Nat : \A v \in Nat \ {0} : u <= u * v
      OBVIOUS
    <3>3. l <= l * m /\ l * m \in Nat
      BY <3>2, Multiples
    <3> QED
      BY <3>1, <3>3
  <2> QED
    BY <2>1, <2>2
<1> QED
  BY <1>3, <1>5, <1>6, <1>7 DEF c, z

\* The bounds of a node's share.
LEMMA GroupBounds ==
    ASSUME NEW S, NEW x \in Seq(S), NEW i \in Nat, i < Ceiling(Len(x), NodeEntries)
    PROVE  /\ i * NodeEntries \in 0 .. Len(x)
           /\ Least((i + 1) * NodeEntries, Len(x)) \in i * NodeEntries .. Len(x)
           /\ Least(i * NodeEntries, Len(x)) = i * NodeEntries
           /\ Group(x, i + 1) =
                  SubSeq(x, i * NodeEntries + 1, Least((i + 1) * NodeEntries, Len(x)))
<1> DEFINE l == Len(x)
           z == i * NodeEntries
           y == (i + 1) * NodeEntries
<1>1. l \in Nat /\ NodeEntries \in Nat \ {0}
  BY FileSizes
<1>2. z < l /\ z \in Nat /\ y = z + NodeEntries
  BY <1>1, CeilingCovers, Multiples
<1>3. (i + 1) - 1 = i
  OBVIOUS
<1>4. Group(x, i + 1) = SubSeq(x, z + 1, Least(y, l))
  BY <1>3 DEF Group
<1> HIDE DEF z, y, l
<1>5. z \in 0 .. l /\ Least(y, l) \in z .. l /\ Least(z, l) = z
  BY <1>1, <1>2 DEF Least
<1> QED
  BY <1>4, <1>5 DEF z, y, l

\* The nodes hold together what there is to hold.
LEMMA GroupsTogether ==
    ASSUME NEW S, NEW x \in Seq(S)
    PROVE  LET groups == [i \in 1 .. Ceiling(Len(x), NodeEntries) |-> Group(x, i)]
           IN  groups \in Seq(Seq(S)) /\ FlattenSeq(groups) = x
                /\ Len(groups) = Ceiling(Len(x), NodeEntries)
<1> DEFINE N == NodeEntries
           l == Len(x)
           c == Ceiling(l, N)
           g == [i \in 1 .. c |-> Group(x, i)]
           T == {i \in 0 .. c : FirstOf(g, i) = SubSeq(x, 1, Least(i * N, l))}
<1>1. N \in Nat \ {0} /\ l \in Nat /\ c \in Nat
  BY FileSizes, CeilingCovers
<1>2. ASSUME NEW i \in 1 .. c PROVE Group(x, i) \in Seq(S)
  <2>1. i - 1 \in Nat /\ i - 1 < c /\ (i - 1) + 1 = i
    BY <1>1
  <2>2. /\ (i - 1) * N \in 0 .. l /\ Least(((i - 1) + 1) * N, l) \in (i - 1) * N .. l
        /\ Group(x, (i - 1) + 1) = SubSeq(x, (i - 1) * N + 1, Least(((i - 1) + 1) * N, l))
    BY <2>1, GroupBounds
  <2>3. Group(x, (i - 1) + 1) \in Seq(S)
    BY <2>2, PartOf, ZenonT(80)
  <2> QED
    BY <2>1, <2>3
<1>3. g \in Seq(Seq(S)) /\ Len(g) = c /\ \A i \in 1 .. c : g[i] \in Seq(S) /\ g[i] = Group(x, i)
  <2>1. g \in [1 .. c -> Seq(S)]
    BY <1>2
  <2> HIDE DEF c
  <2> QED
    BY <1>1, <1>2, <2>1
<1> HIDE DEF g
<1>4. Extends(g, c, S) /\ FlattenSeq(g) = FirstOf(g, c)
  BY <1>3, FlattenAll
<1>5. 0 \in T
  <2>1. FirstOf(g, 0) = <<>> /\ 0 * N = 0 /\ 0 \in 0 .. c
    BY <1>1, <1>4 DEF Extends
  <2>2. Least(0, l) = 0
    BY <1>1 DEF Least
  <2>3. SubSeq(x, 1, 0) = <<>>
    OBVIOUS
  <2> QED
    BY <2>1, <2>2, <2>3
<1>6. ASSUME NEW i \in 0 .. c - 1, i \in T PROVE i + 1 \in T
  <2> DEFINE a == i * N
             b == Least((i + 1) * N, l)
  <2>1. i \in Nat /\ i < c /\ i + 1 \in 1 .. c /\ i + 1 \in 0 .. c
    BY <1>1
  <2>2. a \in 0 .. l /\ b \in a .. l /\ Least(i * N, l) = a /\ Group(x, i + 1) = SubSeq(x, a + 1, b)
    BY <2>1, GroupBounds
  <2>3. FirstOf(g, i) = SubSeq(x, 1, a)
    BY <1>6, <2>2
  <2>4. FirstOf(g, i + 1) = FirstOf(g, i) \o g[i + 1]
    BY <1>4 DEF Extends
  <2>5. g[i + 1] = SubSeq(x, a + 1, b)
    BY <1>3, <2>1, <2>2
  <2> HIDE DEF a, b
  <2>6. SubSeq(x, 1, a) \o SubSeq(x, a + 1, b) = SubSeq(x, 1, b)
    <3> DEFINE u == SubSeq(x, 1, a)
               v == SubSeq(x, a + 1, b)
               w == SubSeq(x, 1, b)
    <3>1. v \in Seq(S) /\ Len(v) = b - a /\ \A j \in 1 .. b - a : v[j] = x[a + j]
      <4>1. v = [j \in 1 .. b - a |-> x[a + j]]
        BY <1>1, <2>2, PartOf
      <4>2. v \in Seq(S) /\ Len(v) = b - a
        BY <1>1, <2>2, PartOf
      <4> QED
        BY <4>1, <4>2
    <3>2. u \in Seq(S) /\ Len(u) = a /\ \A j \in 1 .. a : u[j] = x[j]
      BY <1>1, <2>2, SMTT(20)
    <3>3. w \in Seq(S) /\ Len(w) = b /\ \A j \in 1 .. b : w[j] = x[j]
      BY <1>1, <2>2
    <3> HIDE DEF u, v, w
    <3>4. a \in Nat /\ b \in Nat /\ a <= b
      BY <1>1, <2>2
    <3>5. Len(u \o v) = b /\ u \o v \in Seq(S)
      BY <3>1, <3>2, <3>4, SMTT(20)
    <3>6. \A j \in 1 .. b : (u \o v)[j] = w[j]
      <4> SUFFICES ASSUME NEW j \in 1 .. b PROVE (u \o v)[j] = w[j]
        OBVIOUS
      <4>1. CASE j \in 1 .. a
        BY <3>1, <3>2, <3>3, <3>4, <4>1
      <4>2. CASE j \notin 1 .. a
        <5>1. j - a \in 1 .. b - a /\ a + (j - a) = j
          BY <3>4, <4>2
        <5>2. (u \o v)[j] = v[j - a]
          BY <3>1, <3>2, <3>4, <4>2
        <5> QED
          BY <3>1, <3>3, <5>1, <5>2
      <4> QED
        BY <4>1, <4>2
    <3>7. u \o v = w
      <4> DEFINE y == u \o v
      <4>1. y \in Seq(S) /\ w \in Seq(S) /\ Len(y) = Len(w) /\ \A j \in 1 .. Len(w) : y[j] = w[j]
        BY <3>3, <3>5, <3>6
      <4> HIDE DEF y
      <4>2. y = w
        BY <4>1, SameElements
      <4> QED
        BY <4>2 DEF y
    <3> QED
      BY <3>7 DEF u, v, w
  <2>7. FirstOf(g, i + 1) = SubSeq(x, 1, b)
    BY <2>3, <2>4, <2>5, <2>6
  <2> QED
    BY <2>1, <2>7 DEF b
<1>7. 0 .. c \subseteq T
  <2> HIDE DEF T, c
  <2> QED
    BY <1>1, <1>5, <1>6, UpTo
<1>8. FirstOf(g, c) = SubSeq(x, 1, Least(c * N, l))
  <2>1. c \in 0 .. c
    BY <1>1
  <2> QED
    BY <1>7, <2>1
<1>9. Least(c * N, l) = l
  <2>1. l <= c * N /\ c * N \in Nat
    BY <1>1, CeilingCovers, Multiples
  <2> DEFINE z == c * N
  <2>2. l <= z /\ z \in Nat /\ l \in Nat
    BY <1>1, <2>1
  <2> HIDE DEF z, l
  <2>3. Least(z, l) = l
    BY <2>2 DEF Least
  <2> QED
    BY <2>3 DEF z, l
<1>10. SubSeq(x, 1, l) = x
  OBVIOUS
<1>11. FlattenSeq(g) = x
  BY <1>4, <1>8, <1>9, <1>10
<1> QED
  BY <1>3, <1>11 DEF g

\* What each node holds of things that are themselves made of pieces.
Regrouped(x) == [i \in 1 .. Ceiling(Len(x), NodeEntries) |-> FlattenSeq(Group(x, i))]

\* What the nodes hold, put together node by node, is what there is.
LEMMA Regroup ==
    ASSUME NEW S, NEW x \in Seq(Seq(S))
    PROVE  /\ Regrouped(x) \in Seq(Seq(S)) /\ Len(Regrouped(x)) = Ceiling(Len(x), NodeEntries)
           /\ FlattenSeq(Regrouped(x)) = FlattenSeq(x)
<1> DEFINE N == NodeEntries
           l == Len(x)
           c == Ceiling(l, N)
           g == Regrouped(x)
           T == {i \in 0 .. c : FirstOf(g, i) = FirstOf(x, Least(i * N, l))}
<1>1. N \in Nat \ {0} /\ l \in Nat /\ c \in Nat
  BY FileSizes, CeilingCovers
<1>0. \A j \in 1 .. l : x[j] \in Seq(S)
  OBVIOUS
<1>s. ASSUME NEW u \in 0 .. l, NEW v \in u .. l
      PROVE  Between(x, u, v) \in Seq(S) /\ FirstOf(x, v) = FirstOf(x, u) \o Between(x, u, v)
  <2> HIDE DEF l, T
  <2>1. /\ FirstOf(x, v) = FirstOf(x, u) \o Between(x, u, v)
        /\ Between(x, u, v) \in Seq(S)
    BY <1>0, <1>1, Split
  <2> QED
    BY <2>1
<1>2. ASSUME NEW i \in Nat, i < c
      PROVE  /\ FlattenSeq(Group(x, i + 1)) = Between(x, i * N, Least((i + 1) * N, l))
             /\ Between(x, i * N, Least((i + 1) * N, l)) \in Seq(S)
             /\ FirstOf(x, Least((i + 1) * N, l)) =
                    FirstOf(x, i * N) \o Between(x, i * N, Least((i + 1) * N, l))
             /\ Least(i * N, l) = i * N
  <2> DEFINE a == i * N
             b == Least((i + 1) * N, l)
  <2>1. a \in 0 .. l /\ b \in a .. l /\ Least(i * N, l) = a /\ Group(x, i + 1) = SubSeq(x, a + 1, b)
    BY <1>2, GroupBounds
  <2> HIDE DEF a, b
  <2>2. SubSeq(x, a + 1, b) = [j \in 1 .. b - a |-> x[a + j]]
    BY <2>1, PartOf
  <2>3. FlattenSeq(Group(x, i + 1)) = Between(x, a, b)
    <3>1. [j \in 1 .. b - a |-> [o \in 1 .. b - a |-> x[a + o]][j]] = [j \in 1 .. b - a |-> x[a + j]]
      OBVIOUS
    <3> QED
      BY <2>1, <2>2, <3>1 DEF Between, FirstOf
  <2>4. Between(x, a, b) \in Seq(S) /\ FirstOf(x, b) = FirstOf(x, a) \o Between(x, a, b)
    BY <1>s, <2>1
  <2> QED
    BY <2>1, <2>3, <2>4 DEF a, b
<1>3. ASSUME NEW i \in 1 .. c PROVE g[i] = FlattenSeq(Group(x, i)) /\ g[i] \in Seq(S)
  <2>1. i - 1 \in Nat /\ i - 1 < c /\ (i - 1) + 1 = i
    BY <1>1
  <2>2. FlattenSeq(Group(x, (i - 1) + 1)) \in Seq(S)
    BY <1>2, <2>1
  <2>3. g[i] = FlattenSeq(Group(x, i))
    BY DEF Regrouped
  <2> QED
    BY <2>1, <2>2, <2>3
<1>4. g \in Seq(Seq(S)) /\ Len(g) = c
  <2>1. g = [i \in 1 .. c |-> g[i]]
    BY DEF Regrouped
  <2> HIDE DEF c, g
  <2>2. g \in [1 .. c -> Seq(S)]
    BY <1>3, <2>1
  <2> QED
    BY <1>1, <2>1, <2>2
<1> HIDE DEF g
<1>5. Extends(g, c, S) /\ FlattenSeq(g) = FirstOf(g, c)
  BY <1>4, FlattenAll
<1>6. Extends(x, l, S) /\ FlattenSeq(x) = FirstOf(x, l)
  BY FlattenAll
<1>7. 0 \in T
  <2>1. FirstOf(g, 0) = <<>> /\ FirstOf(x, 0) = <<>> /\ 0 * N = 0 /\ 0 \in 0 .. c
    BY <1>1, <1>5, <1>6 DEF Extends
  <2>2. Least(0, l) = 0
    BY <1>1 DEF Least
  <2> QED
    BY <2>1, <2>2
<1>8. ASSUME NEW i \in 0 .. c - 1, i \in T PROVE i + 1 \in T
  <2>1. i \in Nat /\ i < c /\ i + 1 \in 1 .. c /\ i + 1 \in 0 .. c
    BY <1>1
  <2> DEFINE b == Between(x, i * N, Least((i + 1) * N, l))
  <2>2. FirstOf(x, Least((i + 1) * N, l)) = FirstOf(x, i * N) \o b /\ Least(i * N, l) = i * N
        /\ FlattenSeq(Group(x, i + 1)) = b
    BY <1>2, <2>1
  <2> HIDE DEF b
  <2>3. FirstOf(g, i) = FirstOf(x, i * N)
    BY <1>8, <2>2
  <2>4. FirstOf(g, i + 1) = FirstOf(g, i) \o g[i + 1]
    BY <1>5 DEF Extends
  <2>5. g[i + 1] = b
    BY <1>3, <2>1, <2>2
  <2>6. FirstOf(g, i + 1) = FirstOf(x, Least((i + 1) * N, l))
    BY <2>2, <2>3, <2>4, <2>5
  <2> QED
    BY <2>1, <2>6
<1>9. 0 .. c \subseteq T
  <2> HIDE DEF T, c
  <2> QED
    BY <1>1, <1>7, <1>8, UpTo
<1>10. FirstOf(g, c) = FirstOf(x, Least(c * N, l))
  <2>1. c \in 0 .. c
    BY <1>1
  <2> QED
    BY <1>9, <2>1
<1>11. Least(c * N, l) = l
  <2>1. l <= c * N /\ c * N \in Nat
    BY <1>1, CeilingCovers, Multiples
  <2> DEFINE z == c * N
  <2>2. l <= z /\ z \in Nat /\ l \in Nat
    BY <1>1, <2>1
  <2> HIDE DEF z, l
  <2>3. Least(z, l) = l
    BY <2>2 DEF Least
  <2> QED
    BY <2>3 DEF z, l
<1> QED
  BY <1>4, <1>5, <1>6, <1>10, <1>11 DEF g

-----------------------------------------------------------------------------
(* What reading gives, or that it fails.                                   *)

\* What reading may give.
Outcomes(S) == {Failed} \cup {Found(s) : s \in Seq(S)}

\* A result that fails has found nothing.
LEMMA OutcomeFacts ==
    /\ ~Failed.ok /\ Failed.found = <<>> /\ Failed.ok \in BOOLEAN
    /\ \A s : Found(s).ok /\ Found(s).found = s /\ Found(s).ok \in BOOLEAN
    /\ \A S : \A r \in Outcomes(S) : r.ok \in BOOLEAN /\ r.found \in Seq(S) /\ (~r.ok => r.found = <<>>)
    /\ \A S : Failed \in Outcomes(S) /\ \A s \in Seq(S) : Found(s) \in Outcomes(S)
<1>1. ~Failed.ok /\ Failed.found = <<>> /\ Failed.ok \in BOOLEAN
  BY DEF Failed
<1>2. \A s : Found(s).ok /\ Found(s).found = s /\ Found(s).ok \in BOOLEAN
  BY DEF Found
<1>3. ASSUME NEW S, NEW r \in Outcomes(S)
      PROVE  r.ok \in BOOLEAN /\ r.found \in Seq(S) /\ (~r.ok => r.found = <<>>)
  <2>1. CASE r = Failed
    <3>0. <<>> \in Seq(S)
      OBVIOUS
    <3>1. r.found \in Seq(S)
      BY <1>1, <2>1, <3>0, Zenon
    <3> QED
      BY <1>1, <2>1, <3>1, Zenon
  <2>2. CASE r # Failed
    <3>1. PICK s \in Seq(S) : r = Found(s)
      BY <1>3, <2>2 DEF Outcomes
    <3> QED
      BY <1>2, <3>1, Zenon
  <2> QED
    BY <2>1, <2>2
<1>4. \A S : Failed \in Outcomes(S) /\ \A s \in Seq(S) : Found(s) \in Outcomes(S)
  BY Zenon DEF Outcomes
<1> QED
  BY <1>1, <1>2, <1>3, <1>4

\* Of results that fail or find pieces, they fail or find these put together.
MergedInto(r, p, m, S) ==
    p \in Seq(Seq(S)) /\ Len(p) = m /\ (\A i \in 1 .. m : r[i] \in {Failed, Found(p[i])}) =>
        /\ Merged(r) \in {Failed, Found(FlattenSeq(p))}
        /\ (\A i \in 1 .. m : r[i] = Found(p[i])) => Merged(r) = Found(FlattenSeq(p))

\* Merging results that fail or find pieces.
LEMMA MergedFacts ==
    ASSUME NEW S, NEW m \in Nat, NEW r, r = [i \in 1 .. m |-> r[i]],
           \A i \in 1 .. m : r[i] \in Outcomes(S)
    PROVE  /\ Merged(r) \in Outcomes(S)
           /\ \A p : MergedInto(r, p, m, S)
<1> DEFINE q == [i \in DOMAIN r |-> r[i].found]
<1>1. DOMAIN r = 1 .. m
  OBVIOUS
<1>2. Merged(r) = IF \A i \in 1 .. m : r[i].ok THEN Found(FlattenSeq(q)) ELSE Failed
  BY <1>1 DEF Merged
<1>3. \A i \in 1 .. m : r[i].found \in Seq(S)
  BY OutcomeFacts
<1>4. q \in Seq(Seq(S)) /\ Len(q) = m /\ \A i \in 1 .. m : q[i] = r[i].found
  <2>1. q = [i \in 1 .. m |-> r[i].found]
    BY <1>1
  <2>2. q \in [1 .. m -> Seq(S)]
    BY <1>3, <2>1
  <2> QED
    BY <2>1, <2>2
<1> HIDE DEF q
<1>5. FlattenSeq(q) \in Seq(S)
  BY <1>4, FlattenAll
<1>6. Merged(r) \in Outcomes(S)
  <2>1. CASE \A i \in 1 .. m : r[i].ok
    <3>1. Found(FlattenSeq(q)) \in Outcomes(S)
      BY <1>5, OutcomeFacts, Zenon
    <3> QED
      BY <1>2, <2>1, <3>1, Zenon
  <2>2. CASE ~\A i \in 1 .. m : r[i].ok
    BY <1>2, <2>2, OutcomeFacts, Zenon
  <2> QED
    BY <2>1, <2>2
<1>7. ASSUME NEW i \in 1 .. m, r[i] = Failed PROVE Merged(r) = Failed
  <2>1. ~r[i].ok
    BY <1>7, OutcomeFacts, Zenon
  <2> QED
    BY <1>2, <2>1, Zenon
<1>8. ASSUME NEW p \in Seq(Seq(S)), Len(p) = m, \A i \in 1 .. m : r[i] \in {Failed, Found(p[i])}
      PROVE  /\ Merged(r) \in {Failed, Found(FlattenSeq(p))}
             /\ (\A i \in 1 .. m : r[i] = Found(p[i])) => Merged(r) = Found(FlattenSeq(p))
  <2>1. CASE \A i \in 1 .. m : r[i] = Found(p[i])
    <3>1. \A i \in 1 .. m : r[i].ok /\ r[i].found = p[i]
      BY <2>1, OutcomeFacts, Zenon
    <3>2. \A i \in 1 .. m : q[i] = p[i]
      BY <1>4, <3>1
    <3>3. q = p
      BY <1>4, <1>8, <3>2, SameElements
    <3>4. Merged(r) = Found(FlattenSeq(p))
      BY <1>2, <3>1, <3>3, Zenon
    <3> QED
      BY <3>4
  <2>2. CASE ~\A i \in 1 .. m : r[i] = Found(p[i])
    <3>1. PICK i \in 1 .. m : r[i] # Found(p[i])
      BY <2>2
    <3>2. r[i] = Failed
      BY <1>8, <3>1
    <3> QED
      BY <1>7, <2>2, <3>2
  <2> QED
    BY <2>1, <2>2
<1>9. \A p : MergedInto(r, p, m, S)
  BY <1>8, Zenon DEF MergedInto
<1> QED
  BY <1>6, <1>9

\* What the nodes of each depth hold.
Holdings == Seq(Extent) \cup Seq(0 .. Blocks - 1)

\* A file of n blocks whose tree is not too high for the disk.
Low(f) == f.height \in Nat /\ f.height < 10

\* Each depth holds the nodes above what the depth below holds.
TreeMade(f) ==
    /\ Tree(f)[0] = Extents(f)
    /\ \A d \in 1 .. f.height :
           /\ Tree(f)[d] = [i \in 1 .. Ceiling(Len(Tree(f)[d - 1]), NodeEntries) |-> TreeBlock(d, i)]
           /\ Len(Tree(f)[d]) = Ceiling(Len(Tree(f)[d - 1]), NodeEntries)
    /\ \A d \in 0 .. f.height :
           Tree(f)[d] \in Holdings /\ Len(Tree(f)[d]) \in 0 .. Len(f.plan)

\* A block of the tree lies behind the data and tells its depth and number.
LEMMA BlocksOfTree ==
    ASSUME NEW f, Laid(f), Low(f), NEW d \in 1 .. f.height, NEW i \in 1 .. Len(f.plan)
    PROVE  /\ TreeBlock(d, i) \in TreeBase + 10 .. Blocks - 1
           /\ TreeBlock(d, i) \in 1 .. Blocks - 1
           /\ Level(TreeBlock(d, i)) = d /\ Index(TreeBlock(d, i)) = i
<1> DEFINE n == Len(f.plan)
<1>1. n \in Nat /\ TreeBase + 10 * (n + 1) <= Blocks /\ TreeBase \in Nat \ {0} /\ Blocks \in Nat
  BY FileSizes DEF Laid
<1>2. d \in 1 .. 9 /\ i \in 1 .. n /\ d \in Nat /\ i \in Nat
  BY <1>1 DEF Low
<1>3. TreeBlock(d, i) = TreeBase + 10 * i + d
  BY DEF TreeBlock
<1> HIDE DEF n
<1>4. TreeBase + 10 * i + d \in TreeBase + 10 .. Blocks - 1 /\ TreeBase + 10 * i + d \in 1 .. Blocks - 1
  BY <1>1, <1>2
<1>5. (TreeBase + 10 * i + d) - TreeBase = 10 * i + d
  BY <1>1, <1>2
<1>6. (10 * i + d) % 10 = d /\ (10 * i + d) \div 10 = i
  BY <1>2
<1> QED
  BY <1>3, <1>4, <1>5, <1>6 DEF Level, Index

\* Each depth of the tree holds the nodes above those below it.
LEMMA TreeFacts ==
    ASSUME NEW f, Laid(f), Low(f)
    PROVE  TreeMade(f)
<1> DEFINE n == Len(f.plan)
           h == f.height
           held[d \in 0 .. f.height] == IF d = 0 THEN Extents(f) ELSE Parents(held[d - 1], d)
           V == {x \in Holdings : Len(x) \in 0 .. n}
           step == [d \in 1 .. h |-> [x \in V |-> Parents(x, d)]]
<1>1. Tree(f) = held
  BY DEF Tree
<1>2. h \in Nat /\ n \in Nat /\ Placed(f)
  <2>1. Placed(f)
    BY PlaceFacts
  <2> QED
    BY <2>1 DEF Low, Placed
<1>3. Extents(f) \in V
  BY <1>2, FewExtents DEF Holdings
<1>4. ASSUME NEW d \in 1 .. h, NEW x \in V
      PROVE  /\ Parents(x, d) = [i \in 1 .. Ceiling(Len(x), NodeEntries) |-> TreeBlock(d, i)]
             /\ Parents(x, d) \in V /\ Len(Parents(x, d)) = Ceiling(Len(x), NodeEntries)
  <2> DEFINE c == Ceiling(Len(x), NodeEntries)
  <2>1. Parents(x, d) = [i \in 1 .. c |-> TreeBlock(d, i)]
    BY DEF Parents
  <2>2. c \in Nat /\ c <= Len(x) /\ Len(x) \in 0 .. n
    BY CeilingCovers, FileSizes, SMTT(30)
  <2> HIDE DEF c
  <2>3. \A i \in 1 .. c : TreeBlock(d, i) \in 0 .. Blocks - 1
    <3> SUFFICES ASSUME NEW i \in 1 .. c PROVE TreeBlock(d, i) \in 0 .. Blocks - 1
      OBVIOUS
    <3>1. i \in 1 .. Len(f.plan)
      BY <1>2, <2>2
    <3>2. TreeBlock(d, i) \in 1 .. Blocks - 1
      BY <3>1, BlocksOfTree
    <3> QED
      BY <3>2, FileSizes
  <2>4. Parents(x, d) \in Seq(0 .. Blocks - 1) /\ Len(Parents(x, d)) = c
    <3> DEFINE y == Parents(x, d)
    <3>1. y \in [1 .. c -> 0 .. Blocks - 1]
      BY <2>1, <2>3
    <3> HIDE DEF y
    <3>2. y \in Seq(0 .. Blocks - 1) /\ Len(y) = c
      BY <2>2, <3>1, IsSequence
    <3> QED
      BY <3>2 DEF y
  <2>5. c \in 0 .. n
    BY <1>2, <2>2
  <2> QED
    BY <2>1, <2>4, <2>5 DEF c, Holdings
<1>5. PICK g : Follows(g, V, Extents(f), h, step)
  <2>1. step \in [1 .. h -> [V -> V]]
    <3> HIDE DEF h, V
    <3>1. \A d \in 1 .. h : \A x \in V : Parents(x, d) \in V
      BY <1>4
    <3> QED
      BY <3>1
  <2> HIDE DEF step, h, V
  <2> QED
    BY <1>2, <1>3, <2>1, Recursion, Zenon
<1> HIDE DEF V
<1>6. /\ g \in [0 .. h -> V] /\ g[0] = Extents(f)
      /\ \A d \in 1 .. h : g[d] = Parents(g[d - 1], d)
  <2>1. \A d \in 1 .. h : d - 1 \in 0 .. h
    BY <1>2
  <2> QED
    BY <1>5, <2>1 DEF Follows
<1>7. g = [d \in 0 .. f.height |-> IF d = 0 THEN Extents(f) ELSE Parents(g[d - 1], d)]
  BY <1>6
<1>8. held = [d \in 0 .. f.height |-> IF d = 0 THEN Extents(f) ELSE Parents(held[d - 1], d)]
  <2> HIDE DEF step
  <2> QED
    BY <1>7
<1>9. held = g
  <2>1. GoTogether(g, held, h)
    <3> HIDE DEF step, held
    <3>1. g = [d \in 0 .. h |-> g[d]] /\ held = [d \in 0 .. h |-> held[d]]
      BY <1>6, <1>8
    <3>2. held[0] = Extents(f) /\ \A d \in 1 .. h : held[d] = Parents(held[d - 1], d)
      BY <1>2, <1>8
    <3> QED
      BY <1>6, <3>1, <3>2 DEF GoTogether
  <2> HIDE DEF held, h
  <2> QED
    BY <1>2, <2>1, Same, Zenon
<1> HIDE DEF held, step
<1>10. ASSUME NEW d \in 1 .. h
       PROVE  /\ g[d] = [i \in 1 .. Ceiling(Len(g[d - 1]), NodeEntries) |-> TreeBlock(d, i)]
              /\ Len(g[d]) = Ceiling(Len(g[d - 1]), NodeEntries)
  <2>1. d - 1 \in 0 .. h
    BY <1>2
  <2>2. g[d - 1] \in V /\ g[d] = Parents(g[d - 1], d)
    BY <1>6, <2>1
  <2> QED
    BY <1>4, <2>2, SMTT(40)
<1>11. ASSUME NEW d \in 0 .. h PROVE g[d] \in Holdings /\ Len(g[d]) \in 0 .. n
  <2>1. g[d] \in V
    BY <1>6
  <2> QED
    BY <2>1 DEF V
<1> QED
  BY <1>1, <1>6, <1>9, <1>10, <1>11 DEF TreeMade

-----------------------------------------------------------------------------
(* Nodes and what comes of parsing them.                                   *)

\* Any node: at depth 0 it holds extents, above other blocks.
Nodes == {node \in [magic : BOOLEAN, depth : Int, entries : Holdings] :
             node.entries \in IF node.depth = 0 THEN Seq(Extent) ELSE Seq(0 .. Blocks - 1)}

\* A node's share of a sequence is one.
LEMMA Shares ==
    ASSUME NEW S, NEW x \in Seq(S), NEW i \in Nat \ {0}
    PROVE  Group(x, i) \in Seq(S)
<1> DEFINE a == (i - 1) * NodeEntries + 1
           b == Least(i * NodeEntries, Len(x))
<1>1. a \in Nat \ {0} /\ b \in Nat /\ b <= Len(x) /\ Len(x) \in Nat
  <2>1. i - 1 \in Nat /\ NodeEntries \in Nat
    BY FileSizes
  <2>2. (i - 1) * NodeEntries \in Nat /\ i * NodeEntries \in Nat
    BY <2>1, Multiples
  <2> QED
    BY <2>2 DEF Least
<1>2. Group(x, i) = SubSeq(x, a, b)
  BY DEF Group
<1> HIDE DEF a, b
<1>3. SubSeq(x, a, b) \in Seq(S)
  BY <1>1
<1> QED
  BY <1>2, <1>3

\* Whatever stands in a block is read as a node or as none.
LEMMA NodeTyped ==
    ASSUME NEW f, Laid(f), Low(f), f.extents, NEW b \in 0 .. Blocks - 1
    PROVE  ReadNode(f, b) \in Nodes
<1>0. TreeMade(f) /\ TreeBase \in Nat /\ Blocks \in Nat /\ Len(f.plan) \in Nat
  <2>1. Placed(f)
    BY PlaceFacts
  <2> QED
    BY <2>1, TreeFacts, FileSizes DEF Placed
<1>1. NoNode \in Nodes
  <2>1. <<>> \in Seq(Extent)
    OBVIOUS
  <2>2. NoNode.depth = 0 /\ NoNode.entries = <<>>
    BY DEF NoNode
  <2>3. NoNode \in [magic : BOOLEAN, depth : Int, entries : Holdings]
    BY <2>1 DEF NoNode, Holdings
  <2> QED
    BY <2>1, <2>2, <2>3 DEF Nodes
<1>2. ASSUME NEW e, e \in Seq(0 .. Blocks - 1), NEW d \in Int, d # 0
      PROVE  [magic |-> TRUE, depth |-> d, entries |-> e] \in Nodes
  <2>1. e \in Holdings
    BY <1>2 DEF Holdings
  <2> QED
    BY <1>2, <2>1 DEF Nodes
<1>3. ASSUME NEW e, e \in Seq(Extent)
      PROVE  [magic |-> TRUE, depth |-> 0, entries |-> e] \in Nodes
  <2>1. e \in Holdings
    BY <1>3 DEF Holdings
  <2> QED
    BY <1>3, <2>1 DEF Nodes
<1>4. NodeAt(f, b) \in Nodes
  <2>1. CASE Foreign(f, b)
    BY <1>1, <2>1, Zenon DEF NodeAt
  <2>2. CASE ~Foreign(f, b) /\ b = f.hit /\ f.damage = "loop"
    <3>1. NodeAt(f, b) = [magic |-> TRUE, depth |-> 1, entries |-> <<b>>]
      BY <2>2 DEF NodeAt
    <3>2. <<b>> \in Seq(0 .. Blocks - 1)
      OBVIOUS
    <3>3. 1 \in Int /\ 1 # 0
      OBVIOUS
    <3> QED
      BY <1>2, <3>1, <3>2, <3>3
  <2>3. CASE ~Foreign(f, b) /\ b = f.hit /\ f.damage = "taken"
    <3> DEFINE e == <<[start |-> Stranger, length |-> 1]>>
    <3>1. NodeAt(f, b) = [magic |-> TRUE, depth |-> 0, entries |-> e]
      BY <2>3 DEF NodeAt
    <3>2. e \in Seq(Extent)
      BY DEF Extent, Stranger
    <3> HIDE DEF e
    <3> QED
      BY <1>3, <3>1, <3>2
  <2>4. CASE ~Foreign(f, b) /\ ~(b = f.hit /\ f.damage \in {"loop", "taken"})
    <3> DEFINE d == Level(b) - 1
               e == Group(Held(f, d), Index(b))
    <3>1. NodeAt(f, b) = [magic |-> TRUE, depth |-> d, entries |-> e]
      BY <2>4 DEF NodeAt
    <3>2. Level(b) \in 1 .. f.height /\ b >= TreeBase + 10
      BY <1>0, <2>4 DEF Foreign
    <3>3. Index(b) \in Nat \ {0}
      <4>1. b - TreeBase >= 10 /\ b - TreeBase \in Nat
        BY <1>0, <3>2
      <4>2. \A y \in Nat : y >= 10 => y \div 10 \in Nat \ {0}
        OBVIOUS
      <4> QED
        BY <4>1, <4>2 DEF Index
    <3>4. Held(f, d) = Tree(f)[d] /\ d \in Int /\ d \in 0 .. f.height
      BY <3>2 DEF Held, Low
    <3>5. CASE d = 0
      <4>1. Held(f, d) \in Seq(Extent)
        <5>1. Placed(f)
          BY PlaceFacts
        <5>2. Extents(f) \in Seq(Extent)
          BY <5>1, FewExtents
        <5> QED
          BY <1>0, <3>4, <3>5, <5>2 DEF TreeMade
      <4>2. e \in Seq(Extent)
        BY <3>3, <4>1, Shares
      <4> HIDE DEF e, d
      <4> QED
        BY <1>3, <3>1, <3>5, <4>2
    <3>6. CASE d # 0
      <4>1. Held(f, d) \in Seq(0 .. Blocks - 1)
        <5>1. d \in 1 .. f.height
          <6>1. d \in 0 .. f.height /\ d # 0 /\ f.height \in Nat
            BY <3>4, <3>6 DEF Low
          <6> HIDE DEF d
          <6> QED
            BY <6>1
        <5>2. Tree(f)[d] = [i \in 1 .. Ceiling(Len(Tree(f)[d - 1]), NodeEntries) |-> TreeBlock(d, i)]
              /\ Len(Tree(f)[d]) = Ceiling(Len(Tree(f)[d - 1]), NodeEntries)
              /\ Len(Tree(f)[d]) \in 0 .. Len(f.plan)
          BY <1>0, <3>4, <5>1 DEF TreeMade
        <5> DEFINE l == Len(Tree(f)[d])
        <5>3. l \in 0 .. Len(f.plan) /\ Tree(f)[d] = [i \in 1 .. l |-> TreeBlock(d, i)] /\ Len(f.plan) \in Nat
          BY <1>0, <5>2
        <5> HIDE DEF l, d
        <5>4. \A i \in 1 .. l : TreeBlock(d, i) \in 0 .. Blocks - 1
          <6> SUFFICES ASSUME NEW i \in 1 .. l PROVE TreeBlock(d, i) \in 0 .. Blocks - 1
            OBVIOUS
          <6>1. i \in 1 .. Len(f.plan)
            BY <5>3
          <6>2. TreeBlock(d, i) \in 1 .. Blocks - 1
            BY <5>1, <6>1, BlocksOfTree
          <6> QED
            BY <1>0, <6>2
        <5>5. Tree(f)[d] \in [1 .. l -> 0 .. Blocks - 1]
          BY <5>3, <5>4
        <5>6. Tree(f)[d] \in Seq(0 .. Blocks - 1)
          BY <5>3, <5>5
        <5> QED
          BY <3>4, <5>6
      <4>2. e \in Seq(0 .. Blocks - 1)
        BY <3>3, <4>1, Shares
      <4> HIDE DEF e, d
      <4> QED
        BY <1>2, <3>1, <3>4, <3>6, <4>2
    <3> QED
      BY <3>5, <3>6
  <2> QED
    BY <2>1, <2>2, <2>3, <2>4
<1> QED
  BY <1>1, <1>4 DEF ReadNode

\* Parsing a node fails or finds extents.
LEMMA ParseTyped ==
    ASSUME NEW node \in Nodes, NEW left \in Nat, NEW below,
           left # 0 => below \in [0 .. Blocks - 1 -> Outcomes(Extent)]
    PROVE  ParseExtentNode(node, left, below) \in Outcomes(Extent)
<1>1. CASE ~node.magic
  BY <1>1, OutcomeFacts DEF ParseExtentNode
<1>2. CASE node.magic /\ node.depth = 0
  <2>1. node.entries \in Seq(Extent)
    BY <1>2 DEF Nodes
  <2>2. Found(node.entries) \in Outcomes(Extent)
    BY <2>1, OutcomeFacts, Zenon
  <2> QED
    BY <1>2, <2>2 DEF ParseExtentNode
<1>3. CASE node.magic /\ node.depth # 0 /\ left = 0
  BY <1>3, OutcomeFacts DEF ParseExtentNode
<1>4. CASE node.magic /\ node.depth # 0 /\ left # 0
  <2> DEFINE e == node.entries
             m == Len(e)
             r == [i \in 1 .. m |-> IF e[i] = 0 THEN Found(<<>>) ELSE below[e[i]]]
  <2>1. e \in Seq(0 .. Blocks - 1) /\ m \in Nat /\ DOMAIN e = 1 .. m
    <3>1. e \in Seq(0 .. Blocks - 1)
      BY <1>4 DEF Nodes
    <3> QED
      BY <3>1
  <2>2. ParseExtentNode(node, left, below) = Merged(r)
    BY <1>4, <2>1 DEF ParseExtentNode
  <2>3. Found(<<>>) \in Outcomes(Extent)
    <3>1. <<>> \in Seq(Extent)
      OBVIOUS
    <3> QED
      BY <3>1, OutcomeFacts, Zenon
  <2>4. \A i \in 1 .. m : r[i] \in Outcomes(Extent)
    <3>1. \A i \in 1 .. m : e[i] \in 0 .. Blocks - 1
      BY <2>1, Elements, Zenon
    <3> QED
      BY <1>4, <2>3, <3>1
  <2>5. r = [i \in 1 .. m |-> r[i]]
    OBVIOUS
  <2> HIDE DEF r, m
  <2>6. Merged(r) \in Outcomes(Extent)
    BY <2>1, <2>4, <2>5, MergedFacts
  <2> QED
    BY <2>2, <2>6
<1> QED
  BY <1>1, <1>2, <1>3, <1>4

\* What comes of the blocks, for each number of nodes that may still be followed.
Parsing(f, P) ==
    /\ P \in [0 .. MaxDepth -> [0 .. Blocks - 1 -> Outcomes(Extent)]]
    /\ \A b \in 0 .. Blocks - 1 : P[0][b] = ParseExtentNode(ReadNode(f, b), 0, <<>>)
    /\ \A l \in 1 .. MaxDepth : \A b \in 0 .. Blocks - 1 :
           P[l][b] = ParseExtentNode(ReadNode(f, b), l, P[l - 1])
    /\ \A root : CollectExtents(f, root) = ParseExtentNode(root, MaxDepth + 1, P[MaxDepth])

\* CollectExtents parses by what comes of the blocks below.
LEMMA ParsingFacts ==
    ASSUME NEW f, Laid(f), Low(f), f.extents
    PROVE  \E P : Parsing(f, P)
<1> DEFINE V == [0 .. Blocks - 1 -> Outcomes(Extent)]
           parsed[left \in 0 .. MaxDepth] ==
               [b \in 0 .. Blocks - 1 |->
                   ParseExtentNode(ReadNode(f, b), left, IF left = 0 THEN <<>> ELSE parsed[left - 1])]
           base == [b \in 0 .. Blocks - 1 |-> ParseExtentNode(ReadNode(f, b), 0, <<>>)]
           over(x, l) == [b \in 0 .. Blocks - 1 |-> ParseExtentNode(ReadNode(f, b), l, x)]
           step == [l \in 1 .. MaxDepth |-> [x \in V |-> over(x, l)]]
<1>1. \A root : CollectExtents(f, root) = ParseExtentNode(root, MaxDepth + 1, parsed[MaxDepth])
  BY DEF CollectExtents
<1>2. MaxDepth \in Nat
  BY FileSizes
<1>3. \A b \in 0 .. Blocks - 1 : ReadNode(f, b) \in Nodes
  BY NodeTyped
<1>4. base \in V
  <2>1. \A b \in 0 .. Blocks - 1 : ParseExtentNode(ReadNode(f, b), 0, <<>>) \in Outcomes(Extent)
    BY <1>3, ParseTyped
  <2> QED
    BY <2>1
<1>5. ASSUME NEW l \in 1 .. MaxDepth, NEW x \in V PROVE over(x, l) \in V
  <2>1. \A b \in 0 .. Blocks - 1 : ParseExtentNode(ReadNode(f, b), l, x) \in Outcomes(Extent)
    <3>1. l \in Nat
      BY <1>2
    <3> QED
      BY <1>3, <3>1, ParseTyped
  <2> QED
    BY <2>1
<1> HIDE DEF V
<1>6. PICK g : Follows(g, V, base, MaxDepth, step)
  <2>1. step \in [1 .. MaxDepth -> [V -> V]]
    <3>1. \A l \in 1 .. MaxDepth : \A x \in V : over(x, l) \in V
      BY <1>5
    <3> QED
      BY <3>1
  <2> HIDE DEF step, base
  <2> QED
    BY <1>2, <1>4, <2>1, Recursion, Zenon
<1>7. /\ g \in [0 .. MaxDepth -> V] /\ g[0] = base
      /\ \A l \in 1 .. MaxDepth : g[l] = over(g[l - 1], l)
  <2> HIDE DEF over, base
  <2>1. \A l \in 1 .. MaxDepth : l - 1 \in 0 .. MaxDepth
    BY <1>2
  <2> QED
    BY <1>6, <2>1 DEF Follows
<1>8. g = [l \in 0 .. MaxDepth |->
              [b \in 0 .. Blocks - 1 |->
                   ParseExtentNode(ReadNode(f, b), l, IF l = 0 THEN <<>> ELSE g[l - 1])]]
  <2>1. ASSUME NEW l \in 0 .. MaxDepth
        PROVE  g[l] = [b \in 0 .. Blocks - 1 |->
                   ParseExtentNode(ReadNode(f, b), l, IF l = 0 THEN <<>> ELSE g[l - 1])]
    <3>1. CASE l = 0
      BY <1>7, <3>1
    <3>2. CASE l # 0
      <4>1. l \in 1 .. MaxDepth
        BY <1>2, <3>2
      <4>2. g[l] = over(g[l - 1], l)
        BY <1>7, <4>1
      <4> QED
        BY <3>2, <4>2
    <3> QED
      BY <3>1, <3>2
  <2>2. g = [l \in 0 .. MaxDepth |-> g[l]]
    BY <1>7
  <2> HIDE DEF parsed, base, over, step
  <2> QED
    BY <2>1, <2>2, Zenon
<1>9. parsed = [l \in 0 .. MaxDepth |->
              [b \in 0 .. Blocks - 1 |->
                   ParseExtentNode(ReadNode(f, b), l, IF l = 0 THEN <<>> ELSE parsed[l - 1])]]
  <2> HIDE DEF step, over, base
  <2> QED
    BY <1>8
<1> HIDE DEF parsed
<1>10. parsed = g
  <2>1. GoTogether(g, parsed, MaxDepth)
    <3>1. g = [l \in 0 .. MaxDepth |-> g[l]] /\ parsed = [l \in 0 .. MaxDepth |-> parsed[l]]
      <4> HIDE DEF step, over, base
      <4> QED
        BY <1>7, <1>9
    <3>2. parsed[0] = base
      BY <1>2, <1>9
    <3>3. \A l \in 1 .. MaxDepth : parsed[l] = over(parsed[l - 1], l)
      <4> SUFFICES ASSUME NEW l \in 1 .. MaxDepth PROVE parsed[l] = over(parsed[l - 1], l)
        OBVIOUS
      <4>1. l \in 0 .. MaxDepth /\ l # 0
        BY <1>2
      <4>2. parsed[l] = [b \in 0 .. Blocks - 1 |->
                   ParseExtentNode(ReadNode(f, b), l, IF l = 0 THEN <<>> ELSE parsed[l - 1])]
        BY <1>9, <4>1
      <4> QED
        BY <4>1, <4>2
    <3> HIDE DEF over, base, step
    <3> QED
      BY <1>7, <3>1, <3>2, <3>3 DEF GoTogether
  <2> HIDE DEF over, base, step
  <2> QED
    BY <1>2, <2>1, Same, Zenon
<1>11. /\ \A b \in 0 .. Blocks - 1 : g[0][b] = ParseExtentNode(ReadNode(f, b), 0, <<>>)
       /\ \A l \in 1 .. MaxDepth : \A b \in 0 .. Blocks - 1 :
              g[l][b] = ParseExtentNode(ReadNode(f, b), l, g[l - 1])
  BY <1>7
<1>12. g \in [0 .. MaxDepth -> [0 .. Blocks - 1 -> Outcomes(Extent)]]
  BY <1>7 DEF V
<1>13. Parsing(f, g)
  BY <1>1, <1>10, <1>11, <1>12 DEF Parsing
<1> QED
  BY <1>13

-----------------------------------------------------------------------------
(* What parsing gives.                                                     *)

\* At most one block of the tree is damaged, or one of the data bad.
Faulty(f) ==
    /\ f.damage \in Damages
    /\ f.damage # "none" => f.hit \in TreeBase .. Blocks - 1
    /\ f.bad \in 0 .. TreeBase - 1

\* A damaged block of the tree gives nothing, however far it is followed, unless
\* it holds a node of another file's.
LEMMA DamagedFails ==
    ASSUME NEW f, f.extents, Faulty(f), f.damage \notin {"none", "taken"}, NEW P, Parsing(f, P)
    PROVE  \A l \in 0 .. MaxDepth : P[l][f.hit] = Failed
<1> DEFINE b == f.hit
           node == ReadNode(f, b)
           T == {l \in 0 .. MaxDepth : P[l][b] = Failed}
<1>1. b \in 0 .. Blocks - 1 /\ b # 0 /\ MaxDepth \in Nat
  BY FileSizes DEF Faulty
<1>2. ~node.magic \/ node = [magic |-> TRUE, depth |-> 1, entries |-> <<b>>]
  <2>1. CASE f.damage = "unreadable"
    <3>1. ~Readable(f, b)
      BY <2>1 DEF Readable
    <3> QED
      BY <3>1 DEF ReadNode, NoNode
  <2>2. CASE f.damage = "reused"
    <3>1. Foreign(f, b)
      BY <2>2 DEF Foreign
    <3> QED
      BY <3>1 DEF ReadNode, NodeAt, NoNode
  <2>3. CASE f.damage = "loop"
    BY <2>3 DEF ReadNode, NodeAt, NoNode
  <2> QED
    BY <2>1, <2>2, <2>3 DEF Faulty, Damages
<1> HIDE DEF node
<1>3. ASSUME ~node.magic, NEW l, NEW x PROVE ParseExtentNode(node, l, x) = Failed
  BY <1>3 DEF ParseExtentNode
<1>4. ASSUME node = [magic |-> TRUE, depth |-> 1, entries |-> <<b>>], NEW x PROVE ParseExtentNode(node, 0, x) = Failed
  BY <1>4 DEF ParseExtentNode
<1>5. ASSUME node = [magic |-> TRUE, depth |-> 1, entries |-> <<b>>], NEW l \in Nat \ {0}, NEW x, x[b] = Failed
      PROVE  ParseExtentNode(node, l, x) = Failed
  <2> DEFINE e == <<b>>
             r == [i \in DOMAIN e |-> IF e[i] = 0 THEN Found(<<>>) ELSE x[e[i]]]
  <2>1. ParseExtentNode(node, l, x) = Merged(r)
    BY <1>5 DEF ParseExtentNode
  <2>2. DOMAIN e = 1 .. 1 /\ e[1] = b
    OBVIOUS
  <2>3. r[1] = Failed /\ DOMAIN r = 1 .. 1 /\ 1 \in 1 .. 1
    BY <1>1, <1>5, <2>2
  <2> HIDE DEF r
  <2>4. ~r[1].ok
    BY <2>3, OutcomeFacts
  <2>5. Merged(r) = Failed
    BY <2>3, <2>4 DEF Merged
  <2> QED
    BY <2>1, <2>5
<1>6. 0 \in T
  <2>1. P[0][b] = ParseExtentNode(node, 0, <<>>)
    BY <1>1 DEF Parsing, node
  <2>2. P[0][b] = Failed
    BY <1>2, <1>3, <1>4, <2>1
  <2> QED
    BY <1>1, <2>2
<1>7. ASSUME NEW l \in 0 .. MaxDepth - 1, l \in T PROVE l + 1 \in T
  <2>1. l + 1 \in 1 .. MaxDepth /\ (l + 1) - 1 = l /\ l + 1 \in Nat \ {0} /\ l + 1 \in 0 .. MaxDepth
    BY <1>1
  <2>2. P[l + 1][b] = ParseExtentNode(node, l + 1, P[(l + 1) - 1])
    BY <1>1, <2>1 DEF Parsing, node
  <2>3. P[l][b] = Failed
    BY <1>7
  <2>4. P[l + 1][b] = Failed
    BY <1>2, <1>3, <1>5, <2>1, <2>2, <2>3
  <2> QED
    BY <2>1, <2>4
<1>8. 0 .. MaxDepth \subseteq T
  <2> HIDE DEF T, b
  <2> QED
    BY <1>1, <1>6, <1>7, UpTo
<1> QED
  BY <1>8

\* A block of the tree that is not damaged is read as the node it holds.
LEMMA GoodNode ==
    ASSUME NEW f, Laid(f), Low(f), f.extents, Faulty(f), NEW d \in 1 .. f.height, NEW i \in 1 .. Len(f.plan),
           f.damage = "none" \/ TreeBlock(d, i) # f.hit
    PROVE  ReadNode(f, TreeBlock(d, i)) =
               [magic |-> TRUE, depth |-> d - 1, entries |-> Group(Tree(f)[d - 1], i)]
<1> DEFINE b == TreeBlock(d, i)
<1>1. b \in TreeBase + 10 .. Blocks - 1 /\ Level(b) = d /\ Index(b) = i /\ TreeBase \in Nat /\ Blocks \in Nat
  BY BlocksOfTree, FileSizes
<1>2. \A damage \in {"unreadable", "reused", "taken", "loop"} : ~(b = f.hit /\ f.damage = damage)
  OBVIOUS
<1> HIDE DEF b
<1>3. Readable(f, b)
  <2>1. b < Blocks /\ b # f.bad
    BY <1>1 DEF Faulty
  <2> QED
    BY <1>2, <2>1 DEF Readable
<1>4. ~Foreign(f, b)
  <2>1. ~(b < TreeBase + 10) /\ Level(b) \in 1 .. f.height
    BY <1>1
  <2> QED
    BY <1>2, <2>1 DEF Foreign
<1>5. NodeAt(f, b) = [magic |-> TRUE, depth |-> d - 1, entries |-> Group(Held(f, d - 1), i)]
  BY <1>1, <1>2, <1>4 DEF NodeAt
<1> QED
  BY <1>3, <1>5 DEF ReadNode, Held, b

\* How many nodes may still be followed from a depth on.
Left(f, d) == MaxDepth - f.height + d

\* Nodes of a depth, each parsed, together give the extents of the file.
Gives(f, P, d, R) ==
    /\ R \in Seq(Seq(Extent)) /\ Len(R) = Len(Tree(f)[d]) /\ FlattenSeq(R) = Extents(f)
    /\ \A i \in 1 .. Len(R) :
           /\ P[Left(f, d)][Tree(f)[d][i]] \in {Failed, Found(R[i])}
           /\ f.damage = "none" => P[Left(f, d)][Tree(f)[d][i]] = Found(R[i])

\* What a node above gives.
Children(entries, below) ==
    Merged([i \in DOMAIN entries |-> IF entries[i] = 0 THEN Found(<<>>) ELSE below[entries[i]]])

\* What the children of a node give is the extents below it, or it fails.
LEMMA ChildrenGive ==
    ASSUME NEW f, Laid(f), Low(f), NEW P, Parsing(f, P), NEW d \in 1 .. f.height,
           Left(f, d) \in 0 .. MaxDepth,
           NEW R, Gives(f, P, d, R), NEW a \in 0 .. Len(R), NEW b \in a .. Len(R)
    PROVE  /\ Children(SubSeq(Tree(f)[d], a + 1, b), P[Left(f, d)]) \in
                  {Failed, Found(FlattenSeq(SubSeq(R, a + 1, b)))}
           /\ f.damage = "none" =>
                  Children(SubSeq(Tree(f)[d], a + 1, b), P[Left(f, d)]) = Found(FlattenSeq(SubSeq(R, a + 1, b)))
<1> DEFINE t == Tree(f)[d]
           e == SubSeq(t, a + 1, b)
           p == SubSeq(R, a + 1, b)
           below == P[Left(f, d)]
           m == b - a
           r == [i \in 1 .. m |-> below[t[a + i]]]
<1>1. /\ R \in Seq(Seq(Extent)) /\ Len(R) = Len(t) /\ Len(R) \in Nat
      /\ \A i \in 1 .. Len(R) :
           /\ below[t[i]] \in {Failed, Found(R[i])}
           /\ f.damage = "none" => below[t[i]] = Found(R[i])
  BY SMTT(30) DEF Gives
<1>2. /\ Len(t) \in 0 .. Len(f.plan)
      /\ t = [i \in 1 .. Len(t) |-> TreeBlock(d, i)] /\ Len(f.plan) \in Nat
  <2>1. TreeMade(f)
    BY TreeFacts
  <2>2. f.height \in Nat /\ d \in 0 .. f.height
    BY DEF Low
  <2>3. t = [i \in 1 .. Ceiling(Len(Tree(f)[d - 1]), NodeEntries) |-> TreeBlock(d, i)]
        /\ Len(t) = Ceiling(Len(Tree(f)[d - 1]), NodeEntries)
    BY <2>1 DEF TreeMade
  <2>4. Len(t) \in 0 .. Len(f.plan)
    BY <2>1, <2>2 DEF TreeMade
  <2>5. Len(f.plan) \in Nat
    BY PlaceFacts DEF Placed
  <2> QED
    BY <2>3, <2>4, <2>5
<1>3. \A i \in 1 .. Len(t) : t[i] \in 1 .. Blocks - 1
  <2> SUFFICES ASSUME NEW i \in 1 .. Len(t) PROVE t[i] \in 1 .. Blocks - 1
    OBVIOUS
  <2>1. t[i] = TreeBlock(d, i)
    BY <1>2
  <2>2. i \in 1 .. Len(f.plan)
    BY <1>2
  <2> HIDE DEF t
  <2> QED
    BY <2>1, <2>2, BlocksOfTree
<1>4. t \in Seq(1 .. Blocks - 1)
  <2> DEFINE l == Len(t)
  <2>1. l \in Nat /\ t = [i \in 1 .. l |-> t[i]] /\ \A i \in 1 .. l : t[i] \in 1 .. Blocks - 1
    BY <1>2, <1>3
  <2> HIDE DEF l, t
  <2>2. t \in [1 .. l -> 1 .. Blocks - 1]
    BY <2>1
  <2> QED
    BY <2>1, <2>2, IsSequence
<1>5. m \in Nat /\ e = [j \in 1 .. m |-> t[a + j]] /\ \A j \in 1 .. m : a + j \in 1 .. Len(t)
  <2>1. a \in 0 .. Len(t) /\ b \in a .. Len(t)
    BY <1>1
  <2> HIDE DEF t
  <2>2. b - a \in Nat
    BY <1>1
  <2> QED
    BY <1>4, <2>1, <2>2, PartOf
<1>6. p = [j \in 1 .. m |-> R[a + j]] /\ p \in Seq(Seq(Extent)) /\ Len(p) = m
  <2> HIDE DEF t
  <2> QED
    BY <1>1, PartOf
<1>7. Children(e, below) = Merged(r)
  <2>1. DOMAIN e = 1 .. m /\ \A j \in 1 .. m : e[j] = t[a + j] /\ e[j] # 0
    <3> HIDE DEF t, e, m
    <3>1. DOMAIN e = 1 .. m /\ \A j \in 1 .. m : e[j] = t[a + j]
      BY <1>5
    <3>2. \A j \in 1 .. m : t[a + j] # 0
      <4> SUFFICES ASSUME NEW j \in 1 .. m PROVE t[a + j] # 0
        OBVIOUS
      <4>1. a + j \in 1 .. Len(t)
        BY <1>5
      <4>2. t[a + j] \in 1 .. Blocks - 1
        BY <1>3, <4>1
      <4> QED
        BY <4>2
    <3> QED
      BY <3>1, <3>2
  <2> HIDE DEF t, e, m, below
  <2>2. [i \in DOMAIN e |-> IF e[i] = 0 THEN Found(<<>>) ELSE below[e[i]]] = [i \in 1 .. m |-> below[t[a + i]]]
    BY <2>1
  <2> QED
    BY <2>2 DEF Children, r
<1>8. /\ \A i \in 1 .. m : r[i] \in Outcomes(Extent)
      /\ r = [i \in 1 .. m |-> r[i]]
      /\ \A i \in 1 .. m : r[i] \in {Failed, Found(p[i])}
      /\ f.damage = "none" => \A i \in 1 .. m : r[i] = Found(p[i])
  <2>1. below \in [0 .. Blocks - 1 -> Outcomes(Extent)]
    BY DEF Parsing
  <2> HIDE DEF t, p, below, m, e
  <2>2. ASSUME NEW i \in 1 .. m
        PROVE  /\ r[i] = below[t[a + i]] /\ t[a + i] \in 0 .. Blocks - 1
               /\ p[i] = R[a + i] /\ a + i \in 1 .. Len(R)
    <3>1. a + i \in 1 .. Len(t)
      BY <1>5
    <3>2. t[a + i] \in 1 .. Blocks - 1
      BY <1>3, <3>1
    <3> QED
      BY <1>1, <1>6, <3>1, <3>2
  <2>3. ASSUME NEW i \in 1 .. m PROVE r[i] \in Outcomes(Extent) /\ r[i] \in {Failed, Found(p[i])}
                                      /\ (f.damage = "none" => r[i] = Found(p[i]))
    <3> HIDE DEF r
    <3> QED
      BY <1>1, <2>1, <2>2
  <2>4. r = [i \in 1 .. m |-> r[i]]
    OBVIOUS
  <2> HIDE DEF r
  <2> QED
    BY <2>3, <2>4
<1> HIDE DEF r, p, m, e, t, below
<1>9. /\ Merged(r) \in {Failed, Found(FlattenSeq(p))}
      /\ (\A i \in 1 .. m : r[i] = Found(p[i])) => Merged(r) = Found(FlattenSeq(p))
  <2>1. MergedInto(r, p, m, Extent)
    BY <1>5, <1>8, MergedFacts
  <2> QED
    BY <1>6, <1>8, <2>1, Zenon DEF MergedInto
<1> QED
  BY <1>7, <1>8, <1>9 DEF p, e, t, below

\* The nodes that hold extents give them.
LEMMA FirstDepth ==
    ASSUME NEW f, Laid(f), Low(f), f.extents, Faulty(f), f.damage # "taken",
           f.height > 0, f.height <= MaxDepth + 1, NEW P, Parsing(f, P)
    PROVE  \E R : Gives(f, P, 1, R)
<1> DEFINE e == Extents(f)
           c == Ceiling(Len(e), NodeEntries)
           R == [i \in 1 .. c |-> Group(e, i)]
           l == Left(f, 1)
<1>1. f.height \in Nat /\ MaxDepth \in Nat /\ 1 \in 1 .. f.height /\ l \in 0 .. MaxDepth
  BY FileSizes DEF Low, Left
<1>2. e \in Seq(Extent) /\ Len(e) \in 0 .. Len(f.plan) /\ Len(f.plan) \in Nat
  BY PlaceFacts, FewExtents
<1>3. R \in Seq(Seq(Extent)) /\ FlattenSeq(R) = e /\ Len(R) = c
  <2> HIDE DEF e, c, R
  <2> QED
    BY <1>2, GroupsTogether DEF c, R
<1>4. c \in Nat /\ c <= Len(e)
  <2>1. Len(e) \in Nat /\ NodeEntries \in Nat \ {0}
    BY <1>2, FileSizes
  <2> HIDE DEF e
  <2> QED
    BY <2>1, CeilingCovers, Zenon
<1>5. /\ Tree(f)[1] = [i \in 1 .. c |-> TreeBlock(1, i)] /\ Len(Tree(f)[1]) = c
      /\ Tree(f)[0] = e
  <2>1. TreeMade(f) /\ 1 - 1 = 0
    BY TreeFacts
  <2>2. Tree(f)[0] = e
    BY <2>1 DEF TreeMade
  <2>3. Tree(f)[1] = [i \in 1 .. Ceiling(Len(Tree(f)[1 - 1]), NodeEntries) |-> TreeBlock(1, i)]
        /\ Len(Tree(f)[1]) = Ceiling(Len(Tree(f)[1 - 1]), NodeEntries)
    BY <1>1, <2>1 DEF TreeMade
  <2> QED
    BY <2>1, <2>2, <2>3
<1>6. ASSUME NEW i \in 1 .. c
      PROVE  /\ P[l][Tree(f)[1][i]] \in {Failed, Found(R[i])}
             /\ f.damage = "none" => P[l][Tree(f)[1][i]] = Found(R[i])
  <2> DEFINE b == TreeBlock(1, i)
             x == IF l = 0 THEN <<>> ELSE P[l - 1]
  <2>1. i \in 1 .. Len(f.plan) /\ Tree(f)[1][i] = b /\ R[i] = Group(e, i)
    BY <1>2, <1>4, <1>5
  <2>2. b \in 0 .. Blocks - 1
    <3>1. b \in 1 .. Blocks - 1
      BY <1>1, <2>1, BlocksOfTree
    <3> HIDE DEF b
    <3> QED
      BY <3>1, FileSizes
  <2>3. P[l][b] = ParseExtentNode(ReadNode(f, b), l, x)
    <3>1. CASE l = 0
      <4>1. P[0][b] = ParseExtentNode(ReadNode(f, b), 0, <<>>)
        BY <2>2 DEF Parsing
      <4> QED
        BY <3>1, <4>1
    <3>2. CASE l # 0
      <4>1. l \in 1 .. MaxDepth
        BY <1>1, <3>2
      <4> HIDE DEF l, b
      <4>2. P[l][b] = ParseExtentNode(ReadNode(f, b), l, P[l - 1])
        BY <2>2, <4>1 DEF Parsing
      <4> QED
        BY <3>2, <4>2
    <3> QED
      BY <3>1, <3>2
  <2>4. CASE f.damage # "none" /\ b = f.hit
    <3>1. P[l][b] = Failed
      BY <1>1, <2>4, DamagedFails
    <3> QED
      BY <2>1, <2>4, <3>1
  <2>5. CASE f.damage = "none" \/ b # f.hit
    <3>1. ReadNode(f, b) = [magic |-> TRUE, depth |-> 1 - 1, entries |-> Group(Tree(f)[1 - 1], i)]
      BY <1>1, <2>1, <2>5, GoodNode
    <3>2. ReadNode(f, b) = [magic |-> TRUE, depth |-> 0, entries |-> Group(e, i)]
      <4>1. 1 - 1 = 0
        OBVIOUS
      <4> QED
        BY <1>5, <3>1, <4>1
    <3> HIDE DEF x, l, b, e
    <3>3. P[l][b] = Found(Group(e, i))
      BY <2>3, <3>2 DEF ParseExtentNode
    <3> QED
      BY <2>1, <3>3
  <2> QED
    BY <2>4, <2>5
<1> HIDE DEF R, e, c
<1>7. Gives(f, P, 1, R)
  BY <1>3, <1>5, <1>6 DEF Gives, e
<1> QED
  BY <1>7

\* The nodes above give what those below them give.
LEMMA NextDepth ==
    ASSUME NEW f, Laid(f), Low(f), f.extents, Faulty(f), f.damage # "taken", f.height <= MaxDepth + 1,
           NEW P, Parsing(f, P), NEW d \in 1 .. f.height, d < f.height, NEW R, Gives(f, P, d, R)
    PROVE  \E Q : Gives(f, P, d + 1, Q)
<1> DEFINE t == Tree(f)[d]
           N == NodeEntries
           l == Left(f, d)
           c == Ceiling(Len(R), N)
           Q == Regrouped(R)
<1>1. /\ f.height \in Nat /\ MaxDepth \in Nat /\ d + 1 \in 1 .. f.height /\ l \in 0 .. MaxDepth - 1
      /\ l + 1 \in 1 .. MaxDepth /\ Left(f, d + 1) = l + 1 /\ (l + 1) - 1 = l /\ (d + 1) - 1 = d
      /\ d \in 0 .. f.height /\ l \in 0 .. MaxDepth
  BY FileSizes DEF Low, Left
<1>2. R \in Seq(Seq(Extent)) /\ Len(R) = Len(t) /\ FlattenSeq(R) = Extents(f) /\ Len(R) \in Nat
  BY DEF Gives
<1>3. Q \in Seq(Seq(Extent)) /\ Len(Q) = c /\ FlattenSeq(Q) = Extents(f)
  BY <1>2, Regroup
<1>4. /\ Tree(f)[d + 1] = [i \in 1 .. c |-> TreeBlock(d + 1, i)] /\ Len(Tree(f)[d + 1]) = c
      /\ Len(t) \in 0 .. Len(f.plan) /\ Len(f.plan) \in Nat
  <2>1. TreeMade(f)
    BY TreeFacts
  <2>2. Len(t) \in 0 .. Len(f.plan) /\ Len(f.plan) \in Nat
    <3>1. Len(f.plan) \in Nat
      BY PlaceFacts DEF Placed
    <3> QED
      BY <1>1, <2>1, <3>1 DEF TreeMade
  <2>3. Tree(f)[d + 1] = [i \in 1 .. Ceiling(Len(Tree(f)[(d + 1) - 1]), NodeEntries) |-> TreeBlock(d + 1, i)]
        /\ Len(Tree(f)[d + 1]) = Ceiling(Len(Tree(f)[(d + 1) - 1]), NodeEntries)
    BY <1>1, <2>1 DEF TreeMade
  <2> QED
    BY <1>1, <1>2, <2>2, <2>3
<1>5. c \in Nat /\ c <= Len(R)
  BY <1>2, FileSizes, CeilingCovers
<1>6. ASSUME NEW i \in 1 .. c
      PROVE  /\ P[l + 1][Tree(f)[d + 1][i]] \in {Failed, Found(Q[i])}
             /\ f.damage = "none" => P[l + 1][Tree(f)[d + 1][i]] = Found(Q[i])
  <2> DEFINE b == TreeBlock(d + 1, i)
             a == (i - 1) * N
             z == Least(i * N, Len(R))
  <2>1. i \in 1 .. Len(f.plan) /\ Tree(f)[d + 1][i] = b /\ Q[i] = FlattenSeq(Group(R, i))
    <3>1. Q[i] = FlattenSeq(Group(R, i))
      BY DEF Regrouped
    <3>2. i \in 1 .. Len(f.plan)
      BY <1>2, <1>4, <1>5
    <3>3. Tree(f)[d + 1][i] = b
      BY <1>4
    <3> QED
      BY <3>1, <3>2, <3>3
  <2>2. b \in 0 .. Blocks - 1
    <3>1. b \in 1 .. Blocks - 1
      BY <1>1, <2>1, BlocksOfTree
    <3> HIDE DEF b
    <3> QED
      BY <3>1, FileSizes
  <2>3. P[l + 1][b] = ParseExtentNode(ReadNode(f, b), l + 1, P[l])
    <3> HIDE DEF l, b
    <3>1. P[l + 1][b] = ParseExtentNode(ReadNode(f, b), l + 1, P[(l + 1) - 1])
      BY <1>1, <2>2 DEF Parsing
    <3> QED
      BY <1>1, <3>1
  <2>4. CASE f.damage # "none" /\ b = f.hit
    <3>1. l + 1 \in 0 .. MaxDepth
      BY <1>1
    <3>2. P[l + 1][b] = Failed
      BY <2>4, <3>1, DamagedFails
    <3> QED
      BY <2>1, <2>4, <3>2
  <2>5. CASE f.damage = "none" \/ b # f.hit
    <3>1. ReadNode(f, b) = [magic |-> TRUE, depth |-> (d + 1) - 1, entries |-> Group(Tree(f)[(d + 1) - 1], i)]
      BY <1>1, <2>1, <2>5, GoodNode
    <3>2. ReadNode(f, b) = [magic |-> TRUE, depth |-> d, entries |-> Group(t, i)]
      BY <1>1, <3>1
    <3>3. P[l + 1][b] = Children(Group(t, i), P[l])
      <4>1. d # 0 /\ l + 1 # 0
        BY <1>1
      <4> DEFINE node == ReadNode(f, b)
      <4>2. node.magic /\ node.depth = d /\ node.entries = Group(t, i)
        BY <3>2
      <4> HIDE DEF node, t, l
      <4>3. ParseExtentNode(node, l + 1, P[l]) = Children(Group(t, i), P[l])
        BY <4>1, <4>2 DEF ParseExtentNode, Children
      <4> QED
        BY <2>3, <4>3 DEF node
    <3>4. /\ a \in 0 .. Len(R) /\ z \in a .. Len(R)
          /\ Group(R, i) = SubSeq(R, a + 1, z)
      <4>1. i - 1 \in Nat /\ i - 1 < c /\ (i - 1) + 1 = i
        BY <1>5
      <4>2. /\ (i - 1) * N \in 0 .. Len(R)
            /\ Least(((i - 1) + 1) * N, Len(R)) \in (i - 1) * N .. Len(R)
            /\ Group(R, (i - 1) + 1) = SubSeq(R, (i - 1) * N + 1, Least(((i - 1) + 1) * N, Len(R)))
        BY <1>2, <4>1, GroupBounds
      <4> QED
        BY <4>1, <4>2
    <3>5. Group(t, i) = SubSeq(t, a + 1, z)
      BY <1>2 DEF Group
    <3> HIDE DEF a, z
    <3>6. /\ Children(SubSeq(t, a + 1, z), P[l]) \in {Failed, Found(FlattenSeq(SubSeq(R, a + 1, z)))}
          /\ f.damage = "none" =>
                 Children(SubSeq(t, a + 1, z), P[l]) = Found(FlattenSeq(SubSeq(R, a + 1, z)))
      BY <1>1, <3>4, ChildrenGive, SMTT(30)
    <3> HIDE DEF t, l, b, Q
    <3> QED
      BY <2>1, <3>3, <3>4, <3>5, <3>6
  <2> QED
    BY <2>4, <2>5
<1> HIDE DEF Q, c, l
<1>7. Gives(f, P, d + 1, Q)
  BY <1>1, <1>3, <1>4, <1>6 DEF Gives
<1> QED
  BY <1>7

\* Whatever stands below a root still whole, what comes of it are extents.
LEMMA TreeTyped ==
    ASSUME NEW f, Laid(f), Low(f), f.extents
    PROVE  CollectExtents(f, Root(f, "intact")) \in Outcomes(Extent)
<1> DEFINE h == f.height
           held == Tree(f)[h]
           root == [magic |-> TRUE, depth |-> h, entries |-> held]
<1>1. h \in Nat /\ MaxDepth \in Nat /\ MaxDepth + 1 \in Nat /\ MaxDepth + 1 # 0 /\ MaxDepth \in 0 .. MaxDepth
  BY FileSizes DEF Low
<1>2. PICK P : Parsing(f, P)
  BY ParsingFacts
<1>3. Root(f, "intact") = root
  BY DEF Root, Held
<1>4. P[MaxDepth] \in [0 .. Blocks - 1 -> Outcomes(Extent)]
  BY <1>1, <1>2 DEF Parsing
<1>5. TreeMade(f) /\ Placed(f) /\ Blocks \in Nat /\ Len(f.plan) \in Nat
  <2>1. Placed(f)
    BY PlaceFacts
  <2> QED
    BY <2>1, TreeFacts, FileSizes DEF Placed
<1>6. held \in IF h = 0 THEN Seq(Extent) ELSE Seq(0 .. Blocks - 1)
  <2>1. CASE h = 0
    <3>1. Extents(f) \in Seq(Extent)
      BY <1>5, FewExtents
    <3> QED
      BY <1>5, <2>1, <3>1 DEF TreeMade
  <2>2. CASE h # 0
    <3>1. h \in 1 .. f.height
      BY <1>1, <2>2
    <3>2. held = [i \in 1 .. Ceiling(Len(Tree(f)[h - 1]), NodeEntries) |-> TreeBlock(h, i)]
          /\ Len(held) = Ceiling(Len(Tree(f)[h - 1]), NodeEntries)
          /\ Len(held) \in 0 .. Len(f.plan)
      <4>1. h \in 0 .. f.height
        BY <1>1
      <4> QED
        BY <1>5, <3>1, <4>1 DEF TreeMade
    <3> DEFINE l == Len(held)
    <3>3. l \in 0 .. Len(f.plan) /\ held = [i \in 1 .. l |-> TreeBlock(h, i)]
      BY <3>2
    <3> HIDE DEF l, held
    <3>4. \A i \in 1 .. l : TreeBlock(h, i) \in 0 .. Blocks - 1
      <4> SUFFICES ASSUME NEW i \in 1 .. l PROVE TreeBlock(h, i) \in 0 .. Blocks - 1
        OBVIOUS
      <4>1. i \in 1 .. Len(f.plan)
        BY <1>5, <3>3
      <4>2. TreeBlock(h, i) \in 1 .. Blocks - 1
        BY <3>1, <4>1, BlocksOfTree
      <4> HIDE DEF h
      <4> QED
        BY <1>5, <4>2
    <3> HIDE DEF h
    <3>5. held \in [1 .. l -> 0 .. Blocks - 1]
      BY <3>3, <3>4
    <3>6. held \in Seq(0 .. Blocks - 1)
      BY <1>5, <3>3, <3>5
    <3> QED
      BY <2>2, <3>6
  <2> QED
    BY <2>1, <2>2
<1>7. root \in Nodes
  <2> HIDE DEF h, held
  <2>1. held \in Holdings
    BY <1>6 DEF Holdings
  <2> QED
    BY <1>1, <1>6, <2>1 DEF Nodes
<1> HIDE DEF root
<1>8. CollectExtents(f, root) = ParseExtentNode(root, MaxDepth + 1, P[MaxDepth])
  BY <1>2 DEF Parsing
<1>9. ParseExtentNode(root, MaxDepth + 1, P[MaxDepth]) \in Outcomes(Extent)
  BY <1>1, <1>4, <1>7, ParseTyped
<1> QED
  BY <1>3, <1>8, <1>9

\* A root still whole leads to all extents, unless a block below it is damaged.
LEMMA IntactTree ==
    ASSUME NEW f, Laid(f), Low(f), f.extents, Faulty(f), f.damage # "taken", f.height <= MaxDepth + 1
    PROVE  /\ CollectExtents(f, Root(f, "intact")) \in {Failed, Found(Extents(f))}
           /\ f.damage = "none" => CollectExtents(f, Root(f, "intact")) = Found(Extents(f))
<1> DEFINE h == f.height
           root == [magic |-> TRUE, depth |-> h, entries |-> Tree(f)[h]]
<1>1. h \in Nat /\ MaxDepth \in Nat /\ MaxDepth + 1 # 0 /\ Left(f, h) = MaxDepth
  BY FileSizes DEF Low, Left
<1>2. PICK P : Parsing(f, P)
  BY ParsingFacts
<1>3. Root(f, "intact") = root
  BY DEF Root, Held
<1>4. CollectExtents(f, root) = ParseExtentNode(root, MaxDepth + 1, P[MaxDepth])
  <2> HIDE DEF root
  <2> QED
    BY <1>2 DEF Parsing
<1>5. root.magic /\ root.depth = h /\ root.entries = Tree(f)[h]
  OBVIOUS
<1> HIDE DEF root
<1>6. CASE h = 0
  <2>1. Tree(f)[0] = Extents(f)
    BY TreeFacts DEF TreeMade
  <2>2. CollectExtents(f, root) = Found(Extents(f))
    BY <1>4, <1>5, <1>6, <2>1 DEF ParseExtentNode
  <2> QED
    BY <1>3, <2>2
<1>7. CASE h # 0
  <2> DEFINE T == {m \in 0 .. h - 1 : \E R : Gives(f, P, m + 1, R)}
  <2>1. 0 \in T
    <3>1. \E R : Gives(f, P, 1, R)
      BY <1>1, <1>2, <1>7, FirstDepth
    <3>2. 0 \in 0 .. h - 1 /\ 0 + 1 = 1
      BY <1>1, <1>7
    <3> QED
      BY <3>1, <3>2
  <2>2. ASSUME NEW m \in 0 .. (h - 1) - 1, m \in T PROVE m + 1 \in T
    <3>1. m + 1 \in 1 .. h /\ m + 1 < h /\ m + 1 \in 0 .. h - 1
      BY <1>1
    <3>2. PICK R : Gives(f, P, m + 1, R)
      BY <2>2
    <3>3. \E Q : Gives(f, P, (m + 1) + 1, Q)
      BY <1>2, <3>1, <3>2, NextDepth
    <3> QED
      BY <3>1, <3>3
  <2>3. 0 .. h - 1 \subseteq T
    <3>1. h - 1 \in Nat
      BY <1>1, <1>7
    <3> HIDE DEF T, h
    <3> QED
      BY <2>1, <2>2, <3>1, UpTo
  <2>4. h - 1 \in 0 .. h - 1 /\ (h - 1) + 1 = h /\ h \in 1 .. h
    BY <1>1, <1>7
  <2>5. PICK R : Gives(f, P, h, R)
    BY <2>3, <2>4
  <2>6. R \in Seq(Seq(Extent)) /\ Len(R) = Len(Tree(f)[h]) /\ FlattenSeq(R) = Extents(f) /\ Len(R) \in Nat
    BY <2>5 DEF Gives
  <2>7. 0 \in 0 .. Len(R) /\ Len(R) \in 0 .. Len(R) /\ 0 + 1 = 1
    BY <2>6
  <2>8. /\ Children(SubSeq(Tree(f)[h], 0 + 1, Len(R)), P[MaxDepth]) \in
               {Failed, Found(FlattenSeq(SubSeq(R, 0 + 1, Len(R))))}
        /\ f.damage = "none" =>
               Children(SubSeq(Tree(f)[h], 0 + 1, Len(R)), P[MaxDepth]) =
                   Found(FlattenSeq(SubSeq(R, 0 + 1, Len(R))))
    <3>1. ASSUME NEW d \in 1 .. f.height, d = h
          PROVE  /\ Children(SubSeq(Tree(f)[d], 0 + 1, Len(R)), P[Left(f, d)]) \in
                        {Failed, Found(FlattenSeq(SubSeq(R, 0 + 1, Len(R))))}
                 /\ f.damage = "none" =>
                        Children(SubSeq(Tree(f)[d], 0 + 1, Len(R)), P[Left(f, d)]) =
                            Found(FlattenSeq(SubSeq(R, 0 + 1, Len(R))))
      <4>1. Left(f, d) \in 0 .. MaxDepth /\ Gives(f, P, d, R)
        BY <1>1, <2>5, <3>1
      <4> HIDE DEF h
      <4> QED
        BY <1>2, <2>7, <4>1, ChildrenGive
    <3>2. h \in 1 .. f.height
      BY <2>4
    <3> QED
      BY <1>1, <3>1, <3>2, Zenon
  <2>9. SubSeq(R, 0 + 1, Len(R)) = R
    BY <2>6
  <2>10. SubSeq(Tree(f)[h], 0 + 1, Len(R)) = Tree(f)[h]
    <3>1. Tree(f)[h] \in Holdings
      <4>1. h \in 0 .. h
        BY <1>1
      <4> QED
        BY <4>1, TreeFacts DEF TreeMade
    <3>2. \A S : \A x \in Seq(S) : SubSeq(x, 0 + 1, Len(x)) = x
      OBVIOUS
    <3> QED
      BY <2>6, <3>1, <3>2 DEF Holdings
  <2>11. CollectExtents(f, root) = Children(Tree(f)[h], P[MaxDepth])
    BY <1>1, <1>4, <1>5, <1>7 DEF ParseExtentNode, Children
  <2> QED
    BY <1>3, <2>6, <2>8, <2>9, <2>10, <2>11
<1> QED
  BY <1>6, <1>7

\* A deletion leaves nothing to find.
LEMMA EmptiedRoot ==
    ASSUME NEW f, Laid(f), Low(f), f.extents
    PROVE  /\ CollectExtents(f, Root(f, "cleared")) = Found(<<>>)
           /\ CollectExtents(f, Root(f, "wiped")) = Failed
<1>1. PICK P : Parsing(f, P)
  BY ParsingFacts
<1>2. Root(f, "cleared") = [magic |-> TRUE, depth |-> 0, entries |-> <<>>]
  BY DEF Root, NoNode
<1>3. Root(f, "wiped") = [magic |-> FALSE, depth |-> 0, entries |-> <<>>]
  BY DEF Root, NoNode
<1> DEFINE c == [magic |-> TRUE, depth |-> 0, entries |-> <<>>]
           w == [magic |-> FALSE, depth |-> 0, entries |-> <<>>]
<1>4. c.magic /\ c.depth = 0 /\ c.entries = <<>> /\ ~w.magic
  OBVIOUS
<1> HIDE DEF c, w
<1>5. CollectExtents(f, c) = Found(<<>>)
  BY <1>1, <1>4 DEF Parsing, ParseExtentNode
<1>6. CollectExtents(f, w) = Failed
  BY <1>1, <1>4 DEF Parsing, ParseExtentNode
<1> QED
  BY <1>2, <1>3, <1>5, <1>6 DEF c, w

-----------------------------------------------------------------------------
(* Block pointers.                                                         *)

\* What a pointer of each level stands for.
LEMMA Spans ==
    /\ Span(0) = 1 /\ Span(1) = Pointers * Span(0) /\ Span(2) = Pointers * Span(1) /\ Span(3) = Pointers * Span(2)
    /\ \A l \in 0 .. 3 : Span(l) \in Nat \ {0}
    /\ \A l \in 1 .. 3 : Span(l) = Pointers * Span(l - 1)
    /\ LevelStart(1) = Direct + 1
    /\ LevelStart(2) = LevelStart(1) + Span(1) /\ LevelStart(3) = LevelStart(2) + Span(2)
    /\ \A l \in 1 .. 3 : LevelStart(l) \in Nat \ {0}
<1> DEFINE P == Pointers
           S == P * P
           C == P * P * P
<1>1. P \in Nat \ {0} /\ Direct \in Nat \ {0}
  BY FileSizes
<1>2. Span(0) = 1 /\ Span(1) = P /\ Span(2) = S /\ Span(3) = C
  BY DEF Span
<1>3. LevelStart(1) = Direct + 1 /\ LevelStart(2) = Direct + (1 + P) /\ LevelStart(3) = Direct + (1 + P + S)
  BY DEF LevelStart
<1>4. P * 1 = P /\ P * P = S /\ P * S = C
  BY <1>1
<1>5. S \in Nat \ {0} /\ C \in Nat \ {0}
  <2>1. \A a, b \in Nat \ {0} : a * b \in Nat \ {0}
    OBVIOUS
  <2>2. S \in Nat \ {0}
    BY <1>1, <2>1
  <2> QED
    BY <1>1, <2>1, <2>2
<1> HIDE DEF P, S, C
<1>6. \A l \in 0 .. 3 : l = 0 \/ l = 1 \/ l = 2 \/ l = 3
  OBVIOUS
<1>7. 1 - 1 = 0 /\ 2 - 1 = 1 /\ 3 - 1 = 2
  OBVIOUS
<1>8. \A l \in 0 .. 3 : Span(l) \in Nat \ {0}
  BY <1>1, <1>2, <1>5, <1>6
<1>9. Span(1) = P * Span(0) /\ Span(2) = P * Span(1) /\ Span(3) = P * Span(2)
  BY <1>2, <1>4 DEF S
<1>10. \A l \in 1 .. 3 : Span(l) = P * Span(l - 1)
  BY <1>6, <1>7, <1>9
<1>11. LevelStart(2) = LevelStart(1) + Span(1) /\ LevelStart(3) = LevelStart(2) + Span(2)
  BY <1>1, <1>2, <1>3, <1>5
<1>12. \A l \in 1 .. 3 : LevelStart(l) \in Nat \ {0}
  BY <1>1, <1>3, <1>5, <1>6
<1> QED
  BY <1>2, <1>3, <1>8, <1>9, <1>10, <1>11, <1>12 DEF P

\* The blocks behind the first.
DiskBlocks == 1 .. Blocks - 1

\* Where each block lies; a hole lies nowhere.
Slots(f) == [k \in Nat \ {0} |-> IF Mapped(f, k) THEN <<Place(f, k)>> ELSE <<>>]

\* The blocks that a pointer of a level stands for, from the k-th on.
Piece(f, l, k) == Between(Slots(f), k - 1, (k - 1) + Span(l))

\* The place of each block.
LEMMA SlotFacts ==
    ASSUME NEW f, Laid(f)
    PROVE  /\ \A k \in Nat \ {0} :
                  /\ Slots(f)[k] \in Seq(DiskBlocks) /\ Len(Slots(f)[k]) <= 1
                  /\ Mapped(f, k) => Slots(f)[k] = <<Place(f, k)>> /\ Place(f, k) \in DiskBlocks
                                     /\ k \in 1 .. Len(f.plan)
                  /\ ~Mapped(f, k) => Slots(f)[k] = <<>>
           /\ Len(f.plan) \in Nat
<1>1. Placed(f)
  BY PlaceFacts
<1>2. Len(f.plan) \in Nat /\ DOMAIN f.plan = 1 .. Len(f.plan)
  BY <1>1 DEF Placed
<1>3. ASSUME NEW k \in Nat \ {0}
      PROVE  /\ Slots(f)[k] \in Seq(DiskBlocks) /\ Len(Slots(f)[k]) <= 1
             /\ Mapped(f, k) => Slots(f)[k] = <<Place(f, k)>> /\ Place(f, k) \in DiskBlocks
                                /\ k \in 1 .. Len(f.plan)
             /\ ~Mapped(f, k) => Slots(f)[k] = <<>>
  <2>1. CASE Mapped(f, k)
    <3>1. k \in 1 .. Len(f.plan)
      BY <1>2, <2>1 DEF Mapped
    <3>2. Place(f, k) \in Nat /\ Place(f, k) > 0 /\ Place(f, k) < Blocks
      <4>1. k \in 0 .. Len(f.plan)
        BY <1>2, <3>1
      <4> QED
        BY <1>1, <2>1, <3>1, <4>1 DEF Placed
    <3>3. Place(f, k) \in DiskBlocks
      BY <3>2, FileSizes DEF DiskBlocks
    <3>4. Slots(f)[k] = <<Place(f, k)>>
      BY <2>1 DEF Slots
    <3>5. \A x \in DiskBlocks : <<x>> \in Seq(DiskBlocks) /\ Len(<<x>>) <= 1
      OBVIOUS
    <3> QED
      BY <2>1, <3>1, <3>3, <3>4, <3>5
  <2>2. CASE ~Mapped(f, k)
    <3>1. Slots(f)[k] = <<>>
      BY <2>2 DEF Slots
    <3> QED
      BY <2>2, <3>1
  <2> QED
    BY <2>1, <2>2
<1> QED
  BY <1>2, <1>3

\* How the places put together grow, and how many they are.
LEMMA SlotsGrow ==
    ASSUME NEW f, Laid(f), NEW a \in Nat, NEW b \in Nat, a <= b
    PROVE  /\ FirstOf(Slots(f), a) \in Seq(DiskBlocks)
           /\ FirstOf(Slots(f), b) = FirstOf(Slots(f), a) \o Between(Slots(f), a, b)
           /\ Between(Slots(f), a, b) \in Seq(DiskBlocks)
           /\ FirstOf(Slots(f), 0) = <<>>
           /\ (\A j \in a + 1 .. b : ~Mapped(f, j)) => Between(Slots(f), a, b) = <<>>
<1> DEFINE s == Slots(f)
<1>1. \A k \in Nat \ {0} : s[k] \in Seq(DiskBlocks)
  BY SlotFacts
<1>2. \A j \in 1 .. b : s[j] \in Seq(DiskBlocks)
  <2> HIDE DEF s
  <2> QED
    BY <1>1
<1>3. a \in 0 .. b /\ b \in a .. b
  OBVIOUS
<1>4. (\A j \in a + 1 .. b : ~Mapped(f, j)) => Between(s, a, b) = <<>>
  <2> SUFFICES ASSUME \A j \in a + 1 .. b : ~Mapped(f, j) PROVE Between(s, a, b) = <<>>
    OBVIOUS
  <2> DEFINE g == [j \in 1 .. b - a |-> s[a + j]]
  <2>1. b - a \in Nat
    OBVIOUS
  <2>2. ASSUME NEW j \in 1 .. b - a PROVE g[j] = <<>>
    <3>1. a + j \in a + 1 .. b /\ a + j \in Nat \ {0}
      OBVIOUS
    <3>2. s[a + j] = <<>>
      BY <3>1, SlotFacts
    <3> QED
      BY <3>2
  <2> HIDE DEF g
  <2>3. FirstOf(g, b - a) = <<>>
    BY <2>1, <2>2, NothingThere
  <2> QED
    BY <2>3 DEF Between, g
<1> HIDE DEF s
<1>5. FirstOf(s, b) = FirstOf(s, a) \o Between(s, a, b) /\ Between(s, a, b) \in Seq(DiskBlocks)
  BY <1>2, <1>3, Split
<1>6. Extends(s, b, DiskBlocks)
  BY <1>2, FirstOfFacts
<1>7. FirstOf(s, a) \in Seq(DiskBlocks) /\ FirstOf(s, 0) = <<>>
  BY <1>3, <1>6 DEF Extends
<1> QED
  BY <1>4, <1>5, <1>7 DEF s

\* There are no more places than blocks.
LEMMA FewSlots ==
    ASSUME NEW f, Laid(f), NEW m \in Nat
    PROVE  Len(FirstOf(Slots(f), m)) \in 0 .. Len(f.plan)
<1> DEFINE s == Slots(f)
           n == Len(f.plan)
           T == {k \in 0 .. m : Len(FirstOf(s, k)) \in 0 .. n /\ Len(FirstOf(s, k)) <= k}
<1>1. n \in Nat /\ \A k \in Nat \ {0} : s[k] \in Seq(DiskBlocks) /\ Len(s[k]) <= 1
                                        /\ (k > n => s[k] = <<>>)
  <2>1. n \in Nat
    BY SlotFacts
  <2> SUFFICES ASSUME NEW k \in Nat \ {0}
               PROVE  s[k] \in Seq(DiskBlocks) /\ Len(s[k]) <= 1 /\ (k > n => s[k] = <<>>)
    BY <2>1
  <2>2. s[k] \in Seq(DiskBlocks) /\ Len(s[k]) <= 1
    BY SlotFacts
  <2>3. ASSUME k > n PROVE s[k] = <<>>
    <3>1. ~(k \in 1 .. n)
      BY <2>1, <2>3
    <3> QED
      BY <3>1, SlotFacts
  <2> QED
    BY <2>2, <2>3
<1> HIDE DEF s, n
<1>2. Extends(s, m, DiskBlocks)
  <2>1. \A j \in 1 .. m : s[j] \in Seq(DiskBlocks)
    BY <1>1
  <2> QED
    BY <2>1, FirstOfFacts
<1>3. 0 \in T
  <2>1. FirstOf(s, 0) = <<>> /\ Len(<<>>) = 0
    BY <1>2 DEF Extends
  <2> QED
    BY <1>1, <2>1
<1>4. ASSUME NEW k \in 0 .. m - 1, k \in T PROVE k + 1 \in T
  <2>1. k + 1 \in 0 .. m /\ k + 1 \in Nat \ {0} /\ k \in 0 .. m
    OBVIOUS
  <2>2. FirstOf(s, k + 1) = FirstOf(s, k) \o s[k + 1] /\ FirstOf(s, k) \in Seq(DiskBlocks)
    BY <1>2, <2>1 DEF Extends
  <2>3. s[k + 1] \in Seq(DiskBlocks) /\ Len(s[k + 1]) <= 1 /\ (k + 1 > n => s[k + 1] = <<>>)
    BY <1>1, <2>1
  <2>4. Len(FirstOf(s, k + 1)) = Len(FirstOf(s, k)) + Len(s[k + 1])
    BY <2>2, <2>3
  <2>5. Len(FirstOf(s, k)) \in 0 .. n /\ Len(FirstOf(s, k)) <= k
    BY <1>4
  <2>6. Len(s[k + 1]) \in 0 .. 1 /\ (k + 1 > n => Len(s[k + 1]) = 0)
    <3>1. Len(<<>>) = 0 /\ Len(s[k + 1]) \in Nat
      BY <2>3
    <3>2. k + 1 > n => Len(s[k + 1]) = 0
      BY <2>3, <3>1, Zenon
    <3>3. Len(s[k + 1]) \in 0 .. 1
      <4>1. \A x \in Nat : x <= 1 => x \in 0 .. 1
        OBVIOUS
      <4> QED
        BY <2>3, <3>1, <4>1, Zenon
    <3> QED
      BY <3>2, <3>3
  <2>7. Len(FirstOf(s, k + 1)) \in 0 .. n /\ Len(FirstOf(s, k + 1)) <= k + 1
    BY <1>1, <2>4, <2>5, <2>6
  <2> QED
    BY <2>1, <2>7
<1>5. 0 .. m \subseteq T
  <2> HIDE DEF T
  <2> QED
    BY <1>3, <1>4, UpTo
<1>6. m \in 0 .. m
  OBVIOUS
<1>7. m \in T
  BY <1>5, <1>6
<1> QED
  BY <1>7 DEF s, n

\* What indirect blocks of a level yield, for each number of blocks looked for.
Yields(limit) == [DiskBlocks -> [1 .. limit -> Outcomes(DiskBlocks)]]

\* Two results put together.
LEMMA Joined ==
    ASSUME NEW S, NEW a \in Seq(S), NEW more \in Outcomes(S)
    PROVE  /\ Extended(Found(a), more) \in Outcomes(S)
           /\ \A r \in Outcomes(S) : r.ok => Extended(r, more) \in Outcomes(S)
           /\ \A b \in Seq(S) :
                  /\ more \in {Failed, Found(b)} => Extended(Found(a), more) \in {Failed, Found(a \o b)}
                  /\ more = Found(b) => Extended(Found(a), more) = Found(a \o b)
<1>1. more.ok \in BOOLEAN /\ more.found \in Seq(S)
  BY OutcomeFacts, Zenon
<1>2. \A r \in Outcomes(S) : r.found \in Seq(S) /\ r.ok \in BOOLEAN
  BY OutcomeFacts, Zenon
<1>3. ASSUME NEW r \in Outcomes(S) PROVE Extended(r, more) \in Outcomes(S)
  <2>1. r.found \o more.found \in Seq(S)
    <3>1. \A u, v \in Seq(S) : u \o v \in Seq(S)
      OBVIOUS
    <3> QED
      BY <1>1, <1>2, <3>1, Zenon
  <2>2. Found(r.found \o more.found) \in Outcomes(S) /\ Failed \in Outcomes(S)
    BY <2>1, OutcomeFacts, Zenon
  <2> QED
    BY <2>2, Zenon DEF Extended
<1>4. Found(a) \in Outcomes(S) /\ Found(a).found = a
  BY OutcomeFacts, Zenon
<1>5. ASSUME NEW b \in Seq(S), more = Found(b) PROVE Extended(Found(a), more) = Found(a \o b)
  <2>1. more.ok /\ more.found = b
    BY <1>5, OutcomeFacts, Zenon
  <2> QED
    BY <1>4, <2>1, Zenon DEF Extended
<1>6. ASSUME more = Failed PROVE Extended(Found(a), more) = Failed
  <2>1. ~more.ok
    BY <1>6, OutcomeFacts, Zenon
  <2> QED
    BY <2>1, Zenon DEF Extended
<1>7. ASSUME NEW b \in Seq(S), more \in {Failed, Found(b)}
      PROVE  Extended(Found(a), more) \in {Failed, Found(a \o b)}
  BY <1>5, <1>6, <1>7
<1> QED
  BY <1>3, <1>4, <1>5, <1>7, Zenon

\* One pointer more gives a result or leaves it alone.
LEMMA OnePointer ==
    ASSUME NEW limit \in Nat, NEW below \in Yields(limit), NEW most \in 1 .. limit,
           NEW r \in Outcomes(DiskBlocks), NEW ptr \in 0 .. Blocks - 1
    PROVE  WithPointer(r, ptr, below, most) \in Outcomes(DiskBlocks)
<1>1. CASE ~r.ok \/ Len(r.found) >= most \/ ptr = 0
  BY <1>1, Zenon DEF WithPointer
<1>2. CASE ~(~r.ok \/ Len(r.found) >= most \/ ptr = 0)
  <2>1. r.ok /\ ~(Len(r.found) >= most) /\ ptr # 0
    BY <1>2, Zenon
  <2>2. r.found \in Seq(DiskBlocks)
    BY OutcomeFacts, Zenon
  <2>3. most - Len(r.found) \in 1 .. limit
    <3>1. Len(r.found) \in Nat
      BY <2>2
    <3> QED
      BY <2>1, <3>1
  <2>4. ptr \in DiskBlocks
    BY <2>1, FileSizes DEF DiskBlocks
  <2> DEFINE more == below[ptr][most - Len(r.found)]
  <2>5. more \in Outcomes(DiskBlocks)
    BY <2>3, <2>4 DEF Yields
  <2>6. WithPointer(r, ptr, below, most) = Extended(r, more)
    BY <1>2, Zenon DEF WithPointer
  <2> HIDE DEF more
  <2>7. Extended(r, more) \in Outcomes(DiskBlocks)
    <3>1. <<>> \in Seq(DiskBlocks)
      OBVIOUS
    <3> QED
      BY <2>1, <2>5, <3>1, Joined, Zenon
  <2> QED
    BY <2>6, <2>7
<1> QED
  BY <1>1, <1>2

\* One pointer after the other.
InTurn(ptrs, below, most, g) ==
    /\ g \in [0 .. Pointers -> Outcomes(DiskBlocks)]
    /\ g[0] = Found(<<>>)
    /\ \A i \in 1 .. Pointers : g[i] = WithPointer(g[i - 1], ptrs[i], below, most)
    /\ ReadPointers(ptrs, below, most) = g[Pointers]

\* The pointers of a block are followed one after the other.
LEMMA ReadPointersFacts ==
    ASSUME NEW limit \in Nat, NEW below \in Yields(limit), NEW most \in 1 .. limit,
           NEW ptrs, \A i \in 1 .. Pointers : ptrs[i] \in 0 .. Blocks - 1
    PROVE  \E g : InTurn(ptrs, below, most, g)
<1> DEFINE V == Outcomes(DiskBlocks)
           n == Pointers
           read[i \in 0 .. Pointers] ==
               IF i = 0 THEN Found(<<>>) ELSE WithPointer(read[i - 1], ptrs[i], below, most)
           base == Found(<<>>)
           over(x, i) == WithPointer(x, ptrs[i], below, most)
           step == [i \in 1 .. n |-> [x \in V |-> over(x, i)]]
<1>1. ReadPointers(ptrs, below, most) = read[n]
  BY DEF ReadPointers
<1>2. n \in Nat
  BY FileSizes
<1>3. base \in V
  <2>1. <<>> \in Seq(DiskBlocks)
    OBVIOUS
  <2> QED
    BY <2>1, OutcomeFacts, Zenon
<1>4. ASSUME NEW i \in 1 .. n, NEW x \in V PROVE over(x, i) \in V
  BY OnePointer
<1> HIDE DEF V, n
<1>5. PICK g : Follows(g, V, base, n, step)
  <2>1. step \in [1 .. n -> [V -> V]]
    <3>1. \A i \in 1 .. n : \A x \in V : over(x, i) \in V
      BY <1>4
    <3> HIDE DEF over
    <3> QED
      BY <3>1
  <2> HIDE DEF step, base
  <2> QED
    BY <1>2, <1>3, <2>1, Recursion, Zenon
<1>6. /\ g \in [0 .. n -> V] /\ g[0] = base
      /\ \A i \in 1 .. n : g[i] = over(g[i - 1], i)
  <2> HIDE DEF over, base
  <2>1. \A i \in 1 .. n : i - 1 \in 0 .. n
    BY <1>2
  <2> QED
    BY <1>5, <2>1 DEF Follows
<1>7. g = [i \in 0 .. n |-> IF i = 0 THEN Found(<<>>) ELSE WithPointer(g[i - 1], ptrs[i], below, most)]
  <2>1. ASSUME NEW i \in 0 .. n
        PROVE  g[i] = IF i = 0 THEN Found(<<>>) ELSE WithPointer(g[i - 1], ptrs[i], below, most)
    <3>1. CASE i = 0
      BY <1>6, <3>1
    <3>2. CASE i # 0
      <4>1. i \in 1 .. n
        BY <1>2, <3>2
      <4> QED
        BY <1>6, <3>2, <4>1
    <3> QED
      BY <3>1, <3>2
  <2>2. g = [i \in 0 .. n |-> g[i]]
    BY <1>6
  <2> HIDE DEF read, base, over, step
  <2> QED
    BY <2>1, <2>2, Zenon
<1>8. read = [i \in 0 .. n |-> IF i = 0 THEN Found(<<>>) ELSE WithPointer(read[i - 1], ptrs[i], below, most)]
  <2> HIDE DEF step, over, base
  <2> QED
    BY <1>7 DEF n
<1> HIDE DEF read
<1>9. read = g
  <2>1. GoTogether(g, read, n)
    <3>1. g = [i \in 0 .. n |-> g[i]] /\ read = [i \in 0 .. n |-> read[i]]
      <4> HIDE DEF step, over, base
      <4> QED
        BY <1>6, <1>8
    <3>2. read[0] = base
      BY <1>2, <1>8
    <3>3. \A i \in 1 .. n : read[i] = over(read[i - 1], i)
      <4> SUFFICES ASSUME NEW i \in 1 .. n PROVE read[i] = over(read[i - 1], i)
        OBVIOUS
      <4>1. i \in 0 .. n /\ i # 0
        BY <1>2
      <4> QED
        BY <1>8, <4>1
    <3> HIDE DEF over, base, step
    <3> QED
      BY <1>6, <3>1, <3>2, <3>3 DEF GoTogether
  <2> HIDE DEF over, base, step
  <2> QED
    BY <1>2, <2>1, Same, Zenon
<1>10. InTurn(ptrs, below, most, g)
  BY <1>1, <1>6, <1>9 DEF InTurn, n, V
<1> QED
  BY <1>10

\* The pointers of a block of level 1, 2 or 3 lead to blocks of the disk.
LEMMA PointersTyped ==
    ASSUME NEW f, Laid(f), ~f.extents, NEW b \in DiskBlocks, NEW i \in 1 .. Pointers
    PROVE  PointersAt(f, b)[i] \in 0 .. Blocks - 1
<1> DEFINE n == Len(f.plan)
           l == Level(b)
           k == Index(b) + (i - 1) * Span(l - 1)
<1>1. /\ n \in Nat /\ TreeBase + 10 * (n + 1) <= Blocks /\ TreeBase \in Nat \ {0} /\ Blocks \in Nat
      /\ b \in Nat
  BY FileSizes, SlotFacts DEF Laid, DiskBlocks
<1>2. PointersAt(f, b)[i] = IF Foreign(f, b) THEN Stranger ELSE PointerTo(f, l - 1, k)
  BY DEF PointersAt
<1>3. CASE Foreign(f, b)
  <2>1. Stranger \in 0 .. Blocks - 1
    BY <1>1 DEF Stranger
  <2> QED
    BY <1>2, <1>3, <2>1
<1>4. CASE ~Foreign(f, b)
  <2>1. b >= TreeBase + 10 /\ l \in 1 .. 3
    <3>1. ~(b < TreeBase + 10) /\ l \in 1 .. 3
      BY <1>4 DEF Foreign
    <3> QED
      BY <1>1, <3>1
  <2>2. Index(b) \in Nat \ {0}
    <3> DEFINE x == b - TreeBase
    <3>1. x \in Nat /\ x >= 10
      BY <1>1, <2>1
    <3> HIDE DEF x
    <3>2. x \div 10 \in Nat \ {0}
      BY <3>1
    <3> QED
      BY <3>2 DEF Index, x
  <2>3. Span(l - 1) \in Nat \ {0} /\ l - 1 \in 0 .. 2
    <3>1. l - 1 \in 0 .. 3 /\ l - 1 \in 0 .. 2
      BY <2>1
    <3> HIDE DEF l
    <3> QED
      BY <3>1, Spans
  <2>4. k \in Nat \ {0}
    <3> DEFINE s == Span(l - 1)
    <3>1. i - 1 \in Nat
      OBVIOUS
    <3> HIDE DEF s
    <3>2. (i - 1) * s \in Nat
      BY <2>3, <3>1, Multiples DEF s
    <3> HIDE DEF l
    <3> QED
      BY <2>2, <3>2 DEF s
  <2> HIDE DEF k, l
  <2>5. PointerTo(f, l - 1, k) \in 0 .. Blocks - 1
    <3> DEFINE s == Span(l - 1)
    <3>1. CASE ~\E j \in k .. k + s - 1 : Mapped(f, j)
      <4>1. PointerTo(f, l - 1, k) = 0
        BY <3>1, Zenon DEF PointerTo
      <4> QED
        BY <1>1, <4>1
    <3>2. CASE \E j \in k .. k + s - 1 : Mapped(f, j)
      <4>1. PICK j \in k .. k + s - 1 : Mapped(f, j)
        BY <3>2
      <4>2. j \in Nat \ {0} /\ j >= k /\ (s = 1 => j = k)
        BY <2>3, <2>4
      <4>3. j \in 1 .. n /\ Place(f, j) \in DiskBlocks
        BY <4>1, <4>2, SlotFacts
      <4>4. CASE l - 1 = 0
        <5>1. s = 1
          BY <4>4, Spans
        <5>2. PointerTo(f, l - 1, k) = Place(f, k)
          BY <3>2, <4>4, Zenon DEF PointerTo
        <5> QED
          BY <1>1, <4>2, <4>3, <5>1, <5>2 DEF DiskBlocks
      <4>5. CASE l - 1 # 0
        <5>1. PointerTo(f, l - 1, k) = PointerBlock(l - 1, k)
          BY <3>2, <4>5, Zenon DEF PointerTo
        <5>2. k \in 1 .. n
          BY <1>1, <2>4, <4>2, <4>3
        <5>3. TreeBase + 10 * k + (l - 1) \in 0 .. Blocks - 1
          <6> HIDE DEF n
          <6> QED
            BY <1>1, <2>3, <5>2
        <5> QED
          BY <5>1, <5>3 DEF PointerBlock
      <4> QED
        BY <4>4, <4>5
    <3> QED
      BY <3>1, <3>2
  <2> QED
    BY <1>2, <1>4, <2>5 DEF k, l
<1> QED
  BY <1>3, <1>4

\* What the blocks yield, level above level.
Levels(f, limit, R) ==
    /\ R \in [0 .. 3 -> Yields(limit)]
    /\ \A b \in DiskBlocks : \A most \in 1 .. limit : R[0][b][most] = Found(<<b>>)
    /\ \A l \in 1 .. 3 : \A b \in DiskBlocks : \A most \in 1 .. limit :
           R[l][b][most] = IF Readable(f, b) THEN ReadPointers(PointersAt(f, b), R[l - 1], most) ELSE Failed
    /\ ReadLevels(f, limit) = R

\* ReadLevels follows the levels one above the other.
LEMMA ReadLevelsFacts ==
    ASSUME NEW f, Laid(f), ~f.extents, NEW limit \in Nat
    PROVE  \E R : Levels(f, limit, R)
<1> DEFINE V == Yields(limit)
           n == 3
           read[l \in 0 .. 3] ==
               [b \in 1 .. Blocks - 1 |-> [most \in 1 .. limit |->
                   IF l = 0 THEN Found(<<b>>)
                   ELSE IF Readable(f, b) THEN ReadPointers(PointersAt(f, b), read[l - 1], most)
                   ELSE Failed]]
           base == [b \in DiskBlocks |-> [most \in 1 .. limit |-> Found(<<b>>)]]
           over(x) == [b \in DiskBlocks |-> [most \in 1 .. limit |->
                           IF Readable(f, b) THEN ReadPointers(PointersAt(f, b), x, most) ELSE Failed]]
           step == [l \in 1 .. n |-> [x \in V |-> over(x)]]
<1>1. ReadLevels(f, limit) = read
  BY DEF ReadLevels
<1>2. n \in Nat
  OBVIOUS
<1>3. base \in V
  <2>1. ASSUME NEW b \in DiskBlocks PROVE Found(<<b>>) \in Outcomes(DiskBlocks)
    <3>1. <<b>> \in Seq(DiskBlocks)
      OBVIOUS
    <3> QED
      BY <3>1, OutcomeFacts, Zenon
  <2> QED
    BY <2>1 DEF Yields
<1>4. ASSUME NEW x \in V PROVE over(x) \in V
  <2>1. ASSUME NEW b \in DiskBlocks, NEW most \in 1 .. limit
        PROVE  ReadPointers(PointersAt(f, b), x, most) \in Outcomes(DiskBlocks)
    <3>1. \A i \in 1 .. Pointers : PointersAt(f, b)[i] \in 0 .. Blocks - 1
      BY PointersTyped
    <3>2. PICK g : InTurn(PointersAt(f, b), x, most, g)
      BY <3>1, ReadPointersFacts
    <3>3. Pointers \in 0 .. Pointers
      BY FileSizes
    <3> QED
      BY <3>2, <3>3 DEF InTurn
  <2>2. Failed \in Outcomes(DiskBlocks)
    BY OutcomeFacts, Zenon
  <2> QED
    BY <2>1, <2>2 DEF Yields
<1> HIDE DEF V, n
<1>5. PICK g : Follows(g, V, base, n, step)
  <2>1. step \in [1 .. n -> [V -> V]]
    <3>1. \A l \in 1 .. n : \A x \in V : over(x) \in V
      BY <1>4
    <3> HIDE DEF over
    <3> QED
      BY <3>1
  <2> HIDE DEF step, base
  <2> QED
    BY <1>2, <1>3, <2>1, Recursion, Zenon
<1>6. /\ g \in [0 .. n -> V] /\ g[0] = base
      /\ \A l \in 1 .. n : g[l] = over(g[l - 1])
  <2> HIDE DEF over, base
  <2>1. \A l \in 1 .. n : l - 1 \in 0 .. n
    BY <1>2
  <2> QED
    BY <1>5, <2>1 DEF Follows
<1>7. g = [l \in 0 .. n |->
              [b \in 1 .. Blocks - 1 |-> [most \in 1 .. limit |->
                   IF l = 0 THEN Found(<<b>>)
                   ELSE IF Readable(f, b) THEN ReadPointers(PointersAt(f, b), g[l - 1], most)
                   ELSE Failed]]]
  <2>1. ASSUME NEW l \in 0 .. n
        PROVE  g[l] = [b \in 1 .. Blocks - 1 |-> [most \in 1 .. limit |->
                   IF l = 0 THEN Found(<<b>>)
                   ELSE IF Readable(f, b) THEN ReadPointers(PointersAt(f, b), g[l - 1], most)
                   ELSE Failed]]
    <3>1. CASE l = 0
      BY <1>6, <3>1 DEF DiskBlocks
    <3>2. CASE l # 0
      <4>1. l \in 1 .. n
        BY <1>2, <3>2
      <4>2. g[l] = over(g[l - 1])
        BY <1>6, <4>1
      <4> QED
        BY <3>2, <4>2 DEF DiskBlocks
    <3> QED
      BY <3>1, <3>2
  <2>2. g = [l \in 0 .. n |-> g[l]]
    BY <1>6
  <2> HIDE DEF read, base, over, step
  <2> QED
    BY <2>1, <2>2, Zenon
<1>8. read = [l \in 0 .. n |->
              [b \in 1 .. Blocks - 1 |-> [most \in 1 .. limit |->
                   IF l = 0 THEN Found(<<b>>)
                   ELSE IF Readable(f, b) THEN ReadPointers(PointersAt(f, b), read[l - 1], most)
                   ELSE Failed]]]
  <2> HIDE DEF step, over, base
  <2> QED
    BY <1>7 DEF n
<1> HIDE DEF read
<1>9. read = g
  <2>1. GoTogether(g, read, n)
    <3>1. g = [l \in 0 .. n |-> g[l]] /\ read = [l \in 0 .. n |-> read[l]]
      <4> HIDE DEF step, over, base
      <4> QED
        BY <1>6, <1>8
    <3>2. read[0] = base
      <4>1. 0 \in 0 .. n
        BY <1>2
      <4> QED
        BY <1>8, <4>1 DEF DiskBlocks
    <3>3. \A l \in 1 .. n : read[l] = over(read[l - 1])
      <4> SUFFICES ASSUME NEW l \in 1 .. n PROVE read[l] = over(read[l - 1])
        OBVIOUS
      <4>1. l \in 0 .. n /\ l # 0
        BY <1>2
      <4>2. read[l] = [b \in 1 .. Blocks - 1 |-> [most \in 1 .. limit |->
                   IF l = 0 THEN Found(<<b>>)
                   ELSE IF Readable(f, b) THEN ReadPointers(PointersAt(f, b), read[l - 1], most)
                   ELSE Failed]]
        BY <1>8, <4>1
      <4> QED
        BY <4>1, <4>2 DEF DiskBlocks
    <3> HIDE DEF over, base, step
    <3> QED
      BY <1>6, <3>1, <3>2, <3>3 DEF GoTogether
  <2> HIDE DEF over, base, step
  <2> QED
    BY <1>2, <2>1, Same, Zenon
<1>10. /\ \A b \in DiskBlocks : \A most \in 1 .. limit : g[0][b][most] = Found(<<b>>)
       /\ \A l \in 1 .. 3 : \A b \in DiskBlocks : \A most \in 1 .. limit :
           g[l][b][most] = IF Readable(f, b) THEN ReadPointers(PointersAt(f, b), g[l - 1], most) ELSE Failed
  BY <1>6 DEF n
<1>11. Levels(f, limit, g)
  BY <1>1, <1>6, <1>9, <1>10 DEF Levels, V, n
<1> QED
  BY <1>11

\* A pointer of a level leads to the places it stands for, unless a block is
\* damaged, however many more blocks are looked for.
Leads(f, l, limit, B) ==
    \A k \in Nat \ {0} : \A most \in 1 .. limit :
        PointerTo(f, l, k) # 0 /\ Len(Piece(f, l, k)) <= most =>
            /\ B[PointerTo(f, l, k)][most] \in {Failed, Found(Piece(f, l, k))}
            /\ f.damage = "none" => B[PointerTo(f, l, k)][most] = Found(Piece(f, l, k))

\* Where a pointer that is not zero points to.
Pointing(f, l, k) ==
    /\ Piece(f, l, k) \in Seq(DiskBlocks)
    /\ PointerTo(f, l, k) = 0 => Piece(f, l, k) = <<>>
    /\ PointerTo(f, l, k) \in 0 .. Blocks - 1
    /\ PointerTo(f, l, k) # 0 =>
           /\ PointerTo(f, l, k) \in DiskBlocks
           /\ l = 0 => Mapped(f, k) /\ PointerTo(f, l, k) = Place(f, k)
           /\ l # 0 => /\ PointerTo(f, l, k) = PointerBlock(l, k)
                       /\ PointerBlock(l, k) >= TreeBase + 10
                       /\ Level(PointerBlock(l, k)) = l /\ Index(PointerBlock(l, k)) = k

\* Every pointer of a file that is laid out does.
LEMMA PointsTo ==
    ASSUME NEW f, Laid(f), NEW l \in 0 .. 3, NEW k \in Nat \ {0}
    PROVE  Pointing(f, l, k)
<1> DEFINE n == Len(f.plan)
           s == Span(l)
           p == PointerTo(f, l, k)
<1>1. /\ n \in Nat /\ TreeBase + 10 * (n + 1) <= Blocks /\ TreeBase \in Nat \ {0} /\ Blocks \in Nat
      /\ s \in Nat \ {0} /\ k - 1 \in Nat /\ (k - 1) + s \in Nat /\ k - 1 <= (k - 1) + s
  <2>1. n \in Nat /\ TreeBase + 10 * (n + 1) <= Blocks /\ TreeBase \in Nat \ {0} /\ Blocks \in Nat
    BY FileSizes, SlotFacts DEF Laid
  <2>2. s \in Nat \ {0}
    BY Spans
  <2> HIDE DEF s, n
  <2> QED
    BY <2>1, <2>2
<1>2. /\ Piece(f, l, k) \in Seq(DiskBlocks)
      /\ (\A j \in (k - 1) + 1 .. (k - 1) + s : ~Mapped(f, j)) => Piece(f, l, k) = <<>>
  <2> HIDE DEF s, n
  <2> QED
    BY <1>1, SlotsGrow DEF Piece, s
<1>3. (k - 1) + 1 = k /\ (k - 1) + s = k + s - 1
  BY <1>1
<1>4. CASE ~\E j \in k .. k + s - 1 : Mapped(f, j)
  <2>1. p = 0
    BY <1>4, Zenon DEF PointerTo
  <2>2. \A j \in (k - 1) + 1 .. (k - 1) + s : ~Mapped(f, j)
    BY <1>3, <1>4
  <2>3. 0 \in 0 .. Blocks - 1
    BY FileSizes
  <2> QED
    BY <1>2, <2>1, <2>2, <2>3 DEF Pointing
<1>5. CASE \E j \in k .. k + s - 1 : Mapped(f, j)
  <2>1. PICK j \in k .. k + s - 1 : Mapped(f, j)
    BY <1>5
  <2>2. j \in Nat \ {0} /\ j >= k /\ (s = 1 => j = k)
    BY <1>1, <2>1
  <2>3. j \in 1 .. n /\ Place(f, j) \in DiskBlocks
    BY <2>1, <2>2, SlotFacts
  <2>4. CASE l = 0
    <3>1. s = 1
      BY <2>4, Spans
    <3>2. p = Place(f, k) /\ Mapped(f, k) /\ p \in DiskBlocks
      BY <1>5, <2>1, <2>2, <2>3, <2>4, <3>1, Zenon DEF PointerTo
    <3>3. p # 0 /\ p \in 0 .. Blocks - 1
      BY <1>1, <3>2 DEF DiskBlocks
    <3> QED
      BY <1>2, <2>4, <3>2, <3>3 DEF Pointing
  <2>5. CASE l # 0
    <3>1. p = PointerBlock(l, k)
      BY <1>5, <2>5, Zenon DEF PointerTo
    <3>2. k \in 1 .. n /\ l \in 1 .. 3
      BY <1>1, <2>2, <2>3, <2>5
    <3> DEFINE b == TreeBase + 10 * k + l
    <3>3. b \in TreeBase + 10 .. Blocks - 1 /\ b \in 1 .. Blocks - 1
      <4> HIDE DEF n
      <4> QED
        BY <1>1, <3>2
    <3>4. Level(b) = l /\ Index(b) = k
      <4>1. b - TreeBase = 10 * k + l
        BY <1>1
      <4>2. (10 * k + l) % 10 = l /\ (10 * k + l) \div 10 = k
        BY <3>2
      <4> QED
        BY <4>1, <4>2 DEF Level, Index
    <3>5. p = b
      BY <3>1 DEF PointerBlock
    <3>6. b # 0 /\ b >= TreeBase + 10 /\ b \in 0 .. Blocks - 1
      BY <1>1, <3>3
    <3> HIDE DEF b
    <3> QED
      BY <1>2, <2>5, <3>1, <3>3, <3>4, <3>5, <3>6 DEF DiskBlocks, Pointing
  <2> QED
    BY <2>4, <2>5
<1> QED
  BY <1>4, <1>5

\* A pointer to a block leads to it.
LEMMA DirectLead ==
    ASSUME NEW f, Laid(f), NEW limit \in Nat, NEW R, Levels(f, limit, R)
    PROVE  Leads(f, 0, limit, R[0])
<1> SUFFICES ASSUME NEW k \in Nat \ {0}, NEW most \in 1 .. limit, PointerTo(f, 0, k) # 0
             PROVE  R[0][PointerTo(f, 0, k)][most] = Found(Piece(f, 0, k))
  BY DEF Leads
<1>0. 0 \in 0 .. 3
  OBVIOUS
<1>1. Mapped(f, k) /\ PointerTo(f, 0, k) = Place(f, k) /\ Place(f, k) \in DiskBlocks
  <2>1. Pointing(f, 0, k)
    BY <1>0, PointsTo, Zenon
  <2> QED
    BY <2>1 DEF Pointing
<1>2. R[0][Place(f, k)][most] = Found(<<Place(f, k)>>)
  BY <1>1 DEF Levels
<1>3. Piece(f, 0, k) = <<Place(f, k)>>
  <2> DEFINE g == [j \in 1 .. 1 |-> Slots(f)[(k - 1) + j]]
  <2>1. Span(0) = 1 /\ (k - 1) + 1 - (k - 1) = 1
    BY Spans
  <2>2. Piece(f, 0, k) = FirstOf(g, 1)
    BY <2>1 DEF Piece, Between
  <2>3. g[1] = <<Place(f, k)>>
    <3>1. (k - 1) + 1 = k
      OBVIOUS
    <3> QED
      BY <1>1, <3>1, SlotFacts
  <2>4. <<Place(f, k)>> \in Seq(DiskBlocks)
    <3>1. \A x \in DiskBlocks : <<x>> \in Seq(DiskBlocks)
      OBVIOUS
    <3> QED
      BY <1>1, <3>1, Zenon
  <2>5. Extends(g, 1, DiskBlocks)
    <3> HIDE DEF g
    <3>1. \A j \in 1 .. 1 : g[j] \in Seq(DiskBlocks)
      <4>1. \A j \in 1 .. 1 : j = 1
        OBVIOUS
      <4> QED
        BY <2>3, <2>4, <4>1, Zenon
    <3>2. 1 \in Nat
      OBVIOUS
    <3> QED
      BY <3>1, <3>2, FirstOfFacts
  <2> HIDE DEF g
  <2>6. FirstOf(g, 0 + 1) = FirstOf(g, 0) \o g[0 + 1] /\ FirstOf(g, 0) = <<>>
    <3>1. 0 \in 0 .. 1 - 1
      OBVIOUS
    <3> QED
      BY <2>5, <3>1 DEF Extends
  <2>7. 0 + 1 = 1 /\ \A x \in Seq(DiskBlocks) : <<>> \o x = x
    OBVIOUS
  <2> QED
    BY <2>2, <2>3, <2>4, <2>6, <2>7
<1> QED
  BY <1>1, <1>2, <1>3

\* One more thing that is put together: found so far are the places before a, a
\* pointer of the level leads to those up to b, and there are no more than looked for.
LEMMA PointerAdds ==
    ASSUME NEW f, Laid(f), NEW limit \in Nat, NEW l \in 0 .. 3, NEW B \in Yields(limit), Leads(f, l, limit, B),
           NEW most \in 1 .. limit, NEW a \in Seq(DiskBlocks), NEW k \in Nat \ {0},
           Len(a \o Piece(f, l, k)) <= most
    PROVE  /\ WithPointer(Found(a), PointerTo(f, l, k), B, most) \in {Failed, Found(a \o Piece(f, l, k))}
           /\ f.damage = "none" =>
                  WithPointer(Found(a), PointerTo(f, l, k), B, most) = Found(a \o Piece(f, l, k))
<1> DEFINE p == Piece(f, l, k)
           ptr == PointerTo(f, l, k)
           r == Found(a)
<1>1. p \in Seq(DiskBlocks) /\ (ptr = 0 => p = <<>>) /\ ptr \in 0 .. Blocks - 1 /\ (ptr # 0 => ptr \in DiskBlocks)
  <2>1. Pointing(f, l, k)
    BY PointsTo, Zenon
  <2> QED
    BY <2>1 DEF Pointing
<1>2. r.ok /\ r.found = a
  BY OutcomeFacts, Zenon
<1> HIDE DEF p, ptr, r
<1>3. Len(a \o p) = Len(a) + Len(p) /\ Len(a) \in Nat /\ Len(p) \in Nat
  BY <1>1
<1>4. CASE Len(a) >= most \/ ptr = 0
  <2>1. WithPointer(r, ptr, B, most) = r
    BY <1>2, <1>4, Zenon DEF WithPointer
  <2>2. p = <<>>
    <3>1. Len(a) >= most => Len(p) = 0
      BY <1>3 DEF p
    <3>2. \A x \in Seq(DiskBlocks) : Len(x) = 0 => x = <<>>
      OBVIOUS
    <3> QED
      BY <1>1, <1>4, <3>1, <3>2, Zenon
  <2>3. a \o <<>> = a
    OBVIOUS
  <2>4. r = Found(a \o p)
    BY <2>2, <2>3 DEF r
  <2> QED
    BY <2>1, <2>4 DEF r, p, ptr
<1>5. CASE ~(Len(a) >= most \/ ptr = 0)
  <2> DEFINE more == B[ptr][most - Len(a)]
  <2>1. most - Len(a) \in 1 .. limit /\ Len(p) <= most - Len(a) /\ ptr # 0
    BY <1>3, <1>5 DEF p
  <2>2. WithPointer(r, ptr, B, most) = Extended(r, more)
    <3>1. ~(~r.ok \/ Len(r.found) >= most \/ ptr = 0)
      BY <1>2, <1>5, Zenon
    <3> QED
      BY <1>2, <3>1, Zenon DEF WithPointer
  <2>3. more \in {Failed, Found(p)} /\ (f.damage = "none" => more = Found(p))
    BY <2>1 DEF Leads, p, ptr
  <2>4. more \in Outcomes(DiskBlocks)
    BY <1>1, <2>1 DEF Yields
  <2> HIDE DEF more
  <2>5. /\ more \in {Failed, Found(p)} => Extended(Found(a), more) \in {Failed, Found(a \o p)}
        /\ more = Found(p) => Extended(Found(a), more) = Found(a \o p)
    BY <1>1, <2>4, Joined
  <2> QED
    BY <2>2, <2>3, <2>5, Zenon DEF r, p, ptr
<1> QED
  BY <1>4, <1>5

\* What lies between is put together of what lies before some block and behind it.
Joining(f, a, b, c) ==
    /\ Between(Slots(f), a, c) = Between(Slots(f), a, b) \o Between(Slots(f), b, c)
    /\ Between(Slots(f), a, b) \in Seq(DiskBlocks)
    /\ Len(Between(Slots(f), a, b)) <= Len(Between(Slots(f), a, c))
    /\ Between(Slots(f), a, a) = <<>>

\* It is, for every block between.
LEMMA BetweenJoins ==
    ASSUME NEW f, Laid(f), NEW a \in Nat, NEW b \in Nat, NEW c \in Nat, a <= b, b <= c
    PROVE  Joining(f, a, b, c)
<1> DEFINE s == Slots(f)
           u == Between(s, a, b)
           v == Between(s, b, c)
           w == Between(s, a, c)
           x == FirstOf(s, a)
<1>1. /\ x \in Seq(DiskBlocks) /\ u \in Seq(DiskBlocks) /\ v \in Seq(DiskBlocks) /\ w \in Seq(DiskBlocks)
      /\ FirstOf(s, b) = x \o u /\ FirstOf(s, c) = FirstOf(s, b) \o v /\ FirstOf(s, c) = x \o w
  <2>1. a <= c
    OBVIOUS
  <2> QED
    BY <2>1, SlotsGrow
<1>2. Between(s, a, a) = <<>>
  <2>1. a <= a /\ \A j \in a + 1 .. a : ~Mapped(f, j)
    OBVIOUS
  <2> QED
    BY <2>1, SlotsGrow
<1> HIDE DEF s, u, v, w, x
<1>3. (x \o u) \o v = x \o (u \o v) /\ u \o v \in Seq(DiskBlocks)
  <2>1. \A p, q, r \in Seq(DiskBlocks) : (p \o q) \o r = p \o (q \o r) /\ q \o r \in Seq(DiskBlocks)
    OBVIOUS
  <2> QED
    BY <1>1, <2>1, Zenon
<1>4. \A p, q, r \in Seq(DiskBlocks) : p \o q = p \o r => q = r
  <2> SUFFICES ASSUME NEW p \in Seq(DiskBlocks), NEW q \in Seq(DiskBlocks), NEW r \in Seq(DiskBlocks),
                      p \o q = p \o r
               PROVE  q = r
    OBVIOUS
  <2> DEFINE z == p \o q
  <2>1. Len(z) = Len(p) + Len(q) /\ \A j \in 1 .. Len(q) : z[Len(p) + j] = q[j]
    OBVIOUS
  <2>2. Len(z) = Len(p) + Len(r) /\ \A j \in 1 .. Len(r) : z[Len(p) + j] = r[j]
    <3>1. z = p \o r
      OBVIOUS
    <3> HIDE DEF z
    <3> QED
      BY <3>1
  <2> HIDE DEF z
  <2>3. Len(q) = Len(r) /\ \A j \in 1 .. Len(r) : q[j] = r[j]
    BY <2>1, <2>2
  <2> QED
    BY <2>3, SameElements
<1>5. w = u \o v
  BY <1>1, <1>3, <1>4
<1>6. Len(u) <= Len(w)
  BY <1>1, <1>5
<1> QED
  BY <1>1, <1>2, <1>5, <1>6 DEF s, u, v, w, x, Joining

\* One piece more.
LEMMA NextPiece ==
    ASSUME NEW f, Laid(f), NEW c \in Nat, NEW s \in Nat, NEW n \in Nat, NEW i \in 0 .. n - 1
    PROVE  /\ Between(Slots(f), c, c + (i + 1) * s) =
                  Between(Slots(f), c, c + i * s) \o Between(Slots(f), c + i * s, c + (i * s + s))
           /\ Between(Slots(f), c, c + i * s) \in Seq(DiskBlocks)
           /\ Len(Between(Slots(f), c, c + (i + 1) * s)) <= Len(Between(Slots(f), c, c + n * s))
<1> DEFINE x == i * s
           u == c + x
           v == c + (x + s)
           w == c + n * s
<1>1. x \in Nat /\ (i + 1) * s = x + s /\ (i + 1) * s <= n * s /\ n * s \in Nat
  <2>1. i \in Nat /\ i + 1 \in Nat /\ i + 1 <= n
    OBVIOUS
  <2> QED
    BY <2>1, Multiples
<1>2. u \in Nat /\ v \in Nat /\ w \in Nat /\ c <= u /\ u <= v /\ c <= v /\ v <= w
  <2> HIDE DEF x
  <2> QED
    BY <1>1
<1>3. c + (i + 1) * s = v
  BY <1>1
<1> HIDE DEF x, u, v, w
<1>4. Between(Slots(f), c, v) = Between(Slots(f), c, u) \o Between(Slots(f), u, v)
      /\ Between(Slots(f), c, u) \in Seq(DiskBlocks)
  <2>1. Joining(f, c, u, v)
    BY <1>2, BetweenJoins, Zenon
  <2> QED
    BY <2>1, Zenon DEF Joining
<1>5. Len(Between(Slots(f), c, v)) <= Len(Between(Slots(f), c, w))
  <2>1. Joining(f, c, v, w)
    BY <1>2, BetweenJoins, Zenon
  <2> QED
    BY <2>1, Zenon DEF Joining
<1> QED
  BY <1>3, <1>4, <1>5 DEF u, v, w, x

\* A pointer of a level gives what it stands for.
LEMMA PointerGives ==
    ASSUME NEW f, Laid(f), NEW limit \in Nat, NEW l \in 0 .. 3, NEW B \in Yields(limit), Leads(f, l, limit, B),
           NEW most \in 1 .. limit, NEW a \in Seq(DiskBlocks), NEW k \in Nat \ {0},
           Len(a \o Piece(f, l, k)) <= most,
           NEW r, r \in {Failed, Found(a)}, f.damage = "none" => r = Found(a)
    PROVE  /\ WithPointer(r, PointerTo(f, l, k), B, most) \in {Failed, Found(a \o Piece(f, l, k))}
           /\ f.damage = "none" =>
                  WithPointer(r, PointerTo(f, l, k), B, most) = Found(a \o Piece(f, l, k))
<1>1. CASE r = Found(a)
  BY <1>1, PointerAdds
<1>2. CASE r # Found(a)
  <2>1. r = Failed /\ ~r.ok
    BY <1>2, OutcomeFacts, Zenon
  <2>2. WithPointer(r, PointerTo(f, l, k), B, most) = r
    BY <2>1, Zenon DEF WithPointer
  <2> QED
    BY <1>2, <2>1, <2>2
<1> QED
  BY <1>1, <1>2

\* What holds of the pointers of one level holds of those of the next.
LEMMA BlockLeads ==
    ASSUME NEW f, Laid(f), ~f.extents, Faulty(f), f.damage # "reused",
           NEW limit \in Nat, NEW R, Levels(f, limit, R), NEW l \in 1 .. 3, Leads(f, l - 1, limit, R[l - 1])
    PROVE  Leads(f, l, limit, R[l])
<1> SUFFICES ASSUME NEW k \in Nat \ {0}, NEW most \in 1 .. limit, PointerTo(f, l, k) # 0,
                    Len(Piece(f, l, k)) <= most
             PROVE  /\ R[l][PointerTo(f, l, k)][most] \in {Failed, Found(Piece(f, l, k))}
                    /\ f.damage = "none" => R[l][PointerTo(f, l, k)][most] = Found(Piece(f, l, k))
  BY DEF Leads
<1> DEFINE b == PointerTo(f, l, k)
           s == Span(l - 1)
           c == k - 1
           B == R[l - 1]
           ptrs == PointersAt(f, b)
           So(i) == Between(Slots(f), c, c + i * s)
<1>1. /\ l \in 0 .. 3 /\ l - 1 \in 0 .. 3 /\ l # 0
      /\ Pointers \in Nat \ {0} /\ TreeBase \in Nat /\ Blocks \in Nat
  BY FileSizes
<1>2. /\ b \in DiskBlocks /\ b >= TreeBase + 10 /\ Level(b) = l /\ Index(b) = k
      /\ Piece(f, l, k) \in Seq(DiskBlocks)
  <2>1. /\ b \in DiskBlocks /\ b = PointerBlock(l, k) /\ PointerBlock(l, k) >= TreeBase + 10
        /\ Level(PointerBlock(l, k)) = l /\ Index(PointerBlock(l, k)) = k
        /\ Piece(f, l, k) \in Seq(DiskBlocks)
    <3>1. Pointing(f, l, k)
      BY <1>1, PointsTo, Zenon
    <3> QED
      BY <1>1, <3>1 DEF Pointing
  <2> HIDE DEF b
  <2> QED
    BY <2>1
<1>3. s \in Nat \ {0} /\ Span(l) = Pointers * s /\ c \in Nat
  <2>1. c \in Nat
    OBVIOUS
  <2>2. Span(l) = Pointers * Span(l - 1)
    BY Spans
  <2>3. s \in Nat \ {0}
    BY <1>1, Spans
  <2> QED
    BY <2>1, <2>2, <2>3, Zenon
<1>4. R[l][b][most] = IF Readable(f, b) THEN ReadPointers(ptrs, B, most) ELSE Failed
  BY <1>2 DEF Levels
<1>5. CASE ~Readable(f, b)
  <2>1. f.damage # "none"
    <3>1. b < Blocks /\ b # f.bad
      BY <1>1, <1>2 DEF Faulty, DiskBlocks
    <3> QED
      BY <1>5, <3>1 DEF Readable
  <2>2. R[l][b][most] = Failed
    BY <1>4, <1>5
  <2> QED
    BY <2>1, <2>2
<1>6. CASE Readable(f, b)
  <2>1. ~Foreign(f, b)
    <3>1. ~(b < TreeBase + 10)
      BY <1>1, <1>2 DEF DiskBlocks
    <3> QED
      BY <1>2, <3>1 DEF Foreign
  <2>2. ASSUME NEW i \in 1 .. Pointers PROVE ptrs[i] = PointerTo(f, l - 1, k + (i - 1) * s)
    <3>1. ptrs[i] = PointerTo(f, Level(b) - 1, Index(b) + (i - 1) * Span(Level(b) - 1))
      BY <2>1 DEF PointersAt
    <3> HIDE DEF b
    <3> QED
      BY <1>2, <3>1
  <2>3. B \in Yields(limit)
    BY <1>1 DEF Levels
  <2>4. \A i \in 1 .. Pointers : ptrs[i] \in 0 .. Blocks - 1
    BY <1>2, PointersTyped
  <2>5. PICK g : InTurn(ptrs, B, most, g)
    <3> HIDE DEF ptrs, B
    <3> QED
      BY <2>3, <2>4, ReadPointersFacts
  <2> HIDE DEF ptrs, b
  <2> DEFINE T == {i \in 0 .. Pointers : /\ g[i] \in {Failed, Found(So(i))}
                                         /\ f.damage = "none" => g[i] = Found(So(i))}
  <2>6. 0 \in T
    <3>1. So(0) = <<>>
      <4>1. 0 * s = 0 /\ c + 0 = c
        BY <1>3
      <4>2. Between(Slots(f), c, c) = <<>>
        <5>1. c <= c
          BY <1>3
        <5> QED
          <6>1. Joining(f, c, c, c)
            BY <1>3, <5>1, BetweenJoins, Zenon
          <6> QED
            BY <6>1, Zenon DEF Joining
      <4> QED
        BY <4>1, <4>2
    <3>2. g[0] = Found(<<>>)
      BY <2>5 DEF InTurn
    <3>3. 0 \in 0 .. Pointers
      BY <1>1
    <3> HIDE DEF So
    <3> QED
      BY <3>1, <3>2, <3>3
  <2>7. ASSUME NEW i \in 0 .. Pointers - 1, i \in T PROVE i + 1 \in T
    <3> DEFINE x == i * s
               m == k + x
    <3>1. x \in Nat /\ (i + 1) * s = x + s /\ (i + 1) * s <= Pointers * s /\ Pointers * s \in Nat
      <4>1. i \in Nat /\ i + 1 \in Nat /\ i + 1 <= Pointers /\ s \in Nat
        BY <1>1, <1>3
      <4> HIDE DEF s
      <4> QED
        BY <1>1, <4>1, Multiples
    <3>2. i + 1 \in 1 .. Pointers /\ i + 1 \in 0 .. Pointers /\ (i + 1) - 1 = i
      BY <1>1
    <3>3. ptrs[i + 1] = PointerTo(f, l - 1, m)
      <4>1. ptrs[i + 1] = PointerTo(f, l - 1, k + ((i + 1) - 1) * s)
        BY <2>2, <3>2
      <4> QED
        BY <3>2, <4>1
    <3>4. Piece(f, l - 1, m) = Between(Slots(f), c + x, c + (x + s))
      <4>1. m - 1 = c + x /\ (m - 1) + s = c + (x + s)
        <5> HIDE DEF x, s
        <5> QED
          BY <1>3, <3>1
      <4> HIDE DEF m, s
      <4> QED
        BY <4>1 DEF Piece, s
    <3>5. Piece(f, l, k) = Between(Slots(f), c, c + Pointers * s)
      BY <1>3 DEF Piece
    <3> DEFINE a == So(i)
               q == Between(Slots(f), c + x, c + (x + s))
               all == Between(Slots(f), c, c + Pointers * s)
    <3>6. So(i + 1) = a \o q /\ a \in Seq(DiskBlocks) /\ Len(So(i + 1)) <= Len(all)
      <4>1. c \in Nat /\ s \in Nat /\ Pointers \in Nat
        BY <1>1, <1>3
      <4>2. /\ Between(Slots(f), c, c + (i + 1) * s) =
                  Between(Slots(f), c, c + i * s) \o Between(Slots(f), c + i * s, c + (i * s + s))
            /\ Between(Slots(f), c, c + i * s) \in Seq(DiskBlocks)
            /\ Len(Between(Slots(f), c, c + (i + 1) * s)) <= Len(Between(Slots(f), c, c + Pointers * s))
        <5> HIDE DEF c, s, T, q, all, a, x, So, m
        <5> QED
          BY <4>1, NextPiece
      <4> QED
        BY <4>2, Zenon
    <3>7. m \in Nat \ {0}
      <4> HIDE DEF x
      <4> QED
        BY <3>1
    <3>8. g[i + 1] = WithPointer(g[i], ptrs[i + 1], B, most)
      <4>1. g[i + 1] = WithPointer(g[(i + 1) - 1], ptrs[i + 1], B, most)
        BY <2>5, <3>2 DEF InTurn
      <4> QED
        BY <3>2, <4>1
    <3>9. g[i] \in {Failed, Found(a)} /\ (f.damage = "none" => g[i] = Found(a))
      BY <2>7
    <3>10. Len(a \o Piece(f, l - 1, m)) <= most
      <4>1. a \o Piece(f, l - 1, m) = So(i + 1)
        BY <3>4, <3>6
      <4>2. Len(all) <= most
        BY <3>5
      <4>3. Len(So(i + 1)) \in Nat /\ Len(all) \in Nat /\ most \in Nat
        <5>1. all \in Seq(DiskBlocks)
          BY <1>2, <3>5
        <5>2. So(i + 1) \in Seq(DiskBlocks)
          <6>1. q \in Seq(DiskBlocks)
            <7>1. m \in Nat \ {0} /\ l - 1 \in 0 .. 3
              BY <1>1, <3>7
            <7>2. Piece(f, l - 1, m) \in Seq(DiskBlocks)
              <8> HIDE DEF m
              <8>1. Pointing(f, l - 1, m)
                BY <7>1, PointsTo, Zenon
              <8> QED
                BY <8>1 DEF Pointing
            <7> QED
              BY <3>4, <7>2
          <6>2. \A u, v \in Seq(DiskBlocks) : u \o v \in Seq(DiskBlocks)
            OBVIOUS
          <6> HIDE DEF a, q, So
          <6> QED
            BY <3>6, <6>1, <6>2, Zenon
        <5> HIDE DEF So, all
        <5> QED
          BY <5>1, <5>2
      <4> HIDE DEF So, all, a, m
      <4> QED
        BY <3>6, <4>1, <4>2, <4>3
    <3> HIDE DEF a, m, So, B
    <3>11. /\ WithPointer(g[i], PointerTo(f, l - 1, m), B, most) \in {Failed, Found(a \o Piece(f, l - 1, m))}
           /\ f.damage = "none" =>
                  WithPointer(g[i], PointerTo(f, l - 1, m), B, most) = Found(a \o Piece(f, l - 1, m))
      <4>1. Leads(f, l - 1, limit, B)
        BY DEF B
      <4>2. a \in Seq(DiskBlocks)
        BY <3>6
      <4> DEFINE v == l - 1
                 r == g[i]
      <4>3. v \in 0 .. 3 /\ Leads(f, v, limit, B) /\ Len(a \o Piece(f, v, m)) <= most
            /\ r \in {Failed, Found(a)} /\ (f.damage = "none" => r = Found(a))
        BY <1>1, <3>9, <3>10, <4>1
      <4> HIDE DEF v, r, c, T, s, q, all, x
      <4>4. /\ WithPointer(r, PointerTo(f, v, m), B, most) \in {Failed, Found(a \o Piece(f, v, m))}
            /\ f.damage = "none" =>
                  WithPointer(r, PointerTo(f, v, m), B, most) = Found(a \o Piece(f, v, m))
        BY <2>3, <3>7, <4>2, <4>3, PointerGives, SMTT(60)
      <4> QED
        BY <4>4 DEF v, r
    <3>12. a \o Piece(f, l - 1, m) = So(i + 1)
      BY <3>4, <3>6
    <3> QED
      BY <3>2, <3>3, <3>8, <3>11, <3>12
  <2>8. 0 .. Pointers \subseteq T
    <3> HIDE DEF T
    <3> QED
      BY <1>1, <2>6, <2>7, UpTo
  <2>9. Pointers \in T
    BY <1>1, <2>8
  <2>10. ReadPointers(ptrs, B, most) = g[Pointers]
    BY <2>5 DEF InTurn
  <2>11. So(Pointers) = Piece(f, l, k)
    BY <1>3 DEF Piece
  <2> HIDE DEF So
  <2>12. R[l][b][most] = g[Pointers]
    BY <1>4, <1>6, <2>10
  <2> QED
    BY <2>9, <2>11, <2>12 DEF b
<1> QED
  BY <1>5, <1>6

\* Whatever level a pointer has, it leads to the places it stands for.
LEMMA AllLead ==
    ASSUME NEW f, Laid(f), ~f.extents, Faulty(f), f.damage # "reused",
           NEW limit \in Nat, NEW R, Levels(f, limit, R)
    PROVE  \A l \in 0 .. 3 : Leads(f, l, limit, R[l])
<1>1. Leads(f, 0, limit, R[0])
  BY DirectLead
<1>2. ASSUME NEW l \in 0 .. 3 - 1, Leads(f, l, limit, R[l]) PROVE Leads(f, l + 1, limit, R[l + 1])
  <2>1. l + 1 \in 1 .. 3 /\ (l + 1) - 1 = l
    OBVIOUS
  <2>2. Leads(f, (l + 1) - 1, limit, R[(l + 1) - 1])
    BY <1>2, <2>1
  <2> QED
    BY <2>1, <2>2, BlockLeads
<1> DEFINE T == {l \in 0 .. 3 : Leads(f, l, limit, R[l])}
<1>3. 0 \in T /\ \A l \in 0 .. 3 - 1 : l \in T => l + 1 \in T
  BY <1>1, <1>2
<1>4. 0 .. 3 \subseteq T
  <2>1. 3 \in Nat
    OBVIOUS
  <2> HIDE DEF T
  <2> QED
    BY <1>3, <2>1, UpTo
<1> QED
  BY <1>4

-----------------------------------------------------------------------------
(* All blocks that the inode points to.                                    *)

\* A file whose blocks are all reached by the pointers of its inode, and counted.
Pointed(f) ==
    /\ Laid(f) /\ ~f.extents /\ Faulty(f)
    /\ Needed(f) = Len(f.plan)
    /\ Len(f.plan) < LevelStart(3) + Span(3)

\* The inode's pointer of a level gives blocks of the disk.
LEMMA LevelTyped ==
    ASSUME NEW f, Pointed(f), NEW intact \in BOOLEAN, NEW l \in 1 .. 3, NEW r \in Outcomes(DiskBlocks)
    PROVE  WithLevel(f, intact, r, l) \in Outcomes(DiskBlocks)
<1> DEFINE n == Needed(f)
           block == InodePointer(f, intact, l, LevelStart(l))
           limit == n - Len(r.found)
           more == ReadIndirectBlocks(f, block, l, limit)
<1>1. CASE ~r.ok \/ Len(r.found) >= n
  <2>1. WithLevel(f, intact, r, l) = r
    BY <1>1, Zenon DEF WithLevel
  <2> QED
    BY <2>1
<1>2. CASE ~(~r.ok \/ Len(r.found) >= n)
  <2>1. WithLevel(f, intact, r, l) = Extended(r, more)
    BY <1>2, Zenon DEF WithLevel
  <2>2. r.ok /\ r.found \in Seq(DiskBlocks) /\ <<>> \in Seq(DiskBlocks)
    <3>1. r.found \in Seq(DiskBlocks)
      BY OutcomeFacts, Zenon
    <3> QED
      BY <1>2, <3>1
  <2>3. n \in Nat /\ limit \in Nat /\ limit \in 1 .. limit
    <3>1. n \in Nat
      BY SlotFacts DEF Pointed
    <3>2. Len(r.found) \in Nat /\ ~(Len(r.found) >= n)
      BY <1>2, <2>2
    <3> HIDE DEF n
    <3> QED
      BY <3>1, <3>2
  <2>4. block \in 0 .. Blocks - 1 /\ (block # 0 => block \in DiskBlocks)
    <3>1. l \in 0 .. 3 /\ LevelStart(l) \in Nat \ {0} /\ Laid(f)
      BY Spans, SMTT(20) DEF Pointed
    <3>2. PointerTo(f, l, LevelStart(l)) \in 0 .. Blocks - 1
          /\ (PointerTo(f, l, LevelStart(l)) # 0 => PointerTo(f, l, LevelStart(l)) \in DiskBlocks)
      <4>1. Pointing(f, l, LevelStart(l))
        BY <3>1, PointsTo, Zenon
      <4> QED
        BY <4>1 DEF Pointing
    <3>3. 0 \in 0 .. Blocks - 1
      BY FileSizes
    <3> QED
      BY <3>2, <3>3, Zenon DEF InodePointer
  <2> HIDE DEF block, limit
  <2>5. more \in Outcomes(DiskBlocks)
    <3>1. CASE block = 0
      <4>1. more = Found(<<>>)
        BY <3>1, Zenon DEF ReadIndirectBlocks
      <4> QED
        BY <2>2, <4>1, OutcomeFacts, Zenon
    <3>2. CASE block # 0
      <4>1. PICK R : Levels(f, limit, R)
        BY <2>3, ReadLevelsFacts DEF Pointed
      <4>2. more = R[l][block][limit]
        <5>1. ~(block = 0 \/ limit <= 0)
          BY <2>3, <3>2
        <5>2. ReadLevels(f, limit) = R
          BY <4>1 DEF Levels
        <5> QED
          BY <5>1, <5>2, Zenon DEF ReadIndirectBlocks
      <4>3. R[l] \in Yields(limit)
        <5>1. l \in 0 .. 3
          OBVIOUS
        <5> QED
          BY <4>1, <5>1 DEF Levels
      <4> QED
        BY <2>3, <2>4, <3>2, <4>2, <4>3 DEF Yields
    <3> QED
      BY <3>1, <3>2
  <2> HIDE DEF more
  <2>6. Extended(r, more) \in Outcomes(DiskBlocks)
    BY <2>2, <2>5, Joined, Zenon
  <2> QED
    BY <2>1, <2>6
<1> QED
  BY <1>1, <1>2

\* The inode's pointer of a level adds what it stands for.
LEMMA LevelGives ==
    ASSUME NEW f, Pointed(f), f.damage # "reused", NEW l \in 1 .. 3, NEW a, NEW b,
           a = FirstOf(Slots(f), LevelStart(l) - 1), b = FirstOf(Slots(f), (LevelStart(l) - 1) + Span(l)),
           NEW r, r \in {Failed, Found(a)}, f.damage = "none" => r = Found(a)
    PROVE  /\ WithLevel(f, TRUE, r, l) \in {Failed, Found(b)}
           /\ f.damage = "none" => WithLevel(f, TRUE, r, l) = Found(b)
<1> DEFINE n == Needed(f)
           k == LevelStart(l)
           block == PointerTo(f, l, k)
           p == Piece(f, l, k)
           limit == n - Len(a)
           more == ReadIndirectBlocks(f, block, l, limit)
<1>1. k \in Nat \ {0} /\ Span(l) \in Nat \ {0} /\ l \in 0 .. 3 /\ Laid(f)
  <2>1. l \in 0 .. 3
    OBVIOUS
  <2> QED
    BY <2>1, Spans DEF Pointed
<1>2. a \in Seq(DiskBlocks) /\ b = a \o p /\ p \in Seq(DiskBlocks)
  <2> DEFINE u == k - 1
             v == u + Span(l)
  <2>1. u \in Nat /\ v \in Nat /\ u <= v
    <3> HIDE DEF k
    <3> QED
      BY <1>1
  <2>2. p = Between(Slots(f), u, v) /\ a = FirstOf(Slots(f), u) /\ b = FirstOf(Slots(f), v)
    BY DEF Piece
  <2> HIDE DEF u, v, p, k
  <2>3. /\ FirstOf(Slots(f), u) \in Seq(DiskBlocks) /\ Between(Slots(f), u, v) \in Seq(DiskBlocks)
        /\ FirstOf(Slots(f), v) = FirstOf(Slots(f), u) \o Between(Slots(f), u, v)
    BY <1>1, <2>1, SlotsGrow
  <2> QED
    BY <2>2, <2>3, Zenon
<1>3. Len(b) <= n /\ n \in Nat /\ Len(b) = Len(a) + Len(p) /\ Len(a) \in Nat /\ Len(p) \in Nat
  <2>1. (k - 1) + Span(l) \in Nat
    <3> HIDE DEF k
    <3> QED
      BY <1>1
  <2>2. Len(b) \in 0 .. Len(f.plan) /\ Len(f.plan) \in Nat
    BY <1>1, <2>1, FewSlots, SlotFacts
  <2>3. n = Len(f.plan)
    BY DEF Pointed
  <2> HIDE DEF n, p
  <2>4. Len(b) = Len(a) + Len(p) /\ Len(a) \in Nat /\ Len(p) \in Nat
    <3>1. \A x, y \in Seq(DiskBlocks) : Len(x \o y) = Len(x) + Len(y) /\ Len(x) \in Nat
      OBVIOUS
    <3> QED
      BY <1>2, <3>1, Zenon
  <2> QED
    BY <2>2, <2>3, <2>4
<1>4. /\ block = 0 => p = <<>>
      /\ block # 0 => block \in DiskBlocks
  <2> HIDE DEF k
  <2>1. Pointing(f, l, k)
    BY <1>1, PointsTo, Zenon
  <2> QED
    BY <2>1 DEF Pointing
<1>5. Found(a).ok /\ Found(a).found = a
  BY OutcomeFacts, Zenon
<1> HIDE DEF n, p, block, limit, more
<1>6. CASE r = Found(a) /\ Len(a) >= n
  <2>1. p = <<>>
    <3>1. Len(p) = 0
      BY <1>3, <1>6
    <3>2. \A x \in Seq(DiskBlocks) : Len(x) = 0 => x = <<>>
      OBVIOUS
    <3> QED
      BY <1>2, <3>1, <3>2, Zenon
  <2>2. b = a
    <3>1. a \o <<>> = a
      BY <1>2
    <3> QED
      BY <1>2, <2>1, <3>1
  <2>3. WithLevel(f, TRUE, r, l) = r
    BY <1>5, <1>6, Zenon DEF WithLevel, n
  <2> QED
    BY <2>2, <2>3
<1>7. CASE r = Found(a) /\ ~(Len(a) >= n)
  <2>1. limit \in Nat /\ limit \in 1 .. limit /\ Len(p) <= limit
    BY <1>3, <1>7 DEF limit
  <2>2. WithLevel(f, TRUE, r, l) = Extended(r, more)
    <3>1. InodePointer(f, TRUE, l, LevelStart(l)) = block
      BY Zenon DEF InodePointer, block
    <3> QED
      BY <1>5, <1>7, <3>1, Zenon DEF WithLevel, more, limit, n
  <2>3. more \in Outcomes(DiskBlocks) /\ more \in {Failed, Found(p)} /\ (f.damage = "none" => more = Found(p))
    <3>1. CASE block = 0
      <4>1. more = Found(<<>>) /\ p = <<>>
        BY <1>4, <3>1, Zenon DEF ReadIndirectBlocks, more
      <4>2. Found(p) \in Outcomes(DiskBlocks)
        BY <1>2, OutcomeFacts, Zenon
      <4> QED
        BY <4>1, <4>2
    <3>2. CASE block # 0
      <4>1. PICK R : Levels(f, limit, R)
        BY <2>1, ReadLevelsFacts DEF Pointed
      <4>2. more = R[l][block][limit]
        <5>1. ~(block = 0 \/ limit <= 0)
          BY <2>1, <3>2
        <5>2. ReadLevels(f, limit) = R
          BY <4>1 DEF Levels
        <5> QED
          BY <5>1, <5>2, Zenon DEF ReadIndirectBlocks, more
      <4>3. R[l] \in Yields(limit)
        BY <1>1, <4>1 DEF Levels
      <4>4. R[l][block][limit] \in Outcomes(DiskBlocks)
        BY <1>4, <2>1, <3>2, <4>3 DEF Yields
      <4>5. Leads(f, l, limit, R[l])
        BY <1>1, <2>1, <4>1, AllLead DEF Pointed
      <4>6. R[l][block][limit] \in {Failed, Found(p)} /\ (f.damage = "none" => R[l][block][limit] = Found(p))
        BY <1>1, <2>1, <3>2, <4>5 DEF Leads, block, p
      <4> QED
        BY <4>2, <4>4, <4>6
    <3> QED
      BY <3>1, <3>2
  <2>4. /\ more \in {Failed, Found(p)} => Extended(Found(a), more) \in {Failed, Found(a \o p)}
        /\ more = Found(p) => Extended(Found(a), more) = Found(a \o p)
    BY <1>2, <2>3, Joined
  <2> QED
    BY <1>2, <1>7, <2>2, <2>3, <2>4, Zenon
<1>8. CASE r # Found(a)
  <2>1. r = Failed /\ ~r.ok
    BY <1>8, OutcomeFacts, Zenon
  <2>2. WithLevel(f, TRUE, r, l) = r
    BY <2>1, Zenon DEF WithLevel
  <2> QED
    BY <1>8, <2>1, <2>2
<1> QED
  BY <1>6, <1>7, <1>8

\* The direct pointers give the first places.
LEMMA DirectGives ==
    ASSUME NEW f, Pointed(f), NEW d,
           d = FlattenSeq([k \in 1 .. Direct |->
                   IF InodePointer(f, TRUE, 0, k) = 0 THEN <<>> ELSE <<InodePointer(f, TRUE, 0, k)>>])
    PROVE  d = FirstOf(Slots(f), Direct) /\ d \in Seq(DiskBlocks)
           /\ SubSeq(d, 1, Least(Needed(f), Len(d))) = d
<1> DEFINE g == [k \in 1 .. Direct |->
                   IF InodePointer(f, TRUE, 0, k) = 0 THEN <<>> ELSE <<InodePointer(f, TRUE, 0, k)>>]
<1>1. Direct \in Nat /\ Laid(f)
  BY FileSizes DEF Pointed
<1>2. ASSUME NEW k \in 1 .. Direct PROVE g[k] = Slots(f)[k]
  <2>1. 0 \in 0 .. 3 /\ k \in Nat \ {0}
    BY <1>1
  <2>2. InodePointer(f, TRUE, 0, k) = PointerTo(f, 0, k)
    BY Zenon DEF InodePointer
  <2>3. CASE Mapped(f, k)
    <3>1. \E j \in k .. k + Span(0) - 1 : Mapped(f, j)
      <4>1. k \in k .. k + Span(0) - 1
        <5>1. Span(0) = 1
          BY Spans
        <5> QED
          BY <2>1, <5>1
      <4> QED
        BY <2>3, <4>1
    <3>2. PointerTo(f, 0, k) = Place(f, k)
      BY <3>1, Zenon DEF PointerTo
    <3>3. Slots(f)[k] = <<Place(f, k)>> /\ Place(f, k) # 0
      BY <1>1, <2>1, <2>3, SlotFacts, FileSizes DEF DiskBlocks
    <3>4. g[k] = IF InodePointer(f, TRUE, 0, k) = 0 THEN <<>> ELSE <<InodePointer(f, TRUE, 0, k)>>
      OBVIOUS
    <3> HIDE DEF g
    <3> QED
      BY <2>2, <3>2, <3>3, <3>4
  <2>4. CASE ~Mapped(f, k)
    <3>1. PointerTo(f, 0, k) = 0
      <4>1. Pointing(f, 0, k)
        BY <1>1, <2>1, PointsTo, Zenon
      <4>2. PointerTo(f, 0, k) # 0 => Mapped(f, k)
        BY <4>1 DEF Pointing
      <4> QED
        BY <2>4, <4>2
    <3>2. Slots(f)[k] = <<>>
      BY <1>1, <2>1, <2>4, SlotFacts
    <3>4. g[k] = IF InodePointer(f, TRUE, 0, k) = 0 THEN <<>> ELSE <<InodePointer(f, TRUE, 0, k)>>
      OBVIOUS
    <3> HIDE DEF g
    <3> QED
      BY <2>2, <3>1, <3>2, <3>4
  <2> QED
    BY <2>3, <2>4
<1>3. g = [k \in 1 .. Direct |-> g[k]]
  OBVIOUS
<1>4. d = FirstOf(g, Direct)
  <2>1. d = FlattenSeq(g)
    OBVIOUS
  <2> HIDE DEF g
  <2> QED
    BY <1>3, <2>1 DEF FirstOf
<1> HIDE DEF g
<1>5. d = FirstOf(Slots(f), Direct)
  BY <1>1, <1>2, <1>4, SameFirst
<1>6. d \in Seq(DiskBlocks) /\ Len(d) \in 0 .. Len(f.plan)
  <2>1. Direct <= Direct
    BY <1>1
  <2> QED
    BY <1>1, <1>5, <2>1, SlotsGrow, FewSlots
<1>7. SubSeq(d, 1, Least(Needed(f), Len(d))) = d
  <2>1. Least(Needed(f), Len(d)) = Len(d)
    <3>1. Needed(f) = Len(f.plan) /\ Len(f.plan) \in Nat
      BY SlotFacts DEF Pointed
    <3> QED
      BY <1>6, <3>1 DEF Least
  <2>2. SubSeq(d, 1, Len(d)) = d
    BY <1>6
  <2> QED
    BY <2>1, <2>2
<1> QED
  BY <1>5, <1>6, <1>7

\* All places together: those of all levels.
LEMMA CollectLegacy ==
    ASSUME NEW f, Pointed(f), NEW all, all = FirstOf(Slots(f), Len(f.plan))
    PROVE  /\ CollectLegacyBlocks(f, TRUE) \in Outcomes(DiskBlocks)
           /\ f.damage # "reused" => CollectLegacyBlocks(f, TRUE) \in {Failed, Found(all)}
           /\ f.damage = "none" => CollectLegacyBlocks(f, TRUE) = Found(all)
<1> DEFINE d == FlattenSeq([k \in 1 .. Direct |->
                   IF InodePointer(f, TRUE, 0, k) = 0 THEN <<>> ELSE <<InodePointer(f, TRUE, 0, k)>>])
           first == Found(SubSeq(d, 1, Least(Needed(f), Len(d))))
           second == WithLevel(f, TRUE, first, 1)
           third == WithLevel(f, TRUE, second, 2)
           last == WithLevel(f, TRUE, third, 3)
           s == Slots(f)
<1>1. CollectLegacyBlocks(f, TRUE) = last
  BY DEF CollectLegacyBlocks
<1>2. d = FirstOf(s, Direct) /\ d \in Seq(DiskBlocks) /\ SubSeq(d, 1, Least(Needed(f), Len(d))) = d
  BY DirectGives
<1> HIDE DEF d, s
<1>3. first = Found(d) /\ first \in Outcomes(DiskBlocks)
  <2>1. first = Found(d)
    BY <1>2
  <2> HIDE DEF first
  <2> QED
    BY <1>2, <2>1, OutcomeFacts, Zenon
<1>4. 1 \in 1 .. 3 /\ 2 \in 1 .. 3 /\ 3 \in 1 .. 3 /\ TRUE \in BOOLEAN
  OBVIOUS
<1> HIDE DEF first
<1>5. second \in Outcomes(DiskBlocks)
  BY <1>3, <1>4, LevelTyped
<1>6. third \in Outcomes(DiskBlocks)
  <2> HIDE DEF second
  <2> QED
    BY <1>4, <1>5, LevelTyped
<1>7. last \in Outcomes(DiskBlocks)
  <2> HIDE DEF third
  <2> QED
    BY <1>4, <1>6, LevelTyped
<1>8. ASSUME f.damage # "reused"
      PROVE  last \in {Failed, Found(all)} /\ (f.damage = "none" => last = Found(all))
  <2> DEFINE a1 == FirstOf(s, LevelStart(1) - 1)
             b1 == FirstOf(s, (LevelStart(1) - 1) + Span(1))
             a2 == FirstOf(s, LevelStart(2) - 1)
             b2 == FirstOf(s, (LevelStart(2) - 1) + Span(2))
             a3 == FirstOf(s, LevelStart(3) - 1)
             b3 == FirstOf(s, (LevelStart(3) - 1) + Span(3))
             m == (LevelStart(3) - 1) + Span(3)
  <2>1. /\ LevelStart(1) - 1 = Direct /\ (LevelStart(1) - 1) + Span(1) = LevelStart(2) - 1
        /\ (LevelStart(2) - 1) + Span(2) = LevelStart(3) - 1
        /\ m \in Nat /\ Len(f.plan) \in Nat /\ Len(f.plan) <= m
    <3>1. /\ LevelStart(1) = Direct + 1 /\ LevelStart(2) = LevelStart(1) + Span(1)
          /\ LevelStart(3) = LevelStart(2) + Span(2) /\ Direct \in Nat
      BY Spans, FileSizes
    <3>2. 1 \in 0 .. 3 /\ 2 \in 0 .. 3 /\ 3 \in 0 .. 3
      OBVIOUS
    <3>3. Span(1) \in Nat \ {0} /\ Span(2) \in Nat \ {0} /\ Span(3) \in Nat \ {0}
      BY <3>2, Spans
    <3>4. Len(f.plan) \in Nat /\ Len(f.plan) < LevelStart(3) + Span(3)
      BY SlotFacts DEF Pointed
    <3> QED
      BY <3>1, <3>3, <3>4, SMTT(20)
  <2>2. a1 = d /\ b1 = a2 /\ b2 = a3
    BY <1>2, <2>1, Zenon
  <2>3. b3 = all
    <3>1. Between(s, Len(f.plan), m) = <<>>
      <4>1. \A j \in Len(f.plan) + 1 .. m : ~Mapped(f, j)
        <5> SUFFICES ASSUME NEW j \in Len(f.plan) + 1 .. m, Mapped(f, j) PROVE FALSE
          OBVIOUS
        <5>1. j \in Nat \ {0} /\ ~(j \in 1 .. Len(f.plan))
          BY <2>1
        <5> QED
          BY <5>1, SlotFacts DEF Pointed
      <4> HIDE DEF m
      <4> QED
        BY <2>1, <4>1, SlotsGrow DEF Pointed, s
    <3>2. FirstOf(s, m) = FirstOf(s, Len(f.plan)) \o Between(s, Len(f.plan), m)
          /\ FirstOf(s, Len(f.plan)) \in Seq(DiskBlocks)
      <4> HIDE DEF m
      <4> QED
        BY <2>1, SlotsGrow DEF Pointed, s
    <3>3. \A x \in Seq(DiskBlocks) : x \o <<>> = x
      OBVIOUS
    <3>4. FirstOf(s, m) = FirstOf(s, Len(f.plan))
      BY <3>1, <3>2, <3>3, Zenon
    <3>5. all = FirstOf(s, Len(f.plan))
      BY DEF s
    <3> QED
      BY <3>4, <3>5
  <2>4. first \in {Failed, Found(a1)} /\ (f.damage = "none" => first = Found(a1))
    BY <1>3, <2>2
  <2>0. ASSUME NEW l \in 1 .. 3, NEW r,
               r \in {Failed, Found(FirstOf(s, LevelStart(l) - 1))},
               f.damage = "none" => r = Found(FirstOf(s, LevelStart(l) - 1))
        PROVE  /\ WithLevel(f, TRUE, r, l) \in {Failed, Found(FirstOf(s, (LevelStart(l) - 1) + Span(l)))}
               /\ f.damage = "none" =>
                      WithLevel(f, TRUE, r, l) = Found(FirstOf(s, (LevelStart(l) - 1) + Span(l)))
    BY <1>8, <2>0, LevelGives DEF s
  <2>5. second \in {Failed, Found(b1)} /\ (f.damage = "none" => second = Found(b1))
    BY <1>4, <2>0, <2>4, Zenon
  <2>6. second \in {Failed, Found(a2)} /\ (f.damage = "none" => second = Found(a2))
    BY <2>2, <2>5
  <2> HIDE DEF second
  <2>7. third \in {Failed, Found(b2)} /\ (f.damage = "none" => third = Found(b2))
    BY <1>4, <2>0, <2>6, Zenon
  <2>8. third \in {Failed, Found(a3)} /\ (f.damage = "none" => third = Found(a3))
    BY <2>2, <2>7
  <2> HIDE DEF third
  <2>9. last \in {Failed, Found(b3)} /\ (f.damage = "none" => last = Found(b3))
    BY <1>4, <2>0, <2>8, Zenon
  <2> QED
    BY <2>3, <2>9
<1>9. f.damage = "none" => f.damage # "reused"
  OBVIOUS
<1> HIDE DEF last
<1> QED
  BY <1>1, <1>7, <1>8, <1>9

\* A deletion leaves no pointer.
LEMMA NoPointers ==
    ASSUME NEW f, Pointed(f)
    PROVE  CollectLegacyBlocks(f, FALSE) = Found(<<>>)
<1> DEFINE d == FlattenSeq([k \in 1 .. Direct |->
                   IF InodePointer(f, FALSE, 0, k) = 0 THEN <<>> ELSE <<InodePointer(f, FALSE, 0, k)>>])
           first == Found(SubSeq(d, 1, Least(Needed(f), Len(d))))
           second == WithLevel(f, FALSE, first, 1)
           third == WithLevel(f, FALSE, second, 2)
           last == WithLevel(f, FALSE, third, 3)
<1>1. CollectLegacyBlocks(f, FALSE) = last
  BY DEF CollectLegacyBlocks
<1>2. d = <<>>
  <2>0. Direct \in Nat
    BY FileSizes
  <2> DEFINE g == [k \in 1 .. Direct |->
                   IF InodePointer(f, FALSE, 0, k) = 0 THEN <<>> ELSE <<InodePointer(f, FALSE, 0, k)>>]
  <2>1. \A k : InodePointer(f, FALSE, 0, k) = 0
    BY Zenon DEF InodePointer
  <2>2. \A k \in 1 .. Direct : g[k] = <<>>
    BY <2>1
  <2>3. g = [k \in 1 .. Direct |-> g[k]] /\ d = FlattenSeq(g)
    OBVIOUS
  <2> HIDE DEF g, d
  <2>4. d = FirstOf(g, Direct)
    BY <2>3 DEF FirstOf
  <2> QED
    BY <2>0, <2>2, <2>4, NothingThere
<1> HIDE DEF d
<1>3. first = Found(<<>>)
  <2>1. Len(<<>>) = 0 /\ SubSeq(<<>>, 1, 0) = <<>>
    OBVIOUS
  <2>2. Least(Needed(f), 0) = 0
    <3>1. Needed(f) \in Nat
      BY SlotFacts DEF Pointed
    <3> QED
      BY <3>1 DEF Least
  <2> QED
    BY <1>2, <2>1, <2>2
<1> HIDE DEF first
<1>4. ASSUME NEW l PROVE WithLevel(f, FALSE, Found(<<>>), l) = Found(<<>>)
  <2>1. InodePointer(f, FALSE, l, LevelStart(l)) = 0
    BY Zenon DEF InodePointer
  <2>2. \A lim : ReadIndirectBlocks(f, 0, l, lim) = Found(<<>>)
    BY Zenon DEF ReadIndirectBlocks
  <2>3. Extended(Found(<<>>), Found(<<>>)) = Found(<<>>)
    <3>1. <<>> \in Seq(DiskBlocks) /\ <<>> \o <<>> = <<>>
      OBVIOUS
    <3>2. Found(<<>>).ok /\ Found(<<>>).found = <<>>
      BY OutcomeFacts, Zenon
    <3> QED
      BY <3>1, <3>2, Zenon DEF Extended
  <2> QED
    BY <2>1, <2>2, <2>3, Zenon DEF WithLevel
<1> QED
  BY <1>1, <1>3, <1>4, Zenon

-----------------------------------------------------------------------------
(* Reading the blocks pointed to.                                          *)

\* What is read of blocks.
BlocksRead(f, s) == [i \in DOMAIN s |-> ReadBlock(f, s[i])]

\* A block gives bytes that can be read.
LEMMA ReadBlockTyped ==
    ASSUME NEW f, NEW b \in DiskBlocks
    PROVE  ReadBlock(f, b) \in Seq(Bytes)
<1>1. b \in Nat /\ b < Blocks
  BY FileSizes DEF DiskBlocks
<1>2. BytesOf(b) \in Seq(Bytes)
  BY <1>1, BlockBytes
<1>3. <<>> \in Seq(Bytes)
  OBVIOUS
<1> QED
  BY <1>2, <1>3, Zenon DEF ReadBlock

\* Blocks give bytes that can be read.
LEMMA BlocksReadFacts ==
    ASSUME NEW f, NEW s \in Seq(DiskBlocks)
    PROVE  /\ Extends(BlocksRead(f, s), Len(s), Bytes)
           /\ FlattenSeq(BlocksRead(f, s)) = FirstOf(BlocksRead(f, s), Len(s))
           /\ FlattenSeq(BlocksRead(f, s)) \in Seq(Bytes)
           /\ \A i \in 1 .. Len(s) : BlocksRead(f, s)[i] = ReadBlock(f, s[i])
<1> DEFINE g == BlocksRead(f, s)
           n == Len(s)
<1>1. DOMAIN s = 1 .. n /\ n \in Nat /\ \A i \in 1 .. n : s[i] \in DiskBlocks
  OBVIOUS
<1>2. g = [i \in 1 .. n |-> ReadBlock(f, s[i])]
  BY <1>1 DEF BlocksRead
<1>3. \A i \in 1 .. n : g[i] = ReadBlock(f, s[i]) /\ g[i] \in Seq(Bytes)
  BY <1>1, <1>2, ReadBlockTyped
<1>4. g = [i \in 1 .. n |-> g[i]]
  BY <1>2
<1> HIDE DEF g, n
<1>5. Extends(g, n, Bytes)
  BY <1>1, <1>3, FirstOfFacts
<1>6. FlattenSeq(g) = FirstOf(g, n)
  BY <1>4 DEF FirstOf
<1>7. FirstOf(g, n) \in Seq(Bytes)
  <2>1. n \in 0 .. n
    BY <1>1
  <2> QED
    BY <1>5, <2>1 DEF Extends
<1> QED
  BY <1>3, <1>5, <1>6, <1>7 DEF g, n

\* The blocks that can be read.
Fine(f) == {k \in 1 .. Len(f.plan) : Mapped(f, k) /\ Place(f, k) # f.bad}

\* What is read of the places of the first blocks.
LEMMA PlacesRead ==
    ASSUME NEW f, Pointed(f)
    PROVE  FlattenSeq(BlocksRead(f, FirstOf(Slots(f), Len(f.plan)))) = ReadOf(f, Fine(f), Len(f.plan))
<1> DEFINE n == Len(f.plan)
           F(k) == FirstOf(Slots(f), k)
           G(k) == BlocksRead(f, F(k))
           K == Fine(f)
           T == {k \in 0 .. n : FirstOf(G(k), Len(F(k))) = ReadOf(f, K, k)}
<1>1. Laid(f) /\ Placed(f) /\ n \in Nat
  BY PlaceFacts, SlotFacts DEF Pointed
<1>2. ASSUME NEW k \in Nat
      PROVE  F(k) \in Seq(DiskBlocks) /\ Len(F(k)) \in Nat
  <2>1. k <= k
    OBVIOUS
  <2>2. F(k) \in Seq(DiskBlocks)
    BY <1>1, <2>1, SlotsGrow
  <2> QED
    BY <2>2
<1>3. Extends(Share(f, K), n, Nat)
  BY <1>1, ShareFacts
<1>4. 0 \in T
  <2>1. F(0) = <<>>
    BY <1>1, SlotsGrow
  <2>2. FirstOf(G(0), 0) = <<>>
    <3>1. \A j \in 1 .. 0 : G(0)[j] = <<>>
      OBVIOUS
    <3>2. 0 \in Nat
      OBVIOUS
    <3> HIDE DEF G
    <3> QED
      BY <3>1, <3>2, NothingThere
  <2>3. Len(F(0)) = 0
    BY <2>1
  <2>4. ReadOf(f, K, 0) = <<>>
    BY <1>3 DEF Extends, ReadOf
  <2>5. 0 \in 0 .. n
    BY <1>1
  <2> HIDE DEF F, G, n, K
  <2> QED
    BY <2>2, <2>3, <2>4, <2>5
<1>5. ASSUME NEW k \in 0 .. n - 1, k \in T PROVE k + 1 \in T
  <2> DEFINE u == F(k)
             v == F(k + 1)
             x == Slots(f)[k + 1]
             l == Len(u)
  <2>1. k \in Nat /\ k + 1 \in Nat \ {0} /\ k + 1 \in Nat /\ k + 1 \in 1 .. n /\ k + 1 \in 0 .. n /\ k <= k + 1
    BY <1>1
  <2>2. v = u \o x
    <3>1. \A j \in 1 .. k + 1 : Slots(f)[j] \in Seq(DiskBlocks)
      <4> SUFFICES ASSUME NEW j \in 1 .. k + 1 PROVE Slots(f)[j] \in Seq(DiskBlocks)
        OBVIOUS
      <4>1. j \in Nat \ {0}
        BY <2>1
      <4> QED
        BY <1>1, <4>1, SlotFacts
    <3>2. Extends(Slots(f), k + 1, DiskBlocks)
      BY <2>1, <3>1, FirstOfFacts
    <3>3. k \in 0 .. (k + 1) - 1
      BY <2>1
    <3> QED
      BY <3>2, <3>3 DEF Extends
  <2>3. u \in Seq(DiskBlocks) /\ v \in Seq(DiskBlocks) /\ l \in Nat
    BY <1>2, <2>1
  <2>4. ReadOf(f, K, k + 1) = ReadOf(f, K, k) \o Share(f, K)[k + 1]
    BY <1>3 DEF Extends, ReadOf
  <2>5. Share(f, K)[k + 1] = IF k + 1 \in K THEN BytesOf(Place(f, k + 1)) ELSE <<>>
    BY <1>1, <2>1, ShareFacts
  <2>6. FirstOf(BlocksRead(f, u), l) = ReadOf(f, K, k) /\ ReadOf(f, K, k) \in Seq(Nat)
    <3>1. ReadOf(f, K, k) \in Seq(Nat)
      BY <1>3 DEF Extends, ReadOf
    <3> QED
      BY <1>5, <3>1
  <2> HIDE DEF F, G
  <2>7. CASE Mapped(f, k + 1)
    <3> DEFINE p == Place(f, k + 1)
    <3>1. x = <<p>> /\ p \in DiskBlocks
      BY <1>1, <2>1, <2>7, SlotFacts
    <3>2. p \in Nat /\ p < TreeBase
      BY <1>1, <2>1, <2>7, <3>1, FileSizes DEF Placed, DiskBlocks
    <3> HIDE DEF u, v, x, p
    <3>3. Len(v) = l + 1 /\ v[l + 1] = p /\ \A i \in 1 .. l : v[i] = u[i]
      BY <2>2, <2>3, <3>1 DEF l
    <3> HIDE DEF l
    <3>4. FirstOf(BlocksRead(f, v), l + 1) = FirstOf(BlocksRead(f, v), l) \o BlocksRead(f, v)[l + 1]
      <4>1. l \in 0 .. (l + 1) - 1
        BY <2>3
      <4>2. Extends(BlocksRead(f, v), l + 1, Bytes)
        BY <2>3, <3>3, BlocksReadFacts
      <4> QED
        BY <4>1, <4>2 DEF Extends
    <3>5. BlocksRead(f, v)[l + 1] = ReadBlock(f, p)
      <4>1. l + 1 \in 1 .. Len(v)
        BY <2>3, <3>3
      <4> QED
        BY <2>3, <3>3, <4>1, BlocksReadFacts
    <3>6. FirstOf(BlocksRead(f, v), l) = FirstOf(BlocksRead(f, u), l)
      <4>1. \A i \in 1 .. l : BlocksRead(f, v)[i] = BlocksRead(f, u)[i]
        <5> SUFFICES ASSUME NEW i \in 1 .. l PROVE BlocksRead(f, v)[i] = BlocksRead(f, u)[i]
          OBVIOUS
        <5>1. i \in 1 .. Len(v) /\ i \in 1 .. Len(u) /\ v[i] = u[i]
          BY <2>3, <3>3 DEF l
        <5> QED
          BY <2>3, <5>1, BlocksReadFacts
      <4> QED
        BY <2>3, <4>1, SameFirst
    <3>7. ReadBlock(f, p) = Share(f, K)[k + 1]
      <4>1. Readable(f, p) <=> p # f.bad
        <5>1. Beyond(f)
          BY FileSizes DEF Pointed, Faulty, Beyond
        <5> QED
          BY <1>1, <3>2, <5>1, DataReadable
      <4>2. k + 1 \in K <=> p # f.bad
        BY <2>1, <2>7 DEF Fine, p
      <4> HIDE DEF K
      <4> QED
        BY <2>5, <4>1, <4>2, Zenon DEF ReadBlock, p
    <3>8. FirstOf(BlocksRead(f, v), Len(v)) = ReadOf(f, K, k + 1)
      BY <2>4, <2>6, <3>3, <3>4, <3>5, <3>6, <3>7, Zenon
    <3> QED
      BY <2>1, <3>8 DEF v, G
  <2>8. CASE ~Mapped(f, k + 1)
    <3>1. x = <<>>
      BY <1>1, <2>1, <2>8, SlotFacts
    <3> HIDE DEF u, v, x
    <3>2. v = u
      BY <2>2, <2>3, <3>1
    <3>3. Share(f, K)[k + 1] = <<>>
      <4>1. k + 1 \notin K
        BY <2>8 DEF Fine
      <4> HIDE DEF K
      <4> QED
        BY <2>5, <4>1
    <3>4. ReadOf(f, K, k + 1) = ReadOf(f, K, k)
      BY <2>4, <2>6, <3>3
    <3>5. FirstOf(BlocksRead(f, v), Len(v)) = ReadOf(f, K, k + 1)
      BY <2>6, <3>2, <3>4 DEF l
    <3> QED
      BY <2>1, <3>5 DEF v, G
  <2> QED
    BY <2>7, <2>8
<1>6. 0 .. n \subseteq T
  <2> HIDE DEF T, n
  <2> QED
    BY <1>1, <1>4, <1>5, UpTo
<1>7. n \in T
  BY <1>1, <1>6
<1>8. FlattenSeq(G(n)) = FirstOf(G(n), Len(F(n)))
  <2> HIDE DEF F
  <2> QED
    BY <1>1, <1>2, BlocksReadFacts
<1> QED
  BY <1>7, <1>8

-----------------------------------------------------------------------------
(* What RecoverInodeData gives.                                            *)

\* What is left of the bytes read when they are cut to the file's size.
LEMMA TrimmedFacts ==
    ASSUME NEW f, f.size \in Nat \ {0}, NEW S, NEW d \in Seq(S)
    PROVE  /\ Trimmed(f, d) = SubSeq(d, 1, Least(Len(d), f.size))
           /\ Trimmed(f, d) \in Seq(S)
           /\ d = <<>> => Trimmed(f, d) = <<>>
<1>1. Trimmed(f, d) = SubSeq(d, 1, Least(Len(d), f.size))
  <2>1. f.size > 0
    OBVIOUS
  <2> QED
    BY <2>1, Zenon DEF Trimmed
<1> DEFINE m == Least(Len(d), f.size)
<1>2. m \in Nat /\ m <= Len(d)
  BY DEF Least
<1> HIDE DEF m
<1>3. SubSeq(d, 1, m) \in Seq(S)
  BY <1>2
<1>4. d = <<>> => SubSeq(d, 1, m) = <<>>
  BY <1>2
<1> QED
  BY <1>1, <1>3, <1>4 DEF m

\* Of data that fails, or of nothing found, nothing is left.
LEMMA NothingRead ==
    ASSUME NEW f, NEW state, f.size \in Nat \ {0}, NEW places,
           places = Places(f, state), places.found = <<>>
    PROVE  RecoverInodeData(f, state).data = <<>> /\ RecoverInodeData(f, state).ok = places.ok
<1> DEFINE g == [i \in DOMAIN places.found |-> IF f.extents THEN ReadExtent(f, places.found[i])
                                              ELSE ReadBlock(f, places.found[i])]
<1>1. RecoverInodeData(f, state) = [ok |-> places.ok, data |-> Trimmed(f, FlattenSeq(g))]
  BY DEF RecoverInodeData
<1>2. g = <<>>
  OBVIOUS
<1> HIDE DEF g
<1>3. FlattenSeq(g) = <<>>
  BY <1>2, FlattenFew
<1>4. Trimmed(f, <<>>) = <<>>
  <2>1. <<>> \in Seq(Nat)
    OBVIOUS
  <2> QED
    BY <2>1, TrimmedFacts
<1> QED
  BY <1>1, <1>3, <1>4

\* A file whose tree is not too high.
Treed(f) == Laid(f) /\ Low(f) /\ f.extents /\ Faulty(f) /\ f.height <= MaxDepth + 1

\* What is read of all places.
Reads(f) ==
    IF f.extents THEN FlattenSeq(ReadsOf(f, Extents(f))) ELSE ReadOf(f, Fine(f), Len(f.plan))

\* Nothing of another file is followed as the file's own.
Guided(f) == f.damage # IF f.extents THEN "taken" ELSE "reused"

\* What comes of a file that still has its root.
Recovers(f, r) ==
    /\ r.ok \in BOOLEAN /\ r.data \in Seq(Bytes)
    /\ ~r.ok => r.data = <<>>
    /\ f.damage = "none" => r.ok
    /\ r.ok /\ Guided(f) => r.data = Trimmed(f, Reads(f))

\* Where a file that still has its root is found.
LEMMA PlacesGive ==
    ASSUME NEW f, f.size \in Nat \ {0}, NEW state, NEW places, NEW S, places \in Outcomes(S),
           places = Places(f, state),
           NEW d, d \in Seq(Bytes),
           d = FlattenSeq([i \in DOMAIN places.found |-> IF f.extents THEN ReadExtent(f, places.found[i])
                                                         ELSE ReadBlock(f, places.found[i])])
    PROVE  /\ RecoverInodeData(f, state).ok = places.ok
           /\ places.ok \in BOOLEAN
           /\ RecoverInodeData(f, state).data = Trimmed(f, d)
           /\ Trimmed(f, d) \in Seq(Bytes)
           /\ ~places.ok => Trimmed(f, d) = <<>>
<1>1. RecoverInodeData(f, state) = [ok |-> places.ok, data |-> Trimmed(f, d)]
  BY DEF RecoverInodeData
<1>2. RecoverInodeData(f, state).ok = places.ok /\ RecoverInodeData(f, state).data = Trimmed(f, d)
  <2> DEFINE o == places.ok
             t == Trimmed(f, d)
  <2>1. RecoverInodeData(f, state) = [ok |-> o, data |-> t]
    BY <1>1
  <2> HIDE DEF o, t
  <2> QED
    BY <2>1 DEF o, t
<1>3. places.ok \in BOOLEAN /\ (~places.ok => places.found = <<>>)
  BY OutcomeFacts, Zenon
<1>4. Trimmed(f, d) \in Seq(Bytes) /\ (d = <<>> => Trimmed(f, d) = <<>>)
  BY TrimmedFacts
<1>5. ASSUME places.found = <<>> PROVE d = <<>>
  <2> DEFINE g == [i \in DOMAIN places.found |-> IF f.extents THEN ReadExtent(f, places.found[i])
                                                         ELSE ReadBlock(f, places.found[i])]
  <2>1. g = <<>> /\ d = FlattenSeq(g)
    BY <1>5
  <2> HIDE DEF g
  <2> QED
    BY <2>1, FlattenFew
<1> QED
  BY <1>2, <1>3, <1>4, <1>5, Zenon

\* What comes of a file with extents that still has its root.
LEMMA TreeRecovers ==
    ASSUME NEW f, Treed(f), f.size \in Nat \ {0}
    PROVE  Recovers(f, RecoverInodeData(f, "intact"))
<1> DEFINE places == CollectExtents(f, Root(f, "intact"))
           d == FlattenSeq([i \in DOMAIN places.found |-> IF f.extents THEN ReadExtent(f, places.found[i])
                                                         ELSE ReadBlock(f, places.found[i])])
           e == Extents(f)
<1>1. /\ f.damage # "taken" => places \in {Failed, Found(e)}
      /\ f.damage = "none" => places = Found(e)
  BY IntactTree DEF Treed
<1>2. e \in Seq(Extent)
  BY PlaceFacts, FewExtents DEF Treed
<1>3. places \in Outcomes(Extent)
  BY TreeTyped DEF Treed
<1>4. places.found \in Seq(Extent)
  <2> HIDE DEF places
  <2> QED
    BY <1>3, OutcomeFacts, Zenon
<1>5. d = FlattenSeq(ReadsOf(f, places.found)) /\ d \in Seq(Bytes)
  <2> DEFINE s == places.found
             g == ReadsOf(f, s)
             n == Len(s)
  <2>1. DOMAIN s = 1 .. n /\ n \in Nat /\ f.extents
    BY <1>4 DEF Treed
  <2> HIDE DEF s, n
  <2>2. [i \in DOMAIN s |-> IF f.extents THEN ReadExtent(f, s[i]) ELSE ReadBlock(f, s[i])]
           = [i \in 1 .. n |-> ReadExtent(f, s[i])]
    BY <2>1
  <2>3. g = [i \in 1 .. n |-> ReadExtent(f, s[i])]
    BY DEF ReadsOf, n
  <2>4. Extends(g, n, Bytes)
    BY <1>4, ReadsOfFacts DEF s, n
  <2>5. FlattenSeq(g) = FirstOf(g, n)
    <3>1. g = [i \in 1 .. n |-> g[i]]
      BY <2>3
    <3> HIDE DEF g
    <3> QED
      BY <3>1 DEF FirstOf
  <2>6. n \in 0 .. n
    BY <2>1
  <2>7. FlattenSeq(g) \in Seq(Bytes)
    BY <2>4, <2>5, <2>6 DEF Extends
  <2> QED
    BY <2>2, <2>3, <2>7 DEF s
<1>6. places = Places(f, "intact")
  <2>1. "intact" # "unrooted"
    OBVIOUS
  <2> QED
    BY <2>1, Zenon DEF Treed, Places
<1>7. ASSUME places.ok, f.damage # "taken" PROVE d = Reads(f)
  <2>1. places # Failed
    BY <1>7, OutcomeFacts, Zenon
  <2>2. places = Found(e)
    BY <1>1, <1>7, <2>1, Zenon
  <2>3. places.found = e
    BY <2>2, OutcomeFacts, Zenon
  <2>4. Reads(f) = FlattenSeq(ReadsOf(f, e))
    BY Zenon DEF Reads, Treed
  <2> QED
    BY <1>5, <2>3, <2>4
<1>8. f.damage = "none" => places.ok
  BY <1>1, OutcomeFacts, Zenon
<1>9. /\ RecoverInodeData(f, "intact").ok = places.ok
      /\ places.ok \in BOOLEAN
      /\ RecoverInodeData(f, "intact").data = Trimmed(f, d)
      /\ Trimmed(f, d) \in Seq(Bytes)
      /\ ~places.ok => Trimmed(f, d) = <<>>
  <2> DEFINE dd == d
  <2>1. dd \in Seq(Bytes) /\ dd = FlattenSeq([i \in DOMAIN places.found |->
            IF f.extents THEN ReadExtent(f, places.found[i]) ELSE ReadBlock(f, places.found[i])])
    BY <1>5
  <2> HIDE DEF dd, places, e
  <2>2. /\ RecoverInodeData(f, "intact").ok = places.ok
        /\ places.ok \in BOOLEAN
        /\ RecoverInodeData(f, "intact").data = Trimmed(f, dd)
        /\ Trimmed(f, dd) \in Seq(Bytes)
        /\ ~places.ok => Trimmed(f, dd) = <<>>
    <3> DEFINE p == places
               X == Extent
    <3>1. /\ p \in Outcomes(X)
          /\ p = Places(f, "intact")
          /\ dd \in Seq(Bytes)
          /\ dd = FlattenSeq([i \in DOMAIN p.found |->
                IF f.extents THEN ReadExtent(f, p.found[i]) ELSE ReadBlock(f, p.found[i])])
      BY <1>3, <1>6, <2>1
    <3> HIDE DEF p, X
    <3>2. /\ RecoverInodeData(f, "intact").ok = p.ok
          /\ p.ok \in BOOLEAN
          /\ RecoverInodeData(f, "intact").data = Trimmed(f, dd)
          /\ Trimmed(f, dd) \in Seq(Bytes)
          /\ ~p.ok => Trimmed(f, dd) = <<>>
      BY <3>1, PlacesGive
    <3> QED
      BY <3>2, Zenon DEF p
  <2> QED
    BY <2>2, Zenon DEF dd
<1>10. f.extents
  BY DEF Treed
<1> HIDE DEF d, places, e
<1> QED
  BY <1>7, <1>8, <1>9, <1>10, Zenon DEF Recovers, Guided

\* What comes of a file with block pointers that still has them.
LEMMA PointersRecover ==
    ASSUME NEW f, Pointed(f), f.size \in Nat \ {0}
    PROVE  Recovers(f, RecoverInodeData(f, "intact"))
<1> DEFINE places == CollectLegacyBlocks(f, TRUE)
           d == FlattenSeq([i \in DOMAIN places.found |-> IF f.extents THEN ReadExtent(f, places.found[i])
                                                         ELSE ReadBlock(f, places.found[i])])
           e == FirstOf(Slots(f), Len(f.plan))
<1>1. /\ places \in Outcomes(DiskBlocks)
      /\ f.damage # "reused" => places \in {Failed, Found(e)}
      /\ f.damage = "none" => places = Found(e)
  BY CollectLegacy
<1>4. places.found \in Seq(DiskBlocks)
  <2> HIDE DEF places, e
  <2> QED
    BY <1>1, OutcomeFacts, Zenon
<1>5. d = FlattenSeq(BlocksRead(f, places.found)) /\ d \in Seq(Bytes)
  <2> DEFINE s == places.found
  <2>1. ~f.extents
    BY DEF Pointed
  <2> HIDE DEF s
  <2>2. [i \in DOMAIN s |-> IF f.extents THEN ReadExtent(f, s[i]) ELSE ReadBlock(f, s[i])] = BlocksRead(f, s)
    BY <2>1 DEF BlocksRead
  <2>3. FlattenSeq(BlocksRead(f, s)) \in Seq(Bytes)
    BY <1>4, BlocksReadFacts DEF s
  <2> QED
    BY <2>2, <2>3 DEF s
<1>6. places = Places(f, "intact")
  <2>1. ("intact" = "intact") = TRUE /\ "intact" # "unrooted"
    OBVIOUS
  <2> QED
    BY <2>1, Zenon DEF Pointed, Places
<1>7. ASSUME places.ok, f.damage # "reused" PROVE d = Reads(f)
  <2>1. places # Failed
    BY <1>7, OutcomeFacts, Zenon
  <2>2. places = Found(e)
    BY <1>1, <1>7, <2>1
  <2>3. places.found = e
    BY <2>2, OutcomeFacts, Zenon
  <2>4. Reads(f) = ReadOf(f, Fine(f), Len(f.plan))
    BY Zenon DEF Reads, Pointed
  <2> QED
    BY <1>5, <2>3, <2>4, PlacesRead
<1>8. f.damage = "none" => places.ok
  BY <1>1, OutcomeFacts, Zenon
<1>9. /\ RecoverInodeData(f, "intact").ok = places.ok
      /\ places.ok \in BOOLEAN
      /\ RecoverInodeData(f, "intact").data = Trimmed(f, d)
      /\ Trimmed(f, d) \in Seq(Bytes)
      /\ ~places.ok => Trimmed(f, d) = <<>>
  <2> DEFINE dd == d
  <2>1. dd \in Seq(Bytes) /\ dd = FlattenSeq([i \in DOMAIN places.found |->
            IF f.extents THEN ReadExtent(f, places.found[i]) ELSE ReadBlock(f, places.found[i])])
    BY <1>5
  <2> HIDE DEF dd, places
  <2>2. /\ RecoverInodeData(f, "intact").ok = places.ok
        /\ places.ok \in BOOLEAN
        /\ RecoverInodeData(f, "intact").data = Trimmed(f, dd)
        /\ Trimmed(f, dd) \in Seq(Bytes)
        /\ ~places.ok => Trimmed(f, dd) = <<>>
    BY <1>1, <1>6, <2>1, PlacesGive
  <2> QED
    BY <2>2, Zenon DEF dd
<1>10. ~f.extents
  BY DEF Pointed
<1> HIDE DEF d, places, e
<1> QED
  BY <1>7, <1>8, <1>9, <1>10, Zenon DEF Recovers, Guided

\* Of a file without its root nothing is read.
LEMMA EmptiedRecovers ==
    ASSUME NEW f, Treed(f) \/ Pointed(f), f.size \in Nat \ {0}, NEW state \in {"cleared", "wiped", "unrooted"}
    PROVE  RecoverInodeData(f, state).data = <<>> /\ RecoverInodeData(f, state).ok \in BOOLEAN
<1> DEFINE places == Places(f, state)
<1>1. places \in {Failed, Found(<<>>)}
  <2>1. CASE Treed(f)
    <3>1. CollectExtents(f, Root(f, "cleared")) = Found(<<>>) /\ CollectExtents(f, Root(f, "wiped")) = Failed
      BY <2>1, EmptiedRoot DEF Treed
    <3>2. state # "unrooted" => places = CollectExtents(f, Root(f, state))
      BY <2>1, Zenon DEF Treed, Places
    <3>3. state = "unrooted" => places = Found(<<>>)
      BY Zenon DEF Places
    <3> QED
      BY <3>1, <3>2, <3>3
  <2>2. CASE Pointed(f)
    <3>1. (state = "intact") = FALSE
      OBVIOUS
    <3>2. state # "unrooted" => places = CollectLegacyBlocks(f, FALSE)
      BY <2>2, <3>1, Zenon DEF Pointed, Places
    <3>3. state = "unrooted" => places = Found(<<>>)
      BY Zenon DEF Places
    <3> QED
      BY <2>2, <3>2, <3>3, NoPointers
  <2> QED
    BY <2>1, <2>2
<1> HIDE DEF places
<1>2. places.found = <<>> /\ places.ok \in BOOLEAN
  BY <1>1, OutcomeFacts, Zenon
<1>3. RecoverInodeData(f, state).data = <<>> /\ RecoverInodeData(f, state).ok = places.ok
  BY <1>2, NothingRead DEF places
<1> QED
  BY <1>2, <1>3, Zenon

-----------------------------------------------------------------------------
(* What is true of every file on the disk.                                 *)

\* What is true of every file that may stand on the disk.
Stored(f) ==
    /\ Treed(f) \/ Pointed(f)
    /\ \E w : Ends(f, w)
    /\ f.size \in Nat \ {0} /\ f.size <= Len(f.plan) * BlockSize
    /\ \E k \in 1 .. Len(f.plan) : Mapped(f, k)
    /\ ~f.extents => NeverPreallocated(f)

\* The blocks that are read.
KeptOf(f) == IF f.extents THEN Kept(f) ELSE Fine(f)

\* A block is lost to a bad one.
LostTo(f, k) ==
    /\ f.bad # 0
    /\ f.extents => \E e \in Range(Extents(f)) :
                        /\ f.bad \in e.start .. e.start + e.length - 1
                        /\ Place(f, k) \in f.bad .. e.start + e.length - 1
    /\ ~f.extents => Place(f, k) = f.bad

\* The blocks of a file that is stored.
LEMMA StoredFacts ==
    ASSUME NEW f, Stored(f)
    PROVE  Laid(f) /\ Placed(f) /\ Beyond(f) /\ f.bad \in Nat /\ Len(f.plan) \in Nat
           /\ DOMAIN f.plan = 1 .. Len(f.plan)
<1>1. Laid(f) /\ Faulty(f)
  BY DEF Stored, Treed, Pointed
<1>2. Placed(f)
  BY <1>1, PlaceFacts
<1>3. Beyond(f) /\ f.bad \in Nat
  BY <1>1, FileSizes DEF Faulty, Beyond
<1> QED
  BY <1>1, <1>2, <1>3 DEF Placed

\* What is not read of the blocks that are not preallocated is lost to a bad one.
LEMMA LostBlocks ==
    ASSUME NEW f, Stored(f), NEW w \in 0 .. Len(f.plan), Written(f, w), NEW k \in 1 .. w, Mapped(f, k),
           k \notin KeptOf(f)
    PROVE  LostTo(f, k)
<1>1. Laid(f) /\ Placed(f) /\ Beyond(f) /\ f.bad \in Nat /\ Len(f.plan) \in Nat
  BY StoredFacts
<1>2. CASE f.extents
  <2>1. k \notin Kept(f)
    BY <1>2 DEF KeptOf
  <2>2. /\ f.bad # 0
        /\ \E e \in Range(Extents(f)) :
                  /\ f.bad \in e.start .. e.start + e.length - 1
                  /\ Place(f, k) \in f.bad .. e.start + e.length - 1
    BY <1>1, <2>1, LostBehindBad
  <2> QED
    BY <1>2, <2>2, Zenon DEF LostTo
<1>3. CASE ~f.extents
  <2>1. k \notin Fine(f)
    BY <1>3 DEF KeptOf
  <2>2. Place(f, k) = f.bad /\ k \in 1 .. Len(f.plan)
    BY <1>1, <2>1 DEF Fine
  <2>3. Place(f, k) # 0
    BY <1>1, <2>2 DEF Placed
  <2> QED
    BY <1>3, <2>2, <2>3 DEF LostTo
<1> QED
  BY <1>2, <1>3

\* Of a file of which nothing is preallocated, the blocks not lost are read.
LEMMA WrittenFiles ==
    ASSUME NEW f, Stored(f), NeverPreallocated(f)
    PROVE  /\ Reads(f) = ReadOf(f, KeptOf(f), Len(f.plan))
           /\ KeptOf(f) \subseteq AllMapped(f)
           /\ \A k \in AllMapped(f) \ KeptOf(f) : LostTo(f, k)
<1> DEFINE n == Len(f.plan)
<1>1. Laid(f) /\ Placed(f) /\ n \in Nat /\ DOMAIN f.plan = 1 .. n
  BY StoredFacts
<1>2. Written(f, n)
  BY <1>1 DEF Written, NeverPreallocated
<1>3. Reads(f) = ReadOf(f, KeptOf(f), n)
  <2>1. CASE f.extents
    <3>1. PICK w : Ends(f, w)
      BY DEF Stored
    <3>2. w = n
      <4>1. w \in 1 .. n
        BY <3>1 DEF Ends
      <4>2. ASSUME w < n PROVE FALSE
        <5>1. w + 1 \in w + 1 .. n /\ w + 1 \in 1 .. n
          BY <1>1, <4>1, <4>2
        <5>2. f.plan[w + 1] = "preallocated"
          BY <3>1, <5>1 DEF Ends
        <5> QED
          BY <1>1, <5>1, <5>2 DEF NeverPreallocated
      <4> QED
        BY <1>1, <4>1, <4>2
    <3>3. PICK t \in Seq(Nat) : /\ FlattenSeq(ReadsOf(f, Extents(f))) = ReadOf(f, Kept(f), w) \o t
                                /\ w = n => t = <<>>
      BY <1>1, <3>1, ReadAll
    <3>4. ReadOf(f, Kept(f), w) \in Seq(Nat)
      <4>1. Extends(Share(f, Kept(f)), n, Nat)
        BY <1>1, ShareFacts
      <4>2. w \in 0 .. n
        BY <1>1, <3>2
      <4> QED
        BY <4>1, <4>2 DEF Extends, ReadOf
    <3>5. \A x \in Seq(Nat) : x \o <<>> = x
      OBVIOUS
    <3>6. FlattenSeq(ReadsOf(f, Extents(f))) = ReadOf(f, Kept(f), n)
      BY <3>2, <3>3, <3>4, <3>5, Zenon
    <3> QED
      BY <2>1, <3>6, Zenon DEF Reads, KeptOf
  <2>2. CASE ~f.extents
    BY <2>2, Zenon DEF Reads, KeptOf
  <2> QED
    BY <2>1, <2>2
<1>4. KeptOf(f) \subseteq AllMapped(f)
  BY DEF KeptOf, Kept, Fine, AllMapped, MappedTo
<1>5. ASSUME NEW k \in AllMapped(f) \ KeptOf(f) PROVE LostTo(f, k)
  <2>1. k \in 1 .. n /\ Mapped(f, k) /\ n \in 0 .. n
    BY <1>1 DEF AllMapped, MappedTo
  <2> HIDE DEF n
  <2>2. k \notin KeptOf(f)
    OBVIOUS
  <2> QED
    BY <1>2, <2>1, <2>2, LostBlocks DEF n
<1> QED
  BY <1>3, <1>4, <1>5

\* The bytes of blocks without holes are as many as there is room.
LEMMA FullBlocks ==
    ASSUME NEW f, Placed(f), NEW w \in 0 .. Len(f.plan), NEW K, 1 .. w \subseteq K
    PROVE  Len(ReadOf(f, K, w)) = w * BlockSize
<1> DEFINE n == Len(f.plan)
           T == {k \in 0 .. w : Len(ReadOf(f, K, k)) = k * BlockSize}
<1>1. Extends(Share(f, K), n, Nat) /\ n \in Nat
  BY ShareFacts
<1>2. 0 \in T
  <2>1. ReadOf(f, K, 0) = <<>>
    BY <1>1 DEF Extends, ReadOf
  <2>2. Len(<<>>) = 0 /\ 0 \in 0 .. w
    BY <1>1
  <2> QED
    BY <2>1, <2>2, InBytes
<1>3. ASSUME NEW k \in 0 .. w - 1, k \in T PROVE k + 1 \in T
  <2>1. k \in Nat /\ k \in 0 .. n /\ k \in 0 .. n - 1 /\ k + 1 \in 1 .. n /\ k + 1 \in 1 .. w /\ k + 1 \in 0 .. w
    BY <1>1
  <2>2. ReadOf(f, K, k + 1) = ReadOf(f, K, k) \o Share(f, K)[k + 1] /\ ReadOf(f, K, k) \in Seq(Nat)
    BY <1>1, <2>1 DEF Extends, ReadOf
  <2>3. Share(f, K)[k + 1] \in Seq(Nat) /\ Len(Share(f, K)[k + 1]) = BlockSize
    <3>1. k + 1 \in K
      BY <2>1
    <3> QED
      BY <2>1, <3>1, ShareFacts
  <2>4. Len(ReadOf(f, K, k + 1)) = Len(ReadOf(f, K, k)) + BlockSize
    BY <2>2, <2>3
  <2>5. Len(ReadOf(f, K, k)) = k * BlockSize
    BY <1>3
  <2>6. (k + 1) * BlockSize = k * BlockSize + BlockSize
    BY <2>1, InBytes
  <2>7. Len(ReadOf(f, K, k + 1)) = (k + 1) * BlockSize
    BY <2>4, <2>5, <2>6
  <2> QED
    BY <2>1, <2>7
<1>4. 0 .. w \subseteq T
  <2>1. w \in Nat
    BY <1>1
  <2> HIDE DEF T
  <2> QED
    BY <1>2, <1>3, <2>1, UpTo
<1>5. w \in 0 .. w
  BY <1>1
<1> QED
  BY <1>4, <1>5

\* A file without holes and faults, written to its end, is read as it was.
LEMMA SoundRead ==
    ASSUME NEW f, Stored(f), f.bad = 0, \A k \in 1 .. Len(f.plan) : Mapped(f, k),
           \A k \in 1 .. Len(f.plan) : f.plan[k] = "preallocated" => (k - 1) * BlockSize >= f.size,
           NEW c, c = ReadOf(f, AllMapped(f), Len(f.plan))
    PROVE  Trimmed(f, Reads(f)) = SubSeq(c, 1, f.size)
<1> DEFINE n == Len(f.plan)
           M == AllMapped(f)
           K == KeptOf(f)
<1>1. Laid(f) /\ Placed(f) /\ n \in Nat /\ DOMAIN f.plan = 1 .. n
  BY StoredFacts
<1>2. PICK w : Ends(f, w)
  BY DEF Stored
<1>3. w \in 1 .. n /\ w \in 0 .. n /\ w \in Nat /\ Written(f, w) /\ \A k \in w + 1 .. n : f.plan[k] = "preallocated"
  BY <1>1, <1>2 DEF Ends
<1>4. f.size \in Nat \ {0} /\ f.size <= w * BlockSize
  <2>1. f.size \in Nat \ {0} /\ f.size <= n * BlockSize
    BY DEF Stored
  <2>2. CASE w = n
    BY <2>1, <2>2
  <2>3. CASE w # n
    <3>1. w + 1 \in w + 1 .. n /\ w + 1 \in 1 .. n /\ (w + 1) - 1 = w
      BY <1>1, <1>3, <2>3
    <3>2. f.plan[w + 1] = "preallocated"
      BY <1>3, <3>1
    <3>3. ((w + 1) - 1) * BlockSize >= f.size
      BY <3>1, <3>2
    <3>4. w * BlockSize >= f.size /\ w * BlockSize \in Nat
      BY <1>3, <3>1, <3>3, InBytes
    <3> QED
      BY <2>1, <3>4
  <2> QED
    BY <2>2, <2>3
<1>5. 1 .. w \subseteq K
  <2> SUFFICES ASSUME NEW k \in 1 .. w, k \notin K PROVE FALSE
    OBVIOUS
  <2>1. Mapped(f, k)
    BY <1>1, <1>3
  <2>2. LostTo(f, k)
    BY <1>3, <2>1, LostBlocks
  <2> QED
    BY <2>2 DEF LostTo
<1>6. 1 .. w \subseteq M
  BY <1>1, <1>3 DEF AllMapped, MappedTo
<1> HIDE DEF K, M, n
<1>7. Len(ReadOf(f, K, w)) = w * BlockSize
  BY <1>1, <1>3, <1>5, FullBlocks DEF n
<1>8. ReadOf(f, M, w) = ReadOf(f, K, w)
  <2>1. \A k \in 1 .. w : Share(f, M)[k] = Share(f, K)[k]
    <3> SUFFICES ASSUME NEW k \in 1 .. w PROVE Share(f, M)[k] = Share(f, K)[k]
      OBVIOUS
    <3>1. k \in 1 .. Len(f.plan) /\ k \in M /\ k \in K
      BY <1>1, <1>3, <1>5, <1>6 DEF n
    <3> QED
      BY <3>1 DEF Share
  <2> QED
    BY <1>3, <2>1, SameFirst DEF ReadOf
<1> DEFINE a == ReadOf(f, K, w)
<1>9. \E t \in Seq(Nat) : Reads(f) = a \o t
  <2>1. CASE f.extents
    <3>1. PICK t \in Seq(Nat) : FlattenSeq(ReadsOf(f, Extents(f))) = ReadOf(f, Kept(f), w) \o t
      BY <1>1, <1>2, ReadAll
    <3>2. K = Kept(f)
      BY <2>1 DEF K, KeptOf
    <3>3. Reads(f) = FlattenSeq(ReadsOf(f, Extents(f)))
      BY <2>1, Zenon DEF Reads
    <3> QED
      BY <3>1, <3>2, <3>3
  <2>2. CASE ~f.extents
    <3>1. NeverPreallocated(f)
      BY <2>2 DEF Stored
    <3>2. Reads(f) = ReadOf(f, K, n)
      BY <3>1, WrittenFiles DEF K, n
    <3>3. \A j \in 1 .. n : Share(f, K)[j] \in Seq(Nat)
      BY <1>1, ShareFacts DEF n
    <3>4. w \in 0 .. n /\ n \in w .. n
      BY <1>1, <1>3
    <3>5. /\ FirstOf(Share(f, K), n) = FirstOf(Share(f, K), w) \o Between(Share(f, K), w, n)
          /\ Between(Share(f, K), w, n) \in Seq(Nat)
      BY <1>1, <3>3, <3>4, Split
    <3> QED
      BY <3>2, <3>5 DEF ReadOf
  <2> QED
    BY <2>1, <2>2
<1>10. \E u \in Seq(Nat) : c = a \o u
  <2>1. \A j \in 1 .. n : Share(f, M)[j] \in Seq(Nat)
    BY <1>1, ShareFacts DEF n
  <2>2. w \in 0 .. n /\ n \in w .. n
    BY <1>1, <1>3
  <2>3. /\ FirstOf(Share(f, M), n) = FirstOf(Share(f, M), w) \o Between(Share(f, M), w, n)
        /\ Between(Share(f, M), w, n) \in Seq(Nat)
    BY <1>1, <2>1, <2>2, Split
  <2>4. c = FirstOf(Share(f, M), n)
    BY DEF ReadOf, M, n
  <2>5. FirstOf(Share(f, M), w) = a
    BY <1>8 DEF ReadOf
  <2> HIDE DEF a
  <2> QED
    BY <2>3, <2>4, <2>5
<1>11. a \in Seq(Nat) /\ Len(a) = w * BlockSize /\ f.size <= Len(a) /\ Len(a) \in Nat
  <2>1. Extends(Share(f, K), n, Nat)
    BY <1>1, ShareFacts DEF n
  <2>2. a \in Seq(Nat)
    BY <1>3, <2>1 DEF Extends, ReadOf
  <2>3. Len(a) = w * BlockSize
    BY <1>7
  <2> HIDE DEF a
  <2> QED
    BY <1>4, <2>2, <2>3
<1> HIDE DEF a
<1>12. PICK t \in Seq(Nat), u \in Seq(Nat) : Reads(f) = a \o t /\ c = a \o u
  BY <1>9, <1>10
<1> DEFINE s == f.size
<1>13. s \in Nat \ {0} /\ s <= Len(a)
  BY <1>4, <1>11
<1> HIDE DEF s
<1>14. ASSUME NEW v \in Seq(Nat) PROVE SubSeq(a \o v, 1, s) = SubSeq(a, 1, s) /\ a \o v \in Seq(Nat)
                                       /\ Least(Len(a \o v), s) = s
  <2>1. a \o v \in Seq(Nat) /\ Len(a \o v) = Len(a) + Len(v) /\ Len(v) \in Nat
    <3>1. \A x, y \in Seq(Nat) : x \o y \in Seq(Nat) /\ Len(x \o y) = Len(x) + Len(y) /\ Len(y) \in Nat
      OBVIOUS
    <3> QED
      BY <1>11, <3>1, Zenon
  <2>2. \A i \in 1 .. Len(a) : (a \o v)[i] = a[i]
    BY <1>11
  <2>3. SubSeq(a \o v, 1, s) = [i \in 1 .. s |-> a[i]]
    <3> DEFINE x == a \o v
    <3>1. x \in Seq(Nat) /\ s <= Len(x) /\ \A i \in 1 .. s : x[i] = a[i]
      BY <1>11, <1>13, <2>1, <2>2
    <3> HIDE DEF x
    <3>2. SubSeq(x, 1, s) = [i \in 1 .. s |-> x[i]]
      BY <1>13, <3>1
    <3> QED
      BY <3>1, <3>2 DEF x
  <2>4. SubSeq(a, 1, s) = [i \in 1 .. s |-> a[i]]
    BY <1>11, <1>13
  <2>5. Least(Len(a \o v), s) = s
    BY <1>11, <1>13, <2>1 DEF Least
  <2> QED
    BY <2>1, <2>3, <2>4, <2>5
<1>15. Trimmed(f, Reads(f)) = SubSeq(a \o t, 1, s)
  <2> DEFINE x == a \o t
  <2>1. x \in Seq(Nat) /\ Least(Len(x), s) = s
    BY <1>14
  <2>2. Reads(f) = x
    BY <1>12
  <2> HIDE DEF x
  <2>3. Trimmed(f, x) = SubSeq(x, 1, Least(Len(x), f.size))
    BY <1>4, <2>1, TrimmedFacts
  <2> QED
    BY <2>1, <2>2, <2>3 DEF s, x
<1> QED
  BY <1>12, <1>14, <1>15 DEF s

-----------------------------------------------------------------------------
(* What is handed over of a file.                                          *)

\* What was handed over is what RecoverInodeData made of the file.
RecoveredFrom(r) ==
    /\ r.from \in {"table", "journal"} /\ r.number \in Nat
    /\ r.state \in {"intact", "cleared", "wiped", "unrooted"}
    /\ r.ok = RecoverInodeData(file, r.state).ok
    /\ r.data = RecoverInodeData(file, r.state).data
    /\ r.marked = (r.from = "table" /\ HasZeroedBlockData(file, r.state))

\* What was handed over is another file's block, which debris led to.
Debris(r) ==
    /\ r.from = "table" /\ r.number \in Nat /\ r.state = "debris"
    /\ r.ok = TRUE /\ r.marked = FALSE /\ r.data = BytesOf(Stranger)

\* What debris leads to can be read.
LEMMA StrangeBytes == BytesOf(Stranger) \in Seq(Bytes) /\ BytesOf(Stranger) # <<>>
<1>1. Stranger \in Nat /\ Stranger < Blocks /\ BlockSize \in Nat \ {0}
  BY FileSizes, Ext4LayoutAssumption DEF Stranger
<1>2. BytesOf(Stranger) \in Seq(Bytes) /\ Len(BytesOf(Stranger)) = BlockSize
  BY <1>1, BlockBytes
<1> QED
  BY <1>1, <1>2

\* The content of a file is what would be read if every block could be.
LEMMA ContentFacts ==
    ASSUME Stored(file)
    PROVE  /\ Content = ReadOf(file, AllMapped(file), Len(file.plan))
           /\ Content \in Seq(Nat)
<1> DEFINE n == Len(file.plan)
           M == AllMapped(file)
           g == [k \in 1 .. n |-> IF Mapped(file, k) THEN BytesOf(Place(file, k)) ELSE <<>>]
<1>1. Placed(file) /\ n \in Nat /\ DOMAIN file.plan = 1 .. n
  BY StoredFacts
<1>2. Content = FlattenSeq(g)
  BY <1>1 DEF Content
<1>3. ASSUME NEW k \in 1 .. n PROVE g[k] = Share(file, M)[k]
  BY DEF Share, AllMapped, MappedTo
<1>4. g = [k \in 1 .. n |-> Share(file, M)[k]]
  <2>1. g = [k \in 1 .. n |-> g[k]]
    OBVIOUS
  <2> HIDE DEF g, M
  <2> QED
    BY <1>3, <2>1
<1>5. Content = ReadOf(file, M, n)
  <2> HIDE DEF g, M, n
  <2> QED
    BY <1>2, <1>4 DEF ReadOf, FirstOf
<1>6. Extends(Share(file, M), n, Nat)
  BY <1>1, ShareFacts
<1>7. n \in 0 .. n
  BY <1>1
<1> HIDE DEF M, n
<1>8. ReadOf(file, M, n) \in Seq(Nat)
  BY <1>6, <1>7 DEF Extends, ReadOf
<1> QED
  BY <1>5, <1>8 DEF M, n

\* What comes of a file, with its root or without it.
LEMMA ResultFacts ==
    ASSUME Stored(file), NEW r, RecoveredFrom(r)
    PROVE  /\ r.ok \in BOOLEAN /\ r.data \in Seq(Bytes) /\ r.marked \in BOOLEAN
           /\ ~r.ok => r.data = <<>>
           /\ r.state # "intact" => r.data = <<>>
           /\ r.state = "intact" =>
                  /\ file.damage = "none" => r.ok
                  /\ r.ok /\ NoStrayPointers => r.data = Trimmed(file, Reads(file))
<1> DEFINE q == RecoverInodeData(file, r.state)
<1>1. (Treed(file) \/ Pointed(file)) /\ file.size \in Nat \ {0}
  BY DEF Stored
<1>2. /\ r.state \in {"intact", "cleared", "wiped", "unrooted"} /\ r.ok = q.ok /\ r.data = q.data
      /\ r.marked = (r.from = "table" /\ HasZeroedBlockData(file, r.state))
  BY DEF RecoveredFrom
<1>3. r.marked \in BOOLEAN
  BY <1>2, Zenon
<1>4. CASE r.state = "intact"
  <2>1. Recovers(file, RecoverInodeData(file, "intact"))
    BY <1>1, TreeRecovers, PointersRecover
  <2>2. Recovers(file, q)
    BY <1>4, <2>1
  <2> HIDE DEF q
  <2>3. /\ q.ok \in BOOLEAN /\ q.data \in Seq(Bytes)
        /\ ~q.ok => q.data = <<>>
        /\ file.damage = "none" => q.ok
        /\ q.ok /\ NoStrayPointers => q.data = Trimmed(file, Reads(file))
    BY <2>2, Zenon DEF Recovers, NoStrayPointers, Guided
  <2> QED
    BY <1>2, <1>3, <1>4, <2>3, Zenon
<1>5. CASE r.state # "intact"
  <2>1. r.state \in {"cleared", "wiped", "unrooted"}
    BY <1>2, <1>5
  <2>2. q.data = <<>> /\ q.ok \in BOOLEAN
    BY <1>1, <2>1, EmptiedRecovers
  <2>3. <<>> \in Seq(Bytes)
    OBVIOUS
  <2> HIDE DEF q
  <2> QED
    BY <1>2, <1>3, <1>5, <2>2, <2>3, Zenon
<1> QED
  BY <1>4, <1>5, Zenon

\* A file of which nothing is preallocated comes with all bytes of the blocks read.
LEMMA WrittenResult ==
    ASSUME Stored(file), NeverPreallocated(file), NoStrayPointers, NEW r, RecoveredFrom(r),
           r.state = "intact", r.ok, NEW d, d = ReadOf(file, KeptOf(file), Len(file.plan))
    PROVE  r.data = SubSeq(d, 1, Least(Len(d), file.size)) /\ d \in Seq(Nat)
<1>1. Placed(file) /\ Len(file.plan) \in Nat
  BY StoredFacts
<1>2. r.data = Trimmed(file, Reads(file))
  BY ResultFacts, Zenon
<1>3. Reads(file) = d
  BY WrittenFiles
<1>4. d \in Seq(Nat)
  <2>1. Extends(Share(file, KeptOf(file)), Len(file.plan), Nat)
    BY <1>1, ShareFacts
  <2>2. Len(file.plan) \in 0 .. Len(file.plan)
    BY <1>1
  <2> QED
    BY <2>1, <2>2 DEF Extends, ReadOf
<1>5. Trimmed(file, d) = SubSeq(d, 1, Least(Len(d), file.size))
  <2>1. file.size \in Nat \ {0}
    BY DEF Stored
  <2> QED
    BY <1>4, <2>1, TrimmedFacts
<1> QED
  BY <1>2, <1>3, <1>4, <1>5

\* A file without holes and faults comes whole.
LEMMA WholeResult ==
    ASSUME Stored(file), NEW r, RecoveredFrom(r), r.state = "intact", NoHoles, WrittenToTheEnd,
           file.bad = 0, file.damage = "none"
    PROVE  r.ok /\ r.data = SubSeq(Content, 1, file.size)
<1>1. DOMAIN file.plan = 1 .. Len(file.plan)
  BY StoredFacts
<1>2. NoStrayPointers
  BY DEF NoStrayPointers
<1>3. r.ok /\ r.data = Trimmed(file, Reads(file))
  BY <1>2, ResultFacts, Zenon
<1>4. Trimmed(file, Reads(file)) = SubSeq(Content, 1, file.size)
  <2>1. \A k \in 1 .. Len(file.plan) : Mapped(file, k)
    BY <1>1 DEF NoHoles
  <2>2. \A k \in 1 .. Len(file.plan) : file.plan[k] = "preallocated" => (k - 1) * BlockSize >= file.size
    BY <1>1, Zenon DEF WrittenToTheEnd
  <2>3. Content = ReadOf(file, AllMapped(file), Len(file.plan))
    BY ContentFacts
  <2> DEFINE c == Content
  <2>4. c = ReadOf(file, AllMapped(file), Len(file.plan))
    BY <2>3
  <2> HIDE DEF c
  <2>5. Trimmed(file, Reads(file)) = SubSeq(c, 1, file.size)
    BY <2>1, <2>2, <2>4, SoundRead
  <2> QED
    BY <2>5 DEF c
<1> QED
  BY <1>3, <1>4

\* Nothing is in any order.
LEMMA NothingInOrder ==
    ASSUME NEW c
    PROVE  InOrderOf(<<>>, c)
BY DEF InOrderOf, Range

\* What comes of a file is its own and in its order.
LEMMA OwnResult ==
    ASSUME Stored(file), NeverPreallocated(file), NoStrayPointers, NEW r, RecoveredFrom(r)
    PROVE  InOrderOf(r.data, Content)
<1>1. CASE r.state = "intact" /\ r.ok
  <2> DEFINE n == Len(file.plan)
             d == ReadOf(file, KeptOf(file), n)
  <2>1. r.data = SubSeq(d, 1, Least(Len(d), file.size))
    <3> DEFINE dd == d
    <3>1. dd = ReadOf(file, KeptOf(file), Len(file.plan))
      OBVIOUS
    <3> HIDE DEF dd
    <3>2. r.data = SubSeq(dd, 1, Least(Len(dd), file.size))
      BY <1>1, <3>1, WrittenResult
    <3> QED
      BY <3>2 DEF dd
  <2>2. KeptOf(file) \subseteq AllMapped(file) /\ AllMapped(file) \subseteq AllMapped(file)
    BY WrittenFiles
  <2>3. file.size \in Nat /\ Placed(file)
    BY StoredFacts DEF Stored
  <2>4. InOrderOf(SubSeq(ReadOf(file, KeptOf(file), Len(file.plan)), 1,
                         Least(Len(ReadOf(file, KeptOf(file), Len(file.plan))), file.size)),
                  ReadOf(file, AllMapped(file), Len(file.plan)))
    BY <2>2, <2>3, FewerInOrder
  <2> QED
    BY <2>1, <2>4, ContentFacts
<1>2. CASE ~(r.state = "intact" /\ r.ok)
  <2>1. r.data = <<>>
    BY <1>2, ResultFacts, Zenon
  <2> QED
    BY <2>1, NothingInOrder
<1> QED
  BY <1>1, <1>2

\* The bytes of a block lost to a bad one are among those it costs.
LEMMA LostCosts ==
    ASSUME Stored(file), NEW k \in 1 .. Len(file.plan), LostTo(file, k)
    PROVE  Range(BytesOf(Place(file, k))) \subseteq BadBytes
<1>1. CASE file.extents
  <2>1. PICK e \in Range(Extents(file)) : /\ file.bad \in e.start .. e.start + e.length - 1
                                          /\ Place(file, k) \in file.bad .. e.start + e.length - 1
    BY <1>1 DEF LostTo
  <2> DEFINE S(x) == UNION {Range(BytesOf(b)) : b \in file.bad .. x.start + x.length - 1}
             E == {x \in Range(Extents(file)) : file.bad \in x.start .. x.start + x.length - 1}
  <2>2. BadBytes = UNION {S(x) : x \in E}
    BY <1>1 DEF BadBytes
  <2>3. e \in E
    BY <2>1
  <2>4. ASSUME NEW y \in Range(BytesOf(Place(file, k))) PROVE y \in S(e)
    BY <2>1, <2>4
  <2> HIDE DEF S, E
  <2>5. ASSUME NEW y \in Range(BytesOf(Place(file, k))) PROVE y \in BadBytes
    <3>1. y \in S(e)
      BY <2>4
    <3> QED
      BY <2>2, <2>3, <3>1
  <2> QED
    BY <2>5
<1>2. CASE ~file.extents
  <2>1. Place(file, k) = file.bad
    BY <1>2 DEF LostTo
  <2>2. BadBytes = Range(BytesOf(file.bad))
    BY <1>2 DEF BadBytes
  <2> QED
    BY <2>1, <2>2
<1> QED
  BY <1>1, <1>2

\* What is missing of the file is lost to a bad block.
LEMMA ShortResult ==
    ASSUME Stored(file), NeverPreallocated(file), NoStrayPointers, NEW r, RecoveredFrom(r),
           r.state = "intact", r.ok
    PROVE  Range(SubSeq(Content, 1, Least(Len(Content), file.size))) \subseteq
               Range(r.data) \cup (IF file.bad = 0 THEN {} ELSE BadBytes)
<1> DEFINE n == Len(file.plan)
           K == KeptOf(file)
           M == AllMapped(file)
           c == Content
           s == file.size
           m == Least(Len(c), s)
<1>1. c = ReadOf(file, M, n) /\ c \in Seq(Nat)
  BY ContentFacts
<1>2. s \in Nat \ {0} /\ Placed(file) /\ n \in Nat /\ DOMAIN file.plan = 1 .. n
  BY StoredFacts DEF Stored
<1>3. K \subseteq M /\ M \subseteq AllMapped(file) /\ \A k \in M \ K : LostTo(file, k)
  BY WrittenFiles
<1>4. r.data = SubSeq(ReadOf(file, K, n), 1, Least(Len(ReadOf(file, K, n)), s))
  <2> DEFINE dd == ReadOf(file, K, n)
  <2>1. dd = ReadOf(file, KeptOf(file), Len(file.plan))
    OBVIOUS
  <2> HIDE DEF dd
  <2>2. r.data = SubSeq(dd, 1, Least(Len(dd), file.size))
    BY <2>1, WrittenResult
  <2> QED
    BY <2>2 DEF dd
<1>5. m \in Nat /\ m <= Len(c) /\ m <= s
  <2> HIDE DEF c, s
  <2> QED
    BY <1>1, <1>2 DEF Least
<1> SUFFICES ASSUME NEW y \in Range(SubSeq(c, 1, m))
             PROVE  y \in Range(r.data) \cup (IF file.bad = 0 THEN {} ELSE BadBytes)
  OBVIOUS
<1>6. PICK p \in 1 .. m : y = c[p]
  <2> HIDE DEF c, m
  <2> QED
    BY <1>1, <1>5 DEF Range
<1>7. p \in 1 .. Len(c) /\ p <= s
  <2> HIDE DEF c, m, s
  <2> QED
    BY <1>1, <1>2, <1>5
<1> HIDE DEF c, s, K, m, M, n
<1>8. \/ \E k \in M \ K : ReadOf(file, M, n)[p] \in Range(BytesOf(Place(file, k)))
      \/ ReadOf(file, M, n)[p] \in
             Range(SubSeq(ReadOf(file, K, n), 1, Least(Len(ReadOf(file, K, n)), s)))
  <2>1. p \in 1 .. Len(ReadOf(file, M, Len(file.plan))) /\ s \in Nat
    BY <1>1, <1>2, <1>7 DEF n
  <2> QED
    BY <1>2, <1>3, <1>7, <2>1, FirstBytes DEF n
<1>9. CASE \E k \in M \ K : ReadOf(file, M, n)[p] \in Range(BytesOf(Place(file, k)))
  <2>1. PICK k \in M \ K : ReadOf(file, M, n)[p] \in Range(BytesOf(Place(file, k)))
    BY <1>9
  <2>2. k \in 1 .. Len(file.plan) /\ LostTo(file, k)
    BY <1>3, <2>1 DEF AllMapped, MappedTo, M
  <2>3. Range(BytesOf(Place(file, k))) \subseteq BadBytes /\ file.bad # 0
    BY <2>2, LostCosts DEF LostTo
  <2>4. y \in Range(BytesOf(Place(file, k)))
    BY <1>1, <1>6, <2>1
  <2> QED
    BY <2>3, <2>4
<1>10. CASE ReadOf(file, M, n)[p] \in
             Range(SubSeq(ReadOf(file, K, n), 1, Least(Len(ReadOf(file, K, n)), s)))
  BY <1>1, <1>4, <1>6, <1>10
<1> QED
  BY <1>8, <1>9, <1>10

\* A file has content.
LEMMA SomeContent ==
    ASSUME Stored(file)
    PROVE  Len(Content) \in Nat \ {0} /\ Content \in Seq(Nat)
<1> DEFINE M == AllMapped(file)
           c == Content
<1>1. c = ReadOf(file, M, Len(file.plan)) /\ c \in Seq(Nat)
  BY ContentFacts
<1>2. PICK k \in 1 .. Len(file.plan) : Mapped(file, k)
  BY DEF Stored
<1>3. k \in M
  BY <1>2, StoredFacts DEF AllMapped, MappedTo
<1>4. 1 \in 1 .. BlockSize
  BY FileSizes
<1> HIDE DEF c, M
<1>5. Standing(file, M, c)
  BY <1>1, StoredFacts, ReadPlaces
<1>6. Len(ReadOf(file, M, k - 1)) + 1 \in 1 .. Len(c)
  BY <1>3, <1>4, <1>5 DEF Standing
<1>7. Len(c) \in Nat \ {0}
  BY <1>1, <1>6
<1> QED
  BY <1>1, <1>7 DEF c

\* What is not marked for the journal still has its root.
LEMMA UnmarkedIntact ==
    ASSUME NEW r, RecoveredFrom(r), r.from = "table", ~r.marked
    PROVE  r.state = "intact"
<1> SUFFICES ASSUME r.state # "intact" PROVE FALSE
  OBVIOUS
<1>1. ~HasZeroedBlockData(file, r.state) /\ r.state \in {"cleared", "wiped", "unrooted"}
  BY DEF RecoveredFrom
<1>2. CASE file.extents
  <2>1. /\ Root(file, r.state).magic
        /\ ~\A i \in DOMAIN Root(file, r.state).entries : Root(file, r.state).entries[i].start = 0
    BY <1>1, <1>2 DEF HasZeroedBlockData
  <2>2. CASE r.state = "cleared"
    <3>1. Root(file, r.state).entries = <<>>
      BY <2>2 DEF Root, NoNode
    <3> QED
      BY <2>1, <3>1
  <2>3. CASE r.state \in {"wiped", "unrooted"}
    <3>1. Root(file, r.state) = [magic |-> FALSE, depth |-> 0, entries |-> <<>>]
      BY <2>3 DEF Root, NoNode
    <3> QED
      BY <2>1, <3>1
  <2> QED
    BY <1>1, <2>2, <2>3
<1>3. CASE ~file.extents
  BY <1>1, <1>3 DEF HasZeroedBlockData
<1> QED
  BY <1>2, <1>3

\* Nothing comes of a file that is not marked only if something of it cannot be read.
LEMMA EmptyResult ==
    ASSUME Stored(file), NeverPreallocated(file), NEW r, RecoveredFrom(r),
           r.from = "table", ~r.marked, r.data = <<>>
    PROVE  file.bad # 0 \/ file.damage # "none"
<1> SUFFICES ASSUME file.bad = 0, file.damage = "none" PROVE FALSE
  OBVIOUS
<1>1. r.state = "intact"
  BY UnmarkedIntact
<1>2. r.ok /\ NoStrayPointers
  BY <1>1, ResultFacts, Zenon DEF NoStrayPointers
<1> DEFINE c == Content
           m == Least(Len(c), file.size)
<1>3. Range(SubSeq(c, 1, m)) \subseteq Range(<<>>)
  BY <1>1, <1>2, ShortResult
<1>4. c \in Seq(Nat) /\ Len(c) \in Nat \ {0} /\ file.size \in Nat \ {0}
  BY SomeContent DEF Stored
<1> HIDE DEF c
<1>5. m \in 1 .. Len(c)
  BY <1>4 DEF Least
<1> HIDE DEF m
<1>6. SubSeq(c, 1, m) \in Seq(Nat) /\ Len(SubSeq(c, 1, m)) = m
  BY <1>4, <1>5
<1>7. SubSeq(c, 1, m)[1] \in Range(SubSeq(c, 1, m))
  <2> DEFINE s == SubSeq(c, 1, m)
  <2>1. s \in Seq(Nat) /\ 1 \in DOMAIN s
    <3>1. m \in Nat /\ 1 <= m
      BY <1>4, <1>5
    <3> QED
      BY <1>6, <3>1
  <2> HIDE DEF s
  <2>2. s[1] \in Range(s)
    BY <2>1 DEF Range
  <2> QED
    BY <2>2 DEF s
<1>8. Range(<<>>) = {}
  BY DEF Range
<1> QED
  BY <1>3, <1>7, <1>8

-----------------------------------------------------------------------------
(* What can stand on the disk is laid out for recovery.                    *)

\* A plan is preallocated from some block on.
LEMMA EndsSomewhere ==
    ASSUME NEW n \in Nat \ {0}, NEW plan, plan[1] # "preallocated",
           \A k \in 1 .. n - 1 : plan[k] = "preallocated" => plan[k + 1] = "preallocated"
    PROVE  \E w \in 1 .. n : /\ \A k \in 1 .. w : plan[k] # "preallocated"
                             /\ \A k \in w + 1 .. n : plan[k] = "preallocated"
<1> DEFINE To(w, k) == /\ \A j \in 1 .. w : plan[j] # "preallocated"
                       /\ \A j \in w + 1 .. k : plan[j] = "preallocated"
           T == {k \in 0 .. n - 1 : \E w \in 1 .. k + 1 : To(w, k + 1)}
<1>1. 0 \in T
  <2>1. To(1, 1) /\ 1 \in 1 .. 0 + 1 /\ 0 + 1 = 1 /\ 0 \in 0 .. n - 1
    OBVIOUS
  <2> HIDE DEF To
  <2> QED
    BY <2>1
<1>2. ASSUME NEW k \in 0 .. n - 1 - 1, k \in T PROVE k + 1 \in T
  <2>1. PICK w \in 1 .. k + 1 : To(w, k + 1)
    BY <1>2
  <2>2. k \in Nat /\ k + 1 \in 0 .. n - 1 /\ k + 1 \in 1 .. n - 1 /\ (k + 1) + 1 = k + 2
    OBVIOUS
  <2>3. CASE plan[k + 2] = "preallocated"
    <3>1. To(w, k + 2) /\ w \in 1 .. (k + 1) + 1
      BY <2>1, <2>2, <2>3
    <3> HIDE DEF To
    <3> QED
      BY <2>2, <3>1
  <2>4. CASE plan[k + 2] # "preallocated"
    <3>1. plan[k + 1] # "preallocated"
      BY <2>2, <2>4
    <3>2. w = k + 1
      BY <2>1, <2>2, <3>1
    <3>3. To(k + 2, k + 2) /\ k + 2 \in 1 .. (k + 1) + 1
      BY <2>1, <2>2, <2>4, <3>2
    <3> HIDE DEF To
    <3> QED
      BY <2>2, <3>3
  <2> QED
    BY <2>3, <2>4
<1>3. 0 .. n - 1 \subseteq T
  <2>1. n - 1 \in Nat
    OBVIOUS
  <2> HIDE DEF T
  <2> QED
    BY <1>1, <1>2, <2>1, UpTo
<1>4. n - 1 \in T /\ (n - 1) + 1 = n
  <2>1. n - 1 \in 0 .. n - 1 /\ (n - 1) + 1 = n
    OBVIOUS
  <2> HIDE DEF T
  <2> QED
    BY <1>3, <2>1
<1> QED
  BY <1>4

\* What there is of a plan.
Planned(f, bound) ==
    /\ f.plan \in Seq(Steps) /\ Len(f.plan) \in 1 .. bound /\ DOMAIN f.plan = 1 .. Len(f.plan)
    /\ \E w : Ends(f, w)
    /\ \E k \in 1 .. Len(f.plan) : Mapped(f, k)

\* The blocks of a file as it was written.
LEMMA PlanFacts ==
    ASSUME NEW steps, steps \subseteq Steps, NEW bound \in Nat, NEW f, f.plan \in Plans(steps, bound)
    PROVE  Planned(f, bound) /\ \A k \in 1 .. Len(f.plan) : f.plan[k] \in steps
<1> DEFINE plan == f.plan
<1>1. /\ plan \in UNION {[1 .. n -> steps] : n \in 1 .. bound}
      /\ plan[1] # "preallocated"
      /\ \A k \in 1 .. Len(plan) - 1 : plan[k] = "preallocated" => plan[k + 1] = "preallocated"
      /\ \E k \in DOMAIN plan : plan[k] # "hole"
  BY DEF Plans
<1>2. PICK n \in 1 .. bound : plan \in [1 .. n -> steps]
  BY <1>1
<1>3. /\ plan \in Seq(Steps) /\ Len(plan) = n /\ DOMAIN plan = 1 .. n /\ n \in Nat \ {0}
      /\ \A k \in 1 .. n : plan[k] \in steps
  BY <1>2
<1> HIDE DEF plan
<1>4. \E w \in 1 .. n : /\ \A k \in 1 .. w : plan[k] # "preallocated"
                        /\ \A k \in w + 1 .. n : plan[k] = "preallocated"
  BY <1>1, <1>3, EndsSomewhere
<1>5. \E w : Ends(f, w)
  BY <1>3, <1>4 DEF Ends, Written, plan
<1>6. \E k \in 1 .. n : Mapped(f, k)
  BY <1>1, <1>3 DEF Mapped, plan
<1> QED
  BY <1>3, <1>5, <1>6 DEF Planned, plan

\* A file is at most as long as its blocks.
LEMMA SizeFacts ==
    ASSUME NEW f, NEW bound \in Nat, Planned(f, bound), f.size \in Sizes(f.plan)
    PROVE  /\ f.size \in Nat \ {0} /\ f.size <= Len(f.plan) * BlockSize
           /\ NeverPreallocated(f) => Needed(f) = Len(f.plan)
<1> DEFINE n == Len(f.plan)
           ends == {m \in DOMAIN f.plan : \A k \in m + 1 .. Len(f.plan) : f.plan[k] = "preallocated"}
<1>1. n \in Nat \ {0} /\ DOMAIN f.plan = 1 .. n
  BY DEF Planned
<1>2. PICK m \in ends : f.size = m * BlockSize \/ f.size = (m - 1) * BlockSize + 1
  BY DEF Sizes
<1>3. m \in 1 .. n /\ m \in Nat /\ m - 1 \in Nat /\ (m - 1) + 1 = m /\ \A k \in m + 1 .. n : f.plan[k] = "preallocated"
  BY <1>1, <1>2
<1>4. BlockSize \in Nat \ {0}
  BY FileSizes
<1> DEFINE z == BlockSize
           a == (m - 1) * z
           b == m * z
           c == n * z
<1>5. a \in Nat /\ b = a + z /\ b <= c /\ c \in Nat
  <2>1. ((m - 1) + 1) * BlockSize = (m - 1) * BlockSize + BlockSize /\ (m - 1) * BlockSize \in Nat
    BY <1>3, InBytes
  <2>2. m * BlockSize <= n * BlockSize /\ n * BlockSize \in Nat
    <3> DEFINE nn == n
    <3>1. m <= nn /\ nn \in Nat /\ m \in Nat
      BY <1>1, <1>3
    <3> HIDE DEF nn
    <3>2. m * BlockSize <= nn * BlockSize /\ nn * BlockSize \in Nat
      BY <3>1, InBytes
    <3> QED
      BY <3>2 DEF nn
  <2>3. b = a + z
    BY <1>3, <2>1
  <2> QED
    BY <2>1, <2>2, <2>3
<1>6. f.size = b \/ f.size = a + 1
  BY <1>2
<1>7. f.size \in Nat \ {0} /\ f.size <= c
  <2> HIDE DEF a, b, c, z
  <2>1. z \in Nat \ {0}
    BY <1>4 DEF z
  <2> QED
    BY <1>5, <1>6, <2>1
<1>8. ASSUME NeverPreallocated(f) PROVE Needed(f) = n
  <2>1. m = n
    <3>1. ASSUME m < n PROVE FALSE
      <4>1. m + 1 \in m + 1 .. n /\ m + 1 \in DOMAIN f.plan
        BY <1>1, <1>3, <3>1
      <4> QED
        BY <1>3, <1>8, <4>1 DEF NeverPreallocated
    <3> QED
      BY <1>1, <1>3, <3>1
  <2> DEFINE s == f.size
             d == Ceiling(s, z)
             e == d * z
  <2>2. d \in Nat /\ (\A i \in Nat : i < d => i * z < s) /\ s <= e
    BY <1>4, <1>7, CeilingCovers
  <2>3. ~(n < d)
    <3>1. s <= c /\ s \in Nat
      BY <1>7
    <3> HIDE DEF n, d, s
    <3>2. n < d => c < s
      BY <1>1, <2>2
    <3> HIDE DEF c
    <3> QED
      BY <1>1, <1>5, <2>2, <3>1, <3>2
  <2>4. ~(d < n)
    <3>1. a < s
      <4> HIDE DEF a, b, c, z
      <4>1. z \in Nat \ {0} /\ s \in Nat
        BY <1>4, <1>7 DEF z
      <4> HIDE DEF s
      <4>2. s = b \/ s = a + 1
        BY <1>6 DEF s
      <4> QED
        BY <1>5, <4>1, <4>2
    <3>2. ASSUME d < n PROVE FALSE
      <4>1. d <= m - 1
        <5> HIDE DEF d, n
        <5> QED
          BY <1>1, <1>3, <2>1, <2>2, <3>2
      <4> DEFINE v == m - 1
      <4>2. v \in Nat /\ d \in Nat /\ d <= v /\ a = v * BlockSize
        BY <1>3, <2>2, <4>1
      <4>3. d * BlockSize <= v * BlockSize
        <5> HIDE DEF v, d, a
        <5> QED
          BY <4>2, InBytes
      <4>4. e <= a
        BY <4>3
      <4>5. e \in Nat
        BY <2>2, InBytes
      <4>6. s <= e /\ s \in Nat
        BY <1>7, <2>2
      <4> HIDE DEF e, a, s
      <4> QED
        BY <1>5, <3>1, <4>4, <4>5, <4>6
    <3> QED
      BY <3>2
  <2>5. d = n
    <3> HIDE DEF d, n
    <3> QED
      BY <1>1, <2>2, <2>3, <2>4
  <2> QED
    BY <2>5 DEF Needed
<1> QED
  BY <1>7, <1>8

\* A file without faults, and what may be wrong with it.
Kind(f) ==
    /\ f.extents => f.plan \in Plans(Steps, MaxExtentBlocks) /\ f.height \in 0 .. MaxHeight
    /\ ~f.extents => f.plan \in Plans({"next", "hole"}, MaxPointerBlocks)
    /\ f.size \in Sizes(f.plan)

\* Its blocks lie on the disk.
LEMMA KindFacts ==
    ASSUME NEW f, Kind(f)
    PROVE  /\ Laid(f)
           /\ f.extents => Low(f) /\ f.height <= MaxDepth + 1 /\ Planned(f, MaxExtentBlocks)
           /\ ~f.extents => NeverPreallocated(f) /\ Planned(f, MaxPointerBlocks)
                            /\ Len(f.plan) < LevelStart(3) + Span(3)
<1>2. f.extents => Planned(f, MaxExtentBlocks)
  <2>1. Steps \subseteq Steps /\ MaxExtentBlocks \in Nat
    BY Ext4ParserAssumption
  <2> QED
    BY <2>1, PlanFacts DEF Kind
<1>3. ~f.extents => Planned(f, MaxPointerBlocks) /\ NeverPreallocated(f)
  <2>1. {"next", "hole"} \subseteq Steps /\ MaxPointerBlocks \in Nat
    BY Ext4ParserAssumption DEF Steps
  <2>2. ~f.extents => Planned(f, MaxPointerBlocks) /\ \A k \in 1 .. Len(f.plan) : f.plan[k] \in {"next", "hole"}
    BY <2>1, PlanFacts DEF Kind
  <2> QED
    BY <2>2 DEF NeverPreallocated, Planned
<1>4. PICK bound \in {MaxExtentBlocks, MaxPointerBlocks} : Planned(f, bound)
  BY <1>2, <1>3
<1>5. Laid(f)
  <2>1. /\ f.plan \in Seq(Steps) /\ Len(f.plan) \in 1 .. bound
        /\ bound \in Nat
    BY <1>4, Ext4ParserAssumption DEF Planned
  <2>2. FirstData + 2 * bound < TreeBase /\ TreeBase + 10 * (bound + 1) <= Blocks
    BY Ext4LayoutAssumption
  <2> QED
    BY <2>1, <2>2, FileSizes DEF Laid
<1>6. f.extents => Low(f) /\ f.height <= MaxDepth + 1
  BY Ext4ParserAssumption, Ext4LayoutAssumption, FileSizes DEF Kind, Low
<1>7. ~f.extents => Len(f.plan) < LevelStart(3) + Span(3)
  <2>1. LevelStart(3) + Span(3) \in Nat
    BY Spans
  <2>2. MaxPointerBlocks < LevelStart(3) + Span(3) /\ MaxPointerBlocks \in Nat
    BY Ext4ParserAssumption, Ext4LayoutAssumption
  <2> DEFINE top == LevelStart(3) + Span(3)
  <2> HIDE DEF top
  <2>3. top \in Nat /\ MaxPointerBlocks < top
    BY <2>1, <2>2 DEF top
  <2>4. ~f.extents => Len(f.plan) \in 1 .. MaxPointerBlocks
    BY <1>3 DEF Planned
  <2>5. ~f.extents => Len(f.plan) < top
    BY <2>2, <2>3, <2>4
  <2> QED
    BY <2>5 DEF top
<1> QED
  BY <1>2, <1>3, <1>5, <1>6, <1>7

\* With what may be wrong, it is as recovery expects it.
LEMMA KindStored ==
    ASSUME NEW f, f.extents \in BOOLEAN, Kind(f), Faulty(f)
    PROVE  Stored(f)
<1>1. PICK bound \in Nat : Planned(f, bound)
  <2>1. MaxExtentBlocks \in Nat /\ MaxPointerBlocks \in Nat
    BY Ext4ParserAssumption
  <2> QED
    BY <2>1, KindFacts
<1>2. /\ f.size \in Nat \ {0} /\ f.size <= Len(f.plan) * BlockSize
      /\ NeverPreallocated(f) => Needed(f) = Len(f.plan)
  <2>1. f.size \in Sizes(f.plan)
    BY DEF Kind
  <2> QED
    BY <1>1, <2>1, SizeFacts
<1>3. (\E w : Ends(f, w)) /\ (\E k \in 1 .. Len(f.plan) : Mapped(f, k))
  BY <1>1 DEF Planned
<1>4. Treed(f) \/ Pointed(f)
  <2>1. CASE f.extents
    BY <2>1, KindFacts DEF Treed
  <2>2. CASE ~f.extents
    BY <1>2, <2>2, KindFacts DEF Pointed
  <2> QED
    BY <2>1, <2>2
<1>5. ~f.extents => NeverPreallocated(f)
  BY KindFacts
<1> QED
  BY <1>2, <1>3, <1>4, <1>5 DEF Stored

\* The blocks of the tree lie behind those of the data.
LEMMA TreeBlocksBehind ==
    ASSUME NEW f, Kind(f), NEW b \in TreeBlocks(f)
    PROVE  b \in TreeBase .. Blocks - 1
<1>0. Laid(f) /\ TreeBase \in Nat /\ Blocks \in Nat
  BY KindFacts, FileSizes
<1>1. CASE f.extents
  <2>1. Low(f) /\ Placed(f)
    BY <1>0, <1>1, KindFacts, PlaceFacts
  <2>2. TreeMade(f)
    BY <1>0, <2>1, TreeFacts
  <2>3. PICK d \in 1 .. f.height : b \in {TreeBlock(d, i) : i \in 1 .. Ceiling(Len(Held(f, d - 1)), NodeEntries)}
    BY <1>1 DEF TreeBlocks
  <2>4. PICK i \in 1 .. Ceiling(Len(Held(f, d - 1)), NodeEntries) : b = TreeBlock(d, i)
    BY <2>3
  <2> DEFINE l == Len(Held(f, d - 1))
             n == Len(f.plan)
  <2>5. l \in 0 .. n /\ n \in Nat
    <3>1. d - 1 \in 0 .. f.height
      BY <2>1 DEF Low
    <3> QED
      BY <2>1, <2>2, <3>1 DEF TreeMade, Held, Placed
  <2>6. Ceiling(l, NodeEntries) \in Nat /\ Ceiling(l, NodeEntries) <= l
    <3> HIDE DEF l, n
    <3>1. l \in Nat /\ NodeEntries \in Nat \ {0}
      BY <2>5, FileSizes
    <3> QED
      BY <3>1, CeilingCovers
  <2>7. i \in 1 .. n
    <3>1. i \in 1 .. Ceiling(l, NodeEntries)
      BY <2>4
    <3> HIDE DEF l, n
    <3> QED
      BY <2>5, <2>6, <3>1
  <2>8. b \in TreeBase + 10 .. Blocks - 1
    BY <1>0, <2>1, <2>4, <2>7, BlocksOfTree
  <2> QED
    BY <1>0, <2>8
<1>2. CASE ~f.extents
  <2> DEFINE U == UNION {UNION {IndirectBlocks(f, top, level) : level \in 1 .. top} : top \in 1 .. 3}
  <2>0. TreeBlocks(f) = U \ {0}
    BY <1>2, Zenon DEF TreeBlocks
  <2>1. b \in U /\ b # 0
    <3> HIDE DEF U
    <3> QED
      BY <2>0
  <2>2. PICK top \in 1 .. 3 : b \in UNION {IndirectBlocks(f, top, level) : level \in 1 .. top}
    BY <2>1
  <2>3. PICK level \in 1 .. top : b \in IndirectBlocks(f, top, level)
    BY <2>2
  <2>4. PICK j \in 0 .. Span(top - level) - 1 : b = PointerTo(f, level, LevelStart(top) + j * Span(level))
    BY <2>3 DEF IndirectBlocks
  <2> DEFINE k == LevelStart(top) + j * Span(level)
  <2>5. k \in Nat \ {0}
    <3>1. LevelStart(top) \in Nat \ {0} /\ Span(level) \in Nat
      <4>1. level \in 0 .. 3
        OBVIOUS
      <4> QED
        BY <4>1, Spans
    <3>2. j \in Nat
      <4>1. top - level \in 0 .. 3
        BY <2>3
      <4>2. Span(top - level) \in Nat
        BY <4>1, Spans
      <4> QED
        BY <4>2
    <3>3. \A x, y \in Nat : x * y \in Nat
      OBVIOUS
    <3>4. j * Span(level) \in Nat
      BY <3>1, <3>2, <3>3
    <3> QED
      BY <3>1, <3>4
  <2>6. b = PointerTo(f, level, k)
    BY <2>4
  <2> HIDE DEF k
  <2>7. level \in 0 .. 3 /\ level # 0
    OBVIOUS
  <2>8. b \in DiskBlocks /\ b = PointerBlock(level, k) /\ PointerBlock(level, k) >= TreeBase + 10
    <3>1. PointerTo(f, level, k) # 0
      BY <2>1, <2>6
    <3>2. /\ PointerTo(f, level, k) \in DiskBlocks
          /\ PointerTo(f, level, k) = PointerBlock(level, k)
          /\ PointerBlock(level, k) >= TreeBase + 10
      <4>1. Pointing(f, level, k)
        BY <1>0, <2>5, <2>7, PointsTo, Zenon
      <4> QED
        BY <2>7, <3>1, <4>1 DEF Pointing
    <3> QED
      BY <2>6, <3>2
  <2> QED
    BY <1>0, <2>8 DEF DiskBlocks
<1> QED
  BY <1>1, <1>2

\* The blocks of the data lie before those of the tree.
LEMMA DataBlocksBefore ==
    ASSUME NEW f, Kind(f), NEW b \in DataBlocks(f)
    PROVE  b \in 0 .. TreeBase - 1
<1>1. Placed(f)
  BY KindFacts, PlaceFacts
<1>2. PICK k \in DOMAIN f.plan : Mapped(f, k) /\ b = Place(f, k)
  BY DEF DataBlocks
<1>3. k \in 1 .. Len(f.plan) /\ k \in 0 .. Len(f.plan)
  BY <1>1, <1>2 DEF Placed
<1>4. b \in Nat /\ b < TreeBase
  BY <1>1, <1>2, <1>3 DEF Placed
<1> QED
  BY <1>4, FileSizes

\* A file of these parts, without faults.
SoundAs(f, plan, extents, height, size) ==
    /\ f.plan = plan /\ f.extents = extents /\ f.height = height /\ f.size = size
    /\ f.bad = 0 /\ f.hit = 0 /\ f.damage = "none"

\* The parts of a file without faults.
LEMMA SoundFacts ==
    \A plan, extents, height, size :
        LET f == Sound(plan, extents, height, size)
        IN  SoundAs(f, plan, extents, height, size) /\ Faulty(f)
<1>1. ASSUME NEW plan, NEW extents, NEW height, NEW size
      PROVE  /\ SoundAs(Sound(plan, extents, height, size), plan, extents, height, size)
             /\ Faulty(Sound(plan, extents, height, size))
  <2>1. SoundAs(Sound(plan, extents, height, size), plan, extents, height, size)
    BY DEF Sound, SoundAs
  <2>2. 0 \in 0 .. TreeBase - 1
    BY FileSizes
  <2>3. Faulty(Sound(plan, extents, height, size))
    BY <2>1, <2>2 DEF Faulty, Damages, SoundAs
  <2> QED
    BY <2>1, <2>3
<1> QED
  BY <1>1, Zenon

\* The files without faults.
LEMMA SoundKinds ==
    ASSUME NEW f \in SoundFiles
    PROVE  /\ Kind(f) /\ Faulty(f) /\ f.extents \in BOOLEAN /\ f.bad = 0 /\ f.damage = "none"
           /\ \E plan, extents, height, size : f = Sound(plan, extents, height, size)
<1>1. CASE \E plan \in Plans(Steps, MaxExtentBlocks) : \E h \in 0 .. MaxHeight : \E size \in Sizes(plan) :
               f = Sound(plan, TRUE, h, size)
  <2>0. PICK plan \in Plans(Steps, MaxExtentBlocks) :
            \E h \in 0 .. MaxHeight : \E size \in Sizes(plan) : f = Sound(plan, TRUE, h, size)
    BY <1>1
  <2>1. PICK h \in 0 .. MaxHeight, size \in Sizes(plan) : f = Sound(plan, TRUE, h, size)
    BY <2>0
  <2>2. SoundAs(f, plan, TRUE, h, size) /\ Faulty(f)
    BY <2>1, SoundFacts, Zenon
  <2>3. /\ f.plan = plan /\ f.extents = TRUE /\ f.height = h /\ f.size = size
        /\ Faulty(f) /\ f.extents \in BOOLEAN /\ f.bad = 0 /\ f.damage = "none"
    BY <2>2, Zenon DEF SoundAs
  <2>4. Kind(f)
    BY <2>3, Zenon DEF Kind
  <2> QED
    BY <2>1, <2>3, <2>4, Zenon
<1>2. CASE \E plan \in Plans({"next", "hole"}, MaxPointerBlocks) : \E size \in Sizes(plan) :
               f = Sound(plan, FALSE, 0, size)
  <2>0. PICK plan \in Plans({"next", "hole"}, MaxPointerBlocks) :
            \E size \in Sizes(plan) : f = Sound(plan, FALSE, 0, size)
    BY <1>2
  <2>1. PICK size \in Sizes(plan) : f = Sound(plan, FALSE, 0, size)
    BY <2>0
  <2>2. SoundAs(f, plan, FALSE, 0, size) /\ Faulty(f)
    BY <2>1, SoundFacts, Zenon
  <2>3. /\ f.plan = plan /\ f.extents = FALSE /\ f.size = size
        /\ Faulty(f) /\ f.extents \in BOOLEAN /\ f.bad = 0 /\ f.damage = "none"
    BY <2>2, Zenon DEF SoundAs
  <2>4. Kind(f)
    BY <2>3, Zenon DEF Kind
  <2> QED
    BY <2>1, <2>3, <2>4, Zenon
<1> QED
  <2>1. \/ f \in UNION {UNION {OfAnySize(plan, TRUE, h) : h \in 0 .. MaxHeight} :
                      plan \in Plans(Steps, MaxExtentBlocks)}
        \/ f \in UNION {OfAnySize(plan, FALSE, 0) : plan \in Plans({"next", "hole"}, MaxPointerBlocks)}
    BY DEF SoundFiles
  <2>2. CASE f \in UNION {UNION {OfAnySize(plan, TRUE, h) : h \in 0 .. MaxHeight} :
                      plan \in Plans(Steps, MaxExtentBlocks)}
    <3>1. PICK plan \in Plans(Steps, MaxExtentBlocks) : f \in UNION {OfAnySize(plan, TRUE, h) : h \in 0 .. MaxHeight}
      BY <2>2
    <3>2. PICK h \in 0 .. MaxHeight : f \in OfAnySize(plan, TRUE, h)
      BY <3>1
    <3>3. \E size \in Sizes(plan) : f = Sound(plan, TRUE, h, size)
      BY <3>2, Zenon DEF OfAnySize
    <3> QED
      BY <1>1, <3>3, Zenon
  <2>3. CASE f \in UNION {OfAnySize(plan, FALSE, 0) : plan \in Plans({"next", "hole"}, MaxPointerBlocks)}
    <3>1. PICK plan \in Plans({"next", "hole"}, MaxPointerBlocks) : f \in OfAnySize(plan, FALSE, 0)
      BY <2>3
    <3>2. \E size \in Sizes(plan) : f = Sound(plan, FALSE, 0, size)
      BY <3>1, Zenon DEF OfAnySize
    <3> QED
      BY <1>2, <3>2, Zenon
  <2> QED
    BY <2>1, <2>2, <2>3

\* One fault leaves the rest of the file as it is.
LEMMA FaultKinds ==
    ASSUME NEW f \in SoundFiles, NEW g \in WithFault(f)
    PROVE  Kind(g) /\ Faulty(g) /\ g.extents \in BOOLEAN
<1>1. Kind(f) /\ Faulty(f) /\ f.extents \in BOOLEAN /\ f.bad = 0 /\ f.damage = "none"
  BY SoundKinds
<1>2. PICK plan, extents, height, size : f = Sound(plan, extents, height, size)
  BY SoundKinds
<1>3. CASE \E b \in DataBlocks(f) : g = [f EXCEPT !.bad = b]
  <2>1. PICK b \in DataBlocks(f) : g = [f EXCEPT !.bad = b]
    BY <1>3
  <2>2. /\ g.plan = f.plan /\ g.extents = f.extents /\ g.height = f.height /\ g.size = f.size
        /\ g.bad = b /\ g.damage = f.damage
    BY <1>2, <2>1 DEF Sound
  <2>3. b \in 0 .. TreeBase - 1
    BY <1>1, DataBlocksBefore
  <2>4. Faulty(g)
    BY <1>1, <2>2, <2>3 DEF Faulty
  <2>5. Kind(g)
    BY <1>1, <2>2 DEF Kind
  <2> QED
    BY <1>1, <2>2, <2>4, <2>5, Zenon
<1>4. CASE \E b \in TreeBlocks(f) : \E d \in {"unreadable", "reused", "taken", "loop"} : g = [f EXCEPT !.hit = b, !.damage = d]
  <2>1. PICK b \in TreeBlocks(f), d \in {"unreadable", "reused", "taken", "loop"} : g = [f EXCEPT !.hit = b, !.damage = d]
    BY <1>4
  <2>2. /\ g.plan = f.plan /\ g.extents = f.extents /\ g.height = f.height /\ g.size = f.size
        /\ g.bad = f.bad /\ g.hit = b /\ g.damage = d
    BY <1>2, <2>1 DEF Sound
  <2>3. b \in TreeBase .. Blocks - 1
    BY <1>1, TreeBlocksBehind
  <2>4. Faulty(g)
    BY <1>1, <2>2, <2>3 DEF Faulty, Damages
  <2>5. Kind(g)
    BY <1>1, <2>2 DEF Kind
  <2> QED
    BY <1>1, <2>2, <2>4, <2>5, Zenon
<1>5. \/ g \in {[f EXCEPT !.bad = b] : b \in DataBlocks(f)}
      \/ \E d \in {"unreadable", "reused", "taken", "loop"} : g \in WithDamage(f, d)
  BY DEF WithFault
<1>6. ASSUME NEW d \in {"unreadable", "reused", "taken", "loop"}, g \in WithDamage(f, d)
      PROVE  \E b \in TreeBlocks(f) : g = [f EXCEPT !.hit = b, !.damage = d]
  BY <1>6, Zenon DEF WithDamage
<1>7. CASE g \in {[f EXCEPT !.bad = b] : b \in DataBlocks(f)}
  <2>1. \E b \in DataBlocks(f) : g = [f EXCEPT !.bad = b]
    BY <1>7, Zenon
  <2> QED
    BY <1>3, <2>1, Zenon
<1> QED
  BY <1>4, <1>5, <1>6, <1>7, Zenon

\* One block that can be read.
LEMMA SmallKinds == Kind(SmallFile) /\ Faulty(SmallFile) /\ SmallFile.extents \in BOOLEAN
<1>1. /\ SmallFile.plan = <<"next">> /\ SmallFile.extents = TRUE /\ SmallFile.height = 0
      /\ SmallFile.size = BlockSize /\ Faulty(SmallFile) /\ SmallFile.extents \in BOOLEAN
  <2>1. SoundAs(SmallFile, <<"next">>, TRUE, 0, BlockSize) /\ Faulty(SmallFile)
    BY SoundFacts, Zenon DEF SmallFile
  <2> QED
    BY <2>1, Zenon DEF SoundAs
<1>2. <<"next">> \in Plans(Steps, MaxExtentBlocks)
  <2>1. <<"next">> \in [1 .. 1 -> Steps] /\ 1 \in 1 .. MaxExtentBlocks
    BY Ext4ParserAssumption DEF Steps
  <2>2. <<"next">> \in UNION {[1 .. n -> Steps] : n \in 1 .. MaxExtentBlocks}
    BY <2>1
  <2>3. <<"next">>[1] # "preallocated" /\ Len(<<"next">>) = 1 /\ 1 \in DOMAIN <<"next">> /\ <<"next">>[1] # "hole"
    OBVIOUS
  <2>4. \A k \in 1 .. Len(<<"next">>) - 1 : <<"next">>[k] = "preallocated" => <<"next">>[k + 1] = "preallocated"
    BY <2>3
  <2>5. \E k \in DOMAIN <<"next">> : <<"next">>[k] # "hole"
    BY <2>3
  <2> DEFINE p == <<"next">>
  <2> HIDE DEF p
  <2> QED
    BY <2>2, <2>3, <2>4, <2>5 DEF Plans
<1>3. BlockSize \in Sizes(<<"next">>)
  <2> DEFINE p == <<"next">>
             ends == {n \in DOMAIN p : \A k \in n + 1 .. Len(p) : p[k] = "preallocated"}
  <2>1. 1 \in ends
    OBVIOUS
  <2>2. 1 * BlockSize = BlockSize
    BY InBytes
  <2>3. Sizes(p) = {n * BlockSize : n \in ends} \cup {(n - 1) * BlockSize + 1 : n \in ends}
    BY DEF Sizes
  <2> HIDE DEF ends, p
  <2> QED
    BY <2>1, <2>2, <2>3 DEF p
<1>4. 0 \in 0 .. MaxHeight
  BY Ext4ParserAssumption
<1> QED
  BY <1>1, <1>2, <1>3, <1>4, Zenon DEF Kind

\* What is on the disk at first is as recovery expects it.
LEMMA FileStored == ParserInit => Stored(file)
<1> SUFFICES ASSUME ParserInit PROVE Stored(file)
  OBVIOUS
<1>1. \/ file \in SoundFiles
      \/ file \in UNION {WithFault(f) : f \in {f \in SoundFiles : NeverPreallocated(f)}}
      \/ file = SmallFile
  BY DEF ParserInit, RichFile, RichTables, RichJournal
<1>2. Kind(file) /\ Faulty(file) /\ file.extents \in BOOLEAN
  <2>1. CASE file \in SoundFiles
    BY <2>1, SoundKinds
  <2>2. CASE file \in UNION {WithFault(f) : f \in {f \in SoundFiles : NeverPreallocated(f)}}
    <3>1. PICK f \in SoundFiles : file \in WithFault(f)
      BY <2>2
    <3> QED
      BY <3>1, FaultKinds
  <2>3. CASE file = SmallFile
    BY <2>3, SmallKinds
  <2> QED
    BY <1>1, <2>1, <2>2, <2>3
<1> QED
  BY <1>2, KindStored

-----------------------------------------------------------------------------
(* What the parser hands over.                                             *)

\* What a call may carry.
Carried(r) == RecoveredFrom(r) \/ Debris(r)

\* The file stays as it was stored, and every call carries what RecoverInodeData
\* makes of it, or what it makes of debris.
EachRecovered ==
    /\ Stored(file)
    /\ \A i \in DOMAIN recovered : Carried(recovered[i])

\* One more call of the kind may follow.
LEMMA CarriedStep ==
    ASSUME EachRecovered, recovered \in Seq(Results), file' = file,
           NEW call, Carried(call), recovered' = Append(recovered, call)
    PROVE  EachRecovered'
<1>4. recovered \in Seq(Results \cup {call})
  BY DEF Results
<1>5. /\ DOMAIN recovered = 1 .. Len(recovered) /\ DOMAIN recovered' = 1 .. Len(recovered) + 1
      /\ \A i \in DOMAIN recovered : recovered'[i] = recovered[i]
      /\ recovered'[Len(recovered) + 1] = call
  BY <1>4, AppendRange
<1>6. \A i \in DOMAIN recovered' : Carried(recovered'[i])
  <2> SUFFICES ASSUME NEW i \in DOMAIN recovered' PROVE Carried(recovered'[i])
    OBVIOUS
  <2>1. Len(recovered) \in Nat
    OBVIOUS
  <2>2. i \in DOMAIN recovered \/ i = Len(recovered) + 1
    BY <1>5, <2>1
  <2>3. CASE i \in DOMAIN recovered
    BY <1>5, <2>3 DEF EachRecovered
  <2>4. CASE i = Len(recovered) + 1
    BY <1>5, <2>4
  <2> QED
    BY <2>2, <2>3, <2>4
<1>7. Stored(file)'
  BY DEF EachRecovered
<1>8. \A i \in DOMAIN recovered' : Carried(recovered[i])'
  BY <1>6 DEF Carried, RecoveredFrom, Debris
<1> QED
  BY <1>7, <1>8 DEF EachRecovered

\* One more call carries what RecoverInodeData makes of the file.
LEMMA RecoveredStep ==
    ASSUME EachRecovered, recovered \in Seq(Results), file' = file,
           NEW from \in {"table", "journal"}, NEW number \in Nat,
           NEW state \in {"intact", "cleared", "wiped", "unrooted"}, Recovered(from, number, state)
    PROVE  EachRecovered'
<1> DEFINE call == [from |-> from, number |-> number, state |-> state,
                    marked |-> from = "table" /\ HasZeroedBlockData(file, state),
                    ok |-> RecoverInodeData(file, state).ok,
                    data |-> RecoverInodeData(file, state).data]
<1>1. recovered' = Append(recovered, call)
  BY Zenon DEF Recovered
<1>2. /\ call.from = from /\ call.number = number /\ call.state = state
      /\ call.ok = RecoverInodeData(file, state).ok /\ call.data = RecoverInodeData(file, state).data
      /\ call.marked = (from = "table" /\ HasZeroedBlockData(file, state))
  <2> DEFINE m == from = "table" /\ HasZeroedBlockData(file, state)
             o == RecoverInodeData(file, state).ok
             d == RecoverInodeData(file, state).data
  <2> HIDE DEF m, o, d
  <2> DEFINE x == [from |-> from, number |-> number, state |-> state, marked |-> m, ok |-> o, data |-> d]
  <2>1. x.from = from /\ x.number = number /\ x.state = state /\ x.ok = o /\ x.data = d
    OBVIOUS
  <2>2. x.marked = m
    BY Zenon
  <2> QED
    BY <2>1, <2>2, Zenon DEF m, o, d
<1> HIDE DEF call
<1>3. Carried(call)
  BY <1>2, Zenon DEF Carried, RecoveredFrom
<1> QED
  BY <1>1, <1>3, CarriedStep

\* The other steps hand nothing over.
LEMMA SameRecovered ==
    ASSUME EachRecovered, UNCHANGED <<file, recovered>>
    PROVE  EachRecovered'
<1>1. Stored(file)'
  BY DEF EachRecovered
<1>2. \A i \in DOMAIN recovered' : Carried(recovered[i])'
  BY DEF EachRecovered, Carried, RecoveredFrom, Debris
<1> QED
  BY <1>1, <1>2 DEF EachRecovered

\* At first nothing has been handed over.
LEMMA RecoveredInit == ParserInit => EachRecovered
<1> SUFFICES ASSUME ParserInit PROVE EachRecovered
  OBVIOUS
<1>1. recovered = <<>>
  BY DEF ParserInit
<1> QED
  BY <1>1, FileStored DEF EachRecovered

\* Every step hands over what RecoverInodeData makes of the file or of debris, or
\* nothing.
LEMMA RecoveredNext ==
    ASSUME Inductive, WalkInductive, EachRecovered, [ParserNext]_parserVars
    PROVE  EachRecovered'
<1>1. recovered \in Seq(Results) /\ group \in Nat /\ index \in 0 .. GroupInodes - 1
  BY DEF WalkInductive
<1>2. CASE ParseSuperblock \/ VisitOther \/ EndWalk \/ SearchJournal \/ UNCHANGED parserVars
  <2>1. UNCHANGED <<file, recovered>>
    BY <1>2 DEF ParseSuperblock, VisitOther, EndWalk, SearchJournal, parserVars, filesystem
  <2> QED
    BY <2>1, SameRecovered
<1>3. CASE VisitDeleted
  <2>1. /\ ReadInode(InodeNum) \in {"intact", "cleared", "wiped"} /\ Advance
        /\ Recovered("table", InodeNum, ReadInode(InodeNum)) /\ file' = file
    BY <1>3 DEF VisitDeleted, filesystem
  <2>2. InodeNum \in Nat
    BY <1>1, <2>1, AdvanceFacts
  <2>3. "table" \in {"table", "journal"}
    OBVIOUS
  <2> QED
    BY <1>1, <2>1, <2>2, <2>3, RecoveredStep
<1>4. CASE VisitDebris
  <2> DEFINE call == [from |-> "table", number |-> InodeNum, state |-> "debris",
                      marked |-> FALSE, ok |-> TRUE, data |-> BytesOf(Stranger)]
  <2>1. recovered' = Append(recovered, call) /\ Advance /\ file' = file
    BY <1>4 DEF VisitDebris, filesystem
  <2>2. InodeNum \in Nat
    BY <1>1, <2>1, AdvanceFacts
  <2>3. Carried(call)
    <3> DEFINE d == BytesOf(Stranger)
               n == InodeNum
               r == [from |-> "table", number |-> n, state |-> "debris",
                     marked |-> FALSE, ok |-> TRUE, data |-> d]
    <3> HIDE DEF d, n
    <3>1. /\ r.from = "table" /\ r.number = n /\ r.state = "debris"
          /\ r.ok = TRUE /\ r.marked = FALSE /\ r.data = d
      OBVIOUS
    <3> QED
      BY <2>2, <3>1, Zenon DEF Carried, Debris, d, n
  <2> HIDE DEF call
  <2> QED
    BY <1>1, <2>1, <2>3, CarriedStep
<1>5. CASE DeliverCopy
  <2> DEFINE copy == delivered'[Len(delivered')]
             number == copy.number
             state == journal[copy.record].blocks
  <2>1. Deliver /\ Recovered("journal", number, state) /\ file' = file
    BY <1>5 DEF DeliverCopy, filesystem
  <2>2. number \in Nat
    <3>1. delivered \in Seq(Calls)
      BY DEF Inductive, CalledOnce
    <3>2. delivered' \in Seq(Calls)
      <4>1. Inductive'
        BY <2>1, DeliverStep
      <4> QED
        BY <4>1 DEF Inductive, CalledOnce
    <3>3. Len(delivered') = Len(delivered) + 1 /\ Len(delivered) \in Nat
      BY <2>1, <3>1 DEF Deliver
    <3>4. delivered'[Len(delivered')] \in Calls
      BY <3>2, <3>3
    <3> QED
      BY <3>4 DEF Calls
  <2>3. "journal" \in {"table", "journal"}
    OBVIOUS
  <2>4. state \in {"intact", "cleared", "wiped", "unrooted"}
    <3>1. FoundAtPosition /\ Recorded /\ delivered \in Seq(Calls)
      BY DEF Inductive, CalledOnce
    <3>2. PICK k \in Undelivered : delivered' = Append(delivered, [number |-> k, record |-> found[k]])
      BY <2>1 DEF Deliver
    <3>3. k \in DOMAIN found
      BY <3>2 DEF Undelivered
    <3>4. copy = [number |-> k, record |-> found[k]]
      BY <3>1, <3>2
    <3>5. copy.record = k /\ k \in DOMAIN journal /\ Usable(k)
      BY <3>1, <3>3, <3>4 DEF FoundAtPosition
    <3>6. state = journal[k].blocks
      BY <3>5
    <3> QED
      BY <3>1, <3>5, <3>6 DEF Recorded, Usable, Areas
  <2> HIDE DEF number, state
  <2> QED
    BY <1>1, <2>1, <2>2, <2>3, <2>4, RecoveredStep
<1> QED
  BY <1>2, <1>3, <1>4, <1>5 DEF ParserNext

\* The journal's invariant, the walk's and that of what is handed over.
ParserInductive == Inductive /\ WalkInductive /\ EachRecovered

\* The three invariants together hold throughout.
LEMMA AlwaysInductive == ParserSpec => []ParserInductive
<1>1. ParserInit => ParserInductive
  BY ParserStart, WalkInit, RecoveredInit DEF ParserInductive
<1>2. ParserInductive /\ [ParserNext]_parserVars => ParserInductive'
  BY ParserStep, WalkNext, RecoveredNext DEF ParserInductive
<1> QED
  BY <1>1, <1>2, PTL DEF ParserSpec

\* A byte that is handed over is one of those that can be read.
LEMMA InductiveTyped == ParserInductive => ParserTypeOK
<1> SUFFICES ASSUME ParserInductive PROVE ParserTypeOK
  OBVIOUS
<1>1. Inductive /\ WalkInductive /\ EachRecovered
  BY DEF ParserInductive
<1>2. /\ pass \in {"superblock", "walk", "open", "records", "blocks", "deliver", "done", "failed"}
      /\ group \in Nat /\ index \in 0 .. GroupInodes - 1
  BY <1>1 DEF Inductive, Passes, WalkInductive
<1>3. ScanTypeOK
  <2>1. FoundAtPosition /\ CalledOnce /\ pos \in Nat
    BY <1>1 DEF Inductive, Passed
  <2> QED
    BY <2>1 DEF ScanTypeOK, FoundAtPosition, CalledOnce
<1>4. ASSUME NEW i \in DOMAIN recovered
      PROVE  /\ recovered[i].from \in {"table", "journal"}
             /\ recovered[i].number \in Nat
             /\ recovered[i].ok \in BOOLEAN /\ recovered[i].marked \in BOOLEAN
             /\ ~recovered[i].ok => recovered[i].data = <<>>
             /\ \A j \in DOMAIN recovered[i].data :
                    recovered[i].data[j] \in 0 .. Blocks * BlockSize - 1
  <2> DEFINE r == recovered[i]
  <2>1. Stored(file) /\ Carried(r)
    BY <1>1 DEF EachRecovered
  <2>2. r.from \in {"table", "journal"} /\ r.number \in Nat
    BY <2>1 DEF Carried, RecoveredFrom, Debris
  <2> HIDE DEF r
  <2>3. /\ r.ok \in BOOLEAN /\ r.data \in Seq(Bytes) /\ r.marked \in BOOLEAN
        /\ ~r.ok => r.data = <<>>
    <3>1. CASE RecoveredFrom(r)
      BY <2>1, <3>1, ResultFacts, Zenon
    <3>2. CASE Debris(r)
      BY <3>2, StrangeBytes, Zenon DEF Debris
    <3> QED
      BY <2>1, <3>1, <3>2, Zenon DEF Carried
  <2>4. \A j \in DOMAIN r.data : r.data[j] \in 0 .. Blocks * BlockSize - 1
    <3>1. r.data \in Seq(Bytes)
      BY <2>3
    <3>2. \A j \in DOMAIN r.data : r.data[j] \in Bytes
      BY <3>1
    <3> QED
      BY <3>2 DEF Bytes
  <2> QED
    BY <2>2, <2>3, <2>4, Zenon DEF r
<1> QED
  BY <1>2, <1>3, <1>4, Zenon DEF ParserTypeOK

\* Whatever stands on the disk: the parser's state has its type, what fails comes
\* without data, and no byte is from beyond what can be read of the device.
THEOREM ParserTyped == ParserSpec => []ParserTypeOK
BY AlwaysInductive, InductiveTyped, PTL

\* Whatever the plan of a file and the height of its tree or the levels of its
\* pointers: without holes and faults and written to its end, it is put together
\* byte for byte.
THEOREM ParserRecoversFile == ParserSpec => []FileRecovered
<1>1. ParserInductive => FileRecovered
  <2> SUFFICES ASSUME ParserInductive, NEW r \in Results, r.state = "intact", NoHoles, WrittenToTheEnd,
                      file.bad = 0, file.damage = "none"
               PROVE  r.ok /\ r.data = SubSeq(Content, 1, file.size)
    BY Zenon DEF FileRecovered
  <2>1. Stored(file) /\ Carried(r)
    BY DEF ParserInductive, EachRecovered, Results
  <2>2. RecoveredFrom(r)
    BY <2>1 DEF Carried, Debris
  <2> QED
    BY <2>1, <2>2, WholeResult
<1> QED
  BY <1>1, AlwaysInductive, PTL

\* Whatever is missing or damaged of a file: what comes is its own, in its order.
THEOREM ParserKeepsOrder == ParserSpec => []NothingForeign
<1>1. ParserInductive => NothingForeign
  <2> SUFFICES ASSUME ParserInductive, NeverPreallocated(file), NoStrayPointers, NEW r \in Results,
                      r.state # "debris"
               PROVE  InOrderOf(r.data, Content)
    BY DEF NothingForeign
  <2>1. Stored(file) /\ Carried(r)
    BY DEF ParserInductive, EachRecovered, Results
  <2>2. RecoveredFrom(r)
    BY <2>1 DEF Carried, Debris
  <2> QED
    BY <2>1, <2>2, OwnResult
<1> QED
  BY <1>1, AlwaysInductive, PTL

\* A file with its root is given up for a damaged block of its tree only, and loses
\* to a bad block of data no more than that costs.
THEOREM ParserLosesForCause == ParserSpec => []LostForCause
<1>1. ParserInductive => LostForCause
  <2> SUFFICES ASSUME ParserInductive, NeverPreallocated(file), NoStrayPointers, NEW r \in Results
               PROVE  /\ r.state = "intact" /\ ~r.ok => file.damage # "none"
                      /\ r.state = "intact" /\ r.ok =>
                             Range(SubSeq(Content, 1, Least(Len(Content), file.size))) \subseteq Range(r.data) \cup
                                 (IF file.bad = 0 THEN {} ELSE BadBytes)
                      /\ r.from = "table" /\ ~r.marked /\ r.data = <<>> =>
                             file.bad # 0 \/ file.damage # "none"
    BY DEF LostForCause
  <2>1. Stored(file) /\ Carried(r)
    BY DEF ParserInductive, EachRecovered, Results
  <2>2. CASE RecoveredFrom(r)
    <3>1. r.state = "intact" /\ ~r.ok => file.damage # "none"
      BY <2>1, <2>2, ResultFacts, Zenon
    <3> QED
      BY <2>1, <2>2, <3>1, ShortResult, EmptyResult
  <2>3. CASE Debris(r)
    <3>1. r.state # "intact" /\ r.data # <<>>
      BY <2>3, StrangeBytes DEF Debris
    <3> QED
      BY <3>1
  <2> QED
    BY <2>1, <2>2, <2>3, Zenon DEF Carried
<1> QED
  BY <1>1, AlwaysInductive, PTL
=============================================================================
