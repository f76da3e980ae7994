----------------------------- MODULE Ext4Journal -----------------------------
(***************************************************************************)
(* ScanJournalForInodes: the journal's data is gone through twice, at every *)
(* inode-sized record and then block by block; what looks like a deleted   *)
(* inode with its blocks is kept under a number made from its position,    *)
(* and delivered in the order of a Go map.                                 *)
(***************************************************************************)
EXTENDS Integers, Sequences, FiniteSets

CONSTANTS
    MaxRecords,           \* bound on the inode-sized records of the journal
    PerBlock,             \* records of a block: blockSize / inodeSize
    MaxTime,              \* bound on deletion times
    Inodes                \* inodes now deleted, of which the journal holds copies

ASSUME JournalAssumption ==
    /\ {MaxRecords, MaxTime} \subseteq Nat
    /\ PerBlock \in Nat \ {0}
    /\ Inodes \subseteq Nat \ {0}

VARIABLES
    journal,              \* record -> what stands there
    pass,                 \* "open", "records", "blocks", "deliver", "done", "failed"
    pos,                  \* record looked at next
    found,                \* synthetic number -> record
    delivered             \* what was handed to the callback, in call order

vars == <<journal, pass, pos, found, delivered>>

\* What a copy of an inode says of its blocks: where they are; no more than the
\* magic of a root without entries; words that, with the inode's flags, make no
\* root; or nothing.
Areas == {"intact", "cleared", "unrooted", "none"}

\* A copy of an inode from before or after its deletion; other is whatever else
\* a record may be.
Copy == [inode : Inodes, deletionTime : 0 .. MaxTime, blocks : Areas]

Other == [inode |-> 0, deletionTime |-> 0, blocks |-> "none"]

\* The journal's superblock stands in the first record.
JournalContent ==
    /\ \E n \in 0 .. MaxRecords : journal \in [0 .. n - 1 -> Copy \cup {Other}]
    /\ 0 \in DOMAIN journal => journal[0] = Other

NothingFound == pos = 0 /\ found = <<>> /\ delivered = <<>>

Init == JournalContent /\ pass = "open" /\ NothingFound

\* The journal's inode, its data or its superblock may not be there.
Open ==
    /\ pass = "open"
    /\ \/ DOMAIN journal # {} /\ pass' = "records"
       \/ pass' = "failed"
    /\ UNCHANGED <<journal, pos, found, delivered>>

\* A deleted regular file with the extent magic or a word other than zero.
Usable(r) == journal[r].deletionTime # 0 /\ journal[r].blocks # "none"

\* Mutant: in a block, records are numbered by their slot.
SlotNumber(r) == IF pass = "blocks" THEN r % PerBlock ELSE r

SyntheticNum(r) == r

\* The most recent deletion wins.
Wins(r) ==
    \/ SyntheticNum(r) \notin DOMAIN found
    \/ journal[r].deletionTime > journal[found[SyntheticNum(r)]].deletionTime

Keep(r) ==
    found' = IF Usable(r) /\ Wins(r)
             THEN [k \in DOMAIN found \cup {SyntheticNum(r)} |->
                      IF k = SyntheticNum(r) THEN r ELSE found[k]]
             ELSE found

Look ==
    /\ pass \in {"records", "blocks"}
    /\ pos \in DOMAIN journal
    /\ Keep(pos)
    /\ pos' = pos + 1
    /\ UNCHANGED <<journal, pass, delivered>>

\* The second pass begins at the second block.
EndRecords ==
    /\ pass = "records"
    /\ pos \notin DOMAIN journal
    /\ pass' = "blocks"
    /\ pos' = PerBlock
    /\ UNCHANGED <<journal, found, delivered>>

EndBlocks ==
    /\ pass = "blocks"
    /\ pos \notin DOMAIN journal
    /\ pass' = "deliver"
    /\ UNCHANGED <<journal, pos, found, delivered>>

Undelivered == {k \in DOMAIN found : \A i \in DOMAIN delivered : delivered[i].number # k}

Deliver ==
    /\ pass = "deliver"
    /\ \E k \in Undelivered :
              delivered' = Append(delivered, [number |-> k, record |-> found[k]])
    /\ UNCHANGED <<journal, pass, pos, found>>

EndDelivery ==
    /\ pass = "deliver"
    /\ Undelivered = {}
    /\ pass' = "done"
    /\ UNCHANGED <<journal, pos, found, delivered>>

Next == Open \/ Look \/ EndRecords \/ EndBlocks \/ Deliver \/ EndDelivery

Spec == Init /\ [][Next]_vars

-----------------------------------------------------------------------------
ScanTypeOK ==
    /\ pos \in Nat
    /\ DOMAIN found \subseteq DOMAIN journal
    /\ \A k \in DOMAIN found : found[k] \in DOMAIN journal
    /\ \A i \in DOMAIN delivered :
           delivered[i].number \in DOMAIN found /\ delivered[i].record \in DOMAIN journal

TypeOK ==
    /\ pass \in {"open", "records", "blocks", "deliver", "done", "failed"}
    /\ ScanTypeOK

\* Of the two passes, which look at most records twice, neither undoes what the
\* other found: a record of a deleted file whose block area is not all zeros is
\* delivered, once, whether or not its blocks can be told from it, and nothing else.
UsableDeliveredOnce ==
    pass = "done" =>
        \A r \in DOMAIN journal :
            Cardinality({i \in DOMAIN delivered : delivered[i].record = r}) =
                IF journal[r].deletionTime # 0 /\ journal[r].blocks # "none" THEN 1 ELSE 0

-----------------------------------------------------------------------------
(* What the comments say.                                                  *)

Delivers(inode) == \E i \in DOMAIN delivered : journal[delivered[i].record].inode = inode

\* ext4.go:366-369: the copies from before the deletion are what the journal
\* is searched for.
PreDeletionCopiesUsed ==
    pass = "done" =>
        \A r \in DOMAIN journal : journal[r].blocks = "intact" => Delivers(journal[r].inode)
=============================================================================
