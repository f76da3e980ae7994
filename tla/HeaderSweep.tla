----------------------------- MODULE HeaderSweep -----------------------------
(***************************************************************************)
(* What a signature scan promises its caller, whatever the block size and  *)
(* however the bytes arrive: the headers on the disk are handed to         *)
(* extractFile one at a time, each of them once, lowest offset first, until *)
(* either all of them were handed over or the device failed.  BlockScan    *)
(* shows that the block loop keeps this promise and Carver is written on   *)
(* top of it.                                                              *)
(***************************************************************************)
EXTENDS Integers, Sequences, Functions

CONSTANT Positions        \* byte offsets of the disk

ASSUME PositionsAssumption == Positions \subseteq Nat

VARIABLES
    headers,              \* offsets at which a signature's header stands
    found,                \* headers handed to extractFile, in call order
    status                \* "running", "done" or "failed"

sweepVars == <<headers, found, status>>

Pending == headers \ Range(found)

SweepInit ==
    /\ headers \in SUBSET Positions
    /\ found = <<>>
    /\ status = "running"

\* The lowest header not handed over yet.
IsNext(h) == h \in Pending /\ \A g \in Pending : h <= g

VisitHeader(h) ==
    /\ status = "running"
    /\ IsNext(h)
    /\ found' = Append(found, h)
    /\ UNCHANGED <<headers, status>>

Visit == \E h \in headers : VisitHeader(h)

Finish ==
    /\ status = "running"
    /\ Pending = {}
    /\ status' = "done"
    /\ UNCHANGED <<headers, found>>

Fail ==
    /\ status = "running"
    /\ status' = "failed"
    /\ UNCHANGED <<headers, found>>

SweepNext == Visit \/ Finish \/ Fail

SweepSpec == SweepInit /\ [][SweepNext]_sweepVars
=============================================================================
