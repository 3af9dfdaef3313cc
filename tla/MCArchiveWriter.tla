-------------------------- MODULE MCArchiveWriter --------------------------
(* Small instances of ArchiveWriter (and its refinement) for TLC. *)
EXTENDS ArchiveRefinement

CONSTANTS r1, r2, r3, k1, k2

\* All three records in one partition: batches of one partition overtake each
\* other, overflow happens.
OnePartition == [r \in {r1, r2, r3} |-> k1]

\* Two records share a partition, the third has its own: Flush collects several
\* keys and works on one while the other one changes.
TwoPartitions == [r \in {r1, r2, r3} |-> IF r = r3 THEN k2 ELSE k1]
=============================================================================
