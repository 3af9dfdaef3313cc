------------------------- MODULE ArchiveRefinement -------------------------
(* The archive buffer implements the archive log. *)
EXTENDS ArchiveWriter

\* A row counts as durable once a write of it was confirmed.  After a write that
\* took effect but reported an error the row is still pending: the writer keeps
\* it, and may even drop it.
FateOf(r) ==
  CASE stored[r] > unsure[r] -> "durable"
    [] stored[r] <= unsure[r] /\ r \in dropped -> "dropped"
    [] stored[r] <= unsure[r] /\ r \notin dropped /\ r \in Range(arrived) -> "pending"
    [] OTHER -> "new"

Log == INSTANCE ArchiveLog WITH
         Capacity <- MaxRows,
         fate     <- [r \in Records |-> FateOf(r)],
         halted   <- ~Alive

\* The whole promise: also, as long as the server runs, every appended row is
\* archived or dropped eventually, because the ticker flushes what the row
\* threshold leaves behind and what failed writes put back.
ImplementsLog == Log!Spec
=============================================================================
