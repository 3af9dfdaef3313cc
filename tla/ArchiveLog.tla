---------------------------- MODULE ArchiveLog -----------------------------
(***************************************************************************)
(* What the telemetry archive promises for every record it accepts: a      *)
(* record is pending until it is durable or was dropped, and both are      *)
(* final; records become durable in batches of one partition, atomically,  *)
(* because one batch is one immutable object (src/internal/archive);       *)
(* records are dropped only when a new one is accepted while the partition *)
(* holds Capacity others.  A halted server settles nothing any more.       *)
(***************************************************************************)
EXTENDS Integers, FiniteSets

CONSTANTS
  Records,
  Parts,
  PartOf,
  Capacity   \* rows that a partition keeps in any case (maxRows)

VARIABLES
  fate,      \* fate[r]: "new", "pending", "durable" or "dropped"
  halted     \* the server has stopped

vars == <<fate, halted>>

Pending(k) == {r \in Records : PartOf[r] = k /\ fate[r] = "pending"}

Settle(S, f) == [r \in Records |-> IF r \in S THEN f ELSE fate[r]]

Init == fate = [r \in Records |-> "new"] /\ halted = FALSE

\* A record is accepted.  The partition may overflow then, but only if
\* Capacity records remain pending in it.
Accept(r) ==
  /\ ~halted
  /\ fate[r] = "new"
  /\ \E D \in SUBSET Pending(PartOf[r]) :
       /\ D # {} => Cardinality(Pending(PartOf[r]) \ D) + 1 >= Capacity
       /\ fate' = [Settle(D, "dropped") EXCEPT ![r] = "pending"]
  /\ UNCHANGED halted

\* One object becomes durable, with all of its rows.
Archive(k) ==
  /\ ~halted
  /\ \E S \in SUBSET Pending(k) : S # {} /\ fate' = Settle(S, "durable")
  /\ UNCHANGED halted

Halt == ~halted /\ halted' = TRUE /\ UNCHANGED fate

Next ==
  \/ \E r \in Records : Accept(r)
  \/ \E k \in Parts : Archive(k)
  \/ Halt

\* While the server runs, no record stays pending for ever.
Settles == \A r \in Records : fate[r] = "pending" ~> (fate[r] # "pending" \/ halted)

Spec == Init /\ [][Next]_vars /\ Settles
=============================================================================
