-------------------------- MODULE MCArchiveQuery --------------------------
(* A small instance of ArchiveQuery for TLC. *)
EXTENDS ArchiveQuery

CONSTANTS o1, o2, d1, dot, f1, f2, f3, f4

\* d1 belonged to o2 before it was deleted there and registered by o1.
OwnerNow == [d \in {d1, dot} |-> o1]

Forms == [d \in {d1, dot} |-> IF d = d1 THEN "plain" ELSE "dot"]

AnyOrD1 == {{}, {d1}}

\* Two hours of d1, the first of them also from the days of o2; rows at the
\* edges of the hours and off the microsecond.
Archive == [f \in {f1, f2, f3, f4} |->
  CASE f = f1 -> [org |-> o1, device |-> d1,   hour |-> 0, rows |-> {1, 3}]
    [] f = f2 -> [org |-> o1, device |-> d1,   hour |-> 1, rows |-> {4, 6}]
    [] f = f3 -> [org |-> o2, device |-> d1,   hour |-> 0, rows |-> {2}]
    [] f = f4 -> [org |-> o1, device |-> dot,  hour |-> 0, rows |-> {2}]]
=============================================================================
