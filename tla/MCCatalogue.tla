---------------------------- MODULE MCCatalogue ----------------------------
(* Two organizations; the first has a location with a sub-location and a device. *)
EXTENDS Catalogue, TLC

CONSTANTS o1, o2, l1, l2, s1, s2, d1, d2, i1, n1, n2

MCSeedLocs == (l1 :> [org |-> o1]) @@ (l2 :> None)
MCSeedSubs == (s1 :> [org |-> o1, loc |-> l1]) @@ (s2 :> None)
MCSeedDevices ==
  (d1 :> [org |-> o1, ident |-> i1, name |-> n1, status |-> "active", sub |-> s1]) @@ (d2 :> None)
\* A full form, one that unassigns, a move, and a change of name and status.
MCBodies ==
  {[name |-> n2, status |-> "inactive", sub |-> s1],
   [name |-> n2, status |-> "active", sub |-> "clear"],
   [name |-> None, status |-> None, sub |-> s2],
   [name |-> n2, status |-> "inactive", sub |-> None]}
=============================================================================
