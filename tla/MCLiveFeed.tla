---------------------------- MODULE MCLiveFeed -----------------------------
(* Small instances of LiveFeed for TLC: two organizations, the devices in the *)
(* first one.                                                                *)
EXTENDS LiveFeed

CONSTANTS d1, d2, m1, m2, m3, c1, c2, orgA, orgB

DevicesOfA == [d \in Devices |-> orgA]
AllOfD1 == [m \in Msgs |-> d1]
LastOfD2 == [m \in Msgs |-> IF m = m3 THEN d2 ELSE d1]
=============================================================================
