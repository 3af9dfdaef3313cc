---------------------------- MODULE MCUserAdmin ----------------------------
(* Small instances of UserAdmin for TLC. *)
EXTENDS UserAdmin, TLC

\* Slots are alike, and so are the administrators of the start and the users
\* that are created later, who all have export jobs.
Alike == Permutations(Slots) \cup Permutations(Seeded) \cup Permutations(Requesters)
=============================================================================
