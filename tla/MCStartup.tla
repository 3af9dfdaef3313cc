------------------------------ MODULE MCStartup ------------------------------
(* An old server with two migrations beside two of the next release with three. *)
EXTENDS Startup

CONSTANTS old, new1, new2

MCKnown == [p \in Servers |-> IF p = old THEN 2 ELSE 3]
=============================================================================
