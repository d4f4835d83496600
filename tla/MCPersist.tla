------------------------------ MODULE MCPersist ------------------------------
(***************************************************************************)
(* Persist for TLC: two names, one of which a new filesystem has, and      *)
(* contents of one size, as a rewrite that keeps the size has.             *)
(***************************************************************************)
EXTENDS Persist

CONSTANTS a, b, x

OneSize == [d \in Contents |-> IF d = Dir THEN 2 ELSE 1]

SeedOne == [p \in Paths |-> IF p = a THEN x ELSE None]
=============================================================================
