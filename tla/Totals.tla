-------------------------------- MODULE Totals --------------------------------
(***************************************************************************)
(* The sum of the natural numbers that a function holds, by counting: the  *)
(* number n that x contributes is n units of its own.  Counted like this a *)
(* sum needs no recursion, and what the library proves about cardinalities *)
(* says how it grows.                                                      *)
(***************************************************************************)
EXTENDS Integers, FiniteSets

Units(f) == UNION {{x} \X (1 .. f[x]) : x \in DOMAIN f}

Total(f) == Cardinality(Units(f))
=============================================================================
