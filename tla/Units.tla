------------------------------- MODULE Units -------------------------------
(***************************************************************************)
(* The sum of the values of a function with a finite domain, as a number   *)
(* of unit permits or units of volume: the pairs below the function's      *)
(* graph are counted.  Unlike those of a fold, the laws of this sum follow *)
(* from the theorems on finite cardinality.                                *)
(***************************************************************************)
EXTENDS Naturals, FiniteSets

\* One pair for every unit of every value of f, none of which exceeds bound.
Units(f, bound) == {p \in (DOMAIN f) \X (1..bound) : p[2] <= f[p[1]]}

\* The sum of the values of f.
Total(f, bound) == Cardinality(Units(f, bound))
=============================================================================
