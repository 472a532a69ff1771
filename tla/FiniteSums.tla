------------------------------ MODULE FiniteSums ------------------------------
(***************************************************************************)
(* The sum of a function's values over a finite set, as the number of      *)
(* units the values consist of.  A cardinality needs no recursion, so that *)
(* what sums do when an element is added or a value changes follows from   *)
(* the theorems about finite sets.                                         *)
(***************************************************************************)
EXTENDS Naturals, FiniteSets

(* f[x] units for each x of S, every one named after its x. *)
Units(f, S) == UNION {{x} \X (1 .. f[x]) : x \in S}

Total(f, S) == Cardinality(Units(f, S))
=============================================================================
