-------------------------------- MODULE Totals --------------------------------
(***************************************************************************)
(* The sum of a function of natural numbers over a finite set, counted     *)
(* unit by unit.  It is what a fold with + computes; written without       *)
(* recursion, it is amenable to proof.                                     *)
(***************************************************************************)
EXTENDS Integers, FiniteSets

\* Every x of S, once for each of its f[x] units.
Units(f, S) == UNION {{x} \X (1 .. f[x]) : x \in S}

Total(f, S) == Cardinality(Units(f, S))
=============================================================================
