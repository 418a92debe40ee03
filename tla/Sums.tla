--------------------------------- MODULE Sums ---------------------------------
(***************************************************************************)
(* Finite sums of naturals, defined through Cardinality so that theorems   *)
(* about them can be proved from the theorems about finite sets.           *)
(***************************************************************************)
EXTENDS Integers, FiniteSets

(* f[x] units for every x in S, all distinct.                              *)
Units(S, f) == UNION {{x} \X (1..f[x]) : x \in S}

(* The sum of f[x] over x in S.                                            *)
Total(S, f) == Cardinality(Units(S, f))
=============================================================================
