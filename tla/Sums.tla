-------------------------------- MODULE Sums --------------------------------
(***************************************************************************)
(* The sum of f[x] over the elements x of a finite set, where no f[x] is   *)
(* above max: the number of pairs of an element and a unit it contributes. *)
(* Counting needs no recursion, so what the sums of the counters and       *)
(* budgets do can be proved.                                               *)
(***************************************************************************)
EXTENDS Integers, FiniteSets

Units(f, S, max) == {p \in S \X (1 .. max) : p[2] <= f[p[1]]}

SumOf(f, S, max) == Cardinality(Units(f, S, max))
=============================================================================
