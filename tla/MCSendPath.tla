----------------------------- MODULE MCSendPath -----------------------------
(* Small instances of SendPath for TLC.                                    *)
EXTENDS SendPath, TLC

CONSTANTS s1, s2, i1, i2, i3

\* Sizes 1 and 2: a two-byte item can be written in two parts.
MCSize == [i \in Items |-> IF i = i3 THEN 1 ELSE 2]
MCCloseAfter == {i3}

Symmetry == Permutations(Sessions)
=============================================================================
