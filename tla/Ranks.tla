-------------------------------- MODULE Ranks --------------------------------
(***************************************************************************)
(* Finite sets of naturals in their order: what a list comprehension with a *)
(* condition keeps of a list, by the places it keeps, and what sorted()     *)
(* makes of a set.                                                         *)
(***************************************************************************)
EXTENDS Naturals, FiniteSets

\* The members of S below i, and the k-th of S.
Below(S, i) == {j \in S : j < i}
Nth(S, k)   == CHOOSE i \in S : Cardinality(Below(S, i)) = k - 1

\* The members of S, smallest first.
Ranked(S) == [k \in 1 .. Cardinality(S) |-> Nth(S, k)]

\* What stands in s at the places S, in the order of s.
AtPlaces(s, S) == [k \in 1 .. Cardinality(S) |-> s[Nth(S, k)]]
=============================================================================
