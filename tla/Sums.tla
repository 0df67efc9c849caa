--------------------------------- MODULE Sums ---------------------------------
(* Sums, and sets in an order. *)
EXTENDS Integers, FiniteSetsExt

\* The sum of a function over its domain.
Total(f) == MapThenSumSet(LAMBDA x : f[x], DOMAIN f)

\* S in the order in which upTo[x] is what comes before x, and x.
Arranged(S, upTo) ==
    [n \in 1..Cardinality(S) |-> CHOOSE x \in S : Cardinality(upTo[x]) = n]
=============================================================================
