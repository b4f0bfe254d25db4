------------------------------ MODULE MCTrading -----------------------------
(* Three orders on the terms below, in every combination. *)
EXTENDS Trading

Term(q, p, r) == [qty |-> q, price |-> p, reduce_only |-> r]
MixedTerms ==
  {Term(1000, 1, FALSE), Term(1000, 2, FALSE), Term(-1000, 2, FALSE), Term(-900, 2, FALSE),
   Term(-2000, 1, FALSE), Term(1000, 2, TRUE), Term(-3000, 0, TRUE)}
MixedFills == {1, 2, -1}
Symmetry == Permutations(Orders)
=============================================================================
