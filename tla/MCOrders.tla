------------------------------- MODULE MCOrders -------------------------------
(* Constants of the TLC instance of Orders on its own. *)
EXTENDS Orders, TLC

CONSTANTS x, o1, r1, r2, v1

\* One piece of the variant, the same twice, one piece without a variant.
Piece   == [p |-> x, c |-> v1, n |-> 1]
Baskets1 == {<<Piece>>, <<Piece, Piece>>, <<[Piece EXCEPT !.c = Total]>>}
=============================================================================
