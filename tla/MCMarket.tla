-------------------------------- MODULE MCMarket --------------------------------
(* Constants of the TLC instances of Market, and its four scenes: the store sells  *)
(* while it is managed, two orders move through their stages and requests break    *)
(* off, the product is deleted meanwhile, a buyer fills a cart and orders.         *)
EXTENDS Market, TLC

CONSTANTS s1, s2, x, y, z, o1, o2, r1, r2, d1, d2, v1, Base

\* x and y are sold by one store, z by another.
HomeOf == [p \in {x, y, z} |-> IF p = z THEN s2 ELSE s1]

\* One piece of the variant, or two, or two pieces without a variant.
Piece    == [p |-> x, c |-> v1, n |-> 1]
Twice    == <<Piece, Piece>>
Thrice   == <<Piece, [Piece EXCEPT !.n = 2]>>
Baskets1 == {Twice, Thrice, <<[Piece EXCEPT !.c = Total, !.n = 2]>>}

\* The owner changes the variant and restocks it or sends its stock as loaded, sets the
\* total alone, or republishes.
Edits1 == {[NoEdit EXCEPT !.variants = [v \in Variants |-> 2], !.other = TRUE],
           [NoEdit EXCEPT !.stock = 0], [NoEdit EXCEPT !.st = "active"]}

VARIABLE scene

Moving == INSTANCE Orders WITH
  Baskets <- {Twice}, Enabled <- {"order", "status", "crash"}

Withdrawing == INSTANCE Orders WITH
  Baskets <- {<<[Piece EXCEPT !.n = 2]>>}, Enabled <- {"order", "status", "delete"}

Shopping == INSTANCE Market WITH Baskets <- {Twice}, Enabled <- {"order"}

MCVars == <<vars, cartVars, scene>>
MCInit == MarketInit /\ scene \in {"selling", "moving", "withdrawing", "shopping"}
MCNext ==
  /\ UNCHANGED scene
  /\ \/ scene = "selling" /\ Next /\ UNCHANGED cartVars
     \/ scene = "moving" /\ Moving!Next /\ UNCHANGED cartVars
     \/ scene = "withdrawing" /\ Withdrawing!Next /\ UNCHANGED cartVars
     \/ scene = "shopping" /\ Shopping!MarketNext
MCSpec == MCInit /\ [][MCNext]_MCVars

Interchangeable ==
  Permutations(OrderIds) \cup Permutations(Procs) \cup Permutations(Devices)
=============================================================================
