--------------------------------- MODULE Carts ---------------------------------
(***************************************************************************)
(* MarketplaceSystem: the cart of one user, the handlers of cart.service   *)
(* and the $pull of createOrder.                                           *)
(*                                                                         *)
(* A handler loads the cart, changes its copy and saves it.  Mongoose      *)
(* sends what changed: a pushed item as $push (which raises __v without    *)
(* looking at it), a spliced or replaced array whole (if __v is still the  *)
(* one loaded), a quantity in place, by its index (if __v is still the one *)
(* loaded, which stays).  createOrder's findOneAndUpdate does not touch    *)
(* __v.  The stock a handler reads is any: Orders models it.               *)
(***************************************************************************)
EXTENDS Integers, Sequences, SequencesExt, Selections

CONSTANTS
  Stores, Products, Home,   \* the store of every product
  Variants,                 \* variant indices, Base for none
  Procs,                    \* requests that may be in flight together
  None,                     \* no product
  MaxQuantity,              \* bound: quantities of the requests and stocks
  MaxVersion,               \* bound: requests start below this version
  MaxItems                  \* bound: requests that add start below this length

Quantities == 1..MaxQuantity

\* An element of cart.items.  One without a product is what an in-place write
\* beyond the end of the array leaves there.
AnyVariant == CHOOSE c \in Variants : TRUE
Hole(n) == [p |-> None, c |-> AnyVariant, n |-> n]
Item == [p : Products \cup {None}, c : Variants, n : Nat]

Cart   == [exists : BOOLEAN, v : Nat, items : Seq(Item)]
NoCart == [exists |-> FALSE, v |-> 0, items |-> <<>>]

\* What save() sends.
Write == [how : {"none", "push", "set", "whole"}, i : Nat, items : Seq(Item)]
NoWrite == [how |-> "none", i |-> 0, items |-> <<>>]

VARIABLES
  cart,     \* the cart document
  op        \* per slot, the request in flight

vars == <<cart, op>>

Kinds == {"get", "add", "update", "remove", "clear"}
Steps == {"idle", "readCart", "createCart", "readStock", "save"}

Operation ==
  [kind : Kinds \cup {"none"}, at : Steps,
   p : Products \cup {None}, c : Variants, n : Nat,  \* product, variant, quantity
   stock : Nat,         \* the stock read
   v : Nat,             \* __v of the copy
   write : Write]       \* the change of the copy

Idle == [kind |-> "none", at |-> "idle", p |-> None, c |-> AnyVariant,
         n |-> 0, stock |-> 0, v |-> 0, write |-> NoWrite]

Init == cart = NoCart /\ op = [r \in Procs |-> Idle]

-----------------------------------------------------------------------------
Become(r, o) == op' = [op EXCEPT ![r] = o]

Free(r) == op[r].at = "idle"

\* Bound: requests that may raise the version.
BelowBound == cart.v < MaxVersion /\ Len(cart.items) < MaxItems

Is(item, o) == item.p = o.p /\ item.c = o.c

\* findIndex, 0 for -1; FindFails: it meets an element without a product first
\* and throws.
Find(items, o) == SelectInSeq(items, LAMBDA item : Is(item, o))
FindFails(items, o) ==
  LET hole == SelectInSeq(items, LAMBDA item : item.p = None) IN
  hole # 0 /\ (Find(items, o) = 0 \/ hole < Find(items, o))

\* The copy d has been changed as w says: it is saved, unless nothing changed.
Save(o, d, w) ==
  IF w.how = "none" THEN Idle
  ELSE [o EXCEPT !.at = "save", !.v = d.v, !.write = w]

\* An element's quantity set to n.
SetQuantity(d, i, n) ==
  IF d.items[i].n = n THEN NoWrite
  ELSE [how |-> "set", i |-> i, items |-> <<[d.items[i] EXCEPT !.n = n]>>]

\* The array replaced.
Replace(d, items) ==
  IF items = d.items THEN NoWrite ELSE [how |-> "whole", i |-> 0, items |-> items]

\* addToCart on the copy d: errors end the request.
Add(o, d) ==
  LET i == Find(d.items, o) IN
  IF FindFails(d.items, o) THEN Idle
  ELSE IF i # 0 THEN
    IF d.items[i].n + o.n > o.stock THEN Idle
    ELSE Save(o, d, SetQuantity(d, i, d.items[i].n + o.n))
  ELSE IF o.n > o.stock THEN Idle
  ELSE Save(o, d, [how |-> "push", i |-> 0,
                   items |-> <<[p |-> o.p, c |-> o.c, n |-> o.n]>>])

-----------------------------------------------------------------------------
GetCart(r) ==
  /\ Free(r)
  /\ Become(r, [Idle EXCEPT !.kind = "get", !.at = "readCart"])
  /\ UNCHANGED cart

\* addToCart has found the product, with this stock.
AddToCart(r, p, c, n, stock) ==
  /\ Free(r) /\ BelowBound
  /\ Become(r, [Idle EXCEPT !.kind = "add", !.at = "readCart", !.p = p, !.c = c,
                            !.n = n, !.stock = stock])
  /\ UNCHANGED cart

ReadCart(r) ==
  LET o == op[r] IN
  /\ o.at = "readCart"
  /\ Become(r, IF ~cart.exists THEN [o EXCEPT !.at = "createCart"]
               ELSE IF o.kind = "add" THEN Add(o, cart) ELSE Idle)
  /\ UNCHANGED cart

\* userId is unique: creating a second cart throws.
CreateCart(r) ==
  LET o == op[r] IN
  /\ o.at = "createCart"
  /\ \/ /\ ~cart.exists
        /\ cart' = [NoCart EXCEPT !.exists = TRUE]
        /\ Become(r, IF o.kind = "add" THEN Add(o, NoCart) ELSE Idle)
     \/ /\ cart.exists
        /\ Become(r, Idle)
        /\ UNCHANGED cart

Removes(n) == n = 0

\* updateCartItem: 0 removes the item, the stock is read for any other quantity.
UpdateCartItem(r, p, c, n) ==
  LET o == [Idle EXCEPT !.kind = "update", !.p = p, !.c = c, !.n = n]
      i == Find(cart.items, o)
  IN
  /\ Free(r) /\ BelowBound
  /\ cart.exists /\ ~FindFails(cart.items, o) /\ i # 0
  /\ Become(r, IF Removes(n) THEN Save(o, cart, Replace(cart, RemoveAt(cart.items, i)))
               ELSE [o EXCEPT !.at = "readStock", !.v = cart.v,
                              !.write = SetQuantity(cart, i, n)])
  /\ UNCHANGED cart

ReadStock(r) ==
  LET o == op[r] IN
  /\ o.at = "readStock"
  /\ \E stock \in 0..MaxQuantity :
       Become(r, IF o.n > stock \/ o.write.how = "none" THEN Idle
                 ELSE [o EXCEPT !.at = "save"])
  /\ UNCHANGED cart

\* removeFromCart: the filter looks at every element.
RemoveFromCart(r, p, c) ==
  LET o == [Idle EXCEPT !.kind = "remove", !.p = p, !.c = c]
      others == {i \in DOMAIN cart.items : ~Is(cart.items[i], o)}
  IN
  /\ Free(r) /\ BelowBound
  /\ cart.exists /\ \A i \in DOMAIN cart.items : cart.items[i].p # None
  /\ Become(r, Save(o, cart, Replace(cart, Kept(cart.items, others))))
  /\ UNCHANGED cart

ClearCart(r) ==
  LET o == [Idle EXCEPT !.kind = "clear"] IN
  /\ Free(r)
  /\ cart.exists
  /\ Become(r, Save(o, cart, Replace(cart, <<>>)))
  /\ UNCHANGED cart

\* $set: { 'items.<i>.quantity': n }; an array that is too short is filled up.
InPlace(items, i, item) ==
  [j \in 1..(IF i > Len(items) THEN i ELSE Len(items)) |->
     IF j = i THEN IF j > Len(items) THEN Hole(item.n) ELSE [items[j] EXCEPT !.n = item.n]
     ELSE IF j > Len(items) THEN Hole(0) ELSE items[j]]

\* Mutant of Matches: the version is not looked at.
MatchesAny(o) == TRUE

\* The version in the filter of the update, for all but $push.
Matches(o) == o.write.how = "push" \/ cart.v = o.v

\* cart.save(); a version that does not match throws.
SaveCart(r) ==
  LET o == op[r]
      w == o.write
  IN
  /\ o.at = "save"
  /\ cart' = IF ~Matches(o) THEN cart
             ELSE CASE w.how = "push"  -> [cart EXCEPT !.v = @ + 1, !.items = @ \o w.items]
                    [] w.how = "set"   -> [cart EXCEPT !.items = InPlace(@, w.i, Head(w.items))]
                    [] w.how = "whole" -> [cart EXCEPT !.v = @ + 1, !.items = w.items]
  /\ Become(r, Idle)

OfStore(item, s) == item.p # None /\ Home[item.p] = s

\* The $pull of createOrder, for an order from store s.
PullOrdered(s) ==
  /\ LET others == {i \in DOMAIN cart.items : ~OfStore(cart.items[i], s)} IN
       cart' = [cart EXCEPT !.items = Kept(@, others)]
  /\ UNCHANGED op

\* A database error or the end of the process.
Crash(r) ==
  /\ op[r].at # "idle"
  /\ Become(r, Idle)
  /\ UNCHANGED cart

-----------------------------------------------------------------------------
Request(r) ==
  \/ GetCart(r)
  \/ ClearCart(r)
  \/ \E p \in Products, c \in Variants :
       \/ \E n \in Quantities, stock \in 0..MaxQuantity : AddToCart(r, p, c, n, stock)
       \/ \E n \in 0..MaxQuantity : UpdateCartItem(r, p, c, n)
       \/ RemoveFromCart(r, p, c)

Step(r) == ReadCart(r) \/ CreateCart(r) \/ ReadStock(r) \/ SaveCart(r)

Next == \E r \in Procs : Request(r) \/ Step(r) \/ Crash(r)

-----------------------------------------------------------------------------
\* Properties.

TypeOK ==
  /\ cart \in Cart
  /\ \A i \in DOMAIN cart.items : cart.items[i].p # None => cart.items[i].n >= 1
  /\ op \in [Procs -> Operation]

Holds(c, p, v) == \E i \in DOMAIN c.items : c.items[i].p = p /\ c.items[i].c = v

\* The end of a request to remove p in variant v, or to clear the cart.
RemovalEnds(p, v) ==
  \E r \in Procs :
    /\ op'[r] # op[r]
    /\ \/ op[r].kind \in {"update", "remove"} /\ op[r].p = p /\ op[r].c = v
       \/ op[r].kind = "clear"
=============================================================================
