-------------------------------- MODULE Orders --------------------------------
(***************************************************************************)
(* MarketplaceSystem: the products of a store, the orders placed on them,  *)
(* and the handlers that change them.                                      *)
(*                                                                         *)
(* createOrder runs in a MongoDB transaction: it reads one snapshot, and   *)
(* its writes are committed together, unless a document it writes has been *)
(* written since the snapshot; withTransaction then runs it again.  Every  *)
(* other handler makes its database calls one at a time.                   *)
(*                                                                         *)
(* A line of an order asks for a quantity of a product or of one of its    *)
(* variants.  Prices are left out: amounts of money are counted in units   *)
(* sold.  Disputes are left out: no route lets an order become disputed.   *)
(***************************************************************************)
EXTENDS Integers, Sequences, FiniteSets, Functions

CONSTANTS
  Products,      \* products of the store
  Variants,      \* the variants of every product
  Total,         \* the counter of the product itself (no variantIndex)
  OrderIds,      \* orders that may be placed
  Procs,         \* requests that may be in flight together
  None,          \* no product, no order, nothing to change
  OnSale,        \* stock every counter of a product starts with
  MaxCount,      \* bound: no order is cancelled or delivered above this count
  MaxEdits,      \* bound: no variant is changed from this version on
  Baskets,       \* the lists of lines a request may order
  Edits,         \* the changes an owner may make to a product
  Enabled        \* the handlers of the instance

Kinds == {"order", "status", "edit", "delete", "adminProduct", "closeStore",
          "adminStore", "crash"}

StoreStatus   == {"pending", "active", "suspended", "closed"}
ProductStatus == {"draft", "active", "archived", "hidden"}
OrderStatus   == {"pending", "confirmed", "processing", "shipped", "delivered",
                  "cancelled", "refunded", "disputed"}

\* What UpdateOrderStatusDto lets a request ask for.
RequestedStatus == {"confirmed", "processing", "shipped", "delivered", "cancelled"}

Counters == Variants \cup {Total}

\* An item of an order; c is Total when there is no variantIndex.
Line == [p : Products, c : Counters, n : Nat \ {0}]

\* The counters the reservation and the restoration of a line change.
Touches(line) == {Total, line.c}

\* How much of a counter the lines of an order take together.
Quantities(items) == [i \in DOMAIN items |-> items[i].n]
Demand(items, p, c) ==
  SumFunctionOnSet(Quantities(items),
                   {i \in DOMAIN items : items[i].p = p /\ c \in Touches(items[i])})

\* The counters the lines of an order take from, and what they take of each.
TakenFrom(items) == UNION {{items[i].p} \X Touches(items[i]) : i \in DOMAIN items}
Takes(items) == [pc \in TakenFrom(items) |-> Demand(items, pc[1], pc[2])]

\* The total of an order, and what it adds to the revenue of the store.
Units(items) == SumFunctionOnSet(Quantities(items), DOMAIN items)

\* A product change: a status, the stock of a product without variants, or the list
\* of variants, with a stock for each; `other` is whether it changes anything else
\* of a variant, such as its price.
Edit == [st : ProductStatus \cup {None}, stock : Nat \cup {None},
         variants : [Variants -> Nat] \cup {None}, other : BOOLEAN]

ASSUME OrdersAssumption ==
  /\ Total \notin Variants
  /\ IsFiniteSet(Variants) /\ IsFiniteSet(OrderIds) /\ IsFiniteSet(Procs)
  /\ OnSale \in Nat /\ MaxCount \in Nat /\ MaxEdits \in Nat
  /\ Baskets \subseteq Seq(Line) \ {<<>>}
  /\ Edits \subseteq Edit
  /\ Enabled \subseteq Kinds
  /\ None \notin Products \cup OrderIds \cup ProductStatus \cup Nat

\* `v` is Mongoose's __v, raised when the variants are written.
Product == [exists : BOOLEAN, st : ProductStatus, v : Nat, sold : Nat,
            stock : [Counters -> Nat]]
Store   == [st : StoreStatus, orders : Nat, revenue : Nat]
Order   == [st : OrderStatus \cup {"unborn"}, paid : BOOLEAN, items : Seq(Line)]

Steps == {"idle", "commit", "restore", "revenue", "sold", "saveOrder", "verify",
          "saveProduct", "removeProduct", "updateProducts", "saveStore"}

VARIABLES
  store,      \* the store document
  products,   \* the products collection
  orders,     \* the orders collection
  op,         \* per slot, the request in flight
  been,       \* history: the statuses every order has had
  edited      \* history: the products whose stock the owner has written

vars == <<store, products, orders, op, been, edited>>

Operation ==
  [kind : Kinds \cup {"none"}, at : Steps,
   items : Seq(Line),                  \* the lines still to be placed or treated
   store : Store, products : [Products -> Product],   \* the documents it read
   o : OrderIds \cup {None}, p : Products \cup {None},
   to : OrderStatus \cup StoreStatus,  \* the status to be saved
   edit : Edit]                        \* the change to be saved

NoStore   == [st |-> "active", orders |-> 0, revenue |-> 0]
OnShelf   == [exists |-> TRUE, st |-> "active", v |-> 0, sold |-> 0,
              stock |-> [c \in Counters |->
                IF c = Total THEN OnSale * (IF Variants = {} THEN 1 ELSE Cardinality(Variants))
                             ELSE OnSale]]
Shelf     == [p \in Products |-> OnShelf]
NoEdit    == [st |-> None, stock |-> None, variants |-> None, other |-> FALSE]

Idle == [kind |-> "none", at |-> "idle", items |-> <<>>, store |-> NoStore,
         products |-> Shelf, o |-> None, p |-> None, to |-> "pending", edit |-> NoEdit]

\* An approved store whose products are on sale.
Init ==
  /\ store = NoStore
  /\ products = Shelf
  /\ orders = [o \in OrderIds |-> [st |-> "unborn", paid |-> FALSE, items |-> <<>>]]
  /\ op = [r \in Procs |-> Idle]
  /\ been = [o \in OrderIds |-> {}]
  /\ edited = {}

-----------------------------------------------------------------------------
Free(r, kind) == op[r].at = "idle" /\ kind \in Enabled

Become(r, o) == op' = [op EXCEPT ![r] = o]

\* Mutant of Sellable: every line is compared with the stock on its own.
SellablePerLine(s, ps, items) ==
  /\ s.st = "active"
  /\ \A i \in DOMAIN items :
       LET line == items[i] IN
       /\ ps[line.p].exists /\ ps[line.p].st = "active"
       /\ line.n <= ps[line.p].stock[line.c]

\* The checks and the guarded decrements of the transaction, on its snapshot:
\* as the decrements follow one another, the lines are covered together.
Sellable(s, ps, items) ==
  /\ s.st = "active"
  /\ \A i \in DOMAIN items :
       LET p == items[i].p IN
       /\ ps[p].exists /\ ps[p].st = "active"
       /\ \A c \in Touches(items[i]) : Demand(items, p, c) <= ps[p].stock[c]

\* The _id of an order is generated when it is created: no other order has it.
Unused(id) == orders[id].st = "unborn" /\ \A r \in Procs : op[r].o # id

\* createOrder, the transaction's reads.  Buyers do not own the store.
CreateOrder(r, id, items) ==
  /\ Free(r, "order")
  /\ Unused(id)
  /\ Sellable(store, products, items)
  /\ Become(r, [Idle EXCEPT !.kind = "order", !.at = "commit", !.o = id, !.items = items,
                            !.store = store, !.products = products])
  /\ UNCHANGED <<store, products, orders, been, edited>>

\* Mutant of Unwritten: the transaction does not write the store.
UnwrittenProducts(o) ==
  \A i \in DOMAIN o.items : products[o.items[i].p] = o.products[o.items[i].p]

\* No document the transaction writes has changed since its snapshot: the
\* products of the order and, for its totalOrders, the store.
Unwritten(o) ==
  /\ store = o.store
  /\ \A i \in DOMAIN o.items : products[o.items[i].p] = o.products[o.items[i].p]

\* createOrder, the commit.
CommitOrder(r) ==
  LET o == op[r] IN
  /\ o.at = "commit"
  /\ Unwritten(o)
  /\ orders' = [orders EXCEPT ![o.o] = [st |-> "pending", paid |-> FALSE, items |-> o.items]]
  /\ products' = [p \in Products |-> [products[p] EXCEPT
                    !.stock = [c \in Counters |-> IF <<p, c>> \in TakenFrom(o.items)
                                 THEN @[c] - Takes(o.items)[p, c] ELSE @[c]]]]
  /\ store' = [store EXCEPT !.orders = @ + 1]
  /\ been' = [been EXCEPT ![o.o] = @ \cup {"pending"}]
  /\ Become(r, Idle)
  /\ UNCHANGED edited

\* A write conflict: withTransaction reads a new snapshot, or gives up.
RetryOrder(r) ==
  LET o == op[r] IN
  /\ o.at = "commit"
  /\ ~Unwritten(o)
  /\ Become(r, IF Sellable(store, products, o.items)
                 THEN [o EXCEPT !.store = store, !.products = products]
                 ELSE Idle)
  /\ UNCHANGED <<store, products, orders, been, edited>>

-----------------------------------------------------------------------------
\* Mutant of Transitions: a pending order may be shipped at once.
TransitionsSkip(st) ==
  CASE st = "pending"    -> {"confirmed", "shipped", "cancelled"}
    [] st = "confirmed"  -> {"processing", "cancelled"}
    [] st = "processing" -> {"shipped", "cancelled"}
    [] st = "shipped"    -> {"delivered"}
    [] OTHER             -> {}

\* validTransitions
Transitions(st) ==
  CASE st = "pending"    -> {"confirmed", "cancelled"}
    [] st = "confirmed"  -> {"processing", "cancelled"}
    [] st = "processing" -> {"shipped", "cancelled"}
    [] st = "shipped"    -> {"delivered"}
    [] st = "delivered"  -> {"disputed"}
    [] st = "disputed"   -> {"refunded", "delivered"}
    [] OTHER             -> {}

\* Who may ask for a status: the owner of the store, the buyer, anybody else.
Permitted(by, to) ==
  /\ to \in {"confirmed", "processing", "shipped"} => by = "owner"
  /\ to = "cancelled" => by \in {"owner", "buyer"}
  /\ to = "delivered" => by = "buyer"

\* Mutant of FirstCall: the stock of a cancelled order is not restored.
FirstCallNoRestore(to) == IF to = "delivered" THEN "revenue" ELSE "saveOrder"

\* What updateOrderStatus does before it saves the order.
FirstCall(to) ==
  CASE to = "cancelled" -> "restore"
    [] to = "delivered" -> "revenue"
    [] OTHER            -> "saveOrder"

\* Bound: orders that add to a counter.
BelowBound ==
  /\ store.revenue < MaxCount
  /\ \A p \in Products, c \in Counters : products[p].stock[c] < MaxCount

\* updateOrderStatus
UpdateOrderStatus(r, id, by, to) ==
  /\ Free(r, "status")
  /\ to \in {"cancelled", "delivered"} => BelowBound
  /\ to \in Transitions(orders[id].st)
  /\ Permitted(by, to)
  /\ Become(r, [Idle EXCEPT !.kind = "status", !.at = FirstCall(to), !.o = id,
                            !.to = to, !.items = orders[id].items])
  /\ UNCHANGED <<store, products, orders, been, edited>>

\* The next line of the loop over order.items, the save after the last one.
NextLine(o) ==
  IF Len(o.items) = 1 THEN [o EXCEPT !.at = "saveOrder", !.items = <<>>]
  ELSE [o EXCEPT !.items = Tail(@)]

\* findByIdAndUpdate of a line's product.
OnProduct(p, f(_)) ==
  products' = IF products[p].exists THEN [products EXCEPT ![p] = f(@)] ELSE products

RestoreLine(r) ==
  LET o == op[r]
      line == Head(o.items)
      Restored(d) == [d EXCEPT !.stock = [c \in Counters |->
                        IF c \in Touches(line) THEN @[c] + line.n ELSE @[c]]]
  IN
  /\ o.at = "restore"
  /\ OnProduct(line.p, Restored)
  /\ Become(r, NextLine(o))
  /\ UNCHANGED <<store, orders, been, edited>>

\* Mutant of Earned: one unit is counted per order.
EarnedPerOrder(items) == 1

Earned(items) == Units(items)

CountRevenue(r) ==
  LET o == op[r] IN
  /\ o.at = "revenue"
  /\ store' = [store EXCEPT !.revenue = @ + Earned(o.items)]
  /\ Become(r, [o EXCEPT !.at = "sold"])
  /\ UNCHANGED <<products, orders, been, edited>>

CountSold(r) ==
  LET o == op[r]
      line == Head(o.items)
      Sold(d) == [d EXCEPT !.sold = @ + line.n]
  IN
  /\ o.at = "sold"
  /\ OnProduct(line.p, Sold)
  /\ Become(r, NextLine(o))
  /\ UNCHANGED <<store, orders, been, edited>>

\* order.save(): the status is written whatever it has become.
SaveOrder(r) ==
  LET o == op[r] IN
  /\ o.at = "saveOrder"
  /\ orders' = [orders EXCEPT ![o.o].st = o.to,
                              ![o.o].paid = @ \/ o.to = "delivered"]
  /\ been' = [been EXCEPT ![o.o] = @ \cup {o.to}]
  /\ Become(r, Idle)
  /\ UNCHANGED <<store, products, edited>>

-----------------------------------------------------------------------------
\* updateProduct, deleteProduct: the product is loaded, then the store.
UpdateProduct(r, p, e) ==
  /\ Free(r, "edit")
  /\ products[p].exists
  /\ e.other => products[p].v < MaxEdits   \* bound
  /\ Become(r, [Idle EXCEPT !.kind = "edit", !.at = "verify", !.p = p,
                            !.edit = e, !.products = products])
  /\ UNCHANGED <<store, products, orders, been, edited>>

DeleteProduct(r, p) ==
  /\ Free(r, "delete")
  /\ products[p].exists
  /\ Become(r, [Idle EXCEPT !.kind = "delete", !.at = "verify", !.p = p])
  /\ UNCHANGED <<store, products, orders, been, edited>>

VerifyStoreOwnership(r) ==
  LET o == op[r] IN
  /\ o.at = "verify"
  /\ Become(r, IF store.st \in {"suspended", "closed"} THEN Idle
               ELSE [o EXCEPT !.at = IF o.kind = "edit" THEN "saveProduct"
                                                        ELSE "removeProduct"])
  /\ UNCHANGED <<store, products, orders, been, edited>>

\* adminUpdateProductStatus
AdminUpdateProductStatus(r, p, st) ==
  /\ Free(r, "adminProduct")
  /\ products[p].exists
  /\ Become(r, [Idle EXCEPT !.kind = "adminProduct", !.at = "saveProduct", !.p = p,
                            !.edit.st = st, !.products = products])
  /\ UNCHANGED <<store, products, orders, been, edited>>

\* The stock an edit asks for: the variants' sum when it lists variants.
Wanted(d, e) ==
  IF e.variants # None
    THEN [c \in Counters |-> IF c = Total THEN SumFunctionOnSet(e.variants, Variants)
                             ELSE e.variants[c]]
  ELSE IF e.stock # None THEN [d.stock EXCEPT ![Total] = e.stock]
  ELSE d.stock

\* product.save(): what differs from the loaded copy is written.  The array of
\* variants is written whole, with the stock it was sent, when anything in it
\* differs, and only if the version is still the one loaded.
SaveProduct(r) ==
  LET o == op[r]
      d == o.products[o.p]
      now == products[o.p]
      want == Wanted(d, o.edit)
      rewrites == /\ o.edit.variants # None
                  /\ o.edit.other \/ \E v \in Variants : want[v] # d.stock[v]
      Written(c) == IF c = Total THEN want[c] # d.stock[c] ELSE rewrites
  IN
  /\ o.at = "saveProduct"
  /\ IF now.exists /\ (rewrites => now.v = d.v)
       THEN /\ products' = [products EXCEPT
                 ![o.p].st = IF o.edit.st \in {None, d.st} THEN @ ELSE o.edit.st,
                 ![o.p].v = IF rewrites THEN @ + 1 ELSE @,
                 ![o.p].stock = [c \in Counters |-> IF Written(c) THEN want[c] ELSE @[c]]]
            /\ edited' = IF want = d.stock /\ ~rewrites THEN edited ELSE edited \cup {o.p}
       ELSE UNCHANGED <<products, edited>>
  /\ Become(r, Idle)
  /\ UNCHANGED <<store, orders, been>>

RemoveProduct(r) ==
  LET o == op[r] IN
  /\ o.at = "removeProduct"
  /\ products' = [products EXCEPT ![o.p].exists = FALSE]
  /\ Become(r, Idle)
  /\ UNCHANGED <<store, orders, been, edited>>

-----------------------------------------------------------------------------
\* closeStore archives the products first.
CloseStore(r) ==
  /\ Free(r, "closeStore")
  /\ store.st # "closed"
  /\ Become(r, [Idle EXCEPT !.kind = "closeStore", !.at = "updateProducts",
                            !.to = "closed", !.store = store])
  /\ UNCHANGED <<store, products, orders, been, edited>>

\* adminUpdateStoreStatus hides the products of a store it suspends.
AdminUpdateStoreStatus(r, st) ==
  /\ Free(r, "adminStore")
  /\ Become(r, [Idle EXCEPT !.kind = "adminStore", !.to = st, !.store = store,
                  !.at = IF st = "suspended" THEN "updateProducts" ELSE "saveStore"])
  /\ UNCHANGED <<store, products, orders, been, edited>>

\* products.updateMany
UpdateProducts(r) ==
  LET o == op[r]
      st(d) == IF o.kind = "closeStore" THEN "archived"
               ELSE IF d.st = "active" THEN "hidden" ELSE d.st
  IN
  /\ o.at = "updateProducts"
  /\ products' = [p \in Products |-> [products[p] EXCEPT !.st = st(products[p])]]
  /\ Become(r, [o EXCEPT !.at = "saveStore"])
  /\ UNCHANGED <<store, orders, been, edited>>

\* store.save()
SaveStore(r) ==
  LET o == op[r] IN
  /\ o.at = "saveStore"
  /\ store' = [store EXCEPT !.st = IF o.to = o.store.st THEN @ ELSE o.to]
  /\ Become(r, Idle)
  /\ UNCHANGED <<products, orders, been, edited>>

\* A database error or the end of the process: an open transaction is aborted,
\* what else is written stays.
Crash(r) ==
  /\ "crash" \in Enabled
  /\ op[r].at # "idle"
  /\ Become(r, Idle)
  /\ UNCHANGED <<store, products, orders, been, edited>>

AtRest == (\A r \in Procs : op[r].at = "idle") /\ UNCHANGED vars

-----------------------------------------------------------------------------
Request(r) ==
  \/ \E id \in OrderIds, items \in Baskets : CreateOrder(r, id, items)
  \/ \E id \in OrderIds, by \in {"owner", "buyer", "other"}, to \in RequestedStatus :
       UpdateOrderStatus(r, id, by, to)
  \/ \E p \in Products : \/ \E e \in Edits : UpdateProduct(r, p, e)
                         \/ DeleteProduct(r, p)
                         \/ \E st \in {"active", "hidden"} : AdminUpdateProductStatus(r, p, st)
  \/ CloseStore(r)
  \/ \E st \in {"active", "suspended", "closed"} : AdminUpdateStoreStatus(r, st)

\* The next database call of the request in slot r.
Step(r) ==
  \/ CommitOrder(r) \/ RetryOrder(r)
  \/ RestoreLine(r) \/ CountRevenue(r) \/ CountSold(r) \/ SaveOrder(r)
  \/ VerifyStoreOwnership(r) \/ SaveProduct(r) \/ RemoveProduct(r)
  \/ UpdateProducts(r) \/ SaveStore(r)

Next ==
  \/ \E r \in Procs : Request(r) \/ Step(r) \/ Crash(r)
  \/ AtRest

Spec == Init /\ [][Next]_vars

-----------------------------------------------------------------------------
\* Properties.

TypeOK ==
  /\ store \in Store
  /\ products \in [Products -> Product]
  /\ orders \in [OrderIds -> Order]
  /\ op \in [Procs -> Operation]
  /\ been \in [OrderIds -> SUBSET OrderStatus]
  /\ edited \subseteq Products

\* What a buyer sees of the store.
Shop == INSTANCE Checkout WITH
  open    <- store.st = "active",
  onSale  <- {p \in Products : products[p].exists /\ products[p].st = "active"},
  stock   <- [pc \in Products \X Counters |-> products[pc[1]].stock[pc[2]]],
  takes   <- [id \in OrderIds |-> Takes(orders[id].items)],
  status  <- [id \in OrderIds |-> orders[id].st],
  Takings <- {Takes(items) : items \in Baskets}

\* The orders of the code are those of Checkout: placed in one step, when everything
\* is on sale and in stock, although the checks (order.service.ts:39-70) are made on
\* an older snapshot, and moved along the stages they have been in, although
\* updateOrderStatus writes what it checked on an older copy.
ImplementsCheckout == Shop!Spec

\* What the orders that stand take of a counter.
Standing(p, c) ==
  SumFunctionOnSet([id \in OrderIds |-> Demand(orders[id].items, p, c)],
                   {id \in OrderIds : orders[id].st # "cancelled"})

\* No stock is lost: what was put on sale is on the shelf or in an order that
\* is not cancelled, whatever cancellations race or break off
\* (order.service.ts:277-294 restores before it saves).
NoStockLost ==
  \A p \in Products \ edited, c \in Counters :
    products[p].exists =>
      products[p].stock[c] + Standing(p, c) >= OnShelf.stock[c]

\* A status is reached by the stages of validTransitions only, even though the
\* status written may come from a copy read long ago (order.service.ts:239-319).
NoStageSkipped ==
  \A id \in OrderIds :
    /\ "delivered" \in been[id]  => "shipped" \in been[id]
    /\ "shipped" \in been[id]    => "processing" \in been[id]
    /\ "processing" \in been[id] => "confirmed" \in been[id]
    /\ "confirmed" \in been[id]  => "pending" \in been[id]

\* The revenue of the store covers every order that was paid, deliveries that
\* race or break off included (order.service.ts:300-312).
PaidOrdersAreCounted ==
  SumFunctionOnSet([id \in OrderIds |-> Units(orders[id].items)],
                   {id \in OrderIds : orders[id].paid}) <= store.revenue

-----------------------------------------------------------------------------
\* MarketplaceSystem/README.md:282, "cancelled --> [*]": the end of an order.
CancelledIsFinal ==
  [][\A id \in OrderIds :
       orders[id].st = "cancelled" => orders'[id].st = "cancelled"]_vars
=============================================================================
